--------------------------- MODULE MCDataServices ---------------------------
(***************************************************************************)
(* Catalog and WeatherService for TLC.  A behaviour exercises one of them; *)
(* the other stays in an initial state, where nothing of it is due.        *)
(***************************************************************************)
EXTENDS Catalog, WeatherService

VARIABLE service   \* the module this behaviour exercises

vars == <<service, catalogVars, weatherVars>>

MCInit ==
    /\ Init /\ WxInit
    /\ service \in {"catalog", "weather"}
    /\ service # "catalog" => provState = "none"
    /\ service # "weather" => newest = Never

CatalogStep == service = "catalog" /\ Next /\ UNCHANGED <<service, weatherVars>>
WeatherStep == service = "weather" /\ WxNext /\ UNCHANGED <<service, catalogVars>>

MCSpec == MCInit /\ [][CatalogStep \/ WeatherStep]_vars /\ Fairness
=============================================================================
