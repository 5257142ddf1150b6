------------------------- MODULE MCSnapshotContent -------------------------
(***************************************************************************)
(* What a weather answer carries: the documents NmcProvider maps, the      *)
(* temperatures TemperatureHistory keeps and the images ResourceCache      *)
(* serves.  A behaviour exercises one of them; the others stay in their    *)
(* initial state.                                                          *)
(***************************************************************************)
EXTENDS NmcProvider, TemperatureHistory, ResourceCache

CONSTANTS small, mid, mid2, huge

VARIABLE content   \* the module this behaviour exercises

\* Bodies of one and two chunks, the latter in two versions, and one too large.
MCSize == [b \in Bodies |-> CASE b = small -> 1 [] b = huge -> 4 [] OTHER -> 2]

Entry(d, hi, lo) == [md |-> IF d = Blank THEN Blank ELSE d % YearLength, max |-> hi, min |-> lo]
Issued(a) == [alert |-> a, inherited |-> FALSE]
\* All there is; today's high missing and an undated chart; almost nothing.
MCReports(d) ==
    {[predict |-> <<Entry(d, 20 + d, 10), Entry(d + 1, 31 + d, 10)>>, chart |-> <<>>,
      passed |-> <<>>, alerts |-> <<Issued("wind")>>, air |-> TRUE],
     [predict |-> <<Entry(d, NoTemp, 11), Entry(d + 1, 31 + d, NoTemp)>>,
      chart |-> <<Entry(Blank, NoTemp, 9)>>,
      passed |-> <<[md |-> (d - 1) % YearLength, temp |-> 40], [md |-> Blank, temp |-> 15]>>,
      alerts |-> <<>>, air |-> FALSE],
     [predict |-> <<Entry(d + 1, NoTemp, NoTemp)>>,
      chart |-> <<Entry(d - 1, 40, NoTemp), Entry(d, NoTemp, NoTemp)>>,
      passed |-> <<>>, alerts |-> <<>>, air |-> FALSE]}
MCParents == {[fresh |-> TRUE, alerts |-> <<Issued("wind"), Issued("heat")>>, air |-> TRUE],
              [fresh |-> FALSE, alerts |-> <<Issued("heat")>>, air |-> TRUE]}

\* Every value in the places of a document, beside another one.
Leaves == {Null, Bool, Object([f \in {} |-> Null]), Array(<<>>), Array(<<Null, Text("word")>>)}
          \union {Text(x) : x \in {"word", "no url", "grade", "count", "fraction", "infinite", "sentinel", "dash"}}
          \union {Number(x) : x \in {"grade", "count", "fraction", "sentinel"}}
Others == {Null, Bool, Number("grade"), Text("dash"), Text("word")}
Documents(v, w) ==
    LET both == Object("province" :> v @@ "city" :> w)
        forecast == Object("date" :> v @@ "day" :> Object("weather" :> w))
    IN {"air" :> Object("aqi" :> v @@ "AQI" :> w), "air" :> Object("level" :> v @@ "aq" :> w),
        "air" :> Object("aqi_level" :> w @@ "aq" :> v), "air" :> v, "air" :> Object("unknown" :> v),
        "tempchart" :> Array(<<Object("max_temperature" :> v @@ "max" :> w), w>>),
        "tempchart" :> Object("time" :> v @@ "min" :> w),
        "passedchart" :> Array(<<Object("time" :> v), Object("temperature" :> w @@ "temp" :> v)>>),
        "passedchart" :> v, "radar" :> Object("title" :> w @@ "image" :> v @@ "img" :> w),
        "climate" :> Object("month" :> v @@ "months" :> Array(<<Object("mon" :> w), v>>)),
        "climate" :> Object("range" :> v @@ "months" :> Object("rain" :> w)),
        "real" :> Object("weather" :> Object("temperature" :> v @@ "info" :> w) @@ "wind" :> w),
        "real" :> Object("warn" :> Object("alert" :> v @@ "pic" :> w)),
        "real" :> Object("station" :> both) @@ "predict" :> Object("station" :> v),
        "real" :> v @@ "predict" :> Object("station" :> both @@ "detail" :> w),
        "predict" :> Object("detail" :> Array(<<forecast, v>>))}
MCWeatherBodies ==
    {[code |-> 0, data |-> Object(d)] : d \in UNION {Documents(v, w) : v \in Leaves, w \in Others}}
    \union {[code |-> 1, data |-> Null], [code |-> 0, data |-> Null], [code |-> 0, data |-> Text("word")]}

\* The values of these documents, and how deep they nest.
MCValues ==
    LET within[n \in 0..MaxDepth] ==
            IF n = 0 THEN {b.data : b \in MCWeatherBodies}
            ELSE UNION {PartsOf(v) : v \in within[n - 1]}
    IN  UNION {within[n] : n \in 0..MaxDepth}
MCDepth[v \in MCValues] ==
    IF PartsOf(v) = {} THEN 0 ELSE 1 + Max({MCDepth[p] : p \in PartsOf(v)})
MCCatalogBodies ==
    {<<[code |-> Text("word"), name |-> Text("dash"), url |-> Text("word")],
       [code |-> Text("count"), name |-> Text(n), url |-> Text(u)]>> :
        n \in {"word", "dash", "sentinel"}, u \in {"word", "dash", "no url"}} \union {<<>>}

MCInit ==
    /\ ResourceInit /\ HistoryInit /\ ProviderInit
    /\ content \in {"documents", "temperatures", "images"}
    /\ content # "temperatures" => parent.fresh

DocumentStep == content = "documents" /\ ProviderNext /\ UNCHANGED <<content, historyVars, resourceVars>>
TemperatureStep == content = "temperatures" /\ HistoryNext /\ UNCHANGED <<content, providerVars, resourceVars>>
ImageStep == content = "images" /\ ResourceNext /\ UNCHANGED <<content, providerVars, historyVars>>

MCSpec == MCInit /\ [][DocumentStep \/ TemperatureStep \/ ImageStep]_<<content, providerVars, historyVars, resourceVars>>
=============================================================================
