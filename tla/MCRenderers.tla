---------------------------- MODULE MCRenderers ----------------------------
(***************************************************************************)
(* Tui, Gui and StationCli for TLC.  The three are separate programs that  *)
(* share nothing but the engine: a behaviour exercises one of them, and    *)
(* the others stay in an initial state.                                    *)
(***************************************************************************)
EXTENDS Tui, Gui, StationCli, TLC

CONSTANTS q1, q2, q3

MCLists == {<<[name |-> "a", enabled |-> TRUE]>>,
            <<[name |-> "a", enabled |-> TRUE], [name |-> "b", enabled |-> TRUE]>>}
MCFound == (q1 :> <<"a", "b">>) @@ (q2 :> <<"b">>) @@ (q3 :> <<>>)
CallSymmetry == Permutations(Calls)

\* Province 1 has two spellings of its own name, province 2 two districts.
City(p, c, i) == [prov |-> p, city |-> c, id |-> i]
MCCatalogs == {{City(1, 0, 1), City(1, 1, 2), City(1, 2, 3), City(2, 2, 4), City(2, 3, 5)},
               {City(1, 1, 2), City(2, 2, 4), City(2, 3, 6)}}
Search(prov, city, station, path, sel, limit, provRank, cityRank) ==
    [prov |-> prov, city |-> city, station |-> station, path |-> path, sel |-> sel,
     limit |-> limit, provRank |-> provRank, cityRank |-> cityRank]
NoRank == <<3, 3>>
CityRanks(r0, r1, r2, r3) == (0 :> r0) @@ (1 :> r1) @@ (2 :> r2) @@ (3 :> r3)
MCSearches ==
    {Search(None, None, None, None, 0, 3, <<1, 3>>, CityRanks(3, 3, 3, 2)),
     Search(2, None, None, None, 0, 9, <<2, 0>>, CityRanks(3, 3, 3, 3)),
     Search(None, 2, None, None, 2, 3, NoRank, CityRanks(3, 3, 0, 3)),
     Search(None, None, 2, None, 0, 2, <<2, 2>>, CityRanks(2, 1, 0, 2)),
     Search(None, None, None, <<2, 3>>, 0, 3, <<2, 2>>, CityRanks(2, 2, 2, 0)),
     Search(None, None, None, None, 0, 0, NoRank, CityRanks(3, 3, 3, 0))}
ByName(n) == [name |-> n, index |-> 0]
ByIndex(i) == [name |-> None, index |-> i]
MCCommands ==
    {[op |-> "search", search |-> s] : s \in MCSearches}
    \union {[op |-> o, search |-> s] : o \in {"add", "once"}, s \in {x \in MCSearches : x.path # None \/ x.station # None}}
    \union {[op |-> o, sel |-> x] : o \in {"remove", "enable", "disable"}, x \in {ByName(<<2, 3>>), ByIndex(2)}}
    \union {[op |-> "move", sel |-> ByIndex(3), to |-> ByIndex(1)], [op |-> "list"]}
Row(n) == [name |-> n, enabled |-> FALSE]
MCStationLists == {<<Row(<<1, 0>>), Row(<<2, 2>>), Row(<<2, 3>>)>>}

VARIABLE renderer   \* the renderer this behaviour exercises

MCInit ==
    /\ Init /\ GuiInit /\ CliInit
    /\ renderer \in {"terminal", "desktop", "commands"}
    /\ renderer # "terminal" => Len(stations) = 1
    /\ renderer # "commands" => Cardinality(catalog) = 3

TerminalStep == renderer = "terminal" /\ Next /\ UNCHANGED <<renderer, guiVars, cliVars>>
DesktopStep == renderer = "desktop" /\ GuiNext /\ UNCHANGED <<renderer, vars, cliVars>>
CommandStep == renderer = "commands" /\ CliNext /\ UNCHANGED <<renderer, vars, guiVars>>

MCSpec ==
    MCInit /\ [][TerminalStep \/ DesktopStep \/ CommandStep]_<<renderer, vars, guiVars, cliVars>>
=============================================================================
