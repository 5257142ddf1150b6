------------------------- MODULE MCRefreshScheduler -------------------------
(* A district a with its parent p, and a city b; one job slot less than    *)
(* stations, so that a due station has to wait.                            *)
EXTENDS RefreshScheduler

CONSTANTS a, b, p

MCParent == [s \in {a, b, p} |-> IF s = a THEN p ELSE Absent]

On(s) == [name |-> s, enabled |-> TRUE]
Off(s) == [name |-> s, enabled |-> FALSE]

\* All stations with the shortest lifetime (0 is raised to 1), the district
\* disabled with a longer one, and a lifetime too long to be represented.
MCConfigs == {[stations |-> <<On(a), On(b)>>, ttl |-> 0],
              [stations |-> <<On(b), Off(a)>>, ttl |-> 2],
              [stations |-> <<On(b), On(a), On(p)>>, ttl |-> Never]}

\* For liveness: the shortest lifetime, and the district without its sibling.
MCLiveConfigs == {[stations |-> <<On(a), On(b)>>, ttl |-> 0],
                  [stations |-> <<On(a), Off(b)>>, ttl |-> Never]}
=============================================================================
