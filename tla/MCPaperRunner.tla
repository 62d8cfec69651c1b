--------------------------- MODULE MCPaperRunner ---------------------------
(* Price ladders for TLC.  Zone "a" lies above zone "b".                    *)
EXTENDS PaperRunner

\* A lone zone: a low of 3 stays above it, 1 goes through the limit, 0 breaks it
\* and reaches the stop.
LoneZones  == {"a"}
LoneTop    == [z \in LoneZones |-> 2]
LoneBottom == [z \in LoneZones |-> 1]
LoneStop   == [z \in LoneZones |-> 0]
LoneLows   == {0, 1, 3}

\* Two zones; the limit of "b" lies on the stop of "a".  PairLows stops short of
\* the stop of "b"; CrashLows reaches it.
PairZones  == {"a", "b"}
PairTop    == [z \in PairZones |-> IF z = "a" THEN 4 ELSE 2]
PairBottom == [z \in PairZones |-> IF z = "a" THEN 3 ELSE 1]
PairStop   == [z \in PairZones |-> IF z = "a" THEN 2 ELSE 0]
PairLows   == {1, 3, 5}
CrashLows  == {0, 1, 3, 5}
=============================================================================
