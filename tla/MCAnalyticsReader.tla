------------------------- MODULE MCAnalyticsReader -------------------------
(* Questions asked while one tenant is exported, on a small instance.      *)
EXTENDS AnalyticsReader

CONSTANTS m1, m2, p1, p2, l1, r1

\* Each movement names a product of its own when there are two.
MCProductOf == [m \in Movements |-> IF m = m1 \/ p2 \notin Products THEN p1 ELSE p2]
MCLocationOf == [m \in Movements |-> l1]

===========================================================================
