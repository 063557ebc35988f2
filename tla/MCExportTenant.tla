-------------------------- MODULE MCExportTenant --------------------------
(* The export of one tenant on a small instance.                           *)
EXTENDS ExportRefinement, TLC

CONSTANTS m1, m2, m3, p1, p2, l1, r1, r2

\* Movements name the products in turn and share one location.
MCProductOf == [m \in Movements |-> IF m = m1 \/ p2 \notin Products THEN p1 ELSE p2]
MCLocationOf == [m \in Movements |-> l1]

\* Runners are interchangeable.
RunnerSymmetry == Permutations(Runners)

===========================================================================
