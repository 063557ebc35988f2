------------------------- MODULE ExportRunInductive -------------------------
(***************************************************************************)
(* The inductive invariant the safety properties of ExportRun rest on.     *)
(***************************************************************************)
EXTENDS ExportRun

Reached(c) == IF c.through # NULL THEN c.through ELSE FIRST

\* A window on record starts where the last one confirmed ended, and no window
\* ends ahead of the horizon.
RowIsTrue(c) ==
    /\ c.through <= nextXid
    /\ \/ Pending(c) = NoWindow
       \/ /\ c.pendingFrom = Reached(c)
          /\ c.pendingFrom < c.pendingTo
          /\ c.pendingTo <= nextXid

\* What is in the lake was recorded, and all that was recorded below the point
\* reached is in it.
TenantIsTrue(t) ==
    /\ \A x \in recorded[t] : x < nextXid
    /\ published[t] \subseteq recorded[t]
    /\ RowIsTrue(cursor[t])
    /\ \A x \in recorded[t] : x < cursor[t].through => x \in published[t]

\* Where the movements that no report has counted yet begin: a window that has been
\* confirmed is counted when its tenant is answered for.
Uncounted(t) ==
    IF stage = "mark" /\ t \in current /\ window # NoWindow THEN window.from
    ELSE cursor[t].through

CountedBelow(t) ==
    announced[t] <= Cardinality({x \in published[t] : x < Uncounted(t)})

\* What is owed to a tenant the run has not come to yet will be in its next window.
WaitingIsOwed(t) ==
    \A x \in due[t].owed :
        x \in recorded[t] /\ (Pending(cursor[t]) # NoWindow => x < cursor[t].pendingTo)

\* The tenant being carried: its window is the one on record until it is confirmed,
\* and covers what is owed and not carried before.
CarriedIsOwed(t) ==
    /\ \A x \in due[t].owed : x \in recorded[t]
    /\ stage \in {"write", "confirm"} =>
        /\ window = Pending(cursor[t])
        /\ \A x \in due[t].owed :
              x < IF window # NoWindow THEN window.to ELSE cursor[t].through
    /\ stage \in {"confirm", "mark"} => RowsIn(window, t) \subseteq published[t]
    /\ stage = "confirm" => window # NoWindow
    /\ stage = "mark" =>
        /\ Pending(cursor[t]) = NoWindow
        /\ \A x \in due[t].owed : x < cursor[t].through
        /\ window # NoWindow => window.from < window.to /\ window.to = cursor[t].through

\* A tenant answered for without failure.
Whole(t) ==
    /\ Pending(cursor[t]) = NoWindow
    /\ \A x \in due[t].owed : x < cursor[t].through /\ x \in published[t]

\* The run between its beginning and its end.
RunIsTrue ==
    /\ stage # "idle" => exitStatus = "none"
    /\ stage \in {"probe", "list"} => scope = {}
    /\ IF stage \in {"write", "confirm", "mark"} THEN \E t \in scope : current = {t}
       ELSE current = {} /\ window = NoWindow
    /\ current \cap Answered = {}
    /\ exitStatus = "success" => Answered = scope /\ Succeeded

TenantOfRun(t) ==
    /\ TenantIsTrue(t)
    /\ CountedBelow(t)
    /\ stage # "idle" /\ t \in Left \ current => WaitingIsOwed(t)
    /\ t \in current => CarriedIsOwed(t)
    /\ t \in Answered /\ outcomes[t] # "failed" => Whole(t)

RunInv == RunIsTrue /\ \A t \in Tenants : TenantOfRun(t)

=============================================================================
