---------------------------- MODULE ExportLedger ----------------------------
(***************************************************************************)
(* What the export of a tenant promises the reader of the lake, with none  *)
(* of its mechanism: movements are recorded, each is published once, only  *)
(* after it was recorded, and is confirmed as carried only once published. *)
(* Nothing is ever withdrawn.                                              *)
(***************************************************************************)
CONSTANT Movements

VARIABLES
    recorded,    \* movements committed in the database
    presence,    \* how often each appears in the published data
    confirmed    \* movements below the point the tenant is carried through

vars == <<recorded, presence, confirmed>>

Init ==
    /\ recorded = {}
    /\ presence = [m \in Movements |-> "absent"]
    /\ confirmed = {}

Record(m) ==
    /\ m \notin recorded
    /\ recorded' = recorded \cup {m}
    /\ UNCHANGED <<presence, confirmed>>

\* One object: any set of recorded movements none of which is published yet.
Publish(S) ==
    /\ \A m \in S : m \in recorded /\ presence[m] = "absent"
    /\ presence' = [m \in Movements |-> IF m \in S THEN "once" ELSE presence[m]]
    /\ UNCHANGED <<recorded, confirmed>>

Confirm(S) ==
    /\ \A m \in S : m \in recorded /\ presence[m] = "once"
    /\ confirmed' = confirmed \cup S
    /\ UNCHANGED <<recorded, presence>>

Next ==
    \/ \E m \in Movements : Record(m)
    \/ \E S \in SUBSET Movements : Publish(S) \/ Confirm(S)

Spec == Init /\ [][Next]_vars

=============================================================================
