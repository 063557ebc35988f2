-------------------------- MODULE ExportInductive --------------------------
(***************************************************************************)
(* The inductive invariants the safety properties of ExportTenant rest on. *)
(***************************************************************************)
EXTENDS ExportTenant

\* No transaction below t is in flight, nor can one appear: identifiers are
\* handed out in order.
Settled(t) ==
    /\ t <= nextXid
    /\ \A m \in InFlight : t <= recordedXid[m]

CarriedBelow(t) == \A m \in Committed : recordedXid[m] < t => m \in Published

\* A window a run may carry: everything before it is published and nothing in
\* it can change any more.
GoodWindow(w) ==
    w # NoWindow =>
        /\ WellFormedWindow(w)
        /\ Settled(w.to)
        /\ CarriedBelow(w.from)

\* A cursor row as the repository reads it back: both pending columns or none.
GoodRow(c) ==
    /\ GoodWindow(Pending(c))
    /\ Settled(c.through)
    /\ CarriedBelow(c.through)

\* The movements an object holds are decided by its key alone.
DayRows(day, w) == {m \in MovementsIn(w) : Day(recordedAt[m]) = day}

IdentifiersInOrder ==
    \A m \in Movements : status[m] \in {"inserted", "committed", "aborted"} =>
        FIRST <= recordedXid[m] /\ recordedXid[m] < nextXid

ObjectsAreTrue ==
    \A o \in objects :
        /\ WellFormedWindow(o.key.window)
        /\ Settled(o.key.window.to)
        /\ o.rows = DayRows(o.key.day, o.key.window)

\* What the run has left to write is whole days of its window; the rest of the
\* window is published.
RunnerIsTrue(r) ==
    /\ GoodRow(seen[r])
    /\ GoodWindow(window[r])
    /\ pc[r] \in {"start", "confirm"} => window[r] # NoWindow
    /\ pc[r] \in {"read-products", "read-locations", "write-days"} =>
        /\ rows[r] \subseteq MovementsIn(window[r])
        /\ \A n \in MovementsIn(window[r]) \ rows[r] :
            /\ n \in Published
            /\ \A m \in rows[r] : Day(recordedAt[m]) # Day(recordedAt[n])
    /\ pc[r] \in {"write-locations", "confirm"} =>
        MovementsIn(window[r]) \subseteq Published

\* The inductive invariant behind NothingSkipped, PublishedIsFixed and
\* HorizonNeverBehind, for any number of overlapping runs.
IInv ==
    /\ IdentifiersInOrder
    /\ GoodRow(cursor)
    /\ ObjectsAreTrue
    /\ \A r \in Runners : RunnerIsTrue(r)

-----------------------------------------------------------------------------
(* Sequential runs.                                                        *)

\* At most one process ever runs the tenant's export.
Sequential == \A r, s \in Runners : r = s

Reached(c) == IF c.through # NULL THEN c.through ELSE FIRST

\* The window a run holds is the one on record from the claim to the
\* confirmation, and is about to be recorded just before.
RunnerOnRecord(r) ==
    /\ pc[r] = "horizon" => seen[r] = cursor
    /\ pc[r] = "start" =>
        IF Pending(cursor) # NoWindow THEN window[r] = Pending(cursor)
        ELSE window[r].from = Reached(cursor)
    /\ pc[r] \in {"read-movements", "read-products", "read-locations",
                  "write-days", "write-locations", "confirm"} =>
        window[r] = Pending(cursor)

WindowsDisjoint ==
    \A o1, o2 \in objects :
        \/ o1.key.window = o2.key.window
        \/ o1.key.window.to <= o2.key.window.from
        \/ o2.key.window.to <= o1.key.window.from

\* The inductive strengthening of ExactlyOnce and AttemptOnRecord.
SInv ==
    /\ Pending(cursor) # NoWindow => cursor.pendingFrom = Reached(cursor)
    /\ AttemptOnRecord
    /\ WindowsDisjoint
    /\ \A r \in Runners : RunnerOnRecord(r)

\* A catalogue in which a movement can be joined.
Lists(c, m) == ProductOf[m] \in c["products"] /\ LocationOf[m] \in c["locations"]

\* Nothing declared is withdrawn, and a row is inserted once what it names is.
RecordedAreDeclared ==
    \A m \in Movements :
        status[m] \in {"inserted", "committed", "aborted"} => Lists(declared, m)

\* What a run has read of the catalogue has what it will replace and what its
\* window needs, and what it has put has it too.
RunnerCarriesCatalogue(r) ==
    /\ \A d \in CatalogueDatasets : snapshot[r][d] \subseteq declared[d]
    /\ pc[r] \in {"read-locations", "write-days"} =>
        /\ catalogue["products"] \subseteq snapshot[r]["products"]
        /\ \A m \in MovementsIn(window[r]) : ProductOf[m] \in snapshot[r]["products"]
    /\ pc[r] \in {"write-days", "write-locations"} =>
        /\ catalogue["locations"] \subseteq snapshot[r]["locations"]
        /\ \A m \in MovementsIn(window[r]) : LocationOf[m] \in snapshot[r]["locations"]
    /\ pc[r] \in {"write-locations", "confirm"} =>
        \A m \in MovementsIn(window[r]) : ProductOf[m] \in catalogue["products"]
    /\ pc[r] = "confirm" =>
        \A m \in MovementsIn(window[r]) : LocationOf[m] \in catalogue["locations"]

\* The inductive strengthening of CatalogueCoversRows.
CatalogueInv ==
    /\ RecordedAreDeclared
    /\ \A d \in CatalogueDatasets : catalogue[d] \subseteq declared[d]
    /\ CatalogueCoversRows
    /\ \A r \in Runners : RunnerCarriesCatalogue(r)

\* The mark is never ahead of the clock, nor is the instant that will replace it
\* behind it; by then nothing is pending.
MarkInv ==
    /\ mark <= clock
    /\ \A r \in Runners :
        /\ pc[r] \in {"stamp", "mark"} => cursor.pendingFrom = NULL
        /\ pc[r] = "mark" => mark <= stamp[r] /\ stamp[r] <= clock

=============================================================================
