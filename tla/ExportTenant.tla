--------------------------- MODULE ExportTenant ---------------------------
(***************************************************************************)
(* One tenant's export: the movements recorded by concurrent transactions, *)
(* the cursor and the objects of the lake, and the runs that carry the one *)
(* into the other (ExportTenantUseCase with its PostgreSQL repositories    *)
(* and its sink).                                                          *)
(*                                                                         *)
(* A run claims a window of transaction identifiers in one transaction,    *)
(* reads the rows in a second one, writes one object per recorded day, the *)
(* catalogue, confirms the point reached in a third transaction and writes *)
(* the completeness mark last. It may die between any two of those steps.  *)
(*                                                                         *)
(* Runs of one tenant are sequential when Runners has one element; with    *)
(* more they overlap, which nothing in the program prevents.               *)
(***************************************************************************)
EXTENDS ExportDomain

CONSTANTS
    Movements,      \* batches offered to the tenant, one transaction each
    Runners,        \* processes that may run this tenant's export
    Products,       \* product codes
    Locations,      \* location codes
    ProductOf,      \* the product a movement names
    LocationOf,     \* the location a movement names
    TicksPerDay,    \* clock ticks that make a day
    MaxTime,        \* bound on the clock
    MaxXid,         \* bound on the identifiers other writes take
    MaxFailures     \* bound on the runs that die

ASSUME ReferencesAssumption ==
    /\ ProductOf \in [Movements -> Products]
    /\ LocationOf \in [Movements -> Locations]

ASSUME BoundsAssumption ==
    /\ TicksPerDay \in Nat \ {0}
    /\ MaxTime \in Nat
    /\ MaxXid \in Nat
    /\ MaxFailures \in Nat

VARIABLES
    status,       \* of a movement's transaction
    recordedAt,   \* recorded_at: when that transaction began
    recordedXid,  \* recorded_xid: taken when it first wrote
    nextXid,      \* the next identifier the database hands out
    clock,
    declared,     \* the catalogue in the database
    cursor,       \* the tenant's row of export_cursors
    objects,      \* the objects under movements/
    catalogue,    \* the objects under products/ and locations/
    mark,         \* the watermark object, NULL before the first
    failures,     \* runs that died so far
    pc,           \* where a run is; the variables below are its locals
    seen,         \* the cursor row it read
    window,       \* the window it claimed
    rows,         \* movements read and not written yet
    snapshot,     \* catalogue rows read
    stamp         \* the instant it is about to publish as the mark

movementVars == <<status, recordedAt, recordedXid>>
databaseVars == <<movementVars, nextXid, declared>>
lakeVars     == <<objects, catalogue, mark>>
localVars    == <<pc, seen, window, rows, snapshot, stamp>>
vars == <<movementVars, nextXid, clock, declared, cursor, lakeVars,
          failures, localVars>>

-----------------------------------------------------------------------------
CatalogueDatasets == {"products", "locations"}

Catalogues == [CatalogueDatasets -> SUBSET (Products \cup Locations)]

NoCatalogue == [d \in CatalogueDatasets |-> {}]

Stages == {"idle", "horizon", "start", "read-movements", "read-products",
           "read-locations", "write-days",
           "write-locations", "confirm", "stamp", "mark"}

Day(t) == t \div TicksPerDay

InFlight == {m \in Movements : status[m] = "inserted"}

Committed == {m \in Movements : status[m] = "committed"}

\* pg_snapshot_xmin: the least identifier still in flight, or the next one.
HorizonCandidates == {recordedXid[m] : m \in InFlight} \cup {nextXid}

\* Slip: the next identifier, whatever is still in flight below it.
IsHorizonIgnoringInFlight(h) == h = nextXid

IsHorizon(h) == h \in HorizonCandidates /\ \A x \in HorizonCandidates : h <= x

\* The identifier a committed write other than a movement takes (the export's
\* own cursor writes among them); MaxXid bounds how many are counted.
XidTaken == IF nextXid < MaxXid THEN nextXid + 1 ELSE nextXid

MovementsIn(w) == {m \in Committed : Covers(w, recordedXid[m])}

\* Slip: an object named for its day alone.
ObjectKeyOfDay(day, w) == [day |-> day, window |-> NoWindow]

\* What one object of the movements dataset holds: named for the day and the
\* window, never for the run.
ObjectKey(day, w) == [day |-> day, window |-> w]

Objects == [key : [day : Nat, window : Windows], rows : SUBSET Movements]

Put(day, w, content) ==
    {o \in objects : o.key # ObjectKey(day, w)}
        \cup {[key |-> ObjectKey(day, w), rows |-> content]}

Published == UNION {o.rows : o \in objects}

-----------------------------------------------------------------------------
Init ==
    /\ status = [m \in Movements |-> "none"]
    /\ recordedAt = [m \in Movements |-> 0]
    /\ recordedXid = [m \in Movements |-> NULL]
    /\ nextXid = FIRST
    /\ clock = 1
    /\ declared = NoCatalogue
    /\ cursor = EmptyRow
    /\ objects = {}
    /\ catalogue = NoCatalogue
    /\ mark = NULL
    /\ failures = 0
    /\ pc = [r \in Runners |-> "idle"]
    /\ seen = [r \in Runners |-> EmptyRow]
    /\ window = [r \in Runners |-> NoWindow]
    /\ rows = [r \in Runners |-> {}]
    /\ snapshot = [r \in Runners |-> NoCatalogue]
    /\ stamp = [r \in Runners |-> NULL]

-----------------------------------------------------------------------------
(* The database: movements recorded by concurrent transactions.            *)

Tick ==
    /\ clock < MaxTime
    /\ clock' = clock + 1
    /\ UNCHANGED <<databaseVars, cursor, lakeVars, failures, localVars>>

\* Any other write of the platform moves the horizon.
OtherTransaction ==
    /\ nextXid < MaxXid
    /\ nextXid' = nextXid + 1
    /\ UNCHANGED <<movementVars, clock, declared, cursor, lakeVars, failures,
                   localVars>>

DeclareProduct(p) ==
    /\ p \notin declared["products"]
    /\ declared' = [declared EXCEPT !["products"] = @ \cup {p}]
    /\ UNCHANGED <<movementVars, nextXid, clock, cursor, lakeVars, failures,
                   localVars>>

DeclareLocation(l) ==
    /\ l \notin declared["locations"]
    /\ declared' = [declared EXCEPT !["locations"] = @ \cup {l}]
    /\ UNCHANGED <<movementVars, nextXid, clock, cursor, lakeVars, failures,
                   localVars>>

\* recorded_at defaults to now(), the instant the transaction began.
BeginRecording(m) ==
    /\ status[m] = "none"
    /\ status' = [status EXCEPT ![m] = "begun"]
    /\ recordedAt' = [recordedAt EXCEPT ![m] = clock]
    /\ UNCHANGED <<recordedXid, nextXid, clock, declared, cursor, lakeVars,
                   failures, localVars>>

\* recorded_xid defaults to pg_current_xact_id(), taken by the insert; a row
\* names a product and a location that exist.
Insert(m) ==
    /\ status[m] = "begun"
    /\ ProductOf[m] \in declared["products"]
    /\ LocationOf[m] \in declared["locations"]
    /\ status' = [status EXCEPT ![m] = "inserted"]
    /\ recordedXid' = [recordedXid EXCEPT ![m] = nextXid]
    /\ nextXid' = nextXid + 1
    /\ UNCHANGED <<recordedAt, clock, declared, cursor, lakeVars, failures,
                   localVars>>

CommitRecording(m) ==
    /\ status[m] = "inserted"
    /\ status' = [status EXCEPT ![m] = "committed"]
    /\ UNCHANGED <<recordedAt, recordedXid, nextXid, clock, declared, cursor,
                   lakeVars, failures, localVars>>

AbortRecording(m) ==
    /\ status[m] = "inserted"
    /\ status' = [status EXCEPT ![m] = "aborted"]
    /\ UNCHANGED <<recordedAt, recordedXid, nextXid, clock, declared, cursor,
                   lakeVars, failures, localVars>>

-----------------------------------------------------------------------------
(* The run. claimWindow: one transaction, each statement its own snapshot. *)

ReadCursor(r) ==
    /\ pc[r] = "idle"
    /\ seen' = [seen EXCEPT ![r] = cursor]
    /\ pc' = [pc EXCEPT ![r] = "horizon"]
    /\ UNCHANGED <<databaseVars, clock, cursor, lakeVars, failures, window,
                   rows, snapshot, stamp>>

\* A horizon behind the cursor throws, which ends the run. The cursor row is not
\* looked at again.
ReadHorizon(r) ==
    /\ pc[r] = "horizon"
    /\ \E h \in HorizonCandidates :
        /\ IsHorizon(h)
        /\ window' = [window EXCEPT ![r] = NextWindow(seen[r], h)]
        /\ pc' = [pc EXCEPT ![r] =
                    CASE Decision(seen[r], h) = "carry" -> "start"
                      [] Decision(seen[r], h) = "up-to-date" -> "read-movements"
                      [] Decision(seen[r], h) = "went-backwards" -> "idle"]
    /\ seen' = [seen EXCEPT ![r] = EmptyRow]
    /\ UNCHANGED <<databaseVars, clock, cursor, lakeVars, failures, rows,
                   snapshot, stamp>>

\* Slip: the window is claimed and not recorded.
StartUnrecorded(r) ==
    /\ pc[r] = "start"
    /\ nextXid' = XidTaken
    /\ pc' = [pc EXCEPT ![r] = "read-movements"]
    /\ UNCHANGED <<movementVars, declared, cursor, clock, lakeVars, failures, seen,
                   window, rows, snapshot, stamp>>

\* The claim, committed before the first object is written. The upsert sets
\* the pending window and leaves the point reached alone.
Start(r) ==
    /\ pc[r] = "start"
    /\ cursor' = [through |-> cursor.through,
                  pendingFrom |-> window[r].from, pendingTo |-> window[r].to]
    /\ nextXid' = XidTaken
    /\ pc' = [pc EXCEPT ![r] = "read-movements"]
    /\ UNCHANGED <<movementVars, declared, clock, lakeVars, failures, seen,
                   window, rows, snapshot, stamp>>

\* inWindow sees what has committed, and carries nothing without a window.
ReadMovements(r) ==
    /\ pc[r] = "read-movements"
    /\ rows' = [rows EXCEPT ![r] = MovementsIn(window[r])]
    /\ pc' = [pc EXCEPT ![r] = "read-products"]
    /\ UNCHANGED <<databaseVars, clock, cursor, lakeVars, failures, seen,
                   window, snapshot, stamp>>

ReadProducts(r) ==
    /\ pc[r] = "read-products"
    /\ snapshot' = [snapshot EXCEPT ![r]["products"] = declared["products"]]
    /\ pc' = [pc EXCEPT ![r] = "read-locations"]
    /\ UNCHANGED <<databaseVars, clock, cursor, lakeVars, failures, seen,
                   window, rows, stamp>>

ReadLocations(r) ==
    /\ pc[r] = "read-locations"
    /\ snapshot' = [snapshot EXCEPT ![r]["locations"] = declared["locations"]]
    /\ pc' = [pc EXCEPT ![r] = "write-days"]
    /\ UNCHANGED <<databaseVars, clock, cursor, lakeVars, failures, seen,
                   window, rows, stamp>>

\* One object per recorded day, the day of the earliest row first. Putting an
\* object under a key that exists replaces it.
WriteDay(r) ==
    /\ pc[r] = "write-days"
    /\ \E m \in rows[r] :
        LET day     == Day(recordedAt[m])
            content == {n \in rows[r] : Day(recordedAt[n]) = day}
        IN  /\ \A n \in rows[r] : recordedXid[m] <= recordedXid[n]
            /\ objects' = Put(day, window[r], content)
            /\ rows' = [rows EXCEPT ![r] = @ \ content]
    /\ UNCHANGED <<databaseVars, clock, cursor, catalogue, mark, failures, pc,
                   seen, window, snapshot, stamp>>

\* Slip: the catalogue is written by the first run only.
WriteProductsOnce(r) ==
    /\ pc[r] = "write-days"
    /\ rows[r] = {}
    /\ catalogue' = IF mark # NULL THEN catalogue
                    ELSE [catalogue EXCEPT !["products"] = snapshot[r]["products"]]
    /\ pc' = [pc EXCEPT ![r] = "write-locations"]
    /\ UNCHANGED <<databaseVars, clock, cursor, objects, mark, failures, seen,
                   window, rows, snapshot, stamp>>

\* The catalogue is replaced whole, every run, after the movements.
WriteProducts(r) ==
    /\ pc[r] = "write-days"
    /\ rows[r] = {}
    /\ catalogue' = [catalogue EXCEPT !["products"] = snapshot[r]["products"]]
    /\ pc' = [pc EXCEPT ![r] = "write-locations"]
    /\ UNCHANGED <<databaseVars, clock, cursor, objects, mark, failures, seen,
                   window, rows, snapshot, stamp>>

\* Slip: the mark is written before the point reached is confirmed.
WriteLocationsThenMark(r) ==
    /\ pc[r] = "write-locations"
    /\ catalogue' = [catalogue EXCEPT !["locations"] = snapshot[r]["locations"]]
    /\ pc' = [pc EXCEPT ![r] = "stamp"]
    /\ UNCHANGED <<databaseVars, clock, cursor, objects, mark, failures, seen,
                   window, rows, snapshot, stamp>>

WriteLocations(r) ==
    /\ pc[r] = "write-locations"
    /\ catalogue' = [catalogue EXCEPT !["locations"] = snapshot[r]["locations"]]
    /\ pc' = [pc EXCEPT ![r] = IF window[r] = NoWindow THEN "stamp" ELSE "confirm"]
    /\ UNCHANGED <<databaseVars, clock, cursor, objects, mark, failures, seen,
                   window, rows, snapshot, stamp>>

\* Slip: the statement forgets that the row has more columns.
ConfirmBare(r) ==
    /\ pc[r] = "confirm"
    /\ cursor' = [through |-> window[r].to]
    /\ nextXid' = XidTaken
    /\ pc' = [pc EXCEPT ![r] = "stamp"]
    /\ UNCHANGED <<movementVars, declared, clock, lakeVars, failures, seen,
                   window, rows, snapshot, stamp>>

\* Slip: one past the window, as if its end had been carried.
ConfirmPastWindow(r) ==
    /\ pc[r] = "confirm"
    /\ cursor' = [through |-> window[r].to + 1, pendingFrom |-> NULL, pendingTo |-> NULL]
    /\ nextXid' = XidTaken
    /\ pc' = [pc EXCEPT ![r] = "stamp"]
    /\ UNCHANGED <<movementVars, declared, clock, lakeVars, failures, seen,
                   window, rows, snapshot, stamp>>

\* Slip: the pending window is left on record.
ConfirmKeepingPending(r) ==
    /\ pc[r] = "confirm"
    /\ cursor' = [cursor EXCEPT !.through = window[r].to]
    /\ nextXid' = XidTaken
    /\ pc' = [pc EXCEPT ![r] = "stamp"]
    /\ UNCHANGED <<movementVars, declared, clock, lakeVars, failures, seen,
                   window, rows, snapshot, stamp>>

\* The point reached, moved and the pending window cleared in one statement
\* that looks at neither first.
Confirm(r) ==
    /\ pc[r] = "confirm"
    /\ cursor' = [through |-> window[r].to, pendingFrom |-> NULL, pendingTo |-> NULL]
    /\ nextXid' = XidTaken
    /\ pc' = [pc EXCEPT ![r] = "stamp"]
    /\ UNCHANGED <<movementVars, declared, clock, lakeVars, failures, seen,
                   window, rows, snapshot, stamp>>

\* The instant the mark will claim is read before the object is put.
StampMark(r) ==
    /\ pc[r] = "stamp"
    /\ stamp' = [stamp EXCEPT ![r] = clock]
    /\ pc' = [pc EXCEPT ![r] = "mark"]
    /\ UNCHANGED <<databaseVars, clock, cursor, lakeVars, failures, seen,
                   window, rows, snapshot>>

\* The run is over; what it held in memory goes with it.
Forget(r) ==
    /\ pc' = [pc EXCEPT ![r] = "idle"]
    /\ seen' = [seen EXCEPT ![r] = EmptyRow]
    /\ window' = [window EXCEPT ![r] = NoWindow]
    /\ rows' = [rows EXCEPT ![r] = {}]
    /\ snapshot' = [snapshot EXCEPT ![r] = NoCatalogue]
    /\ stamp' = [stamp EXCEPT ![r] = NULL]

WriteMark(r) ==
    /\ pc[r] = "mark"
    /\ mark' = stamp[r]
    /\ Forget(r)
    /\ UNCHANGED <<databaseVars, clock, cursor, objects, catalogue, failures>>

\* A database or sink error caught by the run, or the process dying: what was
\* committed or put stays, the rest is gone.
Die(r) ==
    /\ pc[r] # "idle"
    /\ failures < MaxFailures
    /\ failures' = failures + 1
    /\ Forget(r)
    /\ UNCHANGED <<databaseVars, clock, cursor, lakeVars>>

-----------------------------------------------------------------------------
Recording(m) ==
    BeginRecording(m) \/ Insert(m) \/ CommitRecording(m) \/ AbortRecording(m)

Exporting(r) ==
    \/ ReadCursor(r) \/ ReadHorizon(r) \/ Start(r)
    \/ ReadMovements(r) \/ ReadProducts(r) \/ ReadLocations(r)
    \/ WriteDay(r) \/ WriteProducts(r) \/ WriteLocations(r)
    \/ Confirm(r) \/ StampMark(r) \/ WriteMark(r)

Next ==
    \/ Tick
    \/ OtherTransaction
    \/ \E p \in Products : DeclareProduct(p)
    \/ \E l \in Locations : DeclareLocation(l)
    \/ \E m \in Movements : Recording(m)
    \/ \E r \in Runners : Exporting(r) \/ Die(r)

Spec == Init /\ [][Next]_vars

\* The export is run again and again, and a transaction that has written ends:
\* a transaction open for ever holds the horizon, and every later run, back.
Fairness ==
    /\ \A r \in Runners : WF_vars(Exporting(r))
    /\ \A m \in Movements : WF_vars(CommitRecording(m) \/ AbortRecording(m))

FairSpec == Spec /\ Fairness

-----------------------------------------------------------------------------
(* Properties.                                                             *)

TypeOK ==
    /\ status \in [Movements -> {"none", "begun", "inserted", "committed", "aborted"}]
    /\ recordedAt \in [Movements -> Nat]
    /\ recordedXid \in [Movements -> Nat]
    /\ nextXid \in TransactionIds
    /\ clock \in Nat
    /\ declared \in Catalogues
    /\ cursor \in CursorRows
    /\ objects \in SUBSET Objects
    /\ catalogue \in Catalogues
    /\ mark \in Nat
    /\ failures \in Nat
    /\ pc \in [Runners -> Stages]
    /\ seen \in [Runners -> CursorRows]
    /\ window \in [Runners -> Windows]
    /\ rows \in [Runners -> SUBSET Movements]
    /\ snapshot \in [Runners -> Catalogues]
    /\ stamp \in [Runners -> Nat]

\* Every movement that has committed below the point the tenant is confirmed
\* carried through is in the exported data, however the transactions that
\* recorded it interleaved with the runs, and however many runs died or
\* overlapped: "late is recoverable; skipped is not" (horizon, confirm).
NothingSkipped ==
    \A m \in Committed : recordedXid[m] < cursor.through => m \in Published

\* No movement is in two objects of the exported data, including after runs
\* that died half way and were replayed (claimWindow, nextWindow). It needs
\* the tenant's runs to be sequential.
ExactlyOnce ==
    \A o1, o2 \in objects : o1 # o2 => o1.rows \cap o2.rows = {}

\* The horizon a run reads is never behind the cursor nor behind a window on
\* record, so the error nextWindow raises for it is never met.
HorizonNeverBehind ==
    \A h \in HorizonCandidates :
        IsHorizon(h) => cursor.through <= h /\ cursor.pendingTo <= h

\* Whatever a run has put in the lake and not confirmed is put under the window
\* on record: "the one thing that must survive a rollback is the record of what
\* was attempted". Sequential runs.
AttemptOnRecord ==
    \A o \in objects :
        \/ o.key.window.to <= cursor.through
        \/ o.key.window = Pending(cursor)

\* A movement confirmed as carried can be joined to its product and location in
\* the published catalogue, written after the movements and before the point
\* reached (execute, writeCatalogue). Sequential runs.
CatalogueCoversRows ==
    \A o \in objects : o.key.window.to <= cursor.through =>
        \A m \in o.rows : /\ ProductOf[m] \in catalogue["products"]
                          /\ LocationOf[m] \in catalogue["locations"]

\* What has been published is never altered nor removed: a replay, or a run
\* overlapping another, rewrites the same keys with the same rows.
PublishedIsFixed == [][objects \subseteq objects']_vars

\* The mark moves only forward, and never while a window is pending: a run
\* that dies half way leaves the mark of the run before it.
MarkFollowsConfirmation ==
    [][mark' # mark => mark < mark' /\ cursor'.pendingFrom = NULL]_vars

\* Every movement committed is confirmed as carried in the end, once runs stop
\* dying and open transactions end: the horizon held back by a transaction in
\* flight delays a movement and never strands it.
EventuallyCarried ==
    \A m \in Movements :
        status[m] = "committed" ~> m \in Published /\ recordedXid[m] < cursor.through

=============================================================================
