----------------------- MODULE ExportSequentialProofs -----------------------
(***************************************************************************)
(* Proofs about the export of a tenant whose runs follow one another: no   *)
(* movement is published twice, what is confirmed can be joined to the     *)
(* catalogue, the mark follows the confirmation, and such runs implement   *)
(* the ledger.                                                             *)
(***************************************************************************)
EXTENDS ExportTenantProofs, ExportRefinement

LEMMA SequentialInit == Init => SInv
  BY DEF Init, SInv, Pending, EmptyRow, WindowFrom, NoWindow, AttemptOnRecord,
     WindowsDisjoint, RunnerOnRecord

\* A window on record ends after the point reached.
LEMMA PendingIsAhead ==
    ASSUME TypeOK, GoodRow(cursor), SInv, Pending(cursor) # NoWindow
    PROVE  /\ cursor.pendingFrom \in Nat /\ cursor.pendingTo \in Nat
           /\ cursor.through \in Nat
           /\ cursor.through <= cursor.pendingFrom
           /\ cursor.pendingFrom < cursor.pendingTo
           /\ cursor.through # NULL => cursor.pendingFrom = cursor.through
<1>1. /\ cursor.pendingFrom \in Nat /\ cursor.pendingTo \in Nat
      /\ cursor.through \in Nat
  BY DEF TypeOK, CursorRows
<1>2. WellFormedWindow(Pending(cursor))
  BY DEF GoodRow, GoodWindow
<1>3. cursor.pendingFrom < cursor.pendingTo
  BY <1>2 DEF WellFormedWindow, Pending, WindowFrom
<1>4. cursor.pendingFrom = Reached(cursor)
  BY DEF SInv
<1> QED
  BY <1>1, <1>3, <1>4 DEF Reached, NULL, FIRST

\* Steps that touch neither the cursor, nor the objects, nor where a run is.
LEMMA SequentialUntouched ==
    ASSUME SInv, UNCHANGED <<cursor, objects, pc, seen, window>>
    PROVE  SInv'
  BY DEF SInv, AttemptOnRecord, WindowsDisjoint, RunnerOnRecord, Pending, Reached

LEMMA SequentialRunner ==
    ASSUME Sequential, TypeOK, TypeOK', IInv, SInv, [Next]_vars,
           NEW r \in Runners, Exporting(r)
    PROVE  SInv'
<1>1. /\ GoodRow(cursor) /\ ObjectsAreTrue /\ RunnerIsTrue(r) /\ RunnerOnRecord(r)
      /\ \A q \in Runners : q = r
  BY DEF IInv, SInv, Sequential
<1>2. SUFFICES /\ Pending(cursor)' # NoWindow => cursor'.pendingFrom = Reached(cursor)'
               /\ AttemptOnRecord'
               /\ WindowsDisjoint'
               /\ RunnerOnRecord(r)'
  BY <1>1 DEF SInv
<1>3. ASSUME UNCHANGED <<cursor, objects>>
      PROVE  /\ Pending(cursor)' # NoWindow => cursor'.pendingFrom = Reached(cursor)'
             /\ AttemptOnRecord'
             /\ WindowsDisjoint'
  BY <1>3 DEF SInv, AttemptOnRecord, WindowsDisjoint, Pending, Reached
<1>4. \A o \in objects : o.key.window \in Windows /\ WellFormedWindow(o.key.window)
  BY <1>1 DEF ObjectsAreTrue, TypeOK, Objects
<1>5. CASE ReadCursor(r)
  <2>1. pc'[r] = "horizon" /\ seen'[r] = cursor' /\ UNCHANGED <<cursor, objects>>
    BY <1>5 DEF ReadCursor, TypeOK, lakeVars
  <2> QED
    BY <1>3, <2>1 DEF RunnerOnRecord
<1>6. CASE ReadHorizon(r)
  <2>1. seen[r] = cursor /\ UNCHANGED <<cursor, objects>>
    BY <1>1, <1>6 DEF ReadHorizon, RunnerOnRecord, lakeVars
  <2>2. PICK h \in HorizonCandidates :
          /\ IsHorizon(h)
          /\ window'[r] = NextWindow(cursor, h)
          /\ pc'[r] = CASE Decision(cursor, h) = "carry" -> "start"
                        [] Decision(cursor, h) = "up-to-date" -> "read-movements"
                        [] Decision(cursor, h) = "went-backwards" -> "idle"
    BY <1>6, <2>1 DEF ReadHorizon, TypeOK
  <2>3. Decision(cursor, h) \in {"carry", "up-to-date", "went-backwards"}
    BY RowDecisionType DEF TypeOK, HorizonCandidates, InFlight, TransactionIds
  <2>4. Pending(cursor) = NoWindow \/ WellFormedWindow(Pending(cursor))
    BY <1>1 DEF GoodRow, GoodWindow
  <2>5. CursorState(cursor) = "started" <=> Pending(cursor) # NoWindow
    BY <2>4 DEF CursorState, Pending, WindowFrom, NoWindow, WellFormedWindow,
       NULL, TypeOK, CursorRows
  <2>6. StartingPoint(cursor) = Reached(cursor) \/ CursorState(cursor) = "started"
    BY DEF StartingPoint, CursorState, Reached
  <2>7. CASE Decision(cursor, h) = "carry"
    <3>1. pc'[r] = "start"
      BY <2>2, <2>7
    <3>2. CASE CursorState(cursor) = "started"
      BY <1>3, <2>1, <2>2, <2>5, <2>7, <3>1, <3>2
         DEF RunnerOnRecord, NextWindow, Pending
    <3>3. CASE CursorState(cursor) # "started"
      <4>1. window'[r].from = Reached(cursor)
        BY <2>2, <2>6, <2>7, <3>3 DEF NextWindow, WindowFrom
      <4> QED
        BY <1>3, <2>1, <2>5, <3>1, <3>3, <4>1 DEF RunnerOnRecord, Pending, Reached
    <3> QED
      BY <3>2, <3>3
  <2>8. CASE Decision(cursor, h) = "up-to-date"
    <3>1. pc'[r] = "read-movements" /\ window'[r] = NoWindow
      BY <2>2, <2>8 DEF NextWindow
    <3>2. Pending(cursor) = NoWindow
      BY <2>5, <2>8 DEF Decision
    <3> QED
      BY <1>3, <2>1, <3>1, <3>2 DEF RunnerOnRecord, Pending
  <2>9. CASE Decision(cursor, h) = "went-backwards"
    <3>1. pc'[r] = "idle"
      BY <2>2, <2>9
    <3> QED
      BY <1>3, <2>1, <3>1 DEF RunnerOnRecord
  <2> QED
    BY <2>3, <2>7, <2>8, <2>9
<1>7. CASE Start(r)
  <2>1. /\ pc[r] = "start" /\ pc'[r] = "read-movements"
        /\ UNCHANGED <<objects, window>>
        /\ cursor'.through = cursor.through
        /\ cursor'.pendingFrom = window[r].from
        /\ cursor'.pendingTo = window[r].to
    BY <1>7 DEF Start, TypeOK, lakeVars
  <2>2. window[r] \in Windows
    BY DEF TypeOK
  <2>3. Pending(cursor)' = window[r]
    BY <2>1, <2>2 DEF Pending, WindowFrom, Windows
  <2>4. Reached(cursor)' = Reached(cursor)
    BY <2>1 DEF Reached
  <2>5. window[r].from = Reached(cursor)
    BY <1>1, <2>1 DEF RunnerOnRecord, SInv, Pending, WindowFrom
  <2>6. RunnerOnRecord(r)'
    BY <2>1, <2>3 DEF RunnerOnRecord, Pending
  <2>7. AttemptOnRecord'
    <3>1. CASE Pending(cursor) # NoWindow
      BY <1>1, <2>1, <2>3, <3>1 DEF AttemptOnRecord, SInv, RunnerOnRecord, Pending
    <3>2. CASE Pending(cursor) = NoWindow
      <4>1. \A o \in objects : o.key.window # NoWindow
        BY <1>4 DEF WellFormedWindow, NoWindow, NULL
      <4> QED
        BY <2>1, <3>2, <4>1 DEF AttemptOnRecord, SInv
    <3> QED
      BY <3>1, <3>2
  <2>8. WindowsDisjoint'
    BY <2>1 DEF WindowsDisjoint, SInv
  <2> QED
    BY <2>1, <2>4, <2>5, <2>6, <2>7, <2>8
<1>8. CASE \/ ReadMovements(r) \/ ReadProducts(r) \/ ReadLocations(r)
           \/ WriteProducts(r) \/ WriteLocations(r)
  <2>1. /\ pc[r] \in {"read-movements", "read-products", "read-locations",
                      "write-days", "write-locations"}
        /\ pc'[r] \in {"read-products", "read-locations", "write-days",
                       "write-locations", "confirm", "stamp"}
        /\ UNCHANGED <<cursor, objects, window>>
    BY <1>8 DEF TypeOK, ReadMovements, ReadProducts, ReadLocations,
       WriteProducts, WriteLocations, lakeVars
  <2>2. window[r] = Pending(cursor)
    BY <1>1, <2>1 DEF RunnerOnRecord
  <2> QED
    BY <1>3, <2>1, <2>2 DEF RunnerOnRecord, Pending
<1>9. CASE WriteDay(r)
  <2>1. /\ pc[r] = "write-days" /\ UNCHANGED <<cursor, window, pc>>
    BY <1>9 DEF WriteDay
  <2>2. window[r] = Pending(cursor)
    BY <1>1, <2>1 DEF RunnerOnRecord
  <2>3. PICK day \in Nat :
          /\ window[r] # NoWindow
          /\ objects' = Put(day, window[r], DayRows(day, window[r]))
    BY <1>1, <1>9, WriteDayContent
  <2>4. \A o \in objects' : o \in objects \/ o.key.window = window[r]
    BY <2>3 DEF Put, ObjectKey
  <2>5. AttemptOnRecord'
    BY <2>1, <2>2, <2>4 DEF AttemptOnRecord, SInv, Pending
  <2>6. \A o \in objects : \/ o.key.window = window[r]
                           \/ o.key.window.to <= window[r].from
    <3> SUFFICES ASSUME NEW o \in objects, o.key.window # window[r]
                 PROVE  o.key.window.to <= window[r].from
      OBVIOUS
    <3>1. o.key.window.to <= cursor.through
      BY <2>2 DEF SInv, AttemptOnRecord
    <3>2. o.key.window.to \in Nat /\ 0 < o.key.window.to /\ cursor.through \in Nat
      BY <1>4 DEF Windows, WellFormedWindow, NULL, TypeOK, CursorRows
    <3>3. cursor.through = cursor.pendingFrom
      BY <1>1, <2>2, <2>3, <3>1, <3>2, PendingIsAhead DEF NULL
    <3> QED
      BY <2>2, <3>1, <3>3 DEF Pending, WindowFrom
  <2>7. WindowsDisjoint'
    BY <2>4, <2>6 DEF WindowsDisjoint, SInv
  <2> QED
    BY <1>1, <2>1, <2>5, <2>7 DEF SInv, RunnerOnRecord, Pending, Reached
<1>10. CASE Confirm(r)
  <2>1. /\ pc[r] = "confirm" /\ pc'[r] = "stamp" /\ UNCHANGED objects
        /\ cursor' = [through |-> window[r].to, pendingFrom |-> NULL, pendingTo |-> NULL]
    BY <1>10 DEF Confirm, TypeOK, lakeVars
  <2>2. window[r] = Pending(cursor) /\ window[r] # NoWindow
    BY <1>1, <2>1 DEF RunnerOnRecord, RunnerIsTrue
  <2>3. cursor'.through = cursor.pendingTo /\ Pending(cursor)' = NoWindow
    BY <2>1, <2>2 DEF Pending, WindowFrom, NoWindow
  <2>4. cursor.through <= cursor.pendingTo /\ cursor.pendingTo \in Nat
        /\ cursor.through \in Nat
    BY <1>1, <2>2, PendingIsAhead
  <2>5. AttemptOnRecord'
    <3> SUFFICES ASSUME NEW o \in objects
                 PROVE  o.key.window.to <= cursor.pendingTo
      BY <2>1, <2>3 DEF AttemptOnRecord
    <3>1. o.key.window.to \in Nat
      BY <1>4 DEF Windows
    <3>2. o.key.window.to <= cursor.through \/ o.key.window = Pending(cursor)
      BY DEF SInv, AttemptOnRecord
    <3> QED
      BY <2>4, <3>1, <3>2 DEF Pending, WindowFrom
  <2>6. WindowsDisjoint'
    BY <2>1 DEF WindowsDisjoint, SInv
  <2> QED
    BY <2>1, <2>3, <2>5, <2>6 DEF RunnerOnRecord
<1>11. CASE StampMark(r)
  <2>1. pc'[r] = "mark" /\ UNCHANGED <<cursor, objects>>
    BY <1>11 DEF StampMark, TypeOK, lakeVars
  <2> QED
    BY <1>3, <2>1 DEF RunnerOnRecord
<1>12. CASE WriteMark(r)
  <2>1. pc'[r] = "idle" /\ UNCHANGED <<cursor, objects>>
    BY <1>12 DEF WriteMark, Forget, TypeOK
  <2> QED
    BY <1>3, <2>1 DEF RunnerOnRecord
<1> QED
  BY <1>5, <1>6, <1>7, <1>8, <1>9, <1>10, <1>11, <1>12 DEF Exporting

LEMMA SequentialStep ==
    ASSUME Sequential
    PROVE  TypeOK /\ TypeOK' /\ IInv /\ SInv /\ [Next]_vars => SInv'
<1> SUFFICES ASSUME TypeOK, TypeOK', IInv, SInv, [Next]_vars PROVE SInv'
  OBVIOUS
<1>1. CASE UNCHANGED <<cursor, objects, pc, seen, window>>
  BY <1>1, SequentialUntouched
<1>2. ASSUME NEW r \in Runners, Exporting(r) PROVE SInv'
  BY <1>2, SequentialRunner
<1>3. ASSUME NEW r \in Runners, Die(r) PROVE SInv'
  <2>1. pc'[r] = "idle" /\ UNCHANGED <<cursor, objects>> /\ \A q \in Runners : q = r
    BY <1>3 DEF Die, Forget, TypeOK, lakeVars, Sequential
  <2> QED
    BY <2>1 DEF SInv, AttemptOnRecord, WindowsDisjoint, RunnerOnRecord, Pending, Reached
<1> QED
  BY <1>1, <1>2, <1>3 DEF Next, Tick, OtherTransaction, DeclareProduct,
     DeclareLocation, Recording, BeginRecording, Insert, CommitRecording,
     AbortRecording, vars, lakeVars, localVars

\* The strengthened invariant of sequential runs.
THEOREM SequentialInductive ==
    ASSUME Sequential
    PROVE  Spec => [](TypeOK /\ IInv /\ SInv)
<1>1. Init => SInv
  BY SequentialInit
<1>2. TypeOK /\ TypeOK' /\ IInv /\ SInv /\ [Next]_vars => SInv'
  BY SequentialStep
<1> QED
  BY <1>1, <1>2, Inductive, PTL DEF Spec

\* Objects of one window differ in their day, objects of two windows cover
\* different identifiers.
LEMMA ObjectsDisjoint == TypeOK /\ IInv /\ SInv => ExactlyOnce
<1> SUFFICES ASSUME TypeOK, IInv, SInv, NEW o1 \in objects, NEW o2 \in objects,
                    o1 # o2, NEW m \in o1.rows, m \in o2.rows
             PROVE  FALSE
  BY DEF ExactlyOnce
<1>1. o1 \in Objects /\ o2 \in Objects
  BY DEF TypeOK
<1>2. /\ o1.rows = DayRows(o1.key.day, o1.key.window)
      /\ o2.rows = DayRows(o2.key.day, o2.key.window)
  BY DEF IInv, ObjectsAreTrue
<1>3. CASE o1.key.window = o2.key.window
  <2>1. o1.key.day = o2.key.day
    BY <1>2 DEF DayRows
  <2>2. o1.key = o2.key
    BY <1>1, <1>3, <2>1 DEF Objects
  <2> QED
    BY <1>1, <1>2, <2>2 DEF Objects
<1>4. CASE o1.key.window # o2.key.window
  <2>1. /\ Covers(o1.key.window, recordedXid[m])
        /\ Covers(o2.key.window, recordedXid[m])
        /\ m \in Movements
    BY <1>2 DEF DayRows, MovementsIn, Committed
  <2>2. \/ o1.key.window.to <= o2.key.window.from
        \/ o2.key.window.to <= o1.key.window.from
    BY <1>4 DEF SInv, WindowsDisjoint
  <2>3. /\ o1.key.window \in Windows /\ o2.key.window \in Windows
        /\ recordedXid[m] \in Nat
    BY <1>1, <2>1 DEF Objects, TypeOK
  <2> QED
    BY <2>1, <2>2, <2>3 DEF Covers, Windows
<1> QED
  BY <1>3, <1>4

\* No movement is in two objects, however often a run dies and is replayed,
\* as long as the tenant's runs follow one another.
THEOREM PublishedExactlyOnce ==
    ASSUME Sequential
    PROVE  Spec => []ExactlyOnce
  BY ObjectsDisjoint, SequentialInductive, PTL

\* Whatever is in the lake and not confirmed is under the window on record.
THEOREM AttemptsAreOnRecord ==
    ASSUME Sequential
    PROVE  Spec => []AttemptOnRecord
<1>1. SInv => AttemptOnRecord
  BY DEF SInv
<1> QED
  BY <1>1, SequentialInductive, PTL

-----------------------------------------------------------------------------
(* The catalogue in the lake.                                              *)

\* Nothing declared is withdrawn, and what is recorded names what is declared.
LEMMA DeclaredStep ==
    ASSUME TypeOK, RecordedAreDeclared, [Next]_vars
    PROVE  /\ RecordedAreDeclared'
           /\ \A d \in CatalogueDatasets : declared[d] \subseteq declared'[d]
<1>1. CASE UNCHANGED <<status, declared>>
  BY <1>1 DEF RecordedAreDeclared, Lists
<1>2. ASSUME NEW p \in Products, DeclareProduct(p)
      PROVE  /\ RecordedAreDeclared'
             /\ \A d \in CatalogueDatasets : declared[d] \subseteq declared'[d]
  BY <1>2 DEF DeclareProduct, RecordedAreDeclared, Lists, TypeOK, Catalogues,
     CatalogueDatasets, movementVars
<1>3. ASSUME NEW l \in Locations, DeclareLocation(l)
      PROVE  /\ RecordedAreDeclared'
             /\ \A d \in CatalogueDatasets : declared[d] \subseteq declared'[d]
  BY <1>3 DEF DeclareLocation, RecordedAreDeclared, Lists, TypeOK, Catalogues,
     CatalogueDatasets, movementVars
<1>4. ASSUME NEW m \in Movements, Recording(m)
      PROVE  RecordedAreDeclared' /\ UNCHANGED declared
  BY <1>4 DEF Recording, BeginRecording, Insert, CommitRecording, AbortRecording,
     RecordedAreDeclared, Lists, TypeOK
<1> QED
  BY <1>1, <1>2, <1>3, <1>4 DEF Next, Tick, OtherTransaction, Exporting, Die, ReadCursor,
     ReadHorizon, Start, ReadMovements, ReadProducts, ReadLocations, WriteDay,
     WriteProducts, WriteLocations, Confirm, StampMark, WriteMark, vars,
     databaseVars, movementVars

\* What a window holds is known to the catalogue of the database.
LEMMA WindowIsDeclared ==
    ASSUME RecordedAreDeclared, NEW w, NEW m \in MovementsIn(w)
    PROVE  Lists(declared, m)
  BY DEF RecordedAreDeclared, MovementsIn, Committed

\* A run that is where it was, with the window and the snapshot it had, while the
\* catalogue stays.
LEMMA CatalogueRunnerUnmoved ==
    ASSUME TypeOK, TypeOK', DatabaseEvolves, NEW r \in Runners, GoodWindow(window[r]),
           \A d \in CatalogueDatasets : declared[d] \subseteq declared'[d],
           RunnerCarriesCatalogue(r), catalogue' = catalogue,
           pc'[r] = pc[r], window'[r] = window[r], snapshot'[r] = snapshot[r]
    PROVE  RunnerCarriesCatalogue(r)'
<1>1. window[r] \in Windows
  BY DEF TypeOK
<1>2. MovementsIn(window[r])' = MovementsIn(window[r])
  BY <1>1, WindowStays DEF GoodWindow
<1> QED
  BY <1>2 DEF RunnerCarriesCatalogue

\* An object in the lake stays joined as long as the catalogue does not shrink and
\* no window is confirmed.
LEMMA CoverStays ==
    ASSUME CatalogueCoversRows, objects' = objects, cursor'.through = cursor.through,
           \A d \in CatalogueDatasets : catalogue[d] \subseteq catalogue'[d]
    PROVE  CatalogueCoversRows'
  BY DEF CatalogueCoversRows, CatalogueDatasets

LEMMA CatalogueRunner ==
    ASSUME Sequential, TypeOK, TypeOK', IInv, SInv, CatalogueInv, [Next]_vars,
           NEW r \in Runners, Exporting(r)
    PROVE  CatalogueInv'
<1>1. /\ DatabaseEvolves /\ RecordedAreDeclared'
      /\ declared' = declared
      /\ GoodWindow(window[r]) /\ RunnerIsTrue(r) /\ RunnerOnRecord(r)
      /\ RunnerCarriesCatalogue(r) /\ window[r] \in Windows
      /\ \A q \in Runners : q = r
  <2>1. declared' = declared
    BY DEF Exporting, ReadCursor, ReadHorizon, Start, ReadMovements, ReadProducts,
       ReadLocations, WriteDay, WriteProducts, WriteLocations, Confirm, StampMark,
       WriteMark, databaseVars
  <2>2. RunnerIsTrue(r) /\ RunnerOnRecord(r) /\ RunnerCarriesCatalogue(r)
    BY DEF IInv, SInv, CatalogueInv
  <2> QED
    BY <2>1, <2>2, DatabaseStep, DeclaredStep DEF CatalogueInv, RunnerIsTrue, Sequential, TypeOK
<1>2. /\ \A d \in CatalogueDatasets : catalogue[d] \subseteq declared[d]
      /\ \A d \in CatalogueDatasets : snapshot[r][d] \subseteq declared[d]
      /\ CatalogueCoversRows
  BY <1>1 DEF CatalogueInv, RunnerCarriesCatalogue
<1>3. SUFFICES /\ \A d \in CatalogueDatasets : catalogue'[d] \subseteq declared'[d]
               /\ CatalogueCoversRows'
               /\ RunnerCarriesCatalogue(r)'
  BY <1>1 DEF CatalogueInv
<1>4. window'[r] = window[r] => MovementsIn(window[r])' = MovementsIn(window[r])
  BY <1>1, WindowStays DEF GoodWindow
<1>5. ASSUME UNCHANGED <<catalogue, objects, cursor>>
      PROVE  /\ \A d \in CatalogueDatasets : catalogue'[d] \subseteq declared'[d]
             /\ CatalogueCoversRows'
  BY <1>1, <1>2, <1>5, CoverStays
<1>6. ASSUME NEW p \in {"idle", "horizon", "start", "read-movements", "read-products",
                        "stamp", "mark"},
             pc'[r] = p, snapshot'[r] = snapshot[r] \/ snapshot'[r] = NoCatalogue
      PROVE  RunnerCarriesCatalogue(r)'
  BY <1>1, <1>2, <1>6 DEF RunnerCarriesCatalogue, NoCatalogue
<1>7. CASE ReadCursor(r) \/ ReadMovements(r) \/ StampMark(r)
  <2>1. /\ pc'[r] \in {"horizon", "read-products", "mark"}
        /\ UNCHANGED <<catalogue, objects, cursor, snapshot>>
    BY <1>7 DEF ReadCursor, ReadMovements, StampMark, lakeVars, TypeOK
  <2> QED
    BY <1>5, <1>6, <2>1
<1>8. CASE ReadHorizon(r)
  <2>1. /\ pc'[r] \in {"start", "read-movements", "idle"}
        /\ UNCHANGED <<catalogue, objects, cursor, snapshot>>
    <3>1. PICK h \in HorizonCandidates :
            pc' = [pc EXCEPT ![r] =
                    CASE Decision(seen[r], h) = "carry" -> "start"
                      [] Decision(seen[r], h) = "up-to-date" -> "read-movements"
                      [] Decision(seen[r], h) = "went-backwards" -> "idle"]
      BY <1>8 DEF ReadHorizon
    <3>2. Decision(seen[r], h) \in {"carry", "up-to-date", "went-backwards"}
      BY RowDecisionType DEF TypeOK, HorizonCandidates, InFlight, TransactionIds
    <3> QED
      BY <1>8, <3>1, <3>2 DEF ReadHorizon, lakeVars, TypeOK
  <2> QED
    BY <1>5, <1>6, <2>1
<1>9. CASE Start(r)
  <2>1. /\ pc'[r] = "read-movements" /\ cursor'.through = cursor.through
        /\ UNCHANGED <<catalogue, objects, snapshot>>
    BY <1>9 DEF Start, lakeVars, TypeOK
  <2> QED
    BY <1>1, <1>2, <1>6, <2>1, CoverStays
<1>10. CASE ReadProducts(r)
  <2>1. /\ pc'[r] = "read-locations" /\ UNCHANGED <<catalogue, objects, cursor, window>>
        /\ snapshot'[r]["products"] = declared["products"]
        /\ snapshot'[r]["locations"] = snapshot[r]["locations"]
    BY <1>10 DEF ReadProducts, lakeVars, TypeOK, Catalogues, CatalogueDatasets
  <2>2. RunnerCarriesCatalogue(r)'
    BY <1>1, <1>2, <1>4, <2>1, WindowIsDeclared
       DEF RunnerCarriesCatalogue, CatalogueDatasets, Lists, CatalogueInv
  <2> QED
    BY <1>5, <2>1, <2>2
<1>11. CASE ReadLocations(r)
  <2>1. /\ pc[r] = "read-locations" /\ pc'[r] = "write-days"
        /\ UNCHANGED <<catalogue, objects, cursor, window>>
        /\ snapshot'[r]["products"] = snapshot[r]["products"]
        /\ snapshot'[r]["locations"] = declared["locations"]
    BY <1>11 DEF ReadLocations, lakeVars, TypeOK, Catalogues, CatalogueDatasets
  <2>2. RunnerCarriesCatalogue(r)'
    BY <1>1, <1>2, <1>4, <2>1, WindowIsDeclared
       DEF RunnerCarriesCatalogue, CatalogueDatasets, Lists, CatalogueInv
  <2> QED
    BY <1>5, <2>1, <2>2
<1>12. CASE WriteDay(r)
  <2>1. /\ pc[r] = "write-days"
        /\ UNCHANGED <<catalogue, cursor, pc, window, snapshot>>
    BY <1>12 DEF WriteDay
  <2>2. RunnerCarriesCatalogue(r)'
    BY <1>1, <2>1, CatalogueRunnerUnmoved
  <2>3. PICK day \in Nat :
          /\ window[r] # NoWindow
          /\ objects' = Put(day, window[r], DayRows(day, window[r]))
    BY <1>1, <1>12, WriteDayContent
  <2>4. window[r] = Pending(cursor)
    BY <1>1, <2>1 DEF RunnerOnRecord
  <2>5. ~ (window[r].to <= cursor.through)
    BY <2>3, <2>4, PendingIsAhead DEF IInv, Pending, WindowFrom
  <2>6. \A o \in objects' : o \in objects \/ o.key.window = window[r]
    BY <2>3 DEF Put, ObjectKey
  <2>7. CatalogueCoversRows'
    BY <1>2, <2>1, <2>5, <2>6 DEF CatalogueCoversRows
  <2> QED
    BY <1>1, <1>2, <2>1, <2>2, <2>7
<1>13. CASE WriteProducts(r)
  <2>1. /\ pc[r] = "write-days" /\ pc'[r] = "write-locations"
        /\ UNCHANGED <<objects, cursor, window, snapshot>>
        /\ catalogue'["products"] = snapshot[r]["products"]
        /\ catalogue'["locations"] = catalogue["locations"]
    BY <1>13 DEF WriteProducts, lakeVars, TypeOK, Catalogues, CatalogueDatasets
  <2>2. RunnerCarriesCatalogue(r)'
    BY <1>1, <1>2, <1>4, <2>1 DEF RunnerCarriesCatalogue, CatalogueDatasets
  <2>3. \A d \in CatalogueDatasets : catalogue[d] \subseteq catalogue'[d]
    BY <1>1, <2>1 DEF RunnerCarriesCatalogue, CatalogueDatasets
  <2> QED
    BY <1>1, <1>2, <2>1, <2>2, <2>3, CoverStays DEF CatalogueDatasets
<1>14. CASE WriteLocations(r)
  <2>1. /\ pc[r] = "write-locations" /\ pc'[r] \in {"stamp", "confirm"}
        /\ UNCHANGED <<objects, cursor, window, snapshot>>
        /\ catalogue'["locations"] = snapshot[r]["locations"]
        /\ catalogue'["products"] = catalogue["products"]
    BY <1>14 DEF WriteLocations, lakeVars, TypeOK, Catalogues, CatalogueDatasets
  <2>2. RunnerCarriesCatalogue(r)'
    BY <1>1, <1>2, <1>4, <2>1 DEF RunnerCarriesCatalogue, CatalogueDatasets
  <2>3. \A d \in CatalogueDatasets : catalogue[d] \subseteq catalogue'[d]
    BY <1>1, <2>1 DEF RunnerCarriesCatalogue, CatalogueDatasets
  <2> QED
    BY <1>1, <1>2, <2>1, <2>2, <2>3, CoverStays DEF CatalogueDatasets
<1>15. CASE Confirm(r)
  <2>1. /\ pc[r] = "confirm" /\ pc'[r] = "stamp"
        /\ UNCHANGED <<objects, catalogue, snapshot>>
        /\ cursor'.through = window[r].to
    BY <1>15 DEF Confirm, TypeOK, lakeVars
  <2>2. \A m \in MovementsIn(window[r]) : Lists(catalogue, m)
    BY <1>1, <2>1 DEF RunnerCarriesCatalogue, Lists
  <2>3. window[r] = Pending(cursor)
    BY <1>1, <2>1 DEF RunnerOnRecord
  <2>4. CatalogueCoversRows'
    <3> SUFFICES ASSUME NEW o \in objects, NEW m \in o.rows PROVE Lists(catalogue, m)
      BY <2>1 DEF CatalogueCoversRows, Lists
    <3>1. CASE o.key.window.to <= cursor.through
      BY <1>2, <3>1 DEF CatalogueCoversRows, Lists
    <3>2. CASE o.key.window = window[r]
      BY <2>2, <3>2 DEF IInv, ObjectsAreTrue, DayRows
    <3> QED
      BY <2>3, <3>1, <3>2 DEF SInv, AttemptOnRecord
  <2> QED
    BY <1>1, <1>2, <1>6, <2>1, <2>4
<1>16. CASE WriteMark(r)
  <2>1. /\ pc'[r] = "idle" /\ snapshot'[r] = NoCatalogue
        /\ UNCHANGED <<objects, catalogue, cursor>>
    BY <1>16 DEF WriteMark, Forget, TypeOK
  <2> QED
    BY <1>5, <1>6, <2>1
<1> QED
  BY <1>7, <1>8, <1>9, <1>10, <1>11, <1>12, <1>13, <1>14, <1>15, <1>16 DEF Exporting

LEMMA CatalogueStep ==
    ASSUME Sequential
    PROVE  TypeOK /\ TypeOK' /\ IInv /\ SInv /\ CatalogueInv /\ [Next]_vars => CatalogueInv'
<1> SUFFICES ASSUME TypeOK, TypeOK', IInv, SInv, CatalogueInv, [Next]_vars
             PROVE  CatalogueInv'
  OBVIOUS
<1>1. /\ DatabaseEvolves /\ RecordedAreDeclared'
      /\ \A d \in CatalogueDatasets : declared[d] \subseteq declared'[d]
  BY DatabaseStep, DeclaredStep DEF CatalogueInv
<1>2. CASE UNCHANGED <<cursor, lakeVars, localVars>>
  <2>1. \A r \in Runners : GoodWindow(window[r]) /\ RunnerCarriesCatalogue(r)
    BY DEF IInv, RunnerIsTrue, CatalogueInv
  <2>2. \A r \in Runners : RunnerCarriesCatalogue(r)'
    BY <1>1, <1>2, <2>1, CatalogueRunnerUnmoved DEF lakeVars, localVars
  <2> QED
    BY <1>1, <1>2, <2>2 DEF CatalogueInv, CatalogueCoversRows, lakeVars
<1>3. ASSUME NEW r \in Runners, Exporting(r) PROVE CatalogueInv'
  BY <1>3, CatalogueRunner
<1>4. ASSUME NEW r \in Runners, Die(r) PROVE CatalogueInv'
  <2>1. /\ pc'[r] = "idle" /\ snapshot'[r] = NoCatalogue
        /\ UNCHANGED <<cursor, objects, catalogue>> /\ \A q \in Runners : q = r
    BY <1>4 DEF Die, Forget, TypeOK, lakeVars, Sequential
  <2>2. \A q \in Runners : RunnerCarriesCatalogue(q)'
    BY <2>1 DEF RunnerCarriesCatalogue, NoCatalogue
  <2> QED
    BY <1>1, <2>1, <2>2 DEF CatalogueInv, CatalogueCoversRows
<1> QED
  BY <1>2, <1>3, <1>4 DEF Next, Tick, OtherTransaction, DeclareProduct,
     DeclareLocation, Recording, BeginRecording, Insert, CommitRecording,
     AbortRecording, vars

LEMMA CatalogueInit == Init => CatalogueInv
  BY DEF Init, CatalogueInv, RecordedAreDeclared, CatalogueCoversRows,
     RunnerCarriesCatalogue, NoCatalogue

\* What has been confirmed as carried can be joined to the catalogue in the lake.
THEOREM ConfirmedCanBeJoined ==
    ASSUME Sequential
    PROVE  Spec => []CatalogueCoversRows
<1>1. CatalogueInv => CatalogueCoversRows
  BY DEF CatalogueInv
<1> QED
  BY <1>1, CatalogueInit, CatalogueStep, SequentialInductive, PTL DEF Spec

-----------------------------------------------------------------------------
(* The completeness mark.                                                  *)

LEMMA MarkRunner ==
    ASSUME Sequential, TypeOK, TypeOK', IInv, SInv, MarkInv, NEW r \in Runners,
           Exporting(r)
    PROVE  MarkInv' /\ (mark' # mark => mark < mark' /\ cursor'.pendingFrom = NULL)
<1>1. /\ clock \in Nat /\ mark \in Nat /\ stamp[r] \in Nat /\ clock' = clock
      /\ \A q \in Runners : q = r
      /\ RunnerOnRecord(r) /\ mark <= clock
      /\ pc[r] \in {"stamp", "mark"} => cursor.pendingFrom = NULL
      /\ pc[r] = "mark" => mark <= stamp[r] /\ stamp[r] <= clock
  <2>1. clock' = clock
    BY DEF Exporting, ReadCursor, ReadHorizon, Start, ReadMovements, ReadProducts,
       ReadLocations, WriteDay, WriteProducts, WriteLocations, Confirm, StampMark,
       WriteMark
  <2> QED
    BY <2>1 DEF TypeOK, SInv, MarkInv, Sequential
<1>2. ASSUME mark' = mark, pc'[r] \notin {"stamp", "mark"}
      PROVE  MarkInv'
  BY <1>1, <1>2 DEF MarkInv
<1>3. CASE \/ ReadCursor(r) \/ Start(r) \/ ReadMovements(r) \/ ReadProducts(r)
           \/ ReadLocations(r) \/ WriteProducts(r) \/ WriteDay(r)
  <2>1. mark' = mark /\ pc'[r] \notin {"stamp", "mark"}
    BY <1>3 DEF TypeOK, ReadCursor, Start, ReadMovements, ReadProducts, ReadLocations,
       WriteProducts, WriteDay, lakeVars
  <2> QED
    BY <1>2, <2>1
<1>4. CASE ReadHorizon(r)
  <2>1. PICK h \in HorizonCandidates :
          pc' = [pc EXCEPT ![r] =
                  CASE Decision(seen[r], h) = "carry" -> "start"
                    [] Decision(seen[r], h) = "up-to-date" -> "read-movements"
                    [] Decision(seen[r], h) = "went-backwards" -> "idle"]
    BY <1>4 DEF ReadHorizon
  <2>2. Decision(seen[r], h) \in {"carry", "up-to-date", "went-backwards"}
    BY RowDecisionType DEF TypeOK, HorizonCandidates, InFlight, TransactionIds
  <2>3. mark' = mark /\ pc'[r] \in {"start", "read-movements", "idle"}
    BY <1>4, <2>1, <2>2 DEF ReadHorizon, lakeVars, TypeOK
  <2> QED
    BY <1>2, <2>3
<1>5. CASE WriteLocations(r)
  <2>1. /\ mark' = mark /\ cursor' = cursor /\ pc[r] = "write-locations"
        /\ pc'[r] = IF window[r] = NoWindow THEN "stamp" ELSE "confirm"
    BY <1>5 DEF WriteLocations, TypeOK
  <2>2. window[r] = NoWindow => cursor.pendingFrom = NULL
    BY <1>1, <2>1 DEF RunnerOnRecord, Pending, WindowFrom, NoWindow
  <2> QED
    BY <1>1, <2>1, <2>2 DEF MarkInv
<1>6. CASE Confirm(r)
  <2>1. mark' = mark /\ cursor'.pendingFrom = NULL /\ pc'[r] = "stamp"
    BY <1>6 DEF Confirm, TypeOK, lakeVars
  <2> QED
    BY <1>1, <2>1 DEF MarkInv
<1>7. CASE StampMark(r)
  <2>1. /\ mark' = mark /\ cursor' = cursor /\ stamp'[r] = clock /\ pc[r] = "stamp"
    BY <1>7 DEF StampMark, TypeOK, lakeVars
  <2> QED
    BY <1>1, <2>1 DEF MarkInv
<1>8. CASE WriteMark(r)
  <2>1. mark' = stamp[r] /\ cursor' = cursor /\ pc[r] = "mark" /\ pc'[r] = "idle"
    BY <1>8 DEF WriteMark, Forget, TypeOK
  <2> QED
    BY <1>1, <2>1 DEF MarkInv
<1> QED
  BY <1>3, <1>4, <1>5, <1>6, <1>7, <1>8 DEF Exporting

LEMMA MarkStep ==
    ASSUME Sequential
    PROVE  TypeOK /\ TypeOK' /\ IInv /\ SInv /\ MarkInv /\ [Next]_vars
             => MarkInv' /\ (mark' # mark => mark < mark' /\ cursor'.pendingFrom = NULL)
<1> SUFFICES ASSUME TypeOK, TypeOK', IInv, SInv, MarkInv, [Next]_vars
             PROVE  MarkInv' /\ (mark' # mark => mark < mark' /\ cursor'.pendingFrom = NULL)
  OBVIOUS
<1>1. CASE clock <= clock' /\ UNCHANGED <<mark, cursor, pc, stamp>>
  BY <1>1 DEF MarkInv, TypeOK
<1>2. ASSUME NEW r \in Runners, Die(r) PROVE MarkInv' /\ mark' = mark
  <2>1. pc'[r] = "idle" /\ UNCHANGED <<mark, clock>> /\ \A q \in Runners : q = r
    BY <1>2 DEF Die, Forget, TypeOK, lakeVars, Sequential
  <2> QED
    BY <2>1 DEF MarkInv
<1>3. clock \in Nat
  BY DEF TypeOK
<1>4. CASE UNCHANGED vars
  BY <1>1, <1>3, <1>4 DEF vars, lakeVars, localVars
<1>5. CASE Tick \/ OtherTransaction
  BY <1>1, <1>3, <1>5 DEF Tick, OtherTransaction, lakeVars, localVars
<1>6. CASE \/ \E p \in Products : DeclareProduct(p)
           \/ \E l \in Locations : DeclareLocation(l)
           \/ \E m \in Movements : Recording(m)
  BY <1>1, <1>3, <1>6 DEF DeclareProduct, DeclareLocation, Recording, BeginRecording,
     Insert, CommitRecording, AbortRecording, lakeVars, localVars
<1> QED
  BY <1>2, <1>4, <1>5, <1>6, MarkRunner DEF Next

LEMMA MarkInit == Init => MarkInv
  BY DEF Init, MarkInv, NULL

\* The mark only moves forward, and never while a window is pending.
THEOREM MarkFollows ==
    ASSUME Sequential
    PROVE  Spec => MarkFollowsConfirmation
<1>1. TypeOK /\ TypeOK' /\ IInv /\ SInv /\ MarkInv /\ [Next]_vars
        => [mark' # mark => mark < mark' /\ cursor'.pendingFrom = NULL]_vars
  BY MarkStep
<1> QED
  BY <1>1, MarkInit, MarkStep, SequentialInductive, PTL DEF Spec, MarkFollowsConfirmation

-----------------------------------------------------------------------------
(* The ledger.                                                             *)

LEMMA LedgerInit == Init => Ledger!Init
  BY DEF Init, Ledger!Init, Committed, Confirmed, Presence

LEMMA LedgerUnmoved ==
    ASSUME UNCHANGED <<status, recordedXid, objects, cursor>>
    PROVE  UNCHANGED <<Committed, [m \in Movements |-> Presence(m)], Confirmed>>
  BY DEF Committed, Confirmed, Presence

\* A committing transaction records its movement, above the point reached.
LEMMA LedgerRecord ==
    ASSUME TypeOK, IInv, NEW m \in Movements, CommitRecording(m)
    PROVE  Ledger!Record(m)
<1>1. Committed' = Committed \cup {m} /\ m \notin Committed
  BY DEF TypeOK, CommitRecording, Committed
<1>2. Confirmed' = Confirmed
  <2>1. cursor.through <= recordedXid[m]
    BY DEF IInv, GoodRow, Settled, InFlight, CommitRecording
  <2>2. cursor.through \in Nat /\ recordedXid[m] \in Nat
    BY DEF TypeOK, CursorRows
  <2>3. ~ (recordedXid[m] < cursor.through)
    BY <2>1, <2>2
  <2> QED
    BY <1>1, <2>3 DEF Confirmed, CommitRecording
<1>3. [k \in Movements |-> Presence(k)]' = [k \in Movements |-> Presence(k)]
  BY DEF Presence, CommitRecording, lakeVars
<1> QED
  BY <1>1, <1>2, <1>3 DEF Ledger!Record

\* Writing an object publishes its rows, or replays an object already there.
LEMMA LedgerPublish ==
    ASSUME TypeOK, IInv, ExactlyOnce, ExactlyOnce', NEW r \in Runners, WriteDay(r)
    PROVE  \E S \in SUBSET Movements : Ledger!Publish(S)
<1>1. PICK day \in Nat :
        objects' = Put(day, window[r], DayRows(day, window[r]))
  BY WriteDayContent DEF IInv
<1>2. PICK put : put = [key |-> ObjectKey(day, window[r]),
                        rows |-> DayRows(day, window[r])]
  OBVIOUS
<1>3. objects' = objects \cup {put}
  <2>1. objects \subseteq objects'
    BY <1>1, PutKeeps DEF TypeOK, IInv
  <2> QED
    BY <1>1, <1>2, <2>1 DEF Put
<1>4. put.rows \subseteq Committed /\ put.rows \subseteq Movements
  BY <1>2 DEF DayRows, MovementsIn, Committed
<1>5. UNCHANGED <<Committed, Confirmed>>
  BY DEF WriteDay, databaseVars, movementVars, Committed, Confirmed
<1>6. CASE put \in objects
  <2>1. objects' = objects
    BY <1>3, <1>6
  <2>2. [m \in Movements |-> Presence(m)]' = [m \in Movements |-> Presence(m)]
    BY <2>1 DEF Presence
  <2>3. Ledger!Publish({})
    BY <1>5, <2>2 DEF Ledger!Publish
  <2> QED
    BY <2>3
<1>7. CASE put \notin objects
  <2>1. \A m \in put.rows : \A o \in objects : m \notin o.rows
    BY <1>3, <1>7 DEF ExactlyOnce
  <2>2. \A m \in put.rows : Presence(m) = "absent"
    BY <2>1 DEF Presence
  <2>3. \A m \in put.rows : Presence(m)' = "once"
    BY <1>3, <2>1 DEF Presence
  <2>4. \A m \in Movements \ put.rows : Presence(m)' = Presence(m)
    BY <1>3 DEF Presence
  <2>5. [m \in Movements |-> Presence(m)]' =
          [m \in Movements |->
             IF m \in put.rows THEN "once" ELSE [k \in Movements |-> Presence(k)][m]]
    BY <2>3, <2>4
  <2>6. Ledger!Publish(put.rows)
    BY <1>4, <1>5, <2>2, <2>5 DEF Ledger!Publish
  <2> QED
    BY <1>4, <2>6
<1> QED
  BY <1>6, <1>7

\* Moving the point reached confirms movements that are all published.
LEMMA LedgerConfirm ==
    ASSUME TypeOK, TypeOK', IInv, IInv', SInv, ExactlyOnce, NEW r \in Runners,
           Confirm(r)
    PROVE  \E S \in SUBSET Movements : Ledger!Confirm(S)
<1>1. /\ UNCHANGED <<status, recordedXid, objects>>
      /\ cursor'.through = window[r].to
  BY DEF Confirm, movementVars, lakeVars
<1>2. cursor.through <= cursor'.through
  <2>1. window[r] = Pending(cursor) /\ Pending(cursor) # NoWindow
    BY DEF Confirm, SInv, RunnerOnRecord, IInv, RunnerIsTrue
  <2>2. /\ cursor.through <= cursor.pendingFrom
        /\ cursor.pendingFrom < cursor.pendingTo
        /\ cursor.through \in Nat /\ cursor.pendingFrom \in Nat
        /\ cursor.pendingTo \in Nat
    BY <2>1, PendingIsAhead DEF IInv
  <2> QED
    BY <1>1, <2>1, <2>2 DEF Pending, WindowFrom
<1>3. UNCHANGED <<Committed, [m \in Movements |-> Presence(m)]>>
  BY <1>1 DEF Committed, Presence
<1>4. Confirmed \subseteq Confirmed'
  BY <1>1, <1>2 DEF Confirmed, Committed, TypeOK, CursorRows
<1>5. Confirmed' \subseteq Published /\ Confirmed' \subseteq Committed
  BY <1>1 DEF Confirmed, Committed, IInv, GoodRow, CarriedBelow, Published
<1>6. \A m \in Published : Presence(m) = "once"
  BY DEF Published, Presence, ExactlyOnce
<1>7. Confirmed' \in SUBSET Movements
  BY <1>5 DEF Committed
<1>8. Ledger!Confirm(Confirmed')
  BY <1>3, <1>4, <1>5, <1>6, <1>7 DEF Ledger!Confirm
<1> QED
  BY <1>7, <1>8

LEMMA LedgerStep ==
    ASSUME TypeOK, TypeOK', IInv, IInv', SInv, SInv', [Next]_vars
    PROVE  [Ledger!Next]_Ledger!vars
<1>0. ExactlyOnce
  BY ObjectsDisjoint
<1>1. ExactlyOnce'
  BY ObjectsDisjoint, PTL
<1>2. ASSUME UNCHANGED <<status, recordedXid, objects, cursor>>
      PROVE  UNCHANGED Ledger!vars
  BY <1>2, LedgerUnmoved DEF Ledger!vars
<1>3. ASSUME NEW m \in Movements, Recording(m) PROVE [Ledger!Next]_Ledger!vars
  <2>1. CASE CommitRecording(m)
    BY <2>1, LedgerRecord DEF Ledger!Next
  <2>2. CASE BeginRecording(m) \/ Insert(m) \/ AbortRecording(m)
    <3>1. Committed' = Committed /\ UNCHANGED <<objects, cursor>>
      BY <2>2 DEF BeginRecording, Insert, AbortRecording, Committed, TypeOK, lakeVars
    <3>2. \A k \in Committed : recordedXid'[k] = recordedXid[k]
      BY <2>2 DEF BeginRecording, Insert, AbortRecording, Committed, TypeOK
    <3>3. Confirmed' = Confirmed
      BY <3>1, <3>2 DEF Confirmed
    <3>4. [k \in Movements |-> Presence(k)]' = [k \in Movements |-> Presence(k)]
      BY <3>1 DEF Presence
    <3> QED
      BY <3>1, <3>3, <3>4 DEF Ledger!vars
  <2> QED
    BY <1>3, <2>1, <2>2 DEF Recording
<1>4. ASSUME NEW r \in Runners, Exporting(r) PROVE [Ledger!Next]_Ledger!vars
  <2>1. CASE WriteDay(r)
    BY <1>0, <1>1, <2>1, LedgerPublish DEF Ledger!Next
  <2>2. CASE Confirm(r)
    BY <1>0, <2>2, LedgerConfirm DEF Ledger!Next
  <2>3. CASE Start(r)
    <3>1. UNCHANGED <<status, recordedXid, objects>> /\ cursor'.through = cursor.through
      BY <2>3 DEF Start, movementVars, lakeVars
    <3> QED
      BY <3>1 DEF Ledger!vars, Committed, Confirmed, Presence
  <2> QED
    BY <1>2, <1>4, <2>1, <2>2, <2>3 DEF Exporting, ReadCursor, ReadHorizon,
       ReadMovements, ReadProducts, ReadLocations, WriteProducts,
       WriteLocations, StampMark, WriteMark, databaseVars, movementVars, lakeVars
<1> QED
  BY <1>2, <1>3, <1>4 DEF Next, Tick, OtherTransaction, DeclareProduct,
     DeclareLocation, Die, vars, databaseVars, movementVars, lakeVars

\* Sequential runs of the export implement the ledger, for every value of the
\* constants: the initial states map to initial states and every step to a
\* step of the ledger or to none.
THEOREM ImplementsLedger ==
    ASSUME Sequential
    PROVE  Spec => LedgerSpec
<1>1. Init => Ledger!Init
  BY LedgerInit
<1>2. (TypeOK /\ IInv /\ SInv) /\ (TypeOK /\ IInv /\ SInv)' /\ [Next]_vars
        => [Ledger!Next]_Ledger!vars
  BY LedgerStep
<1> QED
  BY <1>1, <1>2, SequentialInductive, PTL DEF Spec, LedgerSpec, Ledger!Spec

=============================================================================
