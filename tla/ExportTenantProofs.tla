------------------------- MODULE ExportTenantProofs -------------------------
(***************************************************************************)
(* Proofs about one tenant's export: type correctness, and the safety      *)
(* properties of any number of overlapping runs.                           *)
(***************************************************************************)
EXTENDS ExportInductive, TLAPS

-----------------------------------------------------------------------------
(* Type correctness.                                                       *)

LEMMA RowDecisionType ==
    ASSUME NEW c \in CursorRows, NEW h \in Nat
    PROVE  /\ NextWindow(c, h) \in Windows
           /\ Decision(c, h) \in {"carry", "up-to-date", "went-backwards"}
  BY DEF NextWindow, Decision, StartingPoint, Pending, WindowFrom, NoWindow,
         Windows, CursorRows, NULL, FIRST

LEMMA DayType ==
    ASSUME NEW t \in Nat
    PROVE  Day(t) \in Nat
  BY BoundsAssumption DEF Day

LEMMA ForgetType ==
    ASSUME TypeOK, NEW r \in Runners, Forget(r)
    PROVE  /\ pc' \in [Runners -> Stages]
           /\ seen' \in [Runners -> CursorRows]
           /\ window' \in [Runners -> Windows]
           /\ rows' \in [Runners -> SUBSET Movements]
           /\ snapshot' \in [Runners -> Catalogues]
           /\ stamp' \in [Runners -> Nat]
  BY DEF TypeOK, Forget, Stages, EmptyRow, CursorRows, NoWindow, Windows,
         NoCatalogue, Catalogues, NULL

LEMMA TypeInit == Init => TypeOK
  BY DEF Init, TypeOK, Stages, EmptyRow, CursorRows, NoWindow, Windows,
         NoCatalogue, Catalogues, NULL, FIRST, TransactionIds

LEMMA TypeStep == TypeOK /\ [Next]_vars => TypeOK'
<1> SUFFICES ASSUME TypeOK, [Next]_vars PROVE TypeOK'
  OBVIOUS
<1> USE DEF TypeOK
<1>1. CASE Tick
  BY <1>1 DEF Tick, databaseVars, movementVars, lakeVars, localVars
<1>2. CASE OtherTransaction
  BY <1>2 DEF OtherTransaction, databaseVars, movementVars, lakeVars, localVars,
              TransactionIds, NULL
<1>3. ASSUME NEW p \in Products, DeclareProduct(p) PROVE TypeOK'
  BY <1>3 DEF DeclareProduct, movementVars, lakeVars, localVars, Catalogues,
              CatalogueDatasets
<1>4. ASSUME NEW l \in Locations, DeclareLocation(l) PROVE TypeOK'
  BY <1>4 DEF DeclareLocation, movementVars, lakeVars, localVars, Catalogues,
              CatalogueDatasets
<1>5. ASSUME NEW m \in Movements, Recording(m) PROVE TypeOK'
  <2>1. CASE BeginRecording(m)
    BY <2>1 DEF BeginRecording, lakeVars, localVars
  <2>2. CASE Insert(m)
    BY <2>2 DEF Insert, lakeVars, localVars, TransactionIds, NULL
  <2>3. CASE CommitRecording(m)
    BY <2>3 DEF CommitRecording, lakeVars, localVars
  <2>4. CASE AbortRecording(m)
    BY <2>4 DEF AbortRecording, lakeVars, localVars
  <2> QED
    BY <1>5, <2>1, <2>2, <2>3, <2>4 DEF Recording
<1>6. ASSUME NEW r \in Runners, Exporting(r) PROVE TypeOK'
  <2>1. CASE ReadCursor(r)
    BY <2>1 DEF ReadCursor, databaseVars, movementVars, lakeVars, Stages
  <2>2. CASE ReadHorizon(r)
    <3>1. PICK h \in HorizonCandidates : IsHorizon(h) /\ window' = [window EXCEPT ![r] = NextWindow(seen[r], h)]
            /\ pc' = [pc EXCEPT ![r] =
                    CASE Decision(seen[r], h) = "carry" -> "start"
                      [] Decision(seen[r], h) = "up-to-date" -> "read-movements"
                      [] Decision(seen[r], h) = "went-backwards" -> "idle"]
      BY <2>2 DEF ReadHorizon
    <3>2. h \in Nat
      BY <3>1 DEF HorizonCandidates, InFlight, TransactionIds
    <3>3. /\ NextWindow(seen[r], h) \in Windows
          /\ Decision(seen[r], h) \in {"carry", "up-to-date", "went-backwards"}
      BY <3>2, RowDecisionType
    <3>4. window' \in [Runners -> Windows] /\ pc' \in [Runners -> Stages]
      BY <3>1, <3>3 DEF Stages
    <3>5. seen' \in [Runners -> CursorRows]
      BY <2>2 DEF ReadHorizon, EmptyRow, CursorRows, NULL
    <3> QED
      BY <2>2, <3>4, <3>5 DEF ReadHorizon, databaseVars, movementVars, lakeVars
  <2>3. CASE Start(r)
    <3>1. nextXid' \in TransactionIds
      BY <2>3 DEF Start, XidTaken, TransactionIds, NULL
    <3>2. cursor' \in CursorRows
      BY <2>3 DEF Start, CursorRows, Windows
    <3>3. pc' \in [Runners -> Stages]
      BY <2>3 DEF Start, Stages
    <3> QED
      BY <2>3, <3>1, <3>2, <3>3 DEF Start, movementVars, lakeVars
  <2>4. CASE ReadMovements(r)
    BY <2>4 DEF ReadMovements, databaseVars, movementVars, lakeVars, Stages,
                MovementsIn, Committed
  <2>5. CASE ReadProducts(r)
    BY <2>5 DEF ReadProducts, databaseVars, movementVars, lakeVars, Stages,
                Catalogues, CatalogueDatasets
  <2>6. CASE ReadLocations(r)
    BY <2>6 DEF ReadLocations, databaseVars, movementVars, lakeVars, Stages,
                Catalogues, CatalogueDatasets
  <2>7. CASE WriteDay(r)
    <3>1. PICK m \in rows[r] :
            LET day     == Day(recordedAt[m])
                content == {n \in rows[r] : Day(recordedAt[n]) = day}
            IN  /\ objects' = Put(day, window[r], content)
                /\ rows' = [rows EXCEPT ![r] = @ \ content]
      BY <2>7 DEF WriteDay
    <3> DEFINE day == Day(recordedAt[m])
               content == {n \in rows[r] : Day(recordedAt[n]) = day}
    <3>2. m \in Movements /\ rows[r] \subseteq Movements
      OBVIOUS
    <3>3. day \in Nat /\ content \subseteq Movements
      BY <3>2, DayType
    <3>4. [key |-> ObjectKey(day, window[r]), rows |-> content] \in Objects
      BY <3>3 DEF Objects, ObjectKey
    <3>5. objects' \in SUBSET Objects
      BY <3>1, <3>4 DEF Put
    <3>6. rows' \in [Runners -> SUBSET Movements]
      BY <3>1
    <3> QED
      BY <2>7, <3>5, <3>6 DEF WriteDay, databaseVars, movementVars
  <2>8. CASE WriteProducts(r)
    BY <2>8 DEF WriteProducts, databaseVars, movementVars, Stages, Catalogues,
                CatalogueDatasets
  <2>9. CASE WriteLocations(r)
    BY <2>9 DEF WriteLocations, databaseVars, movementVars, Stages, Catalogues,
                CatalogueDatasets
  <2>10. CASE Confirm(r)
    <3>1. nextXid' \in TransactionIds
      BY <2>10 DEF Confirm, XidTaken, TransactionIds, NULL
    <3>2. cursor' \in CursorRows
      BY <2>10 DEF Confirm, CursorRows, Windows, NULL
    <3>3. pc' \in [Runners -> Stages]
      BY <2>10 DEF Confirm, Stages
    <3> QED
      BY <2>10, <3>1, <3>2, <3>3 DEF Confirm, movementVars, lakeVars
  <2>11. CASE StampMark(r)
    BY <2>11 DEF StampMark, databaseVars, movementVars, lakeVars, Stages
  <2>12. CASE WriteMark(r)
    <3>1. Forget(r) /\ mark' = stamp[r]
      BY <2>12 DEF WriteMark
    <3> QED
      BY <2>12, <3>1, ForgetType DEF WriteMark, databaseVars, movementVars
  <2> QED
    BY <1>6, <2>1, <2>2, <2>3, <2>4, <2>5, <2>6, <2>7, <2>8, <2>9, <2>10,
       <2>11, <2>12 DEF Exporting
<1>7. ASSUME NEW r \in Runners, Die(r) PROVE TypeOK'
  <2>1. Forget(r) /\ failures' \in Nat
    BY <1>7 DEF Die
  <2> QED
    BY <1>7, <2>1, ForgetType DEF Die, databaseVars, movementVars, lakeVars
<1>8. CASE UNCHANGED vars
  BY <1>8 DEF vars, movementVars, lakeVars, localVars
<1> QED
  BY <1>1, <1>2, <1>3, <1>4, <1>5, <1>6, <1>7, <1>8 DEF Next

\* Every variable keeps its type: the cursor stays a pair of positions and a
\* pending window, the lake a set of objects named for a day and a window.
THEOREM TypeCorrect == Spec => []TypeOK
  BY TypeInit, TypeStep, PTL DEF Spec

-----------------------------------------------------------------------------
(* How the database and the lake evolve in one step.                       *)

\* Identifiers only grow, a committed movement stays as it is, a movement can
\* only commit after it was in flight, and the lake only gains objects.
DatabaseEvolves ==
    /\ nextXid <= nextXid'
    /\ \A m \in Movements :
        /\ status[m] = "committed" => status'[m] = "committed"
        /\ status'[m] = "inserted" =>
            \/ status[m] = "inserted" /\ recordedXid'[m] = recordedXid[m]
            \/ nextXid <= recordedXid'[m]
        /\ status'[m] = "committed" =>
            /\ status[m] \in {"inserted", "committed"}
            /\ recordedXid'[m] = recordedXid[m]
            /\ recordedAt'[m] = recordedAt[m]

LEMMA DatabaseStep == TypeOK /\ [Next]_vars => DatabaseEvolves
<1> SUFFICES ASSUME TypeOK, [Next]_vars PROVE DatabaseEvolves
  OBVIOUS
<1> USE DEF TypeOK, DatabaseEvolves, TransactionIds
<1>1. CASE UNCHANGED databaseVars
  BY <1>1 DEF databaseVars, movementVars
<1>2. CASE OtherTransaction
  BY <1>2 DEF OtherTransaction, movementVars
<1>3. ASSUME NEW m \in Movements, Recording(m) PROVE DatabaseEvolves
  <2>1. CASE BeginRecording(m)
    BY <2>1 DEF BeginRecording
  <2>2. CASE Insert(m)
    BY <2>2 DEF Insert
  <2>3. CASE CommitRecording(m)
    BY <2>3 DEF CommitRecording
  <2>4. CASE AbortRecording(m)
    BY <2>4 DEF AbortRecording
  <2> QED
    BY <1>3, <2>1, <2>2, <2>3, <2>4 DEF Recording
<1>4. ASSUME NEW r \in Runners, Start(r) \/ Confirm(r) PROVE DatabaseEvolves
  BY <1>4 DEF Start, Confirm, XidTaken, movementVars
<1>5. CASE UNCHANGED <<movementVars, nextXid>>
  BY <1>5 DEF movementVars
<1>6. ASSUME NEW r \in Runners, Exporting(r) PROVE DatabaseEvolves
  BY <1>1, <1>4, <1>6 DEF Exporting, ReadCursor, ReadHorizon, ReadMovements,
     ReadProducts, ReadLocations, WriteDay, WriteProducts, WriteLocations,
     StampMark, WriteMark
<1> QED
  BY <1>1, <1>2, <1>3, <1>5, <1>6 DEF Next, Tick, DeclareProduct,
     DeclareLocation, Die, vars, databaseVars

\* A settled point stays settled, so a window below it holds the same rows.
LEMMA SettledStays ==
    ASSUME TypeOK, TypeOK', DatabaseEvolves, NEW t \in Nat, Settled(t)
    PROVE  /\ Settled(t)'
           /\ \A m \in Movements :
                (m \in Committed' /\ recordedXid'[m] < t) <=>
                (m \in Committed /\ recordedXid[m] < t)
<1>1. /\ nextXid \in Nat /\ nextXid' \in Nat /\ nextXid <= nextXid'
      /\ \A m \in Movements : recordedXid[m] \in Nat /\ recordedXid'[m] \in Nat
  BY DEF TypeOK, TransactionIds, DatabaseEvolves
<1>2. Settled(t)'
  BY <1>1 DEF DatabaseEvolves, Settled, InFlight
<1>3. ASSUME NEW m \in Movements, status'[m] = "committed", recordedXid'[m] < t
      PROVE  status[m] = "committed" /\ recordedXid[m] < t
  BY <1>1, <1>3 DEF DatabaseEvolves, Settled, InFlight
<1>4. ASSUME NEW m \in Movements, status[m] = "committed", recordedXid[m] < t
      PROVE  status'[m] = "committed" /\ recordedXid'[m] < t
  BY <1>1, <1>4 DEF DatabaseEvolves
<1> QED
  BY <1>2, <1>3, <1>4 DEF Committed

LEMMA WindowStays ==
    ASSUME TypeOK, TypeOK', DatabaseEvolves, NEW w \in Windows,
           w = NoWindow \/ Settled(w.to)
    PROVE  /\ MovementsIn(w)' = MovementsIn(w)
           /\ \A m \in MovementsIn(w) : recordedAt'[m] = recordedAt[m]
<1>1. \A m \in Committed : m \in Committed' /\ recordedXid'[m] = recordedXid[m]
                              /\ recordedAt'[m] = recordedAt[m]
  BY DEF DatabaseEvolves, Committed
<1>2. CASE w = NoWindow
  BY <1>2 DEF MovementsIn, Committed, NoWindow, Covers, NULL, TypeOK,
     DatabaseEvolves
<1>3. CASE Settled(w.to)
  <2>1. w.to \in Nat
    BY DEF Windows
  <2> QED
    BY <1>1, <1>3, <2>1, SettledStays DEF MovementsIn, Committed, Covers
<1> QED
  BY <1>2, <1>3

-----------------------------------------------------------------------------
(* The lake only gains objects.                                            *)

LEMMA NoWindowIsEmpty == TypeOK => MovementsIn(NoWindow) = {}
  BY DEF TypeOK, MovementsIn, Committed, NoWindow, Covers, NULL

\* The object a run writes for a day holds every movement of the window
\* recorded that day, whatever was written before it.
LEMMA WriteDayContent ==
    ASSUME TypeOK, NEW r \in Runners, RunnerIsTrue(r), WriteDay(r)
    PROVE  \E day \in Nat :
             /\ window[r] # NoWindow
             /\ objects' = Put(day, window[r], DayRows(day, window[r]))
             /\ rows' = [rows EXCEPT ![r] = @ \ DayRows(day, window[r])]
<1>1. PICK m \in rows[r] :
        LET day     == Day(recordedAt[m])
            content == {n \in rows[r] : Day(recordedAt[n]) = day}
        IN  /\ objects' = Put(day, window[r], content)
            /\ rows' = [rows EXCEPT ![r] = @ \ content]
  BY DEF WriteDay
<1> DEFINE day == Day(recordedAt[m])
           content == {n \in rows[r] : Day(recordedAt[n]) = day}
<1>2. /\ rows[r] \subseteq MovementsIn(window[r])
      /\ \A n \in MovementsIn(window[r]) \ rows[r] :
            \A k \in rows[r] : Day(recordedAt[k]) # Day(recordedAt[n])
  BY DEF WriteDay, RunnerIsTrue
<1>3. content = DayRows(day, window[r])
  BY <1>1, <1>2 DEF DayRows
<1>4. day \in Nat
  BY DayType DEF TypeOK
<1>5. window[r] # NoWindow
  BY <1>1, <1>2, NoWindowIsEmpty
<1> QED
  BY <1>1, <1>3, <1>4, <1>5

LEMMA PutKeeps ==
    ASSUME TypeOK, ObjectsAreTrue, NEW day \in Nat, NEW w \in Windows
    PROVE  objects \subseteq Put(day, w, DayRows(day, w))
<1> SUFFICES ASSUME NEW o \in objects, o.key = ObjectKey(day, w)
             PROVE  o = [key |-> ObjectKey(day, w), rows |-> DayRows(day, w)]
  BY DEF Put
<1>1. o \in Objects
  BY DEF TypeOK
<1>2. o = [key |-> o.key, rows |-> o.rows]
  BY <1>1 DEF Objects
<1>3. o.key.day = day /\ o.key.window = w
  BY DEF ObjectKey
<1> QED
  BY <1>2, <1>3 DEF ObjectsAreTrue

LEMMA ObjectsStay == TypeOK /\ IInv /\ [Next]_vars => objects \subseteq objects'
<1> SUFFICES ASSUME TypeOK, IInv, [Next]_vars PROVE objects \subseteq objects'
  OBVIOUS
<1>1. CASE UNCHANGED objects
  BY <1>1
<1>2. ASSUME NEW r \in Runners, WriteDay(r) PROVE objects \subseteq objects'
  <2>1. PICK day \in Nat :
          objects' = Put(day, window[r], DayRows(day, window[r]))
    BY <1>2, WriteDayContent DEF IInv
  <2>2. window[r] \in Windows
    BY DEF TypeOK
  <2> QED
    BY <2>1, <2>2, PutKeeps DEF IInv
<1> QED
  BY <1>1, <1>2 DEF Next, Tick, OtherTransaction, DeclareProduct,
     DeclareLocation, Recording, BeginRecording, Insert, CommitRecording,
     AbortRecording, Exporting, ReadCursor, ReadHorizon, Start, ReadMovements,
     ReadProducts, ReadLocations, WriteProducts, WriteLocations, Confirm,
     StampMark, WriteMark, Die, vars, lakeVars

\* What is published and decided stays published and decided, so a cursor row
\* or a window that was good when it was read is good when it is used.
LEMMA PublishedGrows ==
    ASSUME TypeOK', objects \subseteq objects'
    PROVE  Published \subseteq Published'
  BY DEF Published

LEMMA GoodWindowStays ==
    ASSUME TypeOK, TypeOK', DatabaseEvolves, objects \subseteq objects',
           NEW w \in Windows, GoodWindow(w)
    PROVE  GoodWindow(w)'
<1>1. CASE w = NoWindow
  BY <1>1 DEF GoodWindow
<1>2. CASE w # NoWindow
  <2>1. WellFormedWindow(w) /\ Settled(w.to) /\ CarriedBelow(w.from)
    BY <1>2 DEF GoodWindow
  <2>2. w.from \in Nat /\ w.to \in Nat /\ w.from <= w.to
    BY <2>1 DEF Windows, WellFormedWindow
  <2>3. Settled(w.to)'
    BY <2>1, <2>2, SettledStays
  <2>4. Settled(w.from)
    BY <2>1, <2>2 DEF Settled, TypeOK, TransactionIds, InFlight
  <2>5. CarriedBelow(w.from)'
    BY <2>1, <2>2, <2>4, SettledStays, PublishedGrows DEF CarriedBelow, Committed
  <2> QED
    BY <2>1, <2>3, <2>5 DEF GoodWindow
<1> QED
  BY <1>1, <1>2

LEMMA GoodRowStays ==
    ASSUME TypeOK, TypeOK', DatabaseEvolves, objects \subseteq objects',
           NEW c \in CursorRows, GoodRow(c)
    PROVE  GoodRow(c)'
<1>1. Pending(c) \in Windows /\ c.through \in Nat
  BY DEF CursorRows, Windows, Pending, WindowFrom
<1>2. GoodWindow(Pending(c))'
  BY <1>1, GoodWindowStays DEF GoodRow
<1>3. Settled(c.through)'
  BY <1>1, SettledStays DEF GoodRow
<1>4. CarriedBelow(c.through)'
  BY <1>1, SettledStays, PublishedGrows DEF GoodRow, CarriedBelow, Committed
<1> QED
  BY <1>2, <1>3, <1>4 DEF GoodRow

-----------------------------------------------------------------------------
(* The inductive invariant, one conjunct at a time.                        *)

LEMMA InvInit == Init => IInv
<1> SUFFICES ASSUME Init PROVE IInv
  OBVIOUS
<1>1. IdentifiersInOrder /\ ObjectsAreTrue
  BY DEF Init, IdentifiersInOrder, ObjectsAreTrue
<1>2. GoodWindow(NoWindow)
  BY DEF GoodWindow
<1>3. GoodRow(EmptyRow)
  BY <1>2 DEF Init, GoodRow, EmptyRow, Pending, WindowFrom, NoWindow, NULL, FIRST,
     Settled, CarriedBelow, InFlight, Committed
<1>4. \A r \in Runners : RunnerIsTrue(r)
  BY <1>2, <1>3 DEF Init, RunnerIsTrue
<1> QED
  BY <1>1, <1>3, <1>4 DEF IInv, Init

LEMMA IdentifiersStep ==
    TypeOK /\ IInv /\ [Next]_vars => IdentifiersInOrder'
<1> SUFFICES ASSUME TypeOK, IdentifiersInOrder, [Next]_vars
             PROVE  IdentifiersInOrder'
  BY DEF IInv
<1> USE DEF TypeOK, IdentifiersInOrder, TransactionIds, NULL, FIRST
<1>1. CASE UNCHANGED databaseVars
  BY <1>1 DEF databaseVars, movementVars
<1>2. ASSUME UNCHANGED movementVars, nextXid' = XidTaken \/ nextXid' = nextXid + 1
      PROVE  IdentifiersInOrder'
  BY <1>2 DEF movementVars, XidTaken
<1>3. ASSUME NEW m \in Movements, Recording(m) PROVE IdentifiersInOrder'
  <2>1. CASE BeginRecording(m)
    BY <2>1 DEF BeginRecording
  <2>2. CASE Insert(m)
    BY <2>2 DEF Insert
  <2>3. CASE CommitRecording(m)
    BY <2>3 DEF CommitRecording
  <2>4. CASE AbortRecording(m)
    BY <2>4 DEF AbortRecording
  <2> QED
    BY <1>3, <2>1, <2>2, <2>3, <2>4 DEF Recording
<1>4. ASSUME UNCHANGED movementVars, nextXid' = nextXid PROVE IdentifiersInOrder'
  BY <1>4 DEF movementVars
<1>5. ASSUME NEW r \in Runners, Exporting(r) PROVE IdentifiersInOrder'
  BY <1>1, <1>2, <1>5 DEF Exporting, ReadCursor, ReadHorizon, Start,
     ReadMovements, ReadProducts, ReadLocations, WriteDay, WriteProducts,
     WriteLocations, Confirm, StampMark, WriteMark
<1> QED
  BY <1>1, <1>2, <1>3, <1>4, <1>5 DEF Next, Tick, OtherTransaction,
     DeclareProduct, DeclareLocation, Die, vars, databaseVars

LEMMA ObjectsStep ==
    TypeOK /\ TypeOK' /\ IInv /\ [Next]_vars => ObjectsAreTrue'
<1> SUFFICES ASSUME TypeOK, TypeOK', IInv, [Next]_vars PROVE ObjectsAreTrue'
  OBVIOUS
<1>1. DatabaseEvolves
  BY DatabaseStep
<1>2. ASSUME NEW day \in Nat, NEW w \in Windows, WellFormedWindow(w), Settled(w.to)
      PROVE  Settled(w.to)' /\ DayRows(day, w)' = DayRows(day, w)
  <2>1. w.to \in Nat
    BY DEF Windows
  <2>2. Settled(w.to)'
    BY <1>1, <1>2, <2>1, SettledStays
  <2>3. /\ MovementsIn(w)' = MovementsIn(w)
        /\ \A m \in MovementsIn(w) : recordedAt'[m] = recordedAt[m]
    BY <1>1, <1>2, WindowStays
  <2> QED
    BY <2>2, <2>3 DEF DayRows, Day
<1>3. ASSUME NEW o \in objects
      PROVE  /\ WellFormedWindow(o.key.window)
             /\ Settled(o.key.window.to)'
             /\ o.rows = DayRows(o.key.day, o.key.window)'
  <2>1. o.key.day \in Nat /\ o.key.window \in Windows
    BY DEF TypeOK, Objects
  <2>2. /\ WellFormedWindow(o.key.window)
        /\ Settled(o.key.window.to)
        /\ o.rows = DayRows(o.key.day, o.key.window)
    BY DEF IInv, ObjectsAreTrue
  <2> QED
    BY <1>2, <2>1, <2>2
<1>4. CASE UNCHANGED objects
  BY <1>3, <1>4 DEF ObjectsAreTrue
<1>5. ASSUME NEW r \in Runners, WriteDay(r) PROVE ObjectsAreTrue'
  <2>1. PICK day \in Nat :
          /\ window[r] # NoWindow
          /\ objects' = Put(day, window[r], DayRows(day, window[r]))
    BY <1>5, WriteDayContent DEF IInv
  <2>2. PICK w \in Windows : w = window[r]
    BY DEF TypeOK
  <2>3. WellFormedWindow(w) /\ Settled(w.to)
    BY <2>1, <2>2 DEF IInv, RunnerIsTrue, GoodWindow
  <2>4. Settled(w.to)' /\ DayRows(day, w)' = DayRows(day, w)
    BY <1>2, <2>3
  <2>5. ASSUME NEW o \in objects', o \notin objects
        PROVE  /\ WellFormedWindow(o.key.window)
               /\ Settled(o.key.window.to)'
               /\ o.rows = DayRows(o.key.day, o.key.window)'
    <3>1. o.key.day = day /\ o.key.window = w /\ o.rows = DayRows(day, w)
      BY <2>1, <2>2, <2>5 DEF Put, ObjectKey
    <3> QED
      BY <2>3, <2>4, <3>1
  <2> QED
    BY <1>3, <2>5 DEF ObjectsAreTrue
<1> QED
  BY <1>4, <1>5 DEF Next, Tick, OtherTransaction, DeclareProduct,
     DeclareLocation, Recording, BeginRecording, Insert, CommitRecording,
     AbortRecording, Exporting, ReadCursor, ReadHorizon, Start, ReadMovements,
     ReadProducts, ReadLocations, WriteProducts, WriteLocations, Confirm,
     StampMark, WriteMark, Die, vars, lakeVars

\* The window nextWindow decides is good: replayed as recorded, or from the
\* point reached to a horizon no transaction in flight is below.
LEMMA NextWindowIsGood ==
    ASSUME TypeOK, IdentifiersInOrder, NEW c \in CursorRows, GoodRow(c),
           NEW h \in HorizonCandidates, IsHorizon(h)
    PROVE  /\ GoodWindow(NextWindow(c, h))
           /\ Decision(c, h) = "carry" => NextWindow(c, h) # NoWindow
           /\ Decision(c, h) # "carry" => NextWindow(c, h) = NoWindow
<1>1. h \in Nat /\ Settled(h)
  BY DEF TypeOK, HorizonCandidates, IsHorizon, InFlight, Settled, TransactionIds
<1>2. CASE Decision(c, h) # "carry"
  BY <1>2 DEF NextWindow, GoodWindow
<1>3. CASE CursorState(c) = "started"
  BY <1>3 DEF NextWindow, Decision, GoodRow, CursorState, Pending, WindowFrom,
     NoWindow
<1>4. CASE CursorState(c) # "started" /\ Decision(c, h) = "carry"
  <2> DEFINE from == StartingPoint(c)
  <2>1. NextWindow(c, h) = [from |-> from, to |-> h]
    BY <1>4 DEF NextWindow, WindowFrom
  <2>2. from \in Nat /\ NULL < from
    BY DEF StartingPoint, CursorState, CursorRows, NULL, FIRST
  <2>3. from < h
    BY <1>1, <1>4, <2>2 DEF Decision
  <2>4. CarriedBelow(from)
    <3>1. CASE from = c.through
      BY <3>1 DEF GoodRow
    <3>2. CASE from = FIRST
      BY <3>2 DEF CarriedBelow, Committed, IdentifiersInOrder, TypeOK, FIRST
    <3> QED
      BY <3>1, <3>2 DEF StartingPoint
  <2> QED
    BY <1>1, <1>4, <2>1, <2>2, <2>3, <2>4 DEF GoodWindow, WellFormedWindow,
       Windows, NoWindow, NULL
<1> QED
  BY <1>2, <1>3, <1>4

LEMMA CursorStep ==
    TypeOK /\ TypeOK' /\ IInv /\ [Next]_vars => GoodRow(cursor)'
<1> SUFFICES ASSUME TypeOK, TypeOK', IInv, [Next]_vars PROVE GoodRow(cursor)'
  OBVIOUS
<1>1. DatabaseEvolves /\ objects \subseteq objects'
  BY DatabaseStep, ObjectsStay
<1>2. \A c \in CursorRows : GoodRow(c) => GoodRow(c)'
  BY <1>1, GoodRowStays
<1>3. cursor \in CursorRows /\ GoodRow(cursor)
  BY DEF TypeOK, IInv
<1>4. CASE UNCHANGED cursor
  BY <1>2, <1>3, <1>4 DEF GoodRow, GoodWindow, Settled, CarriedBelow
<1>5. ASSUME NEW r \in Runners, Start(r) PROVE GoodRow(cursor)'
  <2>1. /\ cursor'.through = cursor.through
        /\ Pending(cursor') = window[r]
    <3>1. window[r] \in Windows
      BY DEF TypeOK
    <3> QED
      BY <1>5, <3>1 DEF Start, Pending, WindowFrom, Windows
  <2>2. window[r] \in Windows /\ GoodWindow(window[r])
    BY DEF TypeOK, IInv, RunnerIsTrue
  <2>3. GoodRow(cursor)
    BY <1>3
  <2>4. \A w \in Windows : GoodWindow(w) => GoodWindow(w)'
    BY <1>1, GoodWindowStays
  <2>5. \A c \in CursorRows : GoodRow(c) => Settled(c.through)' /\ CarriedBelow(c.through)'
    BY <1>2 DEF GoodRow
  <2> QED
    BY <1>3, <2>1, <2>2, <2>4, <2>5 DEF GoodRow, GoodWindow, Settled, CarriedBelow
<1>6. ASSUME NEW r \in Runners, Confirm(r) PROVE GoodRow(cursor)'
  <2>0. PICK w \in Windows : w = window[r]
    BY DEF TypeOK
  <2>1. w # NoWindow /\ GoodWindow(w)
    BY <1>6, <2>0 DEF IInv, RunnerIsTrue, Confirm
  <2>2. w.from \in Nat /\ w.to \in Nat
    BY DEF Windows
  <2>3. cursor' = [through |-> w.to, pendingFrom |-> NULL, pendingTo |-> NULL]
    BY <1>6, <2>0 DEF Confirm
  <2>4. Settled(w.to)'
    BY <1>1, <2>1, <2>2, SettledStays DEF GoodWindow
  <2>5. CarriedBelow(w.to)
    <3>1. MovementsIn(w) \subseteq Published
      BY <1>6, <2>0 DEF Confirm, IInv, RunnerIsTrue
    <3>2. CarriedBelow(w.from)
      BY <2>1 DEF GoodWindow
    <3> QED
      BY <2>2, <3>1, <3>2 DEF CarriedBelow, MovementsIn, Covers, Committed, TypeOK
  <2>6. CarriedBelow(w.to)'
    BY <1>1, <2>1, <2>2, <2>5, SettledStays, PublishedGrows
       DEF CarriedBelow, Committed, GoodWindow
  <2>7. Pending(cursor') = NoWindow
    BY <2>3 DEF Pending, WindowFrom, NoWindow
  <2> QED
    BY <2>3, <2>4, <2>6, <2>7 DEF GoodRow, GoodWindow, Settled, CarriedBelow
<1> QED
  BY <1>4, <1>5, <1>6 DEF Next, Tick, OtherTransaction, DeclareProduct,
     DeclareLocation, Recording, BeginRecording, Insert, CommitRecording,
     AbortRecording, Exporting, ReadCursor, ReadHorizon, ReadMovements,
     ReadProducts, ReadLocations, WriteDay, WriteProducts, WriteLocations,
     StampMark, WriteMark, Die, vars

\* What a run holds stays true while others take steps.
LEMMA RunnerUnmoved ==
    ASSUME TypeOK, TypeOK', DatabaseEvolves, objects \subseteq objects',
           NEW r \in Runners, RunnerIsTrue(r),
           pc'[r] = pc[r], seen'[r] = seen[r], window'[r] = window[r],
           rows'[r] = rows[r]
    PROVE  RunnerIsTrue(r)'
<1>1. PICK w \in Windows : w = window[r]
  BY DEF TypeOK
<1>2. PICK c \in CursorRows : c = seen[r]
  BY DEF TypeOK
<1>3. GoodWindow(w) /\ GoodWindow(w)' /\ GoodRow(c)'
  BY <1>1, <1>2, GoodWindowStays, GoodRowStays DEF RunnerIsTrue
<1>4. /\ MovementsIn(w)' = MovementsIn(w)
      /\ \A m \in MovementsIn(w) : recordedAt'[m] = recordedAt[m]
  BY <1>3, WindowStays DEF GoodWindow
<1>5. Published \subseteq Published'
  BY PublishedGrows
<1>6. GoodRow(seen[r])' /\ GoodWindow(window[r])'
  BY <1>1, <1>2, <1>3 DEF GoodRow, GoodWindow, Settled, CarriedBelow
<1>7. MovementsIn(window[r])' = MovementsIn(window[r])
  BY <1>1, <1>4 DEF MovementsIn, Committed
<1>8. pc'[r] \in {"start", "confirm"} => window'[r] # NoWindow
  BY DEF RunnerIsTrue
<1>9. ASSUME pc'[r] \in {"read-products", "read-locations", "write-days"}
      PROVE  /\ rows'[r] \subseteq MovementsIn(window[r])'
             /\ \A n \in MovementsIn(window[r])' \ rows'[r] :
                 /\ n \in Published'
                 /\ \A m \in rows'[r] : Day(recordedAt'[m]) # Day(recordedAt'[n])
  BY <1>1, <1>4, <1>5, <1>7, <1>9 DEF RunnerIsTrue
<1>10. pc'[r] \in {"write-locations", "confirm"} =>
         MovementsIn(window[r])' \subseteq Published'
  BY <1>5, <1>7 DEF RunnerIsTrue
<1> QED
  BY <1>6, <1>8, <1>9, <1>10 DEF RunnerIsTrue, Day

LEMMA RunnerForgotten ==
    ASSUME TypeOK, TypeOK', IInv, DatabaseEvolves, NEW r \in Runners, Forget(r)
    PROVE  RunnerIsTrue(r)'
<1>1. /\ pc'[r] = "idle" /\ seen'[r] = EmptyRow /\ window'[r] = NoWindow
  BY DEF Forget, TypeOK
<1>2. GoodRow(seen[r])'
  BY <1>1 DEF TypeOK, TransactionIds, GoodRow, GoodWindow, Settled, CarriedBelow, EmptyRow,
     Pending, WindowFrom, NoWindow, NULL, InFlight, Committed
<1> QED
  BY <1>1, <1>2 DEF RunnerIsTrue, GoodWindow

\* The step of the run itself.
LEMMA RunnerMoves ==
    ASSUME TypeOK, TypeOK', IInv, [Next]_vars, NEW r \in Runners, Exporting(r)
    PROVE  RunnerIsTrue(r)'
<1>1. DatabaseEvolves /\ objects \subseteq objects' /\ RunnerIsTrue(r)
  BY DatabaseStep, ObjectsStay DEF IInv
<1>2. Published \subseteq Published'
  BY <1>1, PublishedGrows
<1>3. PICK w \in Windows : w = window[r]
  BY DEF TypeOK
<1>4. PICK c \in CursorRows : c = seen[r]
  BY DEF TypeOK
<1>5. GoodWindow(w) /\ GoodWindow(w)' /\ GoodRow(c) /\ GoodRow(c)'
  BY <1>1, <1>3, <1>4, GoodWindowStays, GoodRowStays DEF RunnerIsTrue
<1>6. MovementsIn(w)' = MovementsIn(w)
  BY <1>1, <1>5, WindowStays DEF GoodWindow
<1>7. ASSUME seen'[r] = c PROVE GoodRow(seen[r])'
  BY <1>5, <1>7 DEF GoodRow, GoodWindow, Settled, CarriedBelow
<1>8. ASSUME window'[r] = w
      PROVE  /\ GoodWindow(window[r])'
             /\ MovementsIn(window[r])' = MovementsIn(w)
  BY <1>5, <1>6, <1>8 DEF GoodWindow, Settled, CarriedBelow, MovementsIn, Committed
<1>9. CASE ReadCursor(r)
  <2>1. /\ pc'[r] = "horizon" /\ seen'[r] = cursor /\ window'[r] = w
        /\ UNCHANGED cursor
    BY <1>3, <1>9 DEF ReadCursor, TypeOK
  <2>2. GoodRow(cursor)'
    BY CursorStep
  <2>3. GoodRow(seen[r])'
    BY <2>1, <2>2 DEF GoodRow, GoodWindow, Settled, CarriedBelow
  <2> QED
    BY <1>8, <2>1, <2>3 DEF RunnerIsTrue
<1>10. CASE ReadHorizon(r)
  <2>1. PICK h \in HorizonCandidates :
          /\ IsHorizon(h)
          /\ window'[r] = NextWindow(c, h)
          /\ pc'[r] = CASE Decision(c, h) = "carry" -> "start"
                        [] Decision(c, h) = "up-to-date" -> "read-movements"
                        [] Decision(c, h) = "went-backwards" -> "idle"
    BY <1>4, <1>10 DEF ReadHorizon, TypeOK
  <2>2. /\ GoodWindow(NextWindow(c, h))
        /\ Decision(c, h) = "carry" => NextWindow(c, h) # NoWindow
    BY <1>5, <2>1, NextWindowIsGood DEF IInv
  <2>3. /\ NextWindow(c, h) \in Windows
        /\ Decision(c, h) \in {"carry", "up-to-date", "went-backwards"}
    BY RowDecisionType DEF TypeOK, HorizonCandidates, InFlight, TransactionIds
  <2>4. PICK v \in Windows : v = NextWindow(c, h)
    BY <2>3
  <2>5. GoodWindow(v)'
    BY <1>1, <2>2, <2>4, GoodWindowStays
  <2>6. GoodWindow(window[r])'
    BY <2>1, <2>4, <2>5 DEF GoodWindow, Settled, CarriedBelow
  <2>7. /\ pc'[r] \in {"start", "read-movements", "idle"}
        /\ pc'[r] = "start" => window'[r] # NoWindow
    BY <2>1, <2>2, <2>3
  <2>8. seen'[r] = EmptyRow
    BY <1>10 DEF ReadHorizon, TypeOK
  <2>9. GoodRow(seen[r])'
    BY <2>8 DEF TypeOK, TransactionIds, GoodRow, GoodWindow, Settled, CarriedBelow, EmptyRow,
       Pending, WindowFrom, NoWindow, NULL, InFlight, Committed
  <2> QED
    BY <2>6, <2>7, <2>9 DEF RunnerIsTrue
<1>11. CASE Start(r)
  <2>1. pc'[r] = "read-movements" /\ seen'[r] = c /\ window'[r] = w
    BY <1>3, <1>4, <1>11 DEF Start, TypeOK
  <2> QED
    BY <1>7, <1>8, <2>1 DEF RunnerIsTrue
<1>12. CASE ReadMovements(r)
  <2>1. /\ pc'[r] = "read-products" /\ seen'[r] = c /\ window'[r] = w
        /\ rows'[r] = MovementsIn(w)
    BY <1>3, <1>4, <1>12 DEF ReadMovements, TypeOK
  <2> QED
    BY <1>7, <1>8, <2>1 DEF RunnerIsTrue
<1>13. CASE ReadProducts(r) \/ ReadLocations(r)
  <2>1. /\ pc[r] \in {"read-products", "read-locations"}
        /\ pc'[r] \in {"read-locations", "write-days"} /\ seen'[r] = c
        /\ window'[r] = w /\ rows'[r] = rows[r] /\ UNCHANGED recordedAt
    BY <1>3, <1>4, <1>13 DEF ReadProducts, ReadLocations, TypeOK,
       databaseVars, movementVars
  <2>2. /\ rows[r] \subseteq MovementsIn(w)
        /\ \A n \in MovementsIn(w) \ rows[r] :
              /\ n \in Published
              /\ \A m \in rows[r] : Day(recordedAt[m]) # Day(recordedAt[n])
    BY <1>1, <1>3, <2>1 DEF RunnerIsTrue
  <2> QED
    BY <1>2, <1>7, <1>8, <2>1, <2>2 DEF RunnerIsTrue, Day
<1>14. CASE WriteDay(r)
  <2>1. /\ pc[r] = "write-days" /\ pc'[r] = "write-days" /\ seen'[r] = c
        /\ window'[r] = w /\ UNCHANGED recordedAt
    BY <1>3, <1>4, <1>14 DEF WriteDay, databaseVars, movementVars
  <2>2. PICK day \in Nat :
          /\ objects' = Put(day, w, DayRows(day, w))
          /\ rows' = [rows EXCEPT ![r] = @ \ DayRows(day, w)]
    BY <1>1, <1>3, <1>14, WriteDayContent
  <2>3. rows'[r] = rows[r] \ DayRows(day, w)
    BY <2>2 DEF TypeOK
  <2>4. DayRows(day, w) \subseteq Published'
    BY <2>2 DEF Put, Published
  <2>5. /\ rows[r] \subseteq MovementsIn(w)
        /\ \A n \in MovementsIn(w) \ rows[r] :
              /\ n \in Published
              /\ \A m \in rows[r] : Day(recordedAt[m]) # Day(recordedAt[n])
    BY <1>1, <1>3, <2>1 DEF RunnerIsTrue
  <2>6. \A n \in MovementsIn(w) \ rows'[r] :
              /\ n \in Published'
              /\ \A m \in rows'[r] : Day(recordedAt[m]) # Day(recordedAt[n])
    BY <1>2, <2>3, <2>4, <2>5 DEF DayRows
  <2> QED
    BY <1>7, <1>8, <2>1, <2>3, <2>5, <2>6 DEF RunnerIsTrue, Day
<1>15. CASE WriteProducts(r)
  <2>1. /\ pc[r] = "write-days" /\ rows[r] = {} /\ pc'[r] = "write-locations"
        /\ seen'[r] = c /\ window'[r] = w
    BY <1>3, <1>4, <1>15 DEF WriteProducts, TypeOK
  <2>2. MovementsIn(w) \subseteq Published
    BY <1>1, <1>3, <2>1 DEF RunnerIsTrue
  <2> QED
    BY <1>2, <1>7, <1>8, <2>1, <2>2 DEF RunnerIsTrue
<1>16. CASE WriteLocations(r)
  <2>1. /\ pc[r] = "write-locations" /\ pc'[r] \in {"stamp", "confirm"}
        /\ pc'[r] = "confirm" => w # NoWindow
        /\ seen'[r] = c /\ window'[r] = w
    BY <1>3, <1>4, <1>16 DEF WriteLocations, TypeOK
  <2>2. MovementsIn(w) \subseteq Published
    BY <1>1, <1>3, <2>1 DEF RunnerIsTrue
  <2> QED
    BY <1>2, <1>7, <1>8, <2>1, <2>2 DEF RunnerIsTrue
<1>17. CASE Confirm(r) \/ StampMark(r)
  <2>1. pc'[r] \in {"stamp", "mark"} /\ seen'[r] = c /\ window'[r] = w
    BY <1>3, <1>4, <1>17 DEF Confirm, StampMark, TypeOK
  <2> QED
    BY <1>7, <1>8, <2>1 DEF RunnerIsTrue
<1>18. CASE WriteMark(r)
  BY <1>1, <1>18, RunnerForgotten DEF WriteMark
<1> QED
  BY <1>9, <1>10, <1>11, <1>12, <1>13, <1>14, <1>15, <1>16, <1>17, <1>18
     DEF Exporting

LEMMA RunnersStep ==
    TypeOK /\ TypeOK' /\ IInv /\ [Next]_vars => \A r \in Runners : RunnerIsTrue(r)'
<1> SUFFICES ASSUME TypeOK, TypeOK', IInv, [Next]_vars, NEW q \in Runners
             PROVE  RunnerIsTrue(q)'
  OBVIOUS
<1>1. DatabaseEvolves /\ objects \subseteq objects' /\ RunnerIsTrue(q)
  BY DatabaseStep, ObjectsStay DEF IInv
<1>2. CASE pc'[q] = pc[q] /\ seen'[q] = seen[q] /\ window'[q] = window[q]
           /\ rows'[q] = rows[q]
  BY <1>1, <1>2, RunnerUnmoved
<1>3. CASE UNCHANGED localVars
  BY <1>2, <1>3 DEF localVars
<1>4. ASSUME NEW r \in Runners, Exporting(r) PROVE RunnerIsTrue(q)'
  <2>1. CASE q = r
    BY <1>4, <2>1, RunnerMoves
  <2>2. CASE q # r
    BY <1>2, <1>4, <2>2 DEF TypeOK, Exporting, ReadCursor, ReadHorizon, Start,
       ReadMovements, ReadProducts, ReadLocations, WriteDay, WriteProducts,
       WriteLocations, Confirm, StampMark, WriteMark, Forget
  <2> QED
    BY <2>1, <2>2
<1>5. ASSUME NEW r \in Runners, Die(r) PROVE RunnerIsTrue(q)'
  <2>1. CASE q = r
    BY <1>1, <1>5, <2>1, RunnerForgotten DEF Die
  <2>2. CASE q # r
    BY <1>2, <1>5, <2>2 DEF TypeOK, Die, Forget
  <2> QED
    BY <2>1, <2>2
<1> QED
  BY <1>3, <1>4, <1>5 DEF Next, Tick, OtherTransaction, DeclareProduct,
     DeclareLocation, Recording, BeginRecording, Insert, CommitRecording,
     AbortRecording, vars

LEMMA InvStep == TypeOK /\ TypeOK' /\ IInv /\ [Next]_vars => IInv'
  BY IdentifiersStep, CursorStep, ObjectsStep, RunnersStep DEF IInv

\* The inductive invariant holds in every state, however runs overlap and die.
THEOREM Inductive == Spec => [](TypeOK /\ IInv)
  BY TypeInit, TypeStep, InvInit, InvStep, PTL DEF Spec

-----------------------------------------------------------------------------
(* The properties.                                                         *)

\* Every movement committed below the point reached is in the exported data,
\* for any number of movements, of overlapping runs and of failures.
THEOREM NothingIsSkipped == Spec => []NothingSkipped
<1>1. TypeOK /\ IInv => NothingSkipped
  BY DEF IInv, GoodRow, CarriedBelow, NothingSkipped
<1> QED
  BY <1>1, Inductive, PTL

\* No step alters or removes an object once it is in the lake.
THEOREM PublishedStaysFixed == Spec => PublishedIsFixed
<1>1. TypeOK /\ IInv /\ [Next]_vars => [objects \subseteq objects']_vars
  BY ObjectsStay
<1> QED
  BY <1>1, Inductive, PTL DEF Spec, PublishedIsFixed

\* The horizon never falls behind the point reached nor a pending window.
THEOREM HorizonStaysAhead == Spec => []HorizonNeverBehind
<1>1. TypeOK /\ IInv => HorizonNeverBehind
  <2> SUFFICES ASSUME TypeOK, IInv, NEW h \in HorizonCandidates, IsHorizon(h)
               PROVE  cursor.through <= h /\ cursor.pendingTo <= h
    BY DEF HorizonNeverBehind
  <2>1. \A t \in Nat : Settled(t) => t <= h
    BY DEF HorizonCandidates, Settled, InFlight
  <2>2. cursor.through \in Nat /\ cursor.pendingTo \in Nat /\ h \in Nat
    BY DEF TypeOK, CursorRows, HorizonCandidates, InFlight, TransactionIds
  <2>3. CASE Pending(cursor) = NoWindow
    BY <2>1, <2>2, <2>3 DEF IInv, GoodRow, Pending, WindowFrom, NoWindow, NULL
  <2>4. CASE Pending(cursor) # NoWindow
    BY <2>1, <2>2, <2>4 DEF IInv, GoodRow, GoodWindow, Pending, WindowFrom
  <2> QED
    BY <2>3, <2>4
<1> QED
  BY <1>1, Inductive, PTL

=============================================================================
