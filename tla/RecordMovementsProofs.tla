----------------------- MODULE RecordMovementsProofs -----------------------
(***************************************************************************)
(* Proofs about recording: concurrent batches, of any number of callers,   *)
(* implement the store their repository promises.                          *)
(***************************************************************************)
EXTENDS RecordInductive, FiniteSetTheorems, TLAPS

-----------------------------------------------------------------------------
(* A batch.                                                                *)

LEMMA BatchType ==
    ASSUME NEW batch \in Batches
    PROVE  /\ batch \in Seq(Rows)
           /\ DOMAIN batch \subseteq Nat
           /\ \A at \in DOMAIN batch : batch[at] \in Rows
  BY BatchesAssumption

\* What the judgement lets through: parsed, one per identifier, and admissible.
LEMMA JudgedRows ==
    ASSUME NEW batch \in Batches, NEW at \in judged(batch)
    PROVE  /\ at \in Parsed(batch)
           /\ Admissible(batch[at])
<1>1. judgeLocally(batch, at) = "admissible" /\ at \in DOMAIN batch
  BY DEF judged
<1>2. ~MalformedRow(batch[at]) /\ ~Seen(batch, at) /\ judgeMovement(batch[at]) = "admissible"
  BY <1>1 DEF judgeLocally
<1>3. batch[at] \in Rows
  BY <1>1, BatchType
<1>4. batch[at].id \in Ids
  BY <1>2, <1>3 DEF MalformedRow, Rows
<1>5. /\ batch[at].kind \in {"receipt", "sale", "adjustment"}
      /\ batch[at].quantity # 0
      /\ batch[at].quantity \in -LargestQuantity .. LargestQuantity
  BY <1>2 DEF judgeMovement
<1>6. LargestQuantity \in Nat
  BY LimitsAssumption
<1> QED
  BY <1>1, <1>2, <1>4, <1>5, <1>6 DEF Parsed, Admissible

LEMMA JudgedOnce ==
    ASSUME NEW batch \in Batches, NEW at \in judged(batch), NEW other \in judged(batch),
           batch[at].id = batch[other].id
    PROVE  at = other
<1>1. at \in Parsed(batch) /\ other \in Parsed(batch)
  BY JudgedRows
<1>2. at \in Nat /\ other \in Nat /\ DOMAIN batch = 1 .. Len(batch) /\ Len(batch) \in Nat
  BY <1>1, BatchType DEF Parsed
<1>3. ~(at < other) /\ ~(other < at)
  BY <1>1, <1>2 DEF Parsed, Seen
<1> QED
  BY <1>2, <1>3

LEMMA FreshRequest ==
    ASSUME NEW batch \in Batches
    PROVE  /\ Fresh(batch) \in Requests
           /\ Fresh(batch).phase = "authorize" /\ Fresh(batch).batch = batch
           /\ Fresh(batch).candidates = judged(batch)
           /\ Fresh(batch).passed = {} /\ Fresh(batch).inserted = {}
<1>1. judged(batch) \in SUBSET Nat /\ batch \in Seq(Rows)
  BY BatchType DEF judged
<1> QED
  BY <1>1 DEF Fresh, Idle, Requests, Phases

LEMMA IdleRequest ==
    /\ Idle \in Requests
    /\ Idle.phase = "idle" /\ Idle.candidates = {} /\ Idle.passed = {} /\ Idle.inserted = {}
  BY DEF Idle, Requests, Phases

LEMMA KeyType ==
    ASSUME StoreTypes, NEW c \in Callers, CandidatesAreJudged(c),
           NEW at \in request[c].candidates
    PROVE  /\ request[c].batch[at] \in Rows
           /\ Key(c, request[c].batch[at]) \in Keys
           /\ request[c].batch[at] # NoRow
<1>1. request[c].batch \in Batches /\ at \in DOMAIN request[c].batch
  BY DEF CandidatesAreJudged, Parsed
<1>2. request[c].batch[at] \in Rows
  BY <1>1, BatchType
<1>3. request[c].batch[at].id \in Ids
  BY DEF CandidatesAreJudged, Admissible
<1> QED
  BY <1>2, <1>3, CallersAssumption, BatchesAssumption DEF Key, Keys, NoRow

-----------------------------------------------------------------------------
(* The invariant holds at first.                                           *)

LEMMA RecordInit == Init => RecordInv
<1> SUFFICES ASSUME Init PROVE RecordInv
  OBVIOUS
<1> USE DEF Init
<1>1. StoreTypes
  BY IdleRequest, BatchesAssumption DEF StoreTypes
<1>2. \A c \in Callers : CandidatesAreJudged(c)
  BY IdleRequest DEF CandidatesAreJudged
<1>3. \A c \in Callers : CandidatesAreDeclared(c) /\ TableAgrees(c)
  BY IdleRequest DEF CandidatesAreDeclared, TableAgrees
<1>4. LocksDisjoint
  BY IdleRequest DEF LocksDisjoint, HeldBy
<1>5. AcknowledgedIsRecorded
  BY DEF AcknowledgedIsRecorded
<1> QED
  BY <1>1, <1>2, <1>3, <1>4, <1>5 DEF RecordInv

-----------------------------------------------------------------------------
(* Steps of one request that leave the table alone.                        *)

LEMMA StepOfOne ==
    ASSUME RecordInv, StoreTypes', AcknowledgedIsRecorded', NEW c \in Callers,
           \A d \in Callers : d # c => request'[d] = request[d],
           UNCHANGED <<skus, places, table>>,
           CandidatesAreJudged(c)', CandidatesAreDeclared(c)', TableAgrees(c)',
           \A d \in Callers : d # c => HeldBy(c)' \cap HeldBy(d) = {}
    PROVE  RecordInv'
<1>1. \A d \in Callers : CandidatesAreJudged(d)'
  BY DEF RecordInv, CandidatesAreJudged
<1>2. \A d \in Callers : CandidatesAreDeclared(d)'
  BY DEF RecordInv, CandidatesAreDeclared
<1>3. \A d \in Callers : TableAgrees(d)'
  BY DEF RecordInv, TableAgrees, Key
<1>4. \A d \in Callers : d # c => HeldBy(d)' = HeldBy(d)
  BY DEF HeldBy, Key
<1>5. LocksDisjoint'
  BY <1>4 DEF LocksDisjoint, RecordInv
<1> QED
  BY <1>1, <1>2, <1>3, <1>5 DEF RecordInv

\* The request is over, answered or not: nothing of it is held.
LEMMA RequestEnds ==
    ASSUME RecordInv, AcknowledgedIsRecorded', told' \subseteq Keys, NEW c \in Callers,
           NEW r \in Requests, r.phase \in {"idle", "unsure"},
           r.phase = "unsure" => r.batch \in Batches,
           r.candidates = {}, r.passed = {}, r.inserted = {},
           request' = [request EXCEPT ![c] = r], UNCHANGED <<skus, places, table>>
    PROVE  RecordInv'
<1>1. StoreTypes' /\ request'[c] = r /\ \A d \in Callers : d # c => request'[d] = request[d]
  BY DEF RecordInv, StoreTypes
<1>2. CandidatesAreJudged(c)'
  BY <1>1 DEF CandidatesAreJudged
<1>3. CandidatesAreDeclared(c)' /\ TableAgrees(c)' /\ HeldBy(c)' = {}
  BY <1>1 DEF CandidatesAreDeclared, TableAgrees, HeldBy
<1> QED
  BY <1>1, <1>2, <1>3, StepOfOne

LEMMA RequestBegins ==
    ASSUME RecordInv, NEW c \in Callers, NEW batch \in Batches,
           request' = [request EXCEPT ![c] = Fresh(batch)],
           UNCHANGED <<skus, places, table, told>>
    PROVE  RecordInv'
<1>1. StoreTypes' /\ request'[c] = Fresh(batch)
      /\ \A d \in Callers : d # c => request'[d] = request[d]
  BY FreshRequest DEF RecordInv, StoreTypes
<1>2. CandidatesAreJudged(c)'
  BY <1>1, FreshRequest, JudgedRows, JudgedOnce DEF CandidatesAreJudged
<1>3. CandidatesAreDeclared(c)' /\ TableAgrees(c)' /\ HeldBy(c)' = {}
  BY <1>1, FreshRequest DEF CandidatesAreDeclared, TableAgrees, HeldBy
<1>4. AcknowledgedIsRecorded'
  BY DEF RecordInv, AcknowledgedIsRecorded
<1> QED
  BY <1>1, <1>2, <1>3, <1>4, StepOfOne

\* A statement that drops candidates before any row is inserted.
LEMMA CandidatesDropped ==
    ASSUME RecordInv, NEW c \in Callers, NEW next \in Phases, NEW S,
           S \subseteq request[c].candidates,
           request[c].phase \in {"authorize", "products", "locations"},
           next \in {"products", "locations", "insert"},
           request' = [request EXCEPT ![c].phase = next, ![c].candidates = S],
           UNCHANGED <<skus, places, table, told>>,
           CandidatesAreDeclared(c)'
    PROVE  RecordInv'
<1>1. request[c] \in Requests /\ request[c].passed = {} /\ request[c].inserted = {}
  BY DEF RecordInv, StoreTypes, CandidatesAreJudged
<1>2. /\ request'[c].phase = next /\ request'[c].candidates = S
      /\ request'[c].batch = request[c].batch
      /\ request'[c].passed = {} /\ request'[c].inserted = {}
      /\ request'[c] \in Requests
  BY <1>1 DEF RecordInv, StoreTypes, Requests
<1>3. StoreTypes' /\ \A d \in Callers : d # c => request'[d] = request[d]
  BY <1>2 DEF RecordInv, StoreTypes
<1>4. CandidatesAreJudged(c)'
  <2>1. /\ request[c].batch \in Batches
        /\ S \subseteq Parsed(request[c].batch)
        /\ \A at \in S : Admissible(request[c].batch[at])
        /\ \A at, other \in S :
            request[c].batch[at].id = request[c].batch[other].id => at = other
    BY DEF RecordInv, CandidatesAreJudged
  <2>2. /\ Parsed(request'[c].batch) = Parsed(request[c].batch)
        /\ \A at \in S : Admissible(request'[c].batch[at])
        /\ \A at, other \in S :
            request'[c].batch[at].id = request'[c].batch[other].id => at = other
    <3>1. request'[c].batch = request[c].batch
      BY <1>2
    <3> QED
      BY <2>1, <3>1
  <2> QED
    BY <1>2, <2>1, <2>2 DEF CandidatesAreJudged
<1>5. TableAgrees(c)' /\ HeldBy(c)' = {}
  BY <1>2 DEF TableAgrees, HeldBy
<1>6. AcknowledgedIsRecorded'
  BY DEF RecordInv, AcknowledgedIsRecorded
<1> QED
  BY <1>3, <1>4, <1>5, <1>6, StepOfOne

-----------------------------------------------------------------------------
(* The steps.                                                              *)

\* The caller has no answer, and keeps its batch.
LEMMA UnansweredStep ==
    ASSUME RecordInv, NEW c \in Callers, request[c].phase # "idle", Unanswered(c),
           UNCHANGED <<skus, places, table, told>>
    PROVE  RecordInv'
<1> DEFINE r == [Idle EXCEPT !.phase = "unsure", !.batch = request[c].batch]
<1>1. request[c].batch \in Batches
  BY DEF RecordInv, CandidatesAreJudged
<1>2. /\ r \in Requests /\ r.phase = "unsure" /\ r.batch \in Batches
      /\ r.candidates = {} /\ r.passed = {} /\ r.inserted = {}
  BY <1>1, BatchType DEF Idle, Requests, Phases
<1>3. request' = [request EXCEPT ![c] = r]
  BY DEF Unanswered
<1>4. AcknowledgedIsRecorded' /\ told' \subseteq Keys
  BY DEF RecordInv, AcknowledgedIsRecorded, StoreTypes
<1> HIDE DEF r
<1> QED
  BY <1>2, <1>3, <1>4, RequestEnds

LEMMA AuthorizeStep ==
    ASSUME RecordInv, NEW c \in Callers, Authorize(c)
    PROVE  RecordInv'
<1>1. request[c] \in Requests /\ AcknowledgedIsRecorded' /\ told' \subseteq Keys
  BY DEF RecordInv, StoreTypes, AcknowledgedIsRecorded, Authorize, referenceVars
<1>2. CASE c \notin admitted
  <2>1. request' = [request EXCEPT ![c] = Idle] /\ UNCHANGED <<skus, places, table>>
    BY <1>2 DEF Authorize, referenceVars
  <2> QED
    BY <1>1, <2>1, IdleRequest, RequestEnds
<1>3. CASE c \in admitted
  <2> DEFINE S == request[c].candidates
  <2>1. request' = [request EXCEPT ![c].phase = "products", ![c].candidates = S]
    <3>1. [request[c] EXCEPT !.phase = "products"]
            = [request[c] EXCEPT !.phase = "products", !.candidates = S]
      BY <1>1 DEF Requests
    <3> QED
      BY <1>3, <3>1 DEF Authorize
  <2>2. UNCHANGED <<skus, places, table, told>> /\ request[c].phase = "authorize"
    BY DEF Authorize, referenceVars
  <2>3. request'[c].phase = "products"
    BY <2>1, <1>1 DEF Requests, RecordInv, StoreTypes
  <2>4. CandidatesAreDeclared(c)'
    BY <2>3 DEF CandidatesAreDeclared
  <2> QED
    BY <2>1, <2>2, <2>4, CandidatesDropped DEF Phases
<1> QED
  BY <1>2, <1>3

LEMMA ReadProductsStep ==
    ASSUME RecordInv, NEW c \in Callers, ReadProducts(c)
    PROVE  RecordInv'
<1> DEFINE S == {at \in request[c].candidates : request[c].batch[at].sku \in skus[TenantOf[c]]}
<1>1. /\ request' = [request EXCEPT ![c].phase = "locations", ![c].candidates = S]
      /\ UNCHANGED <<skus, places, table, told>> /\ request[c].phase = "products"
  BY DEF ReadProducts, referenceVars
<1>2. /\ request'[c].phase = "locations" /\ request'[c].candidates = S
      /\ request'[c].batch = request[c].batch
  BY <1>1 DEF Requests, RecordInv, StoreTypes
<1>3. CandidatesAreDeclared(c)'
  BY <1>1, <1>2 DEF CandidatesAreDeclared
<1> HIDE DEF S
<1>4. S \subseteq request[c].candidates
  BY DEF S
<1> QED
  BY <1>1, <1>3, <1>4, CandidatesDropped DEF Phases

LEMMA ReadLocationsStep ==
    ASSUME RecordInv, NEW c \in Callers, ReadLocations(c)
    PROVE  RecordInv'
<1> DEFINE S == {at \in request[c].candidates : request[c].batch[at].place \in places[TenantOf[c]]}
<1>1. /\ request' = [request EXCEPT ![c].phase = "insert", ![c].candidates = S]
      /\ UNCHANGED <<skus, places, table, told>> /\ request[c].phase = "locations"
  BY DEF ReadLocations, referenceVars
<1>2. /\ request'[c].phase = "insert" /\ request'[c].candidates = S
      /\ request'[c].batch = request[c].batch
  BY <1>1 DEF Requests, RecordInv, StoreTypes
<1>3. \A at \in S : request[c].batch[at].sku \in skus[TenantOf[c]]
  BY <1>1 DEF RecordInv, CandidatesAreDeclared
<1>4. CandidatesAreDeclared(c)'
  BY <1>1, <1>2, <1>3 DEF CandidatesAreDeclared
<1> HIDE DEF S
<1>5. S \subseteq request[c].candidates
  BY DEF S
<1> QED
  BY <1>1, <1>4, <1>5, CandidatesDropped DEF Phases

\* One row: the key is free, and stays the request's own, or is taken.
LEMMA InsertStep ==
    ASSUME RecordInv, NEW c \in Callers, Insert(c)
    PROVE  RecordInv'
<1>1. request[c] \in Requests /\ request[c].phase = "insert"
  BY DEF RecordInv, StoreTypes, Insert
<1>2. PICK at \in Unprocessed(request[c]) :
        /\ IsNext(request[c], at)
        /\ request' = [request EXCEPT
            ![c].passed = @ \cup {at},
            ![c].inserted = IF table[Key(c, request[c].batch[at])] = NoRow
                            THEN @ \cup {at} ELSE @]
  BY DEF Insert
<1> DEFINE k == Key(c, request[c].batch[at])
           inserted == IF table[k] = NoRow THEN request[c].inserted \cup {at}
                       ELSE request[c].inserted
<1>3. /\ request'[c] = [request[c] EXCEPT !.passed = @ \cup {at}, !.inserted = inserted]
      /\ \A d \in Callers : d # c => request'[d] = request[d]
      /\ request' = [request EXCEPT ![c] = request'[c]]
  BY <1>2 DEF RecordInv, StoreTypes
<1>4. /\ request'[c].phase = "insert" /\ request'[c].batch = request[c].batch
      /\ request'[c].candidates = request[c].candidates
      /\ request'[c].passed = request[c].passed \cup {at}
      /\ request'[c].inserted = inserted
  BY <1>1, <1>3 DEF Requests
<1>5. at \in request[c].candidates /\ at \notin request[c].passed
  BY <1>2 DEF Unprocessed
<1>6. request'[c] \in Requests
  <2>1. request[c].passed \cup {at} \in SUBSET Nat /\ inserted \in SUBSET Nat
    BY <1>1, <1>5 DEF Requests
  <2> HIDE DEF inserted
  <2>2. [request[c] EXCEPT !.passed = @ \cup {at}] \in Requests
    BY <1>1, <2>1 DEF Requests
  <2> QED
    BY <1>1, <1>3, <2>1, <2>2 DEF Requests
<1>7. StoreTypes' /\ UNCHANGED <<skus, places, table, told>>
  BY <1>3, <1>6 DEF RecordInv, StoreTypes, Insert, referenceVars
<1>8. CandidatesAreJudged(c)'
  <2>1. /\ request[c].inserted \subseteq request[c].passed
        /\ request[c].passed \subseteq request[c].candidates
        /\ request[c].batch \in Batches
        /\ request[c].candidates \subseteq Parsed(request[c].batch)
        /\ \A i \in request[c].candidates : Admissible(request[c].batch[i])
        /\ \A i, j \in request[c].candidates :
            request[c].batch[i].id = request[c].batch[j].id => i = j
    BY <1>1 DEF RecordInv, CandidatesAreJudged
  <2>2. /\ inserted \subseteq request[c].passed \cup {at}
        /\ request[c].passed \cup {at} \subseteq request[c].candidates
    BY <1>5, <2>1
  <2> HIDE DEF inserted
  <2>3. /\ \A i \in request[c].candidates : Admissible(request'[c].batch[i])
        /\ \A i, j \in request[c].candidates :
            request'[c].batch[i].id = request'[c].batch[j].id => i = j
        /\ Parsed(request'[c].batch) = Parsed(request[c].batch)
    BY <1>4, <2>1
  <2> QED
    BY <1>4, <2>1, <2>2, <2>3 DEF CandidatesAreJudged
<1>9. CandidatesAreDeclared(c)'
  BY <1>1, <1>4, <1>7 DEF RecordInv, CandidatesAreDeclared
<1>10. TableAgrees(c)'
  <2>1. /\ \A i \in request[c].inserted : table[Key(c, request[c].batch[i])] = NoRow
        /\ \A i \in request[c].passed \ request[c].inserted :
            table[Key(c, request[c].batch[i])] # NoRow
    BY <1>1 DEF RecordInv, TableAgrees
  <2>2. /\ \A i \in inserted : table[Key(c, request[c].batch[i])] = NoRow
        /\ \A i \in (request[c].passed \cup {at}) \ inserted :
            table[Key(c, request[c].batch[i])] # NoRow
    BY <2>1
  <2>3. \A i : Key(c, request[c].batch[i])' = Key(c, request[c].batch[i])
    BY <1>4 DEF Key
  <2> HIDE DEF inserted
  <2> QED
    BY <1>4, <1>7, <2>2, <2>3 DEF TableAgrees
<1>11. ASSUME NEW d \in Callers, d # c PROVE HeldBy(c)' \cap HeldBy(d) = {}
  <2>1. HeldBy(c)' \subseteq HeldBy(c) \cup {k}
    BY <1>1, <1>4 DEF HeldBy, Key
  <2>2. k \notin HeldBy(d)
    <3>1. k \in NextKeys(c)
      BY <1>2 DEF NextKeys
    <3> QED
      BY <1>1, <1>11, <3>1 DEF Insert, WaitsFor
  <2>3. HeldBy(c) \cap HeldBy(d) = {}
    BY <1>11 DEF RecordInv, LocksDisjoint
  <2> QED
    BY <2>1, <2>2, <2>3
<1>12. AcknowledgedIsRecorded'
  BY <1>7 DEF RecordInv, AcknowledgedIsRecorded
<1> QED
  BY <1>3, <1>7, <1>8, <1>9, <1>10, <1>11, <1>12, StepOfOne

LEMMA AnswerStep ==
    ASSUME RecordInv, NEW c \in Callers, Answer(c)
    PROVE  RecordInv'
<1>1. /\ request' = [request EXCEPT ![c] = Idle] /\ request[c].phase = "answer"
      /\ UNCHANGED <<skus, places, table>>
  BY DEF Answer, referenceVars
<1>2. \A at \in DOMAIN request[c].batch :
        Outcome(request[c], at) # "rejected" => at \in request[c].candidates
  BY DEF RecordInv, CandidatesAreJudged, Outcome, Recorded
<1>3. \A k \in told' \ told : \E at \in request[c].candidates : k = Key(c, request[c].batch[at])
  BY <1>2 DEF Answer
<1>4. \A k \in told' : k \in Keys /\ table[k] # NoRow
  <2>1. \A at \in request[c].candidates : Key(c, request[c].batch[at]) \in Keys
    BY KeyType DEF RecordInv
  <2>2. \A at \in request[c].candidates : table[Key(c, request[c].batch[at])] # NoRow
    BY <1>1 DEF RecordInv, TableAgrees
  <2> QED
    BY <1>3, <2>1, <2>2 DEF RecordInv, StoreTypes, AcknowledgedIsRecorded
<1>5. AcknowledgedIsRecorded' /\ told' \subseteq Keys
  BY <1>1, <1>4 DEF AcknowledgedIsRecorded
<1> QED
  BY <1>1, <1>5, IdleRequest, RequestEnds

\* A commit adds the rows of the keys it holds, each under its key, and no other.
LEMMA CommitWrites ==
    ASSUME RecordInv, NEW c \in Callers, Commit(c)
    PROVE  /\ request[c].passed = request[c].candidates
           /\ \A at \in request[c].inserted :
                /\ Key(c, request[c].batch[at]) \in Keys
                /\ table[Key(c, request[c].batch[at])] = NoRow
                /\ table'[Key(c, request[c].batch[at])] = request[c].batch[at]
           /\ \A k \in Keys \ HeldBy(c) : table'[k] = table[k]
           /\ table' \in [Keys -> Rows \cup {NoRow}]
<1>1. /\ request[c].phase = "insert" /\ table' = [k \in Keys |-> Stored(c, k)]
      /\ Unprocessed(request[c]) = {}
  BY DEF Commit
<1>2. request[c].passed = request[c].candidates /\ request[c].inserted \subseteq request[c].candidates
  BY <1>1 DEF RecordInv, CandidatesAreJudged, Unprocessed
<1>3. \A at \in request[c].inserted : /\ Key(c, request[c].batch[at]) \in Keys
                                      /\ request[c].batch[at] \in Rows
  BY <1>2, KeyType DEF RecordInv
<1>4. \A at \in request[c].inserted : table[Key(c, request[c].batch[at])] = NoRow
  BY <1>1 DEF RecordInv, TableAgrees
<1>5. ASSUME NEW at \in request[c].inserted
      PROVE  Stored(c, Key(c, request[c].batch[at])) = request[c].batch[at]
  <2> DEFINE mine == {i \in request[c].inserted :
                        Key(c, request[c].batch[i]) = Key(c, request[c].batch[at])}
  <2>1. mine = {at}
    BY <1>2, <1>5 DEF RecordInv, CandidatesAreJudged, Key
  <2> QED
    BY <2>1 DEF Stored
<1>6. ASSUME NEW k \in Keys \ HeldBy(c) PROVE Stored(c, k) = table[k]
  <2>1. {at \in request[c].inserted : Key(c, request[c].batch[at]) = k} = {}
    BY <1>1, <1>6 DEF HeldBy
  <2> QED
    BY <2>1 DEF Stored
<1>7. \A k \in Keys : Stored(c, k) \in Rows \cup {NoRow}
  <2>1. \A k \in HeldBy(c) : Stored(c, k) \in Rows
    BY <1>1, <1>3, <1>5 DEF HeldBy
  <2> QED
    BY <1>6, <2>1 DEF RecordInv, StoreTypes
<1> QED
  BY <1>1, <1>2, <1>3, <1>4, <1>5, <1>6, <1>7

LEMMA CommitKeeps ==
    ASSUME RecordInv, NEW c \in Callers, Commit(c)
    PROVE  \A k \in Keys : table[k] # NoRow => table'[k] = table[k]
<1>1. \A k \in HeldBy(c) : table[k] = NoRow
  BY CommitWrites DEF HeldBy
<1> QED
  BY <1>1, CommitWrites

LEMMA CommitStep ==
    ASSUME RecordInv, NEW c \in Callers, Commit(c)
    PROVE  RecordInv'
<1>1. /\ request' = [request EXCEPT ![c].phase = "answer"] /\ request[c].phase = "insert"
      /\ UNCHANGED <<skus, places, told>> /\ request[c] \in Requests
  BY DEF Commit, referenceVars, RecordInv, StoreTypes
<1>2. /\ request'[c] = [request[c] EXCEPT !.phase = "answer"]
      /\ \A d \in Callers : d # c => request'[d] = request[d]
  BY <1>1 DEF RecordInv, StoreTypes
<1>3. /\ request'[c].phase = "answer" /\ request'[c].batch = request[c].batch
      /\ request'[c].candidates = request[c].candidates
      /\ request'[c].passed = request[c].passed
      /\ request'[c].inserted = request[c].inserted
      /\ request'[c] \in Requests
  BY <1>1, <1>2 DEF Requests, Phases
<1>4. StoreTypes'
  BY <1>1, <1>2, <1>3, CommitWrites DEF RecordInv, StoreTypes
<1>5. ASSUME NEW d \in Callers PROVE CandidatesAreJudged(d)'
  <2>1. CASE d # c
    BY <1>2, <2>1 DEF RecordInv, CandidatesAreJudged
  <2>2. CASE d = c
    <3>1. CandidatesAreJudged(c) /\ request[c].passed = request[c].candidates
      BY CommitWrites DEF RecordInv
    <3>2. /\ request[c].batch \in Batches
          /\ Parsed(request'[c].batch) = Parsed(request[c].batch)
          /\ \A at \in request[c].candidates : Admissible(request'[c].batch[at])
          /\ \A i, j \in request[c].candidates :
              request'[c].batch[i].id = request'[c].batch[j].id => i = j
      BY <1>1, <1>3, <3>1 DEF CandidatesAreJudged
    <3> QED
      BY <1>3, <2>2, <3>1, <3>2 DEF CandidatesAreJudged
  <2> QED
    BY <2>1, <2>2
<1>6. ASSUME NEW d \in Callers PROVE CandidatesAreDeclared(d)'
  <2>1. CASE d # c
    BY <1>1, <1>2, <2>1 DEF RecordInv, CandidatesAreDeclared
  <2>2. CASE d = c
    BY <1>1, <1>3, <2>2 DEF RecordInv, CandidatesAreDeclared
  <2> QED
    BY <2>1, <2>2
<1>7. ASSUME NEW d \in Callers, d # c PROVE TableAgrees(d)'
  <2>1. \A k \in HeldBy(d) : k \notin HeldBy(c)
    BY <1>7 DEF RecordInv, LocksDisjoint
  <2>2. \A at \in request[d].candidates : Key(d, request[d].batch[at]) \in Keys
    BY KeyType DEF RecordInv
  <2>3. request[d].inserted \subseteq request[d].candidates
        /\ request[d].passed \subseteq request[d].candidates
    BY DEF RecordInv, CandidatesAreJudged
  <2>4. \A at : Key(d, request[d].batch[at])' = Key(d, request[d].batch[at])
    BY <1>2, <1>7 DEF Key
  <2>5. request[d].phase = "insert" => \A at \in request[d].inserted :
            table'[Key(d, request[d].batch[at])] = NoRow
    BY <2>1, <2>2, <2>3, CommitWrites DEF HeldBy, RecordInv, TableAgrees
  <2>6. /\ request[d].phase = "insert" => \A at \in request[d].passed \ request[d].inserted :
            table'[Key(d, request[d].batch[at])] # NoRow
        /\ request[d].phase = "answer" => \A at \in request[d].candidates :
            table'[Key(d, request[d].batch[at])] # NoRow
    BY <2>2, <2>3, CommitKeeps DEF RecordInv, TableAgrees
  <2> QED
    BY <1>2, <1>7, <2>4, <2>5, <2>6 DEF TableAgrees
<1>8. TableAgrees(c)'
  <2>1. \A at \in request[c].candidates : table'[Key(c, request[c].batch[at])] # NoRow
    <3>1. ASSUME NEW at \in request[c].inserted
          PROVE  table'[Key(c, request[c].batch[at])] # NoRow
      BY CommitWrites, KeyType DEF RecordInv, CandidatesAreJudged
    <3>2. ASSUME NEW at \in request[c].candidates, at \notin request[c].inserted
          PROVE  table'[Key(c, request[c].batch[at])] # NoRow
      <4>1. table[Key(c, request[c].batch[at])] # NoRow
        BY <1>1, <3>2, CommitWrites DEF RecordInv, TableAgrees
      <4> QED
        BY <4>1, CommitKeeps, KeyType DEF RecordInv
    <3> QED
      BY <3>1, <3>2
  <2>2. \A at : Key(c, request[c].batch[at])' = Key(c, request[c].batch[at])
    BY <1>3 DEF Key
  <2> QED
    BY <1>3, <2>1, <2>2 DEF TableAgrees
<1>9. LocksDisjoint'
  <2>1. HeldBy(c)' = {}
    BY <1>3 DEF HeldBy
  <2>2. ASSUME NEW d \in Callers, d # c PROVE HeldBy(d)' = HeldBy(d)
    <3>1. request'[d] = request[d]
      BY <1>2, <2>2
    <3> QED
      BY <3>1 DEF HeldBy, Key
  <2> QED
    BY <2>1, <2>2 DEF RecordInv, LocksDisjoint
<1>10. AcknowledgedIsRecorded'
  BY <1>1, CommitKeeps DEF RecordInv, AcknowledgedIsRecorded, StoreTypes
<1> QED
  BY <1>4, <1>5, <1>6, <1>7, <1>8, <1>9, <1>10 DEF RecordInv

LEMMA DeclareStep ==
    ASSUME RecordInv, NEW t \in Tenants,
           (\E s \in Skus : DeclareProduct(t, s)) \/ (\E p \in Places : DeclareLocation(t, p))
    PROVE  RecordInv'
<1>1. /\ UNCHANGED <<table, request, told>>
      /\ skus' \in [Tenants -> SUBSET Skus] /\ places' \in [Tenants -> SUBSET Places]
      /\ \A u \in Tenants : skus[u] \subseteq skus'[u] /\ places[u] \subseteq places'[u]
  BY DEF RecordInv, StoreTypes, DeclareProduct, DeclareLocation
<1>2. StoreTypes' /\ AcknowledgedIsRecorded'
  BY <1>1 DEF RecordInv, StoreTypes, AcknowledgedIsRecorded
<1>3. \A c \in Callers : CandidatesAreJudged(c)'
  BY <1>1 DEF RecordInv, CandidatesAreJudged
<1>4. \A c \in Callers : CandidatesAreDeclared(c)'
  BY <1>1, CallersAssumption DEF RecordInv, CandidatesAreDeclared
<1>5. LocksDisjoint' /\ \A c \in Callers : TableAgrees(c)'
  BY <1>1 DEF RecordInv, LocksDisjoint, HeldBy, TableAgrees, Key
<1> QED
  BY <1>2, <1>3, <1>4, <1>5 DEF RecordInv

LEMMA NothingOfIt ==
    ASSUME RecordInv, UNCHANGED <<skus, places, table, request, told>>
    PROVE  RecordInv'
<1>1. StoreTypes' /\ AcknowledgedIsRecorded'
  BY DEF RecordInv, StoreTypes, AcknowledgedIsRecorded
<1>2. \A c \in Callers : CandidatesAreJudged(c)'
  BY DEF RecordInv, CandidatesAreJudged
<1>3. \A c \in Callers : CandidatesAreDeclared(c)'
  BY DEF RecordInv, CandidatesAreDeclared
<1>4. LocksDisjoint' /\ \A c \in Callers : TableAgrees(c)'
  BY DEF RecordInv, LocksDisjoint, HeldBy, TableAgrees, Key
<1> QED
  BY <1>1, <1>2, <1>3, <1>4 DEF RecordInv

LEMMA RecordStep == RecordInv /\ [Next]_vars => RecordInv'
<1> SUFFICES ASSUME RecordInv, [Next]_vars PROVE RecordInv'
  OBVIOUS
<1>1. CASE Tick \/ UNCHANGED vars
  BY <1>1, NothingOfIt DEF Tick, vars, referenceVars
<1>2. ASSUME NEW c \in Callers, Serve(c) PROVE RecordInv'
  BY <1>2, AuthorizeStep, ReadProductsStep, ReadLocationsStep, InsertStep, CommitStep,
     AnswerStep DEF Serve
<1>3. ASSUME NEW c \in Callers, NEW batch \in Batches,
             Submit(c, batch) \/ RefuseShape(c, batch)
      PROVE  RecordInv'
  BY <1>3, RequestBegins, NothingOfIt DEF Submit, RefuseShape, vars, referenceVars
<1>4. ASSUME NEW c \in Callers, Retry(c) PROVE RecordInv'
  <2>1. request[c].batch \in Batches
    BY <1>4 DEF RecordInv, CandidatesAreJudged, Retry
  <2> QED
    BY <1>4, <2>1, RequestBegins DEF Retry, referenceVars
<1>5. ASSUME NEW c \in Callers, LoseAnswer(c) \/ Fail(c) \/ AbortDeadlocked(c)
      PROVE  RecordInv'
  <2>1. request[c].phase # "idle"
    BY <1>5 DEF LoseAnswer, Fail, InTransaction, AbortDeadlocked, InWaitCycle, WaitsFor
  <2> QED
    BY <1>5, <2>1, UnansweredStep DEF LoseAnswer, Fail, AbortDeadlocked, referenceVars
<1>6. ASSUME NEW c \in Callers, Withdraw(c) PROVE RecordInv'
  BY <1>6, NothingOfIt DEF Withdraw
<1> QED
  BY <1>1, <1>2, <1>3, <1>4, <1>5, <1>6, DeclareStep DEF Next

LEMMA RecordInductive == Spec => []RecordInv
  BY RecordInit, RecordStep, PTL DEF Spec

\* A movement acknowledged to anybody is in the table, and stays: whatever waits
\* for whom, fails, is aborted or sent again.
THEOREM AcknowledgedStays == Spec => []AcknowledgedIsRecorded
<1>1. RecordInv => AcknowledgedIsRecorded
  BY DEF RecordInv
<1> QED
  BY <1>1, RecordInductive, PTL

\* No row is inserted that the table would refuse: what the request knew of what
\* is declared has not become false since.
THEOREM AdmissibleOnly == Spec => []OnlyAdmissibleIsInserted
<1>1. RecordInv => OnlyAdmissibleIsInserted
  <2> SUFFICES ASSUME RecordInv, NEW c \in Callers, NEW at \in request[c].inserted
               PROVE  /\ Admissible(request[c].batch[at])
                      /\ request[c].batch[at].sku \in skus[TenantOf[c]]
                      /\ request[c].batch[at].place \in places[TenantOf[c]]
    BY DEF OnlyAdmissibleIsInserted, Admissible
  <2>1. CandidatesAreJudged(c) /\ CandidatesAreDeclared(c) /\ request[c].phase \in Phases
    BY DEF RecordInv, StoreTypes, Requests
  <2>2. at \in request[c].candidates /\ at \in request[c].passed
    BY <2>1 DEF CandidatesAreJudged
  <2>3. request[c].phase \in {"insert", "answer"}
    BY <2>1, <2>2 DEF CandidatesAreJudged, Phases
  <2> QED
    BY <2>1, <2>2, <2>3 DEF CandidatesAreJudged, CandidatesAreDeclared
<1> QED
  BY <1>1, RecordInductive, PTL

-----------------------------------------------------------------------------
(* Recording implements the store.                                         *)

LEMMA StoreInit == Init => Store!Init
<1> SUFFICES ASSUME Init PROVE Store!Init
  OBVIOUS
<1>1. [c \in Callers |-> Returned(c)] = [c \in Callers |-> {}]
  BY IdleRequest DEF Init, Returned
<1> QED
  BY <1>1 DEF Init, Store!Init, Keys

\* What is handed back changes only with the request it is handed to.
LEMMA StoreUnmoved ==
    ASSUME UNCHANGED <<skus, places, table>>,
           \A c \in Callers : Returned(c)' = Returned(c)
    PROVE  UNCHANGED Store!vars
  BY DEF Store!vars

LEMMA StoreUsed ==
    ASSUME NEW c \in Callers, UNCHANGED <<skus, places, table>>,
           Returned(c)' = {}, \A d \in Callers : d # c => Returned(d)' = Returned(d)
    PROVE  Store!Next
<1>1. [d \in Callers |-> Returned(d)]' = [[d \in Callers |-> Returned(d)] EXCEPT ![c] = {}]
  OBVIOUS
<1>2. Store!Used(c)
  BY <1>1 DEF Store!Used
<1> QED
  BY <1>2 DEF Store!Next

\* A commit is one call of the store.
LEMMA StoreRecords ==
    ASSUME RecordInv, NEW c \in Callers, Commit(c)
    PROVE  Store!Next
<1> DEFINE r == request[c]
           t == TenantOf[c]
           rows == RowsAt(r.batch, r.candidates)
           fresh == RowsAt(r.batch, r.inserted)
<1>1. /\ r.phase = "insert" /\ r.passed = r.candidates /\ r.inserted \subseteq r.candidates
      /\ r.batch \in Batches /\ r.candidates \subseteq Parsed(r.batch)
      /\ UNCHANGED <<skus, places>> /\ t \in Tenants
  BY CommitWrites, CallersAssumption DEF Commit, RecordInv, CandidatesAreJudged, referenceVars
<1>2. rows \in Submissions
  BY <1>1 DEF Submissions
<1>3. \A row \in rows : Store!Referenced(t, row)
  BY <1>1 DEF Store!Referenced, RowsAt, RecordInv, CandidatesAreDeclared
<1>4. Store!Fresh(t, rows) = fresh
  <2>1. \A at \in r.inserted : table[<<t, r.batch[at].id>>] = NoRow
    BY CommitWrites DEF Key
  <2>2. \A at \in r.candidates \ r.inserted : table[<<t, r.batch[at].id>>] # NoRow
    BY <1>1 DEF RecordInv, TableAgrees, Key
  <2> QED
    BY <1>1, <2>1, <2>2 DEF Store!Fresh, Store!key, RowsAt
<1>5. table' = [k \in Tenants \X Ids |->
                    IF \E row \in fresh : Store!key(t, row) = k
                    THEN CHOOSE row \in fresh : Store!key(t, row) = k
                    ELSE table[k]]
  <2>1. table' \in [Keys -> Rows \cup {NoRow}]
    BY CommitWrites
  <2>2. ASSUME NEW k \in Keys, \A row \in fresh : Store!key(t, row) # k
        PROVE  table'[k] = table[k]
    <3>1. k \notin HeldBy(c)
      BY <2>2 DEF HeldBy, Key, Store!key, RowsAt
    <3> QED
      BY <3>1, CommitWrites
  <2>3. ASSUME NEW k \in Keys, NEW row \in fresh, Store!key(t, row) = k
        PROVE  table'[k] = CHOOSE other \in fresh : Store!key(t, other) = k
    <3>1. PICK at \in r.inserted : row = r.batch[at]
      BY DEF RowsAt
    <3>2. table'[k] = row
      BY <2>3, <3>1, CommitWrites DEF Key, Store!key
    <3>3. \A other \in fresh : Store!key(t, other) = k => other = row
      BY <1>1, <2>3, <3>1 DEF RowsAt, Store!key, RecordInv, CandidatesAreJudged
    <3> QED
      BY <2>3, <3>2, <3>3
  <2> QED
    BY <2>1, <2>2, <2>3 DEF Keys
<1>6. [d \in Callers |-> Returned(d)]'
        = [[d \in Callers |-> Returned(d)] EXCEPT ![c] = {row.id : row \in fresh}]
  <2>1. /\ request'[c] = [r EXCEPT !.phase = "answer"] /\ r \in Requests
        /\ \A d \in Callers : d # c => request'[d] = request[d]
    BY DEF Commit, RecordInv, StoreTypes
  <2>2. request'[c].phase = "answer" /\ request'[c].batch = r.batch
        /\ request'[c].inserted = r.inserted
    BY <2>1 DEF Requests
  <2>3. Returned(c)' = {row.id : row \in fresh}
    BY <2>2 DEF Returned, Recorded, RowsAt
  <2>4. ASSUME NEW d \in Callers, d # c PROVE Returned(d)' = Returned(d)
    <3>1. request'[d] = request[d]
      BY <2>1, <2>4
    <3> QED
      BY <3>1 DEF Returned, Recorded
  <2> QED
    BY <2>3, <2>4
<1>7. Store!record(c, rows)
  BY <1>1, <1>3, <1>4, <1>5, <1>6 DEF Store!record
<1> QED
  BY <1>2, <1>7 DEF Store!Next

\* A step of one request before its commit, or of a request that begins.
LEMMA StoreWaits ==
    ASSUME RecordInv, NEW c \in Callers, UNCHANGED <<skus, places, table>>,
           request[c].phase # "answer", request'[c].phase # "answer",
           \A d \in Callers : d # c => request'[d] = request[d]
    PROVE  UNCHANGED Store!vars
<1>1. \A d \in Callers : Returned(d)' = Returned(d)
  BY DEF Returned, Recorded
<1> QED
  BY <1>1, StoreUnmoved

\* A request that is over has made its report, or never will.
LEMMA StoreDone ==
    ASSUME RecordInv, NEW c \in Callers, UNCHANGED <<skus, places, table>>,
           request'[c].phase # "answer",
           \A d \in Callers : d # c => request'[d] = request[d]
    PROVE  Store!Next
<1>1. Returned(c)' = {} /\ \A d \in Callers : d # c => Returned(d)' = Returned(d)
  BY DEF Returned, Recorded
<1> QED
  BY <1>1, StoreUsed

LEMMA StoreStep == RecordInv /\ [Next]_vars => [Store!Next]_Store!vars
<1> SUFFICES ASSUME RecordInv, [Next]_vars PROVE [Store!Next]_Store!vars
  OBVIOUS
<1>0. request \in [Callers -> Requests]
  BY DEF RecordInv, StoreTypes
<1>1. CASE UNCHANGED <<skus, places, table, request>>
  <2>1. \A c \in Callers : Returned(c)' = Returned(c)
    BY <1>1 DEF Returned, Recorded
  <2> QED
    BY <1>1, <2>1, StoreUnmoved
<1>2. ASSUME NEW c \in Callers, Commit(c) PROVE [Store!Next]_Store!vars
  BY <1>2, StoreRecords
<1>3. ASSUME NEW c \in Callers, NEW r \in Requests, r.phase # "answer",
             request' = [request EXCEPT ![c] = r], UNCHANGED <<skus, places, table>>
      PROVE  [Store!Next]_Store!vars
  BY <1>0, <1>3, StoreDone
<1>4. ASSUME NEW c \in Callers,
             Authorize(c) \/ ReadProducts(c) \/ ReadLocations(c) \/ Insert(c)
      PROVE  [Store!Next]_Store!vars
  <2>1. /\ UNCHANGED <<skus, places, table>> /\ request[c].phase # "answer"
        /\ \A d \in Callers : d # c => request'[d] = request[d]
    BY <1>0, <1>4 DEF Authorize, ReadProducts, ReadLocations, Insert, referenceVars
  <2>2. request'[c].phase # "answer"
    <3>1. request[c] \in Requests
      BY <1>0
    <3>2. CASE Authorize(c)
      BY <1>0, <3>1, <3>2, IdleRequest DEF Authorize, Requests
    <3>3. CASE ReadProducts(c) \/ ReadLocations(c)
      BY <1>0, <3>1, <3>3 DEF ReadProducts, ReadLocations, Requests
    <3>4. CASE Insert(c)
      <4>1. PICK passed, inserted : request' = [request EXCEPT
                ![c].passed = passed, ![c].inserted = inserted]
        BY <3>4 DEF Insert
      <4> QED
        BY <1>0, <3>1, <3>4, <4>1 DEF Insert, Requests
    <3> QED
      BY <1>4, <3>2, <3>3, <3>4
  <2> QED
    BY <2>1, <2>2, StoreWaits
<1>5. ASSUME NEW c \in Callers, Answer(c) PROVE [Store!Next]_Store!vars
  BY <1>3, <1>5, IdleRequest DEF Answer, referenceVars
<1>6. ASSUME NEW c \in Callers, NEW batch \in Batches, Submit(c, batch)
      PROVE  [Store!Next]_Store!vars
  BY <1>3, <1>6, FreshRequest DEF Submit, referenceVars
<1>7. ASSUME NEW c \in Callers, Retry(c) PROVE [Store!Next]_Store!vars
  <2>1. request[c].batch \in Batches
    BY <1>7 DEF RecordInv, CandidatesAreJudged, Retry
  <2> QED
    BY <1>3, <1>7, <2>1, FreshRequest DEF Retry, referenceVars
<1>8. ASSUME NEW c \in Callers, LoseAnswer(c) \/ Fail(c) \/ AbortDeadlocked(c)
      PROVE  [Store!Next]_Store!vars
  <2> DEFINE r == [Idle EXCEPT !.phase = "unsure", !.batch = request[c].batch]
  <2>1. r \in Requests /\ r.phase = "unsure"
    BY <1>0 DEF Idle, Requests, Phases
  <2>2. request' = [request EXCEPT ![c] = r] /\ UNCHANGED <<skus, places, table>>
    BY <1>8 DEF LoseAnswer, Fail, AbortDeadlocked, Unanswered, referenceVars
  <2> HIDE DEF r
  <2> QED
    BY <1>3, <2>1, <2>2
<1>9. ASSUME NEW t \in Tenants,
             (\E s \in Skus : DeclareProduct(t, s)) \/ (\E p \in Places : DeclareLocation(t, p))
      PROVE  [Store!Next]_Store!vars
  <2>1. UNCHANGED <<table, request>>
    BY <1>9 DEF DeclareProduct, DeclareLocation
  <2>2. [c \in Callers |-> Returned(c)]' = [c \in Callers |-> Returned(c)]
    BY <2>1 DEF Returned, Recorded
  <2>3. CASE \E s \in Skus : DeclareProduct(t, s)
    BY <2>1, <2>2, <2>3 DEF DeclareProduct, Store!declareProduct, Store!Next
  <2>4. CASE \E p \in Places : DeclareLocation(t, p)
    BY <2>1, <2>2, <2>4 DEF DeclareLocation, Store!declareLocation, Store!Next
  <2> QED
    BY <1>9, <2>3, <2>4
<1> QED
  BY <1>1, <1>2, <1>4, <1>5, <1>6, <1>7, <1>8, <1>9
     DEF Next, Serve, Tick, RefuseShape, Withdraw, vars, referenceVars

\* Concurrent batches implement the store the repository promises, for any number
\* of callers, tenants and batches: a commit is one call of it, whose result is
\* handed back unchanged, and everything else is nothing it sees.
THEOREM RecordingImplementsStore == Spec => ImplementsStore
<1>1. RecordInv /\ [Next]_vars => [Store!Next]_Store!vars
  BY StoreStep
<1> QED
  BY <1>1, StoreInit, RecordInductive, PTL DEF Spec, ImplementsStore, Store!Spec

-----------------------------------------------------------------------------
(* Sums of quantities, counted by the unit.                                *)

LEMMA UnitsAre ==
    ASSUME NEW q
    PROVE  /\ \A x, n : <<x, n>> \in Units(q) <=> x \in DOMAIN q /\ n \in 1 .. q[x]
           /\ \A u \in Units(q) : u = <<u[1], u[2]>>
  BY DEF Units

LEMMA UnitsFinite ==
    ASSUME NEW S, IsFiniteSet(S), NEW q \in [S -> Int]
    PROVE  IsFiniteSet(Units(q)) /\ Cardinality(Units(q)) \in Nat
<1> DEFINE box == [x \in S |-> {x} \X (1 .. q[x])]
           boxes == {box[x] : x \in S}
<1>1. ASSUME NEW x \in S PROVE IsFiniteSet(box[x])
  <2> DEFINE one == {x}
             counted == 1 .. q[x]
  <2>1. IsFiniteSet(counted)
    <3>1. q[x] \in Int
      BY <1>1
    <3> QED
      BY <3>1, FS_Interval
  <2>3. IsFiniteSet(one)
    BY FS_Singleton
  <2>2. box[x] = one \X counted
    OBVIOUS
  <2> HIDE DEF one, counted, box
  <2> QED
    BY <2>1, <2>2, <2>3, FS_Product
<1>2. Units(q) = UNION boxes
  BY DEF Units
<1>3. box \in Surjection(S, boxes)
  BY DEF Surjection
<1> HIDE DEF box
<1>4. \A T \in boxes : IsFiniteSet(T)
  BY <1>1
<1>5. IsFiniteSet(boxes)
  BY <1>3, FS_Surjection
<1> HIDE DEF boxes
<1> QED
  BY <1>2, <1>4, <1>5, FS_UNION, FS_CardinalityType

\* Units follow the quantities under a renaming of the rows.
LEMMA UnitsRenamed ==
    ASSUME NEW S, IsFiniteSet(S), NEW T, NEW q \in [S -> Int], NEW r \in [T -> Int],
           NEW f \in Bijection(S, T), \A x \in S : r[f[x]] = q[x]
    PROVE  Cardinality(Units(r)) = Cardinality(Units(q))
<1> DEFINE U == Units(q)
           V == Units(r)
           g == [u \in U |-> <<f[u[1]], u[2]>>]
<1>0. /\ f \in [S -> T] /\ \A x, y \in S : f[x] = f[y] => x = y
      /\ \A y \in T : \E x \in S : f[x] = y
  BY DEF Bijection, Injection, Surjection, IsInjective
<1>1. \A u \in U : u = <<u[1], u[2]>> /\ u[1] \in S /\ u[2] \in 1 .. q[u[1]]
  BY UnitsAre
<1>2. \A u \in U : g[u] \in V
  BY <1>0, <1>1, UnitsAre
<1>3. \A u, v \in U : g[u] = g[v] => u = v
  <2> SUFFICES ASSUME NEW u \in U, NEW v \in U, g[u] = g[v] PROVE u = v
    OBVIOUS
  <2>1. f[u[1]] = f[v[1]] /\ u[2] = v[2]
    OBVIOUS
  <2> QED
    BY <1>0, <1>1, <2>1
<1>4. \A v \in V : \E u \in U : g[u] = v
  <2> SUFFICES ASSUME NEW v \in V PROVE \E u \in U : g[u] = v
    OBVIOUS
  <2>1. v = <<v[1], v[2]>> /\ v[1] \in T /\ v[2] \in 1 .. r[v[1]]
    BY UnitsAre
  <2>2. PICK x \in S : f[x] = v[1]
    BY <1>0, <2>1
  <2>3. <<x, v[2]>> \in U
    BY <2>1, <2>2, UnitsAre
  <2>4. g[<<x, v[2]>>] = v
    BY <2>1, <2>2, <2>3
  <2> QED
    BY <2>3, <2>4
<1>5. g \in Bijection(U, V)
  <2>1. g \in [U -> V]
    BY <1>2
  <2> HIDE DEF g, U, V
  <2> QED
    BY <2>1, <1>3, <1>4 DEF Bijection, Injection, Surjection, IsInjective
<1> QED
  BY <1>5, UnitsFinite, FS_Bijection DEF ExistsBijection

LEMMA CountDisjoint ==
    ASSUME NEW S, NEW T, IsFiniteSet(S), IsFiniteSet(T), S \cap T = {}
    PROVE  Cardinality(S \cup T) = Cardinality(S) + Cardinality(T)
<1>1. Cardinality(S \cup T) = Cardinality(S) + Cardinality(T) - Cardinality(S \cap T)
  BY FS_Union
<1>2. Cardinality(S \cap T) = 0 /\ Cardinality(S) \in Nat /\ Cardinality(T) \in Nat
  BY FS_EmptySet, FS_CardinalityType
<1> QED
  BY <1>1, <1>2

\* The rows of two tables that have none in common, in one.
Together(q, r, w) ==
    /\ DOMAIN w = DOMAIN q \cup DOMAIN r
    /\ \A x \in DOMAIN q : x \notin DOMAIN r /\ w[x] = q[x]
    /\ \A x \in DOMAIN r : w[x] = r[x]

LEMMA UnitsAdded ==
    ASSUME NEW S, NEW T, IsFiniteSet(S), IsFiniteSet(T),
           NEW q \in [S -> Int], NEW r \in [T -> Int], NEW w, Together(q, r, w)
    PROVE  Cardinality(Units(w)) = Cardinality(Units(q)) + Cardinality(Units(r))
<1> USE DEF Together
<1>1. Units(w) = Units(q) \cup Units(r)
  <2>1. \A x, n : <<x, n>> \in Units(w) <=> <<x, n>> \in Units(q) \/ <<x, n>> \in Units(r)
    BY UnitsAre
  <2>2. \A u \in Units(w) \cup Units(q) \cup Units(r) : u = <<u[1], u[2]>>
    BY UnitsAre
  <2> QED
    BY <2>1, <2>2
<1>2. Units(q) \cap Units(r) = {}
  <2> SUFFICES ASSUME NEW u \in Units(q), u \in Units(r) PROVE FALSE
    OBVIOUS
  <2> QED
    BY UnitsAre
<1>3. /\ IsFiniteSet(Units(q)) /\ Cardinality(Units(q)) \in Nat
      /\ IsFiniteSet(Units(r)) /\ Cardinality(Units(r)) \in Nat
  BY UnitsFinite
<1> QED
  BY <1>1, <1>2, <1>3, CountDisjoint

LEMMA SumIsInt ==
    ASSUME NEW S, IsFiniteSet(S), NEW q \in [S -> Int]
    PROVE  Sum(q) \in Int
<1> DEFINE out == [x \in S |-> -q[x]]
<1>1. out \in [S -> Int] /\ Sum(q) = Cardinality(Units(q)) - Cardinality(Units(out))
  BY DEF Sum
<1> HIDE DEF out
<1> QED
  BY <1>1, UnitsFinite

LEMMA SumRenamed ==
    ASSUME NEW S, IsFiniteSet(S), NEW T, NEW q \in [S -> Int], NEW r \in [T -> Int],
           NEW f \in Bijection(S, T), \A x \in S : r[f[x]] = q[x]
    PROVE  Sum(r) = Sum(q)
<1> DEFINE qOut == [x \in S |-> -q[x]]
           rOut == [x \in T |-> -r[x]]
<1>1. /\ qOut \in [S -> Int] /\ rOut \in [T -> Int]
      /\ Sum(q) = Cardinality(Units(q)) - Cardinality(Units(qOut))
      /\ Sum(r) = Cardinality(Units(r)) - Cardinality(Units(rOut))
  BY DEF Sum
<1>2. \A x \in S : rOut[f[x]] = qOut[x]
  BY DEF Bijection, Injection
<1> HIDE DEF qOut, rOut
<1> QED
  BY <1>1, <1>2, UnitsRenamed

LEMMA SumAdded ==
    ASSUME NEW S, NEW T, IsFiniteSet(S), IsFiniteSet(T),
           NEW q \in [S -> Int], NEW r \in [T -> Int], NEW w, Together(q, r, w)
    PROVE  Sum(w) = Sum(q) + Sum(r)
<1> DEFINE qOut == [x \in S |-> -q[x]]
           rOut == [x \in T |-> -r[x]]
           wOut == [x \in DOMAIN w |-> -w[x]]
<1>1. /\ qOut \in [S -> Int] /\ rOut \in [T -> Int]
      /\ Together(qOut, rOut, wOut)
  BY DEF Together
<1>2. /\ Sum(q) = Cardinality(Units(q)) - Cardinality(Units(qOut))
      /\ Sum(r) = Cardinality(Units(r)) - Cardinality(Units(rOut))
      /\ Sum(w) = Cardinality(Units(w)) - Cardinality(Units(wOut))
  BY DEF Sum
<1> HIDE DEF qOut, rOut, wOut
<1>3. Cardinality(Units(w)) = Cardinality(Units(q)) + Cardinality(Units(r))
  BY UnitsAdded
<1>4. Cardinality(Units(wOut)) = Cardinality(Units(qOut)) + Cardinality(Units(rOut))
  BY <1>1, UnitsAdded
<1>5. /\ Cardinality(Units(q)) \in Nat /\ Cardinality(Units(r)) \in Nat
      /\ Cardinality(Units(qOut)) \in Nat /\ Cardinality(Units(rOut)) \in Nat
  BY <1>1, UnitsFinite
<1> QED
  BY <1>2, <1>3, <1>4, <1>5

\* Nothing sums to nothing.
LEMMA SumOfNothing == ASSUME NEW q, DOMAIN q = {} PROVE Sum(q) = 0
<1>1. Units(q) = {} /\ Units([x \in DOMAIN q |-> -q[x]]) = {}
  BY DEF Units
<1> QED
  BY <1>1, FS_EmptySet DEF Sum

-----------------------------------------------------------------------------
(* Stock on hand is what the reports add up to.                            *)

LEMMA StockInit == Init => StockInv
<1> SUFFICES ASSUME Init PROVE StockInv
  OBVIOUS
<1> USE DEF Init
<1>1. \A t \in Tenants, i \in Ids : table[<<t, i>>] = NoRow
  BY DEF Keys
<1>2. TablesAreFinite
  <2>1. \A t \in Tenants : {i \in Ids : table[<<t, i>>] # NoRow} = {}
    BY <1>1
  <2> QED
    BY <2>1, FS_EmptySet DEF TablesAreFinite
<1>3. StockMatchesReports
  <2> SUFFICES ASSUME NEW t \in Tenants, NEW s \in Skus, NEW p \in Places
               PROVE  stockOnHand(t, s, p) = 0 /\ ledger[<<t, s, p>>] = 0
    BY DEF StockMatchesReports
  <2>1. RowsOf(t, s, p) = {}
    BY <1>1 DEF RowsOf
  <2>2. stockOnHand(t, s, p) = 0
    BY <2>1, SumOfNothing DEF stockOnHand
  <2> QED
    BY <2>2 DEF Stock
<1>4. RecordTypeOK
  <2>1. /\ table \in [Keys -> Rows \cup {NoRow}] /\ ledger \in [Stock -> Int]
        /\ skus \in [Tenants -> SUBSET Skus] /\ places \in [Tenants -> SUBSET Places]
    BY BatchesAssumption
  <2>2. now \in 0 .. MaxTime /\ requests \in 0 .. MaxRequests /\ faults \in 0 .. MaxFaults
    BY LimitsAssumption
  <2>3. Len(<<>>) <= LongestBatch
    BY LimitsAssumption
  <2> QED
    BY <2>1, <2>2, <2>3, IdleRequest DEF RecordTypeOK, Phases, Idle
<1> QED
  BY <1>2, <1>3, <1>4 DEF StockInv

\* A request keeps its batch until it is over; another is well shaped.
LEMMA StepKeepsBatch ==
    ASSUME request \in [Callers -> Requests], NEW c \in Callers,
           Serve(c) \/ Retry(c) \/ (\E b \in Batches : Submit(c, b))
              \/ LoseAnswer(c) \/ Fail(c) \/ AbortDeadlocked(c)
    PROVE  /\ \A d \in Callers : d # c => request'[d] = request[d]
           /\ \/ request'[c].batch \in {request[c].batch, <<>>}
              \/ request'[c].batch \in Batches /\ WellShaped(request'[c].batch)
<1> DEFINE others == \A d \in Callers : d # c => request'[d] = request[d]
<1>1. Idle.batch = <<>> /\ \A b : Fresh(b).batch = b
  BY DEF Idle, Fresh
<1>2. CASE Authorize(c)
  <2>1. /\ others
        /\ request'[c] = IF c \in admitted THEN [request[c] EXCEPT !.phase = "products"] ELSE Idle
    BY <1>2 DEF Authorize
  <2>2. [request[c] EXCEPT !.phase = "products"].batch = request[c].batch
    BY DEF Requests
  <2> QED
    BY <1>1, <2>1, <2>2
<1>3. CASE Answer(c)
  BY <1>1, <1>3 DEF Answer
<1>4. CASE ReadProducts(c) \/ ReadLocations(c) \/ Commit(c)
  BY <1>4 DEF ReadProducts, ReadLocations, Commit, Requests
<1>5. CASE Insert(c)
  BY <1>5 DEF Insert, Requests
<1>6. CASE Retry(c) \/ (\E b \in Batches : Submit(c, b))
  BY <1>1, <1>6 DEF Retry, Submit
<1>7. CASE LoseAnswer(c) \/ Fail(c) \/ AbortDeadlocked(c)
  BY <1>7 DEF LoseAnswer, Fail, AbortDeadlocked, Unanswered, Idle
<1> QED
  BY <1>2, <1>3, <1>4, <1>5, <1>6, <1>7 DEF Serve

\* A step leaves the moments, the bounds and the batches what they are declared to
\* be, given that it does so with the ledger.
LEMMA RecordTypeStep ==
    ASSUME RecordInv, RecordInv', RecordTypeOK, [Next]_vars, ledger' \in [Stock -> Int]
    PROVE  RecordTypeOK'
<1>1. /\ skus' \in [Tenants -> SUBSET Skus] /\ places' \in [Tenants -> SUBSET Places]
      /\ table' \in [Keys -> Rows \cup {NoRow}] /\ told' \subseteq Keys
      /\ request' \in [Callers -> Requests]
  BY DEF RecordInv, StoreTypes
<1>2. /\ now' \in 0 .. MaxTime /\ admitted' \subseteq Callers
      /\ requests' \in 0 .. MaxRequests /\ faults' \in 0 .. MaxFaults
      /\ \A c \in Callers : /\ request'[c].batch \in Batches \cup {<<>>}
                            /\ Len(request'[c].batch) <= LongestBatch
  <2> USE LimitsAssumption DEF RecordTypeOK
  <2>0. Idle.batch = <<>> /\ Len(<<>>) <= LongestBatch
    BY DEF Idle
  <2>1. CASE Tick \/ UNCHANGED vars
    BY <2>1 DEF Tick, vars, referenceVars
  <2>2. ASSUME NEW c \in Callers, Withdraw(c) PROVE <1>2!:
    BY <2>2 DEF Withdraw
  <2>3. ASSUME NEW t \in Tenants, NEW s \in Skus, DeclareProduct(t, s) PROVE <1>2!:
    BY <2>3 DEF DeclareProduct
  <2>4. ASSUME NEW t \in Tenants, NEW p \in Places, DeclareLocation(t, p) PROVE <1>2!:
    BY <2>4 DEF DeclareLocation
  <2>5. ASSUME NEW c \in Callers, Serve(c) \/ Retry(c) \/ (\E b \in Batches : Submit(c, b))
                                  \/ LoseAnswer(c) \/ Fail(c) \/ AbortDeadlocked(c)
        PROVE <1>2!:
    <3>1. /\ UNCHANGED <<now, admitted>>
          /\ UNCHANGED requests \/ (requests < MaxRequests /\ requests' = requests + 1)
          /\ UNCHANGED faults \/ (faults < MaxFaults /\ faults' = faults + 1)
      <4>1. CASE Authorize(c) \/ ReadProducts(c) \/ ReadLocations(c)
        BY <4>1 DEF Authorize, ReadProducts, ReadLocations, referenceVars
      <4>2. CASE Insert(c)
        BY <4>2 DEF Insert, referenceVars
      <4>3. CASE Commit(c)
        BY <4>3 DEF Commit, referenceVars
      <4>4. CASE Answer(c) \/ Retry(c) \/ (\E b \in Batches : Submit(c, b))
        BY <4>4 DEF Answer, Retry, Submit, referenceVars
      <4>5. CASE LoseAnswer(c) \/ Fail(c) \/ AbortDeadlocked(c)
        BY <4>5 DEF LoseAnswer, Fail, AbortDeadlocked, FaultAllowed, referenceVars
      <4> QED
        BY <2>5, <4>1, <4>2, <4>3, <4>4, <4>5 DEF Serve
    <3>2. /\ \A d \in Callers : d # c => request'[d] = request[d]
          /\ \/ request'[c].batch \in {request[c].batch, <<>>}
             \/ request'[c].batch \in Batches /\ WellShaped(request'[c].batch)
      BY <2>5, StepKeepsBatch DEF RecordInv, StoreTypes
    <3>3. Len(request'[c].batch) <= LongestBatch
      BY <2>0, <3>2 DEF WellShaped
    <3>4. /\ now' \in 0 .. MaxTime /\ admitted' \subseteq Callers
          /\ requests' \in 0 .. MaxRequests /\ faults' \in 0 .. MaxFaults
      BY <3>1
    <3>5. request'[c].batch \in Batches \cup {<<>>}
      BY <3>2
    <3>6. \A d \in Callers : /\ request'[d].batch \in Batches \cup {<<>>}
                             /\ Len(request'[d].batch) <= LongestBatch
      BY <3>2, <3>3, <3>5
    <3> QED
      BY <3>4, <3>6
  <2>6. ASSUME NEW c \in Callers, NEW b \in Batches, RefuseShape(c, b) PROVE <1>2!:
    BY <2>6 DEF RefuseShape, vars, referenceVars
  <2> QED
    BY <2>1, <2>2, <2>3, <2>4, <2>5, <2>6 DEF Next
<1>4. \A c \in Callers :
        /\ request'[c].phase \in Phases
        /\ request'[c].inserted \subseteq request'[c].passed
        /\ request'[c].passed \subseteq request'[c].candidates
        /\ request'[c].candidates \subseteq DOMAIN request'[c].batch
  BY <1>1 DEF RecordInv, CandidatesAreJudged, Parsed, Requests
<1> QED
  BY <1>1, <1>2, <1>4 DEF RecordTypeOK

\* A commit adds to what is on hand what its report says.
LEMMA StockCommitted ==
    ASSUME RecordInv, StockInv, NEW c \in Callers, Commit(c),
           NEW t \in Tenants, NEW s \in Skus, NEW p \in Places
    PROVE  /\ ledger'[<<t, s, p>>] \in Int
           /\ stockOnHand(t, s, p)' = ledger'[<<t, s, p>>]
<1> DEFINE batch == request[c].batch
           mine == {at \in request[c].inserted :
                        <<TenantOf[c], batch[at].sku, batch[at].place>> = <<t, s, p>>}
           ids == {batch[at].id : at \in mine}
           f == [at \in mine |-> batch[at].id]
           q == [i \in RowsOf(t, s, p) |-> table[<<t, i>>].quantity]
           r == [i \in ids |-> table'[<<t, i>>].quantity]
           m == [at \in mine |-> batch[at].quantity]
           w == [i \in RowsOf(t, s, p)' |-> table'[<<t, i>>].quantity]
<1>1. /\ request[c].phase = "insert" /\ batch \in Batches
      /\ request[c].inserted \subseteq DOMAIN batch
      /\ \A at \in request[c].inserted : batch[at] \in Rows /\ batch[at].id \in Ids
      /\ \A at, other \in request[c].inserted : batch[at].id = batch[other].id => at = other
  <2>1. request[c].phase = "insert" /\ CandidatesAreJudged(c)
    BY DEF Commit, RecordInv
  <2>2. request[c].inserted \subseteq request[c].candidates /\ batch \in Batches
    BY <2>1 DEF CandidatesAreJudged
  <2> QED
    BY <2>1, <2>2, BatchType DEF CandidatesAreJudged, Parsed, Admissible
<1>2. IsFiniteSet(mine) /\ IsFiniteSet(RowsOf(t, s, p))
  <2>1. IsFiniteSet(DOMAIN batch)
    <3>1. DOMAIN batch = 1 .. Len(batch) /\ Len(batch) \in Int
      BY <1>1, BatchType
    <3> QED
      BY <3>1, FS_Interval
  <2>2. mine \in SUBSET DOMAIN batch
    BY <1>1
  <2>3. RowsOf(t, s, p) \in SUBSET {i \in Ids : table[<<t, i>>] # NoRow}
    BY DEF RowsOf
  <2> HIDE DEF mine, batch
  <2> QED
    BY <2>1, <2>2, <2>3, FS_Subset DEF StockInv, TablesAreFinite
<1>3. /\ q \in [RowsOf(t, s, p) -> Int] /\ m \in [mine -> Int]
  <2>1. ASSUME NEW i \in RowsOf(t, s, p) PROVE table[<<t, i>>].quantity \in Int
    <3>1. table[<<t, i>>] \in Rows
      BY DEF RowsOf, RecordInv, StoreTypes, Keys
    <3> QED
      BY <3>1 DEF Rows
  <2>2. \A at \in mine : batch[at].quantity \in Int
    BY <1>1 DEF Rows
  <2> QED
    BY <2>1, <2>2
<1>4. \A at \in mine : /\ TenantOf[c] = t /\ batch[at].sku = s /\ batch[at].place = p
                       /\ <<t, batch[at].id>> = Key(c, batch[at])
  BY DEF Key
<1>5. \A at \in mine : /\ table[<<t, batch[at].id>>] = NoRow
                       /\ table'[<<t, batch[at].id>>] = batch[at]
  BY <1>4, CommitWrites
<1>6. RowsOf(t, s, p)' = RowsOf(t, s, p) \cup ids
  <2>1. ASSUME NEW i \in ids
        PROVE  i \in RowsOf(t, s, p)'
    <3>1. PICK at \in mine : i = batch[at].id
      OBVIOUS
    <3>2. table'[<<t, i>>] = batch[at] /\ batch[at] # NoRow /\ i \in Ids
      <4>1. at \in request[c].candidates
        BY DEF RecordInv, CandidatesAreJudged
      <4>2. batch[at] # NoRow
        BY <4>1, KeyType DEF RecordInv
      <4> QED
        BY <1>1, <1>5, <3>1, <4>2
    <3> QED
      BY <1>4, <3>2 DEF RowsOf
  <2>2. ASSUME NEW i \in Ids, i \notin ids, table[<<t, i>>] # NoRow
                                            \/ i \in RowsOf(t, s, p)'
        PROVE  table'[<<t, i>>] = table[<<t, i>>]
    <3>1. <<t, i>> \in Keys
      BY DEF Keys
    <3>2. CASE <<t, i>> \notin HeldBy(c)
      BY <3>1, <3>2, CommitWrites
    <3>3. CASE <<t, i>> \in HeldBy(c)
      <4>1. PICK at \in request[c].inserted : <<t, i>> = Key(c, batch[at])
        BY <1>1, <3>3 DEF HeldBy
      <4>2. /\ table[<<t, i>>] = NoRow /\ table'[<<t, i>>] = batch[at]
            /\ t = TenantOf[c] /\ i = batch[at].id
        BY <4>1, CommitWrites DEF Key
      <4>3. ~(batch[at].sku = s /\ batch[at].place = p)
        BY <2>2, <4>2
      <4> QED
        BY <2>2, <4>2, <4>3 DEF RowsOf
    <3> QED
      BY <3>2, <3>3
  <2>3. RowsOf(t, s, p) \subseteq Ids /\ RowsOf(t, s, p)' \subseteq Ids
    BY DEF RowsOf
  <2>4. \A i \in RowsOf(t, s, p) : i \notin ids
    BY <1>5 DEF RowsOf
  <2> HIDE DEF ids
  <2> QED
    BY <2>1, <2>2, <2>3, <2>4 DEF RowsOf
<1>7. r \in [ids -> Int] /\ \A at \in mine : f[at] \in ids /\ r[f[at]] = m[at]
  <2>1. \A at \in mine : f[at] \in ids /\ r[f[at]] = m[at]
    BY <1>5
  <2>2. \A i \in ids : \E at \in mine : i = f[at]
    OBVIOUS
  <2>3. r = [i \in ids |-> r[i]]
    OBVIOUS
  <2> HIDE DEF r, ids, mine, f, m
  <2>4. \A i \in ids : r[i] \in Int
    BY <1>3, <2>1, <2>2
  <2> QED
    BY <2>1, <2>3, <2>4
<1>8. f \in Bijection(mine, ids)
  <2>1. /\ f \in [mine -> ids] /\ \A i \in ids : \E at \in mine : f[at] = i
        /\ \A at, other \in mine : f[at] = f[other] => at = other
    BY <1>1
  <2> HIDE DEF f, ids, mine
  <2> QED
    BY <2>1 DEF Bijection, Injection, Surjection, IsInjective
<1>9. IsFiniteSet(ids)
  <2> HIDE DEF f, ids, mine
  <2> QED
    BY <1>2, <1>8, FS_Bijection DEF ExistsBijection
<1>10. Together(q, r, w)
  <2>1. \A i \in RowsOf(t, s, p) : i \notin ids /\ table'[<<t, i>>] = table[<<t, i>>]
    <3>1. \A i \in RowsOf(t, s, p) : <<t, i>> \in Keys /\ table[<<t, i>>] # NoRow
      BY DEF RowsOf, Keys
    <3> QED
      BY <1>5, <3>1, CommitKeeps
  <2> HIDE DEF ids
  <2> QED
    BY <1>6, <2>1 DEF Together
<1>11. /\ ledger'[<<t, s, p>>] = ledger[<<t, s, p>>] + Sum(m)
       /\ stockOnHand(t, s, p) = Sum(q) /\ stockOnHand(t, s, p)' = Sum(w)
  BY DEF Commit, Stock, Recorded, stockOnHand
<1>12. stockOnHand(t, s, p) = ledger[<<t, s, p>>]
  BY DEF StockInv, StockMatchesReports
<1> HIDE DEF q, r, w, m, f, ids, mine
<1>13. Sum(w) = Sum(q) + Sum(r)
  BY <1>2, <1>3, <1>7, <1>9, <1>10, SumAdded
<1>14. Sum(r) = Sum(m)
  BY <1>2, <1>3, <1>7, <1>8, SumRenamed
<1>15. Sum(q) \in Int /\ Sum(m) \in Int
  BY <1>2, <1>3, SumIsInt
<1>16. ledger'[<<t, s, p>>] = Sum(q) + Sum(m) /\ stockOnHand(t, s, p)' = Sum(q) + Sum(m)
  BY <1>11, <1>12, <1>13, <1>14
<1> QED
  BY <1>15, <1>16

LEMMA StockUnmoved ==
    ASSUME StockInv, UNCHANGED <<table, ledger>>
    PROVE  TablesAreFinite' /\ StockMatchesReports' /\ ledger' \in [Stock -> Int]
<1>1. /\ \A t, s, p : stockOnHand(t, s, p)' = stockOnHand(t, s, p)
      /\ ledger' \in [Stock -> Int]
  BY DEF stockOnHand, RowsOf, StockInv, RecordTypeOK
<1> QED
  BY <1>1 DEF StockInv, TablesAreFinite, StockMatchesReports

LEMMA StockStep == RecordInv /\ RecordInv' /\ StockInv /\ [Next]_vars => StockInv'
<1> SUFFICES ASSUME RecordInv, RecordInv', StockInv, [Next]_vars PROVE StockInv'
  OBVIOUS
<1>1. CASE UNCHANGED <<table, ledger>>
  BY <1>1, StockUnmoved, RecordTypeStep DEF StockInv
<1>2. ASSUME NEW c \in Callers, Commit(c) PROVE StockInv'
  <2>1. StockMatchesReports'
    BY <1>2, StockCommitted DEF StockMatchesReports
  <2>2. ledger' \in [Stock -> Int]
    <3>1. DOMAIN ledger' = Stock /\ ledger' = [of \in Stock |-> ledger'[of]]
      BY <1>2 DEF Commit
    <3>2. \A of \in Stock : ledger'[of] \in Int
      BY <1>2, StockCommitted DEF Stock
    <3> QED
      BY <3>1, <3>2
  <2>3. TablesAreFinite'
    <3> SUFFICES ASSUME NEW t \in Tenants
                 PROVE  IsFiniteSet({i \in Ids : table'[<<t, i>>] # NoRow})
      BY DEF TablesAreFinite
    <3> DEFINE before == {i \in Ids : table[<<t, i>>] # NoRow}
               after == {i \in Ids : table'[<<t, i>>] # NoRow}
               written == [at \in request[c].inserted |-> request[c].batch[at].id]
               new == {written[at] : at \in request[c].inserted}
    <3>1. IsFiniteSet(request[c].inserted)
      <4>1. /\ request[c].inserted \in SUBSET DOMAIN request[c].batch
            /\ request[c].batch \in Batches
        BY <1>2 DEF RecordInv, CandidatesAreJudged, Parsed, Commit
      <4>2. /\ DOMAIN request[c].batch = 1 .. Len(request[c].batch)
            /\ Len(request[c].batch) \in Int
        BY <4>1, BatchType
      <4> QED
        BY <4>1, <4>2, FS_Interval, FS_Subset
    <3>2. written \in Surjection(request[c].inserted, new)
      BY DEF Surjection
    <3>3. after \subseteq before \cup new
      <4> SUFFICES ASSUME NEW i \in Ids, table'[<<t, i>>] # NoRow, table[<<t, i>>] = NoRow
                   PROVE  i \in new
        OBVIOUS
      <4>1. <<t, i>> \in HeldBy(c)
        BY <1>2, CommitWrites DEF Keys
      <4> QED
        BY <4>1 DEF HeldBy, Key
    <3>4. IsFiniteSet(before)
      BY DEF StockInv, TablesAreFinite
    <3> HIDE DEF before, after, written
    <3>5. IsFiniteSet(new)
      BY <3>1, <3>2, FS_Surjection
    <3> HIDE DEF new
    <3>6. IsFiniteSet(before \cup new)
      BY <3>4, <3>5, FS_Union
    <3>7. IsFiniteSet(after)
      BY <3>3, <3>6, FS_Subset
    <3> QED
      BY <3>7 DEF after
  <2> QED
    BY <2>1, <2>2, <2>3, RecordTypeStep DEF StockInv
<1>3. CASE \E c \in Callers : Commit(c)
  BY <1>2, <1>3
<1> QED
  BY <1>1, <1>3 DEF Next, Serve, Tick, Authorize, ReadProducts, ReadLocations, Insert, Answer,
     Retry, Submit, RefuseShape, LoseAnswer, Fail, AbortDeadlocked, Withdraw, DeclareProduct,
     DeclareLocation, vars

LEMMA StockInductive == Spec => []StockInv
<1>1. RecordInv /\ StockInv /\ [Next]_vars => (RecordInv /\ StockInv)'
  BY RecordStep, StockStep
<1> QED
  BY <1>1, RecordInit, StockInit, PTL DEF Spec

\* The moments, bounds and batches are what they are declared to be.
THEOREM RecordTypeCorrect == Spec => []RecordTypeOK
<1>1. StockInv => RecordTypeOK
  BY DEF StockInv
<1> QED
  BY <1>1, StockInductive, PTL

\* Whatever overlaps, repeats, waits, fails or is sent again, what is on hand is
\* what every report ever made adds up to.
THEOREM StockIsWhatWasReported == Spec => []StockMatchesReports
<1>1. StockInv => StockMatchesReports
  BY DEF StockInv
<1> QED
  BY <1>1, StockInductive, PTL

=============================================================================
