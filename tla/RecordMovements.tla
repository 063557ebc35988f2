-------------------------- MODULE RecordMovements --------------------------
(***************************************************************************)
(* Recording stock movements (RecordMovementsUseCase and the movement      *)
(* repository): callers submit batches at once, each batch is one          *)
(* transaction at READ COMMITTED, its rows are inserted one after the      *)
(* other by one statement that skips what is already recorded, and an      *)
(* answer may be lost after the commit.                                    *)
(*                                                                         *)
(* A caller that gives up waiting and sends its batch again while the      *)
(* first attempt is still running is two of Callers with one batch.        *)
(* Quantities that are not whole, and moments that are not moments, are    *)
(* refused with the shape of the request and are left out.                 *)
(***************************************************************************)
EXTENDS Integers, FiniteSets, Sequences

CONSTANTS
    Callers,
    Tenants,
    TenantOf,         \* the tenant each caller acts in
    Ids,              \* identifiers the source systems give their documents
    Skus,
    Places,
    DeclaredSkus,     \* declared by every tenant before anything is recorded
    DeclaredPlaces,
    Malformed,        \* any code or identifier that does not parse
    Batches,          \* the batches callers may submit
    LongestBatch,
    LargestQuantity,  \* of a signed 32-bit column
    MaxTime,          \* bound on the clock
    MaxRequests,      \* bound on the requests sent, retries not counted
    MaxFaults         \* bound on lost answers and failed transactions

Rows == [id : Ids \cup {Malformed}, sku : Skus \cup {Malformed},
         place : Places \cup {Malformed}, kind : STRING, quantity : Int, when : Int]

ASSUME CallersAssumption == TenantOf \in [Callers -> Tenants]

ASSUME BatchesAssumption ==
    /\ Batches \subseteq Seq(Rows)
    /\ Malformed \notin Ids \cup Skus \cup Places
    /\ DeclaredSkus \subseteq Skus /\ DeclaredPlaces \subseteq Places

ASSUME LimitsAssumption ==
    /\ LongestBatch \in Nat /\ LargestQuantity \in Nat
    /\ MaxTime \in Nat /\ MaxRequests \in Nat /\ MaxFaults \in Nat

VARIABLES
    now,
    admitted,    \* callers whose standing lets them record
    skus,        \* declared, per tenant
    places,
    table,       \* stock_movements: what is committed, by tenant and identifier
    request,     \* of a caller, in flight, answered or to be sent again
    requests,
    faults,
    told,        \* history: movements acknowledged to a caller
    ledger       \* history: what reports say was recorded, added up

referenceVars == <<admitted, skus, places>>
vars == <<now, referenceVars, table, request, requests, faults, told, ledger>>

-----------------------------------------------------------------------------
(* A batch, judged row by row.                                             *)

NoRow == [id |-> Malformed]

\* Of a movement, what the table keeps.
Key(c, row) == <<TenantOf[c], row.id>>

Keys == Tenants \X Ids

Stock == Tenants \X Skus \X Places

RequiredSign(kind) == CASE kind = "receipt" -> 1 [] kind = "sale" -> -1 [] OTHER -> 0

SignOf(n) == IF n > 0 THEN 1 ELSE IF n < 0 THEN -1 ELSE 0

\* Slip: the range is checked without its sign.
judgeMovementAbove(row) ==
    IF row.kind \notin {"receipt", "sale", "adjustment"} THEN "unknown-kind"
    ELSE IF row.quantity = 0 THEN "quantity-zero"
    ELSE IF row.quantity > LargestQuantity THEN "quantity-out-of-range"
    ELSE IF RequiredSign(row.kind) \notin {0, SignOf(row.quantity)}
         THEN "quantity-sign-mismatch"
    ELSE IF row.when > now THEN "occurred-in-future"
    ELSE "admissible"

\* One reason, the first that applies.
judgeMovement(row) ==
    IF row.kind \notin {"receipt", "sale", "adjustment"} THEN "unknown-kind"
    ELSE IF row.quantity = 0 THEN "quantity-zero"
    ELSE IF row.quantity \notin -LargestQuantity .. LargestQuantity
         THEN "quantity-out-of-range"
    ELSE IF RequiredSign(row.kind) \notin {0, SignOf(row.quantity)}
         THEN "quantity-sign-mismatch"
    ELSE IF row.when > now THEN "occurred-in-future"
    ELSE "admissible"

MalformedRow(row) == Malformed \in {row.id, row.sku, row.place}

\* An identifier counts as seen wherever it parsed, admissible or not.
Seen(batch, at) ==
    \E before \in 1 .. at - 1 :
        ~MalformedRow(batch[before]) /\ batch[before].id = batch[at].id

judgeLocally(batch, at) ==
    IF MalformedRow(batch[at]) THEN "malformed-identifier"
    ELSE IF Seen(batch, at) THEN "duplicate-within-batch"
    ELSE judgeMovement(batch[at])

judged(batch) == {at \in DOMAIN batch : judgeLocally(batch, at) = "admissible"}

-----------------------------------------------------------------------------
(* The unique constraint on tenant and identifier.                         *)

Unprocessed(r) == r.candidates \ r.passed

\* Rows are inserted in the order of the statement.
IsNext(r, at) == at \in Unprocessed(r) /\ \A other \in Unprocessed(r) : at <= other

\* Until the transaction ends.
HeldBy(c) ==
    IF request[c].phase = "insert"
    THEN {Key(c, request[c].batch[at]) : at \in request[c].inserted} ELSE {}

NextKeys(c) ==
    {Key(c, request[c].batch[at]) : at \in {i \in Unprocessed(request[c]) : IsNext(request[c], i)}}

\* A key inserted by a transaction in flight makes the next one wait for its end.
WaitsFor(c, d) ==
    c # d /\ request[c].phase = "insert" /\ NextKeys(c) \cap HeldBy(d) # {}

InWaitCycle(c) ==
    \E S \in SUBSET Callers :
        /\ c \in S
        /\ \A d \in S : (\E e \in S : WaitsFor(d, e)) /\ (\E e \in S : WaitsFor(e, d))

-----------------------------------------------------------------------------
(* What is on hand.                                                        *)

\* One by one, the units of the quantities that are positive.
Units(quantity) == UNION {{x} \X (1 .. quantity[x]) : x \in DOMAIN quantity}

\* Units in, less units out.
Sum(quantity) ==
    Cardinality(Units(quantity))
        - Cardinality(Units([x \in DOMAIN quantity |-> -quantity[x]]))

\* The identifiers under which a tenant's table has a row of a product in a place.
RowsOf(t, s, p) ==
    {i \in Ids : /\ table[<<t, i>>] # NoRow
                 /\ table[<<t, i>>].sku = s /\ table[<<t, i>>].place = p}

\* stockOnHand: the sum of the tenant's rows, per product and place.
stockOnHand(t, s, p) == Sum([i \in RowsOf(t, s, p) |-> table[<<t, i>>].quantity])

\* Slip: every row that survived is reported as recorded.
RecordedOfSurvivors(r) == r.candidates

\* What "returning" handed back: the rows this statement inserted.
Recorded(r) == r.inserted

\* The report: recorded, already recorded, or refused, one per row.
Outcome(r, at) ==
    IF at \in Recorded(r) THEN "recorded"
    ELSE IF at \in r.candidates THEN "already-recorded"
    ELSE "rejected"

-----------------------------------------------------------------------------
Idle == [phase |-> "idle", batch |-> <<>>, candidates |-> {}, passed |-> {},
         inserted |-> {}]

Fresh(batch) == [Idle EXCEPT !.phase = "authorize", !.batch = batch,
                             !.candidates = judged(batch)]

\* The caller has no answer, and holds on to its batch.
Unanswered(c) ==
    request' = [request EXCEPT ![c] = [Idle EXCEPT !.phase = "unsure",
                                                   !.batch = request[c].batch]]

InTransaction(c) == request[c].phase \in {"authorize", "products", "locations", "insert"}

FaultAllowed == faults < MaxFaults /\ faults' = faults + 1

Init ==
    /\ now = 0
    /\ admitted = Callers
    /\ skus = [t \in Tenants |-> DeclaredSkus]
    /\ places = [t \in Tenants |-> DeclaredPlaces]
    /\ table = [k \in Keys |-> NoRow]
    /\ request = [c \in Callers |-> Idle]
    /\ requests = 0
    /\ faults = 0
    /\ told = {}
    /\ ledger = [of \in Stock |-> 0]

Tick ==
    /\ now < MaxTime
    /\ now' = now + 1
    /\ UNCHANGED <<referenceVars, table, request, requests, faults, told, ledger>>

\* A membership revoked, a role lowered or a tenant deactivated.
Withdraw(c) ==
    /\ c \in admitted
    /\ admitted' = admitted \ {c}
    /\ UNCHANGED <<now, skus, places, table, request, requests, faults, told, ledger>>

\* One upsert: declaring again changes nothing a movement refers to.
DeclareProduct(t, s) ==
    /\ s \notin skus[t]
    /\ skus' = [skus EXCEPT ![t] = @ \cup {s}]
    /\ UNCHANGED <<now, admitted, places, table, request, requests, faults, told, ledger>>

DeclareLocation(t, p) ==
    /\ p \notin places[t]
    /\ places' = [places EXCEPT ![t] = @ \cup {p}]
    /\ UNCHANGED <<now, admitted, skus, table, request, requests, faults, told, ledger>>

-----------------------------------------------------------------------------
(* One request.                                                            *)

\* Slip: the limit is one too far.
WellShapedOneOver(batch) == Len(batch) \in 1 .. LongestBatch + 1

\* A batch with no row, or too many, is refused whole by its shape.
WellShaped(batch) == Len(batch) \in 1 .. LongestBatch

RefuseShape(c, batch) ==
    /\ request[c].phase = "idle"
    /\ ~WellShaped(batch)
    /\ UNCHANGED vars

\* execute begins: the clock is read and the rows judged before any statement.
Submit(c, batch) ==
    /\ request[c].phase = "idle"
    /\ WellShaped(batch)
    /\ requests < MaxRequests
    /\ requests' = requests + 1
    /\ request' = [request EXCEPT ![c] = Fresh(batch)]
    /\ UNCHANGED <<now, referenceVars, table, faults, told, ledger>>

Retry(c) ==
    /\ request[c].phase = "unsure"
    /\ request' = [request EXCEPT ![c] = Fresh(request[c].batch)]
    /\ UNCHANGED <<now, referenceVars, table, requests, faults, told, ledger>>

\* Slip: a caller refused inside the transaction gets no answer.
AuthorizeOnlyAdmitted(c) ==
    /\ request[c].phase = "authorize"
    /\ c \in admitted
    /\ request' = [request EXCEPT ![c].phase = "products"]
    /\ UNCHANGED <<now, referenceVars, table, requests, faults, told, ledger>>

\* authorizeCallerInTenant: a refusal is an answer, and nothing is written.
Authorize(c) ==
    /\ request[c].phase = "authorize"
    /\ request' = [request EXCEPT ![c] = IF c \in admitted
                                         THEN [@ EXCEPT !.phase = "products"] ELSE Idle]
    /\ UNCHANGED <<now, referenceVars, table, requests, faults, told, ledger>>

\* dropUnknownReferences: two statements, two snapshots. A row stays a candidate
\* when both name it.
ReadProducts(c) ==
    /\ request[c].phase = "products"
    /\ request' = [request EXCEPT ![c].phase = "locations",
                                  ![c].candidates = {at \in @ : request[c].batch[at].sku
                                                                \in skus[TenantOf[c]]}]
    /\ UNCHANGED <<now, referenceVars, table, requests, faults, told, ledger>>

ReadLocations(c) ==
    /\ request[c].phase = "locations"
    /\ request' = [request EXCEPT ![c].phase = "insert",
                                  ![c].candidates = {at \in @ : request[c].batch[at].place
                                                                \in places[TenantOf[c]]}]
    /\ UNCHANGED <<now, referenceVars, table, requests, faults, told, ledger>>

\* Slip: a key held by a transaction in flight is taken for recorded already.
InsertNotWaiting(c) ==
    /\ request[c].phase = "insert"
    /\ \E at \in Unprocessed(request[c]) :
        LET free == table[Key(c, request[c].batch[at])] = NoRow
                    /\ \A d \in Callers : ~WaitsFor(c, d)
        IN  /\ IsNext(request[c], at)
            /\ request' = [request EXCEPT ![c].passed = @ \cup {at},
                                          ![c].inserted = IF free THEN @ \cup {at} ELSE @]
    /\ UNCHANGED <<now, referenceVars, table, requests, faults, told, ledger>>

\* One row of the statement: skipped if the key is recorded, inserted if it is
\* free, and waiting for as long as a transaction in flight has inserted it.
Insert(c) ==
    /\ request[c].phase = "insert"
    /\ \A d \in Callers : ~WaitsFor(c, d)
    /\ \E at \in Unprocessed(request[c]) :
        /\ IsNext(request[c], at)
        /\ request' = [request EXCEPT
            ![c].passed = @ \cup {at},
            ![c].inserted = IF table[Key(c, request[c].batch[at])] = NoRow
                            THEN @ \cup {at} ELSE @]
    /\ UNCHANGED <<now, referenceVars, table, requests, faults, told, ledger>>

\* Slip: a conflict replaces the row instead of skipping it.
StoredReplacing(c, k) ==
    LET mine == {at \in request[c].passed : Key(c, request[c].batch[at]) = k}
    IN IF mine = {} THEN table[k] ELSE request[c].batch[CHOOSE at \in mine : TRUE]

\* On conflict, do nothing.
Stored(c, k) ==
    LET mine == {at \in request[c].inserted : Key(c, request[c].batch[at]) = k}
    IN IF mine = {} THEN table[k] ELSE request[c].batch[CHOOSE at \in mine : TRUE]

\* The transaction commits, and the report is made.
Commit(c) ==
    /\ request[c].phase = "insert" /\ Unprocessed(request[c]) = {}
    /\ table' = [k \in Keys |-> Stored(c, k)]
    /\ ledger' = [of \in Stock |->
                    LET mine == {at \in Recorded(request[c]) :
                                    <<TenantOf[c], request[c].batch[at].sku,
                                      request[c].batch[at].place>> = of}
                    IN ledger[of] + Sum([at \in mine |-> request[c].batch[at].quantity])]
    /\ request' = [request EXCEPT ![c].phase = "answer"]
    /\ UNCHANGED <<now, referenceVars, requests, faults, told>>

Answer(c) ==
    /\ request[c].phase = "answer"
    /\ told' = told \cup {Key(c, request[c].batch[at]) :
                            at \in {i \in DOMAIN request[c].batch :
                                        Outcome(request[c], i) # "rejected"}}
    /\ request' = [request EXCEPT ![c] = Idle]
    /\ UNCHANGED <<now, referenceVars, table, requests, faults, ledger>>

\* The answer is lost on its way, or the process dies before it is sent.
LoseAnswer(c) ==
    /\ request[c].phase = "answer"
    /\ FaultAllowed
    /\ Unanswered(c)
    /\ UNCHANGED <<now, referenceVars, table, requests, told, ledger>>

\* A statement or the process fails before the commit: every row goes.
Fail(c) ==
    /\ InTransaction(c)
    /\ FaultAllowed
    /\ Unanswered(c)
    /\ UNCHANGED <<now, referenceVars, table, requests, told, ledger>>

\* Two batches naming the same movements in opposite orders: the database aborts
\* one, which its caller sees as a failure of the whole request.
AbortDeadlocked(c) ==
    /\ InWaitCycle(c)
    /\ Unanswered(c)
    /\ UNCHANGED <<now, referenceVars, table, requests, faults, told, ledger>>

-----------------------------------------------------------------------------
Serve(c) ==
    \/ Authorize(c) \/ ReadProducts(c) \/ ReadLocations(c)
    \/ Insert(c) \/ Commit(c) \/ Answer(c)

Next ==
    \/ Tick
    \/ \E c \in Callers :
        \/ Serve(c) \/ Retry(c)
        \/ \E batch \in Batches : Submit(c, batch) \/ RefuseShape(c, batch)
        \/ LoseAnswer(c) \/ Fail(c) \/ AbortDeadlocked(c) \/ Withdraw(c)
    \/ \E t \in Tenants :
        \/ \E s \in Skus : DeclareProduct(t, s)
        \/ \E p \in Places : DeclareLocation(t, p)

Spec == Init /\ [][Next]_vars

\* A statement that has inserted a row, and inserts the next.
GoOn(c) == request[c].passed # {} /\ Insert(c)

\* A request that was accepted goes on, the database ends a deadlock, and a
\* caller without an answer sends its batch again. Strong fairness of GoOn: when
\* a transaction is aborted, the statement waiting for its key is woken at once,
\* while the batch aborted comes back several round trips later.
Fairness ==
    \A c \in Callers : /\ WF_vars(Serve(c)) /\ SF_vars(GoOn(c))
                       /\ WF_vars(Retry(c)) /\ WF_vars(AbortDeadlocked(c))

FairSpec == Spec /\ Fairness

-----------------------------------------------------------------------------
(* Properties.                                                             *)

Phases == {"idle", "authorize", "products", "locations", "insert", "answer", "unsure"}

RecordTypeOK ==
    /\ now \in 0 .. MaxTime
    /\ admitted \in SUBSET Callers
    /\ skus \in [Tenants -> SUBSET Skus]
    /\ places \in [Tenants -> SUBSET Places]
    /\ table \in [Keys -> Rows \cup {NoRow}]
    /\ \A c \in Callers :
        /\ request[c].phase \in Phases
        /\ request[c].batch \in Batches \cup {<<>>}
        /\ Len(request[c].batch) <= LongestBatch
        /\ request[c].inserted \subseteq request[c].passed
        /\ request[c].passed \subseteq request[c].candidates
        /\ request[c].candidates \subseteq DOMAIN request[c].batch
    /\ requests \in 0 .. MaxRequests
    /\ faults \in 0 .. MaxFaults
    /\ told \in SUBSET Keys
    /\ ledger \in [Stock -> Int]

\* What callers would add up from every report ever made, delivered or not, is
\* what the platform says is on hand: however batches overlap, repeat each
\* other, fail half-way or are sent again, each movement is reported recorded by
\* exactly one of them and counted once (record, execute, stockOnHand).
StockMatchesReports ==
    \A t \in Tenants, s \in Skus, p \in Places : stockOnHand(t, s, p) = ledger[<<t, s, p>>]

\* A movement acknowledged to anybody, as recorded or as recorded already, is in
\* the table and stays: an answer never runs ahead of the commit, nor counts on
\* a transaction of somebody else that may yet fail.
AcknowledgedIsRecorded == \A k \in told : table[k] # NoRow

\* Nothing is recorded of what no batch could ever be accepted for: a row the
\* table would refuse (its checks on kind and quantity, its references) is one
\* row's refusal, and never the failure of the batch it came in.
OnlyAdmissibleIsInserted ==
    \A c \in Callers : \A at \in request[c].inserted :
        LET row == request[c].batch[at] IN
        /\ row.kind \in {"receipt", "sale", "adjustment"}
        /\ row.quantity # 0
        /\ -LargestQuantity <= row.quantity /\ row.quantity <= LargestQuantity
        /\ row.sku \in skus[TenantOf[c]] /\ row.place \in places[TenantOf[c]]

\* What a call of the repository may bring: rows of one batch that parsed, each
\* identifier once.
Parsed(batch) == {at \in DOMAIN batch : ~MalformedRow(batch[at]) /\ ~Seen(batch, at)}

RowsAt(batch, S) == {batch[at] : at \in S}

Submissions == UNION {{RowsAt(batch, S) : S \in SUBSET Parsed(batch)} : batch \in Batches}

\* What the repository hands back, until the report is made of it or lost.
Returned(c) ==
    IF request[c].phase = "answer"
    THEN {request[c].batch[at].id : at \in Recorded(request[c])} ELSE {}

Store == INSTANCE MovementStore WITH
    Codes <- Skus \cup Places,
    Declared <- [products |-> DeclaredSkus, locations |-> DeclaredPlaces],
    products <- skus, locations <- places, movements <- table,
    returned <- [c \in Callers |-> Returned(c)]

\* Statement by statement, waiting for each other, skipping, failing and aborted,
\* concurrent batches record what their repository promises, as one step each:
\* the rows whose identifier was free, unchanged and for good, all of them or
\* none, referring to what is declared; and each is told exactly which it added.
ImplementsStore == Store!Spec

\* Every request is answered in the end, by a caller that sends it again until
\* it is: batches that wait for each other do not wait forever.
AnsweredInTheEnd == \A c \in Callers : request[c].phase # "idle" ~> request[c].phase = "idle"

=============================================================================
