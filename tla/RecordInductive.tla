--------------------------- MODULE RecordInductive ---------------------------
(***************************************************************************)
(* The inductive invariant the safety of recording movements rests on.     *)
(***************************************************************************)
EXTENDS RecordMovements

Requests == [phase : Phases, batch : Seq(Rows), candidates : SUBSET Nat,
             passed : SUBSET Nat, inserted : SUBSET Nat]

StoreTypes ==
    /\ skus \in [Tenants -> SUBSET Skus]
    /\ places \in [Tenants -> SUBSET Places]
    /\ table \in [Keys -> Rows \cup {NoRow}]
    /\ request \in [Callers -> Requests]
    /\ told \subseteq Keys

\* What the local judgement makes sure of.
Admissible(row) ==
    /\ row.id \in Ids
    /\ row.kind \in {"receipt", "sale", "adjustment"}
    /\ row.quantity # 0
    /\ -LargestQuantity <= row.quantity /\ row.quantity <= LargestQuantity

\* The candidates of a request are rows of its batch that passed the judgement,
\* no two with one identifier, handled in the order of its statements.
CandidatesAreJudged(c) ==
    LET r == request[c] IN
    /\ r.inserted \subseteq r.passed /\ r.passed \subseteq r.candidates
    /\ r.phase \in {"idle", "unsure"} => r.candidates = {}
    /\ r.phase \in {"authorize", "products", "locations"} => r.passed = {}
    /\ r.phase = "answer" => r.passed = r.candidates
    /\ r.phase # "idle" => r.batch \in Batches
    /\ r.candidates \subseteq Parsed(r.batch)
    /\ \A at \in r.candidates : Admissible(r.batch[at])
    /\ \A at, other \in r.candidates :
        r.batch[at].id = r.batch[other].id => at = other

\* What the statements so far have found declared still is.
CandidatesAreDeclared(c) ==
    LET r == request[c] IN
    /\ r.phase \in {"locations", "insert", "answer"} =>
        \A at \in r.candidates : r.batch[at].sku \in skus[TenantOf[c]]
    /\ r.phase \in {"insert", "answer"} =>
        \A at \in r.candidates : r.batch[at].place \in places[TenantOf[c]]

\* A key inserted by a transaction in flight stays free in the table, a key
\* skipped stays taken, and what has been reported on is there.
TableAgrees(c) ==
    LET r == request[c] IN
    /\ r.phase = "insert" => \A at \in r.inserted : table[Key(c, r.batch[at])] = NoRow
    /\ r.phase = "insert" => \A at \in r.passed \ r.inserted :
            table[Key(c, r.batch[at])] # NoRow
    /\ r.phase = "answer" => \A at \in r.candidates :
            table[Key(c, r.batch[at])] # NoRow

LocksDisjoint == \A c, d \in Callers : c # d => HeldBy(c) \cap HeldBy(d) = {}

RecordInv ==
    /\ StoreTypes
    /\ \A c \in Callers : CandidatesAreJudged(c)
    /\ \A c \in Callers : CandidatesAreDeclared(c)
    /\ \A c \in Callers : TableAgrees(c)
    /\ LocksDisjoint
    /\ AcknowledgedIsRecorded

-----------------------------------------------------------------------------
(* What is on hand, beside what has been reported.                         *)

TablesAreFinite == \A t \in Tenants : IsFiniteSet({i \in Ids : table[<<t, i>>] # NoRow})

StockInv ==
    /\ RecordTypeOK
    /\ TablesAreFinite
    /\ StockMatchesReports

=============================================================================
