--------------------------- MODULE QuestionsProofs ---------------------------
(***************************************************************************)
(* Proofs about questions, for any tenants, rows, bounds and compositions. *)
(***************************************************************************)
EXTENDS QuestionsInductive, FiniteSetTheorems, SequenceTheorems, TLAPS

-----------------------------------------------------------------------------
(* A set of rows, one after the other.                                     *)

LEMMA InOneOrder ==
    ASSUME NEW S, IsFiniteSet(S)
    PROVE  /\ SetToSeq(S) \in Seq(S)
           /\ Len(SetToSeq(S)) = Cardinality(S) /\ Cardinality(S) \in Nat
           /\ {SetToSeq(S)[n] : n \in 1 .. Cardinality(S)} = S
<1> DEFINE size == Cardinality(S)
<1>1. size \in Nat /\ ExistsBijection(1 .. size, S)
  BY FS_CardinalityType
<1>2. PICK b : b \in Bijection(1 .. size, S)
  BY <1>1 DEF ExistsBijection
<1>3. b \in [1 .. size -> S] /\ IsInjective(b)
  BY <1>2 DEF Bijection, Injection, IsInjective
<1>4. SetToSeq(S) \in [1 .. size -> S] /\ IsInjective(SetToSeq(S))
  <2> HIDE DEF size
  <2>1. \E f \in [1 .. size -> S] : IsInjective(f)
    BY <1>3
  <2>2. SetToSeq(S) = CHOOSE f \in [1 .. size -> S] : IsInjective(f)
    BY DEF SetToSeq, size
  <2> QED
    BY <2>1, <2>2
<1>5. SetToSeq(S) \in Surjection(1 .. size, S)
  <2> HIDE DEF size
  <2>1. IsFiniteSet(1 .. size) /\ Cardinality(1 .. size) = size
    BY <1>1, FS_Interval
  <2>2. SetToSeq(S) \in Injection(1 .. size, S)
    BY <1>4 DEF Injection, IsInjective
  <2> QED
    BY <2>1, <2>2, FS_Injection DEF size
<1>6. {SetToSeq(S)[n] : n \in 1 .. size} = S
  BY <1>5 DEF Surjection
<1>7. SetToSeq(S) \in Seq(S) /\ Len(SetToSeq(S)) = size
  BY <1>1, <1>4
<1> QED
  BY <1>1, <1>6, <1>7

\* Cut anywhere, and the column names before the first page or not: nothing is lost,
\* and nothing added.
LEMMA PagesOf ==
    ASSUME NEW S, NEW rows \in Seq(S), \A row \in S : row # Header,
           NEW cut \in 0 .. Len(rows), NEW named \in BOOLEAN
    PROVE  LET page(from, to) == SubSeq(rows, from, to)
               first == (IF named THEN <<Header>> ELSE <<>>) \o page(1, cut)
               rest == page(cut + 1, Len(rows))
           IN  /\ withoutHeaderRow(first) \in Seq(S) /\ rest \in Seq(S)
               /\ withoutHeaderRow(first) \o rest = rows
               /\ rest = <<>> => withoutHeaderRow(first) = rows
<1> DEFINE begin == SubSeq(rows, 1, cut)
           rest == SubSeq(rows, cut + 1, Len(rows))
           first == (IF named THEN <<Header>> ELSE <<>>) \o begin
<1>1. Len(rows) \in Nat /\ \A i \in 1 .. Len(rows) : rows[i] \in S
  BY LenProperties, ElementOfSeq
<1>2. begin \in Seq(S) /\ rest \in Seq(S) /\ begin \o rest = rows
  <2>1. begin \in Seq(S) /\ rest \in Seq(S)
    BY <1>1, SubSeqProperties
  <2>2. begin \o rest = SubSeq(rows, 1, Len(rows))
    <3>1. 1 \in 1 .. Len(rows) + 1 /\ cut \in 1 - 1 .. Len(rows) /\ Len(rows) \in cut .. Len(rows)
      BY <1>1
    <3> QED
      BY <3>1, ConcatAdjacentSubSeq
  <2> QED
    BY <2>1, <2>2, SubSeqFull
<1> HIDE DEF begin, rest
<1>3. withoutHeaderRow(first) = begin
  <2>1. CASE named
    <3> DEFINE T == S \cup {Header}
    <3>1. <<Header>> \in Seq(T) /\ begin \in Seq(T) /\ Len(<<Header>>) = 1
      BY <1>2, SeqMonotonic
    <3> HIDE DEF T
    <3>2. first = <<Header>> \o begin
      BY <2>1
    <3> HIDE DEF first
    <3>3. /\ first \in Seq(T) /\ Len(first) = 1 + Len(begin) /\ Len(begin) \in Nat
          /\ \A i \in 1 .. 1 + Len(begin) : first[i] = IF i <= 1 THEN Header ELSE begin[i - 1]
      BY <3>1, <3>2, ConcatProperties, LenProperties
    <3>4. first # <<>> /\ Head(first) = Header
      BY <3>3
    <3>5. Tail(first) = begin
      <4>1. /\ Tail(first) \in Seq(T) /\ Len(Tail(first)) = Len(begin)
            /\ \A i \in 1 .. Len(Tail(first)) : Tail(first)[i] = first[i + 1]
        BY <3>3, <3>4, HeadTailProperties
      <4>2. \A i \in 1 .. Len(begin) : first[i + 1] = begin[i]
        BY <3>3
      <4> QED
        BY <3>1, <4>1, <4>2, SeqEqual
    <3> QED
      BY <3>4, <3>5 DEF withoutHeaderRow
  <2>2. CASE ~named
    <3>1. first = begin
      BY <1>2, <2>2, ConcatEmptySeq
    <3>2. begin # <<>> => Head(begin) # Header
      BY <1>2, HeadTailProperties
    <3> QED
      BY <3>1, <3>2 DEF withoutHeaderRow
  <2> QED
    BY <2>1, <2>2
<1>4. rest = <<>> => begin = rows
  BY <1>2, ConcatEmptySeq
<1> QED
  BY <1>2, <1>3, <1>4 DEF begin, rest

LEMMA MinOfTwo ==
    ASSUME NEW a \in Nat, NEW b \in Nat
    PROVE  Min({a, b}) = IF a <= b THEN a ELSE b
<1>1. CASE a <= b
  BY <1>1 DEF Min
<1>2. CASE b < a
  BY <1>2 DEF Min
<1> QED
  BY <1>1, <1>2

-----------------------------------------------------------------------------
(* What is read is what ought to be.                                       *)

LEMMA OwnRowsAre ==
    ASSUME asked.tenant \in Tenants, phase \in {"watermark", "rows"}
    PROVE  /\ IsFiniteSet(OwnRows) /\ OwnRows \subseteq Rows
           /\ \A row \in OwnRows : row # Header
           /\ phase = "watermark" => /\ OwnRows = {} <=> asked.tenant \notin Exported
                                     /\ Cardinality(OwnRows) <= 1
           /\ phase = "rows" => Cardinality(OwnRows) = Holds[asked.tenant]
<1>1. Holds[asked.tenant] \in Nat
  BY QuestionsAssumption
<1>2. OwnRows \subseteq Rows /\ \A row \in OwnRows : row[2] # 0
  BY <1>1 DEF OwnRows, Rows
<1>3. \A row \in OwnRows : row # Header
  BY <1>2 DEF Header
<1>4. CASE phase = "watermark"
  <2>1. OwnRows = IF asked.tenant \in Exported THEN {<<asked.tenant, 1, asked.tenant>>} ELSE {}
    BY <1>4 DEF OwnRows
  <2>2. IsFiniteSet(OwnRows) /\ Cardinality(OwnRows) <= 1
    <3>1. CASE asked.tenant \in Exported
      <4> DEFINE mark == <<asked.tenant, 1, asked.tenant>>
      <4>1. OwnRows = {mark}
        BY <2>1, <3>1
      <4> HIDE DEF mark
      <4> QED
        BY <4>1, FS_Singleton
    <3>2. CASE asked.tenant \notin Exported
      BY <2>1, <3>2, FS_EmptySet
    <3> QED
      BY <3>1, <3>2
  <2> QED
    BY <1>2, <1>3, <1>4, <2>1, <2>2
<1>5. CASE phase = "rows"
  <2> DEFINE numbers == 1 .. Holds[asked.tenant]
             row == [n \in numbers |-> <<asked.tenant, n, asked.tenant>>]
  <2>1. OwnRows = {row[n] : n \in numbers}
    BY <1>5 DEF OwnRows
  <2>2. row \in Bijection(numbers, OwnRows)
    <3>1. \A n, m \in numbers : row[n] = row[m] => n = m
      OBVIOUS
    <3> HIDE DEF row
    <3>2. row \in [numbers -> OwnRows]
      BY <2>1 DEF row
    <3> QED
      BY <2>1, <3>1, <3>2 DEF Bijection, Injection, Surjection, IsInjective
  <2>3. IsFiniteSet(numbers) /\ Cardinality(numbers) = Holds[asked.tenant]
    <3> DEFINE size == Holds[asked.tenant]
    <3>1. size \in Nat /\ size \in Int /\ 1 \in Int
      BY <1>1
    <3> HIDE DEF size
    <3>2. /\ IsFiniteSet(1 .. size)
          /\ Cardinality(1 .. size) = IF 1 > size THEN 0 ELSE size - 1 + 1
      BY <3>1, FS_Interval
    <3>3. IsFiniteSet(1 .. size) /\ Cardinality(1 .. size) = size
      BY <3>1, <3>2
    <3> QED
      BY <3>3 DEF size
  <2> HIDE DEF numbers
  <2>4. IsFiniteSet(OwnRows) /\ Cardinality(OwnRows) = Holds[asked.tenant]
    BY <2>2, <2>3, FS_Bijection DEF ExistsBijection
  <2> QED
    BY <1>2, <1>3, <1>5, <2>4
<1> QED
  BY <1>4, <1>5

\* The tables of a statement are each constrained to the tenant.
LEMMA StatementReads ==
    ASSUME phase \in {"watermark", "rows"}, asked.route \in {"stock", "history"}
    PROVE  StatementRows = SetToSeq(OwnRows)
<1>1. CASE phase = "watermark"
  BY <1>1 DEF StatementRows, MarksRead, Owners, OwnRows
<1>2. CASE phase = "rows"
  <2> DEFINE tables == tablesOf(asked.route)
  <2>1. "movements" \in tables
    BY DEF tablesOf
  <2>2. RowsRead(tables, tables, FALSE)
            = {<<asked.tenant, n, asked.tenant>> : n \in 1 .. Holds[asked.tenant]}
    BY <2>1 DEF RowsRead, Owners
  <2> QED
    BY <1>2, <2>2 DEF StatementRows, OwnRows, tenantIs
<1> QED
  BY <1>1, <1>2

\* Every cube a question names is confined, and every question names the movements.
LEMMA ModelReads ==
    ASSUME phase \in {"watermark", "rows"},
           questionFrom(asked.measures, asked.groupings, asked.by)
    PROVE  ModelRows = SetToSeq(OwnRows)
<1> DEFINE cubes == cubesNamedIn(Load)
<1>1. CASE phase = "watermark"
  <2>1. "watermarks" \in cubes
    BY <1>1 DEF Load, watermarkLoad, WATERMARK_MEMBER, cubesNamedIn
  <2> QED
    BY <1>1, <2>1 DEF ModelRows, MarksRead, Owners, OwnRows, queryRewrite
<1>2. CASE phase = "rows"
  <2>1. "movements" \in cubes
    <3>1. asked.by \in READ_BY
      BY DEF questionFrom
    <3>2. READ_BY_MEMBER[asked.by][1] = "movements"
      BY <3>1 DEF READ_BY, READ_BY_MEMBER
    <3>3. READ_BY_MEMBER[asked.by] \in Load.timeDimensions
      BY <1>2 DEF Load, loadFor
    <3> QED
      BY <3>2, <3>3 DEF cubesNamedIn
  <2> HIDE DEF cubes
  <2>2. RowsRead(cubes, cubes, TRUE)
            = {<<asked.tenant, n, asked.tenant>> : n \in 1 .. Holds[asked.tenant]}
    BY <2>1 DEF RowsRead, Owners
  <2> QED
    BY <1>2, <2>2 DEF ModelRows, OwnRows, queryRewrite, cubes
<1> QED
  BY <1>1, <1>2

-----------------------------------------------------------------------------
(* The invariant holds at first, and while time passes.                    *)

LEMMA QuestionsInit == Init => QuestionsInv
<1> SUFFICES ASSUME Init PROVE QuestionsInv
  OBVIOUS
<1> USE DEF Init
<1>1. asked \in Questions
  <2>1. (CHOOSE t \in Tenants : TRUE) \in Tenants
    BY QuestionsAssumption
  <2> QED
    BY <2>1 DEF NoQuestion, Questions
<1>2. QuestionsTypeOK
  BY <1>1, QuestionsAssumption DEF QuestionsTypeOK, NoJob, Steps, Outcomes
<1>3. AskedRightly /\ RunningIsWatched /\ JobFields
  BY DEF AskedRightly, RunningIsWatched, JobFields, EngineSteps, ModelSteps, NoJob
<1>4. PagesCarry
  BY DEF PagesCarry
<1>5. RefusalsTellTheTruth /\ AnswersAreWhole
  BY DEF RefusalsTellTheTruth, AnswersAreWhole, WholeAnswer
<1> QED
  BY <1>2, <1>3, <1>4, <1>5 DEF QuestionsInv

LEMMA TickStep == QuestionsInv /\ Tick => QuestionsInv'
<1> SUFFICES ASSUME QuestionsInv, Tick PROVE QuestionsInv'
  OBVIOUS
<1>1. /\ UNCHANGED <<built, asked, phase, step, job, got, failed, outcome>>
      /\ left' \in 0 .. left /\ valid' \in 0 .. valid /\ step # "over"
      /\ left \in 0 .. Timeout /\ valid \in 0 .. ContextLifetime
  BY QuestionsAssumption DEF Tick, QuestionsInv, QuestionsTypeOK
<1>2. QuestionsTypeOK'
  BY <1>1, QuestionsAssumption DEF QuestionsInv, QuestionsTypeOK
<1>3. AskedRightly' /\ RunningIsWatched' /\ JobFields'
  BY <1>1 DEF QuestionsInv, AskedRightly, RunningIsWatched, JobFields
<1>4. PagesCarry'
  BY <1>1 DEF QuestionsInv, PagesCarry, OwnRows, Unread, PageRows
<1>5. RefusalsTellTheTruth' /\ AnswersAreWhole'
  BY <1>1 DEF QuestionsInv, RefusalsTellTheTruth, AnswersAreWhole, WholeAnswer
<1> QED
  BY <1>2, <1>3, <1>4, <1>5 DEF QuestionsInv

LEMMA AskStep ==
    ASSUME QuestionsInv, NEW kind \in Callers, NEW q \in Questions, Ask(kind, q)
    PROVE  QuestionsInv'
<1>1. /\ asked' = q /\ phase' = "watermark" /\ job' = NoJob /\ got' = <<>> /\ failed' = {}
      /\ outcome' \in {"none", "invalid", "not-found", "not-configured"}
  BY DEF Ask, Refused
<1>2. q.tenant \in Tenants /\ q.route \in Routes
  BY DEF Questions, Routes
<1>3. \/ outcome' # "none" /\ step' = "over" /\ left' = 0 /\ valid' = 0
      \/ /\ outcome' = "none" /\ left' = Timeout
         /\ IF q.route = "model" THEN step' = "attempt" /\ valid' = ContextLifetime
            ELSE step' = "submit" /\ valid' = 0
  BY DEF Ask, contextFor
<1>4. /\ built' \subseteq {"engine", "model"}
      /\ outcome' = "none" => adapterOf(q.route) \in built'
      /\ outcome' = "none" /\ q.route = "model" => questionFrom(q.measures, q.groupings, q.by)
  <2>1. PICK ready \in {built, built \cup {adapterOf(q.route)}} :
            /\ outcome' = Refused(kind, q, ready)
            /\ built' = IF outcome' \in {"invalid", "not-found"} THEN built ELSE ready
    BY DEF Ask
  <2>2. built \subseteq {"engine", "model"} /\ adapterOf(q.route) \in {"engine", "model"}
    BY DEF QuestionsInv, QuestionsTypeOK, adapterOf
  <2>3. /\ outcome' = "none" => adapterOf(q.route) \in ready
        /\ outcome' = "none" /\ q.route = "model" => questionFrom(q.measures, q.groupings, q.by)
    BY <2>1 DEF Refused
  <2> QED
    BY <2>1, <2>2, <2>3
<1>5. QuestionsTypeOK'
  <2>1. job'.state = "none" /\ job'.token = 0 /\ job'.token \in 0 .. Len(job'.pages)
    BY <1>1 DEF NoJob
  <2>2. step' \in Steps /\ step' # "read" /\ outcome' \in Outcomes
    BY <1>1, <1>3 DEF Steps, EngineSteps, ModelSteps, Outcomes, AnalyticsFailureReason
  <2>3. left' \in 0 .. Timeout /\ valid' \in 0 .. ContextLifetime
    BY <1>3, QuestionsAssumption
  <2> QED
    BY <1>1, <1>3, <1>4, <2>1, <2>2, <2>3 DEF QuestionsTypeOK
<1>6. AskedRightly' /\ RunningIsWatched' /\ JobFields'
  BY <1>1, <1>2, <1>3, <1>4 DEF AskedRightly, RunningIsWatched, JobFields, EngineSteps, ModelSteps,
     NoJob, Routes
<1>7. PagesCarry'
  BY <1>1, <1>3 DEF PagesCarry, NoJob
<1>8. RefusalsTellTheTruth' /\ AnswersAreWhole'
  BY <1>1 DEF RefusalsTellTheTruth, AnswersAreWhole, WholeAnswer
<1> QED
  BY <1>5, <1>6, <1>7, <1>8 DEF QuestionsInv

-----------------------------------------------------------------------------
(* The query engine.                                                       *)

\* What a step during an exchange starts from.
LEMMA Underway ==
    ASSUME QuestionsInv
    PROVE  /\ asked \in Questions /\ asked.tenant \in Tenants
           /\ phase \in {"watermark", "rows"}
           /\ step # "over" => outcome = "none"
           /\ got \in Seq(Rows) /\ Len(got) \in Nat
           /\ step \in EngineSteps => StatementRows = SetToSeq(OwnRows)
           /\ step \in ModelSteps => ModelRows = SetToSeq(OwnRows)
<1>1. asked \in Questions /\ asked.tenant \in Tenants
  BY DEF QuestionsInv, QuestionsTypeOK, Questions
<1>2. phase \in {"watermark", "rows"} /\ (step # "over" => outcome = "none")
  BY DEF QuestionsInv, QuestionsTypeOK
<1>3. got \in Seq(Rows) /\ Len(got) \in Nat
  BY LenProperties DEF QuestionsInv, PagesCarry
<1> QED
  BY <1>1, <1>2, <1>3, StatementReads, ModelReads DEF QuestionsInv, AskedRightly

\* A question that ends without an answer ends with what it had read, or nothing.
LEMMA EndsUnanswered ==
    ASSUME QuestionsInv, step # "over",
           NEW reason \in AnalyticsFailureReason \cup {"undecodable", "unanswerable", "over-bound"},
           End(reason), UNCHANGED <<built, asked, phase, left, valid, got>>,
           job'.state \in {"none", "RUNNING", "SUCCEEDED", "FAILED", "CANCELLED"},
           job'.token \in 0 .. Len(job'.pages), JobFields',
           failed' \subseteq EngineCalls \cup {"load"},
           job'.state = "RUNNING" => failed' \cap EngineCalls # {},
           reason = "question-timed-out" => left = 0,
           reason = "unanswerable" => phase = "rows",
           reason = "over-bound" => Holds[asked.tenant] > MAX_ANSWER_ROWS
    PROVE  QuestionsInv'
<1>1. step' = "over" /\ outcome' = reason
  BY DEF End
<1>2. QuestionsTypeOK'
  BY <1>1 DEF QuestionsInv, QuestionsTypeOK, Steps, Outcomes
<1>3. AskedRightly' /\ RunningIsWatched' /\ JobFields'
  BY <1>1 DEF QuestionsInv, AskedRightly, RunningIsWatched, JobFields, EngineSteps, ModelSteps
<1>4. PagesCarry'
  BY <1>1 DEF QuestionsInv, PagesCarry
<1>5. RefusalsTellTheTruth' /\ AnswersAreWhole'
  BY <1>1 DEF RefusalsTellTheTruth, AnswersAreWhole, AnalyticsFailureReason
<1> QED
  BY <1>2, <1>3, <1>4, <1>5 DEF QuestionsInv

LEMMA SubmittedStep == QuestionsInv /\ Submitted => QuestionsInv'
<1> SUFFICES ASSUME QuestionsInv, Submitted PROVE QuestionsInv'
  OBVIOUS
<1>1. /\ step = "submit" /\ step' = "poll" /\ failed' = {}
      /\ job' = [state |-> "RUNNING", pages |-> <<>>, token |-> 0]
      /\ UNCHANGED <<built, asked, phase, left, valid, got, outcome>>
  BY DEF Submitted, EngineUnchanged, NoJob
<1>2. QuestionsTypeOK'
  BY <1>1 DEF QuestionsInv, QuestionsTypeOK, Steps, EngineSteps
<1>3. AskedRightly' /\ RunningIsWatched' /\ JobFields'
  BY <1>1 DEF QuestionsInv, AskedRightly, RunningIsWatched, JobFields, EngineSteps, ModelSteps
<1>4. PagesCarry'
  BY <1>1 DEF QuestionsInv, PagesCarry
<1>5. RefusalsTellTheTruth' /\ AnswersAreWhole'
  <2>1. outcome' = "none"
    BY <1>1, Underway
  <2> QED
    BY <2>1 DEF RefusalsTellTheTruth, AnswersAreWhole
<1> QED
  BY <1>2, <1>3, <1>4, <1>5 DEF QuestionsInv

LEMMA SubmitFailsStep == QuestionsInv /\ SubmitFails => QuestionsInv'
<1> SUFFICES ASSUME QuestionsInv, SubmitFails PROVE QuestionsInv'
  OBVIOUS
<1>1. /\ step = "submit" /\ failed' = {"submit"}
      /\ job' \in {NoJob, [state |-> "RUNNING", pages |-> <<>>, token |-> 0]}
      /\ UNCHANGED <<built, asked, phase, left, valid, got>>
  BY DEF SubmitFails, EngineUnchanged, NoJob
<1>2. PICK reason \in EngineRefusals : End(reason)
  BY DEF SubmitFails
<1>3. /\ reason \in AnalyticsFailureReason
      /\ reason \notin {"question-timed-out", "unanswerable", "over-bound"}
  BY DEF EngineRefusals, AnalyticsFailureReason
<1>4. job'.state \in {"none", "RUNNING"} /\ job'.token = 0 /\ job'.pages = <<>> /\ JobFields'
  BY <1>1 DEF NoJob, JobFields
<1> QED
  BY <1>1, <1>2, <1>3, <1>4, EndsUnanswered DEF EngineCalls

LEMMA EngineEndsStep == QuestionsInv /\ EngineEnds => QuestionsInv'
<1> SUFFICES ASSUME QuestionsInv, EngineEnds PROVE QuestionsInv'
  OBVIOUS
<1>1. /\ job.state = "RUNNING" /\ step # "over"
      /\ UNCHANGED <<built, asked, phase, step, left, valid, got, failed, outcome>>
  BY DEF EngineEnds
<1>2. step \in {"poll", "judge", "stop"} /\ step \in EngineSteps
  BY <1>1 DEF QuestionsInv, RunningIsWatched, EngineSteps
<1>3. AskedRightly' /\ RefusalsTellTheTruth' /\ AnswersAreWhole'
  BY <1>1 DEF QuestionsInv, AskedRightly, RefusalsTellTheTruth, AnswersAreWhole, WholeAnswer
<1>4. CASE \E state \in {"FAILED", "CANCELLED"} : job' = [NoJob EXCEPT !.state = state]
  <2>1. job'.state \in {"FAILED", "CANCELLED"} /\ job'.token = 0 /\ job'.pages = <<>>
    BY <1>4 DEF NoJob
  <2>2. QuestionsTypeOK'
    BY <1>1, <1>2, <2>1 DEF QuestionsInv, QuestionsTypeOK
  <2>3. RunningIsWatched' /\ PagesCarry' /\ JobFields'
    BY <1>1, <1>2, <1>4, <2>1 DEF QuestionsInv, RunningIsWatched, PagesCarry, JobFields, NoJob
  <2> QED
    BY <1>3, <2>2, <2>3 DEF QuestionsInv
<1>5. ASSUME NEW cut \in 0 .. Len(StatementRows), NEW named \in BOOLEAN,
             LET page(from, to) == SubSeq(StatementRows, from, to)
                 first == (IF named THEN <<Header>> ELSE <<>>) \o page(1, cut)
                 rest == page(cut + 1, Len(StatementRows))
             IN  job' = [state |-> "SUCCEEDED", token |-> 0,
                         pages |-> IF rest = <<>> THEN <<first>> ELSE <<first, rest>>]
      PROVE  QuestionsInv'
  <2> DEFINE first == (IF named THEN <<Header>> ELSE <<>>) \o SubSeq(StatementRows, 1, cut)
             rest == SubSeq(StatementRows, cut + 1, Len(StatementRows))
  <2>1. StatementRows = SetToSeq(OwnRows) /\ IsFiniteSet(OwnRows)
        /\ OwnRows \subseteq Rows /\ \A row \in OwnRows : row # Header
    BY <1>2, Underway, OwnRowsAre
  <2>2. StatementRows \in Seq(OwnRows)
    BY <2>1, InOneOrder
  <2>3. /\ withoutHeaderRow(first) \in Seq(OwnRows) /\ rest \in Seq(OwnRows)
        /\ withoutHeaderRow(first) \o rest = StatementRows
        /\ rest = <<>> => withoutHeaderRow(first) = StatementRows
    BY <2>1, <2>2, PagesOf
  <2>4. job' = [state |-> "SUCCEEDED", token |-> 0,
                pages |-> IF rest = <<>> THEN <<first>> ELSE <<first, rest>>]
    BY <1>5
  <2>5. withoutHeaderRow(first) \in Seq(Rows) /\ rest \in Seq(Rows)
    BY <2>1, <2>3, SeqMonotonic
  <2> HIDE DEF first, rest
  <2>6. /\ job'.state = "SUCCEEDED" /\ job'.token = 0
        /\ \/ /\ Len(job'.pages) = 1 /\ job'.pages[1] = first
              /\ withoutHeaderRow(first) = StatementRows
           \/ Len(job'.pages) = 2 /\ job'.pages[1] = first /\ job'.pages[2] = rest
    BY <2>3, <2>4
  <2>7. QuestionsTypeOK'
    BY <1>1, <1>2, <2>6 DEF QuestionsInv, QuestionsTypeOK
  <2>8. RunningIsWatched' /\ JobFields'
    BY <2>4, <2>6 DEF RunningIsWatched, JobFields
  <2>9. PagesCarry'
    <3>1. got = <<>> /\ got' = <<>> /\ SetToSeq(OwnRows)' = StatementRows
      BY <1>1, <1>2, <2>1 DEF QuestionsInv, PagesCarry, OwnRows
    <3>2. Unread' = StatementRows /\ \A n \in 1 .. Len(job'.pages) : PageRows(n)' \in Seq(Rows)
      <4>1. CASE Len(job'.pages) = 1
        BY <2>3, <2>5, <2>6, <4>1 DEF Unread, PageRows
      <4>2. CASE Len(job'.pages) = 2
        <5>1. PageRows(1)' = withoutHeaderRow(first) /\ PageRows(2)' = rest
          BY <2>6, <4>2 DEF PageRows
        <5>2. Unread' = PageRows(1)' \o PageRows(2)'
          BY <2>6, <4>2 DEF Unread
        <5>3. Unread' = StatementRows
          BY <2>3, <5>1, <5>2
        <5>4. \A n \in 1 .. 2 : PageRows(n)' \in Seq(Rows)
          <6>1. \A n \in 1 .. 2 : n = 1 \/ n = 2
            OBVIOUS
          <6> QED
            BY <2>5, <5>1, <6>1
        <5> QED
          BY <4>2, <5>3, <5>4
      <4> QED
        BY <2>6, <4>1, <4>2
    <3>3. got' \o Unread' = StatementRows
      BY <2>2, <3>1, <3>2, ConcatEmptySeq
    <3>4. <<>> \in Seq(Rows)
      OBVIOUS
    <3> QED
      BY <2>6, <3>1, <3>2, <3>3, <3>4 DEF PagesCarry
  <2> QED
    BY <1>3, <2>7, <2>8, <2>9 DEF QuestionsInv
<1> QED
  BY <1>4, <1>5 DEF EngineEnds

LEMMA StateOfStep == QuestionsInv /\ StateOf => QuestionsInv'
<1> SUFFICES ASSUME QuestionsInv, StateOf PROVE QuestionsInv'
  OBVIOUS
<1>1. /\ step = "poll"
      /\ UNCHANGED <<built, asked, phase, left, valid, got, job, failed>>
  BY DEF StateOf, EngineUnchanged
<1>2. \/ job.state = "SUCCEEDED" /\ step' = "read" /\ UNCHANGED outcome
      \/ job.state = "RUNNING" /\ step' = "judge" /\ UNCHANGED outcome
      \/ job.state # "RUNNING" /\ End("question-failed")
  BY DEF StateOf
<1>3. CASE job.state # "RUNNING" /\ End("question-failed")
  <2>1. /\ job.state \in {"none", "RUNNING", "SUCCEEDED", "FAILED", "CANCELLED"}
        /\ job.token \in 0 .. Len(job.pages)
        /\ failed \subseteq EngineCalls \cup {"load"} /\ JobFields'
    BY <1>1 DEF QuestionsInv, QuestionsTypeOK, JobFields
  <2> QED
    BY <1>1, <1>3, <2>1, EndsUnanswered DEF AnalyticsFailureReason
<1>4. CASE /\ UNCHANGED outcome
           /\ \/ job.state = "SUCCEEDED" /\ step' = "read"
              \/ job.state = "RUNNING" /\ step' = "judge"
  <2>1. AskedRightly' /\ RunningIsWatched' /\ JobFields'
    BY <1>1, <1>4 DEF QuestionsInv, AskedRightly, RunningIsWatched, JobFields, EngineSteps, ModelSteps
  <2>2. PagesCarry'
    BY <1>1, <1>4 DEF QuestionsInv, PagesCarry, OwnRows, Unread, PageRows
  <2>3. QuestionsTypeOK'
    BY <1>1, <1>4 DEF QuestionsInv, QuestionsTypeOK, PagesCarry, Steps, EngineSteps
  <2>4. RefusalsTellTheTruth' /\ AnswersAreWhole'
    BY <1>1, <1>4 DEF QuestionsInv, RefusalsTellTheTruth, AnswersAreWhole, WholeAnswer
  <2> QED
    BY <2>1, <2>2, <2>3, <2>4 DEF QuestionsInv
<1> QED
  BY <1>2, <1>3, <1>4

LEMMA CallFailsStep ==
    ASSUME QuestionsInv, NEW call \in {"poll", "read"}, CallFails(call)
    PROVE  QuestionsInv'
<1>1. /\ step = call /\ failed' = failed \cup {call}
      /\ UNCHANGED <<built, asked, phase, left, valid, got, job>>
  BY DEF CallFails, EngineUnchanged
<1>2. PICK reason \in EngineRefusals \ {"question-failed"} : End(reason)
  BY DEF CallFails
<1>3. /\ reason \in AnalyticsFailureReason
      /\ reason \notin {"question-timed-out", "unanswerable", "over-bound"}
  BY DEF EngineRefusals, AnalyticsFailureReason
<1>4. /\ job'.state \in {"none", "RUNNING", "SUCCEEDED", "FAILED", "CANCELLED"}
      /\ job'.token \in 0 .. Len(job'.pages)
      /\ failed' \subseteq EngineCalls \cup {"load"} /\ failed' \cap EngineCalls # {} /\ JobFields'
  BY <1>1 DEF QuestionsInv, QuestionsTypeOK, JobFields, EngineCalls
<1> QED
  BY <1>1, <1>2, <1>3, <1>4, EndsUnanswered

LEMMA JudgeStep == QuestionsInv /\ Judge => QuestionsInv'
<1> SUFFICES ASSUME QuestionsInv, Judge PROVE QuestionsInv'
  OBVIOUS
<1>1. /\ step = "judge" /\ step' = IF left = 0 THEN "stop" ELSE "poll"
      /\ UNCHANGED <<built, asked, phase, left, valid, got, outcome, job, failed>>
  BY DEF Judge, EngineUnchanged
<1>2. AskedRightly' /\ RunningIsWatched' /\ JobFields'
  BY <1>1 DEF QuestionsInv, AskedRightly, RunningIsWatched, JobFields, EngineSteps, ModelSteps
<1>3. PagesCarry'
  BY <1>1 DEF QuestionsInv, PagesCarry, OwnRows, Unread, PageRows
<1>4. QuestionsTypeOK'
  BY <1>1 DEF QuestionsInv, QuestionsTypeOK, Steps, EngineSteps
<1>5. RefusalsTellTheTruth' /\ AnswersAreWhole'
  BY <1>1 DEF QuestionsInv, RefusalsTellTheTruth, AnswersAreWhole, WholeAnswer
<1> QED
  BY <1>2, <1>3, <1>4, <1>5 DEF QuestionsInv

LEMMA StopStep == QuestionsInv /\ Stop => QuestionsInv'
<1> SUFFICES ASSUME QuestionsInv, Stop PROVE QuestionsInv'
  OBVIOUS
<1>1. /\ step = "stop" /\ End("question-timed-out")
      /\ UNCHANGED <<built, asked, phase, left, valid, got>>
      /\ \/ /\ UNCHANGED failed
            /\ job' = IF job.state = "RUNNING" THEN [job EXCEPT !.state = "CANCELLED"] ELSE job
         \/ UNCHANGED job /\ failed' = failed \cup {"stop"}
  BY DEF Stop, EngineUnchanged
<1>2. /\ job.state \in {"none", "RUNNING", "SUCCEEDED", "FAILED", "CANCELLED"}
      /\ job.token \in 0 .. Len(job.pages)
      /\ failed \subseteq EngineCalls \cup {"load"} /\ left = 0 /\ JobFields
  BY <1>1 DEF QuestionsInv, QuestionsTypeOK, AskedRightly
<1>3. /\ job'.state \in {"none", "RUNNING", "SUCCEEDED", "FAILED", "CANCELLED"}
      /\ job'.token \in 0 .. Len(job'.pages)
      /\ failed' \subseteq EngineCalls \cup {"load"}
      /\ job'.state = "RUNNING" => failed' \cap EngineCalls # {}
      /\ JobFields'
  BY <1>1, <1>2 DEF JobFields, EngineCalls
<1> QED
  BY <1>1, <1>2, <1>3, EndsUnanswered DEF AnalyticsFailureReason

-----------------------------------------------------------------------------
(* What is made of the rows.                                               *)

\* The watermark is in: the question itself is asked, of a tenant that has one.
LEMMA WatermarkStep ==
    ASSUME QuestionsInv, phase = "watermark", NEW rows, rows = SetToSeq(OwnRows),
           NEW next \in {"submit", "attempt"}, WatermarkAnswered(rows, next),
           UNCHANGED <<built, asked, valid, failed>>,
           \/ step \in EngineSteps /\ next = "submit"
           \/ step \in ModelSteps /\ next = "attempt",
           job'.state \in {"none", "SUCCEEDED", "FAILED", "CANCELLED"},
           job'.token \in 0 .. Len(job'.pages), JobFields'
    PROVE  QuestionsInv'
<1>1. asked.tenant \in Tenants /\ phase \in {"watermark", "rows"} /\ outcome = "none"
  BY Underway DEF EngineSteps, ModelSteps
<1>2. rows = <<>> <=> asked.tenant \notin Exported
  <2>1. /\ IsFiniteSet(OwnRows)
        /\ OwnRows = {} <=> asked.tenant \notin Exported
    BY <1>1, OwnRowsAre
  <2>2. rows \in Seq(OwnRows) /\ Len(rows) = Cardinality(OwnRows)
    BY <2>1, InOneOrder
  <2>3. Len(rows) = 0 <=> rows = <<>>
    BY <2>2, EmptySeq
  <2> QED
    BY <2>1, <2>2, <2>3, FS_EmptySet
<1>3. /\ got' = <<>>
      /\ \/ /\ asked.tenant \notin Exported
            /\ outcome' = "never-exported" /\ step' = "over" /\ UNCHANGED <<phase, left>>
         \/ /\ asked.tenant \in Exported
            /\ phase' = "rows" /\ left' = Timeout /\ step' = next /\ UNCHANGED outcome
  BY <1>2 DEF WatermarkAnswered, End
<1>4. QuestionsTypeOK'
  <2>1. step' \in Steps /\ step' # "read" /\ outcome' \in Outcomes
    BY <1>1, <1>3 DEF Steps, EngineSteps, ModelSteps, Outcomes
  <2>2. left' \in 0 .. Timeout /\ phase' \in {"watermark", "rows"}
    BY <1>1, <1>3, QuestionsAssumption DEF QuestionsInv, QuestionsTypeOK
  <2>3. step # "over"
    BY DEF EngineSteps, ModelSteps
  <2> QED
    BY <1>1, <1>3, <2>1, <2>2, <2>3 DEF QuestionsInv, QuestionsTypeOK
<1>5. AskedRightly' /\ RunningIsWatched' /\ JobFields'
  BY <1>3 DEF QuestionsInv, AskedRightly, RunningIsWatched, JobFields, EngineSteps, ModelSteps
<1>6. PagesCarry'
  BY <1>3 DEF PagesCarry
<1>7. RefusalsTellTheTruth' /\ AnswersAreWhole'
  BY <1>1, <1>3 DEF RefusalsTellTheTruth, AnswersAreWhole, WholeAnswer
<1> QED
  BY <1>4, <1>5, <1>6, <1>7 DEF QuestionsInv

\* The rows are in, all of them.
LEMMA AnsweredStep ==
    ASSUME QuestionsInv, step # "over", phase = "rows", got' = SetToSeq(OwnRows), End("answered"),
           UNCHANGED <<built, asked, phase, left, valid, failed>>,
           job'.state \in {"none", "SUCCEEDED", "FAILED", "CANCELLED"},
           job'.token \in 0 .. Len(job'.pages), JobFields'
    PROVE  QuestionsInv'
<1>1. asked.tenant \in Tenants /\ Holds[asked.tenant] \in Nat /\ asked.tenant \in Exported
  BY Underway, QuestionsAssumption DEF QuestionsInv, AskedRightly
<1>2. /\ IsFiniteSet(OwnRows) /\ OwnRows \subseteq Rows
      /\ Cardinality(OwnRows) = Holds[asked.tenant]
  BY <1>1, OwnRowsAre
<1>3. /\ got' \in Seq(OwnRows) /\ Len(got') = Holds[asked.tenant]
      /\ {got'[n] : n \in 1 .. Holds[asked.tenant]} = OwnRows
  BY <1>2, InOneOrder
<1>4. got' \in Seq(Rows) /\ DOMAIN got' = 1 .. Holds[asked.tenant]
      /\ \A n \in DOMAIN got' : got'[n] \in Rows
  BY <1>2, <1>3, SeqMonotonic, LenProperties, ElementOfSeq
<1>5. step' = "over" /\ outcome' = "answered"
  BY DEF End
<1>6. QuestionsTypeOK'
  BY <1>4, <1>5 DEF QuestionsInv, QuestionsTypeOK, Steps, Outcomes
<1>7. AskedRightly' /\ RunningIsWatched' /\ JobFields'
  BY <1>5 DEF QuestionsInv, AskedRightly, RunningIsWatched, JobFields, EngineSteps, ModelSteps
<1>8. PagesCarry'
  BY <1>4, <1>5 DEF PagesCarry
<1>9. AnswersAreWhole'
  <2>1. OwnRows = {<<asked.tenant, n, asked.tenant>> : n \in 1 .. Holds[asked.tenant]}
    BY DEF OwnRows
  <2>2. "load" \notin failed'
    BY DEF QuestionsInv, AskedRightly
  <2> QED
    BY <1>1, <1>3, <1>4, <1>5, <2>1, <2>2 DEF AnswersAreWhole, WholeAnswer
<1>10. RefusalsTellTheTruth'
  BY <1>5 DEF RefusalsTellTheTruth
<1> QED
  BY <1>6, <1>7, <1>8, <1>9, <1>10 DEF QuestionsInv

\* A page is read: what is left of the answer is on the next one, or it is whole.
LEMMA PageOfStep == QuestionsInv /\ PageOf => QuestionsInv'
<1> SUFFICES ASSUME QuestionsInv, PageOf PROVE QuestionsInv'
  OBVIOUS
<1> DEFINE rows == got \o PageRows(job.token + 1)
<1>1. /\ step = "read" /\ step # "over" /\ step \in EngineSteps
      /\ job' = [job EXCEPT !.token = @ + 1]
      /\ UNCHANGED <<built, asked, valid, failed>>
  BY DEF PageOf, EngineSteps
<1>2. /\ job.state = "SUCCEEDED"
      /\ Len(job.pages) \in {1, 2} /\ job.token \in {0, 1} /\ job.token < Len(job.pages)
      /\ \A n \in 1 .. Len(job.pages) : PageRows(n) \in Seq(Rows)
      /\ got \in Seq(Rows) /\ got \o Unread = SetToSeq(OwnRows)
  BY <1>1 DEF QuestionsInv, QuestionsTypeOK, PagesCarry
<1>3. \/ job.token = 0 /\ Len(job.pages) = 1
      \/ job.token = 0 /\ Len(job.pages) = 2
      \/ job.token = 1 /\ Len(job.pages) = 2
  <2> DEFINE n == Len(job.pages)
             k == job.token
  <2>1. n \in {1, 2} /\ k \in {0, 1} /\ k < n
    BY <1>2
  <2> HIDE DEF n, k
  <2>2. (k = 0 /\ n = 1) \/ (k = 0 /\ n = 2) \/ (k = 1 /\ n = 2)
    BY <2>1
  <2> QED
    BY <2>2 DEF n, k
<1>4. /\ job'.state = "SUCCEEDED" /\ job'.token = job.token + 1 /\ job'.pages = job.pages
      /\ job'.token \in 0 .. Len(job'.pages) /\ JobFields'
  BY <1>1, <1>2 DEF QuestionsInv, JobFields
<1>5. \/ /\ job.token + 1 < Len(job.pages)
         /\ got' = rows /\ UNCHANGED <<phase, left, step, outcome>>
      \/ /\ job.token + 1 = Len(job.pages)
         /\ \/ phase = "watermark" /\ WatermarkAnswered(rows, "submit")
            \/ phase # "watermark" /\ got' = rows /\ End("answered") /\ UNCHANGED <<phase, left>>
            \/ decodeFails /\ UNCHANGED <<got, phase, left>>
  <2>1. rows = got \o (IF job.token = 0 THEN withoutHeaderRow(job.pages[job.token + 1])
                       ELSE job.pages[job.token + 1])
    <3>1. CASE job.token = 0
      BY <3>1 DEF PageRows
    <3>2. CASE job.token = 1
      BY <3>2 DEF PageRows
    <3> QED
      BY <1>3, <3>1, <3>2
  <2> HIDE DEF rows
  <2>2. CASE job.token + 1 < Len(job.pages)
    BY <2>1, <2>2 DEF PageOf
  <2>3. CASE ~(job.token + 1 < Len(job.pages))
    <3>1. job.token + 1 = Len(job.pages)
      BY <1>2, <2>3
    <3> QED
      BY <2>1, <2>3, <3>1 DEF PageOf
  <2> QED
    BY <2>2, <2>3
<1>6. CASE /\ job.token + 1 < Len(job.pages)
           /\ got' = rows /\ UNCHANGED <<phase, left, step, outcome>>
  <2>1. job.token = 0 /\ Len(job.pages) = 2
    <3>1. job.token + 1 < Len(job.pages)
      BY <1>6
    <3>2. CASE job.token = 0 /\ Len(job.pages) = 1
      BY <3>1, <3>2
    <3>3. CASE job.token = 1 /\ Len(job.pages) = 2
      BY <3>1, <3>3
    <3> QED
      BY <1>3, <3>2, <3>3
  <2>2. PageRows(1) \in Seq(Rows) /\ PageRows(2) \in Seq(Rows)
    BY <1>2, <2>1
  <2>3. got' = got \o PageRows(1) /\ got' \in Seq(Rows) /\ got' \o PageRows(2) = SetToSeq(OwnRows)
    <3>1. Unread = PageRows(1) \o PageRows(2)
      BY <2>1 DEF Unread
    <3>2. got' = got \o PageRows(1)
      BY <1>6, <2>1
    <3>3. got \o PageRows(1) \in Seq(Rows)
      BY <1>2, <2>2, ConcatProperties
    <3>4. (got \o PageRows(1)) \o PageRows(2) = got \o (PageRows(1) \o PageRows(2))
      BY <1>2, <2>2, ConcatAssociative
    <3>5. got \o Unread = SetToSeq(OwnRows)
      BY <1>2
    <3> QED
      BY <3>1, <3>2, <3>3, <3>4, <3>5
  <2>4. /\ \A n \in 1 .. 2 : PageRows(n)' = PageRows(n)
        /\ Unread' = PageRows(2) /\ OwnRows' = OwnRows
    BY <1>1, <1>4, <1>6, <2>1 DEF PageRows, Unread, OwnRows
  <2>5. PagesCarry'
    <3>1. \A n \in 1 .. Len(job'.pages) : PageRows(n)' \in Seq(Rows)
      BY <1>2, <1>4, <2>1, <2>4
    <3>2. job'.token = 1 /\ Len(job'.pages) = 2 /\ step' = "read"
      BY <1>1, <1>4, <1>6, <2>1
    <3>3. got' \o Unread' = SetToSeq(OwnRows)'
      BY <2>3, <2>4
    <3> QED
      BY <2>3, <3>1, <3>2, <3>3 DEF PagesCarry
  <2>6. QuestionsTypeOK'
    <3>1. \A n \in DOMAIN got' : got'[n] \in Rows
      BY <2>3, ElementOfSeq, LenProperties
    <3> QED
      BY <1>1, <1>4, <1>6, <2>1, <3>1 DEF QuestionsInv, QuestionsTypeOK
  <2>7. AskedRightly' /\ RunningIsWatched' /\ JobFields'
    BY <1>1, <1>4, <1>6 DEF QuestionsInv, AskedRightly, RunningIsWatched
  <2>8. RefusalsTellTheTruth' /\ AnswersAreWhole'
    <3>1. outcome' = "none"
      BY <1>1, <1>6, Underway
    <3> QED
      BY <3>1 DEF RefusalsTellTheTruth, AnswersAreWhole, WholeAnswer
  <2> QED
    BY <2>5, <2>6, <2>7, <2>8 DEF QuestionsInv
<1>7. CASE /\ job.token + 1 = Len(job.pages)
           /\ \/ phase = "watermark" /\ WatermarkAnswered(rows, "submit")
              \/ phase # "watermark" /\ got' = rows /\ End("answered") /\ UNCHANGED <<phase, left>>
              \/ decodeFails /\ UNCHANGED <<got, phase, left>>
  <2>1. rows = SetToSeq(OwnRows)
    BY <1>2, <1>7 DEF Unread
  <2> HIDE DEF rows
  <2>2. CASE phase = "watermark" /\ WatermarkAnswered(rows, "submit")
    BY <1>1, <1>4, <2>1, <2>2, WatermarkStep
  <2>3. CASE phase # "watermark" /\ got' = rows /\ End("answered") /\ UNCHANGED <<phase, left>>
    <3>1. phase = "rows"
      BY <2>3, Underway
    <3> QED
      BY <1>1, <1>4, <2>1, <2>3, <3>1, AnsweredStep
  <2>4. CASE decodeFails /\ UNCHANGED <<got, phase, left>>
    <3>1. End("undecodable") /\ failed' \subseteq EngineCalls \cup {"load"}
      BY <1>1, <2>4 DEF decodeFails, QuestionsInv, QuestionsTypeOK
    <3> QED
      BY <1>1, <1>4, <2>4, <3>1, EndsUnanswered
  <2> QED
    BY <1>7, <2>2, <2>3, <2>4
<1> QED
  BY <1>5, <1>6, <1>7

LEMMA EngineStep == QuestionsInv /\ EngineNext => QuestionsInv'
  BY SubmittedStep, SubmitFailsStep, StateOfStep, CallFailsStep, JudgeStep, StopStep, PageOfStep
  DEF EngineNext

-----------------------------------------------------------------------------
(* The semantic layer.                                                     *)

\* Nothing of the engine's is running meanwhile.
LEMMA AskingTheModel ==
    ASSUME QuestionsInv, step \in ModelSteps, UNCHANGED <<job, failed>>
    PROVE  /\ job'.state \in {"none", "SUCCEEDED", "FAILED", "CANCELLED"}
           /\ job'.token \in 0 .. Len(job'.pages) /\ JobFields'
           /\ failed' \subseteq EngineCalls \cup {"load"}
           /\ step # "over"
<1>1. job.state # "RUNNING" /\ step # "over"
  BY DEF QuestionsInv, RunningIsWatched, ModelSteps
<1> QED
  BY <1>1 DEF QuestionsInv, QuestionsTypeOK, JobFields

LEMMA GoesOn ==
    ASSUME QuestionsInv, step \in ModelSteps, step' \in ModelSteps,
           UNCHANGED <<built, asked, valid, job, failed, phase, left, got, outcome>>
    PROVE  QuestionsInv'
<1>1. outcome' = "none" /\ step # "over" /\ step' \notin EngineSteps \cup {"over"}
  BY Underway DEF ModelSteps, EngineSteps
<1>2. job.state # "RUNNING"
  BY AskingTheModel
<1>3. QuestionsTypeOK'
  BY <1>1 DEF QuestionsInv, QuestionsTypeOK, Steps, EngineSteps
<1>4. AskedRightly' /\ RunningIsWatched' /\ JobFields'
  BY <1>1, <1>2 DEF QuestionsInv, AskedRightly, RunningIsWatched, JobFields, EngineSteps
<1>5. PagesCarry'
  BY <1>1 DEF QuestionsInv, PagesCarry, EngineSteps
<1>6. RefusalsTellTheTruth' /\ AnswersAreWhole'
  BY <1>1 DEF RefusalsTellTheTruth, AnswersAreWhole, WholeAnswer
<1> QED
  BY <1>3, <1>4, <1>5, <1>6 DEF QuestionsInv

LEMMA AskingStep ==
    QuestionsInv /\ (Attempt \/ Abort \/ Objected \/ ContinueWait \/ Waited) => QuestionsInv'
<1> SUFFICES ASSUME QuestionsInv, Attempt \/ Abort \/ Objected \/ ContinueWait \/ Waited
             PROVE  QuestionsInv'
  OBVIOUS
<1>1. /\ step \in ModelSteps
      /\ UNCHANGED <<built, asked, valid, job, failed, phase, left, got>>
  BY DEF Attempt, Abort, Objected, ContinueWait, Waited, ModelUnchanged, ModelSteps
<1>2. \/ UNCHANGED outcome /\ step' \in ModelSteps
      \/ \E reason \in AnalyticsFailureReason \cup {"unanswerable"} :
            /\ End(reason)
            /\ reason = "question-timed-out" => left = 0
            /\ reason = "unanswerable" => phase = "rows"
  <2>1. CASE Attempt
    BY <2>1 DEF Attempt, ModelSteps, AnalyticsFailureReason
  <2>2. CASE Abort
    BY <2>2 DEF Abort, AnalyticsFailureReason
  <2>3. CASE Objected
    <3>1. askingAs("unanswerable") = IF phase = "watermark" THEN "model-rejected" ELSE "unanswerable"
      BY DEF askingAs
    <3>2. phase \in {"watermark", "rows"}
      BY Underway
    <3> QED
      BY <2>3, <3>1, <3>2 DEF Objected, AnalyticsFailureReason
  <2>4. CASE ContinueWait \/ Waited
    BY <2>4 DEF ContinueWait, Waited, ModelSteps
  <2> QED
    BY <2>1, <2>2, <2>3, <2>4
<1>3. CASE UNCHANGED outcome /\ step' \in ModelSteps
  BY <1>1, <1>3, GoesOn
<1>4. ASSUME NEW reason \in AnalyticsFailureReason \cup {"unanswerable"}, End(reason),
             reason = "question-timed-out" => left = 0, reason = "unanswerable" => phase = "rows"
      PROVE  QuestionsInv'
  <2>1. reason # "over-bound"
    BY DEF AnalyticsFailureReason
  <2>2. /\ job'.state \in {"none", "SUCCEEDED", "FAILED", "CANCELLED"}
        /\ job'.token \in 0 .. Len(job'.pages) /\ JobFields'
        /\ failed' \subseteq EngineCalls \cup {"load"} /\ step # "over"
    BY <1>1, AskingTheModel
  <2> QED
    BY <1>1, <1>4, <2>1, <2>2, EndsUnanswered
<1> QED
  BY <1>2, <1>3, <1>4

LEMMA ModelAnswersStep == QuestionsInv /\ ModelAnswers => QuestionsInv'
<1> SUFFICES ASSUME QuestionsInv, ModelAnswers PROVE QuestionsInv'
  OBVIOUS
<1> DEFINE all == SetToSeq(OwnRows)
           size == Cardinality(OwnRows)
           rows == SubSeq(ModelRows, 1, Min({Len(ModelRows), Load.limit}))
<1>1. /\ step \in ModelSteps
      /\ UNCHANGED <<built, asked, valid, job, failed>>
  BY DEF ModelAnswers, ModelUnchanged, ModelSteps
<1>2. /\ job'.state \in {"none", "SUCCEEDED", "FAILED", "CANCELLED"}
      /\ job'.token \in 0 .. Len(job'.pages) /\ JobFields'
      /\ failed' \subseteq EngineCalls \cup {"load"} /\ step # "over"
  BY <1>1, AskingTheModel
<1>3. /\ ModelRows = all /\ phase \in {"watermark", "rows"}
      /\ IsFiniteSet(OwnRows)
      /\ phase = "watermark" => size <= 1
      /\ phase = "rows" => size = Holds[asked.tenant]
  BY <1>1, Underway, OwnRowsAre
<1>4. all \in Seq(OwnRows) /\ Len(all) = size /\ size \in Nat
  BY <1>3, InOneOrder
<1>5. \/ /\ phase = "watermark"
         /\ \/ WatermarkAnswered(rows, "attempt")
            \/ End("model-unreadable") /\ UNCHANGED <<phase, left, got>>
      \/ /\ phase = "rows"
         /\ refuseIfOverBound(rows) /\ UNCHANGED <<phase, left>>
  BY <1>3 DEF ModelAnswers, Taken
<1>6. Load.limit = IF phase = "watermark" THEN 1 ELSE MAX_ANSWER_ROWS + 1
  BY DEF Load, watermarkLoad, loadFor
<1>7. MAX_ANSWER_ROWS \in Nat /\ Load.limit \in Nat
  BY <1>6, QuestionsAssumption
<1>8. /\ size <= Load.limit => rows = all
      /\ size > Load.limit => Len(rows) = Load.limit
  <2>1. rows = SubSeq(all, 1, IF size <= Load.limit THEN size ELSE Load.limit)
    BY <1>3, <1>4, <1>7, MinOfTwo
  <2> HIDE DEF all, size, rows
  <2>2. CASE size <= Load.limit
    <3>1. rows = SubSeq(all, 1, Len(all))
      BY <1>4, <2>1, <2>2
    <3>2. SubSeq(all, 1, Len(all)) = all
      BY <1>4, SubSeqFull
    <3>3. ~(size > Load.limit)
      BY <1>4, <1>7, <2>2
    <3> QED
      BY <3>1, <3>2, <3>3
  <2>3. CASE size > Load.limit
    <3>1. rows = SubSeq(all, 1, Load.limit) /\ 1 \in 1 .. Len(all) + 1 /\ Load.limit \in 0 .. Len(all)
      BY <1>4, <1>7, <2>1, <2>3
    <3>2. Len(SubSeq(all, 1, Load.limit)) = Load.limit
      BY <1>4, <1>7, <3>1, SubSeqProperties
    <3> QED
      BY <2>3, <1>4, <1>7, <3>1, <3>2
  <2> QED
    BY <1>4, <1>7, <2>2, <2>3
<1> HIDE DEF rows, size
<1>9. CASE phase = "watermark" /\ WatermarkAnswered(rows, "attempt")
  <2>1. rows = all
    BY <1>3, <1>4, <1>6, <1>8, <1>9
  <2> QED
    BY <1>1, <1>2, <1>9, <2>1, WatermarkStep
<1>10. CASE phase = "watermark" /\ End("model-unreadable") /\ UNCHANGED <<phase, left, got>>
  BY <1>1, <1>2, <1>10, EndsUnanswered DEF AnalyticsFailureReason
<1>11. CASE phase = "rows" /\ refuseIfOverBound(rows) /\ UNCHANGED <<phase, left>>
  <2>1. CASE Len(rows) > MAX_ANSWER_ROWS
    <3>1. End("over-bound") /\ UNCHANGED got
      BY <1>11, <2>1 DEF refuseIfOverBound
    <3>2. Holds[asked.tenant] > MAX_ANSWER_ROWS
      BY <1>3, <1>4, <1>6, <1>7, <1>8, <1>11, <2>1
    <3> QED
      BY <1>1, <1>2, <1>11, <3>1, <3>2, EndsUnanswered
  <2>2. CASE ~(Len(rows) > MAX_ANSWER_ROWS)
    <3>1. got' = rows /\ End("answered")
      BY <1>11, <2>2 DEF refuseIfOverBound
    <3>2. rows = all
      BY <1>4, <1>6, <1>7, <1>8, <1>11, <2>2
    <3> QED
      BY <1>1, <1>2, <1>11, <3>1, <3>2, AnsweredStep
  <2> QED
    BY <2>1, <2>2
<1> QED
  BY <1>5, <1>9, <1>10, <1>11

LEMMA AnswersWithoutDataStep == QuestionsInv /\ AnswersWithoutData => QuestionsInv'
<1> SUFFICES ASSUME QuestionsInv, AnswersWithoutData PROVE QuestionsInv'
  OBVIOUS
<1>1. /\ step = "asked" /\ step # "over" /\ asked.route = "model"
      /\ failed' = failed \cup {"load"}
      /\ UNCHANGED <<built, asked, valid, job>>
  BY DEF AnswersWithoutData, QuestionsInv, AskedRightly, ModelSteps
<1>2. job.state # "RUNNING" /\ phase \in {"watermark", "rows"}
  BY <1>1, Underway DEF QuestionsInv, RunningIsWatched
<1>3. /\ got' = <<>> /\ step' = "over" /\ UNCHANGED <<phase, left>>
      /\ \/ phase = "watermark" /\ outcome' = "never-exported"
         \/ phase = "rows" /\ outcome' = "answered"
  <2>1. CASE phase = "watermark"
    BY <2>1 DEF AnswersWithoutData, Taken, WatermarkAnswered, End
  <2>2. CASE phase = "rows"
    <3>1. ~(Len(<<>>) > MAX_ANSWER_ROWS)
      BY QuestionsAssumption
    <3> QED
      BY <2>2, <3>1 DEF AnswersWithoutData, Taken, refuseIfOverBound, End
  <2> QED
    BY <1>2, <2>1, <2>2
<1>4. QuestionsTypeOK'
  BY <1>1, <1>3 DEF QuestionsInv, QuestionsTypeOK, Steps, Outcomes
<1>5. AskedRightly' /\ RunningIsWatched' /\ JobFields'
  BY <1>1, <1>2, <1>3 DEF QuestionsInv, AskedRightly, RunningIsWatched, JobFields, EngineSteps,
     ModelSteps
<1>6. PagesCarry'
  BY <1>3 DEF PagesCarry
<1>7. AnswersAreWhole'
  BY <1>1, <1>3 DEF AnswersAreWhole, QuestionsInv, AskedRightly
<1>8. RefusalsTellTheTruth'
  BY <1>1, <1>3 DEF RefusalsTellTheTruth
<1> QED
  BY <1>4, <1>5, <1>6, <1>7, <1>8 DEF QuestionsInv

-----------------------------------------------------------------------------
(* The theorems.                                                           *)

LEMMA QuestionsStep == QuestionsInv /\ [Next]_vars => QuestionsInv'
<1> SUFFICES ASSUME QuestionsInv, [Next]_vars PROVE QuestionsInv'
  OBVIOUS
<1>1. CASE \E kind \in Callers, q \in Questions : Ask(kind, q)
  BY <1>1, AskStep
<1>2. CASE Tick
  BY <1>2, TickStep
<1>3. CASE EngineEnds
  BY <1>3, EngineEndsStep
<1>4. CASE EngineNext
  BY <1>4, EngineStep
<1>5. CASE ModelNext
  BY <1>5, AskingStep, ModelAnswersStep, AnswersWithoutDataStep DEF ModelNext
<1>6. CASE UNCHANGED vars
  <2>1. QuestionsTypeOK' /\ AskedRightly' /\ RunningIsWatched' /\ JobFields'
    BY <1>6 DEF vars, QuestionsInv, QuestionsTypeOK, AskedRightly, RunningIsWatched, JobFields
  <2>2. PagesCarry' /\ RefusalsTellTheTruth' /\ AnswersAreWhole'
    BY <1>6 DEF vars, QuestionsInv, PagesCarry, OwnRows, Unread, PageRows, RefusalsTellTheTruth,
       AnswersAreWhole, WholeAnswer
  <2> QED
    BY <2>1, <2>2 DEF QuestionsInv
<1> QED
  BY <1>1, <1>2, <1>3, <1>4, <1>5, <1>6 DEF Next

LEMMA QuestionsInvariant == Spec => []QuestionsInv
  BY QuestionsInit, QuestionsStep, PTL DEF Spec

\* What is kept of a question has its type: its deadline and its context never below
\* zero, the next page there when it is read, its adapter built before it is asked.
THEOREM QuestionsTypeCorrect == Spec => []QuestionsTypeOK
<1>1. QuestionsInv => QuestionsTypeOK
  BY DEF QuestionsInv
<1> QED
  BY <1>1, QuestionsInvariant, PTL

\* However the engine cuts its pages, whether or not it repeats the header, and
\* whatever was composed of the layer: who is answered is answered with its own rows,
\* each of them once. Only a body of the layer's without data makes an answer that is
\* not whole, and that one is empty.
THEOREM AnswersWhole == Spec => []AnswersAreWhole
<1>1. QuestionsInv => AnswersAreWhole
  BY DEF QuestionsInv
<1> QED
  BY <1>1, QuestionsInvariant, PTL

\* A statement given up at the deadline is stopped: only a call that failed leaves one
\* running.
THEOREM NothingLeftRunning == Spec => []NothingIsLeftRunning
<1>1. QuestionsInv => NothingIsLeftRunning
  BY DEF QuestionsInv, RunningIsWatched, NothingIsLeftRunning
<1> QED
  BY <1>1, QuestionsInvariant, PTL

\* Timed out, unanswerable and over the bound are each said only when it is so; never
\* exported too, but of a mark that came in a body of the layer's without data.
THEOREM RefusalsTrue == Spec => []RefusalsTellTheTruth
<1>1. QuestionsInv => RefusalsTellTheTruth
  BY DEF QuestionsInv
<1> QED
  BY <1>1, QuestionsInvariant, PTL

=============================================================================
