------------------------------ MODULE Questions ------------------------------
(***************************************************************************)
(* One analytical question after another, from the request to its answer   *)
(* or refusal, by either route: a statement run by the query engine, which *)
(* is submitted, polled and read page by page (QueryRunner), or a question *)
(* composed by the caller and asked of the semantic layer, which may       *)
(* answer "Continue wait" (CubeClient). Either asks twice: how far the     *)
(* tenant was carried, then the question itself.                           *)
(*                                                                         *)
(* Time is what is left: the ticks to the deadline of the exchange in      *)
(* progress, and those the signed context is still good for.               *)
(***************************************************************************)
EXTENDS Integers, SequencesExt

CONSTANTS
    Tenants,
    Exported,         \* those the export has carried: they have a mark
    Holds,            \* how many rows of movements each tenant has in the lake
    Compositions,     \* what callers compose: <<measures, groupings, by>>
    Timeout,          \* how long one exchange may take
    ContextLifetime,  \* how long a signed context is good for
    MAX_ANSWER_ROWS   \* rows one modelled answer may carry

ASSUME QuestionsAssumption ==
    /\ Tenants # {} /\ Exported \subseteq Tenants
    /\ Holds \in [Tenants -> Nat]
    /\ Timeout \in Nat \ {0}
    /\ ContextLifetime \in Nat \ {0}
    /\ MAX_ANSWER_ROWS \in Nat \ {0}

VARIABLES
    built,     \* the adapters built so far, each at the first question it can be
    asked,     \* the question in progress, or the last one
    phase,     \* which of its two exchanges: the watermark, or the rows
    step,      \* where the exchange is
    left,      \* ticks to its deadline
    valid,     \* ticks the signed context is still good for
    job,       \* what the engine makes of the statement, and its pages
    got,       \* rows read so far, and at the end those answered with
    failed,    \* the calls that failed, or brought nothing that can be read (history)
    outcome    \* what the caller is told

vars == <<built, asked, phase, step, left, valid, job, got, failed, outcome>>

Routes == {"stock", "history", "model"}
Callers == {"tenant-member", "machine", "platform-operator"}
EngineSteps == {"submit", "poll", "judge", "stop", "read"}
EngineCalls == {"submit", "poll", "read", "stop"}
ModelSteps == {"attempt", "asked", "waiting"}
Steps == EngineSteps \cup ModelSteps \cup {"over"}

AnalyticsFailureReason ==
    {"not-configured", "store-unreachable", "store-rejected", "model-unreachable", "model-rejected",
     "model-unreadable", "question-timed-out", "question-failed"}
Outcomes == AnalyticsFailureReason \cup
    {"none", "answered", "never-exported", "not-found", "invalid", "over-bound",
     "unanswerable", "undecodable"}

-----------------------------------------------------------------------------
(* The vocabulary, and what may be composed of it.                         *)

MEASURES == {"net_quantity", "movement_count", "on_hand_quantity"}
GROUPINGS == {"recorded_day", "occurred_day", "kind", "product", "location"}
READ_BY == {"recorded", "occurred"}

Cumulative == {"on_hand_quantity"}
Days == {"recorded_day", "occurred_day"}

\* A measure that counts earlier movements cannot be grouped by both days.
whyUnaskable(measures, groupings) ==
    measures \cap Cumulative # {} /\ Days \subseteq groupings

\* Each name must be offered, at least one measure named, and the combination be
\* one the layer can compose.
questionFrom(measures, groupings, by) ==
    /\ measures # {} /\ measures \subseteq MEASURES
    /\ groupings \subseteq GROUPINGS
    /\ by \in READ_BY
    /\ ~whyUnaskable(measures, groupings)

\* The model's members, as <<cube, member>>.
MEASURE_MEMBERS == [m \in MEASURES |-> <<"movements", m>>]
GROUPING_MEMBERS ==
    [recorded_day |-> {<<"movements", "recorded_day">>},
     occurred_day |-> {<<"movements", "occurred_day">>},
     kind |-> {<<"movements", "kind">>},
     product |-> {<<"products", "code">>, <<"products", "name">>},
     location |-> {<<"locations", "code">>, <<"locations", "name">>}]
READ_BY_MEMBER ==
    [recorded |-> <<"movements", "recorded_day">>,
     occurred |-> <<"movements", "occurred_day">>]
WATERMARK_MEMBER == <<"watermarks", "complete_through">>

\* The question as the semantic layer's API takes it. The period is carried on the
\* moment it is read by, grouped by or not, and one row more than may be answered
\* is asked for.
loadFor(q) ==
    [measures |-> {MEASURE_MEMBERS[m] : m \in q.measures},
     dimensions |-> UNION {GROUPING_MEMBERS[g] : g \in q.groupings \ Days},
     timeDimensions |-> {READ_BY_MEMBER[q.by]}
                          \cup UNION {GROUPING_MEMBERS[g] : g \in q.groupings \cap Days},
     limit |-> MAX_ANSWER_ROWS + 1]

watermarkLoad == [measures |-> {WATERMARK_MEMBER}, dimensions |-> {},
                  timeDimensions |-> {}, limit |-> 1]

\* What is asked of the semantic layer in this exchange.
Load == IF phase = "watermark" THEN watermarkLoad ELSE loadFor(asked)

-----------------------------------------------------------------------------
(* What the engine and the layer read. Codes are the tenant's own and two   *)
(* tenants use the same ones, so a join on the code alone joins both.       *)

cubesNamedIn(query) ==
    {m[1] : m \in query.measures \cup query.dimensions \cup query.timeDimensions}

\* The cubes confined to the tenant the context carries: each one named.
queryRewrite(query) == cubesNamedIn(query)

tablesOf(route) == IF route = "stock" THEN {"movements", "products"} ELSE {"movements"}

\* Slip: the join is left to carry the tenant across.
tenantIsFirst(route) == {"movements"}

\* The tables a statement constrains to the tenant.
tenantIs(route) == tablesOf(route)

\* Whose rows of a table are read.
Owners(table, confined) == IF table \in confined THEN {asked.tenant} ELSE Tenants

\* The rows, each with the owners of the movement and of the label in it, and the
\* movement's number. The layer's joins compare the tenant as well as the code, the
\* statement's do not.
RowsRead(tables, confined, joinsTenant) ==
    UNION {{t} \X (1 .. Holds[t]) \X
               {label \in IF "products" \in tables THEN Owners("products", confined) ELSE {t} :
                   joinsTenant => label = t} :
           t \in Owners("movements", confined)}

\* A mark is one row.
MarksRead(confined) == {<<t, 1, t>> : t \in Exported \cap Owners("watermarks", confined)}

StatementRows ==
    SetToSeq(IF phase = "watermark" THEN MarksRead({"watermarks"})
             ELSE RowsRead(tablesOf(asked.route), tenantIs(asked.route), FALSE))

ModelRows ==
    SetToSeq(IF phase = "watermark" THEN MarksRead(queryRewrite(Load))
             ELSE RowsRead(cubesNamedIn(Load), queryRewrite(Load), TRUE))

\* The column names, which are no row: rows are numbered from one.
Header == <<"header", 0, "header">>

\* Slip: the header is taken for a row.
withHeaderRow(page) == page

\* The first row of the first page is dropped when it is the header.
withoutHeaderRow(page) ==
    IF page # <<>> /\ Head(page) = Header THEN Tail(page) ELSE page

-----------------------------------------------------------------------------
(* Asking.                                                                 *)

NoJob == [state |-> "none", pages |-> <<>>, token |-> 0]
NoQuestion == [route |-> "history", tenant |-> CHOOSE t \in Tenants : TRUE,
               measures |-> {}, groupings |-> {}, by |-> "recorded"]

Init ==
    /\ built = {}
    /\ asked = NoQuestion
    /\ phase = "watermark"
    /\ step = "over"
    /\ left = 0
    /\ valid = 0
    /\ job = NoJob
    /\ got = <<>>
    /\ failed = {}
    /\ outcome = "none"

\* The question ends, and the caller is told how.
End(reason) ==
    /\ outcome' = reason
    /\ step' = "over"

adapterOf(route) == IF route = "model" THEN "model" ELSE "engine"

\* Only a member of a tenant has one to ask for.
tenantOf(kind, q) == IF kind = "tenant-member" THEN {q.tenant} ELSE {}

\* A context is signed now.
contextFor == valid' = ContextLifetime

\* What the engine answers may not be what the question declared.
decodeFails == End("undecodable")

\* A composition is refused before anything else, then anybody but a member of a
\* tenant, then a question whose adapter is not configured. A period is abstracted
\* to one that is answerable.
Refused(kind, q, ready) ==
    CASE q.route = "model" /\ ~questionFrom(q.measures, q.groupings, q.by) -> "invalid"
      [] tenantOf(kind, q) = {} -> "not-found"
      [] adapterOf(q.route) \notin ready -> "not-configured"
      [] OTHER -> "none"

\* The adapter is built once and kept; a failure to build it is not remembered. The
\* deadline is set and the watermark asked for first. The layer is asked with a
\* context signed now, for both of its exchanges.
Ask(kind, q) ==
    /\ step = "over"
    /\ asked' = q
    /\ phase' = "watermark"
    /\ job' = NoJob
    /\ got' = <<>>
    /\ failed' = {}
    /\ \E ready \in {built, built \cup {adapterOf(q.route)}} :
        /\ outcome' = Refused(kind, q, ready)
        /\ built' = IF outcome' \in {"invalid", "not-found"} THEN built ELSE ready
    /\ IF outcome' # "none" THEN step' = "over" /\ left' = 0 /\ valid' = 0
       ELSE /\ left' = Timeout
            /\ IF q.route = "model" THEN step' = "attempt" /\ contextFor
               ELSE step' = "submit" /\ valid' = 0

Questions ==
    [route : {"stock", "history"}, tenant : Tenants, measures : {{}}, groupings : {{}},
     by : {"recorded"}]
    \cup {[route |-> "model", tenant |-> t, measures |-> c[1], groupings |-> c[2], by |-> c[3]] :
        t \in Tenants, c \in Compositions}

\* The time that is left runs out.
Tick ==
    /\ step # "over"
    /\ left > 0 \/ valid > 0
    /\ left' = IF left > 0 THEN left - 1 ELSE 0
    /\ valid' = IF valid > 0 THEN valid - 1 ELSE 0
    /\ UNCHANGED <<built, asked, phase, step, job, got, failed, outcome>>

\* The watermark is in: no mark means never exported and the question itself is
\* not asked; otherwise it is, with a deadline of its own.
WatermarkAnswered(rows, next) ==
    /\ IF rows = <<>> THEN End("never-exported") /\ UNCHANGED <<phase, left>>
       ELSE /\ phase' = "rows"
            /\ left' = Timeout
            /\ step' = next
            /\ UNCHANGED outcome
    /\ got' = <<>>

-----------------------------------------------------------------------------
(* The query engine.                                                       *)

\* How a refused call of the engine is classified: by the status it came with, or
\* as a question accepted and not named.
EngineRefusals == {"store-rejected", "store-unreachable", "question-failed"}

EngineUnchanged == UNCHANGED <<built, asked, phase, left, valid, got>>

Submitted ==
    /\ step = "submit"
    /\ job' = [NoJob EXCEPT !.state = "RUNNING"]
    /\ failed' = {}
    /\ step' = "poll"
    /\ EngineUnchanged /\ UNCHANGED outcome

\* The engine may have taken the statement although its answer did not arrive.
SubmitFails ==
    /\ step = "submit"
    /\ job' \in {NoJob, [NoJob EXCEPT !.state = "RUNNING"]}
    /\ failed' = {"submit"}
    /\ \E reason \in EngineRefusals : End(reason)
    /\ EngineUnchanged

\* The engine ends the statement, in its own time or never. Pages are cut anywhere,
\* and the first repeats the column names or does not.
EngineEnds ==
    /\ job.state = "RUNNING"
    /\ step # "over"
    /\ \/ \E cut \in 0 .. Len(StatementRows), named \in BOOLEAN :
            LET page(from, to) == SubSeq(StatementRows, from, to)
                first == (IF named THEN <<Header>> ELSE <<>>) \o page(1, cut)
                rest == page(cut + 1, Len(StatementRows))
            IN  job' = [state |-> "SUCCEEDED", token |-> 0,
                        pages |-> IF rest = <<>> THEN <<first>> ELSE <<first, rest>>]
       \/ \E state \in {"FAILED", "CANCELLED"} : job' = [NoJob EXCEPT !.state = state]
    /\ UNCHANGED <<built, asked, phase, step, left, valid, got, failed, outcome>>

\* The state the engine reports is true when it is read.
StateOf ==
    /\ step = "poll"
    /\ CASE job.state = "SUCCEEDED" -> step' = "read" /\ UNCHANGED outcome
         [] job.state = "RUNNING" -> step' = "judge" /\ UNCHANGED outcome
         [] OTHER -> End("question-failed")
    /\ EngineUnchanged /\ UNCHANGED <<job, failed>>

\* A call that fails ends the question; the engine is not told.
CallFails(call) ==
    /\ step = call
    /\ failed' = failed \cup {call}
    /\ \E reason \in EngineRefusals \ {"question-failed"} : End(reason)
    /\ EngineUnchanged /\ UNCHANGED job

\* Slip: the deadline ends the question, and nothing tells the engine.
JudgeLeaving ==
    /\ step = "judge"
    /\ IF left = 0 THEN End("question-timed-out") ELSE step' = "poll" /\ UNCHANGED outcome
    /\ EngineUnchanged /\ UNCHANGED <<job, failed>>

\* Slip: no deadline.
JudgeForever ==
    /\ step = "judge"
    /\ step' = "poll"
    /\ EngineUnchanged /\ UNCHANGED <<outcome, job, failed>>

\* It was running when it was asked. Past the deadline it is stopped, whatever it
\* has become since; before, it is asked again after a pause.
Judge ==
    /\ step = "judge"
    /\ step' = IF left = 0 THEN "stop" ELSE "poll"
    /\ EngineUnchanged /\ UNCHANGED <<outcome, job, failed>>

\* A failure to stop is swallowed.
Stop ==
    /\ step = "stop"
    /\ \/ /\ job' = IF job.state = "RUNNING" THEN [job EXCEPT !.state = "CANCELLED"] ELSE job
          /\ UNCHANGED failed
       \/ UNCHANGED job /\ failed' = failed \cup {"stop"}
    /\ End("question-timed-out")
    /\ EngineUnchanged

\* Pages are read until one names no other; no deadline is looked at.
PageOf ==
    /\ step = "read"
    /\ job' = [job EXCEPT !.token = @ + 1]
    /\ LET page == job.pages[job.token + 1]
           rows == got \o (IF job.token = 0 THEN withoutHeaderRow(page) ELSE page)
       IN  CASE job.token + 1 < Len(job.pages) ->
                    got' = rows /\ UNCHANGED <<phase, left, step, outcome>>
             [] OTHER ->
                 \/ IF phase = "watermark" THEN WatermarkAnswered(rows, "submit")
                    ELSE got' = rows /\ End("answered") /\ UNCHANGED <<phase, left>>
                 \/ decodeFails /\ UNCHANGED <<got, phase, left>>
    /\ UNCHANGED <<built, asked, valid, failed>>

EngineNext ==
    \/ Submitted
    \/ SubmitFails
    \/ StateOf
    \/ CallFails("poll")
    \/ Judge
    \/ Stop
    \/ PageOf
    \/ CallFails("read")

-----------------------------------------------------------------------------
(* The semantic layer.                                                     *)

ModelUnchanged == UNCHANGED <<built, asked, valid, job, failed>>

Attempt ==
    /\ step = "attempt"
    /\ IF left = 0 THEN End("question-timed-out") ELSE step' = "asked" /\ UNCHANGED outcome
    /\ ModelUnchanged /\ UNCHANGED <<phase, left, got>>

\* Nothing listens, or the signal cut the request short at the deadline: while it
\* was sent, or while its body was read.
Abort ==
    /\ step = "asked"
    /\ left = 0
    /\ \E reason \in {"model-unreachable", "model-unreadable"} : End(reason)
    /\ ModelUnchanged /\ UNCHANGED <<phase, left, got>>

\* Slip: a query the layer would not run is the caller's, the platform's own too.
askedAsIs(reason) == reason

\* What the platform's own question is refused for is not the caller's mistake.
\* Left unclassified, it is filed as the layer's.
askingAs(reason) ==
    IF phase = "watermark" /\ reason = "unanswerable" THEN "model-rejected" ELSE reason

\* Refused with a status that is about the query, or with any other; a context that
\* has expired is refused as the platform's.
Objected ==
    /\ step = "asked"
    /\ left > 0
    /\ \/ End("model-unreachable")
       \/ End("model-unreadable")
       \/ End("model-rejected")
       \/ valid > 0 /\ End(askingAs("unanswerable"))
    /\ ModelUnchanged /\ UNCHANGED <<phase, left, got>>

\* Still being computed: asked again after a pause, which may outlast the deadline.
ContinueWait ==
    /\ step = "asked"
    /\ left > 0 /\ valid > 0
    /\ step' = "waiting"
    /\ ModelUnchanged /\ UNCHANGED <<phase, left, got, outcome>>

Waited ==
    /\ step = "waiting"
    /\ step' = "attempt"
    /\ ModelUnchanged /\ UNCHANGED <<phase, left, got, outcome>>

\* More rows than may be answered is a refusal, never the first of them.
refuseIfOverBound(rows) ==
    IF Len(rows) > MAX_ANSWER_ROWS THEN End("over-bound") /\ UNCHANGED got
    ELSE got' = rows /\ End("answered")

\* What is made of the rows an answer carries.
Taken(rows) ==
    IF phase = "watermark" THEN WatermarkAnswered(rows, "attempt")
    ELSE refuseIfOverBound(rows) /\ UNCHANGED <<phase, left>>

\* The layer answers, with at most as many rows as it was asked for. A watermark
\* that is there and is no moment is refused, never taken for none.
ModelAnswers ==
    /\ step = "asked"
    /\ left > 0 /\ valid > 0
    /\ LET rows == SubSeq(ModelRows, 1, Min({Len(ModelRows), Load.limit})) IN
        \/ Taken(rows)
        \/ /\ phase = "watermark" /\ rows # <<>>
           /\ End("model-unreadable") /\ UNCHANGED <<phase, left, got>>
    /\ ModelUnchanged

\* Whatever listens there agrees, with a body that is no answer: not an object, or
\* one without its data, or without the member asked for. It is taken for an answer
\* of no rows.
AnswersWithoutData ==
    /\ step = "asked"
    /\ left > 0
    /\ failed' = failed \cup {"load"}
    /\ Taken(<<>>)
    /\ UNCHANGED <<built, asked, valid, job>>

ModelNext ==
    \/ Attempt
    \/ Abort
    \/ Objected
    \/ ContinueWait
    \/ Waited
    \/ ModelAnswers
    \/ AnswersWithoutData

-----------------------------------------------------------------------------

Next ==
    \/ \E kind \in Callers, q \in Questions : Ask(kind, q)
    \/ Tick
    \/ EngineEnds
    \/ EngineNext
    \/ ModelNext

Spec == Init /\ [][Next]_vars

\* Time passes; the platform goes on; a call of the engine's client returns. The
\* engine need not end a statement, nor the layer ever answer.
FairSpec ==
    /\ Spec
    /\ WF_vars(Tick)
    /\ WF_vars(EngineNext)
    /\ WF_vars(Attempt)
    /\ WF_vars(Abort)
    /\ WF_vars(Waited)

-----------------------------------------------------------------------------
(* Properties.                                                             *)

Rows == Tenants \X Nat \X Tenants

QuestionsTypeOK ==
    /\ built \subseteq {"engine", "model"}
    /\ asked \in Questions
    /\ phase \in {"watermark", "rows"}
    /\ step \in Steps
    /\ left \in 0 .. Timeout
    /\ valid \in 0 .. ContextLifetime
    /\ job.state \in {"none", "RUNNING", "SUCCEEDED", "FAILED", "CANCELLED"}
    /\ job.token \in 0 .. Len(job.pages)
    /\ step = "read" => job.state = "SUCCEEDED" /\ job.token < Len(job.pages)
    /\ \A n \in DOMAIN got : got[n] \in Rows
    /\ failed \subseteq EngineCalls \cup {"load"}
    /\ outcome \in Outcomes
    /\ step # "over" => outcome = "none" /\ adapterOf(asked.route) \in built

\* The asking tenant's rows, each of them once and no other's.
WholeAnswer ==
    /\ {got[n] : n \in DOMAIN got} =
           {<<asked.tenant, n, asked.tenant>> : n \in 1 .. Holds[asked.tenant]}
    /\ Len(got) = Holds[asked.tenant]

\* An answer is whole: over the engine's pages, without the header it repeats, never
\* the part that fits a bound, and with both sides of a join the tenant's own. The
\* one answer that is not is an empty one, made of a body of the layer's that held
\* no data; never a part, and never another tenant's.
AnswersAreWhole ==
    outcome = "answered" =>
        /\ asked.tenant \in Exported
        /\ IF "load" \in failed THEN asked.route = "model" /\ got = <<>> ELSE WholeAnswer

\* A statement is left running that nobody waits for only when a call of the engine
\* failed: given up at the deadline, it is stopped.
NothingIsLeftRunning ==
    step = "over" /\ job.state = "RUNNING" => failed \cap EngineCalls # {}

\* What the caller is told is so: timed out only past the deadline, unanswerable
\* only of the caller's own question and not of the platform's watermark, over the
\* bound only when it is, and never exported only of a tenant without a mark, or one
\* whose mark came in a body of the layer's that held no data.
RefusalsTellTheTruth ==
    /\ outcome = "question-timed-out" => left = 0
    /\ outcome = "unanswerable" => phase = "rows"
    /\ outcome = "never-exported" =>
        asked.tenant \notin Exported \/ (asked.route = "model" /\ "load" \in failed)
    /\ outcome = "over-bound" => Holds[asked.tenant] > MAX_ANSWER_ROWS

\* "A body that is not an answer" is refused as one that cannot be read, says
\* analytics-failure.ts: it hides no rows. Nobody is told that its tenant was never
\* exported when it was, or answered with less than there is. The code takes such a
\* body for an answer of no rows.
NothingIsHidden ==
    /\ outcome = "never-exported" => asked.tenant \notin Exported
    /\ outcome = "answered" => WholeAnswer

\* Every question is answered or refused, by an engine that never ends a statement
\* and a layer that never answers too.
QuestionsEnd == step # "over" ~> step = "over"

=============================================================================
