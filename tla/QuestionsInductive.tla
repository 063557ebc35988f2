------------------------- MODULE QuestionsInductive -------------------------
(***************************************************************************)
(* The inductive invariant the truth of answers and refusals rests on.     *)
(***************************************************************************)
EXTENDS Questions

\* What ought to be read in this exchange: the asking tenant's mark, if it has one,
\* or the rows it has.
OwnRows ==
    IF phase = "watermark" THEN {<<t, 1, t>> : t \in Exported \cap {asked.tenant}}
    ELSE {<<asked.tenant, n, asked.tenant>> : n \in 1 .. Holds[asked.tenant]}

\* The question is asked the way its route says, and its own exchange only of a
\* tenant that was exported. Nobody gives up before the deadline, and a body of the
\* layer's without data ends the question.
AskedRightly ==
    /\ step \in EngineSteps => asked.route \in {"stock", "history"}
    /\ step \in ModelSteps =>
        /\ asked.route = "model"
        /\ questionFrom(asked.measures, asked.groupings, asked.by)
    /\ phase = "rows" => asked.tenant \in Exported
    /\ step = "stop" => left = 0
    /\ "load" \in failed => step = "over"

\* The statement runs for as long as somebody asks about it.
RunningIsWatched ==
    job.state = "RUNNING" =>
        \/ step \in {"poll", "judge", "stop"}
        \/ step = "over" /\ failed \cap EngineCalls # {}

JobFields == DOMAIN job = {"state", "pages", "token"}

\* The rows of one page, and of those that are still to be read.
PageRows(n) == IF n = 1 THEN withoutHeaderRow(job.pages[1]) ELSE job.pages[n]

Unread ==
    IF job.token + 1 = Len(job.pages) THEN PageRows(job.token + 1)
    ELSE PageRows(1) \o PageRows(2)

\* What has been read, and what has not, is what ought to be.
PagesCarry ==
    /\ got \in Seq(Rows)
    /\ step \in {"submit", "poll", "judge", "stop"} => got = <<>>
    /\ step \in {"poll", "judge", "stop", "read"} /\ job.state = "SUCCEEDED" =>
        /\ Len(job.pages) \in {1, 2}
        /\ job.token \in {0, 1} /\ job.token < Len(job.pages)
        /\ step # "read" => job.token = 0
        /\ \A n \in 1 .. Len(job.pages) : PageRows(n) \in Seq(Rows)
        /\ got \o Unread = SetToSeq(OwnRows)

QuestionsInv ==
    /\ QuestionsTypeOK
    /\ JobFields
    /\ AskedRightly
    /\ RunningIsWatched
    /\ PagesCarry
    /\ RefusalsTellTheTruth
    /\ AnswersAreWhole

=============================================================================
