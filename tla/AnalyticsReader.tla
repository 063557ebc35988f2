-------------------------- MODULE AnalyticsReader --------------------------
(***************************************************************************)
(* Questions asked of the exported data while the export goes on: the      *)
(* Athena reader, which reads the objects, and the semantic layer, which   *)
(* may answer from a rollup prepared earlier. Both read the watermark      *)
(* first and label the rows they read next with it.                        *)
(***************************************************************************)
EXTENDS ExportTenant

VARIABLES
    rollup,     \* what the semantic layer prepared, and when
    asking,     \* where the question in progress is
    carried,    \* the watermark it read
    answer      \* the last answer given

readerVars == <<rollup, asking, carried, answer>>
allVars == <<vars, readerVars>>

Sources == {"exported-objects", "prepared"}

NothingPrepared == [rows |-> {}, joined |-> {}, exportMark |-> NULL, refreshedAt |-> NULL]

NoAnswer == [source |-> "exported-objects", label |-> NULL, rows |-> {},
             joined |-> {}, exportMark |-> NULL]

ReaderInit ==
    /\ Init
    /\ rollup = NothingPrepared
    /\ asking = "idle"
    /\ carried = NULL
    /\ answer = NoAnswer

\* The inner join with products loses a movement whose product is not there.
JoinedRows == {m \in Published : ProductOf[m] \in catalogue["products"]}

\* The moment the export last completed is complete through. A run that has
\* confirmed and not put its mark yet counts as completed now.
LakeMark == IF \E r \in Runners : pc[r] \in {"stamp", "mark"} THEN clock ELSE mark

\* The semantic layer's refresh worker builds the rollup from the objects, of
\* all tenants at once and whenever any tenant's mark moves: for one tenant, at
\* any moment.
Refresh ==
    /\ rollup' = [rows |-> Published, joined |-> JoinedRows,
                  exportMark |-> LakeMark, refreshedAt |-> clock]
    /\ UNCHANGED <<vars, asking, carried, answer>>

\* Slip: a tenant never exported leaves the question in a state of its own.
AskMarkStuck ==
    /\ asking = "idle"
    /\ carried' = mark
    /\ asking' = IF mark = NULL THEN "never-exported" ELSE "asked"
    /\ UNCHANGED <<vars, rollup, answer>>

\* No mark means never exported, and the question itself is not asked.
AskMark ==
    /\ asking = "idle"
    /\ carried' = mark
    /\ asking' = IF mark = NULL THEN "idle" ELSE "asked"
    /\ UNCHANGED <<vars, rollup, answer>>

\* Slip: the moment the rows were computed, whatever the export reached.
CompleteThroughRefreshed(through, refreshedAt) == refreshedAt

\* The earlier of the watermark and the moment the rows were refreshed.
CompleteThrough(through, refreshedAt) ==
    IF refreshedAt # NULL /\ refreshedAt < through THEN refreshedAt ELSE through

\* AthenaAnalytics, and the semantic layer when nothing prepared matches.
AnswerFromObjects ==
    /\ asking = "asked"
    /\ answer' = [source |-> "exported-objects",
                  label |-> CompleteThrough(carried, clock),
                  rows |-> Published, joined |-> JoinedRows, exportMark |-> LakeMark]
    /\ asking' = "idle"
    /\ carried' = NULL
    /\ UNCHANGED <<vars, rollup>>

AnswerFromRollup ==
    /\ asking = "asked"
    /\ rollup.refreshedAt # NULL
    /\ answer' = [source |-> "prepared",
                  label |-> CompleteThrough(carried, rollup.refreshedAt),
                  rows |-> rollup.rows, joined |-> rollup.joined,
                  exportMark |-> rollup.exportMark]
    /\ asking' = "idle"
    /\ carried' = NULL
    /\ UNCHANGED <<vars, rollup>>

\* A refused or timed out question gives no answer.
QuestionFails ==
    /\ asking = "asked"
    /\ asking' = "idle"
    /\ carried' = NULL
    /\ UNCHANGED <<vars, rollup, answer>>

ReaderNext ==
    \/ Next /\ UNCHANGED readerVars
    \/ Refresh
    \/ AskMark
    \/ AnswerFromObjects
    \/ AnswerFromRollup
    \/ QuestionFails

ReaderSpec == ReaderInit /\ [][ReaderNext]_allVars

-----------------------------------------------------------------------------
(* Properties.                                                             *)

ReaderTypeOK ==
    /\ TypeOK
    /\ rollup \in [rows : SUBSET Movements, joined : SUBSET Movements,
                   exportMark : Nat, refreshedAt : Nat]
    /\ asking \in {"idle", "asked"}
    /\ carried \in Nat
    /\ answer \in [source : Sources, label : Nat, rows : SUBSET Movements,
                   joined : SUBSET Movements, exportMark : Nat]

\* An answer read from the objects is never labelled later than the export it
\* was computed from, because the watermark is read before the rows: an export
\* that lands between the two makes the label older than the rows, never newer.
LabelWithinExport ==
    answer.source = "exported-objects" => answer.label <= answer.exportMark

\* The same of every answer, prepared ones included ("shall not report an
\* answer as complete through a moment later than the export it was computed
\* from").
PreparedLabelWithinExport ==
    answer.exportMark # NULL => answer.label <= answer.exportMark

\* No movement recorded before the moment an answer is labelled complete through,
\* and committed when it is given, is missing from it: the label's plain meaning.
LabelNeverAheadOfData ==
    [][answer' # answer /\ answer'.source = "exported-objects" =>
        \A m \in Committed : recordedAt[m] < answer'.label => m \in answer'.rows]_allVars

\* The inner join of stockOnHand loses no movement: "that cannot happen, because
\* the transactional API refuses a movement naming a product nobody declared".
JoinLosesNothing ==
    answer.source = "exported-objects" => answer.joined = answer.rows

\* What an answer has shown, every later answer read from the objects shows too.
AnswersOnlyGrow ==
    [][answer.label # NULL /\ answer'.label # NULL
         /\ answer'.source = "exported-objects" => answer.rows \subseteq answer'.rows]_allVars

=============================================================================
