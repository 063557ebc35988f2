----------------------- MODULE AnalyticsReaderProofs -----------------------
(***************************************************************************)
(* Proofs about the readers of the exported data: what their answers show  *)
(* and how they are labelled.                                              *)
(***************************************************************************)
EXTENDS AnalyticsReader, ExportSequentialProofs

\* Reading changes nothing of the export.
THEOREM ReadersLeaveTheExportAlone == ReaderSpec => Spec
<1>1. ReaderInit => Init
  BY DEF ReaderInit
<1>2. [ReaderNext]_allVars => [Next]_vars
  BY DEF ReaderNext, Refresh, AskMark, AnswerFromObjects, AnswerFromRollup,
     QuestionFails, allVars
<1> QED
  BY <1>1, <1>2, PTL DEF ReaderSpec, Spec

LEMMA PublishedType ==
    ASSUME TypeOK
    PROVE  /\ Published \in SUBSET Movements /\ JoinedRows \in SUBSET Movements
           /\ LakeMark \in Nat
  BY DEF TypeOK, Published, JoinedRows, LakeMark, Objects

LEMMA CompleteThroughType ==
    ASSUME NEW through \in Nat, NEW refreshedAt \in Nat
    PROVE  /\ CompleteThrough(through, refreshedAt) \in Nat
           /\ CompleteThrough(through, refreshedAt) <= through
  BY DEF CompleteThrough

LEMMA ReaderTypeStep == ReaderTypeOK /\ [ReaderNext]_allVars => ReaderTypeOK'
<1> SUFFICES ASSUME ReaderTypeOK, [ReaderNext]_allVars PROVE ReaderTypeOK'
  OBVIOUS
<1>1. TypeOK /\ TypeOK'
  <2>1. TypeOK /\ [Next]_vars
    BY DEF ReaderTypeOK, ReaderNext, Refresh, AskMark, AnswerFromObjects,
       AnswerFromRollup, QuestionFails, allVars
  <2> QED
    BY <2>1, TypeStep
<1>2. clock \in Nat /\ mark \in Nat /\ carried \in Nat /\ rollup.refreshedAt \in Nat
  BY <1>1 DEF TypeOK, ReaderTypeOK
<1>3. CASE UNCHANGED readerVars
  BY <1>1, <1>3 DEF ReaderTypeOK, readerVars
<1>4. CASE Refresh
  BY <1>1, <1>2, <1>4, PublishedType DEF Refresh, ReaderTypeOK
<1>5. CASE AskMark
  BY <1>1, <1>2, <1>5 DEF AskMark, ReaderTypeOK
<1>6. CASE AnswerFromObjects
  <2>1. CompleteThrough(carried, clock) \in Nat
    BY <1>2, CompleteThroughType
  <2> QED
    BY <1>1, <1>6, <2>1, PublishedType DEF AnswerFromObjects, ReaderTypeOK, Sources, NULL
<1>7. CASE AnswerFromRollup
  <2>1. CompleteThrough(carried, rollup.refreshedAt) \in Nat
    BY <1>2, CompleteThroughType
  <2> QED
    BY <1>1, <1>7, <2>1 DEF AnswerFromRollup, ReaderTypeOK, Sources, NULL
<1>8. CASE QuestionFails
  BY <1>1, <1>8 DEF QuestionFails, ReaderTypeOK, NULL
<1> QED
  BY <1>3, <1>4, <1>5, <1>6, <1>7, <1>8 DEF ReaderNext, allVars

\* Types, whatever a reader meets.
THEOREM ReaderTypeCorrect == ReaderSpec => []ReaderTypeOK
<1>1. ReaderInit => ReaderTypeOK
  BY TypeInit DEF ReaderInit, ReaderTypeOK, NothingPrepared, NoAnswer, Sources, NULL
<1> QED
  BY <1>1, ReaderTypeStep, PTL DEF ReaderSpec

-----------------------------------------------------------------------------

\* Whatever has been shown or prepared is in the lake, from which nothing is taken.
ShownIsPublished == answer.rows \subseteq Published /\ rollup.rows \subseteq Published

LEMMA ShownStep ==
    ASSUME ReaderTypeOK, TypeOK', IInv, [Next]_vars, ShownIsPublished,
           [ReaderNext]_allVars
    PROVE  /\ ShownIsPublished'
           /\ answer'.source = "exported-objects" /\ answer' # answer
                => answer.rows \subseteq answer'.rows
<1>1. Published \subseteq Published'
  BY ObjectsStay, PublishedGrows DEF ReaderTypeOK
<1>2. CASE UNCHANGED readerVars
  BY <1>1, <1>2 DEF ShownIsPublished, readerVars
<1>3. CASE AnswerFromObjects
  BY <1>1, <1>3 DEF ShownIsPublished, AnswerFromObjects
<1>4. CASE Refresh \/ AskMark \/ AnswerFromRollup \/ QuestionFails
  BY <1>1, <1>4 DEF ShownIsPublished, Refresh, AskMark, AnswerFromRollup, QuestionFails
<1> QED
  BY <1>2, <1>3, <1>4 DEF ReaderNext, allVars

\* A movement that an answer has shown, every later answer read from the objects
\* shows, however many runs overlap with the questions and with each other.
THEOREM LaterAnswersShowMore == ReaderSpec => AnswersOnlyGrow
<1>1. ReaderInit => ShownIsPublished
  BY DEF ReaderInit, ShownIsPublished, NothingPrepared, NoAnswer
<1>2. ReaderTypeOK /\ TypeOK' /\ IInv /\ [Next]_vars /\ ShownIsPublished
        /\ [ReaderNext]_allVars
        => /\ ShownIsPublished'
           /\ [answer.label # NULL /\ answer'.label # NULL
                 /\ answer'.source = "exported-objects"
                 => answer.rows \subseteq answer'.rows]_allVars
  BY ShownStep
<1> QED
  BY <1>1, <1>2, Inductive, ReaderTypeCorrect, ReadersLeaveTheExportAlone, PTL
     DEF ReaderSpec, Spec, AnswersOnlyGrow

-----------------------------------------------------------------------------

\* The mark a question in progress has read is not ahead of the one that is there.
CarriedIsBehind == asking = "asked" => carried <= mark

LEMMA LakeMarkIsAhead ==
    ASSUME TypeOK, MarkInv
    PROVE  mark <= LakeMark
  BY DEF TypeOK, MarkInv, LakeMark

LEMMA LabelStep ==
    ASSUME ReaderTypeOK, MarkInv, mark <= mark', mark' \in Nat, CarriedIsBehind,
           LabelWithinExport, [ReaderNext]_allVars
    PROVE  CarriedIsBehind' /\ LabelWithinExport'
<1>1. clock \in Nat /\ mark \in Nat /\ carried \in Nat /\ TypeOK
  BY DEF TypeOK, ReaderTypeOK
<1>2. CASE UNCHANGED readerVars
  BY <1>1, <1>2 DEF CarriedIsBehind, LabelWithinExport, readerVars
<1>3. CASE Refresh \/ AnswerFromRollup \/ QuestionFails
  BY <1>1, <1>3 DEF CarriedIsBehind, LabelWithinExport, Refresh, AnswerFromRollup,
     QuestionFails
<1>4. CASE AskMark
  <2>1. mark' = mark
    BY <1>4 DEF AskMark, vars, lakeVars
  <2> QED
    BY <1>1, <1>4, <2>1 DEF CarriedIsBehind, LabelWithinExport, AskMark
<1>5. CASE AnswerFromObjects
  <2>1. CompleteThrough(carried, clock) <= LakeMark
    BY <1>1, <1>5, CompleteThroughType, LakeMarkIsAhead, PublishedType
       DEF CarriedIsBehind, AnswerFromObjects
  <2> QED
    BY <1>5, <2>1 DEF CarriedIsBehind, LabelWithinExport, AnswerFromObjects
<1> QED
  BY <1>2, <1>3, <1>4, <1>5 DEF ReaderNext, allVars

\* No answer read from the objects says it is complete through a moment later than
\* the export it was computed from.
THEOREM LabelsStayWithinTheExport ==
    ASSUME Sequential
    PROVE  ReaderSpec => []LabelWithinExport
<1>1. ReaderInit => CarriedIsBehind /\ LabelWithinExport
  BY DEF ReaderInit, CarriedIsBehind, LabelWithinExport, NoAnswer, NULL
<1>2. TypeOK /\ TypeOK' /\ IInv /\ SInv /\ MarkInv /\ [Next]_vars
        => MarkInv' /\ mark <= mark' /\ mark' \in Nat
  <2> SUFFICES ASSUME TypeOK, TypeOK', IInv, SInv, MarkInv, [Next]_vars
               PROVE  MarkInv' /\ mark <= mark' /\ mark' \in Nat
    OBVIOUS
  <2>1. MarkInv' /\ (mark' # mark => mark < mark')
    BY MarkStep
  <2> QED
    BY <2>1 DEF TypeOK
<1>3. ReaderTypeOK /\ MarkInv /\ mark <= mark' /\ mark' \in Nat /\ CarriedIsBehind
        /\ LabelWithinExport /\ [ReaderNext]_allVars
        => CarriedIsBehind' /\ LabelWithinExport'
  BY LabelStep
<1> QED
  BY <1>1, <1>2, <1>3, MarkInit, SequentialInductive, ReaderTypeCorrect,
     ReadersLeaveTheExportAlone, PTL DEF ReaderSpec, Spec

=============================================================================
