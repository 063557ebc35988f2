-------------------------- MODULE ExportRefinement --------------------------
(***************************************************************************)
(* The export implements the ledger: the refinement mapping.               *)
(***************************************************************************)
EXTENDS ExportInductive

\* How often a movement appears in the published data.
Presence(m) ==
    IF \A o \in objects : m \notin o.rows THEN "absent"
    ELSE IF \A o1, o2 \in objects : m \in o1.rows /\ m \in o2.rows => o1 = o2
         THEN "once"
    ELSE "repeated"

Confirmed == {m \in Committed : recordedXid[m] < cursor.through}

Ledger == INSTANCE ExportLedger
            WITH recorded  <- Committed,
                 presence  <- [m \in Movements |-> Presence(m)],
                 confirmed <- Confirmed

\* Seen by the reader of the lake, sequential runs of the export do nothing but
\* publish recorded movements once and confirm them afterwards, whatever was
\* interrupted and replayed to get there (execute).
LedgerSpec == Ledger!Spec

=============================================================================
