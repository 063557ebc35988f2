--------------------------- MODULE ExportDomain ---------------------------
(***************************************************************************)
(* The vocabulary of one tenant's export: the window of transaction        *)
(* identifiers a run carries, the cursor that says how far it got, and the *)
(* rule that decides the next window (src/domain/export of the program).   *)
(*                                                                         *)
(* A cursor is the row of `export_cursors` it is stored in: the point      *)
(* reached and the pending window, each column zero when the database      *)
(* holds NULL (a transaction identifier is positive).                      *)
(***************************************************************************)
EXTENDS Naturals

NULL == 0

\* A tenant never carried has its whole history ahead of it.
FIRST == 1

TransactionIds == Nat \ {NULL}

Windows == [from : Nat, to : Nat]

\* The absence of a window: the decision "up-to-date".
NoWindow == [from |-> NULL, to |-> NULL]

WindowFrom(from, to) == [from |-> from, to |-> to]

\* windowFrom throws on a window that does not end after it starts.
WellFormedWindow(w) == w \in Windows /\ NULL < w.from /\ w.from < w.to

\* Slip: a closed window, its last identifier carried by the next one too.
CoversClosed(w, xid) == w.from <= xid /\ xid <= w.to

\* Half open: `from` has already been carried, `to` has not.
Covers(w, xid) == w.from <= xid /\ xid < w.to

CursorRows == [through : Nat, pendingFrom : Nat, pendingTo : Nat]

EmptyRow == [through |-> NULL, pendingFrom |-> NULL, pendingTo |-> NULL]

\* The cursor's three states, as the repository derives them from the row.
CursorState(row) ==
    IF row.pendingFrom # NULL /\ row.pendingTo # NULL THEN "started"
    ELSE IF row.through # NULL THEN "carried"
    ELSE "never-carried"

Pending(row) == WindowFrom(row.pendingFrom, row.pendingTo)

\* Where a run that has no abandoned window to replay starts from.
StartingPoint(row) == IF CursorState(row) = "carried" THEN row.through ELSE FIRST

Decision(row, horizon) ==
    IF CursorState(row) = "started" THEN "carry"
    ELSE IF StartingPoint(row) = horizon THEN "up-to-date"
    ELSE IF StartingPoint(row) > horizon THEN "went-backwards"
    ELSE "carry"

\* Slip: an abandoned window is widened to the horizon a later run reads.
NextWindowRecomputed(row, horizon) ==
    IF Decision(row, horizon) # "carry" THEN NoWindow
    ELSE WindowFrom(IF row.through # NULL THEN row.through ELSE FIRST, horizon)

\* An abandoned window is replayed as recorded, never recomputed.
NextWindow(row, horizon) ==
    IF Decision(row, horizon) # "carry" THEN NoWindow
    ELSE IF CursorState(row) = "started" THEN Pending(row)
    ELSE WindowFrom(StartingPoint(row), horizon)

=============================================================================
