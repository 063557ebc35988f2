------------------------- MODULE SessionsInductive -------------------------
(***************************************************************************)
(* The inductive invariant of sessions and setup tokens.                   *)
(***************************************************************************)
EXTENDS Sessions

SetupRows == [person : Persons, expires : Nat, redeemed : BOOLEAN, spent : BOOLEAN]

TokenRows == [family : Nat, person : Persons, expires : Nat, exchanged : BOOLEAN,
              invalidated : BOOLEAN, spent : BOOLEAN]

Requests == [kind : Kinds, phase : Phases, at : Nat, row : Nat, person : SUBSET Persons,
             scope : Scopes, marked : BOOLEAN, targets : SUBSET Nat, before : Nat,
             held : SUBSET Nat, waits : Nat,
             spent : BOOLEAN, ended : BOOLEAN, late : BOOLEAN]

SessionTypes ==
    /\ now \in Nat
    /\ active \subseteq Persons /\ credential \subseteq Persons
    /\ setups \in Seq(SetupRows)
    /\ tokens \in Seq(TokenRows)
    /\ ended \subseteq Issued

\* A token has the deadline of the first of its family, and its mark says whether
\* it has a successor.
TokensAgree ==
    \A t \in Issued : /\ tokens[t].family \in Issued
                      /\ tokens[t].expires = FirstOf(t).expires
                      /\ tokens[t].exchanged <=> tokens[t].spent

SetupsAgree == \A s \in 1 .. Len(setups) : setups[s].redeemed <=> setups[s].spent

\* What a request has found, and what it will leave marked.
Found(r) ==
    /\ r.kind \in {"refresh", "sign-out"} => r.row \in Issued
    /\ r.kind = "redeem" => r.row \in 1 .. Len(setups) /\ r.scope = "person"
    /\ r.phase = "sweep" => r.kind = "refresh"
    /\ r.phase = "apply" => r.kind \in {"refresh", "sign-out", "redeem"}
    /\ ~r.late /\ ~r.ended /\ ~r.spent
    /\ r.kind = "refresh" /\ r.phase = "insert" => r.marked \/ tokens[r.row].exchanged
    /\ r.kind = "redeem" /\ r.phase \in {"password", "apply"}
        => r.marked \/ setups[r.row].redeemed

\* Of a session that is being ended, every token is one the statement is about to
\* invalidate or one that has been already.
SweepCovers(r) ==
    r.phase = "apply" =>
        /\ r.before \in 0 .. Len(tokens)
        /\ \A t \in 1 .. r.before : InScope(t, r) => t \in r.targets \/ tokens[t].invalidated

SessionInv ==
    /\ SessionTypes /\ TokensAgree /\ SetupsAgree /\ EndedStaysEnded
    /\ request \in [Clients -> Requests]
    /\ \A c \in Clients : Found(request[c]) /\ SweepCovers(request[c])

\* What a request has locked so far: nothing before its first update of a refresh
\* token, and no setup token before it has marked one.
LocksInOrder(r) ==
    /\ r.phase = "idle" => r.kind = "none"
    /\ r.phase \notin {"insert", "apply"} => r.held = {}
    /\ r.phase \in {"idle", "person", "mark"} => ~r.marked

LocksInv == \A c \in Clients : LocksInOrder(request[c])

\* The requests that may still insert a row, and the bounds they count against.
Inserting == {c \in Clients : request[c].kind \in {"sign-in", "refresh"}}

WithinBounds ==
    /\ now <= MaxTime
    /\ Len(setups) <= MaxSetups
    /\ Len(tokens) + Cardinality(Inserting) <= MaxTokens

=============================================================================
