------------------------------ MODULE Sessions ------------------------------
(***************************************************************************)
(* Sign-in sessions, the setup tokens that establish a password, and the   *)
(* deactivation of a person: sign-in, refresh, sign-out, issue and redeem  *)
(* (SignInUseCase, RefreshSessionUseCase, SignOutUseCase and their kin),   *)
(* as statements of concurrent transactions at READ COMMITTED.             *)
(*                                                                         *)
(* A secret is the row it is the digest of. Rows are numbered in the order *)
(* they are inserted, and a family is named by the row its sign-in         *)
(* inserted. A password is abstracted to whether the person has one: a     *)
(* sign-in with a wrong one, and a token nobody ever issued, change        *)
(* nothing. A statement that updates several rows comes to them one after  *)
(* another, in no order anybody wrote down, and locks each until its       *)
(* transaction ends.                                                       *)
(***************************************************************************)
EXTENDS Integers, FiniteSets, Sequences

CONSTANTS
    Clients,
    Persons,
    Lifetime,        \* of a session, from its sign-in
    SetupValidity,   \* of a setup token
    MaxTime,         \* bound on the clock
    LastStart,       \* bound on the moment a sign-in begins, or a setup token is issued
    MaxTokens,       \* bound on the refresh tokens issued
    MaxSetups        \* bound on the setup tokens issued

ASSUME SessionBounds ==
    /\ IsFiniteSet(Clients)
    /\ Lifetime \in Nat \ {0} /\ SetupValidity \in Nat \ {0}
    /\ MaxTime \in Nat /\ LastStart \in Nat /\ MaxTokens \in Nat /\ MaxSetups \in Nat

VARIABLES
    now,
    active,      \* people whose status is active
    credential,  \* person_credentials: people who have a password
    setups,      \* credential_setup_tokens
    tokens,      \* refresh_tokens
    request,     \* of a client, in flight
    ended        \* history: tokens of sessions somebody has ended

vars == <<now, active, credential, setups, tokens, request, ended>>

-----------------------------------------------------------------------------
Scopes == {"family", "person"}

Idle == [kind |-> "none", phase |-> "idle", at |-> 0, row |-> 0, person |-> {},
         scope |-> "family", marked |-> FALSE, targets |-> {}, before |-> 0,
         held |-> {}, waits |-> 0, spent |-> FALSE, ended |-> FALSE, late |-> FALSE]

InFlight(c) == request[c].phase # "idle"

Issued == 1 .. Len(tokens)

sessionDeadline(signedInAt) == signedInAt + Lifetime

setupTokenDeadline(issuedAt) == issuedAt + SetupValidity

\* Found with their password, which a left join may find absent, and their status.
find(p) == p \in credential \cap active

\* Slip: a token that was invalidated is taken for one that may expire.
decideRefreshUsable(token, at) ==
    IF at >= token.expires THEN "reject"
    ELSE IF token.exchanged THEN "reject-and-invalidate-family"
    ELSE "exchange"

\* Re-use is looked for before expiry.
decideRefresh(token, at) ==
    IF token.invalidated THEN "reject"
    ELSE IF token.exchanged THEN "reject-and-invalidate-family"
    ELSE IF at >= token.expires THEN "reject"
    ELSE "exchange"

\* Rows of an update that nobody has committed yet are locked by it.
LocksToken(d, t) == t \in request[d].held

LocksSetup(d, s) ==
    request[d].kind = "redeem" /\ request[d].marked /\ request[d].row = s

LocksCredential(d, p) ==
    request[d].kind = "redeem" /\ request[d].phase = "apply"
    /\ p \in request[d].person

\* The row the statement of one is at is locked by another.
WaitsFor(c, d) ==
    /\ c # d
    /\ LET r == request[c] IN
        \/ r.kind = "refresh" /\ r.phase = "mark" /\ LocksToken(d, r.row)
        \/ r.kind = "redeem" /\ r.phase = "mark" /\ LocksSetup(d, r.row)
        \/ r.phase = "password" /\ \E p \in r.person : LocksCredential(d, p)
        \/ r.phase = "apply" /\ LocksToken(d, r.waits)

Waits(c) == \E d \in Clients : WaitsFor(c, d)

InWaitCycle(c) ==
    \E S \in SUBSET {d \in Clients : Waits(d)} :
        /\ c \in S
        /\ \A d \in S : (\E e \in S : WaitsFor(d, e)) /\ (\E e \in S : WaitsFor(e, d))

\* The rows a request could still insert, with those there are.
Expected == Len(tokens) + Cardinality({c \in Clients : request[c].kind \in {"sign-in", "refresh"}})

\* The rows of the family of the token presented, or all of the person's.
InScope(t, r) ==
    IF r.scope = "person" THEN tokens[t].person \in r.person
    ELSE tokens[t].family = tokens[r.row].family

FirstOf(t) == tokens[tokens[t].family]

\* invalidate, as its statement begins: the rows it sees are those committed.
Swept(r) ==
    [r EXCEPT !.phase = "apply", !.before = Len(tokens),
              !.targets = {t \in Issued : InScope(t, r) /\ ~tokens[t].invalidated}]

-----------------------------------------------------------------------------
Init ==
    /\ now = 0
    /\ active = Persons
    /\ credential \in SUBSET Persons
    /\ setups = <<>>
    /\ tokens = <<>>
    /\ request = [c \in Clients |-> Idle]
    /\ ended = {}

Tick ==
    /\ now < MaxTime
    /\ now' = now + 1
    /\ UNCHANGED <<active, credential, setups, tokens, request, ended>>

\* One update of one row; it looks at no session.
DeactivatePerson(p) ==
    /\ p \in active
    /\ active' = active \ {p}
    /\ UNCHANGED <<now, credential, setups, tokens, request, ended>>

\* By an operator; a token issued earlier stays what it was.
IssueSetupToken(p) ==
    /\ Len(setups) < MaxSetups /\ now <= LastStart
    /\ setups' = Append(setups, [person |-> p, expires |-> setupTokenDeadline(now),
                                 redeemed |-> FALSE, spent |-> FALSE])
    /\ UNCHANGED <<now, active, credential, tokens, request, ended>>

\* A request arrives. It has read the clock at some moment before the first
\* statement of its transaction, with which the steps below begin.
Arrives(c, at) == ~InFlight(c) /\ at <= now

Goto(c, phase) == request' = [request EXCEPT ![c].phase = phase]

-----------------------------------------------------------------------------
(* Sign-in.                                                                *)

\* The person, their status and their password, in one read; then verified. One
\* answer for whatever is wrong.
SignIn(c, p, at) ==
    /\ Arrives(c, at) /\ Expected < MaxTokens /\ at <= LastStart
    /\ \/ ~find(p) /\ UNCHANGED request
       \/ /\ find(p)
          /\ request' = [request EXCEPT ![c] = [Idle EXCEPT !.kind = "sign-in", !.phase = "insert",
                                                           !.person = {p}, !.at = at]]
    /\ UNCHANGED <<now, active, credential, setups, tokens, ended>>

SignInInsert(c) ==
    /\ request[c].kind = "sign-in" /\ request[c].phase = "insert"
    /\ \E p \in request[c].person :
        tokens' = Append(tokens, [family |-> Len(tokens) + 1, person |-> p,
                                  expires |-> sessionDeadline(request[c].at),
                                  exchanged |-> FALSE, invalidated |-> FALSE,
                                  spent |-> FALSE])
    /\ request' = [request EXCEPT ![c] = Idle]
    /\ UNCHANGED <<now, active, credential, setups, ended>>

-----------------------------------------------------------------------------
(* Refresh.                                                                *)

\* The token is found. A refusal that ends sessions commits before it is raised.
Refresh(c, t, at) ==
    /\ Arrives(c, at) /\ Expected < MaxTokens
    /\ LET r == [Idle EXCEPT !.kind = "refresh", !.row = t, !.person = {tokens[t].person}]
           decision == decideRefresh(tokens[t], at)
       IN \/ decision = "reject" /\ UNCHANGED request
          \/ /\ decision = "reject-and-invalidate-family"
             /\ request' = [request EXCEPT ![c] = [r EXCEPT !.phase = "sweep"]]
          \/ /\ decision = "exchange"
             /\ request' = [request EXCEPT ![c] = [r EXCEPT !.phase = "person",
                                                           !.spent = tokens[t].spent,
                                                           !.ended = t \in ended,
                                                           !.late = at >= FirstOf(t).expires]]
    /\ UNCHANGED <<now, active, credential, setups, tokens, ended>>

\* Requirement 6.1: a person deactivated mid-session cannot extend it.
RefreshPerson(c) ==
    /\ request[c].kind = "refresh" /\ request[c].phase = "person"
    /\ request' = [request EXCEPT ![c] =
            IF request[c].person \subseteq active THEN [@ EXCEPT !.phase = "mark"]
            ELSE Swept([@ EXCEPT !.scope = "person"])]
    /\ UNCHANGED <<now, active, credential, setups, tokens, ended>>

\* An update of the row if it is not exchanged yet: it waits for whoever has
\* locked the row, and how many rows it found is not looked at.
MarkExchanged(c) ==
    /\ request[c].kind = "refresh" /\ request[c].phase = "mark"
    /\ ~Waits(c)
    /\ request' = [request EXCEPT
            ![c].phase = "insert",
            ![c].marked = ~tokens[request[c].row].exchanged,
            ![c].held = IF tokens[request[c].row].exchanged THEN {} ELSE {request[c].row}]
    /\ UNCHANGED <<now, active, credential, setups, tokens, ended>>

\* Slip: a deadline counted from the refresh.
SuccessorSliding(r) ==
    [tokens[r.row] EXCEPT !.exchanged = FALSE, !.invalidated = FALSE, !.spent = FALSE,
                          !.expires = sessionDeadline(now)]

\* The successor inherits family, person and deadline.
Successor(r) ==
    [tokens[r.row] EXCEPT !.exchanged = FALSE, !.invalidated = FALSE, !.spent = FALSE]

\* Slip: the mark is lost with a transaction that waited for another's.
MarkedUnkept(r) ==
    [tokens EXCEPT ![r.row].spent = TRUE]

\* The token presented, exchanged for another. (spent is a history, of the rows
\* that have a successor.)
Marked(r) ==
    [tokens EXCEPT ![r.row].exchanged = @ \/ r.marked, ![r.row].spent = TRUE]

\* Insert and commit.
RefreshInsert(c) ==
    /\ request[c].kind = "refresh" /\ request[c].phase = "insert"
    /\ tokens' = Append(Marked(request[c]), Successor(request[c]))
    /\ ended' = IF request[c].ended THEN ended \cup {Len(tokens) + 1} ELSE ended
    /\ request' = [request EXCEPT ![c] = Idle]
    /\ UNCHANGED <<now, active, credential, setups>>

-----------------------------------------------------------------------------
(* Sign-out, and what it shares with the refusals and the redemption.      *)

\* Whatever the state of the token is. What the first read is for, the family
\* and the person, never changes: it is one step with the update that follows.
SignOut(c, t, scope) ==
    /\ ~InFlight(c)
    /\ request' = [request EXCEPT ![c] = Swept([Idle EXCEPT !.kind = "sign-out", !.row = t,
                                                           !.scope = scope,
                                                           !.person = {tokens[t].person}])]
    /\ UNCHANGED <<now, active, credential, setups, tokens, ended>>

Sweep(c) ==
    /\ request[c].phase = "sweep"
    /\ request' = [request EXCEPT ![c] = Swept(@)]
    /\ UNCHANGED <<now, active, credential, setups, tokens, ended>>

\* What the session, or the sessions, consisted of when the statement began.
OfSession(r) ==
    {t \in 1 .. r.before : IF r.scope = "person" THEN tokens[t].person \in r.person
                           ELSE tokens[t].family = tokens[r.row].family}

\* invalidate, one row of it: the statement comes to a row and locks it, or begins
\* to wait for whoever has. A row found invalidated once the wait is over is locked
\* all the same. Rows it has come to stay locked while it waits for another.
InvalidateRow(c) ==
    /\ request[c].phase = "apply" /\ ~Waits(c)
    /\ \E t \in request[c].targets \ request[c].held :
        /\ request[c].waits \in {0, t}
        /\ IF \E d \in Clients \ {c} : LocksToken(d, t)
           THEN request' = [request EXCEPT ![c].waits = t]
           ELSE request' = [request EXCEPT ![c].waits = 0,
                                           ![c].held = request[c].held \cup {t}]
    /\ UNCHANGED <<now, active, credential, setups, tokens, ended>>

\* invalidate, as it ends, and the commit. It does not see a row inserted since it
\* began.
Apply(c) ==
    /\ request[c].phase = "apply"
    /\ request[c].targets \subseteq request[c].held
    /\ tokens' = [t \in Issued |-> IF t \in request[c].targets
                                   THEN [tokens[t] EXCEPT !.invalidated = TRUE]
                                   ELSE tokens[t]]
    /\ ended' = ended \cup OfSession(request[c])
    /\ IF request[c].kind = "redeem"
       THEN /\ setups' = [setups EXCEPT ![request[c].row].redeemed = @ \/ request[c].marked,
                                        ![request[c].row].spent = TRUE]
            /\ credential' = credential \cup request[c].person
       ELSE UNCHANGED <<setups, credential>>
    /\ request' = [request EXCEPT ![c] = Idle]
    /\ UNCHANGED <<now, active>>

-----------------------------------------------------------------------------
(* Redeeming a setup token.                                                *)

\* Slip: whether it was redeemed is left to the update that marks it.
RedeemableUntilExpiry(setup, at) == setup.expires > at

Redeemable(setup, at) == ~setup.redeemed /\ setup.expires > at

\* The token is found. A password that is not acceptable is refused before this.
Redeem(c, s, at) ==
    /\ Arrives(c, at)
    /\ \/ ~Redeemable(setups[s], at) /\ UNCHANGED request
       \/ /\ Redeemable(setups[s], at)
          /\ request' = [request EXCEPT ![c] = [Idle EXCEPT !.kind = "redeem", !.phase = "mark",
                                                           !.row = s, !.scope = "person",
                                                           !.person = {setups[s].person},
                                                           !.spent = setups[s].spent]]
    /\ UNCHANGED <<now, active, credential, setups, tokens, ended>>

\* Only a token not redeemed is marked; how many were is not looked at.
MarkSetupTokenRedeemed(c) ==
    /\ request[c].kind = "redeem" /\ request[c].phase = "mark"
    /\ ~Waits(c)
    /\ request' = [request EXCEPT ![c].phase = "password",
                                  ![c].marked = ~setups[request[c].row].redeemed]
    /\ UNCHANGED <<now, active, credential, setups, tokens, ended>>

\* An upsert of the person's one row, which only others' upserts wait for, and the
\* beginning of the update that follows it.
EstablishPassword(c) ==
    /\ request[c].kind = "redeem" /\ request[c].phase = "password"
    /\ ~Waits(c)
    /\ request' = [request EXCEPT ![c] = Swept(@)]
    /\ UNCHANGED <<now, active, credential, setups, tokens, ended>>

-----------------------------------------------------------------------------
\* Slip: a transaction that failed is answered and never rolled back.
FailNotRolledBack(c) ==
    /\ InFlight(c)
    /\ request' = [request EXCEPT ![c] = [Idle EXCEPT !.held = request[c].held]]
    /\ UNCHANGED <<now, active, credential, setups, tokens, ended>>

\* A statement fails, or the process dies: the transaction leaves nothing.
Fail(c) ==
    /\ InFlight(c)
    /\ request' = [request EXCEPT ![c] = Idle]
    /\ UNCHANGED <<now, active, credential, setups, tokens, ended>>

\* Two sweeps that came to the same rows in opposite orders: the database aborts one,
\* which its caller sees as a failure of the whole request.
AbortDeadlocked(c) ==
    /\ InWaitCycle(c)
    /\ request' = [request EXCEPT ![c] = Idle]
    /\ UNCHANGED <<now, active, credential, setups, tokens, ended>>

Serve(c) ==
    \/ SignInInsert(c)
    \/ RefreshPerson(c) \/ MarkExchanged(c) \/ RefreshInsert(c)
    \/ Sweep(c) \/ InvalidateRow(c) \/ Apply(c)
    \/ MarkSetupTokenRedeemed(c) \/ EstablishPassword(c)

Arrive(c) ==
    \/ \E at \in 0 .. now :
        \/ \E p \in Persons : SignIn(c, p, at)
        \/ \E t \in Issued : Refresh(c, t, at)
        \/ \E s \in DOMAIN setups : Redeem(c, s, at)
    \/ \E t \in Issued : \E scope \in Scopes : SignOut(c, t, scope)

Next ==
    \/ Tick
    \/ \E p \in Persons : DeactivatePerson(p) \/ IssueSetupToken(p)
    \/ \E c \in Clients : Arrive(c) \/ Serve(c) \/ Fail(c) \/ AbortDeadlocked(c)

Spec == Init /\ [][Next]_vars

-----------------------------------------------------------------------------
(* Properties.                                                             *)

Kinds == {"none", "sign-in", "refresh", "sign-out", "redeem"}

Phases == {"idle", "person", "mark", "password", "sweep", "apply", "insert"}

Tokens == [family : 1 .. MaxTokens, person : Persons, expires : Nat, exchanged : BOOLEAN,
           invalidated : BOOLEAN, spent : BOOLEAN]

SessionTypeOK ==
    /\ now \in 0 .. MaxTime
    /\ active \subseteq Persons /\ credential \subseteq Persons
    /\ Len(setups) <= MaxSetups
    /\ \A s \in 1 .. Len(setups) : setups[s].redeemed <=> setups[s].spent
    /\ Expected <= MaxTokens
    /\ \A t \in Issued : tokens[t] \in Tokens /\ (tokens[t].exchanged <=> tokens[t].spent)
    /\ \A c \in Clients : request[c].kind \in Kinds /\ request[c].phase \in Phases
    /\ ended \subseteq Issued

\* However often a session is refreshed, by however many rivals, it ends when
\* its sign-in said: each token has the deadline of the first, and none came of
\* a request made at that deadline or later (decideRefresh, Successor).
RotationNeverExtends ==
    /\ \A t \in Issued : tokens[t].expires = FirstOf(t).expires
    /\ \A c \in Clients : ~request[c].late

\* Ended means ended: when a sign-out, a token presented twice, a deactivated
\* person's refresh or a redemption has ended a session, every token it had when
\* that statement began is dead for good, and so is whatever anybody obtains with
\* one of them later. Only a request that had already found its token survives.
EndedStaysEnded == \A t \in ended : tokens[t].invalidated

\* A token, to refresh or to set a password with, is spent a second time only by
\* requests that overlap: whoever finds it once a use of it has committed is
\* refused, although no mark is checked to have marked anything.
SpentOnceUnlessOverlapping ==
    \A c \in Clients : request[c].phase \in {"person", "mark", "password", "insert"}
                       => ~request[c].spent

\* A lock never outlives its request: whoever waits for a row waits for somebody in
\* flight. And requests wait for one another in a cycle only when each is at an update
\* of several rows (invalidate): all come to the setup token, the password and the
\* refresh tokens in that order, and an exchange, once it has locked its one row, waits
\* for none. So the deadlock the database breaks takes sweeps, never an exchange.
OnlySweepsDeadlock ==
    /\ \A c, d \in Clients : WaitsFor(c, d) => InFlight(d)
    /\ \A c \in Clients : InWaitCycle(c) => request[c].phase = "apply"

=============================================================================
