--------------------------- MODULE SessionsProofs ---------------------------
(***************************************************************************)
(* Proofs about sessions, for any number of people and requests at once.   *)
(***************************************************************************)
EXTENDS SessionsInductive, FiniteSetTheorems, SequenceTheorems, TLAPS

-----------------------------------------------------------------------------
(* Rows are inserted and marked, and never taken back.                     *)

TokensGrow ==
    /\ Len(tokens) <= Len(tokens')
    /\ \A t \in Issued : /\ tokens'[t].family = tokens[t].family
                         /\ tokens'[t].person = tokens[t].person
                         /\ tokens'[t].expires = tokens[t].expires
                         /\ tokens[t].exchanged => tokens'[t].exchanged
                         /\ tokens[t].invalidated => tokens'[t].invalidated

SetupsGrow ==
    /\ Len(setups) <= Len(setups')
    /\ \A s \in 1 .. Len(setups) : setups[s].redeemed => setups'[s].redeemed

LEMMA Lengths ==
    ASSUME SessionTypes
    PROVE  /\ Len(tokens) \in Nat /\ Len(setups) \in Nat
           /\ \A t \in Issued : tokens[t] \in TokenRows
           /\ \A s \in 1 .. Len(setups) : setups[s] \in SetupRows
           /\ DOMAIN setups = 1 .. Len(setups)
  BY ElementOfSeq, LenProperties DEF SessionTypes, Issued

LEMMA TokenFields ==
    ASSUME NEW row \in TokenRows
    PROVE  /\ row.family \in Nat /\ row.person \in Persons /\ row.expires \in Nat
           /\ row.exchanged \in BOOLEAN /\ row.invalidated \in BOOLEAN /\ row.spent \in BOOLEAN
  BY DEF TokenRows

LEMMA IdleRequest ==
    /\ Idle \in Requests
    /\ Idle.kind = "none" /\ Idle.phase = "idle" /\ ~Idle.spent /\ ~Idle.ended /\ ~Idle.late
  BY DEF Idle, Requests, Kinds, Phases, Scopes

LEMMA RequestFields ==
    ASSUME NEW r \in Requests
    PROVE  /\ r.kind \in Kinds /\ r.phase \in Phases /\ r.at \in Nat /\ r.row \in Nat
           /\ r.person \subseteq Persons /\ r.scope \in Scopes /\ r.marked \in BOOLEAN
           /\ r.targets \subseteq Nat /\ r.before \in Nat
           /\ r.held \subseteq Nat /\ r.waits \in Nat
           /\ r.spent \in BOOLEAN /\ r.ended \in BOOLEAN /\ r.late \in BOOLEAN
  BY DEF Requests

\* What a request has found stays found, whoever inserts or marks meanwhile.
LEMMA Bystander ==
    ASSUME SessionInv, TokensGrow, SetupsGrow, SessionTypes',
           NEW d \in Clients, request'[d] = request[d]
    PROVE  Found(request[d])' /\ SweepCovers(request[d])'
<1> DEFINE r == request[d]
<1>1. /\ r \in Requests /\ Found(r) /\ SweepCovers(r)
      /\ Len(tokens) \in Nat /\ Len(setups) \in Nat
      /\ Len(tokens)' \in Nat /\ Len(setups)' \in Nat
  BY Lengths DEF SessionInv, SessionTypes
<1>2. r.before \in Nat /\ r.row \in Nat
  BY <1>1, RequestFields
<1>3. Found(request[d])'
  BY <1>1, <1>2 DEF Found, Issued, TokensGrow, SetupsGrow
<1>4. SweepCovers(request[d])'
  <2> SUFFICES ASSUME r.phase = "apply"
               PROVE  /\ r.before \in 0 .. Len(tokens)'
                      /\ \A t \in 1 .. r.before :
                            InScope(t, r)' => t \in r.targets \/ tokens'[t].invalidated
    BY DEF SweepCovers, InScope
  <2>1. r.before \in 0 .. Len(tokens)'
    BY <1>1 DEF SweepCovers, TokensGrow
  <2>2. ASSUME NEW t \in 1 .. r.before, InScope(t, r)'
        PROVE  t \in r.targets \/ tokens'[t].invalidated
    <3>1. t \in Issued
      BY <1>1, <2>2 DEF SweepCovers, Issued
    <3>2. r.scope = "person" \/ r.row \in Issued
      BY <1>1 DEF Found
    <3>3. InScope(t, r)
      BY <2>2, <3>1, <3>2 DEF InScope, TokensGrow
    <3> QED
      BY <1>1, <2>2, <3>1, <3>3 DEF SweepCovers, TokensGrow
  <2> QED
    BY <2>1, <2>2
<1> QED
  BY <1>3, <1>4

\* A step of one request.
LEMMA StepOfOne ==
    ASSUME SessionInv, TokensGrow, SetupsGrow,
           SessionTypes', TokensAgree', SetupsAgree', EndedStaysEnded',
           NEW c \in Clients, request'[c] \in Requests,
           request' = [request EXCEPT ![c] = request'[c]],
           Found(request[c])', SweepCovers(request[c])'
    PROVE  SessionInv'
<1>1. /\ request' \in [Clients -> Requests]
      /\ \A d \in Clients : d # c => request'[d] = request[d]
  BY DEF SessionInv
<1>2. \A d \in Clients : Found(request[d])' /\ SweepCovers(request[d])'
  BY <1>1, Bystander
<1> QED
  BY <1>1, <1>2 DEF SessionInv

\* One that writes nothing.
LEMMA Untouched ==
    ASSUME SessionInv, now' \in Nat, active' \subseteq Persons,
           UNCHANGED <<credential, setups, tokens, ended>>
    PROVE  /\ TokensGrow /\ SetupsGrow
           /\ SessionTypes' /\ TokensAgree' /\ SetupsAgree' /\ EndedStaysEnded'
<1>1. Len(tokens) \in Nat /\ Len(setups) \in Nat
  BY Lengths DEF SessionInv
<1> QED
  BY <1>1 DEF SessionInv, SessionTypes, TokensAgree, SetupsAgree, EndedStaysEnded, Issued, FirstOf,
         TokensGrow, SetupsGrow

LEMMA RequestGoesOn ==
    ASSUME SessionInv, UNCHANGED <<now, active, credential, setups, tokens, ended>>,
           NEW c \in Clients, NEW r \in Requests, request' = [request EXCEPT ![c] = r],
           Found(r), SweepCovers(r)
    PROVE  SessionInv'
<1>1. request'[c] = r
  BY DEF SessionInv
<1>2. Found(request[c])' /\ SweepCovers(request[c])'
  BY <1>1 DEF Found, SweepCovers, Issued, InScope
<1>3. now' \in Nat /\ active' \subseteq Persons
  BY DEF SessionInv, SessionTypes
<1> QED
  BY <1>1, <1>2, <1>3, Untouched, StepOfOne

LEMMA IdleFound == Found(Idle) /\ SweepCovers(Idle)
  BY IdleRequest DEF Found, SweepCovers

\* A statement of a sweep has begun.
LEMMA SweepBegins ==
    ASSUME SessionTypes, NEW r \in Requests
    PROVE  /\ Swept(r) \in Requests /\ SweepCovers(Swept(r))
           /\ Swept(r).phase = "apply" /\ Swept(r).kind = r.kind /\ Swept(r).row = r.row
           /\ Swept(r).scope = r.scope /\ Swept(r).marked = r.marked
           /\ Swept(r).spent = r.spent /\ Swept(r).ended = r.ended /\ Swept(r).late = r.late
<1> DEFINE seen == {t \in Issued : InScope(t, r) /\ ~tokens[t].invalidated}
           s == [r EXCEPT !.phase = "apply", !.before = Len(tokens), !.targets = seen]
<1>1. Len(tokens) \in Nat /\ seen \subseteq Nat
  BY Lengths DEF Issued
<1>2. seen = {t \in Issued : InScope(t, r) /\ ~tokens[t].invalidated}
  OBVIOUS
<1>3. Swept(r) = s
  BY DEF Swept
<1> HIDE DEF seen
<1>4. /\ s \in Requests /\ s.phase = "apply" /\ s.before = Len(tokens) /\ s.targets = seen
      /\ s.kind = r.kind /\ s.row = r.row /\ s.scope = r.scope /\ s.marked = r.marked
      /\ s.person = r.person
      /\ s.spent = r.spent /\ s.ended = r.ended /\ s.late = r.late
  BY <1>1 DEF Requests, Phases
<1> HIDE DEF s
<1>5. \A t : InScope(t, s) <=> InScope(t, r)
  BY <1>4 DEF InScope
<1>6. SweepCovers(s)
  BY <1>1, <1>2, <1>4, <1>5 DEF SweepCovers, Issued
<1> QED
  BY <1>3, <1>4, <1>6

-----------------------------------------------------------------------------
(* The invariant holds at first.                                           *)

LEMMA SessionsInit == Init => SessionInv
<1> SUFFICES ASSUME Init PROVE SessionInv
  OBVIOUS
<1> USE DEF Init
<1>1. SessionTypes /\ Len(tokens) = 0 /\ Len(setups) = 0
  BY EmptySeq DEF SessionTypes
<1>2. TokensAgree /\ SetupsAgree /\ EndedStaysEnded
  BY <1>1 DEF TokensAgree, SetupsAgree, EndedStaysEnded, Issued
<1> QED
  BY <1>1, <1>2, IdleRequest, IdleFound DEF SessionInv

-----------------------------------------------------------------------------
(* Steps of nobody's request.                                              *)

LEMMA Elsewhere ==
    ASSUME SessionInv, UNCHANGED <<request, tokens, ended>>, SetupsGrow,
           SessionTypes', SetupsAgree'
    PROVE  SessionInv'
<1>1. TokensGrow /\ TokensAgree' /\ EndedStaysEnded'
  BY Lengths DEF SessionInv, TokensGrow, TokensAgree, EndedStaysEnded, Issued, FirstOf
<1>2. \A d \in Clients : Found(request[d])' /\ SweepCovers(request[d])'
  BY <1>1, Bystander
<1> QED
  BY <1>1, <1>2 DEF SessionInv

LEMMA TickStep ==
    ASSUME SessionInv, Tick
    PROVE  SessionInv'
<1>1. now' \in Nat
  BY DEF Tick, SessionInv, SessionTypes
<1> QED
  BY <1>1, Untouched, Elsewhere DEF Tick, SessionInv, SessionTypes

LEMMA DeactivatePersonStep ==
    ASSUME SessionInv, NEW p \in Persons, DeactivatePerson(p)
    PROVE  SessionInv'
<1>1. active' \subseteq Persons /\ now' \in Nat
  BY DEF DeactivatePerson, SessionInv, SessionTypes
<1> QED
  BY <1>1, Untouched, Elsewhere DEF DeactivatePerson

LEMMA IssueSetupTokenStep ==
    ASSUME SessionInv, NEW p \in Persons, IssueSetupToken(p)
    PROVE  SessionInv'
<1> DEFINE setup == [person |-> p, expires |-> setupTokenDeadline(now),
                     redeemed |-> FALSE, spent |-> FALSE]
<1>1. /\ setup \in SetupRows /\ ~setup.redeemed /\ ~setup.spent
      /\ setups' = Append(setups, setup) /\ setups \in Seq(SetupRows)
      /\ UNCHANGED <<now, active, credential, tokens, request, ended>>
  BY SessionBounds DEF SetupRows, setupTokenDeadline, SessionInv, SessionTypes, IssueSetupToken
<1> HIDE DEF setup
<1>2. /\ setups' \in Seq(SetupRows) /\ Len(setups) \in Nat /\ Len(setups)' = Len(setups) + 1
      /\ \A s \in 1 .. Len(setups) : setups'[s] = setups[s]
      /\ setups'[Len(setups) + 1] = setup
  BY <1>1
<1>3. SetupsGrow
  BY <1>2 DEF SetupsGrow
<1>4. SetupsAgree'
  BY <1>1, <1>2 DEF SetupsAgree, SessionInv
<1>5. SessionTypes'
  BY <1>1, <1>2 DEF SessionTypes, SessionInv, Issued
<1> QED
  BY <1>1, <1>3, <1>4, <1>5, Elsewhere

-----------------------------------------------------------------------------
(* Requests that arrive.                                                   *)

LEMMA SignInStep ==
    ASSUME SessionInv, NEW c \in Clients, NEW p \in Persons, NEW at \in 0 .. now, SignIn(c, p, at)
    PROVE  SessionInv'
<1> DEFINE r == [Idle EXCEPT !.kind = "sign-in", !.phase = "insert", !.person = {p}, !.at = at]
<1>1. /\ UNCHANGED <<now, active, credential, setups, tokens, ended>>
      /\ at \in Nat /\ {p} \in SUBSET Persons
  BY DEF SignIn, SessionInv, SessionTypes
<1>2. CASE UNCHANGED request
  BY <1>1, <1>2, Untouched, Elsewhere DEF SessionInv, SessionTypes
<1>3. CASE request' = [request EXCEPT ![c] = r]
  <2>1. /\ r \in Requests /\ r.kind = "sign-in" /\ r.phase = "insert"
        /\ ~r.spent /\ ~r.ended /\ ~r.late
    BY <1>1 DEF Idle, Requests, Kinds, Phases, Scopes
  <2> HIDE DEF r
  <2>2. Found(r) /\ SweepCovers(r)
    BY <2>1 DEF Found, SweepCovers
  <2> QED
    BY <1>1, <1>3, <2>1, <2>2, RequestGoesOn
<1> QED
  BY <1>2, <1>3 DEF SignIn

LEMMA RefreshStep ==
    ASSUME SessionInv, NEW c \in Clients, NEW t \in Issued, NEW at \in 0 .. now, Refresh(c, t, at)
    PROVE  SessionInv'
<1> DEFINE r == [Idle EXCEPT !.kind = "refresh", !.row = t, !.person = {tokens[t].person}]
           reuse == [r EXCEPT !.phase = "sweep"]
           use == [r EXCEPT !.phase = "person", !.spent = tokens[t].spent,
                            !.ended = t \in ended, !.late = at >= FirstOf(t).expires]
<1>1. /\ UNCHANGED <<now, active, credential, setups, tokens, ended>>
      /\ now \in Nat /\ at \in Nat /\ t \in Nat /\ tokens[t] \in TokenRows /\ tokens[t].person \in Persons
      /\ tokens[t].expires \in Nat /\ tokens[t].spent \in BOOLEAN
  BY Lengths, TokenFields DEF Refresh, SessionInv, SessionTypes, Issued
<1>2. /\ r \in Requests /\ r.kind = "refresh" /\ r.row = t
      /\ ~r.spent /\ ~r.ended /\ ~r.late
  BY <1>1 DEF Idle, Requests, Kinds, Phases, Scopes
<1>3. CASE UNCHANGED request
  BY <1>1, <1>3, Untouched, Elsewhere DEF SessionInv, SessionTypes
<1>4. CASE request' = [request EXCEPT ![c] = reuse]
  <2> HIDE DEF r
  <2>1. /\ reuse \in Requests /\ reuse.kind = "refresh" /\ reuse.row = t /\ reuse.phase = "sweep"
        /\ ~reuse.spent /\ ~reuse.ended /\ ~reuse.late
    BY <1>2 DEF Requests, Phases
  <2> HIDE DEF reuse
  <2>2. Found(reuse) /\ SweepCovers(reuse)
    BY <2>1 DEF Found, SweepCovers
  <2> QED
    BY <1>1, <1>4, <2>1, <2>2, RequestGoesOn
<1>5. CASE decideRefresh(tokens[t], at) = "exchange" /\ request' = [request EXCEPT ![c] = use]
  <2>1. ~tokens[t].invalidated /\ ~tokens[t].exchanged /\ ~(at >= tokens[t].expires)
    BY <1>5 DEF decideRefresh
  <2>2. ~tokens[t].spent /\ t \notin ended /\ ~(at >= FirstOf(t).expires)
    BY <2>1 DEF SessionInv, TokensAgree, EndedStaysEnded
  <2> HIDE DEF r
  <2>3. /\ use \in Requests /\ use.kind = "refresh" /\ use.row = t /\ use.phase = "person"
        /\ ~use.spent /\ ~use.ended /\ ~use.late
    <3> DEFINE found == [r EXCEPT !.phase = "person", !.spent = FALSE, !.ended = FALSE,
                                  !.late = FALSE]
    <3>1. /\ tokens[t].spent = FALSE /\ (t \in ended) = FALSE
          /\ (at >= FirstOf(t).expires) = FALSE
      BY <1>1, <2>2
    <3>2. use = found
      BY <3>1
    <3> HIDE DEF use
    <3>3. /\ found \in Requests /\ found.kind = "refresh" /\ found.row = t
          /\ found.phase = "person" /\ ~found.spent /\ ~found.ended /\ ~found.late
      BY <1>2 DEF Requests, Phases
    <3> QED
      BY <3>2, <3>3
  <2> HIDE DEF use
  <2>4. Found(use) /\ SweepCovers(use)
    BY <2>3 DEF Found, SweepCovers
  <2> QED
    BY <1>1, <1>5, <2>3, <2>4, RequestGoesOn
<1> QED
  BY <1>3, <1>4, <1>5 DEF Refresh

LEMMA SignOutStep ==
    ASSUME SessionInv, NEW c \in Clients, NEW t \in Issued, NEW scope \in Scopes,
           SignOut(c, t, scope)
    PROVE  SessionInv'
<1> DEFINE r == [Idle EXCEPT !.kind = "sign-out", !.row = t, !.scope = scope,
                             !.person = {tokens[t].person}]
<1>1. /\ UNCHANGED <<now, active, credential, setups, tokens, ended>>
      /\ t \in Nat /\ tokens[t].person \in Persons /\ SessionTypes
      /\ request' = [request EXCEPT ![c] = Swept(r)]
  BY Lengths, TokenFields DEF SignOut, SessionInv, SessionTypes, Issued
<1>2. r \in Requests /\ r.kind = "sign-out" /\ r.row = t /\ ~r.spent /\ ~r.ended /\ ~r.late
  BY <1>1 DEF Idle, Requests, Kinds, Phases
<1> HIDE DEF r
<1>3. Found(Swept(r))
  BY <1>1, <1>2, SweepBegins DEF Found
<1> QED
  BY <1>1, <1>2, <1>3, SweepBegins, RequestGoesOn

LEMMA RedeemStep ==
    ASSUME SessionInv, NEW c \in Clients, NEW s \in DOMAIN setups, NEW at \in 0 .. now,
           Redeem(c, s, at)
    PROVE  SessionInv'
<1> DEFINE r == [Idle EXCEPT !.kind = "redeem", !.phase = "mark", !.row = s, !.scope = "person",
                             !.person = {setups[s].person}, !.spent = setups[s].spent]
<1>1. /\ UNCHANGED <<now, active, credential, setups, tokens, ended>>
      /\ s \in 1 .. Len(setups) /\ s \in Nat /\ setups[s] \in SetupRows
  BY Lengths DEF Redeem, SessionInv
<1>2. CASE UNCHANGED request
  BY <1>1, <1>2, Untouched, Elsewhere DEF SessionInv, SessionTypes
<1>3. CASE Redeemable(setups[s], at) /\ request' = [request EXCEPT ![c] = r]
  <2>1. ~setups[s].spent
    BY <1>1, <1>3 DEF Redeemable, SessionInv, SetupsAgree
  <2>2. setups[s].person \in Persons /\ setups[s].spent \in BOOLEAN
    BY <1>1 DEF SetupRows
  <2>3. /\ r \in Requests /\ r.kind = "redeem" /\ r.row = s /\ r.phase = "mark"
        /\ r.scope = "person" /\ ~r.spent /\ ~r.ended /\ ~r.late
    BY <1>1, <2>1, <2>2 DEF Idle, Requests, Kinds, Phases, Scopes
  <2> HIDE DEF r
  <2>4. Found(r) /\ SweepCovers(r)
    BY <1>1, <2>3 DEF Found, SweepCovers
  <2> QED
    BY <1>1, <1>3, <2>3, <2>4, RequestGoesOn
<1> QED
  BY <1>2, <1>3 DEF Redeem

-----------------------------------------------------------------------------
(* Requests that go on.                                                    *)

LEMMA Current ==
    ASSUME SessionInv, NEW c \in Clients
    PROVE  /\ SessionTypes /\ request[c] \in Requests
           /\ Found(request[c]) /\ SweepCovers(request[c])
  BY DEF SessionInv

LEMMA RefreshPersonStep ==
    ASSUME SessionInv, NEW c \in Clients, RefreshPerson(c)
    PROVE  SessionInv'
<1> DEFINE r == request[c]
           next == [r EXCEPT !.phase = "mark"]
           refused == [r EXCEPT !.scope = "person"]
<1>1. /\ UNCHANGED <<now, active, credential, setups, tokens, ended>>
      /\ r.kind = "refresh" /\ r.phase = "person"
      /\ r \in Requests /\ Found(r) /\ SessionTypes
  BY Current DEF RefreshPerson
<1>2. \/ request' = [request EXCEPT ![c] = next]
      \/ request' = [request EXCEPT ![c] = Swept(refused)]
  BY DEF RefreshPerson
<1>3. /\ next \in Requests /\ next.phase = "mark" /\ next.kind = r.kind /\ next.row = r.row
      /\ next.spent = r.spent /\ next.ended = r.ended /\ next.late = r.late
      /\ refused \in Requests /\ refused.kind = r.kind /\ refused.row = r.row
      /\ refused.spent = r.spent /\ refused.ended = r.ended /\ refused.late = r.late
  BY <1>1 DEF Requests, Phases, Scopes
<1> HIDE DEF next, refused
<1>4. Found(next) /\ SweepCovers(next)
  BY <1>1, <1>3 DEF Found, SweepCovers
<1>5. Found(Swept(refused))
  BY <1>1, <1>3, SweepBegins DEF Found
<1>6. CASE request' = [request EXCEPT ![c] = next]
  BY <1>1, <1>3, <1>4, <1>6, RequestGoesOn
<1>7. CASE request' = [request EXCEPT ![c] = Swept(refused)]
  BY <1>1, <1>3, <1>5, <1>7, SweepBegins, RequestGoesOn
<1> QED
  BY <1>2, <1>6, <1>7

LEMMA MarkExchangedStep ==
    ASSUME SessionInv, NEW c \in Clients, MarkExchanged(c)
    PROVE  SessionInv'
<1> DEFINE r == request[c]
           marked == ~tokens[r.row].exchanged
           held == IF tokens[r.row].exchanged THEN {} ELSE {r.row}
           next == [r EXCEPT !.phase = "insert", !.marked = marked, !.held = held]
<1>1. /\ UNCHANGED <<now, active, credential, setups, tokens, ended>>
      /\ r.kind = "refresh" /\ r.phase = "mark"
      /\ r \in Requests /\ Found(r) /\ SessionTypes
      /\ request' = [request EXCEPT ![c] = next]
  BY Current DEF MarkExchanged
<1>2. marked \in BOOLEAN /\ (marked \/ tokens[r.row].exchanged) /\ held \in SUBSET Nat
  BY <1>1, RequestFields
<1> HIDE DEF marked, held
<1>3. /\ next \in Requests /\ next.phase = "insert" /\ next.kind = r.kind /\ next.row = r.row
      /\ next.marked = marked
      /\ next.spent = r.spent /\ next.ended = r.ended /\ next.late = r.late
  BY <1>1, <1>2 DEF Requests, Phases
<1> HIDE DEF next
<1>4. Found(next) /\ SweepCovers(next)
  BY <1>1, <1>2, <1>3 DEF Found, SweepCovers
<1> QED
  BY <1>1, <1>3, <1>4, RequestGoesOn

LEMMA SweepStep ==
    ASSUME SessionInv, NEW c \in Clients, Sweep(c)
    PROVE  SessionInv'
<1>1. /\ UNCHANGED <<now, active, credential, setups, tokens, ended>>
      /\ request[c].phase = "sweep" /\ request[c] \in Requests /\ Found(request[c]) /\ SessionTypes
      /\ request' = [request EXCEPT ![c] = Swept(request[c])]
  BY Current DEF Sweep
<1>2. Found(Swept(request[c]))
  BY <1>1, SweepBegins DEF Found
<1> QED
  BY <1>1, <1>2, SweepBegins, RequestGoesOn

LEMMA MarkSetupTokenRedeemedStep ==
    ASSUME SessionInv, NEW c \in Clients, MarkSetupTokenRedeemed(c)
    PROVE  SessionInv'
<1> DEFINE r == request[c]
           marked == ~setups[r.row].redeemed
           next == [r EXCEPT !.phase = "password", !.marked = marked]
<1>1. /\ UNCHANGED <<now, active, credential, setups, tokens, ended>>
      /\ r.kind = "redeem" /\ r.phase = "mark"
      /\ r \in Requests /\ Found(r) /\ SessionTypes
      /\ request' = [request EXCEPT ![c] = next]
  BY Current DEF MarkSetupTokenRedeemed
<1>2. marked \in BOOLEAN /\ (marked \/ setups[r.row].redeemed)
  OBVIOUS
<1> HIDE DEF marked
<1>3. /\ next \in Requests /\ next.phase = "password" /\ next.kind = r.kind /\ next.row = r.row
      /\ next.marked = marked /\ next.scope = r.scope
      /\ next.spent = r.spent /\ next.ended = r.ended /\ next.late = r.late
  BY <1>1, <1>2 DEF Requests, Phases
<1> HIDE DEF next
<1>4. Found(next) /\ SweepCovers(next)
  BY <1>1, <1>2, <1>3 DEF Found, SweepCovers
<1> QED
  BY <1>1, <1>3, <1>4, RequestGoesOn

LEMMA InvalidateRowStep ==
    ASSUME SessionInv, NEW c \in Clients, InvalidateRow(c)
    PROVE  SessionInv'
<1> DEFINE r == request[c]
<1>1. /\ UNCHANGED <<now, active, credential, setups, tokens, ended>>
      /\ r \in Requests /\ Found(r) /\ SweepCovers(r) /\ r.targets \subseteq Nat
      /\ r.held \subseteq Nat
  BY Current, RequestFields DEF InvalidateRow
<1>2. PICK t \in r.targets \ r.held :
        \/ request' = [request EXCEPT ![c] = [r EXCEPT !.waits = t]]
        \/ request' = [request EXCEPT ![c] = [r EXCEPT !.waits = 0, !.held = r.held \cup {t}]]
  BY DEF InvalidateRow
<1> DEFINE waiting == [r EXCEPT !.waits = t]
           locking == [r EXCEPT !.waits = 0, !.held = r.held \cup {t}]
<1>3. ASSUME NEW s \in Requests, s.kind = r.kind, s.phase = r.phase, s.row = r.row,
             s.scope = r.scope, s.person = r.person, s.marked = r.marked, s.targets = r.targets,
             s.before = r.before, s.spent = r.spent, s.ended = r.ended, s.late = r.late
      PROVE  Found(s) /\ SweepCovers(s)
  BY <1>1, <1>3 DEF Found, SweepCovers, InScope
<1>4. CASE request' = [request EXCEPT ![c] = waiting]
  <2>1. /\ waiting \in Requests /\ waiting.kind = r.kind /\ waiting.phase = r.phase
        /\ waiting.row = r.row /\ waiting.scope = r.scope /\ waiting.person = r.person
        /\ waiting.marked = r.marked /\ waiting.targets = r.targets
        /\ waiting.before = r.before /\ waiting.spent = r.spent
        /\ waiting.ended = r.ended /\ waiting.late = r.late
    BY <1>1 DEF Requests
  <2> HIDE DEF waiting
  <2>2. Found(waiting) /\ SweepCovers(waiting)
    BY <1>3, <2>1
  <2> QED
    BY <1>1, <1>4, <2>1, <2>2, RequestGoesOn
<1>5. CASE request' = [request EXCEPT ![c] = locking]
  <2>1. /\ locking \in Requests /\ locking.kind = r.kind /\ locking.phase = r.phase
        /\ locking.row = r.row /\ locking.scope = r.scope /\ locking.person = r.person
        /\ locking.marked = r.marked /\ locking.targets = r.targets
        /\ locking.before = r.before /\ locking.spent = r.spent
        /\ locking.ended = r.ended /\ locking.late = r.late
    BY <1>1 DEF Requests
  <2> HIDE DEF locking
  <2>2. Found(locking) /\ SweepCovers(locking)
    BY <1>3, <2>1
  <2> QED
    BY <1>1, <1>5, <2>1, <2>2, RequestGoesOn
<1> QED
  BY <1>2, <1>4, <1>5

LEMMA EstablishPasswordStep ==
    ASSUME SessionInv, NEW c \in Clients, EstablishPassword(c)
    PROVE  SessionInv'
<1>1. /\ UNCHANGED <<now, active, credential, setups, tokens, ended>>
      /\ request[c].kind = "redeem" /\ request[c].phase = "password"
      /\ request[c] \in Requests /\ Found(request[c]) /\ SessionTypes
      /\ request' = [request EXCEPT ![c] = Swept(request[c])]
  BY Current DEF EstablishPassword
<1>2. Found(Swept(request[c]))
  BY <1>1, SweepBegins DEF Found
<1> QED
  BY <1>1, <1>2, SweepBegins, RequestGoesOn

LEMMA FailStep ==
    ASSUME SessionInv, NEW c \in Clients, Fail(c)
    PROVE  SessionInv'
  BY IdleRequest, IdleFound, RequestGoesOn DEF Fail

LEMMA AbortDeadlockedStep ==
    ASSUME SessionInv, NEW c \in Clients, AbortDeadlocked(c)
    PROVE  SessionInv'
  BY IdleRequest, IdleFound, RequestGoesOn DEF AbortDeadlocked

-----------------------------------------------------------------------------
(* Tokens inserted.                                                        *)

\* One more row, after rows that keep family, person, deadline and whatever marks
\* they had.
LEMMA TokenInserted ==
    ASSUME SessionInv, NEW rows \in Seq(TokenRows), NEW row \in TokenRows,
           Len(rows) = Len(tokens), tokens' = Append(rows, row), ended' = ended,
           \A t \in Issued : /\ rows[t].family = tokens[t].family
                             /\ rows[t].person = tokens[t].person
                             /\ rows[t].expires = tokens[t].expires
                             /\ tokens[t].exchanged => rows[t].exchanged
                             /\ tokens[t].invalidated => rows[t].invalidated
                             /\ rows[t].exchanged <=> rows[t].spent,
           row.exchanged <=> row.spent,
           \/ row.family = Len(tokens) + 1
           \/ row.family \in Issued /\ row.expires = tokens[row.family].expires
    PROVE  /\ TokensGrow /\ TokensAgree' /\ EndedStaysEnded'
           /\ tokens' \in Seq(TokenRows) /\ ended' \subseteq Issued'
<1> DEFINE new == Len(tokens) + 1
<1>1. Len(tokens) \in Nat
  BY Lengths DEF SessionInv
<1>2. /\ tokens' \in Seq(TokenRows) /\ Len(tokens)' = new /\ tokens'[new] = row
      /\ \A t \in Issued : tokens'[t] = rows[t]
  BY <1>1 DEF Issued
<1>3. Issued' = Issued \cup {new} /\ new \notin Issued
  BY <1>1, <1>2 DEF Issued
<1>4. TokensGrow
  <2>1. Len(tokens) <= Len(tokens')
    BY <1>1, <1>2
  <2>2. \A t \in Issued : /\ tokens'[t].family = tokens[t].family
                          /\ tokens'[t].person = tokens[t].person
                          /\ tokens'[t].expires = tokens[t].expires
                          /\ tokens[t].exchanged => tokens'[t].exchanged
                          /\ tokens[t].invalidated => tokens'[t].invalidated
    <3> SUFFICES ASSUME NEW t \in Issued
                 PROVE  /\ tokens'[t].family = tokens[t].family
                        /\ tokens'[t].person = tokens[t].person
                        /\ tokens'[t].expires = tokens[t].expires
                        /\ tokens[t].exchanged => tokens'[t].exchanged
                        /\ tokens[t].invalidated => tokens'[t].invalidated
      OBVIOUS
    <3>1. tokens'[t] = rows[t]
      BY <1>2
    <3> QED
      BY <3>1
  <2> QED
    BY <2>1, <2>2 DEF TokensGrow
<1>5. \A t \in Issued : tokens[t].family \in Issued /\ tokens[t].expires = tokens[tokens[t].family].expires
  BY DEF SessionInv, TokensAgree, FirstOf
<1>6. TokensAgree'
  <2> DEFINE kept(t) == /\ tokens'[t].family = tokens[t].family
                        /\ tokens'[t].expires = tokens[t].expires
  <2>0. \A t \in Issued : kept(t)
    BY <1>4 DEF TokensGrow
  <2>1. ASSUME NEW t \in Issued
        PROVE  /\ tokens'[t].family \in Issued'
               /\ tokens'[t].expires = tokens'[tokens'[t].family].expires
               /\ tokens'[t].exchanged <=> tokens'[t].spent
    <3>1. tokens'[t].exchanged <=> tokens'[t].spent
      BY <1>2, Zenon
    <3>2. kept(t) /\ tokens[t].family \in Issued
      BY <1>5, <2>0
    <3>3. kept(tokens[t].family)
      BY <2>0, <3>2
    <3>4. tokens'[t].expires = tokens'[tokens'[t].family].expires
      <4>1. tokens'[t].family = tokens[t].family /\ tokens'[t].expires = tokens[t].expires
        BY <3>2
      <4>2. tokens'[tokens[t].family].expires = tokens[tokens[t].family].expires
        BY <3>3
      <4>3. tokens[t].expires = tokens[tokens[t].family].expires
        BY <1>5
      <4> QED
        BY <4>1, <4>2, <4>3
    <3> QED
      BY <1>3, <3>1, <3>2, <3>4, Zenon
  <2>2. /\ tokens'[new].family \in Issued'
        /\ tokens'[new].expires = tokens'[tokens'[new].family].expires
        /\ tokens'[new].exchanged <=> tokens'[new].spent
    <3>1. tokens'[new].exchanged <=> tokens'[new].spent
      BY <1>2, Zenon
    <3>2. CASE row.family = new
      BY <1>2, <1>3, <3>1, <3>2, Zenon
    <3>3. CASE row.family \in Issued /\ row.expires = tokens[row.family].expires
      BY <1>2, <1>3, <2>0, <3>1, <3>3, Zenon
    <3> QED
      BY <3>2, <3>3
  <2> QED
    BY <1>3, <2>1, <2>2, Zenon DEF TokensAgree, FirstOf
<1>7. EndedStaysEnded' /\ ended' \subseteq Issued'
  BY <1>2, <1>3 DEF EndedStaysEnded, SessionInv, SessionTypes
<1> QED
  BY <1>2, <1>4, <1>6, <1>7

\* The end of a request that has inserted a token.
LEMMA EndsWithToken ==
    ASSUME SessionInv, TokensGrow, TokensAgree', EndedStaysEnded',
           tokens' \in Seq(TokenRows), ended' \subseteq Issued',
           UNCHANGED <<now, active, credential, setups>>,
           NEW c \in Clients, request' = [request EXCEPT ![c] = Idle]
    PROVE  SessionInv'
<1>1. SessionTypes' /\ SetupsAgree' /\ SetupsGrow
  BY Lengths DEF SessionInv, SessionTypes, SetupsAgree, SetupsGrow
<1>2. request'[c] = Idle
  BY DEF SessionInv
<1>3. Found(request[c])' /\ SweepCovers(request[c])'
  BY <1>2, IdleRequest DEF Found, SweepCovers
<1> QED
  BY <1>1, <1>2, <1>3, IdleRequest, StepOfOne

LEMMA SignInInsertStep ==
    ASSUME SessionInv, NEW c \in Clients, SignInInsert(c)
    PROVE  SessionInv'
<1>1. PICK p \in request[c].person :
        tokens' = Append(tokens, [family |-> Len(tokens) + 1, person |-> p,
                                  expires |-> sessionDeadline(request[c].at),
                                  exchanged |-> FALSE, invalidated |-> FALSE,
                                  spent |-> FALSE])
  BY DEF SignInInsert
<1> DEFINE row == [family |-> Len(tokens) + 1, person |-> p,
                   expires |-> sessionDeadline(request[c].at),
                   exchanged |-> FALSE, invalidated |-> FALSE, spent |-> FALSE]
<1>2. /\ Len(tokens) \in Nat /\ p \in Persons /\ request[c].at \in Nat
      /\ tokens \in Seq(TokenRows)
  BY Current, Lengths, RequestFields DEF SessionTypes
<1>3. /\ row \in TokenRows /\ ~row.exchanged /\ ~row.spent /\ row.family = Len(tokens) + 1
  BY <1>2, SessionBounds DEF TokenRows, sessionDeadline
<1>4. tokens' = Append(tokens, row)
  BY <1>1
<1> HIDE DEF row
<1>5. \A t \in Issued : tokens[t].exchanged <=> tokens[t].spent
  BY DEF SessionInv, TokensAgree
<1>6. /\ TokensGrow /\ TokensAgree' /\ EndedStaysEnded'
      /\ tokens' \in Seq(TokenRows) /\ ended' \subseteq Issued'
  BY <1>2, <1>3, <1>4, <1>5, TokenInserted DEF SignInInsert
<1> QED
  BY <1>6, EndsWithToken DEF SignInInsert

LEMMA RefreshInsertStep ==
    ASSUME SessionInv, NEW c \in Clients, RefreshInsert(c)
    PROVE  SessionInv'
<1> DEFINE r == request[c]
           old == tokens[r.row]
           marked == [old EXCEPT !.exchanged = @ \/ r.marked, !.spent = TRUE]
           rows == [tokens EXCEPT ![r.row] = marked]
           row == [old EXCEPT !.exchanged = FALSE, !.invalidated = FALSE, !.spent = FALSE]
<1>1. /\ r.row \in Issued /\ Len(tokens) \in Nat /\ tokens \in Seq(TokenRows) /\ old \in TokenRows
      /\ r.marked \/ old.exchanged
      /\ ~r.ended
  BY Current, Lengths DEF RefreshInsert, Found, SessionTypes
<1>2. /\ marked \in TokenRows /\ marked.exchanged /\ marked.spent /\ marked.family = old.family
      /\ marked.person = old.person /\ marked.expires = old.expires
      /\ marked.invalidated = old.invalidated
      /\ row \in TokenRows /\ ~row.exchanged /\ ~row.spent /\ row.family = old.family
      /\ row.expires = old.expires
  <2> HIDE DEF old, r
  <2>1. (old.exchanged \/ r.marked) = TRUE
    BY <1>1
  <2>2. marked = [old EXCEPT !.exchanged = TRUE, !.spent = TRUE]
    BY <2>1
  <2> HIDE DEF marked
  <2>3. /\ [old EXCEPT !.exchanged = TRUE, !.spent = TRUE] \in TokenRows
        /\ [old EXCEPT !.exchanged = TRUE, !.spent = TRUE].exchanged
        /\ [old EXCEPT !.exchanged = TRUE, !.spent = TRUE].spent
        /\ [old EXCEPT !.exchanged = TRUE, !.spent = TRUE].family = old.family
        /\ [old EXCEPT !.exchanged = TRUE, !.spent = TRUE].person = old.person
        /\ [old EXCEPT !.exchanged = TRUE, !.spent = TRUE].expires = old.expires
        /\ [old EXCEPT !.exchanged = TRUE, !.spent = TRUE].invalidated = old.invalidated
    BY <1>1 DEF TokenRows
  <2> QED
    BY <1>1, <2>2, <2>3 DEF TokenRows
<1>3. tokens' = Append(rows, row) /\ ended' = ended
  BY <1>1 DEF RefreshInsert, Marked, Successor
<1> HIDE DEF marked, row
<1>4. /\ rows \in Seq(TokenRows) /\ Len(rows) = Len(tokens) /\ rows[r.row] = marked
      /\ \A t \in Issued : t # r.row => rows[t] = tokens[t]
  BY <1>1, <1>2, ExceptSeq DEF Issued
<1> HIDE DEF rows
<1>5. \A t \in Issued : tokens[t].exchanged <=> tokens[t].spent
  BY DEF SessionInv, TokensAgree
<1>6. row.family \in Issued /\ row.expires = tokens[row.family].expires
  BY <1>1, <1>2 DEF SessionInv, TokensAgree, FirstOf
<1>7. \A t \in Issued : /\ rows[t].family = tokens[t].family
                        /\ rows[t].person = tokens[t].person
                        /\ rows[t].expires = tokens[t].expires
                        /\ tokens[t].exchanged => rows[t].exchanged
                        /\ tokens[t].invalidated => rows[t].invalidated
                        /\ rows[t].exchanged <=> rows[t].spent
  BY <1>2, <1>4, <1>5
<1>8. /\ TokensGrow /\ TokensAgree' /\ EndedStaysEnded'
      /\ tokens' \in Seq(TokenRows) /\ ended' \subseteq Issued'
  BY <1>2, <1>3, <1>4, <1>6, <1>7, TokenInserted
<1> QED
  BY <1>8, EndsWithToken DEF RefreshInsert

-----------------------------------------------------------------------------
(* Sessions ended.                                                         *)

LEMMA SetupMarked ==
    ASSUME SessionInv, NEW c \in Clients, request[c].kind = "redeem", Apply(c)
    PROVE  setups' \in Seq(SetupRows) /\ SetupsGrow /\ SetupsAgree'
<1> DEFINE s == request[c].row
           old == setups[s]
           redeemed == old.redeemed \/ request[c].marked
           row == [old EXCEPT !.redeemed = redeemed, !.spent = TRUE]
           marked == [old EXCEPT !.redeemed = TRUE, !.spent = TRUE]
<1>1. /\ s \in 1 .. Len(setups) /\ setups \in Seq(SetupRows) /\ old \in SetupRows
      /\ Len(setups) \in Nat /\ redeemed = TRUE
  BY Current, Lengths DEF Apply, Found, SessionTypes
<1>2. setups' = [setups EXCEPT ![s] = row]
  BY <1>1 DEF Apply
<1>3. row = marked
  BY <1>1
<1>4. marked \in SetupRows /\ marked.redeemed /\ marked.spent
  <2> HIDE DEF old
  <2> QED
    BY <1>1 DEF SetupRows
<1> HIDE DEF row, marked, old, redeemed
<1>5. /\ setups' \in Seq(SetupRows) /\ Len(setups') = Len(setups) /\ setups'[s] = marked
      /\ \A t \in 1 .. Len(setups) : t # s => setups'[t] = setups[t]
  <2>1. setups' = [setups EXCEPT ![s] = marked]
    BY <1>2, <1>3
  <2> HIDE DEF s
  <2> QED
    BY <1>1, <1>4, <2>1, ExceptSeq
<1>6. \A t \in 1 .. Len(setups) : setups[t].redeemed <=> setups[t].spent
  BY DEF SessionInv, SetupsAgree
<1>7. \A t \in 1 .. Len(setups) : /\ setups'[t].redeemed <=> setups'[t].spent
                                  /\ setups[t].redeemed => setups'[t].redeemed
  BY <1>4, <1>5, <1>6
<1> QED
  BY <1>1, <1>5, <1>7 DEF SetupsGrow, SetupsAgree

WithInvalidated(targets) ==
    [t \in Issued |-> IF t \in targets THEN [tokens[t] EXCEPT !.invalidated = TRUE]
                      ELSE tokens[t]]

LEMMA TokensInvalidated ==
    ASSUME SessionInv, NEW targets \in SUBSET Nat, tokens' = WithInvalidated(targets)
    PROVE  /\ tokens' \in Seq(TokenRows) /\ Len(tokens') = Len(tokens)
           /\ TokensGrow /\ TokensAgree'
           /\ \A t \in Issued : t \in targets \/ tokens[t].invalidated => tokens'[t].invalidated
<1>1. Len(tokens) \in Nat /\ \A t \in Issued : tokens[t] \in TokenRows
  BY Lengths DEF SessionInv
<1>2. ASSUME NEW t \in Issued
      PROVE  /\ tokens'[t] \in TokenRows
             /\ tokens'[t].family = tokens[t].family /\ tokens'[t].person = tokens[t].person
             /\ tokens'[t].expires = tokens[t].expires
             /\ tokens'[t].exchanged <=> tokens[t].exchanged
             /\ tokens'[t].spent <=> tokens[t].spent
             /\ t \in targets \/ tokens[t].invalidated => tokens'[t].invalidated
  <2> DEFINE old == tokens[t]
             row == [old EXCEPT !.invalidated = TRUE]
  <2>1. old \in TokenRows
    BY <1>1
  <2>2. \/ t \in targets /\ tokens'[t] = row
        \/ t \notin targets /\ tokens'[t] = old
    BY DEF WithInvalidated
  <2>3. /\ row \in TokenRows /\ row.family = old.family /\ row.person = old.person
        /\ row.expires = old.expires /\ (row.exchanged <=> old.exchanged)
        /\ (row.spent <=> old.spent) /\ row.invalidated
    <3> HIDE DEF old
    <3> QED
      BY <2>1 DEF TokenRows
  <2> HIDE DEF row, old
  <2>4. CASE t \in targets /\ tokens'[t] = row
    BY <2>3, <2>4, Zenon DEF old
  <2>5. CASE t \notin targets /\ tokens'[t] = old
    BY <2>1, <2>5, Zenon DEF old
  <2> QED
    BY <2>2, <2>4, <2>5
<1>3. tokens' \in Seq(TokenRows) /\ Len(tokens') = Len(tokens)
  <2>1. tokens' \in [1 .. Len(tokens) -> TokenRows]
    <3>1. DOMAIN tokens' = Issued /\ tokens' = [t \in Issued |-> tokens'[t]]
      BY DEF WithInvalidated
    <3> QED
      BY <1>2, <3>1 DEF Issued
  <2>2. tokens' \in Seq(TokenRows)
    BY <1>1, <2>1, SeqDef
  <2>3. DOMAIN tokens' = 1 .. Len(tokens') /\ DOMAIN tokens' = 1 .. Len(tokens)
        /\ Len(tokens') \in Nat
    BY <2>1, <2>2, LenProperties
  <2> QED
    BY <1>1, <2>2, <2>3
<1>4. \A t \in Issued : /\ tokens[t].family \in Issued
                        /\ tokens[t].expires = tokens[tokens[t].family].expires
                        /\ tokens[t].exchanged <=> tokens[t].spent
  BY DEF SessionInv, TokensAgree, FirstOf
<1>5. TokensGrow
  <2>1. Len(tokens) <= Len(tokens')
    BY <1>1, <1>3
  <2> QED
    BY <1>2, <2>1, Zenon DEF TokensGrow
<1>6. TokensAgree'
  <2>1. Issued' = Issued
    BY <1>3 DEF Issued
  <2>2. ASSUME NEW t \in Issued
        PROVE  /\ tokens'[t].family \in Issued
               /\ tokens'[t].expires = tokens'[tokens'[t].family].expires
               /\ tokens'[t].exchanged <=> tokens'[t].spent
    <3>1. /\ tokens[t].family \in Issued /\ tokens[t].expires = tokens[tokens[t].family].expires
          /\ tokens[t].exchanged <=> tokens[t].spent
      BY <1>4
    <3>2. tokens'[t].exchanged <=> tokens'[t].spent
      BY <1>2, <3>1, Zenon
    <3>3. /\ tokens'[t].family = tokens[t].family /\ tokens'[t].expires = tokens[t].expires
          /\ tokens'[tokens[t].family].expires = tokens[tokens[t].family].expires
      BY <1>2, <3>1, Zenon
    <3> QED
      BY <3>1, <3>2, <3>3, Zenon
  <2> QED
    BY <2>1, <2>2, Zenon DEF TokensAgree, FirstOf
<1> QED
  BY <1>2, <1>3, <1>5, <1>6

LEMMA ApplyStep ==
    ASSUME SessionInv, NEW c \in Clients, Apply(c)
    PROVE  SessionInv'
<1> DEFINE r == request[c]
<1>1. /\ r.phase = "apply" /\ r \in Requests /\ Found(r) /\ SweepCovers(r) /\ SessionTypes
      /\ r.targets \subseteq Nat /\ r.person \subseteq Persons
      /\ Len(tokens) \in Nat /\ Len(setups) \in Nat
  BY Current, RequestFields, Lengths DEF Apply
<1>2. /\ tokens' \in Seq(TokenRows) /\ Len(tokens') = Len(tokens)
      /\ TokensGrow /\ TokensAgree'
      /\ \A t \in Issued : t \in r.targets \/ tokens[t].invalidated => tokens'[t].invalidated
  <2>1. tokens' = WithInvalidated(r.targets)
    BY DEF Apply, WithInvalidated
  <2> QED
    BY <1>1, <2>1, TokensInvalidated
<1>3. setups' \in Seq(SetupRows) /\ SetupsGrow /\ SetupsAgree' /\ credential' \subseteq Persons
  <2>1. CASE r.kind = "redeem"
    BY <1>1, <2>1, SetupMarked DEF Apply, SessionTypes
  <2>2. CASE r.kind # "redeem"
    BY <1>1, <2>2 DEF Apply, SessionInv, SessionTypes, SetupsGrow, SetupsAgree
  <2> QED
    BY <2>1, <2>2
<1>4. \A t \in OfSession(r) : t \in Issued /\ tokens'[t].invalidated
  <2> SUFFICES ASSUME NEW t \in OfSession(r) PROVE t \in Issued /\ tokens'[t].invalidated
    OBVIOUS
  <2>1. t \in 1 .. r.before /\ InScope(t, r)
    BY DEF OfSession, InScope
  <2>2. t \in Issued /\ (t \in r.targets \/ tokens[t].invalidated)
    BY <1>1, <2>1 DEF SweepCovers, Issued
  <2> QED
    BY <1>2, <2>2
<1>5. /\ ended' = ended \cup OfSession(r) /\ UNCHANGED <<now, active>>
      /\ request' = [request EXCEPT ![c] = Idle] /\ Issued' = Issued
  BY <1>2 DEF Apply, Issued
<1>6. EndedStaysEnded' /\ ended' \subseteq Issued'
  BY <1>2, <1>4, <1>5 DEF EndedStaysEnded, SessionInv, SessionTypes
<1>7. SessionTypes'
  BY <1>1, <1>2, <1>3, <1>5, <1>6 DEF SessionTypes
<1>8. request'[c] = Idle
  BY <1>5 DEF SessionInv
<1>9. Found(request[c])' /\ SweepCovers(request[c])'
  BY <1>8, IdleRequest DEF Found, SweepCovers
<1> QED
  BY <1>2, <1>3, <1>5, <1>6, <1>7, <1>8, <1>9, IdleRequest, StepOfOne

-----------------------------------------------------------------------------
(* The theorems.                                                           *)

LEMMA SessionsStep == SessionInv /\ [Next]_vars => SessionInv'
<1> SUFFICES ASSUME SessionInv, [Next]_vars PROVE SessionInv'
  OBVIOUS
<1>1. ASSUME NEW c \in Clients, Serve(c) PROVE SessionInv'
  BY <1>1, SignInInsertStep, RefreshPersonStep, MarkExchangedStep, RefreshInsertStep, SweepStep,
     InvalidateRowStep, ApplyStep, MarkSetupTokenRedeemedStep, EstablishPasswordStep DEF Serve
<1>2. ASSUME NEW c \in Clients, Arrive(c) PROVE SessionInv'
  BY <1>2, SignInStep, RefreshStep, RedeemStep, SignOutStep DEF Arrive
<1>3. CASE UNCHANGED vars
  <2>1. UNCHANGED <<now, active, credential, setups, tokens, request, ended>>
    BY <1>3 DEF vars
  <2> QED
    BY <2>1, Untouched, Elsewhere DEF SessionInv, SessionTypes
<1> QED
  BY <1>1, <1>2, <1>3, FailStep, AbortDeadlockedStep, TickStep, DeactivatePersonStep, IssueSetupTokenStep DEF Next

\* The invariant behind what follows.
THEOREM SessionInvariant == Spec => []SessionInv
<1> QED
  BY SessionsInit, SessionsStep, PTL DEF Spec

-----------------------------------------------------------------------------
(* What is counted.                                                        *)

LEMMA InsertingCounted ==
    /\ IsFiniteSet(Inserting) /\ Cardinality(Inserting) \in Nat
    /\ Expected = Len(tokens) + Cardinality(Inserting)
<1>1. IsFiniteSet(Clients) /\ Inserting \in SUBSET Clients
  BY SessionBounds DEF Inserting
<1> QED
  BY <1>1, FS_Subset, FS_CardinalityType DEF Expected, Inserting

\* A request that arrives is counted, at most; one that goes on, or ends, no longer
\* than before.
LEMMA Counting ==
    ASSUME SessionInv, SessionInv', WithinBounds, now' = now, Len(setups') = Len(setups),
           NEW c \in Clients,
           \A d \in Clients : d # c => request'[d] = request[d],
           \/ /\ Len(tokens') = Len(tokens)
              /\ request'[c].kind \in {request[c].kind, "none", "sign-out", "redeem"}
           \/ Len(tokens') = Len(tokens) /\ Expected < MaxTokens
           \/ /\ Len(tokens') = Len(tokens) + 1
              /\ request[c].kind \in {"sign-in", "refresh"} /\ request'[c].kind = "none"
    PROVE  WithinBounds'
<1> DEFINE before == Inserting
           after == Inserting'
<1>1. /\ IsFiniteSet(before) /\ Cardinality(before) \in Nat
      /\ Expected = Len(tokens) + Cardinality(before)
      /\ Len(tokens) \in Nat /\ MaxTokens \in Nat
  BY InsertingCounted, Lengths, SessionBounds DEF SessionInv
<1>2. /\ Len(tokens) + Cardinality(before) <= MaxTokens
      /\ now' <= MaxTime /\ Len(setups)' <= MaxSetups
  BY DEF WithinBounds
<1>3. /\ before = {d \in Clients : request[d].kind \in {"sign-in", "refresh"}}
      /\ after = {d \in Clients : request'[d].kind \in {"sign-in", "refresh"}}
  BY DEF Inserting
<1> HIDE DEF before, after
<1>4. Len(tokens') + Cardinality(after) <= MaxTokens
  <2>1. CASE /\ Len(tokens') = Len(tokens)
             /\ request'[c].kind \in {request[c].kind, "none", "sign-out", "redeem"}
    <3>1. after \in SUBSET before
      BY <1>3, <2>1
    <3>2. IsFiniteSet(after) /\ Cardinality(after) <= Cardinality(before)
      BY <1>1, <3>1, FS_Subset
    <3>3. Cardinality(after) \in Nat
      BY <3>2, FS_CardinalityType
    <3> QED
      BY <1>1, <1>2, <2>1, <3>2, <3>3
  <2>2. CASE Len(tokens') = Len(tokens) /\ Expected < MaxTokens
    <3> DEFINE more == before \cup {c}
    <3>1. IsFiniteSet(more) /\ Cardinality(more) <= Cardinality(before) + 1
      <4>1. /\ IsFiniteSet(more)
            /\ Cardinality(more) = IF c \in before THEN Cardinality(before) ELSE Cardinality(before) + 1
        BY <1>1, FS_AddElement
      <4> QED
        BY <1>1, <4>1
    <3>2. after \in SUBSET more
      BY <1>3
    <3> HIDE DEF more
    <3>3. IsFiniteSet(after) /\ Cardinality(after) <= Cardinality(more)
      BY <3>1, <3>2, FS_Subset
    <3>4. Cardinality(after) \in Nat /\ Cardinality(more) \in Nat
      BY <3>1, <3>3, FS_CardinalityType
    <3> QED
      BY <1>1, <2>2, <3>1, <3>3, <3>4
  <2>3. CASE /\ Len(tokens') = Len(tokens) + 1
             /\ request[c].kind \in {"sign-in", "refresh"} /\ request'[c].kind = "none"
    <3>1. after = before \ {c} /\ c \in before
      BY <1>3, <2>3
    <3>2. Cardinality(after) = Cardinality(before) - 1
      BY <1>1, <3>1, FS_RemoveElement
    <3> QED
      BY <1>1, <1>2, <2>3, <3>2
  <2> QED
    BY <2>1, <2>2, <2>3
<1> QED
  BY <1>2, <1>4 DEF WithinBounds, after

\* A request that is replaced by another.
LEMMA CountingOne ==
    ASSUME SessionInv, SessionInv', WithinBounds, UNCHANGED <<now, setups, tokens>>,
           NEW c \in Clients, NEW r, request' = [request EXCEPT ![c] = r],
           r.kind \in {request[c].kind, "none", "sign-out", "redeem"} \/ Expected < MaxTokens
    PROVE  WithinBounds'
<1>1. request'[c] = r /\ \A d \in Clients : d # c => request'[d] = request[d]
  BY DEF SessionInv
<1> QED
  BY <1>1, Counting

LEMMA CountingNone ==
    ASSUME WithinBounds, UNCHANGED <<request, tokens>>, now' <= MaxTime, Len(setups)' <= MaxSetups
    PROVE  WithinBounds'
  BY DEF WithinBounds, Inserting


LEMMA ArrivalsCounted ==
    ASSUME SessionInv, SessionInv', WithinBounds, NEW c \in Clients, Arrive(c)
    PROVE  WithinBounds'
<1>1. ASSUME NEW p \in Persons, NEW at \in 0 .. now, SignIn(c, p, at) PROVE WithinBounds'
  BY <1>1, CountingOne, CountingNone DEF SignIn, WithinBounds
<1>2. ASSUME NEW t \in Issued, NEW at \in 0 .. now, Refresh(c, t, at) PROVE WithinBounds'
  BY <1>2, CountingOne, CountingNone DEF Refresh, WithinBounds
<1>3. ASSUME NEW s \in DOMAIN setups, NEW at \in 0 .. now, Redeem(c, s, at) PROVE WithinBounds'
  <2> DEFINE r == [Idle EXCEPT !.kind = "redeem", !.phase = "mark", !.row = s, !.scope = "person",
                               !.person = {setups[s].person}, !.spent = setups[s].spent]
  <2>1. r.kind = "redeem"
    BY DEF Idle
  <2>2. UNCHANGED <<now, setups, tokens>>
    BY <1>3 DEF Redeem
  <2>3. CASE UNCHANGED request
    BY <2>2, <2>3, CountingNone DEF WithinBounds
  <2>4. CASE request' = [request EXCEPT ![c] = r]
    <3> HIDE DEF r
    <3> QED
      BY <2>1, <2>2, <2>4, CountingOne
  <2> QED
    BY <1>3, <2>3, <2>4 DEF Redeem
<1>4. ASSUME NEW t \in Issued, NEW scope \in Scopes, SignOut(c, t, scope) PROVE WithinBounds'
  <2> DEFINE r == [Idle EXCEPT !.kind = "sign-out", !.row = t, !.scope = scope,
                               !.person = {tokens[t].person}]
  <2>1. r.kind = "sign-out" /\ r \in Requests /\ SessionTypes
    <3>1. tokens[t].person \in Persons /\ t \in Nat
      BY Lengths, TokenFields DEF SessionInv, Issued
    <3> QED
      BY <3>1 DEF Idle, Requests, Kinds, Phases, SessionInv
  <2>2. UNCHANGED <<now, setups, tokens>> /\ request' = [request EXCEPT ![c] = Swept(r)]
    BY <1>4 DEF SignOut
  <2> HIDE DEF r
  <2>3. Swept(r).kind = "sign-out"
    BY <2>1, SweepBegins
  <2> QED
    BY <2>2, <2>3, CountingOne
<1> QED
  BY <1>1, <1>2, <1>3, <1>4 DEF Arrive

LEMMA ServedCounted ==
    ASSUME SessionInv, SessionInv', WithinBounds, NEW c \in Clients, Serve(c)
    PROVE  WithinBounds'
<1> DEFINE r == request[c]
<1>1. /\ r \in Requests /\ SessionTypes /\ Found(r) /\ Swept(r).kind = r.kind
      /\ tokens \in Seq(TokenRows) /\ Len(tokens) \in Nat
      /\ r.kind \in {request[c].kind, "none", "sign-out", "redeem"}
  BY Current, SweepBegins, Lengths DEF SessionTypes
<1>2. Idle.kind = "none"
  BY IdleRequest
<1>3. CASE SignInInsert(c)
  <2>1. Len(tokens') = Len(tokens) + 1
    BY <1>1, <1>3 DEF SignInInsert
  <2>2. request'[c].kind = "none" /\ \A d \in Clients : d # c => request'[d] = request[d]
    BY <1>2, <1>3 DEF SignInInsert, SessionInv
  <2> QED
    BY <1>3, <2>1, <2>2, Counting DEF SignInInsert
<1>4. CASE RefreshPerson(c)
  <2> DEFINE next == [r EXCEPT !.phase = "mark"]
             refused == [r EXCEPT !.scope = "person"]
  <2>1. next.kind = r.kind /\ refused \in Requests /\ refused.kind = r.kind
    BY <1>1 DEF Requests, Scopes
  <2> HIDE DEF next, refused
  <2>2. Swept(refused).kind = r.kind
    BY <1>1, <2>1, SweepBegins
  <2>3. \/ request' = [request EXCEPT ![c] = next]
        \/ request' = [request EXCEPT ![c] = Swept(refused)]
    BY <1>4 DEF RefreshPerson, next, refused
  <2>4. UNCHANGED <<now, setups, tokens>>
    BY <1>4 DEF RefreshPerson
  <2> QED
    BY <2>1, <2>2, <2>3, <2>4, CountingOne
<1>5. CASE MarkExchanged(c)
  <2> DEFINE held == IF tokens[r.row].exchanged THEN {} ELSE {r.row}
             next == [r EXCEPT !.phase = "insert", !.marked = ~tokens[r.row].exchanged,
                               !.held = held]
  <2>1. next.kind = r.kind
    BY <1>1 DEF Requests
  <2>2. UNCHANGED <<now, setups, tokens>> /\ request' = [request EXCEPT ![c] = next]
    BY <1>5 DEF MarkExchanged
  <2> HIDE DEF next
  <2> QED
    BY <2>1, <2>2, CountingOne
<1>6. CASE RefreshInsert(c)
  <2> DEFINE old == tokens[r.row]
             marked == [old EXCEPT !.exchanged = @ \/ r.marked, !.spent = TRUE]
             rows == [tokens EXCEPT ![r.row] = marked]
             T == TokenRows \cup {marked}
  <2>1. r.row \in 1 .. Len(tokens)
    BY <1>1, <1>6 DEF RefreshInsert, Found, Issued
  <2>2. Len(rows) = Len(tokens) /\ rows \in Seq(T)
    <3> HIDE DEF marked
    <3>1. tokens \in Seq(T) /\ marked \in T
      BY <1>1, SeqMonotonic
    <3> HIDE DEF T, r
    <3> QED
      BY <2>1, <3>1, ExceptSeq
  <2>3. tokens' = Append(rows, Successor(r))
    BY <1>6 DEF RefreshInsert, Marked
  <2> HIDE DEF rows, T
  <2>4. Len(tokens') = Len(tokens) + 1
    BY <1>1, <2>2, <2>3
  <2>5. request'[c].kind = "none" /\ \A d \in Clients : d # c => request'[d] = request[d]
    BY <1>2, <1>6 DEF RefreshInsert, SessionInv
  <2> QED
    BY <1>6, <2>4, <2>5, Counting DEF RefreshInsert
<1>7. CASE Sweep(c) \/ EstablishPassword(c)
  <2>1. UNCHANGED <<now, setups, tokens>> /\ request' = [request EXCEPT ![c] = Swept(r)]
    BY <1>7 DEF Sweep, EstablishPassword
  <2> QED
    BY <1>1, <2>1, CountingOne
<1>8. CASE Apply(c)
  <2>1. Len(tokens') = Len(tokens) /\ UNCHANGED now
    <3>1. tokens' = WithInvalidated(r.targets) /\ r.targets \in SUBSET Nat
      BY <1>1, <1>8, RequestFields DEF Apply, WithInvalidated
    <3> QED
      BY <1>8, <3>1, TokensInvalidated DEF Apply
  <2>2. Len(setups') = Len(setups)
    <3>1. CASE r.kind = "redeem"
      <4> DEFINE old == setups[r.row]
                 row == [old EXCEPT !.redeemed = @ \/ r.marked, !.spent = TRUE]
                 T == SetupRows \cup {row}
      <4>1. r.row \in 1 .. Len(setups) /\ setups \in Seq(SetupRows)
        BY <1>1, <3>1 DEF Found, SessionTypes
      <4>2. setups' = [setups EXCEPT ![r.row] = row]
        BY <1>8, <3>1 DEF Apply
      <4> HIDE DEF row
      <4>3. setups \in Seq(T) /\ row \in T
        BY <4>1, SeqMonotonic
      <4> HIDE DEF T, r
      <4> QED
        BY <4>1, <4>2, <4>3, ExceptSeq
    <3>2. CASE r.kind # "redeem"
      BY <1>8, <3>2 DEF Apply
    <3> QED
      BY <3>1, <3>2
  <2>3. request'[c].kind = "none" /\ \A d \in Clients : d # c => request'[d] = request[d]
    BY <1>2, <1>8 DEF Apply, SessionInv
  <2> QED
    BY <2>1, <2>2, <2>3, Counting
<1>9. CASE MarkSetupTokenRedeemed(c)
  <2> DEFINE next == [r EXCEPT !.phase = "password", !.marked = ~setups[r.row].redeemed]
  <2>1. next.kind = r.kind
    BY <1>1 DEF Requests
  <2>2. UNCHANGED <<now, setups, tokens>> /\ request' = [request EXCEPT ![c] = next]
    BY <1>9 DEF MarkSetupTokenRedeemed
  <2> HIDE DEF next
  <2> QED
    BY <2>1, <2>2, CountingOne
<1>10. CASE InvalidateRow(c)
  <2>1. PICK t \in r.targets \ r.held :
          \/ request' = [request EXCEPT ![c] = [r EXCEPT !.waits = t]]
          \/ request' = [request EXCEPT ![c] = [r EXCEPT !.waits = 0, !.held = r.held \cup {t}]]
    BY <1>10 DEF InvalidateRow
  <2> DEFINE waiting == [r EXCEPT !.waits = t]
             locking == [r EXCEPT !.waits = 0, !.held = r.held \cup {t}]
  <2>2. waiting.kind = r.kind /\ locking.kind = r.kind
    BY <1>1 DEF Requests
  <2>3. \/ request' = [request EXCEPT ![c] = waiting]
        \/ request' = [request EXCEPT ![c] = locking]
    BY <2>1
  <2>4. UNCHANGED <<now, setups, tokens>>
    BY <1>10 DEF InvalidateRow
  <2> HIDE DEF waiting, locking
  <2> QED
    BY <2>2, <2>3, <2>4, CountingOne
<1> QED
  BY <1>3, <1>4, <1>5, <1>6, <1>7, <1>8, <1>9, <1>10 DEF Serve

LEMMA BoundsStep == SessionInv /\ WithinBounds /\ [Next]_vars => WithinBounds'
<1> SUFFICES ASSUME SessionInv, WithinBounds, [Next]_vars PROVE WithinBounds'
  OBVIOUS
<1>1. SessionInv'
  BY SessionsStep
<1>2. CASE Tick
  <2>1. now \in Nat /\ MaxTime \in Nat
    BY SessionBounds DEF SessionInv, SessionTypes
  <2> QED
    BY <1>2, <2>1, CountingNone DEF Tick, WithinBounds
<1>3. ASSUME NEW p \in Persons, DeactivatePerson(p) PROVE WithinBounds'
  BY <1>3, CountingNone DEF DeactivatePerson, WithinBounds
<1>4. ASSUME NEW p \in Persons, IssueSetupToken(p) PROVE WithinBounds'
  <2>1. Len(setups)' <= MaxSetups
    <3>1. Len(setups)' = Len(setups) + 1 /\ Len(setups) \in Nat /\ MaxSetups \in Nat
      BY <1>4, SessionBounds, Lengths DEF IssueSetupToken, SessionInv, SessionTypes
    <3> QED
      BY <1>4, <3>1 DEF IssueSetupToken
  <2> QED
    BY <1>4, <2>1, CountingNone DEF IssueSetupToken, WithinBounds
<1>5. ASSUME NEW c \in Clients, Fail(c) PROVE WithinBounds'
  <2>1. Idle.kind = "none" /\ UNCHANGED <<now, setups, tokens>>
    BY <1>5, IdleRequest DEF Fail
  <2> QED
    BY <1>1, <1>5, <2>1, CountingOne DEF Fail
<1>6. ASSUME NEW c \in Clients, AbortDeadlocked(c) PROVE WithinBounds'
  <2>1. Idle.kind = "none" /\ UNCHANGED <<now, setups, tokens>>
    BY <1>6, IdleRequest DEF AbortDeadlocked
  <2> QED
    BY <1>1, <1>6, <2>1, CountingOne DEF AbortDeadlocked
<1>7. CASE UNCHANGED vars
  BY <1>7, CountingNone DEF vars, WithinBounds
<1> QED
  BY <1>1, <1>2, <1>3, <1>4, <1>5, <1>6, <1>7, ArrivalsCounted, ServedCounted DEF Next

LEMMA BoundsInit == Init => WithinBounds
<1> SUFFICES ASSUME Init PROVE WithinBounds
  OBVIOUS
<1>1. Inserting = {}
  BY IdleRequest DEF Init, Inserting
<1> QED
  BY <1>1, FS_EmptySet, SessionBounds DEF Init, WithinBounds

\* Rows and requests have their types and keep to the bounds, a setup token is marked
\* when a password was set with it, and a refresh token when it has a successor.
THEOREM SessionTypeCorrect == Spec => []SessionTypeOK
<1>1. SessionInv /\ WithinBounds => SessionTypeOK
  <2> SUFFICES ASSUME SessionInv, WithinBounds PROVE SessionTypeOK
    OBVIOUS
  <2>1. Expected <= MaxTokens /\ Len(tokens) \in Nat /\ Len(tokens) <= MaxTokens
    BY InsertingCounted, Lengths, SessionBounds DEF SessionInv, WithinBounds
  <2>2. \A t \in Issued : tokens[t] \in Tokens /\ (tokens[t].exchanged <=> tokens[t].spent)
    <3> SUFFICES ASSUME NEW t \in Issued
                 PROVE  tokens[t] \in Tokens /\ (tokens[t].exchanged <=> tokens[t].spent)
      OBVIOUS
    <3>1. /\ tokens[t] \in TokenRows /\ tokens[t].family \in Issued
          /\ tokens[t].exchanged <=> tokens[t].spent
      BY Lengths DEF SessionInv, TokensAgree
    <3>2. tokens[t].family \in 1 .. MaxTokens
      BY <2>1, <3>1, SessionBounds DEF Issued
    <3> QED
      BY <3>1, <3>2 DEF TokenRows, Tokens
  <2>3. \A c \in Clients : request[c].kind \in Kinds /\ request[c].phase \in Phases
    BY RequestFields DEF SessionInv
  <2>4. now \in 0 .. MaxTime /\ Len(setups) <= MaxSetups
    BY SessionBounds DEF SessionInv, SessionTypes, WithinBounds
  <2> QED
    BY <2>1, <2>2, <2>3, <2>4 DEF SessionTypeOK, SessionInv, SessionTypes, SetupsAgree
<1> QED
  BY <1>1, BoundsInit, BoundsStep, SessionInvariant, PTL DEF Spec

-----------------------------------------------------------------------------
(* What it protects.                                                       *)

\* However often and by however many a session is refreshed, each of its tokens
\* expires when its sign-in said.
THEOREM RotationExtendsNothing == Spec => []RotationNeverExtends
<1>1. SessionInv => RotationNeverExtends
  BY DEF SessionInv, TokensAgree, Found, RotationNeverExtends
<1> QED
  BY <1>1, SessionInvariant, PTL

\* No token of a session that was ended is ever good again, nor one obtained with it
\* later.
THEOREM EndedForGood == Spec => []EndedStaysEnded
<1>1. SessionInv => EndedStaysEnded
  BY DEF SessionInv
<1> QED
  BY <1>1, SessionInvariant, PTL

\* A refresh or a redemption that has got past its refusals found its token unspent.
THEOREM SpentTwiceByOverlapAlone == Spec => []SpentOnceUnlessOverlapping
<1>1. SessionInv => SpentOnceUnlessOverlapping
  BY DEF SessionInv, Found, SpentOnceUnlessOverlapping
<1> QED
  BY <1>1, SessionInvariant, PTL

-----------------------------------------------------------------------------
(* Who waits for whom.                                                     *)

LEMMA IdleLocks == LocksInOrder(Idle)
  BY DEF LocksInOrder, Idle

LEMMA LocksOne ==
    ASSUME SessionInv, LocksInv, NEW c \in Clients, NEW r,
           request' = [request EXCEPT ![c] = r], LocksInOrder(r)
    PROVE  LocksInv'
<1>1. \A d \in Clients : request'[d] = IF d = c THEN r ELSE request[d]
  BY DEF SessionInv
<1> QED
  BY <1>1 DEF LocksInv, LocksInOrder

\* A request that arrives has locked nothing, nor has a sweep that begins locked more.
LEMMA SweptLocks ==
    ASSUME NEW r \in Requests
    PROVE  LocksInOrder(Swept(r))
<1>1. Swept(r).phase = "apply"
  BY DEF Swept, Requests
<1> QED
  BY <1>1 DEF LocksInOrder

LEMMA ArrivalsLock ==
    ASSUME SessionInv, LocksInv, NEW c \in Clients, Arrive(c)
    PROVE  LocksInv'
<1>1. CASE UNCHANGED request
  BY <1>1 DEF LocksInv, LocksInOrder
<1>2. ASSUME NEW p \in Persons, NEW at \in 0 .. now, SignIn(c, p, at) PROVE LocksInv'
  <2> DEFINE r == [Idle EXCEPT !.kind = "sign-in", !.phase = "insert", !.person = {p}, !.at = at]
  <2>1. LocksInOrder(r)
    BY DEF Idle, LocksInOrder
  <2>2. UNCHANGED request \/ request' = [request EXCEPT ![c] = r]
    BY <1>2 DEF SignIn
  <2> HIDE DEF r
  <2> QED
    BY <1>1, <2>1, <2>2, LocksOne
<1>3. ASSUME NEW t \in Issued, NEW at \in 0 .. now, Refresh(c, t, at) PROVE LocksInv'
  <2> DEFINE r == [Idle EXCEPT !.kind = "refresh", !.row = t, !.person = {tokens[t].person}]
             reuse == [r EXCEPT !.phase = "sweep"]
             use == [r EXCEPT !.phase = "person", !.spent = tokens[t].spent,
                              !.ended = t \in ended, !.late = at >= FirstOf(t).expires]
  <2>1. LocksInOrder(reuse) /\ LocksInOrder(use)
    BY DEF Idle, LocksInOrder
  <2>2. \/ UNCHANGED request
        \/ request' = [request EXCEPT ![c] = reuse]
        \/ request' = [request EXCEPT ![c] = use]
    BY <1>3 DEF Refresh
  <2> HIDE DEF reuse, use
  <2> QED
    BY <1>1, <2>1, <2>2, LocksOne
<1>4. ASSUME NEW s \in DOMAIN setups, NEW at \in 0 .. now, Redeem(c, s, at) PROVE LocksInv'
  <2> DEFINE r == [Idle EXCEPT !.kind = "redeem", !.phase = "mark", !.row = s, !.scope = "person",
                               !.person = {setups[s].person}, !.spent = setups[s].spent]
  <2>1. LocksInOrder(r)
    BY DEF Idle, LocksInOrder
  <2>2. UNCHANGED request \/ request' = [request EXCEPT ![c] = r]
    BY <1>4 DEF Redeem
  <2> HIDE DEF r
  <2> QED
    BY <1>1, <2>1, <2>2, LocksOne
<1>5. ASSUME NEW t \in Issued, NEW scope \in Scopes, SignOut(c, t, scope) PROVE LocksInv'
  <2> DEFINE r == [Idle EXCEPT !.kind = "sign-out", !.row = t, !.scope = scope,
                               !.person = {tokens[t].person}]
  <2>1. r \in Requests
    <3>1. tokens[t].person \in Persons /\ t \in Nat
      BY Lengths, TokenFields DEF SessionInv, Issued
    <3> QED
      BY <3>1 DEF Idle, Requests, Kinds, Phases
  <2>2. request' = [request EXCEPT ![c] = Swept(r)]
    BY <1>5 DEF SignOut
  <2> HIDE DEF r
  <2> QED
    BY <2>1, <2>2, SweptLocks, LocksOne
<1> QED
  BY <1>2, <1>3, <1>4, <1>5 DEF Arrive

\* An update of one row is waited for with nothing locked, but for the setup token
\* of one who comes to the password.
LEMMA ServedLocks ==
    ASSUME SessionInv, LocksInv, NEW c \in Clients, Serve(c)
    PROVE  LocksInv'
<1> DEFINE r == request[c]
<1>1. r \in Requests /\ LocksInOrder(r)
  BY DEF SessionInv, LocksInv
<1>2. CASE SignInInsert(c) \/ RefreshInsert(c) \/ Apply(c)
  BY <1>2, IdleLocks, LocksOne DEF SignInInsert, RefreshInsert, Apply
<1>3. CASE RefreshPerson(c)
  <2> DEFINE next == [r EXCEPT !.phase = "mark"]
             refused == [r EXCEPT !.scope = "person"]
  <2>1. LocksInOrder(next)
    BY <1>1, <1>3 DEF LocksInOrder, Requests, RefreshPerson
  <2>2. refused \in Requests
    BY <1>1 DEF Requests, Scopes
  <2>3. \/ request' = [request EXCEPT ![c] = next]
        \/ request' = [request EXCEPT ![c] = Swept(refused)]
    BY <1>3 DEF RefreshPerson
  <2> HIDE DEF next, refused
  <2> QED
    BY <2>1, <2>2, <2>3, SweptLocks, LocksOne
<1>4. CASE MarkExchanged(c)
  <2> DEFINE held == IF tokens[r.row].exchanged THEN {} ELSE {r.row}
             next == [r EXCEPT !.phase = "insert", !.marked = ~tokens[r.row].exchanged,
                               !.held = held]
  <2>1. next.phase = "insert"
    BY <1>1 DEF Requests
  <2>2. request' = [request EXCEPT ![c] = next]
    BY <1>4 DEF MarkExchanged
  <2> HIDE DEF next
  <2>3. LocksInOrder(next)
    BY <2>1 DEF LocksInOrder
  <2> QED
    BY <2>2, <2>3, LocksOne
<1>5. CASE Sweep(c) \/ EstablishPassword(c)
  BY <1>1, <1>5, SweptLocks, LocksOne DEF Sweep, EstablishPassword
<1>6. CASE InvalidateRow(c)
  <2>1. PICK t \in r.targets \ r.held :
          \/ request' = [request EXCEPT ![c] = [r EXCEPT !.waits = t]]
          \/ request' = [request EXCEPT ![c] = [r EXCEPT !.waits = 0, !.held = r.held \cup {t}]]
    BY <1>6 DEF InvalidateRow
  <2> DEFINE waiting == [r EXCEPT !.waits = t]
             locking == [r EXCEPT !.waits = 0, !.held = r.held \cup {t}]
  <2>2. waiting.phase = "apply" /\ locking.phase = "apply"
    BY <1>1, <1>6 DEF Requests, InvalidateRow
  <2>3. \/ request' = [request EXCEPT ![c] = waiting]
        \/ request' = [request EXCEPT ![c] = locking]
    BY <2>1
  <2> HIDE DEF waiting, locking
  <2>4. LocksInOrder(waiting) /\ LocksInOrder(locking)
    BY <2>2 DEF LocksInOrder
  <2> QED
    BY <2>3, <2>4, LocksOne
<1>7. CASE MarkSetupTokenRedeemed(c)
  <2> DEFINE next == [r EXCEPT !.phase = "password", !.marked = ~setups[r.row].redeemed]
  <2>1. next.phase = "password" /\ next.held = {}
    BY <1>1, <1>7 DEF LocksInOrder, Requests, MarkSetupTokenRedeemed
  <2>2. request' = [request EXCEPT ![c] = next]
    BY <1>7 DEF MarkSetupTokenRedeemed
  <2> HIDE DEF next
  <2>3. LocksInOrder(next)
    BY <2>1 DEF LocksInOrder
  <2> QED
    BY <2>2, <2>3, LocksOne
<1> QED
  BY <1>2, <1>3, <1>4, <1>5, <1>6, <1>7 DEF Serve

LEMMA LocksStep == SessionInv /\ LocksInv /\ [Next]_vars => LocksInv'
<1> SUFFICES ASSUME SessionInv, LocksInv, [Next]_vars PROVE LocksInv'
  OBVIOUS
<1>1. CASE UNCHANGED request
  BY <1>1 DEF LocksInv, LocksInOrder
<1>2. ASSUME NEW c \in Clients, Fail(c) \/ AbortDeadlocked(c) PROVE LocksInv'
  BY <1>2, IdleLocks, LocksOne DEF Fail, AbortDeadlocked
<1>3. CASE Tick \/ \E p \in Persons : DeactivatePerson(p) \/ IssueSetupToken(p)
  BY <1>1, <1>3 DEF Tick, DeactivatePerson, IssueSetupToken
<1> QED
  BY <1>1, <1>2, <1>3, ArrivalsLock, ServedLocks DEF Next, vars

\* Nobody waits for one that is about to mark a token, and for one about to set a
\* password only others about to mark the same setup token do.
LEMMA WaitedFor ==
    ASSUME LocksInv, NEW c \in Clients, NEW d \in Clients, WaitsFor(d, c)
    PROVE  /\ InFlight(c) /\ request[c].phase # "mark"
           /\ request[c].phase = "password" => request[d].phase = "mark"
<1>1. LocksInOrder(request[c])
  BY DEF LocksInv
<1> QED
  BY <1>1 DEF LocksInOrder, WaitsFor, LocksToken, LocksSetup, LocksCredential, InFlight

\* Whoever waits, waits for a request in flight, and cycles of them are of sweeps.
THEOREM DeadlocksAreOfSweeps == Spec => []OnlySweepsDeadlock
<1>1. LocksInv => OnlySweepsDeadlock
  <2> SUFFICES ASSUME LocksInv PROVE OnlySweepsDeadlock
    OBVIOUS
  <2>1. ASSUME NEW c \in Clients, InWaitCycle(c) PROVE request[c].phase = "apply"
    <3>1. PICK S \in SUBSET Clients :
            /\ c \in S
            /\ \A d \in S : (\E e \in S : WaitsFor(d, e)) /\ (\E e \in S : WaitsFor(e, d))
      BY <2>1 DEF InWaitCycle
    <3>2. request[c].phase \in {"mark", "password", "apply"}
      BY <3>1 DEF WaitsFor
    <3>3. \A d \in S : request[d].phase # "mark"
      BY <3>1, WaitedFor
    <3>4. request[c].phase # "password"
      BY <3>1, <3>3, WaitedFor
    <3> QED
      BY <3>1, <3>2, <3>3, <3>4
  <2> QED
    BY <2>1, WaitedFor DEF OnlySweepsDeadlock
<1>2. Init => LocksInv
  BY IdleLocks DEF Init, LocksInv, LocksInOrder
<1> QED
  BY <1>1, <1>2, LocksStep, SessionInvariant, PTL DEF Spec

=============================================================================
