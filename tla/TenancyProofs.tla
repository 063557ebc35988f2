---------------------------- MODULE TenancyProofs ----------------------------
(***************************************************************************)
(* Proofs about tenants and what is asked of them, for any number of       *)
(* requests at once.                                                       *)
(***************************************************************************)
EXTENDS TenancyInductive, FiniteSetTheorems, TLAPS

-----------------------------------------------------------------------------
(* Requests and what is remembered of them.                                *)

LEMMA IdleRequest == Idle.phase = "idle"
  BY DEF Idle

LEMMA InFlightRequest ==
    ASSUME RequestTypes, NEW c \in Clients
    PROVE  /\ InFlight(c) => request[c] \in Arrived
           /\ request[c].phase \in Phases
  BY IdleRequest DEF RequestTypes, InFlight, Arrived, Phases

LEMMA ArrivedFields ==
    ASSUME NEW r \in Arrived
    PROVE  /\ r.op \in TenantOps \cup OperatorOps /\ r.phase \in Phases \ {"idle"}
           /\ r.caller \in People \cup KeyIds /\ r.tenant \in Tenants
           /\ r.target \in Tenants \X People
           /\ r.target[1] \in Tenants /\ r.target[2] \in People
           /\ r.role \in Roles /\ r.removes \in BOOLEAN /\ r.stale \in BOOLEAN
  BY DEF Arrived

\* A request that goes on changes in its phase alone.
LEMMA GotoStep ==
    ASSUME RequestTypes, NEW c \in Clients, InFlight(c), NEW phase \in Phases \ {"idle"},
           Goto(c, phase)
    PROVE  /\ request' \in [Clients -> Arrived \cup {Idle}]
           /\ \A d \in Clients : d # c => request'[d] = request[d]
           /\ request'[c] \in Arrived /\ request'[c].phase = phase
           /\ request'[c].op = request[c].op /\ request'[c].caller = request[c].caller
           /\ request'[c].tenant = request[c].tenant /\ request'[c].target = request[c].target
           /\ request'[c].role = request[c].role /\ request'[c].removes = request[c].removes
           /\ request'[c].stale = request[c].stale
<1> DEFINE r == [request[c] EXCEPT !.phase = phase]
<1>1. request[c] \in Arrived
  BY InFlightRequest
<1>2. /\ r \in Arrived /\ r.phase = phase
      /\ r.op = request[c].op /\ r.caller = request[c].caller
      /\ r.tenant = request[c].tenant /\ r.target = request[c].target
      /\ r.role = request[c].role /\ r.removes = request[c].removes
      /\ r.stale = request[c].stale
  BY <1>1 DEF Arrived
<1>3. request' = [request EXCEPT ![c] = r]
  BY DEF Goto
<1> HIDE DEF r
<1>4. request'[c] = r /\ \A d \in Clients : d # c => request'[d] = request[d]
  BY <1>3 DEF RequestTypes
<1>5. request' \in [Clients -> Arrived \cup {Idle}]
  BY <1>2, <1>3 DEF RequestTypes
<1> QED
  BY <1>2, <1>4, <1>5

LEMMA EndStep ==
    ASSUME RequestTypes, NEW c \in Clients, End(c)
    PROVE  /\ request' \in [Clients -> Arrived \cup {Idle}]
           /\ \A d \in Clients : d # c => request'[d] = request[d]
           /\ request'[c] = Idle
  BY DEF RequestTypes, End

\* What is remembered of a request, from the first read of its transaction, only grows
\* until it ends, and what holds after a step is remembered.
LEMMA Remembered ==
    ASSUME Remember, NEW c \in Clients
    PROVE  /\ Facts(c)' \subseteq standing'[c]
           /\ InFlight(c) /\ InFlight(c)' /\ request[c].phase \notin {"guard", "tenant"}
              => standing[c] \subseteq standing'[c]
  BY DEF Remember

LEMMA FactsHold ==
    ASSUME NEW c \in Clients, InFlight(c)
    PROVE  /\ tenants[request[c].tenant] = "active" => "tenant" \in Facts(c)
           /\ request[c].caller \in active => "person" \in Facts(c)
           /\ request[c].caller \in operators => "operator" \in Facts(c)
           /\ request[c].caller \in People /\ MayAct(request[c]) => "role" \in Facts(c)
           /\ request[c].caller \in KeyIds /\ keys[request[c].caller].tenant = request[c].tenant
              /\ ~keys[request[c].caller].revoked
              /\ keys[request[c].caller].role \in Permitted(request[c].op)
              => "key" \in Facts(c)
  BY DEF InFlight, Facts, MayAct

-----------------------------------------------------------------------------
(* Requests beside the one that takes a step.                              *)

RowsKept == \A t \in Tenants : \A p \in People : member[t][p] # None => member'[t][p] = member[t][p]

TenantsKept == \A t \in Tenants : tenants[t] # "absent" => tenants'[t] # "absent"

LEMMA Bystander ==
    ASSUME TenancyInv, RowsKept, TenantsKept, Remember,
           NEW d \in Clients, InFlight(d), request'[d] = request[d]
    PROVE  Fits(request[d])' /\ Present(request[d])' /\ Stands(d)' /\ Counted(request[d])'
<1> DEFINE r == request[d]
<1>1. /\ r \in Arrived /\ Fits(r) /\ Present(r) /\ Stands(d) /\ Counted(r)
  BY InFlightRequest DEF TenancyInv
<1>2. /\ r.tenant \in Tenants /\ r.target[1] \in Tenants /\ r.target[2] \in People
  BY <1>1, ArrivedFields
<1>3. Fits(request[d])'
  BY <1>1 DEF Fits, HasRead
<1>4. Present(request[d])'
  BY <1>1, <1>2 DEF Present, HasRead, Row, RowsKept, TenantsKept
<1>5. r.phase \notin {"guard", "tenant"} => standing[d] \subseteq standing'[d]
  BY Remembered DEF InFlight
<1>6. Stands(d)'
  BY <1>1, <1>5 DEF Stands
<1>7. Counted(request[d])'
  <2> SUFFICES ASSUME HasRead(r), ~r.stale
               PROVE  /\ r.removes <=> Removes(r)'
                      /\ r.phase = "apply" /\ r.removes =>
                            \E p \in Administrators(r.tenant)' : p # r.target[2]
    BY DEF Counted, HasRead, Removes, Row
  <2>1. Row(r)' = Row(r)
    BY <1>1, <1>2 DEF Present, Row, RowsKept
  <2>2. Administrators(r.tenant) \subseteq Administrators(r.tenant)'
    BY <1>2 DEF Administrators, RowsKept, None
  <2> QED
    BY <1>1, <2>1, <2>2 DEF Counted, Removes
<1> QED
  BY <1>3, <1>4, <1>6, <1>7

LEMMA StepOfOne ==
    ASSUME TenancyInv, DataTypes', AbsentIsEmpty', sent' \in 0 .. MaxRequests,
           RowsKept, TenantsKept, Remember, NEW c \in Clients,
           request' \in [Clients -> Arrived \cup {Idle}],
           \A d \in Clients : d # c => request'[d] = request[d],
           InFlight(c)' => /\ Fits(request[c])' /\ Present(request[c])'
                           /\ Stands(c)' /\ Counted(request[c])'
    PROVE  TenancyInv'
<1>1. \A d \in Clients : InFlight(d)' =>
        Fits(request[d])' /\ Present(request[d])' /\ Stands(d)' /\ Counted(request[d])'
  <2> SUFFICES ASSUME NEW d \in Clients, InFlight(d)', d # c
               PROVE  Fits(request[d])' /\ Present(request[d])' /\ Stands(d)' /\ Counted(request[d])'
    OBVIOUS
  <2> request'[d] = request[d] /\ InFlight(d)
    BY DEF InFlight
  <2> QED
    BY Bystander
<1> QED
  BY <1>1 DEF TenancyInv, RequestTypes

\* A request that ends, in a step that takes no row and no tenant away.
LEMMA RequestEnds ==
    ASSUME TenancyInv, DataTypes', AbsentIsEmpty', sent' = sent,
           RowsKept, TenantsKept, Remember, NEW c \in Clients, End(c)
    PROVE  TenancyInv'
<1>1. RequestTypes
  BY DEF TenancyInv
<1>2. ~InFlight(c)'
  BY <1>1, EndStep, IdleRequest DEF InFlight
<1>3. sent' \in 0 .. MaxRequests
  BY <1>1 DEF RequestTypes
<1> QED
  BY <1>1, <1>2, <1>3, EndStep, StepOfOne

\* A request that goes on to a phase, in a step that changes nothing else but history.
LEMMA RequestGoesOn ==
    ASSUME TenancyInv, UNCHANGED <<data, sent>>, Remember, NEW c \in Clients,
           InFlight(c), NEW phase \in Phases \ {"idle"}, Goto(c, phase),
           Fits(request[c])', Present(request[c])', Stands(c)', Counted(request[c])'
    PROVE  TenancyInv'
<1>1. DataTypes' /\ AbsentIsEmpty' /\ sent' \in 0 .. MaxRequests /\ RowsKept /\ TenantsKept
  BY DEF TenancyInv, DataTypes, AbsentIsEmpty, RequestTypes, RowsKept, TenantsKept, data
<1>2. RequestTypes
  BY DEF TenancyInv
<1> QED
  BY <1>1, <1>2, GotoStep, StepOfOne

-----------------------------------------------------------------------------
(* The invariant holds at first, and every step preserves it.              *)

LEMMA TenancyInit == Init => TenancyInv
<1> SUFFICES ASSUME Init PROVE TenancyInv
  OBVIOUS
<1> USE DEF Init
<1>1. DataTypes
  BY TenancyAssumption DEF DataTypes, MemberRows, Roles
<1>2. AbsentIsEmpty
  BY DEF AbsentIsEmpty
<1>3. RequestTypes /\ \A c \in Clients : ~InFlight(c)
  BY TenancyAssumption, IdleRequest DEF RequestTypes, InFlight
<1> QED
  BY <1>1, <1>2, <1>3 DEF TenancyInv

LEMMA CommandFields ==
    ASSUME NEW command \in Commands
    PROVE  /\ command[1] \in TenantOps \cup OperatorOps /\ command[2] \in People \cup KeyIds
           /\ command[3] \in Tenants /\ <<command[4], command[5]>> \in Tenants \X People
           /\ command[6] \in Roles
  BY TenancyAssumption

\* A request that arrives and goes to its route's guard, or past it.
LEMMA Arrives ==
    ASSUME TenancyInv, Remember, NEW c \in Clients, NEW r \in Arrived, Send(c, r),
           r.phase \in {"guard", "machine", "operate"}, Fits(r), Stands(c)'
    PROVE  TenancyInv'
<1>1. RequestTypes /\ DataTypes' /\ AbsentIsEmpty' /\ RowsKept /\ TenantsKept
  BY DEF TenancyInv, DataTypes, AbsentIsEmpty, RowsKept, TenantsKept, Send, data
<1>2. sent' \in 0 .. MaxRequests
  BY <1>1, TenancyAssumption DEF RequestTypes, Send
<1>3. /\ request' \in [Clients -> Arrived \cup {Idle}] /\ request'[c] = r
      /\ \A d \in Clients : d # c => request'[d] = request[d]
  BY <1>1 DEF RequestTypes, Send
<1>4. Fits(request[c])'
  BY <1>3 DEF Fits, HasRead
<1>5. Present(request[c])' /\ Counted(request[c])'
  BY <1>3 DEF Present, Counted, HasRead
<1> QED
  BY <1>1, <1>2, <1>3, <1>4, <1>5, StepOfOne

LEMMA ResolvingStep ==
    ASSUME TenancyInv, Remember, NEW c \in Clients, Arrive(c)
    PROVE  TenancyInv'
<1>1. CASE RefuseAnonymous(c)
  <2>1. TenancyInv /\ RequestTypes /\ ~InFlight(c)' /\ request'[c] = request[c]
    BY <1>1 DEF RefuseAnonymous, TenancyInv, InFlight
  <2>2. /\ DataTypes' /\ AbsentIsEmpty' /\ sent' \in 0 .. MaxRequests /\ RowsKept /\ TenantsKept
        /\ request' \in [Clients -> Arrived \cup {Idle}]
        /\ \A d \in Clients : request'[d] = request[d]
    BY <1>1, <2>1 DEF RefuseAnonymous, TenancyInv, DataTypes, AbsentIsEmpty, RequestTypes,
                      RowsKept, TenantsKept, data
  <2> QED
    BY <2>1, <2>2, StepOfOne
<1>2. ASSUME NEW command \in Commands,
             command[2] \in KeyIds,
             ResolveApiKey(c, command[2], command[1], command[3], <<command[4], command[5]>>)
      PROVE  TenancyInv'
  <2> DEFINE op == command[1]
             k == command[2]
             t == command[3]
             target == <<command[4], command[5]>>
             r == [Requests(op, k, keys[k].tenant, target, keys[k].role) EXCEPT !.phase = "machine"]
  <2>1. /\ op = "record" /\ keys[k] # NoKey /\ ~keys[k].revoked /\ tenants[t] = "active"
        /\ keys[k].tenant = t /\ keys[k].role \in Permitted(op) /\ Send(c, r)
    BY <1>2 DEF ResolveApiKey, MachineAdmitted, AdmitsMachines
  <2>2. keys[k] \in KeyRows
    BY <1>2, <2>1 DEF TenancyInv, DataTypes
  <2>3. keys[k].role \in Roles
    BY <2>2 DEF KeyRows
  <2>4. r \in Arrived /\ r.op = op /\ r.phase = "machine" /\ r.caller = k /\ r.tenant = t
    <3>1. /\ op \in TenantOps \cup OperatorOps /\ k \in People \cup KeyIds /\ t \in Tenants
          /\ target \in Tenants \X People
      BY CommandFields
    <3>2. keys[k].tenant = t
      BY <2>1
    <3> HIDE DEF op, k, t, target
    <3> QED
      BY <2>3, <3>1, <3>2 DEF Requests, Arrived, Phases
  <2> HIDE DEF r, op, k, t, target
  <2>5. Fits(r)
    BY <1>2, <2>1, <2>4 DEF Fits, HasRead, TenantOps, k
  <2>6. request'[c] = r /\ UNCHANGED <<keys, tenants>>
    BY <2>1 DEF Send, data, TenancyInv, RequestTypes
  <2>7. k \in KeyIds /\ k \notin People
    BY <1>2, TenancyAssumption DEF k
  <2>8. {"key", "tenant"} \subseteq Facts(c)'
    BY <2>1, <2>4, <2>6, <2>7 DEF Facts
  <2>9. Stands(c)'
    BY <2>4, <2>6, <2>7, <2>8, Remembered DEF Stands
  <2> QED
    BY <2>1, <2>4, <2>5, <2>9, Arrives
<1>3. ASSUME NEW command \in Commands,
             command[2] \in People, command[1] \in TenantOps,
             ResolveMember(c, command[2], command[1], command[3], <<command[4], command[5]>>,
                           command[6])
      PROVE  TenancyInv'
  <2> DEFINE r == Requests(command[1], command[2], command[3], <<command[4], command[5]>>,
                           command[6])
  <2>1. /\ r \in Arrived /\ r.op = command[1] /\ r.phase = "guard" /\ r.caller = command[2]
    BY <1>3, CommandFields DEF Requests, Arrived, Phases
  <2>2. Send(c, r)
    BY <1>3 DEF ResolveMember
  <2> HIDE DEF r
  <2>3. Fits(r)
    BY <1>3, <2>1 DEF Fits, HasRead
  <2>4. request'[c] = r
    BY <2>2 DEF Send, TenancyInv, RequestTypes
  <2>5. Stands(c)'
    BY <2>1, <2>4 DEF Stands
  <2> QED
    BY <2>1, <2>2, <2>3, <2>5, Arrives
<1>4. ASSUME NEW command \in Commands, command[1] \in OperatorOps,
             ResolveOperator(c, command[2], command[1], command[3], <<command[4], command[5]>>)
      PROVE  TenancyInv'
  <2> DEFINE p == command[2]
             r == [Requests(command[1], p, command[3], <<command[4], command[5]>>, "admin")
                    EXCEPT !.phase = "operate"]
  <2>1. p \in active \cap operators /\ Send(c, r)
    BY <1>4 DEF ResolveOperator
  <2>2. r \in Arrived /\ r.op = command[1] /\ r.phase = "operate" /\ r.caller = p
    <3> DEFINE target == <<command[4], command[5]>>
    <3>1. /\ command[1] \in TenantOps \cup OperatorOps /\ p \in People \cup KeyIds
          /\ command[3] \in Tenants /\ target \in Tenants \X People
      BY CommandFields
    <3> HIDE DEF p, target
    <3>2. [Requests(command[1], p, command[3], target, "admin") EXCEPT !.phase = "operate"] = r
      BY DEF target
    <3> QED
      BY <3>1, <3>2 DEF Requests, Arrived, Phases, Roles
  <2>3. p \in People /\ p \notin KeyIds
    BY <2>1, TenancyAssumption DEF TenancyInv, DataTypes
  <2> HIDE DEF r, p
  <2>4. Fits(r)
    BY <1>4, <2>2, <2>3 DEF Fits, HasRead
  <2>5. request'[c] = r /\ UNCHANGED <<active, operators>>
    BY <2>1 DEF Send, data, TenancyInv, RequestTypes
  <2>6. {"person", "operator"} \subseteq Facts(c)'
    BY <2>1, <2>2, <2>5 DEF Facts
  <2>7. Stands(c)'
    BY <2>2, <2>3, <2>5, <2>6, Remembered DEF Stands
  <2> QED
    BY <2>1, <2>2, <2>4, <2>7, Arrives
<1> QED
  BY <1>1, <1>2, <1>3, <1>4 DEF Arrive

-----------------------------------------------------------------------------
(* Steps that read.                                                        *)

LEMMA Current ==
    ASSUME TenancyInv, NEW c \in Clients, InFlight(c)
    PROVE  /\ DataTypes /\ RequestTypes /\ request[c] \in Arrived
           /\ Fits(request[c]) /\ Present(request[c]) /\ Stands(c) /\ Counted(request[c])
           /\ request[c].tenant \in Tenants /\ request[c].target[1] \in Tenants
           /\ request[c].target[2] \in People /\ request[c].role \in Roles
  BY InFlightRequest, ArrivedFields DEF TenancyInv

\* Refused, whether or not anything was found.
LEMMA Refused ==
    ASSUME TenancyInv, UNCHANGED <<data, sent>>, Remember, NEW c \in Clients, End(c)
    PROVE  TenancyInv'
<1>1. DataTypes' /\ AbsentIsEmpty' /\ RowsKept /\ TenantsKept
  BY DEF TenancyInv, DataTypes, AbsentIsEmpty, RowsKept, TenantsKept, data
<1> QED
  BY <1>1, RequestEnds

LEMMA GuardStep ==
    ASSUME TenancyInv, Remember, NEW c \in Clients, Guard(c)
    PROVE  TenancyInv'
<1>1. InFlight(c) /\ UNCHANGED <<data, sent>>
  BY DEF Guard, InFlight
<1>2. CASE End(c)
  BY <1>1, <1>2, Refused
<1>3. CASE Goto(c, "tenant")
  <2>1. "tenant" \in Phases \ {"idle"} /\ request[c].phase = "guard"
    BY DEF Phases, Guard
  <2>2. /\ request'[c].phase = "tenant" /\ request'[c].caller = request[c].caller
        /\ request'[c].op = request[c].op
    BY <1>1, <1>3, <2>1, GotoStep, Current
  <2>3. Fits(request[c])'
    BY <1>1, <2>1, <2>2, Current DEF Fits, HasRead
  <2>4. Present(request[c])' /\ Stands(c)' /\ Counted(request[c])'
    BY <2>2 DEF Present, Stands, Counted, HasRead
  <2> QED
    BY <1>1, <1>3, <2>1, <2>3, <2>4, RequestGoesOn
<1> QED
  BY <1>2, <1>3 DEF Guard

LEMMA AuthorizeTenantStep ==
    ASSUME TenancyInv, Remember, NEW c \in Clients, AuthorizeTenant(c)
    PROVE  TenancyInv'
<1>1. InFlight(c) /\ UNCHANGED <<data, sent>>
  BY DEF AuthorizeTenant, InFlight
<1>2. CASE End(c)
  BY <1>1, <1>2, Refused
<1>3. CASE tenants[request[c].tenant] = "active" /\ Goto(c, "person")
  <2>1. "person" \in Phases \ {"idle"} /\ request[c].phase = "tenant"
    BY DEF Phases, AuthorizeTenant
  <2>2. /\ request'[c].phase = "person" /\ request'[c].caller = request[c].caller
        /\ request'[c].op = request[c].op /\ request'[c].tenant = request[c].tenant
    BY <1>1, <1>3, <2>1, GotoStep, Current
  <2>3. Fits(request[c])'
    BY <1>1, <2>1, <2>2, Current DEF Fits, HasRead
  <2>4. Present(request[c])' /\ Counted(request[c])'
    BY <1>1, <1>3, <2>2 DEF Present, Counted, HasRead, data
  <2>5. "tenant" \in Facts(c)'
    BY <1>1, <1>3, <2>2 DEF Facts, data
  <2>6. Stands(c)'
    BY <2>2, <2>5, Remembered DEF Stands
  <2> QED
    BY <1>1, <1>3, <2>1, <2>3, <2>4, <2>6, RequestGoesOn
<1> QED
  BY <1>2, <1>3 DEF AuthorizeTenant

LEMMA AuthorizePersonStep ==
    ASSUME TenancyInv, Remember, NEW c \in Clients, AuthorizePerson(c)
    PROVE  TenancyInv'
<1>1. InFlight(c) /\ UNCHANGED <<data, sent>>
  BY DEF AuthorizePerson, InFlight
<1>2. CASE End(c)
  BY <1>1, <1>2, Refused
<1>3. CASE request[c].caller \in active /\ Goto(c, "membership")
  <2>1. "membership" \in Phases \ {"idle"} /\ request[c].phase = "person"
    BY DEF Phases, AuthorizePerson
  <2>2. /\ request'[c].phase = "membership" /\ request'[c].caller = request[c].caller
        /\ request'[c].op = request[c].op /\ request'[c].tenant = request[c].tenant
    BY <1>1, <1>3, <2>1, GotoStep, Current
  <2>3. Fits(request[c])'
    BY <1>1, <2>1, <2>2, Current DEF Fits, HasRead
  <2>4. Present(request[c])' /\ Counted(request[c])'
    BY <1>1, <2>1, <2>2, Current DEF Present, Counted, HasRead, data
  <2>5. "person" \in Facts(c)' /\ "tenant" \in standing[c] /\ InFlight(c)'
    BY <1>1, <1>3, <2>1, <2>2, Current DEF Facts, data, Stands, InFlight
  <2>6. Stands(c)'
    BY <1>1, <2>1, <2>2, <2>5, Remembered DEF Stands
  <2> QED
    BY <1>1, <1>3, <2>1, <2>3, <2>4, <2>6, RequestGoesOn
<1> QED
  BY <1>2, <1>3 DEF AuthorizePerson

LEMMA AuthorizeMembershipStep ==
    ASSUME TenancyInv, Remember, NEW c \in Clients, AuthorizeMembership(c)
    PROVE  TenancyInv'
<1> DEFINE next == IF request[c].op \in {"change", "revoke"} THEN "find" ELSE "apply"
<1>1. InFlight(c) /\ UNCHANGED <<data, sent>>
  BY DEF AuthorizeMembership, InFlight
<1>2. CASE End(c)
  BY <1>1, <1>2, Refused
<1>3. CASE MayAct(request[c]) /\ Goto(c, next)
  <2>1. /\ next \in Phases \ {"idle"} /\ next \in {"find", "apply"}
        /\ next = "find" <=> request[c].op \in {"change", "revoke"}
        /\ request[c].phase = "membership"
    BY DEF Phases, AuthorizeMembership
  <2> HIDE DEF next
  <2>2. /\ request'[c].phase = next /\ request'[c].caller = request[c].caller
        /\ request'[c].op = request[c].op /\ request'[c].tenant = request[c].tenant
    BY <1>1, <1>3, <2>1, GotoStep, Current
  <2>3. request[c].caller \in People /\ request[c].caller \notin KeyIds
    BY <1>1, <2>1, Current, TenancyAssumption DEF Fits
  <2>4. Fits(request[c])'
    BY <1>1, <2>1, <2>2, <2>3, Current DEF Fits, HasRead
  <2>5. Present(request[c])' /\ Counted(request[c])'
    BY <1>1, <2>1, <2>2, Current DEF Present, Counted, HasRead, data
  <2>6. "role" \in Facts(c)'
    BY <1>1, <1>3, <2>1, <2>2, <2>3 DEF Facts, MayAct, data
  <2>7. {"tenant", "person"} \subseteq standing[c] /\ InFlight(c)'
    BY <1>1, <2>1, <2>2, <2>3, Current DEF Stands, InFlight
  <2>8. Stands(c)'
    BY <1>1, <2>1, <2>2, <2>3, <2>6, <2>7, Remembered DEF Stands
  <2> QED
    BY <1>1, <1>3, <2>1, <2>4, <2>5, <2>8, RequestGoesOn
<1> QED
  BY <1>2, <1>3 DEF AuthorizeMembership

LEMMA AuthorizeMachineStep ==
    ASSUME TenancyInv, Remember, NEW c \in Clients, AuthorizeMachine(c)
    PROVE  TenancyInv'
<1>1. InFlight(c) /\ UNCHANGED <<data, sent>>
  BY DEF AuthorizeMachine, InFlight
<1>2. CASE End(c)
  BY <1>1, <1>2, Refused
<1>3. CASE tenants[request[c].tenant] = "active" /\ Goto(c, "apply")
  <2>1. "apply" \in Phases \ {"idle"} /\ request[c].phase = "machine"
    BY DEF Phases, AuthorizeMachine
  <2>2. /\ request'[c].phase = "apply" /\ request'[c].caller = request[c].caller
        /\ request'[c].op = request[c].op /\ request'[c].tenant = request[c].tenant
    BY <1>1, <1>3, <2>1, GotoStep, Current
  <2>3. /\ request[c].caller \in KeyIds /\ request[c].caller \notin People
        /\ request[c].op = "record"
    BY <1>1, <2>1, Current, TenancyAssumption DEF Fits
  <2>4. Fits(request[c])'
    BY <1>1, <2>1, <2>2, <2>3, Current DEF Fits, HasRead, TenantOps
  <2>5. Present(request[c])' /\ Counted(request[c])'
    BY <1>1, <1>3, <2>2, <2>3 DEF Present, Counted, HasRead, data
  <2>6. {"key", "tenant"} \subseteq standing[c] /\ InFlight(c)'
    BY <1>1, <2>1, <2>2, Current DEF Stands, InFlight
  <2>7. Stands(c)'
    BY <1>1, <2>1, <2>2, <2>3, <2>6, Remembered DEF Stands
  <2> QED
    BY <1>1, <1>3, <2>1, <2>4, <2>5, <2>7, RequestGoesOn
<1> QED
  BY <1>2, <1>3 DEF AuthorizeMachine

LEMMA FailAdministerStep ==
    ASSUME TenancyInv, Remember, NEW c \in Clients, FailAdminister(c)
    PROVE  TenancyInv'
<1>1. InFlight(c) /\ UNCHANGED <<data, sent>> /\ Goto(c, "compensate")
  BY DEF FailAdminister, InFlight
<1>2. "compensate" \in Phases \ {"idle"} /\ request[c].phase = "administer"
  BY DEF Phases, FailAdminister
<1>3. /\ request'[c].phase = "compensate" /\ request'[c].caller = request[c].caller
      /\ request'[c].op = request[c].op /\ request'[c].tenant = request[c].tenant
  BY <1>1, <1>2, GotoStep, Current
<1>4. Fits(request[c])'
  BY <1>1, <1>2, <1>3, Current DEF Fits, HasRead
<1>5. Present(request[c])' /\ Counted(request[c])'
  BY <1>1, <1>2, <1>3, Current DEF Present, Counted, HasRead, data
<1>6. Stands(c)'
  <2>1. InFlight(c)' /\ {"person", "operator"} \subseteq standing[c]
    BY <1>1, <1>2, <1>3, Current DEF InFlight, Stands
  <2> QED
    BY <1>1, <1>2, <1>3, <2>1, Remembered DEF Stands
<1> QED
  BY <1>1, <1>2, <1>4, <1>5, <1>6, RequestGoesOn

-----------------------------------------------------------------------------
(* The membership a request is about, and the administrators beside it.    *)

LEMMA FindMembershipStep ==
    ASSUME TenancyInv, Remember, NEW c \in Clients, FindMembership(c)
    PROVE  TenancyInv'
<1> DEFINE r == request[c]
           found == [r EXCEPT !.phase = "count", !.removes = Removes(r)]
<1>1. InFlight(c) /\ UNCHANGED <<data, sent>> /\ r.phase = "find"
  BY DEF FindMembership, InFlight
<1>2. CASE End(c)
  BY <1>1, <1>2, Refused
<1>3. CASE /\ InScope(r.target[1], r) /\ Row(r) # None
           /\ request' = [request EXCEPT ![c].phase = "count", ![c].removes = Removes(r)]
  <2>1. /\ r \in Arrived /\ RequestTypes /\ r.caller \in People /\ r.caller \notin KeyIds
        /\ r.op \in TenantOps /\ r.op \in {"change", "revoke"}
    BY <1>1, Current, TenancyAssumption DEF Fits
  <2>2. Removes(r) \in BOOLEAN /\ "count" \in Phases \ {"idle"}
    BY DEF Removes, Phases
  <2>3. /\ found \in Arrived /\ found.phase = "count" /\ found.removes = Removes(r)
        /\ found.op = r.op /\ found.caller = r.caller /\ found.tenant = r.tenant
        /\ found.target = r.target /\ found.role = r.role
    BY <2>1, <2>2 DEF Arrived
  <2>4. request' = [request EXCEPT ![c] = found]
    BY <1>3
  <2> HIDE DEF found
  <2>5. /\ request' \in [Clients -> Arrived \cup {Idle}] /\ request'[c] = found
        /\ \A d \in Clients : d # c => request'[d] = request[d]
    BY <2>1, <2>3, <2>4 DEF RequestTypes
  <2>6. Fits(request[c])'
    BY <1>3, <2>1, <2>3, <2>5 DEF Fits, HasRead, InScope
  <2>7. Present(request[c])'
    BY <1>1, <1>3, <2>3, <2>5, Current DEF Present, HasRead, Row, data
  <2>8. Counted(request[c])'
    BY <1>1, <1>3, <2>3, <2>5 DEF Counted, Removes, Row, data
  <2>9. Stands(c)'
    <3>1. InFlight(c)' /\ {"tenant", "person", "role"} \subseteq standing[c]
      BY <1>1, <2>1, <2>3, <2>5, Current DEF InFlight, Stands
    <3> QED
      BY <1>1, <2>1, <2>3, <2>5, <3>1, Remembered DEF Stands
  <2>10. DataTypes' /\ AbsentIsEmpty' /\ RowsKept /\ TenantsKept /\ sent' \in 0 .. MaxRequests
    BY <1>1 DEF TenancyInv, DataTypes, AbsentIsEmpty, RequestTypes, RowsKept, TenantsKept, data
  <2> QED
    BY <2>5, <2>6, <2>7, <2>8, <2>9, <2>10, StepOfOne
<1> QED
  BY <1>2, <1>3 DEF FindMembership

LEMMA AnotherAdministrator ==
    ASSUME DataTypes, NEW t \in Tenants, NEW p \in People, countActiveAdministrators(t) > 1
    PROVE  \E q \in Administrators(t) : q # p
<1> SUFFICES ASSUME Administrators(t) \subseteq {p} PROVE FALSE
  OBVIOUS
<1>1. IsFiniteSet({p}) /\ Cardinality({p}) = 1
  BY FS_Singleton
<1>2. /\ IsFiniteSet(Administrators(t)) /\ Cardinality(Administrators(t)) <= 1
  BY <1>1, FS_Subset
<1>3. Cardinality(Administrators(t)) \in Nat
  BY <1>2, FS_CardinalityType
<1> QED
  BY <1>2, <1>3 DEF countActiveAdministrators

LEMMA CountAdministratorsStep ==
    ASSUME TenancyInv, Remember, NEW c \in Clients, CountAdministrators(c)
    PROVE  TenancyInv'
<1>1. InFlight(c) /\ UNCHANGED <<data, sent>> /\ request[c].phase = "count"
  BY DEF CountAdministrators, InFlight
<1>2. CASE End(c)
  BY <1>1, <1>2, Refused
<1>3. CASE /\ assertTenantRetainsAdministrator(request[c].removes,
                                               countActiveAdministrators(request[c].tenant))
           /\ Goto(c, "apply")
  <2>1. "apply" \in Phases \ {"idle"}
    BY DEF Phases
  <2>2. /\ request'[c].phase = "apply" /\ request'[c].caller = request[c].caller
        /\ request'[c].op = request[c].op /\ request'[c].tenant = request[c].tenant
        /\ request'[c].target = request[c].target /\ request'[c].role = request[c].role
        /\ request'[c].removes = request[c].removes /\ request'[c].stale = request[c].stale
    BY <1>1, <1>3, <2>1, GotoStep, Current
  <2>3. /\ request[c].caller \in People /\ request[c].caller \notin KeyIds
        /\ HasRead(request[c]) /\ request[c].op \in {"change", "revoke"}
    BY <1>1, Current, TenancyAssumption DEF Fits, HasRead
  <2>4. Fits(request[c])'
    BY <1>1, <2>2, <2>3, Current DEF Fits, HasRead
  <2>5. Present(request[c])'
    BY <1>1, <2>2, <2>3, Current DEF Present, HasRead, Row, data
  <2>6. request[c].removes => \E p \in Administrators(request[c].tenant) : p # request[c].target[2]
    BY <1>1, <1>3, Current, AnotherAdministrator DEF assertTenantRetainsAdministrator
  <2>7. Counted(request[c])'
    <3>1. Removes(request[c])' <=> Removes(request[c])
      BY <1>1, <2>2 DEF Removes, Row, data
    <3>2. Administrators(request[c].tenant)' = Administrators(request[c].tenant)
      BY <1>1, <2>2 DEF Administrators, data
    <3>3. ~request[c].stale => (request[c].removes <=> Removes(request[c]))
      <4>1. Counted(request[c])
        BY <1>1, Current
      <4> QED
        BY <2>3, <4>1 DEF Counted
    <3> QED
      BY <2>2, <2>6, <3>1, <3>2, <3>3 DEF Counted
  <2>8. Stands(c)'
    <3>1. InFlight(c)' /\ {"tenant", "person", "role"} \subseteq standing[c]
      BY <1>1, <2>2, <2>3, Current DEF InFlight, Stands
    <3> QED
      BY <1>1, <2>2, <2>3, <3>1, Remembered DEF Stands
  <2> QED
    BY <1>1, <1>3, <2>1, <2>4, <2>5, <2>7, <2>8, RequestGoesOn
<1> QED
  BY <1>2, <1>3 DEF CountAdministrators

-----------------------------------------------------------------------------
(* A membership changes, and requests that had read it are out of date.    *)

\* What the step does to the rows: one of them changes, and goes on being one.
LEMMA UpdatedRows ==
    ASSUME TenancyInv, NEW c \in Clients, UpdateMembership(c)
    PROVE  /\ InFlight(c) /\ HasRead(request[c])
           /\ DataTypes' /\ AbsentIsEmpty'
           /\ \A t \in Tenants : \A p \in People : member[t][p] # None => member'[t][p] # None
           /\ \A t \in Tenants \ {request[c].tenant} : member'[t] = member[t]
           /\ \A p \in People \ {request[c].target[2]} :
                member'[request[c].tenant][p] = member[request[c].tenant][p]
           /\ ~Removes(request[c]) =>
                \A t \in Tenants : Administrators(t) \subseteq Administrators(t)'
<1> DEFINE r == request[c]
           t == r.tenant
           p == r.target[2]
           new == IF r.op = "change" THEN [Row(r) EXCEPT !.role = r.role]
                  ELSE [Row(r) EXCEPT !.status = "revoked"]
<1>1. /\ InFlight(c) /\ HasRead(r) /\ r.op \in {"change", "revoke"}
      /\ UNCHANGED <<tenants, active, operators, keys, written>>
  BY DEF UpdateMembership, InFlight, HasRead
<1>2. /\ r \in Arrived /\ DataTypes /\ t \in Tenants /\ p \in People /\ r.role \in Roles
      /\ r.target[1] = t /\ Row(r) # None /\ tenants[t] # "absent"
  BY <1>1, Current DEF Fits, Present, HasRead
<1>3. Row(r) \in MemberRows /\ Row(r) = member[t][p]
  BY <1>2 DEF DataTypes, Row
<1>4. new \in MemberRows /\ new # None
  BY <1>2, <1>3 DEF MemberRows, None, Roles
<1>5. Row(r) = [role |-> "admin", status |-> "active"] /\ ~Removes(r)
        => new = [role |-> "admin", status |-> "active"]
  BY <1>1, <1>2 DEF Removes
<1>6. member' = [member EXCEPT ![t][p] = new]
  BY <1>2, <1>3 DEF UpdateMembership
<1> HIDE DEF new, t, p
<1>7. /\ member'[t][p] = new
      /\ \A q \in People \ {p} : member'[t][q] = member[t][q]
      /\ \A u \in Tenants \ {t} : member'[u] = member[u]
      /\ member' \in [Tenants -> [People -> MemberRows \cup {None}]]
  BY <1>2, <1>4, <1>6 DEF DataTypes
<1>8. DataTypes' /\ AbsentIsEmpty'
  BY <1>1, <1>2, <1>7 DEF DataTypes, AbsentIsEmpty, TenancyInv
<1>9. \A u \in Tenants : \A q \in People : member[u][q] # None => member'[u][q] # None
  BY <1>4, <1>7
<1>10. ~Removes(r) => \A u \in Tenants : Administrators(u) \subseteq Administrators(u)'
  <2> SUFFICES ASSUME ~Removes(r), NEW u \in Tenants, NEW q \in Administrators(u)
               PROVE  q \in Administrators(u)'
    OBVIOUS
  <2>1. q \in People /\ member[u][q].role = "admin" /\ member[u][q].status = "active"
    BY DEF Administrators
  <2>2. CASE u # t \/ q # p
    BY <1>7, <2>1, <2>2 DEF Administrators
  <2>3. CASE u = t /\ q = p
    <3>1. Row(r) = [role |-> "admin", status |-> "active"]
      BY <1>3, <2>1, <2>3 DEF MemberRows
    <3> QED
      BY <1>5, <1>7, <2>1, <2>3, <3>1 DEF Administrators
  <2> QED
    BY <2>2, <2>3
<1> QED
  BY <1>1, <1>7, <1>8, <1>9, <1>10 DEF t, p

LEMMA OthersGoStale ==
    ASSUME TenancyInv, NEW c \in Clients, EndAsOthersGoStale(c), NEW d \in Clients, d # c
    PROVE  /\ request'[d] \in Arrived \cup {Idle} /\ request'[d].phase = request[d].phase
           /\ InFlight(d) =>
                /\ request'[d].op = request[d].op /\ request'[d].caller = request[d].caller
                /\ request'[d].tenant = request[d].tenant
                /\ request'[d].target = request[d].target
                /\ request'[d].role = request[d].role
                /\ request'[d].removes = request[d].removes
                /\ ~request'[d].stale => ~request[d].stale
                /\ HasRead(request[d]) /\ ~request'[d].stale
                    => request[d].tenant # request[c].tenant
<1> DEFINE late == [request[d] EXCEPT !.stale = TRUE]
<1>1. RequestTypes /\ (request[d].phase = "idle" \/ request[d] \in Arrived)
  BY InFlightRequest DEF TenancyInv, InFlight
<1>2. request[d] \in Arrived =>
        /\ late \in Arrived /\ late.stale = TRUE /\ late.phase = request[d].phase
        /\ late.op = request[d].op /\ late.caller = request[d].caller
        /\ late.tenant = request[d].tenant /\ late.target = request[d].target
        /\ late.role = request[d].role /\ late.removes = request[d].removes
  BY DEF Arrived
<1>3. \/ request'[d] = late /\ request[d].phase \in {"count", "apply"}
      \/ /\ request'[d] = request[d]
         /\ ~(/\ request[d].phase \in {"count", "apply"} /\ request[d].op \in {"change", "revoke"}
              /\ request[d].tenant = request[c].tenant)
  BY DEF EndAsOthersGoStale
<1> HIDE DEF late
<1>4. CASE request'[d] = late /\ request[d].phase \in {"count", "apply"}
  BY <1>1, <1>2, <1>4
<1>5. CASE /\ request'[d] = request[d]
           /\ ~(/\ request[d].phase \in {"count", "apply"}
                /\ request[d].op \in {"change", "revoke"}
                /\ request[d].tenant = request[c].tenant)
  <2>1. InFlight(d) /\ HasRead(request[d]) =>
            request[d].phase \in {"count", "apply"} /\ request[d].op \in {"change", "revoke"}
    BY Current DEF HasRead, Fits
  <2> QED
    BY <1>1, <1>5, <2>1 DEF RequestTypes
<1> QED
  BY <1>3, <1>4, <1>5

LEMMA UpdateMembershipStep ==
    ASSUME TenancyInv, Remember, NEW c \in Clients, UpdateMembership(c)
    PROVE  TenancyInv'
<1>1. /\ InFlight(c) /\ HasRead(request[c]) /\ EndAsOthersGoStale(c)
      /\ UNCHANGED <<tenants, active, operators, keys, sent>>
  BY UpdatedRows DEF UpdateMembership
<1>2. RequestTypes' /\ ~InFlight(c)'
  <2>1. request'[c] = Idle /\ DOMAIN request' = Clients /\ request' = [d \in Clients |-> request'[d]]
    BY <1>1 DEF EndAsOthersGoStale
  <2>2. \A d \in Clients : request'[d] \in Arrived \cup {Idle}
    BY <1>1, <2>1, OthersGoStale
  <2>3. request' \in [Clients -> Arrived \cup {Idle}]
    BY <2>1, <2>2
  <2> QED
    BY <1>1, <2>1, <2>3, IdleRequest DEF RequestTypes, TenancyInv, InFlight
<1>3. ASSUME NEW d \in Clients, InFlight(d)'
      PROVE  Fits(request[d])' /\ Present(request[d])' /\ Stands(d)' /\ Counted(request[d])'
  <2>1. d # c /\ InFlight(d)
    BY <1>1, <1>2, <1>3, OthersGoStale DEF InFlight
  <2>2. Fits(request[d])'
    BY <1>1, <2>1, OthersGoStale, Current DEF Fits, HasRead
  <2>3. Present(request[d])'
    BY <1>1, <2>1, OthersGoStale, UpdatedRows, Current DEF Present, HasRead, Row
  <2>4. Stands(d)'
    BY <1>1, <1>3, <2>1, OthersGoStale, Remembered, Current DEF Stands
  <2>5. Counted(request[d])'
    <3> SUFFICES ASSUME HasRead(request[d])', ~request'[d].stale PROVE Counted(request[d])'
      BY DEF Counted
    <3>1. /\ HasRead(request[d]) /\ ~request[d].stale /\ request[d].tenant # request[c].tenant
          /\ request[d].target[1] = request[d].tenant /\ request[d].tenant \in Tenants
      BY <1>1, <2>1, OthersGoStale, Current DEF HasRead, Fits
    <3>2. member'[request[d].tenant] = member[request[d].tenant]
      BY <3>1, UpdatedRows
    <3>3. Removes(request[d])' <=> Removes(request[d])
      BY <1>1, <2>1, <3>1, <3>2, OthersGoStale DEF Removes, Row
    <3>4. Administrators(request[d].tenant)' = Administrators(request[d].tenant)
      BY <1>1, <2>1, <3>2, OthersGoStale DEF Administrators
    <3> QED
      BY <1>1, <2>1, <3>1, <3>3, <3>4, OthersGoStale, Current DEF Counted
  <2> QED
    BY <2>2, <2>3, <2>4, <2>5
<1> QED
  BY <1>2, <1>3, UpdatedRows DEF TenancyInv

-----------------------------------------------------------------------------
(* Steps that write.                                                       *)

LEMMA MembershipInserted ==
    ASSUME TenancyInv, NEW t \in Tenants, NEW p \in People, NEW role \in Roles,
           tenants[t] # "absent", member' = insertMembership(t, p, role),
           UNCHANGED <<tenants, active, operators, keys, written>>
    PROVE  DataTypes' /\ AbsentIsEmpty' /\ RowsKept /\ TenantsKept
<1> DEFINE row == [role |-> role, status |-> "active"]
<1>1. row \in MemberRows /\ DataTypes /\ AbsentIsEmpty
  BY DEF MemberRows, TenancyInv
<1>2. CASE member[t][p] = None
  <2>1. member' = [member EXCEPT ![t][p] = row]
    BY <1>2 DEF insertMembership
  <2> HIDE DEF row
  <2>2. /\ member' \in [Tenants -> [People -> MemberRows \cup {None}]]
        /\ \A u \in Tenants : \A q \in People :
            u # t \/ q # p => member'[u][q] = member[u][q]
    BY <1>1, <2>1 DEF DataTypes
  <2>3. DataTypes' /\ AbsentIsEmpty'
    BY <1>1, <2>2 DEF DataTypes, AbsentIsEmpty
  <2> QED
    BY <1>2, <2>2, <2>3 DEF RowsKept, TenantsKept
<1>3. CASE member[t][p] # None
  BY <1>1, <1>3 DEF insertMembership, DataTypes, AbsentIsEmpty, RowsKept, TenantsKept
<1> QED
  BY <1>2, <1>3

LEMMA StatusUpdated ==
    ASSUME TenancyInv, NEW t \in Tenants, tenants' = updateTenantStatus(t),
           UNCHANGED <<active, operators, member, keys, written>>
    PROVE  DataTypes' /\ AbsentIsEmpty' /\ RowsKept /\ TenantsKept
<1>1. DataTypes /\ AbsentIsEmpty
  BY DEF TenancyInv
<1>2. /\ tenants' \in [Tenants -> {"absent", "active", "inactive"}]
      /\ \A u \in Tenants : tenants'[u] = "absent" <=> tenants[u] = "absent"
  BY <1>1 DEF DataTypes, updateTenantStatus, nameTaken
<1> QED
  BY <1>1, <1>2 DEF DataTypes, AbsentIsEmpty, RowsKept, TenantsKept

\* A change that touches neither tenants nor memberships.
LEMMA Elsewhere ==
    ASSUME TenancyInv, UNCHANGED <<tenants, member>>,
           active' \subseteq active, operators' \subseteq operators,
           keys' \in [KeyIds -> KeyRows \cup {NoKey}],
           written' \subseteq Tenants \X (People \cup KeyIds)
    PROVE  DataTypes' /\ AbsentIsEmpty' /\ RowsKept /\ TenantsKept
  BY DEF TenancyInv, DataTypes, AbsentIsEmpty, RowsKept, TenantsKept

LEMMA CreateMemberStep ==
    ASSUME TenancyInv, Remember, NEW c \in Clients, CreateMember(c)
    PROVE  TenancyInv'
<1>1. InFlight(c) /\ request[c].phase = "apply" /\ End(c) /\ sent' = sent
  BY DEF CreateMember, InFlight
<1>2. tenants[request[c].tenant] # "absent"
  BY <1>1, Current DEF Present
<1>3. DataTypes' /\ AbsentIsEmpty' /\ RowsKept /\ TenantsKept
  BY <1>1, <1>2, Current, MembershipInserted DEF CreateMember
<1> QED
  BY <1>1, <1>3, RequestEnds

LEMMA IssueApiKeyStep ==
    ASSUME TenancyInv, Remember, NEW c \in Clients, IssueApiKey(c)
    PROVE  TenancyInv'
<1>1. /\ InFlight(c) /\ End(c) /\ sent' = sent
      /\ UNCHANGED <<tenants, active, operators, member, written>>
  BY DEF IssueApiKey, InFlight
<1>2. keys' \in [KeyIds -> KeyRows \cup {NoKey}]
  <2>1. PICK k \in KeyIds : keys' = insertApiKey(k, request[c].tenant, request[c].role)
    BY DEF IssueApiKey
  <2>2. [tenant |-> request[c].tenant, role |-> request[c].role, revoked |-> FALSE] \in KeyRows
    BY <1>1, Current DEF KeyRows
  <2> QED
    BY <2>1, <2>2 DEF insertApiKey, TenancyInv, DataTypes
<1>3. DataTypes' /\ AbsentIsEmpty' /\ RowsKept /\ TenantsKept
  BY <1>1, <1>2, Elsewhere DEF TenancyInv, DataTypes
<1> QED
  BY <1>1, <1>3, RequestEnds

LEMMA RevokeApiKeyStep ==
    ASSUME TenancyInv, Remember, NEW c \in Clients, RevokeApiKey(c)
    PROVE  TenancyInv'
<1>1. /\ InFlight(c) /\ End(c) /\ sent' = sent
      /\ UNCHANGED <<tenants, active, operators, member, written>>
  BY DEF RevokeApiKey, InFlight
<1>2. keys' \in [KeyIds -> KeyRows \cup {NoKey}]
  <2>1. keys \in [KeyIds -> KeyRows \cup {NoKey}]
    BY DEF TenancyInv, DataTypes
  <2>2. PICK k \in KeyIds :
            keys' = keys \/ (keys[k] # NoKey /\ keys' = [keys EXCEPT ![k].revoked = TRUE])
    BY DEF RevokeApiKey
  <2>3. CASE keys[k] # NoKey /\ keys' = [keys EXCEPT ![k].revoked = TRUE]
    <3> DEFINE row == [keys[k] EXCEPT !.revoked = TRUE]
    <3>1. row \in KeyRows
      BY <2>1, <2>3 DEF KeyRows
    <3>2. keys' = [keys EXCEPT ![k] = row]
      BY <2>3
    <3> HIDE DEF row
    <3> QED
      BY <2>1, <3>1, <3>2
  <2> QED
    BY <2>1, <2>2, <2>3
<1>3. DataTypes' /\ AbsentIsEmpty' /\ RowsKept /\ TenantsKept
  BY <1>1, <1>2, Elsewhere DEF TenancyInv, DataTypes
<1> QED
  BY <1>1, <1>3, RequestEnds

LEMMA RecordStep ==
    ASSUME TenancyInv, Remember, NEW c \in Clients, Record(c)
    PROVE  TenancyInv'
<1>1. /\ InFlight(c) /\ End(c) /\ sent' = sent
      /\ UNCHANGED <<tenants, active, operators, member, keys>>
  BY DEF Record, InFlight
<1>2. written' \subseteq Tenants \X (People \cup KeyIds)
  <2>1. request[c].tenant \in Tenants /\ request[c].caller \in People \cup KeyIds
    BY <1>1, Current, ArrivedFields
  <2> QED
    BY <2>1 DEF Record, TenancyInv, DataTypes
<1>3. DataTypes' /\ AbsentIsEmpty' /\ RowsKept /\ TenantsKept
  BY <1>1, <1>2, Elsewhere DEF TenancyInv, DataTypes
<1> QED
  BY <1>1, <1>3, RequestEnds

LEMMA DeactivateTenantStep ==
    ASSUME TenancyInv, Remember, NEW c \in Clients, DeactivateTenant(c)
    PROVE  TenancyInv'
<1>1. InFlight(c) /\ End(c) /\ sent' = sent
  BY DEF DeactivateTenant, InFlight
<1>2. DataTypes' /\ AbsentIsEmpty' /\ RowsKept /\ TenantsKept
  BY <1>1, Current, StatusUpdated DEF DeactivateTenant
<1> QED
  BY <1>1, <1>2, RequestEnds

LEMMA DeactivatePersonStep ==
    ASSUME TenancyInv, Remember, NEW c \in Clients, DeactivatePerson(c)
    PROVE  TenancyInv'
<1>1. End(c) /\ sent' = sent
  BY DEF DeactivatePerson
<1>2. DataTypes' /\ AbsentIsEmpty' /\ RowsKept /\ TenantsKept
  BY Elsewhere DEF DeactivatePerson, TenancyInv, DataTypes
<1> QED
  BY <1>1, <1>2, RequestEnds

LEMMA InsertTenantStep ==
    ASSUME TenancyInv, Remember, NEW c \in Clients, InsertTenant(c)
    PROVE  TenancyInv'
<1>1. /\ InFlight(c) /\ request[c].phase = "operate" /\ request[c].op = "provision"
      /\ UNCHANGED <<active, operators, member, keys, written, sent>>
  BY DEF InsertTenant, InFlight
<1>2. CASE End(c) /\ UNCHANGED tenants
  BY <1>1, <1>2, Refused DEF data
<1>3. CASE /\ tenants' = [tenants EXCEPT ![request[c].tenant] = "active"]
           /\ Goto(c, "administer")
  <2>1. DataTypes' /\ AbsentIsEmpty' /\ RowsKept /\ TenantsKept /\ sent' \in 0 .. MaxRequests
    <3>1. /\ tenants' \in [Tenants -> {"absent", "active", "inactive"}]
          /\ \A u \in Tenants : tenants'[u] = "absent" => tenants[u] = "absent"
      BY <1>3 DEF TenancyInv, DataTypes
    <3> QED
      BY <1>1, <3>1 DEF TenancyInv, DataTypes, AbsentIsEmpty, RequestTypes, RowsKept, TenantsKept
  <2>2. RequestTypes /\ "administer" \in Phases \ {"idle"}
    BY DEF TenancyInv, Phases
  <2>3. /\ request'[c].phase = "administer" /\ request'[c].caller = request[c].caller
        /\ request'[c].op = request[c].op /\ request'[c].tenant = request[c].tenant
        /\ request' \in [Clients -> Arrived \cup {Idle}]
        /\ \A d \in Clients : d # c => request'[d] = request[d]
    BY <1>1, <1>3, <2>2, GotoStep
  <2>4. Fits(request[c])'
    BY <1>1, <2>3, Current DEF Fits, HasRead
  <2>5. Present(request[c])' /\ Counted(request[c])'
    BY <1>1, <1>3, <2>3, Current DEF Present, Counted, HasRead, DataTypes
  <2>6. Stands(c)'
    <3>1. InFlight(c)' /\ {"person", "operator"} \subseteq standing[c]
      BY <1>1, <2>3, Current DEF InFlight, Stands
    <3> QED
      BY <1>1, <2>3, <3>1, Remembered DEF Stands
  <2> QED
    BY <2>1, <2>3, <2>4, <2>5, <2>6, StepOfOne
<1> QED
  BY <1>2, <1>3 DEF InsertTenant

LEMMA AdministerStep ==
    ASSUME TenancyInv, Remember, NEW c \in Clients, Administer(c)
    PROVE  TenancyInv'
<1>1. InFlight(c) /\ request[c].phase = "administer" /\ sent' = sent
  BY DEF Administer, InFlight
<1>2. tenants[request[c].tenant] # "absent"
  BY <1>1, Current DEF Present
<1>3. "admin" \in Roles
  BY DEF Roles
<1>4. DataTypes' /\ AbsentIsEmpty' /\ RowsKept /\ TenantsKept
  BY <1>1, <1>2, <1>3, Current, MembershipInserted DEF Administer
<1>5. CASE End(c)
  BY <1>1, <1>4, <1>5, RequestEnds
<1>6. CASE Goto(c, "compensate")
  <2>1. RequestTypes /\ "compensate" \in Phases \ {"idle"} /\ sent' \in 0 .. MaxRequests
    BY <1>1 DEF TenancyInv, Phases, RequestTypes
  <2>2. /\ request'[c].phase = "compensate" /\ request'[c].caller = request[c].caller
        /\ request'[c].op = request[c].op /\ request'[c].tenant = request[c].tenant
        /\ request' \in [Clients -> Arrived \cup {Idle}]
        /\ \A d \in Clients : d # c => request'[d] = request[d]
    BY <1>1, <1>6, <2>1, GotoStep
  <2>3. Fits(request[c])'
    BY <1>1, <2>2, Current DEF Fits, HasRead
  <2>4. Present(request[c])' /\ Counted(request[c])'
    BY <1>1, <1>2, <1>4, <2>2, Current DEF Present, Counted, HasRead, TenantsKept
  <2>5. Stands(c)'
    <3>1. InFlight(c)' /\ {"person", "operator"} \subseteq standing[c]
      BY <1>1, <2>2, Current DEF InFlight, Stands
    <3> QED
      BY <1>1, <2>2, <3>1, Remembered DEF Stands
  <2> QED
    BY <1>4, <2>1, <2>2, <2>3, <2>4, <2>5, StepOfOne
<1> QED
  BY <1>5, <1>6 DEF Administer

LEMMA CompensateStep ==
    ASSUME TenancyInv, Remember, NEW c \in Clients, Compensate(c)
    PROVE  TenancyInv'
<1>1. InFlight(c) /\ End(c) /\ sent' = sent
  BY DEF Compensate, InFlight
<1>2. DataTypes' /\ AbsentIsEmpty' /\ RowsKept /\ TenantsKept
  BY <1>1, Current, StatusUpdated DEF Compensate
<1> QED
  BY <1>1, <1>2, RequestEnds

LEMMA DieStep ==
    ASSUME TenancyInv, Remember, NEW c \in Clients, Die(c)
    PROVE  TenancyInv'
  BY Refused DEF Die

LEMMA WithdrawOperatorStep ==
    ASSUME TenancyInv, Remember, NEW p \in People, WithdrawOperator(p)
    PROVE  TenancyInv'
<1>1. DataTypes' /\ AbsentIsEmpty' /\ RowsKept /\ TenantsKept /\ UNCHANGED <<request, sent>>
  BY Elsewhere DEF WithdrawOperator, TenancyInv, DataTypes
<1>2. RequestTypes'
  BY <1>1 DEF TenancyInv, RequestTypes
<1>3. \A d \in Clients : InFlight(d)' =>
        Fits(request[d])' /\ Present(request[d])' /\ Stands(d)' /\ Counted(request[d])'
  <2> SUFFICES ASSUME NEW d \in Clients, InFlight(d)'
               PROVE  Fits(request[d])' /\ Present(request[d])' /\ Stands(d)' /\ Counted(request[d])'
    OBVIOUS
  <2> request'[d] = request[d] /\ InFlight(d)
    BY <1>1 DEF InFlight
  <2> QED
    BY <1>1, Bystander
<1> QED
  BY <1>1, <1>2, <1>3 DEF TenancyInv

LEMMA TenancyStep == TenancyInv /\ [Next]_vars => TenancyInv'
<1> SUFFICES ASSUME TenancyInv, [Next]_vars PROVE TenancyInv'
  OBVIOUS
<1>1. ASSUME NEW c \in Clients, Serve(c), Remember PROVE TenancyInv'
  BY <1>1, GuardStep, AuthorizeTenantStep, AuthorizePersonStep, AuthorizeMembershipStep,
     AuthorizeMachineStep, FindMembershipStep, CountAdministratorsStep, UpdateMembershipStep,
     CreateMemberStep, IssueApiKeyStep, RevokeApiKeyStep, RecordStep, DeactivateTenantStep,
     DeactivatePersonStep, InsertTenantStep, AdministerStep, FailAdministerStep, CompensateStep
     DEF Serve
<1>2. CASE Next
  BY <1>1, <1>2, ResolvingStep, DieStep, WithdrawOperatorStep DEF Next, Step
<1>3. CASE UNCHANGED vars
  BY <1>3 DEF vars, data, TenancyInv, DataTypes, AbsentIsEmpty, RequestTypes, InFlight, Fits,
              Present, Stands, Counted, HasRead, Removes, Row, Administrators
<1> QED
  BY <1>2, <1>3

\* What is found stays, what stands is remembered and what is counted holds: the
\* invariant behind everything below.
THEOREM TenancyInvariant == Spec => []TenancyInv
<1> QED
  BY TenancyInit, TenancyStep, PTL DEF Spec

\* Every variable keeps its type, a tenant that is not there has no members, and no
\* more requests are sent than the bound allows.
THEOREM TenancyTypeCorrect == Spec => []TenancyTypeOK
<1>1. TenancyInv => TenancyTypeOK
  <2> SUFFICES ASSUME TenancyInv PROVE TenancyTypeOK
    OBVIOUS
  <2>1. DataTypes /\ AbsentIsEmpty /\ RequestTypes
    BY DEF TenancyInv
  <2>2. \A c \in Clients : request[c].phase \in Phases
    BY <2>1, InFlightRequest
  <2>3. \A t \in Tenants : \A p \in People :
            member[t][p] = None \/ (member[t][p].role \in Roles
                                    /\ member[t][p].status \in {"active", "revoked"})
    BY <2>1 DEF DataTypes, MemberRows
  <2>4. \A k \in KeyIds : keys[k] = NoKey \/ (keys[k].tenant \in Tenants /\ keys[k].role \in Roles)
    BY <2>1 DEF DataTypes, KeyRows
  <2> QED
    BY <2>1, <2>2, <2>3, <2>4 DEF TenancyTypeOK, DataTypes, AbsentIsEmpty, RequestTypes
<1> QED
  BY <1>1, TenancyInvariant, PTL

-----------------------------------------------------------------------------
(* Nothing without standing.                                               *)

LEMMA WriterStands ==
    ASSUME TenancyInv, NEW c \in Clients, InFlight(c),
           request[c].phase \in {"apply", "operate", "administer", "compensate"}
    PROVE  Needed(request[c]) \subseteq standing[c]
<1>1. Fits(request[c]) /\ Stands(c) /\ request[c].caller \in People \cup KeyIds
  BY Current, ArrivedFields
<1> QED
  BY <1>1 DEF Needed, Fits, Stands, TenantOps, OperatorOps

\* The four conditions a change of data must meet.
Lawful(c) ==
    /\ InFlight(c) /\ request'[c] # request[c]
    /\ Needed(request[c]) \subseteq standing[c]
    /\ \A t \in Tenants \ {request[c].tenant} : /\ member'[t] = member[t]
                                                /\ tenants'[t] = tenants[t]
    /\ \A k \in KeyIds : keys'[k] # keys[k] => keys'[k].tenant = request[c].tenant
    /\ \A w \in written' \ written : w[1] = request[c].tenant

LEMMA WritesAreLawful ==
    ASSUME TenancyInv, NEW c \in Clients, Serve(c)
    PROVE  data' = data \/ Lawful(c)
<1> DEFINE r == request[c]
<1>1. CASE data' = data
  BY <1>1
<1>2. ASSUME InFlight(c), r.phase \in {"apply", "operate", "administer", "compensate"},
             \/ End(c)
             \/ (Goto(c, "administer") /\ r.phase = "operate")
             \/ (Goto(c, "compensate") /\ r.phase = "administer")
      PROVE  request'[c] # r /\ Needed(r) \subseteq standing[c]
  <2>1. "administer" \in Phases \ {"idle"} /\ "compensate" \in Phases \ {"idle"} /\ RequestTypes
    BY DEF Phases, TenancyInv
  <2>2. request'[c].phase # r.phase
    BY <1>2, <2>1, EndStep, GotoStep, IdleRequest
  <2> QED
    BY <1>2, <2>2, WriterStands
<1>3. CASE UpdateMembership(c)
  <2>1. /\ InFlight(c) /\ request'[c] = Idle /\ r.phase = "apply"
        /\ UNCHANGED <<tenants, active, operators, keys, written>>
    BY <1>3 DEF UpdateMembership, EndAsOthersGoStale, InFlight
  <2>2. request'[c] # r
    BY <2>1, IdleRequest
  <2> QED
    BY <1>3, <2>1, <2>2, UpdatedRows, WriterStands DEF Lawful
<1>4. CASE CreateMember(c) \/ Administer(c)
  <2>1. /\ InFlight(c) /\ r.phase \in {"apply", "administer"}
        /\ UNCHANGED <<tenants, active, operators, keys, written>>
        /\ End(c) \/ (Goto(c, "compensate") /\ r.phase = "administer")
        /\ \E role \in Roles : member' = insertMembership(r.tenant, r.target[2], role)
    <3>1. InFlight(c)
      BY <1>4 DEF CreateMember, Administer, InFlight
    <3>2. r.role \in Roles /\ "admin" \in Roles
      BY <3>1, Current DEF Roles
    <3> QED
      BY <1>4, <3>1, <3>2 DEF CreateMember, Administer
  <2>2. \A t \in Tenants \ {r.tenant} : member'[t] = member[t]
    BY <2>1 DEF insertMembership, TenancyInv, DataTypes
  <2> QED
    BY <1>2, <2>1, <2>2 DEF Lawful
<1>5. CASE IssueApiKey(c)
  <2>1. /\ InFlight(c) /\ r.phase = "apply" /\ End(c)
        /\ UNCHANGED <<tenants, active, operators, member, written>>
    BY <1>5 DEF IssueApiKey, InFlight
  <2>2. \A k \in KeyIds : keys'[k] # keys[k] => keys'[k].tenant = r.tenant
    BY <1>5 DEF IssueApiKey, insertApiKey, TenancyInv, DataTypes
  <2> QED
    BY <1>2, <2>1, <2>2 DEF Lawful
<1>6. CASE RevokeApiKey(c)
  <2>1. /\ InFlight(c) /\ r.phase = "apply" /\ End(c)
        /\ UNCHANGED <<tenants, active, operators, member, written>>
    BY <1>6 DEF RevokeApiKey, InFlight
  <2>2. \A k \in KeyIds : keys'[k] # keys[k] => keys'[k].tenant = r.tenant
    <3>1. PICK k \in KeyIds : \/ keys' = keys
                              \/ /\ keys[k] # NoKey /\ keys[k].tenant = r.tenant
                                 /\ keys' = [keys EXCEPT ![k].revoked = TRUE]
      BY <1>6 DEF RevokeApiKey, InScope
    <3>2. CASE /\ keys[k] # NoKey /\ keys[k].tenant = r.tenant
               /\ keys' = [keys EXCEPT ![k].revoked = TRUE]
      <4> DEFINE row == [keys[k] EXCEPT !.revoked = TRUE]
      <4>1. keys \in [KeyIds -> KeyRows \cup {NoKey}]
        BY DEF TenancyInv, DataTypes
      <4>2. row.tenant = r.tenant
        BY <3>2, <4>1 DEF KeyRows
      <4>3. keys' = [keys EXCEPT ![k] = row]
        BY <3>2
      <4> HIDE DEF row
      <4> QED
        BY <4>1, <4>2, <4>3
    <3> QED
      BY <3>1, <3>2
  <2> QED
    BY <1>2, <2>1, <2>2 DEF Lawful
<1>7. CASE Record(c)
  <2>1. /\ InFlight(c) /\ r.phase = "apply" /\ End(c)
        /\ UNCHANGED <<tenants, active, operators, member, keys>>
        /\ \A w \in written' \ written : w[1] = r.tenant
    BY <1>7 DEF Record, InFlight
  <2> QED
    BY <1>2, <2>1 DEF Lawful
<1>8. CASE DeactivateTenant(c) \/ Compensate(c)
  <2>1. /\ InFlight(c) /\ r.phase \in {"operate", "compensate"} /\ End(c)
        /\ UNCHANGED <<active, operators, member, keys, written>>
        /\ tenants' = updateTenantStatus(r.tenant)
    BY <1>8 DEF DeactivateTenant, Compensate, InFlight
  <2>2. \A t \in Tenants \ {r.tenant} : tenants'[t] = tenants[t]
    BY <2>1 DEF updateTenantStatus, TenancyInv, DataTypes
  <2> QED
    BY <1>2, <2>1, <2>2 DEF Lawful
<1>9. CASE DeactivatePerson(c)
  <2>1. /\ InFlight(c) /\ r.phase = "operate" /\ End(c)
        /\ UNCHANGED <<tenants, operators, member, keys, written>>
    BY <1>9 DEF DeactivatePerson, InFlight
  <2> QED
    BY <1>2, <2>1 DEF Lawful
<1>10. CASE InsertTenant(c)
  <2>1. /\ InFlight(c) /\ r.phase = "operate"
        /\ UNCHANGED <<active, operators, member, keys, written>>
        /\ \/ UNCHANGED tenants
           \/ /\ tenants' = [tenants EXCEPT ![r.tenant] = "active"]
              /\ Goto(c, "administer")
    BY <1>10 DEF InsertTenant, InFlight
  <2>2. CASE UNCHANGED tenants
    BY <2>1, <2>2 DEF data
  <2>3. CASE tenants' = [tenants EXCEPT ![r.tenant] = "active"] /\ Goto(c, "administer")
    <3>1. \A t \in Tenants \ {r.tenant} : tenants'[t] = tenants[t]
      BY <2>3 DEF TenancyInv, DataTypes
    <3> QED
      BY <1>2, <2>1, <2>3, <3>1 DEF Lawful
  <2> QED
    BY <2>1, <2>2, <2>3
<1>11. CASE \/ Guard(c) \/ AuthorizeTenant(c) \/ AuthorizePerson(c) \/ AuthorizeMembership(c)
            \/ AuthorizeMachine(c) \/ FindMembership(c) \/ CountAdministrators(c)
            \/ FailAdminister(c)
  BY <1>11 DEF Guard, AuthorizeTenant, AuthorizePerson, AuthorizeMembership, AuthorizeMachine,
               FindMembership, CountAdministrators, FailAdminister, data
<1> QED
  BY <1>3, <1>4, <1>5, <1>6, <1>7, <1>8, <1>9, <1>10, <1>11 DEF Serve

\* No change is made but by a request of whose caller everything it needs has held
\* since the first read of its transaction, in the tenant that caller acts in.
THEOREM NothingChangesWithoutStanding == Spec => NothingWithoutStanding
<1>1. TenancyInv /\ Next => \/ data' = data \/ operators' # operators
                            \/ \E c \in Clients : Lawful(c)
  <2> SUFFICES ASSUME TenancyInv, Step
               PROVE  data' = data \/ operators' # operators \/ \E c \in Clients : Lawful(c)
    BY DEF Next
  <2>1. CASE \E p \in People : WithdrawOperator(p)
    BY <2>1 DEF WithdrawOperator
  <2>2. ASSUME NEW c \in Clients, Arrive(c) \/ Die(c) PROVE data' = data
    BY <2>2 DEF Arrive, ResolveApiKey, ResolveMember, ResolveOperator, RefuseAnonymous, Send, Die,
                data
  <2> QED
    BY <2>1, <2>2, WritesAreLawful DEF Step
<1>2. TenancyInv /\ [Next]_vars =>
        [data' = data \/ operators' # operators \/ \E c \in Clients :
            LET r == request[c] IN
            /\ InFlight(c) /\ request'[c] # r
            /\ Needed(r) \subseteq standing[c]
            /\ \A t \in Tenants \ {r.tenant} : /\ member'[t] = member[t]
                                               /\ tenants'[t] = tenants[t]
            /\ \A k \in KeyIds : keys'[k] # keys[k] => keys'[k].tenant = r.tenant
            /\ \A w \in written' \ written : w[1] = r.tenant]_vars
  BY <1>1 DEF Lawful
<1> QED
  BY <1>2, TenancyInvariant, PTL DEF Spec, NothingWithoutStanding

-----------------------------------------------------------------------------
(* The last administrator.                                                 *)

LEMMA RowsKeptBut ==
    ASSUME TenancyInv, Step, ~\E c \in Clients : UpdateMembership(c)
    PROVE  RowsKept
<1>1. CASE UNCHANGED member
  BY <1>1 DEF RowsKept
<1>2. ASSUME NEW c \in Clients, CreateMember(c) \/ Administer(c) PROVE RowsKept
  <2>1. /\ InFlight(c) /\ request[c].phase \in {"apply", "administer"}
        /\ UNCHANGED <<tenants, active, operators, keys, written>>
    BY <1>2 DEF CreateMember, Administer, InFlight
  <2>2. request[c].role \in Roles /\ "admin" \in Roles
    BY <2>1, Current DEF Roles
  <2>3. PICK role \in Roles : member' = insertMembership(request[c].tenant, request[c].target[2], role)
    BY <1>2, <2>2 DEF CreateMember, Administer
  <2>4. tenants[request[c].tenant] # "absent"
    BY <2>1, Current DEF Present
  <2> QED
    BY <2>1, <2>3, <2>4, Current, MembershipInserted
<1>3. CASE \E p \in People : WithdrawOperator(p)
  BY <1>1, <1>3 DEF WithdrawOperator
<1>4. ASSUME NEW c \in Clients, Arrive(c) \/ Die(c) PROVE UNCHANGED member
  BY <1>4 DEF Arrive, ResolveApiKey, ResolveMember, ResolveOperator, RefuseAnonymous, Send, Die,
              data
<1>5. ASSUME NEW c \in Clients, Serve(c), ~CreateMember(c), ~Administer(c) PROVE UNCHANGED member
  BY <1>5 DEF Serve, Guard, AuthorizeTenant, AuthorizePerson, AuthorizeMembership,
              AuthorizeMachine, FindMembership, CountAdministrators, FailAdminister, IssueApiKey,
              RevokeApiKey, Record, DeactivateTenant, DeactivatePerson, InsertTenant, Compensate,
              data
<1> QED
  BY <1>1, <1>2, <1>3, <1>4, <1>5 DEF Step

\* A request that takes the last administrator of a tenant away is out of date:
\* another one of that tenant wrote between its read and its write.
LEMMA TakenByStale ==
    ASSUME TenancyInv, NEW c \in Clients, UpdateMembership(c), NEW t \in Tenants,
           Administrators(t) # {}, Administrators(t)' = {}
    PROVE  /\ request[c].phase = "apply" /\ request[c].tenant = t /\ request[c].stale
           /\ ~InFlight(c)'
<1> DEFINE r == request[c]
<1>1. /\ r.phase = "apply" /\ InFlight(c) /\ HasRead(r) /\ ~InFlight(c)'
  BY UpdatedRows, IdleRequest DEF UpdateMembership, EndAsOthersGoStale, InFlight
<1>2. r.tenant = t
  BY UpdatedRows DEF Administrators
<1>3. r.stale \in BOOLEAN /\ Counted(r)
  BY <1>1, Current, ArrivedFields
<1>4. Removes(r)
  BY UpdatedRows
<1>5. ASSUME ~r.stale PROVE FALSE
  <2>1. PICK p \in Administrators(t) : p # r.target[2]
    BY <1>1, <1>2, <1>3, <1>4, <1>5 DEF Counted
  <2>2. p \in People /\ member'[t][p] = member[t][p]
    BY <1>2, <2>1, UpdatedRows DEF Administrators
  <2>3. p \in Administrators(t)'
    BY <2>1, <2>2 DEF Administrators
  <2> QED
    BY <2>3
<1> QED
  BY <1>1, <1>2, <1>3, <1>5

\* A tenant loses its last administrator only to a request that overlapped with
\* another one: the count that each makes for itself is enough when they do not.
THEOREM LastAdministratorLostByOverlap == Spec => LastAdministratorOnlyByOverlap
<1>1. TenancyInv /\ [Next]_vars =>
        [\A t \in Tenants : Administrators(t) # {} /\ Administrators(t)' = {} =>
            \E c \in Clients : request[c].phase = "apply" /\ request[c].tenant = t
                               /\ request[c].stale /\ ~InFlight(c)']_vars
  <2> SUFFICES ASSUME TenancyInv, Step, NEW t \in Tenants,
                      Administrators(t) # {}, Administrators(t)' = {}
               PROVE  \E c \in Clients : request[c].phase = "apply" /\ request[c].tenant = t
                                         /\ request[c].stale /\ ~InFlight(c)'
    BY DEF Next
  <2>1. ~RowsKept
    BY DEF RowsKept, Administrators, None
  <2>2. PICK c \in Clients : UpdateMembership(c)
    BY <2>1, RowsKeptBut
  <2> QED
    BY <2>2, TakenByStale
<1> QED
  BY <1>1, TenancyInvariant, PTL DEF Spec, LastAdministratorOnlyByOverlap

-----------------------------------------------------------------------------
(* Provisioned or retired.                                                 *)

Provisioning(c, t) == request[c].phase \in {"administer", "compensate"} /\ request[c].tenant = t

\* What can end the provisioning of a tenant.
LEMMA ProvisioningGoesOn ==
    ASSUME TenancyInv, Step, NEW c \in Clients, NEW t \in Tenants, Provisioning(c, t),
           ~Provisioning(c, t)'
    PROVE  \/ Administer(c) /\ End(c)
           \/ Compensate(c)
           \/ Die(c)
<1>1. InFlight(c) /\ RequestTypes /\ "compensate" \in Phases \ {"idle"}
  BY DEF Provisioning, InFlight, Phases, TenancyInv
<1>2. request'[c] # request[c]
  BY DEF Provisioning
<1>3. ASSUME NEW d \in Clients, UpdateMembership(d) PROVE FALSE
  <2>1. d # c /\ EndAsOthersGoStale(d)
    BY <1>3 DEF Provisioning, UpdateMembership
  <2> QED
    BY <1>1, <2>1, OthersGoStale DEF Provisioning
<1>4. ASSUME NEW p \in People, WithdrawOperator(p) PROVE FALSE
  BY <1>2, <1>4 DEF WithdrawOperator
<1>5. ~Goto(c, "compensate")
  BY <1>1, GotoStep DEF Provisioning
<1>6. ASSUME NEW d \in Clients, \/ Arrive(d) \/ Die(d)
                                \/ (Serve(d) /\ ~UpdateMembership(d))
      PROVE  d = c
  <2> SUFFICES ASSUME d # c PROVE request'[c] = request[c]
    BY <1>2
  <2>1. CASE Arrive(d)
    BY <1>1, <2>1 DEF Arrive, ResolveApiKey, ResolveMember, ResolveOperator, RefuseAnonymous,
                      Send, RequestTypes
  <2>2. CASE Die(d)
    BY <1>1, <2>2 DEF Die, End, RequestTypes
  <2>3. CASE Serve(d) /\ ~UpdateMembership(d)
    BY <1>1, <2>3 DEF Serve, Guard, AuthorizeTenant, AuthorizePerson, AuthorizeMembership,
              AuthorizeMachine, FindMembership, CountAdministrators, FailAdminister,
              CreateMember, IssueApiKey, Administer,
              RevokeApiKey, Record, DeactivateTenant, DeactivatePerson, InsertTenant, Compensate,
              End, Goto, RequestTypes
  <2> QED
    BY <1>6, <2>1, <2>2, <2>3
<1>7. Die(c) \/ Serve(c)
  <2>1. ~Arrive(c)
    BY <1>1, <1>2 DEF Arrive, ResolveApiKey, ResolveMember, ResolveOperator, RefuseAnonymous, Send
  <2> QED
    BY <1>3, <1>4, <1>6, <2>1 DEF Step
<1>8. CASE Serve(c)
  BY <1>5, <1>8 DEF Serve, Guard, AuthorizeTenant, AuthorizePerson, AuthorizeMembership,
              AuthorizeMachine, FindMembership, CountAdministrators, FailAdminister,
              CreateMember, IssueApiKey, Administer, UpdateMembership,
              RevokeApiKey, Record, DeactivateTenant, DeactivatePerson, InsertTenant, Provisioning
<1> QED
  BY <1>7, <1>8

LEMMA MembersStay ==
    ASSUME TenancyInv, Step, NEW t \in Tenants, NEW p \in People, member[t][p] # None
    PROVE  member'[t][p] # None
<1>1. CASE \E c \in Clients : UpdateMembership(c)
  BY <1>1, UpdatedRows
<1>2. CASE ~\E c \in Clients : UpdateMembership(c)
  BY <1>2, RowsKeptBut DEF RowsKept
<1> QED
  BY <1>1, <1>2

\* A tenant becomes active in the first transaction of its provisioning alone.
LEMMA ActivatedByProvisioning ==
    ASSUME TenancyInv, Step, NEW t \in Tenants, tenants[t] # "active", tenants'[t] = "active"
    PROVE  \E c \in Clients : Provisioning(c, t)'
<1>1. ASSUME NEW c \in Clients, InsertTenant(c) PROVE Provisioning(c, t)'
  <2>1. /\ InFlight(c) /\ RequestTypes /\ "administer" \in Phases \ {"idle"}
        /\ tenants' = [tenants EXCEPT ![request[c].tenant] = "active"] /\ Goto(c, "administer")
    BY <1>1 DEF InsertTenant, InFlight, Phases, TenancyInv
  <2>2. request[c].tenant = t
    BY <2>1 DEF TenancyInv, DataTypes
  <2> QED
    BY <2>1, <2>2, GotoStep DEF Provisioning
<1>2. ASSUME NEW c \in Clients, DeactivateTenant(c) \/ Compensate(c) PROVE FALSE
  BY <1>2 DEF DeactivateTenant, Compensate, updateTenantStatus, TenancyInv, DataTypes
<1>3. CASE \E p \in People : WithdrawOperator(p)
  BY <1>3 DEF WithdrawOperator
<1>4. ASSUME NEW c \in Clients, Arrive(c) \/ Die(c) PROVE FALSE
  BY <1>4 DEF Arrive, ResolveApiKey, ResolveMember, ResolveOperator, RefuseAnonymous, Send, Die,
              data
<1>5. ASSUME NEW c \in Clients, Serve(c), ~InsertTenant(c), ~DeactivateTenant(c), ~Compensate(c)
      PROVE  FALSE
  BY <1>5 DEF Serve, Guard, AuthorizeTenant, AuthorizePerson, AuthorizeMembership,
              AuthorizeMachine, FindMembership, CountAdministrators, FailAdminister, IssueApiKey,
              RevokeApiKey, Record, DeactivatePerson, CreateMember, Administer, UpdateMembership,
              data
<1> QED
  BY <1>1, <1>2, <1>3, <1>4, <1>5 DEF Step

LEMMA ProvisionedInit == Init => ProvisionedOrRetired
  BY TenancyAssumption DEF Init, ProvisionedOrRetired, None

LEMMA ProvisionedStep ==
    TenancyInv /\ ProvisionedOrRetired /\ [Next]_vars => ProvisionedOrRetired'
<1> SUFFICES ASSUME TenancyInv, ProvisionedOrRetired, [Next]_vars PROVE ProvisionedOrRetired'
  OBVIOUS
<1>1. CASE UNCHANGED vars
  BY <1>1 DEF vars, data, ProvisionedOrRetired
<1>2. CASE Step
  <2> SUFFICES ASSUME NEW t \in Tenants, tenants'[t] = "active",
                      \A p \in People : member'[t][p] = None
               PROVE  t \in abandoned' \/ \E c \in Clients : Provisioning(c, t)'
    BY DEF ProvisionedOrRetired, Provisioning
  <2>1. CASE tenants[t] # "active"
    BY <1>2, <2>1, ActivatedByProvisioning
  <2>2. CASE t \in abandoned
    BY <1>2, <2>2 DEF Step, Arrive, ResolveApiKey, ResolveMember, ResolveOperator,
              RefuseAnonymous, Send, Die, WithdrawOperator, Serve, Guard, AuthorizeTenant,
              AuthorizePerson, AuthorizeMembership,
              AuthorizeMachine, FindMembership, CountAdministrators, FailAdminister,
              CreateMember, IssueApiKey, Administer, UpdateMembership,
              RevokeApiKey, Record, DeactivateTenant, DeactivatePerson, InsertTenant, Compensate
  <2>3. CASE tenants[t] = "active" /\ t \notin abandoned
    <3>1. \A p \in People : member[t][p] = None
      BY <1>2, MembersStay
    <3>2. PICK c \in Clients : Provisioning(c, t)
      BY <2>3, <3>1 DEF ProvisionedOrRetired, Provisioning
    <3>3. InFlight(c) /\ request[c].target[2] \in People /\ DataTypes
      BY <3>2, Current DEF Provisioning, InFlight
    <3>4. ~Administer(c)
      BY <3>1, <3>2, <3>3
         DEF Administer, Provisioning, insertMembership, DataTypes, None
    <3>5. ~Compensate(c)
      BY <2>3, <3>2, <3>3 DEF Compensate, Provisioning, updateTenantStatus, nameTaken, DataTypes
    <3>6. Die(c) => t \in abandoned'
      BY <3>2 DEF Die, Provisioning
    <3> QED
      BY <1>2, <3>2, <3>4, <3>5, <3>6, ProvisioningGoesOn
  <2> QED
    BY <2>1, <2>2, <2>3
<1> QED
  BY <1>1, <1>2 DEF Next

\* No tenant stays active with nobody in it but one whose provisioning is under way
\* or died half-way: every other failure of the second transaction retires it.
THEOREM ProvisionedOrRetiredAlways == Spec => []ProvisionedOrRetired
<1> QED
  BY ProvisionedInit, ProvisionedStep, TenancyInvariant, PTL DEF Spec

=============================================================================
