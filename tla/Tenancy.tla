------------------------------ MODULE Tenancy ------------------------------
(***************************************************************************)
(* Who may do what: tenants, people, memberships, operators and API keys,  *)
(* and the requests that act on them. A request is resolved to an actor    *)
(* (PrincipalResolver), admitted or not by its route (AccessGuard),        *)
(* authorized once more in the transaction of its use case                 *)
(* (tenant-authorization), and then reads and writes, statement by         *)
(* statement at READ COMMITTED, among other requests.                      *)
(*                                                                         *)
(* A tenant is its name, which is unique; a person is their address. Lists *)
(* and other reads are left out. A transaction whose last statement        *)
(* changes one row is committed with it.                                   *)
(***************************************************************************)
EXTENDS Integers, FiniteSets

CONSTANTS
    Clients,
    Tenants,
    People,
    KeyIds,
    Operators,        \* granted by a script
    FirstMembers,     \* Tenants -> the administrators it starts with, none if it is not there
    Commands,         \* what callers ask: operation, caller, tenant acted in, tenant and
                      \* person of the membership it is about, role
    MaxRequests       \* bound on the requests that resolve

Roles == {"admin", "editor", "viewer"}

TenantOps == {"create", "change", "revoke", "issue", "withdraw", "record"}

OperatorOps == {"provision", "deactivate-tenant", "deactivate-person"}

ASSUME TenancyAssumption ==
    /\ IsFiniteSet(People) /\ People \cap KeyIds = {}
    /\ Operators \subseteq People
    /\ FirstMembers \in [Tenants -> SUBSET People]
    /\ Commands \subseteq (TenantOps \cup OperatorOps) \X (People \cup KeyIds) \X Tenants
                        \X Tenants \X People \X Roles
    /\ MaxRequests \in Nat

VARIABLES
    tenants,     \* status of each
    active,      \* people not deactivated
    operators,   \* platform_operators
    member,      \* memberships, one per tenant and person at most
    keys,        \* api_keys
    written,     \* inventory rows: in which tenant, by whom
    request,     \* of a client, in flight
    sent,
    standing,    \* history: what has held of a request's caller since its first read
    abandoned    \* history: tenants whose provisioning nobody brought to an end

data == <<tenants, active, operators, member, keys, written>>
vars == <<data, request, sent, standing, abandoned>>

-----------------------------------------------------------------------------
None == [role |-> "none", status |-> "none"]

NoKey == [tenant |-> "none", role |-> "none", revoked |-> FALSE]

\* What each use case, and the route before it, declares.
Permitted(op) == IF op = "record" THEN {"admin", "editor"} ELSE {"admin"}

\* Routes that declare "machines".
AdmitsMachines(op) == op = "record"

Idle == [op |-> "none", phase |-> "idle", removes |-> FALSE, stale |-> FALSE]

InFlight(c) == request[c].phase # "idle"

Goto(c, phase) == request' = [request EXCEPT ![c].phase = phase]

End(c) == request' = [request EXCEPT ![c] = Idle]

\* A grant needs all of them; only the reason depends on their order.
decideAccess(t, p) ==
    tenants[t] = "active" /\ p \in active /\ member[t][p].status = "active"

\* Slip: a revoked administrator is counted.
countOfAnyStatus(t) == Cardinality({p \in People : member[t][p].role = "admin"})

\* The rows a statement writes. A second membership of one person, and a name that
\* is taken, are refused by their unique constraints; a key revoked already stays as
\* it is.
insertMembership(t, p, role) ==
    IF member[t][p] = None THEN [member EXCEPT ![t][p] = [role |-> role, status |-> "active"]]
    ELSE member

insertApiKey(k, t, role) ==
    [keys EXCEPT ![k] = [tenant |-> t, role |-> role, revoked |-> FALSE]]

nameTaken(t) == tenants[t] # "absent"

updateTenantStatus(t) == [tenants EXCEPT ![t] = IF nameTaken(t) THEN "inactive" ELSE @]

\* A tenant sees the people it has a membership of, of whatever status, and no other.
Visible(t, p) == member[t][p] # None

Administrators(t) == {p \in People : member[t][p].role = "admin" /\ member[t][p].status = "active"}

countActiveAdministrators(t) == Cardinality(Administrators(t))

assertTenantRetainsAdministrator(removes, count) == ~removes \/ count > 1

\* The repository's scope, and below it the policy on the rows of a tenant.
InScope(t, r) == t = r.tenant

-----------------------------------------------------------------------------
Init ==
    /\ tenants = [t \in Tenants |-> IF FirstMembers[t] = {} THEN "absent" ELSE "active"]
    /\ active = People
    /\ operators = Operators
    /\ member = [t \in Tenants |-> [p \in People |->
                    IF p \in FirstMembers[t] THEN [role |-> "admin", status |-> "active"]
                    ELSE None]]
    /\ keys = [k \in KeyIds |-> NoKey]
    /\ written = {}
    /\ request = [c \in Clients |-> Idle]
    /\ sent = 0
    /\ standing = [c \in Clients |-> {}]
    /\ abandoned = {}

\* A script, run by hand.
WithdrawOperator(p) ==
    /\ p \in operators
    /\ operators' = operators \ {p}
    /\ UNCHANGED <<tenants, active, member, keys, written, request, sent, abandoned>>

-----------------------------------------------------------------------------
(* A request arrives.                                                      *)

Send(c, r) ==
    /\ ~InFlight(c)
    /\ sent < MaxRequests
    /\ sent' = sent + 1
    /\ request' = [request EXCEPT ![c] = r]
    /\ UNCHANGED <<data, abandoned>>

Requests(op, caller, t, target, role) ==
    [op |-> op, phase |-> "guard", caller |-> caller, tenant |-> t, target |-> target,
     role |-> role, removes |-> FALSE, stale |-> FALSE]

\* An access token on a path that names a tenant: nothing is read yet.
ResolveMember(c, p, op, t, target, role) == Send(c, Requests(op, p, t, target, role))

\* An access token on a path that names none: operators are read every time. The
\* guard has nothing to read.
ResolveOperator(c, p, op, t, target) ==
    /\ p \in active \cap operators
    /\ Send(c, [Requests(op, p, t, target, "admin") EXCEPT !.phase = "operate"])

\* The guard on a machine: the route admits it, its role, and the tenant in the
\* path is its own.
MachineAdmitted(k, op, t) ==
    AdmitsMachines(op) /\ keys[k].role \in Permitted(op) /\ keys[k].tenant = t

\* A key that is not revoked, of a tenant that is active: what the actor says of
\* tenant and role is not read again. A machine acts in the tenant of its key.
ResolveApiKey(c, k, op, t, target) ==
    /\ keys[k] # NoKey /\ ~keys[k].revoked
    /\ tenants[keys[k].tenant] = "active"
    /\ MachineAdmitted(k, op, t)
    /\ Send(c, [Requests(op, k, keys[k].tenant, target, keys[k].role) EXCEPT !.phase = "machine"])

\* No credential, or one that resolves to nobody: refused, with nothing read.
RefuseAnonymous(c) == ~InFlight(c) /\ UNCHANGED <<data, request, sent, abandoned>>

-----------------------------------------------------------------------------
(* Admission and authorization.                                            *)

\* The guard authorizes in a transaction of its own. Its reads are one step: the
\* use case makes them again, and tenants and people never become active again.
Guard(c) ==
    /\ request[c].phase = "guard"
    /\ LET r == request[c] IN
        IF decideAccess(r.tenant, r.caller)
           /\ member[r.tenant][r.caller].role \in Permitted(r.op)
        THEN Goto(c, "tenant") ELSE End(c)
    /\ UNCHANGED <<data, sent, abandoned>>

\* authorizeInTenant: the tenant, the person, the membership, one after another, as the
\* guard has read them before.
AuthorizeTenant(c) ==
    /\ request[c].phase = "tenant"
    /\ IF tenants[request[c].tenant] = "active" THEN Goto(c, "person") ELSE End(c)
    /\ UNCHANGED <<data, sent, abandoned>>

\* Slip: that the person was found is enough, as the guard has asked the rest.
AuthorizePersonFound(c) ==
    /\ request[c].phase = "person"
    /\ IF Visible(request[c].tenant, request[c].caller) THEN Goto(c, "membership") ELSE End(c)
    /\ UNCHANGED <<data, sent, abandoned>>

AuthorizePerson(c) ==
    /\ request[c].phase = "person"
    /\ IF request[c].caller \in active /\ Visible(request[c].tenant, request[c].caller)
       THEN Goto(c, "membership") ELSE End(c)
    /\ UNCHANGED <<data, sent, abandoned>>

MayAct(r) ==
    member[r.tenant][r.caller].status = "active"
    /\ member[r.tenant][r.caller].role \in Permitted(r.op)

AuthorizeMembership(c) ==
    /\ request[c].phase = "membership"
    /\ IF MayAct(request[c])
       THEN Goto(c, IF request[c].op \in {"change", "revoke"} THEN "find" ELSE "apply")
       ELSE End(c)
    /\ UNCHANGED <<data, sent, abandoned>>

\* authorizeCallerInTenant, of a machine.
AuthorizeMachine(c) ==
    /\ request[c].phase = "machine"
    /\ IF tenants[request[c].tenant] = "active" /\ request[c].role \in Permitted(request[c].op)
       THEN Goto(c, "apply") ELSE End(c)
    /\ UNCHANGED <<data, sent, abandoned>>

-----------------------------------------------------------------------------
(* What a member of a tenant, or a machine, asks for.                      *)

Row(r) == member[r.target[1]][r.target[2]]

\* Would this request take an administrator away, as its membership stands?
Removes(r) ==
    /\ Row(r) = [role |-> "admin", status |-> "active"]
    /\ r.op = "revoke" \/ r.role # "admin"

FindMembership(c) ==
    /\ request[c].phase = "find"
    /\ LET r == request[c] IN
        IF InScope(r.target[1], r) /\ Row(r) # None
        THEN request' = [request EXCEPT ![c].phase = "count", ![c].removes = Removes(r)]
        ELSE End(c)
    /\ UNCHANGED <<data, sent, abandoned>>

CountAdministrators(c) ==
    /\ request[c].phase = "count"
    /\ LET r == request[c] IN
        IF assertTenantRetainsAdministrator(r.removes, countActiveAdministrators(r.tenant))
        THEN Goto(c, "apply") ELSE End(c)
    /\ UNCHANGED <<data, sent, abandoned>>

\* The request ends. Others that have read the memberships of its tenant now hold
\* something stale.
EndAsOthersGoStale(c) ==
    request' = [d \in Clients |->
        IF d = c THEN Idle
        ELSE IF request[d].phase \in {"count", "apply"}
                /\ request[d].op \in {"change", "revoke"}
                /\ request[d].tenant = request[c].tenant
             THEN [request[d] EXCEPT !.stale = TRUE]
        ELSE request[d]]

\* updateRole, updateStatus: one column, whatever the row holds by now.
UpdateMembership(c) ==
    /\ request[c].phase = "apply" /\ request[c].op \in {"change", "revoke"}
    /\ LET r == request[c] IN
        member' = [member EXCEPT ![r.target[1]][r.target[2]] =
            IF r.op = "change" THEN [@ EXCEPT !.role = r.role]
            ELSE [@ EXCEPT !.status = "revoked"]]
    /\ EndAsOthersGoStale(c)
    /\ UNCHANGED <<tenants, active, operators, keys, written, sent, abandoned>>

\* The person is found or created, and made a member unless they are one: a
\* revoked membership is one too.
CreateMember(c) ==
    /\ request[c].phase = "apply" /\ request[c].op = "create"
    /\ member' = insertMembership(request[c].tenant, request[c].target[2], request[c].role)
    /\ End(c)
    /\ UNCHANGED <<tenants, active, operators, keys, written, sent, abandoned>>

IssueApiKey(c) ==
    /\ request[c].phase = "apply" /\ request[c].op = "issue"
    /\ \E k \in KeyIds :
        /\ keys[k] = NoKey
        /\ keys' = insertApiKey(k, request[c].tenant, request[c].role)
    /\ End(c)
    /\ UNCHANGED <<tenants, active, operators, member, written, sent, abandoned>>

\* A key of another tenant is absent.
RevokeApiKey(c) ==
    /\ request[c].phase = "apply" /\ request[c].op = "withdraw"
    /\ \E k \in KeyIds :
        keys' = IF keys[k] # NoKey /\ InScope(keys[k].tenant, request[c])
                THEN [keys EXCEPT ![k].revoked = TRUE] ELSE keys
    /\ End(c)
    /\ UNCHANGED <<tenants, active, operators, member, written, sent, abandoned>>

Record(c) ==
    /\ request[c].phase = "apply" /\ request[c].op = "record"
    /\ written' = written \cup {<<request[c].tenant, request[c].caller>>}
    /\ End(c)
    /\ UNCHANGED <<tenants, active, operators, member, keys, sent, abandoned>>

-----------------------------------------------------------------------------
(* What an operator asks for.                                              *)

DeactivateTenant(c) ==
    /\ request[c].phase = "operate" /\ request[c].op = "deactivate-tenant"
    /\ tenants' = updateTenantStatus(request[c].tenant)
    /\ End(c)
    /\ UNCHANGED <<active, operators, member, keys, written, sent, abandoned>>

\* Through a function that answers nothing; it looks at no membership.
DeactivatePerson(c) ==
    /\ request[c].phase = "operate" /\ request[c].op = "deactivate-person"
    /\ active' = active \ {request[c].target[2]}
    /\ End(c)
    /\ UNCHANGED <<tenants, operators, member, keys, written, sent, abandoned>>

\* Slip: the administrator first, and the tenant for them.
InsertTenantAfter(c) ==
    /\ request[c].phase = "operate" /\ request[c].op = "provision"
    /\ IF nameTaken(request[c].tenant) THEN End(c) ELSE Goto(c, "administer")
    /\ UNCHANGED <<data, sent, abandoned>>

\* The first of two transactions, on two connections. A name that is taken stays so.
InsertTenant(c) ==
    /\ request[c].phase = "operate" /\ request[c].op = "provision"
    /\ IF nameTaken(request[c].tenant) THEN End(c) /\ UNCHANGED tenants
       ELSE /\ tenants' = [tenants EXCEPT ![request[c].tenant] = "active"]
            /\ Goto(c, "administer")
    /\ UNCHANGED <<active, operators, member, keys, written, sent, abandoned>>

Administer(c) ==
    /\ request[c].phase = "administer"
    /\ member' = insertMembership(request[c].tenant, request[c].target[2], "admin")
    \* The commit may be followed by an error all the same.
    /\ End(c) \/ Goto(c, "compensate")
    /\ UNCHANGED <<tenants, active, operators, keys, written, sent, abandoned>>

\* Slip: the error is thrown on with nothing put right.
FailAdministerAsIs(c) ==
    /\ request[c].phase = "administer"
    /\ End(c)
    /\ UNCHANGED <<data, sent, abandoned>>

FailAdminister(c) ==
    /\ request[c].phase = "administer"
    /\ Goto(c, "compensate")
    /\ UNCHANGED <<data, sent, abandoned>>

\* The tenant is retired, as the first transaction cannot be undone.
Compensate(c) ==
    /\ request[c].phase = "compensate"
    /\ tenants' = updateTenantStatus(request[c].tenant)
    /\ End(c)
    /\ UNCHANGED <<active, operators, member, keys, written, sent, abandoned>>

\* A statement fails or the process dies. In one transaction that leaves nothing;
\* between the two of provisioning, or when the compensation fails, it does.
Die(c) ==
    /\ InFlight(c)
    /\ abandoned' = IF request[c].phase \in {"administer", "compensate"}
                    THEN abandoned \cup {request[c].tenant} ELSE abandoned
    /\ End(c)
    /\ UNCHANGED <<data, sent>>

-----------------------------------------------------------------------------
Arrive(c) ==
    \/ \E command \in Commands :
        LET op == command[1]
            caller == command[2]
            t == command[3]
            target == <<command[4], command[5]>>
        IN  \/ caller \in KeyIds /\ ResolveApiKey(c, caller, op, t, target)
            \/ caller \in People /\ op \in TenantOps
               /\ ResolveMember(c, caller, op, t, target, command[6])
            \/ op \in OperatorOps /\ ResolveOperator(c, caller, op, t, target)
    \/ RefuseAnonymous(c)

Serve(c) ==
    \/ Guard(c) \/ AuthorizeTenant(c) \/ AuthorizePerson(c) \/ AuthorizeMembership(c)
    \/ AuthorizeMachine(c) \/ FindMembership(c) \/ CountAdministrators(c)
    \/ UpdateMembership(c) \/ CreateMember(c) \/ IssueApiKey(c) \/ RevokeApiKey(c) \/ Record(c)
    \/ DeactivateTenant(c) \/ DeactivatePerson(c)
    \/ InsertTenant(c) \/ Administer(c) \/ FailAdminister(c) \/ Compensate(c)

Step ==
    \/ \E c \in Clients : Arrive(c) \/ Serve(c) \/ Die(c)
    \/ \E p \in People : WithdrawOperator(p)

-----------------------------------------------------------------------------
(* History: what holds of a caller now, and what has since the first read  *)
(* of the transaction that may write. What the guard read before is not    *)
(* relied on; a machine's key, and an operator, are read on arrival.       *)

Facts(c) ==
    LET r == request[c] IN
    IF r.phase = "idle" THEN {}
    ELSE {f \in {"tenant", "person", "operator", "role", "key"} :
            \/ f = "tenant" /\ tenants[r.tenant] = "active"
            \/ f = "person" /\ r.caller \in active
            \/ f = "operator" /\ r.caller \in operators
            \/ f = "role" /\ r.caller \in People
               /\ member[r.tenant][r.caller].status = "active"
               /\ member[r.tenant][r.caller].role \in Permitted(r.op)
            \/ f = "key" /\ r.caller \in KeyIds /\ keys[r.caller].tenant = r.tenant
               /\ ~keys[r.caller].revoked /\ keys[r.caller].role \in Permitted(r.op)}

Remember ==
    standing' = [c \in Clients |->
        IF InFlight(c)' /\ InFlight(c) /\ request[c].phase \notin {"guard", "tenant"}
        THEN standing[c] \cup Facts(c)' ELSE Facts(c)']

Next == Step /\ Remember

Spec == Init /\ [][Next]_vars

-----------------------------------------------------------------------------
(* Properties.                                                             *)

Phases == {"idle", "guard", "tenant", "person", "membership", "machine", "find", "count",
           "apply", "operate", "administer", "compensate"}

TenancyTypeOK ==
    /\ tenants \in [Tenants -> {"absent", "active", "inactive"}]
    /\ active \subseteq People /\ operators \subseteq Operators
    /\ \A t \in Tenants : \A p \in People :
        /\ member[t][p] = None \/ (member[t][p].role \in Roles
                                   /\ member[t][p].status \in {"active", "revoked"})
        /\ tenants[t] = "absent" => member[t][p] = None
    /\ \A k \in KeyIds : keys[k] = NoKey \/ (keys[k].tenant \in Tenants /\ keys[k].role \in Roles)
    /\ written \subseteq Tenants \X (People \cup KeyIds)
    /\ \A c \in Clients : request[c].phase \in Phases
    /\ sent \in 0 .. MaxRequests

\* What a change needs to have held of whoever asked for it.
Needed(r) ==
    IF r.op \in OperatorOps THEN {"person", "operator"}
    ELSE IF r.caller \in KeyIds THEN {"key", "tenant"}
    ELSE {"tenant", "person", "role"}

\* Nothing changes but by a request of which everything it needs has held since the
\* first read of its transaction (or since it arrived, for a machine or an operator):
\* standing that was withdrawn before that does not reach the write, though the
\* guard has seen it, and no change reaches a tenant other than the one the caller
\* acts in. The reads, one after another, are all at other moments than the write.
NothingWithoutStanding ==
    [][data' = data \/ operators' # operators \/ \E c \in Clients :
        LET r == request[c] IN
        /\ InFlight(c) /\ request'[c] # r
        /\ Needed(r) \subseteq standing[c]
        /\ \A t \in Tenants \ {r.tenant} : /\ member'[t] = member[t]
                                           /\ tenants'[t] = tenants[t]
        /\ \A k \in KeyIds : keys'[k] # keys[k] => keys'[k].tenant = r.tenant
        /\ \A w \in written' \ written : w[1] = r.tenant]_vars

\* A tenant loses its last administrator, by demotion or by revocation, only to
\* a request that overlapped with another one of that tenant: what one request
\* does on its own, the count prevents (assertTenantRetainsAdministrator).
LastAdministratorOnlyByOverlap ==
    [][\A t \in Tenants : Administrators(t) # {} /\ Administrators(t)' = {} =>
        \E c \in Clients : request[c].phase = "apply" /\ request[c].tenant = t
                           /\ request[c].stale /\ ~InFlight(c)']_vars

\* A tenant is provisioned with its administrator or retired: one that is active
\* with no member is being provisioned, unless the process died half-way.
ProvisionedOrRetired ==
    \A t \in Tenants :
        tenants[t] = "active" /\ (\A p \in People : member[t][p] = None)
        => t \in abandoned
           \/ \E c \in Clients : request[c].phase \in {"administer", "compensate"}
                                 /\ request[c].tenant = t

\* No revocation and no change of role leaves a tenant with no active
\* administrator (requirements 7.1 and 7.2). Concurrent ones do.
TenantKeepsAdministrator ==
    \A t \in Tenants : (\E p \in People : member[t][p] # None) => Administrators(t) # {}

=============================================================================
