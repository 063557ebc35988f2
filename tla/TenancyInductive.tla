-------------------------- MODULE TenancyInductive --------------------------
(***************************************************************************)
(* The inductive invariant of tenants, memberships and the requests that   *)
(* act on them.                                                            *)
(***************************************************************************)
EXTENDS Tenancy

Arrived == [op : TenantOps \cup OperatorOps, phase : Phases \ {"idle"},
            caller : People \cup KeyIds, tenant : Tenants, target : Tenants \X People,
            role : Roles, removes : BOOLEAN, stale : BOOLEAN]

MemberRows == [role : Roles, status : {"active", "revoked"}]

KeyRows == [tenant : Tenants, role : Roles, revoked : BOOLEAN]

DataTypes ==
    /\ tenants \in [Tenants -> {"absent", "active", "inactive"}]
    /\ active \subseteq People /\ operators \subseteq Operators
    /\ member \in [Tenants -> [People -> MemberRows \cup {None}]]
    /\ keys \in [KeyIds -> KeyRows \cup {NoKey}]
    /\ written \subseteq Tenants \X (People \cup KeyIds)

AbsentIsEmpty ==
    \A t \in Tenants : tenants[t] = "absent" => \A p \in People : member[t][p] = None

RequestTypes ==
    /\ request \in [Clients -> Arrived \cup {Idle}]
    /\ sent \in 0 .. MaxRequests

\* Has the request read the membership it is about?
HasRead(r) == r.phase = "count" \/ (r.phase = "apply" /\ r.op \in {"change", "revoke"})

\* What the phase of a request says of what it asks.
Fits(r) ==
    /\ r.phase \in {"guard", "tenant", "person", "membership", "find", "count"} =>
        r.caller \in People /\ r.op \in TenantOps
    /\ r.phase \in {"find", "count"} => r.op \in {"change", "revoke"}
    /\ r.phase = "machine" => r.caller \in KeyIds /\ r.op = "record"
    /\ r.phase = "apply" => r.op \in TenantOps /\ (r.caller \in KeyIds => r.op = "record")
    /\ r.phase \in {"operate", "administer", "compensate"} =>
        r.caller \in People /\ r.op \in OperatorOps
    /\ r.phase \in {"administer", "compensate"} => r.op = "provision"
    /\ HasRead(r) => r.target[1] = r.tenant

\* What a request has found is still there: nothing is ever deleted.
Present(r) ==
    /\ r.phase \in {"person", "membership", "find", "count", "apply", "administer", "compensate"}
        => tenants[r.tenant] # "absent"
    /\ HasRead(r) => Row(r) # None

\* What a request has found has held since the first read of its transaction.
Stands(c) ==
    LET r == request[c] IN
    /\ r.phase \in {"person", "membership", "find", "count", "apply"} => "tenant" \in standing[c]
    /\ r.caller \in People =>
        /\ r.phase \in {"membership", "find", "count", "apply"} => "person" \in standing[c]
        /\ r.phase \in {"find", "count", "apply"} => "role" \in standing[c]
    /\ r.phase = "machine" \/ (r.phase = "apply" /\ r.caller \in KeyIds) =>
        {"key", "tenant"} \subseteq standing[c]
    /\ r.phase \in {"operate", "administer", "compensate"} =>
        {"person", "operator"} \subseteq standing[c]

\* What a request that overlapped with no other has read still holds, and if it
\* takes an administrator away there is another one.
Counted(r) ==
    HasRead(r) /\ ~r.stale =>
        /\ r.removes <=> Removes(r)
        /\ r.phase = "apply" /\ r.removes =>
            \E p \in Administrators(r.tenant) : p # r.target[2]

TenancyInv ==
    /\ DataTypes /\ AbsentIsEmpty /\ RequestTypes
    /\ \A c \in Clients : InFlight(c) =>
        Fits(request[c]) /\ Present(request[c]) /\ Stands(c) /\ Counted(request[c])

=============================================================================
