----------------------------- MODULE ExportRun -----------------------------
(***************************************************************************)
(* The operator's command: one run of the export over the platform's       *)
(* tenants (RunExportUseCase, its report and the script that exits with    *)
(* its status), repeated night after night.                                *)
(*                                                                         *)
(* A tenant's own export is reduced to its claim, its objects, its         *)
(* confirmation and its mark: ExportTenant has the detail. What is added   *)
(* is what tenants share: the transaction identifiers of one database, the *)
(* list of tenants read once, one report and one exit status. A movement   *)
(* is the identifier of the transaction that recorded it, and has          *)
(* committed: in-flight transactions are ExportTenant's subject.           *)
(***************************************************************************)
EXTENDS ExportDomain, FiniteSets

CONSTANTS
    Tenants,
    Broken,      \* tenants whose export may fail every time
    Everyone,    \* the command given no tenant to narrow the run to
    MaxXid,      \* bound on the identifiers the database hands out
    MaxFaults    \* bound on crashes, refused runs and other tenants' failures

ASSUME TenantsAssumption == Broken \subseteq Tenants /\ Everyone \notin Tenants

ASSUME BoundsAssumption == MaxXid \in TransactionIds /\ MaxFaults \in Nat

VARIABLES
    status,      \* of a tenant: absent, active or inactive
    recorded,    \* identifiers of the movements recorded, per tenant
    nextXid,     \* the horizon of the whole database
    cursor,      \* the rows of export_cursors
    published,   \* movements in the lake, per tenant
    faults,
    stage,       \* where the run is; the variables below are its locals
    only,        \* the tenant the run is narrowed to, or Everyone
    scope,       \* the tenants the run answers for
    current,     \* the tenant being carried, {} between two
    window,      \* what that tenant's claim says
    outcomes,    \* the tenants answered for so far
    exitStatus,  \* of the last run, "none" while one is under way
    due,         \* history: what was recorded when the tenants were listed
    announced    \* history: movements reports have counted as carried

platformVars == <<status, recorded>>
runVars == <<only, scope, current, window, outcomes, exitStatus, due>>
vars == <<platformVars, nextXid, cursor, published, faults, stage, runVars, announced>>

-----------------------------------------------------------------------------
Active == {t \in Tenants : status[t] = "active"}

XidTaken == IF nextXid < MaxXid THEN nextXid + 1 ELSE nextXid

RowsIn(w, t) == {x \in recorded[t] : Covers(w, x)}

Answered == DOMAIN outcomes

\* Slip: the tenants active by now, not the ones the run is about.
LeftOfActive == Active \ Answered

\* Tenants the run has not answered for; carried one at a time.
Left == scope \ Answered

NoOutcomes == [t \in {} |-> "failed"]

Answer(t, said) == [u \in Answered \cup {t} |-> IF u = t THEN said ELSE outcomes[u]]

\* Slip: a run that carried somebody has succeeded.
SucceededInPart == Answered # {} => \E t \in Answered : outcomes[t] # "failed"

\* reportOf and exitStatusOf: one failure fails the run.
Succeeded == \A t \in Answered : outcomes[t] # "failed"

\* What is recorded of a tenant, and what of it the next claim has to cover: a
\* window on record is replayed as it is, whatever was recorded since.
DueOf(t) ==
    [recorded |-> recorded[t],
     owed |-> {x \in recorded[t] :
                  CursorState(cursor[t]) = "started" => x < cursor[t].pendingTo}]

NothingDue == [t \in Tenants |-> [recorded |-> {}, owed |-> {}]]

FaultAllowed == faults < MaxFaults /\ faults' = faults + 1

Init ==
    /\ status \in [Tenants -> {"absent", "active"}]
    /\ recorded = [t \in Tenants |-> {}]
    /\ nextXid = FIRST
    /\ cursor = [t \in Tenants |-> EmptyRow]
    /\ published = [t \in Tenants |-> {}]
    /\ faults = 0
    /\ stage = "idle"
    /\ only = Everyone
    /\ scope = {}
    /\ current = {}
    /\ window = NoWindow
    /\ outcomes = NoOutcomes
    /\ exitStatus = "none"
    /\ due = NothingDue
    /\ announced = [t \in Tenants |-> 0]

-----------------------------------------------------------------------------
(* The platform goes on while a run is under way.                          *)

Provision(t) ==
    /\ status[t] = "absent"
    /\ status' = [status EXCEPT ![t] = "active"]
    /\ UNCHANGED <<recorded, nextXid, cursor, published, faults, stage, runVars,
                   announced>>

Deactivate(t) ==
    /\ status[t] = "active"
    /\ status' = [status EXCEPT ![t] = "inactive"]
    /\ UNCHANGED <<recorded, nextXid, cursor, published, faults, stage, runVars,
                   announced>>

Record(t) ==
    /\ status[t] = "active"
    /\ nextXid < MaxXid
    /\ recorded' = [recorded EXCEPT ![t] = @ \cup {nextXid}]
    /\ nextXid' = nextXid + 1
    /\ UNCHANGED <<status, cursor, published, faults, stage, runVars, announced>>

-----------------------------------------------------------------------------
(* The run.                                                                *)

Begin(named) ==
    /\ stage = "idle"
    /\ stage' = "probe"
    /\ only' = named
    /\ scope' = {}
    /\ outcomes' = NoOutcomes
    /\ exitStatus' = "none"
    /\ due' = NothingDue
    /\ UNCHANGED <<platformVars, nextXid, cursor, published, faults, current,
                   window, announced>>

\* The sink is asked once, before the first tenant.
Reachable ==
    /\ stage = "probe"
    /\ stage' = "list"
    /\ UNCHANGED <<platformVars, nextXid, cursor, published, faults, runVars,
                   announced>>

\* The active tenants, read once; a tenant named that is not there refuses.
List ==
    /\ stage = "list"
    /\ only \in Active \cup {Everyone}
    /\ scope' = IF only = Everyone THEN Active ELSE {only}
    /\ due' = [t \in Tenants |-> DueOf(t)]
    /\ stage' = "next"
    /\ UNCHANGED <<platformVars, nextXid, cursor, published, faults, only, current,
                   window, outcomes, exitStatus, announced>>

RefuseNamed ==
    /\ stage = "list"
    /\ only \notin Active \cup {Everyone}
    /\ stage' = "idle"
    /\ exitStatus' = "failure"
    /\ UNCHANGED <<platformVars, nextXid, cursor, published, faults, only, scope,
                   current, window, outcomes, due, announced>>

\* The storage unreachable, or the database while the tenants are listed.
Refuse ==
    /\ stage \in {"probe", "list"}
    /\ FaultAllowed
    /\ stage' = "idle"
    /\ exitStatus' = "failure"
    /\ UNCHANGED <<platformVars, nextXid, cursor, published, only, scope, current,
                   window, outcomes, due, announced>>

\* claimWindow, the statement that writes included.
Claim(t) ==
    /\ stage = "next"
    /\ t \in Left
    /\ current' = {t}
    /\ window' = NextWindow(cursor[t], nextXid)
    /\ stage' = "write"
    /\ IF window' = NoWindow
       THEN UNCHANGED <<cursor, nextXid>>
       ELSE /\ cursor' = [cursor EXCEPT ![t] = [through |-> cursor[t].through,
                                                 pendingFrom |-> window'.from,
                                                 pendingTo |-> window'.to]]
            /\ nextXid' = XidTaken
    /\ UNCHANGED <<platformVars, published, faults, only, scope, outcomes,
                   exitStatus, due, announced>>

WriteObjects(t) ==
    /\ stage = "write"
    /\ t \in current
    /\ published' = [published EXCEPT ![t] = @ \cup RowsIn(window, t)]
    /\ stage' = IF window = NoWindow THEN "mark" ELSE "confirm"
    /\ UNCHANGED <<platformVars, nextXid, cursor, faults, runVars, announced>>

\* Slip: the pending window is cleared and the point reached stays.
ConfirmInPlace(t) ==
    /\ stage = "confirm"
    /\ t \in current
    /\ cursor' = [cursor EXCEPT ![t].pendingFrom = NULL, ![t].pendingTo = NULL]
    /\ nextXid' = XidTaken
    /\ stage' = "mark"
    /\ UNCHANGED <<platformVars, published, faults, runVars, announced>>

Confirm(t) ==
    /\ stage = "confirm"
    /\ t \in current
    /\ cursor' = [cursor EXCEPT ![t] = [through |-> window.to, pendingFrom |-> NULL,
                                        pendingTo |-> NULL]]
    /\ nextXid' = XidTaken
    /\ stage' = "mark"
    /\ UNCHANGED <<platformVars, published, faults, runVars, announced>>

\* Slip: the tenant just carried is not let go of.
SucceedHoldingOn(t) ==
    /\ stage = "mark"
    /\ t \in current
    /\ outcomes' = Answer(t, IF RowsIn(window, t) = {} THEN "up-to-date" ELSE "carried")
    /\ announced' = [announced EXCEPT ![t] = @ + Cardinality(RowsIn(window, t))]
    /\ stage' = "next"
    /\ UNCHANGED <<platformVars, nextXid, cursor, published, faults, only, scope,
                   current, window, exitStatus, due>>

\* The mark is put and the outcome decided from the rows, never from the cursor.
Succeed(t) ==
    /\ stage = "mark"
    /\ t \in current
    /\ outcomes' = Answer(t, IF RowsIn(window, t) = {} THEN "up-to-date" ELSE "carried")
    /\ announced' = [announced EXCEPT ![t] = @ + Cardinality(RowsIn(window, t))]
    /\ stage' = "next"
    /\ current' = {}
    /\ window' = NoWindow
    /\ UNCHANGED <<platformVars, nextXid, cursor, published, faults, only, scope,
                   exitStatus, due>>

\* Slip: the failure of one tenant is not caught, and ends the run.
FailTenantAndRun(t) ==
    /\ \/ stage = "next" /\ t \in Left
       \/ stage \in {"write", "confirm", "mark"} /\ t \in current
    /\ IF t \in Broken THEN UNCHANGED faults ELSE FaultAllowed
    /\ exitStatus' = "failure"
    /\ stage' = "idle"
    /\ current' = {}
    /\ window' = NoWindow
    /\ UNCHANGED <<platformVars, nextXid, cursor, published, only, scope, outcomes,
                   due, announced>>

\* Any step of one tenant's export throws, its claim included, or some of its
\* objects are put and the next is not; the run goes on with the next tenant.
FailTenant(t) ==
    /\ \/ stage = "next" /\ t \in Left
       \/ stage \in {"write", "confirm", "mark"} /\ t \in current
    /\ IF t \in Broken THEN UNCHANGED faults ELSE FaultAllowed
    /\ \E written \in SUBSET (IF stage = "write" THEN RowsIn(window, t) ELSE {}) :
        published' = [published EXCEPT ![t] = @ \cup written]
    /\ outcomes' = Answer(t, "failed")
    /\ stage' = "next"
    /\ current' = {}
    /\ window' = NoWindow
    /\ UNCHANGED <<platformVars, nextXid, cursor, only, scope, exitStatus, due,
                   announced>>

Finish ==
    /\ stage = "next"
    /\ Left = {}
    /\ exitStatus' = IF Succeeded THEN "success" ELSE "failure"
    /\ stage' = "idle"
    /\ UNCHANGED <<platformVars, nextXid, cursor, published, faults, only, scope,
                   current, window, outcomes, due, announced>>

\* The process dies: no report, and what was committed or put stays.
Crash ==
    /\ stage # "idle"
    /\ FaultAllowed
    /\ stage' = "idle"
    /\ exitStatus' = "failure"
    /\ current' = {}
    /\ window' = NoWindow
    /\ UNCHANGED <<platformVars, nextXid, cursor, published, only, scope, outcomes,
                   due, announced>>

-----------------------------------------------------------------------------
Carrying(t) == Claim(t) \/ WriteObjects(t) \/ Confirm(t) \/ Succeed(t)

Running ==
    \/ Reachable \/ List \/ RefuseNamed \/ Finish
    \/ \E t \in Tenants : Carrying(t) \/ FailTenant(t)

Next ==
    \/ \E t \in Tenants : Provision(t) \/ Deactivate(t) \/ Record(t)
    \/ \E named \in Tenants \cup {Everyone} : Begin(named)
    \/ Running
    \/ Refuse
    \/ Crash

Spec == Init /\ [][Next]_vars

\* A run that has begun goes on, and the full export is begun again and again.
FairSpec == Spec /\ WF_vars(Running) /\ SF_vars(Begin(Everyone))

-----------------------------------------------------------------------------
(* Properties.                                                             *)

RunTypeOK ==
    /\ status \in [Tenants -> {"absent", "active", "inactive"}]
    /\ recorded \in [Tenants -> SUBSET TransactionIds]
    /\ nextXid \in TransactionIds
    /\ cursor \in [Tenants -> CursorRows]
    /\ published \in [Tenants -> SUBSET TransactionIds]
    /\ faults \in 0 .. MaxFaults
    /\ stage \in {"idle", "probe", "list", "next", "write", "confirm", "mark"}
    /\ only \in Tenants \cup {Everyone}
    /\ scope \in SUBSET Tenants
    /\ current \in SUBSET scope
    /\ Cardinality(current) = IF stage \in {"write", "confirm", "mark"} THEN 1 ELSE 0
    /\ window \in Windows
    /\ Answered \subseteq scope
    /\ \A t \in Answered : outcomes[t] \in {"carried", "up-to-date", "failed"}
    /\ exitStatus \in {"none", "success", "failure"}
    /\ due \in [Tenants -> [recorded : SUBSET TransactionIds,
                           owed : SUBSET TransactionIds]]
    /\ announced \in [Tenants -> Nat]

\* A run that exits reporting success has left no window pending for any tenant
\* that was active when it listed them (or the one named), and all that was
\* owed to each by then is in the lake and below the point reached (execute,
\* claimWindow, reportOf, exitStatusOf).
SuccessIsWhole ==
    exitStatus = "success" =>
        \A t \in scope :
            /\ t \in Answered
            /\ CursorState(cursor[t]) # "started"
            /\ \A x \in due[t].owed : x < cursor[t].through /\ x \in published[t]

\* The reports of all the runs, added up, never count a movement twice: one
\* replayed after a run that died is counted by the run that finishes it.
CountedAtMostOnce ==
    \A t \in Tenants : announced[t] <= Cardinality(published[t])

\* A run changes nothing of a tenant it did not list as active, or was not
\* asked for: not its point reached, not its objects.
OnlyScopeIsTouched ==
    [][\A t \in Tenants \ scope :
        cursor'[t] = cursor[t] /\ published'[t] = published[t]]_vars

\* A tenant that does not keep failing is carried whatever happens to the
\* others: one tenant's failure, every night, costs that tenant only.
HealthyAreCarried ==
    \A t \in Tenants \ Broken : \A x \in 1 .. MaxXid :
        (x \in recorded[t]) ~> (x < cursor[t].through \/ status[t] = "inactive")

\* "Carrying nothing is being up to date" (execute): a tenant reported up to
\* date has nothing left of what had been recorded before the run listed it.
UpToDateLeavesNothing ==
    \A t \in Answered : outcomes[t] = "up-to-date" => due[t].recorded \subseteq published[t]

=============================================================================
