-------------------------- MODULE ExportRunProofs --------------------------
(***************************************************************************)
(* Proofs about the operator's command: a run that reports success is      *)
(* whole, no movement is counted twice, and only the tenants listed are    *)
(* touched.                                                                *)
(***************************************************************************)
EXTENDS ExportRunInductive, FiniteSetTheorems, TLAPS

LEMMA TypesOfTenant ==
    ASSUME RunTypeOK, NEW t \in Tenants
    PROVE  /\ recorded[t] \in SUBSET Nat /\ published[t] \in SUBSET Nat
           /\ \A x \in recorded[t] : 0 < x
           /\ nextXid \in Nat /\ 0 < nextXid
           /\ cursor[t] \in CursorRows
           /\ cursor[t].through \in Nat /\ cursor[t].pendingFrom \in Nat
           /\ cursor[t].pendingTo \in Nat
           /\ window \in Windows /\ window.from \in Nat /\ window.to \in Nat
           /\ announced[t] \in Nat
           /\ due[t].owed \in SUBSET Nat
  BY DEF RunTypeOK, TransactionIds, NULL, CursorRows, Windows

\* What one tenant has is finite, since identifiers are handed out in order.
LEMMA RowsAreFinite ==
    ASSUME RunTypeOK, NEW t \in Tenants, TenantIsTrue(t), NEW S \in SUBSET recorded[t]
    PROVE  IsFiniteSet(S) /\ Cardinality(S) \in Nat
<1>1. S \in SUBSET Nat /\ nextXid \in Nat /\ \A x \in S : x <= nextXid
  BY TypesOfTenant DEF TenantIsTrue
<1> QED
  BY <1>1, FS_BoundedSetOfNaturals, FS_CardinalityType

LEMMA CountDisjoint ==
    ASSUME NEW S, NEW T, IsFiniteSet(S), IsFiniteSet(T), S \cap T = {}
    PROVE  Cardinality(S \cup T) = Cardinality(S) + Cardinality(T)
<1>1. Cardinality(S \cup T) = Cardinality(S) + Cardinality(T) - Cardinality(S \cap T)
  BY FS_Union
<1>2. Cardinality(S \cap T) = 0 /\ Cardinality(S) \in Nat /\ Cardinality(T) \in Nat
  BY FS_EmptySet, FS_CardinalityType
<1> QED
  BY <1>1, <1>2

\* What a claim makes of a cursor row, at the horizon of the database.
LEMMA ClaimedWindow ==
    ASSUME NEW c \in CursorRows, nextXid \in TransactionIds, RowIsTrue(c),
           NEW w, w = NextWindow(c, nextXid)
    PROVE  /\ w \in Windows
           /\ w = NoWindow => Pending(c) = NoWindow /\ Reached(c) = nextXid
           /\ w # NoWindow => /\ w.from = Reached(c) /\ w.from < w.to /\ w.to <= nextXid
                              /\ IF Pending(c) # NoWindow THEN w = Pending(c)
                                 ELSE w.to = nextXid
<1>1. /\ c.through \in Nat /\ c.pendingFrom \in Nat /\ c.pendingTo \in Nat
      /\ nextXid \in Nat /\ 0 < nextXid
  BY DEF CursorRows, TransactionIds, NULL
<1>2. CASE Pending(c) # NoWindow
  <2>1. CursorState(c) = "started" /\ w = Pending(c)
    BY <1>1, <1>2 DEF RowIsTrue, CursorState, NextWindow, Decision, Reached, FIRST, NULL
  <2> QED
    BY <1>1, <1>2, <2>1 DEF RowIsTrue, Pending, WindowFrom, Windows
<1>3. CASE Pending(c) = NoWindow
  <2>1. c.pendingFrom = NULL /\ c.pendingTo = NULL
    BY <1>3 DEF Pending, WindowFrom, NoWindow
  <2>2. CursorState(c) # "started" /\ StartingPoint(c) = Reached(c) /\ Reached(c) \in Nat
        /\ Reached(c) <= nextXid /\ Reached(c) # NULL
    BY <1>1, <2>1 DEF CursorState, StartingPoint, Reached, FIRST, NULL, RowIsTrue
  <2>3. CASE Reached(c) = nextXid
    <3>1. w = NoWindow
      BY <2>2, <2>3 DEF NextWindow, Decision
    <3> QED
      BY <1>3, <2>3, <3>1 DEF NoWindow, Windows, NULL
  <2>4. CASE Reached(c) # nextXid
    <3>1. Reached(c) < nextXid /\ ~ (Reached(c) > nextXid)
      BY <1>1, <2>2, <2>4
    <3>2. w = [from |-> Reached(c), to |-> nextXid]
      BY <2>2, <2>4, <3>1 DEF NextWindow, Decision, WindowFrom
    <3>3. w \in Windows /\ w.from = Reached(c) /\ w.to = nextXid /\ w # NoWindow
      BY <1>1, <2>2, <3>2 DEF Windows, NoWindow, NULL
    <3> QED
      BY <1>1, <1>3, <3>1, <3>3
  <2> QED
    BY <2>3, <2>4
<1> QED
  BY <1>2, <1>3

\* A tenant that a step of the run is not about.
LEMMA OtherTenant ==
    ASSUME RunTypeOK, NEW t \in Tenants, TenantOfRun(t),
           nextXid' \in Nat, nextXid <= nextXid', stage # "idle",
           recorded'[t] = recorded[t], cursor'[t] = cursor[t],
           published'[t] = published[t], announced'[t] = announced[t],
           due'[t] = due[t], scope' = scope,
           t \notin current, t \notin current',
           t \in Answered' <=> t \in Answered,
           t \in Answered => outcomes'[t] = outcomes[t]
    PROVE  TenantOfRun(t)'
<1>1. TenantIsTrue(t)'
  BY TypesOfTenant DEF TenantOfRun, TenantIsTrue, RowIsTrue, Reached, Pending
<1>2. CountedBelow(t)'
  BY DEF TenantOfRun, CountedBelow, Uncounted
<1>3. t \in Left' \ current' => WaitingIsOwed(t)'
  BY DEF TenantOfRun, WaitingIsOwed, Left, Pending
<1>4. t \in Answered' /\ outcomes'[t] # "failed" => Whole(t)'
  BY DEF TenantOfRun, Whole, Pending
<1> QED
  BY <1>1, <1>2, <1>3, <1>4 DEF TenantOfRun

\* What has been counted stays below where the uncounted begins, as long as that only
\* moves up.
LEMMA CountedStays ==
    ASSUME RunTypeOK, NEW t \in Tenants, TenantIsTrue(t), CountedBelow(t),
           published[t] \subseteq published'[t], published'[t] \subseteq recorded[t],
           announced'[t] = announced[t],
           Uncounted(t) \in Nat, Uncounted(t)' \in Nat, Uncounted(t) <= Uncounted(t)'
    PROVE  CountedBelow(t)'
<1> DEFINE Before == {x \in published[t] : x < Uncounted(t)}
           After == {x \in published'[t] : x < Uncounted(t)'}
<1>1. Before \subseteq After /\ After \subseteq recorded[t] /\ Before \subseteq recorded[t]
  BY TypesOfTenant
<1>2. IsFiniteSet(After) /\ Cardinality(After) \in Nat /\ Cardinality(Before) \in Nat
  BY <1>1, RowsAreFinite
<1>3. Cardinality(Before) <= Cardinality(After)
  BY <1>1, <1>2, FS_Subset
<1>4. announced[t] \in Nat /\ announced[t] <= Cardinality(Before)
  BY TypesOfTenant DEF CountedBelow
<1> HIDE DEF Before, After
<1>5. announced'[t] <= Cardinality(After)
  BY <1>2, <1>3, <1>4
<1> QED
  BY <1>5 DEF After, CountedBelow

LEMMA UncountedType ==
    ASSUME RunTypeOK, NEW t \in Tenants
    PROVE  Uncounted(t) \in Nat
  BY TypesOfTenant DEF Uncounted

-----------------------------------------------------------------------------
(* One lemma for each step: types, then the run, then its tenants.         *)

LEMMA PlatformStep ==
    ASSUME RunTypeOK, RunInv, NEW t \in Tenants, Provision(t) \/ Deactivate(t)
    PROVE  RunTypeOK' /\ RunInv'
<1>1. UNCHANGED <<recorded, nextXid, cursor, published, faults, stage, runVars, announced>>
  BY DEF Provision, Deactivate
<1>2. status' \in [Tenants -> {"absent", "active", "inactive"}]
  BY DEF Provision, Deactivate, RunTypeOK
<1>3. RunTypeOK'
  BY <1>1, <1>2 DEF RunTypeOK, runVars, Answered
<1>4. RunIsTrue'
  BY <1>1 DEF RunInv, RunIsTrue, runVars, Answered, Succeeded
<1>5. ASSUME NEW u \in Tenants PROVE TenantOfRun(u)'
  BY <1>1 DEF RunInv, TenantOfRun, runVars, TenantIsTrue, RowIsTrue, Reached, Pending,
     CountedBelow, Uncounted, WaitingIsOwed, CarriedIsOwed, Whole, Left, Answered, RowsIn
<1> QED
  BY <1>3, <1>4, <1>5 DEF RunInv

LEMMA RecordStep ==
    ASSUME RunTypeOK, RunInv, NEW t \in Tenants, Record(t)
    PROVE  RunTypeOK' /\ RunInv'
<1>1. /\ UNCHANGED <<status, cursor, published, faults, stage, runVars, announced>>
      /\ nextXid' = nextXid + 1
      /\ \A u \in Tenants : recorded'[u] = IF u = t THEN recorded[u] \cup {nextXid}
                                           ELSE recorded[u]
      /\ recorded' \in [Tenants -> SUBSET TransactionIds]
  BY DEF Record, RunTypeOK
<1>2. RunTypeOK'
  BY <1>1 DEF RunTypeOK, runVars, Answered, TransactionIds, NULL
<1>3. RunIsTrue'
  BY <1>1 DEF RunInv, RunIsTrue, runVars, Answered, Succeeded
<1>4. ASSUME NEW u \in Tenants PROVE TenantOfRun(u)'
  <2>1. TenantOfRun(u)
    BY DEF RunInv
  <2>2. TenantIsTrue(u)'
    BY <1>1, <2>1, TypesOfTenant DEF TenantOfRun, TenantIsTrue, RowIsTrue, Reached, Pending
  <2>3. CountedBelow(u)'
    BY <1>1, <2>1 DEF TenantOfRun, CountedBelow, Uncounted, runVars
  <2>4. stage' # "idle" /\ u \in Left' \ current' => WaitingIsOwed(u)'
    BY <1>1, <2>1 DEF TenantOfRun, WaitingIsOwed, Left, Pending, runVars, Answered
  <2>5. ASSUME u \in current' PROVE CarriedIsOwed(u)'
    <3>1. u \in current /\ CarriedIsOwed(u)
      BY <1>1, <2>1, <2>5 DEF TenantOfRun, runVars
    <3>2. stage \in {"write", "confirm", "mark"}
      BY <3>1 DEF RunInv, RunIsTrue
    <3>3. window.to <= nextXid
      BY <2>1, <3>1, <3>2, TypesOfTenant DEF TenantOfRun, TenantIsTrue, RowIsTrue,
         CarriedIsOwed, Pending, WindowFrom, NoWindow, NULL
    <3>4. RowsIn(window, u)' = RowsIn(window, u)
      BY <1>1, <3>3, TypesOfTenant DEF RowsIn, Covers, runVars
    <3> QED
      BY <1>1, <3>1, <3>4 DEF CarriedIsOwed, runVars, Pending
  <2>6. u \in Answered' /\ outcomes'[u] # "failed" => Whole(u)'
    BY <1>1, <2>1 DEF TenantOfRun, Whole, Pending, Answered, runVars
  <2> QED
    BY <2>2, <2>3, <2>4, <2>5, <2>6 DEF TenantOfRun
<1> QED
  BY <1>2, <1>3, <1>4 DEF RunInv

\* Between runs, and while a run has not come to its first tenant.
LEMMA BetweenTenants ==
    ASSUME RunTypeOK, RunInv,
           Begin(only') \/ Reachable \/ RefuseNamed \/ Refuse \/ Finish,
           only' \in Tenants \cup {Everyone}
    PROVE  RunTypeOK' /\ RunInv'
<1>1. /\ current = {} /\ window = NoWindow /\ stage \in {"idle", "probe", "list", "next"}
      /\ \A t \in Tenants : TenantOfRun(t)
  BY DEF RunInv, RunIsTrue, RunTypeOK, Begin, Reachable, RefuseNamed, Refuse, Finish
<1>2. /\ UNCHANGED <<platformVars, nextXid, cursor, published, current, window, announced>>
      /\ faults' \in 0 .. MaxFaults
      /\ stage' \in {"idle", "probe", "list"}
  BY BoundsAssumption DEF Begin, Reachable, RefuseNamed, Refuse, Finish, runVars, RunTypeOK, FaultAllowed
<1>3. \/ scope' = scope /\ outcomes' = outcomes /\ due' = due
      \/ scope' = {} /\ outcomes' = NoOutcomes /\ due' = NothingDue
  BY DEF Begin, Reachable, RefuseNamed, Refuse, Finish, runVars
<1>4. stage' # "idle" => scope' = {} /\ exitStatus' = "none"
  BY DEF RunInv, RunIsTrue, Begin, Reachable, RefuseNamed, Refuse, Finish, runVars
<1>5. /\ exitStatus' \in {"none", "success", "failure"}
      /\ exitStatus' = "success" => Finish \/ (Reachable /\ exitStatus = "success")
  BY DEF Begin, Reachable, RefuseNamed, Refuse, Finish, runVars, RunTypeOK
<1>6. RunTypeOK'
  <2>1. Answered' \subseteq scope' /\ scope' \in SUBSET Tenants
        /\ \A t \in Answered' : outcomes'[t] \in {"carried", "up-to-date", "failed"}
    BY <1>3 DEF RunTypeOK, Answered, NoOutcomes
  <2>2. due' \in [Tenants -> [recorded : SUBSET TransactionIds, owed : SUBSET TransactionIds]]
    BY <1>3 DEF RunTypeOK, NothingDue
  <2>3. Cardinality(current') = 0
    BY <1>1, <1>2, FS_EmptySet
  <2> QED
    BY <1>1, <1>2, <1>5, <2>1, <2>2, <2>3 DEF RunTypeOK, platformVars
<1>7. RunIsTrue'
  <2>1. exitStatus' = "success" => Answered' = scope' /\ Succeeded'
    <3> SUFFICES ASSUME exitStatus' = "success" PROVE Answered' = scope' /\ Succeeded'
      OBVIOUS
    <3>1. Finish
      BY <1>5 DEF RunInv, RunIsTrue, Reachable
    <3> QED
      BY <3>1 DEF Finish, Left, RunTypeOK, Succeeded, Answered
  <2> QED
    BY <1>1, <1>2, <1>4, <2>1 DEF RunIsTrue
<1>8. ASSUME NEW t \in Tenants PROVE TenantOfRun(t)'
  <2>1. TenantOfRun(t)
    BY <1>1
  <2>2. TenantIsTrue(t)'
    BY <1>2, <2>1 DEF TenantOfRun, TenantIsTrue, RowIsTrue, Reached, Pending, platformVars
  <2>3. CountedBelow(t)'
    BY <1>1, <1>2, <2>1 DEF TenantOfRun, CountedBelow, Uncounted
  <2>4. stage' # "idle" => t \notin Left'
    BY <1>4 DEF Left
  <2>5. t \in Answered' /\ outcomes'[t] # "failed" => Whole(t)'
    <3>1. CASE outcomes' = outcomes /\ due' = due
      BY <1>2, <2>1, <3>1 DEF TenantOfRun, Whole, Pending, Answered
    <3>2. CASE outcomes' = NoOutcomes
      BY <3>2 DEF Answered, NoOutcomes
    <3> QED
      BY <1>3, <3>1, <3>2
  <2> QED
    BY <1>1, <1>2, <2>2, <2>3, <2>4, <2>5 DEF TenantOfRun
<1> QED
  BY <1>6, <1>7, <1>8 DEF RunInv

\* The tenants are listed: what is owed to each is below the horizon and, if a window
\* is on record, within it.
LEMMA ListStep ==
    ASSUME RunTypeOK, RunInv, List
    PROVE  RunTypeOK' /\ RunInv'
<1>1. /\ current = {} /\ window = NoWindow /\ scope = {} /\ exitStatus = "none"
      /\ stage = "list" /\ stage' = "next"
      /\ UNCHANGED <<platformVars, nextXid, cursor, published, faults, only, current,
                     window, outcomes, exitStatus, announced>>
      /\ due' = [t \in Tenants |-> DueOf(t)]
      /\ \A t \in Tenants : TenantOfRun(t)
  BY DEF RunInv, RunIsTrue, List
<1>2. scope' \in SUBSET Tenants
  BY TenantsAssumption DEF List, Active, RunTypeOK
<1>3. Answered = {} /\ Answered' = {}
  BY <1>1 DEF RunTypeOK, Answered
<1>4. \A t \in Tenants : DueOf(t) \in [recorded : SUBSET TransactionIds,
                                       owed : SUBSET TransactionIds]
  BY DEF DueOf, RunTypeOK
<1>5. RunTypeOK'
  BY <1>1, <1>2, <1>3, <1>4, FS_EmptySet DEF RunTypeOK, platformVars
<1>6. RunIsTrue'
  BY <1>1, <1>3 DEF RunIsTrue
<1>7. ASSUME NEW t \in Tenants PROVE TenantOfRun(t)'
  <2>1. TenantOfRun(t)
    BY <1>1
  <2>2. TenantIsTrue(t)'
    BY <1>1, <2>1 DEF TenantOfRun, TenantIsTrue, RowIsTrue, Reached, Pending, platformVars
  <2>3. CountedBelow(t)'
    BY <1>1, <2>1 DEF TenantOfRun, CountedBelow, Uncounted
  <2>4. WaitingIsOwed(t)'
    <3>1. due'[t].owed = {x \in recorded[t] :
                            CursorState(cursor[t]) = "started" => x < cursor[t].pendingTo}
      BY <1>1 DEF DueOf
    <3>2. Pending(cursor[t]) # NoWindow => CursorState(cursor[t]) = "started"
      BY <2>1, TypesOfTenant DEF TenantOfRun, TenantIsTrue, RowIsTrue, CursorState, NULL,
         Reached, FIRST
    <3> QED
      BY <1>1, <3>1, <3>2 DEF WaitingIsOwed, Pending, platformVars
  <2> QED
    BY <1>1, <1>3, <2>2, <2>3, <2>4 DEF TenantOfRun
<1> QED
  BY <1>5, <1>6, <1>7 DEF RunInv

\* The process dies; what was counted was, and what was confirmed is below the point
\* reached.
LEMMA CrashStep ==
    ASSUME RunTypeOK, RunInv, Crash
    PROVE  RunTypeOK' /\ RunInv'
<1>1. /\ UNCHANGED <<platformVars, nextXid, cursor, published, only, scope, outcomes, due,
                     announced>>
      /\ current' = {} /\ window' = NoWindow /\ stage' = "idle" /\ exitStatus' = "failure"
      /\ faults' \in 0 .. MaxFaults
  BY BoundsAssumption DEF Crash, FaultAllowed, RunTypeOK
<1>2. RunTypeOK'
  BY <1>1, FS_EmptySet DEF RunTypeOK, platformVars, Answered, NoWindow, Windows, NULL
<1>3. RunIsTrue'
  BY <1>1 DEF RunIsTrue
<1>4. ASSUME NEW t \in Tenants PROVE TenantOfRun(t)'
  <2>1. TenantOfRun(t)
    BY DEF RunInv
  <2>2. TenantIsTrue(t)'
    BY <1>1, <2>1 DEF TenantOfRun, TenantIsTrue, RowIsTrue, Reached, Pending, platformVars
  <2>3. CountedBelow(t)'
    <3>1. Uncounted(t)' = cursor[t].through
      BY <1>1 DEF Uncounted
    <3>2. Uncounted(t) <= cursor[t].through
      BY <2>1, TypesOfTenant DEF TenantOfRun, CarriedIsOwed, Uncounted
    <3> QED
      BY <1>1, <2>1, <3>1, <3>2, CountedStays, UncountedType, TypesOfTenant
         DEF TenantOfRun, TenantIsTrue
  <2>4. t \in Answered' /\ outcomes'[t] # "failed" => Whole(t)'
    BY <1>1, <2>1 DEF TenantOfRun, Whole, Pending, Answered
  <2> QED
    BY <1>1, <2>2, <2>3, <2>4 DEF TenantOfRun
<1> QED
  BY <1>2, <1>3, <1>4 DEF RunInv

LEMMA XidTakenType ==
    ASSUME nextXid \in TransactionIds
    PROVE  XidTaken \in TransactionIds /\ nextXid <= XidTaken
  BY DEF XidTaken, TransactionIds, NULL

\* A tenant is carried by itself.
LEMMA OnlyOneIsCarried ==
    ASSUME RunInv, NEW t \in current
    PROVE  /\ stage \in {"write", "confirm", "mark"}
           /\ current = {t} /\ t \in scope /\ t \in Left
           /\ exitStatus = "none"
  BY DEF RunInv, RunIsTrue, Left

LEMMA ClaimStep ==
    ASSUME RunTypeOK, RunInv, NEW t \in Tenants, Claim(t)
    PROVE  RunTypeOK' /\ RunInv'
<1>1. /\ current = {} /\ window = NoWindow /\ stage = "next" /\ t \in scope
      /\ t \notin Answered
      /\ current' = {t} /\ window' = NextWindow(cursor[t], nextXid) /\ stage' = "write"
      /\ UNCHANGED <<platformVars, published, faults, only, scope, outcomes, exitStatus,
                     due, announced>>
      /\ TenantOfRun(t) /\ WaitingIsOwed(t) /\ TenantIsTrue(t)
      /\ exitStatus = "none"
  BY DEF RunInv, RunIsTrue, Claim, Left, TenantOfRun
<1>2. /\ window' \in Windows
      /\ window' = NoWindow => Pending(cursor[t]) = NoWindow /\ Reached(cursor[t]) = nextXid
      /\ window' # NoWindow =>
            /\ window'.from = Reached(cursor[t]) /\ window'.from < window'.to
            /\ window'.to <= nextXid
            /\ IF Pending(cursor[t]) # NoWindow THEN window' = Pending(cursor[t])
               ELSE window'.to = nextXid
  BY <1>1, ClaimedWindow DEF RunTypeOK, TenantIsTrue
<1>3. /\ cursor' \in [Tenants -> CursorRows]
      /\ \A u \in Tenants : u # t => cursor'[u] = cursor[u]
      /\ cursor'[t].through = cursor[t].through
      /\ cursor'[t].pendingFrom = window'.from
      /\ cursor'[t].pendingTo = window'.to
      /\ nextXid' \in TransactionIds /\ nextXid <= nextXid'
  <2>1. CASE window' = NoWindow
    BY <1>2, <2>1 DEF Claim, RunTypeOK, TransactionIds, Pending, WindowFrom, NoWindow
  <2>2. CASE window' # NoWindow
    <3>1. window'.from \in Nat /\ window'.to \in Nat
      BY <1>2 DEF Windows
    <3>2. [through |-> cursor[t].through, pendingFrom |-> window'.from,
           pendingTo |-> window'.to] \in CursorRows
      BY <3>1, TypesOfTenant DEF CursorRows
    <3> QED
      BY <2>2, <3>1, <3>2, XidTakenType DEF Claim, RunTypeOK
  <2> QED
    BY <2>1, <2>2
<1>4. Pending(cursor[t])' = window'
  BY <1>2, <1>3 DEF Pending, WindowFrom, Windows
<1>5. RunTypeOK'
  BY <1>1, <1>2, <1>3, FS_Singleton DEF RunTypeOK, platformVars, Answered
<1>6. RunIsTrue'
  BY <1>1 DEF RunInv, RunIsTrue, Answered
<1>7. TenantOfRun(t)'
  <2>1. TenantIsTrue(t)'
    <3>1. RowIsTrue(cursor[t])'
      BY <1>1, <1>2, <1>3, <1>4, TypesOfTenant, XidTakenType
         DEF TenantIsTrue, RowIsTrue, Reached, TransactionIds, Windows
    <3> QED
      BY <1>1, <1>3, <3>1, TypesOfTenant DEF TenantIsTrue, platformVars, TransactionIds
  <2>2. CountedBelow(t)'
    BY <1>1, <1>3 DEF TenantOfRun, CountedBelow, Uncounted
  <2>3. \A x \in due[t].owed :
          x < IF window' # NoWindow THEN window'.to ELSE cursor[t].through
    <3> SUFFICES ASSUME NEW x \in due[t].owed
                 PROVE  x < IF window' # NoWindow THEN window'.to ELSE cursor[t].through
      OBVIOUS
    <3>1. x \in recorded[t] /\ 0 < x /\ x < nextXid /\ x \in Nat
          /\ (Pending(cursor[t]) # NoWindow => x < cursor[t].pendingTo)
      BY <1>1, TypesOfTenant DEF WaitingIsOwed, TenantIsTrue
    <3>2. CASE window' # NoWindow
      BY <1>2, <3>1, <3>2 DEF Pending, WindowFrom
    <3>3. CASE window' = NoWindow
      BY <1>2, <3>1, <3>3, TypesOfTenant DEF Reached, FIRST, NULL
    <3> QED
      BY <3>2, <3>3
  <2>4. CarriedIsOwed(t)'
    BY <1>1, <1>3, <1>4, <2>3 DEF CarriedIsOwed, WaitingIsOwed, platformVars
  <2> QED
    BY <1>1, <2>1, <2>2, <2>4 DEF TenantOfRun, Answered
<1>8. ASSUME NEW u \in Tenants, u # t PROVE TenantOfRun(u)'
  BY <1>1, <1>3, <1>8, OtherTenant DEF RunInv, RunTypeOK, TransactionIds, platformVars, Answered
<1> QED
  BY <1>5, <1>6, <1>7, <1>8 DEF RunInv

LEMMA WriteObjectsStep ==
    ASSUME RunTypeOK, RunInv, NEW t \in Tenants, WriteObjects(t)
    PROVE  RunTypeOK' /\ RunInv'
<1>1. /\ current = {t} /\ t \in scope /\ t \in Left /\ exitStatus = "none"
      /\ stage = "write" /\ stage' = IF window = NoWindow THEN "mark" ELSE "confirm"
      /\ UNCHANGED <<platformVars, nextXid, cursor, faults, runVars, announced>>
      /\ TenantOfRun(t) /\ TenantIsTrue(t) /\ CarriedIsOwed(t)
  BY OnlyOneIsCarried DEF RunInv, WriteObjects, TenantOfRun
<1>2. /\ published' \in [Tenants -> SUBSET TransactionIds]
      /\ published'[t] = published[t] \cup RowsIn(window, t)
      /\ \A u \in Tenants : u # t => published'[u] = published[u]
      /\ RowsIn(window, t) \subseteq recorded[t]
  BY DEF WriteObjects, RunTypeOK, RowsIn
<1>3. RunTypeOK'
  BY <1>1, <1>2 DEF RunTypeOK, platformVars, runVars, Answered
<1>4. RunIsTrue'
  BY <1>1 DEF RunInv, RunIsTrue, Answered, runVars
<1>5. TenantOfRun(t)'
  <2>1. TenantIsTrue(t)'
    BY <1>1, <1>2 DEF TenantIsTrue, RowIsTrue, Reached, Pending, platformVars
  <2>2. CountedBelow(t)'
    <3>1. Uncounted(t)' = Uncounted(t)
      BY <1>1 DEF Uncounted, runVars
    <3> QED
      BY <1>1, <1>2, <3>1, CountedStays, UncountedType DEF TenantOfRun, TenantIsTrue
  <2>3. CarriedIsOwed(t)'
    <3>1. window = Pending(cursor[t])
      BY <1>1 DEF CarriedIsOwed
    <3>2. RowsIn(window, t)' \subseteq published'[t]
      BY <1>1, <1>2 DEF RowsIn, runVars, platformVars
    <3> QED
      BY <1>1, <3>1, <3>2 DEF CarriedIsOwed, runVars, platformVars, Pending
  <2> QED
    BY <1>1, <2>1, <2>2, <2>3 DEF TenantOfRun, Left, Answered, runVars
<1>6. ASSUME NEW u \in Tenants, u # t PROVE TenantOfRun(u)'
  BY <1>1, <1>2, <1>6, OtherTenant DEF RunInv, RunTypeOK, TransactionIds, platformVars,
     runVars, Answered
<1> QED
  BY <1>3, <1>4, <1>5, <1>6 DEF RunInv

LEMMA ConfirmStep ==
    ASSUME RunTypeOK, RunInv, NEW t \in Tenants, Confirm(t)
    PROVE  RunTypeOK' /\ RunInv'
<1>1. /\ current = {t} /\ t \in scope /\ t \in Left /\ exitStatus = "none"
      /\ stage = "confirm" /\ stage' = "mark"
      /\ UNCHANGED <<platformVars, published, faults, runVars, announced>>
      /\ TenantOfRun(t) /\ TenantIsTrue(t) /\ CarriedIsOwed(t)
  BY OnlyOneIsCarried DEF RunInv, Confirm, TenantOfRun
<1>2. /\ window = Pending(cursor[t]) /\ window # NoWindow
      /\ window.from = Reached(cursor[t]) /\ window.from < window.to /\ window.to <= nextXid
      /\ RowsIn(window, t) \subseteq published[t]
  BY <1>1 DEF CarriedIsOwed, TenantIsTrue, RowIsTrue, Pending, WindowFrom
<1>3. /\ cursor' \in [Tenants -> CursorRows]
      /\ \A u \in Tenants : u # t => cursor'[u] = cursor[u]
      /\ cursor'[t] = [through |-> window.to, pendingFrom |-> NULL, pendingTo |-> NULL]
      /\ nextXid' \in TransactionIds /\ nextXid <= nextXid'
  BY XidTakenType, TypesOfTenant DEF Confirm, RunTypeOK, CursorRows, NULL
<1>4. cursor'[t].through = window.to /\ Pending(cursor[t])' = NoWindow
  BY <1>3 DEF Pending, WindowFrom, NoWindow
<1>5. RunTypeOK'
  BY <1>1, <1>3 DEF RunTypeOK, platformVars, runVars, Answered
<1>6. RunIsTrue'
  BY <1>1 DEF RunInv, RunIsTrue, Answered, runVars
<1>7. TenantOfRun(t)'
  <2>1. \A x \in recorded[t] : x < window.to => x \in published[t]
    BY <1>1, <1>2, TypesOfTenant DEF TenantIsTrue, RowsIn, Covers, Reached, FIRST, NULL
  <2>2. TenantIsTrue(t)'
    BY <1>1, <1>2, <1>3, <1>4, <2>1, TypesOfTenant
       DEF TenantIsTrue, RowIsTrue, platformVars, TransactionIds
  <2>3. CountedBelow(t)'
    <3>1. Uncounted(t) = cursor[t].through /\ Uncounted(t)' = window.from
      BY <1>1, <1>2 DEF Uncounted, runVars
    <3>2. cursor[t].through <= window.from
      BY <1>2, TypesOfTenant DEF Reached, FIRST, NULL
    <3> QED
      BY <1>1, <3>1, <3>2, CountedStays, TypesOfTenant DEF TenantOfRun, TenantIsTrue
  <2>4. CarriedIsOwed(t)'
    <3>1. RowsIn(window, t)' = RowsIn(window, t)
      BY <1>1 DEF RowsIn, runVars, platformVars
    <3> QED
      BY <1>1, <1>2, <1>4, <3>1 DEF CarriedIsOwed, runVars, platformVars
  <2> QED
    BY <1>1, <2>2, <2>3, <2>4 DEF TenantOfRun, Left, Answered, runVars
<1>8. ASSUME NEW u \in Tenants, u # t PROVE TenantOfRun(u)'
  BY <1>1, <1>3, <1>8, OtherTenant DEF RunInv, RunTypeOK, TransactionIds, platformVars,
     runVars, Answered
<1> QED
  BY <1>5, <1>6, <1>7, <1>8 DEF RunInv

\* The tenant is answered for, and its movements are counted: they are in the lake, and
\* none of them was counted before.
LEMMA SucceedStep ==
    ASSUME RunTypeOK, RunInv, NEW t \in Tenants, Succeed(t)
    PROVE  RunTypeOK' /\ RunInv'
<1>1. /\ current = {t} /\ t \in scope /\ t \in Left /\ exitStatus = "none"
      /\ stage = "mark" /\ stage' = "next" /\ current' = {} /\ window' = NoWindow
      /\ UNCHANGED <<platformVars, nextXid, cursor, published, faults, only, scope,
                     exitStatus, due>>
      /\ TenantOfRun(t) /\ TenantIsTrue(t) /\ CarriedIsOwed(t)
  BY OnlyOneIsCarried DEF RunInv, Succeed, TenantOfRun
<1>2. PICK said \in {"carried", "up-to-date"} : outcomes' = Answer(t, said)
  BY DEF Succeed
<1>3. /\ Answered' = Answered \cup {t}
      /\ outcomes'[t] = said
      /\ \A u \in Answered : u # t => outcomes'[u] = outcomes[u]
  BY <1>2 DEF Answer, Answered
<1>4. /\ RowsIn(window, t) \subseteq published[t]
      /\ Pending(cursor[t]) = NoWindow
      /\ \A x \in due[t].owed : x \in recorded[t] /\ x < cursor[t].through
      /\ window # NoWindow => window.from < window.to /\ window.to = cursor[t].through
  BY <1>1 DEF CarriedIsOwed
<1>5. IsFiniteSet(RowsIn(window, t)) /\ Cardinality(RowsIn(window, t)) \in Nat
  BY <1>1, RowsAreFinite DEF RowsIn
<1>6. /\ announced' \in [Tenants -> Nat]
      /\ announced'[t] = announced[t] + Cardinality(RowsIn(window, t))
      /\ \A u \in Tenants : u # t => announced'[u] = announced[u]
  BY <1>5 DEF Succeed, RunTypeOK
<1>7. RunTypeOK'
  <2>1. \A u \in Answered' : outcomes'[u] \in {"carried", "up-to-date", "failed"}
    BY <1>3 DEF RunTypeOK
  <2> QED
    BY <1>1, <1>3, <1>6, <2>1, FS_EmptySet DEF RunTypeOK, platformVars, NoWindow, Windows,
       NULL
<1>8. RunIsTrue'
  BY <1>1 DEF RunIsTrue
<1>9. TenantOfRun(t)'
  <2>1. TenantIsTrue(t)'
    BY <1>1 DEF TenantIsTrue, RowIsTrue, Reached, Pending, platformVars
  <2>2. Whole(t)'
    BY <1>1, <1>4 DEF TenantIsTrue, Whole, Pending, platformVars
  <2>3. CountedBelow(t)'
    <3> DEFINE Rows == RowsIn(window, t)
               Before == {x \in published[t] : x < Uncounted(t)}
               After == {x \in published[t] : x < cursor[t].through}
    <3>1. Uncounted(t)' = cursor[t].through
      BY <1>1 DEF Uncounted
    <3>2. Rows \cap Before = {} /\ Rows \cup Before \subseteq After
      <4>1. CASE window = NoWindow
        BY <1>1, <4>1, TypesOfTenant DEF RowsIn, Covers, NoWindow, NULL, Uncounted
      <4>2. CASE window # NoWindow
        BY <1>1, <1>4, <4>2, TypesOfTenant DEF RowsIn, Covers, Uncounted
      <4> QED
        BY <4>1, <4>2
    <3>3. /\ IsFiniteSet(Rows) /\ IsFiniteSet(Before) /\ IsFiniteSet(After)
          /\ Cardinality(Rows) \in Nat /\ Cardinality(Before) \in Nat
          /\ Cardinality(After) \in Nat
      <4>1. Rows \subseteq recorded[t] /\ Before \subseteq recorded[t]
            /\ After \subseteq recorded[t]
        BY <1>1 DEF TenantIsTrue, RowsIn
      <4> QED
        BY <1>1, <4>1, RowsAreFinite
    <3>4. announced[t] <= Cardinality(Before) /\ announced[t] \in Nat
      BY <1>1, TypesOfTenant DEF TenantOfRun, CountedBelow
    <3> HIDE DEF Rows, Before, After
    <3>5. Cardinality(Rows \cup Before) = Cardinality(Rows) + Cardinality(Before)
      BY <3>2, <3>3, CountDisjoint
    <3>6. Cardinality(Rows \cup Before) <= Cardinality(After)
      BY <3>2, <3>3, FS_Subset
    <3>7. announced[t] + Cardinality(Rows) <= Cardinality(After)
      BY <3>3, <3>4, <3>5, <3>6
    <3> QED
      BY <1>1, <1>6, <3>1, <3>7 DEF CountedBelow, Rows, After
  <2> QED
    BY <1>1, <1>3, <2>1, <2>2, <2>3 DEF TenantOfRun, Left
<1>10. ASSUME NEW u \in Tenants, u # t PROVE TenantOfRun(u)'
  BY <1>1, <1>3, <1>6, <1>10, OtherTenant DEF RunInv, RunTypeOK, TransactionIds, platformVars
<1> QED
  BY <1>7, <1>8, <1>9, <1>10 DEF RunInv

\* A tenant's export fails, with some of its objects put or none.
LEMMA FailTenantStep ==
    ASSUME RunTypeOK, RunInv, NEW t \in Tenants, FailTenant(t)
    PROVE  RunTypeOK' /\ RunInv'
<1>1. /\ t \in scope /\ t \notin Answered /\ stage # "idle" /\ exitStatus = "none"
      /\ current = {} \/ current = {t}
      /\ stage' = "next" /\ current' = {} /\ window' = NoWindow
      /\ outcomes' = Answer(t, "failed")
      /\ UNCHANGED <<platformVars, nextXid, cursor, only, scope, exitStatus, due, announced>>
      /\ TenantOfRun(t) /\ TenantIsTrue(t)
  BY OnlyOneIsCarried DEF RunInv, RunIsTrue, FailTenant, TenantOfRun, Left
<1>2. faults' \in 0 .. MaxFaults
  BY BoundsAssumption DEF FailTenant, FaultAllowed, RunTypeOK
<1>3. /\ Answered' = Answered \cup {t}
      /\ outcomes'[t] = "failed"
      /\ \A u \in Answered : outcomes'[u] = outcomes[u]
  BY <1>1 DEF Answer, Answered
<1>4. /\ published' \in [Tenants -> SUBSET TransactionIds]
      /\ published[t] \subseteq published'[t] /\ published'[t] \subseteq recorded[t]
      /\ \A u \in Tenants : u # t => published'[u] = published[u]
  <2>1. PICK written \in SUBSET (IF stage = "write" THEN RowsIn(window, t) ELSE {}) :
          published' = [published EXCEPT ![t] = @ \cup written]
    BY DEF FailTenant
  <2>2. written \subseteq recorded[t]
    BY DEF RowsIn
  <2> QED
    BY <1>1, <2>1, <2>2 DEF RunTypeOK, TenantIsTrue
<1>5. RunTypeOK'
  <2>1. \A u \in Answered' : outcomes'[u] \in {"carried", "up-to-date", "failed"}
    BY <1>3 DEF RunTypeOK
  <2> QED
    BY <1>1, <1>2, <1>3, <1>4, <2>1, FS_EmptySet DEF RunTypeOK, platformVars, NoWindow,
       Windows, NULL
<1>6. RunIsTrue'
  BY <1>1 DEF RunIsTrue
<1>7. TenantOfRun(t)'
  <2>1. TenantIsTrue(t)'
    BY <1>1, <1>4 DEF TenantIsTrue, RowIsTrue, Reached, Pending, platformVars
  <2>2. CountedBelow(t)'
    <3>1. Uncounted(t)' = cursor[t].through
      BY <1>1 DEF Uncounted
    <3>2. Uncounted(t) <= cursor[t].through
      BY <1>1, TypesOfTenant DEF TenantOfRun, CarriedIsOwed, Uncounted
    <3> QED
      BY <1>1, <1>4, <3>1, <3>2, CountedStays, UncountedType, TypesOfTenant
         DEF TenantOfRun
  <2> QED
    BY <1>1, <1>3, <2>1, <2>2 DEF TenantOfRun, Left
<1>8. ASSUME NEW u \in Tenants, u # t PROVE TenantOfRun(u)'
  BY <1>1, <1>3, <1>4, <1>8, OtherTenant DEF RunInv, RunTypeOK, TransactionIds, platformVars
<1> QED
  BY <1>5, <1>6, <1>7, <1>8 DEF RunInv

-----------------------------------------------------------------------------

LEMMA RunInit == Init => RunTypeOK /\ RunInv
<1> SUFFICES ASSUME Init PROVE RunTypeOK /\ RunInv
  OBVIOUS
<1>1. Answered = {}
  BY DEF Init, Answered, NoOutcomes
<1>2. RunTypeOK
  BY <1>1, FS_EmptySet, BoundsAssumption DEF Init, RunTypeOK, NothingDue, NoWindow, Windows,
     EmptyRow, CursorRows, TransactionIds, NULL, FIRST
<1>3. RunIsTrue
  BY <1>1 DEF Init, RunIsTrue
<1>4. ASSUME NEW t \in Tenants PROVE TenantOfRun(t)
  <2>1. {x \in published[t] : x < Uncounted(t)} = {}
    BY DEF Init
  <2>2. CountedBelow(t)
    BY <2>1, FS_EmptySet DEF Init, CountedBelow
  <2> QED
    BY <1>1, <2>2 DEF Init, TenantOfRun, TenantIsTrue, RowIsTrue, EmptyRow, Pending,
       WindowFrom, NoWindow, NULL, FIRST
<1> QED
  BY <1>2, <1>3, <1>4 DEF RunInv

LEMMA RunStep == RunTypeOK /\ RunInv /\ [Next]_vars => RunTypeOK' /\ RunInv'
<1> SUFFICES ASSUME RunTypeOK, RunInv, [Next]_vars PROVE RunTypeOK' /\ RunInv'
  OBVIOUS
<1>1. CASE UNCHANGED vars
  <2>1. RunTypeOK'
    BY <1>1 DEF vars, platformVars, runVars, RunTypeOK, Answered
  <2>2. RunIsTrue'
    BY <1>1 DEF vars, platformVars, runVars, RunInv, RunIsTrue, Answered, Succeeded
  <2>3. ASSUME NEW t \in Tenants PROVE TenantOfRun(t)'
    BY <1>1 DEF vars, platformVars, runVars, RunInv, TenantOfRun, TenantIsTrue, RowIsTrue,
       Reached, Pending, CountedBelow, Uncounted, WaitingIsOwed, CarriedIsOwed, Whole,
       Left, Answered, RowsIn
  <2> QED
    BY <2>1, <2>2, <2>3 DEF RunInv
<1>2. CASE \E t \in Tenants : Provision(t) \/ Deactivate(t) \/ Record(t)
  BY <1>2, PlatformStep, RecordStep
<1>3. CASE \E named \in Tenants \cup {Everyone} : Begin(named)
  BY <1>3, BetweenTenants DEF Begin
<1>4. CASE Reachable \/ RefuseNamed \/ Finish \/ Refuse
  BY <1>4, BetweenTenants DEF RunTypeOK, Reachable, RefuseNamed, Finish, Refuse, runVars
<1>5. CASE List
  BY <1>5, ListStep
<1>6. CASE \E t \in Tenants : Carrying(t) \/ FailTenant(t)
  BY <1>6, ClaimStep, WriteObjectsStep, ConfirmStep, SucceedStep, FailTenantStep DEF Carrying
<1>7. CASE Crash
  BY <1>7, CrashStep
<1> QED
  BY <1>1, <1>2, <1>3, <1>4, <1>5, <1>6, <1>7 DEF Next, Running

\* The inductive invariant holds in every state, however many runs fail or die.
THEOREM RunInductive == Spec => [](RunTypeOK /\ RunInv)
  BY RunInit, RunStep, PTL DEF Spec

\* Types, and that a run carries one tenant at a time, of those it listed.
THEOREM RunTypeCorrect == Spec => []RunTypeOK
  BY RunInductive, PTL

\* A run that exits reporting success has carried all that was owed to each tenant
\* when it listed them, and left no window pending.
THEOREM SuccessMeansWhole == Spec => []SuccessIsWhole
<1>1. RunTypeOK /\ RunInv => SuccessIsWhole
  <2> SUFFICES ASSUME RunTypeOK, RunInv, exitStatus = "success", NEW t \in scope
               PROVE  /\ t \in Answered
                      /\ CursorState(cursor[t]) # "started"
                      /\ \A x \in due[t].owed : x < cursor[t].through /\ x \in published[t]
    BY DEF SuccessIsWhole
  <2>1. t \in Tenants /\ t \in Answered /\ outcomes[t] # "failed"
    BY DEF RunTypeOK, RunInv, RunIsTrue, Succeeded
  <2>2. Whole(t)
    BY <2>1 DEF RunInv, TenantOfRun
  <2> QED
    BY <2>1, <2>2 DEF Whole, Pending, WindowFrom, NoWindow, CursorState
<1> QED
  BY <1>1, RunInductive, PTL

\* The reports of all the runs together count each movement at most once.
THEOREM CountedOnce == Spec => []CountedAtMostOnce
<1>1. RunTypeOK /\ RunInv => CountedAtMostOnce
  <2> SUFFICES ASSUME RunTypeOK, RunInv, NEW t \in Tenants
               PROVE  announced[t] <= Cardinality(published[t])
    BY DEF CountedAtMostOnce
  <2> DEFINE Below == {x \in published[t] : x < Uncounted(t)}
  <2>1. TenantIsTrue(t) /\ published[t] \subseteq recorded[t] /\ Below \subseteq published[t]
    BY DEF RunInv, TenantOfRun, TenantIsTrue
  <2>2. /\ IsFiniteSet(published[t]) /\ Cardinality(published[t]) \in Nat
        /\ Cardinality(Below) \in Nat
    BY <2>1, RowsAreFinite
  <2>3. announced[t] \in Nat /\ announced[t] <= Cardinality(Below)
    BY TypesOfTenant DEF RunInv, TenantOfRun, CountedBelow
  <2> HIDE DEF Below
  <2>4. Cardinality(Below) <= Cardinality(published[t])
    BY <2>1, <2>2, FS_Subset
  <2> QED
    BY <2>2, <2>3, <2>4
<1> QED
  BY <1>1, RunInductive, PTL

\* A step of a run moves the point reached and the objects of no tenant but those it
\* listed as active, or was asked for.
THEOREM OnlyListedAreTouched == Spec => OnlyScopeIsTouched
<1>1. RunTypeOK /\ RunInv /\ [Next]_vars
        => [\A t \in Tenants \ scope : cursor'[t] = cursor[t] /\ published'[t] = published[t]]_vars
  <2> SUFFICES ASSUME RunTypeOK, RunInv, Next, NEW t \in Tenants \ scope
               PROVE  cursor'[t] = cursor[t] /\ published'[t] = published[t]
    OBVIOUS
  <2>1. ASSUME NEW u \in Tenants, Carrying(u) \/ FailTenant(u) PROVE u \in scope
    BY <2>1, OnlyOneIsCarried DEF Carrying, Claim, WriteObjects, Confirm, Succeed, FailTenant,
       Left
  <2>2. ASSUME NEW u \in Tenants, Carrying(u) \/ FailTenant(u)
        PROVE  cursor'[t] = cursor[t] /\ published'[t] = published[t]
    BY <2>1, <2>2 DEF Carrying, Claim, WriteObjects, Confirm, Succeed, FailTenant, RunTypeOK
  <2> QED
    BY <2>2 DEF Next, Running, Provision, Deactivate, Record, Begin, Reachable, List,
       RefuseNamed, Refuse, Finish, Crash
<1> QED
  BY <1>1, RunInductive, PTL DEF Spec, OnlyScopeIsTouched

=============================================================================
