# CubeForge API — verification project

CubeForge records stock movements for many tenants in PostgreSQL, carries
them, tenant by tenant, into objects that an analytical engine reads, and
answers questions about them, to the people and machines each tenant admits. This
directory holds TLA+ modules that model the program in `src/`, the TLC
configurations that check them, and proofs checked by TLAPS.

All source paths below are relative to the repository's root.

## 1. Inventory

| Part | State it keeps | Operations | Hard behaviours | What makes it correct |
|---|---|---|---|---|
| **Export of one tenant** (`src/application/export/export-tenant.use-case.ts`, `src/domain/export/`, the two export repositories, the sink) | the row of `export_cursors`; the objects of the lake; the watermark | claim a window, read, put one object per recorded day, put the catalogue, confirm, put the mark | three transactions and several puts, any of which is the last; transactions that commit out of order; two runs of one tenant | nothing skipped, nothing twice, what is published never changes, the point reached says what is true |
| **Export run** (`run-export.use-case.ts`, `report.ts`, `scripts/export.ts`) | none between runs; outcomes and exit status within one | probe the sink, list tenants, carry each, report | one tenant failing every night; tenants provisioned or deactivated meanwhile; a run that dies | exit 0 only when everything due is carried; a failure costs its own tenant |
| **Analytical reader** (`adapters/analytics/`) | none | read the watermark, then the rows | an export landing between the two; a deadline | the label is not ahead of the rows; nothing known is lost |
| **Semantic layer** (`adapters/semantic/`, `cube/`) | rollups prepared by Cube | the same, over Cube; rebuild on a new mark | prepared rows older or newer than the mark | the same, for prepared answers |
| **Recording movements** (`record-movements.use-case.ts`, `postgres-movement.repository.ts`) | `stock_movements` | judge, drop unknown references, one insert skipping conflicts, report | concurrent retries of a batch; batches in opposite orders; an answer lost after the commit | each movement recorded once, each caller told the truth |
| **Catalogue** (products, locations) | two tables | declare, list | declared while a batch is judged, or an export runs | a movement refers to what is declared; a published movement can be named |
| **Sessions, setup tokens** (`application/authentication/`, `application/credential/`) | `refresh_tokens`, `credential_setup_tokens`, `person_credentials` | sign in, refresh, sign out, issue, redeem | two exchanges of one token; sign-out racing a refresh; rows locked by others | ended means ended; a session ends when its sign-in said |
| **Membership, tenants, persons** (`application/membership/`, `tenant/`, `person/`) | `memberships`, `tenants`, `people` | create, change role, revoke, provision, deactivate | concurrent demotions; provisioning in two transactions | a tenant keeps an administrator; it is provisioned whole or retired |
| **Authorization** (`domain/access/`, `access.guard.ts`, `principal-resolver.ts`, `tenant-authorization.ts`) | none | resolve, admit, authorize | each read at another moment than the write | nothing is changed without standing, or in another tenant |
| **API keys** (`application/api-key/`) | `api_keys` | issue, revoke, use | used while revoked; used on another tenant's path | the same |
| **Questions** (`ask-modelled-question.use-case.ts`, `athena-query-runner.ts`, `cube-client.ts`, the deferred adapters) | the adapters built so far; a statement in the engine | submit, poll, stop, read pages; ask, be told to wait | an engine that never ends, a deadline, a context that expires | an answer is whole and the tenant's own, a refusal is true, nothing is left running |
| **Units of work, doubles, throttling, HTTP edge, cryptography, scripts** | — | — | — | see `PROJECT.json`, each with what is modelled of it or the reason it is not |

How they interact. Movements and the catalogue are written by API requests,
each in one database transaction at READ COMMITTED. The export reads them
through the same unit of work and shares one thing with every other writer of
the platform: the sequence of transaction identifiers, whose lowest one still
in flight (`pg_snapshot_xmin`) is the *horizon*. The lake is written only by
the export. The reader and the semantic layer see only the lake.
Every request passes authorization, which reads tenants, people, memberships and
keys in the same transaction as the use case, one statement before another; sessions
share only `people` with it, and an access token once issued is looked up nowhere.

## 2. Modules

| Module | What it models |
|---|---|
| `ExportDomain` | the window, the cursor row, and the rule for the next window (`domain/export/`), as pure operators |
| `ExportTenant` | one tenant's export with the transactions that record movements: the core |
| `ExportLedger` | what the export promises, with no mechanism: record, publish once, confirm |
| `ExportInductive` | the inductive invariants of `ExportTenant` |
| `ExportRefinement` | the refinement mapping of `ExportTenant` to `ExportLedger` |
| `ExportTenantProofs`, `ExportSequentialProofs` | the theorems, for any runners and for runs one at a time |
| `AnalyticsReader` | extends `ExportTenant` with questions and the semantic layer's rollup |
| `AnalyticsReaderProofs` | the theorems, with the little they need beyond the export's invariants |
| `ExportRun` | the command over several tenants, night after night |
| `ExportRunInductive`, `ExportRunProofs` | the inductive invariant of `ExportRun`, and the theorems |
| `RecordMovements` | batches recorded at once, statement by statement, and their callers |
| `MovementStore` | what the repositories of the inventory promise, a call a step, as the in-memory double keeps it |
| `RecordInductive`, `RecordMovementsProofs` | the inductive invariant of `RecordMovements`, and the theorems |
| `Sessions` | sign-in, refresh, sign-out, setup tokens |
| `SessionsInductive`, `SessionsProofs` | the inductive invariant of `Sessions`, and the theorems |
| `Tenancy` | tenants, people, memberships, operators and keys, and every request that acts on them |
| `TenancyInductive`, `TenancyProofs` | the inductive invariant of `Tenancy`, and the theorems |
| `Questions` | one analytical question after another, by either route |
| `QuestionsInductive`, `QuestionsProofs` | the inductive invariant of `Questions`, and the theorems |
| `MCExportTenant`, `MCAnalyticsReader`, `MCExportRun`, `MCRecordMovements`, `MCSessions`, `MCTenancy`, `MCQuestions` | model values, inputs, symmetry |

`AnalyticsReader` composes the export with its readers, `ExportRun` many exports, `MovementStore` is
implemented by `RecordMovements` and `ExportLedger` by `ExportTenant`. `ExportTenant` needs of recording only when a batch begins, inserts and ends, and
takes it as one element; `RecordMovements` has the rest.

The definitions named "slip" in a module's comments are deliberate mistakes: each is a
mutated form of the definition that follows it, kept to show that the property named
beside it in `PROJECT.json` would notice. They take part in no specification.

### 2.1 ExportTenant and the code

`Movements` are batches: the rows of one `RecordMovementsUseCase` transaction share
its `recorded_at` (the instant it began, `BeginRecording`) and its `recorded_xid` (taken by
the insert, `Insert`), so one element stands for all of them. `OtherTransaction` is any
other write of the platform, which moves the horizon; the export's own cursor
writes do too (`XidTaken`).

| Action | Code |
|---|---|
| `ReadCursor`, `ReadHorizon`, `Start` | `claimWindow`: two reads and an upsert. Each statement has its own snapshot, so the horizon may be read after other transactions have ended; nothing is locked in between. `Start` is the commit |
| `ReadMovements`, `ReadProducts`, `ReadLocations` | `read`: three statements of one transaction, three snapshots |
| `WriteDay` | one `put` of the loop, days in the order their first row was read |
| `WriteProducts`, `WriteLocations` | `writeCatalogue`, whole, in a run without a window too |
| `Confirm` | `finish`: sets the point reached and clears the pending window in one statement, looking at neither |
| `StampMark`, `WriteMark` | `clock.now()` and the put of the watermark |
| `Die` | any step throwing, or the process ending, at any point |

A cursor row is kept as the table keeps it, three columns with zero for NULL, and the
three states (`never-carried`, `carried`, `started`) are derived from it as
`PostgresExportCursorRepository.read` does. An object is `[key, rows]`; putting one replaces
the object of the same key.

`Runners` with one element is the intended operation, one run at a time. With two,
runs overlap: no lock, no condition in `start` or `finish` prevents it.

### 2.2 ExportRun and the code

A tenant's export is `Claim`, `WriteObjects`, `Confirm`, `Succeed`, or `FailTenant` at any of them (with some
of its objects put). What is added is shared: one sequence of transaction identifiers, so that a tenant
with nothing new still gets a window; the list of active tenants, read once (`List`); outcomes; the
exit status. The code carries tenants in the order they were provisioned; the model in any order.
`due` and `announced` are history variables that the program does not have: what had been
recorded when the tenants were listed, and the sum of what reports counted as carried.
`reportOf`'s error for a tenant reported twice cannot be met, as outcomes are a function of the tenant.

### 2.3 AnalyticsReader and the code

`AskMark` is the watermark question; `AnswerFromObjects` is `AthenaAnalytics` (and the semantic layer
when nothing prepared matches), `AnswerFromRollup` the semantic layer answering from the rollup.
`Refresh` is the rebuild of the rollup. Its `refresh_key` is the greatest mark of *any* tenant, so for one tenant
it happens at any moment. `LakeMark` is the moment the export the rows come from
completed: a run that has confirmed and has not put its mark yet counts as complete.

### 2.4 RecordMovements and the code

A caller is a client that sends one batch at a time and holds on to it until it has an answer; one that gives up waiting
and sends its batch again is two of `Callers` with the same batch. `Batches` are sequences of rows that can be malformed, repeated, inadmissible or unknown.

| Action | Code |
|---|---|
| `RefuseShape`, `Submit` | the controller's validation of a batch, and `execute` up to the transaction: rows are judged (`judgeLocally`, `judgeMovement`) with the clock read there |
| `Authorize` | `authorizeCallerInTenant`, whose reads are `Tenancy`'s matter: here a caller is admitted or not, and can stop being |
| `ReadProducts`, `ReadLocations` | `dropUnknownReferences`: two statements, two snapshots |
| `Insert` | one row of the statement, in its order. A key that a transaction in flight has inserted makes it wait (`WaitsFor`) |
| `Commit`, `Answer` | the commit, and the report made from what `returning` handed back |
| `LoseAnswer`, `Fail`, `AbortDeadlocked`, `Retry` | faults, and what callers do about them |

`told` and `ledger` are histories: what has been acknowledged to anybody, and what the reports add up to.
`stockOnHand` counts a sum by the unit (`Units`): the units of the positive quantities less those of the negative ones. `ImplementsStore`
maps a commit to one call of `MovementStore`'s `record` and the report to `Used`; everything else stutters.

### 2.5 Sessions and the code

A row of `refresh_tokens` is its number, in the order rows were inserted; a secret is the row it is the digest of. Each action is
a statement of a transaction (`Refresh` and `Redeem` find the token, `MarkExchanged` and `MarkSetupTokenRedeemed`
update it if it is not marked yet), but for an invalidation, which is one update of several rows: it sees the rows committed when it begins (`Swept`) and
none inserted later, comes to them one at a time in whatever order the plan has (`InvalidateRow`), keeps those it has come to locked (`held`) while it waits for the next (`waits`), and
ends and commits when it holds them all (`Apply`). A statement waits for rows that others have locked (`WaitsFor`, over `LocksToken`, `LocksSetup`,
`LocksCredential`), and re-reads them when it gets them, as PostgreSQL does at READ COMMITTED. Two sweeps can so wait for each other, or longer cycles form (`InWaitCycle`); the
database aborts one of the requests in the cycle, whichever it likes (`AbortDeadlocked`), and its caller sees a failure. The clock is read before the transaction begins (`at <= now`).

### 2.6 Tenancy and the code

A machine acts in the tenant of its own key, whatever tenant the path names (`tenantActedIn`). A request walks through phases: `guard` (the route's own authorization, in a transaction of its own), `tenant`, `person`, `membership` (`authorizeInTenant`, three reads) or
`machine`, then `find` and `count` for a change of role or a revocation, and `apply`. An operator's request has been resolved with a
read of `platform_operators` and needs nothing more (`operate`); provisioning goes on to `administer` and perhaps `compensate`, its second
transaction and what follows when that fails. `InScope` and `Visible` are the repository's scope and the policies under it.
`standing` and `abandoned` are histories: which facts about a caller have held at some moment since the first read of the transaction that writes (what the route's guard saw in its own does not count), and which tenants a process that died left half-provisioned.
`stale` marks a request in flight that has read memberships another one has changed since. Reads that change nothing (lists, the caller's own description) are left out.

### 2.7 Questions and the code

Both routes ask the watermark and then the rows, each exchange with a deadline of its own. On the engine's, `Submitted`, `StateOf`, `Judge`, `Stop` and `PageOf` are
`QueryRunner.settle` and `readAll`; `EngineEnds` is the engine. On the layer's, `Attempt`, `ContinueWait`, `Waited`, `Objected`, `Abort` and `ModelAnswers` are `CubeClient.load`
and `askOnce` with what Cube may answer. `AnswersWithoutData` is an answer with a body that is no answer, which `responseBody` and `answerFrom` turn into one of no rows, at either exchange.
`failed` has the calls that went wrong and what did so silently: a call of the engine's client (`EngineCalls`), or such a body (`"load"`). `RowsRead` says whose rows a statement reads: of the tables it constrains to the tenant, the tenant's,
and of any other, everybody's. Time is the ticks left to the deadline and to the expiry of the signed context.

## 3. Runs

| Run | What it shows | Instance |
|---|---|---|
| `export_sequential` | all the safety, action and liveness properties of the core, and that it implements `ExportLedger` | 2 movements, 1 run at a time, 1 product, 1 location, 2 days, identifiers of others up to 3, 1 death |
| `export_overlap` | what is left when runs overlap: nothing is skipped, what is published is fixed | 2 interchangeable runners, 2 movements, identifiers of others up to 2, 1 death |
| `export_duplicates` | *violation*: overlapping runs publish a movement twice | 2 runners, 1 movement |
| `export_run` | a success is whole; a failure costs its own tenant, also when it happens every night; a movement is counted at most once | 2 tenants, one always allowed to fail, 1 fault besides, 4 identifiers |
| `export_up_to_date` | *violation*: "up to date" said of a tenant with movements left | the same |
| `reader` | labels and rows of answers read from the objects | 2 movements, 2 ticks |
| `reader_label` | *violation*: the mark ahead of the data | 1 movement, 3 ticks |
| `recording` | reports add up to what is on hand, acknowledgements are true, the statements implement one atomic call, every batch is answered | 2 callers of one tenant, 6 batches of up to 3 rows and one too long, 2 requests and their retries, 1 fault |
| `sessions` | rotation does not extend a session, ended stays ended, a second use only by overlap, deadlocks only between sweeps | 2 clients of one person, 3 refresh tokens, 2 setup tokens, 1 tick |
| `tenancy` | nothing without standing, provisioned or retired, the last administrator lost by overlap only | 2 people, 2 tenants, 1 key, 17 commands, 2 requests at once and 4 in all |
| `last_admin` | *violation*: a tenant with no administrator left | the same |
| `questions` | answers whole and the tenant's own, refusals true, nothing left running, every question ends | 3 tenants (one with a row, which is the bound, one with two, one never exported), 5 compositions, a deadline of 3 ticks, a context good for 4 |

Why the bounds are enough. Two movements give every order of begin, insert and commit of two transactions,
one of them below and one above the horizon of the same run; with two days they also make two objects of one window.
One death is enough to leave any prefix of a run behind, and runs follow each
other without limit, so a death is met by a replay, then by a fresh window. Identifiers taken by other writers
are counted up to `MaxXid`, which leaves room for a window that holds no movement and for two successive windows; beyond
the bound the export's own writes stop moving the horizon, which only removes empty windows. `MaxTime`
bounds the clock. In `export_run` two tenants suffice for "one fails, another must not", and four identifiers for a claimed
window, a movement recorded after it and a replay.

In `recording`, two callers with the two rows of a batch in either order make the waits, the deadlock and the overlapping retry; further callers only queue behind
the same keys. In `sessions`, three tokens make a family fork and rotate again, and one person suffices as no statement of one person's touches another's rows. Two
of them are what two sweeps need to hold one each, and two setup tokens what two redemptions need to meet at the person's password; a session lasts a tick, so a token is refreshed before its deadline and presented at it. In `tenancy`, two administrators are the smallest
number that can be lost to two concurrent requests, the second tenant is there to be provisioned, named on another tenant's path, and given the key of the first; four requests are a change, its rival, and a
key issued and used. In `questions`, one tenant's rows fit the bound exactly and another's are one more; pages are cut everywhere.

Fairness. A run that has begun makes its next step (`WF` on the steps of a runner), and a transaction that has inserted ends,
by commit or abort: PostgreSQL holds the horizon back for as long as one is open, and the program makes no claim about
that case. Recording, declaring, dying and time are not fair. `ExportRun` assumes further that the full
export is begun again and again (strong fairness of `Begin(Everyone)`): `scripts/export.ts` is run by a scheduler. Runs
of a single tenant, refusals and crashes may come in between; crashes are bounded, the failures
of a tenant in `Broken` are not.

`RecordMovements` assumes that a request accepted goes on, that the database ends a deadlock, and that a caller
without an answer sends its batch again; strong fairness of `GoOn`, as a transaction that is aborted wakes the statement waiting for its key long before
the batch aborted is back. `Questions` assumes that time passes, that the platform's own steps are made and that a call of the engine's client returns; nothing is
assumed of the engine ending a statement, nor of the layer answering. `Sessions` and `Tenancy` have no liveness property and no fairness: that a request waiting for a lock gets it rests on the database, and what the code answers for is that it does not wait for one that is over, nor in a cycle but of sweeps (`OnlySweepsDeadlock`).

No run needs `CHECK_DEADLOCK FALSE`: a request, a run or a question can always be made again, or refused.

### 3.1 Where the code and its documents disagree

1. **The mark is ahead of the data** (`reader_label`). `complete_through` is the clock at the end of the run
   (`export-tenant.use-case.ts:124`), the data is complete only below the horizon read at its start. A movement recorded and committed
   in between, or held back by another transaction in flight, is missing from an answer labelled later than it.
2. **Overlapping runs duplicate** (`export_duplicates`). Two runs of one tenant, one of which read the
   cursor before the other claimed, carry `[from, a)` and `[from, b)`. Decision 6 of the export's
   requirements has every movement appear exactly once. Nothing else breaks: `NothingSkipped` and `PublishedIsFixed` hold, and are proved, for overlapping runs.
3. **"Up to date" with movements left** (`export_up_to_date`). A run that died while carrying a window with none of the tenant's
   movements in it (other tenants moved the horizon) leaves the window pending. The next run replays it *as recorded*, finds no rows and reports the tenant up to
   date, with a fresh mark, whatever was recorded since. The run after that carries it.
4. **The last administrator** (`last_admin`). `countActiveAdministrators` takes no lock and the transaction runs at READ COMMITTED: two concurrent requests that each
   take away one of two administrators both count two, and the tenant is left with none (requirements 7.1 and 7.2 of tenant-and-user-management).
   What one request does by itself, the count does prevent (`LastAdministratorOnlyByOverlap`).

Three more are stated as properties with no run of their own: put the first or the second in `MCReaderLabel.cfg` in place of its property, or the third among the invariants of `MCQuestions.cfg`, to see TLC refute it.

5. **A prepared answer labelled too late** (`PreparedLabelWithinExport` in `AnalyticsReader`). The label is `min(mark, refreshedAt)` (`cube-model.ts:135`), and a rollup is rebuilt after the export it reads from has put its mark: once the next
   mark is there, the rows of the earlier export are labelled with the moment of the rebuild (requirement at `.kiro/specs/cube-semantic-layer/requirements.md:232`).
   `LabelWithinExport` is about answers read from the objects, of which it holds.
6. **Movements before their product** (`JoinLosesNothing` in `AnalyticsReader`). Movements are put before the catalogue, so the movements of a new
   product vanish from stock on hand until the catalogue is put (`athena-analytics.ts:108`). Once the window is confirmed they cannot (`CatalogueCoversRows`).
7. **A body that is no answer** (`NothingIsHidden` in `Questions`). A 200 of the layer's whose body is not an object, or has no `data` that is an array, is an answer of no rows (`cube-client.ts:222`). At the watermark an exported tenant is told that it
   was never exported; at the rows the question is answered with nothing. `analytics-failure.ts:50-51` has "a body that is not an answer" refused as `model-unreadable`, which happens to one that is not JSON only.
   `AnswersAreWhole` and `RefusalsTellTheTruth` except this case and no more of it: an answer made of such a body is empty, never a part and never another tenant's.

Seen as well, with no run of its own: a tenant deactivated after the list was read is exported in that run (requirement 1.5); a run whose
mark cannot be put after the confirmation reports the tenant failed with its point reached advanced
(requirement 6.3); a movement committed between the start of a run and its reading of the horizon is carried by it (requirement 2.5);
a process that dies between the two transactions of a provisioning leaves an active tenant that nobody administers, whose name is taken (`ProvisionedOrRetired` excepts it, as `abandoned`);
a person deactivated by an operator is still counted among a tenant's active administrators, and a tenant provisioned with the address of a deactivated person has nobody who can administer it;
two refreshes of one token at once both succeed and the session goes on in two branches (what `SpentOnceUnlessOverlapping` leaves), and a client that lost the answer of its refresh and repeats it ends its own session; a refresh
that had found its token before a sign-out inserts a live successor after it (what `EndedStaysEnded` leaves); a deadline that fires while a request to the layer is being sent or read is reported `model-unreachable` or `model-unreadable`, not as timed out
as `cube-client.ts:84` has it; a statement found running at the deadline is stopped and refused though it may have ended since; when asking the engine for a state fails, its statement is left running (`NothingIsLeftRunning` excepts a failed call); the two
exchanges of a question have a deadline each, where `semantic-config.ts` speaks of the whole exchange.

## 4. Proofs

All are of the form `Spec => []P`, `Spec => [][A]_vars` or `Spec => LedgerSpec`, for every value of the constants that satisfies the assumptions
its module names, which TLC evaluates in each run (`ReferencesAssumption` and `BoundsAssumption` for the export and its readers, `TenantsAssumption` and `BoundsAssumption` for the run over all tenants,
`CallersAssumption`, `BatchesAssumption` and `LimitsAssumption` for recording, `TenancyAssumption` for tenancy, `SessionBounds` for sessions, `QuestionsAssumption` for questions). The bounds are constants like
any other: whatever their values, the theorems hold. With one tenant there is a question about, at least (`Tenants # {}`), and finitely many clients and people at once, these assumptions say no more than the types of the constants
and that what is referred to exists. Every safety invariant, action property and refinement that a passing run checks is a theorem.

| Theorem | Property | For |
|---|---|---|
| `TypeCorrect` | `TypeOK` | any runners |
| `NothingIsSkipped` | `NothingSkipped` | any runners |
| `HorizonStaysAhead` | `HorizonNeverBehind` | any runners |
| `PublishedStaysFixed` | `PublishedIsFixed` | any runners |
| `PublishedExactlyOnce` | `ExactlyOnce` | sequential runs |
| `AttemptsAreOnRecord` | `AttemptOnRecord` | sequential runs |
| `ImplementsLedger` | `LedgerSpec` | sequential runs |
| `ConfirmedCanBeJoined` | `CatalogueCoversRows` | sequential runs |
| `MarkFollows` | `MarkFollowsConfirmation` | sequential runs |
| `RunTypeCorrect` | `RunTypeOK` | any tenants, failures and crashes |
| `SuccessMeansWhole` | `SuccessIsWhole` | the same |
| `CountedOnce` | `CountedAtMostOnce` | the same |
| `OnlyListedAreTouched` | `OnlyScopeIsTouched` | the same |
| `ReadersLeaveTheExportAlone` | `ReaderSpec => Spec`, so that what is proved of the export is true of the composition | any runners |
| `ReaderTypeCorrect` | `ReaderTypeOK` | any runners |
| `LaterAnswersShowMore` | `AnswersOnlyGrow` | any runners |
| `LabelsStayWithinTheExport` | `LabelWithinExport` | sequential runs |
| `RecordTypeCorrect` | `RecordTypeOK` | any callers, batches and faults |
| `StockIsWhatWasReported` | `StockMatchesReports` | the same |
| `AcknowledgedStays` | `AcknowledgedIsRecorded` | the same |
| `AdmissibleOnly` | `OnlyAdmissibleIsInserted` | the same |
| `RecordingImplementsStore` | `ImplementsStore` | the same |
| `TenancyTypeCorrect` | `TenancyTypeOK` | any clients, people, tenants, keys and commands |
| `NothingChangesWithoutStanding` | `NothingWithoutStanding` | the same |
| `LastAdministratorLostByOverlap` | `LastAdministratorOnlyByOverlap` | the same |
| `ProvisionedOrRetiredAlways` | `ProvisionedOrRetired` | the same |
| `SessionTypeCorrect` | `SessionTypeOK` | any clients, people and tokens |
| `RotationExtendsNothing` | `RotationNeverExtends` | the same |
| `EndedForGood` | `EndedStaysEnded` | the same |
| `SpentTwiceByOverlapAlone` | `SpentOnceUnlessOverlapping` | the same |
| `DeadlocksAreOfSweeps` | `OnlySweepsDeadlock` | the same |
| `QuestionsTypeCorrect` | `QuestionsTypeOK` | any tenants, rows, bounds and compositions |
| `AnswersWhole` | `AnswersAreWhole` | the same |
| `NothingLeftRunning` | `NothingIsLeftRunning` | the same |
| `RefusalsTrue` | `RefusalsTellTheTruth` | the same |

*The argument, first part (`ExportTenantProofs`, `IInv`).* Say an identifier is *settled* when no transaction in flight
or still to come has one below it (`Settled`). A horizon is settled the moment it is read and remains so, since identifiers are handed out in order
(`IdentifiersInOrder`): that is the lemma everything rests on. Every window ever claimed ends at a settled point (`GoodWindow`), so what a window holds is fixed
from the moment it is claimed: a run that reads it and one that replays it read the same rows, and put the same rows under the same
keys (`ObjectsAreTrue`), which is `PublishedIsFixed`. A run that comes to confirm has put all of them (`RunnerIsTrue`, `DayRows`), and whatever was below the
start of its window had been published before (`CarriedBelow`), which is `NothingSkipped`. No step looks at another runner's state, so the argument needs no assumption on
how many there are.

*Second part (`ExportSequentialProofs`, `SInv`).* `ExactlyOnce` is not inductive: it needs the windows of the objects to be either the same or disjoint (`WindowsDisjoint`), which needs each
to end at or below the point reached or to be the window on record (`Reached`, `AttemptOnRecord`), which needs the one runner's window to be the
one on record from its claim to its confirmation (`RunnerOnRecord`). The last is what two runners break. `Sequential` (at most one runner) is a hypothesis of each theorem.

*Third part, the ledger.* A committed recording is `Record`, `WriteDay` is `Publish` or a stutter (a replay), `Confirm` is `Confirm`, all else stutters.

*Fourth part, the catalogue and the mark (`CatalogueInv`, `MarkInv`).* Nothing declared is ever withdrawn, so what a run reads of the catalogue holds all of the catalogue that it will replace. What its window needs
was declared before it was recorded (`RecordedAreDeclared`), and the window was settled before it was claimed, so the snapshot a run takes later has it (`RunnerCarriesCatalogue`): by the
confirmation both datasets in the lake do. Two runs would break it: the slower puts an older catalogue over a newer one. The mark is read from the clock after the confirmation, and nobody else claims or puts meanwhile.

*The run over all tenants (`ExportRunProofs`, `RunInv`).* Of a tenant, all that was recorded below its point reached is in its lake, and a window on record starts there (`TenantIsTrue`). What was owed to a tenant when it was listed
and is not carried yet is below the end of the window pending, if one is (`WaitingIsOwed`), and from the claim below the end of the window held (`CarriedIsOwed`), since a fresh one ends at a horizon beyond all that has been recorded. Put, confirmed and answered for, the tenant is
`Whole`; a success is all of them answered for and none failed. A window found pending when the run begins is the hard case: there `owed` is what it holds, as `SuccessIsWhole` has it. For the counts:
what reports have added up to never exceeds what is published below the point no report has counted from yet (`Uncounted`), which is the start of the window of a run that has confirmed and not reported.

*Readers (`AnalyticsReaderProofs`).* A step of a reader changes no variable of the export and a step of the export is one of `Spec`, so the composition inherits its theorems. Rows that an answer has shown are published
(`ShownIsPublished`), and what is published stays. The mark a question in progress holds is no later than the one there now (`CarriedIsBehind`), and that one no later than the export the rows are read from.

*Recording (`RecordMovementsProofs`, `RecordInv`).* The candidates of a request are rows of its batch that the judgement let through, no two with one identifier (`CandidatesAreJudged`), and refer to what is
declared, since nothing declared is ever withdrawn (`CandidatesAreDeclared`). Two requests hold no key in common, as one that would insert a key held by another waits (`LocksDisjoint`); so a key a request has inserted is still free
in the table, and a key it has skipped still taken (`TableAgrees`), whoever commits meanwhile. A commit therefore adds exactly the rows it holds, each under a free key, which is `record` of `MovementStore`: the
rows it skips are the ones the abstract call finds recorded. What a request reports on is in the table by the time it answers, which is `AcknowledgedIsRecorded`.
For the stock (`StockInv`): a table is finite at all times, as a commit adds the finitely many rows of a batch; the rows added are in bijection with those reported, so the
units of the two sums are too, and the sum over a disjoint union is the sum of the sums. Counting by the unit is what makes this provable: the library's theorems on finite cardinalities apply, where a sum by recursion would need an induction.

*Tenancy (`TenancyProofs`, `TenancyInv`).* What a request has found so far it has found for good or on record: rows are never deleted and no tenant becomes absent again (`Present`), and each
read of the transaction that let the request through has put what it read on the record of its caller, which only grows while the transaction lives (`Stands`). By the time a request writes, everything it
needs is therefore on record, whoever else wrote meanwhile: `NothingWithoutStanding`. That it writes in its own tenant alone is `Fits`, with `InScope` where it is checked; a machine's is its key's. For the last administrator: a request
that has counted, and that no other has overtaken, still sees the membership it read and another administrator beside it (`Counted`). Inserting a membership keeps both, as a row that is there is left alone (`RowsKept`); changing one
marks every other request of that tenant `stale` (`OthersGoStale`), and of other tenants touches no row. `ProvisionedOrRetired` follows from what can end a provisioning (`ProvisioningGoesOn`):
its administrator, its compensation, or the death of the process.
The finiteness of `People` is assumed for the count (`AnotherAdministrator`).

*Sessions (`SessionsProofs`, `SessionInv`).* Each token has the deadline of its family's first, and its mark says whether it has a successor (`TokensAgree`; `SetupsAgree` for setup tokens). A request
that got past its refusals found its token before its deadline, not invalidated and not exchanged, hence of no ended session and unspent (`Found`); if its own update then marked nothing, a rival's has. Other requests
only insert rows and set marks (`TokensGrow`, `SetupsGrow`), so what a request found of rows and deadlines stays true while they do. A statement that ends a session takes as its targets the tokens not invalidated yet, so
each token it saw is a target or dead already (`SweepCovers`), and dead all of them when it has run: `EndedStaysEnded`. In what order it locks them, and whom it waits for, changes no row and takes no part in the argument.
For the deadlocks (`LocksInv`): a request comes to the update of its one token with nothing locked, and to the password with its setup token at most. So nobody waits for the first, and for the second only requests that are
at its setup token, for which nobody waits: neither is in a cycle. `SessionTypeOK` needs in addition that an insertion was counted
when its request arrived (`WithinBounds`).

*Questions (`QuestionsProofs`, `QuestionsInv`).* What either route reads is what the tenant asking has, whoever else uses the same codes (`StatementReads`, `ModelReads`): every table of a statement is confined to the tenant, and every cube a question names, and each question
names the movements. Wherever the engine cuts its pages, what has been read followed by what has not is the whole, less the header if there is one (`PagesCarry`, `PagesOf`). What the layer answers is all of it or one row
more than may be answered, unless the body held no data, of which nothing is made but an empty answer or a tenant never exported; such a body ends the question, so no later answer is made of it. A statement runs only while it is being asked about, or a call has failed (`RunningIsWatched`); a question is stopped only past its deadline, and asks for rows only of a tenant that has a mark (`AskedRightly`).

Only model-checked: the four liveness properties (`EventuallyCarried`, `HealthyAreCarried`, `AnsweredInTheEnd`, `QuestionsEnd`), as what follows from fairness is out of the prover's reach, and the properties the code
does not have (section 3.1), of which TLC gives a counterexample.

## 5. Not modelled, and the plan

Left out on purpose: encodings (Parquet, names of objects beyond what tells two apart), wording of reports, logging, the policies of
row-level security beyond those `Tenancy` has, cryptography, the throttler (its counters are the library's, in the memory of one process), translation of
errors to statuses, the scripts that seed and bootstrap. A partial put is not an outcome: object storage replaces an object whole or not at all.

Access tokens are stored nowhere: one issued before a sign-out or a deactivation is good until it expires, which is by design, and it gives standing only through what
`Tenancy` reads at each request. Passwords are abstracted to having one. The periods and moments of a question are taken as well-formed ones.

What is left to do:

1. An abstract specification of sessions (a session is live until it ends or expires) for `Sessions` to implement, and one of the access decision for `Tenancy`, with their refinements proved.
2. The composition of `Sessions` with `Tenancy` over `people`, if a property is found that needs both: today neither reads what the other writes, save the status of a person, which only falls.
