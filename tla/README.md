# Verification of the SCS backend

TLA+ models of the stateful parts of this repository's Go backend, the TLC runs that
check them on small instances, and theorems that TLAPS checks for every instance.
Everything is written from the code; a definition's lines are in `PROJECT.json`, "map".

* [The system](#the-system) — inventory: parts, state, operations, hazards
* [The modules](#the-modules) — which module models which code, and how
* [The runs](#the-runs) — what each one asks, with which bounds and fairness
* [What is proved](#what-is-proved) — and along which argument
* [Disagreements](#disagreements-between-the-code-and-what-it-says)
* [What is not modelled](#what-is-not-modelled)
* [Plan](#plan)

Run from this directory: `tlc -config chain_safety.cfg MCRecoveryChain`,
`tlapm RecoveryChainProofs.tla`
(likewise the other `...Proofs` modules).

## The system

One Go process (`src/main.go`) starts a private PostgreSQL, serves a built Angular
front end and a JSON API, and runs background goroutines. Its parts keep state in
PostgreSQL, in a local SQLite file, and in directories of files.

| Part | State | Operations | What makes it correct |
|---|---|---|---|
| **Recovery chain** `backend/backup/{backup_service,office_mirror,offsite,reconciliation,recovery_events}.go` | recovery points on disk (core artefacts and `manifest.json`), an office mirror, an offsite copy, an event table; `Service.mu` | `Create`; `ReconcileLatestRecoveryPoint` every 10 s from `startGuardianMonitor` (`main.go`); `Verify` | what a manifest records is true of the files; half-built or altered trees never pass; retention deletes only what it may; the newest point heals |
| **Recovery status** `backup_api.go` | none of its own | `GetRecoveryStatus`, without the mutex: lists the points, then reads the events | PROTECTED is never said of an unprotected point |
| **Restore** `backup_service.go` `Restore` | live PostgreSQL and SQLite, a pre-restore directory, a staged file | one long transaction over two databases | nothing lost, failures undone, success means restored |
| **Offline-first registration** `web_register_api.go` | SQLite `local_tenants`, PostgreSQL `client_business_register` and `api_idempotency_keys` | `handleRegister`; a worker every 15 s | acknowledged rows are kept and arrive exactly once |
| **Failover controller** `failover_controller.go`, `failover_api.go` | an in-memory status behind one mutex | `Evaluate`, `Promote` (an external command, mutex released) | the status tells the truth when requests overlap |
| Guardian telemetry and decisions `guardian_telemetry.go`, `backend/guardian/` | a JSON state file; none (pure functions) | supervisor heartbeat; observe, decide | a decision follows the policy |
| Code source recovery `backend/code_source_recovery/` | source archive, GitHub fallback, last known good build | restore, rebuild, fallback | only a verified source replaces the running one |
| **API gateway** `web_api_gateway_{api,security,policy,rate_limit}.go` | keys, the security policy and rate-limit windows of a tenant in PostgreSQL | create, list, revoke, rotate a key; verify a call; read and save the policy; count a call | a revoked key stays dead until it is rotated; no window lets more calls through than its limit; no setting is lost |
| **Client access** `web_auth_api.go`, `web_superadmin_api.go` | `client_business_register`, `auth_users`, `auth_sessions` | login, logout, session check; approve, reject, suspend, enable, temporary password, force logout | an approved client has a login; a suspended one has no usable session |
| **Roles** `web_rbac_api.go` | `rbac_roles`, `rbac_role_permissions`, `rbac_user_roles` | seed; save, toggle, delete a role; save permissions; assign, remove a user | system roles keep their presets; nothing is left of a deleted role |
| **Subscriptions** `web_business_subscription_api.go`, `web_business_plan_matrix_api.go`, `web_modules_*.go` | a tenant's plan and totals, its modules and agreed prices; the plan matrix and the module catalog | save a subscription, a tenant's module or price, the matrix, the catalog; recalculate | the total is that of the plan and modules there are; plan and status are those chosen last |
| **Payments** `web_payment_{transaction,invoice}_api.go` | invoices, transactions, the tenant's subscription | generate, cancel, log, approve, reject | a paid invoice has an approved payment |
| Refunds, wallet, coupons `web_payment_{refund,wallet,coupon}_api.go` | their tables | handlers that no route reaches | |
| Start-up, licence gate, static files, Angular front end | processes, files, browser state | | |

### How the parts interact

`startGuardianMonitor` and the HTTP handlers share one `backup.Service` and exclude
each other by `Service.mu`; the Guardian and `Create` also share the office mirror and
offsite directories and the event table. `Restore` runs under the same mutex. Status
requests, `List` and the application's own database writes take no mutex and run
beside all of them. The registration handler, its worker, and other nodes meet only in the
two databases. The failover controller is called from HTTP handlers alone.

The superadmin's handlers meet each other and the tenants' requests in PostgreSQL only.
An approved payment makes the subscription active that a recalculation may just be
writing back: Billing therefore extends Subscriptions. A gateway key, a login and a
role do not look at one another: no handler asks the RBAC tables before it
lets a request in.

### What is hard

* **Crashes and partial failures.** Every multi-file operation of the recovery chain can
  stop between any two file operations, and `Restore` between its two databases.
* **Errors that are discarded.** Event records, mark updates, retention and
  rollback copies all have call sites of the form `_ = f(...)`.
* **Interleavings without a lock**: status request against Guardian, application against
  restore, handler against worker, promotion against evaluation.
* **Read, decide, write** without a transaction around it: nearly every handler over
  PostgreSQL checks with one statement and writes, by id only, with another.
* **Retries**: the worker and the client repeat what may already have been done.
* **Liveness**: healing and synchronisation are promises about the future.

The list with lines is in `PROJECT.json`, "hazards", each with the properties that would
catch it going wrong. Where the code does go wrong, no property of a passing run can say
that it does not: such a hazard has a note instead, or beside the properties that bound
the damage, naming the part they leave out. Those are the overlaps
that `late`, `chosen`, `outdated`, `disputed` and `intact` mark in the models, and most of
them are under [Disagreements](#disagreements-between-the-code-and-what-it-says).

## The modules

### RecoveryChain

`Create` and `ReconcileLatestRecoveryPoint` as a program counter per thread
(`job[t].step`), with the manifest the job has in memory in `job[t].m`; `mu` is
`Service.mu`. A recovery point is a number; larger is newer, as timestamp ids sort.

* A **digest** names the content of a directory tree. Each build and each alteration
  gets a digest that nothing about the same point mentions (`FreshSHA`): SHA-256
  collisions are left out, and two builds differ because `RECOVERY.md` carries its
  time. Since digests of a point are only compared for equality with those of the same
  point, it does not matter which fresh one is taken. `genuine` is history: whether the
  tree really is a copy of the intact core artefacts.
* `core[i]` only says whether `verifyUnlocked` accepts `postgres.sql` and `local.sqlite`.
* **Order of steps**: lock, gate, mirror check, copy, seal, recheck, offsite check,
  retention and copy, fill, seal, recheck, truncate `manifest.json`, write it, final
  gate, events, unlock. Each is one action because a crash, a failure or a change
  of files may fall between; what lies inside one is not observable to another thread
  (the mutex) or leaves the same disk as the failure action beside it.
* `os.WriteFile` truncates and then writes: `Persist` (file "torn") and `Write`.
* `ErrorReturn` is every error return: `Create` removes the new point's own directory
  and leaves mirror and offsite copy; reconciliation leaves all of it.
* **Environment**: `DamageCore`, `DamageMirror`, `DamageOffsite`, `Expire` (the
  retention period ends), `Crash`. `TamperBusy` says whether files may also change
  while a job works on that point, `EventLoss` whether the event store may fail.
* `suspect` is history: points touched from outside, or whose job was cut short,
  since their last trust gate. Without it "the manifest is true" would be false for
  trivial reasons.

Not distinguished: a retention removal that fails half way (the copy is then damaged,
as `DamageOffsite` damages it); the Git repository inside the mirror; rclone's own
retries. `OffsiteMode` is "none", "filesystem" or "rclone"; when both variables are set
`createOffsiteCopy` takes the root (it asks `root == ""` before it uses rclone), as
reconciliation does, so that case is "filesystem".

### RecoveryStatus

Extends RecoveryChain with one status request: `StatusList` is the scan of the
directory, `StatusAnswer` the read of the events and the five-layer score, and any step
of the chain may come between. `broken` and `reconciled` are history.

### RestoreTransaction

`Service.Restore` step by step. A database holds one of five contents; `tools` are the
commands `commandExists` finds, chosen at the start. `psql --single-transaction` makes
the PostgreSQL restore atomic; the staged SQLite file is renamed. `Replay` is what
psql does with a dump made without `--clean`: it fails on the first object
that exists, in one transaction, so it changes nothing. `AppWrite` is the application,
which does not take `Service.mu`; `CopiesOfLive` makes a copy that is read during a
write possibly torn.

The way back can fail without a word. `copyFile`'s error is ignored in a rollback, and the
caller gets the same "integrity check failed" whether the live file is back, still the
restored one, or broken (`RollbackFail`). And psql may exit with an error although the COMMIT
it had sent took effect, when the answer is lost (`RestorePgFail`). Both end in
`result = "error"` like every other failure; `unseen` is history and names which of them
("copyBack", "commit") happened. `FailedSingleRestoreKeepsLiveData` speaks of each database
by itself and lifts its promise for SQLite after a torn copy or a failed copy back, and for
PostgreSQL after such a commit; `NothingLost` has no exception for these two, so
the rollback copy still has the data then.

### RegisterSync

Handlers, the worker and other nodes over `local` (SQLite) and `cloud`/`cloudKeys`
(PostgreSQL). `check`, `insert` and `mark` are separate steps: `syncRegistrationToPostgres`
looks the key up before its transaction, and the mark is a statement in another database.
`Insert` may succeed with its answer lost. `MarkLost` is the discarded error of the mark.
`ReaderBlocks` is SQLite's rollback journal, in which an open cursor keeps another
connection's commit waiting; nothing in the code selects WAL, so all runs set it.
`Limit` is the 25 rows of a cycle. A resubmitted form brings a new key, because the front
end makes one for each submission. `created_at` has a resolution of one second;
the model orders rows strictly.

`Registration` is the abstract promise: the form this node holds for an email, the one in
the central register, and what each request was told. `Hold`, `Enter`, `EnterForeign` and
`Tell` are its only steps; no database, worker, key table or lost answer occurs in it. In
the mapping (`Promise == INSTANCE Registration WITH ...`) a held form is the key of a
SQLite row, the register is `cloud`, and everything between a save and an answer stutters.

### Failover

Status, overlapping promotions, their results in any order, evaluations between.
`promoted` is the truth about the standby: a failing command may have promoted it.

### ClientAccess

A client is its registration (`reg`), its login (`user`) and its sessions. Statements
outside the approval's transaction commit one by one, so a suspension is three steps:
`SuspendBegin`, `SuspendUser`, `RevokeSessions`. The handler discards the errors of the
last two; `StatementLost` is such an error. A login is two steps with the password
verification in between (`LoginBegin`, `LoginFinish`). `Accepted` is
`userFromRequestSession`: not revoked, not expired, and the user active now. `closed` is
history: a suspension has run to its end, lost nothing, and nobody has reopened the
account since it began. Restoring a client is the approval handler; enabling a login and
setting a temporary password make the user active whatever the registration says.

### Rbac

Every handler that changes roles: it reads the role (`SaveBegin`, `Begin`), refuses a
system role, and writes by id in a transaction of its own (`SaveWrite`,
`ToggleWrite`, ...). The seed runs inside every list and every save (`SeededRoles`,
`SeededMembers`). What a late write meets are the foreign keys (guards
such as `role[x].there`) and their ON DELETE clauses (`Cascade`). A permission is a
pair of module and action; an upsert that
disables a permission is one of the sets that `PermissionsWrite` may leave.

### ApiGateway and RateLimiter

One key, its tenant's policy and the counter of one route. A call goes through `Verify`,
`NoteUse`, `EnforcePolicy` and one of `CountFirst`/`InsertCounter`, `CountRestart` and
`CountOneMore`, each a database step of its own; the clock (`Tick`) moves between them. The
counter steps run under the row's lock, so each is one action; only the first call,
which finds no row to lock, takes two. The clock reading of a call is the one it took
before it waited for the lock. The answer to a COMMIT may be lost: the call is counted, but
the handler gets an error and refuses it (`Committed`). So the counter may be ahead of the calls
let through, never behind (`EveryCallIsCounted`). `RateLimiter` is the abstract promise of a fixed-window
limiter, in which neither a clock, a lock nor a row occurs; `LimiterHolds` is the
refinement: `admitted`, the calls let through in the window that starts at each time, is
the abstract state, and every other step stutters.

### Subscriptions and Billing

One tenant. A superadmin request is a check (`...Begin`), a write (`...Write`), and then the
recalculation: `RecalcRow`, `RecalcBase`, `RecalcAddons` and `RecalcWrite` are the four
statements of `recalculateTenantSubscriptionAmount`, and other requests' steps come
between. `Reseed` is `ensureModuleEntitlementSchema`, which every request about modules
runs first and which gives seeded modules their first price and status back. A plan here
is a plan with its billing cycle, its price comes from an active row of the matrix
or else from an active row of `plans`, which `PlanSave` changes, and is 0 where neither
is active (`BasePrice`). `Plans` are among starter, pro and enterprise: a subscription to
any other is refused (`web_business_subscription_api.go:343`). Seeding inserts these with ON
CONFLICT DO NOTHING and so keeps what was saved of them. `late` in a recalculation, `chosen` and `outdated`
are history. Billing adds
invoices and manual payments: `GenerateBegin` reads the next number (the count plus one)
before the transaction of `GenerateWrite`; `DecideBegin` reads the payment's status without
a lock and `ApproveWrite`/`RejectWrite` write by id. The subscription the approval makes
active is the one of Subscriptions. `disputed` is history: payments that a second
superadmin decided late.

Assumed of the tables, because nothing in this repository settles it: `auth_sessions.expires_at`
compares with the time although it is created as TEXT; the payment tables have the columns the
handlers name (`ensurePaymentSchema` is never called); `tenant_modules` has the
`price` column the invoice reads (no statement creates it); `client_business_register`
exists (no Go code creates it).

### MC modules

`MC<Module>` extends its module with the values that a `.cfg` cannot express and with
symmetry sets. The operators marked "Faulty" are never part of `Next`: each
is a plausible bug in the operation below it, and shows, put in its place, that
a property can be broken (`PROJECT.json`, "mutants").

## The runs

| Run | Question | Bounds |
|---|---|---|
| `chain_safety` | `TypeOK`, `MutualExclusion`, `MirrorRecordTrue`, `OffsiteRecordTrue`, `RetentionSparesNewest`, `VerifiedOffsiteKept` with files altered even during a job | 3 points (retention needs a newer directory, and a third point to act on behalf of), Guardian and one client, 2 faults |
| `chain_healing` | `VerifiedIsGenuine`, `EventuallyHealed`, files altered between jobs | 2 points, 3 faults |
| `chain_rclone` | `EventuallyHealed` without a filesystem root, files altered during jobs | 2 points, 2 faults |
| `status_protected` | `ProtectedMeansReconciled`, `FailedRepairNotProtected` for a request beside the chain | 2 points |
| `restore_tools` | `RestoreTypeOK`, `NothingLost`, `FailedSingleRestoreKeepsLiveData`, `SuccessMeansRestored`, `SQLiteAfterPostgres` for every target and every set of tools | 2 restores, one after the other, 3 faults |
| `register_sync` | `RegisterTypeOK`, `SyncedIsInCloud`, `KeyAnswersForItsRow`, `AcknowledgedIsKept`, the refinement `RegistrationHolds`, `EventuallyInCloud` | 2 requests, 3 keys for 2 emails, 2 faults, as many rows as a cycle takes |
| `register_starved` | `EventuallyInCloud` with one row more than a cycle takes: violated | Limit 1, 2 rows, no fault |
| `failover_overlap` | `FailoverTypeOK`, `RecoveredMeansPromoted` | 3 requests, 4 commands |
| `access_closing` | `AccessTypeOK`, `ApprovedHasLogin`, `AccountStaysClosed`, `OnlyLateSessionsSurvive` | 1 client, 3 requests in flight, 3 sessions, 1 lost statement |
| `rbac` | `RbacTypeOK`, `SystemRolesKeepPresets`, `DeletedRoleLeavesNothing` | 1 system role, 2 others, 1 user, 1 permission, 2 requests in flight |
| `gateway` | `GatewayTypeOK`, `RevokedKeyIsDead`, `EveryCallIsCounted`, `SettingsAreKept`, and the refinement `LimiterHolds` | 3 requests in flight, limit 2, windows of 2, the key expires at 2, time ends at 3 |
| `billing` | `BillingTypeOK`, `AmountIsOwed`, `PlanIsKept`, `PaidIsCovered` | 2 plans with 2 rows each in `plans`, 1 module, 2 requests in flight, 3 requests in all besides the making of the invoice, 1 invoice, 2 payments |

The bounds are small because the hazards are: each needs at most two jobs, two
recovery points (three for retention) and two or three faults. Faults are one
budget shared by alterations, failed operations, lost events and crashes, so that every pair
(and, with 3, every triple) of them in every order is explored. `SHA` in the
chain's instances has enough digests that `FreshSHA` is never empty where
an action needs one.

In the four runs over PostgreSQL the number of requests in flight is what the
races need. Two are one late write. The gateway has three so that two race for the first
row while a third comes with an old clock reading, and time enough for two windows (from 0
or 1, and from 2 or 3), the second of them full: calls verified before the key expires are counted
after. `access_closing` has three so that a suspension meets a login begun
before it and a request that reopens the account. `billing` has two in flight and three in
all: a save, a second choice while its recalculation is under way, and a payment decided
twice. These numbers bound in-flight requests, not history: except in `billing`, requests
come again without end. Clients, keys and tenants do not share rows, so one is
enough; the two custom roles of `rbac` are there because one may inherit from the other.

`CHECK_DEADLOCK FALSE` is set where the system really comes to rest: no backup asked
for, nothing to reconcile, every request answered, fault budget spent.

### Fairness

`RecoveryChain!FairSpec`: weak fairness of the Guardian's ticker
(`startGuardianMonitor` loops for ever and calls the reconciliation each time) and of the
steps of a thread that holds the mutex (a goroutine that can run does). `Create`
is not fair: nobody has to ask for a backup. Faults are bounded, which is "once faults stop".

`RegisterSync!FairSpec`: weak fairness of every started request, of the worker's
15 s cycle and of its steps, and of PostgreSQL's return. Nothing says that a mark
succeeds: while the worker's cursor is open it never does.

The other modules state safety only. Nothing in the code bounds how long a command, a
restore or a request takes, and no handler promises that something happens later: a
request that dies leaves what it has written, and no goroutine goes on with it.

## What is proved

The theorems hold for every value of the constants that the assumption named in each
module allows (`ChainAssumption`, `RegisterAssumption`, ...); a theorem with a further
hypothesis says so. Every property of a passing run is the subject of one, the two
liveness properties excepted.

`RecoveryChainProofs` is about the chain and the status request beside it, for any number
of points, clients, digests and faults:

| Theorem | Statement | Further hypothesis |
|---|---|---|
| `TypeCorrect` | `Spec => []TypeOK` | |
| `JobsExcludeEachOther` | `Spec => []MutualExclusion` | |
| `MirrorRecorded` | `Spec => []MirrorRecordTrue` | |
| `OffsiteRecorded` | `Spec => []OffsiteRecordTrue` | |
| `InvariantHolds` | `Spec => []IInv`, the inductive invariant behind them | |
| `PassingTreesAreGenuine` | `Spec => []VerifiedIsGenuine` | `TamperBusy = FALSE` |
| `VerifiedCopyStaysRecorded` | `Spec => VerifiedOffsiteKept` | `OffsiteMode # "rclone"` |
| `NewestCopySurvives` | `Spec => RetentionSparesNewest` | |
| `StatusLeavesChainAlone` | `StatusSpec => Spec` | |
| `ProtectedIsReconciled` | `StatusSpec => []ProtectedMeansReconciled` | |
| `FailedRepairShows` | `StatusSpec => FailedRepairNotProtected` | `EventLoss = FALSE` |

`MirrorRecordTrue` is not inductive: it says nothing while a job runs, and the write at the
end of the job has to make it true. `IInv` adds what the job knows at each step
(`JobsKnow`): after the mirror was checked or sealed, the digest in memory is that of the
mirror on disk or the point is suspect (`MirrorKnown`); the same of the offsite copy
(`OffsiteKnown`), with the digest taken before the copy is verified. `RecordsTrue` is the
property itself for points that no job is in the middle of, `JobHasPoint` and `MutualExclusion`
say that the job is the only one, so that a step of one thread disturbs neither
another job's knowledge nor another point's record, except retention, whose
victims become suspect. There is one lemma per action (`...Keeps`), built on four about
shapes of steps: one that advances a job (`AdvanceKeepsIInv`), one that returns
(`ReturnKeepsIInv`, `ErrorReturnKeepsIInv`), one that begins a job (`BeginKeepsIInv`).

On top of `IInv` stand invariants that one property each needs:

* `GenuineInv`, for `VerifiedIsGenuine`: a job's core artefacts are intact, and from the step
  on at which it has filled or checked a tree, that tree is genuine (`JobGenuine`); a tree that
  changes otherwise gets a digest that no record of the point mentions. Altering files
  under a running job breaks it, and the property with it (see
  [Disagreements](#disagreements-between-the-code-and-what-it-says)). Hence
  `TamperBusy = FALSE`, the setting of `chain_healing`.
* `KeptInv`, for `VerifiedOffsiteKept`: an id not yet used has no manifest (`Unborn`), no copy
  appears where no destination is set (`NoCopies`), and with a directory as destination a
  reconciliation gets as far as the manifest only with a verified copy (`JobKept`).
  Reconciliation does not know of rclone and replaces the record of a verified remote copy:
  there the property is false, and no run claims it.
* `RetentionSparesNewest` needs that there is a newest directory. The least-number principle
  (`Newest`, from well-foundedness of the order on Nat) gives the point that a sweep
  spares.
* `ReconInv`, for `ProtectedMeansReconciled`: an event of success, and a job at the
  final gate, stand for a reconciliation that completed. `BrokenInv`, for
  `FailedRepairNotProtected`: while a repair is under way its event is the start, and a
  point whose repair broke off has no event of success until a repair of it completes.
  Where events can be lost, an earlier success stays the latest event and the
  property is false: hence `EventLoss = FALSE`, the setting of `status_protected`.
* `StatusLeavesChainAlone` is what lets every theorem of the chain be used beside
  status requests.

`RestoreTransactionProofs` proves, for every set of targets and tools, any number of
restores and faults and an application that writes or not (`RestoreAssumption`):
`TypeCorrect`, `LiveDataNeverLost` (`NothingLost`), `FailedSingleRestoreUndone`
(`FailedSingleRestoreKeepsLiveData`: after an error, each live database holds what it held,
except SQLite after a torn rollback copy or a failed copy back, and PostgreSQL after
a commit that psql reported as an error), `SuccessIsTrue` and the action property
`SQLiteOnlyAfterPostgres`. `NothingLost` alone is
not inductive. The rollback overwrites the live file, so what the copies hold has to be
known from the step that makes them on (`CopiesKept`), that nothing is replaced
before (`LiveKept`), and how far the restore has come (`Progress`). That a replay of the
rollback dump changes nothing rests on `PgExists`.

`RegisterSyncProofs` proves, for any number of keys, emails, handlers and faults, every
batch size and both locking modes (`RegisterAssumption`; the emails are finitely
many): `TypeCorrect`, `SyncedMeansStored`, `KeysAnswerForTheirRows`,
`AcknowledgementsHold`, and **`RegistersAsPromised`: `Spec => RegistrationHolds`**, that it
implements Registration. The strengthening
is what a process knows between its steps (`ProcsKnow`): the row is saved before
PostgreSQL is tried, and an attempt that went well has left this node's row in
PostgreSQL, which holds because nothing ever removes one. For the refinement, a save maps
to `Hold` or to nothing, an insert to `Enter` or to nothing, a mark or its loss to `Tell`
unless it is the worker's (`SaveImplements`, `InsertImplements`, `MarkImplements`), and
every other step stutters, because an answer is about a request that does nothing any more
(`StutterImplements`).

`FailoverProofs` proves `TypeCorrect`, `RecoveredTruly` and `UnconfiguredStaysIdle` for any
set of requests; the three properties are inductive together.

`ApiGatewayProofs` proves, for any number of racing requests, any limit, window, expiry
and end of time (`GatewayAssumption`): `TypeCorrect`, `RevokedStaysDead`
(`RevokedKeyIsDead`), `CallsAreCounted` (`EveryCallIsCounted`: no call is let through that
the counter has not counted; the converse fails where a COMMIT's answer is lost), `SettingsKept`
(`SettingsAreKept`), and **`GatewayLimits`: `Spec => LimiterHolds`**, that the gateway
implements RateLimiter. The count of the current window is not enough for the refinement,
because the abstract limiter forbids overlapping windows: the invariant adds that the
windows ever opened lie `Window` apart and that the counter's is the last of them
(`WindowsApart`). `RestartKeeps` is where an old clock reading matters: a call whose reading is
older than the window is counted in it, since it cannot be over for such a call. That
updates of the policy lose no setting unless they overlap needs what they have read
(`ReadIsFresh`).

`ClientAccessProofs` proves, for any number of clients, requests, sessions and lost
statements (`AccessAssumption`): `TypeCorrect`, `ApprovalsAreWhole`
(`ApprovedHasLogin`), `ClosedStaysClosed` (`AccountStaysClosed`) and `SurvivorsAreLate`
(`OnlyLateSessionsSurvive`). Both are about the end of a suspension; what makes them
inductive is what holds on the way there: a suspension that has lost nothing has
suspended the user (`IntactSuspended`), an account that counts as closed is not
active (`ClosedIsSuspended`), and a login in flight for a user who is not active had read
the user before (`LoginsAreLate`).

`RbacProofs` proves, for any roles, users, permissions and requests
(`RbacAssumption`): `TypeCorrect`, `SystemRolesAreFixed` (`SystemRolesKeepPresets`) and
`DeletionIsWhole` (`DeletedRoleLeavesNothing`). The one addition is that a request that
will change a role has read one that is not a system role (`CustomRead`): what was read may
be gone when the request writes, but an id never changes sides.

`BillingProofs` proves, for any plans, modules, prices, requests, invoices and payments
(`SubscriptionsAssumption`, `BillingAssumption`): `TypesHold` (`BillingTypeOK`),
`ChoiceStands` (`PlanIsKept`), `AmountStaysOwed` (`AmountIsOwed`) and
`ApprovalsCoverInvoices` (`PaidIsCovered`). The inductive invariant has three parts:

* `Chooses`: the recalculation writes plan and status back as it has read them; one not
  marked late has read what there is.
* `Owes`: types, and what a recalculation not marked late holds in hand is the price of the
  plan, and the sum of the modules, as they are now (`IsFresh`); a row that is not outdated
  has the amount of its plan and modules.
* `Paid`: unless one of its payments was decided late, an invoice without an approved payment
  is as it was made, and one with the first of them is paid in full; a payment not yet
  logged names no invoice (`Blank`).

`AmountIsOwed` speaks of sums over sets of modules. That they are numbers, that adding or
dropping a module adds or drops its price, and that equal prices give equal sums
(`SumsExist`, `SumsAreNat`, `SumsAdd`, `SumsAgree`) is proved by induction on the subsets of
a finite set (`SubsetInduction`). The induction is over a set of subsets, not an
operator, and comes from the least-number principle, because the library's induction
theorems take an operator as a parameter, which the provers cannot instantiate. The sums need
`IsFiniteSet(Modules)`, and the payments of an invoice `IsFiniteSet(Transactions)`: tables
are finite.

In each of these modules every action has its lemma (`...Keeps`), and what an
action cannot disturb is handed to a lemma about the variables a conjunct depends on
(`...Stays`, or the shapes of steps in BillingProofs).

Only model-checked: the liveness properties `EventuallyHealed` and `EventuallyInCloud`
(fairness and ENABLED are out of the prover's reach), and the violation of the latter in
`register_starved`.

## Disagreements between the code and what it says

One is a run that TLC refutes, quoted with its lines in `PROJECT.json`, "findings":
`register_starved`. The worker's batch is always the 25 oldest pending rows; rows it can never
mark starve those behind them, although their users were told that the cloud
synchronisation is pending (`web_register_api.go:929`).

The others have no run; the models contain the behaviour where it changes the state, and the
properties of the passing runs are stated so as to exclude it.

Recovery, failover and registration:

* Reconciliation truncates and rewrites `manifest.json` in place in every cycle
  (`reconciliation.go:419`): a crash there leaves an intact point that nothing trusts
  or repairs again.
* Reconciliation looks only at `SCS_OFFSITE_ROOT` (`reconciliation.go:253`) and replaces
  the record of a verified rclone copy by "not-configured".
* The pre-restore dump is made without `--clean` and cannot be replayed onto a restored
  database, and the error is ignored: after a failed restore of both databases, PostgreSQL
  stays at the recovery point (`backup_service.go:551`).
* A second submission of a stored email is reported, and marked, pending for ever
  (`web_register_api.go:737`).
* The mirror is hashed at the start of a reconciliation and copied offsite later
  without being hashed again (`reconciliation.go:347`): the copy of a mirror altered
  in between is recorded as verified. `VerifiedIsGenuine` is therefore checked with
  `TamperBusy = FALSE`; with TRUE it fails.
* A status request that scans while the Guardian has `manifest.json` truncated
  skips the only point and answers UNKNOWN (`backup_api.go:251`).
* Without `psql` the PostgreSQL half of a restore is skipped and success is reported
  (`backup_service.go:501`); without `pg_dump` there is no rollback dump and PostgreSQL is
  replaced all the same (`backup_service.go:414`); the rollback copy of SQLite is read page
  by page from the live file (`backup_service.go:391`). The conditions
  `"psql" \in tools`, `"pg_dump" \in tools` and `~Torn` in RestoreTransaction's
  properties stand for these three.
* The worker's own cursor keeps its mark from committing (`web_register_api.go:953`), so a
  row it has sent stays pending; and a registration that arrives meanwhile cannot be saved
  locally and is refused (`web_register_api.go:221`).
* A rollback ignores the error of copying the live SQLite file back and returns the error it
  would have returned anyway (`backup_service.go:583`): the caller is not told that the
  live file may be the restored or a broken one. A psql that exits with an error is taken
  to have changed nothing (`backup_service.go:511`), also when its COMMIT took effect.
* `Evaluate`, or a second `Promote` that ends first, replaces PROMOTING while a
  promotion command still runs (`failover_controller.go:187`).

Access, roles and gateway:

* Disabling a login can never succeed: the CHECK of `auth_users.status` does not know
  'disabled' (`web_superadmin_api.go:850`).
* Failed logins are not counted and nobody is locked out: `registerFailedLogin` calls
  `datetime()`, which PostgreSQL does not have, and its error is discarded
  (`web_auth_api.go:124`).
* A login that has read the user before a suspension leaves a session that is alive again as
  soon as the client is restored (`web_auth_api.go:131`); `must_change_password`, set with a
  temporary password, is never read.
* A key that is rotated after it has expired keeps its `expires_at` in the past and expires
  again with the next call (`web_api_gateway_api.go:585`).
* A call whose counting COMMIT took effect but was not answered is refused and stays counted
  (`web_api_gateway_rate_limit.go:177`).
* An administrator may save a role as a system role, which no later request can change.

Subscriptions and payments:

* Seeding undoes what a superadmin set for seeded modules at the next request, and sets
  other plans inactive (`web_modules_api.go:169`).
* A recalculation takes back a plan or an approval that came in between
  (`web_business_subscription_api.go:762`); `PlanIsKept` and `AmountIsOwed` say that nothing
  but such overlaps is wrong. A tenant without a subscription makes it fail on the
  reference to plans.
* An agreed price of 0 is charged at the list price; a matrix row set inactive falls back to
  the price in plans, and to 0 if the plan is inactive there too
  (`web_business_subscription_api.go:690`).
* An invoice with an add-on cannot be made: its line is inserted while the query of the
  add-ons is still open on the same connection.
* Any payment pays its invoice in full, whatever its amount; a second approval
  sets `amount_paid` to 0; an invoice is cancelled in any state
  (`web_payment_transaction_api.go:158`).

## What is not modelled

* Validation, hashing of passwords, HTTP routing, formatting, logging; the content of dumps
  and files.
* `GetRecoveryEvents`, `GetSupervisorTelemetry` and the other read-only handlers; the audit
  log of RBAC and of logins; the gateway's metrics in memory.
* Of the superadmin's handlers: editing a client, unlocking, the password reset link, the
  client list. Of subscriptions: creating modules, resolving a business type and its
  aliases, and the older plans (store_start and others), which no tenant can be given and whose
  rows the seeding rewrites and sets inactive (`web_modules_api.go:145`). Of payments: taxes, reminders, settings of payment providers. The source
  'upgrade' of a module is treated as 'manual' is, since the sums tell only 'plan' apart.
* What nothing calls or imports at this commit: `MarkRecovered` of the failover
  controller, refunds, wallet and coupons, Guardian telemetry (its setters are never
  called, so its state never changes), the Guardian decision engine (pure functions over an
  observation nobody makes) and code source recovery.
* The Angular front end, scripts, vendored code, static assets; process management in
  `main.go` (start of PostgreSQL, licence gate).

## Plan

Done: RecoveryChain, RecoveryStatus, RestoreTransaction, RegisterSync and Failover, because the
recovery chain is what the rest of the system falls back on and registration is where
the two databases meet; then ClientAccess, Rbac, ApiGateway with the abstract RateLimiter,
Subscriptions and Billing, the handlers over PostgreSQL that are exposed to
interleavings; and the proofs above.

Left, in this order:

1. A recovery point that is protected or not, as an abstract specification that
   RecoveryChain implements; a session that is open or closed, likewise for ClientAccess.
2. The rest of the superadmin's handlers in ClientAccess (editing a client, unlocking, the
   password reset link); creation of modules in Subscriptions.
