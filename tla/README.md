# dxlib_module: models, model checks and proofs

TLA+ models of the state-keeping parts of `dxlib_module`, a Go library of server modules
(users and sessions, account lockout, push notifications, form numbers, audit logs, roles,
images) with a tool that resets their databases. The modules follow the Go code, not its
comments; where the two disagree the disagreement is recorded (section 7). Paths below are
relative to `src/module/` unless they begin with `lib/` or `tools/`; "…" stands for the prefix
that repeats the directory, as in `account_lockout/…redis.go`.

Run a model with `tlc -workers 2 -config X.cfg M.tla`, a proof with `tlapm M.tla`.
`PROJECT.json` lists the runs, ties every definition to the lines it models, and
names for every checked property a plausible bug that would break it.

## 1. Inventory

The library is linked into server processes. Each HTTP request runs in a goroutine
of its own, and several processes share Redis and a database. All coordination is
through single Redis commands, single SQL statements, the rare transaction, two
mutexes (circuit breaker, FCM service) and one Go channel.

| Component | State it keeps | Operations | What makes it correct | Model |
|---|---|---|---|---|
| Session cache and privilege version (`self/self.go`, `user_management/user_management_privilege_version.go`) | session objects and the counter `privilege_version:{user}` in Redis; copies of user, organization, membership and privilege rows | middleware with refresh, logins, login token, logout, change of language, increments of the counter | a stale copy never passes for a current one; a user who is not active is served no longer | `PrivilegeSession` |
| Login, prekeys, maintenance mode (`self/self.go`) | prekeys, sessions and the system mode in Redis | two prelogin handlers, five login handlers, the gate of the middleware, two set-mode handlers | nobody without the privilege logs in or works during maintenance; a correct login succeeds | `Login` |
| Account lockout (`account_lockout/…redis.go`, `…operations.go`, `…config.go`) | lock and failure counter per user in Redis | check, count, lock, reset, unlock | locks are earned, are honoured, and end; the fail mode decides what a Redis failure does | `AccountLockout` |
| Circuit breaker (`account_lockout/…circuit_breaker.go`) | state, failure count, time of last failure in process memory | `CanExecute`, `RecordSuccess`, `RecordFailure` | opens at the threshold, closes through half-open, recovers | `CircuitBreaker` |
| Lockout audit log (`account_lockout/…base.go`, `…db.go`) | channel, batch, table | `writeAuditLog`, `asyncDBWriter`, `flushBatch` | each event written once or lost in a crash, in queue order, none stuck | `AuditQueue`, `AuditTrail` |
| Passwords (`user_management/…user.go`, `self/self.go`) | password rows, `must_change_password` | verify with rehash, change, reset | the last committed password counts; no lost change | `PasswordStore` |
| Push notifications (`push_notification/push_notification.go`) | messages and device tokens in the database | register, re-register and unregister a token, send to user, device, topic, `Execute` | every message settles, settled is final, sends are bounded, rejected tokens go | `FcmOutbox` |
| Form numbers (`form_number_management/`) | a counter row per form | `Generate` | unique, gaps only where a call failed, reset with the month | `FormNumber` |
| Roles (`user_management/…role.go`) | parent of each role | `RoleCreate`, `RoleEditByUid` | the roles form a tree; names are not doubled | `RoleTree`; names in `Directory` |
| Error log hook (`audit_log/audit_log.go`) | the global `log.OnError`, `error_log` rows | `DoError` | errors reach the log; logging an error does not recurse | `AuditErrorHook` |
| Users (`user_management/…user.go`) | user rows, memberships | create (two versions), import, edit, suspend, activate, delete, undelete | status and deletion agree; a loginid has one owner; an import is whole | `UserAccounts`, `Directory`; what sessions notice in `PrivilegeSession` |
| Organizations (`user_management/…organization.go`) | organization rows, their parents | create, import, edit, delete | names are not doubled; sessions notice changes of status | `Directory`, `PrivilegeSession` |
| Memberships, role privileges (`…user_role_membership.go`, `…role_privilege.go`) | rows | create, soft and hard delete | sessions notice; one row per role; living users keep theirs | `UserAccounts`; revisions in `PrivilegeSession` |
| Image storage and avatars (`lib/image_object_storage.go`, `self/self.go` 2359-2414) | objects of one image in several sizes, the flag `is_avatar_exist` | `Update`, `SelfAvatarUpdate` | sizes show one image; the flag tells of a complete avatar | `ImageStorage` |
| Reset tool (`tools/reset-databases/`) | databases and their tables, flags, `log.OnError` | `Run`, `RunNoVault`, `executeReset`, `executeSeed` | nothing is dropped without consent; a failed run can be repeated; errors reach the log again | `ResetDatabases` |
| Menu tree (`self.go` 331-490) | none | `fetchMenuTree` | a user sees the items of his privileges, and their ancestors | not modelled |
| Rest of `self.go`, `general`, `webapp`, `oam`, `external_system`, table descriptions | single rows | single statements | no behaviour of several steps | not modelled |

**Interactions.** Logins and the middleware ask `GetOrInitUserPrivilegeVersion`;
administrative handlers change the rows a session copies; the application is
expected to call an `Increment…` function afterwards (nothing in the library
does). The application calls the lockout check before it compares a password and
reports the outcome after it; the check goes through the circuit breaker; every
outcome is logged through the lockout audit log. `DoError` is called back by the
logger for every error of every component. User messages queue push
notifications. The prelogin handlers store the prekeys logins consume. Deleting a
user calls back into the application, which may remove the user's memberships. The
reset tool and every `DoError` save, clear and restore the same global function.

**Hard behaviours.** Read-compute-write chains over Redis without transactions (session
refresh, change of language, lockout check), values read under one lock and used under another
(breaker), a rehash outside the transaction that guards the row, snapshots the dispatcher
works through while rows change, crashes between two commands, replies lost after the effect,
TTLs that fire between any two steps, checks at READ COMMITTED whose rows change before the
write (loginids, memberships, deletions), files and images that are stored piece by piece and
stop half-way, and liveness: locks must end, the breaker must recover, messages must settle, a
reset must succeed in the end. They are listed with their lines under `hazards` in
`PROJECT.json`.

## 2. Modules and how they fit together

```
CircuitBreaker <--INSTANCE-- AccountLockout <-- MCAccountLockout,   AccountLockoutProofs
AuditTrail     <--INSTANCE-- AuditQueue     <-- MCAuditQueue,       AccountLockoutProofs
AuditErrorHook <--INSTANCE-- ResetDatabases <-- MCResetDatabases,   ResetDatabasesProofs
PrivilegeSession                            <-- MCPrivilegeSession, PrivilegeSessionProofs
Login                                       <-- MCLogin,            LoginProofs
PasswordStore                               <-- MCPasswordStore,    LoginProofs
UserAccounts                                <-- MCUserAccounts,     UserManagementProofs
RoleTree                                    <-- MCRoleTree,         UserManagementProofs
Directory                                   <-- MCDirectory,        UserManagementProofs
FcmOutbox                                   <-- MCFcmOutbox,        FcmOutboxProofs
FormNumber                                  <-- MCFormNumber,       FormNumberProofs
ImageStorage                                <-- MCImageStorage,     ImageStorageProofs
```

`AccountLockout` composes two components: every call of a breaker method in
`CheckLockStatusRedis` is the action of `CircuitBreaker`, so that the breaker is one that its
callers use as they do. `ResetDatabases` composes the reset tool with `AuditErrorHook`: while
the tool runs, the steps of another goroutine's `DoError` are that module's `Next` on the
shared `log.OnError`. `AuditTrail` is an abstract specification: what the audit log promises
of an event; `AuditQueue` implements it (`TrailSpec`, checked and proved).

Three proof modules extend several components that do not interact in the models, one
for each directory of the source they come from. So that they can, `AuditQueue`,
`PasswordStore`, `RoleTree` and `Directory` call their specifications `AuditSpec`,
`StoreSpec`, `TreeSpec` and `DirectorySpec`, and `Init`, `Next`, `TypeOK`, `vars` likewise.

Conventions. One step is one Redis command, one SQL statement, one transaction
commit or one critical section: whatever lies between two of them can interleave.
Faulty variants ("Faulty variant: …") are bugs someone could write; no
specification uses them, they show that a property can fail. History variables are
marked so in their declarations and no guard reads them.

### PrivilegeSession
One user, its sessions, and any number of requests. `db` is what the database says in the five
groups of rows a session copies; statuses are kept as they are; memberships in organizations,
role memberships and role privileges are revision numbers. A request walks through the
middleware: `SessionKeyToSessionObject` (GetEx), `ReadVersion` / `InitVersion` /
`RereadVersion` (GET, SETNX, GET), `ReadUser`, `ReadOrg`, `ReadMemberships`,
`ReadRolePrivileges`, `SaveRefreshed`, or `Expel`; then `Admit` lets it into an endpoint. A
login walks through the same reads in another order: rows first, version last, which is the
difference `SessionIsCurrent` is about (section 7). A login reads the memberships in
organizations too (`ReadOrgMemberships`, after the user); a refresh carries them over from the
object it found (`Built`; `self.go:2009`, 2028) under the current version. The user and the
organization of a login may be in any status; the middleware alone looks at them. The
increment a change calls for is made (`IncrementUserPrivilegeVersion`) or lost
(`IncrementIsLost`: a failing INCR is logged and dropped, and the loops over a role or an
organization skip what they cannot read); `lost` counts those lost since the last one that was
made. A failing SELECT, a cancelled context and a dying process are `RegenerateFails`, `Expel`
and `Abort`. `barred` is a history: the requests that began when the user was inactive and the
session they found could not pass for current, or had been built by the middleware with no
increment owed or lost; it is emptied when the user is activated. The endpoint is chosen when
it first matters. Refusals that write a response and return nil are taken to stop the
framework from running the handler. In the hook branches of `SelfLoginCaptcha` and
`SelfLoginCaptchaV2` no membership is read, and the session carries no organization; that
session is a session without `ReadOrg` and is not modelled.

### Login
The five handlers are five records of the features in which they differ (do they
use a prekey, a captcha; does their hook branch read memberships; does the user row
survive its block; do they pack the answer), so that one chain of actions stands for
all of them: `Begin`, `Authenticate`, `Regenerate`, `CheckMode`, `Save`, `Pack`. A
visit is a request with a session: `Present`, `CheckMaintenanceMode`, and either
`Serve` or one of the two set-mode handlers. The history field `open` notes whether
a request overlapped a moment out of maintenance or a failed read of the mode
(`SystemModeIsMaintenance` takes an error for "normal"). Whether the application
sets `OnAuthenticateUser` is chosen in `Init`.

### AccountLockout and CircuitBreaker
One user's lock and counter, the logins of one process. `Exists`, `Ttl`, `Cleanup` are the
three commands of the check, `SetLockField` and `ExpireLock` the HSETs and the EXPIRE of the
lock. A lock is `absent`, `timed`, or `bare` (without a TTL: its process died, or EXPIRE
failed). A lock in its last second counts as expired, for the TTL is asked in whole seconds.
While `redisFails` holds, any command may return an error, before or after it took effect.
`CanExecute` is two steps, because it gives back the read lock before it takes the write lock.
A refusal by the open breaker is two steps, `BreakerOpen` and the answer of the fail mode,
`ApplyFailMode`: the login is one that checks in between, so that the properties of refusals
speak of it too. The configuration (fail mode, breaker on or off) is chosen in `Init`. A
disabled breaker is told of every outcome all the same, as in the code; `RecoversWithRedis` is
about one in use. `failures` is a history: the failures counted since the counter was last
deleted, by a login, an unlock or its TTL (`ForgetFailures`). The counter is counted up to its
threshold only: nothing asks how far it is above.

### PasswordStore
`rows` are the password rows of one user; the last counts. A login verifies outside
any transaction and may `Rehash`; a change locks the user's row, verifies, commits;
a reset locks and commits. Transactions are READ COMMITTED. Hash functions are
reduced to the method's name; a stored hash is taken as faithful to its password
(the error of `hashBlock` is dropped at `…user.go:1314`; which passwords bcrypt
refuses is decided outside this repository).

### FcmOutbox
`rows` are messages in insertion order; ages and waits replace instants. `Execute`
alternates between topic messages and user messages; for each it selects a snapshot
(`Fetch`, `Batches`), settles exhausted and expired rows, waits for the limiter,
sends, and records the answer (`RecordAnswer`), after which a rejected token is
deleted. FCM may accept a message and the answer may be lost. Faults are counted in
`faults`: a crash, or a database error at any statement.

### AuditQueue, AuditTrail, AuditErrorHook, FormNumber, RoleTree
`AuditQueue`: the channel of `2 * batchSize` events, the writer goroutine that receives,
flushes one INSERT at a time and takes nothing from the channel meanwhile, the synchronous
fallback, crashes. `batchSize` is one of `BatchSizes`, chosen in `Init`, for `config.go:48`
validates none: with 0 the channel has no buffer, and an event is taken only while the writer
waits for one (`HandOver`); every batch is then one event. A negative size, or an interval of
the ticker that is not positive, panics when the module starts and is not modelled.
`AuditTrail` has a table of its own, `rows`, to which a write appends one row: a second INSERT
of an event is no step of it. `AuditErrorHook`: each access to `log.OnError` is a step,
DoErrors nest. `FormNumber`: `ReadClock` and `Upsert` are the two halves of `Generate`, `Fail`
an error before the statement and `FailAfterUpsert` one behind it, which has been committed:
the number is taken and nobody is given it (`lost`); calendars of two timezones; the `CASE` of
the four SQL statements, with MariaDB's left-to-right assignment as the difference (whether
SQL Server and Oracle accept the text of their statements is not modelled, nor that a printed
year is taken modulo 100). `RoleTree`: the check of a move and its write are two steps;
`absolute_path`, a column the database computes, is the least set that holds the role and the
parents of its members.

### UserAccounts
`status` and `is_deleted` of each user, the rows of one role in the membership table, and
requests that first read and then write. A request's UPDATE and its commit are one step: the
UPDATE holds the row's lock until the commit, and nobody reads the row before. `ReadUser` is
the look at the row, `SetStatus`, `Undelete` and `Delete` the UPDATE with its WHERE on
`is_deleted`. When the UPDATE of `DoUserDelete` matches nothing, the callback still runs:
`DeleteNothing`, then `CleanUp`, a step apart, for it holds no lock on the user.
`OnUserAfterDelete` is the application's and may be nil: it clears the user's rows, as the
comment at its call says ("cascade cleanup … user_role_membership"), or leaves them. Nothing
is claimed of the rows of a deleted user, then; what is claimed is which rows a living user
keeps. `TxSelectOne` is taken to return rows whose `is_deleted` is true (`UserUndelete` could
not work otherwise); a membership that is soft-deleted counts as gone, as one that is
hard-deleted. A grant that commits between the callback and the commit of a deletion is
ordered behind the deletion, with the same rows left.

### Directory
One table, of users, organizations or roles (chosen in `Init`), with or without a unique
index on the name: the source does not show the database's definition, and both are
possible. A creation is a look for the name (`ReadLoginId` of a user's loginid,
`CheckValidationUnique` of a role's name) and an insert (`Create`), with a user one commit
with its memberships and password. Organizations are created by dxlib, whose source is not
here: `user_management_base.go:153` declares their code and name validation-unique, and
whether dxlib looks for them before it inserts is left open (`looks`, any subset of
"create" and "import"); without a look the insert is `CreateOrganization`, and the name
counts as `clashed`. An edit of a user or of an organization by `OrganizationEdit` looks for no
other row; the edits of dxlib may, and the model lets through what such a look, which can be
overtaken, might have refused: it has every behaviour of the code, and a unique index alone
forbids a name. The importer goes through its file a row at a time, each row
committed by itself, and may start again. `Edited` is `DoUserEdit` on the columns that
make the loginid; the identity number is looked for in the same way and left out.
`overtaken` and `clashed` are histories: whose look was outdated, and which names such an
insert, one without a look, or an edit wrote.

### ImageStorage
The objects of one user's avatar, by variant, and uploads at the same time. The
variants have different keys (stores or prefixes differ; sizes configured with one
store and one prefix would overwrite each other). `Fail` is every error in the middle,
before or after the object store took the image, and the death of the process.

### ResetDatabases
What is configured (`config`), what a run finds in its environment, and the loops of
`executeReset` one database at a time, for Oracle and for the other engines. Databases
have names, and two may share one. `healthy` says that the server, the disk and the
process fail no more. Contents are `none`, `old`, `some` (a script broke off) and
`created`; whether scripts succeed on tables that are there is the project's affair and
is left open. The administration database is taken to be configured.

## 3. Runs

All twelve pass.

| Run | Question | Bounds | Distinct states |
|---|---|---|---|
| `session` | Is a refreshed copy right or found stale, whatever interleaves? Does every increment reach every session? Is a user who is not active ever served? | 1 key, 2 requests, 2 changes, all endpoints, all kinds bumped but the memberships in organizations | 8.9 M |
| `lockout` | Locks earned, honoured per fail mode, ended; breaker sound and recovering | 2 logins, 2 failures to lock, 2 lock fields, threshold 2, all four configurations, Redis failing and recovering, crashes | 680 k |
| `passwords` | No lost change, only a late rehash puts a password back | 3 requests, 2 passwords, 2 configured methods plus the stored one, 3 rows | 387 k |
| `fcm` | Final settlement, one acceptance, bounded sends, dropped tokens, liveness | 1 dispatcher, 1 user, 1 token, 2 messages, 2 attempts, expiry 2 ticks, batch 2, 1 fault | 1.5 M |
| `audit` | Refinement of `AuditTrail`, order, nothing stuck | 5 events, batch 2 (channel 4) or 0 (no buffer), failing inserts, crashes | 137 k |
| `login` | Is the maintenance gate closed for logins and visits? | 2 logins through any of 5 handlers, 2 visits, 1 prekey, 3 users, hook set or not | 2.0 M |
| `form_numbers` | Unique while no statement overtakes the month; reset; gaps only by failures | 2 calls, 2 calendars, both types, a year of 2 months, 2 years, 5 numbers | 2.5 M |
| `role_tree` | Circle only after a raced move | 2 editors, 2 creators, 5 roles | 363 k |
| `users` | Do status and deletion agree? Which roles can a living user count on? | 2 users, 2 membership rows, 3 requests, any callback | 534 k |
| `directory` | How do names come to clash? Does a synced loginid follow? Does the 200 of an import mean the whole file? | 2 names, 1 creator, 1 importer, 3 rows, a file of 2, three tables, with and without an index and a look | 189 k |
| `images` | Do the sizes show one image, and is a flagged avatar complete? | 3 images, 3 sizes, 3 uploads | 36 k |
| `reset` | Is anything lost without consent? Can a failed run be repeated? Is `log.OnError` right during and after it? | 2 databases, every configuration and environment, 1 other goroutine, errors nested twice | 322 k |

**Why these bounds are enough to be interesting.** Two requests on one key already
give a refresher and a saboteur (logout, language, login token, another refresh),
and two changes give a change before and one after a read. Two locks' fields leave
a lock half set. Two attempts and a threshold of two make the counter and the
breaker cross their limits while the other caller is in flight. Five events with a
channel of four fill the channel, force the synchronous path, and cross two
batches. Two attempts, an expiry of two ticks and a fault reach every status. A year
of two months distinguishes month from year. Five roles allow a chain of three
below the root with two moves in flight. Three requests on a user are two deletions and
an undelete between them, which is what a late cleanup needs. Three rows hold a file
of two and a creation in between. Three uploads are two that overlap and one that
repairs. Two databases may share a name or not, which is all the tool asks of them.

**Deadlock.** `CHECK_DEADLOCK FALSE` is set where the model itself stops: keys and
changes are used up (`session`), the numbers are (`form_numbers`), all events are
logged (`audit`), logins are sent once (`login`), the table is full (`directory`). The
others never stop.

## 4. What is assumed

*Fairness.* Safety is checked without any. `AuditQueue`: the writer goroutine runs
and its ticker fires, a request in the synchronous path goes on (goroutines are
scheduled). `FcmOutbox`: an outside loop calls `Execute` (the library leaves that to
the application), and time passes. `AccountLockout`: a login that entered goes on,
Redis expires keys, time passes, and users keep logging in; the last is an
assumption about clients, without which neither a bare lock is found nor a breaker
probed, for both happen only in `CheckLockStatusRedis`. Liveness properties are
conditional where the world has to calm down: `<>[]~redisFails`, and no more crashes
for `LocksEnd`; `MaxFaults` bounds the faults of `FcmOutbox`. `ResetDatabases`: the tool
goes on while it runs, an operator who is asked enters the keys, the faults end
(`Recover`), and the operator runs it again in development with the deletion and
without questions as often as it takes; `RerunsRecover` asks no more than that, and only
of a configuration that can work (`ConsistentConfig`).

*Environment.* Each Redis command and each SQL statement is atomic. `session` takes every
administrative change of the kinds in `Bumped` to be followed by an increment, made or lost,
which the application owes: section 7 shows what happens to organizations without it. A
request carries `lost` as the exception of what is claimed of it. Single-dispatcher properties
of `FcmOutbox` hold for one process calling `Execute`.

## 5. What is proved

Every safety invariant, every action property and the refinement that the runs check are
theorems, for all values of the constants that satisfy the named assumptions in the
modules. Those say that `None` (`Nothing`, `NoRole`) is no element of the sets it is told
from and that bounds are naturals. One is plain arithmetic that the provers lack:
`PowersAssumption` of `FcmOutbox` says that powers of two are positive naturals.

*`PrivilegeSessionProofs`*: `RefreshIsSound` (if every kind of change is bumped,
`RefreshedIsCurrent`); `NoBlindSpot` (if, besides, the version key can be read and created,
`IncrementMakesSessionsStale`); `NoInactiveUserIsServed`. `RefreshedIsCurrent` speaks of
finished copies only, and of the parts the refresh reads (`RefreshedKinds`). `IInv` adds what
is true of an unfinished one: the version it compared with, `cur`, is at most the counter, and
either the counter has moved or an increment is owed or was lost (`Noticed`), or the parts
read so far (`PartsRead`) are what the database says. `BarredInv` follows a barred request
through the middleware: the session it finds differs from the counter, so that the request
reads the user's row, finds it inactive and is expelled.

*`AccountLockoutProofs`*, `AccountLockout`, by `LockoutInv`: a login that waits for the
breaker or for EXISTS is one that checks (`CallsAreChecks`); the counter is at most the
failures since it was last deleted (`FailuresAreCounted`); and what a login has learnt of the
lock was true at some moment of its check (`AnswersWereTrue`). From it `LocksNeedFailures`,
`NoLoginPassesALock` and `OnlyALockRefuses` follow for any number of logins.
`OpenBreakerProbesFirst`.

*`AccountLockoutProofs`*, `AuditQueue`: `OnceEach`, and `ImplementsTrail`, the refinement.
`AuditInv` adds that a batch that is flushed is not empty and another one not full.
`TableIsInOrder` (`WrittenInQueueOrder`), by `OrderInv`: the table, the batch and the channel
are each in the order of the queue and follow one another in it, and an event that a
request writes itself was never queued.

*`LoginProofs`*, `Login`: `LoginsAreGated`, `VisitsAreGated`, by `GateInv`: a request past
its check is a maintainer's, or overlapped a moment out of maintenance.

*`LoginProofs`*, `PasswordStore`: `LatestCounts`, `NoChangeIsLost`, by `PasswordInv`: whoever
is between lock and commit holds the lock, and what it verified is still the latest.
Only a rehash breaks `LatestPasswordCounts` (section 7): `OneMethodKeepsTheLatest` proves it where the processes
hash with the method of the stored row (`OnlyStoredMethod`).

*`UserManagementProofs`*, `UserAccounts`: `StatusAndDeletionAgree`,
`DoubleNeedsOverlap`, `LivingUsersKeepTheirRoles`, by `UsersInv`: a deletion whose user is
gone, and every cleanup, knows that another deletion was faster (`OutrunIsNoted`); a
user about to be granted the role has no row for it unless grants overlapped
(`GrantsAreFirst`).

*`UserManagementProofs`*, `RoleTree`: `CircleNeedsRace`, by `TreeInv`: the path an editor
holds that no move has outdated holds every ancestor of its parent, so that the move adds
no circle. `OneEditorMakesNoCircle`: with one edit at a time `NoCircularReference` itself.

*`UserManagementProofs`*, `Directory`: `ClashNeedsRaceOrEdit`, `LoginIdFollows`, `ImportsAreWhole`,
by `DirectoryInv`: a creation nobody has overtaken still finds its name free
(`LooksHold`), a unique index holds over every insert and edit (`IndexHolds`), and until a
row is renamed the lines of the file an import has passed are in the table
(`LinesAreThere`).

*`FcmOutboxProofs`*: for any number of dispatchers `RejectedAreDropped` and
`SentMeansAccepted` (a second dispatcher may send again what is SENT, or set it to FAILED, but
not to SENT what FCM has not accepted: `SentIsHeard`), and for one of them (`OneDispatcher`)
`AcceptedOncePerLoss`, `AttemptsAreBounded`, `SettledStaysSettled`. The hypothesis is what the
code needs: `processMessages` locks no row, so two dispatchers send a message twice.
`OutboxInv` types the rows and has every item of a dispatcher's snapshot name a row.
`MessagesInv` says what a single one knows: the row it works on is as its snapshot says unless
it has been written since (`WorkIsCurrent`), and the sends of a message are its attempts, the
one that is not recorded yet and the losses (`SendsAreCounted`).

*`ResetDatabasesProofs`*: `DeletionNeedsConsent`, by `ConsentIsAsked`: behind the
confirmation `answered` or a flag that development alone sets holds, and the steps that
delete are reached with the deletion flag only. `HookIsGivenBack`, by `HookIsHeldByOne`: as
long as one at a time has held `log.OnError`, its value is told by who holds it and how
far it is. The steps of other goroutines are those of `AuditErrorHook`, however deep
their DoErrors nest. `SeedsAreComplete`, by
`ScriptsGoInOrder`: a loop of scripts that has come to a database has filled all before it,
and whatever takes tables away withdraws the seed.

*`FormNumberProofs`*: `NumbersInOrderAreUnique`, by `NumberInv`: every number issued lies behind
the row (`Behind`), as long as months come in order, and by `OrderInv` they do when calls follow one
another in one timezone (`SerialNumbersAreUnique`); `ContinuousNumbersAreUnique`;
`MonthsCountFromOne` and `OnlyFailuresSkipNumbers`, for every dialect but MariaDB, by `CountInv`:
the row shows the number issued last, whether it was given or lost.

*`ImageStorageProofs`*: `SizesShowOneImage`, `AvatarsAreComplete`, by `ImageInv`: an upload
leaves an image at every key it has passed (`PassedKeysAreFilled`), two that store at a
time know of it (`OverlapIsNoted`), and what an undisturbed one has stored is still its
own (`UndisturbedIsWhole`).

Each component has its type invariant as a theorem too (`TypeCorrect`, with the
component's prefix where modules are shared). In each proof an action has a lemma that says
it keeps the invariant, one step lemma combines them, and the temporal steps come last.

## 6. What is only model-checked, and what is not modelled

Only checked: the liveness properties (`LocksEnd`, `RecoversWithRedis`,
`EveryMessageSettles`, `NothingStaysQueued`, `RerunsRecover`). Liveness under fairness and
ENABLED are out of the prover's reach, as are induction over data and RECURSIVE operators
(no module declares one).

Not modelled: cryptography, packing and formatting; the other users of the loops that
increment the version for a role or an organization (for one user such a loop is an
increment that is made at any time, or lost); sessions without an
organization; OAuth credentials; attempts keys and statistics of the lockout (no decision reads
them); identity numbers (their check is the one of
loginids); `fetchMenuTree`, a pure function over one SELECT; rate limits, which a library
keeps; profiles, user messages, announcements, templates and the other modules that are
single statements on single rows; table descriptions.

## 7. Disagreements between code and comments

These are stated as properties of the modules and none of them holds; set the constants
as given and check the named definition to see the behaviour. For three of them section 5
has the condition under which they hold: `LatestPasswordCounts`, `NoCircularReference` and
`UniqueNumbers`; and `session` and `form_numbers` check what is left of
`LostIncrementIsNoticed`, `RefreshCoversEveryPart` and `NoGaps`.

| Definition | How to see it | What the code does | What is written |
|---|---|---|---|
| `SessionIsCurrent` | `PrivilegeSession`, `session.cfg` | `self.go:1226` reads the version of a login after its rows: a change in between gives old rows the new version | `self.go:1978` "refresh session if stale" |
| `RefreshCoversEveryPart` | `PrivilegeSession`, `session.cfg` with `"orgMemberships"` in `Bumped` | `self.go:2009`, 2028: the refresh keeps the memberships in organizations of the old object, under the current version | `self.go:1978` |
| `LostIncrementIsNoticed` | `PrivilegeSession`, `session.cfg` | `…privilege_version.go:43`: an INCR that fails is dropped, and a change it was for goes unnoticed (53-62: so do users a loop skips) | `self.go:1978`; `…privilege_version.go:39` calls it "best-effort" |
| `LogoutIsFinal` | `PrivilegeSession`, `session.cfg` | a refresh (`self.go:2035`) or a change of language writes back the session it had read before a logout deleted it | nothing; what a logout is for |
| `LatestPasswordCounts` | `PasswordStore`, `passwords.cfg` | `…user.go:1431` rehashes a password verified before a reset, over the new one | `…user.go:1614` "prevent concurrent modifications" |
| `RestoredWhenIdle` | `AuditErrorHook`, `Goroutines = {g1, g2}`, `MaxDepth = 2`, `CHECK_DEADLOCK FALSE` | `audit_log.go:97` restores a nil saved from another request: error logging stays off | `audit_log.go:96` |
| `UserIdIsFound` | `Login`, `login.cfg` | `self.go:819` and 623, 1022, 1593: `:=` in an inner block hides `user`; without the hook a correct login answers 500 | `self.go:883` "SHOULD_NOT_HAPPEN" |
| `LoginTokenKeepsTheOrganization` | `PrivilegeSession`, `session.cfg` | `self.go:1750` saves the organization read before the refresh | `…privilege_version.go:68` |
| `OrganizationChangeForcesRefresh` | `PrivilegeSession`, `Bumped` without `"org"` | `…organization.go:494`: no handler increments the version | `…privilege_version.go:68` |
| `IncrementMakesSessionsStale` | `PrivilegeSession`, `VersionFaults = TRUE` | `…privilege_version.go:32`: the default 1 meets the 1 of the first increment | `…privilege_version.go:18` "prevents the 0==0 blind spot" |
| `ResetsSpareTheAccount` | `AccountLockout`, `lockout.cfg` | `…operations.go:80`: the lock that the last failure calls for is written although the counter has been reset, or the account unlocked, since it was counted | `…operations.go:91` "resets counters", 122 "manually unlocks an account" |
| `CleanupRemovesExpiredLocks` | `AccountLockout`, `lockout.cfg` | `…redis.go:88` deletes a lock set after the TTL was asked | `…redis.go:87` "Expired, clean up" |
| `HalfOpenAllowsOneRequest` | `CircuitBreaker`, 2 callers | `…circuit_breaker.go:57` lets every caller probe | `…circuit_breaker.go:56` "allow one request" |
| `HalfOpenAfterTimeout` | `CircuitBreaker`, 2 callers | `…circuit_breaker.go:48` sets the state without checking again | `…circuit_breaker.go:42` |
| `UniqueNumbers` | `FormNumber`, `form_numbers.cfg` | a statement delayed over the end of a month (or a caller in another timezone) takes the row back to the old month, and numbers repeat | `form_number_management.go:35` |
| `NoGaps` | `FormNumber`, `form_numbers.cfg` | `form_number_management.go:84-130`: an error behind the statement leaves its number taken | nothing: no comment promises it |
| `MonthlyReset` | `FormNumber`, `Dialect = "MariaDB"` | `…mariadb.go:9` assigns `last_year`, `last_month` before the `CASE` compares them: no reset | `form_number_management.go:35` |
| `AttemptsBounded` | `FcmOutbox`, `fcm.cfg` | `push_notification.go:1046` counts an attempt after the send; a lost update is not counted | `push_notification.go:51` |
| `NotSentExpired` | `FcmOutbox`, `fcm.cfg` | `push_notification.go:900` waits for the limiter after the expiry check | `push_notification.go:52` |
| `NoRecursion` | `AuditErrorHook`, the same | `audit_log.go:64`: another goroutine restores the hook during the insert | `audit_log.go:62` |
| `NoCircularReference` | `RoleTree`, `role_tree.cfg` | `…role.go:217`: two moves check before either writes | `…role.go:207` |

A Redis error on reading the mode is taken for "normal" (`self.go:2696`); the
properties of `Login` exempt requests that met one (`open`).

Others are visible in what the modules do, or were met while reading:

* A deletion whose UPDATE matches nothing answers 200 and runs `OnUserAfterDelete`
  (`…user.go:1056`); after an undelete that removes the roles of a living user (`CleanUp`, the
  exception in `LivingUsersKeepRoles`). A late suspension answers 200 and changes nothing
  (`SetStatus`).
* `DoUserEdit` writes every column it is given, `status` and `is_deleted` among them
  (`EditStatus`), and looks for no other user with the new loginid (`Edit`).
* `UserRoleMembershipCreate` looks at the user's rows but not at the user: a deleted user can
  be granted a role (`CheckMembership`), and one whose application sets no `OnUserAfterDelete` keeps
  those it had (`OnUserAfterDelete`). Its duplicate check is overtaken by another grant
  (`doubled`) unless an index prevents it.
* An import commits each row and stops at the first error; a second try of the file stops at
  the first row that is there (users), so that it does not complete unless those rows are
  taken out of the file or renamed in the table; without a look of dxlib and without an
  index it doubles the rows of organizations (`ImportStops`, `StartImport`).
* `UserCreate` drops the errors of both its callbacks (`…user.go:594`, 604): it assigns them
  and returns nil; `UserCreateV2` returns them.
* `OrganizationEdit` and its twin accept any `parent_id`, so an organization may be moved
  under its own descendant (`…organization.go:538`).
* `SelfAvatarUpdate` drops the error of the update of the flag (`SetFlag`).
* The tool's documents name the variables `IS_LOCAL` and
  `IS_{PREFIX}_RESET_DELETE_AND_CREATE_DB`, and say that in development deletion and bypass
  are on by default (`tools/reset-databases/README.md:74-76`, `QUICK_START.md:90-92`);
  `reset.go:98-113` reads `{PREFIX}_IS_DEV` and `{PREFIX}_RESET_DELETE_AND_CREATE_DB`, and
  every default is false. `ResetDatabases` follows the code: whoever sets the documented names
  deletes nothing.
* The tool's README says (`tools/reset-databases/README.md:89`) "Attempts to override trigger
  critical safety violation errors"; `defineConfiguration` sets both flags to false outside
  development, so the check in `executeReset` (`reset.go:263`) never fires (`Confirm`). On
  Oracle, databases that share a user but not its password are found out after earlier users
  have been dropped (`reset.go:325`, `SharedUser`).

## 8. Plan

Done, in this order: `PrivilegeSession`, `CircuitBreaker` and `AccountLockout`,
`PasswordStore`, `FcmOutbox`, `AuditTrail` and `AuditQueue` with the refinement, `Login`,
`FormNumber`, `RoleTree`, `AuditErrorHook`, `UserAccounts`, `Directory`, `ImageStorage`,
`ResetDatabases`; the safety of all of them proved.

Left, most important first:

1. Abstract specifications worth stating: an atomic session cache that `PrivilegeSession`
implements for middleware-built objects, and an atomic lock for `AccountLockout`.
2. `FcmOutbox` with two dispatchers: a bound on how often FCM accepts a message.
