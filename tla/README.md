# FlagBoard: specifications, model checking and proofs

This directory holds TLA+ models of FlagBoard, the TLC configurations that check
them on small instances, and theorems about them checked by TLAPS. Paths such as
`services/flag_service.py` are relative to `src/app/` of the repository.

## 1. The system

FlagBoard is one FastAPI process in front of a PostgreSQL database. Synchronous
handlers run on a pool of worker threads, each with a SQLAlchemy session of its own
(opened per request, closed whatever happens: `database.py`). Three things are shared
between threads: the database, the in-process cache (`cache.py`, no lock), and the
registry of WebSocket connections (`realtime.py`, touched only on the event loop).

| Component | State it keeps | Operations | What is hard about it |
| --- | --- | --- | --- |
| Flag configuration service: `services/flag_service.py`, `services/audit_service.py`, their repositories, `routers/flags_router.py` | one row of `flag_environment_config` per flag and environment, the audit log | `PATCH .../toggle`, `.../rollout`, `.../rule`, the audit listing | handlers read a row, and update it later from memory, with no lock in between; the UPDATE sets the changed columns only; a handler may fail before or after its commit |
| Evaluation engine: `engine/`, `services/evaluation_service.py` | none | `evaluate`, `_to_flag_config` | order of the reasons, boundaries of the rollout, torn rules |
| Evaluation path and cache: `cache.py`, `auth/dependencies.py`, `services/evaluation_service.py` | API keys, flags and configurations cached for a TTL | `POST /evaluate/{flag_key}`, invalidation by writers | threads race on a dictionary; loads race with invalidations; invalidations are skipped when a handler fails; entries expire |
| Accounts and tenancy: `services/org_service.py`, `services/auth_service.py`, `services/api_key_service.py`, `create_flag`, `models.py` | users, organizations, memberships, projects, flags, API keys | signup, create organization, invite, create project, create flag, create and revoke API key | check-then-insert races settled by unique constraints; rows of several tables that belong together; who may do what |
| Realtime connections: `realtime.py`, `routers/ws_router.py`, `database.py` | sets of sockets per organization, the connection pool, the worker threads | connect, disconnect, broadcast; the handshake's membership check | a broadcast awaits each socket while others come and go; the handshake queries on the event loop and its session keeps a connection for as long as the socket is open |
| Dashboard: `frontend/app.js` | the selected organization and project, the flags shown, one socket, a reconnect timer | log in and out, select, load, reconnect | events between a load and a registration; answers out of order; close events that arrive after the page has moved on |
| Demo client: `demo/app.js` | API key, plan, last value, an interval | poll every 1.5 s | input that changes while a request is in flight |
| Migrations: `alembic/versions/`, `alembic/env.py` | the schema, the flags' organizations | upgrade, downgrade | names of constraints across steps; rows that were legal before; a command that dies |
| Passwords and tokens: `auth/security.py` | none | hash, verify, sign | library code |

They interact so: a PATCH handler commits to the database, then removes two entries
from the cache, then sends an event through the connection registry to the dashboards,
which load the flags again; an evaluation reads the cache, and the database on a miss;
a revocation commits and removes the key's entry; an evaluation answers from whatever
was cached or loaded.

What makes each correct:

* the audit log accounts for the row whatever overlaps or fails; a request is answered;
  an event tells a state that was committed;
* the engine reaches exactly the users the row says, and rollouts are sticky;
* an outdated cached value has a known cause and a bounded life, a tenant is never
  answered with another's configuration, refusals are never outdated;
* what a request creates appears completely or not at all, under a key that is free,
  by a user entitled to it, and what a request is answered is true;
* who is connected is registered, who is registered is told, and what was borrowed from
  the pool comes back, although requests, handshakes and broadcasts wait on each other;
* a tab has one live socket, the selected organization's; it shows the flags as they are,
  and gets a lost connection back; the exceptions have known causes;
* the polling page never goes back to an older answer and ends up with the right one;
* the migrations lead to the schema of the models from wherever they start, or refuse.

The hazards, each with its line and the properties that watch it, are in
`PROJECT.json` under `hazards`.

## 2. The modules

| Module | Models | Uses |
| --- | --- | --- |
| `ConfigRow` | one configuration row, request bodies, what an UPDATE of the changed columns does to a row; no state | |
| `ConfigRegister` | abstract: the history of one row and its audit log | `ConfigRow` |
| `FlagService` | concurrent PATCH handlers as transactions, step by step | `ConfigRow`, implements `ConfigRegister` |
| `AuditHistory` | the audit log as it is listed | `FlagService` |
| `FlagEvaluation` | `_to_flag_config` and the engine, over rows that requests change | `ConfigRow` |
| `EvaluationCache` | the evaluation path over the TTL cache, writers, the clock, a restart | |
| `Schema` | tables, unique keys, authorization, what a creation writes; no state | |
| `Registry` | abstract: creations as single steps | `Schema` |
| `Tenancy` | concurrent creations as transactions, step by step | `Schema`, implements `Registry` |
| `Realtime` | requests and dashboard sockets on one process: the registry, broadcasts, the event loop, threads, the pool | |
| `Dashboard` | one tab, and the server it talks to | |
| `DemoClient` | the polling page | |
| `Database` | abstract: a command as one step between two revisions, and the flags it takes along | |
| `Migrations` | the four migrations and the commands that run them, operation by operation | implements `Database` |
| `MC...` | the instances TLC checks | |
| `..._proofs` | theorems | the module they are named after |

Definitions named `Bad...` are not part of any specification. Each is one step with a
plausible bug; substituted for the step it precedes, it makes TLC report a property
violated, which shows that the property can tell the code from a wrong version of it.

### FlagService

One row, any number of requests. `pc` is where a handler is; each action is what lies
between two statements the database executes:

| Action | Code |
| --- | --- |
| `Begin` | `get_current_user` queries the user, which opens the transaction and fixes `now()`; `update_rollout` checks its range first |
| `Load`, `Refuse` | `_get_flag_and_config`: the flag, the membership, the row; `_config_snapshot`; `update_rule` refuses blanks only here |
| `Flush` | the assignments and `AuditRepository.create`'s `db.flush()`: an UPDATE of the changed columns, which waits for the row lock and applies to the latest committed version (READ COMMITTED), and the INSERT of the entry; no UPDATE when nothing changes |
| `Commit` | `FlagRepository.commit` |
| `Reload` | `FlagRepository.refresh` and the expired row, in a new transaction |
| `Invalidate` | `_invalidate_cache`; its effect is in `EvaluationCache` |
| `Broadcast` | `_broadcast_update` |
| `Fail` | an exception or lost connection before the commit (rolled back), at the refresh, or at the reload of the project for the event |

`history` and `loadedAt` are history variables. `Explains(log, row)` says that replaying
the entries, each setting the columns it shows as changed, leads from the default row to
`row`; it holds although single entries are wrong when requests overlap
(`AuditTruthfulUnlessOverlapped` says exactly when they are right).

### FlagEvaluation

`Evaluate` is `_to_flag_config` followed by `EvaluationEngine.evaluate`; `bucket_for` is a
constant function into 0..99. `Audience` says whom a row reaches without the engine. The
row changes by single requests and by pairs that overlap, so that torn rules are reached.

### EvaluationCache

An evaluation has three stages of one shape: the API key, the flag, the configuration. In
each, `Fetch`, `Check` and `Delete` are the three steps of `SimpleTTLCache.get` another
thread can come between; `Query` asks the database, `Set` stores. A datum has a version
and is absent, usable or malformed (a torn rule). `UpdateConfig` stands for a PATCH
handler up to its commit, followed by `InvalidateConfig` and `InvalidateLookup`, or by
`FailUpdate`; `RevokeRead`, `RevokeCommit`, `InvalidateKey` are `ApiKeyService.revoke`;
`CreateFlag` invalidates nothing, as in the code. `Tick` ages all entries. `Restart` loses
everything but the database. The `of`, `stale` and `late` fields of a value and the
variables `floor` and `missed` are history.

### Tenancy

Every row has one shape (`Schema`), with the columns of its table's unique constraint as
`of` and `key`. `Authorize`/`Deny` are `get_current_user`, `get_project` and
`_require_member`/`_require_owner`; `Check`/`Reject` normalise the key, look the invited
user up and look for an existing row; `Insert` is one flush (an organization needs two, a
flag three) that waits for an uncommitted row with the same key and fails on a committed
one; `Commit`; `Answer` is the refresh; `Fail` rolls back what is not committed. Rows of
these tables are only ever added, so that lookups which run one after the other can be
taken in one step. A revocation goes through `FindKey` (the key of the organization in the
path, active or not), `CommitRevocation` and `Invalidate`. `revoked_at` holds, for the time that is
stored, the revocation that took it: two overlapping ones both find the key active, and the
second overwrites the first. The texts of bodies and their normal forms (stripped, lower-cased, a
slug) are constants. A text with nothing left in it (`Blank`) is refused as a name or key, but
`AuthService.signup` stores it as an email like any other: one user may have it. An organization
whose name has no letter or digit gets a slug with 32 random bits: any of `Slugs`, so that two such
names may get the same one, or one that another name has, and are then in conflict.

### Realtime

A request goes through `Submit`, `Dispatch` (to a worker thread, for `get_current_user` and
again for the handler), `CheckOut` (its session's first query, or the first after the
commit, takes a connection from the pool), `Commit` (which returns it), `Broadcast` and
`CloseSession`. It stands for every handler that broadcasts: the three PATCH handlers and
`create_flag`. Whose request it is is chosen at `Submit` and decides how it ends: only one without a
valid token is refused by the dependency, before its session queries, and only a stranger's (no
member of the organization, or asking for what `FlagService` refuses: a flag there is not, a blank
rule, a taken key) by the handler, on its thread and
with its connection (`Refuse`); a member's is committed, unless a wait for a connection times out
(`TimeOut`). Row locks, and a body that does not parse, which is refused on the event loop between
the two threads, are left out. `Send` is one turn of the loop in `ConnectionManager.broadcast`, over the
copy (`targets`) that `Broadcast` took; a client that has gone makes it fail, or not yet.

A socket goes through `OpenSession` (`get_db`, on a worker thread), the membership check,
`Accept` (accept, then register), `ReceiveEnds` (the `finally` that unregisters) and
`EndpointEnds` (the session is closed). `_is_org_member` is called by a coroutine: while it
waits for a connection the event loop stands still, which is `Block` (`loop` names the
socket), and ends in `Handshake` or, after the pool's timeout, in `HandshakeTimeOut`. Every
action of the event loop has the guard `loop = Idle`. Nothing commits the handshake's
session, so that its connection stays checked out while the socket is open. `due` is a
history variable.

### Dashboard

`call` holds what the page awaits. `Select`, `ProjectsAnswered`, `ReadFlags` (the server
reads), `FlagsAnswered` and `AuditsAnswered` are `selectOrganization` between its awaits;
the last one, or `ProjectsAnswered` of an organization without projects, calls
`connectSocket`. The browser answers calls in any order and with errors (`Fail`; `Refused`
is an error for want of a token). A socket that was closed reports it later
(`CloseEvent`), when `socketClosing` has long been reset; its timer (`Retry`) is named by
the socket that set it, and `reconnectTimer` is the last one's, the only one that
`clearTimeout` reaches. Two sockets or timers with the same number are never outstanding
at once. `version`, `unsent`, `Change` and `Broadcast` are the server.

Four history variables name what the code lets go wrong, and the properties say that
nothing else does:

* `reopened`: the socket was opened while an earlier one for the same organization had yet
  to report its end, which selecting an organization twice does, or while a timer
  ran whose name was overwritten. The late close event then passes all its checks, and its timer
  tears the live socket down 2.5 seconds later, whose own close event does the same again.
* `astray`: the last selection failed, or an earlier one was answered after it, so that the
  socket is of another organization than the one displayed; or a forgotten timer fired.
* `missed`: an event was sent while no socket was registered (between the load of the
  flags and the registration, or while reconnecting), was lost with its socket or the
  call it started failed, and the flags have not been read since.
* `raced`: two loads were answered in the wrong order, and the older one is displayed.

`SilentAfterLogout` is about the logout button. A page that starts and gets an error logs out
too (`app.js:100`), without closing a socket that a click has opened meanwhile; that
state (`expelled`) is exempt.

### DemoClient

`Evaluate` is `evaluate` up to its first await, `Answered` and `Failed` what follows it, with
the `finally`. `version` counts the changes of what the server answers, which its cache
(`EvaluationCache`) may delay. `Connect` starts an interval whatever was entered; `Reload` reads
what it stored.

### Migrations

A migration is the list of operations its functions call. A command (`Upgrade`, `Downgrade`,
to a `target` revision) runs them one by one on a copy of the database (`work`): `Run`, which
counts the current migration's in `done`, and `Stamp`, which sets the revision when all have
run. It ends with `Commit` at the target, or `Abort` when an operation is refused
(`Applicable`) or the process dies: `env.py` runs a command in one transaction, and
PostgreSQL's DDL is transactional. `CreateFlag` is the program between two
commands, with the constraints of the revision. A constraint that is created without a name
gets PostgreSQL's (`Generated`): 0004 drops `flag_project_id_key_key`, but its downgrade
creates `uq_flag_project_key`. `Database` says what is left of all this for who only
sees what is committed: revision, flags, and `renamed`.

## 3. The runs

| Run | Instance | Shows |
| --- | --- | --- |
| `FlagService_two` | 2 requests, 9 bodies, a member and a stranger; 44,751 states | all invariants of `FlagService`, that it implements `ConfigRegister`, and that every request is answered |
| `FlagService_listing` | violation | the listing is not in the order of the changes (`flags_router.py:83`) |
| `FlagService_torn` | violation | a rule can be half set (`flag_service.py:172`) |
| `FlagEvaluation` | 6 percentages, 18 customers at every boundary; 112 states | the engine reaches the declared audience, rollouts are sticky |
| `EvaluationCache_shared` | 1 evaluating thread, 2 writers, a change per datum, torn rules to begin with, TTL 2; 749,000 states | bounds and causes of staleness, refusals are current, the cache becomes fresh and stays so |
| `EvaluationCache_tenants` | 2 threads, 2 organizations, 2 environments, 3 keys; 3.7 million states | answers stay within the tenant and environment |
| `EvaluationCache_keyerror` | violation | an expired entry can raise `KeyError` (`cache.py:36`) |
| `Tenancy` | 2 requests, some 50 bodies; 80,109 states | uniqueness, completeness, authorization, revocation, true answers, the refinement of `Registry`, every request answered |
| `Realtime` | 2 requests, one a member's and one anybody's, and 3 sockets, two of which may be refused, of 2 organizations, a pool of 3, 1 worker thread; 344,000 states | broadcasts and the registry, and that nobody waits for ever |
| `Dashboard` | 2 organizations, one without a project, 2 outstanding calls, 3 sockets, 2 selections after the first, 1 change, 2 faults; 1.0 million states | the tab's socket, its timers and what it shows |
| `Migrations` | 3 projects of 2 organizations, 2 keys, 4 flags; 8,344 states | the schema, the flags, and when an upgrade is refused; a command that dies leaves what was there; the refinement of `Database` |
| `DemoClient` | 2 API keys, 2 flags, 2 plans, 5 clicks, 2 changes, 2 faults; 49,340 states | what the page shows while its input changes |

Types. `TypeOK` of `FlagService`, `EvaluationCache`, `Tenancy`, `Realtime` and `Migrations`, and
`ToldWithinOrg` of `Realtime`, are proved (section 5) and no longer run; that of `Dashboard` is
proved and run.

Bounds. Two requests are what an overlap needs: each hazard of section 1 in the flag
service and in tenancy is between one request and another. In the cache, `TTL`, `MaxLoad`
(the ticks a loaded value may take to be stored) and `MaxVersion` (changes per datum) are
named bounds: a rule that is torn at the start can be repaired by one change and a whole
one be torn by one; 1 tick of `MaxLoad` lets a value be stored after it was invalidated and
aged. In `Realtime` everybody can wait on everybody: two open sockets and a request that waits for
the thread hold the pool's three connections, while the other request holds the thread and
waits for a connection, and a third socket's handshake may stop the event loop besides. In `Dashboard` the second selection comes after the one the page starts with
and the third after both, which is what two timers and answers out of order need; a third
socket is the second retry's. In `Migrations` four flags are two clashing pairs. The
theorems of section 5 hold for every value of these constants.

`FlagEvaluation` has no deadlock (a request can always be repeated); `Finished` in
`FlagService` and `Tenancy`, and `Quiet` in `Realtime` and `Dashboard`, are the states where all
is done; the cache never stops, because time does not. Deadlock is checked in every run but
`DemoClient`, where a page without keys may have nothing left to do.

What the runs of the pass kind also say of overlaps, as conditions in a property:

* `AuditTruthfulUnlessOverlapped`: an entry's `before` and `after` are the states around its
  change (`README.md:809`) only if no other request committed between its read and its
  commit.
* `StaleOnlyByOverlap`: an invalidated value can be served again until its TTL ends
  (`README.md:764` has it gone at once) if it was loaded before the change and stored after
  the invalidation, or if the handler failed between its commit and the invalidation.
* `BlockedBelowHead`: once 0004 was downgraded, `alembic upgrade head` is refused until 0002 is
  downgraded too, which drops the flags.

## 4. Fairness

`FlagService!FairSpec` and `Tenancy!FairSpec` have weak fairness on each request's next
step: the thread pool runs every worker and the database answers. A step that waits for
a lock is enabled once the lock is free; as every holder commits, fails or is rolled
back, and each request takes the lock at most once, weak fairness is enough. Nothing is
assumed of arrivals and failures. `EvaluationCache!FairSpec` adds that writers finish
what they began and that the clock does not stop; begins and changes are not fair. Under
it the cache becomes fresh, because changes are finite (`MaxVersion`) and an entry that
was stored late, or whose invalidation was missed, expires.

`Realtime!FairSpec` has weak fairness on each request's and each endpoint's next step: the
event loop and the threads run what they can, `pool_timeout` is finite (SQLAlchemy's default
of 30 seconds), and uvicorn's pings notice a client that has gone. Clients need not come,
stay or leave. Under it no request waits for ever, although requests hold connections and
wait for threads, hold threads and wait for connections, and a handshake stops the loop
both need: the timeout ends the circle. `Refuse` is no way out of it, although it is one of the steps
under fairness: its guard is whose request it is, which was decided before the request began to wait,
so that a member's is never refused (without the timeout, `RequestAnswered` is violated). `Dashboard!FairSpec` has weak fairness on answers,
socket events, timers and the server's broadcasts; the user, changes and faults are free, and
faults finite (`MaxFaults`). `DemoClient!FairSpec` has it on the interval and on the end of a
fetch. `Migrations` needs none: it says nothing of what must happen.

## 5. Proofs

TLAPS checks the following for every value of the constants.

* `FlagService_proofs`, of the row: what an UPDATE of the changed columns preserves
  (`UpdatedIsRow`, `AssignedIsRow`), that it gives the object in memory when nothing came
  between (`UpdatedOwnVersion`), and `ExplainsAppend`: a log that explains a row still does
  after an entry and an update whose changed columns agree. This lemma is why the log accounts
  for the row although entries can be wrong. `RegisterExplained` is the same of the abstract
  register.
* `FlagService_proofs`, of the handlers: `ServiceInvariant` is inductive. It adds to the types and the three
  safety invariants it implies: `history` is one longer than the log and ends in the row
  (`HistoryInv`); a request in flight has a body that passed its checks, and its
  snapshot is the version numbered `loadedAt` (`RequestInv`); the lock's holder has
  flushed, its version is the update of the row *as it is now*, because nobody else can
  commit a change meanwhile, and whoever flushed without the lock changed nothing
  (`LockInv`); only requests that committed have entries in the log (`WriterInv`); and what
  was read again is a version no older than the request's own commit (`SeenInv`). From
  it follow `ServiceLogExplainsRow`, `ServiceAuditTruthful`, `ServiceNoPhantomEvent` and, with
  the same steps mapped, `ServiceImplementsRegister`. `ServiceLastWriterWins` adds to it
  `SettersInv` (each entry is of its request's body, and sets the columns that the body names
  and that differed from the row it read) and `LastInv` (a column holds what the last entry that set
  it says).
* `FlagEvaluation_proofs`: `EveryRowReachesItsAudience` is about every row of the table,
  reachable or not; `AlwaysReachesAudience` and `RolloutIsSticky` are the checked properties.
* `EvaluationCache_proofs`: `CacheInvariant` is inductive. It relates what threads hold
  and what is stored to the database: versions only grow, a held or stored value's
  version was committed, its staleness and remaining life add up to at most the bound, an
  outdated entry not stored late belongs to a pending or missed invalidation, and each
  stage's datum is that of the request's own key. `CacheTypes`,
  `CacheStalenessBounded`, `CacheStaleOnlyByOverlap`, `CacheAnswerScoped` and
  `CacheRefusalsAreCurrent` follow.
* `Tenancy_proofs`: `Invariance`. `UniqueKeys`, `WholeOrNothing` and `OwnersOnly` speak of
  committed rows and are not inductive alone. `FreshInv` adds that what is inserted and
  not committed clashes with nothing committed and nothing another request inserted: it
  is what waiting on the unique index buys, and what the check before the insert does not.
  `Local` adds that a request that writes has inserted, or has still to insert, exactly
  what belongs to its row, under a key and for a user it looked up; the lookups stay true
  because rows are only added (`Monotone`). `WrittenInv` adds that a request's rows are
  there only once it has committed, so that a conflict over a row that comes with the
  main one (a membership, a configuration) is impossible (`ConflictIsMain`). From it
  follow `KeysStayUnique`, `NothingInPart`, `OnlyTheEntitledWrite`, `AnswersAreTrue` and
  `RequestsImplementRegistry`, in which every commit is one `Create` or `Revoke` of `Registry`.
  For revocations, `Local` keeps what was looked up (`MarkingFacts`), `RevokedInv` says who has
  committed one, and none is undone (`RevocationsStand`). `TypeCorrectness` says besides the types
  that only an email is ever stored blank.
* `Realtime_proofs`: `Invariance`, with the theorems `RealtimeTypes`, `NobodyIsDeaf`, `NoGhosts`,
  `BroadcastsReachEveryone`, `EventsStayWithinOrg` and `ConnectionsComeBack`. `NoDeafSocket`, `NoGhostSocket` and `ConnectionsReturned` are
  inductive with the types, once an endpoint past the check is known to be a member's
  (`AdmittedInv`). `EveryoneIsTold` needs `DueInv`: until the broadcast ends, whoever is due has
  been told or is still a target, and a target is told exactly if it is there when its turn comes.
  `ToldWithinOrg` needs the same of targets (`TargetsInv`), whose sockets may have been
  unregistered meanwhile. For any sizes of the pools.
* `Dashboard_proofs`: `TabInvariant` (`TabTypes`) is the types, with what tells a call that waits from a
  free one, that only open sockets have messages, never more than changes, and that no answer is
  newer than what the server has sent. Every step opens a socket
  with `connectSocket`, moves one on, or leaves all as they are (`CallSteps`, `SocketSteps`,
  `UserSteps`, `ServerSteps`); each preserves `OneLiveSocket`. `RetryOnlyWhenDown` needs `TimerInv`:
  unless the socket was opened too early, the others that have still to report their end are other
  organizations', so that their close events set no timer. `OneSocketIsLive`, `LogoutIsSilent` and
  `RetriesReplaceTheDead` follow. `SocketIsOfTheSelection` needs `SelectionInv`: the latest
  selection asks for the organization displayed for as long as it is under way, and once it
  has ended, not failed or overtaken, the socket is that organization's. `FlagsShownAreCurrent` needs
  `FlagsInv`, which accounts for every change of an organization not yet read: it is still to be
  broadcast, is a message of an open socket, is being asked for, or is counted as missed (`Owed`);
  and the flags shown are the newest that were read, or those are in an answer on its way
  (`ShownInv`).
* `DemoClient_proofs`: `ClientInvariant`. One request at most is in flight, and `requestInFlight` says so
  (`OneRequest`); from the first answer on, what is asked is for the keys of the page, and from the second
  what is shown is (`AnswersInv`); what is shown is no newer than an answer on its way
  (`VersionsInv`). `OldFlagOnce` and `AnswersInOrder` follow.
* `Migrations_proofs`: `MigrationInvariant`. The revision a database is at, the command and the number of
  operations that have run say what it is (`Stage`): the first so many tables with their keys, the
  keys of the flags, the column 0004 adds, and what the flags are like. One Boolean remains free, the
  name of the key on project and key (`Again`). `StageCreate`, `StageDrop`, `StageInto` and `StageOut` lead from
  each stage to the next by the operation that the migration has there, for tables 1 to 8 at once,
  and for the six and four operations of 0004 one by one; `StageUp`
  and `StageDown` join the last stage of a migration to the first of the following. A refusal is
  only possible in `StageInto`: dropping a key that has the other name, and adding the new one over
  flags that clash. For the first, `BlockedInv` says that nothing gets past it; for the second,
  `KeptInv` says that a command adds no flags, and loses none while they have a table, so that what
  clashes in its transaction clashes in the database. `SchemaTypes`, `SchemaIsDeclared`,
  `FlagsAreMoved`, `OnlyTheBlockedAreRefused` and, as a property of steps, `BlockedStaysBelow` follow;
  and `MigrationsImplementDatabase`, in which a `Commit` is the abstract `Migrate` (`CommitMigrates`) and
  nothing a command does before it is a step at all.

They rest on the named assumptions of the modules: `NullAssumption` and the ones on
percentages and payloads (`ConfigRow`, `FlagService`), `CustomersAssumption` and
`EvaluationPayloads` (`FlagEvaluation`), `ScopeAssumption` and `TimeAssumption`
(`EvaluationCache`), `SchemaAssumption`, `BodiesAssumption` and `SeedAssumption` (`Schema`),
`SessionsAssumption`, `CallersAssumption` and `SizesAssumption` (`Realtime`), `OrgsAssumption`,
`NoneAssumption` and `BoundsAssumption` (`Dashboard`), `KeysAssumption` and `BoundsAssumption`
(`DemoClient`), `ProjectsAssumption` (`Migrations`). TLC evaluates them in every run. Of
bounds they say only that they are natural numbers, of `NONE` and its like that they are nothing else.

Every invariant and every action property of the passing runs is so proved. Only
model-checked are the liveness properties (`RequestAnswered`, `EventuallyFresh`,
`SocketReleased`, `ConnectionReturns`, `ShowsTheFlag`), which under fairness are out of the
prover's reach, and the three violations, which are counterexamples. No module has a RECURSIVE
operator, and no proof needs induction over data.

## 6. What is not modelled

* Passwords and tokens: library code; a token names a user that exists, or nobody.
* Rendering, forms, wording of errors, timestamps other than the order of `created_at`,
  and the read-only listings except the audit log's and the dashboard's flags.
* The dashboard's forms. Creating a project (`app.js:66`) ends in a selection, creating a flag and
  configuring one (which sends two PATCH requests, `app.js:68`) in a load of the flags, as an event
  does. Toggling (`app.js:57`) loads nothing: it writes the answer of its PATCH over one of the flags
  displayed, and if a load was answered before it with something newer, the older value stays until the next
  load, one more way in which answers come in the wrong order. Selecting another
  project of an organization. Signing up and a user without
  organizations, for whom the page opens no socket.
* Several server processes: the code states that one process owns the cache, and the
  registry of sockets.
* Columns and check constraints in `Migrations`, but the column 0004 adds; the offline mode,
  which prints the same operations.
* Settings, application wiring, benchmarks.

## 7. Plan

1. `FlagBoard`: `FlagService` composed with `EvaluationCache` and `Realtime`, the commit, the two
   invalidations and the broadcast being the same steps.
2. Abstract specifications for the components that have none, with proofs that the detailed ones
   implement them: an evaluation of `EvaluationCache` as one step that answers from a version no
   older than the bound; `Realtime` as dashboards that are told of every commit while connected.

## 8. Running

In this directory: `tlasany M.tla` parses a module, `tlc -config X.cfg MC....tla` checks a
run, `tlapm M_proofs.tla` checks proofs. The slowest run takes about two and a half minutes
with two workers.
