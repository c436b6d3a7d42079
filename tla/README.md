# OpsCraft in TLA+

TLA+ models of the parts of OpsCraft where order, concurrency and failure
matter, the TLC runs that check them, and TLAPS proofs of their safety
properties. `PROJECT.json` maps every definition to the source lines it
translates, lists the runs, the mutants (one plausible bug per property, which
TLC must find), the findings, the hazards and the theorems.

## The system

OpsCraft is a set of FastAPI services behind an NGINX gateway, each with its own
PostgreSQL database, joined by HTTP calls, Kafka events, a Celery/Redis task
queue, Redis pub/sub and WebSockets.

| Component | State | Operations | Interacts with | What makes it hard |
|---|---|---|---|---|
| execution-service (API) | rows of `executions` | create, cancel, read | worker (Celery), Kafka | the row is written by several sessions that do not lock it |
| execution-service (worker) | the task in hand, a container | `execute_script_task` | broker, Docker, the same rows | early acknowledgement, redelivery, death of a worker, lost logs |
| collaboration-service (document) | content, revision, history per session | `handle_operation` | clients | transformation against a history that is cut |
| collaboration-service (sessions) | `sessions`, `connections`, `cursors` | join, leave, operation, cursor, clean-up | sockets | every send is an await; failed sends evict; one dict, many coroutines |
| monitoring-service | rules, alerts, history, last alert times | ingest, add/remove rule, acknowledge, resolve | Slack, PagerDuty | routing awaits the network inside a loop over a live dict |
| scheduler-service | `schedules`, APScheduler jobs | create, trigger, cron firing | execution-service | overlapping runs of one schedule, a commit before `add_job` |
| approval-service | approvals, rules | request, decide, cancel | execution-service | decisions that come late, an action whose call fails after the commit |
| testing-service | active tests, a semaphore | run tests | subprocesses | results matched to types by position |
| auth-service | users, OAuth states | register, login, refresh | front end | count-then-insert of the first user |
| secret-, script-service | rows with a unique name, audit rows | create, read, rename, clone, change, delete | PostgreSQL, base service | a check and an insert in two statements, a change and its audit row in two commits |
| admin-service | none | aggregation | the other services | little |
| notification-service | sockets per channel | connect, broadcast | Redis pub/sub | a set iterated across awaits |
| audit-service | audit rows | consume events, query | Kafka | offsets, inserts and deaths of the process in any order |
| ai-service | a table of results | analyse a script | text | scores that are cut off and cached |
| backup-service | none | dump | S3 | little: I/O |
| shared library | Redis keys, caches, a queue of broadcasts | rate limiter, attempt counters, cache, sockets, event bus, base service, error handlers | every service | sequences of Redis calls that are not atomic, stale caches |
| front end | tokens, socket | refresh, login, subscribe | gateway | concurrent 401 answers |

What correctness means for each of them is in the hazards of `PROJECT.json`,
each at its line; one without a property says why.

## Modules

### Execution (execution-service)

One row per execution, the request that creates it, a service-level cancel call,
the broker and the worker pool. An action is what happens between two database,
broker or Docker round trips: `CreateExecution` commits the PENDING row,
`Enqueue`/`EnqueueFails` is `delay()`, `StartTask` acknowledges the task and
queries the row, `MarkRunning` commits RUNNING, `RunContainer` reloads the row
and starts the container, `FinishExit`/`FinishException` commit the result.

* An ORM session sends an UPDATE for a column only if the value set differs from
  the value loaded. `seen[w]` is what worker w's session loaded and `Put` is
  what a commit leaves in the column.
* The broker is Redis (`docker-compose.yml`), and `celery_worker.py` sets no
  `acks_late` (the Celery application of `shared/tasks` does, but this worker
  builds its own). So a task is acknowledged when it starts; what a worker has
  only prefetched comes back after the visibility timeout, also when that worker
  is alive (`Redeliver`). `Prefetch`, `Redeliver`, `ContainerExits` and
  `WorkerDies` are external: modelled from how the worker uses them.
* `StreamFails` covers the ways in which following a container ends in the
  except clause: a chunk of output that is not UTF-8, a lost connection, a
  container already removed (`remove=True`) when `wait` is called. `RunFails` covers
  those before a container runs; when `docker.from_env` raises, the session has loaded
  nothing since its commit, and FAILED is written over whatever the row holds.
* Cancelling is modelled at `ExecutionService.cancel_execution`. The HTTP route
  calls it without `cancelled_by` (`routes.py:89`) and always fails with a
  TypeError, so this behaviour is that of the service's own operation.
* `request.state.user` is taken to be set, although no middleware sets it.

`Lifecycle` is the abstract specification: a status per execution and whether a
script of it ever ended well, without workers, messages, sessions or containers.
It says which changes a client may see: an execution is requested once, no result
replaces PENDING, SUCCESS is recorded only when a script earned it, and nothing
goes back to PENDING. It also shows what is not promised: CANCELLED and results
may be overwritten. `Execution` implements it (`ImplementsLifecycle`, `INSTANCE
Lifecycle WITH status <- row, earned <- Earned`, where `Earned` are the executions
of which a container ended with exit code zero).

Run `Execution`: one execution, two workers, one redelivery, one death. Both
deliveries can be worked on at once, a death can hit either of them, and cancel
calls interleave with all of it; executions share nothing but workers, so one is
enough. `ActiveHasOwner`, `SuccessIsEarned`, `OneLaunchPerDelivery`,
`PendingNotLaunched` and the refinement hold; `EnqueuedSettles` holds with the
excuses its definition names. Run `ExecutionCancel` refutes "a cancelled execution
stays cancelled" without any failure.

Fairness: a live worker keeps stepping, a request that has begun proceeds, the
visibility timer fires, and scripts end (the worker sets no time limit, so a
script that never ends keeps its row RUNNING; this is an assumption, not a
result). Nothing is assumed about users, deaths or losses.

### CollabDoc (collaboration-service, the document)

`OperationalTransform` and `handle_operation` up to the broadcast, which run
without an await and so are one action. The document is a sequence of character
identities <<revision, index>>, so the model can say which character an author
meant. A client forms an operation on the document of any revision so far
(`views`). `Transform` has the code's rules and, like the code, no other. The loop
over the history is a recursive function over its rounds (`Against` is one round).

Run `CollabDoc`: operations of length 1 or 2, four of them, and a history that
keeps one of two (`HistoryMax`, `HistoryKeep` stand for 1000 and 500), so cuts
happen within the bound. `PairsConverge`: any two valid operations with a rule
lead to the same document in either order. `IntentKept`: an operation that met a
rule with everything since its base revision does what its author meant.
`HistoryIsLatest`: cuts keep the newest operations in order. Run
`CollabDocIntent` drops the precondition and fails: the engine's gaps are real.

### CollabSession (collaboration-service, who is told what)

Every socket has a handler coroutine; an action is what it does from one await
that can suspend it to the next. `connections` is a dict: CPython keeps its entries in
insertion order in a table, a deletion leaves a hole, and an iterator is a place in the
table. It fails when the number of entries has changed, or when it has come to as many
entries as there were and finds another. An insertion that finds the table full moves
the entries to a new one without the holes, under the iterators that are in it: a leave
and a join at the same size may then make a broadcast skip a registered user without
any error. `spare` is how many insertions a table still takes, `Spares` what a new one
may have left (CPython's smallest dict has room for five entries and grows by what is
in use, so it is two or more after the insertion that made it). A broadcast in progress
is a frame: the session object it iterates over, its place, the dict's size at the
start, how many entries it has come to, and the users it could not send to. Session
objects have an identity of their own, because a joiner keeps one across `accept()`
while the clean-up may delete it.

* ASGI lets `accept()` suspend; the server in use does not. The model allows it,
  which only adds behaviours; no violation is claimed from them.
* `cursors` always has the same keys as `connections`, `user_sessions` is never
  read: both are left out. Malformed messages, which end a connection as any
  exception does, are left out too.
* `Movers` bounds who sends cursor updates (their broadcast is like any other).

Run `CollabSession` (module `MCCasts`): a session for three users and four sockets, two
of one user (a page reload), one operation, and tables with room for two more entries.
A broadcast can be interrupted by a join or a leave, a socket replaced, a send can fail
to one recipient and succeed to another, and a table is made anew under a broadcast: the
writer and a third user stay while the others leave and come back. To have all of that within TLC's
reach the run takes the union of three casts: any three clients that do anything, and
twice all four, of which one writes, one leaves and its user and a further one come
late (`Casts`; `cast` is chosen once). The sockets of the one user are interchangeable,
so the run uses their symmetry (it checks invariants only, and the casts are closed
under the exchange). Run `CollabLeave` checks liveness on two sockets of two users
(three are too many for TLC's temporal checking), with tables that take none or two
more, so that every insertion may make a new one; its module `MCSockets` also carries
`Broadcasting`, see there. Run `CollabBroadcast` shows a served client that misses
operations.

`StayedInformed` is the part that does hold: a registered client misses an operation
only if the broadcast of that very operation was interrupted, or the dict got a new
table in the middle of it. Neither excuse can be dropped: without the first TLC finds a
broadcast that a leave ends early, without the second one that skips a client after a
leave and a join. `NoGhost` and `StayedInformed` are about the session that `sessions`
holds; a joiner who registers in an object that the clean-up has deleted meanwhile is
heard by nobody, and no property here rules it out.

Fairness: the event loop runs every handler that can run; an accept or a send
ends, because the server pings sockets and closes the silent ones. Nothing is
assumed about clients, time or the clean-up.

### Alerting (monitoring-service)

`AlertManager` and the routes that change it. Processing a metric is several
steps; `loop` is the event loop's token, so that nothing happens between them
until the request awaits Slack (alerts of severity error and critical) and
PagerDuty (critical). Both are taken to be configured; their answers, refusals
and timeouts are the same to the caller. `rules` is a dict as above, with holes, new tables
and both errors of an iterator (`Interrupted`). The
statistics of the anomaly detector are a free choice: a metric may or may not be
an anomaly. A rule's expression, comparison and threshold come down to
`Triggers`, the metrics that match and exceed it. `fired` is the history of all
alerts; `active` and `history` are places in it. `alert_counts` is never read
and `enabled` is never false through the API; both are left out.

Run `Alerting`: two requests for one metric, a critical and a warning rule and
an error rule that may replace either, two edits of the rules, a window of two
ticks and time for it to pass twice, a history of two alerts so that it
overflows. `MaxHandled` bounds the alerts that operators handle, `MaxEdits` the
edits, `MaxTime` the clock. It covers two requests routing alerts of the same
key, and rules that come and go during the awaits. A table of rules has room for none
or two more, so that a rule removed and added again may make a new one. Run
`AlertingRules`: a rule removed meanwhile makes the request fail before it has checked
the others (after a removal and an addition they may also be passed over without an
error).

Fairness: the loop runs what can run, and both HTTP calls have timeouts
(5 seconds in the code).


### RateLimiter (shared library)

The three strategies over Redis and the two places that ask them, for the requests
of one client to one endpoint. The handlers are coroutines of several processes, so
an action is one call to Redis together with what the handler computes up to its
next call: the fixed window is INCR with EXPIRE, the sliding window one transaction
and, for a refused request, a second call for `retry_after`, the token bucket HGETALL,
HSET and EXPIRE with the clock read in between. Any call may raise, after it ran or
before, and so may the application: the middleware takes both for an error of the
limiter and calls the application (again), the decorator lets them out.

* A stamp is the time a handler read from its clock; its call may reach Redis up to
  `MaxDelay` ticks later. One tick is a second.
* `checks` records every decision in the order Redis saw the requests, for the bucket
  with how many decisions its request had seen when it read, and whether it found a
  bucket at all. EXPIRE on a key that has ended does nothing, and its answer may be lost
  like any other; the next read then finds a full bucket.
* One expiry the code sets is of zero or a few seconds (`int()` of a fraction);
  `BucketTTL` stands for the constant 3600.
* Left out: how the key and the limits are chosen per path, headers, and `reset` and
  `get_usage`, which no one calls.

`RefusedOnlyWhenUsedUp`: a refused request had `Limit` others in its window, which
may themselves have been refused (a client that does not wait long enough keeps
itself out). `WindowLimit` says which requests a window lets through in excess of
its limit: those that reach Redis late. The bucket itself has
no such bound: concurrent requests read the same token, each is let through, and the
last write wins. `BucketLimit` says that this does not last: from any grant on, whatever
it undid, as long as the following checks overlap no grant and find the bucket, it lets
no more through than its capacity and what it was refilled with.
`ServedAsDecided`: a refused request never reaches the application, and none does
twice unless something raised.

### Attempts (shared library)

`AuthRateLimiter.check_auth_attempt` and `RateLimitValidator.check_rate_limit`: a key
in Redis that is incremented and given a lifetime in two calls. Between them other
callers have their turn, a successful login deletes the key, it expires, or the
caller dies. `LetThroughBounded`: no third failure within the lifetime is allowed,
and any stretch of time lets at most twice the validator's limit through.
`CountersEnd`: a counter without a lifetime, which would shut its client out for good,
needs a check that was cut short.

`Limits` puts both components side by side; `focus` says which one takes the steps of a
behaviour, so that the states are the sum of theirs. Run `RateLimiter` (module
`MCRateLimiter`, which adds the symmetry of the requests) checks it. Three
requests with limit 1 are the least in which one is let through, one is refused,
and a third sees what the refused one left. The clock passes a window (2 ticks)
and a bucket's expiry. Five checks of the counters are three failures with two
logins or lifetimes between them.

### Broadcasting (shared library)

`OptimizedConnectionManager`: `broadcast` puts a message into a bounded queue, one
worker takes a batch and sends it channel by channel to whoever is registered when
the channel's turn comes. `QueuedIsHeard`: what is queued reaches in the end
everybody who was registered by then and stays, also when no other message comes to
fill the batch. Run `CollabLeave` checks it for two sockets on two channels, a queue
and a batch of two and three messages: the queue can be full, a batch can hold both
channels, and a message can wait for a batch in progress.

Fairness: the event loop runs the worker when it can run, and a send ends because
the server pings its sockets. The worker may be cancelled at any time.

### Services (eleven components side by side)

`Services` instantiates the components that touch each other only through
requests; `MCServices` gives its constants their values. `focus` is chosen once and
one component takes all the steps of a behaviour, so the states are the sum of the
components' states; the others stay in an initial state. Each property says for which `focus` it holds anything; `TypesOK`
is the type invariant of all of them.

* `Cache`: `CachedService` over `CacheManager`, one row in two levels, in the memory of
  each process (no expiry) and in Redis (a time to live). A write commits before the
  invalidation it scheduled runs; a read refills what an invalidation has just
  removed. Two processes, two writes, one reader in flight, one failed call or crash.
  `StaleExplained`: an outdated entry was outdated when it was stored (a write
  overlapped the read), or its invalidation is on its way or failed, or, in memory,
  only other processes wrote. `SharedGetsFresh`: once writing stops Redis gets rid of
  it. Fairness: invalidation tasks and readers go on, entries in Redis expire.
* `TestFramework`: `run_tests` with its families of tests, the semaphore and the filing
  of results by position. Two suites of one script share one permit.
  `ResultsAreOfTheirTypes` holds when the types are asked for in the code's order.
* `Notification`: the sockets, their endpoints and the one Redis listener, which
  iterates over a live set across sends. A set is a hash table: a member that left goes
  on using a slot, and the addition that finds the table full moves everybody to a new
  one, in which an iterator goes on at the number of its slot, so that any member may be
  skipped or met again (`Room`). Three sockets on a channel, two messages, tables that
  take one or two more. `HeardAllSince`: while the listener lives nobody who stays misses
  a message or gets it twice, unless the set got a new table in the middle of that very
  broadcast (`shuffled`; TLC finds both a skip and a repetition without that excuse). Run
  `NotificationListens` shows that the listener does not live for long.
* `ContainerRun`: `get_executor`, `DockerExecutor` with `SecureDockerClient`, and
  `LocalExecutor`. Every call to the daemon may raise, some may hang. Two calls, two
  failures. `LeavesNothing`: whichever fails, the container is removed, unless the
  removal failed or its id was never learnt.
* `Scheduler`: schedules, the job store and overlapping runs whose POST may be answered
  late or never, or whose commit fails, with a restart. Two runs of a schedule, three
  posts. `RunCountTrue`,
  `JobsMatchSchedules`.
* `Records` with `Errors`: the records of secret-service and script-service in two
  replicas, their base classes' checks, failing statements, and the status that an
  exception becomes. Two calls on names one of which `sanitize_html` changes.
  `AnswersTruthful`: what a status says of the tables is true.
  `DuplicatesFoundByTheCheck`: the unique column is only met in the named cases.
* `ScriptAnalysis`: the scores and the table of results of ai-service, over how often
  each pattern matches; more dangerous constructs never score better
  (`DangerNeverPays`).
* `AuditTrail`: both consumers of audit-service, the automatic commits of Kafka's client,
  failing inserts, deaths and restarts. Two topics, three events, one mishap.
  `TrailComplete`: no event is skipped, and a report counts twice only what was
  delivered twice.
* `Approval`: rules, requests, decisions and the call that an approval sets off. Two
  requests, three users with a role each. `ApprovedRunsOnce`: an approved request runs
  once unless its call failed, with as many approvals as its rule asks for (nothing
  keeps a rule from asking for none; one approval is then enough).
* `Accounts`: registration, whose first user becomes admin, and login in replicas over
  one database. `FirstUserIsAdmin`: there is an admin as soon as there is anybody, and
  a second one only where registrations overlapped.
* `BrowserSession`: tokens in localStorage, the stores of two tabs, and two requests of
  which each may refresh. The refresh never succeeds (the route takes the token from
  the query, the front end sends a body), so a 401 ends the session.
  `SessionLostForAReason`: nothing else does, and no tab goes on without noticing its
  own loss.

Two of most things is what a race needs; a third is there where a third party
matters (a socket that stays while two come and go, a user who is neither requester
nor admin).

The Cache, the optimized manager, the attempt counters and `get_executor` are called
by nothing in the repository and are modelled as they are written. approval-service
and audit-service name a column `metadata`, which SQLAlchemy reserves, and fail at
import; their handlers and consumers are modelled as written, for the day when the
column is renamed.

## Proofs

`ExecutionProofs` proves type correctness, the four safety invariants of
`Execution`, and that it implements `Lifecycle`, for any number of executions,
workers, redeliveries and deaths. None of the invariants is inductive. The inductive
invariant adds `Custody` (a busy worker holds an acknowledged delivery nobody else
holds; a prefetched one is reserved and held by one worker), `RowFirst` (the row is
committed before anything refers to it), `PendingFresh` (while a row is PENDING,
every worker on it has only queried it and saw PENDING: without this a late commit
of a stale session could undo RUNNING), `LaunchOnce` and `DockerFollows`. One lemma
per action shows that it preserves the invariant. For the refinement, the initial
states map to initial states, and under the invariant every step maps to a step of
`Lifecycle` or leaves its variables alone.

`AlertingProofs` proves type correctness, `DedupHolds`, `ActiveIsOpen` and
`EveryTriggerCovered` of `Alerting` for any requests, rules, metrics and window. `DedupHolds` needs
`LastCovers` (last_alert_time is never older than the last alert of its key),
the types need `RunningHasMetric`. The invariant has a part on alerts and a part
on requests, because most actions leave one of them alone. `EveryTriggerCovered` is about a step: it
needs `LastIsOfAnAlert` (a time in last_alert_time that is not the initial one is that
of an alert of the key), and that the initial time is outside the window, as the clock
starts at Window.

`RateLimiterProofs` proves the four properties of `RateLimiter` and the two of
`Attempts`, for any requests, callers, limits, windows, lifetimes and bounds.
`ServedAsDecided` needs `PlaceInv`, which ties the
place of a request to how often the application was called for it. `BucketLimit` needs
`BucketInv` (stamps are in order) and `ChainInv`: counted from any grant on whose followers were all alone, the bucket in
Redis holds at most its capacity and what was refilled up to its last write, less what
was granted since; and the same holds for every copy that a request has read and is
about to write back, as long as nothing was granted since it was read.
Lemmas on the refill (a minimum of two numbers) and on the number of
grants carry the arithmetic. `RefusedOnlyWhenUsedUp` and `WindowLimit` need `WindowInv`,
with a part per strategy: `FixedInv` (until a window ends its key is there, has counted
every grant, and has counted no more than was asked), `SlidingInv` (the sorted set has
every stamp that is not too old, and only stamps of decisions) and `DrainInv` (what a
bucket, or a copy of it, lacks went to grants since a time at which it was full). The
counters need `CounterInv`. For the failed logins `AuthInv` says that the counter is no
smaller than the failures that matter (`Counted`: those whose EXPIRE may still come in
time are among them) and lives as long as they do. For the validator `ValidatorInv` says
that counts grow until a key begins and that keys begin more than a lifetime apart, so
that no stretch of a lifetime has three checks with the same count.

`CollabSessionProofs` proves `NoGhost` and `StayedInformed` of `CollabSession` for any
sockets, users and sessions. The inductive invariant has five parts: `CurrentIsNewest`
(`sessions` holds the newest session object or none), `OwnObject` (a handler is
registered at most in the object it joined, and only between joining and leaving),
`Gone` (a handler that left, or is about to, is not registered), `FramesTrue` (what a
broadcast in progress has remembered is true of the object it iterates over) and
`Informing` (for every registered handler and every operation it has not been sent
there is a broadcast that has not yet passed its entry, or one that was interrupted or
had its table made anew). `PutFacts` says what an insertion does to a table. The
least element of a set of numbers (`Least`) gives the entry a broadcast goes to next.

`CollabDocProofs` proves type correctness, `PairsConverge`, `HistoryIsLatest` and
`IntentKept` of `CollabDoc` for operations of any length, any number of them and any
limits of the history. It first says character by character what an insert and a delete
compute, positions beyond the end included. Convergence is then a fact about the engine,
by the kinds of the two operations and the order of their positions. The inductive
invariant relates history, log and documents: the history is the tail of the log, each
document came from the one before by the operation in the log (`Chain`), a character
bears the revision that inserted it (`Named`), and none is there twice (`AllDistinct`).
For `IntentKept`, `SameIntent` says that the transformed operation means on the current
document what the original meant on its own: one round of the loop preserves it
(`RoundKeepsIntent`), and so does the loop. That an operation which met as many
operations as were handled since its base met exactly those follows from the invariant
(`SliceIsSince`). Induction over the rounds uses the least element of a set of numbers
(`AllNaturals`), because the library's induction theorems take a predicate as parameter.

`AccessProofs`, `RunsProofs` and `DataProofs`, each of which extends the one before,
prove every safety property of the components of `Services` and their types, for any
values of its constants. A component's invariant is proved inductive over its own
steps, which is all that the composition lets move its variables:

* `ApprovedRunsOnce`: approvals that may still come count against the rule as it was
  read, and a call in progress is the only one of its request.
* `FirstUserIsAdmin`: every registration that counted no user and has not inserted yet
  overlaps the others like it.
* `SessionLostForAReason`: what a refused request may remove is the token it was sent
  with, and who removed what another tab relied on is recorded.
* `LeavesNothing`: where each call stands says whether its container exists and whether
  its id is known.
* `RunCountTrue`, `JobsMatchSchedules`: the counts a run has loaded are no newer than
  the row's; executions are what was posted; a creation owns its job until it commits.
* `StaleExplained`: an explanation for each outdated entry, and for each outdated value
  a reader holds and will store.
* `AnswersTruthful`, `DuplicatesFoundByTheCheck`: what each pending statement of an
  operation will find in the table is known from its place. The chains of classes and
  of handlers by which an exception becomes a status are recursive functions on finite
  sets; the proof exhibits each function, so that its equation can be used.
* `TrailComplete`: rows, the event in hand and what is yet to be polled make up the
  topic, and an offset is committed only behind what was handled.
* `ResultsAreOfTheirTypes`: what a suite's families have returned so far is what they
  return for its script (`SuiteRight`), and joining the four lists keeps every case.
* `DangerNeverPays`: the penalty is a fold over the patterns, so the proof writes down
  the function on sets of patterns that the fold computes (`SumsAddUp`) and shows by
  the number of patterns that it grows with the matches (`SumsGrow`).
* `HeardAllSince`: while a broadcast is under way, what a socket was sent is what it is
  due but for the message being sent, and whoever registered before is among those the
  iteration began with, unless the set got a new table since.
* `TypesOK`: the types need invariants of their own where a handler counts or finds
  something: the permits that are out are with the suites that run (`PermitsFit`), what
  is on its way to the execution service is covered by the posts (`PostsCover`), an id
  is of one row, which a call that is past its INSERT made (`IdsDiffer`), a token is of
  one login (`TokensOfLogins`), users differ in number, name and address
  (`UsersDiffer`), and no cache entry is newer than the row (`CacheFits`). `TypesCorrect`
  joins the eleven.

Proofs found faults of the models that TLC could not, because they made no difference
on the instances: three CASE expressions whose arms overlapped, where TLC takes the
first arm and TLA+ any of them (`AuditTrail`, `BrowserSession` and `CollabDoc`; the
arms are disjoint now, in the order of the code's branches).

Assumptions are those the modules state: bounds are natural numbers, limits and
windows positive, `None` is none of the values it stands beside, the rules a service
starts with have different names, sanitized names fit the column, ids of new rows are
no names, and scripts, lists of types and contents are of the kinds the code takes
(`ServicesAssumption`).

Only model-checked is liveness (`EnqueuedSettles`, `DisconnectedLeaves`, `QueuedIsHeard`,
`RequestEnds`, `SharedGetsFresh`): fairness and ENABLED are outside the prover. Every
safety property of a passing run is stated by a theorem.

The type invariants of CollabDoc and RateLimiter are proved or stated in their modules
and hold on their instances, but are not among the runs' properties.

## Findings

1. A worker overwrites CANCELLED (`ExecutionCancel`).
2. `transform` lacks rules, so concurrent edits change text nobody meant
   (`CollabDocIntent`).
3. A user's second socket takes the first out of the session, and it misses
   operations while it is still served (`CollabBroadcast`).
4. Changing the rules while a metric is processed aborts it (`AlertingRules`).
5. A socket that connects or leaves during a broadcast ends the Redis listener, and
   with it all notifications of the process (`NotificationListens`).

Other things seen in the code while modelling, which no run is about:

* `check_auth_attempt` returns at the first threshold that is reached, so its
  "progressive delays" are always the first, 60 seconds.
* `OptimizedConnectionManager.start` awaits the worker and never returns, so `stop` finds
  no task to cancel; `broadcast` awaits the None of `put_nowait` and raises a TypeError
  after the message was queued.
* `SecureDockerClient` creates its container and never starts it
  (`docker_client.py:185`), and passes `remove` to a call that does not take it.
  `DockerExecutor.cancel` looks for a container named like the execution; none is.
* `run_tests` files the syntax tests of its default list as unit tests.
* The fork-bomb pattern of ai-service does not match a fork bomb.
* Script events carry `user` where the audit consumer reads `username`, and the
  compliance report counts `user.login` while auth-service publishes `user.logged_in`.
* In the service classes AuditedService comes before CachedService, so the latter's
  invalidation hooks are never called; nothing passes a cache manager anyway.
* Routes of script-service and scheduler-service call methods the service classes do
  not have.
* `useWebSocket` connects to `/ws/executions/{id}`, which no route matches.
* The collaboration capacity check comes before `accept()`; with a server whose
  accept suspends, handshakes could pass it together.

## Not modelled

* backup-service awaits the result of a plain function and stops there.
* admin-service reads other services and aggregates; it keeps no state.
* The gateway, Kubernetes, Compose files and CI are configuration; replica counts,
  broker and timeouts are taken from them.
* Validation, sanitizing, hashing and tokens are functions of text; AuthMiddleware is
  installed nowhere. OAuth, two-factor and role helpers are used by no route.
* `executor_strategies` and the event handler of execution-service are called by nothing.
* The statistics of AnomalyDetector are a free choice in `Alerting`.
* Pages and components of the front end are layout.
* Queries (lists, logs, statistics, reports other than those in `AuditTrail`) change
  nothing.

## Plan

The state machines of the system are modelled and their safety properties proved. What is
left:

1. Abstract specifications of the parts whose promise is a protocol, with the
   refinement proved as it is for `Lifecycle`: an audit log that receives each event
   (`AuditTrail`), and a channel that delivers in order (`Notification`).
2. The attempt counters' and the optimized manager's remaining operations, should
   something in the repository come to call them.
