------------------------------ MODULE Execution ------------------------------
(***************************************************************************)
(* The life of a script execution in execution-service: the HTTP handler   *)
(* that inserts the row and enqueues the Celery task, the Redis broker     *)
(* between them, the Celery workers that run the script in a container,    *)
(* and ExecutionService.cancel_execution, which runs against the same row. *)
(*                                                                         *)
(* Every replica (three API pods, three workers) has its own database      *)
(* session, so an action is what happens between two database or broker    *)
(* round trips.  An ORM session writes a column only when the value set    *)
(* differs from the value it loaded, so a worker carries `seen`, the       *)
(* status its session loaded last.                                         *)
(***************************************************************************)
EXTENDS Naturals, FiniteSets

CONSTANTS
    Executions,    \* primary keys of the executions table
    Workers,       \* Celery pool processes
    None,          \* no delivery
    MaxRedeliver,  \* bound: redeliveries of one message by the broker
    MaxCrashes     \* bound: worker deaths

ASSUME ExecutionAssumption ==
    /\ MaxRedeliver \in Nat
    /\ MaxCrashes \in Nat
    /\ None \notin Executions \X (0..MaxRedeliver)

VARIABLES
    row,         \* row[e]: the committed status column, "absent" before INSERT
    handler,     \* handler[e]: progress of the create_execution request
    started,     \* executions whose execution.started event was published
    canceller,   \* canceller[e]: progress of a cancel_execution call
    broker,      \* broker[d]: where the broker has delivery d
    held,        \* held[w]: deliveries prefetched by w and not yet started
    pc,          \* pc[w]: where worker w is in execute_script_task
    job,         \* job[w]: the delivery w is working on
    seen,        \* seen[w]: the status w's session has loaded, "absent" if none
    containers,  \* deliveries whose container is running
    exitCode,    \* exitCode[d]: how the container of d ended
    launches,    \* launches[d]: containers started for d (history)
    lost,        \* executions whose task died with its worker (history)
    crashes      \* number of worker deaths so far

apiVars    == <<handler, started, canceller>>
brokerVars == <<broker, held>>
workerVars == <<pc, job, seen>>
dockerVars == <<containers, exitCode, launches>>
faultVars  == <<lost, crashes>>
vars == <<row, apiVars, brokerVars, workerVars, dockerVars, faultVars>>

\* One delivery of the task message of execution d[1]; d[2] counts redeliveries.
Deliveries == Executions \X (0..MaxRedeliver)

ExecutionStatus == {"pending", "running", "success", "failed", "cancelled"}
Active   == {"pending", "running"}
Terminal == ExecutionStatus \ Active

TypeOK ==
    /\ row \in [Executions -> ExecutionStatus \cup {"absent"}]
    /\ handler \in [Executions -> {"idle", "committed", "enqueued", "replied", "failed"}]
    /\ started \subseteq Executions
    /\ canceller \in [Executions -> {"idle", "checked", "done", "refused"}]
    /\ broker \in [Deliveries -> {"absent", "queued", "reserved", "acked"}]
    /\ held \in [Workers -> SUBSET Deliveries]
    /\ pc \in [Workers -> {"idle", "queried", "marked", "streaming", "failing"}]
    /\ job \in [Workers -> Deliveries \cup {None}]
    /\ seen \in [Workers -> ExecutionStatus \cup {"absent"}]
    /\ containers \subseteq Deliveries
    /\ exitCode \in [Deliveries -> {"none", "zero", "nonzero"}]
    /\ launches \in [Deliveries -> Nat]
    /\ lost \subseteq Executions
    /\ crashes \in Nat

Init ==
    /\ row = [e \in Executions |-> "absent"]
    /\ handler = [e \in Executions |-> "idle"]
    /\ started = {}
    /\ canceller = [e \in Executions |-> "idle"]
    /\ broker = [d \in Deliveries |-> "absent"]
    /\ held = [w \in Workers |-> {}]
    /\ pc = [w \in Workers |-> "idle"]
    /\ job = [w \in Workers |-> None]
    /\ seen = [w \in Workers |-> "absent"]
    /\ containers = {}
    /\ exitCode = [d \in Deliveries |-> "none"]
    /\ launches = [d \in Deliveries |-> 0]
    /\ lost = {}
    /\ crashes = 0

\* What the ORM leaves in a column when a session that loaded `loaded` assigns
\* `new` and commits over `current`: an assignment without a net change emits
\* no UPDATE.
Put(loaded, new, current) == IF loaded = new THEN current ELSE new

-----------------------------------------------------------------------------
(* The API: POST /executions and ExecutionService.cancel_execution.        *)

\* ExecutionService.create_execution commits the PENDING row.
CreateExecution(e) ==
    /\ handler[e] = "idle"
    /\ row' = [row EXCEPT ![e] = "pending"]
    /\ handler' = [handler EXCEPT ![e] = "committed"]
    /\ UNCHANGED <<started, canceller, brokerVars, workerVars, dockerVars, faultVars>>

\* execute_script_task.delay(execution.id) reaches the broker.
Enqueue(e) ==
    /\ handler[e] = "committed"
    /\ broker' = [broker EXCEPT ![<<e, 0>>] = "queued"]
    /\ handler' = [handler EXCEPT ![e] = "enqueued"]
    /\ UNCHANGED <<row, started, canceller, held, workerVars, dockerVars, faultVars>>

\* delay raises (broker unreachable) or the pod dies first: the row stays.
EnqueueFails(e) ==
    /\ handler[e] = "committed"
    /\ handler' = [handler EXCEPT ![e] = "failed"]
    /\ UNCHANGED <<row, started, canceller, brokerVars, workerVars, dockerVars, faultVars>>

\* event_publisher.publish: a missing producer or a Kafka error is swallowed,
\* so the reply goes out with or without the event.
PublishStarted(e) ==
    /\ handler[e] = "enqueued"
    /\ started' \in {started, started \cup {e}}
    /\ handler' = [handler EXCEPT ![e] = "replied"]
    /\ UNCHANGED <<row, canceller, brokerVars, workerVars, dockerVars, faultVars>>

\* cancel_execution loads the row and checks its status; a missing row and a
\* terminal one raise.
CancelCheck(e) ==
    /\ canceller[e] # "checked"
    /\ canceller' = [canceller EXCEPT ![e] =
                        IF row[e] \in Active THEN "checked" ELSE "refused"]
    /\ UNCHANGED <<row, handler, started, brokerVars, workerVars, dockerVars, faultVars>>

\* update_status then commits CANCELLED over whatever the row holds by now:
\* its get_or_404 finds the object in the session's identity map and does not
\* reload it.
CancelCommit(e) ==
    /\ canceller[e] = "checked"
    /\ row' = [row EXCEPT ![e] = "cancelled"]
    /\ canceller' = [canceller EXCEPT ![e] = "done"]
    /\ UNCHANGED <<handler, started, brokerVars, workerVars, dockerVars, faultVars>>

-----------------------------------------------------------------------------
(* The broker (Redis through kombu), as the worker's configuration uses it: *)
(* early acknowledgement, prefetching, and a visibility timeout that puts   *)
(* an unacknowledged message back on the queue.                             *)

Prefetch(w, d) ==
    /\ broker[d] = "queued"
    /\ broker' = [broker EXCEPT ![d] = "reserved"]
    /\ held' = [held EXCEPT ![w] = @ \cup {d}]
    /\ UNCHANGED <<row, apiVars, workerVars, dockerVars, faultVars>>

Redeliver(d) ==
    /\ broker[d] = "reserved"
    /\ d[2] < MaxRedeliver
    /\ broker[<<d[1], d[2] + 1>>] = "absent"
    /\ broker' = [broker EXCEPT ![<<d[1], d[2] + 1>>] = "queued"]
    /\ UNCHANGED <<row, apiVars, held, workerVars, dockerVars, faultVars>>

-----------------------------------------------------------------------------
(* The worker: execute_script_task.                                        *)

\* Mutant of StartTask: the delivery stays with the worker after it started.
StartTaskNotTaken(w, d) ==
    /\ pc[w] = "idle"
    /\ d \in held[w]
    /\ broker' = [broker EXCEPT ![d] = "acked"]
    /\ pc' = [pc EXCEPT ![w] = "queried"]
    /\ job' = [job EXCEPT ![w] = d]
    /\ seen' = [seen EXCEPT ![w] = row[d[1]]]
    /\ UNCHANGED <<row, apiVars, held, dockerVars, faultVars>>

\* The task is acknowledged, a session opened and the row queried; a missing
\* row ends the task.
StartTask(w, d) ==
    /\ pc[w] = "idle"
    /\ d \in held[w]
    /\ held' = [held EXCEPT ![w] = @ \ {d}]
    /\ broker' = [broker EXCEPT ![d] = "acked"]
    /\ IF row[d[1]] = "absent"
       THEN UNCHANGED workerVars
       ELSE /\ pc' = [pc EXCEPT ![w] = "queried"]
            /\ job' = [job EXCEPT ![w] = d]
            /\ seen' = [seen EXCEPT ![w] = row[d[1]]]
    /\ UNCHANGED <<row, apiVars, dockerVars, faultVars>>

\* Mutant of MarkRunning: the RUNNING assignment is not committed.
MarkRunningNoCommit(w) ==
    /\ pc[w] = "queried"
    /\ pc' = [pc EXCEPT ![w] = "marked"]
    /\ UNCHANGED <<row, apiVars, brokerVars, job, seen, dockerVars, faultVars>>

\* status = RUNNING; commit, whatever the status was.
MarkRunning(w) ==
    /\ pc[w] = "queried"
    /\ row' = [row EXCEPT ![job[w][1]] = Put(seen[w], "running", @)]
    /\ pc' = [pc EXCEPT ![w] = "marked"]
    /\ UNCHANGED <<apiVars, brokerVars, job, seen, dockerVars, faultVars>>

\* Reading execution.parameters reloads the row (the commit expired it), then
\* containers.run starts the script and its logs are followed.
RunContainer(w) ==
    /\ pc[w] = "marked"
    /\ seen' = [seen EXCEPT ![w] = row[job[w][1]]]
    /\ pc' = [pc EXCEPT ![w] = "streaming"]
    /\ containers' = containers \cup {job[w]}
    /\ launches' = [launches EXCEPT ![job[w]] = @ + 1]
    /\ UNCHANGED <<row, apiVars, brokerVars, job, exitCode, faultVars>>

\* docker.from_env raises, before the row is reloaded; or, after that, parameters is
\* NULL, the image is missing or the daemon refuses.
RunFails(w) ==
    /\ pc[w] = "marked"
    /\ \E loaded \in {"absent", row[job[w][1]]} : seen' = [seen EXCEPT ![w] = loaded]
    /\ pc' = [pc EXCEPT ![w] = "failing"]
    /\ UNCHANGED <<row, apiVars, brokerVars, job, dockerVars, faultVars>>

\* Following the logs raises (a chunk that is not UTF-8, a lost connection),
\* or container.wait finds the container already auto-removed.  The container
\* is left alone.
StreamFails(w) ==
    /\ pc[w] = "streaming"
    /\ pc' = [pc EXCEPT ![w] = "failing"]
    /\ UNCHANGED <<row, apiVars, brokerVars, job, seen, dockerVars, faultVars>>

\* The daemon reports the end of a container (external).
ContainerExits(d) ==
    /\ d \in containers
    /\ containers' = containers \ {d}
    /\ \E code \in {"zero", "nonzero"} : exitCode' = [exitCode EXCEPT ![d] = code]
    /\ UNCHANGED <<row, apiVars, brokerVars, workerVars, launches, faultVars>>

\* The worker writes `result` to the row, commits and is free again.
Record(w, result) ==
    /\ row' = [row EXCEPT ![job[w][1]] = Put(seen[w], result, @)]
    /\ pc' = [pc EXCEPT ![w] = "idle"]
    /\ job' = [job EXCEPT ![w] = None]
    /\ seen' = [seen EXCEPT ![w] = "absent"]
    /\ UNCHANGED <<apiVars, brokerVars, dockerVars, faultVars>>

\* Mutant of FinishExit: the exit code is not looked at.
FinishExitIgnoresCode(w) ==
    /\ pc[w] = "streaming"
    /\ job[w] \notin containers
    /\ Record(w, "success")

\* The logs ended and container.wait returned the exit code.
FinishExit(w) ==
    /\ pc[w] = "streaming"
    /\ job[w] \notin containers
    /\ Record(w, IF exitCode[job[w]] = "zero" THEN "success" ELSE "failed")

\* Mutant of FinishException: records the status the SQL schema has and the
\* enum does not.
FinishExceptionTimeout(w) ==
    /\ pc[w] = "failing"
    /\ Record(w, "timeout")

\* Mutant of FinishException: the except clause forgets its commit.
FinishExceptionNoCommit(w) ==
    /\ pc[w] = "failing"
    /\ Record(w, seen[w])

\* The except clause records FAILED.
FinishException(w) ==
    /\ pc[w] = "failing"
    /\ Record(w, "failed")

\* The worker process dies, or the commit of the except clause raises.  The
\* task was acknowledged when it started, so nobody runs it again; messages
\* it had only prefetched stay unacknowledged in the broker.
WorkerDies(w) ==
    /\ crashes < MaxCrashes
    /\ pc[w] # "idle" \/ held[w] # {}
    /\ crashes' = crashes + 1
    /\ lost' = IF pc[w] = "idle" THEN lost ELSE lost \cup {job[w][1]}
    /\ pc' = [pc EXCEPT ![w] = "idle"]
    /\ job' = [job EXCEPT ![w] = None]
    /\ seen' = [seen EXCEPT ![w] = "absent"]
    /\ held' = [held EXCEPT ![w] = {}]
    /\ UNCHANGED <<row, apiVars, broker, dockerVars>>

-----------------------------------------------------------------------------

Next ==
    \/ \E e \in Executions :
        \/ CreateExecution(e) \/ Enqueue(e) \/ EnqueueFails(e) \/ PublishStarted(e)
        \/ CancelCheck(e) \/ CancelCommit(e)
    \/ \E d \in Deliveries : Redeliver(d) \/ ContainerExits(d)
    \/ \E w \in Workers, d \in Deliveries : Prefetch(w, d) \/ StartTask(w, d)
    \/ \E w \in Workers :
        \/ MarkRunning(w) \/ RunContainer(w) \/ RunFails(w) \/ StreamFails(w)
        \/ FinishExit(w) \/ FinishException(w) \/ WorkerDies(w)

\* A live worker keeps taking steps, and a started handler runs to its reply.
\* Scripts are assumed to end: the worker puts no time limit on them.
Fairness ==
    /\ \A e \in Executions :
        WF_vars(Enqueue(e) \/ EnqueueFails(e)) /\ WF_vars(CancelCommit(e))
    /\ \A d \in Deliveries : WF_vars(ContainerExits(d))
    /\ \A d \in Deliveries : WF_vars(\E w \in Workers : Prefetch(w, d))
    /\ \A w \in Workers :
        /\ WF_vars(\E d \in Deliveries : StartTask(w, d))
        /\ WF_vars(MarkRunning(w))
        /\ WF_vars(RunContainer(w) \/ RunFails(w))
        /\ WF_vars(FinishExit(w))
        /\ WF_vars(FinishException(w))
    \* The visibility timeout is a timer of the broker.
    /\ \A d \in Deliveries : WF_vars(Redeliver(d))

Spec == Init /\ [][Next]_vars
FairSpec == Spec /\ Fairness
-----------------------------------------------------------------------------
(* Correctness.                                                            *)

\* The worker that answers for a RUNNING row: it has committed RUNNING and its
\* last read of the row, if any, still saw that.
RunsIt(w, e) ==
    /\ job[w] # None /\ job[w][1] = e
    /\ \/ pc[w] = "marked"
       \/ pc[w] \in {"streaming", "failing"} /\ seen[w] = "running"
       \/ pc[w] = "failing" /\ seen[w] = "absent"

\* Something that will still move a PENDING row: the request before its
\* enqueue, a message the broker has, or a worker that has queried the row.
WillRun(e) ==
    \/ handler[e] = "committed"
    \/ \E d \in Deliveries : d[1] = e /\ broker[d] \in {"queued", "reserved"}
    \/ \E w \in Workers : job[w] # None /\ job[w][1] = e /\ pc[w] = "queried"

\* No execution is stuck in an active state for a reason other than the two
\* failures the code does not handle: a PENDING row whose request failed to
\* enqueue the task, and a row whose worker died with the acknowledged task
\* (execute_script_task, ExecutionService.cancel_execution and the broker
\* together, under every order of their commits).
ActiveHasOwner ==
    \A e \in Executions \ lost :
        /\ row[e] = "pending" => WillRun(e) \/ handler[e] = "failed"
        /\ row[e] = "running" => \E w \in Workers : RunsIt(w, e)

\* A row says SUCCESS only if some container of that execution ended with
\* exit code zero, whatever duplicates, cancels and log errors happened.
SuccessIsEarned ==
    \A e \in Executions :
        row[e] = "success" => \E d \in Deliveries : d[1] = e /\ exitCode[d] = "zero"

\* One delivery of a task starts at most one container: a script runs more
\* than once only when the broker itself redelivered its message.
OneLaunchPerDelivery == \A d \in Deliveries : launches[d] <= 1

\* A script never starts while its row still says PENDING: the RUNNING commit
\* comes first, and no later commit (of a stale session included) undoes it.
PendingNotLaunched ==
    \A d \in Deliveries : row[d[1]] \in {"absent", "pending"} => launches[d] = 0

\* Every execution that was enqueued comes to rest in a terminal status, for
\* good, unless its task died with a worker (or the bound on redeliveries
\* leaves a message with a dead worker).
EnqueuedSettles ==
    \A e \in Executions :
        handler[e] = "enqueued" ~>
            \/ [](row[e] \in Terminal)
            \/ e \in lost
            \/ crashes > 0 /\ broker[<<e, MaxRedeliver>>] # "absent"

\* The executions of which some container ended with exit code zero.
Earned == {e \in Executions : \E d \in Deliveries : d[1] = e /\ exitCode[d] = "zero"}

Promise == INSTANCE Lifecycle WITH status <- row, earned <- Earned

\* Every commit of the request, of cancel_execution and of a worker, through a
\* stale session or in a redelivery, is a step of the published life of an
\* execution: one request, no result before RUNNING, no SUCCESS that no script
\* earned, and never back to PENDING.
ImplementsLifecycle == Promise!Spec

\* "Cancel running execution": a cancelled execution stays cancelled.
CancelledIsFinal ==
    [][\A e \in Executions : row[e] = "cancelled" => row'[e] = "cancelled"]_row
=============================================================================
