--------------------------- MODULE ExecutionProofs ---------------------------
(***************************************************************************)
(* The safety of Execution for any number of executions, workers,          *)
(* redeliveries and worker deaths.  None of the properties is inductive:   *)
(* each needs to know which worker holds which delivery (Custody), that    *)
(* rows and messages appear in commit-before-enqueue order (RowFirst),     *)
(* what a session that loaded a PENDING row can still do (PendingFresh)    *)
(* and how containers and exit codes follow launches (DockerFollows).      *)
(***************************************************************************)
EXTENDS Execution, TLAPS

\* A busy worker has an acknowledged delivery that nobody else has; prefetched
\* deliveries are reserved, each by one worker.
Custody ==
    /\ \A w \in Workers : pc[w] = "idle" <=> job[w] = None
    /\ \A w \in Workers : job[w] # None => broker[job[w]] = "acked"
    /\ \A w \in Workers : \A d \in held[w] : broker[d] = "reserved"
    /\ \A v, w \in Workers : v # w /\ job[v] # None => job[v] # job[w]
    /\ \A v, w \in Workers : \A d \in held[v] : d \in held[w] => v = w

\* The row is committed before anything refers to it.
RowFirst ==
    /\ \A e \in Executions : handler[e] = "idle" <=> row[e] = "absent"
    /\ \A d \in Deliveries : broker[d] # "absent" => row[d[1]] # "absent"
    /\ \A e \in Executions :
        handler[e] \notin {"enqueued", "replied"} => broker[<<e, 0>>] = "absent"
    /\ \A e \in Executions : canceller[e] = "checked" => row[e] # "absent"

\* While a row is PENDING, every worker on it has only queried it.
PendingFresh ==
    \A w \in Workers :
        job[w] # None /\ row[job[w][1]] = "pending" =>
            pc[w] = "queried" /\ seen[w] = "pending"

\* A delivery is launched once, by the worker that acknowledged it, after that
\* worker's RUNNING commit.
LaunchOnce ==
    \A d \in Deliveries : launches[d] # 0 =>
        /\ launches[d] = 1
        /\ broker[d] = "acked"
        /\ row[d[1]] \notin {"absent", "pending"}
        /\ \A w \in Workers : job[w] = d => pc[w] \in {"streaming", "failing"}

\* A container runs or has ended only for a launched delivery, and ends once.
DockerFollows ==
    \A d \in Deliveries :
        /\ d \in containers => launches[d] # 0 /\ exitCode[d] = "none"
        /\ exitCode[d] # "none" => launches[d] # 0

IInv ==
    /\ TypeOK
    /\ Custody
    /\ RowFirst
    /\ PendingFresh
    /\ LaunchOnce
    /\ DockerFollows
    /\ ActiveHasOwner
    /\ SuccessIsEarned

-----------------------------------------------------------------------------

\* What a delivery is made of.
LEMMA DeliveryFacts ==
    /\ \A d \in Deliveries : d[1] \in Executions /\ d[2] \in 0..MaxRedeliver
    /\ \A e \in Executions, i \in 0..MaxRedeliver :
        <<e, i>> \in Deliveries /\ <<e, i>>[1] = e /\ <<e, i>>[2] = i
    /\ None \notin Deliveries
    /\ \A e \in Executions : <<e, 0>> \in Deliveries /\ <<e, 0>>[1] = e
  BY ExecutionAssumption DEF Deliveries

\* The invariant holds when the service starts with an empty table.
LEMMA InitIInv == Init => IInv
  BY DeliveryFacts DEF Init, IInv, TypeOK, Custody, RowFirst, PendingFresh,
     LaunchOnce, DockerFollows, ActiveHasOwner, SuccessIsEarned, ExecutionStatus

\* The INSERT of a new row.
LEMMA CreateExecutionStep ==
  ASSUME IInv, NEW e \in Executions, CreateExecution(e)
  PROVE  IInv'
<1> USE DeliveryFacts DEF CreateExecution, brokerVars, workerVars, dockerVars, faultVars
<1>1. TypeOK'
  BY DEF IInv, TypeOK, ExecutionStatus, Custody
<1>2. Custody'
  BY DEF IInv, TypeOK, Custody
<1>3. RowFirst'
  BY DEF IInv, TypeOK, RowFirst, Custody, Active
<1>4. PendingFresh'
  BY DEF IInv, TypeOK, Custody, RowFirst, PendingFresh, LaunchOnce
<1>5. LaunchOnce'
  BY DEF IInv, TypeOK, Custody, RowFirst, PendingFresh, LaunchOnce
<1>6. DockerFollows'
  BY DEF IInv, TypeOK, Custody, LaunchOnce, DockerFollows
<1>7. ActiveHasOwner'
  BY DEF IInv, TypeOK, Custody, RowFirst, PendingFresh, ActiveHasOwner, WillRun, RunsIt
<1>8. SuccessIsEarned'
  BY DEF IInv, TypeOK, Custody, DockerFollows, SuccessIsEarned
<1> QED BY <1>1, <1>2, <1>3, <1>4, <1>5, <1>6, <1>7, <1>8 DEF IInv

\* The task message reaches the broker.
LEMMA EnqueueStep ==
  ASSUME IInv, NEW e \in Executions, Enqueue(e)
  PROVE  IInv'
<1> USE DeliveryFacts DEF Enqueue, workerVars, dockerVars, faultVars
<1>1. TypeOK'
  BY DEF IInv, TypeOK, ExecutionStatus, Custody
<1>2. Custody'
  BY DEF IInv, TypeOK, Custody, RowFirst
<1>3. RowFirst'
  BY DEF IInv, TypeOK, RowFirst, Custody, Active
<1>4. PendingFresh'
  BY DEF IInv, TypeOK, Custody, RowFirst, PendingFresh, LaunchOnce
<1>5. LaunchOnce'
  BY DEF IInv, TypeOK, Custody, RowFirst, PendingFresh, LaunchOnce
<1>6. DockerFollows'
  BY DEF IInv, TypeOK, Custody, LaunchOnce, DockerFollows
<1>7. ActiveHasOwner'
  BY DEF IInv, TypeOK, Custody, RowFirst, PendingFresh, ActiveHasOwner, WillRun, RunsIt
<1>8. SuccessIsEarned'
  BY DEF IInv, TypeOK, Custody, DockerFollows, SuccessIsEarned
<1> QED BY <1>1, <1>2, <1>3, <1>4, <1>5, <1>6, <1>7, <1>8 DEF IInv

\* The task message is never sent.
LEMMA EnqueueFailsStep ==
  ASSUME IInv, NEW e \in Executions, EnqueueFails(e)
  PROVE  IInv'
<1> USE DeliveryFacts DEF EnqueueFails, brokerVars, workerVars, dockerVars, faultVars
<1>1. TypeOK'
  BY DEF IInv, TypeOK, ExecutionStatus, Custody
<1>2. Custody'
  BY DEF IInv, TypeOK, Custody
<1>3. RowFirst'
  BY DEF IInv, TypeOK, RowFirst, Custody, Active
<1>4. PendingFresh'
  BY DEF IInv, TypeOK, Custody, RowFirst, PendingFresh, LaunchOnce
<1>5. LaunchOnce'
  BY DEF IInv, TypeOK, Custody, RowFirst, PendingFresh, LaunchOnce
<1>6. DockerFollows'
  BY DEF IInv, TypeOK, Custody, LaunchOnce, DockerFollows
<1>7. ActiveHasOwner'
  BY DEF IInv, TypeOK, Custody, RowFirst, PendingFresh, ActiveHasOwner, WillRun, RunsIt
<1>8. SuccessIsEarned'
  BY DEF IInv, TypeOK, Custody, DockerFollows, SuccessIsEarned
<1> QED BY <1>1, <1>2, <1>3, <1>4, <1>5, <1>6, <1>7, <1>8 DEF IInv

\* The execution.started event.
LEMMA PublishStartedStep ==
  ASSUME IInv, NEW e \in Executions, PublishStarted(e)
  PROVE  IInv'
<1> USE DeliveryFacts DEF PublishStarted, brokerVars, workerVars, dockerVars, faultVars
<1>1. TypeOK'
  BY DEF IInv, TypeOK, ExecutionStatus, Custody
<1>2. Custody'
  BY DEF IInv, TypeOK, Custody
<1>3. RowFirst'
  BY DEF IInv, TypeOK, RowFirst, Custody, Active
<1>4. PendingFresh'
  BY DEF IInv, TypeOK, Custody, RowFirst, PendingFresh, LaunchOnce
<1>5. LaunchOnce'
  BY DEF IInv, TypeOK, Custody, RowFirst, PendingFresh, LaunchOnce
<1>6. DockerFollows'
  BY DEF IInv, TypeOK, Custody, LaunchOnce, DockerFollows
<1>7. ActiveHasOwner'
  BY DEF IInv, TypeOK, Custody, RowFirst, PendingFresh, ActiveHasOwner, WillRun, RunsIt
<1>8. SuccessIsEarned'
  BY DEF IInv, TypeOK, Custody, DockerFollows, SuccessIsEarned
<1> QED BY <1>1, <1>2, <1>3, <1>4, <1>5, <1>6, <1>7, <1>8 DEF IInv

\* The status check of cancel_execution.
LEMMA CancelCheckStep ==
  ASSUME IInv, NEW e \in Executions, CancelCheck(e)
  PROVE  IInv'
<1> USE DeliveryFacts DEF CancelCheck, brokerVars, workerVars, dockerVars, faultVars
<1>1. TypeOK'
  BY DEF IInv, TypeOK, ExecutionStatus, Custody
<1>2. Custody'
  BY DEF IInv, TypeOK, Custody
<1>3. RowFirst'
  BY DEF IInv, TypeOK, RowFirst, Custody, Active
<1>4. PendingFresh'
  BY DEF IInv, TypeOK, Custody, RowFirst, PendingFresh, LaunchOnce
<1>5. LaunchOnce'
  BY DEF IInv, TypeOK, Custody, RowFirst, PendingFresh, LaunchOnce
<1>6. DockerFollows'
  BY DEF IInv, TypeOK, Custody, LaunchOnce, DockerFollows
<1>7. ActiveHasOwner'
  BY DEF IInv, TypeOK, Custody, RowFirst, PendingFresh, ActiveHasOwner, WillRun, RunsIt
<1>8. SuccessIsEarned'
  BY DEF IInv, TypeOK, Custody, DockerFollows, SuccessIsEarned
<1> QED BY <1>1, <1>2, <1>3, <1>4, <1>5, <1>6, <1>7, <1>8 DEF IInv

\* The commit of cancel_execution, on a row that may have moved since the check.
LEMMA CancelCommitStep ==
  ASSUME IInv, NEW e \in Executions, CancelCommit(e)
  PROVE  IInv'
<1> USE DeliveryFacts DEF CancelCommit, brokerVars, workerVars, dockerVars, faultVars
<1>1. TypeOK'
  BY DEF IInv, TypeOK, ExecutionStatus, Custody
<1>2. Custody'
  BY DEF IInv, TypeOK, Custody
<1>3. RowFirst'
  BY DEF IInv, TypeOK, RowFirst, Custody, Active
<1>4. PendingFresh'
  BY DEF IInv, TypeOK, Custody, RowFirst, PendingFresh, LaunchOnce
<1>5. LaunchOnce'
  BY DEF IInv, TypeOK, Custody, RowFirst, PendingFresh, LaunchOnce
<1>6. DockerFollows'
  BY DEF IInv, TypeOK, Custody, LaunchOnce, DockerFollows
<1>7. ActiveHasOwner'
  BY DEF IInv, TypeOK, Custody, RowFirst, PendingFresh, ActiveHasOwner, WillRun, RunsIt
<1>8. SuccessIsEarned'
  BY DEF IInv, TypeOK, Custody, DockerFollows, SuccessIsEarned
<1> QED BY <1>1, <1>2, <1>3, <1>4, <1>5, <1>6, <1>7, <1>8 DEF IInv

\* A worker reserves a message.
LEMMA PrefetchStep ==
  ASSUME IInv, NEW w \in Workers, NEW d \in Deliveries, Prefetch(w, d)
  PROVE  IInv'
<1> USE DeliveryFacts DEF Prefetch, apiVars, workerVars, dockerVars, faultVars
<1>1. TypeOK'
  BY DEF IInv, TypeOK, ExecutionStatus, Custody
<1>2. Custody'
  BY DEF IInv, TypeOK, Custody
<1>3. RowFirst'
  BY DEF IInv, TypeOK, RowFirst, Custody, Active
<1>4. PendingFresh'
  BY DEF IInv, TypeOK, Custody, RowFirst, PendingFresh, LaunchOnce
<1>5. LaunchOnce'
  BY DEF IInv, TypeOK, Custody, RowFirst, PendingFresh, LaunchOnce
<1>6. DockerFollows'
  BY DEF IInv, TypeOK, Custody, LaunchOnce, DockerFollows
<1>7. ActiveHasOwner'
  BY DEF IInv, TypeOK, Custody, RowFirst, PendingFresh, ActiveHasOwner, WillRun, RunsIt
<1>8. SuccessIsEarned'
  BY DEF IInv, TypeOK, Custody, DockerFollows, SuccessIsEarned
<1> QED BY <1>1, <1>2, <1>3, <1>4, <1>5, <1>6, <1>7, <1>8 DEF IInv

\* The visibility timeout of a reserved message.
LEMMA RedeliverStep ==
  ASSUME IInv, NEW d \in Deliveries, Redeliver(d)
  PROVE  IInv'
<1> USE DeliveryFacts DEF apiVars, workerVars, dockerVars, faultVars
<1>0. /\ <<d[1], d[2] + 1>> \in Deliveries
      /\ <<d[1], d[2] + 1>>[1] = d[1]
      /\ \A e \in Executions : <<d[1], d[2] + 1>> # <<e, 0>>
  BY ExecutionAssumption DEF Redeliver
<1> DEFINE r == <<d[1], d[2] + 1>>
<1>a. r \in Deliveries /\ r[1] = d[1] /\ broker[r] = "absent" /\ broker[d] = "reserved"
      /\ broker' = [broker EXCEPT ![r] = "queued"]
      /\ UNCHANGED <<row, apiVars, held, workerVars, dockerVars, faultVars>>
      /\ \A e \in Executions : r # <<e, 0>>
  BY <1>0 DEF Redeliver
<1> HIDE DEF r
<1>1. TypeOK'
  BY <1>a DEF IInv, TypeOK, ExecutionStatus, Custody
<1>2. Custody'
  BY <1>a DEF IInv, TypeOK, Custody
<1>3. RowFirst'
  BY <1>a DEF IInv, TypeOK, RowFirst, Custody, Active
<1>4. PendingFresh'
  BY <1>a DEF IInv, TypeOK, Custody, RowFirst, PendingFresh, LaunchOnce
<1>5. LaunchOnce'
  BY <1>a DEF IInv, TypeOK, Custody, RowFirst, PendingFresh, LaunchOnce
<1>6. DockerFollows'
  BY <1>a DEF IInv, TypeOK, Custody, LaunchOnce, DockerFollows
<1>7. ActiveHasOwner'
  BY <1>a DEF IInv, TypeOK, Custody, RowFirst, PendingFresh, ActiveHasOwner, WillRun, RunsIt
<1>8. SuccessIsEarned'
  BY <1>a DEF IInv, TypeOK, Custody, DockerFollows, SuccessIsEarned
<1> QED BY <1>1, <1>2, <1>3, <1>4, <1>5, <1>6, <1>7, <1>8 DEF IInv

\* A worker acknowledges a delivery and queries its row.
LEMMA StartTaskStep ==
  ASSUME IInv, NEW w \in Workers, NEW d \in Deliveries, StartTask(w, d)
  PROVE  IInv'
<1> USE DeliveryFacts DEF StartTask, apiVars, workerVars, dockerVars, faultVars
<1>1. TypeOK'
  <2>1. row[d[1]] \in ExecutionStatus \cup {"absent"} /\ TypeOK
    BY DEF IInv, TypeOK
  <2>2. broker' \in [Deliveries -> {"absent", "queued", "reserved", "acked"}]
        /\ held' \in [Workers -> SUBSET Deliveries]
    BY <2>1 DEF TypeOK
  <2>3. /\ pc' \in [Workers -> {"idle", "queried", "marked", "streaming", "failing"}]
        /\ job' \in [Workers -> Deliveries \cup {None}]
        /\ seen' \in [Workers -> ExecutionStatus \cup {"absent"}]
    BY <2>1 DEF TypeOK
  <2> QED BY <2>1, <2>2, <2>3 DEF TypeOK
<1>2. Custody'
  BY DEF IInv, TypeOK, Custody
<1>3. RowFirst'
  BY DEF IInv, TypeOK, RowFirst, Custody, Active
<1>4. PendingFresh'
  BY DEF IInv, TypeOK, Custody, RowFirst, PendingFresh, LaunchOnce
<1>5. LaunchOnce'
  BY DEF IInv, TypeOK, Custody, RowFirst, PendingFresh, LaunchOnce
<1>6. DockerFollows'
  BY DEF IInv, TypeOK, Custody, LaunchOnce, DockerFollows
<1>7. ActiveHasOwner'
  <2> SUFFICES ASSUME NEW e \in Executions \ lost
               PROVE  /\ row[e] = "pending" => WillRun(e)' \/ handler[e] = "failed"
                      /\ row[e] = "running" => \E x \in Workers : RunsIt(x, e)'
    BY DEF ActiveHasOwner
  <2>1. ASSUME row[e] = "pending" PROVE WillRun(e)' \/ handler[e] = "failed"
    <3>1. WillRun(e) \/ handler[e] = "failed"
      BY <2>1 DEF IInv, ActiveHasOwner
    <3>2. CASE d[1] = e
      BY <2>1, <3>2 DEF IInv, TypeOK, WillRun
    <3>3. CASE d[1] # e
      <4>1. CASE handler[e] \in {"committed", "failed"}
        BY <4>1 DEF WillRun
      <4>2. ASSUME NEW x \in Deliveries, x[1] = e, broker[x] \in {"queued", "reserved"}
            PROVE  WillRun(e)'
        BY <3>3, <4>2 DEF IInv, TypeOK, WillRun
      <4>3. ASSUME NEW y \in Workers, job[y] # None, job[y][1] = e, pc[y] = "queried"
            PROVE  WillRun(e)'
        <5>1. pc'[y] = "queried" /\ job'[y] = job[y]
          BY <4>3 DEF IInv, TypeOK
        <5> QED BY <4>3, <5>1 DEF WillRun
      <4> QED BY <3>1, <4>1, <4>2, <4>3 DEF WillRun
    <3> QED BY <3>2, <3>3
  <2>2. ASSUME row[e] = "running" PROVE \E x \in Workers : RunsIt(x, e)'
    <3>1. PICK x \in Workers : RunsIt(x, e)
      BY <2>2 DEF IInv, ActiveHasOwner
    <3>2. x # w
      BY <3>1 DEF RunsIt
    <3> QED BY <3>1, <3>2 DEF IInv, TypeOK, RunsIt
  <2> QED BY <2>1, <2>2
<1>8. SuccessIsEarned'
  BY DEF IInv, TypeOK, Custody, DockerFollows, SuccessIsEarned
<1> QED BY <1>1, <1>2, <1>3, <1>4, <1>5, <1>6, <1>7, <1>8 DEF IInv

\* The RUNNING commit, by a session that may have loaded a stale row.
LEMMA MarkRunningStep ==
  ASSUME IInv, NEW w \in Workers, MarkRunning(w)
  PROVE  IInv'
<1> USE DeliveryFacts DEF MarkRunning, apiVars, brokerVars, dockerVars, faultVars, Put
<1>1. TypeOK'
  BY DEF IInv, TypeOK, ExecutionStatus, Custody
<1>2. Custody'
  BY DEF IInv, TypeOK, Custody
<1>3. RowFirst'
  BY DEF IInv, TypeOK, RowFirst, Custody, Active
<1>4. PendingFresh'
  BY DEF IInv, TypeOK, Custody, RowFirst, PendingFresh, LaunchOnce
<1>5. LaunchOnce'
  BY DEF IInv, TypeOK, Custody, RowFirst, PendingFresh, LaunchOnce
<1>6. DockerFollows'
  BY DEF IInv, TypeOK, Custody, LaunchOnce, DockerFollows
<1>7. ActiveHasOwner'
  BY DEF IInv, TypeOK, Custody, RowFirst, PendingFresh, ActiveHasOwner, WillRun, RunsIt
<1>8. SuccessIsEarned'
  BY DEF IInv, TypeOK, Custody, DockerFollows, SuccessIsEarned
<1> QED BY <1>1, <1>2, <1>3, <1>4, <1>5, <1>6, <1>7, <1>8 DEF IInv

\* The reload of the row and the launch.
LEMMA RunContainerStep ==
  ASSUME IInv, NEW w \in Workers, RunContainer(w)
  PROVE  IInv'
<1> USE DeliveryFacts DEF RunContainer, apiVars, brokerVars, faultVars
<1>1. TypeOK'
  BY DEF IInv, TypeOK, ExecutionStatus, Custody
<1>2. Custody'
  BY DEF IInv, TypeOK, Custody
<1>3. RowFirst'
  BY DEF IInv, TypeOK, RowFirst, Custody, Active
<1>4. PendingFresh'
  BY DEF IInv, TypeOK, Custody, RowFirst, PendingFresh, LaunchOnce
<1>5. LaunchOnce'
  BY DEF IInv, TypeOK, Custody, RowFirst, PendingFresh, LaunchOnce
<1>6. DockerFollows'
  BY DEF IInv, TypeOK, Custody, LaunchOnce, DockerFollows
<1>7. ActiveHasOwner'
  BY DEF IInv, TypeOK, Custody, RowFirst, PendingFresh, ActiveHasOwner, WillRun, RunsIt
<1>8. SuccessIsEarned'
  BY DEF IInv, TypeOK, Custody, DockerFollows, SuccessIsEarned
<1> QED BY <1>1, <1>2, <1>3, <1>4, <1>5, <1>6, <1>7, <1>8 DEF IInv

\* The launch raises.
LEMMA RunFailsStep ==
  ASSUME IInv, NEW w \in Workers, RunFails(w)
  PROVE  IInv'
<1> USE DeliveryFacts DEF RunFails, apiVars, brokerVars, dockerVars, faultVars
<1>1. TypeOK'
  <2>1. row[job[w][1]] \in ExecutionStatus \cup {"absent"}
    BY DEF IInv, TypeOK, Custody
  <2>2. seen' \in [Workers -> ExecutionStatus \cup {"absent"}]
    BY <2>1 DEF IInv, TypeOK
  <2> QED BY <2>2 DEF IInv, TypeOK
<1>2. Custody'
  BY DEF IInv, TypeOK, Custody
<1>3. RowFirst'
  BY DEF IInv, TypeOK, RowFirst, Custody, Active
<1>4. PendingFresh'
  BY DEF IInv, TypeOK, Custody, RowFirst, PendingFresh, LaunchOnce
<1>5. LaunchOnce'
  BY DEF IInv, TypeOK, Custody, RowFirst, PendingFresh, LaunchOnce
<1>6. DockerFollows'
  BY DEF IInv, TypeOK, Custody, LaunchOnce, DockerFollows
<1>7. ActiveHasOwner'
  BY DEF IInv, TypeOK, Custody, RowFirst, PendingFresh, ActiveHasOwner, WillRun, RunsIt
<1>8. SuccessIsEarned'
  BY DEF IInv, TypeOK, Custody, DockerFollows, SuccessIsEarned
<1> QED BY <1>1, <1>2, <1>3, <1>4, <1>5, <1>6, <1>7, <1>8 DEF IInv

\* Following the logs raises.
LEMMA StreamFailsStep ==
  ASSUME IInv, NEW w \in Workers, StreamFails(w)
  PROVE  IInv'
<1> USE DeliveryFacts DEF StreamFails, apiVars, brokerVars, dockerVars, faultVars
<1>1. TypeOK'
  BY DEF IInv, TypeOK, ExecutionStatus, Custody
<1>2. Custody'
  BY DEF IInv, TypeOK, Custody
<1>3. RowFirst'
  BY DEF IInv, TypeOK, RowFirst, Custody, Active
<1>4. PendingFresh'
  BY DEF IInv, TypeOK, Custody, RowFirst, PendingFresh, LaunchOnce
<1>5. LaunchOnce'
  BY DEF IInv, TypeOK, Custody, RowFirst, PendingFresh, LaunchOnce
<1>6. DockerFollows'
  BY DEF IInv, TypeOK, Custody, LaunchOnce, DockerFollows
<1>7. ActiveHasOwner'
  BY DEF IInv, TypeOK, Custody, RowFirst, PendingFresh, ActiveHasOwner, WillRun, RunsIt
<1>8. SuccessIsEarned'
  BY DEF IInv, TypeOK, Custody, DockerFollows, SuccessIsEarned
<1> QED BY <1>1, <1>2, <1>3, <1>4, <1>5, <1>6, <1>7, <1>8 DEF IInv

\* A container ends.
LEMMA ContainerExitsStep ==
  ASSUME IInv, NEW d \in Deliveries, ContainerExits(d)
  PROVE  IInv'
<1> USE DeliveryFacts DEF ContainerExits, apiVars, brokerVars, workerVars, faultVars
<1>1. TypeOK'
  BY DEF IInv, TypeOK, ExecutionStatus, Custody
<1>2. Custody'
  BY DEF IInv, TypeOK, Custody
<1>3. RowFirst'
  BY DEF IInv, TypeOK, RowFirst, Custody, Active
<1>4. PendingFresh'
  BY DEF IInv, TypeOK, Custody, RowFirst, PendingFresh, LaunchOnce
<1>5. LaunchOnce'
  BY DEF IInv, TypeOK, Custody, RowFirst, PendingFresh, LaunchOnce
<1>6. DockerFollows'
  BY DEF IInv, TypeOK, Custody, LaunchOnce, DockerFollows
<1>7. ActiveHasOwner'
  BY DEF IInv, TypeOK, Custody, RowFirst, PendingFresh, ActiveHasOwner, WillRun, RunsIt
<1>8. SuccessIsEarned'
  BY DEF IInv, TypeOK, Custody, DockerFollows, SuccessIsEarned
<1> QED BY <1>1, <1>2, <1>3, <1>4, <1>5, <1>6, <1>7, <1>8 DEF IInv

\* The commit of the exit code.
LEMMA FinishExitStep ==
  ASSUME IInv, NEW w \in Workers, FinishExit(w)
  PROVE  IInv'
<1> USE DeliveryFacts DEF FinishExit, Record, Put, apiVars, brokerVars, dockerVars, faultVars
<1>1. TypeOK'
  BY DEF IInv, TypeOK, ExecutionStatus, Custody
<1>2. Custody'
  BY DEF IInv, TypeOK, Custody
<1>3. RowFirst'
  BY DEF IInv, TypeOK, RowFirst, Custody, Active
<1>4. PendingFresh'
  BY DEF IInv, TypeOK, Custody, RowFirst, PendingFresh, LaunchOnce
<1>5. LaunchOnce'
  BY DEF IInv, TypeOK, Custody, RowFirst, PendingFresh, LaunchOnce
<1>6. DockerFollows'
  BY DEF IInv, TypeOK, Custody, LaunchOnce, DockerFollows
<1>7. ActiveHasOwner'
  BY DEF IInv, TypeOK, Custody, RowFirst, PendingFresh, ActiveHasOwner, WillRun, RunsIt
<1>8. SuccessIsEarned'
  BY DEF IInv, TypeOK, Custody, DockerFollows, SuccessIsEarned
<1> QED BY <1>1, <1>2, <1>3, <1>4, <1>5, <1>6, <1>7, <1>8 DEF IInv

\* The commit of the except clause.
LEMMA FinishExceptionStep ==
  ASSUME IInv, NEW w \in Workers, FinishException(w)
  PROVE  IInv'
<1> USE DeliveryFacts DEF FinishException, Record, Put, apiVars, brokerVars, dockerVars, faultVars
<1>1. TypeOK'
  BY DEF IInv, TypeOK, ExecutionStatus, Custody
<1>2. Custody'
  BY DEF IInv, TypeOK, Custody
<1>3. RowFirst'
  BY DEF IInv, TypeOK, RowFirst, Custody, Active
<1>4. PendingFresh'
  BY DEF IInv, TypeOK, Custody, RowFirst, PendingFresh, LaunchOnce
<1>5. LaunchOnce'
  BY DEF IInv, TypeOK, Custody, RowFirst, PendingFresh, LaunchOnce
<1>6. DockerFollows'
  BY DEF IInv, TypeOK, Custody, LaunchOnce, DockerFollows
<1>7. ActiveHasOwner'
  BY DEF IInv, TypeOK, Custody, RowFirst, PendingFresh, ActiveHasOwner, WillRun, RunsIt
<1>8. SuccessIsEarned'
  BY DEF IInv, TypeOK, Custody, DockerFollows, SuccessIsEarned
<1> QED BY <1>1, <1>2, <1>3, <1>4, <1>5, <1>6, <1>7, <1>8 DEF IInv

\* A worker dies, with or without a task.
LEMMA WorkerDiesStep ==
  ASSUME IInv, NEW w \in Workers, WorkerDies(w)
  PROVE  IInv'
<1> USE DeliveryFacts DEF WorkerDies, apiVars, dockerVars
<1>1. TypeOK'
  BY DEF IInv, TypeOK, ExecutionStatus, Custody
<1>2. Custody'
  BY DEF IInv, TypeOK, Custody
<1>3. RowFirst'
  BY DEF IInv, TypeOK, RowFirst, Custody, Active
<1>4. PendingFresh'
  BY DEF IInv, TypeOK, Custody, RowFirst, PendingFresh, LaunchOnce
<1>5. LaunchOnce'
  BY DEF IInv, TypeOK, Custody, RowFirst, PendingFresh, LaunchOnce
<1>6. DockerFollows'
  BY DEF IInv, TypeOK, Custody, LaunchOnce, DockerFollows
<1>7. ActiveHasOwner'
  BY DEF IInv, TypeOK, Custody, RowFirst, PendingFresh, ActiveHasOwner, WillRun, RunsIt
<1>8. SuccessIsEarned'
  BY DEF IInv, TypeOK, Custody, DockerFollows, SuccessIsEarned
<1> QED BY <1>1, <1>2, <1>3, <1>4, <1>5, <1>6, <1>7, <1>8 DEF IInv

\* Every step of the service preserves the invariant.
LEMMA NextIInv == IInv /\ [Next]_vars => IInv'
<1> SUFFICES ASSUME IInv, [Next]_vars PROVE IInv'
  OBVIOUS
<1>1. CASE UNCHANGED vars
  BY <1>1 DEF vars, apiVars, brokerVars, workerVars, dockerVars, faultVars, IInv,
     TypeOK, Custody, RowFirst, PendingFresh, LaunchOnce, DockerFollows,
     ActiveHasOwner, WillRun, RunsIt, SuccessIsEarned
<1>2. CASE \E e \in Executions :
              \/ CreateExecution(e) \/ Enqueue(e) \/ EnqueueFails(e)
              \/ PublishStarted(e) \/ CancelCheck(e) \/ CancelCommit(e)
  BY <1>2, CreateExecutionStep, EnqueueStep, EnqueueFailsStep, PublishStartedStep,
     CancelCheckStep, CancelCommitStep
<1>3. CASE \E d \in Deliveries : Redeliver(d) \/ ContainerExits(d)
  BY <1>3, RedeliverStep, ContainerExitsStep
<1>4. CASE \E w \in Workers, d \in Deliveries : Prefetch(w, d) \/ StartTask(w, d)
  BY <1>4, PrefetchStep, StartTaskStep
<1>5. CASE \E w \in Workers :
              \/ MarkRunning(w) \/ RunContainer(w) \/ RunFails(w) \/ StreamFails(w)
              \/ FinishExit(w) \/ FinishException(w) \/ WorkerDies(w)
  BY <1>5, MarkRunningStep, RunContainerStep, RunFailsStep, StreamFailsStep,
     FinishExitStep, FinishExceptionStep, WorkerDiesStep
<1> QED BY <1>1, <1>2, <1>3, <1>4, <1>5 DEF Next

\* The inductive invariant holds in every reachable state.
LEMMA IInvHolds == Spec => []IInv
  BY InitIInv, NextIInv, PTL DEF Spec

\* The state stays within its types, for every number of executions, workers,
\* redeliveries and crashes.
THEOREM TypeCorrect == Spec => []TypeOK
<1>1. IInv => TypeOK
  BY DEF IInv
<1> QED BY <1>1, IInvHolds, PTL

\* No row is stuck PENDING or RUNNING except through the two failures the code
\* leaves unhandled: a failed enqueue and the death of the worker that runs it.
THEOREM ActiveOwned == Spec => []ActiveHasOwner
<1>1. IInv => ActiveHasOwner
  BY DEF IInv
<1> QED BY <1>1, IInvHolds, PTL

\* SUCCESS is recorded only for a script that ended with exit code zero.
THEOREM SuccessEarned == Spec => []SuccessIsEarned
<1>1. IInv => SuccessIsEarned
  BY DEF IInv
<1> QED BY <1>1, IInvHolds, PTL

\* One delivery of a task starts at most one container.
THEOREM LaunchedOnce == Spec => []OneLaunchPerDelivery
<1>1. IInv => OneLaunchPerDelivery
  BY DEF IInv, TypeOK, LaunchOnce, OneLaunchPerDelivery
<1> QED BY <1>1, IInvHolds, PTL

\* No script starts while its row says PENDING.
THEOREM NoLaunchWhilePending == Spec => []PendingNotLaunched
<1>1. IInv => PendingNotLaunched
  BY DEF IInv, LaunchOnce, PendingNotLaunched
<1> QED BY <1>1, IInvHolds, PTL
-----------------------------------------------------------------------------
(* Execution implements Lifecycle.                                         *)

\* A step of the promised life of an execution, as the proof needs it.
PromiseStep ==
    \/ \E e \in Executions :
        \/ Promise!Request(e) \/ Promise!Run(e) \/ Promise!EndWell(e)
        \/ Promise!Succeed(e) \/ Promise!Fail(e) \/ Promise!Cancel(e)
    \/ row' = row /\ Earned' = Earned

\* What is earned changes only with the exit codes.
LEMMA EarnedKept ==
  ASSUME exitCode' = exitCode
  PROVE  Earned' = Earned
  BY DEF Earned

\* A worker's commit of `result` is a step of the promise: the row is past
\* PENDING, because a worker that has started its script is no longer `queried`.
LEMMA RecordPromised ==
  ASSUME IInv, NEW w \in Workers, NEW result,
         pc[w] \in {"streaming", "failing"}, Record(w, result),
         result \in {"success", "failed"},
         result = "success" => job[w][1] \in Earned
  PROVE  PromiseStep
<1> DEFINE e == job[w][1]
<1>1. /\ job[w] \in Deliveries
      /\ e \in Executions
      /\ row[e] \notin {"absent", "pending"}
  BY DeliveryFacts DEF IInv, TypeOK, Custody, RowFirst, PendingFresh
<1>2. Earned' = Earned
  BY EarnedKept DEF Record, dockerVars
<1>3. CASE seen[w] = result
  <2>1. row' = [row EXCEPT ![e] = row[e]]
    BY <1>3 DEF Record, Put
  <2>2. row' = row
    BY <2>1, <1>1 DEF IInv, TypeOK
  <2> QED BY <2>2, <1>2 DEF PromiseStep
<1>4. CASE seen[w] # result
  <2>1. row' = [row EXCEPT ![e] = result]
    BY <1>4 DEF Record, Put
  <2>2. Promise!Become(e, result) /\ Promise!Touched(e)
    BY <2>1, <1>1, <1>2 DEF Promise!Become, Promise!Touched
  <2>3. Promise!Succeed(e) \/ Promise!Fail(e)
    BY <2>2 DEF Promise!Succeed, Promise!Fail
  <2> QED BY <2>3, <1>1 DEF PromiseStep
<1> QED BY <1>3, <1>4

\* A container ends only for an execution that is past PENDING, and once.
LEMMA ContainerPromised ==
  ASSUME IInv, NEW d \in Deliveries, ContainerExits(d)
  PROVE  PromiseStep
<1> DEFINE e == d[1]
<1>1. e \in Executions /\ launches[d] # 0 /\ exitCode[d] = "none" /\ row' = row
  BY DeliveryFacts DEF IInv, DockerFollows, ContainerExits
<1>2. Promise!Touched(e)
  BY <1>1 DEF IInv, LaunchOnce, Promise!Touched
<1>3. PICK code \in {"zero", "nonzero"} : exitCode' = [exitCode EXCEPT ![d] = code]
  BY DEF ContainerExits
<1>4. CASE code = "zero"
  <2>1. Earned' = Earned \cup {e}
    BY <1>1, <1>3, <1>4 DEF Earned, IInv, TypeOK
  <2> QED BY <2>1, <1>1, <1>2 DEF PromiseStep, Promise!EndWell
<1>5. CASE code = "nonzero"
  <2>1. Earned' = Earned
    BY <1>1, <1>3, <1>5 DEF Earned, IInv, TypeOK
  <2> QED BY <2>1, <1>1 DEF PromiseStep
<1> QED BY <1>3, <1>4, <1>5

\* The commits of the API: INSERT and cancel.
LEMMA ApiPromised ==
  ASSUME IInv, NEW e \in Executions,
         \/ CreateExecution(e) \/ Enqueue(e) \/ EnqueueFails(e)
         \/ PublishStarted(e) \/ CancelCheck(e) \/ CancelCommit(e)
  PROVE  PromiseStep
<1>1. Earned' = Earned
  BY EarnedKept DEF CreateExecution, Enqueue, EnqueueFails, PublishStarted,
     CancelCheck, CancelCommit, dockerVars
<1>2. CASE CreateExecution(e)
  <2>1. row[e] = "absent"
    BY <1>2 DEF IInv, RowFirst, CreateExecution
  <2>2. Promise!Request(e)
    BY <1>1, <1>2, <2>1 DEF CreateExecution, Promise!Request, Promise!Become
  <2> QED BY <2>2 DEF PromiseStep
<1>3. CASE CancelCommit(e)
  <2>1. row[e] # "absent"
    BY <1>3 DEF IInv, RowFirst, CancelCommit
  <2>2. Promise!Cancel(e)
    BY <1>1, <1>3, <2>1 DEF CancelCommit, Promise!Cancel, Promise!Become
  <2> QED BY <2>2 DEF PromiseStep
<1>4. CASE Enqueue(e) \/ EnqueueFails(e) \/ PublishStarted(e) \/ CancelCheck(e)
  BY <1>1, <1>4 DEF PromiseStep, Enqueue, EnqueueFails, PublishStarted, CancelCheck
<1> QED BY <1>2, <1>3, <1>4

\* The RUNNING commit of a session that may be stale.
LEMMA MarkPromised ==
  ASSUME IInv, NEW w \in Workers, MarkRunning(w)
  PROVE  PromiseStep
<1> DEFINE e == job[w][1]
<1>1. e \in Executions /\ row[e] # "absent"
  BY DeliveryFacts DEF IInv, TypeOK, Custody, RowFirst, MarkRunning
<1>2. Earned' = Earned
  BY EarnedKept DEF MarkRunning, dockerVars
<1>3. CASE seen[w] = "running"
  <2>1. row' = [row EXCEPT ![e] = row[e]]
    BY <1>3 DEF MarkRunning, Put
  <2>2. row' = row
    BY <2>1, <1>1 DEF IInv, TypeOK
  <2> QED BY <2>2, <1>2 DEF PromiseStep
<1>4. CASE seen[w] # "running"
  <2>1. row' = [row EXCEPT ![e] = "running"]
    BY <1>4 DEF MarkRunning, Put
  <2>2. Promise!Run(e)
    BY <2>1, <1>1, <1>2 DEF Promise!Run, Promise!Become
  <2> QED BY <2>2, <1>1 DEF PromiseStep
<1> QED BY <1>3, <1>4

\* The broker, prefetching, launching, failing logs and dying touch neither the
\* row nor an exit code.
LEMMA OthersPromised ==
  ASSUME \/ \E d \in Deliveries : Redeliver(d)
         \/ \E w \in Workers, d \in Deliveries : Prefetch(w, d) \/ StartTask(w, d)
         \/ \E w \in Workers :
              RunContainer(w) \/ RunFails(w) \/ StreamFails(w) \/ WorkerDies(w)
         \/ UNCHANGED vars
  PROVE  PromiseStep
<1>1. row' = row /\ exitCode' = exitCode
  BY DEF Redeliver, Prefetch, StartTask, RunContainer, RunFails, StreamFails,
     WorkerDies, vars, dockerVars
<1> QED BY <1>1, EarnedKept DEF PromiseStep

\* Every step of the service is a step of the promise, or leaves it alone.
LEMMA NextPromised == IInv /\ [Next]_vars => PromiseStep
<1> SUFFICES ASSUME IInv, [Next]_vars PROVE PromiseStep
  OBVIOUS
<1>1. ASSUME NEW w \in Workers, FinishExit(w) PROVE PromiseStep
  <2>1. job[w] \in Deliveries /\ job[w][1] \in Executions
    BY <1>1, DeliveryFacts DEF FinishExit, IInv, TypeOK, Custody
  <2>2. CASE exitCode[job[w]] = "zero"
    <3>1. job[w][1] \in Earned
      BY <2>1, <2>2 DEF Earned
    <3> QED BY <1>1, <2>2, <3>1, RecordPromised DEF FinishExit
  <2>3. CASE exitCode[job[w]] # "zero"
    BY <1>1, <2>3, RecordPromised DEF FinishExit
  <2> QED BY <2>2, <2>3
<1>2. ASSUME NEW w \in Workers, FinishException(w) PROVE PromiseStep
  BY <1>2, RecordPromised DEF FinishException
<1> QED BY <1>1, <1>2, ContainerPromised, ApiPromised, MarkPromised, OthersPromised DEF Next

\* execution-service keeps the published life of an execution: its status leaves
\* PENDING only by a RUNNING or CANCELLED commit, results follow, SUCCESS only
\* when a script earned it, for any number of executions, workers and failures.
THEOREM LifecycleImplemented == Spec => ImplementsLifecycle
<1>1. Init => Promise!Init
  BY DEF Init, Promise!Init, Earned
<1>2. IInv /\ [Next]_vars => [Promise!Next]_<<row, Earned>>
  BY NextPromised DEF PromiseStep, Promise!Next
<1> QED BY <1>1, <1>2, IInvHolds, PTL DEF Spec, ImplementsLifecycle, Promise!Spec
=============================================================================
