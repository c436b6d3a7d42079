----------------------------- MODULE RunsProofs -----------------------------
(***************************************************************************)
(* Proofs about the scripts that run: the schedules that start them, the   *)
(* containers they run in, their tests and their analysis, for any         *)
(* schedules, runs, calls, images, suites, contents and bounds.            *)
(***************************************************************************)
EXTENDS AccessProofs

\* Whatever moves, each of these components takes a step of its own or none.
LEMMA RunsSteps ==
  ASSUME [Next]_vars
  PROVE  /\ [SC!Next]_(SC!svars) /\ [CR!Next]_(CR!dvars)
         /\ [TF!Next]_(TF!tvars) /\ [SA!Next]_(SA!avars)
  BY DEF Next, Others, vars, schedulerVars, containerVars, testsVars, analysisVars,
         SC!svars, CR!dvars, TF!tvars, SA!avars

-----------------------------------------------------------------------------

\* CallPlaces of a call by what there is to clean up.
Before == {"asked", "spawning", "new", "pulling", "creating"}
During == {"waiting", "reading", "killing", "removing"}
CallPlaces == Before \cup During \cup {"communicating", "returned"}
Remains == {"nothing", "unremoved", "unknown"}
States == {"none", "created", "running", "exited"}
Answers == ScriptExit \cup {-3, -2, -1, 0}
CallRows == [type : CR!ExecutorTypes, at : CallPlaces, image : Images, script : ScriptExit,
             answer : Answers, left : Remains]

ContainerTypes == call \in [Calls -> CallRows] /\ container \in [Calls -> States]

\* A call of type t at place p that leaves l, with container c: while there is a
\* container the call is at a place from where it is removed, and only calls for
\* the local executor have a process.
Fits(p, t, l, c) ==
    /\ p \in Before => c = "none" /\ l = "nothing"
    /\ p \in During => c # "none" /\ l = "nothing"
    /\ p \in {"spawning", "communicating"} => t = "local"
    /\ t = "local" => p \in {"asked", "spawning", "communicating", "returned"}
    /\ p = "returned" => IF t = "local" THEN c # "running" ELSE (c # "none") = (l # "nothing")

Where(k) == Fits(call[k].at, call[k].type, call[k].left, container[k])

ContainerInv == ContainerTypes /\ \A k \in Calls : Where(k)

LEMMA ContainerInit == CR!Init => ContainerInv
  BY DEF CR!Init, ContainerInv, ContainerTypes, Where, Fits, CallRows, Answers, Remains, CallPlaces,
         Before, During, States, CR!Nil

\* A step of one call leaves the others where they are.
LEMMA OneCallMoves ==
  ASSUME ContainerInv, NEW k \in Calls, NEW c \in CallRows, NEW s \in States,
         call' = [call EXCEPT ![k] = c], container' = [container EXCEPT ![k] = s],
         Fits(c.at, c.type, c.left, s)
  PROVE  ContainerInv'
<1>1. ContainerTypes'
  BY DEF ContainerInv, ContainerTypes
<1>2. \A j \in Calls : j # k => call'[j] = call[j] /\ container'[j] = container[j]
  BY DEF ContainerInv, ContainerTypes
<1>3. call'[k] = c /\ container'[k] = s
  BY DEF ContainerInv, ContainerTypes
<1>4. \A j \in Calls : Where(j)'
  BY <1>2, <1>3 DEF ContainerInv, Where
<1> QED BY <1>1, <1>4 DEF ContainerInv

\* Go to place p, where container s fits.
LEMMA GoMoves ==
  ASSUME ContainerInv, NEW k \in Calls, NEW p \in CallPlaces, NEW a \in Answers, NEW s \in States,
         CR!Go(k, p, a), container' = [container EXCEPT ![k] = s],
         Fits(p, call[k].type, call[k].left, s)
  PROVE  ContainerInv'
<1>1. /\ call'[k] \in CallRows /\ call' = [call EXCEPT ![k] = call'[k]]
      /\ call'[k].at = p /\ call'[k].type = call[k].type /\ call'[k].left = call[k].left
  BY DEF CR!Go, ContainerInv, ContainerTypes, CallRows
<1>2. Fits(call'[k].at, call'[k].type, call'[k].left, s)
  BY <1>1
<1> QED BY <1>1, <1>2, OneCallMoves

LEMMA PlacesAndAnswers ==
  /\ Before \subseteq CallPlaces /\ During \subseteq CallPlaces
  /\ "communicating" \in CallPlaces /\ "returned" \in CallPlaces /\ "removing" \in CallPlaces
  /\ \A e \in ScriptExit : e \in Answers
  /\ CR!Nil \in Answers /\ CR!Raised \in Answers /\ CR!Failed \in Answers /\ 0 \in Answers
  BY DEF CallPlaces, During, Answers, CR!Nil, CR!Raised, CR!Failed

\* A step that does not touch the containers.
LEMMA Kept ==
  ASSUME ContainerInv, NEW k \in Calls, container' = container
  PROVE  container' = [container EXCEPT ![k] = container[k]] /\ container[k] \in States
  BY DEF ContainerInv, ContainerTypes

\* `finally` removes what there is, or returns when there is nothing.
LEMMA FinallyFits ==
  \A t, s : t # "local" => Fits(IF s = "none" THEN "returned" ELSE "removing", t, "nothing", s)
  BY DEF Fits, Before, During

LEMMA FinallyKeeps ==
  ASSUME ContainerInv, NEW k \in Calls, NEW a \in Answers, NEW s \in States,
         container' = [container EXCEPT ![k] = s], CR!Finally(k, a),
         call[k].left = "nothing", call[k].type # "local"
  PROVE  ContainerInv'
<1> DEFINE p == IF s = "none" THEN "returned" ELSE "removing"
<1>1. container'[k] = s
  BY DEF ContainerInv, ContainerTypes
<1>2. CR!Go(k, p, a) /\ p \in CallPlaces
  BY <1>1, PlacesAndAnswers DEF CR!Finally
<1>3. Fits(p, call[k].type, call[k].left, s)
  BY FinallyFits
<1> HIDE DEF p
<1> QED BY <1>2, <1>3, GoMoves

\* A call goes to another place and its container stays as it is.
LEMMA MoveKeeps ==
  ASSUME ContainerInv, NEW k \in Calls, NEW p \in CallPlaces, NEW a \in Answers,
         CR!Go(k, p, a), container' = container,
         \/ call[k].at \in Before /\ p \in Before
         \/ call[k].at \in During /\ p \in During
         \/ call[k].at \in Before /\ p = "returned",
         p = "spawning" <=> call[k].type = "local" /\ p # "returned"
  PROVE  ContainerInv'
<1>1. Where(k)
  BY DEF ContainerInv
<1>2. Fits(p, call[k].type, call[k].left, container[k])
  BY <1>1 DEF Where, Fits, Before, During
<1> QED BY <1>2, Kept, GoMoves

LEMMA GetExecutorKeeps ==
  ASSUME ContainerInv, NEW k \in Calls, CR!GetExecutor(k)
  PROVE  ContainerInv'
<1>1. call[k].at = "asked" /\ container' = container
  BY DEF CR!GetExecutor
<1>2. CASE call[k].type = "docker"
  BY <1>1, <1>2, MoveKeeps, PlacesAndAnswers DEF CR!GetExecutor, Before
<1>3. CASE call[k].type = "local"
  BY <1>1, <1>3, MoveKeeps, PlacesAndAnswers DEF CR!GetExecutor, Before
<1>4. CASE call[k].type \notin {"docker", "local"}
  <2>1. CR!Go(k, "returned", CR!Raised)
    BY <1>4 DEF CR!GetExecutor
  <2>2. call[k].at \in Before
    BY <1>1 DEF Before
  <2> QED BY <1>1, <1>4, <2>1, <2>2, MoveKeeps, PlacesAndAnswers
<1> QED BY <1>2, <1>3, <1>4

LEMMA SpawnKeeps ==
  ASSUME ContainerInv, NEW k \in Calls, CR!Spawn(k)
  PROVE  ContainerInv'
<1>1. call[k].at = "spawning" /\ call[k].type = "local" /\ call[k].left = "nothing"
  BY DEF CR!Spawn, ContainerInv, Where, Fits, Before
<1>2. CASE CR!Go(k, "returned", CR!Raised) /\ container' = container
  BY <1>1, <1>2, MoveKeeps, PlacesAndAnswers DEF Before
<1>3. CASE CR!Go(k, "communicating", CR!Nil) /\ container' = [container EXCEPT ![k] = "running"]
  <2>1. Fits("communicating", call[k].type, call[k].left, "running") /\ "running" \in States
    BY <1>1 DEF Fits, Before, During, States
  <2> QED BY <1>3, <2>1, GoMoves, PlacesAndAnswers
<1> QED BY <1>2, <1>3 DEF CR!Spawn

LEMMA ExitsKeeps ==
  ASSUME ContainerInv, NEW k \in Calls, CR!Exits(k)
  PROVE  ContainerInv'
<1>1. call[k].at = "communicating" /\ container' = [container EXCEPT ![k] = "exited"] /\ call' = call
  BY DEF CR!Exits
<1>2. call' = [call EXCEPT ![k] = call[k]] /\ call[k] \in CallRows /\ "exited" \in States
  BY <1>1 DEF ContainerInv, ContainerTypes, States
<1>3. Fits(call[k].at, call[k].type, call[k].left, "exited")
  BY <1>1 DEF ContainerInv, Where, Fits, Before, During
<1> QED BY <1>1, <1>2, <1>3, OneCallMoves

LEMMA CommunicateKeeps ==
  ASSUME ContainerInv, NEW k \in Calls, CR!Communicate(k)
  PROVE  ContainerInv'
<1>1. call[k].at = "communicating" /\ call[k].type = "local"
  BY DEF CR!Communicate, ContainerInv, Where, Fits
<1>2. call[k].script \in Answers
  BY PlacesAndAnswers DEF ContainerInv, ContainerTypes, CallRows
<1>3. Fits("returned", call[k].type, call[k].left, "exited") /\ "exited" \in States
  BY <1>1 DEF Fits, Before, During, States
<1>4. CASE container[k] = "exited" /\ CR!Go(k, "returned", call[k].script) /\ container' = container
  BY <1>2, <1>3, <1>4, Kept, GoMoves, PlacesAndAnswers
<1>5. CASE CR!Go(k, "returned", CR!Failed) /\ container' = [container EXCEPT ![k] = "exited"]
  BY <1>3, <1>5, GoMoves, PlacesAndAnswers
<1> QED BY <1>4, <1>5 DEF CR!Communicate

LEMMA EnsureAndPullKeep ==
  ASSUME ContainerInv, NEW k \in Calls, CR!EnsureImage(k) \/ CR!Pull(k)
  PROVE  ContainerInv'
<1>1. call[k].at \in {"new", "pulling"} /\ call[k].type # "local" /\ container' = container
  BY DEF CR!EnsureImage, CR!Pull, ContainerInv, Where, Fits
<1>2. CR!Go(k, "creating", CR!Nil) \/ CR!Go(k, "pulling", CR!Nil)
  BY DEF CR!EnsureImage, CR!Pull
<1> QED BY <1>1, <1>2, MoveKeeps, PlacesAndAnswers DEF Before

LEMMA CreateKeeps ==
  ASSUME ContainerInv, NEW k \in Calls, CR!Create(k)
  PROVE  ContainerInv'
<1>1. call[k].type # "local" /\ call[k].left = "nothing"
  BY DEF CR!Create, ContainerInv, Where, Fits, Before
<1>2. Fits("waiting", call[k].type, call[k].left, "created") /\ "created" \in States
  BY <1>1 DEF Fits, Before, During, States
<1>3. CR!Go(k, "waiting", CR!Nil) /\ container' = [container EXCEPT ![k] = "created"]
  BY DEF CR!Create
<1>4. "waiting" \in CallPlaces
  BY DEF CallPlaces, During
<1> QED BY <1>2, <1>3, <1>4, GoMoves, PlacesAndAnswers

LEMMA CreateUnansweredKeeps ==
  ASSUME ContainerInv, NEW k \in Calls, CR!CreateUnanswered(k)
  PROVE  ContainerInv'
<1>1. call[k].type # "local"
  BY DEF CR!CreateUnanswered, ContainerInv, Where, Fits
<1>2. container' = [container EXCEPT ![k] = "created"] /\ "created" \in States
  BY DEF CR!CreateUnanswered, States
<1>3. call' = [call EXCEPT ![k].at = "returned", ![k].answer = CR!Failed, ![k].left = "unknown"]
  BY DEF CR!CreateUnanswered
<1>4. "unknown" \in Remains
  BY DEF Remains
<1>5. /\ call'[k] \in CallRows /\ call' = [call EXCEPT ![k] = call'[k]]
      /\ call'[k].at = "returned" /\ call'[k].type = call[k].type /\ call'[k].left = "unknown"
  BY <1>3, <1>4, PlacesAndAnswers DEF ContainerInv, ContainerTypes, CallRows
<1>6. Fits(call'[k].at, call'[k].type, call'[k].left, "created")
  BY <1>1, <1>5 DEF Fits, Before, During
<1> QED BY <1>2, <1>5, <1>6, OneCallMoves

LEMMA WaitKeeps ==
  ASSUME ContainerInv, NEW k \in Calls, CR!Wait(k)
  PROVE  ContainerInv'
<1>1. call[k].at = "waiting" /\ call[k].type # "local" /\ container' = container
  BY DEF CR!Wait, ContainerInv, Where, Fits
<1>2. CR!StatusCode(k) \in Answers
  BY PlacesAndAnswers DEF CR!StatusCode, ContainerInv, ContainerTypes, CallRows
<1>3. CR!Go(k, "reading", CR!StatusCode(k))
  BY DEF CR!Wait
<1> QED BY <1>1, <1>2, <1>3, MoveKeeps, PlacesAndAnswers DEF During

LEMMA TimeOutKeeps ==
  ASSUME ContainerInv, NEW k \in Calls, CR!TimeOut(k)
  PROVE  ContainerInv'
<1>1. call[k].at = "waiting" /\ call[k].type # "local" /\ container' = container
  BY DEF CR!TimeOut, ContainerInv, Where, Fits
<1>2. CR!Go(k, "killing", CR!Nil)
  BY DEF CR!TimeOut
<1> QED BY <1>1, <1>2, MoveKeeps, PlacesAndAnswers DEF During

\* What is asked of the daemon once there may be a container.
LEMMA UnderWay ==
  ASSUME ContainerInv, NEW k \in Calls, call[k].at \in (Before \ {"asked", "spawning"}) \cup During
  PROVE  call[k].left = "nothing" /\ call[k].type # "local"
  BY DEF ContainerInv, Where, Fits, Before, During

LEMMA KillKeeps ==
  ASSUME ContainerInv, NEW k \in Calls, CR!Kill(k)
  PROVE  ContainerInv'
<1>1. call[k].left = "nothing" /\ call[k].type # "local"
  BY UnderWay DEF CR!Kill, During
<1>2. PICK s \in States : container' = [container EXCEPT ![k] = s]
  BY DEF CR!Kill, ContainerInv, ContainerTypes, States
<1>3. PICK a \in Answers : CR!Finally(k, a)
  BY PlacesAndAnswers DEF CR!Kill
<1> QED BY <1>1, <1>2, <1>3, FinallyKeeps

LEMMA ReadLogsKeeps ==
  ASSUME ContainerInv, NEW k \in Calls, CR!ReadLogs(k)
  PROVE  ContainerInv'
<1>1. call[k].left = "nothing" /\ call[k].type # "local"
  BY UnderWay DEF CR!ReadLogs, During
<1>2. call[k].answer \in Answers
  BY DEF ContainerInv, ContainerTypes, CallRows
<1>3. CR!Finally(k, call[k].answer) /\ container' = container
  BY DEF CR!ReadLogs
<1> QED BY <1>1, <1>2, <1>3, Kept, FinallyKeeps

LEMMA CallFailsKeeps ==
  ASSUME ContainerInv, NEW k \in Calls, CR!CallFails(k)
  PROVE  ContainerInv'
<1>1. call[k].left = "nothing" /\ call[k].type # "local"
  BY UnderWay DEF CR!CallFails, Before, During
<1>2. CR!Finally(k, CR!Failed) /\ container' = container
  BY DEF CR!CallFails
<1> QED BY <1>1, <1>2, Kept, FinallyKeeps, PlacesAndAnswers

LEMMA RemoveKeeps ==
  ASSUME ContainerInv, NEW k \in Calls, CR!Remove(k)
  PROVE  ContainerInv'
<1>1. call[k].type # "local" /\ container[k] # "none" /\ call[k].left = "nothing"
  BY DEF CR!Remove, ContainerInv, Where, Fits, During
<1>2. CASE /\ container' = [container EXCEPT ![k] = "none"]
           /\ call' = [call EXCEPT ![k].at = "returned"]
  <2>1. /\ call'[k] \in CallRows /\ call' = [call EXCEPT ![k] = call'[k]]
        /\ call'[k].at = "returned" /\ call'[k].type = call[k].type
        /\ call'[k].left = call[k].left
    BY <1>2, PlacesAndAnswers DEF ContainerInv, ContainerTypes, CallRows
  <2>2. Fits(call'[k].at, call'[k].type, call'[k].left, "none") /\ "none" \in States
    BY <1>1, <2>1 DEF Fits, Before, During, States
  <2> QED BY <1>2, <2>1, <2>2, OneCallMoves
<1>3. CASE /\ container' = container
           /\ call' = [call EXCEPT ![k].at = "returned", ![k].left = "unremoved"]
  <2>1. "unremoved" \in Remains
    BY DEF Remains
  <2>2. /\ call'[k] \in CallRows /\ call' = [call EXCEPT ![k] = call'[k]]
        /\ call'[k].at = "returned" /\ call'[k].type = call[k].type
        /\ call'[k].left = "unremoved"
    BY <1>3, <2>1, PlacesAndAnswers DEF ContainerInv, ContainerTypes, CallRows
  <2>3. Fits(call'[k].at, call'[k].type, call'[k].left, container[k])
    BY <1>1, <2>2 DEF Fits, Before, During
  <2>4. PICK c \in CallRows, t \in States :
          /\ call' = [call EXCEPT ![k] = c] /\ container' = [container EXCEPT ![k] = t]
          /\ Fits(c.at, c.type, c.left, t)
    BY <1>3, <2>2, <2>3, Kept
  <2> QED BY <2>4, OneCallMoves
<1> QED BY <1>2, <1>3 DEF CR!Remove

\* The invariant is inductive.
LEMMA ContainerNext ==
  ASSUME ContainerInv, [CR!Next]_(CR!dvars)
  PROVE  ContainerInv'
<1>1. CASE UNCHANGED CR!dvars
  BY <1>1 DEF CR!dvars, ContainerInv, ContainerTypes, Where
<1>2. ASSUME NEW k \in Calls, CR!GetExecutor(k) \/ CR!Spawn(k) \/ CR!Exits(k) \/ CR!Communicate(k)
      PROVE  ContainerInv'
  BY <1>2, GetExecutorKeeps, SpawnKeeps, ExitsKeeps, CommunicateKeeps
<1>3. ASSUME NEW k \in Calls, \/ CR!EnsureImage(k) \/ CR!Pull(k) \/ CR!Create(k)
                               \/ CR!CreateUnanswered(k) \/ CR!Wait(k)
      PROVE  ContainerInv'
  BY <1>3, EnsureAndPullKeep, CreateKeeps, CreateUnansweredKeeps, WaitKeeps
<1>4. ASSUME NEW k \in Calls, \/ CR!TimeOut(k) \/ CR!Kill(k) \/ CR!ReadLogs(k)
                               \/ CR!CallFails(k) \/ CR!Remove(k)
      PROVE  ContainerInv'
  BY <1>4, TimeOutKeeps, KillKeeps, ReadLogsKeeps, CallFailsKeeps, RemoveKeeps
<1> QED BY <1>1, <1>2, <1>3, <1>4 DEF CR!Next

\* Whichever call to the daemon fails or hangs, and however many scripts run, a
\* finished execution has left no container but for a failed removal or an answer
\* it never got, and a local one no process (docker_client.py, execute_script).
THEOREM ContainersRemoved == Spec => []LeavesNothing
<1>1. Init => ContainerInv
  BY ContainerInit DEF Init
<1>2. ContainerInv /\ [Next]_vars => ContainerInv'
  BY RunsSteps, ContainerNext
<1>3. ContainerInv => LeavesNothing
  BY DEF ContainerInv, Where, Fits, LeavesNothing, CR!LeavesNothing
<1> QED BY <1>1, <1>2, <1>3, PTL DEF Spec

-----------------------------------------------------------------------------

\* A run that is not there yet names any schedule.
Named == Schedules \cup {CHOOSE s \in Schedules : TRUE}
RunPlaces == {"free", "posted", "created", "refused"}
ScheduleRows == [there : BOOLEAN, is_active : BOOLEAN, run_count : Nat]
RunRows == [at : RunPlaces, s : Named, cron : BOOLEAN, loaded : Nat]

SchedulerTypes ==
    /\ schedule \in [Schedules -> ScheduleRows]
    /\ run \in [Runs -> RunRows]
    /\ late \in [Schedules -> Nat]
    /\ executions \in [Schedules -> Nat]
    /\ IsFiniteSet({r \in Runs : run[r].at # "free"})
    /\ \A r \in Runs : run[r].at # "free" => run[r].s \in Schedules

\* The schedules are those with a job and those whose creation was cut short.
RowsAccounted == SC!Rows = jobs \cup cut /\ jobs \cap cut = {}

\* Run r is one of s, as long as it is on its way.
On(r, s) == run[r].at # "free" /\ run[r].s = s

\* What a run that was loaded before it posted may write is no more than what
\* exists by then; and while s is undisturbed it has one run at a time, which
\* loaded the count as it stands.
CountTrue(s) ==
    /\ schedule[s].run_count <= executions[s]
    /\ \A r \in Runs : On(r, s) =>
         IF run[r].at = "created" THEN run[r].loaded + 1 <= executions[s]
         ELSE run[r].loaded <= executions[s]
    /\ s \notin disturbed =>
         /\ late[s] = 0
         /\ \A r, q \in Runs : On(r, s) /\ On(q, s) => r = q
         /\ \A r \in Runs : On(r, s) =>
              /\ run[r].loaded = schedule[s].run_count
              /\ executions[s] = IF run[r].at = "created" THEN run[r].loaded + 1
                                 ELSE run[r].loaded
         /\ (\A r \in Runs : ~On(r, s)) => schedule[s].run_count = executions[s]

SchedulerInv ==
    /\ SchedulerTypes
    /\ RowsAccounted
    /\ \A s \in Schedules : CountTrue(s)

LEMMA FreeRow ==
  SC!Free \in RunRows /\ SC!Free.at = "free"
  BY DEF SC!Free, RunRows, RunPlaces, Named

LEMMA SchedulerInit == SC!Init => SchedulerInv
<1> SUFFICES ASSUME SC!Init PROVE SchedulerInv
  OBVIOUS
<1>1. \A r \in Runs : run[r] = SC!Free /\ run[r].at = "free"
  BY FreeRow DEF SC!Init
<1>2. IsFiniteSet({r \in Runs : run[r].at # "free"})
  <2>1. {r \in Runs : run[r].at # "free"} = {}
    BY <1>1
  <2> QED BY <2>1, FS_EmptySet
<1>3. run \in [Runs -> RunRows]
  BY FreeRow DEF SC!Init
<1>4. SchedulerTypes
  BY <1>1, <1>2, <1>3 DEF SC!Init, SchedulerTypes, ScheduleRows
<1>5. RowsAccounted
  BY DEF SC!Init, SC!Rows, RowsAccounted
<1>6. \A s \in Schedules : CountTrue(s)
  BY <1>1 DEF SC!Init, CountTrue, On
<1> QED BY <1>4, <1>5, <1>6 DEF SchedulerInv

\* A step that leaves the count, the executions and the runs of s alone.
LEMMA CountUntouched ==
  ASSUME NEW s \in Schedules, CountTrue(s),
         schedule'[s].run_count = schedule[s].run_count,
         executions'[s] = executions[s], late'[s] = late[s], disturbed \subseteq disturbed',
         \A r \in Runs : On(r, s) \/ On(r, s)' => run'[r] = run[r]
  PROVE  CountTrue(s)'
  BY DEF CountTrue, On

\* The rows change, and nothing they count.
LEMMA RowKept ==
  ASSUME SchedulerInv, UNCHANGED <<run, late, executions, disturbed>>,
         schedule' \in [Schedules -> ScheduleRows],
         \A s \in Schedules : schedule'[s].run_count = schedule[s].run_count,
         RowsAccounted'
  PROVE  SchedulerInv'
<1>1. SchedulerTypes'
  BY DEF SchedulerInv, SchedulerTypes
<1>2. \A s \in Schedules : CountTrue(s)'
  BY DEF SchedulerInv, CountTrue, On
<1> QED BY <1>1, <1>2 DEF SchedulerInv

LEMMA CreateScheduleKeeps ==
  ASSUME SchedulerInv, NEW s \in Schedules, SC!CreateSchedule(s)
  PROVE  SchedulerInv'
<1>1. /\ ~schedule[s].there
      /\ schedule' = [schedule EXCEPT ![s].there = TRUE, ![s].is_active = TRUE]
      /\ UNCHANGED <<run, late, executions, disturbed>>
      /\ \/ jobs' = jobs \cup {s} /\ UNCHANGED cut
         \/ cut' = cut \cup {s} /\ UNCHANGED jobs
  BY DEF SC!CreateSchedule, SC!CommitThenAddJob
<1>2. schedule' \in [Schedules -> ScheduleRows]
  BY <1>1 DEF SchedulerInv, SchedulerTypes, ScheduleRows
<1>3. /\ schedule'[s].there /\ schedule'[s].run_count = schedule[s].run_count
      /\ \A t \in Schedules : t # s => schedule'[t] = schedule[t]
  BY <1>1 DEF SchedulerInv, SchedulerTypes, ScheduleRows
<1>4. SC!Rows' = SC!Rows \cup {s} /\ s \notin SC!Rows
  BY <1>1, <1>3 DEF SC!Rows
<1>5. RowsAccounted'
  BY <1>1, <1>4 DEF SchedulerInv, RowsAccounted
<1> QED BY <1>1, <1>2, <1>3, <1>5, RowKept

LEMMA UpdateStatusKeeps ==
  ASSUME SchedulerInv, NEW s \in Schedules, NEW on \in BOOLEAN, SC!UpdateStatus(s, on)
  PROVE  SchedulerInv'
<1>1. /\ schedule' = [schedule EXCEPT ![s].is_active = on]
      /\ UNCHANGED <<jobs, cut, run, late, executions, disturbed>>
  BY DEF SC!UpdateStatus
<1>2. schedule' \in [Schedules -> ScheduleRows]
  BY <1>1 DEF SchedulerInv, SchedulerTypes, ScheduleRows
<1>3. /\ schedule'[s].there = schedule[s].there /\ schedule'[s].run_count = schedule[s].run_count
      /\ \A t \in Schedules : t # s => schedule'[t] = schedule[t]
  BY <1>1 DEF SchedulerInv, SchedulerTypes, ScheduleRows
<1>4. RowsAccounted'
  BY <1>1, <1>3 DEF SchedulerInv, RowsAccounted, SC!Rows
<1> QED BY <1>1, <1>2, <1>3, <1>4, RowKept

LEMMA StartKeeps ==
  ASSUME SchedulerInv, NEW r \in Runs, NEW s \in Schedules, NEW cron \in BOOLEAN,
         SC!Start(r, s, cron)
  PROVE  SchedulerInv'
<1> DEFINE new == [at |-> "posted", s |-> s, cron |-> cron, loaded |-> schedule[s].run_count]
<1>1. /\ run[r].at = "free" /\ run' = [run EXCEPT ![r] = new]
      /\ disturbed' = IF SC!RunsOf(s) = {} THEN disturbed ELSE disturbed \cup {s}
      /\ UNCHANGED <<schedule, jobs, cut, late, executions>>
  BY DEF SC!Start
<1>2. new \in RunRows /\ schedule[s].run_count \in Nat
  BY DEF RunRows, RunPlaces, Named, SchedulerInv, SchedulerTypes, ScheduleRows
<1>3. /\ run' \in [Runs -> RunRows] /\ run'[r] = new
      /\ \A q \in Runs : q # r => run'[q] = run[q]
  BY <1>1, <1>2 DEF SchedulerInv, SchedulerTypes
<1>4. SchedulerTypes'
  <2>1. {q \in Runs : run'[q].at # "free"} = {q \in Runs : run[q].at # "free"} \cup {r}
    BY <1>1, <1>3
  <2>2. IsFiniteSet({q \in Runs : run[q].at # "free"} \cup {r})
    BY FS_AddElement DEF SchedulerInv, SchedulerTypes
  <2> QED BY <1>1, <1>3, <2>1, <2>2 DEF SchedulerInv, SchedulerTypes
<1>5. RowsAccounted'
  BY <1>1 DEF SchedulerInv, RowsAccounted, SC!Rows
<1>6. \A t \in Schedules : t # s => CountTrue(t)'
  <2> SUFFICES ASSUME NEW t \in Schedules, t # s PROVE CountTrue(t)'
    OBVIOUS
  <2>1. \A q \in Runs : On(q, t) \/ On(q, t)' => run'[q] = run[q]
    BY <1>1, <1>3 DEF On
  <2> QED BY <1>1, <2>1, CountUntouched DEF SchedulerInv
<1>7. CountTrue(s)'
  <2>1. CountTrue(s) /\ schedule[s].run_count \in Nat /\ executions[s] \in Nat
    BY <1>2 DEF SchedulerInv, SchedulerTypes
  <2>2. \A q \in Runs : On(q, s)' => (q = r /\ run'[q] = new) \/ (On(q, s) /\ run'[q] = run[q])
    BY <1>3 DEF On
  <2>3. s \notin disturbed' => s \notin disturbed /\ \A q \in Runs : ~On(q, s)
    BY <1>1 DEF SC!RunsOf, On
  <2>4. On(r, s)'
    BY <1>3 DEF On
  <2>5. new.at = "posted" /\ new.loaded = schedule[s].run_count
    OBVIOUS
  <2> HIDE DEF new
  <2>6. /\ schedule'[s].run_count <= executions'[s]
        /\ \A q \in Runs : On(q, s)' =>
             IF run'[q].at = "created" THEN run'[q].loaded + 1 <= executions'[s]
             ELSE run'[q].loaded <= executions'[s]
    BY <1>1, <2>1, <2>2, <2>5 DEF CountTrue
  <2>7. s \notin disturbed' =>
          /\ late'[s] = 0
          /\ \A p, q \in Runs : On(p, s)' /\ On(q, s)' => p = q
          /\ \A q \in Runs : On(q, s)' => run'[q] = new
          /\ schedule[s].run_count = executions[s]
    BY <1>1, <2>1, <2>2, <2>3 DEF CountTrue
  <2> QED BY <1>1, <2>4, <2>5, <2>6, <2>7 DEF CountTrue
<1> QED BY <1>4, <1>5, <1>6, <1>7 DEF SchedulerInv

\* A run that ends or goes on: no run comes into being.
LEMMA FewerRuns ==
  ASSUME SchedulerInv, run' \in [Runs -> RunRows],
         \A q \in Runs : run'[q].at # "free" => run[q].at # "free" /\ run'[q].s = run[q].s
  PROVE  /\ IsFiniteSet({q \in Runs : run'[q].at # "free"})
         /\ \A q \in Runs : run'[q].at # "free" => run'[q].s \in Schedules
<1>1. {q \in Runs : run'[q].at # "free"} \subseteq {q \in Runs : run[q].at # "free"}
  OBVIOUS
<1>2. IsFiniteSet({q \in Runs : run'[q].at # "free"})
  BY <1>1, FS_Subset DEF SchedulerInv, SchedulerTypes
<1> QED BY <1>2 DEF SchedulerInv, SchedulerTypes

LEMMA HandleKeeps ==
  ASSUME SchedulerInv, NEW r \in Runs, SC!Handle(r)
  PROVE  SchedulerInv'
<1>0. PICK s \in Schedules : s = run[r].s
  BY DEF SC!Handle, SchedulerInv, SchedulerTypes
<1>1. /\ run[r].at = "posted" /\ UNCHANGED <<schedule, jobs, cut, late, disturbed>>
      /\ \/ /\ run' = [run EXCEPT ![r].at = "created"]
            /\ executions' = [executions EXCEPT ![s] = @ + 1]
         \/ run' = [run EXCEPT ![r].at = "refused"] /\ UNCHANGED executions
  BY <1>0 DEF SC!Handle
<1>2. s \in Schedules /\ CountTrue(s) /\ On(r, s) /\ executions[s] \in Nat
      /\ run[r].loaded \in Nat /\ schedule[s].run_count \in Nat
  BY <1>0, <1>1 DEF SchedulerInv, SchedulerTypes, On, RunRows, ScheduleRows
<1>3. /\ run' \in [Runs -> RunRows] /\ run'[r].s = s /\ run'[r].loaded = run[r].loaded
      /\ \A q \in Runs : q # r => run'[q] = run[q]
      /\ \/ run'[r].at = "created" /\ executions'[s] = executions[s] + 1
         \/ run'[r].at = "refused" /\ executions'[s] = executions[s]
  <2>1. "created" \in RunPlaces /\ "refused" \in RunPlaces
    BY DEF RunPlaces
  <2> QED BY <1>0, <1>1, <1>2, <2>1 DEF SchedulerInv, SchedulerTypes, RunRows
<1>4. /\ executions' \in [Schedules -> Nat]
      /\ \A t \in Schedules : t # s => executions'[t] = executions[t]
  BY <1>1, <1>2 DEF SchedulerInv, SchedulerTypes
<1>5. SchedulerTypes'
  <2>1. \A q \in Runs : run'[q].at # "free" => run[q].at # "free" /\ run'[q].s = run[q].s
    BY <1>0, <1>1, <1>3
  <2> QED BY <1>1, <1>3, <1>4, <2>1, FewerRuns DEF SchedulerInv, SchedulerTypes
<1>6. RowsAccounted'
  BY <1>1 DEF SchedulerInv, RowsAccounted, SC!Rows
<1>7. \A t \in Schedules : t # s => CountTrue(t)'
  <2> SUFFICES ASSUME NEW t \in Schedules, t # s PROVE CountTrue(t)'
    OBVIOUS
  <2>1. \A q \in Runs : On(q, t) \/ On(q, t)' => run'[q] = run[q]
    BY <1>0, <1>3 DEF On
  <2> QED BY <1>1, <1>4, <2>1, CountUntouched DEF SchedulerInv
<1>8. CountTrue(s)'
  <2>1. On(r, s)' /\ \A q \in Runs : On(q, s)' => On(q, s)
    BY <1>0, <1>1, <1>3 DEF On
  <2>2. \A q \in Runs : On(q, s) /\ q # r => run[q].loaded \in Nat /\ run'[q] = run[q]
    BY <1>3 DEF SchedulerInv, SchedulerTypes, RunRows
  <2>3. /\ schedule'[s].run_count <= executions'[s]
        /\ \A q \in Runs : On(q, s)' =>
             IF run'[q].at = "created" THEN run'[q].loaded + 1 <= executions'[s]
             ELSE run'[q].loaded <= executions'[s]
    BY <1>1, <1>2, <1>3, <2>1, <2>2 DEF CountTrue
  <2>4. s \notin disturbed =>
          /\ late[s] = 0
          /\ \A q \in Runs : On(q, s)' => q = r
          /\ run[r].loaded = schedule[s].run_count /\ executions[s] = run[r].loaded
    BY <1>1, <1>2, <2>1 DEF CountTrue
  <2> QED BY <1>1, <1>3, <2>1, <2>3, <2>4 DEF CountTrue
<1> QED BY <1>5, <1>6, <1>7, <1>8 DEF SchedulerInv

LEMMA AnswerKeeps ==
  ASSUME SchedulerInv, NEW r \in Runs, SC!Answer(r)
  PROVE  SchedulerInv'
<1>0. PICK s \in Schedules : s = run[r].s
  BY DEF SC!Answer, SchedulerInv, SchedulerTypes
<1>1. /\ run[r].at \in {"created", "refused"} /\ run' = [run EXCEPT ![r] = SC!Free]
      /\ UNCHANGED <<jobs, cut, late, executions, disturbed>>
      /\ schedule' = IF run[r].at = "created"
                     THEN [schedule EXCEPT ![s].run_count = run[r].loaded + 1] ELSE schedule
  BY <1>0 DEF SC!Answer, SC!Counted
<1>2. s \in Schedules /\ CountTrue(s) /\ On(r, s) /\ executions[s] \in Nat
      /\ run[r].loaded \in Nat /\ schedule[s].run_count \in Nat
  BY <1>0, <1>1 DEF SchedulerInv, SchedulerTypes, On, RunRows, ScheduleRows
<1>3. /\ run' \in [Runs -> RunRows] /\ run'[r].at = "free"
      /\ \A q \in Runs : q # r => run'[q] = run[q]
  BY <1>1, FreeRow DEF SchedulerInv, SchedulerTypes
<1>4. /\ schedule' \in [Schedules -> ScheduleRows]
      /\ \A t \in Schedules : schedule'[t].there = schedule[t].there
      /\ \A t \in Schedules : t # s => schedule'[t] = schedule[t]
      /\ schedule'[s].run_count = IF run[r].at = "created" THEN run[r].loaded + 1
                                  ELSE schedule[s].run_count
  <2>1. run[r].loaded + 1 \in Nat
    BY <1>2
  <2> QED BY <1>1, <1>2, <2>1 DEF SchedulerInv, SchedulerTypes, ScheduleRows
<1>5. SchedulerTypes'
  <2>1. \A q \in Runs : run'[q].at # "free" => run[q].at # "free" /\ run'[q].s = run[q].s
    BY <1>3
  <2> QED BY <1>1, <1>3, <1>4, <2>1, FewerRuns DEF SchedulerInv, SchedulerTypes
<1>6. RowsAccounted'
  BY <1>1, <1>4 DEF SchedulerInv, RowsAccounted, SC!Rows
<1>7. \A t \in Schedules : t # s => CountTrue(t)'
  <2> SUFFICES ASSUME NEW t \in Schedules, t # s PROVE CountTrue(t)'
    OBVIOUS
  <2>1. \A q \in Runs : On(q, t) \/ On(q, t)' => run'[q] = run[q]
    BY <1>0, <1>3 DEF On
  <2> QED BY <1>1, <1>4, <2>1, CountUntouched DEF SchedulerInv
<1>8. CountTrue(s)'
  <2>1. \A q \in Runs : On(q, s)' => q # r /\ On(q, s) /\ run'[q] = run[q]
    BY <1>3 DEF On
  <2>2. schedule'[s].run_count <= executions'[s]
    BY <1>1, <1>2, <1>4 DEF CountTrue
  <2>3. s \notin disturbed =>
          late[s] = 0 /\ (\A q \in Runs : ~On(q, s)') /\ schedule'[s].run_count = executions[s]
    BY <1>1, <1>2, <1>4, <2>1 DEF CountTrue
  <2> QED BY <1>1, <1>2, <2>1, <2>2, <2>3 DEF CountTrue
<1> QED BY <1>5, <1>6, <1>7, <1>8 DEF SchedulerInv

\* Runs that nobody waits for any more.
LEMMA AbandonKeeps ==
  ASSUME SchedulerInv, NEW rs \in SUBSET Runs, SC!Abandon(rs),
         UNCHANGED <<schedule, jobs, cut, executions>>
  PROVE  SchedulerInv'
<1> DEFINE lost(s) == {r \in rs \cap SC!RunsOf(s) : run[r].at = "posted"}
<1>1. /\ late' = [s \in Schedules |-> late[s] + Cardinality(lost(s))]
      /\ disturbed' = disturbed \cup {run[r].s : r \in {q \in rs : run[q].at \in {"posted", "created"}}}
      /\ run' = [r \in Runs |-> IF r \in rs THEN SC!Free ELSE run[r]]
  BY SameCardinality DEF SC!Abandon
<1>2. /\ run' \in [Runs -> RunRows]
      /\ \A q \in Runs : run'[q].at # "free" => q \notin rs /\ run'[q] = run[q]
  BY <1>1, FreeRow DEF SchedulerInv, SchedulerTypes
<1>3. \A s \in Schedules : Cardinality(lost(s)) \in Nat
  <2> TAKE s \in Schedules
  <2>1. lost(s) \subseteq {r \in Runs : run[r].at # "free"}
    BY DEF SC!RunsOf
  <2> QED BY <2>1, FS_Subset, FS_CardinalityType DEF SchedulerInv, SchedulerTypes
<1>4. SchedulerTypes'
  <2>1. late' \in [Schedules -> Nat]
    BY <1>1, <1>3 DEF SchedulerInv, SchedulerTypes
  <2>2. \A q \in Runs : run'[q].at # "free" => run[q].at # "free" /\ run'[q].s = run[q].s
    BY <1>2
  <2> QED BY <1>2, <2>1, <2>2, FewerRuns DEF SchedulerInv, SchedulerTypes
<1>5. RowsAccounted'
  BY DEF SchedulerInv, RowsAccounted, SC!Rows
<1>6. ASSUME NEW s \in Schedules PROVE CountTrue(s)'
  <2>1. CountTrue(s)
    BY DEF SchedulerInv
  <2>2. \A q \in Runs : On(q, s)' => On(q, s) /\ run'[q] = run[q]
    BY <1>2 DEF On
  <2>3. s \notin disturbed' =>
          s \notin disturbed /\ \A q \in rs : On(q, s) => run[q].at = "refused"
    <3>1. \A q \in rs : On(q, s) /\ run[q].at # "refused" => s \in disturbed'
      <4> SUFFICES ASSUME NEW q \in rs, On(q, s), run[q].at # "refused" PROVE s \in disturbed'
        OBVIOUS
      <4>1. run[q].at \in {"posted", "created"} /\ run[q].s = s
        BY DEF On, SchedulerInv, SchedulerTypes, RunRows, RunPlaces
      <4> QED BY <4>1, <1>1
    <3> QED BY <3>1, <1>1
  <2>4. s \notin disturbed' => late'[s] = 0
    <3> SUFFICES ASSUME s \notin disturbed' PROVE late'[s] = 0
      OBVIOUS
    <3>1. lost(s) = {}
      BY <2>3 DEF SC!RunsOf, On
    <3>2. late[s] = 0 /\ Cardinality({}) = 0
      BY <2>1, <2>3, FS_EmptySet DEF CountTrue
    <3>3. late'[s] = late[s] + Cardinality(lost(s))
      BY <1>1
    <3> QED BY <3>1, <3>2, <3>3
  <2>5. s \notin disturbed' /\ (\A q \in Runs : ~On(q, s)') => schedule[s].run_count = executions[s]
    <3> SUFFICES ASSUME s \notin disturbed', \A q \in Runs : ~On(q, s)'
                 PROVE  schedule[s].run_count = executions[s]
      OBVIOUS
    <3>1. CASE \A q \in Runs : ~On(q, s)
      BY <3>1, <2>1, <2>3 DEF CountTrue
    <3>2. CASE \E q \in Runs : On(q, s)
      <4>1. PICK q \in Runs : On(q, s)
        BY <3>2
      <4>2. q \in rs
        BY <4>1, <1>1 DEF On
      <4>3. run[q].at = "refused"
        BY <4>1, <4>2, <2>3
      <4> QED BY <4>1, <4>3, <2>1, <2>3 DEF CountTrue
    <3> QED BY <3>1, <3>2
  <2> QED BY <2>1, <2>2, <2>3, <2>4, <2>5 DEF CountTrue
<1> QED BY <1>4, <1>5, <1>6 DEF SchedulerInv

LEMMA HandleLateKeeps ==
  ASSUME SchedulerInv, NEW s \in Schedules, SC!HandleLate(s)
  PROVE  SchedulerInv'
<1>1. /\ late[s] > 0 /\ late' = [late EXCEPT ![s] = @ - 1]
      /\ executions' = [executions EXCEPT ![s] = @ + 1]
      /\ UNCHANGED <<schedule, jobs, cut, run, disturbed>>
  BY DEF SC!HandleLate
<1>2. late[s] \in Nat /\ executions[s] \in Nat /\ CountTrue(s) /\ schedule[s].run_count \in Nat
      /\ \A q \in Runs : run[q].loaded \in Nat
  BY DEF SchedulerInv, SchedulerTypes, ScheduleRows, RunRows
<1>3. /\ late' \in [Schedules -> Nat] /\ executions' \in [Schedules -> Nat]
      /\ executions'[s] = executions[s] + 1
      /\ \A t \in Schedules : t # s => late'[t] = late[t] /\ executions'[t] = executions[t]
  BY <1>1, <1>2 DEF SchedulerInv, SchedulerTypes
<1>4. SchedulerTypes'
  BY <1>1, <1>3 DEF SchedulerInv, SchedulerTypes
<1>5. RowsAccounted'
  BY <1>1 DEF SchedulerInv, RowsAccounted, SC!Rows
<1>6. \A t \in Schedules : t # s => CountTrue(t)'
  BY <1>1, <1>3, CountUntouched DEF SchedulerInv
<1>7. CountTrue(s)'
  <2>1. s \in disturbed'
    BY <1>1, <1>2 DEF CountTrue
  <2> QED BY <1>1, <1>2, <1>3, <2>1 DEF CountTrue, On
<1> QED BY <1>4, <1>5, <1>6, <1>7 DEF SchedulerInv

\* The invariant is inductive.
LEMMA SchedulerNext ==
  ASSUME SchedulerInv, [SC!Next]_(SC!svars)
  PROVE  SchedulerInv'
<1>1. CASE UNCHANGED SC!svars
  BY <1>1 DEF SC!svars, SchedulerInv, SchedulerTypes, RowsAccounted, SC!Rows, CountTrue, On
<1>2. ASSUME NEW r \in Runs, SC!GiveUp(r) PROVE SchedulerInv'
  BY <1>2, AbandonKeeps DEF SC!GiveUp
<1>3. ASSUME SC!Restart PROVE SchedulerInv'
  BY <1>3, AbandonKeeps DEF SC!Restart
<1> QED BY <1>1, <1>2, <1>3, CreateScheduleKeeps, UpdateStatusKeeps, StartKeeps, HandleKeeps,
           AnswerKeeps, HandleLateKeeps
        DEF SC!Next

LEMMA SchedulerAlways == Spec => []SchedulerInv
<1>1. Init => SchedulerInv
  BY SchedulerInit DEF Init
<1>2. SchedulerInv /\ [Next]_vars => SchedulerInv'
  BY RunsSteps, SchedulerNext
<1> QED BY <1>1, <1>2, PTL DEF Spec

\* run_count never exceeds the executions created for a schedule, and is their
\* number when no run is on its way, unless runs overlapped or an answer was
\* lost; for any number of schedules, runs and restarts (services/scheduler.py).
THEOREM RunCountCorrect == Spec => []RunCountTrue
<1>1. SchedulerInv => RunCountTrue
  BY DEF SchedulerInv, CountTrue, On, RunCountTrue, SC!RunCountTrue, SC!RunsOf
<1> QED BY <1>1, SchedulerAlways, PTL

\* Whatever fails while a schedule is created, jobs are those of schedules, and
\* only schedules that were cut short are without one (routes.py, create_schedule).
THEOREM JobsCorrect == Spec => []JobsMatchSchedules
<1>1. SchedulerInv => JobsMatchSchedules
  BY DEF SchedulerInv, RowsAccounted, JobsMatchSchedules, SC!JobsMatchSchedules
<1> QED BY <1>1, SchedulerAlways, PTL

-----------------------------------------------------------------------------
(* Test suites.                                                            *)

\* A set of positions that is not empty has a last one.
LEMMA LastOf ==
  ASSUME NEW n \in Nat, NEW S \in SUBSET (1..n), S # {}
  PROVE  TF!Max(S) \in S
<1> DEFINE HasLast(T) == \E x \in T : \A y \in T : x >= y
           N == {k \in Nat : \A T \in SUBSET (1..k) : T # {} => HasLast(T)}
<1>1. 0 \in N
  <2>1. 1..0 = {}
    OBVIOUS
  <2> QED BY <2>1
<1>2. ASSUME NEW k \in Nat, k \in N, NEW T \in SUBSET (1..(k + 1)), T # {} PROVE HasLast(T)
  <2>1. CASE k + 1 \in T
    <3>1. \A y \in T : k + 1 >= y
      OBVIOUS
    <3> QED BY <2>1, <3>1
  <2>2. CASE k + 1 \notin T
    <3>1. T \in SUBSET (1..k)
      <4>1. \A y \in 1..(k + 1) : y \in 1..k \/ y = k + 1
        OBVIOUS
      <4> QED BY <2>2, <4>1
    <3> HIDE DEF HasLast
    <3> QED BY <1>2, <3>1
  <2> QED BY <2>1, <2>2
<1>3. n \in N
  <2>1. \A k \in Nat : k \in N => k + 1 \in N
    <3> SUFFICES ASSUME NEW k \in Nat, k \in N PROVE k + 1 \in N
      OBVIOUS
    <3>1. \A T \in SUBSET (1..(k + 1)) : T # {} => HasLast(T)
      BY <1>2
    <3> HIDE DEF HasLast
    <3> QED BY <3>1
  <2> HIDE DEF N
  <2> QED BY <1>1, <2>1, AllNaturals
<1>4. \E x \in S : \A y \in S : x >= y
  BY <1>3
<1> QED BY <1>4 DEF TF!Max

Outcomes == {"passed", "failed", "skipped", "error", "pending", "raised"}
CaseRows == [type : {"syntax", "unit", "security", "performance", "none"}, status : Outcomes]
Families == {"syntax", "unit", "security", "performance"}

LEMMA FamiliesAre == TF!ToSet(TF!Families) = Families
<1>1. TF!Families = <<"syntax", "unit", "security", "performance">> /\ DOMAIN TF!Families = 1..4
  BY DEF TF!Families
<1>2. 1..4 = {1, 2, 3, 4}
  OBVIOUS
<1> QED BY <1>1, <1>2 DEF TF!ToSet, Families

\* What a family returns are cases of its own type, unless it raised.
LEMMA RunsOwnType ==
  ASSUME NEW f, NEW c
  PROVE  /\ TF!Run(f, c) \in Seq(CaseRows)
         /\ f \in Families /\ TF!Run(f, c) # TF!Raised =>
               \A i \in DOMAIN TF!Run(f, c) : TF!Run(f, c)[i].type = f
<1> DEFINE Own(r, g) == r \in Seq(CaseRows) /\ \A i \in DOMAIN r : r[i].type = g
<1>1. \A ok, g : g \in Families => TF!PassIf(g, ok) \in CaseRows /\ TF!PassIf(g, ok).type = g
  BY DEF TF!PassIf, TF!Case, CaseRows, Families, Outcomes
<1>2. \A g, status : g \in Families /\ status \in Outcomes =>
                        TF!Case(g, status) \in CaseRows /\ TF!Case(g, status).type = g
  BY DEF TF!Case, CaseRows, Families
<1>3. ASSUME NEW r, NEW q, NEW g, Own(r, g), Own(q, g) PROVE Own(r \o q, g)
  <2>1. /\ r \o q \in Seq(CaseRows) /\ Len(r \o q) = Len(r) + Len(q)
        /\ \A i \in 1..(Len(r) + Len(q)) : (r \o q)[i] = IF i <= Len(r) THEN r[i] ELSE q[i - Len(r)]
    BY <1>3, ConcatProperties
  <2>2. PICK m \in Nat, n \in Nat : m = Len(r) /\ n = Len(q) /\ DOMAIN r = 1..m /\ DOMAIN q = 1..n
    BY <1>3
  <2>3. DOMAIN (r \o q) = 1..(m + n)
    BY <2>1, <2>2
  <2>4. \A i \in 1..(m + n) : IF i <= m THEN i \in 1..m ELSE i - m \in 1..n
    OBVIOUS
  <2>5. \A i \in 1..(m + n) : (r \o q)[i].type = g
    BY <1>3, <2>1, <2>2, <2>4
  <2> QED BY <2>1, <2>3, <2>5
<1>4. Own(TF!SyntaxTests(c), "syntax")
  <2>1. PICK status \in Outcomes :
          status = CASE c.check = "valid" -> "passed" [] c.check = "invalid" -> "failed"
                     [] c.check = "unavailable" -> "skipped" [] OTHER -> "error"
    BY DEF Outcomes
  <2>2. PICK x, y : x = TF!Case("syntax", status) /\ y = TF!PassIf("syntax", c.shebang)
    OBVIOUS
  <2>3. x \in CaseRows /\ y \in CaseRows /\ x.type = "syntax" /\ y.type = "syntax"
    BY <1>1, <1>2, <2>2 DEF Families
  <2>4. TF!SyntaxTests(c) = (IF c.kind = "other" THEN <<>> ELSE <<x>>) \o <<y>>
    BY <2>1, <2>2 DEF TF!SyntaxTests
  <2>5. Own(<<y>>, "syntax") /\ Own(<<x>>, "syntax") /\ Own(<<>>, "syntax")
    BY <2>3
  <2> HIDE DEF Own
  <2> QED BY <1>3, <2>4, <2>5
<1>5. Own(TF!UnitTests(c), "unit")
  <2>1. PICK x, y : /\ x = TF!PassIf("unit", c.kind # "other" /\ c.main)
                    /\ y = IF c.kind = "other" THEN TF!Case("unit", "pending") ELSE TF!PassIf("unit", c.handling)
    OBVIOUS
  <2>2. x \in CaseRows /\ y \in CaseRows /\ x.type = "unit" /\ y.type = "unit"
    BY <1>1, <1>2, <2>1 DEF Families, Outcomes
  <2>3. TF!UnitTests(c) = <<x, y>>
    BY <2>1 DEF TF!UnitTests
  <2> QED BY <2>2, <2>3
<1>6. Own(TF!PerformanceTests(c), "performance")
  <2>1. PICK x, y : /\ x = TF!PassIf("performance", ~c.long)
                    /\ y = TF!PassIf("performance", ~c.nested)
    OBVIOUS
  <2>2. x \in CaseRows /\ y \in CaseRows /\ x.type = "performance" /\ y.type = "performance"
    BY <1>1, <2>1 DEF Families
  <2>3. TF!PerformanceTests(c) = <<x, y>>
    BY <2>1 DEF TF!PerformanceTests
  <2> QED BY <2>2, <2>3
<1>7. Own(TF!SecurityTests(c), "security")
  <2>1. PICK x, r : /\ x = TF!PassIf("security", c.risks \cap {"high", "critical"} = {})
                    /\ r = [i \in 1..4 |-> TF!PassIf("security",
                               <<"low", "medium", "high", "critical">>[i] \notin c.risks \cap {"high", "critical"})]
    OBVIOUS
  <2>2. x \in CaseRows /\ x.type = "security" /\ \A i \in 1..4 : r[i] \in CaseRows /\ r[i].type = "security"
    BY <1>1, <2>1 DEF Families
  <2>3. TF!SecurityTests(c) = <<x>> \o r
    BY <2>1 DEF TF!SecurityTests
  <2>4. Own(r, "security") /\ Own(<<x>>, "security")
    BY <2>1, <2>2
  <2> HIDE DEF Own
  <2> QED BY <1>3, <2>3, <2>4
<1>8. TF!Raised \in Seq(CaseRows)
  BY DEF TF!Raised, TF!Case, CaseRows, Outcomes
<1> HIDE DEF Own
<1>9. \/ TF!Run(f, c) = TF!Raised
      \/ TF!Run(f, c) = TF!SyntaxTests(c) /\ f = "syntax"
      \/ TF!Run(f, c) = TF!UnitTests(c) /\ f = "unit"
      \/ TF!Run(f, c) = TF!SecurityTests(c) /\ f = "security"
      \/ TF!Run(f, c) = TF!PerformanceTests(c) /\ f \notin {"syntax", "unit", "security"}
  BY DEF TF!Run
<1> QED BY <1>4, <1>5, <1>6, <1>7, <1>8, <1>9 DEF Own, Families

\* g joins the first i of the sequences in `lists`, for every i.
Joins(g, lists) == g = [i \in 1..Len(lists) |-> IF i = 1 THEN lists[i] ELSE g[i - 1] \o lists[i]]

LEMMA MinusOnes == 2 - 1 = 1 /\ 3 - 1 = 2 /\ 4 - 1 = 3
  OBVIOUS

LEMMA FourJoined ==
  ASSUME NEW lists, lists \in Seq(Seq(CaseRows)), Len(lists) = 4
  PROVE  TF!FlattenSeq(lists) = ((lists[1] \o lists[2]) \o lists[3]) \o lists[4]
<1> DEFINE two == lists[1] \o lists[2]
           three == two \o lists[3]
           g == [i \in 1..4 |-> IF i = 1 THEN lists[1] ELSE IF i = 2 THEN two
                                ELSE IF i = 3 THEN three ELSE three \o lists[4]]
<1>1. Joins(g, lists)
  <2>1. g[1] = lists[1] /\ g[2] = two /\ g[3] = three /\ g[4] = three \o lists[4]
    OBVIOUS
  <2>2. \A i \in 1..4 : i \in {1, 2, 3, 4}
    OBVIOUS
  <2>3. \A i \in 1..4 : g[i] = IF i = 1 THEN lists[i] ELSE g[i - 1] \o lists[i]
    <3> HIDE DEF g
    <3>1. g[2] = g[2 - 1] \o lists[2] /\ g[3] = g[3 - 1] \o lists[3] /\ g[4] = g[4 - 1] \o lists[4]
      BY <2>1, MinusOnes, Zenon DEF two, three
    <3> QED BY <2>1, <2>2, <3>1
  <2>4. g = [i \in 1..4 |-> g[i]]
    OBVIOUS
  <2> HIDE DEF g
  <2>5. g = [i \in 1..4 |-> IF i = 1 THEN lists[i] ELSE g[i - 1] \o lists[i]]
    BY <2>3, <2>4
  <2> QED BY <2>5 DEF Joins
<1> HIDE DEF g, two, three
<1>2. PICK h : h = (CHOOSE f : Joins(f, lists)) /\ Joins(h, lists)
  BY <1>1
<1>3. TF!FlattenSeq(lists) = h[4]
  BY <1>2 DEF TF!FlattenSeq, Joins
<1>4. \A i \in 1..4 : h[i] = IF i = 1 THEN lists[i] ELSE h[i - 1] \o lists[i]
  BY <1>2 DEF Joins
<1>5. h[1] = lists[1] /\ h[2] = h[1] \o lists[2] /\ h[3] = h[2] \o lists[3] /\ h[4] = h[3] \o lists[4]
  <2>1. h[1] = lists[1] /\ h[2] = h[2 - 1] \o lists[2] /\ h[3] = h[3 - 1] \o lists[3]
        /\ h[4] = h[4 - 1] \o lists[4]
    BY <1>4
  <2> QED BY <2>1, MinusOnes, Zenon
<1> QED BY <1>3, <1>5 DEF two, three

LEMMA JoinKeeps ==
  ASSUME NEW s \in Seq(CaseRows), NEW t \in Seq(CaseRows)
  PROVE  /\ s \o t \in Seq(CaseRows)
         /\ \A i \in DOMAIN s : \E j \in DOMAIN (s \o t) : (s \o t)[j] = s[i]
         /\ \A i \in DOMAIN t : \E j \in DOMAIN (s \o t) : (s \o t)[j] = t[i]
<1>1. /\ s \o t \in Seq(CaseRows) /\ Len(s \o t) = Len(s) + Len(t)
      /\ \A i \in 1..(Len(s) + Len(t)) : (s \o t)[i] = IF i <= Len(s) THEN s[i] ELSE t[i - Len(s)]
  BY ConcatProperties
<1>2. PICK m \in Nat, n \in Nat : m = Len(s) /\ n = Len(t) /\ DOMAIN s = 1..m /\ DOMAIN t = 1..n
  OBVIOUS
<1>3. DOMAIN (s \o t) = 1..(m + n)
  BY <1>1, <1>2
<1>4. ASSUME NEW i \in 1..m PROVE \E j \in DOMAIN (s \o t) : (s \o t)[j] = s[i]
  <2>1. i \in 1..(m + n) /\ i <= m
    OBVIOUS
  <2> QED BY <1>1, <1>2, <1>3, <2>1
<1>5. ASSUME NEW i \in 1..n PROVE \E j \in DOMAIN (s \o t) : (s \o t)[j] = t[i]
  <2>1. m + i \in 1..(m + n) /\ ~(m + i <= m) /\ (m + i) - m = i
    OBVIOUS
  <2>2. (s \o t)[m + i] = t[(m + i) - m]
    BY <1>1, <1>2, <2>1
  <2> QED BY <1>3, <2>1, <2>2
<1> QED BY <1>1, <1>2, <1>4, <1>5

\* The numbers of cases by status.
LEMMA Counting ==
  ASSUME NEW cases \in Seq(CaseRows)
  PROVE  /\ \A status : TF!Count(cases, status) \in Nat
         /\ \A status : TF!Count(cases, status) = 0 <=> \A i \in DOMAIN cases : cases[i].status # status
         /\ TF!Count(cases, "passed") + TF!Count(cases, "failed") <= Len(cases)
<1>1. PICK n \in Nat : n = Len(cases) /\ DOMAIN cases = 1..n
  OBVIOUS
<1>2. IsFiniteSet(1..n) /\ Cardinality(1..n) = n
  <2>1. IsFiniteSet(1..n) /\ Cardinality(1..n) = IF 1 > n THEN 0 ELSE n - 1 + 1
    BY FS_Interval
  <2> QED BY <2>1
<1> DEFINE Of(status) == {i \in DOMAIN cases : cases[i].status = status}
<1>3. ASSUME NEW status PROVE /\ IsFiniteSet(Of(status)) /\ Cardinality(Of(status)) \in Nat
                             /\ TF!Count(cases, status) = Cardinality(Of(status))
                             /\ (Cardinality(Of(status)) = 0 <=> Of(status) = {})
  <2>1. IsFiniteSet(Of(status))
    BY <1>1, <1>2, FS_Subset
  <2>2. TF!Count(cases, status) = Cardinality(Of(status))
    BY SameCardinality DEF TF!Count
  <2> HIDE DEF Of
  <2> QED BY <2>1, <2>2, FS_CardinalityType, FS_EmptySet
<1>4. Of("passed") \cap Of("failed") = {} /\ Of("passed") \cup Of("failed") \subseteq 1..n
  BY <1>1
<1>5. TF!Count(cases, "passed") + TF!Count(cases, "failed") <= n
  <2> HIDE DEF Of
  <2>1. PICK P, F : P = Of("passed") /\ F = Of("failed")
    OBVIOUS
  <2>2. IsFiniteSet(P) /\ IsFiniteSet(F) /\ Cardinality(P) \in Nat /\ Cardinality(F) \in Nat
    BY <1>3, <2>1
  <2>3. P \cap F = {} /\ P \cup F \subseteq 1..n
    BY <1>4, <2>1
  <2>4. Cardinality(P \cap F) = 0
    BY <2>3, FS_EmptySet
  <2>5. Cardinality(P \cup F) = Cardinality(P) + Cardinality(F)
    <3>1. Cardinality(P \cup F) = Cardinality(P) + Cardinality(F) - Cardinality(P \cap F)
      BY <2>2, FS_Union
    <3> QED BY <2>2, <2>4, <3>1
  <2>6. Cardinality(P \cup F) <= Cardinality(1..n)
    BY <1>2, <2>3, FS_Subset
  <2>7. TF!Count(cases, "passed") = Cardinality(P) /\ TF!Count(cases, "failed") = Cardinality(F)
    BY <1>3, <2>1
  <2> QED BY <1>2, <2>5, <2>6, <2>7
<1>6. ASSUME NEW status PROVE TF!Count(cases, status) = 0 <=> \A i \in DOMAIN cases : cases[i].status # status
  BY <1>3
<1> QED BY <1>1, <1>3, <1>5, <1>6

Suits == [script : Scripts, content : Contents, types : TypeLists, at : {"new", "running", "done"}]
Results == [status : {"pending", "running", "passed", "failed"}, lists : [Families -> Seq(CaseRows)],
            total : Nat, passed : Nat, failed : Nat]

\* The suite s and what it has are of their types; what its families returned so far
\* is what they return for its script, and its result is what ResultsAreOfTheirTypes
\* says of it.
SuiteRight(s) ==
    LET types == suite[s].types IN
    /\ suite[s] \in Suits /\ result[s] \in Results
    /\ result[s].passed + result[s].failed <= result[s].total
    /\ raw[s] \in Seq(Seq(CaseRows))
    /\ \A i \in DOMAIN raw[s] : raw[s][i] = TF!Run(TF!Tasks(types)[i], suite[s].content)
    /\ suite[s].at = "done" /\ TF!Tasks(types) = types =>
          \A f \in Families :
              /\ \A i \in DOMAIN result[s].lists[f] : result[s].lists[f][i].type = f
              /\ f \in TF!ToSet(types) /\ result[s].status = "passed" =>
                    TF!Count(TF!Run(f, suite[s].content), "failed") = 0

TestsInv ==
    /\ DOMAIN suite = Suites /\ DOMAIN raw = Suites /\ DOMAIN result = Suites
    /\ \A s \in Suites : SuiteRight(s)

LEMMA TestsInit == TF!Init => TestsInv
<1> SUFFICES ASSUME TF!Init PROVE TestsInv
  OBVIOUS
<1>1. /\ suite \in [Suites -> {[script |-> i, content |-> c, types |-> t, at |-> "new"] :
                               i \in Scripts, c \in Contents, t \in TypeLists}]
      /\ raw = [s \in Suites |-> <<>>]
      /\ result = [s \in Suites |-> [TF!Fresh EXCEPT !.status = "pending"]]
  BY DEF TF!Init
<1>2. ASSUME NEW s \in Suites PROVE SuiteRight(s)
  <2>1. PICK i \in Scripts, c \in Contents, t \in TypeLists :
           suite[s] = [script |-> i, content |-> c, types |-> t, at |-> "new"]
    BY <1>1
  <2>2. suite[s] \in Suits /\ suite[s].at = "new"
    BY <2>1 DEF Suits
  <2>3. TF!Empty \in [Families -> Seq(CaseRows)]
    BY FamiliesAre DEF TF!Empty
  <2>4. result[s] = [status |-> "pending", lists |-> TF!Empty, total |-> 0, passed |-> 0, failed |-> 0]
    BY <1>1 DEF TF!Fresh
  <2>5. result[s] \in Results /\ result[s].passed + result[s].failed <= result[s].total
    BY <2>3, <2>4 DEF Results
  <2>6. raw[s] = <<>>
    BY <1>1
  <2>7. raw[s] \in Seq(Seq(CaseRows)) /\ DOMAIN raw[s] = {}
    BY <2>6
  <2> QED BY <2>2, <2>5, <2>7 DEF SuiteRight
<1> QED BY <1>1, <1>2 DEF TestsInv

\* What is known of the suites that a step does not touch stays so.
LEMMA OneSuiteMoves ==
  ASSUME TestsInv, NEW s \in Suites,
         DOMAIN suite' = Suites, DOMAIN raw' = Suites, DOMAIN result' = Suites,
         \A t \in Suites : t # s => suite'[t] = suite[t] /\ raw'[t] = raw[t] /\ result'[t] = result[t],
         SuiteRight(s)'
  PROVE  TestsInv'
<1>1. ASSUME NEW t \in Suites, t # s PROVE SuiteRight(t)'
  BY <1>1 DEF TestsInv, SuiteRight
<1>2. \A t \in Suites : SuiteRight(t)'
  BY <1>1
<1> QED BY <1>2 DEF TestsInv

LEMMA BeginKeeps ==
  ASSUME TestsInv, NEW s \in Suites, TF!Begin(s)
  PROVE  TestsInv'
<1>1. /\ suite' = [suite EXCEPT ![s].at = "running"] /\ raw' = raw
      /\ result' = [result EXCEPT ![s] = TF!Fresh]
  BY DEF TF!Begin
<1>2. SuiteRight(s)
  BY DEF TestsInv
<1>3. suite'[s] = [suite[s] EXCEPT !.at = "running"] /\ result'[s] = TF!Fresh /\ raw'[s] = raw[s]
  BY <1>1 DEF TestsInv
<1>4. /\ suite'[s] \in Suits /\ suite'[s].at = "running"
      /\ suite'[s].types = suite[s].types /\ suite'[s].content = suite[s].content
  BY <1>2, <1>3 DEF SuiteRight, Suits
<1>5. TF!Empty \in [Families -> Seq(CaseRows)]
  BY FamiliesAre DEF TF!Empty
<1>6. result'[s] \in Results /\ result'[s].passed + result'[s].failed <= result'[s].total
  BY <1>3, <1>5 DEF Results, TF!Fresh
<1>7. SuiteRight(s)'
  BY <1>2, <1>3, <1>4, <1>6 DEF SuiteRight
<1> QED BY <1>1, <1>7, OneSuiteMoves DEF TestsInv

LEMMA RunFamilyKeeps ==
  ASSUME TestsInv, NEW s \in Suites, TF!RunFamily(s)
  PROVE  TestsInv'
<1> DEFINE tasks_ == TF!Tasks(suite[s].types)
<1>1. /\ suite[s].at = "running" /\ UNCHANGED <<suite, result>>
      /\ raw' = [raw EXCEPT ![s] = Append(@, TF!Run(tasks_[Len(@) + 1], suite[s].content))]
  BY DEF TF!RunFamily
<1>2. SuiteRight(s)
  BY DEF TestsInv
<1>3. PICK x \in Seq(CaseRows) : x = TF!Run(tasks_[Len(raw[s]) + 1], suite[s].content)
  BY RunsOwnType
<1>4. raw'[s] = Append(raw[s], x) /\ raw[s] \in Seq(Seq(CaseRows))
  BY <1>1, <1>2, <1>3 DEF TestsInv, SuiteRight
<1>5. /\ raw'[s] \in Seq(Seq(CaseRows)) /\ DOMAIN raw'[s] = 1..(Len(raw[s]) + 1)
      /\ \A i \in 1..Len(raw[s]) : raw'[s][i] = raw[s][i]
      /\ raw'[s][Len(raw[s]) + 1] = x
  BY <1>4, AppendProperties
<1>6. \A i \in DOMAIN raw'[s] : raw'[s][i] = TF!Run(tasks_[i], suite[s].content)
  <2>1. PICK n \in Nat : n = Len(raw[s]) /\ DOMAIN raw[s] = 1..n
    BY <1>4
  <2>2. \A i \in 1..(n + 1) : i \in 1..n \/ i = n + 1
    OBVIOUS
  <2>3. \A i \in 1..n : raw'[s][i] = TF!Run(tasks_[i], suite[s].content)
    BY <1>2, <1>5, <2>1 DEF SuiteRight
  <2> HIDE DEF tasks_
  <2> QED BY <1>3, <1>5, <2>1, <2>2, <2>3
<1>7. suite' = suite /\ result' = result
  BY <1>1
<1>8. SuiteRight(s)'
  BY <1>1, <1>2, <1>5, <1>6, <1>7 DEF SuiteRight
<1> QED BY <1>1, <1>8, OneSuiteMoves DEF TestsInv

\* The four lists of a result, joined: its cases are typed, and a case of a list is one
\* of the whole.
LEMMA AllCases ==
  ASSUME NEW lists \in [Families -> Seq(CaseRows)]
  PROVE  LET all == TF!FlattenSeq([i \in 1..4 |-> lists[TF!Families[i]]]) IN
         /\ all \in Seq(CaseRows)
         /\ \A f \in Families : \A i \in DOMAIN lists[f] : \E j \in DOMAIN all : all[j] = lists[f][i]
<1> DEFINE four == [i \in 1..4 |-> lists[TF!Families[i]]]
<1>1. /\ TF!Families[1] = "syntax" /\ TF!Families[2] = "unit"
      /\ TF!Families[3] = "security" /\ TF!Families[4] = "performance"
  BY DEF TF!Families
<1>2. PICK a \in Seq(CaseRows), b \in Seq(CaseRows), c \in Seq(CaseRows), d \in Seq(CaseRows) :
        a = lists["syntax"] /\ b = lists["unit"] /\ c = lists["security"] /\ d = lists["performance"]
  BY DEF Families
<1>3. four[1] = a /\ four[2] = b /\ four[3] = c /\ four[4] = d
  BY <1>1, <1>2
<1>4. four \in Seq(Seq(CaseRows)) /\ Len(four) = 4
  <2>1. \A i \in 1..4 : i \in {1, 2, 3, 4}
    OBVIOUS
  <2>2. \A i \in 1..4 : four[i] \in Seq(CaseRows)
    <3> HIDE DEF four
    <3> QED BY <1>3, <2>1
  <2>3. four = [i \in 1..4 |-> four[i]]
    OBVIOUS
  <2> HIDE DEF four
  <2> QED BY <2>2, <2>3
<1> HIDE DEF four
<1>5. TF!FlattenSeq(four) = ((a \o b) \o c) \o d
  BY <1>3, <1>4, FourJoined
<1> DEFINE x == a \o b
           y == x \o c
           z == y \o d
<1>6. TF!FlattenSeq(four) = z
  BY <1>5
<1> HIDE DEF x, y, z
<1>7. /\ x \in Seq(CaseRows)
      /\ \A i \in DOMAIN a : \E j \in DOMAIN x : x[j] = a[i]
      /\ \A i \in DOMAIN b : \E j \in DOMAIN x : x[j] = b[i]
  <2>1. a \in Seq(CaseRows) /\ b \in Seq(CaseRows)
    BY <1>2
  <2>2. /\ a \o b \in Seq(CaseRows)
        /\ \A i \in DOMAIN a : \E j \in DOMAIN (a \o b) : (a \o b)[j] = a[i]
        /\ \A i \in DOMAIN b : \E j \in DOMAIN (a \o b) : (a \o b)[j] = b[i]
    BY <2>1, JoinKeeps, Zenon
  <2> QED BY <2>2 DEF x
<1>8. /\ y \in Seq(CaseRows)
      /\ \A i \in DOMAIN x : \E j \in DOMAIN y : y[j] = x[i]
      /\ \A i \in DOMAIN c : \E j \in DOMAIN y : y[j] = c[i]
  <2>1. x \in Seq(CaseRows) /\ c \in Seq(CaseRows)
    BY <1>7, <1>2
  <2>2. /\ x \o c \in Seq(CaseRows)
        /\ \A i \in DOMAIN x : \E j \in DOMAIN (x \o c) : (x \o c)[j] = x[i]
        /\ \A i \in DOMAIN c : \E j \in DOMAIN (x \o c) : (x \o c)[j] = c[i]
    BY <2>1, JoinKeeps, Zenon
  <2> QED BY <2>2 DEF y
<1>9. /\ z \in Seq(CaseRows)
      /\ \A i \in DOMAIN y : \E j \in DOMAIN z : z[j] = y[i]
      /\ \A i \in DOMAIN d : \E j \in DOMAIN z : z[j] = d[i]
  <2>1. y \in Seq(CaseRows) /\ d \in Seq(CaseRows)
    BY <1>8, <1>2
  <2>2. /\ y \o d \in Seq(CaseRows)
        /\ \A i \in DOMAIN y : \E j \in DOMAIN (y \o d) : (y \o d)[j] = y[i]
        /\ \A i \in DOMAIN d : \E j \in DOMAIN (y \o d) : (y \o d)[j] = d[i]
    BY <2>1, JoinKeeps, Zenon
  <2> QED BY <2>2 DEF z
<1>11. \A f \in Families : f = "syntax" \/ f = "unit" \/ f = "security" \/ f = "performance"
  BY DEF Families
<1>12. ASSUME NEW f \in Families PROVE \A i \in DOMAIN lists[f] : \E j \in DOMAIN z : z[j] = lists[f][i]
  <2>1. CASE f = "syntax"
    BY <1>2, <1>7, <1>8, <1>9, <2>1
  <2>2. CASE f = "unit"
    BY <1>2, <1>7, <1>8, <1>9, <2>2
  <2>3. CASE f = "security"
    BY <1>2, <1>8, <1>9, <2>3
  <2>4. CASE f = "performance"
    BY <1>2, <1>9, <2>4
  <2> QED BY <1>11, <2>1, <2>2, <2>3, <2>4
<1>13. z \in Seq(CaseRows)
  BY <1>9
<1> QED BY <1>6, <1>12, <1>13 DEF four

LEMMA FinishKeeps ==
  ASSUME TestsInv, NEW s \in Suites, TF!Finish(s)
  PROVE  TestsInv'
<1> DEFINE types == suite[s].types
           content == suite[s].content
           lists == [f \in Families |-> TF!Filed(s, f)]
           all == TF!FlattenSeq([i \in 1..4 |-> lists[TF!Families[i]]])
<1>1. /\ suite[s].at = "running" /\ Len(raw[s]) = Len(TF!Tasks(types)) /\ raw' = raw
      /\ suite' = [suite EXCEPT ![s].at = "done"]
      /\ result' = [result EXCEPT ![s] =
           [status |-> IF TF!Count(all, "failed") = 0 THEN "passed" ELSE "failed", lists |-> lists,
            total |-> Len(all), passed |-> TF!Count(all, "passed"), failed |-> TF!Count(all, "failed")]]
  BY FamiliesAre DEF TF!Finish
<1>2. SuiteRight(s)
  BY DEF TestsInv
<1>3. PICK n \in Nat : n = Len(raw[s]) /\ DOMAIN raw[s] = 1..n /\ \A i \in 1..n : raw[s][i] \in Seq(CaseRows)
  BY <1>2 DEF SuiteRight
<1> DEFINE mine(f) == {i \in DOMAIN raw[s] : TF!TypeOf(s, i) = f /\ raw[s][i] # TF!Raised}
<1>4. ASSUME NEW f \in Families
      PROVE  /\ mine(f) = {} => TF!Filed(s, f) = <<>>
             /\ mine(f) # {} => \E i \in mine(f) : TF!Filed(s, f) = raw[s][i]
  <2>1. TF!Filed(s, f) = IF mine(f) = {} THEN <<>> ELSE raw[s][TF!Max(mine(f))]
    BY DEF TF!Filed
  <2>2. mine(f) \in SUBSET (1..n)
    BY <1>3
  <2>3. mine(f) # {} => TF!Max(mine(f)) \in mine(f)
    <3> HIDE DEF mine
    <3> QED BY <2>2, LastOf
  <2> HIDE DEF mine
  <2> QED BY <2>1, <2>3
<1>5. lists \in [Families -> Seq(CaseRows)]
  <2>1. ASSUME NEW f \in Families PROVE TF!Filed(s, f) \in Seq(CaseRows)
    <3>1. CASE mine(f) = {}
      <4>1. TF!Filed(s, f) = <<>>
        BY <1>4, <3>1, Zenon
      <4> QED BY <4>1
    <3>2. CASE mine(f) # {}
      <4>1. PICK i \in DOMAIN raw[s] : TF!Filed(s, f) = raw[s][i]
        <5>1. \E i \in mine(f) : TF!Filed(s, f) = raw[s][i]
          BY <1>4, <3>2
        <5> QED BY <5>1
      <4> QED BY <1>3, <4>1
    <3> QED BY <3>1, <3>2
  <2> QED BY <2>1
<1> HIDE DEF lists
<1>6. /\ all \in Seq(CaseRows)
      /\ \A f \in Families : \A i \in DOMAIN lists[f] : \E j \in DOMAIN all : all[j] = lists[f][i]
  BY <1>5, AllCases
<1> HIDE DEF all
<1>7. PICK cases \in Seq(CaseRows), p \in Nat, q \in Nat, m \in Nat :
        /\ cases = all /\ p = TF!Count(all, "passed") /\ q = TF!Count(all, "failed") /\ m = Len(all)
        /\ p + q <= m
  BY <1>6, Counting
<1>8. /\ result'[s] = [status |-> IF q = 0 THEN "passed" ELSE "failed", lists |-> lists,
                       total |-> m, passed |-> p, failed |-> q]
      /\ suite'[s] = [suite[s] EXCEPT !.at = "done"]
  BY <1>1, <1>7 DEF TestsInv
<1>9. result'[s] \in Results /\ result'[s].passed + result'[s].failed <= result'[s].total
  BY <1>5, <1>7, <1>8 DEF Results
<1>10. suite'[s] \in Suits /\ suite'[s].types = types /\ suite'[s].content = content
  BY <1>2, <1>8 DEF SuiteRight, Suits
<1>11. ASSUME TF!Tasks(types) = types, NEW f \in Families
       PROVE  /\ \A i \in DOMAIN lists[f] : lists[f][i].type = f
              /\ f \in TF!ToSet(types) /\ q = 0 => TF!Count(TF!Run(f, content), "failed") = 0
  <2>1. Len(types) = n /\ \A i \in 1..n : raw[s][i] = TF!Run(types[i], content)
    BY <1>1, <1>2, <1>3, <1>11 DEF SuiteRight
  <2>2. ASSUME NEW i \in 1..n PROVE TF!TypeOf(s, i) = types[i]
    <3>1. i <= n
      OBVIOUS
    <3> QED BY <2>1, <3>1 DEF TF!TypeOf
  <2>3. \A i \in mine(f) : raw[s][i] = TF!Run(f, content) /\ TF!Run(f, content) # TF!Raised
    BY <1>3, <2>1, <2>2
  <2>4. lists[f] = TF!Filed(s, f)
    BY DEF lists
  <2>5. mine(f) # {} => lists[f] = TF!Run(f, content) /\ TF!Run(f, content) # TF!Raised
    <3> HIDE DEF mine
    <3> QED BY <1>4, <2>3, <2>4
  <2>6. \A i \in DOMAIN lists[f] : lists[f][i].type = f
    <3>1. CASE mine(f) = {}
      BY <1>4, <2>4, <3>1
    <3>2. CASE mine(f) # {}
      BY <2>5, <3>2, RunsOwnType
    <3> QED BY <3>1, <3>2
  <2>7. ASSUME f \in TF!ToSet(types), q = 0 PROVE TF!Count(TF!Run(f, content), "failed") = 0
    <3>1. TF!Run(f, content) \in Seq(CaseRows)
      BY RunsOwnType
    <3>2. SUFFICES \A i \in DOMAIN TF!Run(f, content) : TF!Run(f, content)[i].status # "failed"
      BY <3>1, Counting
    <3>3. CASE TF!Run(f, content) = TF!Raised
      BY <3>3 DEF TF!Raised, TF!Case
    <3>4. CASE TF!Run(f, content) # TF!Raised
      <4>1. types \in Seq({TF!AllTypes[i] : i \in DOMAIN TF!AllTypes})
        BY <1>2, ServicesAssumption DEF SuiteRight, Suits
      <4>2. PICK i \in 1..n : types[i] = f
        <5>1. DOMAIN types = 1..n
          BY <2>1, <4>1
        <5> QED BY <2>7, <5>1 DEF TF!ToSet
      <4>3. i \in mine(f)
        BY <1>3, <2>1, <2>2, <3>4, <4>2
      <4>4. lists[f] = TF!Run(f, content)
        BY <2>5, <4>3
      <4>5. \A j \in DOMAIN cases : cases[j].status # "failed"
        BY <1>7, <2>7, Counting
      <4> QED BY <1>6, <1>7, <4>4, <4>5
    <3> QED BY <3>3, <3>4
  <2> QED BY <2>6, <2>7
<1>12. result'[s].lists = lists /\ (result'[s].status = "passed" => q = 0)
  BY <1>8
<1>13. raw[s] \in Seq(Seq(CaseRows)) /\ raw'[s] = raw[s]
       /\ \A i \in DOMAIN raw[s] : raw[s][i] = TF!Run(TF!Tasks(types)[i], content)
  BY <1>1, <1>2 DEF SuiteRight
<1> HIDE DEF types, content
<1>14. SuiteRight(s)'
  <2>1. TF!Tasks(types) = types =>
          \A f \in Families :
              /\ \A i \in DOMAIN result'[s].lists[f] : result'[s].lists[f][i].type = f
              /\ f \in TF!ToSet(types) /\ result'[s].status = "passed" =>
                    TF!Count(TF!Run(f, content), "failed") = 0
    BY <1>11, <1>12
  <2> QED BY <1>9, <1>10, <1>13, <2>1 DEF SuiteRight
<1> QED BY <1>1, <1>14, OneSuiteMoves DEF TestsInv

LEMMA TestsNext ==
  ASSUME TestsInv, [TF!Next]_(TF!tvars)
  PROVE  TestsInv'
<1>1. CASE UNCHANGED TF!tvars
  BY <1>1 DEF TF!tvars, TestsInv, SuiteRight
<1>2. ASSUME NEW s \in Suites, TF!Begin(s) \/ TF!RunFamily(s) \/ TF!Finish(s) PROVE TestsInv'
  BY <1>2, BeginKeeps, RunFamilyKeeps, FinishKeeps
<1> QED BY <1>1, <1>2 DEF TF!Next

\* Results are filed under the type they are of and a suite passes only if none of its
\* tests failed, for any suites, scripts, contents and types asked for
\* (ScriptTestFramework.run_tests).
THEOREM TestsCorrect == Spec => []ResultsAreOfTheirTypes
<1>1. Init => TestsInv
  BY TestsInit DEF Init
<1>2. TestsInv /\ [Next]_vars => TestsInv'
  BY RunsSteps, TestsNext
<1>3. TestsInv => ResultsAreOfTheirTypes
  BY FamiliesAre DEF TestsInv, SuiteRight, ResultsAreOfTheirTypes, TF!ResultsAreOfTheirTypes
<1> QED BY <1>1, <1>2, <1>3, PTL DEF Spec

-----------------------------------------------------------------------------
(* The scores of an analysis.  What the fold over the patterns computes is *)
(* the value of a recursive function on the subsets of the patterns.       *)

Cost(matches, p) == matches[p] * SA!RiskWeight[SA!RiskOf[p]]
Pick(s) == CHOOSE x \in s : TRUE

\* g adds up the costs of the patterns of every subset of S, from the one picked on.
AddsUp(g, matches, S) ==
  g = [s \in SUBSET S |-> IF s = {} THEN 0 ELSE Cost(matches, Pick(s)) + g[s \ {Pick(s)}]]

Sums(matches, S) == CHOOSE g : AddsUp(g, matches, S)

Found == DOMAIN SA!RiskOf \ {"fork_bomb"}

LEMMA Smaller ==
  ASSUME NEW s, IsFiniteSet(s), s # {}
  PROVE  /\ Pick(s) \in s /\ IsFiniteSet(s \ {Pick(s)})
         /\ Cardinality(s) \in Nat /\ Cardinality(s) # 0
         /\ Cardinality(s \ {Pick(s)}) = Cardinality(s) - 1
<1>1. Pick(s) \in s
  BY DEF Pick
<1> QED BY <1>1, FS_RemoveElement, FS_CardinalityType, FS_EmptySet

LEMMA SumsAddUp ==
  ASSUME NEW S, IsFiniteSet(S), NEW matches
  PROVE  AddsUp(Sums(matches, S), matches, S)
<1> DEFINE Round(g) == [s \in SUBSET S |-> IF s = {} THEN 0 ELSE Cost(matches, Pick(s)) + g[s \ {Pick(s)}]]
           UpTo(g, n) == g = [s \in SUBSET S |-> g[s]] /\ \A s \in SUBSET S : Cardinality(s) <= n => g[s] = Round(g)[s]
           N == {n \in Nat : \E g : UpTo(g, n)}
<1>1. \A s \in SUBSET S : IsFiniteSet(s) /\ Cardinality(s) \in Nat /\ (Cardinality(s) = 0 => s = {})
  BY FS_Subset, FS_CardinalityType, FS_EmptySet
<1>2. 0 \in N
  <2>1. UpTo([s \in SUBSET S |-> 0], 0)
    BY <1>1
  <2> QED BY <2>1
<1>3. ASSUME NEW n \in Nat, n \in N PROVE n + 1 \in N
  <2>1. PICK g : UpTo(g, n)
    BY <1>3
  <2>2. ASSUME NEW s \in SUBSET S, Cardinality(s) <= n + 1, s # {}
        PROVE  Round(g)[s \ {Pick(s)}] = g[s \ {Pick(s)}] /\ s \ {Pick(s)} \in SUBSET S
    <3>1. Cardinality(s \ {Pick(s)}) <= n /\ s \ {Pick(s)} \in SUBSET S
      BY <1>1, <2>2, Smaller
    <3> QED BY <2>1, <3>1
  <2>3. PICK h : h = Round(g)
    OBVIOUS
  <2>4. ASSUME NEW s \in SUBSET S, Cardinality(s) <= n + 1 PROVE h[s] = Round(h)[s]
    BY <2>2, <2>3, <2>4
  <2>5. UpTo(h, n + 1)
    BY <2>3, <2>4
  <2>6. n + 1 \in Nat
    OBVIOUS
  <2> HIDE DEF UpTo
  <2> QED BY <2>5, <2>6
<1>4. \A n \in Nat : n \in N
  <2> HIDE DEF N
  <2> QED BY <1>2, <1>3, AllNaturals
<1>5. PICK g : UpTo(g, Cardinality(S))
  BY <1>1, <1>4
<1>6. \A s \in SUBSET S : Cardinality(s) <= Cardinality(S)
  BY FS_Subset
<1>7. \A s \in SUBSET S : g[s] = Round(g)[s]
  BY <1>5, <1>6
<1>8. AddsUp(g, matches, S)
  BY <1>5, <1>7 DEF AddsUp
<1> QED BY <1>8 DEF Sums

\* Where each pattern costs more, all together do.
LEMMA SumsGrow ==
  ASSUME NEW S, IsFiniteSet(S), NEW few, NEW many,
         \A p \in S : Cost(few, p) \in Nat /\ Cost(many, p) \in Nat /\ Cost(few, p) <= Cost(many, p)
  PROVE  Sums(few, S)[S] \in Nat /\ Sums(many, S)[S] \in Nat /\ Sums(few, S)[S] <= Sums(many, S)[S]
<1>1. PICK f, g : f = Sums(few, S) /\ g = Sums(many, S)
  OBVIOUS
<1>2. \A s \in SUBSET S : /\ f[s] = IF s = {} THEN 0 ELSE Cost(few, Pick(s)) + f[s \ {Pick(s)}]
                          /\ g[s] = IF s = {} THEN 0 ELSE Cost(many, Pick(s)) + g[s \ {Pick(s)}]
  <2>1. AddsUp(f, few, S) /\ AddsUp(g, many, S)
    BY <1>1, SumsAddUp
  <2>2. \A h, m : AddsUp(h, m, S) =>
          \A s \in SUBSET S : h[s] = IF s = {} THEN 0 ELSE Cost(m, Pick(s)) + h[s \ {Pick(s)}]
    BY Zenon DEF AddsUp
  <2> QED BY <2>1, <2>2
<1> DEFINE Fine(s) == f[s] \in Nat /\ g[s] \in Nat /\ f[s] <= g[s]
           N == {n \in Nat : \A s \in SUBSET S : Cardinality(s) <= n => Fine(s)}
<1>3. \A s \in SUBSET S : IsFiniteSet(s) /\ Cardinality(s) \in Nat /\ (Cardinality(s) = 0 => s = {})
  BY FS_Subset, FS_CardinalityType, FS_EmptySet
<1>4. Fine({})
  <2>1. f[{}] = 0 /\ g[{}] = 0
    BY <1>2
  <2> QED BY <2>1
<1>5. 0 \in N
  BY <1>3, <1>4
<1>6. ASSUME NEW n \in Nat, n \in N, NEW s \in SUBSET S, Cardinality(s) <= n + 1 PROVE Fine(s)
  <2>1. CASE s = {}
    BY <1>4, <2>1
  <2>2. CASE s # {}
    <3>1. Pick(s) \in S /\ s \ {Pick(s)} \in SUBSET S /\ Cardinality(s \ {Pick(s)}) <= n
      BY <1>3, <1>6, <2>2, Smaller
    <3>2. Fine(s \ {Pick(s)})
      BY <1>6, <3>1
    <3>3. f[s] = Cost(few, Pick(s)) + f[s \ {Pick(s)}] /\ g[s] = Cost(many, Pick(s)) + g[s \ {Pick(s)}]
      BY <1>2, <2>2
    <3>4. PICK a, b, c, d : /\ a = Cost(few, Pick(s)) /\ b = Cost(many, Pick(s))
                            /\ c = f[s \ {Pick(s)}] /\ d = g[s \ {Pick(s)}]
      OBVIOUS
    <3>5. a \in Nat /\ b \in Nat /\ c \in Nat /\ d \in Nat /\ a <= b /\ c <= d
      BY <3>1, <3>2, <3>4
    <3>6. a + c \in Nat /\ b + d \in Nat /\ a + c <= b + d
      BY <3>5
    <3> QED BY <3>3, <3>4, <3>6
  <2> QED BY <2>1, <2>2
<1>7. \A n \in Nat : n \in N
  <2>1. ASSUME NEW n \in Nat, n \in N PROVE n + 1 \in N
    <3>1. \A s \in SUBSET S : Cardinality(s) <= n + 1 => Fine(s)
      BY <1>6, <2>1
    <3>2. n + 1 \in Nat
      OBVIOUS
    <3> HIDE DEF Fine
    <3> QED BY <3>1, <3>2
  <2> HIDE DEF N
  <2> QED BY <1>5, <2>1, AllNaturals
<1>8. Fine(S)
  <2>1. Cardinality(S) \in N
    BY <1>3, <1>7
  <2> QED BY <1>3, <2>1
<1> QED BY <1>1, <1>8

\* What an analysis can find in a content.
Counts == [DOMAIN SA!RiskOf -> Nat]

LEMMA PatternsAreFinite == IsFiniteSet(DOMAIN SA!RiskOf) /\ IsFiniteSet(Found)
<1>3. IsFiniteSet(1..12)
  <2>1. \A n \in Nat : IsFiniteSet(1..n)
    BY FS_Interval
  <2> QED BY <2>1
<1> DEFINE names == <<"rm_root", "fork_bomb", "dd_device", "eval", "exec", "shell_true",
                      "chmod_777", "password", "api_key", "curl_bash", "wget_sh", "os_system">>
           f == [i \in 1..12 |-> names[i]]
<1>1. DOMAIN SA!RiskOf = {"rm_root", "fork_bomb", "dd_device", "eval", "exec", "shell_true",
                          "chmod_777", "password", "api_key", "curl_bash", "wget_sh", "os_system"}
  BY DEF SA!RiskOf
<1>2. f \in Surjection(1..12, DOMAIN SA!RiskOf)
  <2>1. /\ f[1] = "rm_root" /\ f[2] = "fork_bomb" /\ f[3] = "dd_device" /\ f[4] = "eval" /\ f[5] = "exec"
        /\ f[6] = "shell_true" /\ f[7] = "chmod_777" /\ f[8] = "password" /\ f[9] = "api_key"
        /\ f[10] = "curl_bash" /\ f[11] = "wget_sh" /\ f[12] = "os_system"
    OBVIOUS
  <2>2. \A i \in 1..12 : i \in {1, 2, 3, 4, 5, 6, 7, 8, 9, 10, 11, 12}
    OBVIOUS
  <2>3. {1, 2, 3, 4, 5, 6, 7, 8, 9, 10, 11, 12} \subseteq 1..12
    OBVIOUS
  <2>4. \A i \in 1..12 : f[i] \in DOMAIN SA!RiskOf
    BY <1>1, <2>1, <2>2
  <2>5. \A p \in DOMAIN SA!RiskOf : \E i \in 1..12 : f[i] = p
    BY <1>1, <2>1, <2>3
  <2>6. f = [i \in 1..12 |-> f[i]]
    OBVIOUS
  <2> HIDE DEF f
  <2> QED BY <2>4, <2>5, <2>6 DEF Surjection
<1>4. IsFiniteSet(DOMAIN SA!RiskOf)
  BY <1>2, <1>3, FS_Surjection
<1> QED BY <1>4, FS_Subset DEF Found

Risks(matches) == {"low"} \cup {SA!RiskOf[p] : p \in {q \in Found : matches[q] > 0}}

\* The cost of a pattern is a natural number, and grows with its matches.
LEMMA CostGrows ==
  ASSUME NEW few \in Counts, NEW many \in Counts, NEW p \in DOMAIN SA!RiskOf, few[p] <= many[p]
  PROVE  Cost(few, p) \in Nat /\ Cost(many, p) \in Nat /\ Cost(few, p) <= Cost(many, p)
<1>1. SA!RiskOf[p] \in {"critical", "high", "medium"}
  BY DEF SA!RiskOf
<1>2. PICK w \in Nat : w = SA!RiskWeight[SA!RiskOf[p]]
  BY <1>1 DEF SA!RiskWeight
<1>3. PICK m \in Nat, n \in Nat : m = few[p] /\ n = many[p]
  BY DEF Counts
<1>4. m * w \in Nat /\ n * w \in Nat /\ m * w <= n * w
  BY <1>3
<1> QED BY <1>2, <1>3, <1>4 DEF Cost

\* What AnalyzeSecurity computes.
LEMMA Security ==
  ASSUME NEW content, content.matches \in Counts
  PROVE  /\ SA!AnalyzeSecurity(content).score = SA!AtLeast(0, 100 - Sums(content.matches, Found)[Found])
         /\ SA!AnalyzeSecurity(content).risk_level \in Risks(content.matches)
         /\ \A r \in Risks(content.matches) :
               SA!RiskWeight[r] <= SA!RiskWeight[SA!AnalyzeSecurity(content).risk_level]
<1>1. SA!Matching(content) = Found
  BY DEF SA!Matching, Found, Counts
<1>2. SA!AnalyzeSecurity(content).score =
            SA!AtLeast(0, 100 - Sums(content.matches, SA!Matching(content))[SA!Matching(content)])
  BY DEF SA!AnalyzeSecurity, SA!MapThenSumSet, SA!MapThenFoldSet, Sums, AddsUp, Pick, Cost
<1>3. SA!AnalyzeSecurity(content).risk_level =
            CHOOSE r \in Risks(content.matches) :
                \A s \in Risks(content.matches) : SA!RiskWeight[s] <= SA!RiskWeight[r]
  BY <1>1 DEF SA!AnalyzeSecurity, Risks
<1>4. \E r \in Risks(content.matches) :
         \A s \in Risks(content.matches) : SA!RiskWeight[s] <= SA!RiskWeight[r]
  <2>1. PICK R : R = Risks(content.matches)
    OBVIOUS
  <2>2. R \subseteq {"low", "medium", "high", "critical"} /\ "low" \in R
    BY <2>1 DEF Risks, SA!RiskOf, Found
  <2>3. /\ SA!RiskWeight["low"] = 5 /\ SA!RiskWeight["medium"] = 15
        /\ SA!RiskWeight["high"] = 30 /\ SA!RiskWeight["critical"] = 50
    BY DEF SA!RiskWeight
  <2>4. \E r \in R : \A s \in R : SA!RiskWeight[s] <= SA!RiskWeight[r]
    <3>1. CASE "critical" \in R BY <2>2, <2>3, <3>1
    <3>2. CASE "critical" \notin R /\ "high" \in R BY <2>2, <2>3, <3>2
    <3>3. CASE "critical" \notin R /\ "high" \notin R /\ "medium" \in R BY <2>2, <2>3, <3>3
    <3>4. CASE "critical" \notin R /\ "high" \notin R /\ "medium" \notin R BY <2>2, <2>3, <3>4
    <3> QED BY <3>1, <3>2, <3>3, <3>4
  <2> QED BY <2>1, <2>4
<1> QED BY <1>1, <1>2, <1>3, <1>4

SubmissionsTyped == \A c \in Submissions :
    /\ c.matches \in Counts
    /\ c.lines.total \in Nat /\ c.lines.blank \in Nat /\ c.lines.comment \in Nat /\ c.lines.long \in Nat

LEMMA SubmissionTypes == SubmissionsTyped
<1>1. \A c \in Submissions : /\ c.matches \in [DOMAIN SA!RiskOf -> Nat]
                             /\ c.lines \in [total : Nat, blank : Nat, comment : Nat, long : Nat]
  BY ServicesAssumption
<1> QED BY <1>1 DEF SubmissionsTyped, Counts

\* How much a script of a type lacks of what its language asks for.
Lacking(language, type, content) ==
  IF language = "bash"
  THEN SA!If(type = "bash", SA!If("set -e" \notin content.texts, 1) + SA!If("#!" \notin content.texts, 1))
  ELSE SA!If(type = "python", SA!If("print" \in content.texts, SA!If("import logging" \notin content.texts, 1))
                              + SA!If("if __name__" \notin content.texts, 1))

LEMMA LackingIsCount ==
  ASSUME NEW language, NEW type, NEW content
  PROVE  Lacking(language, type, content) \in Nat
<1>1. /\ SA!If("set -e" \notin content.texts, 1) \in Nat /\ SA!If("#!" \notin content.texts, 1) \in Nat
      /\ SA!If("import logging" \notin content.texts, 1) \in Nat
      /\ SA!If("if __name__" \notin content.texts, 1) \in Nat
  BY DEF SA!If
<1>2. SA!If("print" \in content.texts, SA!If("import logging" \notin content.texts, 1)) \in Nat
  BY <1>1 DEF SA!If
<1>3. /\ SA!If("set -e" \notin content.texts, 1) + SA!If("#!" \notin content.texts, 1) \in Nat
      /\ SA!If("print" \in content.texts, SA!If("import logging" \notin content.texts, 1))
           + SA!If("if __name__" \notin content.texts, 1) \in Nat
  <2>1. \A x, y \in Nat : x + y \in Nat
    OBVIOUS
  <2> QED BY <1>1, <1>2, <2>1, Zenon
<1> QED BY <1>3 DEF Lacking, SA!If

\* Of two contents the one with more matches has no better scores and no lower risk.
LEMMA MoreIsNoBetter ==
  ASSUME NEW d \in Submissions, NEW e \in Submissions, NEW type, d.texts = e.texts, d.lines = e.lines,
         \A p \in DOMAIN SA!RiskOf : d.matches[p] <= e.matches[p]
  PROVE  LET few == SA!AnalyzeScript(d, type)
             many == SA!AnalyzeScript(e, type)
         IN  /\ many.security <= few.security /\ many.overall <= few.overall
             /\ SA!RiskWeight[few.risk_level] <= SA!RiskWeight[many.risk_level]
<1> DEFINE S == SA!AnalyzeSecurity(d)
           T == SA!AnalyzeSecurity(e)
           Q == SA!AnalyzeQuality(d)
           m == SA!Suggestions(d, type)
           n == SA!Suggestions(e, type)
<1>1. d.matches \in Counts /\ e.matches \in Counts
  BY SubmissionTypes DEF SubmissionsTyped
<1>2. S.score \in 0..100 /\ T.score \in 0..100 /\ T.score <= S.score
  <2>1. Sums(d.matches, Found)[Found] \in Nat /\ Sums(e.matches, Found)[Found] \in Nat
        /\ Sums(d.matches, Found)[Found] <= Sums(e.matches, Found)[Found]
    <3>1. \A p \in Found : p \in DOMAIN SA!RiskOf
      BY DEF Found
    <3> QED BY <1>1, <3>1, PatternsAreFinite, CostGrows, SumsGrow
  <2>2. /\ S.score = SA!AtLeast(0, 100 - Sums(d.matches, Found)[Found])
        /\ T.score = SA!AtLeast(0, 100 - Sums(e.matches, Found)[Found])
    BY <1>1, Security
  <2> HIDE DEF S, T
  <2> QED BY <2>1, <2>2 DEF SA!AtLeast
<1>3. SA!RiskWeight[S.risk_level] <= SA!RiskWeight[T.risk_level]
  <2>1. Risks(d.matches) \subseteq Risks(e.matches)
    <3>1. \A p \in Found : d.matches[p] \in Nat /\ e.matches[p] \in Nat /\ d.matches[p] <= e.matches[p]
      BY <1>1 DEF Found, Counts
    <3>2. \A p \in Found : d.matches[p] > 0 => e.matches[p] > 0
      BY <3>1
    <3> QED BY <3>2 DEF Risks
  <2>2. S.risk_level \in Risks(d.matches)
    BY <1>1, Security
  <2>3. \A r \in Risks(e.matches) : SA!RiskWeight[r] <= SA!RiskWeight[T.risk_level]
    BY <1>1, Security
  <2> HIDE DEF S, T
  <2> QED BY <2>1, <2>2, <2>3
<1>4. m \in Nat /\ n \in Nat /\ m <= n
  <2>1. /\ {p \in Found : d.matches[p] > 0} \subseteq {p \in Found : e.matches[p] > 0}
        /\ IsFiniteSet({p \in Found : e.matches[p] > 0})
    <3>1. \A p \in Found : d.matches[p] \in Nat /\ e.matches[p] \in Nat /\ d.matches[p] <= e.matches[p]
      BY <1>1 DEF Found, Counts
    <3> QED BY <3>1, PatternsAreFinite, FS_Subset
  <2>2. PICK D, E : D = {p \in Found : d.matches[p] > 0} /\ E = {p \in Found : e.matches[p] > 0}
    OBVIOUS
  <2>3. PICK a, b : a = Cardinality(D) /\ b = Cardinality(E)
    OBVIOUS
  <2>4. a \in Nat /\ b \in Nat /\ a <= b
    <3>1. IsFiniteSet(E) /\ D \subseteq E
      BY <2>1, <2>2
    <3> QED BY <2>3, <3>1, FS_Subset, FS_CardinalityType
  <2>5. PICK j \in Nat, k \in Nat, l \in Nat :
          /\ j = Lacking("bash", type, d) /\ k = Lacking("python", type, d) /\ l = d.lines.long
    BY LackingIsCount, SubmissionTypes DEF SubmissionsTyped
  <2>6. SA!Matching(d) = Found /\ SA!Matching(e) = Found
    BY <1>1 DEF SA!Matching, Found, Counts
  <2>7. m = a + j + k + l
    BY <2>2, <2>3, <2>5, <2>6, SameCardinality DEF SA!Suggestions, Lacking
  <2>8. n = b + j + k + l
    BY <2>2, <2>3, <2>5, <2>6, SameCardinality DEF SA!Suggestions, Lacking
  <2> HIDE DEF m, n
  <2> QED BY <2>4, <2>7, <2>8
<1>5. SA!AnalyzeQuality(e) = Q /\ Q.score \in 50..100
  <2>1. SA!AnalyzeQuality(e) = Q
    BY DEF SA!AnalyzeQuality
  <2>2. Q.score \in 50..100
    BY DEF SA!AnalyzeQuality, SA!If
  <2> QED BY <2>1, <2>2
<1>6. PICK s \in 0..100, t \in 0..100, q \in 50..100, x \in Nat, y \in Nat :
         s = S.score /\ t = T.score /\ q = Q.score /\ x = m /\ y = n
  BY <1>2, <1>4, <1>5
<1>7. /\ SA!AnalyzeScript(d, type).security = s /\ SA!AnalyzeScript(e, type).security = t
      /\ SA!AnalyzeScript(d, type).risk_level = S.risk_level
      /\ SA!AnalyzeScript(e, type).risk_level = T.risk_level
  BY <1>6 DEF SA!AnalyzeScript
<1>8. /\ SA!AnalyzeScript(d, type).overall = SA!AtLeast(0, SA!AtMost(1000, 4 * s + 3 * q + 3 * (100 - 5 * x)))
      /\ SA!AnalyzeScript(e, type).overall = SA!AtLeast(0, SA!AtMost(1000, 4 * t + 3 * q + 3 * (100 - 5 * y)))
  BY <1>5, <1>6 DEF SA!AnalyzeScript
<1>9. s \in Int /\ t \in Int /\ t <= s /\ x <= y
  BY <1>2, <1>4, <1>6
<1>10. SA!AnalyzeScript(e, type).overall <= SA!AnalyzeScript(d, type).overall
  BY <1>6, <1>8, <1>9 DEF SA!AtLeast, SA!AtMost
<1> HIDE DEF S, T
<1> QED BY <1>3, <1>7, <1>9, <1>10

\* The cache's answers are among those given, and every answer is the analysis'.
AnalysisInv ==
    /\ analysisCache \subseteq analysed /\ IsFiniteSet(analysisCache)
    /\ Cardinality(analysisCache) <= ModelCacheSize
    /\ \A e \in analysed : /\ e.content \in Submissions
                           /\ e.result = SA!AnalyzeScript(e.content, e.type)

LEMMA AnalysisInit == SA!Init => AnalysisInv
<1> SUFFICES ASSUME SA!Init PROVE AnalysisInv
  OBVIOUS
<1>1. analysisCache = {} /\ analysed = {}
  BY DEF SA!Init
<1>2. IsFiniteSet(analysisCache) /\ Cardinality(analysisCache) = 0
  BY <1>1, FS_EmptySet
<1>3. Cardinality(analysisCache) <= ModelCacheSize
  BY <1>2, ServicesAssumption
<1> QED BY <1>1, <1>2, <1>3 DEF AnalysisInv

LEMMA AnalysisNext ==
  ASSUME AnalysisInv, [SA!Next]_(SA!avars)
  PROVE  AnalysisInv'
<1>1. CASE UNCHANGED SA!avars
  BY <1>1 DEF SA!avars, AnalysisInv
<1>2. ASSUME NEW content \in Submissions, NEW type \in ScriptTypes, SA!Analyze(content, type)
      PROVE  AnalysisInv'
  <2> DEFINE known == {e \in analysisCache : e.content = content /\ e.type = type}
  <2>1. PICK entry : /\ entry = IF known # {} THEN CHOOSE e \in known : TRUE
                                ELSE [content |-> content, type |-> type,
                                      result |-> SA!AnalyzeScript(content, type)]
    OBVIOUS
  <2>2. /\ analysisCache' = IF SA!Cardinality(analysisCache) < ModelCacheSize
                            THEN analysisCache \cup {entry} ELSE analysisCache
        /\ analysed' = analysed \cup {entry}
    BY <1>2, <2>1 DEF SA!Analyze
  <2>3. entry.content \in Submissions /\ entry.result = SA!AnalyzeScript(entry.content, entry.type)
    <3>1. CASE known # {}
      <4>1. entry \in analysisCache
        BY <2>1, <3>1
      <4> QED BY <4>1 DEF AnalysisInv
    <3>2. CASE known = {}
      <4>1. entry = [content |-> content, type |-> type, result |-> SA!AnalyzeScript(content, type)]
        BY <2>1, <3>2
      <4> QED BY <4>1
    <3> QED BY <3>1, <3>2
  <2>4. \A e \in analysed' : e.content \in Submissions /\ e.result = SA!AnalyzeScript(e.content, e.type)
    BY <2>2, <2>3 DEF AnalysisInv
  <2>5. analysisCache' \subseteq analysed'
    BY <2>2 DEF AnalysisInv
  <2>6. IsFiniteSet(analysisCache') /\ Cardinality(analysisCache') <= ModelCacheSize
    <3>1. CASE analysisCache' = analysisCache
      BY <3>1 DEF AnalysisInv
    <3>2. CASE Cardinality(analysisCache) < ModelCacheSize /\ analysisCache' = analysisCache \cup {entry}
      <4>1. IsFiniteSet(analysisCache) /\ Cardinality(analysisCache) \in Nat
        BY FS_CardinalityType DEF AnalysisInv
      <4>2. /\ IsFiniteSet(analysisCache')
            /\ Cardinality(analysisCache') \in {Cardinality(analysisCache), Cardinality(analysisCache) + 1}
        BY <3>2, <4>1, FS_AddElement
      <4> QED BY <3>2, <4>1, <4>2, ServicesAssumption
    <3> QED BY <2>2, <3>1, <3>2, SameCardinality
  <2> QED BY <2>4, <2>5, <2>6 DEF AnalysisInv
<1> QED BY <1>1, <1>2 DEF SA!Next

\* A dangerous construct never pays, for any contents, types and size of the cache
\* (ScriptAnalyzer.analyze_script).
THEOREM AnalysisCorrect == Spec => []DangerNeverPays
<1>1. Init => AnalysisInv
  BY AnalysisInit DEF Init
<1>2. AnalysisInv /\ [Next]_vars => AnalysisInv'
  BY RunsSteps, AnalysisNext
<1>3. ASSUME AnalysisInv PROVE DangerNeverPays
  <2> SUFFICES ASSUME NEW e \in analysed, NEW f \in analysed,
                      e.type = f.type, e.content.texts = f.content.texts, e.content.lines = f.content.lines,
                      \A p \in DOMAIN SA!RiskOf : e.content.matches[p] <= f.content.matches[p]
               PROVE  /\ f.result.security <= e.result.security
                      /\ f.result.overall <= e.result.overall
                      /\ SA!RiskWeight[e.result.risk_level] <= SA!RiskWeight[f.result.risk_level]
    BY DEF DangerNeverPays, SA!DangerNeverPays
  <2>1. /\ e.content \in Submissions /\ f.content \in Submissions
        /\ e.result = SA!AnalyzeScript(e.content, e.type)
        /\ f.result = SA!AnalyzeScript(f.content, e.type)
    BY <1>3 DEF AnalysisInv
  <2> QED BY <2>1, MoreIsNoBetter
<1> QED BY <1>1, <1>2, <1>3, PTL DEF Spec

-----------------------------------------------------------------------------
(* The types of the four components, with what their handlers count.       *)

LEMMA ImagesNext ==
  ASSUME ContainerInv, images \subseteq Images, [CR!Next]_(CR!dvars)
  PROVE  images' \subseteq Images
<1>1. ASSUME NEW k \in Calls, CR!Pull(k) PROVE images' \subseteq Images
  <2>1. images' = images \/ images' = images \cup {call[k].image}
    BY <1>1 DEF CR!Pull
  <2> QED BY <2>1 DEF ContainerInv, ContainerTypes, CallRows
<1>2. ASSUME NEW k \in Calls, \/ CR!EnsureImage(k) \/ CR!Create(k) \/ CR!Wait(k) \/ CR!TimeOut(k)
                              \/ CR!Kill(k) \/ CR!ReadLogs(k) \/ CR!Remove(k) \/ CR!CallFails(k)
                              \/ CR!CreateUnanswered(k) \/ CR!GetExecutor(k) \/ CR!Spawn(k) \/ CR!Exits(k)
                              \/ CR!Communicate(k)
      PROVE images' = images
  BY <1>2 DEF CR!EnsureImage, CR!Create, CR!Wait, CR!TimeOut, CR!Kill, CR!ReadLogs, CR!Remove, CR!CallFails,
              CR!CreateUnanswered, CR!GetExecutor, CR!Spawn, CR!Exits, CR!Communicate
<1>3. CASE UNCHANGED CR!dvars
  BY <1>3 DEF CR!dvars
<1> QED BY <1>1, <1>2, <1>3 DEF CR!Next

\* Calls and containers are of their types (the execution service's client).
LEMMA ContainerTyped == Spec => [](focus = "container" => CR!TypeOK)
<1> DEFINE Typed == ContainerInv /\ images \subseteq Images
<1>1. Init => Typed
  <2>1. Init => CR!Init
    BY DEF Init
  <2>2. CR!Init => images \subseteq Images
    BY DEF CR!Init
  <2> QED BY <2>1, <2>2, ContainerInit
<1>2. Typed /\ [Next]_vars => Typed'
  BY RunsSteps, ContainerNext, ImagesNext
<1>3. Typed => CR!TypeOK
  <2>1. /\ CallPlaces = {"asked", "spawning", "communicating", "new", "pulling", "creating", "waiting", "reading",
                         "killing", "removing", "returned"}
        /\ Answers = ScriptExit \cup {CR!Nil, CR!Raised, CR!Failed, 0}
    BY DEF CallPlaces, Before, During, Answers, CR!Nil, CR!Raised, CR!Failed
  <2> QED BY <2>1 DEF CR!TypeOK, ContainerInv, ContainerTypes, CallRows, States, Remains
<1> QED BY <1>1, <1>2, <1>3, PTL DEF Spec

-----------------------------------------------------------------------------
\* The runs of s whose POST nobody has handled.
OnTheirWay(s) == {r \in Runs : run[r].at = "posted" /\ run[r].s = s}

\* An execution was posted, and what is on its way may become one.
PostsCover ==
    /\ posts \in [Schedules -> 0..MaxPosts]
    /\ \A s \in Schedules : late[s] + executions[s] + Cardinality(OnTheirWay(s)) <= posts[s]
    /\ disturbed \subseteq Schedules
    /\ \A r \in Runs : run[r].s \in Schedules /\ (run[r].at = "free" => run[r].loaded = 0)

LEMMA OnTheirWayCount ==
  ASSUME SchedulerInv, NEW s \in Schedules
  PROVE  IsFiniteSet(OnTheirWay(s)) /\ Cardinality(OnTheirWay(s)) \in Nat
<1>1. OnTheirWay(s) \subseteq {r \in Runs : run[r].at # "free"}
  BY DEF OnTheirWay
<1> QED BY <1>1, FS_Subset, FS_CardinalityType DEF SchedulerInv, SchedulerTypes

LEMMA FreeIsTyped == SC!Free.s \in Schedules /\ SC!Free.loaded = 0 /\ SC!Free.at = "free"
  BY ServicesAssumption DEF SC!Free

LEMMA PostsCoverNext ==
  ASSUME SchedulerInv, PostsCover, [SC!Next]_(SC!svars)
  PROVE  PostsCover'
<1>1. \A s \in Schedules : /\ IsFiniteSet(OnTheirWay(s)) /\ Cardinality(OnTheirWay(s)) \in Nat
                           /\ late[s] \in Nat /\ executions[s] \in Nat /\ posts[s] \in Nat
  BY OnTheirWayCount DEF SchedulerInv, SchedulerTypes, PostsCover
<1>2. /\ late \in [Schedules -> Nat] /\ executions \in [Schedules -> Nat] /\ run \in [Runs -> RunRows]
      /\ MaxPosts \in Nat
  BY ServicesAssumption DEF SchedulerInv, SchedulerTypes
<1>3. CASE UNCHANGED <<run, late, executions, posts, disturbed>>
  BY <1>3 DEF PostsCover, OnTheirWay
<1>4. ASSUME NEW s \in Schedules, SC!CreateSchedule(s) PROVE PostsCover'
  BY <1>3, <1>4 DEF SC!CreateSchedule
<1>5. ASSUME NEW s \in Schedules, NEW on \in BOOLEAN, SC!UpdateStatus(s, on) PROVE PostsCover'
  BY <1>3, <1>5 DEF SC!UpdateStatus
<1>6. ASSUME NEW r \in Runs, NEW s \in Schedules, NEW cron \in BOOLEAN, SC!Start(r, s, cron) PROVE PostsCover'
  <2> DEFINE new == [at |-> "posted", s |-> s, cron |-> cron, loaded |-> schedule[s].run_count]
  <2>1. /\ run[r].at = "free" /\ posts[s] < MaxPosts /\ run' = [run EXCEPT ![r] = new]
        /\ posts' = [posts EXCEPT ![s] = @ + 1] /\ late' = late /\ executions' = executions
        /\ disturbed' \subseteq disturbed \cup {s}
    BY <1>6 DEF SC!Start
  <2>2. run'[r] = new /\ \A q \in Runs : q # r => run'[q] = run[q]
    BY <1>2, <2>1
  <2>3. OnTheirWay(s)' = OnTheirWay(s) \cup {r} /\ r \notin OnTheirWay(s)
    BY <2>1, <2>2 DEF OnTheirWay
  <2>4. \A t \in Schedules : t # s => OnTheirWay(t)' = OnTheirWay(t)
    BY <2>1, <2>2 DEF OnTheirWay
  <2>5. Cardinality(OnTheirWay(s)') = Cardinality(OnTheirWay(s)) + 1
    BY <1>1, <2>3, FS_AddElement
  <2>6. posts' \in [Schedules -> 0..MaxPosts] /\ posts'[s] = posts[s] + 1
        /\ \A t \in Schedules : t # s => posts'[t] = posts[t]
    BY <1>1, <1>2, <2>1 DEF PostsCover
  <2>7. ASSUME NEW t \in Schedules
        PROVE  late'[t] + executions'[t] + Cardinality(OnTheirWay(t)') <= posts'[t]
    <3>1. late[t] + executions[t] + Cardinality(OnTheirWay(t)) <= posts[t]
      BY DEF PostsCover
    <3>2. CASE t = s
      BY <1>1, <2>1, <2>5, <2>6, <3>1, <3>2
    <3>3. CASE t # s
      BY <2>1, <2>4, <2>6, <3>1, <3>3
    <3> QED BY <3>2, <3>3
  <2>8. \A q \in Runs : run'[q].s \in Schedules /\ (run'[q].at = "free" => run'[q].loaded = 0)
    BY <2>2 DEF PostsCover
  <2> QED BY <2>1, <2>6, <2>7, <2>8 DEF PostsCover
<1>7. ASSUME NEW r \in Runs, SC!Handle(r) PROVE PostsCover'
  <2>1. /\ run[r].at = "posted" /\ posts' = posts /\ late' = late /\ disturbed' = disturbed
        /\ \/ run' = [run EXCEPT ![r].at = "created"] /\ executions' = [executions EXCEPT ![run[r].s] = @ + 1]
           \/ run' = [run EXCEPT ![r].at = "refused"] /\ executions' = executions
    BY <1>7 DEF SC!Handle
  <2>2. PICK s \in Schedules : s = run[r].s
    BY DEF PostsCover
  <2>3. /\ \A q \in Runs : q # r => run'[q] = run[q]
        /\ run'[r].at \in {"created", "refused"} /\ run'[r].s = s
    BY <1>2, <2>1, <2>2 DEF RunRows
  <2>4. OnTheirWay(s)' = OnTheirWay(s) \ {r} /\ r \in OnTheirWay(s)
    BY <2>1, <2>2, <2>3 DEF OnTheirWay
  <2>5. \A t \in Schedules : t # s => OnTheirWay(t)' = OnTheirWay(t)
    BY <2>1, <2>2, <2>3 DEF OnTheirWay
  <2>6. Cardinality(OnTheirWay(s)') = Cardinality(OnTheirWay(s)) - 1
    BY <1>1, <2>4, FS_RemoveElement
  <2>7. /\ executions'[s] = executions[s] \/ executions'[s] = executions[s] + 1
        /\ \A t \in Schedules : t # s => executions'[t] = executions[t]
    BY <1>2, <2>1, <2>2
  <2>8. ASSUME NEW t \in Schedules
        PROVE  late'[t] + executions'[t] + Cardinality(OnTheirWay(t)') <= posts'[t]
    <3>1. late[t] + executions[t] + Cardinality(OnTheirWay(t)) <= posts[t]
      BY DEF PostsCover
    <3>2. CASE t = s
      BY <1>1, <2>1, <2>6, <2>7, <3>1, <3>2
    <3>3. CASE t # s
      BY <2>1, <2>5, <2>7, <3>1, <3>3
    <3> QED BY <3>2, <3>3
  <2>9. \A q \in Runs : run'[q].s \in Schedules /\ (run'[q].at = "free" => run'[q].loaded = 0)
    BY <2>3 DEF PostsCover
  <2> QED BY <2>1, <2>8, <2>9 DEF PostsCover
<1>8. ASSUME NEW r \in Runs, SC!Answer(r) PROVE PostsCover'
  <2>1. /\ run[r].at \in {"created", "refused"} /\ run' = [run EXCEPT ![r] = SC!Free]
        /\ UNCHANGED <<late, executions, posts, disturbed>>
    BY <1>8 DEF SC!Answer
  <2>2. run'[r] = SC!Free /\ \A q \in Runs : q # r => run'[q] = run[q]
    BY <1>2, <2>1
  <2>3. \A t \in Schedules : OnTheirWay(t)' = OnTheirWay(t)
    BY <2>1, <2>2, FreeIsTyped DEF OnTheirWay
  <2>4. \A q \in Runs : run'[q].s \in Schedules /\ (run'[q].at = "free" => run'[q].loaded = 0)
    BY <2>2, FreeIsTyped DEF PostsCover
  <2> QED BY <2>1, <2>3, <2>4 DEF PostsCover
<1>9. ASSUME NEW rs \in SUBSET Runs, SC!Abandon(rs), UNCHANGED <<executions, posts>> PROVE PostsCover'
  <2> DEFINE lost(s) == {r \in rs \cap SC!RunsOf(s) : run[r].at = "posted"}
  <2>1. /\ late' = [s \in Schedules |-> late[s] + Cardinality(lost(s))]
        /\ disturbed' = disturbed \cup {run[r].s : r \in {q \in rs : run[q].at \in {"posted", "created"}}}
        /\ run' = [r \in Runs |-> IF r \in rs THEN SC!Free ELSE run[r]]
    BY <1>9, SameCardinality DEF SC!Abandon
  <2>2. \A q \in Runs : run'[q].s \in Schedules /\ (run'[q].at = "free" => run'[q].loaded = 0)
    BY <2>1, FreeIsTyped DEF PostsCover
  <2>3. disturbed' \subseteq Schedules
    BY <2>1 DEF PostsCover
  <2>4. ASSUME NEW t \in Schedules
        PROVE  late'[t] + executions'[t] + Cardinality(OnTheirWay(t)') <= posts'[t]
    <3>1. late[t] + executions[t] + Cardinality(OnTheirWay(t)) <= posts[t]
      BY DEF PostsCover
    <3>2. lost(t) \subseteq OnTheirWay(t)
      BY DEF OnTheirWay, SC!RunsOf
    <3>3. OnTheirWay(t)' = OnTheirWay(t) \ lost(t)
      BY <2>1, FreeIsTyped DEF OnTheirWay, SC!RunsOf
    <3> HIDE DEF lost
    <3>4. IsFiniteSet(lost(t)) /\ Cardinality(lost(t)) \in Nat
      BY <1>1, <3>2, FS_Subset, FS_CardinalityType
    <3>5. Cardinality(OnTheirWay(t) \ lost(t)) = Cardinality(OnTheirWay(t)) - Cardinality(lost(t))
      <4>1. OnTheirWay(t) \cap lost(t) = lost(t)
        BY <3>2
      <4>2. Cardinality(OnTheirWay(t) \ lost(t)) = Cardinality(OnTheirWay(t)) - Cardinality(OnTheirWay(t) \cap lost(t))
        BY <1>1, FS_Difference
      <4> QED BY <4>1, <4>2
    <3>6. late'[t] = late[t] + Cardinality(lost(t)) /\ executions'[t] = executions[t] /\ posts'[t] = posts[t]
      BY <1>9, <2>1
    <3> QED BY <1>1, <3>1, <3>3, <3>4, <3>5, <3>6
  <2> QED BY <1>9, <2>2, <2>3, <2>4 DEF PostsCover
<1>10. ASSUME NEW r \in Runs, SC!GiveUp(r) PROVE PostsCover'
  BY <1>9, <1>10 DEF SC!GiveUp
<1>11. ASSUME SC!Restart PROVE PostsCover'
  BY <1>9, <1>11 DEF SC!Restart
<1>12. ASSUME NEW s \in Schedules, SC!HandleLate(s) PROVE PostsCover'
  <2>1. /\ late[s] > 0 /\ late' = [late EXCEPT ![s] = @ - 1]
        /\ executions' = [executions EXCEPT ![s] = @ + 1]
        /\ UNCHANGED <<run, posts, disturbed>>
    BY <1>12 DEF SC!HandleLate
  <2>2. \A t \in Schedules : OnTheirWay(t)' = OnTheirWay(t)
    BY <2>1 DEF OnTheirWay
  <2>3. /\ late'[s] = late[s] - 1 /\ executions'[s] = executions[s] + 1
        /\ \A t \in Schedules : t # s => late'[t] = late[t] /\ executions'[t] = executions[t]
    BY <1>2, <2>1
  <2>4. ASSUME NEW t \in Schedules
        PROVE  late'[t] + executions'[t] + Cardinality(OnTheirWay(t)') <= posts'[t]
    <3>1. late[t] + executions[t] + Cardinality(OnTheirWay(t)) <= posts[t]
      BY DEF PostsCover
    <3> QED BY <1>1, <2>1, <2>2, <2>3, <3>1
  <2> QED BY <2>1, <2>4 DEF PostsCover
<1>13. CASE UNCHANGED SC!svars
  BY <1>3, <1>13 DEF SC!svars
<1> QED BY <1>4, <1>5, <1>6, <1>7, <1>8, <1>10, <1>11, <1>12, <1>13 DEF SC!Next

\* Schedules and runs are of their types, and no more runs than posts (scheduler-service).
LEMMA SchedulerTyped == Spec => [](focus = "scheduler" => SC!TypeOK)
<1> DEFINE Typed == SchedulerInv /\ PostsCover
<1>1. Init => Typed
  <2> SUFFICES ASSUME Init PROVE Typed
    OBVIOUS
  <2>1. SC!Init
    BY DEF Init
  <2>2. /\ posts = [s \in Schedules |-> 0] /\ late = [s \in Schedules |-> 0]
        /\ executions = [s \in Schedules |-> 0] /\ disturbed = {} /\ run = [r \in Runs |-> SC!Free]
    BY <2>1 DEF SC!Init
  <2>3. MaxPosts \in Nat
    BY ServicesAssumption
  <2>4. \A s \in Schedules : OnTheirWay(s) = {}
    BY <2>2, FreeIsTyped DEF OnTheirWay
  <2>5. \A s \in Schedules : late[s] + executions[s] + Cardinality(OnTheirWay(s)) <= posts[s]
    <3> SUFFICES ASSUME NEW s \in Schedules PROVE late[s] + executions[s] + Cardinality(OnTheirWay(s)) <= posts[s]
      OBVIOUS
    <3>1. Cardinality(OnTheirWay(s)) = 0
      BY <2>4, FS_EmptySet
    <3> QED BY <2>2, <3>1
  <2>6. PostsCover
    BY <2>2, <2>3, <2>5, FreeIsTyped DEF PostsCover
  <2> QED BY <2>1, <2>6, SchedulerInit
<1>2. Typed /\ [Next]_vars => Typed'
  BY RunsSteps, SchedulerNext, PostsCoverNext
<1>3. Typed => SC!TypeOK
  <2> SUFFICES ASSUME Typed PROVE SC!TypeOK
    OBVIOUS
  <2>1. MaxPosts \in Nat
    BY ServicesAssumption
  <2>2. ASSUME NEW s \in Schedules
        PROVE  /\ late[s] \in 0..MaxPosts /\ executions[s] \in 0..MaxPosts
               /\ schedule[s].run_count \in 0..MaxPosts
    <3>1. /\ Cardinality(OnTheirWay(s)) \in Nat /\ late[s] \in Nat /\ executions[s] \in Nat
          /\ schedule[s].run_count \in Nat /\ posts[s] \in 0..MaxPosts
          /\ late[s] + executions[s] + Cardinality(OnTheirWay(s)) <= posts[s]
          /\ schedule[s].run_count <= executions[s]
      BY OnTheirWayCount DEF SchedulerInv, SchedulerTypes, ScheduleRows, CountTrue, PostsCover
    <3> QED BY <2>1, <3>1
  <2>3. ASSUME NEW r \in Runs PROVE run[r].s \in Schedules /\ run[r].loaded \in 0..MaxPosts
    <3>1. run[r].s \in Schedules /\ run[r].loaded \in Nat
      BY DEF PostsCover, SchedulerInv, SchedulerTypes, RunRows
    <3>2. CASE run[r].at = "free"
      BY <2>1, <3>1, <3>2 DEF PostsCover
    <3>3. CASE run[r].at # "free"
      <4>1. CountTrue(run[r].s) /\ On(r, run[r].s)
        BY <3>1, <3>3 DEF SchedulerInv, On
      <4>2. IF run[r].at = "created" THEN run[r].loaded + 1 <= executions[run[r].s]
            ELSE run[r].loaded <= executions[run[r].s]
        BY <4>1 DEF CountTrue
      <4> QED BY <2>1, <2>2, <3>1, <4>2
    <3> QED BY <3>1, <3>2, <3>3
  <2>4. /\ schedule \in [Schedules -> [there : BOOLEAN, is_active : BOOLEAN, run_count : 0..MaxPosts]]
    BY <2>2 DEF SchedulerInv, SchedulerTypes, ScheduleRows
  <2>5. run \in [Runs -> [at : {"free", "posted", "created", "refused"}, s : Schedules,
                          cron : BOOLEAN, loaded : 0..MaxPosts]]
    BY <2>3 DEF SchedulerInv, SchedulerTypes, RunRows, RunPlaces
  <2>6. late \in [Schedules -> 0..MaxPosts] /\ executions \in [Schedules -> 0..MaxPosts]
    BY <2>2 DEF SchedulerInv, SchedulerTypes
  <2>7. jobs \subseteq Schedules /\ cut \subseteq Schedules
    BY DEF SchedulerInv, RowsAccounted, SC!Rows
  <2> QED BY <2>4, <2>5, <2>6, <2>7 DEF PostsCover, SC!TypeOK
<1> QED BY <1>1, <1>2, <1>3, PTL DEF Spec

\* The permits that are not there are with the suites that run, and a script shows the
\* results of one suite at most.
RunningSuites == {s \in Suites : suite[s].at = "running"}
PermitsFit ==
    /\ active \in [Scripts -> SUBSET Suites]
    /\ \A i \in Scripts : active[i] = {} \/ \E s \in Suites : active[i] = {s}
    /\ IsFiniteSet(RunningSuites) /\ permits \in Nat
    /\ permits + Cardinality(RunningSuites) = MaxConcurrent

LEMMA PermitsInit == TF!Init => PermitsFit
<1> SUFFICES ASSUME TF!Init PROVE PermitsFit
  OBVIOUS
<1>1. /\ active = [i \in Scripts |-> {}] /\ permits = MaxConcurrent
      /\ suite \in [Suites -> {[script |-> i, content |-> c, types |-> t, at |-> "new"] :
                               i \in Scripts, c \in Contents, t \in TypeLists}]
  BY DEF TF!Init
<1>2. RunningSuites = {}
  BY <1>1 DEF RunningSuites
<1>3. IsFiniteSet(RunningSuites) /\ Cardinality(RunningSuites) = 0
  BY <1>2, FS_EmptySet
<1>4. MaxConcurrent \in Nat
  BY ServicesAssumption
<1> QED BY <1>1, <1>3, <1>4 DEF PermitsFit

LEMMA PermitsNext ==
  ASSUME TestsInv, PermitsFit, [TF!Next]_(TF!tvars)
  PROVE  PermitsFit'
<1>1. ASSUME NEW s \in Suites, TF!Begin(s) PROVE PermitsFit'
  <2>1. /\ suite[s].at = "new" /\ permits > 0 /\ permits' = permits - 1
        /\ suite' = [suite EXCEPT ![s].at = "running"]
        /\ active' = [active EXCEPT ![suite[s].script] = {s}]
    BY <1>1 DEF TF!Begin
  <2>2. suite[s].script \in Scripts /\ suite[s] \in Suits /\ DOMAIN suite = Suites
    BY DEF TestsInv, SuiteRight, Suits
  <2>3. suite'[s].at = "running" /\ \A t \in Suites : t # s => suite'[t] = suite[t]
    BY <2>1, <2>2 DEF Suits
  <2>4. RunningSuites' = RunningSuites \cup {s} /\ s \notin RunningSuites
    BY <2>1, <2>3 DEF RunningSuites
  <2>5. IsFiniteSet(RunningSuites') /\ Cardinality(RunningSuites') = Cardinality(RunningSuites) + 1
        /\ Cardinality(RunningSuites) \in Nat
    BY <2>4, FS_AddElement, FS_CardinalityType DEF PermitsFit
  <2>6. permits' \in Nat /\ permits' + Cardinality(RunningSuites') = MaxConcurrent
    BY <2>1, <2>5 DEF PermitsFit
  <2>7. active' \in [Scripts -> SUBSET Suites]
    BY <2>1, <2>2 DEF PermitsFit
  <2>8. \A i \in Scripts : active'[i] = {} \/ \E t \in Suites : active'[i] = {t}
    BY <2>1, <2>2 DEF PermitsFit
  <2> QED BY <2>5, <2>6, <2>7, <2>8 DEF PermitsFit
<1>2. ASSUME NEW s \in Suites, TF!RunFamily(s) PROVE PermitsFit'
  BY <1>2 DEF TF!RunFamily, PermitsFit, RunningSuites
<1>3. ASSUME NEW s \in Suites, TF!Finish(s) PROVE PermitsFit'
  <2>1. /\ suite[s].at = "running" /\ permits' = permits + 1
        /\ suite' = [suite EXCEPT ![s].at = "done"] /\ active' = active
    BY <1>3 DEF TF!Finish
  <2>2. suite[s] \in Suits /\ DOMAIN suite = Suites
    BY DEF TestsInv, SuiteRight
  <2>3. suite'[s].at = "done" /\ \A t \in Suites : t # s => suite'[t] = suite[t]
    BY <2>1, <2>2 DEF Suits
  <2>4. RunningSuites' = RunningSuites \ {s} /\ s \in RunningSuites
    BY <2>1, <2>3 DEF RunningSuites
  <2>5. IsFiniteSet(RunningSuites') /\ Cardinality(RunningSuites') = Cardinality(RunningSuites) - 1
        /\ Cardinality(RunningSuites) \in Nat
    BY <2>4, FS_RemoveElement, FS_CardinalityType DEF PermitsFit
  <2>6. permits' \in Nat /\ permits' + Cardinality(RunningSuites') = MaxConcurrent
    BY <2>1, <2>5 DEF PermitsFit
  <2> QED BY <2>1, <2>5, <2>6 DEF PermitsFit
<1>4. CASE UNCHANGED TF!tvars
  BY <1>4 DEF TF!tvars, PermitsFit, RunningSuites
<1> QED BY <1>1, <1>2, <1>3, <1>4 DEF TF!Next

\* Suites are of their types, and permits count them (testing-service).
LEMMA TestsTyped == Spec => [](focus = "tests" => TF!TypeOK)
<1> DEFINE Typed == TestsInv /\ PermitsFit
<1>1. Init => Typed
  BY TestsInit, PermitsInit DEF Init
<1>2. Typed /\ [Next]_vars => Typed'
  BY RunsSteps, TestsNext, PermitsNext
<1>3. Typed => TF!TypeOK
  <2> SUFFICES ASSUME Typed PROVE TF!TypeOK
    OBVIOUS
  <2>1. ASSUME NEW s \in Suites
        PROVE  /\ suite[s].at \in {"new", "running", "done"} /\ suite[s].content \in TF!Script
               /\ result[s].status \in {"pending", "running", "passed", "failed"}
               /\ result[s].passed + result[s].failed <= result[s].total
    <3>1. SuiteRight(s)
      BY DEF TestsInv
    <3>2. Contents \subseteq TF!Script
      BY ServicesAssumption
    <3> QED BY <3>1, <3>2 DEF SuiteRight, Suits, Results
  <2>2. ASSUME NEW i \in Scripts PROVE TF!Cardinality(active[i]) <= 1
    <3>1. CASE active[i] = {}
      <4>1. Cardinality(active[i]) = 0
        BY <3>1, FS_EmptySet
      <4>2. TF!Cardinality(active[i]) = 0
        BY <4>1, SameCardinality
      <4> QED BY <4>2
    <3>2. CASE \E s \in Suites : active[i] = {s}
      <4>1. Cardinality(active[i]) = 1
        BY <3>2, FS_Singleton
      <4>2. TF!Cardinality(active[i]) = 1
        BY <4>1, SameCardinality
      <4> QED BY <4>2
    <3> QED BY <3>1, <3>2 DEF PermitsFit
  <2>3. permits + TF!Cardinality({s \in Suites : suite[s].at = "running"}) = MaxConcurrent
    BY SameCardinality DEF PermitsFit, RunningSuites
  <2> QED BY <2>1, <2>2, <2>3 DEF TF!TypeOK
<1> QED BY <1>1, <1>2, <1>3, PTL DEF Spec

\* The scores of an analysis are where they belong.
LEMMA ScoresInRange ==
  ASSUME NEW c \in Submissions, NEW type
  PROVE  /\ SA!AnalyzeScript(c, type).security \in 0..100
         /\ SA!AnalyzeScript(c, type).overall \in 0..1000
         /\ SA!AnalyzeScript(c, type).quality \in 50..100
         /\ SA!AnalyzeScript(c, type).performance \in 70..100
         /\ SA!AnalyzeScript(c, type).risk_level \in DOMAIN SA!RiskWeight
<1> DEFINE S == SA!AnalyzeSecurity(c)
           Q == SA!AnalyzeQuality(c)
           m == SA!Suggestions(c, type)
<1>1. c.matches \in Counts
  BY SubmissionTypes DEF SubmissionsTyped
<1>2. S.score \in 0..100
  <2>1. Sums(c.matches, Found)[Found] \in Nat
    <3>1. \A p \in Found : p \in DOMAIN SA!RiskOf /\ c.matches[p] <= c.matches[p]
      BY <1>1 DEF Found, Counts
    <3> QED BY <1>1, <3>1, PatternsAreFinite, CostGrows, SumsGrow
  <2>2. S.score = SA!AtLeast(0, 100 - Sums(c.matches, Found)[Found])
    BY <1>1, Security
  <2> HIDE DEF S
  <2> QED BY <2>1, <2>2 DEF SA!AtLeast
<1>3. S.risk_level \in DOMAIN SA!RiskWeight
  <2>1. S.risk_level \in Risks(c.matches)
    BY <1>1, Security
  <2>2. Risks(c.matches) \subseteq {"low", "medium", "high", "critical"}
    BY DEF Risks, SA!RiskOf, Found
  <2> HIDE DEF S
  <2> QED BY <2>1, <2>2 DEF SA!RiskWeight
<1>4. Q.score \in 50..100 /\ Q.performance \in 70..100
  BY DEF SA!AnalyzeQuality, SA!If
<1>5. m \in Int
  <2>1. PICK D : D = {p \in Found : c.matches[p] > 0} /\ IsFiniteSet(D)
    BY PatternsAreFinite, FS_Subset
  <2>2. PICK a \in Nat : a = Cardinality(D)
    BY <2>1, FS_CardinalityType
  <2>3. PICK j \in Nat, k \in Nat, l \in Nat :
          /\ j = Lacking("bash", type, c) /\ k = Lacking("python", type, c) /\ l = c.lines.long
    BY LackingIsCount, SubmissionTypes DEF SubmissionsTyped
  <2>4. SA!Matching(c) = Found
    BY <1>1 DEF SA!Matching, Found, Counts
  <2>5. m = a + j + k + l
    BY <2>1, <2>2, <2>3, <2>4, SameCardinality DEF SA!Suggestions, Lacking
  <2> HIDE DEF m
  <2> QED BY <2>5
<1>6. PICK s \in 0..100, q \in 50..100, x \in Int : s = S.score /\ q = Q.score /\ x = m
  BY <1>2, <1>4, <1>5
<1>7. /\ SA!AnalyzeScript(c, type).security = s /\ SA!AnalyzeScript(c, type).quality = q
      /\ SA!AnalyzeScript(c, type).performance = Q.performance
      /\ SA!AnalyzeScript(c, type).risk_level = S.risk_level
  BY <1>6 DEF SA!AnalyzeScript
<1>8. SA!AnalyzeScript(c, type).overall = SA!AtLeast(0, SA!AtMost(1000, 4 * s + 3 * q + 3 * (100 - 5 * x)))
  BY <1>6 DEF SA!AnalyzeScript
<1>9. SA!AnalyzeScript(c, type).overall \in 0..1000
  <2>1. \A n \in Int : SA!AtLeast(0, SA!AtMost(1000, n)) \in 0..1000
    BY DEF SA!AtLeast, SA!AtMost
  <2>2. 4 * s + 3 * q + 3 * (100 - 5 * x) \in Int
    OBVIOUS
  <2> QED BY <1>8, <2>1, <2>2
<1> HIDE DEF S, Q
<1> QED BY <1>3, <1>4, <1>6, <1>7, <1>9

\* Scores are in their ranges, and the cache within its size (ai-service).
LEMMA AnalysisTyped == Spec => [](focus = "analysis" => SA!TypeOK)
<1>1. Init => AnalysisInv
  BY AnalysisInit DEF Init
<1>2. AnalysisInv /\ [Next]_vars => AnalysisInv'
  BY RunsSteps, AnalysisNext
<1>3. ASSUME AnalysisInv PROVE SA!TypeOK
  <2>1. \A e \in analysed : e.content \in Submissions /\ e.result = SA!AnalyzeScript(e.content, e.type)
    BY <1>3 DEF AnalysisInv
  <2>2. \A e \in analysed :
          /\ e.result.security \in 0..100 /\ e.result.overall \in 0..1000
          /\ e.result.quality \in 50..100 /\ e.result.performance \in 70..100
          /\ e.result.risk_level \in DOMAIN SA!RiskWeight
    BY <2>1, ScoresInRange
  <2>3. SA!Cardinality(analysisCache) <= ModelCacheSize
    BY <1>3, SameCardinality DEF AnalysisInv
  <2> QED BY <1>3, <2>2, <2>3 DEF AnalysisInv, SA!TypeOK
<1> QED BY <1>1, <1>2, <1>3, PTL DEF Spec
=============================================================================
