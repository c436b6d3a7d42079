---------------------------- MODULE ContainerRun ----------------------------
(***************************************************************************)
(* A script run by an executor that get_executor hands out: DockerExecutor *)
(* calls SecureDockerClient.execute_script, and LocalExecutor starts a     *)
(* process.  Every call to the Docker daemon is made in a thread and       *)
(* awaited, and may fail; an action is one such call, or one await on the  *)
(* process, and what the coroutine does with its answer.                   *)
(*                                                                         *)
(* The daemon answers a wait for a container that was never started at     *)
(* once, with status code 0, and refuses to kill a container that does not *)
(* run.                                                                    *)
(***************************************************************************)
EXTENDS Integers, FiniteSets

CONSTANTS
    Calls,      \* calls of execute in flight together
    Images,     \* the images a script type may need
    ScriptExit, \* exit codes the scripts would end with
    MaxTrouble  \* bound: calls to the daemon or the system that fail or hang

VARIABLES
    call,       \* call[k]: the executor asked for, its place, image, the script's exit
                \* code, what it answers
    images,     \* the images the daemon has
    container,  \* container[k]: the container of k as the daemon has it, or its process
    trouble     \* calls to the daemon that failed or hung so far

dvars == <<call, images, container, trouble>>

\* ExecutionResult, by its exit code; Raised is no result but an exception.
Nil == -3
Raised == -2
Failed == -1

\* ExecutorType; get_executor has no class for the last two.
ExecutorTypes == {"docker", "local", "kubernetes", "aws_lambda"}

Init ==
    /\ call \in [Calls -> [type : ExecutorTypes, at : {"asked"}, image : Images, script : ScriptExit,
                           answer : {Nil}, left : {"nothing"}]]
    /\ images \in SUBSET Images
    /\ container = [k \in Calls |-> "none"]
    /\ trouble = 0

Trouble == trouble < MaxTrouble /\ trouble' = trouble + 1
Go(k, place, answer) == call' = [call EXCEPT ![k].at = place, ![k].answer = answer]

\* A mutant of Finally: only a result leads to the removal.
FinallyAfterResult(k, answer) ==
    Go(k, IF container'[k] = "none" \/ answer \in {Failed, Raised} THEN "returned" ELSE "removing", answer)

\* `finally`: there is a container to remove, or the call is over.
Finally(k, answer) ==
    Go(k, IF container'[k] = "none" THEN "returned" ELSE "removing", answer)

\* A call to the daemon raises: the last except turns it into a result.
CallFails(k) ==
    /\ call[k].at \in {"new", "pulling", "creating", "waiting", "reading"}
    /\ Trouble /\ UNCHANGED <<images, container>>
    /\ Finally(k, Failed)

\* The daemon creates the container and the answer is lost: for execute_script
\* there is none to remove.
CreateUnanswered(k) ==
    /\ call[k].at = "creating" /\ Trouble
    /\ container' = [container EXCEPT ![k] = "created"]
    /\ call' = [call EXCEPT ![k].at = "returned", ![k].answer = Failed, ![k].left = "unknown"]
    /\ UNCHANGED images
-----------------------------------------------------------------------------

\* get_executor raises ValueError for what it has no class for.
GetExecutor(k) ==
    /\ call[k].at = "asked"
    /\ CASE call[k].type = "docker" -> Go(k, "new", Nil)
         [] call[k].type = "local" -> Go(k, "spawning", Nil)
         [] OTHER -> Go(k, "returned", Raised)
    /\ UNCHANGED <<images, container, trouble>>

\* LocalExecutor: create_subprocess_exec, whose exceptions nobody catches.
Spawn(k) ==
    /\ call[k].at = "spawning" /\ UNCHANGED images
    /\ \/ /\ Go(k, "communicating", Nil) /\ UNCHANGED trouble
          /\ container' = [container EXCEPT ![k] = "running"]
       \/ Trouble /\ Go(k, "returned", Raised) /\ UNCHANGED container

\* The process ends by itself ...
Exits(k) ==
    /\ call[k].at = "communicating" /\ container[k] = "running"
    /\ container' = [container EXCEPT ![k] = "exited"]
    /\ UNCHANGED <<call, images, trouble>>

\* ... and communicate returns, unless it is out of time first: the process is
\* killed, which is nothing for one that has ended.
Communicate(k) ==
    /\ call[k].at = "communicating" /\ UNCHANGED images
    /\ \/ container[k] = "exited" /\ Go(k, "returned", call[k].script) /\ UNCHANGED <<container, trouble>>
       \/ /\ Trouble /\ Go(k, "returned", Failed)
          /\ container' = [container EXCEPT ![k] = "exited"]

\* _ensure_image asks for the image, and pulls it when it is not there.
EnsureImage(k) ==
    /\ call[k].at = "new"
    /\ Go(k, IF call[k].image \in images THEN "creating" ELSE "pulling", Nil)
    /\ UNCHANGED <<images, container, trouble>>

Pull(k) ==
    /\ call[k].at = "pulling" /\ Go(k, "creating", Nil)
    /\ images' = images \cup {call[k].image}
    /\ UNCHANGED <<container, trouble>>

\* _create_container creates the container and does not start it.
Create(k) ==
    /\ call[k].at = "creating" /\ Go(k, "waiting", Nil)
    /\ container' = [container EXCEPT ![k] = "created"]
    /\ UNCHANGED <<images, trouble>>

\* What a wait for k's container answers: its exit code, if it ever ran.
StatusCode(k) == IF container[k] = "exited" THEN call[k].script ELSE 0

\* The daemon answers the wait; it does so once the container does not run.
Wait(k) ==
    /\ call[k].at = "waiting" /\ container[k] # "running"
    /\ Go(k, "reading", StatusCode(k))
    /\ UNCHANGED <<images, container, trouble>>

\* No answer within the timeout, though the container is not running.
TimeOut(k) ==
    /\ call[k].at = "waiting" /\ Trouble
    /\ Go(k, "killing", Nil)
    /\ UNCHANGED <<images, container>>

\* The kill after a timeout raises unless the container runs, and an exception in
\* an except clause leaves the function, through `finally`.
Kill(k) ==
    /\ call[k].at = "killing"
    /\ container' = [container EXCEPT ![k] = IF @ = "running" THEN "exited" ELSE @]
    /\ Finally(k, IF container[k] = "running" THEN Failed ELSE Raised)
    /\ UNCHANGED <<images, trouble>>

\* Both logs are read, and the result is on its way.
ReadLogs(k) ==
    /\ call[k].at = "reading"
    /\ UNCHANGED <<images, container, trouble>>
    /\ Finally(k, call[k].answer)

\* A remove that fails is logged and leaves the container to the daemon.
Remove(k) ==
    /\ call[k].at = "removing"
    /\ \/ /\ container' = [container EXCEPT ![k] = "none"]
          /\ call' = [call EXCEPT ![k].at = "returned"]
          /\ UNCHANGED trouble
       \/ /\ Trouble /\ UNCHANGED container
          /\ call' = [call EXCEPT ![k].at = "returned", ![k].left = "unremoved"]
    /\ UNCHANGED images

Next == \E k \in Calls :
    \/ EnsureImage(k) \/ Pull(k) \/ Create(k) \/ Wait(k) \/ TimeOut(k)
    \/ Kill(k) \/ ReadLogs(k) \/ Remove(k) \/ CallFails(k)
    \/ CreateUnanswered(k) \/ GetExecutor(k) \/ Spawn(k) \/ Exits(k) \/ Communicate(k)

Spec == Init /\ [][Next]_dvars
-----------------------------------------------------------------------------

TypeOK ==
    /\ call \in [Calls -> [type : ExecutorTypes,
                           at : {"asked", "spawning", "communicating", "new", "pulling", "creating", "waiting", "reading",
                                 "killing", "removing", "returned"},
                           image : Images, script : ScriptExit,
                           answer : ScriptExit \cup {Nil, Raised, Failed, 0},
                           left : {"nothing", "unremoved", "unknown"}]]
    /\ images \subseteq Images
    /\ container \in [Calls -> {"none", "created", "running", "exited"}]

\* Whichever call to the daemon fails, a finished execution has removed its
\* container, unless the removal itself failed or the container was created and
\* execute_script never learnt of it; and one that ran locally has no process.
LeavesNothing ==
    \A k \in Calls : call[k].at = "returned" =>
        IF call[k].type = "local" THEN container[k] # "running"
        ELSE (container[k] # "none") = (call[k].left # "nothing")
=============================================================================
