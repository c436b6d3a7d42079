------------------------------ MODULE Lifecycle ------------------------------
(***************************************************************************)
(* What execution-service promises about the status of an execution,       *)
(* whoever writes it: the status column as a client sees it from one query *)
(* to the next, and whether a script of the execution ended well.  There   *)
(* are no workers, messages, sessions or containers here; Execution        *)
(* implements this specification with all of them.                         *)
(***************************************************************************)

CONSTANT Executions

VARIABLES
    status,  \* status[e], "absent" before the execution is requested
    earned   \* executions of which some script run ended with exit code zero

Touched(e) == status[e] \notin {"absent", "pending"}
Become(e, s) == status' = [status EXCEPT ![e] = s] /\ UNCHANGED earned

Init ==
    /\ status = [e \in Executions |-> "absent"]
    /\ earned = {}

\* A request; an execution is requested once.
Request(e) == status[e] = "absent" /\ Become(e, "pending")

\* A worker takes the execution, perhaps not for the first time.
Run(e) == status[e] # "absent" /\ Become(e, "running")

\* A script can only end well after its execution left PENDING.
EndWell(e) == Touched(e) /\ earned' = earned \cup {e} /\ UNCHANGED status

\* A result is recorded over anything but a PENDING row, SUCCESS only when earned.
Succeed(e) == Touched(e) /\ e \in earned /\ Become(e, "success")
Fail(e) == Touched(e) /\ Become(e, "failed")

Cancel(e) == status[e] # "absent" /\ Become(e, "cancelled")

Next == \E e \in Executions :
    Request(e) \/ Run(e) \/ EndWell(e) \/ Succeed(e) \/ Fail(e) \/ Cancel(e)

Spec == Init /\ [][Next]_<<status, earned>>
=============================================================================
