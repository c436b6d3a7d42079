------------------------------ MODULE Scheduler ------------------------------
(***************************************************************************)
(* scheduler-service: schedules in its table, their cron jobs in the job   *)
(* store of APScheduler, and the runs of execute_scheduled_script, which   *)
(* load the schedule, await a POST to execution-service and count the run. *)
(*                                                                         *)
(* There is one process.  Its handlers use the database synchronously, so  *)
(* an action is what happens between two awaits; the POST is handled by    *)
(* another service, perhaps after the caller has given up.                 *)
(***************************************************************************)
EXTENDS Integers, FiniteSets

CONSTANTS
    Schedules,   \* schedules, each with a name of its own
    Runs,        \* executions of execute_scheduled_script in flight together
    MaxPosts,    \* bound: POSTs to execution-service per schedule
    MaxRestarts  \* bound: deaths of the process

VARIABLES
    schedule,    \* schedule[s]: the committed row
    jobs,        \* schedules with a job in the job store
    run,         \* run[r]: its place, its schedule, and the run_count it loaded
    late,        \* late[s]: POSTs on their way though nobody waits for the answer
    executions,  \* executions[s]: created for s by execution-service
    posts,       \* posts[s]: POSTs made for s
    restarts,    \* deaths of the process so far
    cut,         \* schedules whose creation failed after the commit (ghost)
    disturbed    \* schedules of which two runs overlapped or one was not counted (ghost)

svars == <<schedule, jobs, run, late, executions, posts, restarts, cut, disturbed>>

Free == [at |-> "free", s |-> CHOOSE s \in Schedules : TRUE, cron |-> FALSE, loaded |-> 0]

Init ==
    /\ schedule = [s \in Schedules |-> [there |-> FALSE, is_active |-> FALSE, run_count |-> 0]]
    /\ jobs = {} /\ run = [r \in Runs |-> Free]
    /\ late = [s \in Schedules |-> 0]
    /\ executions = [s \in Schedules |-> 0] /\ posts = [s \in Schedules |-> 0]
    /\ restarts = 0 /\ cut = {} /\ disturbed = {}

RunsOf(s) == {r \in Runs : run[r].at # "free" /\ run[r].s = s}
Rows == {s \in Schedules : schedule[s].there}
-----------------------------------------------------------------------------

\* A mutant of CommitThenAddJob: the job is added first.
AddJobThenCommit(s) ==
    /\ jobs' = jobs \cup {s} /\ UNCHANGED cut
    /\ \/ schedule' = [schedule EXCEPT ![s].there = TRUE, ![s].is_active = TRUE]
       \/ UNCHANGED schedule

\* The row is committed first; then add_job may fail, or the process die.
CommitThenAddJob(s) ==
    /\ schedule' = [schedule EXCEPT ![s].there = TRUE, ![s].is_active = TRUE]
    /\ \/ jobs' = jobs \cup {s} /\ UNCHANGED cut
       \/ cut' = cut \cup {s} /\ UNCHANGED jobs

\* create_schedule; a name that is taken is refused, by the check while the
\* schedule is active and by the unique column when it is not.
CreateSchedule(s) ==
    /\ ~schedule[s].there
    /\ CommitThenAddJob(s)
    /\ UNCHANGED <<run, late, executions, posts, restarts, disturbed>>

\* update_schedule_status leaves the job where it is.
UpdateStatus(s, active) ==
    /\ schedule[s].there /\ schedule[s].is_active # active
    /\ schedule' = [schedule EXCEPT ![s].is_active = active]
    /\ UNCHANGED <<jobs, run, late, executions, posts, restarts, cut, disturbed>>
-----------------------------------------------------------------------------

\* execute_scheduled_script loads the schedule and posts; cron starts it once at
\* a time for a job, /trigger whenever it is asked to.
Start(r, s, cron) ==
    /\ run[r].at = "free" /\ posts[s] < MaxPosts
    /\ cron => s \in jobs /\ \A o \in RunsOf(s) : ~run[o].cron
    /\ schedule[s].there /\ schedule[s].is_active
    /\ run' = [run EXCEPT ![r] = [at |-> "posted", s |-> s, cron |-> cron,
                                  loaded |-> schedule[s].run_count]]
    /\ posts' = [posts EXCEPT ![s] = @ + 1]
    /\ disturbed' = IF RunsOf(s) = {} THEN disturbed ELSE disturbed \cup {s}
    /\ UNCHANGED <<schedule, jobs, late, executions, restarts, cut>>

\* execution-service creates an execution and answers 201, or answers otherwise.
Handle(r) ==
    /\ run[r].at = "posted"
    /\ \/ /\ run' = [run EXCEPT ![r].at = "created"]
          /\ executions' = [executions EXCEPT ![run[r].s] = @ + 1]
       \/ run' = [run EXCEPT ![r].at = "refused"] /\ UNCHANGED executions
    /\ UNCHANGED <<schedule, jobs, late, posts, restarts, cut, disturbed>>

CountedAlways(r) == TRUE

\* Only an answer with status 201 counts.
Counted(r) == run[r].at = "created"

\* The answer arrives: run_count becomes what was loaded plus one.
Answer(r) ==
    /\ run[r].at \in {"created", "refused"}
    /\ schedule' = IF Counted(r)
                   THEN [schedule EXCEPT ![run[r].s].run_count = run[r].loaded + 1]
                   ELSE schedule
    /\ run' = [run EXCEPT ![r] = Free]
    /\ UNCHANGED <<jobs, late, executions, posts, restarts, cut, disturbed>>

\* What becomes of the POSTs of the runs in rs when nobody waits for them.
Abandon(rs) ==
    /\ late' = [s \in Schedules |->
                   late[s] + Cardinality({r \in rs \cap RunsOf(s) : run[r].at = "posted"})]
    /\ disturbed' = disturbed \cup {run[r].s : r \in {q \in rs : run[q].at \in {"posted", "created"}}}
    /\ run' = [r \in Runs |-> IF r \in rs THEN Free ELSE run[r]]

\* No answer within 30 seconds, the connection breaks, or the commit that counts the run
\* raises: logged, and that is all.
GiveUp(r) ==
    /\ run[r].at # "free" /\ Abandon({r})
    /\ UNCHANGED <<schedule, jobs, executions, posts, restarts, cut>>

HandleLate(s) ==
    /\ late[s] > 0 /\ late' = [late EXCEPT ![s] = @ - 1]
    /\ executions' = [executions EXCEPT ![s] = @ + 1]
    /\ UNCHANGED <<schedule, jobs, run, posts, restarts, cut, disturbed>>

\* The process dies and starts again: its runs are gone, the job store is not.
Restart ==
    /\ restarts < MaxRestarts /\ restarts' = restarts + 1
    /\ Abandon(Runs)
    /\ UNCHANGED <<schedule, jobs, executions, posts, cut>>

Next ==
    \/ \E s \in Schedules : CreateSchedule(s) \/ HandleLate(s)
    \/ \E s \in Schedules, active \in BOOLEAN : UpdateStatus(s, active)
    \/ \E r \in Runs, s \in Schedules, cron \in BOOLEAN : Start(r, s, cron)
    \/ \E r \in Runs : Handle(r) \/ Answer(r) \/ GiveUp(r)
    \/ Restart

Spec == Init /\ [][Next]_svars
-----------------------------------------------------------------------------

TypeOK ==
    /\ schedule \in [Schedules -> [there : BOOLEAN, is_active : BOOLEAN, run_count : 0..MaxPosts]]
    /\ jobs \subseteq Schedules /\ cut \subseteq Schedules /\ disturbed \subseteq Schedules
    /\ run \in [Runs -> [at : {"free", "posted", "created", "refused"}, s : Schedules,
                         cron : BOOLEAN, loaded : 0..MaxPosts]]
    /\ late \in [Schedules -> 0..MaxPosts]
    /\ executions \in [Schedules -> 0..MaxPosts]
    /\ posts \in [Schedules -> 0..MaxPosts]

\* run_count, written from a row that was loaded before the POST, never exceeds
\* the executions that exist, and equals them once the runs are over, unless two
\* runs of the schedule overlapped, or an answer or the commit after it was lost.
RunCountTrue ==
    \A s \in Schedules :
        /\ schedule[s].run_count <= executions[s]
        /\ s \notin disturbed /\ RunsOf(s) = {} => schedule[s].run_count = executions[s]

\* Every job belongs to a committed schedule, whatever fails during the creation,
\* and a schedule without a job is one whose creation was cut short.
JobsMatchSchedules == jobs \subseteq Rows /\ Rows \ jobs = cut
=============================================================================
