------------------------------ MODULE Services ------------------------------
(***************************************************************************)
(* The services and shared components that touch each other only through   *)
(* requests, side by side.  `focus` is chosen once: in a behaviour one     *)
(* component takes all the steps, so that the states are the sum of the    *)
(* components' states and not their product.                               *)
(***************************************************************************)
EXTENDS Integers, Sequences, FiniteSets

CONSTANTS
    Processes, Readers, MaxVersion, MaxFaults,
    Suites, Scripts, MaxConcurrent, Contents, TypeLists,
    Sockets, Channels, Payloads, MaxMessages, Spares,
    Calls, Images, ScriptExit, MaxTrouble,
    Schedules, Runs, MaxPosts, MaxRestarts,
    Ops, Names, Source, Sanitized, MaxDbFaults,
    ScriptTypes, ModelCacheSize, Submissions,
    Topics, Events, MaxEvents, MaxMishaps,
    Approvals, Users, RoleOf, Rules, Actions, MaxLost,
    Registrations, Usernames, Emails, Logins, MaxFailures,
    Tabs, Requests, MaxLogins

VARIABLES
    row, writer, roomy, memory, shared, reader, tasks, faults, missed,
    suite, raw, result, active, permits,
    endpoint, gone, connections, queue, taken, listener, spare, shuffled, heard, since,
    call, images, container, trouble,
    schedule, jobs, run, late, executions, posts, restarts, cut, disturbed,
    service, record, op, written, audit, excused, dbfaults,
    analysisCache, analysed,
    consumer, topic, committed, position, rows, dropped, mishaps, replays,
    rules, approval, decided, calling, executed, losses,
    users, register, overlap, login, told, failures,
    storage, tab, request, logins, expired, ended,
    focus  \* the component that takes the steps

cacheVars == <<row, writer, roomy, memory, shared, reader, tasks, faults, missed>>
testsVars == <<suite, raw, result, active, permits>>
notificationVars == <<endpoint, gone, connections, queue, taken, listener, spare, shuffled,
                      heard, since>>
containerVars == <<call, images, container, trouble>>
schedulerVars == <<schedule, jobs, run, late, executions, posts, restarts, cut, disturbed>>
recordsVars == <<service, record, op, written, audit, excused, dbfaults>>
analysisVars == <<analysisCache, analysed>>
auditVars == <<consumer, topic, committed, position, rows, dropped, mishaps, replays>>
approvalVars == <<rules, approval, decided, calling, executed, losses>>
accountsVars == <<users, register, overlap, login, told, failures>>
browserVars == <<storage, tab, request, logins, expired, ended>>

CA == INSTANCE Cache
TF == INSTANCE TestFramework
NO == INSTANCE Notification
CR == INSTANCE ContainerRun
SC == INSTANCE Scheduler
RE == INSTANCE Records
SA == INSTANCE ScriptAnalysis
AT == INSTANCE AuditTrail
AP == INSTANCE Approval
AC == INSTANCE Accounts
BR == INSTANCE BrowserSession

\* The bounds are numbers.  A rule may ask for any number of approvals: nothing checks
\* it.  A name that is asked for or cloned, and what sanitize_html makes of it, fits
\* the unique column; the ids of new rows are new.  Scripts have the kinds and tests
\* the types there are, and what an analysis finds in a content can be counted.
ASSUME ServicesAssumption ==
    /\ {MaxVersion, MaxFaults, MaxConcurrent, MaxPosts, ModelCacheSize, MaxMishaps, MaxLost,
        MaxFailures, MaxLogins} \subseteq Nat
    /\ Spares \subseteq Nat
    /\ Schedules # {} /\ Tabs # {}
    /\ \A rule \in Rules : rule.count \in Int
    /\ Source \in Names /\ \A n \in DOMAIN Sanitized : n \in Names /\ Sanitized[n] \in Names
    /\ Names \cap Ops = {}
    /\ Contents \subseteq TF!Script
    /\ TypeLists \subseteq Seq({TF!AllTypes[i] : i \in DOMAIN TF!AllTypes})
    /\ \A c \in Submissions :
           /\ c.matches \in [DOMAIN SA!RiskOf -> Nat]
           /\ c.lines \in [total : Nat, blank : Nat, comment : Nat, long : Nat]

Components == {"cache", "tests", "notification", "container", "scheduler",
               "records", "analysis", "audit", "approval", "accounts", "browser"}

\* Where a component does not take the steps, one of its initial states will do.
Init ==
    /\ focus \in Components
    /\ CA!Init /\ (focus # "cache" => roomy = {} /\
                       \A r \in Readers : reader[r].p = CHOOSE p \in Processes : TRUE)
    /\ TF!Init /\ (focus # "tests" => \A i \in Suites :
                       suite[i].content.check = "crash" /\ suite[i].types = <<"unit", "security">>)
    /\ NO!Init /\ (focus # "notification" => \A s, t \in Sockets : endpoint[s] = endpoint[t])
    /\ CR!Init /\ (focus # "container" => images = {} /\ \A k \in Calls :
                       call[k].image = "bash" /\ call[k].script = 0 /\ call[k].type = "docker")
    /\ SC!Init
    /\ RE!Init /\ (focus # "records" => service = "secrets" /\ \A n \in Names : record[n].state = "absent")
    /\ (focus # "records" => \A o \in Ops : op[o].kind = "create" /\ op[o].name = "plain")
    /\ SA!Init
    /\ AT!Init /\ (focus # "audit" => consumer.code = "core")
    /\ AP!Init /\ (focus # "approval" => \A a \in Approvals : approval[a].action = "other")
    /\ AC!Init /\ (focus # "accounts" => \A r \in Registrations :
                       register[r].name = "ann" /\ register[r].email = "a@")
    /\ (focus # "accounts" => \A l \in Logins : login[l].name = "ann")
    /\ BR!Init

\* The components that do not take the steps keep their variables.
Others ==
    /\ UNCHANGED focus
    /\ IF focus = "cache" THEN TRUE ELSE UNCHANGED cacheVars
    /\ IF focus = "tests" THEN TRUE ELSE UNCHANGED testsVars
    /\ IF focus = "notification" THEN TRUE ELSE UNCHANGED notificationVars
    /\ IF focus = "container" THEN TRUE ELSE UNCHANGED containerVars
    /\ IF focus = "scheduler" THEN TRUE ELSE UNCHANGED schedulerVars
    /\ IF focus = "records" THEN TRUE ELSE UNCHANGED recordsVars
    /\ IF focus = "analysis" THEN TRUE ELSE UNCHANGED analysisVars
    /\ IF focus = "audit" THEN TRUE ELSE UNCHANGED auditVars
    /\ IF focus = "approval" THEN TRUE ELSE UNCHANGED approvalVars
    /\ IF focus = "accounts" THEN TRUE ELSE UNCHANGED accountsVars
    /\ IF focus = "browser" THEN TRUE ELSE UNCHANGED browserVars

Next ==
    \/ focus = "cache" /\ CA!Next /\ Others
    \/ focus = "tests" /\ TF!Next /\ Others
    \/ focus = "notification" /\ NO!Next /\ Others
    \/ focus = "container" /\ CR!Next /\ Others
    \/ focus = "scheduler" /\ SC!Next /\ Others
    \/ focus = "records" /\ RE!Next /\ Others
    \/ focus = "analysis" /\ SA!Next /\ Others
    \/ focus = "audit" /\ AT!Next /\ Others
    \/ focus = "approval" /\ AP!Next /\ Others
    \/ focus = "accounts" /\ AC!Next /\ Others
    \/ focus = "browser" /\ BR!Next /\ Others

vars == <<cacheVars, testsVars, notificationVars, containerVars, schedulerVars,
          recordsVars, analysisVars, auditVars, approvalVars, accountsVars, browserVars,
          focus>>

Spec == Init /\ [][Next]_vars /\ CA!Fairness
-----------------------------------------------------------------------------

\* The state of each component has its type, and what its handlers count agrees
\* with what they keep: permits with running suites, the registered sockets with
\* their endpoints, the offsets with each other.
TypesOK ==
    /\ focus = "cache" => CA!TypeOK
    /\ focus = "tests" => TF!TypeOK
    /\ focus = "notification" => NO!TypeOK
    /\ focus = "container" => CR!TypeOK
    /\ focus = "scheduler" => SC!TypeOK
    /\ focus = "records" => RE!TypeOK
    /\ focus = "analysis" => SA!TypeOK
    /\ focus = "audit" => AT!TypeOK
    /\ focus = "approval" => AP!TypeOK
    /\ focus = "accounts" => AC!TypeOK
    /\ focus = "browser" => BR!TypeOK

\* Two-level cache: an outdated entry has a known cause.
StaleExplained == focus = "cache" => CA!StaleExplained
\* Two-level cache: in the end Redis holds nothing outdated.
SharedGetsFresh == CA!SharedGetsFresh
\* Test framework: results are filed under the type they are of.
ResultsAreOfTheirTypes == focus = "tests" => TF!ResultsAreOfTheirTypes
\* Notification: whoever is connected hears every message of its channel.
HeardAllSince == focus = "notification" => NO!HeardAllSince
\* Script containers: whatever fails, the container is removed.
LeavesNothing == focus = "container" => CR!LeavesNothing
\* Scheduler: run_count is the number of executions.
RunCountTrue == focus = "scheduler" => SC!RunCountTrue
\* Scheduler: jobs and schedules belong together.
JobsMatchSchedules == focus = "scheduler" => SC!JobsMatchSchedules
\* Records: the status of an answer is true of the tables.
AnswersTruthful == focus = "records" => RE!AnswersTruthful
\* Records: the check finds duplicates before the unique column does.
DuplicatesFoundByTheCheck == focus = "records" => RE!DuplicatesFoundByTheCheck
\* Script analysis: more dangerous constructs never score better.
DangerNeverPays == focus = "analysis" => SA!DangerNeverPays
\* Audit trail: no event is skipped, and reports count what happened.
TrailComplete == focus = "audit" => AT!TrailComplete
\* Approvals: what was approved as often as required runs once, nothing else runs.
ApprovedRunsOnce == focus = "approval" => AP!ApprovedRunsOnce
\* Accounts: the first user is admin, others only by overlapping registrations.
FirstUserIsAdmin == focus = "accounts" => AC!FirstUserIsAdmin
\* Browser: a session is lost for a reason only.
SessionLostForAReason == focus = "browser" => BR!SessionLostForAReason
=============================================================================
