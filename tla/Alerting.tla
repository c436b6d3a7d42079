------------------------------- MODULE Alerting -------------------------------
(***************************************************************************)
(* Alerting in monitoring-service: AlertManager and the handlers that      *)
(* ingest metrics, change rules, acknowledge and resolve alerts.           *)
(*                                                                         *)
(* All handlers are coroutines of one event loop.  Processing a metric is  *)
(* several small steps here, so `loop` holds the request that has the loop *)
(* and nothing else happens until it awaits the network: a Slack or        *)
(* PagerDuty call for an alert severe enough to be routed there (both are  *)
(* taken to be configured).  Time is counted in whole ticks.               *)
(***************************************************************************)
EXTENDS Integers, Sequences, FiniteSets

CONSTANTS
    Requests,      \* POST /metrics requests
    Metrics,       \* names of the metrics they carry
    RuleNames,     \* names of rules
    Rules,         \* what a rule can say
    Triggers,      \* Triggers[p]: the metrics that match rule p and exceed its threshold
    Severity,      \* Severity[p]: "warning", "error" or "critical"
    InitialRules,  \* the rules added when the service starts
    None,          \* no request, no rule
    Spares,        \* how many more insertions a table made anew takes: CPython's 2 or more
    Window,        \* ALERT_DEDUP_WINDOW_SECONDS
    HistoryMax,    \* maxlen of alert_history
    MaxTime,       \* bound: time
    MaxEdits,      \* bound: rules added, updated or removed
    MaxHandled     \* bound: the first alerts, which operators deal with

Entries == [name : RuleNames, rule : Rules]

ASSUME AlertingAssumption ==
    /\ Spares \subseteq Nat /\ Window \in Nat \ {0} /\ HistoryMax \in Nat \ {0}
    /\ MaxTime \in Nat /\ MaxEdits \in Nat /\ MaxHandled \in Nat
    /\ None \notin Requests \cup Metrics \cup Entries
    /\ "anomaly" \notin RuleNames
    /\ Triggers \in [Rules -> SUBSET Metrics]
    /\ Severity \in [Rules -> {"warning", "error", "critical"}]
    /\ InitialRules \in Seq(Entries)
    /\ \A i, j \in DOMAIN InitialRules :
          InitialRules[i].name = InitialRules[j].name => i = j

VARIABLES
    rules,      \* the entries of the rules dict, None where one was deleted
    spare,      \* how many more insertions its table takes
    pc,         \* pc[r]: where request r is
    metric,     \* metric[r]: the metric it carries
    pos,        \* pos[r]: place of its iterator over the rules
    size,       \* size[r]: number of rules when the iteration began
    seen,       \* seen[r]: number of rules the iteration has come to
    checked,    \* checked[r]: names of the rules r has evaluated (ghost)
    kept,       \* kept[r]: names that had a rule since r began (ghost)
    loop,       \* the request that runs, None when every handler waits
    now,        \* time.time()
    lastAlert,  \* last_alert_time, 0 for a key it does not have
    fired,      \* every alert created, in order: its key and time (ghost)
    status,     \* the status of each of them
    active,     \* the places in `fired` of active_alerts
    history,    \* those of alert_history
    edits       \* changes to the rules so far

requestVars == <<pc, metric, pos, size, seen, checked>>
alertVars   == <<lastAlert, fired, status, active, history>>
vars == <<rules, spare, requestVars, kept, loop, now, alertVars, edits>>

\* The rules dict is a table of entries in insertion order, where a deleted rule leaves
\* a hole; an update leaves its entry in place, and an insertion that finds no room
\* moves the entries to a new table without the holes.
Live(es) == {i \in DOMAIN es : es[i] # None}
Named(es, n) == {i \in Live(es) : es[i].name = n}

\* What a new table holds: the living entries in their order.
Packings(es) ==
    LET n == Cardinality(Live(es)) IN
    {[k \in 1..n |-> es[from[k]]] :
        from \in {f \in [1..n -> Live(es)] : \A k, l \in 1..n : k < l => f[k] < f[l]}}

Keys == (RuleNames \cup {"anomaly"}) \X Metrics

Init ==
    /\ rules = InitialRules /\ spare \in Spares
    /\ pc = [r \in Requests |-> "new"]
    /\ metric = [r \in Requests |-> None]
    /\ pos = [r \in Requests |-> 0]
    /\ size = [r \in Requests |-> 0]
    /\ seen = [r \in Requests |-> 0]
    /\ checked = [r \in Requests |-> {}]
    /\ kept = [r \in Requests |-> {}]
    /\ loop = None
    /\ now = Window
    /\ lastAlert = [k \in Keys |-> 0]
    /\ fired = <<>> /\ status = <<>> /\ active = {} /\ history = <<>>
    /\ edits = 0

-----------------------------------------------------------------------------
(* Alerts.                                                                 *)

IsDuplicate(key) == now - lastAlert[key] < Window

\* Mutant of Remember: the history is a list.
RememberAll(h, id) == Append(h, id)

\* deque(maxlen=1000).append
Remember(h, id) == IF Len(h) = HistoryMax THEN Append(Tail(h), id) ELSE Append(h, id)

\* Mutant of CreateAlert: the time of the first alert is kept.
CreateAlertOnce(key) ==
    /\ fired' = Append(fired, [key |-> key, at |-> now])
    /\ status' = Append(status, "firing")
    /\ active' = active \cup {Len(fired')}
    /\ history' = Remember(history, Len(fired'))
    /\ lastAlert' = [lastAlert EXCEPT ![key] = IF @ = 0 THEN now ELSE @]

\* The part of _create_alert and _create_anomaly_alert after the duplicate check.
CreateAlert(key) ==
    /\ fired' = Append(fired, [key |-> key, at |-> now])
    /\ status' = Append(status, "firing")
    /\ active' = active \cup {Len(fired')}
    /\ history' = Remember(history, Len(fired'))
    /\ lastAlert' = [lastAlert EXCEPT ![key] = now]

\* Mutant of Suppress: a suppressed alert renews the window.
SuppressRenewed(key) ==
    /\ lastAlert' = [lastAlert EXCEPT ![key] = now]
    /\ UNCHANGED <<fired, status, active, history>>

\* A duplicate within the window is dropped.
Suppress(key) == UNCHANGED alertVars

RaiseAlert(key) == IF IsDuplicate(key) THEN Suppress(key) ELSE CreateAlert(key)

\* acknowledge_alert and resolve_alert know only the alerts in active_alerts.
Acknowledge(id) ==
    /\ loop = None
    /\ id \in active
    /\ status' = [status EXCEPT ![id] = "acknowledged"]
    /\ UNCHANGED <<rules, spare, requestVars, kept, loop, now, lastAlert, fired, active, history, edits>>

\* Mutant of Resolve: the alert stays in active_alerts.
ResolveKept(id) ==
    /\ loop = None
    /\ id \in active
    /\ status' = [status EXCEPT ![id] = "resolved"]
    /\ UNCHANGED <<rules, spare, requestVars, kept, loop, now, lastAlert, fired, active, history, edits>>

Resolve(id) ==
    /\ loop = None
    /\ id \in active
    /\ active' = active \ {id}
    /\ status' = [status EXCEPT ![id] = "resolved"]
    /\ UNCHANGED <<rules, spare, requestVars, kept, loop, now, lastAlert, fired, history, edits>>

-----------------------------------------------------------------------------
(* process_metric.                                                         *)

\* The request gets the loop; the anomaly detector (whose statistics are left
\* out) may find the value out of range and raise an alert, which is only a
\* warning; then the iteration over the rules begins.
Ingest(r, m) ==
    /\ loop = None
    /\ pc[r] = "new"
    /\ \/ RaiseAlert(<<"anomaly", m>>)
       \/ UNCHANGED alertVars
    /\ pc' = [pc EXCEPT ![r] = "checking"]
    /\ metric' = [metric EXCEPT ![r] = m]
    /\ size' = [size EXCEPT ![r] = Cardinality(Live(rules))]
    /\ kept' = [kept EXCEPT ![r] = {rules[i].name : i \in Live(rules)}]
    /\ loop' = r
    /\ UNCHANGED <<rules, spare, pos, seen, checked, now, edits>>

Left(r) == {i \in Live(rules) : i > pos[r]}

\* The iterator finds another number of rules, or comes to more of them than there are.
Interrupted(r) == Cardinality(Live(rules)) # size[r] \/ (Left(r) # {} /\ seen[r] = size[r])

\* What follows an alert: the request goes on, or awaits Slack (and then, for
\* a critical one, PagerDuty) and gives up the loop.
Route(r, severity) ==
    IF severity = "warning"
    THEN UNCHANGED <<pc, loop>>
    ELSE /\ pc' = [pc EXCEPT ![r] = IF severity = "critical" THEN "escalating" ELSE "slack"]
         /\ loop' = None

\* The next rule of the live dict is evaluated.
CheckRule(r) ==
    /\ loop = r /\ ~Interrupted(r)
    /\ \E i \in Left(r) : LET key == <<rules[i].name, metric[r]>> IN
       /\ \A j \in Left(r) : i <= j
       /\ pos' = [pos EXCEPT ![r] = i]
       /\ checked' = [checked EXCEPT ![r] = @ \cup {rules[i].name}]
       /\ seen' = [seen EXCEPT ![r] = @ + 1]
       /\ IF metric[r] \in Triggers[rules[i].rule]
          THEN /\ RaiseAlert(key)
               /\ IF IsDuplicate(key) THEN UNCHANGED <<pc, loop>>
                                      ELSE Route(r, Severity[rules[i].rule])
          ELSE UNCHANGED <<alertVars, pc, loop>>
    /\ UNCHANGED <<rules, spare, metric, size, kept, now, edits>>

\* No rule is left: the request is answered.
Finish(r) ==
    /\ loop = r /\ ~Interrupted(r)
    /\ Left(r) = {}
    /\ pc' = [pc EXCEPT ![r] = "done"]
    /\ loop' = None
    /\ UNCHANGED <<rules, spare, metric, pos, size, seen, checked, kept, now, alertVars, edits>>

\* "dictionary changed size during iteration", or "keys changed": the request fails.
Abort(r) ==
    /\ loop = r /\ Interrupted(r)
    /\ pc' = [pc EXCEPT ![r] = "failed"]
    /\ loop' = None
    /\ UNCHANGED <<rules, spare, metric, pos, size, seen, checked, kept, now, alertVars, edits>>

\* Mutant of Answered: a PagerDuty call that failed is repeated.
AnsweredRetry(r) ==
    /\ loop = None
    /\ \/ /\ pc[r] \in {"escalating", "pagerduty"}
          /\ pc' = [pc EXCEPT ![r] = IF @ = "escalating" THEN "pagerduty" ELSE "escalating"]
          /\ UNCHANGED loop
       \/ /\ pc[r] \in {"slack", "pagerduty"}
          /\ pc' = [pc EXCEPT ![r] = "checking"]
          /\ loop' = r
    /\ UNCHANGED <<rules, spare, metric, pos, size, seen, checked, kept, now, alertVars, edits>>

\* Slack or PagerDuty answers, refuses or times out: all the same to the caller.
Answered(r) ==
    /\ loop = None
    /\ \/ /\ pc[r] = "escalating"
          /\ pc' = [pc EXCEPT ![r] = "pagerduty"]
          /\ UNCHANGED loop
       \/ /\ pc[r] \in {"slack", "pagerduty"}
          /\ pc' = [pc EXCEPT ![r] = "checking"]
          /\ loop' = r
    /\ UNCHANGED <<rules, spare, metric, pos, size, seen, checked, kept, now, alertVars, edits>>

-----------------------------------------------------------------------------
(* Rules and time.                                                         *)

\* self.rules[name] = rule for a name it does not have.
Insert(e) ==
    IF spare > 0
    THEN rules' = Append(rules, e) /\ spare' = spare - 1
    ELSE \E moved \in Packings(rules) : rules' = Append(moved, e) /\ spare' \in Spares

AddRule(e) ==
    /\ loop = None
    /\ edits < MaxEdits
    /\ edits' = edits + 1
    /\ IF Named(rules, e.name) = {} THEN Insert(e)
       ELSE /\ rules' = [i \in DOMAIN rules |-> IF i \in Named(rules, e.name) THEN e ELSE rules[i]]
            /\ UNCHANGED spare
    /\ UNCHANGED <<requestVars, kept, loop, now, alertVars>>

RemoveRule(n) ==
    /\ loop = None
    /\ edits < MaxEdits
    /\ Named(rules, n) # {}
    /\ edits' = edits + 1
    /\ rules' = [i \in DOMAIN rules |-> IF i \in Named(rules, n) THEN None ELSE rules[i]]
    /\ kept' = [r \in Requests |-> kept[r] \ {n}]
    /\ UNCHANGED <<spare, requestVars, loop, now, alertVars>>

Tick ==
    /\ loop = None
    /\ now < MaxTime
    /\ now' = now + 1
    /\ UNCHANGED <<rules, spare, requestVars, kept, loop, alertVars, edits>>

\* What the event loop does for request r without anybody's help.
Run(r) == CheckRule(r) \/ Finish(r) \/ Abort(r) \/ Answered(r)

Next ==
    \/ \E r \in Requests : Run(r) \/ \E m \in Metrics : Ingest(r, m)
    \/ \E id \in active \cap (1..MaxHandled) : Acknowledge(id) \/ Resolve(id)
    \/ \E e \in Entries : AddRule(e)
    \/ \E n \in RuleNames : RemoveRule(n)
    \/ Tick

\* The loop runs what can run, and every network call has a timeout.
Fairness == \A r \in Requests : WF_vars(Run(r))

Spec == Init /\ [][Next]_vars
FairSpec == Spec /\ Fairness
-----------------------------------------------------------------------------
(* Correctness.                                                            *)

TypeOK ==
    /\ rules \in Seq(Entries \cup {None})
    /\ \A i, j \in Live(rules) : rules[i].name = rules[j].name => i = j
    /\ pc \in [Requests -> {"new", "checking", "slack", "escalating", "pagerduty",
                            "done", "failed"}]
    /\ metric \in [Requests -> Metrics \cup {None}]
    /\ pos \in [Requests -> Nat] /\ size \in [Requests -> Nat]
    /\ seen \in [Requests -> Nat] /\ spare \in Nat
    /\ loop \in Requests \cup {None}
    /\ now \in Nat /\ edits \in Nat
    /\ lastAlert \in [Keys -> Nat]
    /\ fired \in Seq([key : Keys, at : Nat])
    /\ status \in Seq({"firing", "acknowledged", "resolved"})
    /\ Len(status) = Len(fired)
    /\ active \subseteq DOMAIN fired
    /\ history \in Seq(DOMAIN fired) /\ Len(history) <= HistoryMax

\* Two alerts of the same rule and metric are at least the deduplication
\* window apart, although several requests create alerts and each gives up the
\* loop while it routes one (_is_duplicate, _create_alert, _create_anomaly_alert).
DedupHolds ==
    \A i, j \in DOMAIN fired :
        i < j /\ fired[i].key = fired[j].key => fired[j].at - fired[i].at >= Window

\* A metric over a rule's threshold is never dropped silently: when the rule
\* has been evaluated there is an alert for its key that is younger than the
\* deduplication window (process_metric, _evaluate_rule, _create_alert).
EveryTriggerCovered ==
    [][\A r \in Requests : LET i == pos'[r] IN
          i # pos[r] /\ metric[r] \in Triggers[rules[i].rule] =>
            \E id \in DOMAIN fired' :
                /\ fired'[id].key = <<rules[i].name, metric[r]>>
                /\ now - fired'[id].at < Window]_vars

\* active_alerts holds exactly the alerts that have not been resolved, in
\* whatever order they are routed, acknowledged and resolved.
ActiveIsOpen == active = {id \in DOMAIN status : status[id] # "resolved"}

\* Every request to ingest a metric ends (process_metric and _route_alert).
RequestEnds == \A r \in Requests : pc[r] = "checking" ~> pc[r] \in {"done", "failed"}

\* "Process a metric and check against all rules.": when a request is over,
\* every rule that was there all along has been checked.
AllRulesChecked ==
    \A r \in Requests : pc[r] \in {"done", "failed"} => kept[r] \subseteq checked[r]
=============================================================================
