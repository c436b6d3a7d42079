----------------------------- MODULE AuditTrail -----------------------------
(***************************************************************************)
(* audit-service: the consumer that turns the events of the Kafka topics   *)
(* into audit rows, and the reports counted from them.  There are two      *)
(* consumers in the service, alike but for what awaiting the synchronous   *)
(* session does to the one main.py starts (app/core/events.py).            *)
(*                                                                         *)
(* The Kafka client commits, when it polls, the positions of what it has   *)
(* already yielded, so an action is a poll or one turn of the loop.  The   *)
(* loop blocks the event loop: no route is served until it has ended.      *)
(***************************************************************************)
EXTENDS Integers, Sequences, FiniteSets

CONSTANTS
    Topics,     \* what the consumer subscribes to
    Events,     \* what is published: type (<<>> when missing), action, status, json
    MaxEvents,  \* bound: events published
    MaxMishaps  \* bound: failed inserts and deaths of the process

VARIABLES
    consumer,   \* which of the two runs, its place, and the offsets it has yet to yield
    topic,      \* topic[t]: the events in it, by offset
    committed,  \* committed[t]: the offset Kafka has for the group
    position,   \* position[t]: the offset of the last event yielded
    rows,       \* the audit_logs: offset and event they were made of, category, risk
    dropped,    \* offsets of events no row could be made of (ghost)
    mishaps,
    replays     \* times the process came back behind its position (ghost)

uvars == <<consumer, topic, committed, position, rows, dropped, mishaps, replays>>

Zero == [t \in Topics |-> 0]

Init ==
    /\ consumer \in [code : {"core", "services"}, at : {"polling"}, batch : {<<>>}]
    /\ topic = [t \in Topics |-> <<>>]
    /\ committed = Zero /\ position = Zero
    /\ rows = <<>> /\ dropped = {} /\ mishaps = 0 /\ replays = 0

Mishap == mishaps < MaxMishaps /\ mishaps' = mishaps + 1
-----------------------------------------------------------------------------

\* _get_category: the first part of a type such as <<"user", "role_changed">>.
Category(event) ==
    CASE event.type = <<>> -> "unknown"
      [] event.type # <<>> /\ event.type[1] = "user" -> "auth"
      [] event.type # <<>> /\ event.type[1] \in {"script", "execution", "secret", "approval"}
           -> event.type[1]
      [] OTHER -> "system"

\* _calculate_risk_level; only the consumer of services/ asks for the action.
RiskLevel(code, event) ==
    IF event.type # <<>> /\ (event.type[2] \in {"deleted", "role_changed"}
                             \/ event.type = <<"secret", "reveal">>) THEN "high"
    ELSE IF event.status = "failure"
            \/ (event.type # <<>> /\ event.type[1] = "secret"
                /\ (code = "core" \/ event.action = "read")) THEN "medium"
    ELSE "low"

\* A service publishes an event, after its own commit.
Publish(t, event) ==
    /\ Cardinality({e \in Topics \X (1..MaxEvents) : e[2] <= Len(topic[e[1]])}) < MaxEvents
    /\ topic' = [topic EXCEPT ![t] = Append(@, event)]
    /\ UNCHANGED <<consumer, committed, position, rows, dropped, mishaps, replays>>

\* A mutant of AutoCommit: the client commits what it has fetched.
AutoCommitFetched(t, n) == committed' = [position EXCEPT ![t] = @ + n]

\* The auto-commit of a poll that fetches n events of t, when its time has come.
AutoCommit(t, n) == committed' \in {committed, position}

\* The loop asks for more.  The deserializer sees the events first: one that is
\* not JSON raises, and that ends the loop before any of the batch is seen.
Poll ==
    /\ consumer.at = "polling"
    /\ \E t \in Topics : \E n \in 1..(Len(topic[t]) - position[t]) :
        /\ AutoCommit(t, n)
        /\ consumer' = IF \E i \in 1..n : ~topic[t][position[t] + i].json
                       THEN [consumer EXCEPT !.at = "ended"]
                       ELSE [consumer EXCEPT !.at = "yielding",
                                 !.batch = [i \in 1..n |-> <<t, position[t] + i>>]]
    /\ UNCHANGED <<topic, position, rows, dropped, mishaps, replays>>

\* _process_event: the row is stored and committed, or the error is logged; the
\* column of the type refuses NULL.  In core/events.py the session is awaited
\* after its commit, rollback and close, which raises and ends the loop.
ProcessEvent ==
    LET offset == Head(consumer.batch)
        event == topic[offset[1]][offset[2]]
        rest == Tail(consumer.batch)
        row == [offset |-> offset, event |-> event, category |-> Category(event),
                risk |-> RiskLevel(consumer.code, event)]
    IN  /\ consumer.at = "yielding"
        /\ position' = [position EXCEPT ![offset[1]] = offset[2]]
        /\ \/ event.type # <<>> /\ rows' = Append(rows, row) /\ UNCHANGED <<dropped, mishaps>>
           \/ event.type = <<>> /\ dropped' = dropped \cup {offset} /\ UNCHANGED <<rows, mishaps>>
           \/ Mishap /\ dropped' = dropped \cup {offset} /\ UNCHANGED rows
        /\ consumer' = [consumer EXCEPT
               !.at = IF consumer.code = "core" THEN "ended" ELSE IF rest = <<>> THEN "polling" ELSE @,
               !.batch = IF consumer.code = "core" THEN <<>> ELSE rest]
        /\ UNCHANGED <<topic, committed, replays>>

Start(offsets) ==
    /\ position' = offsets /\ committed' = offsets
    /\ consumer' = [consumer EXCEPT !.at = "polling", !.batch = <<>>]
    /\ replays' = replays + (IF offsets = position THEN 0 ELSE 1)
    /\ UNCHANGED <<topic, rows, dropped>>

\* Once the loop has ended the service can be stopped, which closes the consumer
\* and commits its positions, and started again; or the process dies.
Restart ==
    \/ consumer.at = "ended" /\ Mishap /\ Start(position)
    \/ Mishap /\ Start(committed)

Next ==
    \/ \E t \in Topics, event \in Events : Publish(t, event)
    \/ Poll \/ ProcessEvent \/ Restart

Spec == Init /\ [][Next]_uvars
-----------------------------------------------------------------------------
(* The reports, from the rows.                                             *)

\* generate_compliance_report and get_audit_statistics.
RoleChanges == Cardinality({i \in DOMAIN rows : rows[i].event.type = <<"user", "role_changed">>})
HighRisk == Cardinality({i \in DOMAIN rows : rows[i].risk = "high"})
FailedActions == Cardinality({i \in DOMAIN rows : rows[i].event.status = "failure"})
EventsByCategory == [c \in {rows[i].category : i \in DOMAIN rows} |->
                        Cardinality({i \in DOMAIN rows : rows[i].category = c})]
-----------------------------------------------------------------------------

TypeOK ==
    /\ consumer.at \in {"polling", "yielding", "ended"}
    /\ consumer.at # "yielding" <=> consumer.batch = <<>>
    /\ \A t \in Topics : committed[t] <= position[t] /\ position[t] <= Len(topic[t])
    /\ FailedActions <= Len(rows) /\ DOMAIN EventsByCategory \subseteq
         {"auth", "script", "execution", "secret", "approval", "system"}
    /\ mishaps \in 0..MaxMishaps

\* The events the group is past, and those of them a report should count once.
Passed == {o \in Topics \X (1..MaxEvents) : o[2] <= committed[o[1]]}
Told(Test(_)) == {o \in Passed \ dropped : Test(topic[o[1]][o[2]])}

\* No event is skipped: whatever Kafka will not deliver again has its row, unless
\* no row could be made of it, across deaths between the commits of the database
\* and of Kafka; and a report counts each deletion and role change, and more than
\* once only what was delivered again.
TrailComplete ==
    /\ \A o \in Passed \ dropped : \E i \in 1..Len(rows) : rows[i].offset = o
    /\ Cardinality(Told(LAMBDA e : e.type = <<"user", "role_changed">>)) <= RoleChanges
    /\ Cardinality(Told(LAMBDA e : RiskLevel(consumer.code, e) = "high")) <= HighRisk
    /\ \A i, j \in 1..Len(rows) : i < j /\ rows[i].offset = rows[j].offset => replays > 0
=============================================================================
