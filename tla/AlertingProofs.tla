---------------------------- MODULE AlertingProofs ----------------------------
(***************************************************************************)
(* Proofs about alerting, for any rules, metrics, requests and bounds.     *)
(* That alerts of one key keep their distance is not inductive: it needs   *)
(* that last_alert_time is never older than the last alert of its key.     *)
(* The invariant has a part about the alerts, which only creating,         *)
(* acknowledging and resolving one can disturb, and a part about the rules *)
(* and the requests.  That every trigger is covered is about a step: what  *)
(* it finds in last_alert_time is the time of an alert, or too long ago.   *)
(***************************************************************************)
EXTENDS Alerting, FiniteSetTheorems, SequenceTheorems, TLAPS

AlertTypes ==
    /\ now \in Nat
    /\ lastAlert \in [Keys -> Nat]
    /\ fired \in Seq([key : Keys, at : Nat])
    /\ status \in Seq({"firing", "acknowledged", "resolved"})
    /\ Len(status) = Len(fired)
    /\ active \subseteq DOMAIN fired
    /\ history \in Seq(DOMAIN fired) /\ Len(history) <= HistoryMax

RequestTypes ==
    /\ rules \in Seq(Entries \cup {None})
    /\ \A i, j \in Live(rules) : rules[i].name = rules[j].name => i = j
    /\ pc \in [Requests -> {"new", "checking", "slack", "escalating", "pagerduty",
                            "done", "failed"}]
    /\ metric \in [Requests -> Metrics \cup {None}]
    /\ pos \in [Requests -> Nat] /\ size \in [Requests -> Nat]
    /\ seen \in [Requests -> Nat] /\ spare \in Nat
    /\ loop \in Requests \cup {None}
    /\ edits \in Nat

\* last_alert_time is that of the last alert of the key, or later.
LastCovers == \A i \in DOMAIN fired : fired[i].at <= lastAlert[fired[i].key]

\* A request that runs has its metric.
RunningHasMetric == \A r \in Requests : metric[r] = None => pc[r] = "new" /\ loop # r

AlertInv   == AlertTypes /\ LastCovers /\ DedupHolds /\ ActiveIsOpen
RequestInv == RequestTypes /\ RunningHasMetric
IInv == AlertInv /\ RequestInv

-----------------------------------------------------------------------------

\* The two parts together are the type invariant.
LEMMA TypeParts == TypeOK <=> AlertTypes /\ RequestTypes
  BY DEF TypeOK, AlertTypes, RequestTypes

\* alert_history takes one more alert and keeps its limit.
LEMMA RememberKeeps ==
  ASSUME NEW n \in Nat, NEW h \in Seq(1..n), Len(h) <= HistoryMax
  PROVE  /\ Remember(h, n + 1) \in Seq(1..(n + 1))
         /\ Len(Remember(h, n + 1)) <= HistoryMax
<1>1. h \in Seq(1..(n + 1)) /\ n + 1 \in 1..(n + 1)
  OBVIOUS
<1>2. CASE Len(h) = HistoryMax
  <2>1. h # <<>> BY <1>2, AlertingAssumption
  <2>2. Tail(h) \in Seq(1..(n + 1)) /\ Len(Tail(h)) = Len(h) - 1 BY <1>1, <2>1
  <2> QED BY <1>1, <1>2, <2>2 DEF Remember
<1>3. CASE Len(h) # HistoryMax
  <2>1. HistoryMax \in Nat /\ Len(h) \in Nat BY AlertingAssumption
  <2>2. Append(h, n + 1) \in Seq(1..(n + 1)) /\ Len(Append(h, n + 1)) = Len(h) + 1
    BY <1>1, AppendProperties
  <2>3. Remember(h, n + 1) = Append(h, n + 1) BY <1>3 DEF Remember
  <2>4. Len(h) + 1 <= HistoryMax BY <1>3, <2>1
  <2> QED BY <2>2, <2>3, <2>4
<1> QED BY <1>2, <1>3

\* Creating an alert that is not a duplicate.
LEMMA CreateAlertStep ==
  ASSUME AlertInv, NEW key \in Keys, ~IsDuplicate(key), CreateAlert(key), now' = now
  PROVE  AlertInv'
<1> DEFINE n == Len(fired)
           alert == [key |-> key, at |-> now]
<1>1. n \in Nat /\ alert \in [key : Keys, at : Nat] /\ DOMAIN fired = 1..n /\ DOMAIN status = 1..n
  BY DEF AlertInv, AlertTypes
<1>2. /\ fired' = Append(fired, alert) /\ status' = Append(status, "firing")
      /\ Len(fired') = n + 1 /\ DOMAIN fired' = 1..(n + 1) /\ DOMAIN status' = 1..(n + 1)
      /\ \A i \in 1..n : fired'[i] = fired[i] /\ status'[i] = status[i]
      /\ fired'[n + 1] = alert /\ status'[n + 1] = "firing"
  BY <1>1 DEF AlertInv, AlertTypes, CreateAlert
<1>3. AlertTypes'
  <2>1. history' \in Seq(1..(n + 1)) /\ Len(history') <= HistoryMax
    BY <1>1, <1>2, RememberKeeps DEF AlertInv, AlertTypes, CreateAlert
  <2>2. active' \subseteq 1..(n + 1)
    BY <1>1, <1>2 DEF AlertInv, AlertTypes, CreateAlert
  <2> QED BY <1>1, <1>2, <2>1, <2>2 DEF AlertInv, AlertTypes, CreateAlert
<1>4. \A k \in Keys : lastAlert'[k] = IF k = key THEN now ELSE lastAlert[k]
  BY DEF AlertInv, AlertTypes, CreateAlert
<1>5. \A i \in 1..n : fired[i].key \in Keys /\ fired[i].at \in Nat
  <2> SUFFICES ASSUME NEW i \in 1..n PROVE fired[i].key \in Keys /\ fired[i].at \in Nat
    OBVIOUS
  <2>1. fired[i] \in [key : Keys, at : Nat]
    <3>1. fired \in Seq([key : Keys, at : Nat]) BY DEF AlertInv, AlertTypes
    <3> QED BY <1>1, <3>1, ElementOfSeq
  <2> HIDE DEF n
  <2> QED BY <2>1
<1>6. now - lastAlert[key] >= Window /\ lastAlert[key] \in Nat /\ now \in Nat /\ Window \in Nat
  BY AlertingAssumption DEF AlertInv, AlertTypes, IsDuplicate
<1>7. LastCovers'
  BY <1>1, <1>2, <1>4, <1>5, <1>6 DEF AlertInv, LastCovers
<1>8. DedupHolds'
  <2> SUFFICES ASSUME NEW i \in 1..(n + 1), NEW j \in 1..(n + 1),
                      i < j, fired'[i].key = fired'[j].key
               PROVE  fired'[j].at - fired'[i].at >= Window
    BY <1>2 DEF DedupHolds
  <2>1. CASE j \in 1..n
    BY <1>1, <1>2, <2>1 DEF AlertInv, DedupHolds
  <2>2. CASE j = n + 1
    <3>1. i \in 1..n /\ fired[i].key = key
      BY <1>1, <1>2, <2>2
    <3>2. fired[i].at <= lastAlert[key]
      BY <1>1, <3>1 DEF AlertInv, LastCovers
    <3> QED BY <1>2, <1>5, <1>6, <2>2, <3>1, <3>2
  <2> QED BY <1>1, <2>1, <2>2
<1>9. ActiveIsOpen'
  BY <1>1, <1>2 DEF AlertInv, AlertTypes, ActiveIsOpen, CreateAlert
<1> QED BY <1>3, <1>7, <1>8, <1>9 DEF AlertInv

\* A step that leaves the alerts alone, whatever the clock does.
LEMMA AlertsUnchanged ==
  ASSUME AlertInv, UNCHANGED alertVars, now' \in Nat
  PROVE  AlertInv'
  BY DEF AlertInv, AlertTypes, LastCovers, DedupHolds, ActiveIsOpen, alertVars

\* The duplicate check and what follows it.
LEMMA RaiseAlertStep ==
  ASSUME AlertInv, NEW key \in Keys, RaiseAlert(key), now' = now
  PROVE  AlertInv'
<1>1. CASE IsDuplicate(key)
  BY <1>1, AlertsUnchanged DEF RaiseAlert, Suppress, AlertInv, AlertTypes
<1>2. CASE ~IsDuplicate(key)
  BY <1>2, CreateAlertStep DEF RaiseAlert
<1> QED BY <1>1, <1>2

\* An operator acknowledges or resolves an active alert.
LEMMA HandleStep ==
  ASSUME IInv, NEW id \in active, Acknowledge(id) \/ Resolve(id)
  PROVE  IInv'
<1>1. RequestInv'
  BY DEF IInv, RequestInv, RequestTypes, RunningHasMetric, Acknowledge, Resolve, requestVars
<1>2. AlertInv'
  <2>1. fired' = fired /\ now' = now /\ lastAlert' = lastAlert /\ history' = history
    BY DEF Acknowledge, Resolve
  <2>2. PICK s \in {"acknowledged", "resolved"} :
            /\ status' = [status EXCEPT ![id] = s]
            /\ active' = IF s = "resolved" THEN active \ {id} ELSE active
    BY DEF Acknowledge, Resolve
  <2>3. id \in DOMAIN status /\ DOMAIN status = DOMAIN fired
    BY DEF IInv, AlertInv, AlertTypes
  <2>4. /\ status' \in Seq({"firing", "acknowledged", "resolved"})
        /\ Len(status') = Len(status) /\ DOMAIN status' = DOMAIN status
        /\ \A i \in DOMAIN status : status'[i] = IF i = id THEN s ELSE status[i]
    BY <2>2, <2>3 DEF IInv, AlertInv, AlertTypes
  <2>5. AlertTypes'
    BY <2>1, <2>2, <2>4 DEF IInv, AlertInv, AlertTypes
  <2>6. ActiveIsOpen'
    BY <2>2, <2>3, <2>4 DEF IInv, AlertInv, ActiveIsOpen
  <2> QED BY <2>1, <2>5, <2>6 DEF IInv, AlertInv, LastCovers, DedupHolds
<1> QED BY <1>1, <1>2 DEF IInv

-----------------------------------------------------------------------------

\* The number of rules is a number.
LEMMA LiveCount ==
  ASSUME RequestTypes
  PROVE  Cardinality(Live(rules)) \in Nat
<1>1. Len(rules) \in Nat /\ DOMAIN rules = 1..Len(rules)
  BY DEF RequestTypes
<1>2. Live(rules) \in SUBSET (1..Len(rules))
  BY <1>1 DEF Live
<1>3. IsFiniteSet(1..Len(rules))
  BY <1>1, FS_Interval
<1>4. IsFiniteSet(Live(rules))
  BY <1>2, <1>3, FS_Subset
<1> QED BY <1>4, FS_CardinalityType

\* A place that has a rule holds an entry.
LEMMA LiveEntry ==
  ASSUME RequestTypes, NEW i \in Live(rules)
  PROVE  rules[i] \in Entries /\ rules[i].name \in RuleNames /\ i \in Nat
<1>1. rules \in Seq(Entries \cup {None})
  BY DEF RequestTypes
<1>2. i \in 1..Len(rules) /\ rules[i] # None
  BY <1>1 DEF Live
<1>3. rules[i] \in Entries \cup {None}
  BY <1>1, <1>2
<1> QED BY <1>2, <1>3 DEF Entries

\* A metric arrives.
LEMMA IngestStep ==
  ASSUME IInv, NEW r \in Requests, NEW m \in Metrics, Ingest(r, m)
  PROVE  IInv'
<1>1. AlertInv'
  <2>1. <<"anomaly", m>> \in Keys BY DEF Keys
  <2>2. now' = now BY DEF Ingest
  <2>3. CASE RaiseAlert(<<"anomaly", m>>)
    BY <2>1, <2>2, <2>3, RaiseAlertStep DEF IInv
  <2>4. CASE UNCHANGED alertVars
    BY <2>2, <2>4, AlertsUnchanged DEF IInv, AlertInv, AlertTypes
  <2> QED BY <2>3, <2>4 DEF Ingest
<1>2. RequestInv'
  <2>1. Cardinality(Live(rules)) \in Nat
    BY LiveCount DEF IInv, RequestInv
  <2>2. m # None /\ r # None
    BY AlertingAssumption
  <2>3. RequestTypes'
    BY <2>1 DEF IInv, RequestInv, RequestTypes, Ingest, Live
  <2>4. RunningHasMetric'
    BY <2>2 DEF IInv, RequestInv, RequestTypes, RunningHasMetric, Ingest
  <2> QED BY <2>3, <2>4 DEF RequestInv
<1> QED BY <1>1, <1>2 DEF IInv

\* A request evaluates the next rule.
LEMMA CheckRuleStep ==
  ASSUME IInv, NEW r \in Requests, CheckRule(r)
  PROVE  IInv'
<1>1. PICK i \in Left(r) :
        /\ pos' = [pos EXCEPT ![r] = i]
        /\ IF metric[r] \in Triggers[rules[i].rule]
           THEN /\ RaiseAlert(<<rules[i].name, metric[r]>>)
                /\ IF IsDuplicate(<<rules[i].name, metric[r]>>)
                   THEN UNCHANGED <<pc, loop>>
                   ELSE Route(r, Severity[rules[i].rule])
           ELSE UNCHANGED <<alertVars, pc, loop>>
  BY DEF CheckRule
<1>2. /\ loop = r /\ UNCHANGED <<rules, spare, metric, size, now, edits>>
      /\ seen' = [seen EXCEPT ![r] = @ + 1]
  BY DEF CheckRule
<1>3. i \in Nat /\ rules[i].name \in RuleNames
  BY LiveEntry DEF IInv, RequestInv, Left
<1>4. metric[r] \in Metrics
  BY <1>2 DEF IInv, RequestInv, RequestTypes, RunningHasMetric
<1>5. AlertInv'
  <2>1. <<rules[i].name, metric[r]>> \in Keys
    BY <1>3, <1>4 DEF Keys
  <2>2. CASE metric[r] \in Triggers[rules[i].rule]
    BY <1>1, <1>2, <2>1, <2>2, RaiseAlertStep DEF IInv
  <2>3. CASE metric[r] \notin Triggers[rules[i].rule]
    BY <1>1, <1>2, <2>3, AlertsUnchanged DEF IInv, AlertInv, AlertTypes
  <2> QED BY <2>2, <2>3
<1>6. \/ UNCHANGED <<pc, loop>>
      \/ loop' = None /\ \E s \in {"slack", "escalating"} : pc' = [pc EXCEPT ![r] = s]
  BY <1>1 DEF Route
<1>7. RequestTypes'
  <2>1. seen' \in [Requests -> Nat] /\ pos' \in [Requests -> Nat]
    BY <1>1, <1>2, <1>3 DEF IInv, RequestInv, RequestTypes
  <2>2. pc' \in [Requests -> {"new", "checking", "slack", "escalating", "pagerduty",
                             "done", "failed"}]
    BY <1>6 DEF IInv, RequestInv, RequestTypes
  <2> QED BY <1>2, <1>6, <2>1, <2>2 DEF IInv, RequestInv, RequestTypes, Live
<1>8. RunningHasMetric'
  BY <1>2, <1>4, <1>6, AlertingAssumption DEF IInv, RequestInv, RequestTypes, RunningHasMetric
<1> QED BY <1>5, <1>7, <1>8 DEF IInv, RequestInv

\* The other steps of a request leave the alerts alone.
LEMMA MoveStep ==
  ASSUME IInv, NEW r \in Requests, Finish(r) \/ Abort(r) \/ Answered(r)
  PROVE  IInv'
<1>1. UNCHANGED <<alertVars, now, rules, spare, metric, pos, size, seen, edits>>
  BY DEF Finish, Abort, Answered
<1>2. AlertInv'
  BY <1>1, AlertsUnchanged DEF IInv, AlertInv, AlertTypes
<1>3. \/ loop = r /\ loop' = None /\ \E s \in {"done", "failed"} : pc' = [pc EXCEPT ![r] = s]
      \/ pc[r] = "escalating" /\ loop' = loop /\ pc' = [pc EXCEPT ![r] = "pagerduty"]
      \/ pc[r] \in {"slack", "pagerduty"} /\ loop' = r /\ pc' = [pc EXCEPT ![r] = "checking"]
  BY DEF Finish, Abort, Answered
<1>4. RequestTypes'
  BY <1>1, <1>3 DEF IInv, RequestInv, RequestTypes, Live
<1>5. RunningHasMetric'
  <2> SUFFICES ASSUME NEW q \in Requests, metric'[q] = None
               PROVE  pc'[q] = "new" /\ loop' # q
    BY DEF RunningHasMetric
  <2>1. pc[q] = "new" /\ loop # q
    BY <1>1 DEF IInv, RequestInv, RunningHasMetric
  <2>2. q # r /\ q # None
    BY <1>3, <2>1, AlertingAssumption
  <2> QED BY <1>3, <2>1, <2>2 DEF IInv, RequestInv, RequestTypes
<1> QED BY <1>2, <1>4, <1>5 DEF IInv, RequestInv

\* A rule of a new name comes after the others, whether the table is made anew or not.
LEMMA InsertInto ==
  ASSUME RequestTypes, NEW e \in Entries, Named(rules, e.name) = {}, Insert(e)
  PROVE  \E es \in Seq(Entries \cup {None}) :
           /\ rules' = Append(es, e) /\ spare' \in Nat
           /\ \A i, j \in Live(es) : es[i].name = es[j].name => i = j
           /\ \A i \in Live(es) : es[i].name # e.name
<1>1. /\ rules \in Seq(Entries \cup {None}) /\ spare \in Nat
      /\ \A i, j \in Live(rules) : rules[i].name = rules[j].name => i = j
      /\ \A i \in Live(rules) : rules[i].name # e.name
  BY DEF RequestTypes, Named
<1>2. CASE spare > 0
  <2>1. rules' = Append(rules, e) /\ spare' = spare - 1
    BY <1>2 DEF Insert
  <2>2. spare - 1 \in Nat
    BY <1>1, <1>2
  <2> QED BY <1>1, <2>1, <2>2
<1>3. CASE ~(spare > 0)
  <2>1. PICK q \in Packings(rules) : rules' = Append(q, e) /\ spare' \in Spares
    BY <1>3 DEF Insert
  <2>2. PICK n \in Nat : n = Cardinality(Live(rules))
    BY <1>1, LiveCount
  <2>3. PICK f \in [1..n -> Live(rules)] :
          /\ q = [k \in 1..n |-> rules[f[k]]]
          /\ \A k, l \in 1..n : k < l => f[k] < f[l]
    BY <2>1, <2>2 DEF Packings
  <2>4. \A k \in 1..n : f[k] \in Live(rules) /\ f[k] \in Nat /\ q[k] = rules[f[k]] /\ q[k] \in Entries
    BY <1>1, <2>3 DEF Live
  <2>5. q = [k \in 1..n |-> q[k]] /\ DOMAIN q = 1..n
    BY <2>3
  <2>6. q \in Seq(Entries \cup {None})
    BY <2>4, <2>5
  <2>7. \A k \in Live(q) : k \in 1..n
    BY <2>5 DEF Live
  <2>8. ASSUME NEW k \in 1..n, NEW l \in 1..n, q[k].name = q[l].name
        PROVE  k = l
    <3>1. f[k] = f[l]
      BY <1>1, <2>4, <2>8
    <3> QED BY <2>3, <2>4, <3>1
  <2>9. \A k \in 1..n : q[k].name # e.name
    BY <1>1, <2>4
  <2>10. spare' \in Nat
    BY <2>1, AlertingAssumption
  <2> QED BY <2>1, <2>6, <2>7, <2>8, <2>9, <2>10
<1> QED BY <1>2, <1>3

\* Rules are added, updated and removed.
LEMMA EditStep ==
  ASSUME IInv, (\E e \in Entries : AddRule(e)) \/ (\E n \in RuleNames : RemoveRule(n))
  PROVE  IInv'
<1>1. UNCHANGED <<alertVars, now, pc, metric, pos, size, seen, loop>> /\ edits' = edits + 1
  BY DEF AddRule, RemoveRule, requestVars
<1>2. AlertInv'
  BY <1>1, AlertsUnchanged DEF IInv, AlertInv, AlertTypes
<1>3. rules \in Seq(Entries \cup {None}) /\ DOMAIN rules = 1..Len(rules) /\ Len(rules) \in Nat
  BY DEF IInv, RequestInv, RequestTypes
<1>4. /\ rules' \in Seq(Entries \cup {None}) /\ spare' \in Nat
      /\ \A i, j \in Live(rules)' : rules'[i].name = rules'[j].name => i = j
  <2>1. CASE \E e \in Entries : AddRule(e)
    <3>1. PICK e \in Entries : AddRule(e) BY <2>1
    <3>2. CASE Named(rules, e.name) = {}
      <4>1. PICK es \in Seq(Entries \cup {None}) :
              /\ rules' = Append(es, e) /\ spare' \in Nat
              /\ \A i, j \in Live(es) : es[i].name = es[j].name => i = j
              /\ \A i \in Live(es) : es[i].name # e.name
        BY <1>3, <3>1, <3>2, InsertInto DEF AddRule, IInv, RequestInv
      <4>2. /\ rules' \in Seq(Entries \cup {None}) /\ Len(rules') = Len(es) + 1
            /\ \A i \in 1..Len(es) : rules'[i] = es[i]
            /\ rules'[Len(es) + 1] = e /\ DOMAIN es = 1..Len(es) /\ Len(es) \in Nat
        BY <4>1, AppendProperties
      <4>3. \A i \in Live(rules)' :
                IF i = Len(es) + 1 THEN rules'[i] = e
                ELSE i \in Live(es) /\ rules'[i] = es[i] /\ es[i].name # e.name
        BY <4>1, <4>2 DEF Live
      <4>4. ASSUME NEW i \in Live(rules)', NEW j \in Live(rules)', rules'[i].name = rules'[j].name
            PROVE  i = j
        BY <4>1, <4>3, <4>4
      <4> QED BY <4>1, <4>2, <4>4
    <3>3. CASE Named(rules, e.name) # {}
      <4>1. rules' = [i \in 1..Len(rules) |->
                        IF i \in Named(rules, e.name) THEN e ELSE rules[i]]
        BY <1>3, <3>1, <3>3 DEF AddRule
      <4>2. \A i \in 1..Len(rules) : rules[i] \in Entries \cup {None}
        BY <1>3, ElementOfSeq
      <4>3. rules' \in Seq(Entries \cup {None}) /\ DOMAIN rules' = 1..Len(rules)
        BY <1>3, <4>1, <4>2
      <4>4. e # None
        BY AlertingAssumption
      <4>5. \A i \in Live(rules)' : i \in Live(rules) /\ rules'[i].name = rules[i].name
        BY <1>3, <4>1, <4>3, <4>4 DEF Live, Named
      <4>6. spare' = spare
        BY <3>1, <3>3 DEF AddRule
      <4> QED BY <4>3, <4>5, <4>6 DEF IInv, RequestInv, RequestTypes
    <3> QED BY <3>2, <3>3
  <2>2. CASE \E n \in RuleNames : RemoveRule(n)
    <3>1. PICK n \in RuleNames : RemoveRule(n) BY <2>2
    <3>2. rules' = [i \in 1..Len(rules) |->
                      IF i \in Named(rules, n) THEN None ELSE rules[i]]
      BY <1>3, <3>1 DEF RemoveRule
    <3>3. \A i \in 1..Len(rules) : rules[i] \in Entries \cup {None}
      BY <1>3, ElementOfSeq
    <3>4. rules' \in Seq(Entries \cup {None}) /\ DOMAIN rules' = 1..Len(rules)
      BY <1>3, <3>2, <3>3
    <3>5. \A i \in Live(rules)' : i \in Live(rules) /\ rules'[i] = rules[i]
      BY <1>3, <3>2, <3>4 DEF Live
    <3>6. spare' = spare
      BY <3>1 DEF RemoveRule
    <3> QED BY <3>4, <3>5, <3>6 DEF IInv, RequestInv, RequestTypes
  <2> QED BY <2>1, <2>2
<1>5. RequestTypes'
  BY <1>1, <1>4 DEF IInv, RequestInv, RequestTypes
<1>6. RunningHasMetric'
  BY <1>1 DEF IInv, RequestInv, RunningHasMetric
<1> QED BY <1>2, <1>5, <1>6 DEF IInv, RequestInv

-----------------------------------------------------------------------------

\* What the service starts with.
LEMMA InitHolds == Init => IInv
<1> SUFFICES ASSUME Init PROVE IInv
  OBVIOUS
<1>1. AlertInv
  BY AlertingAssumption
  DEF Init, AlertInv, AlertTypes, LastCovers, DedupHolds, ActiveIsOpen
<1>2. RequestTypes
  <2>1. rules \in Seq(Entries \cup {None})
    BY AlertingAssumption DEF Init
  <2>2. \A i, j \in Live(rules) : rules[i].name = rules[j].name => i = j
    BY AlertingAssumption DEF Init, Live
  <2>3. spare \in Nat
    BY AlertingAssumption DEF Init
  <2> QED BY <2>1, <2>2, <2>3 DEF Init, RequestTypes
<1>3. RunningHasMetric
  BY AlertingAssumption DEF Init, RunningHasMetric
<1> QED BY <1>1, <1>2, <1>3 DEF IInv, RequestInv

\* Every step preserves the invariant.
LEMMA NextHolds == IInv /\ [Next]_vars => IInv'
<1> SUFFICES ASSUME IInv, [Next]_vars PROVE IInv'
  OBVIOUS
<1>1. ASSUME NEW r \in Requests, Run(r) PROVE IInv'
  BY <1>1, CheckRuleStep, MoveStep DEF Run
<1>2. ASSUME NEW r \in Requests, NEW m \in Metrics, Ingest(r, m) PROVE IInv'
  BY <1>2, IngestStep
<1>3. ASSUME NEW id \in active, Acknowledge(id) \/ Resolve(id) PROVE IInv'
  BY <1>3, HandleStep
<1>4. ASSUME (\E e \in Entries : AddRule(e)) \/ (\E n \in RuleNames : RemoveRule(n)) PROVE IInv'
  BY <1>4, EditStep
<1>5. CASE Tick
  <2>1. AlertInv'
    BY <1>5, AlertsUnchanged DEF Tick, IInv, AlertInv, AlertTypes
  <2>2. RequestInv'
    BY <1>5 DEF Tick, IInv, RequestInv, RequestTypes, RunningHasMetric, requestVars
  <2> QED BY <2>1, <2>2 DEF IInv
<1>6. CASE UNCHANGED vars
  <2>1. AlertInv'
    BY <1>6, AlertsUnchanged DEF vars, IInv, AlertInv, AlertTypes
  <2>2. RequestInv'
    BY <1>6 DEF vars, IInv, RequestInv, RequestTypes, RunningHasMetric, requestVars, Live
  <2> QED BY <2>1, <2>2 DEF IInv
<1> QED BY <1>1, <1>2, <1>3, <1>4, <1>5, <1>6 DEF Next

\* The invariant always holds.
LEMMA Invariance == Spec => []IInv
  BY InitHolds, NextHolds, PTL DEF Spec

\* Every variable of the service keeps to its values: in particular the rules
\* have different names and alert_history never exceeds its limit.
THEOREM TypeCorrect == Spec => []TypeOK
<1>1. IInv => TypeOK
  BY TypeParts DEF IInv, AlertInv, RequestInv
<1> QED BY <1>1, Invariance, PTL

\* Two alerts of one rule and metric are at least the deduplication window
\* apart, for any number of requests that route alerts at the same time.
THEOREM Deduplicated == Spec => []DedupHolds
<1>1. IInv => DedupHolds
  BY DEF IInv, AlertInv
<1> QED BY <1>1, Invariance, PTL

\* active_alerts holds exactly the alerts that are not resolved.
THEOREM ActiveOpen == Spec => []ActiveIsOpen
<1>1. IInv => ActiveIsOpen
  BY DEF IInv, AlertInv
<1> QED BY <1>1, Invariance, PTL

-----------------------------------------------------------------------------
(* No trigger is dropped silently.                                         *)

\* A time in last_alert_time is that of an alert, and 0 is outside the window.
LastIsOfAnAlert ==
    /\ now >= Window
    /\ \A k \in Keys : lastAlert[k] # 0 =>
          \E id \in DOMAIN fired : fired[id].key = k /\ fired[id].at = lastAlert[k]

\* What a step can do to the alerts' times.
LEMMA AlertEffect ==
  ASSUME IInv, [Next]_vars
  PROVE  \/ UNCHANGED <<lastAlert, fired>> /\ now' \in Nat /\ now' >= now
         \/ now' = now /\ \E key \in Keys : CreateAlert(key)
<1> DEFINE Effect == \/ UNCHANGED <<lastAlert, fired>> /\ now' \in Nat /\ now' >= now
                     \/ now' = now /\ \E key \in Keys : CreateAlert(key)
<1>0. now \in Nat
  BY DEF IInv, AlertInv, AlertTypes
<1>1. ASSUME NEW key \in Keys, RaiseAlert(key), now' = now PROVE Effect
  BY <1>0, <1>1 DEF RaiseAlert, Suppress, alertVars
<1>2. ASSUME NEW r \in Requests, CheckRule(r) PROVE Effect
  <2>1. PICK i \in Left(r) :
          IF metric[r] \in Triggers[rules[i].rule]
          THEN RaiseAlert(<<rules[i].name, metric[r]>>)
          ELSE UNCHANGED alertVars
    BY <1>2 DEF CheckRule, alertVars
  <2>2. now' = now /\ loop = r
    BY <1>2 DEF CheckRule
  <2>3. rules[i].name \in RuleNames /\ metric[r] \in Metrics
    BY <2>2, LiveEntry DEF IInv, RequestInv, RequestTypes, RunningHasMetric, Left
  <2>4. <<rules[i].name, metric[r]>> \in Keys
    BY <2>3 DEF Keys
  <2>5. CASE UNCHANGED alertVars
    BY <1>0, <2>2, <2>5 DEF alertVars
  <2> QED BY <1>1, <2>1, <2>2, <2>4, <2>5
<1>3. ASSUME NEW r \in Requests, NEW m \in Metrics, Ingest(r, m) PROVE Effect
  <2>1. <<"anomaly", m>> \in Keys
    BY DEF Keys
  <2>2. now' = now /\ (RaiseAlert(<<"anomaly", m>>) \/ UNCHANGED alertVars)
    BY <1>3 DEF Ingest
  <2>3. CASE UNCHANGED alertVars
    BY <1>0, <2>2, <2>3 DEF alertVars
  <2> QED BY <1>1, <2>1, <2>2, <2>3
<1>4. ASSUME NEW r \in Requests, Finish(r) \/ Abort(r) \/ Answered(r) PROVE Effect
  BY <1>0, <1>4 DEF Finish, Abort, Answered, alertVars
<1>5. ASSUME NEW id, Acknowledge(id) \/ Resolve(id) PROVE Effect
  BY <1>0, <1>5 DEF Acknowledge, Resolve
<1>6. ASSUME (\E e \in Entries : AddRule(e)) \/ (\E n \in RuleNames : RemoveRule(n)) PROVE Effect
  BY <1>0, <1>6 DEF AddRule, RemoveRule, alertVars
<1>7. CASE Tick
  BY <1>0, <1>7 DEF Tick, alertVars
<1>8. CASE UNCHANGED vars
  BY <1>0, <1>8 DEF vars, alertVars
<1> QED BY <1>2, <1>3, <1>4, <1>5, <1>6, <1>7, <1>8 DEF Next, Run

\* Only evaluating a rule moves an iterator.
LEMMA PosEffect ==
  ASSUME IInv, [Next]_vars
  PROVE  \/ pos' = pos
         \/ \E r \in Requests : CheckRule(r) /\ \E i \in Left(r) : pos' = [pos EXCEPT ![r] = i]
<1>1. ASSUME NEW r \in Requests, CheckRule(r)
      PROVE  \E i \in Left(r) : pos' = [pos EXCEPT ![r] = i]
  BY <1>1 DEF CheckRule
<1>2. ASSUME NEW r \in Requests, NEW m \in Metrics, Ingest(r, m) PROVE pos' = pos
  BY <1>2 DEF Ingest
<1>3. ASSUME NEW r \in Requests, Finish(r) \/ Abort(r) \/ Answered(r) PROVE pos' = pos
  BY <1>3 DEF Finish, Abort, Answered
<1>4. ASSUME NEW id, Acknowledge(id) \/ Resolve(id) PROVE pos' = pos
  BY <1>4 DEF Acknowledge, Resolve, requestVars
<1>5. ASSUME (\E e \in Entries : AddRule(e)) \/ (\E n \in RuleNames : RemoveRule(n))
      PROVE  pos' = pos
  BY <1>5 DEF AddRule, RemoveRule, requestVars
<1>6. CASE Tick
  BY <1>6 DEF Tick, requestVars
<1>7. CASE UNCHANGED vars
  BY <1>7 DEF vars, requestVars
<1> QED BY <1>1, <1>2, <1>3, <1>4, <1>5, <1>6, <1>7 DEF Next, Run

LEMMA TriggerInit ==
  ASSUME Init
  PROVE  LastIsOfAnAlert
<1>1. Window \in Nat /\ now = Window /\ \A k \in Keys : lastAlert[k] = 0
  BY AlertingAssumption DEF Init
<1> QED BY <1>1 DEF LastIsOfAnAlert

\* What CreateAlert leaves behind.
LEMMA Created ==
  ASSUME IInv, NEW key \in Keys, CreateAlert(key)
  PROVE  /\ \A k \in Keys : lastAlert'[k] = IF k = key THEN now ELSE lastAlert[k]
         /\ \A id \in DOMAIN fired : id \in DOMAIN fired' /\ fired'[id] = fired[id]
         /\ \E id \in DOMAIN fired' : fired'[id].key = key /\ fired'[id].at = now
<1> DEFINE alert == [key |-> key, at |-> now]
<1>1. /\ fired \in Seq([key : Keys, at : Nat]) /\ now \in Nat /\ lastAlert \in [Keys -> Nat]
      /\ alert \in [key : Keys, at : Nat] /\ alert.key = key /\ alert.at = now
  BY DEF IInv, AlertInv, AlertTypes
<1>2. fired' = Append(fired, alert) /\ lastAlert' = [lastAlert EXCEPT ![key] = now]
  BY DEF CreateAlert
<1> HIDE DEF alert
<1>3. /\ Len(fired') = Len(fired) + 1 /\ fired'[Len(fired) + 1] = alert
      /\ DOMAIN fired = 1..Len(fired) /\ DOMAIN fired' = 1..Len(fired) + 1 /\ Len(fired) \in Nat
      /\ \A id \in 1..Len(fired) : fired'[id] = fired[id]
  BY <1>1, <1>2, AppendProperties
<1>4. Len(fired) + 1 \in DOMAIN fired' /\ \A id \in DOMAIN fired : id \in DOMAIN fired'
  BY <1>3
<1> QED BY <1>1, <1>2, <1>3, <1>4

LEMMA TriggerNext ==
  ASSUME IInv, LastIsOfAnAlert, [Next]_vars
  PROVE  LastIsOfAnAlert'
<1>1. now \in Nat /\ Window \in Nat /\ now >= Window
  BY AlertingAssumption DEF IInv, AlertInv, AlertTypes, LastIsOfAnAlert
<1>2. \A k \in Keys : lastAlert[k] # 0 =>
         \E id \in DOMAIN fired : fired[id].key = k /\ fired[id].at = lastAlert[k]
  BY DEF LastIsOfAnAlert
<1>3. LastIsOfAnAlert'
  <2>1. CASE UNCHANGED <<lastAlert, fired>> /\ now' \in Nat /\ now' >= now
    BY <1>1, <1>2, <2>1 DEF LastIsOfAnAlert
  <2>2. CASE now' = now /\ \E key \in Keys : CreateAlert(key)
    <3>1. PICK key \in Keys : CreateAlert(key)
      BY <2>2
    <3>2. ASSUME NEW k \in Keys, lastAlert'[k] # 0
          PROVE  \E id \in DOMAIN fired' : fired'[id].key = k /\ fired'[id].at = lastAlert'[k]
      <4>1. CASE k = key
        BY <3>1, <4>1, Created
      <4>2. CASE k # key
        <5>1. lastAlert'[k] = lastAlert[k]
          BY <3>1, <4>2, Created
        <5>2. PICK id \in DOMAIN fired : fired[id].key = k /\ fired[id].at = lastAlert[k]
          BY <1>2, <3>2, <5>1
        <5>3. id \in DOMAIN fired' /\ fired'[id] = fired[id]
          BY <3>1, Created
        <5> QED BY <5>1, <5>2, <5>3
      <4> QED BY <4>1, <4>2
    <3> QED BY <1>1, <2>2, <3>2 DEF LastIsOfAnAlert
  <2> QED BY <2>1, <2>2, AlertEffect
<1> QED BY <1>3

\* The action of EveryTriggerCovered.
Covers ==
    \A r \in Requests : LET i == pos'[r] IN
       i # pos[r] /\ metric[r] \in Triggers[rules[i].rule] =>
         \E id \in DOMAIN fired' :
             /\ fired'[id].key = <<rules[i].name, metric[r]>>
             /\ now - fired'[id].at < Window

LEMMA StepCovers ==
  ASSUME IInv, LastIsOfAnAlert, [Next]_vars
  PROVE  Covers
<1> SUFFICES ASSUME NEW r \in Requests, NEW i, i = pos'[r], i # pos[r],
                    metric[r] \in Triggers[rules[i].rule]
             PROVE  \E id \in DOMAIN fired' :
                       /\ fired'[id].key = <<rules[i].name, metric[r]>>
                       /\ now - fired'[id].at < Window
  BY DEF Covers
<1>1. /\ now \in Nat /\ Window \in Nat /\ now >= Window /\ Window > 0
      /\ lastAlert \in [Keys -> Nat] /\ pos \in [Requests -> Nat]
  BY AlertingAssumption
  DEF IInv, AlertInv, AlertTypes, RequestInv, RequestTypes, LastIsOfAnAlert
<1>2. PICK q \in Requests : CheckRule(q) /\ \E j \in Left(q) : pos' = [pos EXCEPT ![q] = j]
  BY PosEffect
<1>3. q = r
  BY <1>1, <1>2
<1>4. PICK j \in Left(r) :
        /\ pos' = [pos EXCEPT ![r] = j]
        /\ metric[r] \in Triggers[rules[j].rule] => RaiseAlert(<<rules[j].name, metric[r]>>)
  BY <1>2, <1>3 DEF CheckRule
<1>5. j = i
  BY <1>1, <1>4
<1>6. PICK key : key = <<rules[i].name, metric[r]>>
  OBVIOUS
<1>7. key \in Keys /\ RaiseAlert(key)
  <2>1. loop = r
    BY <1>2, <1>3 DEF CheckRule
  <2>2. rules[i].name \in RuleNames /\ metric[r] \in Metrics
    BY <1>4, <1>5, <2>1, LiveEntry DEF IInv, RequestInv, RequestTypes, RunningHasMetric, Left
  <2> QED BY <1>4, <1>5, <1>6, <2>2 DEF Keys
<1>8. CASE IsDuplicate(key)
  <2>1. fired' = fired
    BY <1>7, <1>8 DEF RaiseAlert, Suppress, alertVars
  <2>2. now - lastAlert[key] < Window /\ lastAlert[key] # 0
    BY <1>1, <1>7, <1>8 DEF IsDuplicate
  <2>3. PICK id \in DOMAIN fired : fired[id].key = key /\ fired[id].at = lastAlert[key]
    BY <1>7, <2>2 DEF LastIsOfAnAlert
  <2> QED BY <1>6, <2>1, <2>2, <2>3
<1>9. CASE ~IsDuplicate(key)
  <2>1. CreateAlert(key)
    BY <1>7, <1>9 DEF RaiseAlert
  <2>2. PICK id \in DOMAIN fired' : fired'[id].key = key /\ fired'[id].at = now
    BY <1>7, <2>1, Created
  <2> QED BY <1>1, <1>6, <2>2
<1> QED BY <1>8, <1>9

\* When a rule whose threshold a metric exceeds has been evaluated, there is an
\* alert for its key younger than the deduplication window, for any rules,
\* metrics, requests and window (process_metric, _evaluate_rule, _create_alert).
THEOREM TriggersCovered == Spec => EveryTriggerCovered
<1>1. Init => LastIsOfAnAlert
  BY TriggerInit
<1>2. IInv /\ LastIsOfAnAlert /\ [Next]_vars => LastIsOfAnAlert'
  BY TriggerNext
<1>3. IInv /\ LastIsOfAnAlert /\ [Next]_vars => [Covers]_vars
  BY StepCovers
<1>4. Spec => [][Covers]_vars
  BY <1>1, <1>2, <1>3, Invariance, PTL DEF Spec
<1> QED BY <1>4 DEF EveryTriggerCovered, Covers
=============================================================================
