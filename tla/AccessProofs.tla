---------------------------- MODULE AccessProofs ----------------------------
(***************************************************************************)
(* Proofs about who may do what: approvals, accounts and browser sessions, *)
(* for any rules, users, registrations, tabs and bounds.  Each invariant   *)
(* is proved of the component, which is all that the composition lets move *)
(* the component's variables; the types come last.                         *)
(***************************************************************************)
EXTENDS Services, FiniteSetTheorems, SequenceTheorems, WellFoundedInduction, TLAPS

\* Whatever moves, each of these components takes a step of its own or none.
LEMMA AccessSteps ==
  ASSUME [Next]_vars
  PROVE  [AP!Next]_(AP!pvars) /\ [AC!Next]_(AC!avars) /\ [BR!Next]_(BR!bvars)
  BY DEF Next, Others, vars, approvalVars, accountsVars, browserVars,
         AP!pvars, AC!avars, BR!bvars

\* The instances' Cardinality is the one of the library's theorems.
LEMMA SameCardinality ==
  \A S : /\ AP!Cardinality(S) = Cardinality(S) /\ AC!Cardinality(S) = Cardinality(S)
         /\ SC!Cardinality(S) = Cardinality(S) /\ TF!Cardinality(S) = Cardinality(S)
         /\ AT!Cardinality(S) = Cardinality(S) /\ SA!Cardinality(S) = Cardinality(S)
         /\ RE!Cardinality(S) = Cardinality(S)
  BY DEF AP!Cardinality, AC!Cardinality, SC!Cardinality, TF!Cardinality, AT!Cardinality,
         SA!Cardinality, RE!Cardinality, Cardinality

\* Induction over the naturals, in a form without operator parameters.
LEMMA AllNaturals ==
  ASSUME NEW S, 0 \in S, \A n \in Nat : n \in S => n + 1 \in S
  PROVE  \A n \in Nat : n \in S
<1> SUFFICES ASSUME {n \in Nat : n \notin S} # {} PROVE FALSE
  OBVIOUS
<1> DEFINE T == {n \in Nat : n \notin S}
<1>1. IsWellFoundedOn(OpToRel(<, Nat), Nat)
  BY NatLessThanWellFounded, Zenon
<1>2. T \subseteq Nat /\ T # {}
  OBVIOUS
<1>3. PICK m \in T : \A n \in T : ~(<<n, m>> \in OpToRel(<, Nat))
  BY <1>1, <1>2, WFMin, Zenon
<1>4. \A n \in T : ~(n < m)
  BY <1>2, <1>3, Zenon DEF OpToRel
<1>5. m \in Nat /\ m # 0 /\ m \notin S
  OBVIOUS
<1>6. m - 1 \in Nat /\ m - 1 < m /\ (m - 1) + 1 = m
  BY <1>5
<1>7. m - 1 \notin T
  BY <1>4, <1>6
<1> QED BY <1>5, <1>6, <1>7

-----------------------------------------------------------------------------

\* Who may stand as requester: a row that is not there yet names anybody.
Requesters == Users \cup {CHOOSE u \in Users : TRUE}
Statuses == {"none", "pending", "approved", "rejected", "cancelled"}
ApprovalRows == [status : Statuses, requester : Requesters, action : Actions,
                 required : Int, count : Int]
Decisions == [by : Users, approved : BOOLEAN]

ApprovalTypes ==
    /\ rules \subseteq Rules
    /\ approval \in [Approvals -> ApprovalRows]
    /\ decided \in [Approvals -> Seq(Decisions)]
    /\ calling \subseteq Approvals
    /\ executed \in [Approvals -> Nat]
    /\ losses \in Nat

\* Everybody who decided on a approved of it, and did not ask for it.
AllForIt(a) ==
    \A i \in DOMAIN decided[a] :
        decided[a][i].approved /\ decided[a][i].by # approval[a].requester

\* While a request is pending its count is that of its decisions, and is short of
\* what its rule asks for.
CountIsDecisions ==
    \A a \in Approvals :
        /\ approval[a].status = "none" => decided[a] = <<>> /\ approval[a].count = 0
        /\ approval[a].status = "pending" =>
             /\ AllForIt(a) /\ Len(decided[a]) = approval[a].count
             /\ approval[a].count < approval[a].required \/ approval[a].count = 0
        /\ approval[a].status = "approved" =>
             /\ AllForIt(a)
             /\ Len(decided[a]) = IF approval[a].required > 1 THEN approval[a].required ELSE 1

\* The call of the execution service is made once and after the approval.
CalledOnce ==
    \A a \in Approvals :
        /\ executed[a] + (IF a \in calling THEN 1 ELSE 0) <= 1
        /\ executed[a] > 0 \/ a \in calling => approval[a].status = "approved"

\* Approved requests whose execution never came about.
Forgotten == {a \in Approvals : approval[a].status = "approved" /\ approval[a].action = "execute"
                                /\ a \notin calling /\ executed[a] = 0}

ForgottenWasLost == IsFiniteSet(Forgotten) /\ Cardinality(Forgotten) <= losses

ApprovalInv == ApprovalTypes /\ CountIsDecisions /\ CalledOnce /\ ForgottenWasLost

LEMMA ApprovalInit == AP!Init => ApprovalInv
<1> SUFFICES ASSUME AP!Init PROVE ApprovalInv
  OBVIOUS
<1>1. ApprovalTypes
  BY DEF AP!Init, AP!NoApproval, ApprovalTypes, ApprovalRows, Statuses, Requesters
<1>2. \A a \in Approvals : approval[a].status = "none" /\ approval[a].count = 0
  BY DEF AP!Init, AP!NoApproval
<1>3. Forgotten = {}
  BY <1>2 DEF Forgotten
<1>4. ForgottenWasLost
  BY <1>3, FS_EmptySet DEF ForgottenWasLost, AP!Init
<1>5. CountIsDecisions /\ CalledOnce
  BY <1>2 DEF CountIsDecisions, CalledOnce, AP!Init
<1> QED BY <1>1, <1>4, <1>5 DEF ApprovalInv

LEMMA DecideKeeps ==
  ASSUME ApprovalInv, NEW a \in Approvals, NEW u \in Users, NEW yes \in BOOLEAN,
         AP!Decide(a, u, yes)
  PROVE  ApprovalInv'
<1> USE DEF ApprovalInv
<1> DEFINE d == [by |-> u, approved |-> yes]
<1>1. /\ approval[a].status = "pending" /\ approval[a].requester # u
      /\ approval' = [approval EXCEPT ![a] = AP!MakeDecision(a, yes)]
      /\ decided' = [decided EXCEPT ![a] = Append(@, d)]
      /\ calling' = IF approval'[a].status = "approved" /\ approval[a].action = "execute"
                    THEN calling \cup {a} ELSE calling
      /\ rules' = rules /\ executed' = executed /\ losses' = losses
  BY DEF AP!Decide, AP!MayDecide, AP!CanUserApprove
<1>2. decided[a] \in Seq(Decisions) /\ d \in Decisions
  BY DEF ApprovalTypes, Decisions
<1>3. /\ Append(decided[a], d) \in Seq(Decisions)
      /\ Len(Append(decided[a], d)) = Len(decided[a]) + 1 /\ Len(decided[a]) \in Nat
      /\ DOMAIN Append(decided[a], d) = 1..(Len(decided[a]) + 1)
      /\ DOMAIN decided[a] = 1..Len(decided[a])
      /\ \A i \in 1..Len(decided[a]) : Append(decided[a], d)[i] = decided[a][i]
      /\ Append(decided[a], d)[Len(decided[a]) + 1] = d
  BY <1>2, AppendProperties
<1>4. /\ approval'[a].requester = approval[a].requester
      /\ approval'[a].required = approval[a].required
      /\ approval'[a].action = approval[a].action
      /\ approval'[a].count = IF yes THEN approval[a].count + 1 ELSE approval[a].count
      /\ approval'[a].status = IF ~yes THEN "rejected"
             ELSE IF approval[a].count + 1 >= approval[a].required THEN "approved" ELSE "pending"
      /\ approval[a].count \in Int /\ approval[a].required \in Int
      /\ \A b \in Approvals : b # a => approval'[b] = approval[b] /\ decided'[b] = decided[b]
      /\ decided'[a] = Append(decided[a], d)
  <2>1. approval[a] \in ApprovalRows
    BY DEF ApprovalTypes
  <2>2. approval'[a] = AP!MakeDecision(a, yes)
    BY <1>1 DEF ApprovalTypes
  <2>3. decided'[a] = Append(decided[a], d)
    BY <1>1 DEF ApprovalTypes
  <2>4. \A b \in Approvals : b # a => approval'[b] = approval[b] /\ decided'[b] = decided[b]
    BY <1>1 DEF ApprovalTypes
  <2>5. /\ approval'[a].requester = approval[a].requester
        /\ approval'[a].required = approval[a].required
        /\ approval'[a].action = approval[a].action
        /\ approval[a].count \in Int /\ approval[a].required \in Int
    BY <2>1, <2>2 DEF AP!MakeDecision, ApprovalRows
  <2>6. approval'[a].count = IF yes THEN approval[a].count + 1 ELSE approval[a].count
    BY <2>1, <2>2 DEF AP!MakeDecision, ApprovalRows
  <2>7. approval'[a].status = IF ~yes THEN "rejected"
             ELSE IF approval[a].count + 1 >= approval[a].required THEN "approved" ELSE "pending"
    BY <1>1, <2>1, <2>2 DEF AP!MakeDecision, ApprovalRows
  <2> QED BY <2>3, <2>4, <2>5, <2>6, <2>7
<1>5. ApprovalTypes'
  <2>1. AP!MakeDecision(a, yes) \in ApprovalRows
    <3>1. approval[a] \in ApprovalRows /\ approval'[a] = AP!MakeDecision(a, yes)
      BY <1>1 DEF ApprovalTypes
    <3>2. approval'[a].count \in Int /\ approval'[a].status \in Statuses
      BY <1>4 DEF Statuses
    <3> QED BY <3>1, <3>2 DEF AP!MakeDecision, ApprovalRows
  <2>2. approval' \in [Approvals -> ApprovalRows]
    BY <2>1, <1>1 DEF ApprovalTypes
  <2>3. decided' \in [Approvals -> Seq(Decisions)]
    BY <1>1, <1>3 DEF ApprovalTypes
  <2>4. calling' \subseteq Approvals
    BY <1>1 DEF ApprovalTypes
  <2>5. rules' \subseteq Rules /\ executed' \in [Approvals -> Nat] /\ losses' \in Nat
    BY <1>1 DEF ApprovalTypes
  <2> QED BY <2>2, <2>3, <2>4, <2>5 DEF ApprovalTypes
<1>6. executed[a] = 0 /\ a \notin calling
  <2>1. ~(executed[a] > 0 \/ a \in calling)
    BY <1>1 DEF CalledOnce
  <2>2. executed[a] \in Nat
    BY DEF ApprovalTypes
  <2> QED BY <2>1, <2>2
<1>7. CountIsDecisions'
  <2>1. ASSUME yes PROVE AllForIt(a)'
    <3>0. DOMAIN decided'[a] = 1..(Len(decided[a]) + 1)
      BY <1>3, <1>4
    <3> SUFFICES ASSUME NEW i \in 1..(Len(decided[a]) + 1)
                 PROVE  decided'[a][i].approved /\ decided'[a][i].by # approval'[a].requester
      BY <3>0 DEF AllForIt
    <3>1. CASE i = Len(decided[a]) + 1
      <4>1. decided'[a][i] = d /\ approval'[a].requester # u
        BY <3>1, <1>1, <1>3, <1>4
      <4>2. d.approved /\ d.by = u
        BY <2>1
      <4> QED BY <4>1, <4>2, Zenon
    <3>2. CASE i \in 1..Len(decided[a])
      <4>1. AllForIt(a)
        BY <1>1 DEF CountIsDecisions
      <4>2. decided[a][i].approved /\ decided[a][i].by # approval[a].requester
        BY <4>1, <3>2, <1>3 DEF AllForIt
      <4>3. decided'[a][i] = decided[a][i] /\ approval'[a].requester = approval[a].requester
        BY <3>2, <1>3, <1>4
      <4> QED BY <4>2, <4>3, Zenon
    <3> QED BY <3>1, <3>2, <1>3
  <2>2. \A b \in Approvals : b # a => (AllForIt(b)' <=> AllForIt(b))
    BY <1>4 DEF AllForIt
  <2>3. Len(decided'[a]) = approval[a].count + 1
    BY <1>1, <1>3, <1>4 DEF CountIsDecisions
  <2>4. approval[a].count < approval[a].required \/ approval[a].count = 0
    BY <1>1 DEF CountIsDecisions
  <2>5. ASSUME NEW b \in Approvals, b # a
        PROVE  /\ approval'[b].status = "none" => decided'[b] = <<>> /\ approval'[b].count = 0
               /\ approval'[b].status = "pending" =>
                    /\ AllForIt(b)' /\ Len(decided'[b]) = approval'[b].count
                    /\ approval'[b].count < approval'[b].required \/ approval'[b].count = 0
               /\ approval'[b].status = "approved" =>
                    /\ AllForIt(b)'
                    /\ Len(decided'[b]) = IF approval'[b].required > 1
                                          THEN approval'[b].required ELSE 1
    BY <2>5, <2>2, <1>4 DEF CountIsDecisions
  <2>6. /\ approval'[a].status = "pending" =>
             /\ AllForIt(a)' /\ Len(decided'[a]) = approval'[a].count
             /\ approval'[a].count < approval'[a].required \/ approval'[a].count = 0
        /\ approval'[a].status = "approved" =>
             /\ AllForIt(a)'
             /\ Len(decided'[a]) = IF approval'[a].required > 1 THEN approval'[a].required ELSE 1
        /\ approval'[a].status # "none"
    BY <2>1, <2>3, <2>4, <1>4
  <2> QED BY <2>5, <2>6 DEF CountIsDecisions
<1>8. CalledOnce'
  <2>1. executed'[a] = 0 /\ (a \in calling' => approval'[a].status = "approved")
    BY <1>1, <1>6
  <2>2. \A b \in Approvals : b # a => executed'[b] = executed[b] /\ (b \in calling' <=> b \in calling)
    BY <1>1
  <2> QED BY <2>1, <2>2, <1>4 DEF CalledOnce
<1>9. Forgotten' = Forgotten
  <2>1. a \notin Forgotten /\ a \notin Forgotten'
    BY <1>1, <1>4 DEF Forgotten
  <2>2. \A b \in Approvals : b # a => (b \in Forgotten' <=> b \in Forgotten)
    BY <1>1, <1>4 DEF Forgotten
  <2> QED BY <2>1, <2>2 DEF Forgotten
<1> QED BY <1>1, <1>5, <1>7, <1>8, <1>9 DEF ForgottenWasLost

LEMMA ExecuteApprovedActionKeeps ==
  ASSUME ApprovalInv, NEW a \in Approvals, AP!ExecuteApprovedAction(a)
  PROVE  ApprovalInv'
<1> USE DEF ApprovalInv
<1>1. /\ a \in calling /\ calling' = calling \ {a}
      /\ rules' = rules /\ approval' = approval /\ decided' = decided
  BY DEF AP!ExecuteApprovedAction
<1>2. executed[a] = 0 /\ approval[a].status = "approved"
  BY <1>1 DEF CalledOnce, ApprovalTypes
<1>3. CountIsDecisions'
  BY <1>1 DEF CountIsDecisions, AllForIt
<1>4. CASE executed' = [executed EXCEPT ![a] = @ + 1] /\ losses' = losses
  <2>1. ApprovalTypes'
    BY <1>1, <1>4 DEF ApprovalTypes
  <2>2. CalledOnce'
    BY <1>1, <1>2, <1>4 DEF ApprovalTypes, CalledOnce
  <2>3. Forgotten' = Forgotten
    BY <1>1, <1>2, <1>4 DEF Forgotten, ApprovalTypes
  <2> QED BY <2>1, <2>2, <2>3, <1>3, <1>4 DEF ForgottenWasLost
<1>5. CASE losses' = losses + 1 /\ executed' = executed
  <2>1. ApprovalTypes' /\ CalledOnce'
    <3>1. calling' \subseteq calling /\ calling \subseteq Approvals
      BY <1>1 DEF ApprovalTypes
    <3>2. ApprovalTypes'
      BY <3>1, <1>1, <1>5 DEF ApprovalTypes
    <3>3. \A b \in Approvals : executed'[b] = executed[b] /\ executed[b] \in Nat
      BY <1>5 DEF ApprovalTypes
    <3>4. CalledOnce'
      BY <3>1, <3>3, <1>1 DEF CalledOnce
    <3> QED BY <3>2, <3>4
  <2>2. Forgotten' \subseteq Forgotten \cup {a}
    BY <1>1, <1>5 DEF Forgotten
  <2>3. /\ IsFiniteSet(Forgotten \cup {a}) /\ IsFiniteSet(Forgotten)
        /\ Cardinality(Forgotten \cup {a}) <= Cardinality(Forgotten) + 1
        /\ Cardinality(Forgotten) \in Nat
    <3>1. IsFiniteSet(Forgotten)
      BY DEF ForgottenWasLost
    <3> QED BY <3>1, FS_AddElement, FS_CardinalityType
  <2>4. /\ IsFiniteSet(Forgotten') /\ Cardinality(Forgotten') \in Nat
        /\ Cardinality(Forgotten') <= Cardinality(Forgotten \cup {a})
    BY <2>2, <2>3, FS_Subset, FS_CardinalityType
  <2>5. losses \in Nat /\ Cardinality(Forgotten) <= losses /\ Cardinality(Forgotten \cup {a}) \in Nat
    BY <2>3, FS_CardinalityType DEF ApprovalTypes, ForgottenWasLost
  <2>6. ForgottenWasLost'
    BY <2>3, <2>4, <2>5, <1>5 DEF ForgottenWasLost
  <2> QED BY <2>1, <2>6, <1>3
<1> QED BY <1>4, <1>5 DEF AP!ExecuteApprovedAction

\* A step that leaves the decisions, the calls and the other rows alone, and neither
\* approves the row of a nor undoes an approval.
LEMMA RowChangeKeeps ==
  ASSUME ApprovalInv, ApprovalTypes', NEW a \in Approvals,
         \A b \in Approvals : b # a => approval'[b] = approval[b],
         approval[a].status # "approved", approval'[a].status # "approved",
         decided' = decided, calling' = calling, executed' = executed, losses' = losses,
         /\ approval'[a].status = "pending" =>
              decided[a] = <<>> /\ approval'[a].count = 0
         /\ approval'[a].status # "none"
  PROVE  ApprovalInv'
<1> USE DEF ApprovalInv
<1>1. \A b \in Approvals : b # a => (AllForIt(b)' <=> AllForIt(b))
  BY DEF AllForIt
<1>2. approval'[a].status = "pending" => AllForIt(a)' /\ Len(decided'[a]) = 0
  BY DEF AllForIt
<1>3. CountIsDecisions'
  BY <1>1, <1>2 DEF CountIsDecisions
<1>4. CalledOnce'
  BY DEF CalledOnce
<1>5. Forgotten' = Forgotten
  <2>1. a \notin Forgotten /\ a \notin Forgotten'
    BY DEF Forgotten
  <2> QED BY <2>1 DEF Forgotten
<1> QED BY <1>3, <1>4, <1>5 DEF ForgottenWasLost

\* The invariant is inductive.
LEMMA ApprovalNext ==
  ASSUME ApprovalInv, [AP!Next]_(AP!pvars)
  PROVE  ApprovalInv'
<1>1. ASSUME NEW u \in Users, NEW rule \in Rules, AP!CreateRule(u, rule) PROVE ApprovalInv'
  BY <1>1 DEF AP!CreateRule, ApprovalInv, ApprovalTypes, CountIsDecisions, AllForIt, CalledOnce,
              ForgottenWasLost, Forgotten
<1>2. ASSUME NEW a \in Approvals, NEW u \in Users, AP!CreateApproval(a, u) PROVE ApprovalInv'
  <2>1. PICK rule \in rules :
            approval' = [approval EXCEPT ![a].status = "pending", ![a].requester = u,
                                         ![a].required = rule.count]
    BY <1>2 DEF AP!CreateApproval
  <2>2. rule.count \in Int
    BY ServicesAssumption DEF ApprovalInv, ApprovalTypes
  <2>3. approval[a].status = "none" /\ approval'[a].status = "pending" /\ approval'[a].count = approval[a].count
        /\ \A b \in Approvals : b # a => approval'[b] = approval[b]
    BY <1>2, <2>1 DEF AP!CreateApproval, ApprovalInv, ApprovalTypes, ApprovalRows
  <2>4. ApprovalTypes'
    <3>1. "pending" \in Statuses /\ u \in Requesters
      BY DEF Statuses, Requesters
    <3>2. approval' \in [Approvals -> ApprovalRows]
      BY <3>1, <2>1, <2>2 DEF ApprovalInv, ApprovalTypes, ApprovalRows
    <3> QED BY <3>2, <1>2 DEF AP!CreateApproval, ApprovalInv, ApprovalTypes
  <2>5. decided[a] = <<>> /\ approval[a].count = 0
    BY <2>3 DEF ApprovalInv, CountIsDecisions
  <2> QED BY <1>2, <2>3, <2>4, <2>5, RowChangeKeeps DEF AP!CreateApproval
<1>3. ASSUME NEW a \in Approvals, NEW u \in Users, AP!Cancel(a, u) PROVE ApprovalInv'
  <2>1. ApprovalTypes'
    <3>1. "cancelled" \in Statuses
      BY DEF Statuses
    <3> QED BY <3>1, <1>3 DEF AP!Cancel, ApprovalInv, ApprovalTypes, ApprovalRows
  <2>2. approval[a].status = "pending" /\ approval'[a].status = "cancelled"
        /\ \A b \in Approvals : b # a => approval'[b] = approval[b]
    BY <1>3 DEF AP!Cancel, ApprovalInv, ApprovalTypes, ApprovalRows
  <2> QED BY <1>3, <2>1, <2>2, RowChangeKeeps DEF AP!Cancel
<1>4. CASE UNCHANGED AP!pvars
  BY <1>4 DEF AP!pvars, ApprovalInv, ApprovalTypes, CountIsDecisions, AllForIt, CalledOnce,
              ForgottenWasLost, Forgotten
<1> QED BY <1>1, <1>2, <1>3, <1>4, DecideKeeps, ExecuteApprovedActionKeeps DEF AP!Next

\* An approved request runs once, unless the call was lost; nothing else runs; and
\* it was approved as often as its rule asks for, by others than the requester
\* (approval_service.py, make_decision, and the call in routes.py).
THEOREM ApprovalCorrect == Spec => []ApprovedRunsOnce
<1>1. Init => ApprovalInv
  BY ApprovalInit DEF Init
<1>2. ApprovalInv /\ [Next]_vars => ApprovalInv'
  BY AccessSteps, ApprovalNext
<1>3. ApprovalInv => ApprovedRunsOnce
  BY SameCardinality DEF ApprovalInv, CountIsDecisions, AllForIt, CalledOnce, ForgottenWasLost,
     Forgotten, ApprovedRunsOnce, AP!ApprovedRunsOnce
<1> QED BY <1>1, <1>2, <1>3, PTL DEF Spec
-----------------------------------------------------------------------------

RegisterPlaces == {"new", "email", "count", "insert", "publish", "refused", "failed", "done"}
Roles == {"ADMIN", "VIEWER"}
Rows == [id : Nat, name : Usernames, email : Emails, role : Roles]
RegisterRows == [at : RegisterPlaces, name : Usernames, email : Emails, role : Roles, id : Nat]

AccountTypes ==
    /\ users \subseteq Rows /\ IsFiniteSet(users)
    /\ register \in [Registrations -> RegisterRows]
    /\ overlap \in [Registrations -> SUBSET {u.id : u \in users}]

AdminIsThere == users # {} => \E u \in users : u.role = "ADMIN"

\* Who is to be a viewer has seen somebody; who is to be an admin saw nobody, also
\* when it began.
RoleWasSeen ==
    \A r \in Registrations :
        /\ register[r].at \in {"new", "email", "count"} => register[r].role = "VIEWER"
        /\ register[r].at = "insert" /\ register[r].role = "VIEWER" => users # {}
        /\ register[r].role = "ADMIN" => overlap[r] = {}

AccountInv == AccountTypes /\ AdminIsThere /\ RoleWasSeen

\* A registration that only goes to another place, behind the insert or with its
\* role unsettled, keeps the invariant; so does anything else that leaves the
\* registrations and the users alone.
LEMMA PlaceChangeKeeps ==
  ASSUME AccountInv, NEW r \in Registrations, NEW place \in RegisterPlaces,
         register' = [register EXCEPT ![r].at = place], users' = users,
         overlap' = overlap,
         place \in {"email", "count"} => register[r].at = "email",
         place \notin {"new", "insert"}
  PROVE  AccountInv'
<1> USE DEF AccountInv
<1>1. register' \in [Registrations -> RegisterRows]
  BY DEF AccountTypes, RegisterRows
<1>2. /\ register'[r].at = place /\ register'[r].role = register[r].role
      /\ \A q \in Registrations : q # r => register'[q] = register[q]
  BY DEF AccountTypes, RegisterRows
<1>3. RoleWasSeen'
  BY <1>2 DEF RoleWasSeen
<1> QED BY <1>1, <1>3 DEF AccountTypes, AdminIsThere

LEMMA AccountInit == AC!Init => AccountInv
<1> SUFFICES ASSUME AC!Init PROVE AccountInv
  OBVIOUS
<1>1. register \in [Registrations -> [at : {"new"}, name : Usernames, email : Emails,
                                      role : {"VIEWER"}, id : {0}]]
      /\ users = {} /\ overlap = [r \in Registrations |-> {}]
  BY DEF AC!Init
<1>2. \A r \in Registrations : register[r].at = "new" /\ register[r].role = "VIEWER"
  BY <1>1
<1>3. register \in [Registrations -> RegisterRows]
  BY <1>1 DEF RegisterRows, RegisterPlaces, Roles
<1>4. AccountTypes
  BY <1>1, <1>3, FS_EmptySet DEF AccountTypes
<1> QED BY <1>1, <1>2, <1>4 DEF AccountInv, AdminIsThere, RoleWasSeen

\* The invariant is inductive.
LEMMA AccountNext ==
  ASSUME AccountInv, [AC!Next]_(AC!avars)
  PROVE  AccountInv'
<1> USE DEF AccountInv
<1>1. ASSUME NEW r \in Registrations, AC!CheckUsername(r) PROVE AccountInv'
  <2>1. PICK place \in {"refused", "email"} : register' = [register EXCEPT ![r].at = place]
    BY <1>1 DEF AC!CheckUsername, AC!Goes
  <2>2. /\ register[r].at = "new" /\ users' = users
        /\ overlap' = [overlap EXCEPT ![r] = {u.id : u \in users}]
    BY <1>1 DEF AC!CheckUsername, AC!Ids
  <2>3. place \in RegisterPlaces
    BY DEF RegisterPlaces
  <2>4. register' \in [Registrations -> RegisterRows]
    BY <2>1, <2>3 DEF AccountTypes, RegisterRows
  <2>5. /\ register'[r].at = place /\ register'[r].role = register[r].role
        /\ \A q \in Registrations : q # r => register'[q] = register[q] /\ overlap'[q] = overlap[q]
    BY <2>1, <2>2 DEF AccountTypes, RegisterRows
  <2>6. register[r].role = "VIEWER"
    BY <2>2 DEF RoleWasSeen
  <2>7. RoleWasSeen'
    BY <2>2, <2>5, <2>6 DEF RoleWasSeen
  <2>8. overlap' \in [Registrations -> SUBSET {u.id : u \in users}]
    BY <2>2 DEF AccountTypes
  <2> QED BY <2>2, <2>4, <2>7, <2>8 DEF AccountTypes, AdminIsThere
<1>2. ASSUME NEW r \in Registrations, AC!CheckEmail(r) PROVE AccountInv'
  <2>1. PICK place \in {"refused", "count"} : register' = [register EXCEPT ![r].at = place]
    BY <1>2 DEF AC!CheckEmail, AC!Goes
  <2>2. place \in RegisterPlaces /\ place \notin {"new", "insert"}
    BY DEF RegisterPlaces
  <2> QED BY <1>2, <2>1, <2>2, PlaceChangeKeeps DEF AC!CheckEmail
<1>3. ASSUME NEW r \in Registrations, AC!CountUsers(r) PROVE AccountInv'
  <2> DEFINE role == IF AC!IsFirstUser THEN "ADMIN" ELSE "VIEWER"
  <2>1. /\ register[r].at = "count" /\ users' = users /\ overlap' = overlap
        /\ register' = [register EXCEPT ![r].at = "insert", ![r].role = role]
    BY <1>3 DEF AC!CountUsers
  <2>2. AC!IsFirstUser <=> users = {}
    BY SameCardinality, FS_EmptySet DEF AC!IsFirstUser, AccountTypes
  <2>3. "insert" \in RegisterPlaces /\ role \in Roles
    BY DEF RegisterPlaces, Roles
  <2> HIDE DEF role
  <2>4. register' \in [Registrations -> RegisterRows]
    BY <2>1, <2>3 DEF AccountTypes, RegisterRows
  <2>5. /\ register'[r].at = "insert" /\ register'[r].role = role
        /\ \A q \in Registrations : q # r => register'[q] = register[q]
    BY <2>1 DEF AccountTypes, RegisterRows
  <2>6. (role = "VIEWER" => users # {}) /\ (role = "ADMIN" => overlap[r] = {})
    BY <2>2 DEF AccountTypes, role
  <2>7. RoleWasSeen'
    BY <2>1, <2>5, <2>6 DEF RoleWasSeen
  <2> QED BY <2>1, <2>4, <2>7 DEF AccountTypes, AdminIsThere
<1>4. ASSUME NEW r \in Registrations, AC!Insert(r) PROVE AccountInv'
  <2> DEFINE new == [id |-> Cardinality(users) + 1, name |-> register[r].name,
                     email |-> register[r].email, role |-> register[r].role]
  <2>1. register[r].at = "insert" /\ overlap' = overlap
    BY <1>4 DEF AC!Insert
  <2>2. CASE AC!Goes(r, "failed") /\ users' = users
    <3>1. "failed" \in RegisterPlaces
      BY DEF RegisterPlaces
    <3> QED BY <2>1, <2>2, <3>1, PlaceChangeKeeps DEF AC!Goes
  <2>3. CASE users' = users \cup {new}
             /\ register' = [register EXCEPT ![r].at = "publish", ![r].id = new.id]
    <3>1. Cardinality(users) \in Nat /\ "publish" \in RegisterPlaces
      BY FS_CardinalityType DEF AccountTypes, RegisterPlaces
    <3>2. new \in Rows /\ new.id \in Nat /\ new.role = register[r].role
      BY <3>1 DEF AccountTypes, RegisterRows, Rows
    <3> HIDE DEF new
    <3>3. users' \subseteq Rows /\ IsFiniteSet(users') /\ users' # {}
      BY <2>3, <3>2, FS_AddElement DEF AccountTypes
    <3>4. register' \in [Registrations -> RegisterRows]
      BY <2>3, <3>1, <3>2 DEF AccountTypes, RegisterRows
    <3>5. /\ register'[r].at = "publish" /\ register'[r].role = register[r].role
          /\ \A q \in Registrations : q # r => register'[q] = register[q]
      BY <2>3 DEF AccountTypes, RegisterRows
    <3>6. overlap' \in [Registrations -> SUBSET {u.id : u \in users'}]
      BY <2>1, <2>3 DEF AccountTypes
    <3>7. AdminIsThere'
      <4>1. CASE users = {}
        <5>1. register[r].role = "ADMIN"
          BY <4>1, <2>1 DEF RoleWasSeen, AccountTypes, RegisterRows, Roles
        <5> QED BY <5>1, <3>2, <2>3 DEF AdminIsThere
      <4>2. CASE users # {}
        BY <4>2, <2>3 DEF AdminIsThere
      <4> QED BY <4>1, <4>2
    <3>8. RoleWasSeen'
      BY <2>1, <3>3, <3>5 DEF RoleWasSeen
    <3> QED BY <3>3, <3>4, <3>6, <3>7, <3>8 DEF AccountTypes
  <2> QED BY <1>4, <2>2, <2>3, SameCardinality DEF AC!Insert
<1>5. ASSUME NEW r \in Registrations, AC!PublishCreated(r) PROVE AccountInv'
  <2>1. "done" \in RegisterPlaces
    BY DEF RegisterPlaces
  <2> QED BY <1>5, <2>1, PlaceChangeKeeps DEF AC!PublishCreated, AC!Goes
<1>6. ASSUME NEW r \in Registrations, AC!RegisterFails(r) PROVE AccountInv'
  <2>1. "failed" \in RegisterPlaces
    BY DEF RegisterPlaces
  <2> QED BY <1>6, <2>1, PlaceChangeKeeps DEF AC!RegisterFails, AC!Goes
<1>7. ASSUME UNCHANGED <<users, register, overlap>> PROVE AccountInv'
  BY <1>7 DEF AccountTypes, AdminIsThere, RoleWasSeen
<1> QED BY <1>1, <1>2, <1>3, <1>4, <1>5, <1>6, <1>7
        DEF AC!Next, AC!Login, AC!PublishLoggedIn, AC!avars

\* There is an admin as soon as there is a user, and a second one only where
\* neither registration saw the other's user when it began, for any number of
\* replicas and registrations (auth_service.py, create_user: the count and the
\* insert are two statements).
THEOREM AccountsCorrect == Spec => []FirstUserIsAdmin
<1>1. Init => AccountInv
  BY AccountInit DEF Init
<1>2. AccountInv /\ [Next]_vars => AccountInv'
  BY AccessSteps, AccountNext
<1>3. AccountInv => FirstUserIsAdmin
  BY DEF AccountInv, AdminIsThere, RoleWasSeen, FirstUserIsAdmin, AC!FirstUserIsAdmin
<1> QED BY <1>1, <1>2, <1>3, PTL DEF Spec
-----------------------------------------------------------------------------

Owners == Tabs \cup {CHOOSE t \in Tabs : TRUE}
TabRows == [isAuthenticated : BOOLEAN, leaving : BOOLEAN]
RequestRows == [tab : Owners, kind : {"login", "me", "call"}, at : {"idle", "sent", "refreshing"},
                token : Nat]

BrowserTypes ==
    /\ storage \in Nat /\ logins \in Nat
    /\ tab \in [Tabs -> TabRows]
    /\ request \in [Requests -> RequestRows]
    /\ \A r \in Requests : request[r].at # "idle" => request[r].tab \in Tabs

\* The requests of a login that tab t waits for.
LogsIn(r, t) == request[r].at # "idle" /\ request[r].kind # "call" /\ request[r].tab = t

\* A tab logs in once at a time, and not while it shows protected pages.
OneLogin ==
    \A t \in Tabs :
        /\ \A r \in Requests : LogsIn(r, t) => ~tab[t].isAuthenticated
        /\ \A r, q \in Requests : LogsIn(r, t) /\ LogsIn(q, t) => r = q

\* Only a 401 leads to a refresh.
RefreshesWithReason ==
    \A r \in Requests : request[r].at = "refreshing" =>
        request[r].kind = "login" \/ request[r].token \in expired

\* Tab t shows protected pages, or is about to.
Inside(t) ==
    tab[t].isAuthenticated \/ \E r \in Requests : LogsIn(r, t) /\ request[r].kind = "me"

LostToAnother == \A t \in Tabs : Inside(t) /\ storage = 0 /\ ~tab[t].leaving => ended.tab # t

BrowserInv ==
    /\ BrowserTypes /\ OneLogin /\ RefreshesWithReason /\ LostToAnother
    /\ ended.cause # "refused though good"

LEMMA BrowserInit == BR!Init => BrowserInv
<1> SUFFICES ASSUME BR!Init PROVE BrowserInv
  OBVIOUS
<1>1. /\ storage = 0 /\ logins = 0 /\ ended.cause = "none"
      /\ tab = [t \in Tabs |-> [isAuthenticated |-> FALSE, leaving |-> FALSE]]
      /\ request = [r \in Requests |-> [tab |-> CHOOSE t \in Tabs : TRUE, kind |-> "call",
                                        at |-> "idle", token |-> 0]]
  BY DEF BR!Init, BR!Loaded, BR!Idle
<1>2. BrowserTypes
  BY <1>1 DEF BrowserTypes, TabRows, RequestRows, Owners
<1>3. \A r \in Requests : request[r].at = "idle"
  BY <1>1
<1>4. \A t \in Tabs : ~tab[t].isAuthenticated
  BY <1>1
<1> QED BY <1>1, <1>2, <1>3, <1>4
        DEF BrowserInv, OneLogin, LogsIn, RefreshesWithReason, Inside, LostToAnother

\* A request that ends, or that was never there, takes nothing from the invariant,
\* when the tabs and the tokens stay.
LEMMA OverKeeps ==
  ASSUME BrowserInv, BrowserTypes',
         \A r \in Requests : request'[r] = request[r] \/ request'[r].at = "idle",
         \A t \in Tabs : tab'[t] = tab[t],
         storage' = storage, ended' = ended, expired \subseteq expired'
  PROVE  BrowserInv'
<1> USE DEF BrowserInv
<1>1. \A r \in Requests, t \in Tabs : LogsIn(r, t)' => LogsIn(r, t) /\ request'[r] = request[r]
  BY DEF LogsIn
<1>2. OneLogin'
  BY <1>1 DEF OneLogin
<1>3. RefreshesWithReason'
  BY DEF RefreshesWithReason
<1>4. \A t \in Tabs : Inside(t)' => Inside(t)
  BY <1>1 DEF Inside
<1>5. LostToAnother'
  BY <1>4 DEF LostToAnother
<1> QED BY <1>2, <1>3, <1>5

LEMMA IdleIsRow == BR!Idle \in RequestRows /\ BR!Idle.at = "idle"
  BY DEF BR!Idle, RequestRows, Owners

\* A request that ends is idle, and the others stay.
LEMMA OverTypes ==
  ASSUME BrowserTypes, NEW r \in Requests, BR!Over(r)
  PROVE  /\ request' \in [Requests -> RequestRows]
         /\ request'[r].at = "idle"
         /\ \A q \in Requests : q # r => request'[q] = request[q]
  BY IdleIsRow DEF BR!Over, BrowserTypes

\* Removing the tokens is noticed by the tab that does it: it leaves, or it shows
\* no protected page any more and is not logging in.
LEMMA RemoveTokensKeeps ==
  ASSUME BrowserInv, BrowserTypes', NEW t \in Tabs, NEW cause, cause # "refused though good",
         BR!RemoveTokens(t, cause),
         \A r \in Requests : request'[r] = request[r] \/ request'[r].at = "idle",
         \A u \in Tabs : u # t => tab'[u] = tab[u],
         tab'[t].leaving \/ ~Inside(t)',
         tab'[t].isAuthenticated => tab[t].isAuthenticated,
         expired' = expired
  PROVE  BrowserInv'
<1> USE DEF BrowserInv
<1>1. \A r \in Requests, u \in Tabs : LogsIn(r, u)' => LogsIn(r, u) /\ request'[r] = request[r]
  BY DEF LogsIn
<1>2. OneLogin'
  BY <1>1 DEF OneLogin
<1>3. RefreshesWithReason'
  BY DEF RefreshesWithReason
<1>4. \A u \in Tabs : u # t => (Inside(u)' => Inside(u))
  BY <1>1 DEF Inside
<1>5. storage' = 0 /\ ended' = IF storage = 0 THEN ended ELSE [tab |-> t, cause |-> cause]
  BY DEF BR!RemoveTokens
<1>6. \A u \in Tabs : u # t /\ Inside(u)' /\ ~tab'[u].leaving => ended'.tab # u
  BY <1>4, <1>5 DEF LostToAnother
<1>7. LostToAnother'
  BY <1>6 DEF LostToAnother
<1>8. ended'.cause # "refused though good"
  BY <1>5
<1> QED BY <1>2, <1>3, <1>7, <1>8

\* A new request of a tab: a call from a protected page, or the first of a login.
LEMMA SendKeeps ==
  ASSUME BrowserInv, NEW r \in Requests, NEW t \in Tabs, BR!Send(r, t)
  PROVE  BrowserInv'
<1> USE DEF BrowserInv
<1>1. /\ request[r].at = "idle" /\ request' = [request EXCEPT ![r] = BR!Sent(t, "call")]
      /\ UNCHANGED <<storage, tab, logins, expired, ended>>
  BY DEF BR!Send
<1>2. BR!Sent(t, "call") \in RequestRows
  BY DEF BR!Sent, RequestRows, BrowserTypes, Owners
<1>3. /\ request'[r].at = "sent" /\ request'[r].kind = "call" /\ request'[r].tab = t
      /\ \A q \in Requests : q # r => request'[q] = request[q]
  BY <1>1 DEF BR!Sent, BrowserTypes
<1>4. BrowserTypes'
  BY <1>1, <1>2, <1>3 DEF BrowserTypes
<1>5. \A q \in Requests, u \in Tabs : LogsIn(q, u)' => LogsIn(q, u) /\ request'[q] = request[q]
  BY <1>3 DEF LogsIn
<1>6. OneLogin'
  BY <1>1, <1>5 DEF OneLogin
<1>7. RefreshesWithReason'
  <2> SUFFICES ASSUME NEW q \in Requests, request'[q].at = "refreshing"
               PROVE  request'[q].kind = "login" \/ request'[q].token \in expired'
    BY DEF RefreshesWithReason
  <2>1. q # r
    BY <1>3
  <2>2. request'[q] = request[q] /\ expired' = expired
    BY <2>1, <1>1, <1>3
  <2> QED BY <2>2 DEF RefreshesWithReason
<1>8. \A u \in Tabs : Inside(u)' => Inside(u)
  BY <1>1, <1>5 DEF Inside
<1>9. LostToAnother'
  BY <1>1, <1>8 DEF LostToAnother
<1> QED BY <1>1, <1>4, <1>6, <1>7, <1>9

LEMMA SubmitKeeps ==
  ASSUME BrowserInv, NEW r \in Requests, NEW t \in Tabs, BR!Submit(r, t)
  PROVE  BrowserInv'
<1> USE DEF BrowserInv
<1>1. /\ request[r].at = "idle" /\ request' = [request EXCEPT ![r] = BR!Sent(t, "login")]
      /\ ~tab[t].isAuthenticated
      /\ UNCHANGED <<storage, tab, logins, expired, ended>>
  BY DEF BR!Submit
<1>2. BR!Sent(t, "login") \in RequestRows
  BY DEF BR!Sent, RequestRows, BrowserTypes, Owners
<1>3. /\ request'[r].at = "sent" /\ request'[r].kind = "login" /\ request'[r].tab = t
      /\ \A q \in Requests : q # r => request'[q] = request[q]
  BY <1>1 DEF BR!Sent, BrowserTypes
<1>4. BrowserTypes'
  BY <1>1, <1>2, <1>3 DEF BrowserTypes
<1>5. \A q \in Requests : ~LogsIn(q, t)
  BY DEF BR!Submit, BR!RequestsOf, LogsIn
<1>6. \A q \in Requests, u \in Tabs : LogsIn(q, u)' =>
          \/ q = r /\ u = t
          \/ u # t /\ LogsIn(q, u) /\ request'[q] = request[q]
  BY <1>3, <1>5 DEF LogsIn
<1>7. OneLogin'
  BY <1>1, <1>6 DEF OneLogin
<1>8. RefreshesWithReason'
  <2> SUFFICES ASSUME NEW q \in Requests, request'[q].at = "refreshing"
               PROVE  request'[q].kind = "login" \/ request'[q].token \in expired'
    BY DEF RefreshesWithReason
  <2>1. q # r
    BY <1>3
  <2>2. request'[q] = request[q] /\ expired' = expired
    BY <2>1, <1>1, <1>3
  <2> QED BY <2>2 DEF RefreshesWithReason
<1>9. \A u \in Tabs : Inside(u)' => Inside(u)
  BY <1>1, <1>3, <1>6 DEF Inside
<1>10. LostToAnother'
  BY <1>1, <1>9 DEF LostToAnother
<1> QED BY <1>1, <1>4, <1>7, <1>8, <1>10

LEMMA PlusOne == \A n \in Nat : n + 1 \in Nat /\ n + 1 # 0
  OBVIOUS

\* With the new tokens, nothing is lost.
LEMMA LoggedInKeeps ==
  ASSUME BrowserInv, NEW r \in Requests, BR!LoggedIn(r)
  PROVE  BrowserInv'
<1> USE DEF BrowserInv
<1>1. /\ request[r].at = "sent" /\ request[r].kind = "login"
      /\ logins' = logins + 1 /\ storage' = logins + 1
      /\ request' = [request EXCEPT ![r].kind = "me", ![r].token = logins + 1]
      /\ UNCHANGED <<tab, expired, ended>>
  BY DEF BR!LoggedIn
<1>2. logins + 1 \in Nat /\ logins + 1 # 0
  <2>1. logins \in Nat
    BY DEF BrowserTypes
  <2> QED BY <2>1, PlusOne, Zenon
<1>3. request' \in [Requests -> RequestRows]
  BY <1>1, <1>2 DEF BrowserTypes, RequestRows
<1>4. /\ request'[r].at = "sent" /\ request'[r].kind = "me" /\ request'[r].tab = request[r].tab
      /\ \A q \in Requests : q # r => request'[q] = request[q]
  BY <1>1 DEF BrowserTypes, RequestRows
<1>5. BrowserTypes'
  BY <1>1, <1>2, <1>3, <1>4 DEF BrowserTypes
<1>6. \A q \in Requests, u \in Tabs : LogsIn(q, u)' => LogsIn(q, u)
  BY <1>1, <1>4 DEF LogsIn
<1>7. OneLogin'
  BY <1>1, <1>6 DEF OneLogin
<1>8. RefreshesWithReason'
  <2> SUFFICES ASSUME NEW q \in Requests, request'[q].at = "refreshing"
               PROVE  request'[q].kind = "login" \/ request'[q].token \in expired'
    BY DEF RefreshesWithReason
  <2>1. q # r
    BY <1>4
  <2>2. request'[q] = request[q] /\ expired' = expired
    BY <2>1, <1>1, <1>4
  <2> QED BY <2>2 DEF RefreshesWithReason
<1>9. LostToAnother'
  BY <1>1, <1>2 DEF LostToAnother
<1> QED BY <1>1, <1>5, <1>7, <1>8, <1>9

LEMMA AnsweredKeeps ==
  ASSUME BrowserInv, NEW r \in Requests, BR!Answered(r)
  PROVE  BrowserInv'
<1> USE DEF BrowserInv
<1> DEFINE t == request[r].tab
<1>1. /\ request[r].at = "sent" /\ BR!Over(r)
      /\ tab' = IF request[r].kind = "me" THEN [tab EXCEPT ![t].isAuthenticated = TRUE] ELSE tab
      /\ UNCHANGED <<storage, logins, expired, ended>>
  BY DEF BR!Answered
<1>2. /\ request' \in [Requests -> RequestRows] /\ request'[r].at = "idle"
      /\ \A q \in Requests : q # r => request'[q] = request[q]
  BY <1>1, OverTypes
<1>3. t \in Tabs
  BY <1>1 DEF BrowserTypes
<1>4. CASE request[r].kind # "me"
  <2>1. BrowserTypes'
    BY <1>1, <1>2, <1>4 DEF BrowserTypes
  <2> QED BY <2>1, <1>1, <1>2, <1>4, OverKeeps
<1>5. CASE request[r].kind = "me"
  <2>1. tab' \in [Tabs -> TabRows]
    BY <1>1, <1>3, <1>5 DEF BrowserTypes, TabRows
  <2>2. /\ tab'[t].leaving = tab[t].leaving
        /\ \A u \in Tabs : u # t => tab'[u] = tab[u]
    BY <1>1, <1>3, <1>5 DEF BrowserTypes, TabRows
  <2>3. BrowserTypes'
    BY <1>1, <1>2, <2>1 DEF BrowserTypes
  <2>4. LogsIn(r, t) /\ Inside(t)
    BY <1>1, <1>5 DEF LogsIn, Inside
  <2>5. \A q \in Requests, u \in Tabs : LogsIn(q, u)' => LogsIn(q, u) /\ u # t /\ request'[q] = request[q]
    <3> SUFFICES ASSUME NEW q \in Requests, NEW u \in Tabs, LogsIn(q, u)'
                 PROVE  LogsIn(q, u) /\ u # t /\ request'[q] = request[q]
      OBVIOUS
    <3>1. q # r
      BY <1>2 DEF LogsIn
    <3>2. LogsIn(q, u) /\ request'[q] = request[q]
      BY <3>1, <1>2 DEF LogsIn
    <3> QED BY <3>1, <3>2, <2>4, <1>3 DEF OneLogin
  <2>6. OneLogin'
    BY <2>2, <2>5 DEF OneLogin
  <2>7. RefreshesWithReason'
    BY <1>1, <1>2 DEF RefreshesWithReason
  <2>8. \A u \in Tabs : Inside(u)' => Inside(u)
    BY <2>2, <2>4, <2>5 DEF Inside
  <2>9. LostToAnother'
    BY <1>1, <2>2, <2>8 DEF LostToAnother
  <2> QED BY <1>1, <2>3, <2>6, <2>7, <2>9
<1> QED BY <1>4, <1>5

\* A 401 says that the password was wrong or the token has expired.
LEMMA UnauthorizedReason ==
  ASSUME NEW r, 401 \in BR!Errors(r)
  PROVE  request[r].kind = "login" \/ request[r].token \in expired
  BY DEF BR!Errors

LEMMA RefusedKeeps ==
  ASSUME BrowserInv, NEW r \in Requests, BR!Refused(r)
  PROVE  BrowserInv'
<1> USE DEF BrowserInv
<1>1. request[r].at = "sent" /\ UNCHANGED <<storage, tab, logins, expired, ended>>
  BY DEF BR!Refused
<1>2. CASE BR!Over(r)
  <2>1. /\ request' \in [Requests -> RequestRows] /\ request'[r].at = "idle"
        /\ \A q \in Requests : q # r => request'[q] = request[q]
    BY <1>2, OverTypes
  <2>2. BrowserTypes'
    BY <1>1, <2>1 DEF BrowserTypes
  <2> QED BY <2>1, <2>2, <1>1, OverKeeps
<1>3. CASE 401 \in BR!Errors(r) /\ request' = [request EXCEPT ![r].at = "refreshing"]
  <2>1. request' \in [Requests -> RequestRows]
    BY <1>3 DEF BrowserTypes, RequestRows
  <2>2. /\ request'[r].at = "refreshing" /\ request'[r].kind = request[r].kind
        /\ request'[r].tab = request[r].tab /\ request'[r].token = request[r].token
        /\ \A q \in Requests : q # r => request'[q] = request[q]
    BY <1>3 DEF BrowserTypes, RequestRows
  <2>3. BrowserTypes'
    BY <1>1, <2>1, <2>2 DEF BrowserTypes
  <2>4. request[r].kind = "login" \/ request[r].token \in expired
    BY <1>3, UnauthorizedReason
  <2>5. RefreshesWithReason'
    BY <1>1, <2>2, <2>4 DEF RefreshesWithReason
  <2>6. \A q \in Requests, u \in Tabs : LogsIn(q, u)' <=> LogsIn(q, u)
    BY <1>1, <2>2 DEF LogsIn
  <2>7. OneLogin'
    BY <1>1, <2>6 DEF OneLogin
  <2>8. \A u \in Tabs : Inside(u)' => Inside(u)
    BY <1>1, <2>2, <2>6 DEF Inside
  <2>9. LostToAnother'
    BY <1>1, <2>8 DEF LostToAnother
  <2> QED BY <1>1, <2>3, <2>5, <2>7, <2>9
<1> QED BY <1>2, <1>3 DEF BR!Refused, BR!Unauthorized

LEMMA RefreshFailsKeeps ==
  ASSUME BrowserInv, NEW r \in Requests, BR!RefreshFails(r)
  PROVE  BrowserInv'
<1> USE DEF BrowserInv
<1> DEFINE t == request[r].tab
           cause == IF request[r].kind = "login" THEN "wrong password"
                    ELSE IF request[r].token # storage THEN "sent before the login"
                    ELSE IF storage \in expired THEN "expired" ELSE "refused though good"
<1>1. /\ request[r].at = "refreshing" /\ BR!Over(r) /\ BR!RemoveTokens(t, cause)
      /\ tab' = [tab EXCEPT ![t].leaving = TRUE] /\ logins' = logins /\ expired' = expired
  BY DEF BR!RefreshFails
<1>2. request[r].kind = "login" \/ request[r].token \in expired
  BY <1>1 DEF RefreshesWithReason
<1>3. cause # "refused though good"
  BY <1>2
<1> HIDE DEF cause
<1>4. t \in Tabs
  BY <1>1 DEF BrowserTypes
<1>5. /\ request' \in [Requests -> RequestRows] /\ request'[r].at = "idle"
      /\ \A q \in Requests : q # r => request'[q] = request[q]
  BY <1>1, OverTypes
<1>6. /\ tab' \in [Tabs -> TabRows] /\ tab'[t].leaving
      /\ tab'[t].isAuthenticated = tab[t].isAuthenticated
      /\ \A u \in Tabs : u # t => tab'[u] = tab[u]
  BY <1>1, <1>4 DEF BrowserTypes, TabRows
<1>7. BrowserTypes'
  BY <1>1, <1>5, <1>6 DEF BrowserTypes, BR!RemoveTokens
<1> QED BY <1>1, <1>3, <1>4, <1>5, <1>6, <1>7, RemoveTokensKeeps

\* The requests of a tab end with its page.
LEMMA LoadKeeps ==
  ASSUME BrowserInv, NEW t \in Tabs, BR!Load(t)
  PROVE  BrowserInv'
<1> USE DEF BrowserInv
<1>1. /\ tab' = [tab EXCEPT ![t] = BR!Loaded]
      /\ request' = [q \in Requests |-> IF request[q].tab = t THEN BR!Idle ELSE request[q]]
      /\ UNCHANGED <<storage, logins, expired, ended>>
  BY DEF BR!Load
<1>2. BR!Loaded \in TabRows /\ (storage = 0 => ~BR!Loaded.isAuthenticated)
  BY DEF BR!Loaded, TabRows
<1>3. /\ tab' \in [Tabs -> TabRows] /\ tab'[t] = BR!Loaded
      /\ \A u \in Tabs : u # t => tab'[u] = tab[u]
  BY <1>1, <1>2 DEF BrowserTypes
<1>4. request' \in [Requests -> RequestRows]
  BY <1>1, IdleIsRow DEF BrowserTypes
<1>5. \A q \in Requests : IF request[q].tab = t THEN request'[q].at = "idle"
                          ELSE request'[q] = request[q]
  BY <1>1, IdleIsRow
<1>6. BrowserTypes'
  BY <1>1, <1>3, <1>4, <1>5 DEF BrowserTypes
<1>7. \A q \in Requests, u \in Tabs : LogsIn(q, u)' => LogsIn(q, u) /\ u # t /\ request'[q] = request[q]
  BY <1>5 DEF LogsIn
<1>8. OneLogin'
  BY <1>3, <1>7 DEF OneLogin
<1>9. RefreshesWithReason'
  BY <1>1, <1>5 DEF RefreshesWithReason
<1>10. \A u \in Tabs : u # t => (Inside(u)' => Inside(u))
  BY <1>3, <1>7 DEF Inside
<1>11. storage = 0 => ~Inside(t)'
  BY <1>2, <1>3, <1>7 DEF Inside
<1>12. LostToAnother'
  BY <1>1, <1>3, <1>10, <1>11 DEF LostToAnother
<1> QED BY <1>1, <1>6, <1>8, <1>9, <1>12

LEMMA LogoutKeeps ==
  ASSUME BrowserInv, NEW t \in Tabs, BR!Logout(t)
  PROVE  BrowserInv'
<1> USE DEF BrowserInv
<1>1. /\ tab[t].isAuthenticated /\ BR!RemoveTokens(t, "logout")
      /\ tab' = [tab EXCEPT ![t].isAuthenticated = FALSE]
      /\ UNCHANGED <<request, logins, expired>>
  BY DEF BR!Logout
<1>2. /\ tab' \in [Tabs -> TabRows] /\ ~tab'[t].isAuthenticated
      /\ \A u \in Tabs : u # t => tab'[u] = tab[u]
  BY <1>1 DEF BrowserTypes, TabRows
<1>3. BrowserTypes'
  BY <1>1, <1>2 DEF BrowserTypes, BR!RemoveTokens
<1>4. \A q \in Requests : ~LogsIn(q, t)
  BY <1>1 DEF OneLogin
<1>5. ~Inside(t)'
  BY <1>1, <1>2, <1>4 DEF Inside, LogsIn
<1> QED BY <1>1, <1>2, <1>3, <1>5, RemoveTokensKeeps

\* The invariant is inductive.
LEMMA BrowserNext ==
  ASSUME BrowserInv, [BR!Next]_(BR!bvars)
  PROVE  BrowserInv'
<1>1. ASSUME NEW n, BR!Expire(n) PROVE BrowserInv'
  <2>1. BrowserTypes'
    BY <1>1 DEF BR!Expire, BrowserInv, BrowserTypes
  <2> QED BY <2>1, <1>1, OverKeeps DEF BR!Expire
<1>2. CASE UNCHANGED BR!bvars
  <2>1. BrowserTypes'
    BY <1>2 DEF BR!bvars, BrowserInv, BrowserTypes
  <2> QED BY <2>1, <1>2, OverKeeps DEF BR!bvars
<1> QED BY <1>1, <1>2, SendKeeps, SubmitKeeps, LoggedInKeeps, AnsweredKeeps, RefusedKeeps,
           RefreshFailsKeeps, LoadKeeps, LogoutKeeps
        DEF BR!Next

\* The tokens are removed for one of the known reasons only, and a tab that still
\* shows protected pages without tokens lost them to another tab, with any number
\* of tabs, requests and logins (lib/api.ts, the interceptor for 401).
THEOREM SessionCorrect == Spec => []SessionLostForAReason
<1>1. Init => BrowserInv
  BY BrowserInit DEF Init
<1>2. BrowserInv /\ [Next]_vars => BrowserInv'
  BY AccessSteps, BrowserNext
<1>3. BrowserInv => SessionLostForAReason
  BY DEF BrowserInv, LostToAnother, Inside, SessionLostForAReason, BR!SessionLostForAReason
<1> QED BY <1>1, <1>2, <1>3, PTL DEF Spec

-----------------------------------------------------------------------------
(* The types of the three components, with what their handlers count.      *)

\* The types of an approval's state, with the bound of the losses.
LEMMA ApprovalTypesNext ==
  ASSUME ApprovalInv, losses \in 0..MaxLost, [AP!Next]_(AP!pvars)
  PROVE  losses' \in 0..MaxLost
<1>1. losses' = losses \/ (losses < MaxLost /\ losses' = losses + 1)
  BY DEF AP!Next, AP!pvars, AP!CreateRule, AP!CreateApproval, AP!Cancel, AP!Decide, AP!ExecuteApprovedAction
<1>2. MaxLost \in Nat
  BY ServicesAssumption
<1> QED BY <1>1, <1>2

\* Approvals are of their types (approval-service).
LEMMA ApprovalTyped == Spec => [](focus = "approval" => AP!TypeOK)
<1> DEFINE Typed == ApprovalInv /\ losses \in 0..MaxLost
<1>1. Init => Typed
  <2>1. Init => losses = 0 /\ AP!Init
    BY DEF Init, AP!Init
  <2>2. MaxLost \in Nat
    BY ServicesAssumption
  <2> QED BY <2>1, <2>2, ApprovalInit
<1>2. Typed /\ [Next]_vars => Typed'
  BY AccessSteps, ApprovalNext, ApprovalTypesNext
<1>3. Typed => AP!TypeOK
  BY DEF AP!TypeOK, ApprovalInv, ApprovalTypes, ApprovalRows, Statuses
<1> QED BY <1>1, <1>2, <1>3, PTL DEF Spec

-----------------------------------------------------------------------------
\* Users have numbers, names and addresses of their own; whoever is told of is one.
UsersDiffer ==
    /\ \A u \in users : u.id \in 1..Cardinality(users)
    /\ \A u, v \in users : u.id = v.id \/ u.name = v.name \/ u.email = v.email => u = v
    /\ \A e \in told : e.id \in AC!Ids
    /\ \A r \in Registrations : register[r].at = "publish" => register[r].id \in AC!Ids
    /\ failures \in 0..MaxFailures

LEMMA FailuresNext ==
  ASSUME failures \in 0..MaxFailures, failures' = failures \/ AC!Failure
  PROVE  failures' \in 0..MaxFailures
<1>1. MaxFailures \in Nat
  BY ServicesAssumption
<1> QED BY <1>1 DEF AC!Failure

LEMMA UsersDifferNext ==
  ASSUME AccountInv, UsersDiffer, [AC!Next]_(AC!avars)
  PROVE  UsersDiffer'
<1>1. failures' \in 0..MaxFailures
  <2>1. failures' = failures \/ AC!Failure
    BY DEF AC!Next, AC!avars, AC!CheckUsername, AC!CheckEmail, AC!CountUsers, AC!Insert, AC!PublishCreated,
           AC!RegisterFails, AC!Login, AC!PublishLoggedIn
  <2> QED BY <2>1, FailuresNext DEF UsersDiffer
<1>2. ASSUME users' = users, \A e \in told' : e.id \in AC!Ids,
             \A r \in Registrations : register'[r].at = "publish" =>
                 register[r].at = "publish" /\ register'[r].id = register[r].id
      PROVE  UsersDiffer'
  BY <1>1, <1>2 DEF UsersDiffer, AC!Ids
<1>3. CASE UNCHANGED AC!avars
  BY <1>2, <1>3 DEF AC!avars, UsersDiffer
<1>4. ASSUME NEW r \in Registrations, \/ AC!CheckUsername(r) \/ AC!CheckEmail(r) \/ AC!CountUsers(r)
                                      \/ AC!PublishCreated(r) \/ AC!RegisterFails(r)
      PROVE  UsersDiffer'
  <2>1. users' = users
    BY <1>4 DEF AC!CheckUsername, AC!CheckEmail, AC!CountUsers, AC!PublishCreated, AC!RegisterFails
  <2>2. \A e \in told' : e.id \in AC!Ids
    BY <1>4 DEF AC!CheckUsername, AC!CheckEmail, AC!CountUsers, AC!PublishCreated, AC!RegisterFails, UsersDiffer
  <2>3. \A q \in Registrations : register'[q].at = "publish" =>
                 register[q].at = "publish" /\ register'[q].id = register[q].id
    BY <1>4 DEF AC!CheckUsername, AC!CheckEmail, AC!CountUsers, AC!PublishCreated, AC!RegisterFails,
                AC!Goes, AccountInv, AccountTypes, RegisterRows
  <2> QED BY <1>2, <2>1, <2>2, <2>3
<1>5. ASSUME NEW r \in Registrations, AC!Insert(r) PROVE UsersDiffer'
  <2>1. PICK new : new = [id |-> AC!Cardinality(users) + 1, name |-> register[r].name,
                          email |-> register[r].email, role |-> register[r].role]
    OBVIOUS
  <2>2. CASE \E u \in users : u.name = new.name \/ u.email = new.email
    <3>1. AC!Goes(r, "failed") /\ users' = users /\ told' = told
      BY <1>5, <2>1, <2>2 DEF AC!Insert
    <3>2. \A q \in Registrations : register'[q].at = "publish" =>
                 register[q].at = "publish" /\ register'[q].id = register[q].id
      BY <3>1 DEF AC!Goes, AccountInv, AccountTypes, RegisterRows
    <3> QED BY <1>2, <3>1, <3>2 DEF UsersDiffer
  <2>3. CASE ~\E u \in users : u.name = new.name \/ u.email = new.email
    <3>1. /\ users' = users \cup {new} /\ told' = told
          /\ register' = [register EXCEPT ![r].at = "publish", ![r].id = new.id]
      BY <1>5, <2>1, <2>3 DEF AC!Insert
    <3>2. PICK n \in Nat : n = Cardinality(users) /\ new.id = n + 1
      BY <2>1, SameCardinality, FS_CardinalityType DEF AccountInv, AccountTypes
    <3>3. new \notin users /\ \A u \in users : u.id \in 1..n
      BY <2>3, <3>2 DEF UsersDiffer
    <3>4. Cardinality(users') = n + 1
      BY <3>1, <3>2, <3>3, FS_AddElement DEF AccountInv, AccountTypes
    <3>5. \A u \in users' : u.id \in 1..(n + 1)
      <4>1. \A i \in 1..n : i \in 1..(n + 1) /\ i # n + 1
        OBVIOUS
      <4>2. n + 1 \in 1..(n + 1)
        OBVIOUS
      <4> QED BY <3>1, <3>2, <3>3, <4>1, <4>2
    <3>6. \A u \in users : u.id # n + 1
      <4>1. \A i \in 1..n : i # n + 1
        OBVIOUS
      <4> QED BY <3>3, <4>1
    <3>7. \A u, v \in users' : u.id = v.id \/ u.name = v.name \/ u.email = v.email => u = v
      BY <2>3, <3>1, <3>2, <3>6 DEF UsersDiffer
    <3>8. AC!Ids \subseteq AC!Ids' /\ new.id \in AC!Ids'
      BY <3>1 DEF AC!Ids
    <3>9. \A q \in Registrations : register'[q].at = "publish" => register'[q].id \in AC!Ids'
      <4>1. register'[r].id = new.id /\ \A q \in Registrations : q # r => register'[q] = register[q]
        BY <3>1 DEF AccountInv, AccountTypes, RegisterRows
      <4> QED BY <3>8, <4>1 DEF UsersDiffer
    <3> QED BY <1>1, <3>1, <3>4, <3>5, <3>7, <3>8, <3>9 DEF UsersDiffer
  <2> QED BY <2>2, <2>3
<1>6. ASSUME NEW l \in Logins, AC!Login(l) \/ AC!PublishLoggedIn(l) PROVE UsersDiffer'
  <2>1. users' = users /\ register' = register
    BY <1>6 DEF AC!Login, AC!PublishLoggedIn
  <2>2. \A e \in told' : e.id \in AC!Ids
    BY <1>6 DEF AC!Login, AC!PublishLoggedIn, UsersDiffer, AC!Ids
  <2> QED BY <1>2, <2>1, <2>2
<1> QED BY <1>3, <1>4, <1>5, <1>6 DEF AC!Next

\* Users, registrations and logins are of their types (auth-service).
LEMMA AccountsTyped == Spec => [](focus = "accounts" => AC!TypeOK)
<1> DEFINE Typed == AccountInv /\ UsersDiffer
<1>1. Init => Typed
  <2>1. Init => AC!Init
    BY DEF Init
  <2>2. AC!Init => UsersDiffer
    <3>1. MaxFailures \in Nat
      BY ServicesAssumption
    <3>2. AC!Init => users = {} /\ told = {} /\ failures = 0 /\ \A r \in Registrations : register[r].at = "new"
      BY DEF AC!Init
    <3> QED BY <3>1, <3>2 DEF UsersDiffer
  <2> QED BY <2>1, <2>2, AccountInit
<1>2. Typed /\ [Next]_vars => Typed'
  BY AccessSteps, AccountNext, UsersDifferNext
<1>3. Typed => AC!TypeOK
  BY SameCardinality DEF AC!TypeOK, UsersDiffer, AccountInv, AccountTypes, Rows, Roles
<1> QED BY <1>1, <1>2, <1>3, PTL DEF Spec

\* A token is one of a login that there was, and only those expire.
TokensOfLogins ==
    /\ logins \in 0..MaxLogins /\ storage \in 0..logins /\ expired \subseteq 1..logins
    /\ \A r \in Requests : request[r].token \in 0..logins /\ request[r].tab \in Tabs

LEMMA TokensNext ==
  ASSUME BrowserInv, TokensOfLogins, [BR!Next]_(BR!bvars)
  PROVE  TokensOfLogins'
<1>1. PICK n \in Nat, m \in Nat : n = logins /\ m = MaxLogins /\ n <= m /\ storage \in 0..n
  <2>1. MaxLogins \in Nat
    BY ServicesAssumption
  <2>2. logins \in Nat /\ logins <= MaxLogins
    BY <2>1 DEF TokensOfLogins
  <2> QED BY <2>1, <2>2 DEF TokensOfLogins
<1>2. ASSUME logins' = logins, expired' = expired, storage' = storage \/ storage' = 0,
             \A r \in Requests : \/ request'[r] = BR!Idle
                                 \/ request'[r].token = request[r].token /\ request'[r].tab = request[r].tab
                                 \/ request'[r].token = storage /\ request'[r].tab \in Tabs
      PROVE  TokensOfLogins'
  <2>1. 0 \in 0..n
    OBVIOUS
  <2>2. BR!Idle.token = 0 /\ BR!Idle.tab \in Tabs
    BY ServicesAssumption DEF BR!Idle
  <2>3. \A r \in Requests : request'[r].token \in 0..logins /\ request'[r].tab \in Tabs
    BY <1>1, <1>2, <2>1, <2>2 DEF TokensOfLogins
  <2> QED BY <1>1, <1>2, <2>1, <2>3 DEF TokensOfLogins
<1>3. CASE UNCHANGED BR!bvars
  BY <1>3 DEF BR!bvars, TokensOfLogins
<1>4. request \in [Requests -> RequestRows]
  BY DEF BrowserInv, BrowserTypes
<1>5. ASSUME NEW r \in Requests, BR!LoggedIn(r) PROVE TokensOfLogins'
  <2>1. /\ logins' = n + 1 /\ storage' = n + 1 /\ expired' = expired /\ n < m
        /\ request' = [request EXCEPT ![r].kind = "me", ![r].token = n + 1]
    BY <1>1, <1>5 DEF BR!LoggedIn
  <2>2. n + 1 \in 0..m /\ n + 1 \in 0..(n + 1) /\ (\A i \in 0..n : i \in 0..(n + 1)) /\ \A i \in 1..n : i \in 1..(n + 1)
    BY <2>1
  <2>3. \A q \in Requests : /\ request'[q].tab = request[q].tab
                            /\ request'[q].token = request[q].token \/ request'[q].token = n + 1
    BY <1>4, <2>1 DEF RequestRows
  <2>4. \A q \in Requests : request'[q].token \in 0..(n + 1) /\ request'[q].tab \in Tabs
    BY <1>1, <2>2, <2>3 DEF TokensOfLogins
  <2>5. expired' \subseteq 1..(n + 1)
    BY <1>1, <2>1, <2>2 DEF TokensOfLogins
  <2> QED BY <1>1, <2>1, <2>2, <2>4, <2>5 DEF TokensOfLogins
<1>6. ASSUME NEW r \in Requests, BR!Answered(r) \/ BR!Refused(r) \/ BR!RefreshFails(r) PROVE TokensOfLogins'
  <2>1. logins' = logins /\ expired' = expired /\ (storage' = storage \/ storage' = 0)
    BY <1>6 DEF BR!Answered, BR!Refused, BR!RefreshFails, BR!RemoveTokens
  <2>2. request' = [request EXCEPT ![r] = BR!Idle] \/ request' = [request EXCEPT ![r].at = "refreshing"]
    BY <1>6 DEF BR!Answered, BR!Refused, BR!RefreshFails, BR!Over
  <2>3. \A q \in Requests : \/ request'[q] = BR!Idle
                            \/ request'[q].token = request[q].token /\ request'[q].tab = request[q].tab
    BY <1>4, <2>2 DEF RequestRows
  <2> QED BY <1>2, <2>1, <2>3
<1>7. ASSUME NEW t \in Tabs, BR!Load(t) \/ BR!Logout(t) PROVE TokensOfLogins'
  <2>1. logins' = logins /\ expired' = expired /\ (storage' = storage \/ storage' = 0)
    BY <1>7 DEF BR!Load, BR!Logout, BR!RemoveTokens
  <2>2. request' = request \/ request' = [q \in Requests |-> IF request[q].tab = t THEN BR!Idle ELSE request[q]]
    BY <1>7 DEF BR!Load, BR!Logout
  <2>3. \A q \in Requests : request'[q] = BR!Idle \/ request'[q] = request[q]
    BY <2>2
  <2> QED BY <1>2, <2>1, <2>3
<1>8. ASSUME NEW t \in Tabs, NEW r \in Requests, BR!Send(r, t) \/ BR!Submit(r, t) PROVE TokensOfLogins'
  <2>1. logins' = logins /\ expired' = expired /\ storage' = storage
    BY <1>8 DEF BR!Send, BR!Submit
  <2>2. PICK kind : request' = [request EXCEPT ![r] = BR!Sent(t, kind)]
    BY <1>8 DEF BR!Send, BR!Submit
  <2>3. \A q \in Requests : \/ request'[q] = request[q]
                            \/ request'[q].token = storage /\ request'[q].tab \in Tabs
    BY <1>4, <2>2 DEF BR!Sent
  <2> QED BY <1>2, <2>1, <2>3
<1>9. ASSUME NEW i \in 1..MaxLogins, BR!Expire(i) PROVE TokensOfLogins'
  <2>1. /\ i \in 1..logins /\ expired' = expired \cup {i}
        /\ storage' = storage /\ logins' = logins /\ request' = request
    BY <1>9 DEF BR!Expire
  <2> QED BY <2>1 DEF TokensOfLogins
<1> QED BY <1>3, <1>5, <1>6, <1>7, <1>8, <1>9 DEF BR!Next

\* Tabs, tokens and requests are of their types (the frontend's session).
LEMMA BrowserTyped == Spec => [](focus = "browser" => BR!TypeOK)
<1> DEFINE Typed == BrowserInv /\ TokensOfLogins
<1>1. Init => Typed
  <2>1. Init => BR!Init
    BY DEF Init
  <2>2. BR!Init => TokensOfLogins
    <3> SUFFICES ASSUME BR!Init PROVE TokensOfLogins
      OBVIOUS
    <3>1. storage = 0 /\ logins = 0 /\ expired = {} /\ request = [r \in Requests |-> BR!Idle]
      BY DEF BR!Init
    <3>2. BR!Idle.token = 0 /\ BR!Idle.tab \in Tabs /\ MaxLogins \in Nat
      BY ServicesAssumption DEF BR!Idle
    <3>3. \A r \in Requests : request[r].token = 0 /\ request[r].tab \in Tabs
      BY <3>1, <3>2
    <3> QED BY <3>1, <3>2, <3>3 DEF TokensOfLogins
  <2> QED BY <2>1, <2>2, BrowserInit
<1>2. Typed /\ [Next]_vars => Typed'
  BY AccessSteps, BrowserNext, TokensNext
<1>3. Typed => BR!TypeOK
  <2> SUFFICES ASSUME Typed PROVE BR!TypeOK
    OBVIOUS
  <2>1. storage \in 0..logins /\ logins \in 0..MaxLogins /\ expired \subseteq 1..logins /\ tab \in [Tabs -> TabRows]
    BY DEF TokensOfLogins, BrowserInv, BrowserTypes
  <2>2. ASSUME NEW r \in Requests
        PROVE  request[r] \in [tab : Tabs, kind : {"login", "me", "call"},
                               at : {"idle", "sent", "refreshing"}, token : 0..logins]
    BY DEF TokensOfLogins, BrowserInv, BrowserTypes, RequestRows
  <2>3. request = [r \in Requests |-> request[r]]
    BY DEF BrowserInv, BrowserTypes
  <2> QED BY <2>1, <2>2, <2>3 DEF BR!TypeOK, TabRows
<1> QED BY <1>1, <1>2, <1>3, PTL DEF Spec
=============================================================================
