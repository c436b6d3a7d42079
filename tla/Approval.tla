------------------------------ MODULE Approval ------------------------------
(***************************************************************************)
(* approval-service: requests for an approval, the rules that say who may  *)
(* approve and how often, and the action an approved request sets off.     *)
(* The handlers are coroutines over a synchronous session: each runs       *)
(* without a pause up to its call of another service, and an action is     *)
(* what it does up to there.  Nothing ends a request at its expires_at.    *)
(***************************************************************************)
EXTENDS Integers, Sequences, FiniteSets

CONSTANTS
    Approvals,  \* ids of approval requests
    Users,      \* who asks and decides
    RoleOf,     \* RoleOf[u]: the role in the token of u
    Rules,      \* rules an admin may create: any count, and roles ({} for anyone)
    Actions,    \* what is asked for: "execute", or "other", which sets off nothing
    MaxLost     \* bound: calls of the execution service that fail

VARIABLES
    rules,      \* the active rules, all of one approval type
    approval,   \* approval[a]: the row; its status is "none" before it exists
    decided,    \* decided[a]: the decisions that were committed, in order (ghost)
    calling,    \* requests whose handler awaits the execution service
    executed,   \* executed[a]: executions asked for
    losses      \* calls that failed

pvars == <<rules, approval, decided, calling, executed, losses>>

NoApproval(action) ==
    [status |-> "none", requester |-> CHOOSE u \in Users : TRUE, action |-> action,
     required |-> 1, count |-> 0]

Init ==
    /\ rules = {}
    /\ approval \in [Approvals -> {NoApproval(action) : action \in Actions}]
    /\ decided = [a \in Approvals |-> <<>>]
    /\ calling = {} /\ executed = [a \in Approvals |-> 0] /\ losses = 0

\* POST /rules, for admins.  No route changes a rule or takes one away.
CreateRule(u, rule) ==
    /\ RoleOf[u] = "admin" /\ rule \notin rules
    /\ rules' = rules \cup {rule}
    /\ UNCHANGED <<approval, decided, calling, executed, losses>>

\* check_approval_required: admins need no approval.
ApprovalRequired(u) == RoleOf[u] # "admin" /\ rules # {}

\* POST: first() takes any of the rules, and its count stays with the request.
CreateApproval(a, u) ==
    /\ approval[a].status = "none" /\ ApprovalRequired(u)
    /\ \E rule \in rules :
           approval' = [approval EXCEPT ![a].status = "pending", ![a].requester = u,
                                        ![a].required = rule.count]
    /\ UNCHANGED <<rules, decided, calling, executed, losses>>

\* can_user_approve, by the rule that first() takes this time.
CanUserApprove(a, u, rule) ==
    approval[a].requester # u /\ (rule.roles = {} \/ RoleOf[u] \in rule.roles)

\* A mutant of MayDecide: without the check that the request is pending.
MayDecideTwice(a, u) == approval[a].status # "none" /\ \E r \in rules : CanUserApprove(a, u, r)

MayDecide(a, u) == approval[a].status = "pending" /\ \E r \in rules : CanUserApprove(a, u, r)

\* make_decision.
MakeDecision(a, approved) ==
    [approval[a] EXCEPT
        !.count = IF approved THEN @ + 1 ELSE @,
        !.status = IF ~approved THEN "rejected"
                   ELSE IF approval[a].count + 1 >= approval[a].required THEN "approved" ELSE @]

\* POST /decide, up to the call of the execution service.
Decide(a, u, approved) ==
    /\ MayDecide(a, u)
    /\ approval' = [approval EXCEPT ![a] = MakeDecision(a, approved)]
    /\ decided' = [decided EXCEPT ![a] = Append(@, [by |-> u, approved |-> approved])]
    /\ calling' = IF approval'[a].status = "approved" /\ approval[a].action = "execute"
                  THEN calling \cup {a} ELSE calling
    /\ UNCHANGED <<rules, executed, losses>>

\* POST /cancel, by the requester.
Cancel(a, u) ==
    /\ approval[a].status = "pending" /\ approval[a].requester = u
    /\ approval' = [approval EXCEPT ![a].status = "cancelled"]
    /\ UNCHANGED <<rules, decided, calling, executed, losses>>

\* execute_approved_action reaches the execution service, or it raises: the status
\* is committed, and nothing tries again.
ExecuteApprovedAction(a) ==
    /\ a \in calling /\ calling' = calling \ {a}
    /\ \/ executed' = [executed EXCEPT ![a] = @ + 1] /\ UNCHANGED losses
       \/ losses < MaxLost /\ losses' = losses + 1 /\ UNCHANGED executed
    /\ UNCHANGED <<rules, approval, decided>>

Next ==
    \/ \E u \in Users, rule \in Rules : CreateRule(u, rule)
    \/ \E a \in Approvals, u \in Users :
        CreateApproval(a, u) \/ Cancel(a, u) \/ \E yes \in BOOLEAN : Decide(a, u, yes)
    \/ \E a \in Approvals : ExecuteApprovedAction(a)

Spec == Init /\ [][Next]_pvars
-----------------------------------------------------------------------------

TypeOK ==
    /\ rules \subseteq Rules
    /\ \A a \in Approvals : approval[a].status \in
           {"none", "pending", "approved", "rejected", "cancelled"}
    /\ calling \subseteq Approvals /\ losses \in 0..MaxLost

\* An approved request is executed once, unless its call failed, and no other is:
\* it took as many approvals as its rule asked for, and one even where that is none
\* or a negative number, which nothing forbids; none was the requester's, and none
\* followed a rejection.  That they came from different people is not required.
ApprovedRunsOnce ==
    /\ \A a \in Approvals :
        LET done == approval[a].status IN
        /\ executed[a] + (IF a \in calling THEN 1 ELSE 0) <= 1
        /\ executed[a] > 0 \/ a \in calling => done = "approved"
        /\ done = "approved" =>
             /\ Len(decided[a]) = IF approval[a].required > 1 THEN approval[a].required ELSE 1
             /\ \A i \in DOMAIN decided[a] :
                    decided[a][i].approved /\ decided[a][i].by # approval[a].requester
    /\ Cardinality({a \in Approvals : approval[a].status = "approved" /\ approval[a].action = "execute"
                                      /\ a \notin calling /\ executed[a] = 0}) <= losses
=============================================================================
