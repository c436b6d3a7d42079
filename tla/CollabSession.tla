---------------------------- MODULE CollabSession ----------------------------
(***************************************************************************)
(* Who is in a collaboration session, and who is told what: the WebSocket  *)
(* endpoint of collaboration-service and CollaborationManager, for one     *)
(* script.                                                                 *)
(*                                                                         *)
(* Every open socket has a handler coroutine, and all of them run on one   *)
(* event loop, so an action is what a handler does from one await that can *)
(* suspend it to the next: accepting a socket, sending to one, receiving   *)
(* from its own.  Session objects have an identity of their own, because a *)
(* handler may hold one that `sessions` no longer contains.  The document  *)
(* is the subject of CollabDoc; here an operation is its revision.         *)
(***************************************************************************)
EXTENDS Naturals, Sequences, FiniteSets, FiniteSetsExt

CONSTANTS
    Handlers,   \* WebSocket connections, one handler coroutine each
    UserOf,     \* UserOf[h]: the user_id query parameter of h
    None,       \* no handler, no frame, no user
    Movers,     \* bound: the handlers whose clients send cursor updates
    MaxUsers,   \* MAX_USERS_PER_SESSION
    Spares,     \* how many more insertions a table made anew takes: CPython's 2 or more
    MaxOps      \* bound: operations per session object

Users == {UserOf[h] : h \in Handlers}

\* Calls of _broadcast_to_session: the object it iterates over, the user it skips,
\* the revision it announces (0 for anything but an operation), the place of its
\* iterator, the dict's size when it started, how many entries it has come to, and
\* the users it could not send to.
Frames == [o : Nat, excl : Users \cup {None}, msg : Nat, pos : Nat, size : Nat, seen : Nat,
           failed : Seq(Users)]

ASSUME SessionAssumption ==
    /\ MaxUsers \in Nat \ {0} /\ MaxOps \in Nat /\ Spares \subseteq Nat
    /\ None \notin Handlers /\ Movers \subseteq Handlers
    /\ None \notin Users /\ None \notin Frames

VARIABLES
    sess,      \* every CollaborationSession object made so far
    current,   \* the one in `sessions`, 0 if the script has none
    idle,      \* its last_activity is older than SESSION_TIMEOUT_SECONDS
    alive,     \* handlers whose client is still there
    pc,        \* pc[h]: where handler h is
    obj,       \* obj[h]: the session object join_session got for h
    frame,     \* frame[h]: the broadcast h is suspended in
    pending,   \* pending[h]: users h will still take out of the session
    base,      \* base[h]: revision of the session_state sent to h (ghost)
    got,       \* got[h]: revisions of the operations h knows of (ghost)
    upset      \* <<object, revision>> of the operations whose broadcast was interrupted,
               \* or had its table made anew under it (ghost)

vars == <<sess, current, idle, alive, pc, obj, frame, pending, base, got, upset>>

(* `connections` is a dict: a table of entries in insertion order, where a  *)
(* deleted entry leaves a hole.  The insertion of a key that finds no room  *)
(* moves the entries to a new table without the holes; an iterator that is  *)
(* under way goes on at the same place of it, and has passed whatever moved *)
(* before that place.  `cursors` always has the same keys.                  *)
Live(es) == {i \in DOMAIN es : es[i] # None}
EntryOf(es, u) == {i \in Live(es) : UserOf[es[i]] = u}

\* What a new table holds: the living entries in their order.
Packings(es) ==
    LET n == Cardinality(Live(es)) IN
    {[k \in 1..n |-> es[from[k]]] :
        from \in {f \in [1..n -> Live(es)] : \A k, l \in 1..n : k < l => f[k] < f[l]}}

\* The insertion for user u into connections of object o needs a new table.
Full(o, u) == EntryOf(sess[o].entries, u) = {} /\ sess[o].spare = 0

\* connections[user_id] = websocket in object o, which becomes one of these: an
\* entry that exists keeps its place, a new one comes last.
Put(o, h) ==
    LET es == sess[o].entries  own == EntryOf(es, UserOf[h]) IN
    IF own # {} THEN
        [entries : {[i \in DOMAIN es |-> IF i \in own THEN h ELSE es[i]]},
         spare : {sess[o].spare}, log : {sess[o].log}]
    ELSE IF ~Full(o, UserOf[h]) THEN
        [entries : {Append(es, h)}, spare : {sess[o].spare - 1}, log : {sess[o].log}]
    ELSE
        [entries : {Append(moved, h) : moved \in Packings(es)}, spare : Spares, log : {sess[o].log}]

\* connections.pop(user_id, None): whichever socket the user is registered with.
Pop(es, u) == [i \in DOMAIN es |-> IF i \in EntryOf(es, u) THEN None ELSE es[i]]

Registered == IF current = 0 THEN {} ELSE
    {sess[current].entries[i] : i \in Live(sess[current].entries)}

\* A call that has not sent anything yet.
NewFrame(o, excl, msg, es) ==
    [o |-> o, excl |-> excl, msg |-> msg, pos |-> 0,
     size |-> Cardinality(Live(es)), seen |-> 0, failed |-> <<>>]

\* Mutant of Recipients: meeting the excluded user ends the loop.
RecipientsBreak(es, f) ==
    {i \in Live(es) : i > f.pos /\ \A j \in Live(es) : j <= i => UserOf[es[j]] # f.excl}

\* What is left of the iteration of broadcast f over the entries es.
Recipients(es, f) == {i \in Live(es) : i > f.pos /\ UserOf[es[i]] # f.excl}

\* The entries it comes to in its next turn: up to a recipient, or to the end.
Turn(es, f) == {i \in Live(es) : i > f.pos /\ \A j \in Recipients(es, f) : i <= j}

TypeOK ==
    /\ \A o \in DOMAIN sess :
        /\ sess[o].entries \in Seq(Handlers \cup {None})
        /\ sess[o].log \in Seq(Handlers) /\ Len(sess[o].log) <= MaxOps /\ sess[o].spare \in Nat
        /\ \A u \in Users : Cardinality(EntryOf(sess[o].entries, u)) <= 1
    /\ current \in 0..Len(sess)
    /\ idle \in BOOLEAN /\ upset \subseteq (DOMAIN sess) \X (1..MaxOps)
    /\ alive \subseteq Handlers
    /\ pc \in [Handlers -> {"new", "accepting", "joining", "serving", "leaving", "done"}]
    /\ obj \in [Handlers -> 0..Len(sess)]
    /\ \A h \in Handlers :
        frame[h] # None =>
            /\ frame[h] \in Frames /\ frame[h].o \in DOMAIN sess
            /\ pc[h] \in {"joining", "serving", "leaving"}
    /\ pending \in [Handlers -> Seq(Users)]
    /\ base \in [Handlers -> 0..MaxOps]
    /\ got \in [Handlers -> SUBSET (0..MaxOps)]

Init ==
    /\ sess = <<>> /\ current = 0 /\ idle = FALSE
    /\ alive = Handlers
    /\ pc = [h \in Handlers |-> "new"]
    /\ obj = [h \in Handlers |-> 0]
    /\ frame = [h \in Handlers |-> None]
    /\ pending = [h \in Handlers |-> <<>>]
    /\ base = [h \in Handlers |-> 0]
    /\ got = [h \in Handlers |-> {}]
    /\ upset = {}

-----------------------------------------------------------------------------
(* What a handler does between two awaits.                                  *)

\* _broadcast_to_session sends to the next recipient of f and waits.  A send to
\* a client that is gone raises, unless the loss has not been noticed yet.
Send(h, f, rest) ==
    LET es   == sess'[f.o].entries
        i    == Min(Recipients(es, f))
        next == [f EXCEPT !.pos = i, !.seen = @ + Cardinality(Turn(es, f))]
    IN
    /\ pending' = [pending EXCEPT ![h] = rest]
    /\ \/ /\ got' = [got EXCEPT ![es[i]] = @ \cup ({f.msg} \ {0})]
          /\ frame' = [frame EXCEPT ![h] = next]
       \/ /\ es[i] \notin alive
          /\ frame' = [frame EXCEPT ![h] = [next EXCEPT !.failed = Append(@, UserOf[es[i]])]]
          /\ UNCHANGED got

\* The broadcast and the evictions it led to are over.  join_session then sends
\* session_state; the endpoint's finally clause ends the handler.
Return(h, at) ==
    /\ frame' = [frame EXCEPT ![h] = None]
    /\ pending' = [pending EXCEPT ![h] = <<>>]
    /\ IF at = "leaving"
       THEN /\ pc' = [pc EXCEPT ![h] = "done"]
            /\ base' = [base EXCEPT ![h] = 0]
            /\ got' = [got EXCEPT ![h] = {}]
       ELSE /\ pc' = [pc EXCEPT ![h] = "serving"]
            /\ base' = IF at = "joining" THEN [base EXCEPT ![h] = Len(sess'[obj[h]].log)] ELSE base
            /\ UNCHANGED got

\* From now on the broadcasts of these handlers may leave somebody out.
Upset(gs) ==
    upset' = upset \cup {<<frame[g].o, frame[g].msg>> : g \in {g \in gs : frame[g].msg # 0}}

\* Mutant of LeaveSession: the user is not taken out of the session.
LeaveSessionKeep(h, u, rest, at) ==
    IF current = 0
    THEN UNCHANGED sess /\ Return(h, at)
    ELSE LET es == sess[current].entries IN
         /\ UNCHANGED sess
         /\ IF Live(Pop(es, u)) = {}
            THEN Return(h, at)
            ELSE /\ Send(h, NewFrame(current, u, 0, es), rest)
                 /\ pc' = [pc EXCEPT ![h] = at]
                 /\ UNCHANGED base

\* leave_session(script_id, u), called by handler h with the users `rest` still
\* to be evicted after it: nothing if the script has no session; otherwise u is
\* popped and the others are told.
LeaveSession(h, u, rest, at) ==
    IF current = 0
    THEN UNCHANGED sess /\ Return(h, at)
    ELSE LET es == Pop(sess[current].entries, u) IN
         /\ sess' = [sess EXCEPT ![current].entries = es]
         /\ IF Live(es) = {}
            THEN Return(h, at)
            ELSE /\ Send(h, NewFrame(current, u, 0, es), rest)
                 /\ pc' = [pc EXCEPT ![h] = at]
                 /\ UNCHANGED base

\* The endpoint's try block ends, by any exception: finally leave_session.
Leave(h) == LeaveSession(h, UserOf[h], <<>>, "leaving")
-----------------------------------------------------------------------------

\* get_or_create_session and the capacity check of join_session.  A full
\* session raises, and the finally clause runs although h never joined.
Connect(h) ==
    /\ pc[h] = "new" /\ h \in alive
    /\ IF current = 0
       THEN /\ sess' = Append(sess, [entries |-> <<>>, spare |-> 0, log |-> <<>>])
            /\ current' = Len(sess')
            /\ idle' = FALSE
            /\ pc' = [pc EXCEPT ![h] = "accepting"]
            /\ obj' = [obj EXCEPT ![h] = current']
            /\ UNCHANGED <<frame, pending, base, got>>
       ELSE /\ UNCHANGED <<current, idle>>
            /\ IF Cardinality(Live(sess[current].entries)) >= MaxUsers
               THEN Leave(h) /\ UNCHANGED obj
               ELSE /\ pc' = [pc EXCEPT ![h] = "accepting"]
                    /\ obj' = [obj EXCEPT ![h] = current]
                    /\ UNCHANGED <<sess, frame, pending, base, got>>
    /\ UNCHANGED <<alive, upset>>

\* accept() returned: h is registered in the object it holds and everybody in
\* it, h included, is told.
Register(h) ==
    /\ pc[h] = "accepting"
    /\ \E row \in Put(obj[h], h) :
        /\ sess' = [sess EXCEPT ![obj[h]] = row]
        /\ Send(h, NewFrame(obj[h], None, 0, row.entries), <<>>)
    /\ Upset({g \in Handlers : Full(obj[h], UserOf[h]) /\ frame[g] # None /\ frame[g].o = obj[h]})
    /\ pc' = [pc EXCEPT ![h] = "joining"]
    /\ UNCHANGED <<current, idle, alive, obj, base>>

\* accept() raises because the client went away.
AcceptFails(h) ==
    /\ pc[h] = "accepting" /\ h \notin alive
    /\ Leave(h)
    /\ UNCHANGED <<current, idle, alive, obj, upset>>

\* The client of h closes its socket or vanishes while it is being served.
Disconnect(h) ==
    /\ h \in alive /\ pc[h] \in {"accepting", "joining", "serving"}
    /\ alive' = alive \ {h}
    /\ UNCHANGED <<sess, current, idle, pc, obj, frame, pending, base, got, upset>>

\* Mutant of Notice: only a user who is still registered leaves.
NoticeRegistered(h) ==
    /\ pc[h] = "serving" /\ frame[h] = None /\ h \notin alive
    /\ h \in Registered
    /\ Leave(h)
    /\ UNCHANGED <<current, idle, alive, obj, upset>>

\* Receiving from, or pinging, a client that is gone raises.
Notice(h) ==
    /\ pc[h] = "serving" /\ frame[h] = None /\ h \notin alive
    /\ Leave(h)
    /\ UNCHANGED <<current, idle, alive, obj, upset>>

\* Start telling everybody but h; without a recipient nothing is awaited.
Broadcast(h, es, msg) ==
    LET f == NewFrame(current, UserOf[h], msg, es) IN
    IF Recipients(es, f) = {} THEN UNCHANGED <<frame, pending, got>> ELSE Send(h, f, <<>>)

\* handle_operation: applied to the session the script has now, then broadcast.
\* Without a session it raises.
HandleOperation(h) ==
    /\ pc[h] = "serving" /\ frame[h] = None /\ h \in alive
    /\ IF current = 0
       THEN Leave(h) /\ UNCHANGED idle
       ELSE /\ Len(sess[current].log) < MaxOps
            /\ sess' = [sess EXCEPT ![current].log = Append(@, h)]
            /\ idle' = FALSE
            /\ Broadcast(h, sess[current].entries, Len(sess'[current].log))
            /\ UNCHANGED <<pc, base>>
    /\ UNCHANGED <<current, alive, obj, upset>>

\* update_cursor: the same without a revision, and only for a registered user.
UpdateCursor(h) ==
    /\ h \in Movers
    /\ pc[h] = "serving" /\ frame[h] = None /\ h \in alive
    /\ current # 0
    /\ EntryOf(sess[current].entries, UserOf[h]) # {}
    /\ UNCHANGED sess
    /\ Broadcast(h, sess[current].entries, 0)
    /\ UNCHANGED <<current, idle, alive, pc, obj, base, upset>>

\* The handler resumes in the loop over connections.items() of its broadcast and finds
\* another number of entries, or comes to more of them than there are.
Interrupted(f) ==
    LET es == sess[f.o].entries IN
    Cardinality(Live(es)) # f.size \/ f.seen + Cardinality(Turn(es, f)) > f.size

SendNext(h) ==
    /\ frame[h] # None /\ ~Interrupted(frame[h])
    /\ Recipients(sess[frame[h].o].entries, frame[h]) # {}
    /\ UNCHANGED sess
    /\ Send(h, frame[h], pending[h])
    /\ UNCHANGED <<current, idle, alive, pc, obj, base, upset>>

\* "dictionary changed size during iteration", or "keys changed": the RuntimeError ends
\* whatever the handler was doing, and an endpoint that was not leaving yet leaves.
AbortBroadcast(h) ==
    /\ frame[h] # None /\ Interrupted(frame[h])
    /\ Upset({h})
    /\ IF pc[h] = "leaving"
       THEN UNCHANGED sess /\ Return(h, "leaving")
       ELSE Leave(h)
    /\ UNCHANGED <<current, idle, alive, obj>>

\* The loop is over: leave_session for every user it could not send to.
EndBroadcast(h) ==
    /\ frame[h] # None /\ ~Interrupted(frame[h])
    /\ Recipients(sess[frame[h].o].entries, frame[h]) = {}
    /\ LET todo == frame[h].failed \o pending[h] IN
        IF todo = <<>> THEN UNCHANGED sess /\ Return(h, pc[h])
        ELSE LeaveSession(h, Head(todo), Tail(todo), pc[h])
    /\ UNCHANGED <<current, idle, alive, obj, upset>>

\* SESSION_TIMEOUT_SECONDS have passed since the last operation, connected or not;
\* it can only matter from the moment nobody is registered.
Age ==
    /\ current # 0 /\ ~idle /\ Registered = {}
    /\ idle' = TRUE
    /\ UNCHANGED <<sess, current, alive, pc, obj, frame, pending, base, got, upset>>

\* _cleanup_inactive_sessions deletes an old session nobody is connected to.
Cleanup ==
    /\ current # 0 /\ idle
    /\ Registered = {}
    /\ current' = 0
    /\ UNCHANGED <<sess, idle, alive, pc, obj, frame, pending, base, got, upset>>

\* What the event loop does with a handler that waits for nothing but its turn.
Resume(h) ==
    \/ Register(h) \/ AcceptFails(h) \/ Notice(h)
    \/ SendNext(h) \/ AbortBroadcast(h) \/ EndBroadcast(h)

Next ==
    \/ \E h \in Handlers :
        Connect(h) \/ Disconnect(h) \/ HandleOperation(h) \/ UpdateCursor(h) \/ Resume(h)
    \/ Age \/ Cleanup

\* The event loop runs every handler that can run: an accept and a send always
\* end, because the server pings every socket and closes the silent ones.
Fairness == \A h \in Handlers : WF_vars(Resume(h))

Spec == Init /\ [][Next]_vars
FairSpec == Spec /\ Fairness
-----------------------------------------------------------------------------
(* Correctness.                                                            *)

\* A handler that has ended is in nobody's session any more: no order of
\* joins, reconnects, failed sends and interrupted broadcasts leaves a dead
\* socket behind (join_session, leave_session and the endpoint's finally).
NoGhost == \A h \in Handlers : pc[h] = "done" => h \notin Registered

\* The operations of others applied since h got its session_state that h has
\* not been sent and nobody is sending any more.
Missing(h) ==
    LET log == sess[obj[h]].log IN
    {r \in (base[h] + 1)..Len(log) :
        /\ UserOf[log[r]] # UserOf[h]
        /\ r \notin got[h]
        /\ \A g \in Handlers : frame[g] # None /\ frame[g].o = obj[h] => frame[g].msg # r}

\* A client that is registered misses an operation only if the broadcast of that very
\* operation was interrupted, or the dict it iterates over got a new table: joining
\* and leaving while operations are broadcast, failed sends to others and the evictions
\* they cause lose nothing (join_session, handle_operation and _broadcast_to_session).
StayedInformed ==
    \A h \in Registered \cap alive : pc[h] = "serving" =>
        \A r \in Missing(h) : <<obj[h], r>> \in upset

\* Whoever loses the connection is out of the session in the end, however many
\* evictions and interrupted broadcasts come first (the endpoint's finally).
DisconnectedLeaves ==
    \A h \in Handlers : (pc[h] # "new" /\ h \notin alive) ~> pc[h] = "done"

\* "Broadcast message to all session participants.": a client that is being
\* served is sent every operation that follows its session_state.
AllInformed == \A h \in alive : pc[h] = "serving" => Missing(h) = {}
=============================================================================
