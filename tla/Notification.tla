---------------------------- MODULE Notification ----------------------------
(***************************************************************************)
(* One process of notification-service: the ConnectionManager, the         *)
(* websocket endpoints that register with it, and the task listen_redis    *)
(* that broadcasts what it hears on Redis.  All run on one event loop, so  *)
(* an action is what a coroutine does between two awaits.                  *)
(*                                                                         *)
(* broadcast iterates over the live set of a channel and awaits a send in  *)
(* every turn.  Python's set iterator raises RuntimeError when the number  *)
(* of members differs from what it was at the start; members added while   *)
(* the number is the same again may be visited or not.  The set is a hash  *)
(* table of which a member that left goes on using a slot: the addition    *)
(* that finds it full moves everybody to a table made anew, in which the   *)
(* iterator goes on at the number of the slot it had come to.  It may then *)
(* skip members that stayed, or come to them again.                        *)
(***************************************************************************)
EXTENDS Integers, Sequences, SequencesExt, FiniteSets

CONSTANTS
    Sockets,      \* websocket connections
    Channels,     \* the channels listen_redis subscribes to
    Payloads,     \* what is published: "json", or "other", which json.loads refuses
    MaxMessages,  \* bound: messages published
    Spares        \* how many more additions a table made anew takes: CPython's 3 or more

VARIABLES
    endpoint,  \* endpoint[s]: its channel and the place of websocket_endpoint
    gone,      \* connections whose client has left
    connections,  \* active_connections; an empty set stands for a missing key
    queue,     \* what Redis has delivered and listen_redis has not taken
    taken,     \* what listen_redis has taken, in order (ghost)
    listener,  \* listen_redis: its place and the broadcast it is in
    spare,     \* spare[c]: additions the table of connections[c] still takes as it is
    shuffled,  \* numbers of the messages in whose broadcast the set got a new table (ghost)
    heard,     \* heard[s]: numbers of the messages sent to s
    since      \* since[s]: how many messages had been taken when s registered (ghost)

nvars == <<endpoint, gone, connections, queue, taken, listener, spare, shuffled, heard, since>>

\* A broadcast: its channel, the members when it began, those visited, the one
\* being sent to, and whether the set was dropped from the dict.
Resting == [at |-> "listening", channel |-> CHOOSE c \in Channels : TRUE,
            start |-> {}, visited |-> {}, to |-> {}, dropped |-> FALSE]

Init ==
    /\ endpoint \in [Sockets -> [at : {"new"}, channel : Channels]]
    /\ gone = {}
    /\ connections = [c \in Channels |-> {}]
    /\ queue = <<>> /\ taken = <<>>
    /\ listener = Resting
    /\ spare = [c \in Channels |-> 0] /\ shuffled = {}
    /\ heard = [s \in Sockets |-> <<>>]
    /\ since = [s \in Sockets |-> 0]

ChannelOf(s) == endpoint[s].channel
Go(s, place) == endpoint' = [endpoint EXCEPT ![s].at = place]
-----------------------------------------------------------------------------

\* A client connects; the endpoint awaits accept().
Accept(s) ==
    /\ endpoint[s].at = "new" /\ Go(s, "accepting")
    /\ UNCHANGED <<gone, connections, queue, taken, listener, spare, shuffled, heard, since>>

\* What an addition to the set of c does to its table.  A broadcast that is in the
\* set when the table is made anew has any of the members still before it.
Room(c) ==
    LET fresh == connections[c] = {} \/ spare[c] = 0
        moved == fresh /\ listener.at = "sending" /\ listener.channel = c /\ ~listener.dropped
    IN
    /\ IF fresh THEN \E n \in Spares : spare' = [spare EXCEPT ![c] = n]
       ELSE spare' = [spare EXCEPT ![c] = @ - 1]
    /\ IF moved THEN \E passed \in SUBSET connections'[c] : listener' = [listener EXCEPT !.visited = passed]
       ELSE UNCHANGED listener
    /\ shuffled' = IF moved THEN shuffled \cup {Len(taken)} ELSE shuffled

\* The rest of ConnectionManager.connect.
Connect(s) ==
    /\ endpoint[s].at = "accepting" /\ Go(s, "receiving")
    /\ connections' = [connections EXCEPT ![ChannelOf(s)] = @ \cup {s}]
    /\ since' = [since EXCEPT ![s] = Len(taken)]
    /\ Room(ChannelOf(s))
    /\ UNCHANGED <<gone, queue, taken, heard>>

\* The client leaves: from now on sends to it raise.
Leave(s) ==
    /\ endpoint[s].at \in {"accepting", "receiving"} /\ s \notin gone
    /\ gone' = gone \cup {s}
    /\ UNCHANGED <<endpoint, connections, queue, taken, listener, spare, shuffled, heard, since>>

\* ConnectionManager.disconnect: the last member takes the set with it.
Disconnect(s) ==
    LET c == ChannelOf(s) IN
    /\ endpoint[s].at = "receiving" /\ s \in gone /\ Go(s, "closed")
    /\ connections' = [connections EXCEPT ![c] = @ \ {s}]
    /\ listener' = [listener EXCEPT
           !.dropped = @ \/ (listener.at = "sending" /\ listener.channel = c /\ connections'[c] = {})]
    /\ UNCHANGED <<gone, queue, taken, spare, shuffled, heard, since>>

\* Some service publishes on a channel of Redis.
Publish(c, payload) ==
    /\ Len(taken) + Len(queue) < MaxMessages
    /\ queue' = Append(queue, [channel |-> c, payload |-> payload])
    /\ UNCHANGED <<endpoint, gone, connections, taken, listener, spare, shuffled, heard, since>>
-----------------------------------------------------------------------------

\* The set iterator finds another number of members than it started with.
Changed(l) == l.dropped \/ Cardinality(connections[l.channel]) # Cardinality(l.start)

\* The iterator's next member, which is then awaited; the loop ends when every
\* member there from the start has been visited.
NextMember(l) ==
    \/ /\ Changed(l) /\ listener' = [Resting EXCEPT !.at = "dead"]
    \/ /\ ~Changed(l)
       /\ \E s \in connections[l.channel] \ l.visited :
              listener' = [l EXCEPT !.to = {s}, !.visited = @ \cup {s}]
    \/ /\ ~Changed(l)
       /\ (connections[l.channel] \cap l.start) \subseteq l.visited
       /\ listener' = Resting

\* listen_redis takes a message and broadcasts it on its channel.
Take ==
    LET c == Head(queue).channel IN
    /\ listener.at = "listening" /\ queue # <<>>
    /\ queue' = Tail(queue) /\ taken' = Append(taken, Head(queue))
    /\ IF Head(queue).payload = "other" THEN listener' = [Resting EXCEPT !.at = "dead"]
       ELSE IF connections[c] = {} THEN listener' = Resting
       ELSE \E s \in connections[c] :
                listener' = [at |-> "sending", channel |-> c, start |-> connections[c],
                             visited |-> {s}, to |-> {s}, dropped |-> FALSE]
    /\ UNCHANGED <<endpoint, gone, connections, spare, shuffled, heard, since>>

ContinueUnlessFailed(l, failed) == IF failed THEN listener' = Resting ELSE NextMember(l)

\* After a send, also one that raised: the error is logged and the loop goes on.
Continue(l, failed) == NextMember(l)

\* The awaited send_json returns, or raises because the client has left.
Sent ==
    /\ listener.at = "sending"
    /\ \E s \in listener.to :
           /\ heard' = IF s \in gone THEN heard ELSE [heard EXCEPT ![s] = Append(@, Len(taken))]
           /\ Continue(listener, s \in gone)
    /\ UNCHANGED <<endpoint, gone, connections, queue, taken, spare, shuffled, since>>

Next ==
    \/ \E s \in Sockets : Accept(s) \/ Connect(s) \/ Leave(s) \/ Disconnect(s)
    \/ \E c \in Channels, p \in Payloads : Publish(c, p)
    \/ Take \/ Sent

Spec == Init /\ [][Next]_nvars /\ WF_nvars(Take) /\ WF_nvars(Sent)
-----------------------------------------------------------------------------

TypeOK ==
    /\ endpoint \in [Sockets -> [at : {"new", "accepting", "receiving", "closed"},
                                 channel : Channels]]
    /\ gone \subseteq Sockets
    /\ connections \in [Channels -> SUBSET Sockets]
    /\ \A s \in Sockets : s \in connections[ChannelOf(s)] <=> endpoint[s].at = "receiving"
    /\ listener.at \in {"listening", "sending", "dead"}
    /\ spare \in [Channels -> Nat]
    /\ shuffled \subseteq 1..Len(taken)

\* A connection hears every message its channel gets while it is registered, in
\* order and once: however the others come, fail and go during the sends, while
\* listen_redis lives, a message is skipped or repeated only if the set got a new
\* table in the middle of that very broadcast.  The broadcast a connection
\* registered in may or may not reach it.
HeardAllSince ==
    \A s \in Sockets :
        LET due(from) == {i \in 1..Len(taken) : i > from /\ taken[i].channel = ChannelOf(s)}
        IN  listener.at = "listening" /\ endpoint[s].at = "receiving" /\ s \notin gone =>
                /\ due(since[s]) \ shuffled \subseteq ToSet(heard[s])
                /\ ToSet(heard[s]) \subseteq due(since[s] - 1)
                /\ \A i, j \in DOMAIN heard[s] : i < j =>
                       \/ heard[s][i] < heard[s][j]
                       \/ heard[s][i] = heard[s][j] /\ heard[s][i] \in shuffled

\* listen_redis is to "Listen to Redis pub/sub and broadcast to WebSocket
\* clients" (main.py:43): it takes whatever Redis delivers.
KeepsListening == (queue # <<>>) ~> (queue = <<>>)
=============================================================================
