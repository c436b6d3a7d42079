---------------------------- MODULE Broadcasting ----------------------------
(***************************************************************************)
(* OptimizedConnectionManager of the shared library: broadcast puts a      *)
(* message into a bounded queue, one worker takes them out in batches and  *)
(* sends each batch channel by channel, to whoever is registered then.     *)
(* All coroutines run on one event loop; an action is what one of them     *)
(* does between two awaits that can suspend it.                            *)
(***************************************************************************)
EXTENDS Integers, Sequences, SequencesExt, FiniteSets

CONSTANTS
    Sockets,     \* websocket connections
    Channels,
    QueueMax,    \* size of the queue (10000)
    BatchMax,    \* size of a batch (100)
    MaxMessages  \* bound: calls of broadcast

VARIABLES
    endpoint,    \* endpoint[s]: its channel and where its handler is
    registered,  \* active_connections
    queue,       \* _broadcast_queue, numbers of messages
    published,   \* every call of broadcast: channel, whether it was queued, and the
                 \* sockets registered then that have not disconnected since (ghost)
    worker,      \* _broadcast_worker: its place, batch, and the channels still to do
    sends,       \* the sends that gather waits for
    tried        \* the sends that have ended, well or not (ghost)

bvars == <<endpoint, registered, queue, published, worker, sends, tried>>

Init ==
    /\ endpoint \in [Sockets -> [at : {"new"}, channel : Channels]]
    /\ registered = [c \in Channels |-> {}]
    /\ queue = <<>> /\ published = <<>>
    /\ worker = [at |-> "off", batch |-> <<>>, left |-> <<>>]
    /\ sends = {} /\ tried = {}

Place(s, at) == endpoint' = [endpoint EXCEPT ![s].at = at]
ChannelOf(m) == published[m].channel
-----------------------------------------------------------------------------

\* connect: accept() may suspend, then the socket is registered.
Accept(s) ==
    /\ endpoint[s].at = "new" /\ Place(s, "accepting")
    /\ UNCHANGED <<registered, queue, published, worker, sends, tried>>

Connect(s) ==
    /\ endpoint[s].at = "accepting" /\ Place(s, "in")
    /\ registered' = [registered EXCEPT ![endpoint[s].channel] = @ \cup {s}]
    /\ UNCHANGED <<queue, published, worker, sends, tried>>

Disconnect(s) ==
    /\ endpoint[s].at = "in" /\ Place(s, "out")
    /\ registered' = [registered EXCEPT ![endpoint[s].channel] = @ \ {s}]
    /\ published' = [m \in DOMAIN published |-> [published[m] EXCEPT !.owed = @ \ {s}]]
    /\ UNCHANGED <<queue, worker, sends, tried>>

\* broadcast: put_nowait, or a warning when the queue is full.  The caller of a
\* queued message gets a TypeError, because the None of put_nowait is awaited.
Broadcast(c) ==
    LET room == Len(queue) < QueueMax IN
    /\ Len(published) < MaxMessages
    /\ published' = Append(published, [channel |-> c, queued |-> room, owed |-> registered[c]])
    /\ queue' = IF room THEN Append(queue, Len(published) + 1) ELSE queue
    /\ UNCHANGED <<endpoint, registered, worker, sends, tried>>

\* start creates the worker's task and awaits it, so that it does not return, and
\* _broadcast_task stays None; stop finds nothing there to cancel and changes nothing.
Start ==
    /\ worker.at = "off"
    /\ worker' = [worker EXCEPT !.at = "collecting"]
    /\ UNCHANGED <<endpoint, registered, queue, published, sends, tried>>

\* The worker gets a message for its batch.
Take ==
    /\ worker.at = "collecting" /\ Len(worker.batch) < BatchMax /\ queue # <<>>
    /\ worker' = [worker EXCEPT !.batch = Append(@, Head(queue))]
    /\ queue' = Tail(queue)
    /\ UNCHANGED <<endpoint, registered, published, sends, tried>>

\* gather of the sends of the next channel that has sockets, or back to the queue.
Proceed(batch, channels) ==
    LET live == {i \in DOMAIN channels : registered[channels[i]] # {}}
        i == CHOOSE i \in live : \A j \in live : i <= j
    IN
    IF live = {}
    THEN sends' = {} /\ worker' = [at |-> "collecting", batch |-> <<>>, left |-> <<>>]
    ELSE /\ sends' = registered[channels[i]] \X {m \in ToSet(batch) : ChannelOf(m) = channels[i]}
         /\ worker' = [at |-> "sending", batch |-> batch,
                       left |-> SubSeq(channels, i + 1, Len(channels))]

\* The channels of a batch, in the order of their first messages.
Grouped(batch) ==
    LET first(c) == CHOOSE i \in DOMAIN batch :
                        ChannelOf(batch[i]) = c /\ \A j \in 1..(i - 1) : ChannelOf(batch[j]) # c
    IN  SetToSortSeq({ChannelOf(m) : m \in ToSet(batch)}, LAMBDA c, d : first(c) < first(d))

\* The batch is full, or nothing came for 0.1 s.
Complete == worker.batch # <<>> /\ (Len(worker.batch) = BatchMax \/ queue = <<>>)

\* Mutant of SendBatch: a timeout starts over with an empty list.
SendBatchFull ==
    /\ worker.at = "collecting" /\ Complete
    /\ IF Len(worker.batch) = BatchMax THEN Proceed(worker.batch, Grouped(worker.batch))
                                       ELSE worker' = [worker EXCEPT !.batch = <<>>] /\ UNCHANGED sends
    /\ UNCHANGED <<endpoint, registered, queue, published, tried>>

SendBatch ==
    /\ worker.at = "collecting" /\ Complete
    /\ Proceed(worker.batch, Grouped(worker.batch))
    /\ UNCHANGED <<endpoint, registered, queue, published, tried>>

\* A send has gone through or has raised, which _safe_send logs.
SendEnds(s, m) ==
    /\ <<s, m>> \in sends
    /\ sends' = sends \ {<<s, m>>} /\ tried' = tried \cup {<<s, m>>}
    /\ UNCHANGED <<endpoint, registered, queue, published, worker>>

\* gather returns.
NextChannel ==
    /\ worker.at = "sending" /\ sends = {}
    /\ Proceed(worker.batch, worker.left)
    /\ UNCHANGED <<endpoint, registered, queue, published, tried>>

\* The task that awaits start is cancelled, and the worker and its sends with it.
Cancel ==
    /\ worker.at \in {"collecting", "sending"}
    /\ worker' = [worker EXCEPT !.at = "ended"] /\ sends' = {}
    /\ UNCHANGED <<endpoint, registered, queue, published, tried>>

Next ==
    \/ \E s \in Sockets : Accept(s) \/ Connect(s) \/ Disconnect(s)
    \/ \E c \in Channels : Broadcast(c)
    \/ Start \/ Take \/ SendBatch \/ NextChannel \/ Cancel
    \/ \E s \in Sockets, m \in 1..MaxMessages : SendEnds(s, m)

Spec == Init /\ [][Next]_bvars

\* The event loop runs the worker when it can run, and a send ends: the server
\* pings its sockets and closes those that do not answer.
Fairness ==
    /\ WF_bvars(Take) /\ WF_bvars(SendBatch) /\ WF_bvars(NextChannel)
    /\ \A s \in Sockets, m \in 1..MaxMessages : WF_bvars(SendEnds(s, m))
-----------------------------------------------------------------------------
(* Correctness.                                                            *)

\* s is to hear message m.
Owed(s, m) == m \in DOMAIN published /\ s \in published[m].owed

\* A message that was queued is sent in the end to everybody who was registered for
\* its channel by then and stays, or the send fails: whoever comes and goes during
\* the sends, and also when no other message follows that would fill the batch,
\* unless the worker is cancelled (_broadcast_worker, _broadcast_batch).
QueuedIsHeard ==
    \A s \in Sockets, m \in 1..MaxMessages :
        worker.at # "off" /\ m \in ToSet(queue) /\ Owed(s, m) ~>
            worker.at = "ended" \/ ~Owed(s, m) \/ <<s, m>> \in tried
=============================================================================
