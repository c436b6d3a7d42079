----------------------------- MODULE MCSockets -----------------------------
(***************************************************************************)
(* For TLC: what must happen in the end on the sockets of the sessions of  *)
(* collaboration-service and of the optimized manager of the shared        *)
(* library.  `focus` says which of the two takes the steps of a behaviour. *)
(***************************************************************************)
EXTENDS MCCollabSession

CONSTANTS Sockets, Channels, QueueMax, BatchMax, MaxMessages

VARIABLES
    endpoint, registered, queue, published, worker, sends, tried,
    focus  \* "session" or "broadcasting"

broadcastingVars == <<endpoint, registered, queue, published, worker, sends, tried>>

BC == INSTANCE Broadcasting

MCInit ==
    /\ focus \in {"session", "broadcasting"}
    /\ Init
    /\ BC!Init /\ (focus = "session" => \A s \in Sockets :
                       endpoint[s].channel = CHOOSE c \in Channels : TRUE)

MCNext ==
    \/ focus = "session" /\ Next /\ UNCHANGED <<broadcastingVars, focus>>
    \/ focus = "broadcasting" /\ BC!Next /\ UNCHANGED <<vars, focus>>

MCFairSpec ==
    MCInit /\ [][MCNext]_<<vars, broadcastingVars, focus>> /\ Fairness /\ BC!Fairness
-----------------------------------------------------------------------------

\* Optimized manager: a queued message reaches whoever stays registered.
QueuedIsHeard == BC!QueuedIsHeard
=============================================================================
