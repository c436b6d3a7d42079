-------------------------------- MODULE Cache --------------------------------
(***************************************************************************)
(* CachedService over CacheManager: one row, cached in the memory of every *)
(* process (L1, without expiry) and in Redis (L2, with a time to live).    *)
(*                                                                         *)
(* An action of a process is what it does between two awaits; what Redis   *)
(* does for it is an action of its own, because the reply reaches the      *)
(* process later.  A write is synchronous: the transaction commits before  *)
(* the invalidation it scheduled with create_task can run.                 *)
(***************************************************************************)
EXTENDS Integers, FiniteSets

CONSTANTS
    Processes,   \* replicas of a service
    Readers,     \* get_cached calls that may be in flight at a time
    MaxVersion,  \* bound: writes to the row
    MaxFaults    \* bound: failed calls to Redis and crashes of a process

VARIABLES
    row,      \* the committed row: `v` counts the writes, `live` until it is deleted
    writer,   \* writer[v]: the process that committed version v (ghost)
    roomy,    \* the processes whose memory cache has room
    memory,   \* memory[p]: the entry of the row in l1_cache
    shared,   \* the entry in Redis
    reader,   \* reader[r]: the process it runs in, its place and what it holds
    tasks,    \* invalidation tasks: process, place, and a number to tell them apart
    faults,   \* failed calls and crashes so far
    missed    \* an invalidation did not reach Redis (ghost)

cvars == <<row, writer, roomy, memory, shared, reader, tasks, faults, missed>>

\* An entry: the version of its value, whether a newer one was committed when it
\* was stored (ghost), and whether it has a time to live.
Entry(v, ttl) == [v |-> v, late |-> v # row.v, ttl |-> ttl]
Nothing == [v |-> -1, late |-> FALSE, ttl |-> FALSE]
Idle(p) == [p |-> p, at |-> "idle", v |-> -1]

Init ==
    /\ row = [v |-> 0, live |-> TRUE]
    /\ writer = [v \in 1..MaxVersion |-> CHOOSE p \in Processes : TRUE]
    /\ roomy \in {Processes, {}}
    /\ memory = [p \in Processes |-> Nothing]
    /\ shared = Nothing
    /\ reader \in {[r \in Readers |-> Idle(f[r])] : f \in [Readers -> Processes]}
    /\ tasks = {}
    /\ faults = 0 /\ missed = FALSE

Fault == faults < MaxFaults /\ faults' = faults + 1

\* Mutant of Remember: the size of the memory cache is not looked at.
RememberAlways(p, v) == memory' = [memory EXCEPT ![p] = Entry(v, FALSE)]

\* l1_cache[key] = value, if there is room.
Remember(p, v) ==
    memory' = IF p \in roomy THEN [memory EXCEPT ![p] = Entry(v, FALSE)] ELSE memory

Go(r, at, v) == reader' = [reader EXCEPT ![r].at = at, ![r].v = v]
-----------------------------------------------------------------------------

\* get_cached: the memory cache answers at once, otherwise Redis is asked.
Get(r) ==
    /\ reader[r].at = "idle"
    /\ memory[reader[r].p] = Nothing
    /\ Go(r, "asking", -1)
    /\ UNCHANGED <<row, writer, roomy, memory, shared, tasks, faults, missed>>

\* Redis answers GET, or the call fails and is taken for a miss.
Answer(r) ==
    /\ reader[r].at = "asking"
    /\ \/ /\ IF shared # Nothing THEN Go(r, "hit", shared.v) ELSE Go(r, "miss", -1)
          /\ UNCHANGED faults
       \/ Fault /\ Go(r, "miss", -1)
    /\ UNCHANGED <<row, writer, roomy, memory, shared, tasks, missed>>

\* The value of a hit is kept in memory and returned.
Hit(r) ==
    /\ reader[r].at = "hit"
    /\ Remember(reader[r].p, reader[r].v)
    /\ Go(r, "idle", -1)
    /\ UNCHANGED <<row, writer, roomy, shared, tasks, faults, missed>>

\* After a miss the row is read, kept in memory, and on its way to Redis.
Miss(r) ==
    /\ reader[r].at = "miss"
    /\ IF row.live THEN Remember(reader[r].p, row.v) /\ Go(r, "storing", row.v)
                   ELSE UNCHANGED memory /\ Go(r, "idle", -1)
    /\ UNCHANGED <<row, writer, roomy, shared, tasks, faults, missed>>

\* Mutant of Stored: SET instead of SETEX.
StoredForever(v) == Entry(v, FALSE)

Stored(v) == Entry(v, TRUE)

\* Redis runs SETEX, or the call fails and is forgotten.
Store(r) ==
    /\ reader[r].at = "storing"
    /\ \/ shared' = Stored(reader[r].v) /\ UNCHANGED faults
       \/ Fault /\ UNCHANGED shared
    /\ Go(r, "idle", -1)
    /\ UNCHANGED <<row, writer, roomy, memory, tasks, missed>>

Task(p) == [p |-> p, at |-> "new", for |-> row.v + 1]

\* update and delete: the hook schedules the invalidation inside the transaction,
\* which then commits, or fails and is rolled back.
Write(p) ==
    /\ row.live /\ row.v < MaxVersion
    /\ tasks' = tasks \cup {Task(p)}
    /\ \/ /\ \E alive \in BOOLEAN : row' = [v |-> row.v + 1, live |-> alive]
          /\ writer' = [writer EXCEPT ![row.v + 1] = p]
          /\ UNCHANGED faults
       \/ Fault /\ UNCHANGED <<row, writer>>
    /\ UNCHANGED <<roomy, memory, shared, reader, missed>>

\* Mutant of Invalidate: the entry in memory is kept.
InvalidateKeeps(t) ==
    /\ t.at = "new"
    /\ tasks' = (tasks \ {t}) \cup {[t EXCEPT !.at = "deleting"]}
    /\ UNCHANGED <<row, writer, roomy, memory, shared, reader, faults, missed>>

\* invalidate_cache: the entry leaves this process's memory ...
Invalidate(t) ==
    /\ t.at = "new"
    /\ memory' = [memory EXCEPT ![t.p] = Nothing]
    /\ tasks' = (tasks \ {t}) \cup {[t EXCEPT !.at = "deleting"]}
    /\ UNCHANGED <<row, writer, roomy, shared, reader, faults, missed>>

\* ... and then Redis, or the call fails and is forgotten.
Drop(t) ==
    /\ t.at = "deleting"
    /\ tasks' = tasks \ {t}
    /\ \/ shared' = Nothing /\ UNCHANGED <<faults, missed>>
       \/ Fault /\ missed' = TRUE /\ UNCHANGED shared
    /\ UNCHANGED <<row, writer, roomy, memory, reader>>

\* The time to live of the entry in Redis runs out.
Expire ==
    /\ shared.ttl
    /\ shared' = Nothing
    /\ UNCHANGED <<row, writer, roomy, memory, reader, tasks, faults, missed>>

\* A process dies and is started again: its memory and its tasks are gone.
Crash(p) ==
    /\ Fault
    /\ memory' = [memory EXCEPT ![p] = Nothing]
    /\ reader' = [r \in Readers |-> IF reader[r].p = p THEN Idle(p) ELSE reader[r]]
    /\ tasks' = {t \in tasks : t.p # p}
    /\ missed' = (missed \/ tasks' # tasks)
    /\ UNCHANGED <<row, writer, roomy, shared>>

Read(r) == Get(r) \/ Answer(r) \/ Hit(r) \/ Miss(r) \/ Store(r)
Invalidating == \E t \in tasks : Invalidate(t) \/ Drop(t)

Next ==
    \/ \E r \in Readers : Read(r)
    \/ \E p \in Processes : Write(p) \/ Crash(p)
    \/ Invalidating
    \/ Expire

\* The event loops run their tasks, Redis answers, and time passes.
Fairness == WF_cvars(Invalidating) /\ WF_cvars(Expire) /\ \A r \in Readers : WF_cvars(Read(r))

Spec == Init /\ [][Next]_cvars /\ Fairness
-----------------------------------------------------------------------------
(* Correctness.                                                            *)

TypeOK ==
    /\ row \in [v : 0..MaxVersion, live : BOOLEAN]
    /\ roomy \subseteq Processes
    /\ \A p \in Processes : memory[p] # Nothing => p \in roomy /\ memory[p].v \in 0..row.v
    /\ shared # Nothing => shared.v \in 0..row.v
    /\ \A r \in Readers : reader[r].at \in {"idle", "asking", "hit", "miss", "storing"}
    /\ \A t \in tasks : t.p \in Processes /\ t.at \in {"new", "deleting"}
    /\ faults \in 0..MaxFaults /\ missed \in BOOLEAN

Stale(e) == e # Nothing /\ e.v < row.v

\* An outdated entry has one of the known causes: it was outdated when it was
\* stored, because a write overlapped the read; an invalidation is on its way; it
\* did not reach Redis; or, in memory, only other processes wrote since.
StaleExplained ==
    /\ Stale(shared) => shared.late \/ tasks # {} \/ missed
    /\ \A p \in Processes : Stale(memory[p]) =>
         \/ memory[p].late
         \/ \E t \in tasks : t.p = p
         \/ \A v \in memory[p].v + 1 .. row.v : writer[v] # p

\* Once nobody writes any more, Redis holds nothing outdated for good: what a
\* race or a failure left there expires (setex).
SharedGetsFresh == <>[]~Stale(shared)
=============================================================================
