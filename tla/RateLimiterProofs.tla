-------------------------- MODULE RateLimiterProofs --------------------------
(***************************************************************************)
(* Proofs about the rate limiter and the attempt counters, for any         *)
(* requests, callers, limits, windows, lifetimes and bounds: what is let   *)
(* through, who is refused, and who reaches the application.               *)
(*                                                                         *)
(* That the bucket's grants are bounded is not inductive.  It needs a      *)
(* balance of the bucket in Redis against every grant since which none was *)
(* undone, and the same for every copy to be written back that missed no   *)
(* grant.  What a refusal says, and what a window lets through, needs to   *)
(* know what each key has counted.                                         *)
(***************************************************************************)
EXTENDS Limits, FiniteSetTheorems, SequenceTheorems, TLAPS

Buckets == [tokens : 0..Limit, last : Nat] \cup {NoBucket}
Verdicts == {"granted", "granted_unanswered", "refused", "unanswered"}
Decisions == [q : Requests, now : Nat, at : Nat, verdict : Verdicts, seen : Nat, found : BOOLEAN]

Types ==
    /\ clock \in Nat
    /\ pc \in [Requests -> Places]
    /\ \A q \in Requests : pc[q] \in {"computing", "writing"} => strategy = "token_bucket"
    /\ now \in [Requests -> Nat]
    /\ calls \in [Requests -> Nat]
    /\ raised \subseteq Requests
    /\ checks \in Seq(Decisions)
    /\ redis = [zset |-> redis.zset, zexpire |-> redis.zexpire, count |-> redis.count,
                cexpire |-> redis.cexpire, bucket |-> redis.bucket, bexpire |-> redis.bexpire]
    /\ redis.bucket \in Buckets
    /\ copy \in [Requests -> [bucket : Buckets, seen : Nat]]

\* Where a request is, and what became of it, as long as nothing raised for it.
Placed(q) ==
    /\ pc[q] \notin {"calling_again", "failed"}
    /\ pc[q] \in {"new", "checking", "computing", "writing"} =>
          calls[q] = 0 /\ \A i \in DOMAIN checks : checks[i].q # q
    /\ pc[q] \in {"oldest", "expiring_refused", "refused", "limited"} => calls[q] = 0
    /\ pc[q] \in {"expiring", "calling", "done"} =>
          \A i \in DOMAIN checks : checks[i].q = q => checks[i].verdict # "refused"
    /\ pc[q] \in {"expiring", "calling"} => calls[q] = 0
    /\ pc[q] = "done" => calls[q] = 1

PlaceInv == \A q \in Requests \ raised : Placed(q)

\* A bucket was written with a stamp that is not later than a time.
Older(b, time) == b # NoBucket => b.last <= time

BucketInv ==
    /\ Older(redis.bucket, clock)
    /\ \A q \in Requests :
        /\ now[q] <= clock
        /\ pc[q] = "computing" => Older(copy[q].bucket, clock)
        /\ pc[q] = "writing" => Older(copy[q].bucket, now[q])

IInv == Types /\ PlaceInv /\ (strategy = "token_bucket" => BucketInv)
-----------------------------------------------------------------------------
(* Lemmas about the operators.                                             *)

\* Min of two numbers is the smaller one.
LEMMA MinOfTwo ==
  ASSUME NEW a \in Int, NEW b \in Int
  PROVE  Min({a, b}) = IF a <= b THEN a ELSE b
<1>1. \E x \in {a, b} : \A y \in {a, b} : x <= y OBVIOUS
<1>2. Min({a, b}) \in {a, b} /\ \A y \in {a, b} : Min({a, b}) <= y
  BY <1>1 DEF Min
<1> QED BY <1>2

\* Multiplication with the window distributes, and grows with the time.
LEMMA Refill ==
  ASSUME NEW a \in Nat, NEW b \in Nat, a <= b
  PROVE  /\ Window * a \in Nat /\ Window * b \in Nat
         /\ (b - a) * Window = Window * b - Window * a
         /\ Window * a <= Window * b
  BY LimiterAssumption

\* A bucket has between no token and Limit, and no more than it had and what was
\* refilled since.
LEMMA TokensBounds ==
  ASSUME NEW b \in Buckets, NEW t \in Nat, b # NoBucket => b.last <= t
  PROVE  /\ Tokens(b, t) \in 0..Limit
         /\ b = NoBucket => Tokens(b, t) = Limit
         /\ b # NoBucket => Tokens(b, t) <= b.tokens + Window * t - Window * b.last
<1>1. CASE b = NoBucket BY <1>1, LimiterAssumption DEF Tokens
<1>2. CASE b # NoBucket
  <2>1. b.tokens \in 0..Limit /\ b.last \in Nat /\ b.last <= t BY <1>2 DEF Buckets
  <2>2. (t - b.last) * Window = Window * t - Window * b.last
        /\ Window * b.last <= Window * t /\ Window * b.last \in Nat /\ Window * t \in Nat
    BY <2>1, Refill
  <2>3. b.tokens + (t - b.last) * Window \in Int BY <2>1, <2>2
  <2>4. Tokens(b, t) = IF Limit <= b.tokens + (t - b.last) * Window
                       THEN Limit ELSE b.tokens + (t - b.last) * Window
    BY <1>2, <2>3, MinOfTwo, LimiterAssumption DEF Tokens
  <2> QED BY <1>2, <2>1, <2>2, <2>4, LimiterAssumption
<1> QED BY <1>1, <1>2

\* There are finitely many grants.
LEMMA GrantsFinite == ASSUME Types PROVE IsFiniteSet(Granted)
<1>1. Granted \subseteq 1..Len(checks) /\ Len(checks) \in Nat
  <2>1. Len(checks) \in Nat /\ DOMAIN checks = 1..Len(checks) BY DEF Types
  <2> QED BY <2>1 DEF Granted
<1>2. IsFiniteSet(1..Len(checks)) BY <1>1, FS_Interval
<1> QED BY <1>1, <1>2, FS_Subset

\* What a decision of Redis changes, and that the request goes where the decision
\* takes it.
LEMMA DecideStep ==
  ASSUME Types, PlaceInv, NEW q \in Requests, NEW allowed \in BOOLEAN, NEW place \in Places,
         pc[q] \in {"checking", "writing"}, Decide(q, allowed, place), calls' = calls,
         allowed => place \in {"calling", "expiring"},
         ~allowed => place \in {"oldest", "refused", "expiring_refused"}
  PROVE  /\ pc' \in [Requests -> Places] /\ raised' \subseteq Requests
         /\ checks' \in Seq(Decisions)
         /\ PlaceInv'
         /\ pc'[q] \notin {"computing", "writing"} /\ \A p \in Requests \ {q} : pc'[p] = pc[p]
<1> DEFINE n == Len(checks)
<1>1. PICK c \in Decisions :
        /\ checks' = Append(checks, c) /\ c.q = q
        /\ allowed => c.verdict \in {"granted", "granted_unanswered"}
        /\ ~allowed => c.verdict \in {"refused", "unanswered"}
        /\ \/ raised' = raised /\ pc' = [pc EXCEPT ![q] = place]
           \/ /\ raised' = raised \cup {q} /\ c.verdict \notin {"granted", "refused"}
              /\ pc' = [pc EXCEPT ![q] = IF wrapper = "middleware" THEN "calling_again" ELSE "failed"]
  <2> DEFINE C(v) == [q |-> q, now |-> now[q], at |-> clock, verdict |-> v,
                      seen |-> copy[q].seen, found |-> copy[q].bucket # NoBucket]
  <2>1. \A v \in Verdicts : C(v) \in Decisions BY DEF Types, Decisions
  <2>2. CASE /\ checks' = Append(checks, C(IF allowed THEN "granted" ELSE "refused"))
             /\ GoTo(q, place) /\ UNCHANGED raised
    <3> DEFINE c == C(IF allowed THEN "granted" ELSE "refused")
    <3>1. c \in Decisions BY <2>1 DEF Verdicts
    <3> QED BY <3>1, <2>2 DEF GoTo
  <2>3. CASE /\ checks' = Append(checks, C(IF allowed THEN "granted_unanswered" ELSE "unanswered"))
             /\ OnError(q) /\ Raise(q)
    <3> DEFINE c == C(IF allowed THEN "granted_unanswered" ELSE "unanswered")
    <3>1. c \in Decisions BY <2>1 DEF Verdicts
    <3> QED BY <3>1, <2>3 DEF GoTo, OnError, Raise
  <2> QED BY <2>2, <2>3 DEF Decide
<1>2. /\ n \in Nat /\ checks' \in Seq(Decisions) /\ DOMAIN checks = 1..n /\ DOMAIN checks' = 1..(n + 1)
      /\ checks'[n + 1] = c /\ \A i \in 1..n : checks'[i] = checks[i]
  BY <1>1 DEF Types
<1>3. pc' \in [Requests -> Places] /\ raised' \subseteq Requests
  BY <1>1 DEF Types, Places
<1>4. pc'[q] \notin {"computing", "writing"} /\ \A p \in Requests \ {q} : pc'[p] = pc[p]
  BY <1>1 DEF Types
<1>5. PlaceInv'
  <2> SUFFICES ASSUME NEW p \in Requests, p \notin raised'
               PROVE  Placed(p)'
    BY DEF PlaceInv
  <2>1. Placed(p) BY <1>1 DEF PlaceInv
  <2>2. CASE p # q BY <1>1, <1>2, <1>4, <2>1, <2>2 DEF Placed
  <2>3. CASE p = q
    <3>1. calls[q] = 0 /\ \A i \in 1..n : checks[i].q # q BY <1>2, <2>1, <2>3 DEF Placed
    <3>2. raised' = raised /\ pc'[q] = place /\ (c.verdict = "refused" => ~allowed)
      BY <1>1, <2>3 DEF Types, Verdicts
    <3> QED BY <1>1, <1>2, <2>3, <3>1, <3>2 DEF Placed
  <2> QED BY <2>2, <2>3
<1> QED BY <1>2, <1>3, <1>4, <1>5

\* A step that leaves the bucket, its copies and the clock alone, and takes nobody
\* to where a copy is written back.
LEMMA BucketKept ==
  ASSUME BucketInv, redis'.bucket = redis.bucket, UNCHANGED <<clock, copy>>,
         \A p \in Requests : /\ now'[p] <= clock
                             /\ pc'[p] \in {"computing", "writing"} => pc'[p] = pc[p] /\ now'[p] = now[p]
  PROVE  BucketInv'
BY DEF BucketInv, Older

-----------------------------------------------------------------------------
(* The steps.                                                              *)

THEOREM InitIInv == Init => IInv
<1> SUFFICES ASSUME Init PROVE IInv OBVIOUS
<1>1. Types
  <2>1. checks \in Seq(Decisions)
    BY DEF Init
  <2> QED BY <2>1 DEF Init, Types, Buckets, NoBucket, NoCopy, Places
<1>2. PlaceInv BY DEF Init, PlaceInv, Placed
<1>3. BucketInv BY DEF Init, BucketInv, Older, NoCopy
<1> QED BY <1>1, <1>2, <1>3 DEF IInv

\* Steps of one request that touch neither Redis's bucket nor the decisions.
LEMMA PlainStep ==
  ASSUME IInv, NEW q \in Requests,
         Arrive(q) \/ Oldest(q) \/ ExpireBucket(q) \/ Refuse(q) \/ Call(q) \/ RedisFails(q)
  PROVE  IInv'
<1>1. /\ UNCHANGED <<strategy, clock, copy, checks>> /\ redis'.bucket = redis.bucket
      /\ \A p \in Requests \ {q} : pc'[p] = pc[p] /\ now'[p] = now[p] /\ calls'[p] = calls[p]
      /\ raised \subseteq raised' /\ raised' \subseteq raised \cup {q}
      /\ now'[q] \in {now[q], clock} /\ pc'[q] \notin {"computing", "writing"}
  BY DEF IInv, Types, Arrive, Oldest, ExpireBucket, Refuse, Call, RedisFails, GoTo, Raise, OnError
<1>2. Types'
  <2>1. redis' = [redis EXCEPT !.bexpire = redis'.bexpire]
    BY DEF IInv, Types, Arrive, Oldest, ExpireBucket, Refuse, Call, RedisFails
  <2>2. pc' \in [Requests -> Places] /\ now' \in [Requests -> Nat] /\ calls' \in [Requests -> Nat]
    <3>1. pc' \in [Requests -> Places]
      BY DEF IInv, Types, Places, Arrive, Oldest, ExpireBucket, Refuse, Call, RedisFails, GoTo, OnError
    <3>2. now' \in [Requests -> Nat] BY DEF IInv, Types, Arrive, Oldest, ExpireBucket, Refuse, Call, RedisFails
    <3>3. calls' = calls \/ calls' = [calls EXCEPT ![q] = calls[q] + 1]
      BY DEF Arrive, Oldest, ExpireBucket, Refuse, Call, RedisFails
    <3>4. calls \in [Requests -> Nat] /\ calls[q] + 1 \in Nat BY DEF IInv, Types
    <3>5. calls' \in [Requests -> Nat] BY <3>3, <3>4
    <3> QED BY <3>1, <3>2, <3>5
  <2>3. \A p \in Requests : pc'[p] \in {"computing", "writing"} => pc'[p] = pc[p]
    BY <1>1
  <2>4. redis'.bucket \in Buckets /\ raised' \subseteq Requests BY <1>1 DEF IInv, Types
  <2> QED BY <1>1, <2>1, <2>2, <2>3, <2>4 DEF IInv, Types, Buckets
<1>3. Placed(q)' \/ q \in raised'
  <2> SUFFICES ASSUME q \notin raised' PROVE Placed(q)' OBVIOUS
  <2>1. Placed(q) BY <1>1 DEF IInv, PlaceInv
  <2>2. CASE Arrive(q) BY <1>1, <2>1, <2>2 DEF IInv, Types, Placed, Arrive, GoTo
  <2>3. CASE Oldest(q) BY <1>1, <2>1, <2>3 DEF IInv, Types, Placed, Oldest, GoTo
  <2>4. CASE ExpireBucket(q) BY <1>1, <2>1, <2>4 DEF IInv, Types, Placed, ExpireBucket, GoTo, Raise
  <2>5. CASE Refuse(q) BY <1>1, <2>1, <2>5 DEF IInv, Types, Placed, Refuse, GoTo
  <2>6. CASE Call(q)
    <3>1. pc[q] = "calling" /\ pc'[q] = "done" /\ calls[q] = 0 /\ calls'[q] = calls[q] + 1
      BY <1>1, <2>1, <2>6 DEF IInv, Types, Placed, Call, GoTo, Raise
    <3> QED BY <1>1, <2>1, <3>1 DEF Placed
  <2>7. CASE RedisFails(q) BY <2>7 DEF RedisFails, Raise
  <2> QED BY <2>2, <2>3, <2>4, <2>5, <2>6, <2>7
<1>4. PlaceInv'
  <2> SUFFICES ASSUME NEW p \in Requests \ raised' PROVE Placed(p)' BY DEF PlaceInv
  <2>1. CASE p = q BY <1>3, <2>1
  <2>2. CASE p # q
    <3>1. Placed(p) BY <1>1, <2>2 DEF IInv, PlaceInv
    <3> QED BY <1>1, <2>2, <3>1 DEF Placed
  <2> QED BY <2>1, <2>2
<1>5. ASSUME strategy = "token_bucket" PROVE BucketInv'
  <2>1. BucketInv BY <1>5 DEF IInv
  <2>2. \A p \in Requests : now[p] <= clock BY <2>1 DEF BucketInv
  <2>3. \A p \in Requests : /\ now'[p] <= clock
                            /\ pc'[p] \in {"computing", "writing"} => pc'[p] = pc[p] /\ now'[p] = now[p]
    BY <1>1, <2>2 DEF IInv, Types
  <2> QED BY <1>1, <2>1, <2>3, BucketKept
<1> QED BY <1>1, <1>2, <1>4, <1>5 DEF IInv

\* The two strategies that count.
LEMMA CountStep ==
  ASSUME IInv, NEW q \in Requests, FixedWindow(q) \/ SlidingWindow(q)
  PROVE  IInv'
<1>1. /\ strategy # "token_bucket" /\ pc[q] = "checking"
      /\ UNCHANGED <<strategy, clock, now, copy, calls>>
      /\ redis' = [redis EXCEPT !.count = redis'.count, !.cexpire = redis'.cexpire,
                                !.zset = redis'.zset, !.zexpire = redis'.zexpire]
  BY DEF FixedWindow, SlidingWindow, IInv, Types
<1>2. \E allowed \in BOOLEAN, place \in Places :
        /\ Decide(q, allowed, place)
        /\ allowed => place \in {"calling", "expiring"}
        /\ ~allowed => place \in {"oldest", "refused", "expiring_refused"}
  <2>1. CASE FixedWindow(q)
    <3> DEFINE k == now[q] \div Window
               n == IF Gone(redis.cexpire[k]) THEN 1 ELSE redis.count[k] + 1
    <3>1. Decide(q, Allowed(n), IF Allowed(n) THEN "calling" ELSE "refused") BY <2>1 DEF FixedWindow
    <3>2. Allowed(n) \in BOOLEAN BY DEF Allowed
    <3> QED BY <3>1, <3>2 DEF Places
  <2>2. CASE SlidingWindow(q)
    <3> DEFINE z == InWindow(IF Gone(redis.zexpire) THEN {} ELSE redis.zset, now[q]) \cup {now[q]}
               n == Cardinality({s \in z : s <= now[q]})
    <3>1. Decide(q, Allowed(n), IF Allowed(n) THEN "calling" ELSE "oldest") BY <2>2 DEF SlidingWindow
    <3>2. Allowed(n) \in BOOLEAN BY DEF Allowed
    <3> QED BY <3>1, <3>2 DEF Places
  <2> QED BY <2>1, <2>2
<1>3. /\ pc' \in [Requests -> Places] /\ raised' \subseteq Requests /\ PlaceInv'
      /\ checks' \in Seq(Decisions)
      /\ pc'[q] \notin {"computing", "writing"} /\ \A p \in Requests \ {q} : pc'[p] = pc[p]
  BY <1>1, <1>2, DecideStep DEF IInv
<1>4. Types'
  <2>1. \A p \in Requests : pc'[p] \in {"computing", "writing"} => pc'[p] = pc[p]
    BY <1>3
  <2> QED BY <1>1, <1>3, <2>1 DEF IInv, Types, Buckets
<1> QED BY <1>1, <1>3, <1>4 DEF IInv

\* A copy is read, of the bucket or of none.
LEMMA ReadStep ==
  ASSUME IInv, NEW q \in Requests, ReadBucket(q)
  PROVE  IInv'
<1>1. BucketInv /\ Types /\ PlaceInv /\ strategy = "token_bucket" /\ pc[q] = "checking"
  BY DEF IInv, ReadBucket
<1>2. PICK b \in {NoBucket, redis.bucket}, n \in Nat : copy' = [copy EXCEPT ![q] = [bucket |-> b, seen |-> n]]
  <2>1. Len(checks) \in Nat BY <1>1 DEF Types
  <2> QED BY <2>1 DEF ReadBucket
<1>3. UNCHANGED <<strategy, clock, redis, now, calls, checks, raised>>
      /\ pc' = [pc EXCEPT ![q] = "computing"]
  BY DEF ReadBucket, GoTo
<1>4. Types'
  <2>1. pc' \in [Requests -> Places] BY <1>1, <1>3 DEF Types, Places
  <2>2. copy' \in [Requests -> [bucket : Buckets, seen : Nat]] BY <1>1, <1>2 DEF Types, Buckets
  <2> QED BY <1>1, <1>3, <2>1, <2>2 DEF Types, Buckets
<1>5. PlaceInv' BY <1>1, <1>3 DEF Types, PlaceInv, Placed
<1>6. BucketInv'
  <2>1. \A p \in Requests \ {q} : copy'[p] = copy[p] /\ pc'[p] = pc[p] BY <1>1, <1>2, <1>3 DEF Types
  <2>2. copy'[q].bucket = b /\ pc'[q] = "computing" BY <1>1, <1>2, <1>3 DEF Types
  <2>3. Older(b, clock) BY <1>1 DEF BucketInv, Older
  <2> QED BY <1>1, <1>3, <2>1, <2>2, <2>3 DEF BucketInv, Older
<1> QED BY <1>4, <1>5, <1>6 DEF IInv

\* The clock is read between the two calls.
LEMMA ComputeStep ==
  ASSUME IInv, NEW q \in Requests, Compute(q)
  PROVE  IInv'
<1>1. /\ UNCHANGED <<strategy, clock, redis, copy, calls, checks, raised>>
      /\ now' = [now EXCEPT ![q] = clock]
      /\ pc[q] = "computing" /\ pc' = [pc EXCEPT ![q] = "writing"]
  BY DEF Compute, GoTo
<1>2. Types' BY <1>1 DEF IInv, Types, Places
<1>3. PlaceInv' BY <1>1 DEF IInv, Types, PlaceInv, Placed
<1>4. ASSUME strategy = "token_bucket" PROVE BucketInv'
  <2>1. BucketInv BY <1>4 DEF IInv
  <2>2. \A p \in Requests \ {q} : now'[p] = now[p] /\ pc'[p] = pc[p] BY <1>1 DEF IInv, Types
  <2>3. now'[q] = clock /\ pc'[q] = "writing" /\ clock <= clock BY <1>1 DEF IInv, Types
  <2> QED BY <1>1, <2>1, <2>2, <2>3 DEF BucketInv, Older
<1> QED BY <1>1, <1>2, <1>3, <1>4 DEF IInv

\* What a request takes, it takes from what it computed.
LEMMA Taken ==
  ASSUME NEW n \in 0..Limit
  PROVE  Spent(n) \in 0..Limit /\ Spent(n) + (IF n >= 1 THEN 1 ELSE 0) = n
  BY LimiterAssumption DEF Spent

\* The copy is written back, less one token if there is one.
LEMMA WriteStep ==
  ASSUME IInv, NEW q \in Requests, WriteBucket(q)
  PROVE  IInv'
<1>1. Types /\ PlaceInv /\ pc[q] = "writing" /\ strategy = "token_bucket" /\ BucketInv
  BY DEF IInv, Types, WriteBucket
<1>2. copy[q].bucket \in Buckets /\ now[q] \in Nat /\ now[q] <= clock /\ Older(copy[q].bucket, now[q])
  BY <1>1 DEF Types, BucketInv
<1>3. PICK n \in 0..Limit : n = Tokens(copy[q].bucket, now[q])
  BY <1>2, TokensBounds DEF Older
<1>4. PICK a \in BOOLEAN : a <=> n >= 1
  OBVIOUS
<1>5. PICK p \in Places : p = IF a THEN "expiring" ELSE "expiring_refused"
  BY DEF Places
<1>6. PICK new \in Buckets : new = [tokens |-> Spent(n), last |-> now[q]]
  BY <1>2, Taken DEF Buckets
<1>7. /\ redis' = [redis EXCEPT !.bucket = new, !.bexpire = redis'.bexpire]
      /\ copy' = [copy EXCEPT ![q] = NoCopy]
      /\ UNCHANGED <<strategy, clock, now, calls>>
      /\ Decide(q, a, p)
  BY <1>1, <1>3, <1>4, <1>5, <1>6 DEF WriteBucket, Types
<1>8. /\ pc' \in [Requests -> Places] /\ raised' \subseteq Requests /\ PlaceInv'
      /\ checks' \in Seq(Decisions)
      /\ pc'[q] \notin {"computing", "writing"} /\ \A r \in Requests \ {q} : pc'[r] = pc[r]
  BY <1>1, <1>5, <1>7, DecideStep
<1>9. Types'
  <2>1. copy' \in [Requests -> [bucket : Buckets, seen : Nat]]
    <3>1. NoCopy \in [bucket : Buckets, seen : Nat] BY DEF NoCopy, Buckets
    <3> QED BY <1>1, <1>7, <3>1 DEF Types
  <2>2. redis'.bucket \in Buckets BY <1>1, <1>7 DEF Types
  <2> QED BY <1>1, <1>7, <1>8, <2>1, <2>2 DEF Types, Buckets
<1>10. BucketInv'
  <2>1. Older(redis'.bucket, clock)
    <3>1. redis'.bucket = new /\ new.last = now[q] BY <1>1, <1>6, <1>7 DEF Types
    <3> QED BY <1>2, <3>1 DEF Older
  <2>2. \A r \in Requests \ {q} : copy'[r] = copy[r] BY <1>1, <1>7 DEF Types
  <2> QED BY <1>1, <1>7, <1>8, <2>1, <2>2 DEF BucketInv, Older
<1> QED BY <1>8, <1>9, <1>10 DEF IInv

\* Time passes.
LEMMA TickStep ==
  ASSUME IInv, Tick
  PROVE  IInv'
<1>1. /\ UNCHANGED <<strategy, redis, pc, now, copy, calls, checks, raised>>
      /\ clock' = clock + 1
  BY DEF Tick
<1>2. clock \in Nat /\ clock' \in Nat /\ clock <= clock' BY <1>1 DEF IInv, Types
<1>3. Types' BY <1>1, <1>2 DEF IInv, Types
<1>4. PlaceInv' BY <1>1 DEF IInv, PlaceInv, Placed
<1>5. ASSUME strategy = "token_bucket" PROVE BucketInv'
  <2>1. BucketInv /\ Types BY <1>5 DEF IInv
  <2>2. ASSUME NEW b \in Buckets, Older(b, clock) PROVE Older(b, clock')
    BY <1>2, <2>2 DEF Older, Buckets
  <2>3. redis.bucket \in Buckets /\ \A q \in Requests : copy[q].bucket \in Buckets /\ now[q] \in Nat
    BY <2>1 DEF Types
  <2>4. \A q \in Requests : now[q] <= clock' BY <1>2, <2>1, <2>3 DEF BucketInv
  <2> QED BY <1>1, <2>1, <2>2, <2>3, <2>4 DEF BucketInv
<1> QED BY <1>1, <1>3, <1>4, <1>5 DEF IInv
-----------------------------------------------------------------------------
(* The theorems.                                                           *)

\* The invariant holds in every reachable state of the limiter.
THEOREM IInvHolds == Spec => []IInv
<1>1. Init => IInv BY InitIInv
<1>2. IInv /\ [Next]_lvars => IInv'
  <2> SUFFICES ASSUME IInv, [Next]_lvars PROVE IInv' OBVIOUS
  <2>1. CASE Tick BY <2>1, TickStep
  <2>2. ASSUME NEW q \in Requests, Step(q) PROVE IInv'
    BY <2>2, PlainStep, CountStep, ReadStep, ComputeStep, WriteStep DEF Step
  <2>3. CASE UNCHANGED lvars
    BY <2>3 DEF lvars, IInv, Types, PlaceInv, Placed, BucketInv, Older
  <2> QED BY <2>1, <2>2, <2>3 DEF Next
<1> QED BY <1>1, <1>2, PTL DEF Spec

\* With any strategy, a request that was refused does not reach the application,
\* and none reaches it twice, unless Redis or the application raised
\* (RateLimitMiddleware.dispatch, rate_limit).
THEOREM ServedRight == Spec => []ServedAsDecided
<1>1. IInv => ServedAsDecided
  <2> SUFFICES ASSUME IInv PROVE ServedAsDecided OBVIOUS
  <2>1. ASSUME NEW q \in Requests \ raised PROVE calls[q] \in {0, 1}
    BY DEF IInv, Types, PlaceInv, Placed, Places
  <2>2. ASSUME NEW i \in DOMAIN checks, checks[i].verdict = "refused", checks[i].q \notin raised
        PROVE  calls[checks[i].q] = 0
    <3>0. checks \in Seq(Decisions) BY DEF IInv, Types
    <3>1. checks[i].q \in Requests \ raised
      <4>1. checks[i] \in Decisions BY <2>2, <3>0
      <4> QED BY <2>2, <4>1 DEF Decisions
    <3>2. Placed(checks[i].q) /\ pc[checks[i].q] \in Places BY <3>1 DEF IInv, Types, PlaceInv
    <3> QED BY <2>2, <3>1, <3>2 DEF Placed, Places
  <2> QED BY <2>1, <2>2 DEF ServedAsDecided
<1> QED BY <1>1, IInvHolds, PTL

-----------------------------------------------------------------------------
(* Windows, and who is refused.  These rest on what Redis knows of the     *)
(* decisions so far, which is a second invariant beside IInv.              *)

\* The decisions with a stamp in window k, and those of them that were grants
\* made within the window.
Asked(k)  == {i \in DOMAIN checks : checks[i].now \div Window = k}
Inside(k) == {i \in Granted : checks[i].now \div Window = k /\ checks[i].at \div Window = k}

\* The grants with a stamp from c to t.
Spree(c, t) == {j \in Granted : c <= checks[j].now /\ checks[j].now <= t}

\* A stamp is never later than the call it is for.
Stamps ==
    /\ clock \in 0..MaxTime
    /\ \A q \in Requests : now[q] <= clock
    /\ redis.count \in [0..MaxTime -> Nat]
    /\ redis.cexpire \in [0..MaxTime -> Nat \cup {Never}]
    /\ redis.zexpire \in Nat \cup {Never}
    /\ \A i \in DOMAIN checks : checks[i].now <= checks[i].at /\ checks[i].at <= clock

\* Until a window ends its key is there and counts every grant made in it; it
\* never counts more than the requests that asked.
FixedInv == \A k \in 0..MaxTime :
    /\ redis.cexpire[k] # Never => k * Window + Window <= redis.cexpire[k]
    /\ Cardinality(Inside(k)) <= Limit
    /\ clock \div Window <= k => Cardinality(Inside(k)) <= redis.count[k]
    /\ redis.count[k] <= Cardinality(Asked(k))

\* The sorted set has only stamps of decisions, and all that are not yet too old.
SlidingInv ==
    /\ \A s \in redis.zset : \E j \in DOMAIN checks : checks[j].now = s
    /\ \A j \in DOMAIN checks :
        /\ checks[j].now + Window <= redis.zexpire
        /\ clock < checks[j].now + Window => checks[j].now \in redis.zset

\* What is missing in a bucket went to grants since some time when it was full.
Drained(b) == b # NoBucket => \E c \in 0..b.last :
    Limit + Window * b.last <= b.tokens + Window * c + Cardinality(Spree(c, b.last))

DrainInv ==
    /\ Drained(redis.bucket)
    /\ \A q \in Requests : pc[q] \in {"computing", "writing"} => Drained(copy[q].bucket)

WindowInv ==
    /\ Stamps /\ RefusedOnlyWhenUsedUp
    /\ strategy = "fixed_window" => FixedInv
    /\ strategy = "sliding_window" => SlidingInv /\ SlidingWindowLimit
    /\ strategy = "token_bucket" => DrainInv

\* What division by the window gives.
LEMMA Division ==
  ASSUME NEW a \in Nat
  PROVE  /\ a \div Window \in Nat
         /\ (a \div Window) * Window <= a
         /\ a < (a \div Window) * Window + Window
<1>1. Window \in Nat /\ Window > 0
  BY LimiterAssumption
<1> QED BY <1>1

\* Time does not go back to an earlier window.
LEMMA WindowOrder ==
  ASSUME NEW a \in Nat, NEW b \in Nat, a <= b
  PROVE  a \div Window <= b \div Window
<1>1. PICK x \in Nat : x = a \div Window
  BY Division
<1>2. PICK y \in Nat : y = b \div Window
  BY Division
<1>3. x * Window <= a /\ b < y * Window + Window
  BY <1>1, <1>2, Division
<1>4. x <= y
  <2>1. SUFFICES ASSUME y + 1 <= x PROVE FALSE
    BY <1>1, <1>2
  <2>2. Window * (y + 1) <= Window * x
    BY <2>1, Refill
  <2>3. Window * (y + 1) = y * Window + Window /\ Window * x = x * Window
    BY LimiterAssumption
  <2>4. y * Window \in Nat /\ x * Window \in Nat /\ Window \in Nat
    BY LimiterAssumption
  <2> QED BY <1>3, <2>2, <2>3, <2>4
<1> QED BY <1>1, <1>2, <1>4

\* The times of a decision are numbers.
LEMMA StampTypes ==
  ASSUME Types
  PROVE  \A i \in DOMAIN checks : checks[i].now \in Nat /\ checks[i].at \in Nat
<1>1. checks \in Seq(Decisions)
  BY DEF Types
<1>2. \A i \in DOMAIN checks : checks[i] \in Decisions
  BY <1>1
<1> QED BY <1>2 DEF Decisions

\* What a decision adds: one check, with the stamp of its request and the time.
Took(q, allowed) ==
    /\ DOMAIN checks = 1..Len(checks) /\ DOMAIN checks' = 1..(Len(checks) + 1)
    /\ \A i \in 1..Len(checks) : checks'[i] = checks[i]
    /\ checks'[Len(checks) + 1].now = now[q] /\ checks'[Len(checks) + 1].at = clock
    /\ checks'[Len(checks) + 1].verdict = "refused" => ~allowed
    /\ checks'[Len(checks) + 1].seen = copy[q].seen
    /\ checks'[Len(checks) + 1].found = (copy[q].bucket # NoBucket)
    /\ Granted \subseteq 1..Len(checks) /\ Len(checks) \in Nat
    /\ Granted' = IF allowed THEN Granted \cup {Len(checks) + 1} ELSE Granted

LEMMA DecideTakes ==
  ASSUME Types, NEW q \in Requests, NEW allowed \in BOOLEAN, NEW place, Decide(q, allowed, place)
  PROVE  Took(q, allowed)
<1> DEFINE n == Len(checks)
           C(v) == [q |-> q, now |-> now[q], at |-> clock, verdict |-> v,
                      seen |-> copy[q].seen, found |-> copy[q].bucket # NoBucket]
<1>1. PICK v \in Verdicts : /\ checks' = Append(checks, C(v))
                            /\ v \in {"granted", "granted_unanswered"} <=> allowed
  <2>1. CASE checks' = Append(checks, C(IF allowed THEN "granted" ELSE "refused"))
    BY <2>1 DEF Verdicts
  <2>2. CASE checks' = Append(checks, C(IF allowed THEN "granted_unanswered" ELSE "unanswered"))
    BY <2>2 DEF Verdicts
  <2> QED BY <2>1, <2>2 DEF Decide
<1>2. checks \in Seq(Decisions) /\ C(v) \in Decisions
  BY DEF Types, Decisions
<1>3. PICK c \in Decisions : c = C(v)
  BY <1>2
<1>4. /\ c.now = now[q] /\ c.at = clock /\ c.verdict = v
      /\ c.seen = copy[q].seen /\ c.found = (copy[q].bucket # NoBucket)
  BY <1>3
<1>5. /\ n \in Nat /\ DOMAIN checks = 1..n /\ DOMAIN checks' = 1..(n + 1)
      /\ checks'[n + 1] = c /\ \A i \in 1..n : checks'[i] = checks[i]
  <2>1. checks' = Append(checks, c)
    BY <1>1, <1>3
  <2> QED BY <1>2, <2>1
<1>6. Granted \subseteq 1..n
  BY <1>5 DEF Granted
<1>7. Granted' = IF allowed THEN Granted \cup {n + 1} ELSE Granted
  BY <1>1, <1>4, <1>5 DEF Granted
<1> QED BY <1>1, <1>4, <1>5, <1>6, <1>7 DEF Took

\* A decision leaves the earlier decisions and their grants alone.
LEMMA TookSets ==
  ASSUME NEW q \in Requests, NEW allowed \in BOOLEAN, Took(q, allowed)
  PROVE  /\ \A k : Asked(k)' = IF k = now[q] \div Window
                               THEN Asked(k) \cup {Len(checks) + 1} ELSE Asked(k)
         /\ \A k : Inside(k)' = IF allowed /\ now[q] \div Window = k /\ clock \div Window = k
                                THEN Inside(k) \cup {Len(checks) + 1} ELSE Inside(k)
         /\ \A k : IsFiniteSet(Asked(k)) /\ IsFiniteSet(Inside(k))
         /\ \A k : Len(checks) + 1 \notin Asked(k) /\ Len(checks) + 1 \notin Inside(k)
<1>1. PICK n \in Nat : n = Len(checks)
  BY DEF Took
<1>2. /\ DOMAIN checks = 1..n /\ DOMAIN checks' = 1..(n + 1)
      /\ \A i \in 1..n : checks'[i] = checks[i]
      /\ checks'[n + 1].now = now[q] /\ checks'[n + 1].at = clock
      /\ Granted \subseteq 1..n
      /\ Granted' = IF allowed THEN Granted \cup {n + 1} ELSE Granted
      /\ 1..(n + 1) = (1..n) \cup {n + 1} /\ n + 1 \notin 1..n
  BY <1>1 DEF Took
<1>3. ASSUME NEW k PROVE Asked(k)' = IF k = now[q] \div Window THEN Asked(k) \cup {n + 1} ELSE Asked(k)
  <2> DEFINE w(i) == checks[i].now \div Window
  <2>1. \A i \in 1..n : w(i)' = w(i)
    BY <1>2
  <2>2. w(n + 1)' = now[q] \div Window
    BY <1>2
  <2>3. Asked(k) = {i \in 1..n : w(i) = k}
    BY <1>2 DEF Asked
  <2>4. Asked(k)' = {i \in (1..n) \cup {n + 1} : w(i)' = k}
    BY <1>2 DEF Asked
  <2> HIDE DEF w
  <2> QED BY <2>1, <2>2, <2>3, <2>4
<1>4. ASSUME NEW k PROVE Inside(k)' = IF allowed /\ now[q] \div Window = k /\ clock \div Window = k
                                THEN Inside(k) \cup {n + 1} ELSE Inside(k)
  <2> DEFINE w(i) == checks[i].now \div Window = k /\ checks[i].at \div Window = k
  <2>1. \A i \in 1..n : w(i)' <=> w(i)
    BY <1>2
  <2>2. w(n + 1)' <=> now[q] \div Window = k /\ clock \div Window = k
    BY <1>2
  <2>3. Inside(k) = {i \in Granted : w(i)} /\ Inside(k)' = {i \in Granted' : w(i)'}
    BY DEF Inside
  <2> HIDE DEF w
  <2> QED BY <1>2, <2>1, <2>2, <2>3
<1>5. ASSUME NEW k PROVE Asked(k) \subseteq 1..n /\ Inside(k) \subseteq 1..n
  BY <1>2 DEF Asked, Inside
<1>6. IsFiniteSet(1..n)
  BY FS_Interval
<1>7. ASSUME NEW k PROVE IsFiniteSet(Asked(k)) /\ IsFiniteSet(Inside(k))
  BY <1>5, <1>6, FS_Subset
<1>8. ASSUME NEW k PROVE n + 1 \notin Asked(k) /\ n + 1 \notin Inside(k)
  BY <1>2, <1>5
<1> QED BY <1>1, <1>3, <1>4, <1>7, <1>8

\* The limit is used up for a request with stamp t that comes next.
Shut(t) ==
    CASE strategy = "fixed_window" -> Cardinality(Asked(t \div Window)) >= Limit
      [] strategy = "sliding_window" -> Cardinality(Recent(t)) >= Limit
      [] OTHER -> \E c \in 0..t : Limit + Window * (t - c) <= Cardinality(Spree(c, t))

\* Who was refused with cause stays so, whatever is decided later.
LEMMA RefusedStep ==
  ASSUME Types, RefusedOnlyWhenUsedUp, NEW q \in Requests, NEW allowed \in BOOLEAN, Took(q, allowed),
         strategy' = strategy, ~allowed => Shut(now[q])
  PROVE  RefusedOnlyWhenUsedUp'
<1>1. PICK n \in Nat : n = Len(checks)
  BY DEF Took
<1>2. /\ DOMAIN checks = 1..n /\ DOMAIN checks' = 1..(n + 1)
      /\ \A i \in 1..n : checks'[i] = checks[i]
      /\ checks'[n + 1].now = now[q]
      /\ checks'[n + 1].verdict = "refused" => ~allowed
      /\ Granted \subseteq 1..n /\ Granted \subseteq Granted' /\ Granted' \subseteq 1..(n + 1)
  <2>1. /\ DOMAIN checks = 1..n /\ DOMAIN checks' = 1..(n + 1)
        /\ \A i \in 1..n : checks'[i] = checks[i]
        /\ checks'[n + 1].now = now[q]
        /\ checks'[n + 1].verdict = "refused" => ~allowed
        /\ Granted \subseteq 1..n
        /\ Granted' = IF allowed THEN Granted \cup {n + 1} ELSE Granted
    BY <1>1 DEF Took
  <2>2. 1..n \subseteq 1..(n + 1) /\ n + 1 \in 1..(n + 1)
    OBVIOUS
  <2>3. Granted \subseteq Granted' /\ Granted' \subseteq 1..(n + 1)
    BY <2>1, <2>2
  <2> QED BY <2>1, <2>3
<1>3. SUFFICES ASSUME NEW i \in 1..(n + 1), checks'[i].verdict = "refused",
                      NEW t, t = checks'[i].now
               PROVE  CASE strategy = "fixed_window" ->
                             Cardinality({j \in Before(i) : checks'[j].now \div Window = t \div Window}) >= Limit
                        [] strategy = "sliding_window" ->
                             Cardinality(Recent(t)' \cap Before(i)) >= Limit
                        [] OTHER ->
                             \E c \in 0..t : Limit + Window * (t - c) <= Cardinality(Spree(c, t)')
  BY <1>2 DEF RefusedOnlyWhenUsedUp, Spree
<1>4. Before(i) \subseteq 1..n
  BY DEF Before
<1>5. Recent(t)' \cap Before(i) = Recent(t) \cap Before(i)
  BY <1>2, <1>4 DEF Recent
<1>6. {j \in Before(i) : checks'[j].now \div Window = t \div Window}
      = {j \in Before(i) : checks[j].now \div Window = t \div Window}
  BY <1>2, <1>4
<1>7. ASSUME NEW c, NEW b \in Int, b <= Cardinality(Spree(c, t))
      PROVE  b <= Cardinality(Spree(c, t)')
  <2>1. Spree(c, t) \subseteq Spree(c, t)'
    BY <1>2 DEF Spree
  <2>2. IsFiniteSet(Spree(c, t)')
    <3>1. PICK S : S = Spree(c, t)'
      OBVIOUS
    <3>2. S \subseteq 1..(n + 1)
      BY <1>2, <3>1 DEF Spree
    <3>3. IsFiniteSet(1..(n + 1))
      BY FS_Interval
    <3> QED BY <3>1, <3>2, <3>3, FS_Subset
  <2>3. Cardinality(Spree(c, t)) <= Cardinality(Spree(c, t)')
        /\ Cardinality(Spree(c, t)) \in Nat /\ Cardinality(Spree(c, t)') \in Nat
    BY <2>1, <2>2, FS_Subset, FS_CardinalityType
  <2> QED BY <1>7, <2>3
<1>8. t \in Nat
  <2>1. now[q] \in Nat
    BY DEF Types
  <2> QED BY <1>2, <1>3, <2>1, StampTypes
<1>9. ASSUME NEW c \in 0..t PROVE Limit + Window * (t - c) \in Int
  BY <1>8, LimiterAssumption
\* The checks up to i are as they were.
<1>10. CASE i \in 1..n
  <2>1. checks[i].verdict = "refused" /\ checks[i].now = t
    BY <1>2, <1>3, <1>10
  <2>2. CASE strategy = "fixed_window"
    BY <1>2, <1>6, <1>10, <2>1, <2>2 DEF RefusedOnlyWhenUsedUp
  <2>3. CASE strategy = "sliding_window"
    BY <1>2, <1>5, <1>10, <2>1, <2>3 DEF RefusedOnlyWhenUsedUp
  <2>4. CASE strategy \notin {"fixed_window", "sliding_window"}
    <3>1. PICK c \in 0..t : Limit + Window * (t - c) <= Cardinality(Spree(c, t))
      BY <1>2, <1>10, <2>1, <2>4 DEF RefusedOnlyWhenUsedUp, Spree
    <3> QED BY <1>7, <1>9, <2>4, <3>1
  <2> QED BY <2>2, <2>3, <2>4
<1>11. CASE i = n + 1
  <2>1. Shut(t) /\ Before(i) = 1..n
    BY <1>2, <1>3, <1>11 DEF Before
  <2>2. CASE strategy = "fixed_window"
    <3>1. Asked(t \div Window) = {j \in Before(i) : checks[j].now \div Window = t \div Window}
      BY <1>2, <2>1 DEF Asked
    <3> QED BY <1>6, <2>1, <2>2, <3>1 DEF Shut
  <2>3. CASE strategy = "sliding_window"
    <3>1. Recent(t) = Recent(t) \cap Before(i)
      BY <1>2, <2>1 DEF Recent
    <3> QED BY <1>5, <2>1, <2>3, <3>1 DEF Shut
  <2>4. CASE strategy \notin {"fixed_window", "sliding_window"}
    <3>1. PICK c \in 0..t : Limit + Window * (t - c) <= Cardinality(Spree(c, t))
      BY <2>1, <2>4 DEF Shut
    <3> QED BY <1>7, <1>9, <2>4, <3>1
  <2> QED BY <2>2, <2>3, <2>4
<1> QED BY <1>10, <1>11

\* INCR and EXPIRE keep count of the window: while it lasts, its key is there.
LEMMA FixedStep ==
  ASSUME Types, Stamps, FixedInv, RefusedOnlyWhenUsedUp, NEW q \in Requests, FixedWindow(q)
  PROVE  FixedInv' /\ RefusedOnlyWhenUsedUp'
<1>1. PICK k \in 0..MaxTime : k = now[q] \div Window
  <2>1. now[q] \in Nat /\ clock \in 0..MaxTime /\ now[q] <= clock /\ Window \in Nat /\ Window >= 1
        /\ MaxTime \in Nat
    BY LimiterAssumption DEF Types, Stamps
  <2>2. PICK x \in Nat : x = now[q] \div Window
    BY <2>1, Division
  <2>3. x * Window <= now[q]
    BY <2>1, <2>2, Division
  <2>4. x <= x * Window /\ x * Window \in Nat
    BY <2>1
  <2>5. x \in 0..MaxTime
    BY <2>1, <2>3, <2>4
  <2> QED BY <2>2, <2>5
<1>2. PICK m \in Nat : m = IF Gone(redis.cexpire[k]) THEN 1 ELSE redis.count[k] + 1
  <2>1. PICK x \in Nat : x = redis.count[k]
    BY DEF Stamps
  <2>2. CASE Gone(redis.cexpire[k]) BY <2>2
  <2>3. CASE ~Gone(redis.cexpire[k]) BY <2>1, <2>3
  <2> QED BY <2>2, <2>3
<1>3. PICK allowed \in BOOLEAN : allowed <=> m <= Limit
  OBVIOUS
<1>4. Allowed(m) <=> allowed
  BY <1>3 DEF Allowed
<1>5. /\ strategy = "fixed_window" /\ strategy' = strategy /\ clock' = clock /\ now' = now
      /\ redis'.count = [redis.count EXCEPT ![k] = m]
      /\ redis'.cexpire = [redis.cexpire EXCEPT ![k] = clock + Window]
  <2>1. redis' = [redis EXCEPT !.count[k] = m, !.cexpire[k] = clock + Window]
    BY <1>1, <1>2 DEF FixedWindow
  <2>2. redis'.count = [redis.count EXCEPT ![k] = m]
        /\ redis'.cexpire = [redis.cexpire EXCEPT ![k] = clock + Window]
    BY <2>1 DEF Types
  <2> QED BY <2>2 DEF FixedWindow
<1>6. Took(q, allowed)
  <2>1. Decide(q, Allowed(m), IF Allowed(m) THEN "calling" ELSE "refused")
    BY <1>1, <1>2 DEF FixedWindow
  <2>2. Allowed(m) \in BOOLEAN
    BY DEF Allowed
  <2>3. Took(q, Allowed(m))
    BY <2>1, <2>2, DecideTakes
  <2> QED BY <1>4, <2>3 DEF Took
<1>7. PICK cell \in Nat : cell = clock \div Window
  BY Division DEF Types
<1>8. /\ k <= cell /\ clock < cell * Window + Window /\ k * Window \in Nat
      /\ k * Window + Window <= clock + Window
      /\ clock \in Nat /\ Window \in Nat /\ Limit \in Nat /\ k \in Nat
  <2>1. /\ clock \in Nat /\ now[q] \in Nat /\ now[q] <= clock /\ Window \in Nat /\ Limit \in Nat
        /\ k \in Nat
    BY LimiterAssumption DEF Types, Stamps
  <2>2. k * Window <= now[q] /\ k <= cell /\ clock < cell * Window + Window
    BY <1>1, <1>7, <2>1, Division, WindowOrder
  <2>3. k * Window \in Nat
    BY <2>1
  <2> QED BY <2>1, <2>2, <2>3
<1>9. ASSUME NEW j \in 0..MaxTime
      PROVE  /\ redis.cexpire[j] \in Nat \cup {Never}
             /\ redis.cexpire[j] # Never => j * Window + Window <= redis.cexpire[j]
             /\ Cardinality(Inside(j)) <= Limit
             /\ cell <= j => Cardinality(Inside(j)) <= redis.count[j]
             /\ redis.count[j] <= Cardinality(Asked(j))
             /\ redis.count[j] \in Nat
             /\ Cardinality(Inside(j)) \in Nat /\ Cardinality(Asked(j)) \in Nat
  <2>1. redis.cexpire[j] \in Nat \cup {Never} /\ redis.count[j] \in Nat
    BY DEF Stamps
  <2>2. Cardinality(Inside(j)) \in Nat /\ Cardinality(Asked(j)) \in Nat
    BY <1>6, TookSets, FS_CardinalityType
  <2> QED BY <1>7, <2>1, <2>2 DEF FixedInv
\* The key of a window that has not ended is there.
<1>10. cell <= k => m = redis.count[k] + 1
  <2>1. SUFFICES ASSUME cell <= k PROVE ~Gone(redis.cexpire[k])
    BY <1>2
  <2>2. clock < k * Window + Window
    BY <1>8, <2>1
  <2>3. PICK e \in Nat \cup {Never} : e = redis.cexpire[k]
    BY <1>9
  <2>4. e # Never => k * Window + Window <= e
    BY <1>9, <2>3
  <2>5. ~Gone(e)
    BY <1>8, <2>2, <2>4 DEF Gone
  <2> QED BY <2>3, <2>5
<1>11. m <= Cardinality(Asked(k)) + 1
  BY <1>2, <1>9
<1>12. ASSUME NEW j
       PROVE  /\ Cardinality(Asked(j)') = IF j = k THEN Cardinality(Asked(j)) + 1
                                                  ELSE Cardinality(Asked(j))
              /\ Cardinality(Inside(j)') = IF allowed /\ k = j /\ cell = j
                                           THEN Cardinality(Inside(j)) + 1 ELSE Cardinality(Inside(j))
  <2> DEFINE a == Len(checks) + 1
  <2>1. /\ Asked(j)' = IF j = k THEN Asked(j) \cup {a} ELSE Asked(j)
        /\ Inside(j)' = IF allowed /\ k = j /\ cell = j THEN Inside(j) \cup {a} ELSE Inside(j)
    BY <1>1, <1>6, <1>7, TookSets
  <2>2. /\ a \notin Asked(j) /\ IsFiniteSet(Asked(j))
        /\ a \notin Inside(j) /\ IsFiniteSet(Inside(j))
    BY <1>6, TookSets
  <2> HIDE DEF a
  <2>3. /\ Cardinality(Inside(j) \cup {a}) = Cardinality(Inside(j)) + 1
        /\ Cardinality(Asked(j) \cup {a}) = Cardinality(Asked(j)) + 1
    BY <2>2, FS_AddElement
  <2> QED BY <2>1, <2>3
<1>13. ASSUME NEW j \in 0..MaxTime
       PROVE  /\ redis'.cexpire[j] # Never => j * Window + Window <= redis'.cexpire[j]
              /\ Cardinality(Inside(j)') <= Limit
              /\ cell <= j => Cardinality(Inside(j)') <= redis'.count[j]
              /\ redis'.count[j] <= Cardinality(Asked(j)')
  <2>1. CASE j = k
    <3>1. redis'.cexpire[k] = clock + Window /\ redis'.count[k] = m
      BY <1>5 DEF Stamps
    <3>2. PICK card \in Nat : card = Cardinality(Inside(k))
      BY <1>9
    <3>3. card <= Limit /\ (cell <= k => card <= redis.count[k]) /\ redis.count[k] \in Nat
      BY <1>9, <3>2
    <3>4. Cardinality(Inside(k)') = IF allowed /\ k = cell THEN card + 1 ELSE card
      BY <1>12, <3>2
    <3>5. Cardinality(Inside(k)') <= Limit /\ (cell <= k => Cardinality(Inside(k)') <= m)
      BY <1>3, <1>8, <1>10, <3>3, <3>4
    <3>6. m <= Cardinality(Asked(k)')
      BY <1>11, <1>12
    <3> QED BY <1>8, <2>1, <3>1, <3>5, <3>6
  <2>2. CASE j # k
    <3>1. redis'.cexpire[j] = redis.cexpire[j] /\ redis'.count[j] = redis.count[j]
      BY <1>5, <2>2 DEF Stamps
    <3>2. Cardinality(Inside(j)') = Cardinality(Inside(j)) /\ Cardinality(Asked(j)') = Cardinality(Asked(j))
      BY <1>12, <2>2
    <3> QED BY <1>9, <3>1, <3>2
  <2> QED BY <2>1, <2>2
<1>14. FixedInv'
  BY <1>5, <1>7, <1>13 DEF FixedInv
<1>15. ~allowed => Shut(now[q])
  <2>1. Cardinality(Asked(k)) \in Nat
    BY <1>9
  <2>2. ~allowed => Cardinality(Asked(k)) >= Limit
    BY <1>3, <1>8, <1>11, <2>1
  <2> QED BY <1>1, <1>5, <2>2 DEF Shut
<1>16. RefusedOnlyWhenUsedUp'
  BY <1>5, <1>6, <1>15, RefusedStep
<1> QED BY <1>14, <1>16

\* The stamps of a set of decisions are no more than the decisions.
LEMMA StampsOf ==
  ASSUME NEW R, IsFiniteSet(R)
  PROVE  /\ IsFiniteSet({checks[j].now : j \in R})
         /\ Cardinality({checks[j].now : j \in R}) <= Cardinality(R)
<1> DEFINE I == {checks[j].now : j \in R}
           f == [j \in R |-> checks[j].now]
<1>1. f \in Surjection(R, I)
  BY DEF Surjection
<1> QED BY <1>1, FS_Surjection

\* Decisions with different stamps are no more than a set that has their stamps.
LEMMA StampsApart ==
  ASSUME NEW R, NEW S, IsFiniteSet(S), \A j \in R : checks[j].now \in S,
         \A j, k \in R : j # k => checks[j].now # checks[k].now
  PROVE  IsFiniteSet(R) /\ Cardinality(R) <= Cardinality(S)
<1> DEFINE f == [j \in R |-> checks[j].now]
<1>1. f \in Injection(R, S)
  BY DEF Injection, IsInjective
<1> QED BY <1>1, FS_Injection

\* A decision takes no grant back, and adds one of its own.
LEMMA SpreeGrows ==
  ASSUME NEW q \in Requests, NEW allowed \in BOOLEAN, Took(q, allowed), NEW c, NEW t
  PROVE  /\ Cardinality(Spree(c, t)) \in Nat /\ Cardinality(Spree(c, t)') \in Nat
         /\ Cardinality(Spree(c, t)) <= Cardinality(Spree(c, t)')
         /\ allowed /\ c <= now[q] /\ now[q] <= t =>
               Cardinality(Spree(c, t)') = Cardinality(Spree(c, t)) + 1
<1>1. PICK n \in Nat : n = Len(checks)
  BY DEF Took
<1>2. /\ \A i \in 1..n : checks'[i] = checks[i]
      /\ checks'[n + 1].now = now[q]
      /\ Granted \subseteq 1..n
      /\ Granted' = IF allowed THEN Granted \cup {n + 1} ELSE Granted
  BY <1>1 DEF Took
<1>3. PICK S : S = Spree(c, t)
  OBVIOUS
<1>4. S \subseteq 1..n /\ n + 1 \notin S
  <2>1. n + 1 \notin 1..n
    OBVIOUS
  <2> QED BY <1>2, <1>3, <2>1 DEF Spree
<1>5. Spree(c, t)' = IF allowed /\ c <= now[q] /\ now[q] <= t THEN S \cup {n + 1} ELSE S
  <2> DEFINE within(i) == c <= checks[i].now /\ checks[i].now <= t
  <2>1. \A i \in 1..n : within(i)' <=> within(i)
    BY <1>2
  <2>2. within(n + 1)' <=> c <= now[q] /\ now[q] <= t
    BY <1>2
  <2>3. S = {i \in Granted : within(i)} /\ Spree(c, t)' = {i \in Granted' : within(i)'}
    BY <1>3 DEF Spree
  <2> HIDE DEF within
  <2> QED BY <1>2, <2>1, <2>2, <2>3
<1>6. IsFiniteSet(S) /\ Cardinality(S) \in Nat
  <2>1. IsFiniteSet(1..n)
    BY FS_Interval
  <2> QED BY <1>4, <2>1, FS_Subset, FS_CardinalityType
<1>7. Cardinality(S \cup {n + 1}) = Cardinality(S) + 1
  BY <1>4, <1>6, FS_AddElement
<1>8. PICK T : T = Spree(c, t)'
  OBVIOUS
<1>9. CASE allowed /\ c <= now[q] /\ now[q] <= t
  BY <1>3, <1>5, <1>6, <1>7, <1>9
<1>10. CASE ~(allowed /\ c <= now[q] /\ now[q] <= t)
  <2>1. Spree(c, t)' = S
    BY <1>5, <1>10
  <2> QED BY <1>3, <1>6, <1>10, <2>1
<1> QED BY <1>9, <1>10

\* The balance of a bucket that has lost tokens to grants from c to t.
LEMMA Refilled ==
  ASSUME NEW c \in Nat, NEW l \in Nat, NEW t \in Nat, c <= l, l <= t
  PROVE  /\ Window * c \in Nat /\ Window * l \in Nat /\ Window * t \in Nat
         /\ Window * c <= Window * l /\ Window * l <= Window * t
         /\ (t - l) * Window = Window * t - Window * l
         /\ Window * (t - c) = Window * t - Window * c
<1>1. Window \in Nat /\ c <= t
  BY LimiterAssumption
<1>2. Window * (t - c) = (t - c) * Window
  BY <1>1
<1> QED BY <1>1, <1>2, Refill

\* The sorted set keeps the stamps of the window.
LEMMA SlidingStep ==
  ASSUME Types, Stamps, SlidingInv, RefusedOnlyWhenUsedUp, SlidingWindowLimit,
         NEW q \in Requests, SlidingWindow(q)
  PROVE  SlidingInv' /\ RefusedOnlyWhenUsedUp' /\ SlidingWindowLimit'
<1>1. PICK t \in Nat : t = now[q]
  BY DEF Types
<1>2. PICK old : old = IF Gone(redis.zexpire) THEN {} ELSE redis.zset
  OBVIOUS
<1>3. PICK z : z = InWindow(old, t) \cup {t}
  OBVIOUS
<1>4. PICK y : y = {s \in z : s <= t}
  OBVIOUS
<1>5. PICK n \in Nat : n = Len(checks)
  <2>1. checks \in Seq(Decisions)
    BY DEF Types
  <2> QED BY <2>1
<1>6. /\ strategy = "sliding_window" /\ strategy' = strategy /\ clock' = clock
      /\ redis'.zset = z /\ redis'.zexpire = clock + Window
      /\ Decide(q, Allowed(Cardinality(y)), IF Allowed(Cardinality(y)) THEN "calling" ELSE "oldest")
  <2>1. redis' = [redis EXCEPT !.zset = z, !.zexpire = clock + Window]
        /\ Decide(q, Allowed(Cardinality(y)), IF Allowed(Cardinality(y)) THEN "calling" ELSE "oldest")
    BY <1>1, <1>2, <1>3, <1>4 DEF SlidingWindow
  <2>2. redis'.zset = z /\ redis'.zexpire = clock + Window
    BY <2>1 DEF Types
  <2> QED BY <2>1, <2>2 DEF SlidingWindow
<1>7. PICK allowed \in BOOLEAN : allowed <=> Cardinality(y) <= Limit
  OBVIOUS
<1>8. Took(q, allowed)
  <2>1. Allowed(Cardinality(y)) \in BOOLEAN /\ (Allowed(Cardinality(y)) <=> allowed)
    BY <1>7 DEF Allowed
  <2>2. Took(q, Allowed(Cardinality(y)))
    BY <1>6, <2>1, DecideTakes
  <2> QED BY <2>1, <2>2 DEF Took
<1>9. /\ clock \in Nat /\ t <= clock /\ Window \in Nat /\ Window >= 1 /\ Limit \in Nat
      /\ \A j \in 1..n : checks[j].now \in Nat /\ checks[j].now <= clock
      /\ DOMAIN checks = 1..n /\ redis.zexpire \in Nat \cup {Never}
  <2>1. clock \in Nat /\ t <= clock /\ Window \in Nat /\ Window >= 1 /\ Limit \in Nat
        /\ redis.zexpire \in Nat \cup {Never}
    BY <1>1, LimiterAssumption DEF Types, Stamps
  <2>2. DOMAIN checks = 1..n
    BY <1>5, <1>8 DEF Took
  <2>3. ASSUME NEW j \in 1..n
        PROVE  checks[j].now \in Nat /\ checks[j].now <= clock
    <3>1. checks[j].now \in Nat /\ checks[j].at \in Nat
      BY <2>2, StampTypes
    <3>2. checks[j].now <= checks[j].at /\ checks[j].at <= clock
      BY <2>2 DEF Stamps
    <3> QED BY <2>1, <3>1, <3>2
  <2> QED BY <2>1, <2>2, <2>3
<1>10. /\ DOMAIN checks' = 1..(n + 1) /\ \A j \in 1..n : checks'[j] = checks[j]
       /\ checks'[n + 1].now = t /\ checks'[n + 1].at = clock
       /\ Granted \subseteq 1..n
       /\ Granted' = IF allowed THEN Granted \cup {n + 1} ELSE Granted
  BY <1>1, <1>5, <1>8 DEF Took
<1>11. /\ \A s \in redis.zset : \E j \in 1..n : checks[j].now = s
       /\ \A j \in 1..n : /\ checks[j].now + Window <= redis.zexpire
                          /\ clock < checks[j].now + Window => checks[j].now \in redis.zset
  BY <1>9 DEF SlidingInv
\* What the old entries are.
<1>12. old \subseteq redis.zset /\ old \subseteq Nat
       /\ \A j \in 1..n : clock < checks[j].now + Window => checks[j].now \in old
  <2>1. old \subseteq redis.zset
    BY <1>2
  <2>2. redis.zset \subseteq Nat
    BY <1>9, <1>11
  <2>3. ASSUME NEW j \in 1..n, clock < checks[j].now + Window PROVE checks[j].now \in old
    <3>1. PICK e \in Nat \cup {Never} : e = redis.zexpire
      BY <1>9
    <3>2. PICK s \in Nat : s = checks[j].now
      BY <1>9
    <3>3. s + Window <= e /\ s \in redis.zset
      BY <1>11, <2>3, <3>1, <3>2
    <3>4. clock < e
      BY <1>9, <2>3, <3>1, <3>2, <3>3 DEF Never
    <3>5. ~Gone(e)
      BY <1>9, <3>1, <3>4 DEF Gone, Never
    <3> QED BY <1>2, <3>1, <3>2, <3>3, <3>5
  <2> QED BY <2>1, <2>2, <2>3
<1>13. z \subseteq Nat /\ t \in z /\ t \in y
       /\ \A j \in 1..n : clock < checks[j].now + Window => checks[j].now \in z
  <2>1. \A s : s \in z <=> (s \in old /\ s + Window > t) \/ s = t
    BY <1>3 DEF InWindow
  <2>2. z \subseteq Nat /\ t \in z
    BY <1>12, <2>1
  <2>3. t \in y
    BY <1>4, <2>2
  <2>4. ASSUME NEW j \in 1..n, clock < checks[j].now + Window PROVE checks[j].now \in z
    <3>1. checks[j].now \in old
      BY <1>12, <2>4
    <3>2. PICK s \in Nat : s = checks[j].now
      BY <1>9
    <3>3. s + Window > t
      BY <1>9, <2>4, <3>2
    <3> QED BY <2>1, <3>1, <3>2, <3>3
  <2> QED BY <2>2, <2>3, <2>4
<1>14. SlidingInv'
  <2>1. ASSUME NEW s \in z PROVE \E j \in 1..(n + 1) : checks'[j].now = s
    <3>1. CASE s = t
      <4>1. n + 1 \in 1..(n + 1)
        OBVIOUS
      <4> QED BY <1>10, <3>1, <4>1
    <3>2. CASE s # t
      <4>1. s \in redis.zset
        BY <1>3, <1>12, <3>2 DEF InWindow
      <4>2. PICK j \in 1..n : checks[j].now = s
        BY <1>11, <4>1
      <4>3. j \in 1..(n + 1)
        OBVIOUS
      <4> QED BY <1>10, <4>2, <4>3
    <3> QED BY <3>1, <3>2
  <2>2. ASSUME NEW j \in 1..(n + 1)
        PROVE  /\ checks'[j].now + Window <= clock + Window
               /\ clock < checks'[j].now + Window => checks'[j].now \in z
    <3>1. CASE j \in 1..n
      <4>1. checks'[j] = checks[j] /\ checks[j].now \in Nat /\ checks[j].now <= clock
        BY <1>9, <1>10, <3>1
      <4> QED BY <1>9, <1>13, <3>1, <4>1
    <3>2. CASE j = n + 1
      BY <1>9, <1>10, <1>13, <3>2
    <3> QED BY <3>1, <3>2
  <2> QED BY <1>6, <1>10, <2>1, <2>2 DEF SlidingInv
\* The entries up to the stamp, other than the stamp, are those of recent decisions.
<1>15. /\ IsFiniteSet(Recent(t)) /\ Cardinality(Recent(t)) \in Nat
       /\ IsFiniteSet(y) /\ Cardinality(y) \in Nat
       /\ Cardinality(y) <= Cardinality(Recent(t)) + 1
  <2>1. PICK R : R = Recent(t)
    OBVIOUS
  <2>2. R \subseteq 1..n /\ IsFiniteSet(1..n)
    BY <1>9, <2>1, FS_Interval DEF Recent
  <2>3. IsFiniteSet(R)
    BY <2>2, FS_Subset
  <2>4. PICK I : I = {checks[j].now : j \in R}
    OBVIOUS
  <2>5. IsFiniteSet(I) /\ Cardinality(I) <= Cardinality(R)
    BY <2>3, <2>4, StampsOf
  <2>6. y \subseteq I \cup {t}
    <3> SUFFICES ASSUME NEW s \in y, s # t PROVE s \in I
      OBVIOUS
    <3>1. s \in old /\ s + Window > t /\ s <= t
      BY <1>3, <1>4 DEF InWindow
    <3>2. PICK j \in 1..n : checks[j].now = s
      BY <1>11, <1>12, <3>1
    <3>3. j \in R
      BY <1>9, <2>1, <3>1, <3>2 DEF Recent
    <3> QED BY <2>4, <3>2, <3>3
  <2>7. /\ IsFiniteSet(I \cup {t})
        /\ Cardinality(I \cup {t}) = IF t \in I THEN Cardinality(I) ELSE Cardinality(I) + 1
    BY <2>5, FS_AddElement
  <2>8. IsFiniteSet(y) /\ Cardinality(y) <= Cardinality(I \cup {t})
    BY <2>6, <2>7, FS_Subset
  <2>9. Cardinality(y) \in Nat /\ Cardinality(I) \in Nat /\ Cardinality(R) \in Nat
    BY <2>3, <2>5, <2>8, FS_CardinalityType
  <2>10. Cardinality(y) <= Cardinality(R) + 1
    BY <2>5, <2>7, <2>8, <2>9
  <2> QED BY <2>1, <2>3, <2>8, <2>9, <2>10
<1>16. RefusedOnlyWhenUsedUp'
  <2>1. ~allowed => Cardinality(Recent(t)) >= Limit
    BY <1>7, <1>9, <1>15
  <2>2. ~allowed => Shut(now[q])
    BY <1>1, <1>6, <2>1 DEF Shut
  <2> QED BY <1>6, <1>8, <2>2, RefusedStep
<1>17. SlidingWindowLimit'
  <2> SUFFICES ASSUME NEW i \in Granted',
                      checks'[i].at = checks'[i].now,
                      \A j \in Before(i) : checks'[j].now < checks'[i].now,
                      \A j, k \in Before(i) : j # k => checks'[j].now # checks'[k].now,
                      NEW u, u = checks'[i].now
               PROVE  Cardinality(Granted' \cap Recent(u)' \cap Before(i)) < Limit
    BY DEF SlidingWindowLimit, Recent
  <2>1. i \in 1..(n + 1) /\ Before(i) \subseteq 1..n
    <3>1. Granted' \subseteq 1..(n + 1)
      <4>1. 1..n \subseteq 1..(n + 1) /\ n + 1 \in 1..(n + 1)
        OBVIOUS
      <4> QED BY <1>10, <4>1
    <3> QED BY <3>1 DEF Before
  <2>2. Recent(u)' \cap Before(i) = Recent(u) \cap Before(i)
    BY <1>9, <1>10, <2>1 DEF Recent
  <2>3. Granted' \cap Before(i) = Granted \cap Before(i)
    <3>1. n + 1 \notin Before(i)
      BY <2>1
    <3> QED BY <1>10, <3>1
  <2>4. Granted' \cap Recent(u)' \cap Before(i) = Granted \cap Recent(u) \cap Before(i)
    BY <2>2, <2>3
  <2>5. \A j \in Before(i) : checks'[j] = checks[j]
    BY <1>10, <2>1
  <2>6. CASE i \in 1..n
    <3>1. checks'[i] = checks[i] /\ i \in Granted
      BY <1>10, <2>6
    <3>2. Cardinality(Granted \cap Recent(u) \cap Before(i)) < Limit
      BY <1>6, <2>5, <3>1 DEF SlidingWindowLimit
    <3> QED BY <2>4, <3>2
  <2>7. CASE i = n + 1
    <3>1. i \notin Granted /\ u = t /\ clock = t /\ Before(i) = 1..n
      BY <1>10, <2>7 DEF Before
    <3>2. allowed
      BY <1>10, <3>1
    <3>3. PICK R : R = Granted \cap Recent(u) \cap Before(i)
      OBVIOUS
    <3>4. IsFiniteSet(y \ {t}) /\ Cardinality(y \ {t}) = Cardinality(y) - 1
      BY <1>13, <1>15, FS_RemoveElement
    <3>5. ASSUME NEW j \in R PROVE checks[j].now \in y \ {t}
      <4>1. PICK s \in Nat : s = checks[j].now
        BY <1>9, <3>1, <3>3
      <4>2. s < t /\ t < s + Window
        BY <1>10, <2>5, <2>7, <3>1, <3>3, <4>1 DEF Recent
      <4>3. s \in z
        BY <1>13, <3>1, <3>3, <4>1, <4>2
      <4> QED BY <1>4, <4>1, <4>2, <4>3
    <3>6. \A j, k \in R : j # k => checks[j].now # checks[k].now
      BY <2>5, <3>3
    <3>7. IsFiniteSet(R) /\ Cardinality(R) <= Cardinality(y \ {t})
      BY <3>4, <3>5, <3>6, StampsApart
    <3>8. Cardinality(R) \in Nat
      BY <3>7, FS_CardinalityType
    <3>9. Cardinality(R) < Limit
      BY <1>7, <1>9, <1>15, <3>2, <3>4, <3>7, <3>8
    <3> QED BY <2>4, <3>3, <3>9
  <2> QED BY <2>1, <2>6, <2>7
<1> QED BY <1>14, <1>16, <1>17

\* Tokens are full, or what there was and what was refilled since.
LEMMA TokensRefilled ==
  ASSUME NEW b \in Buckets, NEW t \in Nat, b # NoBucket => b.last <= t, Tokens(b, t) # Limit
  PROVE  b # NoBucket /\ Tokens(b, t) = b.tokens + Window * t - Window * b.last
<1>1. b # NoBucket
  BY DEF Tokens
<1>2. PICK k \in 0..Limit, l \in Nat : k = b.tokens /\ l = b.last
  BY <1>1 DEF Buckets
<1>3. Window * l \in Nat /\ Window * t \in Nat /\ (t - l) * Window = Window * t - Window * l
  BY <1>1, <1>2, Refill
<1>4. k + (t - l) * Window \in Int /\ Limit \in Int
  BY <1>3, LimiterAssumption
<1>5. Tokens(b, t) = IF Limit <= k + (t - l) * Window THEN Limit ELSE k + (t - l) * Window
  BY <1>1, <1>2, <1>4, MinOfTwo DEF Tokens
<1> QED BY <1>1, <1>2, <1>3, <1>4, <1>5

\* There are no fewer grants in a longer time.
LEMMA SpreeWider ==
  ASSUME Types, NEW c \in Nat, NEW l \in Nat, NEW t \in Nat, l <= t
  PROVE  /\ Cardinality(Spree(c, l)) \in Nat /\ Cardinality(Spree(c, t)) \in Nat
         /\ Cardinality(Spree(c, l)) <= Cardinality(Spree(c, t))
<1>1. Spree(c, l) \subseteq Spree(c, t)
  BY StampTypes DEF Spree, Granted
<1>2. IsFiniteSet(Spree(c, t))
  <2>1. IsFiniteSet(Granted)
    BY GrantsFinite
  <2>2. Spree(c, t) \subseteq Granted
    BY DEF Spree
  <2> QED BY <2>1, <2>2, FS_Subset
<1> QED BY <1>1, <1>2, FS_Subset, FS_CardinalityType

\* More grants leave a bucket that was drained drained.
LEMMA DrainedStays ==
  ASSUME NEW b \in Buckets, NEW q \in Requests, NEW allowed \in BOOLEAN, Took(q, allowed), Drained(b)
  PROVE  b # NoBucket => \E c \in 0..b.last :
            Limit + Window * b.last <= b.tokens + Window * c + Cardinality(Spree(c, b.last)')
<1> SUFFICES ASSUME b # NoBucket
             PROVE  \E c \in 0..b.last :
                       Limit + Window * b.last <= b.tokens + Window * c + Cardinality(Spree(c, b.last)')
  OBVIOUS
<1>1. PICK k \in Nat, t \in Nat : k = b.tokens /\ t = b.last
  BY LimiterAssumption DEF Buckets
<1>2. PICK c \in 0..t : Limit + Window * t <= k + Window * c + Cardinality(Spree(c, t))
  BY <1>1 DEF Drained
<1>3. PICK x \in Nat, y \in Nat : x = Cardinality(Spree(c, t)) /\ y = Cardinality(Spree(c, t)') /\ x <= y
  BY SpreeGrows
<1>4. PICK v \in Nat, w \in Nat : v = Window * t /\ w = Window * c
  BY LimiterAssumption
<1>5. Limit + v <= k + w + y
  BY <1>2, <1>3, <1>4, LimiterAssumption
<1> QED BY <1>1, <1>3, <1>4, <1>5

\* What is written back is drained as well: a full bucket is drained from now on,
\* another one since the time its copy was.
LEMMA WriteDrains ==
  ASSUME IInv, DrainInv, RefusedOnlyWhenUsedUp, NEW q \in Requests, WriteBucket(q)
  PROVE  DrainInv' /\ RefusedOnlyWhenUsedUp'
<1>1. Types /\ PlaceInv /\ pc[q] = "writing" /\ strategy = "token_bucket" /\ BucketInv
  BY DEF IInv, Types, WriteBucket
<1>2. PICK t \in Nat : t = now[q]
  BY <1>1 DEF Types
<1>3. PICK b \in Buckets : b = copy[q].bucket
  BY <1>1 DEF Types
<1>4. b # NoBucket => b.last <= t
  BY <1>1, <1>2, <1>3 DEF BucketInv, Older
<1>5. PICK m \in 0..Limit : m = Tokens(b, t)
  BY <1>4, TokensBounds
<1>6. PICK allowed \in BOOLEAN : allowed <=> m >= 1
  OBVIOUS
<1>7. PICK r : r = [tokens |-> Spent(m), last |-> t]
  OBVIOUS
<1>8. /\ strategy' = strategy /\ UNCHANGED <<now, calls>> /\ redis'.bucket = r
      /\ \A p \in Requests \ {q} : copy'[p] = copy[p]
      /\ Decide(q, m >= 1, IF m >= 1 THEN "expiring" ELSE "expiring_refused")
  <2>1. /\ redis' = [redis EXCEPT !.bucket = r, !.bexpire = redis'.bexpire]
        /\ copy' = [copy EXCEPT ![q] = NoCopy]
        /\ Decide(q, m >= 1, IF m >= 1 THEN "expiring" ELSE "expiring_refused")
        /\ UNCHANGED <<strategy, now, calls>>
    BY <1>1, <1>2, <1>3, <1>5, <1>7 DEF WriteBucket, Types
  <2>2. redis'.bucket = r
    BY <1>1, <2>1 DEF Types
  <2>3. \A p \in Requests \ {q} : copy'[p] = copy[p]
    BY <1>1, <2>1 DEF Types
  <2> QED BY <2>1, <2>2, <2>3
<1>9. Took(q, allowed)
  <2>1. (m >= 1) \in BOOLEAN
    OBVIOUS
  <2>2. Took(q, m >= 1)
    BY <1>1, <1>8, <2>1, DecideTakes
  <2> QED BY <1>6, <2>2 DEF Took
<1>10. pc'[q] \notin {"computing", "writing"} /\ \A p \in Requests \ {q} : pc'[p] = pc[p]
  BY <1>1, <1>8 DEF Decide, GoTo, OnError, Types
<1>11. Spent(m) \in Nat /\ Spent(m) = IF allowed THEN m - 1 ELSE m
  BY <1>6, LimiterAssumption DEF Spent
\* Since when the bucket is drained.
<1>12. \E c \in 0..t : /\ Limit + Window * t <= Spent(m) + Window * c + Cardinality(Spree(c, t)')
                       /\ ~allowed => Limit + Window * (t - c) <= Cardinality(Spree(c, t))
  <2>1. Limit \in Nat /\ Limit >= 1
    BY LimiterAssumption
  <2>2. CASE m = Limit
    <3>1. allowed
      BY <1>6, <2>1, <2>2
    <3>2. PICK x \in Nat : x = Cardinality(Spree(t, t)) /\ Cardinality(Spree(t, t)') = x + 1
      <4>1. t <= now[q] /\ now[q] <= t
        BY <1>2
      <4>2. /\ Cardinality(Spree(t, t)) \in Nat
            /\ Cardinality(Spree(t, t)') = Cardinality(Spree(t, t)) + 1
        BY <1>9, <3>1, <4>1, SpreeGrows
      <4> QED BY <4>2
    <3>3. PICK v \in Nat : v = Window * t
      BY LimiterAssumption
    <3>4. Limit + v <= Spent(m) + v + (x + 1)
      BY <1>11, <2>1, <2>2, <3>1
    <3>5. t \in 0..t
      OBVIOUS
    <3> QED BY <3>1, <3>2, <3>3, <3>4, <3>5
  <2>3. CASE m # Limit
    <3>1. b # NoBucket /\ Tokens(b, t) = b.tokens + Window * t - Window * b.last
      BY <1>4, <1>5, <2>3, TokensRefilled
    <3>2. PICK k \in Nat, l \in Nat : k = b.tokens /\ l = b.last
      BY <3>1, LimiterAssumption DEF Buckets
    <3>3. Drained(b)
      BY <1>1, <1>3 DEF DrainInv
    <3>4. PICK c \in 0..l : Limit + Window * l <= k + Window * c + Cardinality(Spree(c, l))
      BY <3>1, <3>2, <3>3 DEF Drained
    <3>5. PICK u \in Nat, v \in Nat, w \in Nat :
            /\ u = Window * c /\ v = Window * l /\ w = Window * t
            /\ Window * (t - c) = w - u
      <4>1. c \in Nat /\ c <= l /\ l <= t
        BY <1>4, <3>1, <3>2
      <4>2. /\ Window * c \in Nat /\ Window * l \in Nat /\ Window * t \in Nat
            /\ Window * (t - c) = Window * t - Window * c
        BY <4>1, Refilled
      <4> QED BY <4>2
    <3>6. PICK x \in Nat, y \in Nat, z \in Nat :
            /\ x = Cardinality(Spree(c, l)) /\ y = Cardinality(Spree(c, t)) /\ z = Cardinality(Spree(c, t)')
            /\ x <= y /\ y <= z /\ (allowed => z = y + 1)
      <4>1. c \in Nat /\ l <= t /\ c <= t
        BY <1>4, <3>1, <3>2
      <4>2. /\ Cardinality(Spree(c, l)) \in Nat /\ Cardinality(Spree(c, t)) \in Nat
            /\ Cardinality(Spree(c, l)) <= Cardinality(Spree(c, t))
        BY <1>1, <4>1, SpreeWider
      <4>3. /\ Cardinality(Spree(c, t)') \in Nat
            /\ Cardinality(Spree(c, t)) <= Cardinality(Spree(c, t)')
            /\ allowed => Cardinality(Spree(c, t)') = Cardinality(Spree(c, t)) + 1
        BY <1>2, <1>9, <4>1, SpreeGrows
      <4> QED BY <4>2, <4>3
    <3>7. m = k + w - v /\ Limit + v <= k + u + x
      BY <1>5, <3>1, <3>2, <3>4, <3>5, <3>6
    <3>8. Limit + w <= Spent(m) + u + z
      BY <1>11, <2>1, <3>6, <3>7
    <3>9. ~allowed => Limit + (w - u) <= y
      BY <1>6, <2>1, <3>6, <3>7
    <3>10. c \in 0..t
      BY <1>4, <3>1, <3>2
    <3> QED BY <3>5, <3>6, <3>8, <3>9, <3>10
  <2> QED BY <2>2, <2>3
<1>13. RefusedOnlyWhenUsedUp'
  <2>1. ~allowed => Shut(now[q])
    BY <1>1, <1>2, <1>12 DEF Shut
  <2> QED BY <1>1, <1>8, <1>9, <2>1, RefusedStep
<1>14. Drained(redis.bucket)'
  <2>1. r.tokens = Spent(m) /\ r.last = t
    BY <1>7
  <2> QED BY <1>8, <1>12, <2>1 DEF Drained
<1>15. ASSUME NEW p \in Requests, pc'[p] \in {"computing", "writing"}
       PROVE  Drained(copy[p].bucket)'
  <2>1. p # q /\ pc'[p] = pc[p] /\ copy'[p] = copy[p]
    BY <1>8, <1>10, <1>15
  <2>2. PICK d \in Buckets : d = copy[p].bucket
    BY <1>1 DEF Types
  <2>3. Drained(d)
    BY <1>15, <2>1, <2>2 DEF DrainInv
  <2>4. d # NoBucket => \E c \in 0..d.last :
           Limit + Window * d.last <= d.tokens + Window * c + Cardinality(Spree(c, d.last)')
    BY <1>9, <2>3, DrainedStays
  <2> QED BY <2>1, <2>2, <2>4 DEF Drained
<1>16. DrainInv'
  BY <1>14, <1>15 DEF DrainInv
<1> QED BY <1>13, <1>16

\* Steps that decide nothing leave what the windows are based on alone.
Idle ==
    /\ UNCHANGED <<strategy, checks>>
    /\ redis'.zset = redis.zset /\ redis'.zexpire = redis.zexpire
    /\ redis'.count = redis.count /\ redis'.cexpire = redis.cexpire
    /\ redis'.bucket = redis.bucket
    /\ clock' \in {clock, clock + 1} /\ clock' <= MaxTime
    /\ \A q \in Requests : now'[q] <= clock
    /\ \A q \in Requests : pc'[q] \in {"computing", "writing"} =>
          \/ pc[q] \in {"computing", "writing"} /\ copy'[q] = copy[q]
          \/ copy'[q].bucket \in {NoBucket, redis.bucket}

LEMMA IdleSteps ==
  ASSUME Types, Stamps, [Next]_lvars,
         \A q \in Requests : ~FixedWindow(q) /\ ~SlidingWindow(q) /\ ~WriteBucket(q)
  PROVE  Idle
<1>1. clock \in Nat /\ clock <= MaxTime /\ MaxTime \in Nat /\ \A q \in Requests : now[q] <= clock
  BY LimiterAssumption DEF Stamps
<1>2. CASE Tick
  BY <1>1, <1>2 DEF Tick, Idle
<1>3. CASE UNCHANGED lvars
  BY <1>1, <1>3 DEF lvars, Idle
<1>4. ASSUME NEW q \in Requests,
             Arrive(q) \/ Oldest(q) \/ ExpireBucket(q) \/ Refuse(q) \/ Call(q) \/ RedisFails(q)
      PROVE  Idle
  <2>1. UNCHANGED <<strategy, checks, clock, copy>>
    BY <1>4 DEF Arrive, Oldest, ExpireBucket, Refuse, Call, RedisFails
  <2>2. redis' = [redis EXCEPT !.bexpire = redis'.bexpire]
    BY <1>4 DEF Types, Arrive, Oldest, ExpireBucket, Refuse, Call, RedisFails
  <2>3. /\ redis'.zset = redis.zset /\ redis'.zexpire = redis.zexpire
        /\ redis'.count = redis.count /\ redis'.cexpire = redis.cexpire
        /\ redis'.bucket = redis.bucket
    BY <2>2 DEF Types
  <2>4. now' = now \/ now' = [now EXCEPT ![q] = clock]
    BY <1>4 DEF Arrive, Oldest, ExpireBucket, Refuse, Call, RedisFails
  <2>5. ASSUME NEW p \in Requests PROVE now'[p] <= clock
    <3>1. now \in [Requests -> Nat]
      BY DEF Types
    <3>2. now'[p] = now[p] \/ now'[p] = clock
      BY <2>4, <3>1
    <3> QED BY <1>1, <3>2
  <2>6. \A p \in Requests : pc'[p] \in {"computing", "writing"} => pc'[p] = pc[p]
    BY <1>4 DEF Types, Arrive, Oldest, ExpireBucket, Refuse, Call, RedisFails, GoTo, OnError
  <2> QED BY <1>1, <2>1, <2>3, <2>5, <2>6 DEF Idle
<1>5. ASSUME NEW q \in Requests, ReadBucket(q) PROVE Idle
  <2>1. UNCHANGED <<strategy, checks, clock, now, redis>>
    BY <1>5 DEF ReadBucket
  <2>2. PICK b \in {NoBucket, redis.bucket}, g \in Nat : copy' = [copy EXCEPT ![q] = [bucket |-> b, seen |-> g]]
    <3>1. Len(checks) \in Nat BY DEF Types
    <3> QED BY <1>5, <3>1 DEF ReadBucket
  <2>3. pc' = [pc EXCEPT ![q] = "computing"]
    BY <1>5 DEF ReadBucket, GoTo
  <2>4. ASSUME NEW p \in Requests, pc'[p] \in {"computing", "writing"}
        PROVE  \/ pc[p] \in {"computing", "writing"} /\ copy'[p] = copy[p]
               \/ copy'[p].bucket \in {NoBucket, redis.bucket}
    <3>1. CASE p = q
      BY <2>2, <3>1 DEF Types
    <3>2. CASE p # q
      BY <2>2, <2>3, <2>4, <3>2 DEF Types
    <3> QED BY <3>1, <3>2
  <2> QED BY <1>1, <2>1, <2>4 DEF Idle
<1>6. ASSUME NEW q \in Requests, Compute(q) PROVE Idle
  <2>1. /\ UNCHANGED <<strategy, checks, clock, copy, redis>>
        /\ now' = [now EXCEPT ![q] = clock]
        /\ pc[q] = "computing" /\ pc' = [pc EXCEPT ![q] = "writing"]
    BY <1>6 DEF Compute, GoTo
  <2>2. \A p \in Requests : now'[p] <= clock
    BY <1>1, <2>1 DEF Types
  <2>3. \A p \in Requests : pc'[p] \in {"computing", "writing"} => pc[p] \in {"computing", "writing"}
    BY <2>1 DEF Types
  <2> QED BY <1>1, <2>1, <2>2, <2>3 DEF Idle
<1> QED BY <1>2, <1>3, <1>4, <1>5, <1>6 DEF Next, Step

LEMMA IdleKeeps ==
  ASSUME Types, Types', WindowInv, Idle
  PROVE  WindowInv'
<1>1. clock \in Nat /\ clock' \in Nat /\ clock <= clock' /\ clock' \in 0..MaxTime
  BY LimiterAssumption DEF Types, Idle
<1>2. Granted' = Granted
  BY DEF Idle, Granted
<1>3. Stamps'
  <2>1. Stamps /\ \A q \in Requests : now'[q] \in Nat
    BY DEF WindowInv, Types
  <2>2. \A q \in Requests : now'[q] <= clock'
    BY <1>1, <2>1 DEF Idle
  <2>3. ASSUME NEW i \in DOMAIN checks PROVE checks[i].now <= checks[i].at /\ checks[i].at <= clock'
    <3>1. checks[i].now <= checks[i].at /\ checks[i].at <= clock
      BY <2>1 DEF Stamps
    <3>2. checks[i].at \in Nat
      BY StampTypes
    <3> QED BY <1>1, <3>1, <3>2
  <2> QED BY <1>1, <2>1, <2>2, <2>3 DEF Stamps, Idle
<1>4. RefusedOnlyWhenUsedUp'
  BY <1>2 DEF WindowInv, RefusedOnlyWhenUsedUp, Recent, Idle
<1>5. ASSUME strategy = "fixed_window" PROVE FixedInv'
  <2> SUFFICES ASSUME NEW k \in 0..MaxTime
               PROVE  /\ redis'.cexpire[k] # Never => k * Window + Window <= redis'.cexpire[k]
                      /\ Cardinality(Inside(k)') <= Limit
                      /\ clock' \div Window <= k => Cardinality(Inside(k)') <= redis'.count[k]
                      /\ redis'.count[k] <= Cardinality(Asked(k)')
    BY DEF FixedInv
  <2>1. Inside(k)' = Inside(k) /\ Asked(k)' = Asked(k)
    BY <1>2 DEF Inside, Asked, Idle
  <2>2. redis'.cexpire = redis.cexpire /\ redis'.count = redis.count
    BY DEF Idle
  <2>3. FixedInv
    BY <1>5 DEF WindowInv
  <2>4. PICK x \in Nat, y \in Nat : x = clock \div Window /\ y = clock' \div Window /\ x <= y
    BY <1>1, Division, WindowOrder
  <2>5. y <= k => x <= k
    BY <2>4
  <2> QED BY <2>1, <2>2, <2>3, <2>4, <2>5 DEF FixedInv
<1>6. ASSUME strategy = "sliding_window" PROVE SlidingInv' /\ SlidingWindowLimit'
  <2>1. SlidingInv /\ SlidingWindowLimit
    BY <1>6 DEF WindowInv
  <2>2. ASSUME NEW j \in DOMAIN checks, clock' < checks[j].now + Window PROVE clock < checks[j].now + Window
    <3>1. checks[j].now \in Nat /\ Window \in Nat
      BY StampTypes, LimiterAssumption
    <3> QED BY <1>1, <2>2, <3>1
  <2>3. SlidingInv'
    BY <2>1, <2>2 DEF SlidingInv, Idle
  <2>4. SlidingWindowLimit'
    BY <1>2, <2>1 DEF SlidingWindowLimit, Recent, Idle
  <2> QED BY <2>3, <2>4
<1>7. ASSUME strategy = "token_bucket" PROVE DrainInv'
  <2>1. DrainInv
    BY <1>7 DEF WindowInv
  <2>2. ASSUME NEW b, Drained(b) PROVE Drained(b)'
    BY <1>2, <2>2 DEF Drained, Spree, Idle
  <2>3. Drained(NoBucket)
    BY DEF Drained
  <2>4. PICK b : b = redis.bucket
    OBVIOUS
  <2>5. Drained(redis.bucket)'
    BY <2>1, <2>2, <2>4 DEF DrainInv, Idle
  <2>6. ASSUME NEW q \in Requests, pc'[q] \in {"computing", "writing"}
        PROVE  Drained(copy[q].bucket)'
    <3>1. PICK d : d = copy'[q].bucket
      OBVIOUS
    <3>2. Drained(d)
      BY <2>1, <2>3, <2>6, <3>1 DEF DrainInv, Idle
    <3>3. Drained(d)'
      BY <2>2, <3>2
    <3> QED BY <3>1, <3>3
  <2> QED BY <2>5, <2>6 DEF DrainInv
<1> QED BY <1>3, <1>4, <1>5, <1>6, <1>7 DEF WindowInv, Idle

\* A decision's stamp was read before.
LEMMA TookStamps ==
  ASSUME Types, Stamps, NEW q \in Requests, NEW allowed \in BOOLEAN, Took(q, allowed),
         clock' = clock, now' = now
  PROVE  \A i \in DOMAIN checks' : checks'[i].now <= checks'[i].at /\ checks'[i].at <= clock
<1>1. PICK n \in Nat : n = Len(checks)
  BY DEF Took
<1>2. /\ DOMAIN checks = 1..n /\ DOMAIN checks' = 1..(n + 1) /\ \A i \in 1..n : checks'[i] = checks[i]
      /\ checks'[n + 1].now = now[q] /\ checks'[n + 1].at = clock
  BY <1>1 DEF Took
<1>3. now[q] <= clock /\ clock \in Nat
  BY DEF Types, Stamps
<1>4. ASSUME NEW i \in 1..(n + 1)
      PROVE  checks'[i].now <= checks'[i].at /\ checks'[i].at <= clock
  <2>1. CASE i \in 1..n
    BY <1>2, <2>1 DEF Stamps
  <2>2. CASE i = n + 1
    BY <1>2, <1>3, <2>2
  <2> QED BY <2>1, <2>2
<1> QED BY <1>2, <1>4

LEMMA DecisionStamps ==
  ASSUME Types, Stamps, NEW q \in Requests, FixedWindow(q) \/ SlidingWindow(q) \/ WriteBucket(q)
  PROVE  Stamps' /\ strategy' = strategy
<1>1. UNCHANGED <<strategy, clock, now>>
  BY DEF FixedWindow, SlidingWindow, WriteBucket
<1>2. clock \in Nat /\ clock + Window \in Nat
  BY LimiterAssumption DEF Types
<1>3. /\ redis'.count \in [0..MaxTime -> Nat]
      /\ redis'.cexpire \in [0..MaxTime -> Nat \cup {Never}]
      /\ redis'.zexpire \in Nat \cup {Never}
  <2>1. /\ redis.count \in [0..MaxTime -> Nat]
        /\ redis.cexpire \in [0..MaxTime -> Nat \cup {Never}]
        /\ redis.zexpire \in Nat \cup {Never}
    BY DEF Stamps
  <2>2. CASE FixedWindow(q)
    <3>1. PICK k, n : /\ n = IF Gone(redis.cexpire[k]) THEN 1 ELSE redis.count[k] + 1
                      /\ redis' = [redis EXCEPT !.count[k] = n, !.cexpire[k] = clock + Window]
      BY <2>2 DEF FixedWindow
    <3>2. /\ redis'.count = [redis.count EXCEPT ![k] = n]
          /\ redis'.cexpire = [redis.cexpire EXCEPT ![k] = clock + Window]
          /\ redis'.zexpire = redis.zexpire
      BY <3>1 DEF Types
    <3>3. k \in 0..MaxTime => n \in Nat
      <4> SUFFICES ASSUME k \in 0..MaxTime PROVE n \in Nat
        OBVIOUS
      <4>1. PICK x \in Nat : x = redis.count[k]
        BY <2>1
      <4> QED BY <3>1, <4>1
    <3> QED BY <1>2, <2>1, <3>2, <3>3
  <2>3. CASE SlidingWindow(q)
    <3>1. redis' = [redis EXCEPT !.zset = redis'.zset, !.zexpire = clock + Window]
      BY <2>3 DEF SlidingWindow, Types
    <3>2. redis'.count = redis.count /\ redis'.cexpire = redis.cexpire
          /\ redis'.zexpire = clock + Window
      BY <3>1 DEF Types
    <3> QED BY <1>2, <2>1, <3>2
  <2>4. CASE WriteBucket(q)
    <3>1. redis' = [redis EXCEPT !.bucket = redis'.bucket, !.bexpire = redis'.bexpire]
      BY <2>4 DEF WriteBucket, Types
    <3>2. redis'.count = redis.count /\ redis'.cexpire = redis.cexpire
          /\ redis'.zexpire = redis.zexpire
      BY <3>1 DEF Types
    <3> QED BY <2>1, <3>2
  <2> QED BY <2>2, <2>3, <2>4
<1>4. PICK allowed \in BOOLEAN : Took(q, allowed)
  <2>1. CASE FixedWindow(q)
    <3>1. PICK n : Decide(q, Allowed(n), IF Allowed(n) THEN "calling" ELSE "refused")
      BY <2>1 DEF FixedWindow
    <3>2. Allowed(n) \in BOOLEAN
      BY DEF Allowed
    <3> QED BY <3>1, <3>2, DecideTakes
  <2>2. CASE SlidingWindow(q)
    <3>1. PICK n : Decide(q, Allowed(n), IF Allowed(n) THEN "calling" ELSE "oldest")
      BY <2>2 DEF SlidingWindow
    <3>2. Allowed(n) \in BOOLEAN
      BY DEF Allowed
    <3> QED BY <3>1, <3>2, DecideTakes
  <2>3. CASE WriteBucket(q)
    <3>1. PICK n : Decide(q, n >= 1, IF n >= 1 THEN "expiring" ELSE "expiring_refused")
      BY <2>3 DEF WriteBucket
    <3>2. (n >= 1) \in BOOLEAN
      OBVIOUS
    <3> QED BY <3>1, <3>2, DecideTakes
  <2> QED BY <2>1, <2>2, <2>3
<1>5. \A i \in DOMAIN checks' : checks'[i].now <= checks'[i].at /\ checks'[i].at <= clock
  BY <1>1, <1>4, TookStamps
<1> QED BY <1>1, <1>3, <1>5 DEF Stamps

THEOREM InitWindowInv == Init => WindowInv
<1> SUFFICES ASSUME Init PROVE WindowInv OBVIOUS
<1>1. MaxTime \in Nat /\ Window \in Nat /\ Limit \in Nat
  BY LimiterAssumption
<1>2. /\ checks = <<>> /\ DOMAIN checks = {} /\ clock = 0 /\ Granted = {}
      /\ \A q \in Requests : now[q] = 0 /\ pc[q] = "new"
  BY DEF Init, Granted
<1>3. Stamps
  BY <1>1, <1>2 DEF Init, Stamps
<1>4. RefusedOnlyWhenUsedUp
  BY <1>2 DEF RefusedOnlyWhenUsedUp
<1>5. FixedInv
  <2> SUFFICES ASSUME NEW k \in 0..MaxTime
               PROVE  /\ redis.cexpire[k] # Never => k * Window + Window <= redis.cexpire[k]
                      /\ Cardinality(Inside(k)) <= Limit
                      /\ clock \div Window <= k => Cardinality(Inside(k)) <= redis.count[k]
                      /\ redis.count[k] <= Cardinality(Asked(k))
    BY DEF FixedInv
  <2>1. Inside(k) = {} /\ Asked(k) = {}
    BY <1>2 DEF Inside, Asked
  <2>2. Cardinality(Inside(k)) = 0 /\ Cardinality(Asked(k)) = 0
    BY <2>1, FS_EmptySet
  <2>3. redis.cexpire[k] = Never /\ redis.count[k] = 0
    BY DEF Init
  <2> QED BY <1>1, <2>2, <2>3
<1>6. SlidingInv /\ SlidingWindowLimit
  BY <1>2 DEF Init, SlidingInv, SlidingWindowLimit
<1>7. DrainInv
  BY <1>2 DEF Init, DrainInv, Drained
<1> QED BY <1>3, <1>4, <1>5, <1>6, <1>7 DEF WindowInv

THEOREM WindowInvHolds == Spec => []WindowInv
<1>1. Init => WindowInv
  BY InitWindowInv
<1>2. IInv /\ IInv' /\ WindowInv /\ [Next]_lvars => WindowInv'
  <2> SUFFICES ASSUME IInv, IInv', WindowInv, [Next]_lvars PROVE WindowInv'
    OBVIOUS
  <2>1. Types /\ Types' /\ Stamps /\ RefusedOnlyWhenUsedUp
    BY DEF IInv, WindowInv
  <2>2. ASSUME NEW q \in Requests, FixedWindow(q) PROVE WindowInv'
    <3>1. strategy = "fixed_window" /\ FixedInv
      BY <2>2 DEF FixedWindow, WindowInv
    <3> QED BY <2>1, <2>2, <3>1, FixedStep, DecisionStamps DEF WindowInv
  <2>3. ASSUME NEW q \in Requests, SlidingWindow(q) PROVE WindowInv'
    <3>1. strategy = "sliding_window" /\ SlidingInv /\ SlidingWindowLimit
      BY <2>3 DEF SlidingWindow, WindowInv
    <3> QED BY <2>1, <2>3, <3>1, SlidingStep, DecisionStamps DEF WindowInv
  <2>4. ASSUME NEW q \in Requests, WriteBucket(q) PROVE WindowInv'
    <3>1. strategy = "token_bucket" /\ DrainInv
      BY <2>1, <2>4 DEF WriteBucket, WindowInv, Types
    <3> QED BY <2>1, <2>4, <3>1, WriteDrains, DecisionStamps DEF WindowInv
  <2>5. CASE \A q \in Requests : ~FixedWindow(q) /\ ~SlidingWindow(q) /\ ~WriteBucket(q)
    BY <2>1, <2>5, IdleSteps, IdleKeeps
  <2> QED BY <2>2, <2>3, <2>4, <2>5
<1> QED BY <1>1, <1>2, IInvHolds, PTL DEF Spec

\* Whatever the strategy and the interleaving, nobody is refused who has not used
\* up the limit (RateLimiter).
THEOREM RefusedRight == Spec => []RefusedOnlyWhenUsedUp
<1>1. WindowInv => RefusedOnlyWhenUsedUp
  BY DEF WindowInv
<1> QED BY <1>1, WindowInvHolds, PTL

\* A fixed window never admits more than its limit from within the window, nor
\* does a sliding window when stamps are apart and in order (_fixed_window,
\* _sliding_window).
THEOREM WindowLimited == Spec => []WindowLimit
<1>1. WindowInv => WindowLimit
  <2>1. WindowInv /\ strategy = "fixed_window" => FixedWindowLimit
    BY DEF WindowInv, FixedInv, FixedWindowLimit, Inside
  <2>2. WindowInv /\ strategy = "sliding_window" => SlidingWindowLimit
    BY DEF WindowInv
  <2> QED BY <2>1, <2>2 DEF WindowLimit, FixedWindowLimit, SlidingWindowLimit
<1> QED BY <1>1, WindowInvHolds, PTL

-----------------------------------------------------------------------------
(* What the bucket admits between grants that are not undone.              *)

\* All decisions after a saw every grant before them.
Unbroken(a) == \A i \in (a + 1)..Len(checks) : Alone(i)

\* The tokens of a bucket and the grants from a on fit into what there was at most
\* and what was refilled since a.
Left(b, a) == b # NoBucket =>
    /\ checks[a].now <= b.last
    /\ b.tokens + Cardinality(Granted \cap a..Len(checks))
         <= Limit + Window * b.last - Window * checks[a].now

\* A copy that a request is about to write back, to which no grant is missing.
Fresh(q) == pc[q] \in {"computing", "writing"} /\ \A j \in Granted : j <= copy[q].seen

ChainInv ==
    /\ BucketLimit
    /\ \A q \in Requests : copy[q].seen <= Len(checks)
    /\ \A a \in Granted : Unbroken(a) =>
        /\ Left(redis.bucket, a)
        /\ \A q \in Requests : Fresh(q) => Left(copy[q].bucket, a)

\* A step that decides nothing and takes nobody to where a copy is written back.
LEMMA ChainKept ==
  ASSUME ChainInv, redis'.bucket = redis.bucket, UNCHANGED <<strategy, copy, checks>>,
         \A q \in Requests : pc'[q] \in {"computing", "writing"} => pc[q] \in {"computing", "writing"}
  PROVE  ChainInv'
<1>1. Granted' = Granted
  BY DEF Granted
<1>2. BucketLimit' /\ \A q \in Requests : copy'[q].seen <= Len(checks')
  BY <1>1 DEF ChainInv, BucketLimit, Alone, Before
<1>3. \A a : (Unbroken(a)' <=> Unbroken(a)) /\ \A b : Left(b, a)' <=> Left(b, a)
  BY <1>1 DEF Unbroken, Alone, Before, Left
<1>4. \A q \in Requests : Fresh(q)' => Fresh(q)
  BY <1>1 DEF Fresh
<1> QED BY <1>1, <1>2, <1>3, <1>4 DEF ChainInv

\* A copy that is read is the bucket, or none.
LEMMA ChainRead ==
  ASSUME Types, ChainInv, NEW q \in Requests, ReadBucket(q)
  PROVE  ChainInv'
<1>1. PICK b \in {NoBucket, redis.bucket} :
        copy' = [copy EXCEPT ![q] = [bucket |-> b, seen |-> Len(checks)]]
  BY DEF ReadBucket
<1>2. /\ UNCHANGED <<strategy, redis, checks>> /\ pc' = [pc EXCEPT ![q] = "computing"]
      /\ Granted' = Granted /\ Len(checks) \in Nat
  BY DEF ReadBucket, GoTo, Granted, Types
<1>3. /\ copy'[q].bucket = b /\ copy'[q].seen = Len(checks)
      /\ \A p \in Requests \ {q} : copy'[p] = copy[p] /\ pc'[p] = pc[p]
  BY <1>1, <1>2 DEF Types
<1>4. BucketLimit'
  BY <1>2 DEF ChainInv, BucketLimit, Alone, Before
<1>5. \A p \in Requests : copy'[p].seen <= Len(checks')
  BY <1>2, <1>3 DEF ChainInv
<1>6. \A a : (Unbroken(a)' <=> Unbroken(a)) /\ \A c : Left(c, a)' <=> Left(c, a)
  BY <1>2 DEF Unbroken, Alone, Before, Left
<1>7. \A p \in Requests \ {q} : Fresh(p)' <=> Fresh(p)
  BY <1>2, <1>3 DEF Fresh
<1>8. ASSUME NEW a \in Granted, Unbroken(a) PROVE Left(b, a)
  BY <1>8 DEF ChainInv, Left
<1> QED BY <1>2, <1>3, <1>4, <1>5, <1>6, <1>7, <1>8 DEF ChainInv

\* The grants from a on, one decision later.
LEMMA GrantsFrom ==
  ASSUME NEW q \in Requests, NEW allowed \in BOOLEAN, Took(q, allowed), NEW a \in 1..Len(checks)
  PROVE  /\ Cardinality(Granted \cap a..Len(checks)) \in Nat
         /\ Cardinality((Granted \cap a..Len(checks))')
              = Cardinality(Granted \cap a..Len(checks)) + IF allowed THEN 1 ELSE 0
<1>1. PICK n \in Nat : n = Len(checks)
  BY DEF Took
<1>2. /\ Len(checks') = n + 1 /\ Granted \subseteq 1..n /\ a \in 1..n
      /\ Granted' = IF allowed THEN Granted \cup {n + 1} ELSE Granted
  <2>1. DOMAIN checks' = 1..(n + 1) /\ Len(checks') = n + 1
    BY <1>1 DEF Took
  <2> QED BY <1>1, <2>1 DEF Took
<1>3. PICK S : S = Granted \cap a..n
  OBVIOUS
<1>4. IsFiniteSet(S) /\ Cardinality(S) \in Nat /\ n + 1 \notin S
  <2>1. S \subseteq 1..n
    BY <1>2, <1>3
  <2>2. IsFiniteSet(1..n)
    BY FS_Interval
  <2>3. n + 1 \notin S
    BY <2>1
  <2> QED BY <2>1, <2>2, <2>3, FS_Subset, FS_CardinalityType
<1>5. (Granted \cap a..Len(checks))' = IF allowed THEN S \cup {n + 1} ELSE S
  <2>1. a..(n + 1) = (a..n) \cup {n + 1}
    BY <1>2
  <2>2. (Granted \cap a..Len(checks))' = Granted' \cap a..(n + 1)
    BY <1>2
  <2> QED BY <1>2, <1>3, <2>1, <2>2
<1>6. Cardinality(S \cup {n + 1}) = Cardinality(S) + 1
  BY <1>4, FS_AddElement
<1>7. PICK g \in Nat : g = Cardinality(S)
  BY <1>4
<1>8. Cardinality(Granted \cap a..Len(checks)) = g
  BY <1>1, <1>3, <1>7
<1>9. Cardinality((Granted \cap a..Len(checks))') = g + IF allowed THEN 1 ELSE 0
  <2>1. CASE allowed
    <3>1. (Granted \cap a..Len(checks))' = S \cup {n + 1} BY <1>5, <2>1
    <3> QED BY <1>6, <1>7, <2>1, <3>1
  <2>2. CASE ~allowed
    <3>1. (Granted \cap a..Len(checks))' = S BY <1>5, <2>2
    <3>2. Cardinality((Granted \cap a..Len(checks))') = g BY <1>7, <3>1
    <3> QED BY <2>2, <3>2
  <2> QED BY <2>1, <2>2
<1> QED BY <1>8, <1>9

\* What a decision before the last one saw does not change.
LEMMA AloneKept ==
  ASSUME NEW q \in Requests, NEW allowed \in BOOLEAN, Took(q, allowed), NEW i \in 1..Len(checks)
  PROVE  Alone(i)' <=> Alone(i)
<1>1. Granted' \cap Before(i) = Granted \cap Before(i)
  BY DEF Took, Before
<1>2. checks'[i] = checks[i]
  BY DEF Took
<1> QED BY <1>1, <1>2 DEF Alone, Before

\* A write by a request whose copy missed no grant goes on with the chain, any other
\* write ends it, and a grant starts one.
LEMMA ChainWrite ==
  ASSUME Types, BucketInv, ChainInv, NEW q \in Requests, WriteBucket(q)
  PROVE  ChainInv'
<1>1. PICK n \in Nat : n = Len(checks)
  <2>1. Len(checks) \in Nat BY DEF Types
  <2> QED BY <2>1
<1>2. PICK t \in Nat : t = now[q]
  BY DEF Types
<1>3. PICK b \in Buckets : b = copy[q].bucket
  BY DEF Types
<1>4. pc[q] = "writing" /\ (b # NoBucket => b.last <= t)
  BY <1>2, <1>3 DEF WriteBucket, BucketInv, Older
<1>5. PICK m \in 0..Limit : m = Tokens(b, t)
  BY <1>4, TokensBounds
<1>6. b # NoBucket => b.tokens \in Nat /\ b.last \in Nat /\ m <= b.tokens + Window * t - Window * b.last
  <2>1. b # NoBucket => b.tokens \in Nat /\ b.last \in Nat
    BY LimiterAssumption DEF Buckets
  <2>2. b # NoBucket => m <= b.tokens + Window * t - Window * b.last
    BY <1>4, <1>5, TokensBounds
  <2> QED BY <2>1, <2>2
<1>7. PICK allowed \in BOOLEAN : allowed <=> m >= 1
  OBVIOUS
<1>8. PICK new \in Buckets : new = [tokens |-> Spent(m), last |-> t]
  BY Taken DEF Buckets
<1>9. /\ new.tokens \in Nat /\ new.last = t /\ new.tokens + (IF allowed THEN 1 ELSE 0) = m
      /\ Limit \in Nat
  BY <1>7, <1>8, Taken, LimiterAssumption
<1>10. /\ redis'.bucket = new /\ copy' = [copy EXCEPT ![q] = NoCopy] /\ strategy' = strategy
       /\ Took(q, allowed)
       /\ pc'[q] \notin {"computing", "writing"} /\ \A p \in Requests \ {q} : pc'[p] = pc[p]
  <2>1. Decide(q, allowed, IF allowed THEN "expiring" ELSE "expiring_refused")
    BY <1>2, <1>3, <1>5, <1>7 DEF WriteBucket
  <2>2. pc'[q] \notin {"computing", "writing"} /\ \A p \in Requests \ {q} : pc'[p] = pc[p]
    BY <2>1 DEF Types, Decide, GoTo, OnError
  <2>3. Took(q, allowed)
    BY <2>1, DecideTakes
  <2>4. redis'.bucket = new
    BY <1>2, <1>3, <1>5, <1>8 DEF Types, WriteBucket
  <2> QED BY <2>2, <2>3, <2>4 DEF WriteBucket
<1>11. /\ DOMAIN checks = 1..n /\ DOMAIN checks' = 1..(n + 1) /\ Len(checks') = n + 1
       /\ \A i \in 1..n : checks'[i] = checks[i]
       /\ checks'[n + 1].now = t /\ checks'[n + 1].seen = copy[q].seen
       /\ checks'[n + 1].found = (b # NoBucket)
       /\ Granted \subseteq 1..n
       /\ Granted' = IF allowed THEN Granted \cup {n + 1} ELSE Granted
  <2>1. DOMAIN checks' = 1..(n + 1) /\ Len(checks') = n + 1
    BY <1>1, <1>10 DEF Took
  <2> QED BY <1>1, <1>2, <1>3, <1>10, <2>1 DEF Took
<1>12. \A p \in Requests \ {q} : copy'[p] = copy[p] /\ copy[p].seen \in Nat /\ copy[p].seen <= n
  BY <1>1, <1>10 DEF Types, ChainInv
<1>13. copy'[q].seen = 0 /\ ~Fresh(q)'
  BY <1>10 DEF Types, NoCopy, Fresh
<1>14. \A p \in Requests : copy'[p].seen <= Len(checks')
  BY <1>11, <1>12, <1>13
<1>15. \A i \in 1..n : Alone(i)' <=> Alone(i)
  BY <1>1, <1>10, AloneKept
<1>16. \A p \in Requests \ {q} : Fresh(p)' => ~allowed /\ Fresh(p)
  <2> SUFFICES ASSUME NEW p \in Requests \ {q}, Fresh(p)' PROVE ~allowed /\ Fresh(p)
    OBVIOUS
  <2>1. pc[p] \in {"computing", "writing"} /\ \A j \in Granted' : j <= copy[p].seen
    BY <1>10, <1>12 DEF Fresh
  <2>2. ~allowed
    BY <1>11, <1>12, <2>1
  <2> QED BY <1>11, <2>1, <2>2 DEF Fresh
\* A chain that goes on.
<1>17. ASSUME NEW a \in Granted, Unbroken(a)'
       PROVE  Left(new, a)' /\ \A p \in Requests \ {q} : Fresh(p)' => Left(copy[p].bucket, a)'
  <2>1. a \in 1..n
    BY <1>11
  <2>2. Unbroken(a)
    <3>1. \A i \in (a + 1)..n : Alone(i)'
      BY <1>11, <1>17, <2>1 DEF Unbroken
    <3> QED BY <1>1, <1>15, <2>1, <3>1 DEF Unbroken
  <2>3. Alone(n + 1)'
    BY <1>11, <1>17, <2>1 DEF Unbroken
  <2>4. b # NoBucket /\ Fresh(q)
    <3>1. b # NoBucket
      BY <1>11, <2>3 DEF Alone
    <3>2. ASSUME NEW j \in Granted PROVE j <= copy[q].seen
      <4>1. j \in Granted' \cap 1..n
        BY <1>11
      <4>2. Before(n + 1) = 1..n
        BY DEF Before
      <4>3. (Granted \cap Before(n + 1))' = Granted' \cap 1..n
        BY <4>2 DEF Before
      <4> QED BY <1>11, <2>3, <4>1, <4>3 DEF Alone
    <3> QED BY <1>4, <3>1, <3>2 DEF Fresh
  <2>5. Left(b, a)
    BY <1>3, <2>2, <2>4 DEF ChainInv
  <2>6. PICK g \in Nat : /\ g = Cardinality(Granted \cap a..Len(checks))
                         /\ Cardinality((Granted \cap a..Len(checks))') = g + IF allowed THEN 1 ELSE 0
    BY <1>1, <1>10, <2>1, GrantsFrom
  <2>7. PICK u \in Nat : u = checks[a].now
    BY <1>11, <2>1, StampTypes
  <2>8. PICK w \in Nat, x \in Nat, y \in Nat : w = Window * u /\ x = Window * t /\ y = Window * b.last
    <3>1. Window * u \in Nat /\ Window * t \in Nat /\ Window * b.last \in Nat
      BY <1>6, <2>4, LimiterAssumption
    <3> QED BY <3>1
  <2>9. u <= b.last /\ b.tokens + g <= Limit + y - w
    BY <2>4, <2>5, <2>6, <2>7, <2>8 DEF Left
  <2>10. Left(new, a)'
    <3>1. checks'[a].now = u /\ u <= t
      BY <1>4, <1>6, <1>11, <2>1, <2>4, <2>7, <2>9
    <3>2. m <= b.tokens + x - y
      BY <1>6, <2>4, <2>8
    <3>3. new.tokens + (g + IF allowed THEN 1 ELSE 0) <= Limit + x - w
      <4>1. b.tokens \in Nat
        BY <1>6, <2>4
      <4>2. new.tokens + (g + IF allowed THEN 1 ELSE 0) = m + g
        BY <1>9
      <4>3. m + g <= Limit + x - w
        BY <1>9, <2>9, <3>2, <4>1
      <4> QED BY <4>2, <4>3
    <3>4. new.last = t /\ Window * new.last = x /\ Window * checks'[a].now = w
      BY <1>9, <2>8, <3>1
    <3>5. new.tokens + Cardinality((Granted \cap a..Len(checks))')
            <= Limit + Window * new.last - Window * checks'[a].now
      BY <2>6, <3>3, <3>4
    <3> QED BY <3>1, <3>4, <3>5 DEF Left
  <2>11. ASSUME NEW p \in Requests \ {q}, Fresh(p)' PROVE Left(copy[p].bucket, a)'
    <3>1. ~allowed /\ Fresh(p) /\ copy'[p] = copy[p]
      BY <1>12, <1>16, <2>11
    <3>2. Left(copy[p].bucket, a)
      BY <2>2, <3>1 DEF ChainInv
    <3>3. Cardinality((Granted \cap a..Len(checks))') = Cardinality(Granted \cap a..Len(checks))
      BY <2>6, <3>1
    <3>4. checks'[a] = checks[a]
      BY <1>11, <2>1
    <3> QED BY <3>1, <3>2, <3>3, <3>4 DEF Left
  <2> QED BY <2>10, <2>11
\* A chain that starts.
<1>18. ASSUME allowed PROVE Left(new, n + 1)'
  <2>1. Granted' \cap (n + 1)..Len(checks') = {n + 1}
    <3>1. (n + 1)..(n + 1) = {n + 1}
      OBVIOUS
    <3> QED BY <1>11, <1>18, <3>1
  <2>2. Cardinality(Granted' \cap (n + 1)..Len(checks')) = 1
    BY <2>1, FS_Singleton
  <2>3. new.tokens + 1 <= Limit
    BY <1>9, <1>18
  <2>4. PICK x \in Nat : x = Window * t
    <3>1. Window * t \in Nat
      BY LimiterAssumption
    <3> QED BY <3>1
  <2>5. /\ checks'[n + 1].now <= new.last
        /\ new.tokens + 1 <= Limit + Window * new.last - Window * checks'[n + 1].now
    BY <1>9, <1>11, <2>3, <2>4
  <2> QED BY <2>2, <2>5 DEF Left
<1>19. ASSUME NEW a \in Granted', Unbroken(a)'
       PROVE  /\ Left(redis.bucket, a)'
              /\ \A p \in Requests : Fresh(p)' => Left(copy[p].bucket, a)'
  <2>1. CASE a \in Granted
    BY <1>10, <1>13, <1>17, <1>19, <2>1
  <2>2. CASE a \notin Granted
    <3>1. allowed /\ a = n + 1
      BY <1>11, <2>2
    <3> QED BY <1>10, <1>13, <1>16, <1>18, <3>1
  <2> QED BY <2>1, <2>2
<1>20. BucketLimit'
  <2> SUFFICES ASSUME strategy = "token_bucket", NEW a \in Granted', NEW c \in Granted', a <= c,
                      \A i \in (a + 1)..c : Alone(i)'
               PROVE  Cardinality(Granted' \cap a..c) <= Limit + Window * (checks'[c].now - checks'[a].now)
    BY <1>10 DEF BucketLimit
  <2>1. a \in 1..(n + 1) /\ c \in 1..(n + 1)
    BY <1>11
  <2>2. CASE c \in 1..n
    <3>1. a \in Granted /\ c \in Granted /\ Granted' \cap a..c = Granted \cap a..c
      BY <1>11, <2>1, <2>2
    <3>2. \A i \in (a + 1)..c : Alone(i)
      BY <1>15, <2>1, <2>2
    <3>3. checks'[c] = checks[c] /\ checks'[a] = checks[a]
      BY <1>11, <2>1, <2>2
    <3> QED BY <3>1, <3>2, <3>3 DEF ChainInv, BucketLimit
  <2>3. CASE c = n + 1
    <3>1. Unbroken(a)'
      BY <1>11, <2>3 DEF Unbroken
    <3>2. Left(new, a)'
      BY <1>10, <1>19, <3>1
    <3>3. PICK u \in Nat : u = checks'[a].now
      <4>1. CASE a = n + 1
        BY <1>11, <4>1
      <4>2. CASE a \in 1..n
        BY <1>11, <4>2, StampTypes
      <4> QED BY <2>1, <4>1, <4>2
    <3>4. PICK g \in Nat : g = Cardinality(Granted' \cap a..c)
      <4>1. Granted' \cap a..c \subseteq 1..(n + 1)
        BY <1>11
      <4>2. IsFiniteSet(1..(n + 1))
        BY FS_Interval
      <4>3. Cardinality(Granted' \cap a..c) \in Nat
        BY <4>1, <4>2, FS_Subset, FS_CardinalityType
      <4> QED BY <4>3
    <3>5. new # NoBucket
      BY <1>8, <1>9 DEF NoBucket, Never
    <3>6. u <= t /\ new.tokens + g <= Limit + Window * t - Window * u
      BY <1>9, <1>11, <2>3, <3>2, <3>3, <3>4, <3>5 DEF Left
    <3>7. Window * (t - u) = Window * t - Window * u /\ Window * t \in Nat /\ Window * u \in Nat
      BY <3>6, LimiterAssumption
    <3>8. g <= Limit + Window * (t - u)
      BY <1>9, <3>6, <3>7
    <3> QED BY <1>11, <2>3, <3>3, <3>4, <3>8
  <2> QED BY <2>1, <2>2, <2>3
<1> QED BY <1>14, <1>19, <1>20 DEF ChainInv

\* From any grant on, the bucket admits no more than its capacity and the refill, for
\* as long as the checks neither overlap a grant nor miss the bucket (_token_bucket).
THEOREM BucketLimited == Spec => []BucketLimit
<1>1. Init => (strategy = "token_bucket" => ChainInv)
  <2> SUFFICES ASSUME Init PROVE ChainInv OBVIOUS
  <2>1. Granted = {} /\ Len(checks) = 0 BY DEF Init, Granted
  <2>2. \A q \in Requests : copy[q].seen = 0 BY DEF Init, NoCopy
  <2> QED BY <2>1, <2>2 DEF ChainInv, BucketLimit
<1>2. IInv /\ (strategy = "token_bucket" => ChainInv) /\ [Next]_lvars
        => (strategy = "token_bucket" => ChainInv)'
  <2> SUFFICES ASSUME IInv, strategy = "token_bucket" => ChainInv, [Next]_lvars, strategy' = "token_bucket"
               PROVE  ChainInv'
    OBVIOUS
  <2>1. strategy = "token_bucket"
    BY DEF lvars, Next, Step, Tick, Arrive, FixedWindow, SlidingWindow, Oldest, ReadBucket, Compute,
           WriteBucket, ExpireBucket, RedisFails, Refuse, Call
  <2>2. Types /\ BucketInv /\ ChainInv
    BY <2>1 DEF IInv
  <2>3. CASE Tick \/ UNCHANGED lvars
    <3>1. UNCHANGED <<strategy, redis, copy, checks, pc>> BY <2>3 DEF Tick, lvars
    <3> QED BY <2>2, <3>1, ChainKept
  <2>4. ASSUME NEW q \in Requests, Step(q) PROVE ChainInv'
    <3>1. CASE ReadBucket(q) BY <2>2, <3>1, ChainRead
    <3>2. CASE WriteBucket(q) BY <2>2, <3>2, ChainWrite
    <3>3. CASE Compute(q)
      <4>1. UNCHANGED <<strategy, redis, copy, checks>>
        BY <3>3 DEF Compute
      <4>2. pc[q] = "computing" /\ pc' = [pc EXCEPT ![q] = "writing"]
        BY <3>3 DEF Compute, GoTo
      <4>3. \A p \in Requests : pc'[p] \in {"computing", "writing"} => pc[p] \in {"computing", "writing"}
        BY <2>2, <4>2 DEF Types
      <4> QED BY <2>2, <4>1, <4>3, ChainKept
    <3>4. CASE Arrive(q) \/ Oldest(q) \/ ExpireBucket(q) \/ Refuse(q) \/ Call(q) \/ RedisFails(q)
      <4>1. UNCHANGED <<strategy, copy, checks>> /\ redis'.bucket = redis.bucket
        BY <2>2, <3>4 DEF Types, Arrive, Oldest, ExpireBucket, Refuse, Call, RedisFails
      <4>2. \A p \in Requests : pc'[p] \in {"computing", "writing"} => pc[p] \in {"computing", "writing"}
        BY <2>2, <3>4 DEF Types, Arrive, Oldest, ExpireBucket, Refuse, Call, RedisFails, GoTo, OnError
      <4> QED BY <2>2, <4>1, <4>2, ChainKept
    <3>5. ~FixedWindow(q) /\ ~SlidingWindow(q)
      BY <2>1 DEF FixedWindow, SlidingWindow
    <3> QED BY <2>4, <3>1, <3>2, <3>3, <3>4, <3>5 DEF Step
  <2> QED BY <2>3, <2>4 DEF Next
<1>3. (strategy = "token_bucket" => ChainInv) => BucketLimit
  BY DEF ChainInv, BucketLimit
<1> QED BY <1>1, <1>2, <1>3, IInvHolds, PTL DEF Spec

-----------------------------------------------------------------------------
(* The attempt counters.  `ticks` is their clock.                          *)

Entries == [failed : BOOLEAN, at : Nat, n : Nat, kept : Nat \cup {AT!Never},
            answer : {"pending", "allowed", "refused", "raised"}]

\* Every check has a time that has come, in the order of the checks.
CounterTypes ==
    /\ kind \in Kinds /\ ticks \in Nat
    /\ counter \in [n : Nat, expire : Nat \cup {AT!Never}]
    /\ caller \in [Callers -> Nat]
    /\ log \in Seq(Entries)
    /\ \A i \in DOMAIN log : log[i].at <= ticks
    /\ \A i, j \in DOMAIN log : i <= j => log[i].at <= log[j].at

\* The failures that a next one would come after: no login has succeeded since,
\* they are young, and their EXPIRE came in time or may still do so.
Counted(i, time) ==
    {j \in 1..(i - 1) :
        /\ log[j].failed
        /\ log[j].kept = log[j].at \/ log[j].at = ticks
        /\ time <= log[j].at + Lifetime
        /\ \A k \in j..(i - 1) : log[k].failed}

\* The counter has counted them, and lives as long as they matter.
AuthInv ==
    /\ AT!Gone => Counted(Len(log) + 1, ticks) = {}
    /\ Cardinality(Counted(Len(log) + 1, ticks)) <= counter.n
    /\ \A j \in Counted(Len(log) + 1, ticks) :
          log[j].kept = log[j].at /\ counter.expire # AT!Never =>
              log[j].at + Lifetime <= counter.expire
    /\ \A i \in DOMAIN log : log[i].failed => Cardinality(Counted(i, log[i].at)) < log[i].n
    /\ \A i \in DOMAIN log : log[i].failed /\ log[i].answer = "allowed" => log[i].n < AT!Threshold

\* Counts grow until a key begins, and keys begin more than a lifetime apart.
ValidatorInv ==
    /\ counter.n = IF log = <<>> THEN 0 ELSE log[Len(log)].n
    /\ log = <<>> => counter.expire = AT!Never
    /\ \A i \in DOMAIN log : log[i].n >= 1 /\ (log[i].answer = "allowed" => log[i].n <= Limit)
    /\ \A i, j \in DOMAIN log : i < j /\ log[j].n <= log[i].n =>
          \E m \in DOMAIN log : i < m /\ m <= j /\ log[m].n = 1
    /\ \A i, j \in DOMAIN log : i < j /\ log[i].n = 1 /\ log[j].n = 1 =>
          log[i].at + Lifetime < log[j].at
    /\ \A i \in DOMAIN log : log[i].n = 1 /\ counter.expire # AT!Never =>
          log[i].at + Lifetime <= counter.expire

CounterInv ==
    /\ CounterTypes /\ AT!CountersEnd
    /\ kind = "auth" => AuthInv
    /\ kind = "validator" => ValidatorInv

\* The log's elements.
LEMMA LogTypes ==
  ASSUME CounterTypes
  PROVE  /\ Len(log) \in Nat /\ DOMAIN log = 1..Len(log)
         /\ \A i \in DOMAIN log :
              /\ log[i].failed \in BOOLEAN /\ log[i].at \in Nat /\ log[i].n \in Nat
              /\ log[i].kept \in Nat \cup {AT!Never}
              /\ log[i].at <= ticks
<1>1. log \in Seq(Entries)
  BY DEF CounterTypes
<1>2. Len(log) \in Nat /\ DOMAIN log = 1..Len(log) /\ \A i \in DOMAIN log : log[i] \in Entries
  BY <1>1
<1> QED BY <1>2 DEF Entries, CounterTypes

\* The log with one more check.
Grown(e) ==
    /\ e \in Entries /\ e.at = ticks /\ ticks' = ticks /\ kind' = kind
    /\ Len(log) \in Nat /\ DOMAIN log = 1..Len(log) /\ DOMAIN log' = 1..(Len(log) + 1)
    /\ \A i \in 1..Len(log) : log'[i] = log[i]
    /\ log'[Len(log) + 1] = e
    /\ log' \in Seq(Entries) /\ Len(log') = Len(log) + 1
    /\ caller' \in [Callers -> Nat]

\* The log with checks of which a caller learned more: their answer and whether
\* EXPIRE came in time.
Marked ==
    /\ ticks' = ticks /\ kind' = kind
    /\ log' \in Seq(Entries) /\ DOMAIN log' = DOMAIN log /\ Len(log') = Len(log)
    /\ \A j \in DOMAIN log :
        /\ log'[j].failed = log[j].failed /\ log'[j].at = log[j].at /\ log'[j].n = log[j].n
        /\ log'[j].kept \in {log[j].kept, ticks}
        /\ log'[j].answer \in {log[j].answer, "raised", AT!Verdict(log[j].n)}
    /\ caller' \in [Callers -> Nat]

\* What INCR does.
LEMMA IncrementEffect ==
  ASSUME CounterTypes, NEW c \in Callers, AT!Increment(c)
  PROVE  \E e \in Entries :
            /\ Grown(e) /\ e.failed = TRUE /\ e.kept = AT!Never
            /\ e.n = IF AT!Gone THEN 1 ELSE counter.n + 1
            /\ counter' = [n |-> e.n, expire |-> IF AT!Gone THEN AT!Never ELSE counter.expire]
            /\ IF kind = "auth" \/ e.n = 1 THEN e.answer = "pending" ELSE e.answer = AT!Verdict(e.n)
<1>1. Len(log) \in Nat /\ DOMAIN log = 1..Len(log) /\ log \in Seq(Entries)
      /\ ticks \in Nat /\ caller \in [Callers -> Nat]
  BY LogTypes DEF CounterTypes
<1>2. PICK n \in Nat : n = IF AT!Gone THEN 1 ELSE counter.n + 1
  <2>1. counter.n \in Nat
    BY DEF CounterTypes
  <2> QED BY <2>1
<1>3. PICK a \in {"pending", AT!Verdict(n)} :
         a = IF kind = "auth" \/ n = 1 THEN "pending" ELSE AT!Verdict(n)
  OBVIOUS
<1>4. a \in {"pending", "allowed", "refused", "raised"}
  BY <1>3 DEF AT!Verdict
<1>5. PICK e : e = [failed |-> TRUE, at |-> ticks, n |-> n, kept |-> AT!Never, answer |-> a]
  OBVIOUS
<1>6. e \in Entries
  BY <1>1, <1>4, <1>5 DEF Entries
<1>7. /\ log' = Append(log, e) /\ caller' \in [Callers -> Nat] /\ UNCHANGED <<kind, ticks>>
      /\ counter' = [n |-> n, expire |-> IF AT!Gone THEN AT!Never ELSE counter.expire]
  <2>1. /\ counter' = [n |-> n, expire |-> IF AT!Gone THEN AT!Never ELSE counter.expire]
        /\ IF AT!SetsLifetime(n)
           THEN log' = Append(log, AT!Check(n, "pending")) /\ caller' = [caller EXCEPT ![c] = Len(log) + 1]
           ELSE log' = Append(log, AT!Check(n, AT!Verdict(n))) /\ UNCHANGED caller
        /\ UNCHANGED <<kind, ticks>>
    BY <1>2 DEF AT!Increment
  <2>2. e = AT!Check(n, a) /\ (AT!SetsLifetime(n) <=> kind = "auth" \/ n = 1)
    BY <1>5 DEF AT!Check, AT!SetsLifetime
  <2>3. CASE kind = "auth" \/ n = 1
    <3>1. a = "pending" /\ [caller EXCEPT ![c] = Len(log) + 1] \in [Callers -> Nat]
      BY <1>1, <1>3, <2>3
    <3> QED BY <2>1, <2>2, <2>3, <3>1
  <2>4. CASE ~(kind = "auth" \/ n = 1)
    BY <1>1, <1>3, <2>1, <2>2, <2>4
  <2> QED BY <2>1, <2>3, <2>4
<1>8. Grown(e)
  <2>1. e.at = ticks
    BY <1>5
  <2>2. /\ DOMAIN log' = 1..(Len(log) + 1) /\ \A i \in 1..Len(log) : log'[i] = log[i]
        /\ log'[Len(log) + 1] = e /\ log' \in Seq(Entries) /\ Len(log') = Len(log) + 1
    BY <1>1, <1>6, <1>7
  <2> QED BY <1>1, <1>6, <1>7, <2>1, <2>2 DEF Grown
<1> QED BY <1>2, <1>3, <1>5, <1>6, <1>7, <1>8

\* What DEL after a successful login does.
LEMMA SucceedEffect ==
  ASSUME CounterTypes, NEW c \in Callers, AT!Succeed(c)
  PROVE  /\ kind = "auth" /\ counter' = [n |-> 0, expire |-> AT!Never]
         /\ \E e \in Entries : Grown(e) /\ e.failed = FALSE /\ e.n = 0
<1>1. Len(log) \in Nat /\ DOMAIN log = 1..Len(log) /\ log \in Seq(Entries)
      /\ ticks \in Nat /\ caller \in [Callers -> Nat]
  BY LogTypes DEF CounterTypes
<1>2. PICK b : b = AT!Check(0, "allowed")
  OBVIOUS
<1>3. PICK e \in Entries : /\ e = [b EXCEPT !.failed = FALSE]
                          /\ e.failed = FALSE /\ e.n = 0 /\ e.at = ticks
  <2>1. b = [failed |-> TRUE, at |-> ticks, n |-> 0, kept |-> AT!Never, answer |-> "allowed"]
    BY <1>2 DEF AT!Check
  <2>2. b \in Entries /\ b.n = 0 /\ b.at = ticks
    BY <1>1, <2>1 DEF Entries
  <2>3. [b EXCEPT !.failed = FALSE] \in Entries
    BY <2>2 DEF Entries
  <2>4. /\ [b EXCEPT !.failed = FALSE].failed = FALSE /\ [b EXCEPT !.failed = FALSE].n = 0
        /\ [b EXCEPT !.failed = FALSE].at = ticks
    BY <2>2 DEF Entries
  <2> QED BY <2>3, <2>4
<1>4. log' = Append(log, e) /\ caller' = caller /\ UNCHANGED <<kind, ticks>>
      /\ kind = "auth" /\ counter' = [n |-> 0, expire |-> AT!Never]
  <2>1. log' = Append(log, [b EXCEPT !.failed = FALSE])
    BY <1>2 DEF AT!Succeed
  <2> QED BY <1>3, <2>1 DEF AT!Succeed, AT!NoKey
<1>5. /\ DOMAIN log' = 1..(Len(log) + 1) /\ \A i \in 1..Len(log) : log'[i] = log[i]
      /\ log'[Len(log) + 1] = e /\ log' \in Seq(Entries) /\ Len(log') = Len(log) + 1
  BY <1>1, <1>3, <1>4
<1>6. Grown(e)
  BY <1>1, <1>3, <1>4, <1>5 DEF Grown
<1> QED BY <1>3, <1>4, <1>6

\* An element of a sequence is replaced, or there is none.
LEMMA EntrySet ==
  ASSUME NEW S, NEW s \in Seq(S), NEW i \in Nat, NEW e, i \in DOMAIN s => e \in S
  PROVE  /\ [s EXCEPT ![i] = e] \in Seq(S) /\ DOMAIN [s EXCEPT ![i] = e] = DOMAIN s
         /\ Len([s EXCEPT ![i] = e]) = Len(s)
<1>1. CASE i \in 1..Len(s)
  <2>1. e \in S
    BY <1>1
  <2> QED BY <1>1, <2>1, ExceptSeq
<1>2. CASE i \notin 1..Len(s)
  <2>1. [s EXCEPT ![i] = e] = s
    BY <1>2
  <2> QED BY <2>1
<1> QED BY <1>1, <1>2

\* What EXPIRE does, and a check that is cut short.
LEMMA MarkEffect ==
  ASSUME CounterTypes, NEW c \in Callers, AT!SetLifetime(c) \/ AT!Cut(c)
  PROVE  /\ Marked
         /\ \/ counter' = counter /\ (AT!Gone \/ counter.n = 0)
            \/ counter' = counter /\ \A j \in DOMAIN log : log'[j].kept = log[j].kept
                                                        /\ log'[j].answer \in {log[j].answer, "raised"}
            \/ ~AT!Gone /\ counter' = [n |-> counter.n, expire |-> ticks + Lifetime]
<1>1. /\ log \in Seq(Entries) /\ \A i \in DOMAIN log : log[i] \in Entries
      /\ ticks \in Nat /\ caller \in [Callers -> Nat]
  BY LogTypes DEF CounterTypes
<1>2. PICK i \in Nat : i = caller[c]
  BY <1>1
<1>3. caller' \in [Callers -> Nat] /\ UNCHANGED <<kind, ticks>>
  BY <1>1 DEF AT!SetLifetime, AT!Cut
<1>4. CASE AT!SetLifetime(c)
  <2>1. PICK a : a = AT!Verdict(log[i].n)
    OBVIOUS
  <2>2. a \in {"pending", "allowed", "refused", "raised"}
    BY <2>1 DEF AT!Verdict
  <2>3. log' = [log EXCEPT ![i].kept = ticks, ![i].answer = a]
    BY <1>2, <1>4, <2>1 DEF AT!SetLifetime
  <2>4. log' = [log EXCEPT ![i] = [log[i] EXCEPT !.kept = ticks, !.answer = a]]
    BY <2>3
  <2>5. i \in DOMAIN log => [log[i] EXCEPT !.kept = ticks, !.answer = a] \in Entries
    BY <1>1, <2>2 DEF Entries
  <2>6. log' \in Seq(Entries) /\ DOMAIN log' = DOMAIN log /\ Len(log') = Len(log)
    BY <1>1, <2>4, <2>5, EntrySet
  <2>7. \A j \in DOMAIN log :
        /\ log'[j].failed = log[j].failed /\ log'[j].at = log[j].at /\ log'[j].n = log[j].n
        /\ log'[j].kept \in {log[j].kept, ticks}
        /\ log'[j].answer \in {log[j].answer, "raised", AT!Verdict(log[j].n)}
    BY <1>1, <2>1, <2>4 DEF Entries
  <2>8. \/ counter' = counter /\ (AT!Gone \/ counter.n = 0)
        \/ ~AT!Gone /\ counter' = [n |-> counter.n, expire |-> ticks + Lifetime]
    BY <1>4 DEF AT!SetLifetime, AT!Extended, CounterTypes
  <2> QED BY <1>3, <2>6, <2>7, <2>8 DEF Marked
<1>5. CASE AT!Cut(c)
  <2>1. log' = [log EXCEPT ![i].answer = "raised"] /\ counter' = counter
    BY <1>2, <1>5 DEF AT!Cut
  <2>2. log' = [log EXCEPT ![i] = [log[i] EXCEPT !.answer = "raised"]]
    BY <2>1
  <2>3. i \in DOMAIN log => [log[i] EXCEPT !.answer = "raised"] \in Entries
    BY <1>1 DEF Entries
  <2>4. log' \in Seq(Entries) /\ DOMAIN log' = DOMAIN log /\ Len(log') = Len(log)
    BY <1>1, <2>2, <2>3, EntrySet
  <2>5. \A j \in DOMAIN log :
        /\ log'[j].failed = log[j].failed /\ log'[j].at = log[j].at /\ log'[j].n = log[j].n
        /\ log'[j].kept = log[j].kept /\ log'[j].answer \in {log[j].answer, "raised"}
    BY <1>1, <2>2 DEF Entries
  <2> QED BY <1>3, <2>1, <2>4, <2>5 DEF Marked
<1> QED BY <1>4, <1>5

\* The checks and their clock keep their types.
LEMMA CounterTypesStep ==
  ASSUME CounterTypes, [AT!Next]_countersVars
  PROVE  CounterTypes' /\ kind' = kind
<1>1. /\ kind \in Kinds /\ ticks \in Nat /\ counter \in [n : Nat, expire : Nat \cup {AT!Never}]
      /\ caller \in [Callers -> Nat] /\ log \in Seq(Entries) /\ Len(log) \in Nat
      /\ DOMAIN log = 1..Len(log)
      /\ \A i \in DOMAIN log : log[i].at \in Nat /\ log[i].at <= ticks
      /\ \A i, j \in DOMAIN log : i <= j => log[i].at <= log[j].at
  BY LogTypes DEF CounterTypes
<1>2. ticks + Lifetime \in Nat
  BY <1>1, CountersAssumption
<1>3. ASSUME NEW e, Grown(e), counter' \in [n : Nat, expire : Nat \cup {AT!Never}]
      PROVE  CounterTypes' /\ kind' = kind
  <2>1. PICK n \in Nat : n = Len(log)
    BY <1>1
  <2>2. /\ DOMAIN log = 1..n /\ DOMAIN log' = 1..(n + 1) /\ \A i \in 1..n : log'[i] = log[i]
        /\ log'[n + 1].at = ticks
    BY <1>3, <2>1 DEF Grown
  <2>3. ASSUME NEW i \in 1..(n + 1) PROVE log'[i].at <= ticks /\ log'[i].at \in Nat
    <3>1. CASE i \in 1..n BY <1>1, <2>2, <3>1
    <3>2. CASE i = n + 1 BY <1>1, <2>2, <3>2
    <3> QED BY <3>1, <3>2
  <2>4. ASSUME NEW i \in 1..(n + 1), NEW j \in 1..(n + 1), i <= j PROVE log'[i].at <= log'[j].at
    <3>1. CASE j \in 1..n
      <4>1. i \in 1..n
        BY <2>4, <3>1
      <4> QED BY <1>1, <2>2, <2>4, <3>1, <4>1
    <3>2. CASE j = n + 1 BY <2>2, <2>3, <3>2
    <3> QED BY <3>1, <3>2
  <2> QED BY <1>1, <1>3, <2>2, <2>3, <2>4 DEF CounterTypes, Grown
<1>4. ASSUME Marked, counter' \in [n : Nat, expire : Nat \cup {AT!Never}]
      PROVE  CounterTypes' /\ kind' = kind
  <2>1. /\ UNCHANGED <<kind, ticks>> /\ log' \in Seq(Entries) /\ caller' \in [Callers -> Nat]
        /\ DOMAIN log' = DOMAIN log /\ \A j \in DOMAIN log : log'[j].at = log[j].at
    BY <1>4 DEF Marked
  <2> QED BY <1>1, <1>4, <2>1 DEF CounterTypes
<1>5. ASSUME NEW c \in Callers, AT!Increment(c) PROVE CounterTypes' /\ kind' = kind
  <2>1. PICK e \in Entries :
          Grown(e) /\ counter' = [n |-> e.n, expire |-> IF AT!Gone THEN AT!Never ELSE counter.expire]
    BY <1>5, IncrementEffect
  <2>2. counter' \in [n : Nat, expire : Nat \cup {AT!Never}]
    BY <1>1, <2>1 DEF Entries
  <2> QED BY <1>3, <2>1, <2>2
<1>6. ASSUME NEW c \in Callers, AT!Succeed(c) PROVE CounterTypes' /\ kind' = kind
  <2>1. counter' = [n |-> 0, expire |-> AT!Never] /\ \E e \in Entries : Grown(e)
    BY <1>6, SucceedEffect
  <2>2. counter' \in [n : Nat, expire : Nat \cup {AT!Never}]
    BY <2>1
  <2> QED BY <1>3, <2>1, <2>2
<1>7. ASSUME NEW c \in Callers, AT!SetLifetime(c) \/ AT!Cut(c) PROVE CounterTypes' /\ kind' = kind
  <2>1. Marked /\ (counter' = counter \/ counter' = [n |-> counter.n, expire |-> ticks + Lifetime])
    BY <1>7, MarkEffect
  <2>2. counter' \in [n : Nat, expire : Nat \cup {AT!Never}]
    BY <1>1, <1>2, <2>1
  <2> QED BY <1>4, <2>1, <2>2
<1>8. CASE AT!Tick
  <2>1. UNCHANGED <<kind, counter, caller, log>> /\ ticks' = ticks + 1
    BY <1>8 DEF AT!Tick
  <2>2. \A i \in DOMAIN log : log[i].at <= ticks + 1
    BY <1>1
  <2> QED BY <1>1, <2>1, <2>2 DEF CounterTypes
<1>9. CASE UNCHANGED countersVars
  BY <1>9 DEF countersVars, CounterTypes
<1> QED BY <1>5, <1>6, <1>7, <1>8, <1>9 DEF AT!Next

\* A key without a lifetime is watched by the check that made it, or was left by one
\* that was cut short.
LEMMA EndStep ==
  ASSUME CounterTypes, AT!CountersEnd, [AT!Next]_countersVars
  PROVE  AT!CountersEnd'
<1>1. /\ ticks \in Nat /\ counter.n \in Nat /\ Len(log) \in Nat /\ DOMAIN log = 1..Len(log)
  BY LogTypes DEF CounterTypes
<1>2. ASSUME NEW c \in Callers, AT!Increment(c), counter'.n > 0, counter'.expire = AT!Never
      PROVE  \E i \in DOMAIN log' : /\ log'[i].n = 1 /\ \A j \in DOMAIN log' : log'[j].n = 1 => j <= i
                                    /\ log'[i].answer \in {"pending", "raised"}
  <2>1. PICK e \in Entries :
            /\ Grown(e) /\ e.n = IF AT!Gone THEN 1 ELSE counter.n + 1
            /\ counter' = [n |-> e.n, expire |-> IF AT!Gone THEN AT!Never ELSE counter.expire]
            /\ IF kind = "auth" \/ e.n = 1 THEN e.answer = "pending" ELSE e.answer = AT!Verdict(e.n)
    BY <1>2, IncrementEffect
  <2>2. PICK n \in Nat : n = Len(log)
    BY <1>1
  <2>3. /\ DOMAIN log = 1..n /\ DOMAIN log' = 1..(n + 1) /\ \A i \in 1..n : log'[i] = log[i]
        /\ log'[n + 1] = e
    BY <2>1, <2>2 DEF Grown
  <2>4. CASE e.n = 1
    <3>1. e.answer = "pending"
      BY <2>1, <2>4
    <3>2. n + 1 \in 1..(n + 1) /\ \A j \in 1..(n + 1) : j <= n + 1
      OBVIOUS
    <3> QED BY <2>3, <2>4, <3>1, <3>2
  <2>5. CASE e.n # 1
    <3>1. counter.n > 0 /\ counter.expire = AT!Never
      BY <1>1, <1>2, <2>1, <2>5
    <3>2. PICK i \in 1..n : /\ log[i].n = 1 /\ \A j \in 1..n : log[j].n = 1 => j <= i
                            /\ log[i].answer \in {"pending", "raised"}
      BY <2>3, <3>1 DEF AT!CountersEnd
    <3>3. i \in 1..(n + 1) /\ \A j \in 1..(n + 1) : j \in 1..n \/ j = n + 1
      OBVIOUS
    <3>4. \A j \in 1..(n + 1) : log'[j].n = 1 => j <= i
      BY <2>3, <2>5, <3>2, <3>3
    <3> QED BY <2>3, <3>2, <3>3, <3>4
  <2> QED BY <2>4, <2>5
<1>3. ASSUME NEW c \in Callers, AT!SetLifetime(c) \/ AT!Cut(c), counter'.n > 0, counter'.expire = AT!Never
      PROVE  \E i \in DOMAIN log' : /\ log'[i].n = 1 /\ \A j \in DOMAIN log' : log'[j].n = 1 => j <= i
                                    /\ log'[i].answer \in {"pending", "raised"}
  <2>1. ticks + Lifetime # AT!Never
    BY <1>1, CountersAssumption DEF AT!Never
  <2>2. /\ counter' = counter /\ ~AT!Gone /\ counter.n # 0
        /\ \A j \in DOMAIN log : log'[j].answer \in {log[j].answer, "raised"}
    <3>1. counter.expire = AT!Never /\ counter.n > 0 => ~AT!Gone /\ counter.n # 0
      BY DEF AT!Gone
    <3> QED BY <1>3, <2>1, <3>1, MarkEffect
  <2>3. DOMAIN log' = DOMAIN log /\ \A j \in DOMAIN log : log'[j].n = log[j].n
    BY <1>3, MarkEffect DEF Marked
  <2>4. PICK i \in DOMAIN log : /\ log[i].n = 1 /\ \A j \in DOMAIN log : log[j].n = 1 => j <= i
                                /\ log[i].answer \in {"pending", "raised"}
    BY <1>3, <2>2 DEF AT!CountersEnd
  <2> QED BY <2>2, <2>3, <2>4
<1>4. ASSUME NEW c \in Callers, AT!Succeed(c) PROVE counter'.n = 0
  <2>1. counter' = [n |-> 0, expire |-> AT!Never]
    BY <1>4, SucceedEffect
  <2> QED BY <2>1
<1>5. CASE UNCHANGED <<counter, log>>
  BY <1>5 DEF AT!CountersEnd
<1>6. AT!Tick \/ UNCHANGED countersVars => UNCHANGED <<counter, log>>
  BY DEF AT!Tick, countersVars
<1>7. CASE \E c \in Callers : AT!Increment(c) \/ AT!SetLifetime(c) \/ AT!Cut(c) \/ AT!Succeed(c)
  <2>1. counter'.n > 0 /\ counter'.expire = AT!Never =>
          \E i \in DOMAIN log' : /\ log'[i].n = 1 /\ \A j \in DOMAIN log' : log'[j].n = 1 => j <= i
                                 /\ log'[i].answer \in {"pending", "raised"}
    BY <1>2, <1>3, <1>4, <1>7
  <2> QED BY <2>1 DEF AT!CountersEnd
<1> QED BY <1>5, <1>6, <1>7 DEF AT!Next

\* What may be counted is a set of earlier checks.
LEMMA CountedFinite ==
  ASSUME NEW i \in Nat, NEW t
  PROVE  IsFiniteSet(Counted(i, t)) /\ Counted(i, t) \subseteq 1..(i - 1)
<1>1. Counted(i, t) \subseteq 1..(i - 1)
  BY DEF Counted
<1>2. IsFiniteSet(1..(i - 1))
  BY FS_Interval
<1> QED BY <1>1, <1>2, FS_Subset

\* One more check leaves what the earlier ones count alone, and adds itself.
LEMMA GrownCounts ==
  ASSUME CounterTypes, NEW e \in Entries, Grown(e), NEW n \in Nat, n = Len(log), NEW t
  PROVE  /\ \A i \in 1..(n + 1) : Counted(i, t)' = Counted(i, t)
         /\ ~e.failed => Counted(n + 2, t)' = {}
         /\ Counted(n + 2, t)' \subseteq Counted(n + 1, t) \cup {n + 1}
<1>1. ticks' = ticks /\ log'[n + 1] = e /\ \A j \in 1..n : log'[j] = log[j]
  BY DEF Grown
<1>2. ASSUME NEW i \in 1..(n + 1) PROVE Counted(i, t)' = Counted(i, t)
  <2>1. \A j \in 1..(i - 1) : j \in 1..n /\ \A k \in j..(i - 1) : k \in 1..n
    OBVIOUS
  <2> QED BY <1>1, <2>1 DEF Counted
<1>3. ASSUME NEW j \in Counted(n + 2, t)'
      PROVE  j \in Counted(n + 1, t) \cup {n + 1} /\ e.failed
  <2>1. /\ j \in 1..(n + 1) /\ log'[j].failed
        /\ log'[j].kept = log'[j].at \/ log'[j].at = ticks
        /\ t <= log'[j].at + Lifetime
        /\ \A k \in j..(n + 1) : log'[k].failed
    BY <1>1 DEF Counted
  <2>2. e.failed
    <3>1. n + 1 \in j..(n + 1)
      BY <2>1
    <3>2. log'[n + 1].failed
      BY <2>1, <3>1
    <3> QED BY <1>1, <3>2
  <2>3. CASE j \in 1..n
    <3>1. \A k \in j..n : k \in 1..n /\ k \in j..(n + 1)
      BY <2>3
    <3>2. \A k \in j..n : log[k].failed
      BY <1>1, <2>1, <3>1
    <3>3. j \in 1..((n + 1) - 1) /\ (n + 1) - 1 = n
      BY <2>3
    <3>4. j \in Counted(n + 1, t)
      BY <1>1, <2>1, <2>3, <3>2, <3>3 DEF Counted
    <3> QED BY <2>2, <3>4
  <2>4. CASE j = n + 1
    BY <2>2, <2>4
  <2> QED BY <2>1, <2>3, <2>4
<1>4. \A j \in Counted(n + 2, t)' : j \in Counted(n + 1, t) \cup {n + 1} /\ e.failed
  BY <1>3
<1> QED BY <1>2, <1>4

LEMMA AuthIncrement ==
  ASSUME CounterTypes, kind = "auth", AuthInv, NEW c \in Callers, AT!Increment(c)
  PROVE  AuthInv'
<1>1. PICK n \in Nat : n = Len(log)
  BY LogTypes
<1>2. PICK t \in Nat : t = ticks
  BY DEF CounterTypes
<1>3. PICK e \in Entries :
        /\ Grown(e) /\ e.failed = TRUE /\ e.kept = AT!Never
        /\ e.n = IF AT!Gone THEN 1 ELSE counter.n + 1
        /\ counter' = [n |-> e.n, expire |-> IF AT!Gone THEN AT!Never ELSE counter.expire]
        /\ e.answer = "pending"
  BY IncrementEffect
<1>4. /\ DOMAIN log = 1..n /\ DOMAIN log' = 1..(n + 1) /\ Len(log') = n + 1 /\ ticks' = t
      /\ \A j \in 1..n : log'[j] = log[j]
      /\ log'[n + 1] = e /\ e.at = t
  BY <1>1, <1>2, <1>3 DEF Grown
<1>5. /\ \A i \in 1..(n + 1), u \in Nat : Counted(i, u)' = Counted(i, u)
      /\ Counted(n + 2, t)' \subseteq Counted(n + 1, t) \cup {n + 1}
  BY <1>1, <1>3, GrownCounts
<1>6. PICK S, T : S = Counted(n + 1, t) /\ T = Counted(n + 2, t)'
  OBVIOUS
<1>7. PICK x \in Nat : x = Cardinality(S) /\ IsFiniteSet(S) /\ x <= counter.n /\ (AT!Gone => x = 0)
  <2>1. IsFiniteSet(S) /\ Cardinality(S) \in Nat
    BY <1>6, CountedFinite, FS_CardinalityType
  <2>2. Cardinality(S) <= counter.n /\ (AT!Gone => S = {})
    BY <1>1, <1>2, <1>6 DEF AuthInv
  <2> QED BY <2>1, <2>2, FS_EmptySet
<1>8. PICK m \in Nat : m = e.n /\ x + 1 <= m
  <2>1. counter.n \in Nat /\ e.n \in Nat
    BY DEF CounterTypes, Entries
  <2> QED BY <1>3, <1>7, <2>1
<1>9. Cardinality(T) <= m
  <2>1. IsFiniteSet(S \cup {n + 1}) /\ Cardinality(S \cup {n + 1}) <= x + 1
    BY <1>7, FS_AddElement
  <2>2. Cardinality(T) <= Cardinality(S \cup {n + 1}) /\ IsFiniteSet(T)
    BY <1>5, <1>6, <2>1, FS_Subset
  <2>3. Cardinality(T) \in Nat /\ Cardinality(S \cup {n + 1}) \in Nat
    BY <2>1, <2>2, FS_CardinalityType
  <2> QED BY <1>8, <2>1, <2>2, <2>3
<1>10. counter'.n = m /\ counter'.expire \in {AT!Never, counter.expire}
       /\ (counter'.expire # AT!Never => ~AT!Gone /\ counter'.expire = counter.expire)
  BY <1>3, <1>8
<1>11. ~AT!Gone'
  BY <1>2, <1>4, <1>10 DEF AT!Gone
<1>12. ASSUME NEW j \in T, log'[j].kept = log'[j].at, counter'.expire # AT!Never
       PROVE  log'[j].at + Lifetime <= counter'.expire
  <2>1. j # n + 1
    <3>1. AT!Never \notin Nat
      BY DEF AT!Never
    <3> QED BY <1>2, <1>3, <1>4, <1>12, <3>1
  <2>2. j \in S /\ j \in 1..n
    <3>1. S \subseteq 1..((n + 1) - 1)
      BY <1>6, CountedFinite
    <3> QED BY <1>5, <1>6, <2>1, <3>1
  <2>3. log[j].kept = log[j].at
    BY <1>4, <1>12, <2>2
  <2>4. log[j].at + Lifetime <= counter.expire
    BY <1>1, <1>2, <1>6, <1>10, <1>12, <2>2, <2>3 DEF AuthInv
  <2> QED BY <1>4, <1>10, <1>12, <2>2, <2>4
<1>13. ASSUME NEW i \in 1..(n + 1), log'[i].failed, NEW u, u = log'[i].at
       PROVE  /\ Cardinality(Counted(i, u)') < log'[i].n
              /\ log'[i].answer = "allowed" => log'[i].n < AT!Threshold
  <2>1. CASE i \in 1..n
    <3>1. log'[i] = log[i] /\ u \in Nat /\ log[i].failed
      BY <1>4, <1>13, <2>1, LogTypes
    <3>2. Counted(i, u)' = Counted(i, u)
      BY <1>5, <3>1
    <3>3. Cardinality(Counted(i, u)) < log[i].n /\ (log[i].answer = "allowed" => log[i].n < AT!Threshold)
      BY <1>4, <1>13, <2>1, <3>1 DEF AuthInv
    <3> QED BY <3>1, <3>2, <3>3
  <2>2. CASE i = n + 1
    <3>1. u = t /\ Counted(n + 1, t)' = S /\ log'[n + 1].n = m /\ log'[n + 1].answer = "pending"
      BY <1>3, <1>4, <1>5, <1>6, <1>8, <1>13, <2>2
    <3>2. Cardinality(S) < m
      BY <1>7, <1>8
    <3> QED BY <2>2, <3>1, <3>2
  <2> QED BY <2>1, <2>2
<1>14. (Len(log) + 1)' = n + 2 /\ ticks' = t
  BY <1>4
<1>15. Counted(Len(log) + 1, ticks)' = T
  BY <1>6, <1>14 DEF Counted
<1> QED BY <1>4, <1>15, <1>6, <1>9, <1>10, <1>11, <1>12, <1>13 DEF AuthInv

\* What a caller learns of its check is counted already.
LEMMA MarkedCounts ==
  ASSUME CounterTypes, Marked, NEW i \in Nat, i <= Len(log) + 1, NEW t
  PROVE  /\ Counted(i, t)' \subseteq Counted(i, t)
         /\ Cardinality(Counted(i, t)') \in Nat /\ Cardinality(Counted(i, t)) \in Nat
         /\ Cardinality(Counted(i, t)') <= Cardinality(Counted(i, t))
<1>1. PICK n \in Nat : n = Len(log) /\ DOMAIN log = 1..n
  BY LogTypes
<1>2. ticks' = ticks /\ \A j \in 1..n : /\ log'[j].failed = log[j].failed /\ log'[j].at = log[j].at
                                        /\ log'[j].kept \in {log[j].kept, ticks}
  BY <1>1 DEF Marked
<1>3. \A j \in 1..(i - 1) : j \in 1..n /\ \A k \in j..(i - 1) : k \in 1..n
  BY <1>1
<1>4. Counted(i, t)' \subseteq Counted(i, t)
  BY <1>2, <1>3 DEF Counted
<1>5. PICK S, T : S = Counted(i, t) /\ T = Counted(i, t)' /\ IsFiniteSet(S) /\ T \subseteq S
  BY <1>4, CountedFinite
<1> QED BY <1>4, <1>5, FS_Subset, FS_CardinalityType

LEMMA AuthMark ==
  ASSUME CounterTypes, kind = "auth", AuthInv, NEW c \in Callers, AT!SetLifetime(c) \/ AT!Cut(c)
  PROVE  AuthInv'
<1>1. PICK n \in Nat : n = Len(log) /\ DOMAIN log = 1..n
  BY LogTypes
<1>2. PICK t \in Nat : t = ticks
  BY DEF CounterTypes
<1>3. /\ Marked
      /\ \/ counter' = counter /\ (AT!Gone \/ counter.n = 0)
         \/ counter' = counter /\ \A j \in DOMAIN log : log'[j].kept = log[j].kept
                                                     /\ log'[j].answer \in {log[j].answer, "raised"}
         \/ ~AT!Gone /\ counter' = [n |-> counter.n, expire |-> ticks + Lifetime]
  BY MarkEffect
<1>4. /\ DOMAIN log' = 1..n /\ Len(log') = n /\ ticks' = t /\ kind' = kind
      /\ \A j \in 1..n : /\ log'[j].failed = log[j].failed /\ log'[j].at = log[j].at /\ log'[j].n = log[j].n
                         /\ log'[j].answer \in {log[j].answer, "raised", AT!Verdict(log[j].n)}
  BY <1>1, <1>2, <1>3 DEF Marked
<1>5. PICK S, T : S = Counted(n + 1, t) /\ T = Counted(n + 1, t)'
  OBVIOUS
<1>6. T \subseteq S /\ Cardinality(S) \in Nat /\ Cardinality(T) \in Nat /\ Cardinality(T) <= Cardinality(S)
      /\ (Cardinality(S) = 0 => S = {}) /\ S \subseteq 1..n
  <2>1. T \subseteq S /\ Cardinality(S) \in Nat /\ Cardinality(T) \in Nat /\ Cardinality(T) <= Cardinality(S)
    <3>1. n + 1 \in Nat /\ n + 1 <= Len(log) + 1
      BY <1>1
    <3>2. /\ Counted(n + 1, t)' \subseteq Counted(n + 1, t)
          /\ Cardinality(Counted(n + 1, t)') \in Nat /\ Cardinality(Counted(n + 1, t)) \in Nat
          /\ Cardinality(Counted(n + 1, t)') <= Cardinality(Counted(n + 1, t))
      BY <1>3, <3>1, MarkedCounts
    <3> QED BY <1>5, <3>2
  <2>2. IsFiniteSet(S) /\ S \subseteq 1..((n + 1) - 1)
    BY <1>5, CountedFinite
  <2> QED BY <2>1, <2>2, FS_EmptySet
<1>7. /\ (AT!Gone => S = {}) /\ Cardinality(S) <= counter.n
      /\ \A j \in S : log[j].kept = log[j].at /\ counter.expire # AT!Never =>
            log[j].at + Lifetime <= counter.expire
  BY <1>1, <1>2, <1>5 DEF AuthInv
<1>8. /\ counter'.n = counter.n /\ counter.n \in Nat
      /\ \/ counter' = counter
         \/ counter'.expire = t + Lifetime
  BY <1>2, <1>3 DEF CounterTypes
<1>9. AT!Gone' => T = {}
  <2>1. CASE counter' = counter
    <3>1. AT!Gone' = AT!Gone
      BY <1>2, <1>4, <2>1 DEF AT!Gone
    <3> QED BY <1>6, <1>7, <3>1
  <2>2. CASE counter'.expire = t + Lifetime
    <3>1. ~(t > t + Lifetime)
      BY CountersAssumption
    <3> QED BY <1>4, <2>2, <3>1 DEF AT!Gone
  <2> QED BY <1>8, <2>1, <2>2
<1>10. Cardinality(T) <= counter'.n
  BY <1>6, <1>7, <1>8
<1>11. ASSUME NEW j \in T, log'[j].kept = log'[j].at, counter'.expire # AT!Never
       PROVE  log'[j].at + Lifetime <= counter'.expire
  <2>1. j \in S /\ j \in 1..n /\ log'[j].at = log[j].at /\ S # {}
    BY <1>4, <1>6
  <2>2. CASE counter' = counter /\ (AT!Gone \/ counter.n = 0)
    BY <1>6, <1>7, <1>8, <2>1, <2>2
  <2>3. CASE counter' = counter /\ \A k \in DOMAIN log : log'[k].kept = log[k].kept
    BY <1>1, <1>7, <1>11, <2>1, <2>3
  <2>4. CASE counter' = [n |-> counter.n, expire |-> ticks + Lifetime]
    <3>1. log[j].at \in Nat /\ log[j].at <= t
      BY <1>1, <1>2, <2>1, LogTypes
    <3>2. counter'.expire = t + Lifetime
      BY <1>2, <2>4
    <3> QED BY <2>1, <3>1, <3>2, CountersAssumption
  <2> QED BY <1>3, <2>2, <2>3, <2>4
<1>12. ASSUME NEW i \in 1..n, log'[i].failed, NEW u, u = log'[i].at
       PROVE  /\ Cardinality(Counted(i, u)') < log'[i].n
              /\ log'[i].answer = "allowed" => log'[i].n < AT!Threshold
  <2>1. log[i].failed /\ u = log[i].at /\ log[i].n \in Nat /\ log'[i].n = log[i].n
    BY <1>1, <1>4, <1>12, LogTypes
  <2>2. Cardinality(Counted(i, u)) < log[i].n /\ (log[i].answer = "allowed" => log[i].n < AT!Threshold)
    BY <1>1, <2>1 DEF AuthInv
  <2>3. /\ Cardinality(Counted(i, u)') \in Nat /\ Cardinality(Counted(i, u)) \in Nat
        /\ Cardinality(Counted(i, u)') <= Cardinality(Counted(i, u))
    BY <1>1, <1>3, MarkedCounts
  <2>4. AT!Verdict(log[i].n) = "allowed" => log[i].n < AT!Threshold
    BY DEF AT!Verdict
  <2>5. log'[i].answer \in {log[i].answer, "raised", AT!Verdict(log[i].n)}
    BY <1>4
  <2> QED BY <2>1, <2>2, <2>3, <2>4, <2>5
<1>13. Counted(Len(log) + 1, ticks)' = T
  <2>1. (Len(log) + 1)' = n + 1 /\ ticks' = t
    BY <1>4
  <2> QED BY <1>5, <2>1 DEF Counted
<1> QED BY <1>4, <1>9, <1>10, <1>11, <1>12, <1>13 DEF AuthInv

LEMMA AuthSucceed ==
  ASSUME CounterTypes, kind = "auth", AuthInv, NEW c \in Callers, AT!Succeed(c)
  PROVE  AuthInv'
<1>1. PICK n \in Nat : n = Len(log) /\ DOMAIN log = 1..n
  BY LogTypes
<1>2. PICK t \in Nat : t = ticks
  BY DEF CounterTypes
<1>3. PICK e \in Entries : Grown(e) /\ e.failed = FALSE
  BY SucceedEffect
<1>4. counter' = [n |-> 0, expire |-> AT!Never]
  BY SucceedEffect
<1>5. /\ DOMAIN log' = 1..(n + 1) /\ Len(log') = n + 1 /\ ticks' = t
      /\ \A j \in 1..n : log'[j] = log[j]
      /\ log'[n + 1] = e
  BY <1>1, <1>2, <1>3 DEF Grown
<1>6. /\ \A i \in 1..(n + 1), u \in Nat : Counted(i, u)' = Counted(i, u)
      /\ Counted(n + 2, t)' = {}
  BY <1>1, <1>3, GrownCounts
<1>7. Counted(Len(log) + 1, ticks)' = {}
  <2>1. (Len(log) + 1)' = n + 2 /\ ticks' = t
    BY <1>5
  <2> QED BY <1>6, <2>1 DEF Counted
<1>8. Cardinality(Counted(Len(log) + 1, ticks)') <= counter'.n
  BY <1>4, <1>7, FS_EmptySet
<1>9. ASSUME NEW i \in 1..(n + 1), log'[i].failed, NEW u, u = log'[i].at
      PROVE  /\ Cardinality(Counted(i, u)') < log'[i].n
             /\ log'[i].answer = "allowed" => log'[i].n < AT!Threshold
  <2>1. i \in 1..n
    BY <1>3, <1>5, <1>9
  <2>2. log'[i] = log[i] /\ u \in Nat /\ log[i].failed
    BY <1>1, <1>5, <1>9, <2>1, LogTypes
  <2>3. Counted(i, u)' = Counted(i, u)
    BY <1>6, <2>2
  <2>4. Cardinality(Counted(i, u)) < log[i].n /\ (log[i].answer = "allowed" => log[i].n < AT!Threshold)
    BY <1>1, <1>9, <2>1, <2>2 DEF AuthInv
  <2> QED BY <2>2, <2>3, <2>4
<1> QED BY <1>5, <1>7, <1>8, <1>9 DEF AuthInv

\* Time passes: what is counted is only what EXPIRE came for in time.
LEMMA AuthTick ==
  ASSUME CounterTypes, kind = "auth", AuthInv, AT!Tick
  PROVE  AuthInv'
<1>1. PICK n \in Nat : n = Len(log) /\ DOMAIN log = 1..n
  BY LogTypes
<1>2. PICK t \in Nat : t = ticks
  BY DEF CounterTypes
<1>3. ticks' = t + 1 /\ UNCHANGED <<kind, counter, caller, log>>
  BY <1>2 DEF AT!Tick
<1>4. \A j \in 1..n : log[j].at \in Nat /\ log[j].at <= t
  BY <1>1, <1>2, LogTypes
<1>5. ASSUME NEW i \in 1..(n + 1), NEW u PROVE Counted(i, u)' \subseteq Counted(i, u)
  <2>1. \A j \in 1..(i - 1) : j \in 1..n
    OBVIOUS
  <2>2. \A j \in 1..(i - 1) : log[j].at # t + 1
    BY <1>4, <2>1
  <2> QED BY <1>3, <2>2 DEF Counted
<1>6. PICK S, T : S = Counted(n + 1, t) /\ T = Counted(n + 1, t + 1)'
  OBVIOUS
<1>7. Counted(Len(log) + 1, ticks)' = T
  <2>1. (Len(log) + 1)' = n + 1 /\ ticks' = t + 1
    BY <1>1, <1>3
  <2> QED BY <1>6, <2>1 DEF Counted
<1>8. T \subseteq S /\ \A j \in T : /\ j \in 1..n /\ log[j].kept = log[j].at
                                  /\ t + 1 <= log[j].at + Lifetime
  <2> SUFFICES ASSUME NEW j \in T
               PROVE  j \in S /\ j \in 1..n /\ log[j].kept = log[j].at /\ t + 1 <= log[j].at + Lifetime
    OBVIOUS
  <2>1. j \in 1..n
    <3>1. T \subseteq 1..((n + 1) - 1)
      BY <1>6 DEF Counted
    <3> QED BY <3>1
  <2>2. /\ log[j].failed /\ (log[j].kept = log[j].at \/ log[j].at = t + 1)
        /\ t + 1 <= log[j].at + Lifetime /\ \A k \in j..((n + 1) - 1) : log[k].failed
    BY <1>3, <1>6 DEF Counted
  <2>3. log[j].at \in Nat /\ log[j].at <= t
    BY <1>4, <2>1
  <2>4. log[j].kept = log[j].at /\ t <= log[j].at + Lifetime
    BY <2>2, <2>3, CountersAssumption
  <2>5. j \in 1..((n + 1) - 1)
    BY <2>1
  <2> QED BY <1>6, <2>1, <2>2, <2>4, <2>5 DEF Counted
<1>9. /\ Cardinality(S) <= counter.n /\ counter.n \in Nat
      /\ \A j \in S : log[j].kept = log[j].at /\ counter.expire # AT!Never =>
            log[j].at + Lifetime <= counter.expire
  BY <1>1, <1>2, <1>6 DEF AuthInv, CounterTypes
<1>10. Cardinality(T) <= counter.n
  <2>1. n + 1 \in Nat /\ IsFiniteSet(S)
    BY <1>6, CountedFinite
  <2>2. Cardinality(T) <= Cardinality(S) /\ Cardinality(S) \in Nat /\ Cardinality(T) \in Nat
    BY <1>8, <2>1, FS_Subset, FS_CardinalityType
  <2> QED BY <1>9, <2>2
<1>11. ASSUME AT!Gone', NEW j \in T PROVE FALSE
  <2>1. counter.expire # AT!Never /\ t + 1 > counter.expire /\ counter.expire \in Nat \cup {AT!Never}
    BY <1>3, <1>11 DEF AT!Gone, CounterTypes
  <2>2. log[j].at + Lifetime <= counter.expire /\ t + 1 <= log[j].at + Lifetime /\ log[j].at \in Nat
    BY <1>4, <1>8, <1>9, <2>1
  <2>3. counter.expire \in Nat
    BY <2>1
  <2> QED BY <2>1, <2>2, <2>3, CountersAssumption
<1>12. ASSUME NEW i \in 1..n, log[i].failed, NEW u, u = log[i].at
       PROVE  Cardinality(Counted(i, u)') < log[i].n
  <2>1. Counted(i, u)' \subseteq Counted(i, u) /\ i \in Nat
    BY <1>5
  <2>2. IsFiniteSet(Counted(i, u))
    BY <2>1, CountedFinite
  <2>3. PICK A, B : A = Counted(i, u) /\ B = Counted(i, u)'
    OBVIOUS
  <2>4. Cardinality(B) <= Cardinality(A) /\ Cardinality(A) \in Nat /\ Cardinality(B) \in Nat
    BY <2>1, <2>2, <2>3, FS_Subset, FS_CardinalityType
  <2>5. Cardinality(A) < log[i].n /\ log[i].n \in Nat
    BY <1>1, <1>12, <2>3, LogTypes DEF AuthInv
  <2> QED BY <2>3, <2>4, <2>5
<1>13. \A i \in 1..n : log[i].failed /\ log[i].answer = "allowed" => log[i].n < AT!Threshold
  BY <1>1 DEF AuthInv
<1>14. AT!Gone' => T = {}
  BY <1>11
<1>15. \A j \in T : log[j].kept = log[j].at /\ counter.expire # AT!Never =>
            log[j].at + Lifetime <= counter.expire
  BY <1>8, <1>9
<1> QED BY <1>1, <1>3, <1>7, <1>10, <1>12, <1>13, <1>14, <1>15 DEF AuthInv

LEMMA ValidatorIncrement ==
  ASSUME CounterTypes, kind = "validator", ValidatorInv, NEW c \in Callers, AT!Increment(c)
  PROVE  ValidatorInv'
<1>1. PICK n \in Nat : n = Len(log) /\ DOMAIN log = 1..n
  BY LogTypes
<1>2. PICK t \in Nat : t = ticks
  BY DEF CounterTypes
<1>3. PICK e \in Entries :
        /\ Grown(e) /\ e.n = IF AT!Gone THEN 1 ELSE counter.n + 1
        /\ counter' = [n |-> e.n, expire |-> IF AT!Gone THEN AT!Never ELSE counter.expire]
        /\ IF e.n = 1 THEN e.answer = "pending" ELSE e.answer = AT!Verdict(e.n)
  <2>1. kind # "auth"
    OBVIOUS
  <2> QED BY <2>1, IncrementEffect
<1>4. /\ DOMAIN log' = 1..(n + 1) /\ Len(log') = n + 1 /\ ticks' = t
      /\ \A j \in 1..n : log'[j] = log[j]
      /\ log'[n + 1] = e /\ e.at = t /\ log' # <<>>
  <2>1. /\ DOMAIN log' = 1..(n + 1) /\ Len(log') = n + 1 /\ ticks' = t
        /\ \A j \in 1..n : log'[j] = log[j] /\ log'[n + 1] = e /\ e.at = t
    BY <1>1, <1>2, <1>3 DEF Grown
  <2> QED BY <1>1, <1>2, <1>3, <2>1 DEF Grown
<1>5. \A j \in 1..n : log[j].at \in Nat /\ log[j].n \in Nat
  BY <1>1, LogTypes
<1>6. /\ \A i \in 1..n : log[i].n >= 1 /\ (log[i].answer = "allowed" => log[i].n <= Limit)
      /\ \A i, j \in 1..n : i < j /\ log[j].n <= log[i].n =>
           \E m \in 1..n : i < m /\ m <= j /\ log[m].n = 1
      /\ \A i, j \in 1..n : i < j /\ log[i].n = 1 /\ log[j].n = 1 => log[i].at + Lifetime < log[j].at
      /\ \A i \in 1..n : log[i].n = 1 /\ counter.expire # AT!Never => log[i].at + Lifetime <= counter.expire
  BY <1>1 DEF ValidatorInv
<1>7. /\ n = 0 => counter.n = 0 /\ counter.expire = AT!Never
      /\ n > 0 => counter.n = log[n].n
  <2>1. n = 0 <=> log = <<>>
    <3>1. log \in Seq(Entries)
      BY DEF CounterTypes
    <3> QED BY <1>1, <3>1
  <2> QED BY <1>1, <2>1 DEF ValidatorInv
<1>8. /\ e.n \in Nat /\ counter'.n = e.n
      /\ AT!Gone => /\ e.n = 1 /\ counter'.expire = AT!Never /\ counter.expire # AT!Never
                    /\ t > counter.expire /\ counter.expire \in Nat
      /\ ~AT!Gone => e.n = counter.n + 1 /\ counter'.expire = counter.expire
  BY <1>2, <1>3 DEF AT!Gone, Entries, CounterTypes
<1>9. e.n >= 1 /\ (e.n = 1 /\ n > 0 => AT!Gone) /\ (e.n = 1 => AT!Gone \/ counter'.expire = AT!Never)
  <2>1. CASE n = 0
    BY <1>7, <1>8, <2>1
  <2>2. CASE n > 0
    <3>1. counter.n = log[n].n /\ log[n].n \in Nat /\ log[n].n >= 1
      BY <1>5, <1>6, <1>7, <2>2
    <3> QED BY <1>8, <3>1
  <2> QED BY <2>1, <2>2
<1>10. ASSUME NEW i \in 1..(n + 1)
       PROVE  log'[i].n >= 1 /\ (log'[i].answer = "allowed" => log'[i].n <= Limit)
  <2>1. CASE i \in 1..n
    BY <1>4, <1>6, <2>1
  <2>2. CASE i = n + 1
    <3>1. e.answer = "allowed" => e.n <= Limit
      BY <1>3 DEF AT!Verdict, AT!WithinLimit
    <3> QED BY <1>4, <1>9, <2>2, <3>1
  <2> QED BY <2>1, <2>2
<1>11. ASSUME NEW i \in 1..(n + 1), NEW j \in 1..(n + 1), i < j, log'[j].n <= log'[i].n
       PROVE  \E m \in 1..(n + 1) : i < m /\ m <= j /\ log'[m].n = 1
  <2>1. i \in 1..n /\ log'[i] = log[i]
    BY <1>4, <1>11
  <2>2. CASE j \in 1..n
    <3>1. log[j].n <= log[i].n
      BY <1>4, <1>11, <2>1, <2>2
    <3>2. PICK m \in 1..n : i < m /\ m <= j /\ log[m].n = 1
      BY <1>6, <1>11, <2>1, <2>2, <3>1
    <3> QED BY <1>4, <3>2
  <2>3. CASE j = n + 1 /\ e.n = 1
    BY <1>4, <1>11, <2>3
  <2>4. CASE j = n + 1 /\ e.n # 1
    <3>1. e.n = log[n].n + 1 /\ n > 0 /\ n \in 1..n
      BY <1>7, <1>8, <2>1, <2>4
    <3>2. e.n <= log[i].n
      BY <1>4, <1>11, <2>1, <2>4
    <3>3. i < n /\ log[n].n <= log[i].n
      BY <1>5, <2>1, <3>1, <3>2
    <3>4. PICK m \in 1..n : i < m /\ m <= n /\ log[m].n = 1
      BY <1>6, <2>1, <3>1, <3>3
    <3> QED BY <1>4, <2>4, <3>4
  <2> QED BY <2>2, <2>3, <2>4
<1>12. ASSUME NEW i \in 1..(n + 1), NEW j \in 1..(n + 1), i < j, log'[i].n = 1, log'[j].n = 1
       PROVE  log'[i].at + Lifetime < log'[j].at
  <2>1. i \in 1..n /\ log'[i] = log[i]
    BY <1>4, <1>12
  <2>2. CASE j \in 1..n
    BY <1>4, <1>6, <1>12, <2>1, <2>2
  <2>3. CASE j = n + 1
    <3>1. AT!Gone
      BY <1>4, <1>9, <1>12, <2>1, <2>3
    <3>2. log[i].at + Lifetime <= counter.expire /\ log[i].at \in Nat
      BY <1>5, <1>6, <1>8, <1>12, <2>1, <3>1
    <3>3. t > counter.expire /\ counter.expire \in Nat
      BY <1>8, <3>1
    <3>4. log[i].at + Lifetime < t
      BY <3>2, <3>3, CountersAssumption
    <3> QED BY <1>4, <2>1, <2>3, <3>4
  <2> QED BY <2>2, <2>3
<1>13. ASSUME NEW i \in 1..(n + 1), log'[i].n = 1, counter'.expire # AT!Never
       PROVE  log'[i].at + Lifetime <= counter'.expire
  <2>1. ~AT!Gone /\ counter'.expire = counter.expire
    BY <1>8, <1>13
  <2>2. i \in 1..n
    BY <1>4, <1>9, <1>13, <2>1
  <2> QED BY <1>4, <1>6, <1>13, <2>1, <2>2
<1>14. counter'.n = log'[Len(log')].n
  BY <1>4, <1>8
<1>15. DOMAIN log' = 1..(n + 1) /\ log' # <<>>
  BY <1>4
<1>16. \A i \in DOMAIN log' : log'[i].n >= 1 /\ (log'[i].answer = "allowed" => log'[i].n <= Limit)
  BY <1>10, <1>15
<1>17. \A i, j \in DOMAIN log' : i < j /\ log'[j].n <= log'[i].n =>
           \E m \in DOMAIN log' : i < m /\ m <= j /\ log'[m].n = 1
  BY <1>11, <1>15
<1>18. \A i, j \in DOMAIN log' : i < j /\ log'[i].n = 1 /\ log'[j].n = 1 => log'[i].at + Lifetime < log'[j].at
  BY <1>12, <1>15
<1>19. \A i \in DOMAIN log' : log'[i].n = 1 /\ counter'.expire # AT!Never => log'[i].at + Lifetime <= counter'.expire
  BY <1>13, <1>15
<1>20. counter'.n = IF log' = <<>> THEN 0 ELSE log'[Len(log')].n
  BY <1>14, <1>15
<1> QED BY <1>15, <1>16, <1>17, <1>18, <1>19, <1>20 DEF ValidatorInv

LEMMA ValidatorMark ==
  ASSUME CounterTypes, kind = "validator", ValidatorInv, NEW c \in Callers, AT!SetLifetime(c) \/ AT!Cut(c)
  PROVE  ValidatorInv'
<1>1. PICK n \in Nat : n = Len(log) /\ DOMAIN log = 1..n
  BY LogTypes
<1>2. PICK t \in Nat : t = ticks
  BY DEF CounterTypes
<1>3. Marked /\ (counter' = counter \/ counter' = [n |-> counter.n, expire |-> t + Lifetime])
  BY <1>2, MarkEffect
<1>4. /\ DOMAIN log' = 1..n /\ Len(log') = n
      /\ \A j \in 1..n : /\ log'[j].at = log[j].at /\ log'[j].n = log[j].n
                         /\ log'[j].answer \in {log[j].answer, "raised", AT!Verdict(log[j].n)}
  BY <1>1, <1>3 DEF Marked
<1>5. \A j \in 1..n : log[j].at \in Nat /\ log[j].n \in Nat /\ log[j].at <= t
  BY <1>1, <1>2, LogTypes
<1>6. /\ \A i \in 1..n : log[i].n >= 1 /\ (log[i].answer = "allowed" => log[i].n <= Limit)
      /\ \A i, j \in 1..n : i < j /\ log[j].n <= log[i].n =>
           \E m \in 1..n : i < m /\ m <= j /\ log[m].n = 1
      /\ \A i, j \in 1..n : i < j /\ log[i].n = 1 /\ log[j].n = 1 => log[i].at + Lifetime < log[j].at
      /\ \A i \in 1..n : log[i].n = 1 /\ counter.expire # AT!Never => log[i].at + Lifetime <= counter.expire
  BY <1>1 DEF ValidatorInv
<1>7. (n = 0 <=> log = <<>>) /\ (n = 0 <=> log' = <<>>)
  <2>1. log \in Seq(Entries) /\ log' \in Seq(Entries)
    BY <1>3 DEF CounterTypes, Marked
  <2> QED BY <1>1, <1>4, <2>1
<1>8. counter'.n = IF log' = <<>> THEN 0 ELSE log'[Len(log')].n
  <2>1. counter'.n = counter.n
    BY <1>3
  <2>2. counter.n = IF n = 0 THEN 0 ELSE log[n].n
    BY <1>1, <1>7 DEF ValidatorInv
  <2> QED BY <1>4, <1>7, <2>1, <2>2
<1>9. ASSUME n = 0 PROVE counter' = counter
  <2>1. counter.n = 0
    BY <1>7, <1>9 DEF ValidatorInv
  <2>2. PICK i : i = caller[c]
    OBVIOUS
  <2>3. AT!SetLifetime(c) => counter' = counter
    BY <2>1 DEF AT!SetLifetime
  <2>4. AT!Cut(c) => counter' = counter
    BY DEF AT!Cut
  <2> QED BY <2>3, <2>4
<1>10. log' = <<>> => counter'.expire = AT!Never
  BY <1>7, <1>9 DEF ValidatorInv
<1>11. \A i \in 1..n : log'[i].n >= 1 /\ (log'[i].answer = "allowed" => log'[i].n <= Limit)
  <2> SUFFICES ASSUME NEW i \in 1..n
               PROVE  log'[i].n >= 1 /\ (log'[i].answer = "allowed" => log'[i].n <= Limit)
    OBVIOUS
  <2>1. AT!Verdict(log[i].n) = "allowed" => log[i].n <= Limit
    BY DEF AT!Verdict, AT!WithinLimit
  <2>2. log'[i].answer \in {log[i].answer, "raised", AT!Verdict(log[i].n)} /\ log'[i].n = log[i].n
    BY <1>4
  <2> QED BY <1>6, <2>1, <2>2
<1>12. \A i, j \in 1..n : i < j /\ log'[j].n <= log'[i].n =>
           \E m \in 1..n : i < m /\ m <= j /\ log'[m].n = 1
  BY <1>4, <1>6
<1>13. \A i, j \in 1..n : i < j /\ log'[i].n = 1 /\ log'[j].n = 1 => log'[i].at + Lifetime < log'[j].at
  BY <1>4, <1>6
<1>14. \A i \in 1..n : log'[i].n = 1 /\ counter'.expire # AT!Never => log'[i].at + Lifetime <= counter'.expire
  <2> SUFFICES ASSUME NEW i \in 1..n, log'[i].n = 1, counter'.expire # AT!Never
               PROVE  log'[i].at + Lifetime <= counter'.expire
    OBVIOUS
  <2>1. CASE counter' = counter
    BY <1>4, <1>6, <2>1
  <2>2. CASE counter' = [n |-> counter.n, expire |-> t + Lifetime]
    <3>1. counter'.expire = t + Lifetime
      BY <2>2
    <3> QED BY <1>4, <1>5, <3>1, CountersAssumption
  <2> QED BY <1>3, <2>1, <2>2
<1>15. DOMAIN log' = 1..n
  BY <1>4
<1>16. \A i \in DOMAIN log' : log'[i].n >= 1 /\ (log'[i].answer = "allowed" => log'[i].n <= Limit)
  BY <1>11, <1>15
<1>17. \A i, j \in DOMAIN log' : i < j /\ log'[j].n <= log'[i].n =>
           \E m \in DOMAIN log' : i < m /\ m <= j /\ log'[m].n = 1
  BY <1>12, <1>15
<1>18. \A i, j \in DOMAIN log' : i < j /\ log'[i].n = 1 /\ log'[j].n = 1 => log'[i].at + Lifetime < log'[j].at
  BY <1>13, <1>15
<1>19. \A i \in DOMAIN log' : log'[i].n = 1 /\ counter'.expire # AT!Never => log'[i].at + Lifetime <= counter'.expire
  BY <1>14, <1>15
<1> QED BY <1>8, <1>10, <1>16, <1>17, <1>18, <1>19 DEF ValidatorInv

LEMMA CounterInvStep ==
  ASSUME CounterInv, [AT!Next]_countersVars
  PROVE  CounterInv'
<1>1. CounterTypes /\ AT!CountersEnd
  BY DEF CounterInv
<1>2. CounterTypes' /\ kind' = kind /\ AT!CountersEnd'
  BY <1>1, CounterTypesStep, EndStep
<1>3. ASSUME kind = "auth" PROVE AuthInv'
  <2>1. AuthInv
    BY <1>3 DEF CounterInv
  <2>2. ASSUME NEW c \in Callers, AT!Increment(c) \/ AT!SetLifetime(c) \/ AT!Cut(c) \/ AT!Succeed(c)
        PROVE  AuthInv'
    BY <1>1, <1>3, <2>1, <2>2, AuthIncrement, AuthMark, AuthSucceed
  <2>3. CASE AT!Tick
    BY <1>1, <1>3, <2>1, <2>3, AuthTick
  <2>4. CASE UNCHANGED countersVars
    BY <2>1, <2>4 DEF AuthInv, Counted, AT!Gone, countersVars
  <2> QED BY <2>2, <2>3, <2>4 DEF AT!Next
<1>4. ASSUME kind = "validator" PROVE ValidatorInv'
  <2>1. ValidatorInv
    BY <1>4 DEF CounterInv
  <2>2. ASSUME NEW c \in Callers, AT!Increment(c) \/ AT!SetLifetime(c) \/ AT!Cut(c)
        PROVE  ValidatorInv'
    BY <1>1, <1>4, <2>1, <2>2, ValidatorIncrement, ValidatorMark
  <2>3. \A c \in Callers : ~AT!Succeed(c)
    BY <1>4 DEF AT!Succeed
  <2>4. CASE UNCHANGED <<counter, log>>
    BY <2>1, <2>4 DEF ValidatorInv
  <2>5. AT!Tick \/ UNCHANGED countersVars => UNCHANGED <<counter, log>>
    BY DEF AT!Tick, countersVars
  <2> QED BY <2>2, <2>3, <2>4, <2>5 DEF AT!Next
<1> QED BY <1>2, <1>3, <1>4 DEF CounterInv

LEMMA CounterInvInit ==
  ASSUME AT!Init
  PROVE  CounterInv
<1>1. /\ kind \in Kinds /\ ticks = 0 /\ counter = [n |-> 0, expire |-> AT!Never]
      /\ caller = [c \in Callers |-> 0] /\ log = <<>>
  BY DEF AT!Init, AT!NoKey
<1>2. Len(log) = 0 /\ DOMAIN log = {} /\ log \in Seq(Entries)
  BY <1>1
<1>3. CounterTypes
  <2>1. caller \in [Callers -> Nat] /\ counter \in [n : Nat, expire : Nat \cup {AT!Never}]
    BY <1>1
  <2> QED BY <1>1, <1>2, <2>1 DEF CounterTypes
<1>4. AT!CountersEnd
  BY <1>1 DEF AT!CountersEnd
<1>5. AuthInv
  <2>1. Counted(Len(log) + 1, ticks) = {}
    BY <1>2 DEF Counted
  <2>2. Cardinality({}) <= counter.n
    BY <1>1, FS_EmptySet
  <2>3. Cardinality(Counted(Len(log) + 1, ticks)) <= counter.n
    BY <2>1, <2>2
  <2> QED BY <1>2, <2>1, <2>3 DEF AuthInv
<1>6. ValidatorInv
  BY <1>1, <1>2 DEF ValidatorInv
<1> QED BY <1>3, <1>4, <1>5, <1>6 DEF CounterInv

\* The two counters keep their invariant, whoever takes the steps.
THEOREM CounterInvHolds == LimitsSpec => []CounterInv
<1>1. LimitsInit => CounterInv
  BY CounterInvInit DEF LimitsInit
<1>2. CounterInv /\ [LimitsNext]_<<lvars, countersVars, focus>> => CounterInv'
  <2>1. [LimitsNext]_<<lvars, countersVars, focus>> => [AT!Next]_countersVars
    BY DEF LimitsNext
  <2> QED BY <2>1, CounterInvStep
<1> QED BY <1>1, <1>2, PTL DEF LimitsSpec

\* What Attempts calls the size of a set.
LEMMA SameCardinality == \A S : AT!Cardinality(S) = Cardinality(S)
  BY DEF AT!Cardinality, Cardinality

\* A failed check that was allowed had fewer than two before it.
LEMMA ThirdIsRefused ==
  ASSUME CounterInv
  PROVE  AT!ThirdFailureRefused
<1> SUFFICES ASSUME kind = "auth", NEW i \in DOMAIN log, log[i].failed, log[i].answer = "allowed"
             PROVE  Cardinality(AT!Failures(i)) < 2
  <2> SUFFICES ASSUME kind = "auth", NEW i \in DOMAIN log, log[i].failed, log[i].answer = "allowed"
               PROVE  AT!Cardinality(AT!Failures(i)) < 2
    BY DEF AT!ThirdFailureRefused, AT!Threshold
  <2> QED BY SameCardinality
<1>1. CounterTypes /\ AuthInv
  BY DEF CounterInv
<1>2. PICK n \in Nat : n = Len(log) /\ DOMAIN log = 1..n
  BY <1>1, LogTypes
<1>3. i \in Nat /\ i \in 1..n /\ \A j \in 1..(i - 1) : j \in 1..n
  BY <1>2
<1>4. PICK t \in Nat, m \in Nat : t = log[i].at /\ m = log[i].n
  BY <1>1, LogTypes
<1>5. PICK S, F : S = Counted(i, t) /\ F = AT!Failures(i)
  OBVIOUS
<1>6. Cardinality(S) < m /\ m < 3
  <2>1. log[i].n < 3
    BY <1>1 DEF AuthInv, AT!Threshold
  <2>2. Cardinality(Counted(i, log[i].at)) < log[i].n
    BY <1>1 DEF AuthInv
  <2> QED BY <1>4, <1>5, <2>1, <2>2
<1>7. F \subseteq S
  <2> SUFFICES ASSUME NEW j \in F PROVE j \in S
    OBVIOUS
  <2>1. /\ j \in 1..(i - 1) /\ log[j].failed /\ log[j].kept = log[j].at
        /\ t - log[j].at <= Lifetime /\ \A k \in j..(i - 1) : log[k].failed
    BY <1>4, <1>5 DEF AT!Failures
  <2>2. log[j].at \in Nat
    BY <1>1, <1>2, <1>3, <2>1, LogTypes
  <2>3. t <= log[j].at + Lifetime
    BY <2>1, <2>2, CountersAssumption
  <2> QED BY <1>5, <2>1, <2>3 DEF Counted
<1>8. IsFiniteSet(S)
  BY <1>3, <1>5, CountedFinite
<1>9. Cardinality(F) <= Cardinality(S) /\ Cardinality(F) \in Nat /\ Cardinality(S) \in Nat
  BY <1>7, <1>8, FS_Subset, FS_CardinalityType
<1>10. Cardinality(F) < 2
  BY <1>6, <1>9
<1> QED BY <1>5, <1>10

\* Checks that were counted apart, up to the limit, are no more than the limit.
LEMMA CountedApart ==
  ASSUME NEW S, NEW f, Limit \in Nat, \A i \in S : f[i] \in 1..Limit,
         \A i, j \in S : f[i] = f[j] => i = j
  PROVE  IsFiniteSet(S) /\ Cardinality(S) \in Nat /\ Cardinality(S) <= Limit
<1>1. IsFiniteSet(1..Limit) /\ Cardinality(1..Limit) = Limit
  <2>1. IsFiniteSet(1..Limit) /\ Cardinality(1..Limit) = IF 1 > Limit THEN 0 ELSE Limit - 1 + 1
    BY FS_Interval
  <2> QED BY <2>1
<1>2. [i \in S |-> f[i]] \in Injection(S, 1..Limit)
  BY DEF Injection, IsInjective
<1> QED BY <1>1, <1>2, FS_Injection, FS_CardinalityType

\* Three checks that were counted the same are more than a lifetime apart.
LEMMA ThriceCounted ==
  ASSUME CounterTypes, ValidatorInv, NEW i \in DOMAIN log, NEW j \in DOMAIN log, NEW k \in DOMAIN log,
         i < j, j < k, log[i].n = log[j].n, log[j].n = log[k].n
  PROVE  log[i].at + Lifetime < log[k].at
<1>1. PICK n \in Nat : DOMAIN log = 1..n
  BY LogTypes
<1>2. log[j].n \in Nat
  BY LogTypes
<1>3. PICK m \in DOMAIN log : i < m /\ m <= j /\ log[m].n = 1
  BY <1>2 DEF ValidatorInv
<1>4. PICK l \in DOMAIN log : j < l /\ l <= k /\ log[l].n = 1
  BY <1>2 DEF ValidatorInv
<1>5. m < l /\ i <= m /\ l <= k
  BY <1>1, <1>3, <1>4
<1>6. log[m].at + Lifetime < log[l].at
  BY <1>3, <1>4, <1>5 DEF ValidatorInv
<1>7. log[i].at <= log[m].at /\ log[l].at <= log[k].at
  BY <1>5 DEF CounterTypes
<1>8. log[i].at \in Nat /\ log[m].at \in Nat /\ log[l].at \in Nat /\ log[k].at \in Nat
  BY LogTypes
<1> QED BY <1>6, <1>7, <1>8, CountersAssumption

\* No stretch of a lifetime has more than two checks that were counted the same.
LEMMA AtMostTwice ==
  ASSUME CounterInv
  PROVE  AT!TwiceTheLimit
<1> SUFFICES ASSUME kind = "validator", NEW t \in 0..MaxTime
             PROVE  Cardinality({i \in DOMAIN log : /\ log[i].answer = "allowed"
                                                    /\ log[i].at \in t..(t + Lifetime - 1)}) <= 2 * Limit
  <2> SUFFICES ASSUME kind = "validator", NEW t \in 0..MaxTime
               PROVE  AT!Cardinality({i \in DOMAIN log : /\ log[i].answer = "allowed"
                                                         /\ log[i].at \in t..(t + Lifetime - 1)}) <= 2 * Limit
    BY DEF AT!TwiceTheLimit
  <2> QED BY SameCardinality
<1>1. CounterTypes /\ ValidatorInv
  BY DEF CounterInv
<1>2. Limit \in Nat /\ t \in Nat
  BY LimiterAssumption
<1>3. PICK n \in Nat : DOMAIN log = 1..n
  BY <1>1, LogTypes
<1>4. PICK W : W = {i \in DOMAIN log : log[i].answer = "allowed" /\ log[i].at \in t..(t + Lifetime - 1)}
  OBVIOUS
<1>5. PICK f : f = [i \in DOMAIN log |-> log[i].n]
  OBVIOUS
<1>6. \A i \in W : f[i] \in 1..Limit /\ i \in DOMAIN log /\ f[i] = log[i].n
  <2> SUFFICES ASSUME NEW i \in W PROVE f[i] \in 1..Limit /\ i \in DOMAIN log /\ f[i] = log[i].n
    OBVIOUS
  <2>1. i \in DOMAIN log /\ log[i].answer = "allowed" /\ f[i] = log[i].n
    BY <1>4, <1>5
  <2>2. log[i].n \in Nat /\ log[i].n >= 1 /\ log[i].n <= Limit
    BY <1>1, <2>1, LogTypes DEF ValidatorInv
  <2> QED BY <1>2, <2>1, <2>2
<1>7. PICK A, B : /\ A = {i \in W : \A j \in W : j < i => f[j] # f[i]}
                  /\ B = {i \in W : \E j \in W : j < i /\ f[j] = f[i]}
  OBVIOUS
<1>8. \A i, j \in W : i < j \/ j < i \/ i = j
  BY <1>3, <1>6
<1>9. ASSUME NEW i \in W, NEW j \in W, NEW k \in W, i < j, j < k, f[i] = f[j], f[j] = f[k]
      PROVE  FALSE
  <2>1. log[i].at + Lifetime < log[k].at
    BY <1>1, <1>6, <1>9, ThriceCounted
  <2>2. log[i].at \in t..(t + Lifetime - 1) /\ log[k].at \in t..(t + Lifetime - 1)
    BY <1>4
  <2> QED BY <1>2, <2>1, <2>2, CountersAssumption
<1>10. IsFiniteSet(A) /\ Cardinality(A) \in Nat /\ Cardinality(A) <= Limit
  <2>1. \A i, j \in A : f[i] = f[j] => i = j
    BY <1>7, <1>8
  <2> QED BY <1>2, <1>6, <1>7, <2>1, CountedApart
<1>11. IsFiniteSet(B) /\ Cardinality(B) \in Nat /\ Cardinality(B) <= Limit
  <2>1. ASSUME NEW i \in B, NEW j \in B, f[i] = f[j], i < j PROVE FALSE
    <3>1. PICK k \in W : k < i /\ f[k] = f[i]
      BY <1>7
    <3> QED BY <1>7, <1>9, <2>1, <3>1
  <2>2. \A i, j \in B : f[i] = f[j] => i = j
    <3> SUFFICES ASSUME NEW i \in B, NEW j \in B, f[i] = f[j] PROVE i = j
      OBVIOUS
    <3>1. i < j \/ j < i \/ i = j
      BY <1>7, <1>8
    <3>2. f[j] = f[i]
      OBVIOUS
    <3> QED BY <2>1, <3>1, <3>2
  <2> QED BY <1>2, <1>6, <1>7, <2>2, CountedApart
<1>12. Cardinality(W) <= 2 * Limit
  <2>1. W = A \cup B
    BY <1>7
  <2>2. Cardinality(A \cap B) \in Nat
    <3>1. IsFiniteSet(A \cap B)
      BY <1>10, FS_Subset
    <3> QED BY <3>1, FS_CardinalityType
  <2>3. Cardinality(A \cup B) = Cardinality(A) + Cardinality(B) - Cardinality(A \cap B)
    BY <1>10, <1>11, FS_Union
  <2>4. Cardinality(A \cup B) <= Limit + Limit
    BY <1>2, <1>10, <1>11, <2>2, <2>3
  <2> QED BY <1>2, <2>1, <2>4
<1> QED BY <1>4, <1>12

\* However checks interleave with successful logins and the expiry of the key, no
\* third failure within the lifetime is allowed, and any stretch as long as the
\* lifetime lets at most twice the limit through (check_auth_attempt,
\* check_rate_limit).
THEOREM LetThroughIsBounded == LimitsSpec => []LetThroughBounded
<1>1. CounterInv => LetThroughBounded
  BY ThirdIsRefused, AtMostTwice DEF LetThroughBounded, AT!LetThroughBounded
<1> QED BY <1>1, CounterInvHolds, PTL

\* A counter without a lifetime has a check about to set one, or was left by a check
\* that was cut short (check_rate_limit, check_auth_attempt).
THEOREM CountersDoEnd == LimitsSpec => []CountersEnd
<1>1. CounterInv => CountersEnd
  BY DEF CounterInv, CountersEnd
<1> QED BY <1>1, CounterInvHolds, PTL
=============================================================================
