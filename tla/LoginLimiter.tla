------------------------------ MODULE LoginLimiter ------------------------------
(***************************************************************************)
(* The limits in front of password verification: a token bucket for each     *)
(* remote peer, in a table of bounded size, and permits for the work itself.  *)
(*                                                                         *)
(* Allow reads the clock before it takes the mutex, so the buckets are       *)
(* brought up to date with times that may be older than what they hold.       *)
(* Tokens are counted in ticks of refill: one attempt costs RefillInterval.   *)
(***************************************************************************)
EXTENDS Integers, FiniteSets, Services

CONSTANTS
    Peers,             \* addresses of remote peers
    Burst,             \* loginBurst
    RefillInterval,    \* loginRefillInterval
    MaxSources,        \* loginMaxSources
    IdleTime,          \* loginSourceIdle
    CleanupInterval,   \* loginCleanupInterval
    MaxPermits,        \* maxConcurrentLogins
    MaxDelay,          \* how long a call waits for the mutex at most
    MaxTime            \* bound on the clock

VARIABLES
    clock,        \* the monotonic clock
    buckets,      \* loginSourceLimiter.buckets
    lastCleanup,  \* loginSourceLimiter.lastCleanup, None before the first
    attempt,      \* the login requests in flight
    allowance     \* what a bucket that is never forgotten would still hold, for each peer

limiterVars == <<clock, buckets, lastCleanup, attempt, allowance>>

Full == Burst * RefillInterval

\* A bucket that was filled up too early is worth up to MaxDelay more by now.
Capacity == Full + MaxDelay

Times == 0..MaxTime

Bucket == [tokens : 0..Full, updated : Times, lastSeen : Times]

\* The policy of the code has 15 minutes against 2 minutes for a full refill.
ASSUME LimiterAssumption ==
    /\ {Burst, RefillInterval, MaxSources, IdleTime, CleanupInterval, MaxPermits} \subseteq Nat \ {0}
    /\ {MaxDelay, MaxTime} \subseteq Nat
    /\ IdleTime >= Burst * RefillInterval + 2 * MaxDelay
    /\ None \notin Peers \cup Bucket

Attempt == [step : {"idle", "waiting", "allowed", "working"}, peer : Peers \cup {None}, now : Times]

NoAttempt == [step |-> "idle", peer |-> None, now |-> 0]

LimiterInit ==
    /\ clock = 0
    /\ buckets = [a \in Peers |-> None]
    /\ lastCleanup = None
    /\ attempt = [p \in Requests |-> NoAttempt]
    /\ allowance = [a \in Peers |-> Capacity]

-----------------------------------------------------------------------------
AtMost(n, bound) == IF n <= bound THEN n ELSE bound

\* Nobody who waits for the mutex has read the clock more than MaxDelay ago.
Tick ==
    /\ clock < MaxTime
    /\ \A p \in Requests : attempt[p].step = "waiting" => clock - attempt[p].now < MaxDelay
    /\ clock' = clock + 1
    /\ allowance' = [a \in Peers |-> AtMost(allowance[a] + 1, Capacity)]
    /\ UNCHANGED <<buckets, lastCleanup, attempt>>

\* now := l.now(), before l.mu.Lock().
EnterAllow(p, a) ==
    /\ attempt[p] = NoAttempt
    /\ attempt' = [attempt EXCEPT ![p] = [step |-> "waiting", peer |-> a, now |-> clock]]
    /\ UNCHANGED <<clock, buckets, lastCleanup, allowance>>

CleanupIsDue(now) == lastCleanup = None \/ now - lastCleanup >= CleanupInterval

\* Mutant of KeepBucket: a bucket goes as soon as it is not used.
KeepRecentBucket(bucket, now) == now - bucket.lastSeen < CleanupInterval

KeepBucket(bucket, now) == now - bucket.lastSeen < IdleTime

\* The table after the cleanup that is due, if any.
Cleaned(now) ==
    [a \in Peers |->
        IF buckets[a] # None /\ CleanupIsDue(now) /\ ~KeepBucket(buckets[a], now)
        THEN None ELSE buckets[a]]

Stored(table) == {a \in Peers : table[a] # None}

\* A full table takes no new peer, rather than forget one.
HasRoom(table) == Cardinality(Stored(table)) < MaxSources

\* Mutant of Refilled: the burst does not bound what is refilled.
RefilledBeyondBurst(bucket, now) ==
    CASE bucket = None -> [tokens |-> Full, updated |-> now, lastSeen |-> now]
      [] bucket # None /\ now > bucket.updated ->
            [tokens |-> bucket.tokens + (now - bucket.updated), updated |-> now, lastSeen |-> now]
      [] OTHER -> [bucket EXCEPT !.lastSeen = now]

\* A new peer starts with the burst; time that runs backwards adds nothing.
Refilled(bucket, now) ==
    CASE bucket = None -> [tokens |-> Full, updated |-> now, lastSeen |-> now]
      [] bucket # None /\ now > bucket.updated ->
            [tokens |-> AtMost(bucket.tokens + (now - bucket.updated), Full),
             updated |-> now, lastSeen |-> now]
      [] OTHER -> [bucket EXCEPT !.lastSeen = now]

Spent(bucket) == [bucket EXCEPT !.tokens = @ - RefillInterval]

\* Under the mutex: clean up, find or make the bucket, refill it, spend.
Allow(p) ==
    LET now    == attempt[p].now
        a      == attempt[p].peer
        table  == Cleaned(now)
        bucket == Refilled(table[a], now)
        known  == table[a] # None \/ HasRoom(table)
        pays   == known /\ bucket.tokens >= RefillInterval
    IN
    /\ attempt[p].step = "waiting"
    /\ lastCleanup' = IF CleanupIsDue(now) THEN now ELSE lastCleanup
    /\ buckets' = IF ~known THEN table
                  ELSE [table EXCEPT ![a] = IF pays THEN Spent(bucket) ELSE bucket]
    /\ allowance' = IF pays THEN [allowance EXCEPT ![a] = @ - RefillInterval] ELSE allowance
    /\ attempt' = [attempt EXCEPT ![p] =
          IF pays THEN [step |-> "allowed", peer |-> a, now |-> now] ELSE NoAttempt]
    /\ UNCHANGED clock

Working == {p \in Requests : attempt[p].step = "working"}

\* No waiting: without a permit the request is refused.
TryAcquire(p) ==
    /\ attempt[p].step = "allowed"
    /\ attempt' = [attempt EXCEPT ![p] =
          IF Cardinality(Working) < MaxPermits THEN [@ EXCEPT !.step = "working"] ELSE NoAttempt]
    /\ UNCHANGED <<clock, buckets, lastCleanup, allowance>>

\* Deferred: however the verification ends.
ReleasePermit(p) ==
    /\ attempt[p].step = "working"
    /\ attempt' = [attempt EXCEPT ![p] = NoAttempt]
    /\ UNCHANGED <<clock, buckets, lastCleanup, allowance>>

LimiterNext ==
    \/ Tick
    \/ \E p \in Requests :
          \/ \E a \in Peers : EnterAllow(p, a)
          \/ Allow(p)
          \/ TryAcquire(p)
          \/ ReleasePermit(p)

LimiterSpec == LimiterInit /\ [][LimiterNext]_limiterVars

-----------------------------------------------------------------------------
(* Properties *)

\* Every variable of the limiter has its type.
LimiterTypeOK ==
    /\ clock \in Times
    /\ buckets \in [Peers -> Bucket \cup {None}]
    /\ lastCleanup \in Times \cup {None}
    /\ attempt \in [Requests -> Attempt]
    /\ allowance \in [Peers -> Int]

\* A bucket never holds more than one that is never forgotten, and a peer is
\* forgotten only when such a bucket is full again: neither the cleanup, nor a full
\* table, nor a clock that was read too early admits more than the burst, what was
\* refilled since, and once what is refilled while a call waits for the mutex.
NothingIsForgiven ==
    \A a \in Peers :
        /\ allowance[a] >= 0
        /\ buckets[a] = None => allowance[a] = Capacity
        /\ buckets[a] # None =>
              AtMost(buckets[a].tokens + (clock - buckets[a].updated), Capacity) <= allowance[a]

=============================================================================
