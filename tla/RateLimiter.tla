---------------------------- MODULE RateLimiter ----------------------------
(***************************************************************************)
(* RateLimiterManager and the RateLimiter objects in it, shared by all     *)
(* workers.  Every operation runs under mutex_ and is a step.  A limiter   *)
(* is refilled only when it is used, from the time since its last use; it  *)
(* keeps the quota it was created with; limiters that nobody uses are      *)
(* removed by whichever worker's timer comes round.                        *)
(*                                                                         *)
(* Time is in ticks of 1/Scale s and fractions of a token in 1/Scale, so   *)
(* that the code's doubles are the natural numbers elapsed * refill +      *)
(* fraction.  last_used_ and last_refill_ are set by the same call and are *)
(* one field here.                                                         *)
(***************************************************************************)
EXTENDS Naturals

CONSTANTS
    Key,            \* what is limited: an address, an API key, a route
    Quota,          \* [capacity, refill]: RateLimitConfig
    Worker,
    Scale,          \* ticks in a second
    Idle,           \* ticks without use after which cleanup removes a limiter
    Every,          \* ticks between two cleanups by the same worker
    MaxTime,        \* bound of the instance
    None

\* A server has workers, and validation wants capacity and refill to be
\* positive.
ASSUME LimiterConstants ==
    /\ Scale \in Nat \ {0} /\ Idle \in Nat /\ Every \in Nat \ {0} /\ MaxTime \in Nat
    /\ Worker # {}
    /\ Quota \subseteq [capacity : Nat \ {0}, refill : Nat \ {0}]
    /\ None \notin [quota : Quota, tokens : Nat, fraction : Nat]
    /\ None \notin [quota : Quota, tokens : Nat, fraction : Nat, at : Nat]

\* Every bucket is full again within the idle time.  The defaults leave ample
\* room, 100 tokens at 50 a second for 600 s, but validation does not ask for it.
FullAfterIdle == \A q \in Quota : Idle * q.refill >= q.capacity * Scale

VARIABLES
    now,        \* the steady clock
    limiters,   \* limiters_ and last_used_
    swept,      \* last_limiter_cleanup_ of each worker
    answer,     \* history: the decision of the latest step
    burst       \* history: see Burst

limiterVars == <<now, limiters, swept, answer, burst>>

Bounded(n, m) == IF n > m THEN m ELSE n

\* RateLimiter::RateLimiter.
Created(q) == [quota |-> q, tokens |-> q.capacity, fraction |-> 0, at |-> now]

\* Mutant: the fraction of a token is dropped.
RefillTruncated(l) ==
    LET amount == (now - l.at) * l.quota.refill
    IN  [l EXCEPT !.tokens = Bounded(l.tokens + amount \div Scale, l.quota.capacity),
                  !.at = now]

\* The refill in RateLimiter::try_acquire.
Refill(l) ==
    LET amount == (now - l.at) * l.quota.refill + l.fraction
    IN  [l EXCEPT !.tokens = Bounded(l.tokens + amount \div Scale, l.quota.capacity),
                  !.fraction = amount % Scale,
                  !.at = now]

\* RateLimiterManager::try_acquire, for a worker whose configuration gives the
\* key the quota q.
Found(k, q) == IF limiters[k] = None THEN Created(q) ELSE limiters[k]

TryAcquire(k, q) ==
    LET l == Refill(Found(k, q))
    IN  /\ limiters' = [limiters EXCEPT ![k] =
               IF l.tokens > 0 THEN [l EXCEPT !.tokens = @ - 1] ELSE l]
        /\ answer' = [key |-> k, passed |-> l.tokens > 0]
        /\ burst' = [burst EXCEPT ![k] = IF l.tokens > 0 THEN @ + Scale ELSE @]
        /\ UNCHANGED <<now, swept>>

\* check_timeout: this worker's next cleanup is due.
Overdue(w) == now - swept[w] >= Every

\* Mutant: a limiter in use is removed too.
RemovableAny(k) == limiters[k] # None

\* Mutant: twice the idle time.
RemovableLate(k) == limiters[k] # None /\ now - limiters[k].at > 2 * Idle

\* Unused beyond the idle time.
Removable(k) == limiters[k] # None /\ now - limiters[k].at > Idle

Sweep(w) ==
    /\ Overdue(w)
    /\ limiters' = [k \in Key |-> IF Removable(k) THEN None ELSE limiters[k]]
    /\ swept' = [swept EXCEPT ![w] = now]
    /\ answer' = None
    /\ UNCHANGED <<now, burst>>

\* The history burst follows, for each key, the largest excess over its rate
\* that a window of time that ends now can show: the requests let pass in it,
\* in 1/Scale, less the refill of its ticks.
Decayed(k) ==
    IF limiters[k] = None \/ burst[k] < limiters[k].quota.refill THEN 0
    ELSE burst[k] - limiters[k].quota.refill

\* Time passes; a worker's timer is never a tick late.
Tick ==
    /\ now < MaxTime
    /\ \A w \in Worker : ~Overdue(w)
    /\ now' = now + 1
    /\ burst' = [k \in Key |-> Decayed(k)]
    /\ answer' = None
    /\ UNCHANGED <<limiters, swept>>

LimiterInit ==
    /\ now = 0
    /\ limiters = [k \in Key |-> None]
    /\ swept = [w \in Worker |-> 0]
    /\ answer = None
    /\ burst = [k \in Key |-> 0]

-----------------------------------------------------------------------------
(* Properties.                                                             *)

\* A limiter seen as a bucket that is refilled all the time.
AsBucket(l) ==
    IF l = None THEN None
    ELSE LET r == Refill(l) IN [quota |-> r.quota, tokens |-> r.tokens, fraction |-> r.fraction]

Bucket == INSTANCE TokenBucket
    WITH bucket <- [k \in Key |-> AsBucket(limiters[k])], Untouched <- None

\* The shared limiter, refilled only when it is used and forgotten when it is
\* not, cannot be told from token buckets that are refilled every tick
\* (rate_limiter.cpp: try_acquire; rate_limiter_manager.h: cleanup).
LimiterRefines == Bucket!Spec

\* In no window of time do more requests of a key pass than its capacity plus
\* what is refilled in that window (less than a token more for the fraction in
\* hand when it begins), through which workers they come, and whether or not
\* the limiter has been removed meanwhile.
RateBound ==
    \A k \in Key : limiters[k] # None =>
        burst[k] + AsBucket(limiters[k]).tokens * Scale + AsBucket(limiters[k]).fraction
            <= limiters[k].quota.capacity * Scale + Scale - 1

\* The manager does not grow with the keys it has ever seen: what is not used
\* is gone after the idle time and the interval between two cleanups.
IdleForgotten ==
    \A k \in Key : limiters[k] # None => now - limiters[k].at <= Idle + Every
=============================================================================
