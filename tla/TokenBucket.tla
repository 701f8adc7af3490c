---------------------------- MODULE TokenBucket ----------------------------
(***************************************************************************)
(* What a rate limiter promises: per key a bucket that holds at most its   *)
(* capacity in tokens, gains refill tokens a second, evenly, and gives one *)
(* away with each request it lets pass.  A bucket that nobody has used is  *)
(* full; one that is full may be forgotten, and has the quota of the       *)
(* moment when it is used again.                                           *)
(*                                                                         *)
(* Time passes in ticks of 1/Scale s; fractions of a token are counted in  *)
(* 1/Scale, so that a tick brings refill of them.                          *)
(***************************************************************************)
EXTENDS Naturals

CONSTANTS Key, Quota, Scale, Untouched, None

VARIABLES
    bucket,     \* of each key: Untouched, or its quota, tokens and fraction
    answer      \* the decision of the latest step, None if it made none

Opened(b, q) ==
    IF b = Untouched THEN [quota |-> q, tokens |-> q.capacity, fraction |-> 0] ELSE b

Refilled(b) ==
    LET amount == b.fraction + b.quota.refill
        more   == b.tokens + amount \div Scale
    IN  [b EXCEPT !.tokens = IF more > b.quota.capacity THEN b.quota.capacity ELSE more,
                  !.fraction = amount % Scale]

Init == bucket = [k \in Key |-> Untouched] /\ answer = None

Tick ==
    /\ bucket' = [k \in Key |-> IF bucket[k] = Untouched THEN Untouched ELSE Refilled(bucket[k])]
    /\ answer' = None

Pass(k, q) ==
    LET b == Opened(bucket[k], q)
    IN  /\ b.tokens > 0
        /\ bucket' = [bucket EXCEPT ![k] = [b EXCEPT !.tokens = @ - 1]]
        /\ answer' = [key |-> k, passed |-> TRUE]

Refuse(k) ==
    /\ bucket[k] # Untouched
    /\ bucket[k].tokens = 0
    /\ answer' = [key |-> k, passed |-> FALSE]
    /\ UNCHANGED bucket

Forget(ks) ==
    /\ \A k \in ks : bucket[k] # Untouched /\ bucket[k].tokens = bucket[k].quota.capacity
    /\ bucket' = [k \in Key |-> IF k \in ks THEN Untouched ELSE bucket[k]]
    /\ answer' = None

\* Something else happens.
Rest == answer' = None /\ UNCHANGED bucket

Next ==
    \/ Tick \/ Rest
    \/ \E k \in Key : Refuse(k) \/ \E q \in Quota : Pass(k, q)
    \/ \E ks \in SUBSET Key : Forget(ks)

Spec == Init /\ [][Next]_<<bucket, answer>>
=============================================================================
