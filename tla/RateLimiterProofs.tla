-------------------------- MODULE RateLimiterProofs --------------------------
(***************************************************************************)
(* The shared rate limiter is a set of token buckets, for any keys,        *)
(* quotas, workers and clocks.  The lemmas are about one step of whoever   *)
(* uses the manager; RequestGateProofs puts them together for the gate.    *)
(***************************************************************************)
EXTENDS RateLimiter, Integers, TLAPS

-----------------------------------------------------------------------------
(* Quotient and remainder.                                                 *)

\* What \div and % are, for the token arithmetic of try_acquire.
LEMMA DivMod ==
    ASSUME NEW n \in Nat, NEW s \in Nat \ {0}
    PROVE  /\ n \div s \in Nat /\ n % s \in 0 .. (s - 1)
           /\ n = s * (n \div s) + (n % s)
OBVIOUS

\* Quotient and remainder are determined by the sum they make up.
LEMMA DivModUnique ==
    ASSUME NEW s \in Nat \ {0}, NEW q \in Nat, NEW r \in 0 .. (s - 1), NEW n \in Nat, n = s * q + r
    PROVE  n \div s = q /\ n % s = r
<1> DEFINE p == n \div s
           m == n % s
<1>1. p \in Nat /\ m \in 0 .. (s - 1) /\ n = s * p + m
  BY DivMod, Zenon
<1> HIDE DEF p, m
<1>2. s * p + m = s * q + r
  BY <1>1
<1>3. ASSUME NEW x \in Nat, NEW y \in Nat, NEW i \in 0 .. (s - 1), NEW j \in 0 .. (s - 1),
             x < y, s * x + i = s * y + j
      PROVE  FALSE
  <2>1. PICK d \in Nat \ {0} : y = x + d
    <3>1. y - x \in Nat \ {0} /\ y = x + (y - x)
      BY <1>3
    <3>2. QED
      BY <3>1
  <2>2. s * y = s * x + s * d
    BY <2>1
  <2>3. s * d >= s
    BY <2>1
  <2>4. s * x \in Nat /\ s * d \in Nat
    BY <2>1
  <2>5. QED
    BY <1>3, <2>2, <2>3, <2>4
<1>4. p = q
  BY <1>1, <1>2, <1>3
<1>5. QED
  BY <1>1, <1>2, <1>4 DEF p, m

\* A fraction of a token is no token.
LEMMA DivModSmall ==
    ASSUME NEW s \in Nat \ {0}, NEW n \in 0 .. (s - 1)
    PROVE  n \div s = 0 /\ n % s = n
<1>1. n = s * 0 + n /\ 0 \in Nat /\ n \in Nat
  OBVIOUS
<1>2. QED
  BY <1>1, DivModUnique

\* The whole and the fractional part of a refill can be taken in two steps, as
\* try_acquire does when it is called twice.
LEMMA DivModSum ==
    ASSUME NEW a \in Nat, NEW b \in Nat, NEW s \in Nat \ {0}
    PROVE  /\ (a + b) \div s = a \div s + ((a % s) + b) \div s
           /\ (a + b) % s = ((a % s) + b) % s
<1> DEFINE c == (a % s) + b
           q == c \div s
           r == c % s
<1>1. a \div s \in Nat /\ a % s \in Nat /\ a = s * (a \div s) + (a % s)
  BY DivMod
<1>2. c \in Nat
  BY <1>1
<1> HIDE DEF c
<1>3. q \in Nat /\ r \in 0 .. (s - 1) /\ c = s * q + r
  BY <1>2, DivMod, Zenon
<1> HIDE DEF q, r
<1> DEFINE d == a \div s + q
           n == a + b
<1>4. n = s * d + r
  <2>1. s * d = s * (a \div s) + s * q
    BY <1>1, <1>3
  <2>2. s * d \in Nat /\ s * (a \div s) \in Nat /\ s * q \in Nat
    BY <1>1, <1>3
  <2>3. QED
    BY <1>1, <1>3, <2>1, <2>2 DEF c
<1>5. d \in Nat /\ n \in Nat
  BY <1>1, <1>3
<1> HIDE DEF d, n
<1>6. n \div s = d /\ n % s = r
  BY <1>3, <1>4, <1>5, DivModUnique
<1>7. QED
  BY <1>6 DEF n, d, q, r, c

-----------------------------------------------------------------------------
(* A limiter and its refill at a time t.                                   *)

Limiter == [quota : Quota, tokens : Nat, fraction : Nat, at : Nat]

\* A RateLimiter object as its operations leave it.
Sound(l, t) ==
    /\ l \in Limiter
    /\ l.tokens <= l.quota.capacity /\ l.fraction < Scale /\ l.at <= t

\* What try_acquire adds to a limiter, in fractions of a token.
Amount(l, t) == (t - l.at) * l.quota.refill + l.fraction

Filled(l, t) ==
    [quota |-> l.quota,
     tokens |-> Bounded(l.tokens + Amount(l, t) \div Scale, l.quota.capacity),
     fraction |-> Amount(l, t) % Scale]

\* A sound limiter has positive rates, and a refill is a natural number.
LEMMA SoundNumbers ==
    ASSUME NEW t \in Nat, NEW l, Sound(l, t)
    PROVE  /\ l.quota \in Quota /\ l.quota.capacity \in Nat \ {0} /\ l.quota.refill \in Nat \ {0}
           /\ l.tokens \in Nat /\ l.fraction \in Nat /\ l.at \in Nat
           /\ (t - l.at) * l.quota.refill \in Nat
           /\ Amount(l, t) \in Nat
<1>1. l.quota \in Quota /\ l.tokens \in Nat /\ l.fraction \in Nat /\ l.at \in Nat
  BY DEF Sound, Limiter
<1>2. l.quota.capacity \in Nat \ {0} /\ l.quota.refill \in Nat \ {0}
  BY <1>1, LimiterConstants
<1>3. t - l.at \in Nat
  BY <1>1 DEF Sound
<1>4. (t - l.at) * l.quota.refill \in Nat
  BY <1>2, <1>3
<1>5. QED
  BY <1>1, <1>2, <1>4 DEF Amount

\* A refill keeps the tokens within the capacity and the fraction below one.
LEMMA FilledBounds ==
    ASSUME NEW t \in Nat, NEW l, Sound(l, t)
    PROVE  /\ Filled(l, t) \in [quota : Quota, tokens : Nat, fraction : Nat]
           /\ Filled(l, t).quota = l.quota
           /\ Filled(l, t).tokens <= l.quota.capacity
           /\ Filled(l, t).fraction < Scale
<1>1. Amount(l, t) \div Scale \in Nat /\ Amount(l, t) % Scale \in 0 .. (Scale - 1)
  BY SoundNumbers, DivMod, LimiterConstants, Zenon
<1> DEFINE more == l.tokens + Amount(l, t) \div Scale
<1>2. more \in Nat /\ l.quota.capacity \in Nat /\ l.quota \in Quota
  BY <1>1, SoundNumbers
<1> HIDE DEF more
<1>3. Bounded(more, l.quota.capacity) \in Nat /\ Bounded(more, l.quota.capacity) <= l.quota.capacity
  BY <1>2 DEF Bounded
<1>4. Filled(l, t) = [quota |-> l.quota, tokens |-> Bounded(more, l.quota.capacity),
                      fraction |-> Amount(l, t) % Scale]
  BY DEF more, Filled
<1>5. QED
  BY <1>1, <1>2, <1>3, <1>4, LimiterConstants

\* A limiter that was just used is as full as it can be.
LEMMA FilledJustUsed ==
    ASSUME NEW t \in Nat, NEW l, Sound(l, t), l.at = t
    PROVE  Filled(l, t) = [quota |-> l.quota, tokens |-> l.tokens, fraction |-> l.fraction]
<1>1. Amount(l, t) = l.fraction
  BY SoundNumbers DEF Amount
<1>2. l.fraction \in 0 .. (Scale - 1)
  BY SoundNumbers, LimiterConstants DEF Sound
<1>3. Amount(l, t) \div Scale = 0 /\ Amount(l, t) % Scale = l.fraction
  BY <1>1, <1>2, DivModSmall, LimiterConstants
<1>4. Bounded(l.tokens + Amount(l, t) \div Scale, l.quota.capacity) = l.tokens
  BY <1>3, SoundNumbers DEF Bounded, Sound
<1>5. QED
  BY <1>3, <1>4 DEF Filled

\* A limiter that nobody used for longer than the idle time is full.
LEMMA FilledIdle ==
    ASSUME NEW t \in Nat, NEW l, Sound(l, t), FullAfterIdle, t - l.at > Idle
    PROVE  Filled(l, t).tokens = l.quota.capacity
<1> DEFINE c == l.quota.capacity
           r == l.quota.refill
           d == t - l.at
           a == Amount(l, t)
<1>1. c \in Nat /\ r \in Nat /\ d \in Nat /\ a \in Nat /\ Idle \in Nat /\ Scale \in Nat \ {0}
  BY SoundNumbers, LimiterConstants DEF Sound
<1>2. a >= c * Scale
  <2>1. Idle * r >= c * Scale
    BY SoundNumbers DEF FullAfterIdle
  <2>2. d * r >= Idle * r
    <3>1. d - Idle \in Nat /\ d = Idle + (d - Idle)
      BY <1>1
    <3>2. d * r = Idle * r + (d - Idle) * r /\ (d - Idle) * r \in Nat /\ Idle * r \in Nat
      BY <1>1, <3>1
    <3>3. QED
      BY <3>2
  <2>3. a = d * r + l.fraction /\ l.fraction \in Nat /\ d * r \in Nat
    BY SoundNumbers DEF Amount
  <2>4. Idle * r \in Nat /\ c * Scale \in Nat
    BY <1>1
  <2>5. QED
    BY <2>1, <2>2, <2>3, <2>4
<1> HIDE DEF a, c
<1>3. a \div Scale >= c
  <2>1. a \div Scale \in Nat /\ a % Scale \in 0 .. (Scale - 1) /\ a = Scale * (a \div Scale) + (a % Scale)
    BY <1>1, DivMod, Zenon
  <2> DEFINE q == a \div Scale
  <2> HIDE DEF q
  <2>2. ASSUME q < c PROVE FALSE
    <3>1. c - q \in Nat \ {0} /\ q \in Nat /\ c = q + (c - q)
      BY <1>1, <2>1, <2>2 DEF q
    <3>2. Scale * c = Scale * q + Scale * (c - q) /\ Scale * (c - q) >= Scale
      BY <1>1, <3>1
    <3>3. Scale * q \in Nat /\ Scale * (c - q) \in Nat /\ c * Scale = Scale * c
      BY <1>1, <3>1
    <3>4. QED
      BY <1>1, <1>2, <2>1, <3>2, <3>3 DEF q
  <2>3. QED
    BY <1>1, <2>1, <2>2 DEF q
<1>4. Filled(l, t).tokens = Bounded(l.tokens + a \div Scale, c)
  BY DEF Filled, a, c
<1>5. l.tokens \in Nat /\ a \div Scale \in Nat
  BY <1>1, SoundNumbers, DivMod, Zenon
<1>6. Bounded(l.tokens + a \div Scale, c) = c
  BY <1>1, <1>3, <1>5 DEF Bounded
<1>7. QED
  BY <1>4, <1>6 DEF c

\* The fields of a bucket after a tick.
LEMMA RefilledFields ==
    ASSUME NEW q, NEW m, NEW y
    PROVE  Bucket!Refilled([quota |-> q, tokens |-> m, fraction |-> y])
               = [quota |-> q, tokens |-> Bounded(m + (y + q.refill) \div Scale, q.capacity),
                  fraction |-> (y + q.refill) % Scale]
<1> DEFINE b == [quota |-> q, tokens |-> m, fraction |-> y]
           n == Bounded(m + (y + q.refill) \div Scale, q.capacity)
           f == (y + q.refill) % Scale
<1>1. Bucket!Refilled(b) = [b EXCEPT !.tokens = n, !.fraction = f]
  BY DEF Bucket!Refilled, Bounded
<1> HIDE DEF n, f
<1>2. [b EXCEPT !.tokens = n, !.fraction = f] = [quota |-> q, tokens |-> n, fraction |-> f]
  <2>1. [b EXCEPT !.tokens = n, !.fraction = f]
            = [x \in {"quota", "tokens", "fraction"} |->
                  CASE x = "tokens" -> n [] x = "fraction" -> f [] OTHER -> b[x]]
    BY Zenon
  <2>2. QED
    BY <2>1
<1>3. QED
  BY <1>1, <1>2 DEF n, f

\* One tick later the limiter is what a bucket refilled at that tick is: no
\* part of a token is lost or gained by refilling late.
LEMMA FilledTick ==
    ASSUME NEW t \in Nat, NEW l, Sound(l, t)
    PROVE  Sound(l, t + 1) /\ Filled(l, t + 1) = Bucket!Refilled(Filled(l, t))
<1>1. Sound(l, t + 1)
  BY SoundNumbers DEF Sound
<1> DEFINE a == Amount(l, t)
           r == l.quota.refill
           c == l.quota.capacity
           x == a \div Scale
           y == a % Scale
           z == (y + r) \div Scale
<1>2. a \in Nat /\ r \in Nat /\ c \in Nat /\ l.tokens \in Nat /\ Scale \in Nat \ {0}
  BY SoundNumbers, LimiterConstants
<1>3. Amount(l, t + 1) = a + r
  <2>1. (t + 1) - l.at = (t - l.at) + 1 /\ t - l.at \in Nat
    BY SoundNumbers DEF Sound
  <2>2. \A i, j \in Nat : (i + 1) * j = i * j + j
    OBVIOUS
  <2>3. QED
    BY <1>2, <2>1, <2>2, SoundNumbers DEF Amount
<1>4. (a + r) \div Scale = x + z /\ (a + r) % Scale = (y + r) % Scale
  BY <1>2, DivModSum, Zenon
<1>5. x \in Nat /\ y \in Nat /\ y + r \in Nat
  <2> HIDE DEF a, r
  <2>1. a \div Scale \in Nat /\ a % Scale \in 0 .. (Scale - 1)
    BY <1>2, DivMod, Zenon
  <2>2. QED
    BY <1>2, <2>1
<1>6. z \in Nat
  BY <1>2, <1>5, DivMod
<1>7. Filled(l, t) = [quota |-> l.quota, tokens |-> Bounded(l.tokens + x, c), fraction |-> y]
  BY DEF Filled
<1>8. Filled(l, t + 1) = [quota |-> l.quota, tokens |-> Bounded(l.tokens + (x + z), c),
                          fraction |-> (y + r) % Scale]
  BY <1>3, <1>4 DEF Filled
<1> DEFINE m == Bounded(l.tokens + x, c)
<1>9. Bucket!Refilled([quota |-> l.quota, tokens |-> m, fraction |-> y])
          = [quota |-> l.quota, tokens |-> Bounded(m + z, c), fraction |-> (y + r) % Scale]
  BY RefilledFields
<1>10. Bounded(l.tokens + (x + z), c) = Bounded(m + z, c)
  <2> HIDE DEF x, z, c
  <2>1. QED
    BY <1>2, <1>5, <1>6 DEF Bounded
<1>11. QED
  BY <1>1, <1>7, <1>8, <1>9, <1>10

-----------------------------------------------------------------------------
(* The limiters at work.                                                   *)

\* The refill of the model is Filled, at the present time.
LEMMA RefillFields ==
    ASSUME NEW l \in Limiter
    PROVE  /\ l # None
           /\ Refill(l) = [quota |-> Filled(l, now).quota, tokens |-> Filled(l, now).tokens,
                           fraction |-> Filled(l, now).fraction, at |-> now]
           /\ AsBucket(l) = Filled(l, now)
<1> DEFINE t == Bounded(l.tokens + Amount(l, now) \div Scale, l.quota.capacity)
           f == Amount(l, now) % Scale
<1>1. Refill(l) = [l EXCEPT !.tokens = t, !.fraction = f, !.at = now]
  BY DEF Refill, Amount
<1>2. Filled(l, now) = [quota |-> l.quota, tokens |-> t, fraction |-> f]
  BY DEF Filled
<1> HIDE DEF t, f
<1>3. [l EXCEPT !.tokens = t, !.fraction = f, !.at = now]
          = [quota |-> l.quota, tokens |-> t, fraction |-> f, at |-> now]
  <2>1. [l EXCEPT !.tokens = t, !.fraction = f, !.at = now]
            = [x \in {"quota", "tokens", "fraction", "at"} |->
                  CASE x = "tokens" -> t [] x = "fraction" -> f [] x = "at" -> now
                    [] OTHER -> l[x]]
    BY Zenon DEF Limiter
  <2>2. QED
    BY <2>1
<1>4. l # None
  BY LimiterConstants DEF Limiter
<1>5. QED
  BY <1>1, <1>2, <1>3, <1>4 DEF AsBucket

\* A limiter after try_acquire at the time t.
Used(l, t) ==
    [quota |-> l.quota,
     tokens |-> IF Filled(l, t).tokens > 0 THEN Filled(l, t).tokens - 1 ELSE 0,
     fraction |-> Filled(l, t).fraction,
     at |-> t]

\* A use leaves a limiter sound, and nothing to refill.
LEMMA UsedSound ==
    ASSUME NEW t \in Nat, NEW l, Sound(l, t)
    PROVE  /\ Sound(Used(l, t), t)
           /\ Filled(Used(l, t), t) = [quota |-> l.quota, tokens |-> Used(l, t).tokens,
                                       fraction |-> Filled(l, t).fraction]
<1> DEFINE f == Filled(l, t)
<1>1. /\ f.quota = l.quota /\ f.tokens \in Nat /\ f.fraction \in Nat
      /\ f.tokens <= l.quota.capacity /\ f.fraction < Scale
      /\ l.quota \in Quota /\ l.quota.capacity \in Nat
  BY FilledBounds, SoundNumbers, Zenon
<1> HIDE DEF f
<1>2. Used(l, t) = [quota |-> l.quota, tokens |-> IF f.tokens > 0 THEN f.tokens - 1 ELSE 0,
                    fraction |-> f.fraction, at |-> t]
  BY DEF Used, f
<1>3. Sound(Used(l, t), t) /\ Used(l, t).at = t
  BY <1>1, <1>2 DEF Sound, Limiter
<1>4. QED
  BY <1>2, <1>3, FilledJustUsed DEF f

\* Types of the manager's state; every limiter in it is sound.
LimiterInv ==
    /\ now \in Nat /\ swept \in [Worker -> Nat] /\ burst \in [Key -> Nat]
    /\ limiters \in [Key -> Limiter \cup {None}]
    /\ \A k \in Key : limiters[k] # None => Sound(limiters[k], now)

\* A limiter just created is full.
LEMMA FoundSound ==
    ASSUME LimiterInv, NEW k \in Key, NEW q \in Quota
    PROVE  /\ Sound(Found(k, q), now)
           /\ limiters[k] = None => /\ Found(k, q).quota = q
                                    /\ Filled(Found(k, q), now)
                                           = [quota |-> q, tokens |-> q.capacity, fraction |-> 0]
           /\ limiters[k] # None => Found(k, q) = limiters[k]
<1>1. CASE limiters[k] # None
  BY <1>1 DEF Found, LimiterInv
<1>2. CASE limiters[k] = None
  <2>1. q.capacity \in Nat /\ Scale \in Nat \ {0} /\ now \in Nat
    BY LimiterConstants DEF LimiterInv
  <2>2. Found(k, q) = [quota |-> q, tokens |-> q.capacity, fraction |-> 0, at |-> now]
    BY <1>2 DEF Found, Created
  <2>3. Sound(Found(k, q), now)
    BY <2>1, <2>2 DEF Sound, Limiter
  <2>4. QED
    BY <1>2, <2>1, <2>2, <2>3, FilledJustUsed
<1>3. QED
  BY <1>1, <1>2

\* What RateLimiterManager::try_acquire does: one limiter is used.
LEMMA TryAcquireShape ==
    ASSUME LimiterInv, NEW k \in Key, NEW q \in Quota, TryAcquire(k, q)
    PROVE  LET l == Found(k, q)
               f == Filled(l, now)
           IN  /\ limiters' = [limiters EXCEPT ![k] = Used(l, now)]
               /\ answer' = [key |-> k, passed |-> f.tokens > 0]
               /\ burst' = [burst EXCEPT ![k] = IF f.tokens > 0 THEN burst[k] + Scale ELSE burst[k]]
               /\ now' = now /\ swept' = swept
<1> DEFINE l == Found(k, q)
           f == Filled(l, now)
           r == Refill(l)
<1>1. Sound(l, now) /\ now \in Nat /\ l \in Limiter
  BY FoundSound DEF LimiterInv, Sound
<1>2. /\ r = [quota |-> f.quota, tokens |-> f.tokens, fraction |-> f.fraction, at |-> now]
      /\ f.quota = l.quota /\ f.tokens \in Nat
  BY <1>1, RefillFields, FilledBounds
<1>3. /\ limiters' = [limiters EXCEPT ![k] =
             IF r.tokens > 0 THEN [r EXCEPT !.tokens = r.tokens - 1] ELSE r]
      /\ answer' = [key |-> k, passed |-> r.tokens > 0]
      /\ burst' = [burst EXCEPT ![k] = IF r.tokens > 0 THEN burst[k] + Scale ELSE burst[k]]
      /\ now' = now /\ swept' = swept
  BY DEF TryAcquire
<1> HIDE DEF f, r
<1>4. r.tokens = f.tokens
  BY <1>2
<1>5. [r EXCEPT !.tokens = r.tokens - 1]
          = [quota |-> f.quota, tokens |-> f.tokens - 1, fraction |-> f.fraction, at |-> now]
  <2>1. [r EXCEPT !.tokens = r.tokens - 1]
            = [x \in {"quota", "tokens", "fraction", "at"} |->
                  CASE x = "tokens" -> f.tokens - 1 [] OTHER -> r[x]]
    BY <1>2
  <2>2. QED
    BY <1>2, <2>1
<1>6. (IF r.tokens > 0 THEN [r EXCEPT !.tokens = r.tokens - 1] ELSE r) = Used(l, now)
  BY <1>2, <1>4, <1>5 DEF Used, f
<1>7. QED
  BY <1>3, <1>4, <1>6, Zenon DEF f

\* What a limiter holds at the time t, in fractions of a token.
Level(l, t) == Filled(l, t).tokens * Scale + Filled(l, t).fraction

\* A limiter never holds more than its capacity and a fraction.
LEMMA LevelBound ==
    ASSUME NEW t \in Nat, NEW l, Sound(l, t)
    PROVE  /\ Level(l, t) \in Nat
           /\ Level(l, t) <= l.quota.capacity * Scale + Scale - 1
<1> DEFINE m == Filled(l, t).tokens
           y == Filled(l, t).fraction
           c == l.quota.capacity
<1>1. m \in Nat /\ y \in Nat /\ c \in Nat /\ m <= c /\ y < Scale /\ Scale \in Nat \ {0}
  BY FilledBounds, SoundNumbers, LimiterConstants
<1>2. Level(l, t) = m * Scale + y
  BY DEF Level
<1> HIDE DEF m, y, c
<1>3. c - m \in Nat /\ c = m + (c - m)
  BY <1>1
<1>4. c * Scale = m * Scale + (c - m) * Scale
  BY <1>1, <1>3
<1>5. m * Scale \in Nat /\ (c - m) * Scale \in Nat
  BY <1>1, <1>3
<1>6. QED
  BY <1>1, <1>2, <1>4, <1>5 DEF c

\* A tick brings at most the refill of a tick.
LEMMA LevelTick ==
    ASSUME NEW t \in Nat, NEW l, Sound(l, t)
    PROVE  Level(l, t + 1) <= Level(l, t) + l.quota.refill
<1> DEFINE f == Filled(l, t)
           m == f.tokens
           y == f.fraction
           r == l.quota.refill
           c == l.quota.capacity
           z == (y + r) \div Scale
           g == Bounded(m + z, c)
<1>1. /\ m \in Nat /\ y \in Nat /\ c \in Nat /\ r \in Nat /\ Scale \in Nat \ {0}
      /\ f = [quota |-> l.quota, tokens |-> m, fraction |-> y]
  BY FilledBounds, SoundNumbers, LimiterConstants DEF Filled
<1>2. Filled(l, t + 1) = [quota |-> l.quota, tokens |-> g, fraction |-> (y + r) % Scale]
  <2> HIDE DEF f
  <2>1. Filled(l, t + 1) = Bucket!Refilled(f)
    BY FilledTick DEF f
  <2>2. QED
    BY <1>1, <2>1, RefilledFields
<1>3. Level(l, t + 1) = g * Scale + ((y + r) % Scale) /\ Level(l, t) = m * Scale + y
  BY <1>2 DEF Level
<1> HIDE DEF f, m, y, r, c
<1>4. y + r \in Nat
  BY <1>1
<1>5. z \in Nat /\ (y + r) % Scale \in Nat /\ y + r = Scale * z + ((y + r) % Scale)
  BY <1>1, <1>4, DivMod
<1> HIDE DEF z
<1>6. g \in Nat /\ g <= m + z
  BY <1>1, <1>5 DEF Bounded
<1> HIDE DEF g
<1>7. g * Scale <= (m + z) * Scale
  <2>1. \A i, j \in Nat : i * Scale <= (i + j) * Scale
    BY <1>1
  <2>2. (m + z) - g \in Nat /\ m + z = g + ((m + z) - g)
    BY <1>1, <1>5, <1>6
  <2>3. QED
    BY <1>6, <2>1, <2>2
<1>8. (m + z) * Scale = m * Scale + Scale * z
  BY <1>1, <1>5
<1>9. g * Scale \in Nat /\ m * Scale \in Nat /\ Scale * z \in Nat
  BY <1>1, <1>5, <1>6
<1>10. Level(l, t + 1) <= Level(l, t) + r
  BY <1>1, <1>3, <1>5, <1>7, <1>8, <1>9
<1>11. QED
  BY <1>10 DEF r

\* A request that passes takes one token.
LEMMA LevelUsed ==
    ASSUME NEW t \in Nat, NEW l, Sound(l, t)
    PROVE  Level(Used(l, t), t)
               = IF Filled(l, t).tokens > 0 THEN Level(l, t) - Scale ELSE Level(l, t)
<1> DEFINE m == Filled(l, t).tokens
           y == Filled(l, t).fraction
<1>1. m \in Nat /\ y \in Nat /\ Scale \in Nat
  BY FilledBounds, LimiterConstants
<1>2. Level(Used(l, t), t) = (IF m > 0 THEN m - 1 ELSE 0) * Scale + y
  <2> DEFINE u == Used(l, t)
  <2>1. u.tokens = IF m > 0 THEN m - 1 ELSE 0
    BY DEF Used
  <2> HIDE DEF u
  <2>2. Filled(u, t).tokens = u.tokens /\ Filled(u, t).fraction = y
    BY UsedSound DEF u
  <2>3. Level(u, t) = u.tokens * Scale + y
    BY <2>2 DEF Level
  <2>4. QED
    BY <2>1, <2>3 DEF u
<1>3. Level(l, t) = m * Scale + y
  BY DEF Level
<1> HIDE DEF m, y
<1>4. m > 0 => (m - 1) * Scale = m * Scale - Scale
  BY <1>1
<1>5. m * Scale \in Nat /\ 0 * Scale = 0
  BY <1>1
<1>6. CASE m > 0
  <2>1. (IF m > 0 THEN m - 1 ELSE 0) = m - 1
    BY <1>6
  <2>2. Level(Used(l, t), t) = Level(l, t) - Scale
    <3>1. Level(Used(l, t), t) = (m - 1) * Scale + y
      BY <1>2, <2>1
    <3>2. (m - 1) * Scale = m * Scale - Scale
      BY <1>4, <1>6
    <3>3. QED
      BY <1>1, <1>3, <1>5, <3>1, <3>2
  <2>3. QED
    BY <1>6, <2>2 DEF m
<1>7. CASE m = 0
  <2>1. (IF m > 0 THEN m - 1 ELSE 0) = 0 /\ ~(m > 0) /\ 0 * Scale = m * Scale
    BY <1>7
  <2>2. QED
    BY <1>2, <1>3, <2>1 DEF m
<1>8. QED
  BY <1>1, <1>6, <1>7


\* A step that decides about no request leaves the limiters alone.
Quiet == answer' = None /\ UNCHANGED <<now, limiters, swept, burst>>

\* What any user of the manager does to it: a decision of try_acquire, a
\* cleanup, or nothing.
LimiterStep ==
    \/ Quiet \/ Tick \/ (\E w \in Worker : Sweep(w))
    \/ \E k \in Key, q \in Quota : TryAcquire(k, q)
    \/ UNCHANGED <<now, limiters, swept, answer, burst>>

\* The limiters stay sound.
LEMMA LimiterInvStep ==
    ASSUME LimiterInv, LimiterStep
    PROVE  LimiterInv'
<1>1. CASE Quiet \/ UNCHANGED <<now, limiters, swept, answer, burst>>
  BY <1>1 DEF Quiet, LimiterInv
<1>2. CASE Tick
  <2>1. now' = now + 1 /\ limiters' = limiters /\ swept' = swept /\ now \in Nat
    BY <1>2 DEF Tick, LimiterInv
  <2>2. \A k \in Key : limiters[k] # None => Sound(limiters[k], now + 1)
    BY <2>1, FilledTick DEF LimiterInv
  <2>3. burst' \in [Key -> Nat]
    <3>1. ASSUME NEW k \in Key PROVE Decayed(k) \in Nat
      <4>1. burst[k] \in Nat
        BY DEF LimiterInv
      <4>2. limiters[k] # None => limiters[k].quota.refill \in Nat
        BY SoundNumbers DEF LimiterInv
      <4>3. QED
        BY <4>1, <4>2 DEF Decayed
    <3>2. QED
      BY <1>2, <3>1 DEF Tick
  <2>4. QED
    BY <2>1, <2>2, <2>3 DEF LimiterInv
<1>3. ASSUME NEW w \in Worker, Sweep(w) PROVE LimiterInv'
  BY <1>3 DEF Sweep, LimiterInv
<1>4. ASSUME NEW k \in Key, NEW q \in Quota, TryAcquire(k, q) PROVE LimiterInv'
  <2> DEFINE l == Found(k, q)
  <2>1. /\ limiters' = [limiters EXCEPT ![k] = Used(l, now)]
        /\ burst' = [burst EXCEPT ![k] =
               IF Filled(l, now).tokens > 0 THEN burst[k] + Scale ELSE burst[k]]
        /\ now' = now /\ swept' = swept
    BY <1>4, TryAcquireShape
  <2>2. now \in Nat /\ burst[k] \in Nat /\ Scale \in Nat
    BY LimiterConstants DEF LimiterInv
  <2>3. Sound(Used(l, now), now)
    BY <2>2, FoundSound, UsedSound
  <2>4. Used(l, now) \in Limiter
    BY <2>3 DEF Sound
  <2> HIDE DEF l
  <2>5. QED
    BY <2>1, <2>2, <2>3, <2>4 DEF LimiterInv
<1>5. QED
  BY <1>1, <1>2, <1>3, <1>4 DEF LimiterStep

-----------------------------------------------------------------------------
(* The manager does not grow.                                              *)

\* No worker's cleanup is late, and what it left was in use not long before.
Cleaned ==
    \A w \in Worker :
        /\ swept[w] <= now /\ now - swept[w] <= Every
        /\ \A k \in Key : limiters[k] # None => swept[w] <= limiters[k].at + Idle

\* Cleanups come in time, and remove what was idle too long.
LEMMA CleanedStep ==
    ASSUME LimiterInv, Cleaned, LimiterStep
    PROVE  Cleaned'
<1> USE LimiterConstants
<1>1. CASE Quiet \/ UNCHANGED <<now, limiters, swept, answer, burst>>
  BY <1>1 DEF Quiet, Cleaned
<1>2. CASE Tick
  BY <1>2 DEF Tick, Cleaned, Overdue, LimiterInv
<1>3. ASSUME NEW w \in Worker, Sweep(w) PROVE Cleaned'
  <2>1. ASSUME NEW k \in Key, limiters'[k] # None
        PROVE  limiters'[k] = limiters[k] /\ now <= limiters[k].at + Idle /\ limiters[k].at \in Nat
    BY <1>3, <2>1, SoundNumbers DEF Sweep, Removable, LimiterInv
  <2>2. now' = now /\ swept' = [swept EXCEPT ![w] = now] /\ now \in Nat
    BY <1>3 DEF Sweep, LimiterInv
  <2>3. QED
    BY <2>1, <2>2 DEF Cleaned, LimiterInv
<1>4. ASSUME NEW k \in Key, NEW q \in Quota, TryAcquire(k, q) PROVE Cleaned'
  <2> DEFINE l == Used(Found(k, q), now)
  <2>1. limiters' = [limiters EXCEPT ![k] = l] /\ now' = now /\ swept' = swept /\ now \in Nat
    BY <1>4, TryAcquireShape DEF LimiterInv
  <2>2. l.at = now
    BY DEF Used
  <2> HIDE DEF l
  <2>3. QED
    BY <2>1, <2>2 DEF Cleaned, LimiterInv
<1>5. QED
  BY <1>1, <1>2, <1>3, <1>4 DEF LimiterStep

\* A limiter that no cleanup has removed was used lately.
LEMMA CleanedForgets == LimiterInv /\ Cleaned => IdleForgotten
<1> SUFFICES ASSUME LimiterInv, Cleaned, NEW k \in Key, limiters[k] # None
             PROVE  now - limiters[k].at <= Idle + Every
  BY DEF IdleForgotten
<1>1. PICK w \in Worker : TRUE
  BY LimiterConstants
<1>2. limiters[k].at \in Nat /\ swept[w] \in Nat /\ now \in Nat
  BY SoundNumbers DEF LimiterInv
<1>3. QED
  BY <1>1, <1>2, LimiterConstants DEF Cleaned

-----------------------------------------------------------------------------
(* The rate.                                                               *)

\* What has passed lately and what is still there make up one bucket; a key
\* whose limiter is gone has not used a token lately.
WithinRate(l, b, t) ==
    IF l = None THEN b < Scale ELSE b + Level(l, t) <= l.quota.capacity * Scale + Scale - 1

RateInv == \A k \in Key : WithinRate(limiters[k], burst[k], now)

\* A tick takes from the history what it brings to the bucket.
LEMMA TickWithinRate ==
    ASSUME LimiterInv, NEW k \in Key, WithinRate(limiters[k], burst[k], now)
    PROVE  WithinRate(limiters[k], Decayed(k), now + 1)
<1> DEFINE l == limiters[k]
           b == burst[k]
<1>1. b \in Nat /\ now \in Nat /\ now + 1 \in Nat /\ Scale \in Nat \ {0}
  BY LimiterConstants DEF LimiterInv
<1>2. CASE l = None
  BY <1>1, <1>2 DEF WithinRate, Decayed
<1>3. CASE l # None
  <2> DEFINE r == l.quota.refill
             top == l.quota.capacity * Scale + Scale - 1
  <2>1. Sound(l, now)
    BY <1>3 DEF LimiterInv
  <2>2. Sound(l, now + 1) /\ r \in Nat /\ l.quota.capacity \in Nat
    BY <1>1, <2>1, FilledTick, SoundNumbers
  <2>3. Level(l, now) \in Nat /\ Level(l, now + 1) \in Nat /\ Level(l, now + 1) <= top
    BY <1>1, <2>1, <2>2, LevelBound
  <2>4. Level(l, now + 1) <= Level(l, now) + r
    BY <1>1, <2>1, LevelTick
  <2>5. b + Level(l, now) <= top
    BY <1>3 DEF WithinRate
  <2>6. top \in Int
    <3>1. l.quota.capacity * Scale \in Nat
      BY <1>1, <2>2
    <3>2. QED
      BY <1>1, <3>1
  <2>7. Decayed(k) = IF b < r THEN 0 ELSE b - r
    BY <1>3 DEF Decayed
  <2> HIDE DEF top, r
  <2>8. Decayed(k) + Level(l, now + 1) <= top
    BY <1>1, <2>2, <2>3, <2>4, <2>5, <2>6, <2>7
  <2>9. QED
    BY <1>3, <2>8 DEF WithinRate, top
<1>4. QED
  BY <1>2, <1>3

\* A request that passes takes from the bucket what it adds to the history.
LEMMA UseWithinRate ==
    ASSUME LimiterInv, NEW k \in Key, NEW q \in Quota, WithinRate(limiters[k], burst[k], now)
    PROVE  LET l == Found(k, q)
           IN  WithinRate(Used(l, now),
                          IF Filled(l, now).tokens > 0 THEN burst[k] + Scale ELSE burst[k], now)
<1> DEFINE l == Found(k, q)
           u == Used(l, now)
           b == burst[k]
           top == l.quota.capacity * Scale + Scale - 1
           more == IF Filled(l, now).tokens > 0 THEN b + Scale ELSE b
<1>1. b \in Nat /\ now \in Nat /\ Scale \in Nat \ {0} /\ Sound(l, now)
  BY FoundSound, LimiterConstants DEF LimiterInv
<1>2. u # None /\ u.quota = l.quota
  BY <1>1, UsedSound, RefillFields, Zenon DEF Sound, Used
<1>3. Level(u, now) = IF Filled(l, now).tokens > 0 THEN Level(l, now) - Scale ELSE Level(l, now)
  BY <1>1, LevelUsed
<1>4. Level(l, now) \in Nat /\ l.quota.capacity \in Nat
  BY <1>1, LevelBound, SoundNumbers
<1>5. top \in Int
  <2>1. l.quota.capacity * Scale \in Nat
    BY <1>1, <1>4
  <2>2. QED
    BY <1>1, <2>1
<1>6. b + Level(l, now) <= top
  <2>1. CASE limiters[k] # None
    BY <2>1, FoundSound DEF WithinRate
  <2>2. CASE limiters[k] = None
    <3>1. Level(l, now) = q.capacity * Scale + 0 /\ l.quota = q
      BY <2>2, FoundSound DEF Level
    <3>2. b < Scale
      BY <2>2 DEF WithinRate
    <3>3. q.capacity * Scale \in Nat
      BY <1>1, LimiterConstants
    <3>4. QED
      BY <1>1, <3>1, <3>2, <3>3
  <2>3. QED
    BY <2>1, <2>2
<1>7. more + Level(u, now) <= top
  <2> HIDE DEF l, u, b, top
  <2>1. CASE Filled(l, now).tokens > 0
    BY <1>1, <1>3, <1>4, <1>5, <1>6, <2>1
  <2>2. CASE ~(Filled(l, now).tokens > 0)
    BY <1>1, <1>3, <1>4, <1>5, <1>6, <2>2
  <2>3. QED
    BY <2>1, <2>2
<1>8. QED
  BY <1>2, <1>7 DEF WithinRate

\* A limiter that a cleanup removes is full: nothing has passed lately.
LEMMA IdleWithinRate ==
    ASSUME LimiterInv, FullAfterIdle, NEW k \in Key, Removable(k),
           WithinRate(limiters[k], burst[k], now)
    PROVE  burst[k] < Scale
<1> DEFINE l == limiters[k]
           c == l.quota.capacity * Scale
<1>1. l # None /\ now - l.at > Idle /\ Sound(l, now) /\ now \in Nat /\ burst[k] \in Nat
  BY DEF Removable, LimiterInv
<1>2. Filled(l, now).tokens = l.quota.capacity /\ Filled(l, now).fraction \in Nat
  BY <1>1, FilledIdle, FilledBounds
<1>3. c \in Nat /\ Scale \in Nat \ {0}
  BY <1>1, SoundNumbers, LimiterConstants
<1>4. Level(l, now) = c + Filled(l, now).fraction
  BY <1>2 DEF Level
<1>5. burst[k] + Level(l, now) <= c + Scale - 1
  BY <1>1 DEF WithinRate
<1> HIDE DEF c
<1>6. QED
  BY <1>1, <1>2, <1>3, <1>4, <1>5

\* Every step of the limiters keeps the rate.
LEMMA RateInvStep ==
    ASSUME LimiterInv, FullAfterIdle, RateInv,
           LimiterStep
    PROVE  RateInv'
<1>1. CASE Quiet \/ UNCHANGED <<now, limiters, swept, answer, burst>>
  BY <1>1 DEF Quiet, RateInv
<1>2. CASE Tick
  BY <1>2, TickWithinRate DEF Tick, RateInv
<1>3. ASSUME NEW w \in Worker, Sweep(w) PROVE RateInv'
  <2>1. /\ limiters' = [k \in Key |-> IF Removable(k) THEN None ELSE limiters[k]]
        /\ now' = now /\ burst' = burst
    BY <1>3 DEF Sweep
  <2>2. ASSUME NEW k \in Key PROVE WithinRate(limiters'[k], burst[k], now)
    <3>1. CASE Removable(k)
      <4>1. limiters'[k] = None /\ burst[k] < Scale
        BY <2>1, <3>1, IdleWithinRate DEF RateInv
      <4>2. QED
        BY <4>1 DEF WithinRate
    <3>2. CASE ~Removable(k)
      BY <2>1, <3>2 DEF RateInv
    <3>3. QED
      BY <3>1, <3>2
  <2>3. QED
    BY <2>1, <2>2 DEF RateInv
<1>4. ASSUME NEW k \in Key, NEW q \in Quota, TryAcquire(k, q) PROVE RateInv'
  <2> DEFINE l == Found(k, q)
             u == Used(l, now)
             b == IF Filled(l, now).tokens > 0 THEN burst[k] + Scale ELSE burst[k]
  <2>1. limiters' = [limiters EXCEPT ![k] = u] /\ burst' = [burst EXCEPT ![k] = b] /\ now' = now
    BY <1>4, TryAcquireShape
  <2>2. WithinRate(u, b, now)
    BY UseWithinRate DEF RateInv
  <2> HIDE DEF u, b
  <2>3. QED
    BY <2>1, <2>2 DEF RateInv, LimiterInv
<1>5. QED
  BY <1>1, <1>2, <1>3, <1>4 DEF LimiterStep

\* RateBound is the rate of the limiters that exist.
LEMMA RateInvBounds == LimiterInv /\ RateInv => RateBound
<1> SUFFICES ASSUME LimiterInv, RateInv, NEW k \in Key, limiters[k] # None
             PROVE  burst[k] + AsBucket(limiters[k]).tokens * Scale + AsBucket(limiters[k]).fraction
                        <= limiters[k].quota.capacity * Scale + Scale - 1
  BY DEF RateBound
<1> DEFINE l == limiters[k]
           f == Filled(l, now)
<1>1. Sound(l, now) /\ now \in Nat /\ burst[k] \in Nat /\ Scale \in Nat
  BY LimiterConstants DEF LimiterInv
<1>2. AsBucket(l) = f
  BY <1>1, RefillFields DEF Sound
<1>3. f.tokens \in Nat /\ f.fraction \in Nat
  BY <1>1, FilledBounds
<1>4. burst[k] + (f.tokens * Scale + f.fraction) <= l.quota.capacity * Scale + Scale - 1
  BY DEF RateInv, WithinRate, Level
<1> HIDE DEF f
<1>5. f.tokens * Scale \in Nat
  BY <1>1, <1>3
<1>6. burst[k] + f.tokens * Scale + f.fraction = burst[k] + (f.tokens * Scale + f.fraction)
  BY <1>1, <1>3, <1>5
<1>7. QED
  BY <1>2, <1>4, <1>6

-----------------------------------------------------------------------------
(* The limiters implement the buckets.                                     *)

BucketAt(l, t) == IF l = None THEN None ELSE Filled(l, t)

\* The refinement mapping, with the present time.
Mapped == \A k \in Key : AsBucket(limiters[k]) = BucketAt(limiters[k], now)

\* The mapping's bucket is the limiter's, refilled up to the present as refill does it.
LEMMA MappingHolds == LimiterInv => Mapped
BY RefillFields, Zenon DEF LimiterInv, Mapped, BucketAt, AsBucket

\* A bucket is not the value of a key nobody has used.
LEMMA FilledIsBucket ==
    ASSUME NEW t \in Nat, NEW l, Sound(l, t)
    PROVE  l # None /\ Filled(l, t) # None
BY FilledBounds, LimiterConstants DEF Sound, Limiter

\* A tick of the clock refills every bucket.
LEMMA TickRefines ==
    ASSUME LimiterInv, Mapped, Mapped', Tick
    PROVE  Bucket!Tick
<1>1. now' = now + 1 /\ limiters' = limiters /\ answer' = None /\ now \in Nat
  BY DEF Tick, LimiterInv
<1>2. ASSUME NEW k \in Key
      PROVE  AsBucket(limiters[k])'
                 = IF AsBucket(limiters[k]) = None THEN None ELSE Bucket!Refilled(AsBucket(limiters[k]))
  <2>1. /\ AsBucket(limiters[k]) = BucketAt(limiters[k], now)
        /\ AsBucket(limiters[k])' = BucketAt(limiters[k], now + 1)
    BY <1>1 DEF Mapped
  <2>2. CASE limiters[k] = None
    BY <2>1, <2>2 DEF BucketAt
  <2>3. CASE limiters[k] # None
    <3>1. Sound(limiters[k], now)
      BY <2>3 DEF LimiterInv
    <3>2. Filled(limiters[k], now) # None
      BY <1>1, <3>1, FilledIsBucket
    <3>3. Filled(limiters[k], now + 1) = Bucket!Refilled(Filled(limiters[k], now))
      BY <1>1, <3>1, FilledTick
    <3>4. QED
      BY <2>1, <2>3, <3>2, <3>3 DEF BucketAt
  <2>4. QED
    BY <2>2, <2>3
<1>3. QED
  BY <1>1, <1>2 DEF Bucket!Tick

\* cleanup removes full buckets only.
LEMMA SweepRefines ==
    ASSUME LimiterInv, FullAfterIdle, Mapped, Mapped', NEW w \in Worker, Sweep(w)
    PROVE  \E ks \in SUBSET Key : Bucket!Forget(ks)
<1> DEFINE ks == {k \in Key : Removable(k)}
<1>1. /\ limiters' = [k \in Key |-> IF Removable(k) THEN None ELSE limiters[k]]
      /\ now' = now /\ answer' = None /\ now \in Nat
  BY DEF Sweep, LimiterInv
<1>2. ASSUME NEW k \in ks
      PROVE  /\ AsBucket(limiters[k]) # None
             /\ AsBucket(limiters[k]).tokens = AsBucket(limiters[k]).quota.capacity
  <2>1. limiters[k] # None /\ now - limiters[k].at > Idle /\ Sound(limiters[k], now)
    BY DEF Removable, LimiterInv
  <2>2. AsBucket(limiters[k]) = Filled(limiters[k], now)
    BY <2>1 DEF Mapped, BucketAt
  <2>3. QED
    BY <1>1, <2>1, <2>2, FilledIsBucket, FilledIdle, FilledBounds
<1>3. ASSUME NEW k \in Key
      PROVE  AsBucket(limiters[k])' = IF k \in ks THEN None ELSE AsBucket(limiters[k])
  <2>1. AsBucket(limiters[k])' = BucketAt(limiters'[k], now)
    BY <1>1 DEF Mapped
  <2>2. AsBucket(limiters[k]) = BucketAt(limiters[k], now)
    BY DEF Mapped
  <2>3. QED
    BY <1>1, <2>1, <2>2 DEF BucketAt
<1>4. Bucket!Forget(ks)
  <2> HIDE DEF ks
  <2>1. ks \subseteq Key
    BY DEF ks
  <2>2. QED
    BY <1>1, <1>2, <1>3, <2>1 DEF Bucket!Forget
<1>5. QED
  BY <1>4

\* try_acquire lets a request pass, or refuses it, as its bucket does.
LEMMA TryAcquireRefines ==
    ASSUME LimiterInv, Mapped, Mapped', NEW k \in Key, NEW q \in Quota, TryAcquire(k, q)
    PROVE  Bucket!Refuse(k) \/ Bucket!Pass(k, q)
<1> DEFINE l == Found(k, q)
           f == Filled(l, now)
           u == Used(l, now)
           b(j) == AsBucket(limiters[j])
<1>1. /\ limiters' = [limiters EXCEPT ![k] = u] /\ now' = now
      /\ answer' = [key |-> k, passed |-> f.tokens > 0]
  BY TryAcquireShape
<1>2. now \in Nat /\ Sound(l, now) /\ limiters \in [Key -> Limiter \cup {None}]
  BY FoundSound DEF LimiterInv
<1>3. /\ f.tokens \in Nat /\ f.quota = l.quota
      /\ f = [quota |-> l.quota, tokens |-> f.tokens, fraction |-> f.fraction]
  BY <1>2, FilledBounds DEF Filled
<1>4. /\ Filled(u, now) = [quota |-> l.quota, tokens |-> u.tokens, fraction |-> f.fraction]
      /\ u.tokens = IF f.tokens > 0 THEN f.tokens - 1 ELSE 0
      /\ u # None
  BY <1>2, UsedSound, FilledIsBucket DEF Used
<1>5. Bucket!Opened(b(k), q) = f
  <2>1. CASE limiters[k] = None
    BY <2>1, FoundSound DEF Mapped, BucketAt, Bucket!Opened
  <2>2. CASE limiters[k] # None
    <3>1. b(k) = f
      BY <2>2, FoundSound DEF Mapped, BucketAt
    <3>2. QED
      BY <1>2, <3>1, FilledIsBucket DEF Bucket!Opened
  <2>3. QED
    BY <2>1, <2>2
<1>6. ASSUME NEW j \in Key
      PROVE  b(j)' = IF j = k THEN Filled(u, now) ELSE b(j)
  <2>1. b(j)' = BucketAt(limiters'[j], now) /\ b(j) = BucketAt(limiters[j], now)
    BY <1>1 DEF Mapped
  <2> HIDE DEF u, b
  <2>2. QED
    BY <1>1, <1>2, <1>4, <2>1 DEF BucketAt
<1>7. CASE f.tokens > 0
  <2> DEFINE g == [quota |-> l.quota, tokens |-> f.tokens - 1, fraction |-> f.fraction]
  <2>1. Filled(u, now) = g
    BY <1>4, <1>7
  <2>2. [f EXCEPT !.tokens = f.tokens - 1] = g
    <3> HIDE DEF f, l
    <3>1. [f EXCEPT !.tokens = f.tokens - 1]
              = [x \in {"quota", "tokens", "fraction"} |->
                    IF x = "tokens" THEN f.tokens - 1 ELSE f[x]]
      BY <1>3
    <3>2. QED
      BY <1>3, <3>1
  <2> HIDE DEF f, g, u
  <2>3. answer' = [key |-> k, passed |-> TRUE]
    BY <1>1, <1>7, Zenon
  <2>4. Bucket!Pass(k, q)
    BY <1>5, <1>6, <1>7, <2>1, <2>2, <2>3, Zenon DEF Bucket!Pass
  <2>5. QED
    BY <2>4
<1>8. CASE f.tokens = 0
  <2>1. limiters[k] # None
    <3>1. limiters[k] = None => f.tokens = q.capacity
      BY FoundSound
    <3>2. q.capacity # 0
      BY LimiterConstants
    <3>3. QED
      BY <1>8, <3>1, <3>2
  <2>2. b(k) = f /\ f # None
    BY <1>2, <2>1, FoundSound, FilledIsBucket DEF Mapped, BucketAt
  <2>3. Filled(u, now) = f
    BY <1>3, <1>4, <1>8
  <2> HIDE DEF f, u, l
  <2>4. answer' = [key |-> k, passed |-> FALSE]
    <3>1. (f.tokens > 0) = FALSE
      BY <1>8
    <3>2. QED
      BY <1>1, <3>1, Zenon
  <2>5. Bucket!Refuse(k)
    BY <1>6, <1>8, <2>2, <2>3, <2>4 DEF Bucket!Refuse
  <2>6. QED
    BY <2>5
<1>9. QED
  BY <1>3, <1>7, <1>8

\* Every step of the limiters is a step of the buckets, or leaves them alone.
LEMMA StepRefines ==
    ASSUME LimiterInv, FullAfterIdle, Mapped, Mapped', LimiterStep
    PROVE  [Bucket!Next]_<<[k \in Key |-> AsBucket(limiters[k])], answer>>
<1>1. ASSUME now' = now, limiters' = limiters
      PROVE  [k \in Key |-> AsBucket(limiters[k])]' = [k \in Key |-> AsBucket(limiters[k])]
  <2>1. \A k \in Key : AsBucket(limiters[k])' = AsBucket(limiters[k])
    BY <1>1 DEF Mapped
  <2>2. QED
    BY <2>1
<1>2. CASE Quiet
  <2>1. Bucket!Rest
    BY <1>1, <1>2 DEF Quiet, Bucket!Rest
  <2>2. QED
    BY <2>1 DEF Bucket!Next
<1>3. CASE Tick
  BY <1>3, TickRefines DEF Bucket!Next
<1>4. CASE \E w \in Worker : Sweep(w)
  BY <1>4, SweepRefines DEF Bucket!Next
<1>5. CASE \E k \in Key, q \in Quota : TryAcquire(k, q)
  BY <1>5, TryAcquireRefines DEF Bucket!Next
<1>6. CASE UNCHANGED <<now, limiters, swept, answer, burst>>
  BY <1>1, <1>6
<1>7. QED
  BY <1>2, <1>3, <1>4, <1>5, <1>6 DEF LimiterStep

\* An empty manager is sound, and maps to buckets nobody has used.
LEMMA LimiterInitInv == LimiterInit => LimiterInv /\ Cleaned /\ RateInv /\ Bucket!Init
<1> SUFFICES ASSUME LimiterInit PROVE LimiterInv /\ Cleaned /\ RateInv /\ Bucket!Init
  OBVIOUS
<1> USE LimiterConstants DEF LimiterInit
<1>1. LimiterInv
  BY DEF LimiterInv
<1>2. Cleaned /\ RateInv
  BY DEF Cleaned, RateInv, WithinRate
<1>3. Bucket!Init
  BY DEF Bucket!Init, AsBucket
<1>4. QED
  BY <1>1, <1>2, <1>3
=============================================================================
