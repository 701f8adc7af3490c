------------------------- MODULE RequestGateProofs -------------------------
(***************************************************************************)
(* The gate in front of the targets, for any configuration, requests and   *)
(* workers: which route a request is given, whose quota it spends, and the *)
(* promises of the shared rate limiter.                                    *)
(***************************************************************************)
EXTENDS RequestGate, RateLimiterProofs, FiniteSetTheorems, WellFoundedInduction, TLAPS

\* A set of naturals that is not empty has a least element.
LEMMA Least ==
    ASSUME NEW T \in SUBSET Nat, T # {}
    PROVE  \E x \in T : \A y \in T : x <= y
<1> DEFINE R == OpToRel(<, Nat)
<1>1. \E x \in T : \A y \in T : <<y, x>> \notin R
  <2> HIDE DEF R
  <2>1. IsWellFoundedOn(R, Nat)
    BY NatLessThanWellFounded, Zenon DEF R
  <2>2. QED
    BY <2>1, WFMin, Zenon
<1>2. \A x, y \in Nat : <<y, x>> \notin R => x <= y
  BY DEF OpToRel
<1> HIDE DEF R
<1>3. QED
  BY <1>1, <1>2, Zenon

-----------------------------------------------------------------------------
(* matchRoute.                                                             *)

\* Min is a least element.
LEMMA LeastIn ==
    ASSUME NEW S \in SUBSET Nat, S # {}
    PROVE  Min(S) \in S /\ \A k \in S : Min(S) <= k
BY Least, Zenon DEF Min

\* Where the segments of s from position i on start.
StartsFrom(s, i) == {k \in i .. Len(s) : s[k] # "/" /\ (k = i \/ s[k - 1] = "/")}

\* next_path_segment finds the first segment from i on, and goes on behind it.
Finds(s, i) ==
    LET seg == NextSegment(s, i)
    IN  /\ seg.begins <= Len(s) <=> StartsFrom(s, i) # {}
        /\ seg.begins <= Len(s) =>
              /\ seg.begins \in StartsFrom(s, i)
              /\ \A k \in StartsFrom(s, i) : seg.begins <= k
              /\ seg.stops \in (i + 1) .. (Len(s) + 1)
              /\ StartsFrom(s, seg.stops) = StartsFrom(s, i) \ {seg.begins}
              /\ Segment(s, seg) = SegmentAt(s, seg.begins)

\* next_path_segment skips slashes and takes everything up to the next one.
LEMMA NextSegmentFinds ==
    ASSUME NEW s \in Seq(STRING), NEW i \in 1 .. (Len(s) + 1)
    PROVE  Finds(s, i)
<1> DEFINE n == Len(s)
           A == {k \in i .. n : s[k] # "/"} \cup {n + 1}
           b == Min(A)
           B == {k \in b .. n : s[k] = "/"} \cup {n + 1}
           e == Min(B)
           seg == NextSegment(s, i)
<1>1. n \in Nat
  OBVIOUS
<1> HIDE DEF n
<1>2. b \in A /\ \A k \in A : b <= k
  <2>1. A \in SUBSET Nat /\ A # {}
    BY <1>1
  <2> HIDE DEF A
  <2>2. QED
    BY <2>1, LeastIn
<1>3. seg.begins = b /\ seg.stops = e
  BY DEF NextSegment, n
<1> HIDE DEF b
<1>4. b \in i .. (n + 1) /\ b \in Nat /\ i \in Nat
  BY <1>1, <1>2 DEF n
<1>5. \A k \in i .. n : k < b => s[k] = "/"
  BY <1>1, <1>2, <1>4
<1>6. b <= n => s[b] # "/"
  BY <1>1, <1>2, <1>4
<1>7. e \in B /\ \A k \in B : e <= k
  <2>1. B \in SUBSET Nat /\ B # {}
    BY <1>1, <1>4
  <2> HIDE DEF B
  <2>2. QED
    BY <2>1, LeastIn
<1> HIDE DEF e, seg
<1>8. e \in Nat /\ e \in b .. (n + 1)
  BY <1>1, <1>4, <1>7
<1>9. \A k \in b .. n : k < e => s[k] # "/"
  BY <1>1, <1>4, <1>7, <1>8
<1>10. e <= n => s[e] = "/"
  BY <1>1, <1>7, <1>8
<1>11. b <= n => b < e
  BY <1>1, <1>4, <1>6, <1>8, <1>10
<1>12. \A k \in StartsFrom(s, i) : k \in i .. n /\ b <= k
  BY <1>1, <1>4, <1>5 DEF StartsFrom, n
<1>13. b <= n => b \in StartsFrom(s, i)
  BY <1>1, <1>4, <1>5, <1>6 DEF StartsFrom, n
<1>14. ASSUME b <= n PROVE StartsFrom(s, e) = StartsFrom(s, i) \ {b}
  <2>1. ASSUME NEW k \in StartsFrom(s, e) PROVE k \in StartsFrom(s, i) \ {b}
    <3>1. k \in e .. n /\ s[k] # "/" /\ (k = e \/ s[k - 1] = "/")
      BY <2>1 DEF StartsFrom, n
    <3>2. k # e
      BY <3>1, <1>10, <1>1, <1>8
    <3>3. QED
      BY <3>1, <3>2, <1>1, <1>4, <1>8, <1>11, <1>14 DEF StartsFrom, n
  <2>2. ASSUME NEW k \in StartsFrom(s, i), k # b PROVE k \in StartsFrom(s, e)
    <3>1. k \in i .. n /\ s[k] # "/" /\ b < k
      BY <2>2, <1>12, <1>1, <1>4 DEF StartsFrom, n
    <3>2. s[k - 1] = "/" /\ k - 1 \in b .. n
      BY <2>2, <3>1, <1>1, <1>4 DEF StartsFrom, n
    <3>3. e <= k - 1
      BY <3>1, <3>2, <1>9, <1>8, <1>1, <1>4
    <3>4. QED
      BY <3>1, <3>2, <3>3, <1>1, <1>4, <1>8 DEF StartsFrom, n
  <2>3. QED
    BY <2>1, <2>2, <1>10, <1>11, <1>8, <1>1, <1>4 DEF StartsFrom, n
<1>15. ASSUME b <= n PROVE Segment(s, seg) = SegmentAt(s, b)
  <2> DEFINE J == {j \in b .. Len(s) : \A k \in b .. j : s[k] # "/"}
  <2>1. e - 1 \in J
    BY <1>1, <1>4, <1>8, <1>9, <1>11, <1>15 DEF n
  <2>2. \A j \in J : j <= e - 1 /\ j \in Nat
    BY <1>1, <1>4, <1>8, <1>10, <1>11, <1>15 DEF n
  <2>3. Max(J) = e - 1
    <3> HIDE DEF J
    <3>1. QED
      BY <2>1, <2>2, <1>8 DEF Max
  <2>4. QED
    BY <2>3, <1>3, Zenon DEF Segment, SegmentAt
<1>16. QED
  BY <1>1, <1>3, <1>4, <1>8, <1>11, <1>12, <1>13, <1>14, <1>15 DEF Finds, n, seg

\* The least element of a set has rank 1; without it the others move up by one.
LEMMA RankWithoutLeast ==
    ASSUME NEW P \in SUBSET Nat, IsFiniteSet(P), NEW b \in P, \A k \in P : b <= k
    PROVE  /\ Rank(P, b) = 1
           /\ \A k \in P \ {b} : /\ Rank(P, k) = Rank(P \ {b}, k) + 1
                                 /\ Rank(P \ {b}, k) \in Nat \ {0}
<1>1. {k \in P : k <= b} = {b}
  <2>1. \A k \in P : k \in Nat /\ b \in Nat /\ b <= k
    OBVIOUS
  <2>2. \A k \in P : k <= b => k = b
    BY <2>1
  <2>3. QED
    BY <2>1, <2>2, Zenon
<1>2. ASSUME NEW k \in P \ {b}
      PROVE  Rank(P, k) = Rank(P \ {b}, k) + 1 /\ Rank(P \ {b}, k) \in Nat \ {0}
  <2> DEFINE T == {m \in P \ {b} : m <= k}
             S == {m \in P : m <= k}
  <2>1. S = T \cup {b} /\ b \notin T /\ k \in T /\ T \subseteq P
    OBVIOUS
  <2>2. IsFiniteSet(T)
    BY <2>1, FS_Subset
  <2> HIDE DEF T, S
  <2>3. Cardinality(S) = Cardinality(T) + 1
    BY <2>1, <2>2, FS_AddElement, Zenon
  <2>4. Cardinality(T) \in Nat /\ Cardinality(T) # 0
    BY <2>1, <2>2, FS_CardinalityType, FS_EmptySet
  <2>5. QED
    BY <2>3, <2>4 DEF Rank, S, T
<1>3. QED
  BY <1>1, <1>2, FS_Singleton DEF Rank

\* Segment i of the pattern accepts segment j of the path.
Fits(pattern, path, i, j) ==
    \/ IsParameter(SegmentAt(pattern, i))
    \/ SegmentAt(pattern, i) = SegmentAt(path, j)

\* As many segments start in P as in S, and those of the same rank fit.
Aligned(pattern, path, P, S) ==
    /\ Cardinality(P) = Cardinality(S)
    /\ \A i \in P, j \in S : Rank(P, i) = Rank(S, j) => Fits(pattern, path, i, j)

\* Taking the first segment off both sides.
LEMMA AlignedStep ==
    ASSUME NEW pattern, NEW path,
           NEW P \in SUBSET Nat, IsFiniteSet(P), NEW b \in P, \A k \in P : b <= k,
           NEW S \in SUBSET Nat, IsFiniteSet(S), NEW c \in S, \A k \in S : c <= k
    PROVE  Aligned(pattern, path, P, S) <=>
               Fits(pattern, path, b, c) /\ Aligned(pattern, path, P \ {b}, S \ {c})
<1>1. Cardinality(P) = Cardinality(S) <=> Cardinality(P \ {b}) = Cardinality(S \ {c})
  <2>1. Cardinality(P \ {b}) = Cardinality(P) - 1
    BY FS_RemoveElement, Zenon
  <2>2. Cardinality(S \ {c}) = Cardinality(S) - 1
    BY FS_RemoveElement, Zenon
  <2>3. Cardinality(P) \in Nat /\ Cardinality(S) \in Nat
    BY FS_CardinalityType
  <2>4. QED
    BY <2>1, <2>2, <2>3
<1>2. /\ Rank(P, b) = 1
      /\ \A k \in P \ {b} : Rank(P, k) = Rank(P \ {b}, k) + 1 /\ Rank(P \ {b}, k) \in Nat \ {0}
  BY RankWithoutLeast
<1>3. /\ Rank(S, c) = 1
      /\ \A k \in S \ {c} : Rank(S, k) = Rank(S \ {c}, k) + 1 /\ Rank(S \ {c}, k) \in Nat \ {0}
  BY RankWithoutLeast
<1>4. ASSUME NEW i \in P \ {b}, NEW j \in S \ {c}
      PROVE  Rank(P, i) = Rank(S, j) <=> Rank(P \ {b}, i) = Rank(S \ {c}, j)
  BY <1>2, <1>3
<1>5. ASSUME NEW i \in P, NEW j \in S, i = b \/ j = c, Rank(P, i) = Rank(S, j) PROVE i = b /\ j = c
  BY <1>2, <1>3, <1>5
<1>6. QED
  BY <1>1, <1>2, <1>3, <1>4, <1>5 DEF Aligned

\* The body of the loop of matchRoute, with f for the rest of the loop.
MatchBody(pattern, path, f, at) ==
    LET p == NextSegment(pattern, at[1])
        s == NextSegment(path, at[2])
        hasPattern == p.begins <= Len(pattern)
        hasPath    == s.begins <= Len(path)
    IN  IF hasPattern # hasPath THEN FALSE
        ELSE IF ~hasPattern THEN TRUE
        ELSE /\ IsParameter(Segment(pattern, p)) \/ Segment(pattern, p) = Segment(path, s)
             /\ f[<<p.stops, s.stops>>]

\* The rest of the pattern and the rest of the path match.
Rest(pattern, path, i, j) == Aligned(pattern, path, StartsFrom(pattern, i), StartsFrom(path, j))

\* Where the rests behind the next segments are known, the body computes the rest.
LEMMA MatchStep ==
    ASSUME NEW pattern \in Seq(STRING), NEW path \in Seq(STRING), NEW f,
           NEW i \in 1 .. (Len(pattern) + 1), NEW j \in 1 .. (Len(path) + 1),
           \A k \in (i + 1) .. (Len(pattern) + 1), l \in 1 .. (Len(path) + 1) :
               f[<<k, l>>] = Rest(pattern, path, k, l)
    PROVE  MatchBody(pattern, path, f, <<i, j>>) = Rest(pattern, path, i, j)
<1> DEFINE p == NextSegment(pattern, i)
           s == NextSegment(path, j)
           P == StartsFrom(pattern, i)
           S == StartsFrom(path, j)
<1>1. Finds(pattern, i) /\ Finds(path, j)
  BY NextSegmentFinds
<1>2. /\ P \in SUBSET Nat /\ IsFiniteSet(P)
      /\ S \in SUBSET Nat /\ IsFiniteSet(S)
  <2>1. P \subseteq i .. Len(pattern) /\ S \subseteq j .. Len(path)
    BY DEF StartsFrom
  <2>2. IsFiniteSet(i .. Len(pattern)) /\ IsFiniteSet(j .. Len(path))
    BY FS_Interval
  <2>3. i .. Len(pattern) \subseteq Nat /\ j .. Len(path) \subseteq Nat
    OBVIOUS
  <2> HIDE DEF P, S
  <2>4. IsFiniteSet(P)
    BY <2>1, <2>2, FS_Subset, Zenon
  <2>5. IsFiniteSet(S)
    BY <2>1, <2>2, FS_Subset, Zenon
  <2>6. QED
    BY <2>1, <2>3, <2>4, <2>5
<1>3. CASE P = {} /\ S = {}
  <2>1. Rest(pattern, path, i, j)
    BY <1>3 DEF Rest, Aligned
  <2>2. MatchBody(pattern, path, f, <<i, j>>) = TRUE
    BY <1>1, <1>3 DEF MatchBody, Finds
  <2>3. QED
    BY <2>1, <2>2 DEF Rest, Aligned
<1>4. CASE (P = {}) # (S = {})
  <2>1. Cardinality(P) # Cardinality(S)
    <3> HIDE DEF P, S
    <3>1. QED
      BY <1>2, <1>4, FS_EmptySet, Zenon
  <2>2. Rest(pattern, path, i, j) = FALSE
    BY <2>1 DEF Rest, Aligned
  <2>3. MatchBody(pattern, path, f, <<i, j>>) = FALSE
    BY <1>1, <1>4 DEF MatchBody, Finds
  <2>4. QED
    BY <2>2, <2>3, Zenon
<1>5. CASE P # {} /\ S # {}
  <2>1. /\ p.begins <= Len(pattern)
        /\ p.begins \in P /\ (\A k \in P : p.begins <= k)
        /\ p.stops \in (i + 1) .. (Len(pattern) + 1)
        /\ StartsFrom(pattern, p.stops) = P \ {p.begins}
        /\ Segment(pattern, p) = SegmentAt(pattern, p.begins)
    BY <1>1, <1>5 DEF Finds
  <2>2. /\ s.begins <= Len(path)
        /\ s.begins \in S /\ (\A k \in S : s.begins <= k)
        /\ s.stops \in (j + 1) .. (Len(path) + 1)
        /\ StartsFrom(path, s.stops) = S \ {s.begins}
        /\ Segment(path, s) = SegmentAt(path, s.begins)
    BY <1>1, <1>5 DEF Finds
  <2>3. f[<<p.stops, s.stops>>] = Rest(pattern, path, p.stops, s.stops)
    <3>1. s.stops \in 1 .. (Len(path) + 1)
      BY <2>2
    <3>2. QED
      BY <2>1, <3>1
  <2>4. MatchBody(pattern, path, f, <<i, j>>) =
            (Fits(pattern, path, p.begins, s.begins) /\ f[<<p.stops, s.stops>>])
    BY <2>1, <2>2, Zenon DEF MatchBody, Fits
  <2> HIDE DEF p, s, P, S
  <2>5. Aligned(pattern, path, P, S) <=>
            /\ Fits(pattern, path, p.begins, s.begins)
            /\ Aligned(pattern, path, P \ {p.begins}, S \ {s.begins})
    BY <1>2, <2>1, <2>2, AlignedStep, Zenon
  <2>6. Rest(pattern, path, i, j) = Aligned(pattern, path, P, S)
    BY DEF Rest, P, S
  <2>7. Rest(pattern, path, p.stops, s.stops) = Aligned(pattern, path, P \ {p.begins}, S \ {s.begins})
    BY <2>1, <2>2 DEF Rest
  <2>8. Aligned(pattern, path, P, S) \in BOOLEAN /\ Fits(pattern, path, p.begins, s.begins) \in BOOLEAN
    BY DEF Aligned, Fits
  <2>9. QED
    BY <2>3, <2>4, <2>5, <2>6, <2>7, <2>8
<1>6. QED
  BY <1>3, <1>4, <1>5

\* The loop of matchRoute ends, and compares the segments of the pattern and of
\* the path one by one.
LEMMA LoopCompares ==
    ASSUME NEW pattern \in Seq(STRING), NEW path \in Seq(STRING)
    PROVE  MatchLoop(pattern, path) = Rest(pattern, path, 1, 1)
<1> DEFINE n == Len(pattern)
           m == Len(path)
           D == (1 .. (n + 1)) \X (1 .. (m + 1))
           found == [at \in D |-> Rest(pattern, path, at[1], at[2])]
           loop == CHOOSE f : f = [at \in D |-> MatchBody(pattern, path, f, at)]
<1>1. n \in Nat /\ m \in Nat
  OBVIOUS
<1>2. found = [at \in D |-> MatchBody(pattern, path, found, at)]
  <2>1. ASSUME NEW at \in D
        PROVE  MatchBody(pattern, path, found, at) = Rest(pattern, path, at[1], at[2])
    <3>1. PICK i \in 1 .. (n + 1), j \in 1 .. (m + 1) : at = <<i, j>>
      BY <2>1
    <3>2. \A k \in (i + 1) .. (n + 1), l \in 1 .. (m + 1) : found[<<k, l>>] = Rest(pattern, path, k, l)
      <4> SUFFICES ASSUME NEW k \in (i + 1) .. (n + 1), NEW l \in 1 .. (m + 1)
                   PROVE  found[<<k, l>>] = Rest(pattern, path, k, l)
        BY Zenon
      <4>1. <<k, l>> \in D
        BY <1>1, <3>1
      <4>2. QED
        BY <4>1
    <3> HIDE DEF found
    <3>3. MatchBody(pattern, path, found, <<i, j>>) = Rest(pattern, path, i, j)
      BY <3>2, MatchStep, Zenon
    <3>4. QED
      BY <3>1, <3>3
  <2>2. QED
    BY <2>1, Zenon
<1>3. MatchLoop(pattern, path) = loop[<<1, 1>>]
  BY DEF MatchLoop, MatchBody
<1> HIDE DEF found
<1>4. loop = [at \in D |-> MatchBody(pattern, path, loop, at)]
  BY <1>2
<1> HIDE DEF loop
<1>5. \A at \in D : loop[at] = MatchBody(pattern, path, loop, at)
  BY <1>4
<1> DEFINE wrong == {d \in 0 .. n : \E j \in 1 .. (m + 1) :
                        loop[<<n + 1 - d, j>>] # Rest(pattern, path, n + 1 - d, j)}
<1>6. ASSUME wrong # {} PROVE FALSE
  <2>1. PICK d \in wrong : \A e \in wrong : d <= e
    <3>1. wrong \in SUBSET Nat
      OBVIOUS
    <3> HIDE DEF wrong
    <3>2. QED
      BY <1>6, <3>1, Least
  <2>2. PICK j \in 1 .. (m + 1) : loop[<<n + 1 - d, j>>] # Rest(pattern, path, n + 1 - d, j)
    BY <2>1
  <2> DEFINE i == n + 1 - d
  <2>3. d \in 0 .. n /\ i \in 1 .. (n + 1)
    BY <1>1, <2>1
  <2>4. \A k \in (i + 1) .. (n + 1), l \in 1 .. (m + 1) : loop[<<k, l>>] = Rest(pattern, path, k, l)
    <3> SUFFICES ASSUME NEW k \in (i + 1) .. (n + 1), NEW l \in 1 .. (m + 1)
                 PROVE  loop[<<k, l>>] = Rest(pattern, path, k, l)
      BY Zenon
    <3> DEFINE e == n + 1 - k
    <3>1. e \in 0 .. n /\ ~(d <= e) /\ n + 1 - e = k
      BY <1>1, <2>3
    <3>2. e \notin wrong
      BY <2>1, <3>1, Zenon
    <3> HIDE DEF e
    <3>3. QED
      BY <3>1, <3>2, Zenon
  <2>5. loop[<<i, j>>] # Rest(pattern, path, i, j)
    BY <2>2
  <2> HIDE DEF i
  <2>6. MatchBody(pattern, path, loop, <<i, j>>) = Rest(pattern, path, i, j)
    BY <2>3, <2>4, MatchStep, Zenon
  <2>7. <<i, j>> \in D
    BY <2>3
  <2>8. QED
    BY <1>5, <2>5, <2>6, <2>7
<1>7. loop[<<1, 1>>] = Rest(pattern, path, 1, 1)
  <2>1. n \in 0 .. n /\ n + 1 - n = 1 /\ 1 \in 1 .. (m + 1)
    BY <1>1
  <2>2. QED
    BY <1>6, <2>1, Zenon
<1>8. QED
  BY <1>3, <1>7

\* matchRoute accepts a path exactly if the pattern covers it: a wildcard by its
\* prefix, any other pattern segment by segment, whatever slashes are repeated.
THEOREM MatchesBySegments ==
    ASSUME NEW pattern \in Seq(STRING), NEW path \in Seq(STRING)
    PROVE  MatchRoute(pattern, path) <=> Covers(pattern, path)
<1>1. CASE pattern # <<>> /\ pattern[Len(pattern)] = "*"
  <2> DEFINE n == Len(pattern) - 1
             front == SubSeq(pattern, 1, n)
  <2>1. n \in Nat
    BY <1>1
  <2>2. front \in Seq(STRING) /\ Len(front) = n
    <3>1. n <= Len(pattern)
      OBVIOUS
    <3>2. \A i \in 1 .. n : pattern[i] \in STRING
      BY <2>1, <3>1
    <3> HIDE DEF n
    <3>3. QED
      BY <2>1, <3>1, <3>2
  <2>3. SubSeq(front, 1, n) = front
    BY <2>2
  <2>4. IsPrefix(front, path) <=> n <= Len(path) /\ front = SubSeq(path, 1, n)
    BY <2>2, <2>3 DEF IsPrefix
  <2>5. Covers(pattern, path) <=> IsPrefix(front, path)
    BY <1>1 DEF Covers, Last, Front
  <2>6. QED
    BY <1>1, <2>4, <2>5 DEF MatchRoute
<1>2. CASE ~(pattern # <<>> /\ pattern[Len(pattern)] = "*")
  <2>1. StartsFrom(pattern, 1) = Starts(pattern) /\ StartsFrom(path, 1) = Starts(path)
    BY DEF StartsFrom, Starts
  <2>2. Covers(pattern, path) <=> Aligned(pattern, path, Starts(pattern), Starts(path))
    BY <1>2 DEF Covers, Last, Aligned, Fits
  <2>3. MatchRoute(pattern, path) = MatchLoop(pattern, path)
    BY <1>2 DEF MatchRoute
  <2>4. QED
    BY <2>1, <2>2, <2>3, LoopCompares DEF Rest
<1>3. QED
  BY <1>1, <1>2

-----------------------------------------------------------------------------
(* resolve_route.                                                          *)

\* The routes from i on that match but for the method, and those that match.
OnPath(routes, req, i) == {j \in i .. Len(routes) : RouteMatchesPath(routes[j], req)}
Hits(routes, req, i) == {j \in OnPath(routes, req, i) : MethodMatches(routes[j], req)}

\* The body of the loop over the routes, with f for the rest of the loop.
Body(routes, req, f, i) ==
    IF i > Len(routes) THEN [index |-> 0, allow |-> {}]
    ELSE IF ~RouteMatchesPath(routes[i], req) THEN f[i + 1]
    ELSE IF MethodMatches(routes[i], req)
         THEN [index |-> i, allow |-> {routes[i].method}]
         ELSE [f[i + 1] EXCEPT !.allow = f[i + 1].allow \cup {routes[i].method}]

\* What the loop finds from i on.
Resolution(routes, req, i) ==
    LET of == Hits(routes, req, i)
        on == OnPath(routes, req, i)
    IN  [index |-> IF of = {} THEN 0 ELSE Min(of),
         allow |-> {routes[j].method : j \in {k \in on : of = {} \/ k <= Min(of)}}]

\* Before, at and after a route the loop finds what its body says.
LEMMA ResolutionStep ==
    ASSUME NEW routes, NEW req, Len(routes) \in Nat, NEW i \in 1 .. (Len(routes) + 1), NEW f,
           i <= Len(routes) => f[i + 1] = Resolution(routes, req, i + 1)
    PROVE  Body(routes, req, f, i) = Resolution(routes, req, i)
<1> DEFINE n == Len(routes)
           on(j) == OnPath(routes, req, j)
           of(j) == Hits(routes, req, j)
<1>1. CASE i > n
  <2>1. on(i) = {} /\ of(i) = {}
    BY <1>1 DEF OnPath, Hits
  <2>2. QED
    BY <1>1, <2>1, Zenon DEF Body, Resolution
<1>2. CASE i <= n /\ ~RouteMatchesPath(routes[i], req)
  <2>1. on(i) = on(i + 1)
    BY <1>2 DEF OnPath
  <2>2. of(i) = of(i + 1)
    BY <2>1 DEF Hits
  <2>3. Resolution(routes, req, i) = Resolution(routes, req, i + 1)
    BY <2>1, <2>2 DEF Resolution
  <2>4. Body(routes, req, f, i) = f[i + 1]
    BY <1>2 DEF Body
  <2>5. QED
    BY <1>2, <2>3, <2>4
<1>3. CASE i <= n /\ RouteMatchesPath(routes[i], req) /\ MethodMatches(routes[i], req)
  <2>1. i \in on(i) /\ i \in of(i) /\ of(i) \in SUBSET Nat
    BY <1>3 DEF OnPath, Hits
  <2>2. Min(of(i)) = i
    <3>1. Min(of(i)) \in of(i) /\ Min(of(i)) <= i
      BY <2>1, LeastIn
    <3>2. \A j \in of(i) : j >= i /\ j \in Nat
      BY DEF Hits, OnPath
    <3>3. QED
      BY <3>1, <3>2
  <2>3. {k \in on(i) : of(i) = {} \/ k <= Min(of(i))} = {i}
    <3>1. \A k \in on(i) : k >= i /\ k \in Nat
      BY DEF OnPath
    <3>2. QED
      BY <2>1, <2>2, <3>1
  <2>4. Resolution(routes, req, i) = [index |-> i, allow |-> {routes[i].method}]
    BY <2>1, <2>2, <2>3, Zenon DEF Resolution
  <2>5. QED
    BY <1>3, <2>4 DEF Body
<1>4. CASE i <= n /\ RouteMatchesPath(routes[i], req) /\ ~MethodMatches(routes[i], req)
  <2>1. on(i) = on(i + 1) \cup {i} /\ \A j \in on(i + 1) : j \in Nat /\ j > i
    BY <1>4 DEF OnPath
  <2>2. of(i) = of(i + 1) /\ of(i) \subseteq on(i + 1)
    BY <1>4, <2>1 DEF Hits
  <2> DEFINE g == Resolution(routes, req, i + 1)
             S(j) == {k \in on(j) : of(j) = {} \/ k <= Min(of(j))}
  <2>3. g = [index |-> IF of(i + 1) = {} THEN 0 ELSE Min(of(i + 1)),
             allow |-> {routes[j].method : j \in S(i + 1)}]
    BY DEF Resolution
  <2>4. Resolution(routes, req, i) = [index |-> IF of(i) = {} THEN 0 ELSE Min(of(i)),
                                 allow |-> {routes[j].method : j \in S(i)}]
    BY DEF Resolution
  <2>5. S(i) = S(i + 1) \cup {i}
    <3>1. of(i) # {} => Min(of(i)) \in of(i)
      BY <2>1, <2>2, LeastIn
    <3>2. of(i) # {} => i <= Min(of(i))
      BY <2>1, <2>2, <3>1
    <3>3. QED
      BY <2>1, <2>2, <3>2
  <2> DEFINE a == {routes[j].method : j \in S(i + 1)}
             b == a \cup {routes[i].method}
  <2>6. Body(routes, req, f, i) = [f[i + 1] EXCEPT !.allow = f[i + 1].allow \cup {routes[i].method}]
    BY <1>4 DEF Body
  <2>7. f[i + 1] = g /\ g.allow = a
    BY <1>4, <2>3
  <2>8. {routes[j].method : j \in S(i)} = b
    BY <2>5
  <2>9. [g EXCEPT !.allow = b] = [index |-> g.index, allow |-> b]
    <3> HIDE DEF g, a, b, S, on, of
    <3>1. [g EXCEPT !.allow = b]
              = [x \in {"index", "allow"} |-> IF x = "allow" THEN b ELSE g[x]]
      BY <2>3
    <3>2. QED
      BY <3>1
  <2> HIDE DEF g, a, S, on, of
  <2>10. Body(routes, req, f, i) = [index |-> g.index, allow |-> b]
    BY <2>6, <2>7, <2>9
  <2>11. g.index = IF of(i) = {} THEN 0 ELSE Min(of(i))
    BY <2>2, <2>3
  <2>12. QED
    BY <2>4, <2>8, <2>10, <2>11, Zenon
<1>5. QED
  BY <1>1, <1>2, <1>3, <1>4

\* The loop of resolve_route ends, and finds the first route that matches.
THEOREM ResolvesFirst ==
    ASSUME NEW routes, NEW req, Len(routes) \in Nat
    PROVE  ResolveRoute(routes, req) = Resolution(routes, req, 1)
<1> DEFINE n == Len(routes)
           found == [i \in 1 .. (n + 1) |-> Resolution(routes, req, i)]
           from == CHOOSE f : f = [i \in 1 .. (n + 1) |-> Body(routes, req, f, i)]
<1>1. found = [i \in 1 .. (n + 1) |-> Body(routes, req, found, i)]
  <2>1. ASSUME NEW i \in 1 .. (n + 1) PROVE Resolution(routes, req, i) = Body(routes, req, found, i)
    <3>1. i <= n => found[i + 1] = Resolution(routes, req, i + 1)
      OBVIOUS
    <3>2. QED
      BY <3>1, ResolutionStep
  <2>2. QED
    BY <2>1
<1>2. ResolveRoute(routes, req) = from[1]
  BY DEF ResolveRoute, Body
<1> HIDE DEF found
<1>3. from = [i \in 1 .. (n + 1) |-> Body(routes, req, from, i)]
  BY <1>1, Zenon
<1> HIDE DEF from
<1>4. \A i \in 1 .. (n + 1) : from[i] = Body(routes, req, from, i)
  BY <1>3
<1> DEFINE wrong == {d \in 0 .. n : from[n + 1 - d] # Resolution(routes, req, n + 1 - d)}
<1>5. ASSUME wrong # {} PROVE FALSE
  <2>1. PICK d \in wrong : \A e \in wrong : d <= e
    <3>1. wrong \in SUBSET Nat
      OBVIOUS
    <3> HIDE DEF wrong
    <3>2. QED
      BY <1>5, <3>1, Least
  <2> DEFINE i == n + 1 - d
  <2>2. i \in 1 .. (n + 1) /\ from[i] # Resolution(routes, req, i) /\ d \in 0 .. n
    BY <2>1
  <2>3. i <= n => from[i + 1] = Resolution(routes, req, i + 1)
    <3> SUFFICES ASSUME i <= n PROVE from[i + 1] = Resolution(routes, req, i + 1)
      OBVIOUS
    <3>1. d - 1 \in 0 .. n /\ n + 1 - (d - 1) = i + 1 /\ ~(d <= d - 1)
      BY <2>2
    <3>2. d - 1 \notin wrong
      BY <2>1, <3>1
    <3>3. QED
      BY <3>1, <3>2
  <2>4. Body(routes, req, from, i) = Resolution(routes, req, i)
    <3> HIDE DEF i
    <3>1. QED
      BY <2>2, <2>3, ResolutionStep
  <2>5. QED
    BY <1>4, <2>2, <2>4
<1>6. from[1] = Resolution(routes, req, 1)
  <2>1. n \in 0 .. n /\ n + 1 - n = 1
    OBVIOUS
  <2>2. QED
    BY <1>5, <2>1
<1>7. QED
  BY <1>2, <1>6

-----------------------------------------------------------------------------
(* What the gate does to the limiters.                                     *)

\* Workers run revisions that exist.
GateInv ==
    /\ latest \in Revision
    /\ revision \in [Worker -> Revision]

\* A route that resolve_route finds is in the list and matches the request.
LEMMA ResolvedMatches ==
    ASSUME NEW r \in Revision, NEW req \in Requests, Resolved[r][req].index # 0
    PROVE  LET routes == Config[r].routes
               i == Resolved[r][req].index
           IN  /\ i \in DOMAIN routes
               /\ RouteMatchesPath(routes[i], req) /\ MethodMatches(routes[i], req)
<1> DEFINE routes == Config[r].routes
           of == Hits(routes, req, 1)
<1>1. Len(routes) \in Nat /\ DOMAIN routes = 1 .. Len(routes)
  BY GateConstants
<1>2. Resolved[r][req] = ResolveRoute(routes, req)
  BY DEF Resolved
<1>3. Resolved[r][req].index = IF of = {} THEN 0 ELSE Min(of)
  BY <1>1, <1>2, ResolvesFirst DEF Resolution
<1>4. of \in SUBSET Nat
  BY <1>1 DEF Hits, OnPath
<1>5. Min(of) \in of
  <2> HIDE DEF of
  <2>1. QED
    BY <1>3, <1>4, LeastIn
<1>6. QED
  BY <1>1, <1>3, <1>5, Zenon DEF Hits, OnPath

\* The limiter that a request is counted by is one of the manager's.
LEMMA LimitedStep ==
    ASSUME GateInv, NEW w \in Worker, NEW req \in Requests, Limited(w, req)
    PROVE  \E k \in Key, q \in Quota : TryAcquire(k, q)
<1> DEFINE c == Config[revision[w]]
           m == Resolved[revision[w]][req]
           l == LimiterKey(c, c.routes[m.index], req)
<1>1. revision[w] \in Revision /\ m.index # 0
  BY Zenon DEF GateInv, Limited
<1>2. /\ m.index \in DOMAIN c.routes
      /\ RouteMatchesPath(c.routes[m.index], req) /\ MethodMatches(c.routes[m.index], req)
  BY <1>1, ResolvedMatches
<1>3. ~Refused(c, c.routes[m.index], req) /\ req.path \notin ExemptPaths /\ TryAcquire(l.key, l.quota)
  BY Zenon DEF Limited
<1>4. l \in [key : Key, quota : Quota]
  BY <1>1, <1>2, <1>3, GateConstants, Zenon
<1>5. QED
  BY <1>3, <1>4, Zenon

\* Every step of the gate is a step of the limiters, or leaves them alone.
LEMMA GateStep ==
    ASSUME GateInv, [Next]_vars
    PROVE  GateInv' /\ LimiterStep
<1>1. ASSUME NEW w \in Worker, NEW req \in Requests,
             Unrouted(w, req) \/ Unauthorized(w, req) \/ Exempt(w, req)
      PROVE  GateInv' /\ LimiterStep
  BY <1>1, Zenon DEF Unrouted, Unauthorized, Exempt, GateInv, LimiterStep, Unlimited, Quiet
<1>2. ASSUME NEW w \in Worker, NEW req \in Requests, Limited(w, req)
      PROVE  GateInv' /\ LimiterStep
  <2>1. LimiterStep
    BY <1>2, LimitedStep DEF LimiterStep
  <2>2. UNCHANGED <<latest, revision>>
    BY <1>2, Zenon DEF Limited
  <2>3. QED
    BY <2>1, <2>2 DEF GateInv
<1>3. CASE Timers
  BY <1>3 DEF Timers, GateInv, LimiterStep
<1>4. CASE Publish
  <2>1. Cardinality(Revision) \in Nat
    BY GateConstants, FS_CardinalityType
  <2>2. latest + 1 \in Revision
    BY <1>4, <2>1, GateConstants DEF Publish, GateInv
  <2>3. QED
    BY <1>4, <2>2 DEF Publish, GateInv, LimiterStep, Unlimited, Quiet
<1>5. ASSUME NEW w \in Worker, ReloadConfig(w)
      PROVE  GateInv' /\ LimiterStep
  BY <1>5 DEF ReloadConfig, GateInv, LimiterStep, Unlimited, Quiet
<1>6. CASE Clear
  BY <1>6 DEF Clear, GateInv, LimiterStep, Quiet
<1>7. CASE UNCHANGED vars
  BY <1>7 DEF vars, GateInv, LimiterStep
<1>8. QED
  BY <1>1, <1>2, <1>3, <1>4, <1>5, <1>6, <1>7 DEF Next

-----------------------------------------------------------------------------
(* The theorems.                                                           *)

IInv == LimiterInv /\ GateInv

\* The first revision exists.
LEMMA InitIInv == Init => IInv
<1> SUFFICES ASSUME Init PROVE IInv
  OBVIOUS
<1>1. Cardinality(Revision) \in Nat
  BY GateConstants, FS_CardinalityType
<1>2. 1 \in Revision
  BY <1>1, GateConstants
<1>3. QED
  BY <1>2, LimiterInitInv DEF Init, GateInv, IInv

\* Every worker runs a revision that exists, and every limiter is sound.
THEOREM Invariance == Spec => []IInv
<1>1. IInv /\ [Next]_vars => IInv'
  BY GateStep, LimiterInvStep DEF IInv
<1>2. QED
  BY <1>1, InitIInv, PTL DEF Spec

\* RateLimiterManager does not grow with the keys it has seen: a limiter not
\* used for the idle time and a cleanup interval is gone, for any number of
\* workers, each with a timer of its own.
THEOREM IdleSafety == Spec => []IdleForgotten
<1>1. IInv /\ Cleaned /\ [Next]_vars => Cleaned'
  BY GateStep, CleanedStep DEF IInv
<1>2. IInv /\ Cleaned => IdleForgotten
  BY CleanedForgets DEF IInv
<1>3. Init => Cleaned
  BY LimiterInitInv DEF Init
<1>4. QED
  BY <1>1, <1>2, <1>3, Invariance, PTL DEF Spec

\* RateLimiter keeps the rate of every key in every window of time, through
\* removals by cleanup, if buckets are full after the idle time.
THEOREM RateSafety ==
    ASSUME FullAfterIdle
    PROVE  Spec => []RateBound
<1>1. IInv /\ RateInv /\ [Next]_vars => RateInv'
  BY GateStep, RateInvStep DEF IInv
<1>2. IInv /\ RateInv => RateBound
  BY RateInvBounds DEF IInv
<1>3. Init => RateInv
  BY LimiterInitInv DEF Init
<1>4. QED
  BY <1>1, <1>2, <1>3, Invariance, PTL DEF Spec

\* The rate limiter refilled on use and forgotten when idle implements token
\* buckets that are refilled every tick, if they are full after the idle time.
THEOREM LimiterRefinement ==
    ASSUME FullAfterIdle
    PROVE  Spec => LimiterRefines
<1>1. IInv => Mapped
  BY MappingHolds DEF IInv
<1>2. IInv /\ Mapped /\ Mapped' /\ [Next]_vars
          => [Bucket!Next]_<<[k \in Key |-> AsBucket(limiters[k])], answer>>
  BY GateStep, StepRefines DEF IInv
<1>3. Init => Bucket!Init
  BY LimiterInitInv DEF Init
<1>4. QED
  BY <1>1, <1>2, <1>3, Invariance, PTL DEF Spec, LimiterRefines, Bucket!Spec

\* The quota of an API key is spent only by requests that authenticated with
\* it: handle_read authorizes before should_rate_limit picks the limiter.
THEOREM QuotaSafety == Spec => []QuotaSpentByHolder
<1>1. Init => QuotaSpentByHolder
  BY DEF Init, LimiterInit, QuotaSpentByHolder
<1>2. QuotaSpentByHolder /\ [Next]_vars => QuotaSpentByHolder'
  <2> SUFFICES ASSUME QuotaSpentByHolder, [Next]_vars PROVE QuotaSpentByHolder'
    OBVIOUS
  <2>1. ASSUME NEW w \in Worker, NEW req \in Requests, Limited(w, req)
        PROVE  QuotaSpentByHolder'
    <3> DEFINE r == revision[w]
               c == Config[r]
               i == Resolved[r][req].index
               route == c.routes[i]
               l == LimiterKey(c, route, req)
               key == ExtractApiKey(req)
    <3>1. /\ answer'.key = l.key
          /\ reply'.revision = r /\ reply'.req = req /\ reply'.route = i
          /\ ~Refused(c, route, req)
      BY <2>1, Zenon DEF Limited, TryAcquire, Reply
    <3>2. SUFFICES ASSUME l.key[1] = "api_key"
                   PROVE  /\ l.key[2] \in {req.apiKey, req.bearer}
                          /\ route.authRequired /\ ~route.allowAnonymous
                          /\ l.key[2] \in DOMAIN c.keys \ route.denied
                          /\ \/ c.keys[l.key[2]].tenants = {}
                             \/ {"*", req.tenant} \cap c.keys[l.key[2]].tenants # {}
      BY <3>1, Zenon DEF QuotaSpentByHolder
    <3>3. NeedsKey(route) /\ l.key[2] = key
      BY <3>2, Zenon DEF LimiterKey
    <3>4. key # "" /\ Authorize(c.keys, key, route, req)
      BY <3>1, <3>3, Zenon DEF Refused
    <3>5. key \in {req.apiKey, req.bearer}
      BY <3>4, Zenon DEF ExtractApiKey
    <3>6. /\ key \in DOMAIN c.keys \ route.denied
          /\ c.keys[key].tenants = {} \/ "*" \in c.keys[key].tenants
                \/ req.tenant \in c.keys[key].tenants
      BY <3>4, Zenon DEF Authorize, InScope
    <3> HIDE DEF key, route, l, c
    <3>7. QED
      BY <3>3, <3>5, <3>6 DEF NeedsKey
  <2>2. CASE answer' = None
    BY <2>2 DEF QuotaSpentByHolder
  <2>3. CASE UNCHANGED vars
    BY <2>3, Zenon DEF vars, QuotaSpentByHolder
  <2>4. QED
    BY <2>1, <2>2, <2>3, Zenon DEF Next, Unrouted, Unauthorized, Exempt, Timers, Tick, Sweep, Publish,
          ReloadConfig, Clear, Unlimited
<1>3. QED
  BY <1>1, <1>2, PTL DEF Spec

\* What resolve_route finds is the first route that applies.
LEMMA ResolvedFirst ==
    ASSUME NEW r \in Revision, NEW req \in Requests
    PROVE  LET on == Applicable[r][req]
               of == {i \in on : Config[r].routes[i].method \in {"*", req.method}}
           IN  /\ Resolved[r][req].index = IF of = {} THEN 0 ELSE Min(of)
               /\ Resolved[r][req].index = 0 => of = {}
               /\ Resolved[r][req].index = 0 /\ Resolved[r][req].allow = {} => on = {}
<1> DEFINE routes == Config[r].routes
           on == Applicable[r][req]
           of == {i \in on : routes[i].method \in {"*", req.method}}
<1>1. /\ Len(routes) \in Nat /\ DOMAIN routes = 1 .. Len(routes)
      /\ req.path \in Seq(STRING) /\ \A i \in DOMAIN routes : routes[i].path \in Seq(STRING)
  BY GateConstants
<1>2. on = OnPath(routes, req, 1)
  <2>1. on = {i \in DOMAIN routes : Applies(routes[i], req)}
    BY DEF Applicable
  <2>2. ASSUME NEW i \in DOMAIN routes PROVE Applies(routes[i], req) <=> RouteMatchesPath(routes[i], req)
    <3>1. MatchRoute(routes[i].path, req.path) <=> Covers(routes[i].path, req.path)
      BY <1>1, MatchesBySegments
    <3>2. QED
      BY <3>1 DEF Applies, RouteMatchesPath
  <2>3. QED
    BY <1>1, <2>1, <2>2 DEF OnPath
<1>3. of = Hits(routes, req, 1)
  BY <1>2 DEF Hits, MethodMatches
<1>4. Resolved[r][req] = Resolution(routes, req, 1)
  BY <1>1, ResolvesFirst DEF Resolved
<1>5. Resolved[r][req].index = IF of = {} THEN 0 ELSE Min(of)
  <2> HIDE DEF of
  <2>1. Resolution(routes, req, 1).index = IF Hits(routes, req, 1) = {} THEN 0 ELSE Min(Hits(routes, req, 1))
    BY DEF Resolution
  <2>2. QED
    BY <1>3, <1>4, <2>1
<1>6. of # {} => Min(of) # 0
  <2>1. of \in SUBSET Nat /\ 0 \notin of
    BY <1>1, <1>3 DEF Hits, OnPath
  <2> HIDE DEF of
  <2>2. QED
    BY <2>1, LeastIn
<1>7. of = {} => Resolved[r][req].allow = {routes[j].method : j \in on}
  BY <1>2, <1>3, <1>4 DEF Resolution
<1>8. QED
  BY <1>5, <1>6, <1>7, Zenon

\* A request goes to the first registered route that covers its path, host,
\* tenant and method, and to the document root only if none covers it but for
\* the method: handle_read follows resolve_route, for any routes and paths.
THEOREM RouteSafety == Spec => []FirstMatch
<1> DEFINE Right(r, req, status, i) ==
             LET on == Applicable[r][req]
                 of == {j \in on : Config[r].routes[j].method \in {"*", req.method}}
             IN  /\ i = (IF of = {} THEN 0 ELSE Min(of))
                 /\ status = "static" => on = {}
                 /\ status = "dispatched" => of # {}
<1>1. Init => FirstMatch
  BY DEF Init, FirstMatch
<1>2. IInv /\ FirstMatch /\ [Next]_vars => FirstMatch'
  <2> SUFFICES ASSUME IInv, FirstMatch, [Next]_vars PROVE FirstMatch'
    OBVIOUS
  <2>1. ASSUME NEW w \in Worker, NEW req \in Requests, NEW status, NEW i,
               Right(revision[w], req, status, i), Reply(w, req, status, i)
        PROVE  FirstMatch'
    <3>1. /\ reply'.revision = revision[w] /\ reply'.req = req
          /\ reply'.status = status /\ reply'.route = i
      BY <2>1 DEF Reply
    <3>2. QED
      BY <2>1, <3>1, Zenon DEF FirstMatch
  <2>2. \A w \in Worker : revision[w] \in Revision
    BY DEF IInv, GateInv
  <2>3. ASSUME NEW w \in Worker, NEW req \in Requests, Unrouted(w, req) PROVE FirstMatch'
    <3> DEFINE m == Resolved[revision[w]][req]
               status == IF m.allow = {} /\ req.method \in {"GET", "HEAD"}
                         THEN "static" ELSE "method not allowed"
    <3>1. m.index = 0 /\ Reply(w, req, status, 0)
      BY <2>3, Zenon DEF Unrouted
    <3>2. Right(revision[w], req, status, 0)
      BY <2>2, <3>1, ResolvedFirst, Zenon
    <3> HIDE DEF status, Right
    <3>3. QED
      BY <2>1, <3>1, <3>2
  <2>4. ASSUME NEW w \in Worker, NEW req \in Requests,
               Unauthorized(w, req) \/ Exempt(w, req) \/ Limited(w, req)
        PROVE  FirstMatch'
    <3> DEFINE m == Resolved[revision[w]][req]
    <3>1. /\ m.index # 0
          /\ \E status \in {"unauthorized", "dispatched", "method not allowed", "too many requests"} :
                Reply(w, req, status, m.index)
      BY <2>4, Zenon DEF Unauthorized, Exempt, Limited, Verdict
    <3>2. PICK status \in {"unauthorized", "dispatched", "method not allowed", "too many requests"} :
             Reply(w, req, status, m.index)
      BY <3>1, Zenon
    <3>3. Right(revision[w], req, status, m.index)
      <4> DEFINE on == Applicable[revision[w]][req]
                 of == {j \in on : Config[revision[w]].routes[j].method \in {"*", req.method}}
      <4>1. m.index = IF of = {} THEN 0 ELSE Min(of)
        BY <2>2, ResolvedFirst, Zenon
      <4> HIDE DEF of
      <4>2. of # {}
        BY <3>1, <4>1, Zenon
      <4>3. status # "static"
        BY <3>2, Zenon
      <4>4. QED
        BY <4>1, <4>2, <4>3, Zenon DEF of
    <3> HIDE DEF m, Right
    <3>4. QED
      BY <2>1, <3>2, <3>3, Zenon
  <2>5. CASE reply' = None
    BY <2>5, Zenon DEF FirstMatch
  <2>6. CASE reply' = reply
    BY <2>6, Zenon DEF FirstMatch
  <2>7. QED
    BY <2>3, <2>4, <2>5, <2>6 DEF Next, Timers, Publish, ReloadConfig, Clear, vars
<1>3. QED
  BY <1>1, <1>2, Invariance, PTL DEF Spec
=============================================================================
