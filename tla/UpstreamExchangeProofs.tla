----------------------- MODULE UpstreamExchangeProofs -----------------------
(***************************************************************************)
(* Connections to backends have one owner, answers go to who asked, and    *)
(* requests are not repeated, for any number of exchanges, upstreams and   *)
(* sockets and whatever the backends do.  What the run checks is not       *)
(* inductive: an idle connection is quiet because an exchange that reads   *)
(* has at most its own answer ahead of it (Reading), and a request is sent *)
(* once per attempt because it is counted before it is executed (Counted). *)
(***************************************************************************)
EXTENDS UpstreamExchange, SequenceTheorems, TLAPS

SocketsIn(q) == {q[i].socket : i \in DOMAIN q}

Distinct(q) == \A i, j \in DOMAIN q : q[i].socket = q[j].socket => i = j

\* Who owns the sockets: an exchange or the pool of its upstream, and nobody else.
Owned(x) ==
    ex[x].sock # None =>
        /\ sock[ex[x].sock].state # "closed" /\ sock[ex[x].sock].to = Target[x]
        /\ ex[x].sock \notin PoolSockets(Target[x])
        /\ \A y \in Exchanges : ex[y].sock = ex[x].sock => x = y

Kept(u) ==
    /\ Distinct(idle[u])
    /\ \A s \in PoolSockets(u) : sock[s].state # "closed" /\ sock[s].to = u

Used(s) ==
    sock[s].state # "closed" =>
        (\E x \in Exchanges : ex[x].sock = s) \/ (\E u \in Upstreams : s \in PoolSockets(u))

Ownership ==
    /\ \A x \in Exchanges : Owned(x)
    /\ \A u \in Upstreams : Kept(u)
    /\ \A s \in Sockets : Used(s)

\* A request is on its way only on a connection that neither side has closed.
Wired ==
    \A x \in Exchanges, k \in BOOLEAN :
        wire[x][k] \in Sockets => sock[wire[x][k]].state = "open"

\* No request is on its way and no answer unread.
Silent(s) == sock[s].inbox = <<>> /\ \A x \in Exchanges, k \in BOOLEAN : wire[x][k] # s

\* An exchange that waits for its answer has nothing else ahead of it than that.
Reading(x) ==
    LET s == ex[x].sock
    IN  /\ \A y \in Exchanges, k \in BOOLEAN : wire[y][k] = s => y = x /\ k = ex[x].retried
        /\ \A i \in DOMAIN sock[s].inbox : sock[s].inbox[i].for = x
        /\ \A i \in DOMAIN ex[x].response_bytes : ex[x].response_bytes[i].for = x
        /\ Len(sock[s].inbox) + Len(ex[x].response_bytes)
              + (IF wire[x][ex[x].retried] = s THEN 1 ELSE 0) <= 1

\* What an exchange with a backend that speaks only when spoken to has ahead.
Asking(x) ==
    /\ ex[x].phase # "Read" => ex[x].response_bytes = <<>>
    /\ ex[x].phase \in WithSocket \ {"Read"} => Silent(ex[x].sock)
    /\ ex[x].phase = "Read" => Reading(x)
    /\ ex[x].outcome = "ok" => ex[x].got = x

Resting(u) == \A i \in DOMAIN idle[u] : idle[u][i].leftover = <<>> /\ Silent(idle[u][i].socket)

Quiet ==
    /\ \A x \in Exchanges : Target[x] \notin Chatty => Asking(x)
    /\ \A u \in Upstreams \ Chatty : Resting(u)

\* How often request x has been, or is still to be, executed for the attempt k.
Count(x, k) == executed[x][k] + (IF wire[x][k] = None THEN 0 ELSE 1)

Unsent == {"New", "Connect", "Connecting", "TlsHandshake", "Send"}

\* Each attempt is sent once, and there is a second one only for an idempotent
\* request, on a connection of its own.
Counted(x) ==
    /\ \A k \in BOOLEAN : Count(x, k) <= 1
    /\ x \notin Idempotent => Count(x, TRUE) = 0
    /\ ex[x].phase \in Unsent => Count(x, ex[x].retried) = 0
    /\ ~ex[x].retried /\ ex[x].phase # "Done" => Count(x, TRUE) = 0
    /\ ex[x].retried => x \in Idempotent /\ ex[x].force_fresh /\ ~ex[x].used_pooled
    /\ ex[x].outcome # "none" <=> ex[x].phase = "Done"

IInv == TypeOK /\ Ownership /\ Wired /\ Quiet /\ \A x \in Exchanges : Counted(x)

-----------------------------------------------------------------------------
(* Sequences and records.                                                  *)

\* The deque r is q without its first i entries.
Shortened(q, i, r) ==
    /\ r \in Seq(Pooled) /\ Len(r) = Len(q) - i
    /\ \A n \in DOMAIN r : i + n \in DOMAIN q /\ r[n] = q[i + n]
    /\ Distinct(r)
    /\ SocketsIn(r) = SocketsIn(q) \ {q[j].socket : j \in 1 .. i}

\* What checkout leaves of a deque: the entries after the one it returns.
LEMMA Suffix ==
    ASSUME NEW q \in Seq(Pooled), Distinct(q), NEW i \in DOMAIN q, NEW r,
           r = SubSeq(q, i + 1, Len(q))
    PROVE  Shortened(q, i, r)
    <1>1. Len(q) \in Nat /\ DOMAIN q = 1 .. Len(q) /\ i \in Nat /\ i >= 1 /\ i <= Len(q)
        BY LenProperties
    <1>2. \A j \in i + 1 .. Len(q) : q[j] \in Pooled
        BY <1>1, ElementOfSeq
    <1>3. /\ r \in Seq(Pooled)
          /\ Len(r) = IF i + 1 <= Len(q) THEN Len(q) - (i + 1) + 1 ELSE 0
          /\ \A n \in 1 .. Len(q) - (i + 1) + 1 : r[n] = q[i + 1 + n - 1]
        BY <1>1, <1>2, SubSeqProperties
    <1>4. Len(r) = Len(q) - i
        BY <1>1, <1>3
    <1>5. DOMAIN r = 1 .. Len(q) - i
        BY <1>3, <1>4, LenProperties
    <1>6. \A n \in DOMAIN r : i + n \in DOMAIN q /\ r[n] = q[i + n]
        BY <1>1, <1>3, <1>5
    <1>7. Distinct(r)
        <2>1. SUFFICES ASSUME NEW m \in DOMAIN r, NEW n \in DOMAIN r, r[m].socket = r[n].socket
                       PROVE  m = n
            BY DEF Distinct
        <2>2. i + m = i + n
            BY <1>6, <2>1 DEF Distinct
        <2> QED
            BY <1>1, <1>5, <2>2
    <1>8. SocketsIn(r) \subseteq SocketsIn(q) \ {q[j].socket : j \in 1 .. i}
        <2>1. SUFFICES ASSUME NEW n \in DOMAIN r
                       PROVE  r[n].socket \in SocketsIn(q) \ {q[j].socket : j \in 1 .. i}
            BY DEF SocketsIn
        <2>2. ASSUME NEW j \in 1 .. i, r[n].socket = q[j].socket
              PROVE  FALSE
            <3>1. j \in DOMAIN q
                BY <1>1
            <3>2. j = i + n
                BY <1>6, <2>2, <3>1 DEF Distinct
            <3> QED
                BY <1>1, <1>5, <3>2
        <2> QED
            BY <1>6, <2>2 DEF SocketsIn
    <1>9. SocketsIn(q) \ {q[j].socket : j \in 1 .. i} \subseteq SocketsIn(r)
        <2>1. SUFFICES ASSUME NEW j \in DOMAIN q, j \notin 1 .. i
                       PROVE  q[j].socket \in SocketsIn(r)
            BY Zenon DEF SocketsIn
        <2>2. j - i \in DOMAIN r /\ i + (j - i) = j
            BY <1>1, <1>5, <2>1
        <2> QED
            BY <1>6, <2>2 DEF SocketsIn
    <1> QED
        BY <1>3, <1>4, <1>6, <1>7, <1>8, <1>9 DEF Shortened

\* The deque r is q with c at its end.
Lengthened(q, c, r) ==
    /\ r \in Seq(Pooled) /\ Len(r) = Len(q) + 1
    /\ \A n \in DOMAIN r : (n \in DOMAIN q /\ r[n] = q[n]) \/ r[n] = c
    /\ Distinct(r)
    /\ SocketsIn(r) = SocketsIn(q) \cup {c.socket}

\* checkin puts a connection that the deque does not hold at its end.
LEMMA Appended ==
    ASSUME NEW q \in Seq(Pooled), Distinct(q), NEW c \in Pooled, c.socket \notin SocketsIn(q),
           NEW r, r = Append(q, c)
    PROVE  Lengthened(q, c, r)
    <1>1. /\ r \in Seq(Pooled) /\ Len(r) = Len(q) + 1
          /\ \A n \in 1 .. Len(q) : r[n] = q[n]
          /\ r[Len(q) + 1] = c
        BY AppendProperties
    <1>2. /\ DOMAIN q = 1 .. Len(q) /\ Len(q) \in Nat
          /\ DOMAIN r = 1 .. Len(q) + 1
        BY <1>1, LenProperties
    <1>3. \A n \in DOMAIN r : (n \in DOMAIN q /\ r[n] = q[n]) \/ (n = Len(q) + 1 /\ r[n] = c)
        BY <1>1, <1>2
    <1>4. Distinct(r)
        BY <1>3 DEF Distinct, SocketsIn
    <1>5. \A n \in DOMAIN q : n \in DOMAIN r /\ r[n] = q[n]
        BY <1>1, <1>2
    <1>6. Len(q) + 1 \in DOMAIN r
        BY <1>2
    <1>7. SocketsIn(r) = SocketsIn(q) \cup {c.socket}
        BY <1>1, <1>3, <1>5, <1>6 DEF SocketsIn
    <1> QED
        BY <1>1, <1>3, <1>4, <1>7 DEF Lengthened

-----------------------------------------------------------------------------
(* Steps that move sockets.  Opening, failing, finishing and abandoning all *)
(* redistribute the sockets of one exchange and of its upstream's pool: the *)
(* exchange becomes e, the deque q, the sockets in "dropped" are closed and *)
(* "fresh" (None if there is none) is opened.                               *)

Opened(u) == [state |-> "open", to |-> u, inbox |-> <<>>]

Holdings(x) == SocketOf(x) \cup PoolSockets(Target[x])

\* What the exchange and the deque become.
Redistributes(x, e, q, dropped, fresh) ==
    /\ e \in Exchange /\ (e.sock # None <=> e.phase \in WithSocket)
    /\ q \in Seq(Pooled) /\ Len(q) <= MaxIdle
    /\ dropped \subseteq Holdings(x)
    /\ fresh \in Sockets \cup {None}
    /\ fresh # None => sock[fresh].state = "closed" \/ fresh \in dropped
    /\ Distinct(q) /\ e.sock \notin SocketsIn(q)
    /\ ({e.sock} \ {None}) \cup SocketsIn(q)
          = (Holdings(x) \ dropped) \cup ({fresh} \ {None})

\* What is owed on the connections they keep.
KeepsQuiet(x, e, q, fresh) ==
    /\ e.phase # "Read"
    /\ Target[x] \notin Chatty =>
          /\ e.response_bytes = <<>>
          /\ e.sock # None => e.sock = fresh \/ Silent(e.sock)
          /\ e.outcome = "ok" => e.got = x
          /\ \A i \in DOMAIN q : q[i].leftover = <<>> /\ Silent(q[i].socket)

\* Counted, for the exchange as it becomes.
CountedAs(x, e) ==
    /\ e.phase \in Unsent => Count(x, e.retried) = 0
    /\ ~e.retried /\ e.phase # "Done" => Count(x, TRUE) = 0
    /\ e.retried => x \in Idempotent /\ e.force_fresh /\ ~e.used_pooled
    /\ e.outcome # "none" <=> e.phase = "Done"

Moved(x, e, q, dropped, fresh) ==
    /\ ex' = [ex EXCEPT ![x] = e]
    /\ idle' = [idle EXCEPT ![Target[x]] = q]
    /\ sock' = [t \in Sockets |-> IF t = fresh THEN Opened(Target[x])
                                  ELSE IF t \in dropped THEN Closed ELSE sock[t]]
    /\ wire' = Orphaned(dropped)
    /\ executed' = executed

\* The types of the parts, as the lemmas below use them.
LEMMA Parts ==
    ASSUME TypeOK, NEW x \in Exchanges
    PROVE  /\ ex[x] \in Exchange /\ Target[x] \in Upstreams
           /\ idle[Target[x]] \in Seq(Pooled) /\ Len(idle[Target[x]]) <= MaxIdle
           /\ SocketOf(x) \subseteq Sockets
           /\ \A u \in Upstreams : PoolSockets(u) \subseteq Sockets
           /\ \A u \in Upstreams : PoolSockets(u) = SocketsIn(idle[u])
    <1>1. ex[x] \in Exchange /\ Target[x] \in Upstreams
        BY ExchangeAssumption DEF TypeOK
    <1>2. SocketOf(x) \subseteq Sockets
        BY <1>1 DEF SocketOf, Exchange
    <1>3. ASSUME NEW u \in Upstreams
          PROVE  PoolSockets(u) \subseteq Sockets /\ PoolSockets(u) = SocketsIn(idle[u])
        <2>1. idle[u] \in Seq(Pooled)
            BY DEF TypeOK
        <2>2. \A i \in DOMAIN idle[u] : idle[u][i] \in Pooled
            BY <2>1, ElementOfSeq, LenProperties
        <2> QED
            BY <2>2 DEF PoolSockets, SocketsIn, Pooled
    <1> QED
        BY <1>1, <1>2, <1>3 DEF TypeOK

\* Such a step, point by point.
ByExchange(x, e, q, dropped, fresh) ==
    /\ \A y \in Exchanges : ex'[y] = IF y = x THEN e ELSE ex[y]
    /\ \A u \in Upstreams : idle'[u] = IF u = Target[x] THEN q ELSE idle[u]
    /\ \A t \in Sockets :
          sock'[t] = IF t = fresh THEN Opened(Target[x])
                     ELSE IF t \in dropped THEN Closed ELSE sock[t]
    /\ \A y \in Exchanges, k \in BOOLEAN :
          wire'[y][k] = IF wire[y][k] \in dropped THEN Orphan ELSE wire[y][k]
    /\ \A u \in Upstreams :
          PoolSockets(u)' = IF u = Target[x] THEN SocketsIn(q) ELSE PoolSockets(u)

\* It has that effect: it moves the sockets of no other exchange and no other pool.
LEMMA MovedParts ==
    ASSUME TypeOK, NEW x \in Exchanges, NEW e, NEW q, NEW dropped, NEW fresh,
           Moved(x, e, q, dropped, fresh)
    PROVE  ByExchange(x, e, q, dropped, fresh)
    <1>1. \A y \in Exchanges : ex'[y] = IF y = x THEN e ELSE ex[y]
        BY DEF Moved, TypeOK
    <1>2. \A u \in Upstreams : idle'[u] = IF u = Target[x] THEN q ELSE idle[u]
        BY DEF Moved, TypeOK
    <1>3. \A t \in Sockets :
             sock'[t] = IF t = fresh THEN Opened(Target[x])
                        ELSE IF t \in dropped THEN Closed ELSE sock[t]
        BY DEF Moved
    <1>4. \A y \in Exchanges, k \in BOOLEAN :
             wire'[y][k] = IF wire[y][k] \in dropped THEN Orphan ELSE wire[y][k]
        BY DEF Moved, Orphaned
    <1>5. \A u \in Upstreams :
             PoolSockets(u)' = IF u = Target[x] THEN SocketsIn(q) ELSE PoolSockets(u)
        BY <1>2 DEF PoolSockets, SocketsIn
    <1> QED
        BY <1>1, <1>2, <1>3, <1>4, <1>5 DEF ByExchange

\* It keeps the types.
LEMMA MovedType ==
    ASSUME TypeOK, NEW x \in Exchanges, NEW e, NEW q, NEW dropped, NEW fresh,
           Redistributes(x, e, q, dropped, fresh), Moved(x, e, q, dropped, fresh)
    PROVE  TypeOK'
    <1>0. ByExchange(x, e, q, dropped, fresh)
        BY MovedParts
    <1>1. ex' \in [Exchanges -> Exchange] /\ idle' \in [Upstreams -> Seq(Pooled)]
        BY Zenon DEF TypeOK, Moved, Redistributes
    <1>2. \A y \in Exchanges : ex'[y].sock # None <=> ex'[y].phase \in WithSocket
        BY <1>0, Zenon DEF TypeOK, Redistributes, ByExchange
    <1>3. \A u \in Upstreams : Len(idle'[u]) <= MaxIdle
        BY <1>0, Zenon DEF TypeOK, Redistributes, ByExchange
    <1>4. Opened(Target[x]) \in Socket /\ Closed \in Socket
        BY ExchangeAssumption, EmptySeq DEF Opened, Closed, Socket
    <1>5. sock' \in [Sockets -> Socket]
        BY <1>4 DEF TypeOK, Moved
    <1>6. wire' \in [Exchanges -> [BOOLEAN -> Sockets \cup {None, Orphan}]]
        BY DEF TypeOK, Moved, Orphaned
    <1>7. executed' \in [Exchanges -> [BOOLEAN -> Nat]]
        BY DEF TypeOK, Moved
    <1> QED
        BY <1>1, <1>2, <1>3, <1>5, <1>6, <1>7 DEF TypeOK

\* What an exchange holds, alone or with others through the pool, is open and leads
\* to its upstream; no other exchange and no other upstream's pool has any of it.
LEMMA Apart ==
    ASSUME TypeOK, Ownership, NEW x \in Exchanges
    PROVE  /\ Holdings(x) \subseteq Sockets
           /\ \A t \in Holdings(x) : sock[t].state # "closed" /\ sock[t].to = Target[x]
           /\ \A y \in Exchanges \ {x} : ex[y].sock \notin Holdings(x)
           /\ \A u \in Upstreams \ {Target[x]} : PoolSockets(u) \cap Holdings(x) = {}
    <1>1. Target[x] \in Upstreams /\ Holdings(x) \subseteq Sockets
        BY Parts DEF Holdings
    <1>2. Owned(x) /\ Kept(Target[x])
        BY <1>1 DEF Ownership
    <1>3. \A t \in Holdings(x) : sock[t].state # "closed" /\ sock[t].to = Target[x]
        BY <1>2 DEF Holdings, Owned, Kept, SocketOf
    <1>4. ASSUME NEW y \in Exchanges \ {x}, ex[y].sock \in Holdings(x)
          PROVE  FALSE
        <2>1. Owned(y)
            BY DEF Ownership
        <2>2. None \notin Holdings(x)
            BY <1>1, ExchangeAssumption
        <2>3. sock[ex[y].sock].to = Target[x] /\ sock[ex[y].sock].to = Target[y]
            BY <1>3, <1>4, <2>1, <2>2 DEF Owned
        <2>4. ex[y].sock \notin PoolSockets(Target[x])
            BY <1>4, <2>1, <2>2, <2>3 DEF Owned
        <2>5. ex[y].sock = ex[x].sock
            BY <1>4, <2>4 DEF Holdings, SocketOf
        <2> QED
            BY <1>4, <2>1, <2>2, <2>5 DEF Owned
    <1>5. ASSUME NEW u \in Upstreams \ {Target[x]}, NEW t \in PoolSockets(u), t \in Holdings(x)
          PROVE  FALSE
        <2>1. Kept(u)
            BY DEF Ownership
        <2> QED
            BY <1>3, <1>5, <2>1 DEF Kept
    <1> QED
        BY <1>1, <1>3, <1>4, <1>5

\* A socket that a step may move is owned by nobody else than the exchange and its
\* pool: what others own stays as it is.
LEMMA OthersKeep ==
    ASSUME TypeOK, Ownership, NEW x \in Exchanges, NEW e, NEW q, NEW dropped, NEW fresh,
           Redistributes(x, e, q, dropped, fresh), Moved(x, e, q, dropped, fresh)
    PROVE  LET Elsewhere(t) == /\ t # fresh /\ t \notin dropped /\ t # e.sock
                               /\ t \notin SocketsIn(q) /\ sock'[t] = sock[t]
           IN  /\ \A y \in Exchanges \ {x} : ex[y].sock # None => Elsewhere(ex[y].sock)
               /\ \A u \in Upstreams \ {Target[x]} : \A t \in PoolSockets(u) : Elsewhere(t)
    <1>1. ByExchange(x, e, q, dropped, fresh)
        BY MovedParts
    <1> DEFINE Elsewhere(t) == /\ t # fresh /\ t \notin dropped /\ t # e.sock
                               /\ t \notin SocketsIn(q) /\ sock'[t] = sock[t]
    <1>2. ASSUME NEW t \in Sockets, sock[t].state # "closed", t \notin Holdings(x)
          PROVE  Elsewhere(t)
        <2>1. t \notin dropped
            BY <1>2 DEF Redistributes
        <2>2. t # fresh
            BY <1>2, <2>1, ExchangeAssumption DEF Redistributes
        <2>3. t \notin ({e.sock} \ {None}) \cup SocketsIn(q)
            BY <1>2, <2>2 DEF Redistributes
        <2>4. sock'[t] = sock[t]
            BY <1>1, <2>1, <2>2 DEF ByExchange
        <2> QED
            BY <2>1, <2>2, <2>3, <2>4, ExchangeAssumption
    <1>3. ASSUME NEW y \in Exchanges \ {x}, ex[y].sock # None
          PROVE  Elsewhere(ex[y].sock)
        <2>1. ex[y].sock \in Sockets
            BY <1>3 DEF TypeOK, Exchange
        <2>2. sock[ex[y].sock].state # "closed"
            BY <1>3 DEF Ownership, Owned
        <2>3. ex[y].sock \notin Holdings(x)
            BY Apart
        <2> QED
            BY <1>2, <2>1, <2>2, <2>3
    <1>4. ASSUME NEW u \in Upstreams \ {Target[x]}, NEW t \in PoolSockets(u)
          PROVE  Elsewhere(t)
        <2>1. t \in Sockets
            BY Parts
        <2>2. sock[t].state # "closed"
            BY DEF Ownership, Kept
        <2>3. t \notin Holdings(x)
            BY Apart
        <2> QED
            BY <1>2, <2>1, <2>2, <2>3
    <1> QED
        BY <1>3, <1>4

\* It keeps the ownership: every connection has an owner, and only one.
LEMMA MovedOwnership ==
    ASSUME TypeOK, Ownership, NEW x \in Exchanges, NEW e, NEW q, NEW dropped, NEW fresh,
           Redistributes(x, e, q, dropped, fresh), Moved(x, e, q, dropped, fresh)
    PROVE  Ownership'
    <1> DEFINE u == Target[x]
               New == ({e.sock} \ {None}) \cup SocketsIn(q)
    <1>1. ByExchange(x, e, q, dropped, fresh)
        BY MovedParts
    <1>2. /\ \A y \in Exchanges \ {x} : ex[y].sock # None =>
                /\ ex[y].sock # fresh /\ ex[y].sock \notin dropped
                /\ ex[y].sock # e.sock /\ ex[y].sock \notin SocketsIn(q)
                /\ sock'[ex[y].sock] = sock[ex[y].sock]
          /\ \A v \in Upstreams \ {u} : \A t \in PoolSockets(v) :
                /\ t # fresh /\ t \notin dropped /\ t # e.sock
                /\ t \notin SocketsIn(q) /\ sock'[t] = sock[t]
        BY OthersKeep
    <1>3. u \in Upstreams /\ Holdings(x) \subseteq Sockets
        BY Parts, Apart
    <1>4. ASSUME NEW t \in New
          PROVE  t \in Sockets /\ sock'[t].state # "closed" /\ sock'[t].to = u
        <2>1. t \in (Holdings(x) \ dropped) \cup ({fresh} \ {None})
            BY <1>4 DEF Redistributes
        <2>2. t \in Sockets
            BY <1>3, <2>1 DEF Redistributes
        <2>3. CASE t = fresh
            BY <1>1, <2>2, <2>3 DEF ByExchange, Opened
        <2>4. CASE t # fresh
            <3>1. t \in Holdings(x) /\ t \notin dropped
                BY <2>1, <2>4
            <3>2. sock'[t] = sock[t]
                BY <1>1, <2>2, <2>4, <3>1 DEF ByExchange
            <3> QED
                BY <2>2, <3>1, <3>2, Apart
        <2> QED
            BY <2>3, <2>4
    <1>5. ASSUME NEW y \in Exchanges
          PROVE  Owned(y)'
        <2>1. CASE y = x
            <3>1. ex'[x] = e /\ PoolSockets(u)' = SocketsIn(q)
                BY <1>1, <1>3 DEF ByExchange
            <3>2. \A z \in Exchanges : ex'[z].sock = e.sock /\ e.sock # None => z = x
                BY <1>1, <1>2 DEF ByExchange
            <3>3. e.sock # None => e.sock \in New /\ e.sock \notin SocketsIn(q)
                BY DEF Redistributes
            <3> QED
                BY <1>4, <2>1, <3>1, <3>2, <3>3 DEF Owned
        <2>2. CASE y # x
            <3>1. ex'[y] = ex[y]
                BY <1>1, <2>2 DEF ByExchange
            <3>2. Owned(y)
                BY DEF Ownership
            <3>3. Target[y] \in Upstreams
                BY Parts
            <3>4. ex[y].sock # None => ex[y].sock \notin PoolSockets(Target[y])'
                BY <1>1, <1>2, <2>2, <3>2, <3>3 DEF ByExchange, Owned
            <3>5. \A z \in Exchanges : ex'[z].sock = ex[y].sock /\ ex[y].sock # None => z = y
                BY <1>1, <1>2, <2>2, <3>2 DEF ByExchange, Owned
            <3> QED
                BY <1>2, <2>2, <3>1, <3>2, <3>4, <3>5 DEF Owned
        <2> QED
            BY <2>1, <2>2
    <1>6. ASSUME NEW v \in Upstreams
          PROVE  Kept(v)'
        <2>1. CASE v = u
            <3>1. idle'[u] = q /\ PoolSockets(u)' = SocketsIn(q)
                BY <1>1, <1>3 DEF ByExchange
            <3>2. Distinct(q)
                BY DEF Redistributes
            <3> QED
                BY <1>4, <2>1, <3>1, <3>2 DEF Kept, Distinct
        <2>2. CASE v # u
            <3>1. idle'[v] = idle[v] /\ PoolSockets(v)' = PoolSockets(v)
                BY <1>1, <2>2 DEF ByExchange
            <3>2. Kept(v)
                BY DEF Ownership
            <3> QED
                BY <1>2, <2>2, <3>1, <3>2 DEF Kept, Distinct
        <2> QED
            BY <2>1, <2>2
    <1>7. ASSUME NEW t \in Sockets
          PROVE  Used(t)'
        <2>1. SUFFICES ASSUME sock'[t].state # "closed"
                       PROVE  \/ \E y \in Exchanges : ex'[y].sock = t
                              \/ \E v \in Upstreams : t \in PoolSockets(v)'
            BY DEF Used
        <2>2. CASE t \in New
            <3>1. ex'[x] = e /\ PoolSockets(u)' = SocketsIn(q)
                BY <1>1, <1>3 DEF ByExchange
            <3> QED
                BY <1>3, <2>2, <3>1
        <2>3. CASE t \notin New
            <3>1. t # fresh /\ t \notin Holdings(x) \ dropped
                BY <2>3, ExchangeAssumption DEF Redistributes
            <3>2. t \notin dropped /\ sock'[t] = sock[t]
                BY <1>1, <2>1, <3>1 DEF ByExchange, Closed
            <3>3. t \notin Holdings(x)
                BY <3>1, <3>2
            <3>4. Used(t) /\ sock[t].state # "closed"
                BY <2>1, <3>2 DEF Ownership
            <3>5. CASE \E y \in Exchanges : ex[y].sock = t
                <4>1. PICK y \in Exchanges : ex[y].sock = t
                    BY <3>5
                <4>2. y # x
                    BY <3>3, <4>1, ExchangeAssumption DEF Holdings, SocketOf
                <4> QED
                    BY <1>1, <4>1, <4>2 DEF ByExchange
            <3>6. CASE \E v \in Upstreams : t \in PoolSockets(v)
                <4>1. PICK v \in Upstreams : t \in PoolSockets(v)
                    BY <3>6
                <4>2. v # u
                    BY <3>3, <4>1 DEF Holdings
                <4> QED
                    BY <1>1, <4>1, <4>2 DEF ByExchange
            <3> QED
                BY <3>4, <3>5, <3>6 DEF Used
        <2> QED
            BY <2>2, <2>3
    <1> QED
        BY <1>5, <1>6, <1>7 DEF Ownership

\* Requests on their way stay on open connections, and a socket that is opened has
\* none on it.
LEMMA MovedWired ==
    ASSUME TypeOK, Ownership, Wired, NEW x \in Exchanges, NEW e, NEW q, NEW dropped, NEW fresh,
           Redistributes(x, e, q, dropped, fresh), Moved(x, e, q, dropped, fresh)
    PROVE  /\ Wired'
           /\ \A t \in Sockets : t = fresh => Silent(t)'
           /\ \A t \in Sockets : Silent(t) /\ t \notin dropped => Silent(t)'
    <1>1. ByExchange(x, e, q, dropped, fresh)
        BY MovedParts
    <1>2. ASSUME NEW y \in Exchanges, NEW k \in BOOLEAN, wire'[y][k] \in Sockets
          PROVE  /\ wire[y][k] = wire'[y][k] /\ wire'[y][k] # fresh
                 /\ wire'[y][k] \notin dropped /\ sock[wire[y][k]].state = "open"
        <2>1. wire[y][k] = wire'[y][k] /\ wire[y][k] \notin dropped
            BY <1>1, <1>2, ExchangeAssumption DEF ByExchange
        <2>2. sock[wire[y][k]].state = "open"
            BY <1>2, <2>1 DEF Wired
        <2>3. wire[y][k] # fresh
            BY <1>2, <2>1, <2>2, ExchangeAssumption DEF Redistributes
        <2> QED
            BY <2>1, <2>2, <2>3
    <1>3. Wired'
        BY <1>1, <1>2 DEF Wired, ByExchange
    <1>4. ASSUME NEW t \in Sockets, t = fresh
          PROVE  Silent(t)'
        <2>1. sock'[t].inbox = <<>>
            BY <1>1, <1>4 DEF ByExchange, Opened
        <2>2. \A y \in Exchanges, k \in BOOLEAN : wire'[y][k] # t
            BY <1>2, <1>4
        <2> QED
            BY <2>1, <2>2 DEF Silent
    <1>5. ASSUME NEW t \in Sockets, Silent(t), t \notin dropped
          PROVE  Silent(t)'
        <2>1. sock'[t].inbox = <<>>
            BY <1>1, <1>5 DEF ByExchange, Opened, Silent
        <2>2. \A y \in Exchanges, k \in BOOLEAN : wire'[y][k] # t
            BY <1>2, <1>5 DEF Silent
        <2> QED
            BY <2>1, <2>2 DEF Silent
    <1> QED
        BY <1>3, <1>4, <1>5

\* What is ahead of the other exchanges does not change.
LEMMA MovedAsking ==
    ASSUME TypeOK, Ownership, Wired, NEW x \in Exchanges, NEW e, NEW q, NEW dropped, NEW fresh,
           Redistributes(x, e, q, dropped, fresh), Moved(x, e, q, dropped, fresh),
           NEW y \in Exchanges \ {x}, Asking(y)
    PROVE  Asking(y)'
    <1> DEFINE s == ex[y].sock
    <1>1. ByExchange(x, e, q, dropped, fresh)
        BY MovedParts
    <1>2. ex'[y] = ex[y]
        BY <1>1 DEF ByExchange
    <1>3. s # None => s \in Sockets /\ s \notin dropped /\ sock'[s] = sock[s]
        <2>1. s # None => s \notin dropped /\ sock'[s] = sock[s]
            BY OthersKeep
        <2>2. ex[y] \in Exchange
            BY DEF TypeOK
        <2> QED
            BY <2>1, <2>2 DEF Exchange
    <1>4. ex[y].phase \in WithSocket => s # None
        BY DEF TypeOK
    <1>5. s # None => \A z \in Exchanges, k \in BOOLEAN : wire'[z][k] = s <=> wire[z][k] = s
        BY <1>1, <1>3, ExchangeAssumption DEF ByExchange
    <1>6. ex[y].phase \in WithSocket \ {"Read"} => Silent(ex[y].sock)'
        <2>1. SUFFICES ASSUME ex[y].phase \in WithSocket \ {"Read"}
                       PROVE  /\ sock'[s].inbox = <<>>
                              /\ \A z \in Exchanges, k \in BOOLEAN : wire'[z][k] # s
            BY <1>2 DEF Silent
        <2>2. Silent(s) /\ s # None
            BY <1>4, <2>1 DEF Asking
        <2> QED
            BY <1>3, <1>5, <2>2 DEF Silent
    <1>7. ASSUME ex[y].phase = "Read"
          PROVE  Reading(y)'
        <2>1. Reading(y) /\ s # None /\ ex[y].retried \in BOOLEAN
            BY <1>4, <1>7 DEF Asking, WithSocket, TypeOK, Exchange
        <2>2. /\ \A z \in Exchanges, k \in BOOLEAN : wire'[z][k] = s <=> wire[z][k] = s
              /\ sock'[s] = sock[s]
            BY <1>3, <1>5, <2>1
        <2>3. wire'[y][ex[y].retried] = s <=> wire[y][ex[y].retried] = s
            BY <2>1, <2>2
        <2> HIDE DEF s
        <2>4. SUFFICES
                /\ \A z \in Exchanges, k \in BOOLEAN : wire'[z][k] = s => z = y /\ k = ex[y].retried
                /\ \A i \in DOMAIN sock[s].inbox : sock[s].inbox[i].for = y
                /\ \A i \in DOMAIN ex[y].response_bytes : ex[y].response_bytes[i].for = y
                /\ Len(sock[s].inbox) + Len(ex[y].response_bytes)
                      + (IF wire'[y][ex[y].retried] = s THEN 1 ELSE 0) <= 1
            BY <1>2, <2>2, ZenonT(40) DEF Reading, s
        <2> QED
            BY <2>1, <2>2, <2>3, Zenon DEF Reading, s
    <1> QED
        BY <1>2, <1>6, <1>7 DEF Asking

\* It keeps the connections of backends that do not speak unasked quiet.
LEMMA MovedQuiet ==
    ASSUME TypeOK, Ownership, Wired, Quiet,
           NEW x \in Exchanges, NEW e, NEW q, NEW dropped, NEW fresh,
           Redistributes(x, e, q, dropped, fresh), Moved(x, e, q, dropped, fresh),
           KeepsQuiet(x, e, q, fresh)
    PROVE  Quiet'
    <1> DEFINE u == Target[x]
    <1>1. ByExchange(x, e, q, dropped, fresh)
        BY MovedParts
    <1>2. /\ \A t \in Sockets : t = fresh => Silent(t)'
          /\ \A t \in Sockets : Silent(t) /\ t \notin dropped => Silent(t)'
        BY MovedWired
    <1>3. /\ u \in Upstreams /\ ex'[x] = e /\ idle'[u] = q
          /\ e.sock \in Sockets \cup {None}
          /\ e.sock # None => e.phase \in WithSocket
        BY <1>1, Parts DEF ByExchange, Redistributes, Exchange
    <1>4. \A t \in ({e.sock} \ {None}) \cup SocketsIn(q) : t \in Sockets /\ (t = fresh \/ t \notin dropped)
        BY Apart DEF Redistributes
    <1>5. ASSUME u \notin Chatty
          PROVE  Asking(x)'
        <2>1. e.sock # None => Silent(e.sock)'
            BY <1>2, <1>4, <1>5 DEF KeepsQuiet
        <2>2. e.phase \in WithSocket => e.sock # None
            BY DEF Redistributes
        <2> QED
            BY <1>3, <1>5, <2>1, <2>2 DEF Asking, KeepsQuiet
    <1>6. ASSUME u \notin Chatty
          PROVE  Resting(u)'
        <2>1. ASSUME NEW i \in DOMAIN q
              PROVE  q[i].leftover = <<>> /\ Silent(q[i].socket)'
            BY <1>2, <1>4, <1>6 DEF KeepsQuiet, SocketsIn
        <2> QED
            BY <1>3, <2>1 DEF Resting
    <1>7. ASSUME NEW y \in Exchanges, Target[y] \notin Chatty
          PROVE  Asking(y)'
        BY <1>5, <1>7, MovedAsking DEF Quiet
    <1>8. ASSUME NEW v \in Upstreams \ Chatty
          PROVE  Resting(v)'
        <2>1. CASE v = u
            BY <1>6, <2>1
        <2>2. CASE v # u
            <3>1. idle'[v] = idle[v] /\ Resting(v)
                BY <1>1, <2>2 DEF ByExchange, Quiet
            <3>2. \A t \in PoolSockets(v) : t \in Sockets /\ t \notin dropped
                BY <2>2, OthersKeep, Parts
            <3>3. \A i \in DOMAIN idle[v] : idle[v][i].socket \in PoolSockets(v)
                BY DEF PoolSockets
            <3> QED
                BY <1>2, <3>1, <3>2, <3>3 DEF Resting
        <2> QED
            BY <2>1, <2>2
    <1> QED
        BY <1>7, <1>8 DEF Quiet

\* The number of times a request is executed does not depend on closing its socket.
LEMMA MovedCounted ==
    ASSUME TypeOK, \A y \in Exchanges : Counted(y),
           NEW x \in Exchanges, NEW e, NEW q, NEW dropped, NEW fresh, dropped \subseteq Sockets,
           Moved(x, e, q, dropped, fresh), e \in Exchange, CountedAs(x, e)
    PROVE  \A y \in Exchanges : Counted(y)'
    <1>1. ByExchange(x, e, q, dropped, fresh) /\ executed' = executed
        BY MovedParts, Zenon DEF Moved
    <1>2. \A y \in Exchanges, k \in BOOLEAN : wire'[y][k] = None <=> wire[y][k] = None
        BY <1>1, ExchangeAssumption DEF ByExchange
    <1>3. \A y \in Exchanges, k \in BOOLEAN : Count(y, k)' = Count(y, k)
        BY <1>1, <1>2 DEF Count
    <1>4. e.retried \in BOOLEAN /\ \A y \in Exchanges : ex[y].retried \in BOOLEAN
        BY DEF TypeOK, Exchange
    <1>5. SUFFICES ASSUME NEW y \in Exchanges
                   PROVE  Counted(y)'
        OBVIOUS
    <1>6. Counted(y)
        OBVIOUS
    <1>7. CASE y = x
        <2>1. ex'[y] = e
            BY <1>1, <1>7 DEF ByExchange
        <2> QED
            BY <1>3, <1>4, <1>6, <1>7, <2>1, Zenon DEF Counted, CountedAs
    <1>8. CASE y # x
        <2>1. ex'[y] = ex[y]
            BY <1>1, <1>8 DEF ByExchange
        <2> QED
            BY <1>3, <1>4, <1>6, <2>1, Zenon DEF Counted
    <1> QED
        BY <1>7, <1>8

\* A step that moves sockets keeps the invariant.
LEMMA MovedIInv ==
    ASSUME IInv, NEW x \in Exchanges, NEW e, NEW q, NEW dropped, NEW fresh,
           Redistributes(x, e, q, dropped, fresh), KeepsQuiet(x, e, q, fresh), CountedAs(x, e),
           Moved(x, e, q, dropped, fresh)
    PROVE  IInv'
    <1>1. TypeOK /\ Ownership /\ Wired /\ Quiet /\ \A y \in Exchanges : Counted(y)
        BY DEF IInv
    <1>2. dropped \subseteq Sockets /\ e \in Exchange
        BY <1>1, Apart DEF Redistributes
    <1>3. TypeOK'
        BY <1>1, MovedType
    <1>4. Ownership'
        BY <1>1, MovedOwnership
    <1>5. Wired'
        BY <1>1, MovedWired
    <1>6. Quiet'
        BY <1>1, MovedQuiet
    <1>7. \A y \in Exchanges : Counted(y)'
        BY <1>1, <1>2, MovedCounted
    <1> QED
        BY <1>3, <1>4, <1>5, <1>6, <1>7 DEF IInv

-----------------------------------------------------------------------------
(* Ends of exchanges.                                                      *)

\* An exchange without a socket that has nothing ahead of it.
Bare(x, e) ==
    /\ e \in Exchange /\ e.sock = None /\ e.phase \notin WithSocket
    /\ e.response_bytes = <<>>
    /\ Target[x] \notin Chatty /\ e.outcome = "ok" => e.got = x
    /\ CountedAs(x, e)

\* What a closed set of sockets does, in the terms of Moved.
LEMMA ClosedMoved ==
    ASSUME TypeOK, NEW x \in Exchanges, NEW e, NEW q, NEW dropped,
           ex' = [ex EXCEPT ![x] = e], idle' = [idle EXCEPT ![Target[x]] = q],
           Close(dropped), executed' = executed
    PROVE  Moved(x, e, q, dropped, None)
    <1>1. \A t \in Sockets : t # None
        BY ExchangeAssumption
    <1>2. sock' = [t \in Sockets |-> IF t = None THEN Opened(Target[x])
                                     ELSE IF t \in dropped THEN Closed ELSE sock[t]]
        BY <1>1 DEF Close
    <1> QED
        BY <1>2 DEF Moved, Close

\* The exchange ends or starts over and its socket is closed, alone or with all idle
\* connections of its upstream.
LEMMA Released ==
    ASSUME IInv, NEW x \in Exchanges, NEW e, Bare(x, e),
           ex' = [ex EXCEPT ![x] = e], executed' = executed,
           \/ Close(SocketOf(x)) /\ idle' = idle
           \/ Close(Holdings(x)) /\ idle' = [idle EXCEPT ![Target[x]] = <<>>]
    PROVE  IInv'
    <1> DEFINE u == Target[x]
    <1>1. TypeOK /\ Ownership /\ Wired /\ Quiet
        BY DEF IInv
    <1>2. /\ u \in Upstreams /\ idle[u] \in Seq(Pooled) /\ Len(idle[u]) <= MaxIdle
          /\ PoolSockets(u) = SocketsIn(idle[u]) /\ Holdings(x) \subseteq Sockets
        BY <1>1, Parts, Apart
    <1>3. None \notin Holdings(x)
        BY <1>2, ExchangeAssumption
    <1>4. CASE Close(SocketOf(x)) /\ idle' = idle
        <2>1. idle' = [idle EXCEPT ![u] = idle[u]]
            BY <1>1, <1>4 DEF TypeOK
        <2>2. Moved(x, e, idle[u], SocketOf(x), None)
            BY <1>1, <1>4, <2>1, ClosedMoved, Zenon
        <2>3. Owned(x) /\ Kept(u)
            BY <1>1, <1>2 DEF Ownership
        <2>4. SocketOf(x) \cap PoolSockets(u) = {}
            BY <2>3 DEF Owned, SocketOf
        <2>5. ({e.sock} \ {None}) \cup SocketsIn(idle[u])
                 = (Holdings(x) \ SocketOf(x)) \cup ({None} \ {None})
            BY <1>2, <2>4 DEF Bare, Holdings
        <2>6. e.sock \notin SocketsIn(idle[u])
            BY <1>2, <1>3 DEF Bare, Holdings
        <2>7. Redistributes(x, e, idle[u], SocketOf(x), None)
            BY <1>2, <2>3, <2>5, <2>6 DEF Redistributes, Bare, Kept, Holdings
        <2>8. KeepsQuiet(x, e, idle[u], None)
            BY <1>1, <1>2 DEF KeepsQuiet, Bare, Quiet, Resting, WithSocket
        <2>9. CountedAs(x, e)
            BY DEF Bare
        <2> QED
            BY <2>2, <2>7, <2>8, <2>9, MovedIInv
    <1>5. CASE Close(Holdings(x)) /\ idle' = [idle EXCEPT ![u] = <<>>]
        <2>1. Moved(x, e, <<>>, Holdings(x), None)
            BY <1>1, <1>5, ClosedMoved, Zenon
        <2>2. /\ <<>> \in Seq(Pooled) /\ Len(<<>>) <= MaxIdle /\ DOMAIN <<>> = {}
              /\ SocketsIn(<<>>) = {} /\ Distinct(<<>>)
            BY ExchangeAssumption DEF SocketsIn, Distinct
        <2>3. ({e.sock} \ {None}) \cup SocketsIn(<<>>)
                 = (Holdings(x) \ Holdings(x)) \cup ({None} \ {None})
            BY <2>2 DEF Bare
        <2>4. Redistributes(x, e, <<>>, Holdings(x), None)
            BY <2>2, <2>3 DEF Redistributes, Bare
        <2>5. KeepsQuiet(x, e, <<>>, None)
            BY <2>2 DEF KeepsQuiet, Bare, WithSocket
        <2>6. CountedAs(x, e)
            BY DEF Bare
        <2> QED
            BY <2>1, <2>4, <2>5, <2>6, MovedIInv
    <1> QED
        BY <1>4, <1>5

\* What remains of a destroyed exchange.
LEMMA EndedIs ==
    ASSUME NEW x \in Exchanges, NEW outcome \in {"ok", "error", "abandoned"},
           NEW got \in Exchanges \cup {None},
           Target[x] \notin Chatty /\ outcome = "ok" => got = x
    PROVE  Bare(x, Ended(outcome, got)) /\ Ended(outcome, got).outcome = outcome
    <1> DEFINE e == Ended(outcome, got)
    <1>1. Fresh \in Exchange
        BY EmptySeq DEF Fresh, Exchange, Phases
    <1>2. e \in Exchange
        BY <1>1, Zenon DEF Ended, Exchange, Phases
    <1>3. /\ e.phase = "Done" /\ e.sock = None /\ e.response_bytes = <<>> /\ ~e.retried
          /\ e.outcome = outcome /\ e.got = got
        BY DEF Ended, Fresh
    <1> HIDE DEF e
    <1>4. CountedAs(x, e)
        BY <1>3 DEF CountedAs, Unsent
    <1>5. Bare(x, e)
        BY <1>2, <1>3, <1>4 DEF Bare, WithSocket
    <1> QED
        BY <1>3, <1>5 DEF e

\* What fail makes of an exchange it replays.
LEMMA StartedOverIs ==
    ASSUME IInv, NEW x \in Exchanges, Replays(x), ex[x].phase # "Done"
    PROVE  Bare(x, StartedOver(x)) /\ StartedOver(x).outcome = "none"
    <1> DEFINE e == StartedOver(x)
    <1>1. ex[x] \in Exchange /\ Counted(x)
        BY DEF IInv, TypeOK
    <1>2. ex[x].outcome = "none" /\ Count(x, TRUE) = 0 /\ x \in Idempotent
        BY <1>1, Zenon DEF Counted, Replays
    <1>3. /\ e.phase = "Connect" /\ e.sock = None /\ e.response_bytes = <<>>
          /\ e.retried /\ e.force_fresh /\ ~e.used_pooled /\ e.outcome = ex[x].outcome
        BY <1>1 DEF StartedOver, Exchange
    <1>4. e \in Exchange
        BY <1>1, EmptySeq, Zenon DEF StartedOver, Exchange, Phases
    <1> HIDE DEF e
    <1>5. CountedAs(x, e)
        <2>1. e.retried = TRUE
            BY <1>3, <1>4 DEF Exchange
        <2> QED
            BY <1>2, <1>3, <2>1, Zenon DEF CountedAs, Unsent
    <1>6. Bare(x, e)
        BY <1>2, <1>3, <1>4, <1>5 DEF Bare, WithSocket
    <1> QED
        BY <1>2, <1>3, <1>6 DEF e

\* fail keeps the invariant.
LEMMA FailIInv ==
    ASSUME IInv, NEW x \in Exchanges, ex[x].phase # "Done", Fail(x)
    PROVE  IInv'
    <1> DEFINE e == IF Replays(x) THEN StartedOver(x) ELSE Ended("error", None)
    <1>1. Bare(x, e)
        BY StartedOverIs, EndedIs
    <1>2. /\ ex' = [ex EXCEPT ![x] = e] /\ executed' = executed
          /\ \/ Close(SocketOf(x)) /\ idle' = idle
             \/ Close(Holdings(x)) /\ idle' = [idle EXCEPT ![Target[x]] = <<>>]
        BY DEF Fail, Holdings
    <1> HIDE DEF e
    <1> QED
        BY <1>1, <1>2, Released, Zenon

\* Destroying an exchange where it stands keeps the invariant.
LEMMA AbandonIInv ==
    ASSUME IInv, NEW x \in Exchanges, Abandon(x)
    PROVE  IInv'
    <1> DEFINE e == Ended("abandoned", None)
    <1>1. Bare(x, e)
        BY EndedIs
    <1>2. ex' = [ex EXCEPT ![x] = e] /\ executed' = executed /\ Close(SocketOf(x)) /\ idle' = idle
        BY DEF Abandon
    <1> HIDE DEF e
    <1> QED
        BY <1>1, <1>2, Released, Zenon

\* A step that leaves the sockets alone closes none.
LEMMA NothingClosed ==
    ASSUME TypeOK, sock' = sock, wire' = wire
    PROVE  Close({})
    <1>1. sock' = [s \in Sockets |-> IF s \in {} THEN Closed ELSE sock[s]]
        BY DEF TypeOK
    <1>2. wire' = [x \in Exchanges |-> [k \in BOOLEAN |-> wire[x][k]]]
        <2>1. \A x \in Exchanges : wire[x] = [k \in BOOLEAN |-> wire[x][k]]
            BY DEF TypeOK
        <2> QED
            BY <2>1 DEF TypeOK
    <1>3. wire' = Orphaned({})
        BY <1>2 DEF Orphaned
    <1> QED
        BY <1>1, <1>3 DEF Close

\* The answer that finish_ok delivers: once it has arrived, nothing else is owed on
\* the connection.
LEMMA Answered ==
    ASSUME IInv, NEW x \in Exchanges, ex[x].phase = "Read", ex[x].response_bytes # <<>>
    PROVE  /\ ex[x].sock \in Sockets
           /\ Head(ex[x].response_bytes) \in Response
           /\ Tail(ex[x].response_bytes) \in Seq(Response)
           /\ Target[x] \notin Chatty =>
                 /\ Head(ex[x].response_bytes).for = x
                 /\ Tail(ex[x].response_bytes) = <<>>
                 /\ Silent(ex[x].sock)
    <1> DEFINE b == ex[x].response_bytes
               s == ex[x].sock
    <1>1. ex[x] \in Exchange /\ s # None /\ sock \in [Sockets -> Socket]
        BY DEF IInv, TypeOK, WithSocket
    <1>2. b \in Seq(Response) /\ s \in Sockets /\ ex[x].retried \in BOOLEAN
        BY <1>1 DEF Exchange
    <1>3. Head(b) \in Response /\ Tail(b) \in Seq(Response) /\ Len(Tail(b)) = Len(b) - 1
        BY <1>2, HeadTailProperties
    <1>4. sock[s].inbox \in Seq(Response)
        BY <1>1, <1>2 DEF Socket
    <1>5. ASSUME Target[x] \notin Chatty
          PROVE  Head(b).for = x /\ Tail(b) = <<>> /\ Silent(s)
        <2>1. Reading(x)
            BY <1>5 DEF IInv, Quiet, Asking
        <2>2. Len(b) \in Nat \ {0} /\ Len(sock[s].inbox) \in Nat /\ DOMAIN b = 1 .. Len(b)
            BY <1>2, <1>4, EmptySeq, LenProperties
        <2>3. Len(b) = 1 /\ Len(sock[s].inbox) = 0 /\ wire[x][ex[x].retried] # s
            <3> DEFINE n == Len(sock[s].inbox)
                       m == Len(b)
                       w == IF wire[x][ex[x].retried] = s THEN 1 ELSE 0
            <3>1. n + m + w <= 1
                BY <2>1, Zenon DEF Reading
            <3>2. n \in Nat /\ m \in Nat \ {0} /\ w \in {0, 1}
                BY <2>2
            <3>3. w = 0 => wire[x][ex[x].retried] # s
                OBVIOUS
            <3> HIDE DEF n, m, w
            <3>4. n = 0 /\ m = 1 /\ w = 0
                BY <3>1, <3>2
            <3> QED
                BY <3>3, <3>4 DEF n, m
        <2>4. Head(b) = b[1] /\ 1 \in DOMAIN b
            BY <1>2, <2>2
        <2>5. Head(b).for = x
            BY <2>1, <2>4 DEF Reading
        <2>6. Tail(b) = <<>>
            <3> DEFINE t == Tail(b)
            <3>1. t \in Seq(Response) /\ Len(t) = 0
                BY <1>3, <2>3
            <3> HIDE DEF t
            <3>2. t = <<>>
                BY <3>1, EmptySeq
            <3> QED
                BY <3>2 DEF t
        <2>7. sock[s].inbox = <<>>
            BY <1>4, <2>3, EmptySeq
        <2>8. \A y \in Exchanges, k \in BOOLEAN : wire[y][k] # s
            BY <2>1, <2>3 DEF Reading
        <2> QED
            BY <2>5, <2>6, <2>7, <2>8 DEF Silent
    <1> QED
        BY <1>2, <1>3, <1>5

\* finish_ok keeps the invariant, whether the connection goes back to the pool, is
\* dropped by a full one, or is closed.
LEMMA FinishOkIInv ==
    ASSUME IInv, NEW x \in Exchanges, ex[x].phase = "Read", ex[x].response_bytes # <<>>,
           NEW peer_closed \in BOOLEAN, FinishOk(x, peer_closed)
    PROVE  IInv'
    <1> DEFINE u == Target[x]
               s == ex[x].sock
               message == Head(ex[x].response_bytes)
               leftover == Tail(ex[x].response_bytes)
               e == IF message.kind = "garbled" THEN Ended("error", None)
                    ELSE Ended("ok", message.for)
               c == [socket |-> s, leftover |-> leftover, expired |-> FALSE]
               q == Append(idle[u], c)
    <1>1. /\ s \in Sockets /\ message \in Response /\ leftover \in Seq(Response)
          /\ u \notin Chatty => message.for = x /\ leftover = <<>> /\ Silent(s)
        BY Answered
    <1>2. TypeOK /\ Ownership /\ Wired /\ Quiet
        BY DEF IInv
    <1>3. Bare(x, e)
        <2>1. message.for \in Exchanges \cup {None}
            BY <1>1 DEF Response
        <2> QED
            BY <1>1, <2>1, EndedIs
    <1>4. SocketOf(x) = {s}
        BY <1>1, ExchangeAssumption DEF SocketOf
    <1>5. ex' = [ex EXCEPT ![x] = e] /\ executed' = executed
        BY DEF FinishOk
    <1>6. \/ Close(SocketOf(x)) /\ idle' = idle
          \/ /\ idle' = [idle EXCEPT ![u] = q] /\ sock' = sock /\ wire' = wire
             /\ ~(Len(idle[u]) >= MaxIdle)
        BY <1>4 DEF FinishOk, Checkin
    <1>7. CASE Close(SocketOf(x)) /\ idle' = idle
        <2> HIDE DEF e
        <2> QED
            BY <1>3, <1>5, <1>7, Released, Zenon
    <1>8. CASE /\ idle' = [idle EXCEPT ![u] = q] /\ sock' = sock /\ wire' = wire
               /\ ~(Len(idle[u]) >= MaxIdle)
        <2>1. /\ u \in Upstreams /\ idle[u] \in Seq(Pooled) /\ Owned(x) /\ Kept(u)
              /\ PoolSockets(u) = SocketsIn(idle[u])
            BY <1>2, Parts DEF Ownership
        <2>2. s # None /\ s \notin SocketsIn(idle[u]) /\ Distinct(idle[u])
            BY <1>1, <2>1, ExchangeAssumption DEF Owned, Kept
        <2>3. c \in Pooled /\ c.socket = s /\ c.leftover = leftover
            BY <1>1 DEF Pooled
        <2> HIDE DEF c, e, leftover, message
        <2>0. q = Append(idle[u], c)
            OBVIOUS
        <2> HIDE DEF q
        <2>4. /\ q \in Seq(Pooled) /\ Len(q) = Len(idle[u]) + 1 /\ Distinct(q)
              /\ \A n \in DOMAIN q : (n \in DOMAIN idle[u] /\ q[n] = idle[u][n]) \/ q[n] = c
              /\ SocketsIn(q) = SocketsIn(idle[u]) \cup {s}
            <3>1. c.socket \notin SocketsIn(idle[u])
                BY <2>2, <2>3
            <3>2. Lengthened(idle[u], c, q)
                BY <2>1, <2>2, <2>3, <2>0, <3>1, Appended, Zenon
            <3> QED
                BY <2>3, <3>2 DEF Lengthened
        <2>5. Len(idle[u]) \in Nat /\ MaxIdle \in Nat
            BY <2>1, LenProperties, ExchangeAssumption
        <2>6. Moved(x, e, q, {}, None)
            BY <1>2, <1>5, <1>8, NothingClosed, ClosedMoved, Zenon
        <2>7. None \notin SocketsIn(q)
            BY <1>1, <1>2, <2>1, <2>4, Parts, ExchangeAssumption
        <2>8. Redistributes(x, e, q, {}, None)
            <3>1. Len(q) <= MaxIdle
                BY <1>8, <2>4, <2>5
            <3>2. ({e.sock} \ {None}) \cup SocketsIn(q) = (Holdings(x) \ {}) \cup ({None} \ {None})
                BY <1>3, <1>4, <2>1, <2>4 DEF Bare, Holdings
            <3> QED
                BY <1>3, <2>4, <2>7, <3>1, <3>2 DEF Redistributes, Bare
        <2>9. KeepsQuiet(x, e, q, None)
            <3>1. u \notin Chatty => Resting(u)
                BY <1>2, <2>1 DEF Quiet
            <3>2. u \notin Chatty => \A n \in DOMAIN q : q[n].leftover = <<>> /\ Silent(q[n].socket)
                BY <1>1, <2>3, <2>4, <3>1 DEF Resting
            <3> QED
                BY <1>3, <3>2 DEF KeepsQuiet, Bare, WithSocket
        <2>10. CountedAs(x, e)
            BY <1>3 DEF Bare
        <2> QED
            BY <2>6, <2>8, <2>9, <2>10, MovedIInv
    <1> QED
        BY <1>6, <1>7, <1>8

-----------------------------------------------------------------------------
(* Opening a connection.                                                   *)

\* What checkout leaves of the pool, q, of an exchange about to connect when it takes
\* the sockets in "taken" out of it.
Remains(x, q, taken) ==
    /\ q \in Seq(Pooled) /\ Len(q) <= MaxIdle /\ Distinct(q)
    /\ taken \subseteq PoolSockets(Target[x])
    /\ SocketsIn(q) = PoolSockets(Target[x]) \ taken
    /\ Target[x] \notin Chatty =>
          \A n \in DOMAIN q : q[n].leftover = <<>> /\ Silent(q[n].socket)

\* checkout takes the first entries up to the one it returns.
LEMMA RemainsSuffix ==
    ASSUME IInv, NEW x \in Exchanges, NEW i \in DOMAIN idle[Target[x]], NEW q,
           q = SubSeq(idle[Target[x]], i + 1, Len(idle[Target[x]]))
    PROVE  Remains(x, q, {idle[Target[x]][j].socket : j \in 1 .. i})
    <1> DEFINE u == Target[x]
               p == idle[u]
               taken == {p[j].socket : j \in 1 .. i}
    <1>1. TypeOK /\ Ownership /\ Quiet
        BY DEF IInv
    <1>2. /\ u \in Upstreams /\ p \in Seq(Pooled) /\ Len(p) <= MaxIdle
          /\ PoolSockets(u) = SocketsIn(p)
        BY <1>1, Parts
    <1>3. Distinct(p)
        BY <1>1, <1>2 DEF Ownership, Kept
    <1>4. Shortened(p, i, q)
        <2> HIDE DEF p
        <2> QED
            BY <1>2, <1>3, Suffix, Zenon DEF p
    <1>5. DOMAIN p = 1 .. Len(p) /\ Len(p) \in Nat /\ MaxIdle \in Nat
        BY <1>2, LenProperties, ExchangeAssumption
    <1>6. Len(q) <= MaxIdle
        BY <1>2, <1>4, <1>5 DEF Shortened
    <1>7. taken \subseteq SocketsIn(p)
        BY <1>5 DEF SocketsIn
    <1>8. u \notin Chatty => \A n \in DOMAIN p : p[n].leftover = <<>> /\ Silent(p[n].socket)
        BY <1>1, <1>2 DEF Quiet, Resting
    <1>9. u \notin Chatty => \A n \in DOMAIN q : q[n].leftover = <<>> /\ Silent(q[n].socket)
        BY <1>4, <1>8 DEF Shortened
    <1> QED
        BY <1>2, <1>4, <1>6, <1>7, <1>9 DEF Remains, Shortened

\* A missing key, or one whose entries have all expired, leaves an empty deque.
LEMMA RemainsNone ==
    ASSUME IInv, NEW x \in Exchanges
    PROVE  Remains(x, <<>>, PoolSockets(Target[x]))
    <1>1. /\ <<>> \in Seq(Pooled) /\ Len(<<>>) <= MaxIdle /\ DOMAIN <<>> = {}
          /\ SocketsIn(<<>>) = {} /\ Distinct(<<>>)
        BY ExchangeAssumption DEF SocketsIn, Distinct
    <1> QED
        BY <1>1 DEF Remains

\* A pool that is not asked stays.
LEMMA RemainsAll ==
    ASSUME IInv, NEW x \in Exchanges
    PROVE  Remains(x, idle[Target[x]], {})
    <1>1. TypeOK /\ Ownership /\ Quiet
        BY DEF IInv
    <1>2. /\ Target[x] \in Upstreams /\ idle[Target[x]] \in Seq(Pooled)
          /\ Len(idle[Target[x]]) <= MaxIdle
          /\ PoolSockets(Target[x]) = SocketsIn(idle[Target[x]])
        BY <1>1, Parts
    <1> QED
        BY <1>1, <1>2 DEF Remains, Ownership, Kept, Quiet, Resting

\* An exchange about to connect has no socket and has sent nothing.
LEMMA AboutToConnect ==
    ASSUME IInv, NEW x \in Exchanges, ex[x].phase = "Connect"
    PROVE  /\ ex[x] \in Exchange /\ ex[x].sock = None /\ SocketOf(x) = {}
           /\ Holdings(x) = PoolSockets(Target[x]) /\ PoolSockets(Target[x]) \subseteq Sockets
           /\ Target[x] \in Upstreams
           /\ Target[x] \notin Chatty => ex[x].response_bytes = <<>>
           /\ ex[x].outcome = "none" /\ Count(x, ex[x].retried) = 0 /\ Counted(x)
    <1>1. TypeOK /\ Ownership /\ Quiet /\ Counted(x)
        BY DEF IInv
    <1>2. ex[x] \in Exchange /\ ex[x].sock = None
        BY <1>1, Zenon DEF TypeOK, WithSocket
    <1>3. SocketOf(x) = {} /\ Holdings(x) = PoolSockets(Target[x])
        BY <1>2 DEF SocketOf, Holdings
    <1>4. PoolSockets(Target[x]) \subseteq Sockets /\ Target[x] \in Upstreams
        BY <1>1, Parts
    <1>5. Target[x] \notin Chatty => ex[x].response_bytes = <<>>
        BY <1>1 DEF Quiet, Asking
    <1>6. ex[x].outcome = "none" /\ Count(x, ex[x].retried) = 0
        BY <1>1 DEF Counted, Unsent
    <1> QED
        BY <1>1, <1>2, <1>3, <1>4, <1>5, <1>6

\* The exchange ends before it has a connection.
LEMMA ConnectEnds ==
    ASSUME IInv, NEW x \in Exchanges, ex[x].phase = "Connect", NEW q, NEW taken,
           Remains(x, q, taken), ex' = [ex EXCEPT ![x] = Ended("error", None)],
           idle' = [idle EXCEPT ![Target[x]] = q], Close(taken), executed' = executed
    PROVE  IInv'
    <1> DEFINE e == Ended("error", None)
    <1>1. Bare(x, e)
        BY EndedIs
    <1>2. Holdings(x) = PoolSockets(Target[x]) /\ PoolSockets(Target[x]) \subseteq Sockets
        BY AboutToConnect
    <1>3. ex' = [ex EXCEPT ![x] = e]
        OBVIOUS
    <1> HIDE DEF e
    <1>4. Moved(x, e, q, taken, None)
        BY <1>3, ClosedMoved, Zenon DEF IInv
    <1>5. Redistributes(x, e, q, taken, None)
        <2>1. None \notin SocketsIn(q)
            BY <1>2, ExchangeAssumption DEF Remains
        <2>2. ({e.sock} \ {None}) \cup SocketsIn(q) = (Holdings(x) \ taken) \cup ({None} \ {None})
            BY <1>1, <1>2 DEF Bare, Remains
        <2> QED
            BY <1>1, <1>2, <2>1, <2>2 DEF Bare, Remains, Redistributes
    <1>6. KeepsQuiet(x, e, q, None)
        BY <1>1 DEF Bare, KeepsQuiet, Remains, WithSocket
    <1>7. CountedAs(x, e)
        BY <1>1 DEF Bare
    <1> QED
        BY <1>4, <1>5, <1>6, <1>7, MovedIInv

\* open_fresh keeps the invariant, also when the descriptor it gets is that of a
\* pooled connection just dropped.
LEMMA OpenFreshIInv ==
    ASSUME IInv, NEW x \in Exchanges, ex[x].phase = "Connect", NEW q, NEW taken,
           Remains(x, q, taken), idle' = [idle EXCEPT ![Target[x]] = q], executed' = executed,
           OpenFresh(x, taken)
    PROVE  IInv'
    <1>1. CASE Close(taken) /\ ex' = [ex EXCEPT ![x] = Ended("error", None)]
        BY <1>1, ConnectEnds, Zenon
    <1>2. ASSUME NEW s \in Sockets, NEW phase \in FreshPhases(x),
                 sock[s].state = "closed" \/ s \in taken,
                 sock' = [t \in Sockets |->
                             IF t = s THEN [state |-> "open", to |-> Target[x], inbox |-> <<>>]
                             ELSE IF t \in taken THEN Closed ELSE sock[t]],
                 wire' = Orphaned(taken),
                 ex' = [ex EXCEPT ![x].sock = s, ![x].phase = phase]
          PROVE  IInv'
        <2> DEFINE e == [ex[x] EXCEPT !.sock = s, !.phase = phase]
        <2>1. /\ ex[x] \in Exchange /\ Holdings(x) = PoolSockets(Target[x])
              /\ PoolSockets(Target[x]) \subseteq Sockets /\ Target[x] \in Upstreams
              /\ Target[x] \notin Chatty => ex[x].response_bytes = <<>>
              /\ ex[x].outcome = "none" /\ Count(x, ex[x].retried) = 0 /\ Counted(x)
            BY AboutToConnect
        <2>2. phase \in {"Connecting", "TlsHandshake", "Send"}
            BY DEF FreshPhases
        <2>3. /\ e \in Exchange /\ e.sock = s /\ e.phase = phase
              /\ e.response_bytes = ex[x].response_bytes /\ e.outcome = ex[x].outcome
              /\ e.retried = ex[x].retried /\ e.force_fresh = ex[x].force_fresh
              /\ e.used_pooled = ex[x].used_pooled
            BY <2>1, <2>2, Zenon DEF Exchange, Phases
        <2>4. ex' = [ex EXCEPT ![x] = e]
            BY <1>2, Zenon DEF IInv, TypeOK
        <2> HIDE DEF e
        <2>5. s # None
            BY ExchangeAssumption
        <2>6. Moved(x, e, q, taken, s)
            BY <1>2, <2>4, Zenon DEF Moved, Opened
        <2>7. Redistributes(x, e, q, taken, s)
            <3>1. s \notin SocketsIn(q)
                <4>1. s \in PoolSockets(Target[x]) => sock[s].state # "closed"
                    BY <2>1 DEF IInv, Ownership, Kept
                <4> QED
                    BY <1>2, <4>1 DEF Remains
            <3>2. ({e.sock} \ {None}) \cup SocketsIn(q) = (Holdings(x) \ taken) \cup ({s} \ {None})
                BY <2>1, <2>3 DEF Remains
            <3> QED
                BY <1>2, <2>1, <2>2, <2>3, <2>5, <3>1, <3>2 DEF Redistributes, Remains, WithSocket
        <2>8. KeepsQuiet(x, e, q, s)
            BY <2>1, <2>2, <2>3 DEF KeepsQuiet, Remains
        <2>9. CountedAs(x, e)
            BY <1>2, <2>1, <2>2, <2>3, Zenon DEF CountedAs, Counted
        <2> QED
            BY <2>6, <2>7, <2>8, <2>9, MovedIInv
    <1> QED
        BY <1>1, <1>2, Zenon DEF OpenFresh

\* Connecting with a new connection keeps the invariant.
LEMMA OpenNewIInv ==
    ASSUME IInv, NEW x \in Exchanges, OpenNew(x)
    PROVE  IInv'
    <1> DEFINE u == Target[x]
    <1>1. ex[x].phase = "Connect" /\ executed' = executed
        BY DEF OpenNew
    <1>2. CASE OpenFresh(x, {}) /\ idle' = idle
        <2>1. idle' = [idle EXCEPT ![u] = idle[u]]
            BY <1>2 DEF IInv, TypeOK
        <2>2. Remains(x, idle[u], {})
            BY RemainsAll
        <2> QED
            BY <1>1, <1>2, <2>1, <2>2, OpenFreshIInv, Zenon
    <1>3. CASE OpenFresh(x, PoolSockets(u)) /\ idle' = [idle EXCEPT ![u] = <<>>]
        <2>1. Remains(x, <<>>, PoolSockets(u))
            BY RemainsNone
        <2> QED
            BY <1>1, <1>3, <2>1, OpenFreshIInv, Zenon
    <1>4. ASSUME NEW i \in Front(u), OpenFresh(x, {idle[u][j].socket : j \in 1 .. i}),
                 idle' = [idle EXCEPT ![u] = SubSeq(@, i + 1, Len(@))]
          PROVE  IInv'
        <2> DEFINE q == SubSeq(idle[u], i + 1, Len(idle[u]))
                   taken == {idle[u][j].socket : j \in 1 .. i}
        <2>1. Remains(x, q, taken)
            BY RemainsSuffix, Zenon DEF Front
        <2>2. idle' = [idle EXCEPT ![u] = q] /\ OpenFresh(x, taken)
            BY <1>4
        <2> HIDE DEF q, taken
        <2> QED
            BY <1>1, <2>1, <2>2, OpenFreshIInv, Zenon
    <1> QED
        BY <1>2, <1>3, <1>4, Zenon DEF OpenNew

\* A probe that throws ends the exchange and keeps the invariant.
LEMMA ProbeThrowsIInv ==
    ASSUME IInv, NEW x \in Exchanges, ProbeThrows(x)
    PROVE  IInv'
    <1> DEFINE u == Target[x]
    <1>1. PICK i \in Front(u) :
             /\ idle' = [idle EXCEPT ![u] = SubSeq(@, i + 1, Len(@))]
             /\ Close({idle[u][j].socket : j \in 1 .. i})
        BY Zenon DEF ProbeThrows
    <1> DEFINE q == SubSeq(idle[u], i + 1, Len(idle[u]))
               taken == {idle[u][j].socket : j \in 1 .. i}
    <1>2. Remains(x, q, taken)
        BY RemainsSuffix, Zenon DEF Front
    <1>3. /\ ex[x].phase = "Connect" /\ executed' = executed
          /\ ex' = [ex EXCEPT ![x] = Ended("error", None)]
        BY DEF ProbeThrows
    <1>4. idle' = [idle EXCEPT ![u] = q] /\ Close(taken)
        BY <1>1
    <1> HIDE DEF q, taken
    <1> QED
        BY <1>2, <1>3, <1>4, ConnectEnds, Zenon

\* Connecting with a pooled connection keeps the invariant: its socket changes hands.
LEMMA OpenPooledIInv ==
    ASSUME IInv, NEW x \in Exchanges, OpenPooled(x)
    PROVE  IInv'
    <1> DEFINE u == Target[x]
               p == idle[u]
    <1>1. PICK i \in Front(u) :
             /\ idle' = [idle EXCEPT ![u] = SubSeq(@, i + 1, Len(@))]
             /\ Close({p[j].socket : j \in 1 .. i - 1})
             /\ ex' = [ex EXCEPT ![x].sock = p[i].socket, ![x].used_pooled = TRUE,
                                 ![x].response_bytes = p[i].leftover, ![x].phase = "Send"]
        BY Zenon DEF OpenPooled
    <1> DEFINE q == SubSeq(p, i + 1, Len(p))
               s == p[i].socket
               taken == {p[j].socket : j \in 1 .. i}
               dropped == {p[j].socket : j \in 1 .. i - 1}
               e == [ex[x] EXCEPT !.sock = s, !.used_pooled = TRUE,
                                  !.response_bytes = p[i].leftover, !.phase = "Send"]
    <1>2. ex[x].phase = "Connect" /\ ~ex[x].force_fresh /\ executed' = executed
        BY DEF OpenPooled
    <1>3. /\ ex[x] \in Exchange /\ Holdings(x) = PoolSockets(u)
          /\ PoolSockets(u) \subseteq Sockets /\ u \in Upstreams
          /\ ex[x].outcome = "none" /\ Count(x, ex[x].retried) = 0 /\ Counted(x)
        BY <1>2, AboutToConnect
    <1>4. i \in DOMAIN p /\ DOMAIN p = 1 .. Len(p) /\ Len(p) \in Nat /\ p \in Seq(Pooled)
        BY <1>3, LenProperties DEF Front, IInv, TypeOK
    <1>5. p[i] \in Pooled
        BY <1>4, ElementOfSeq
    <1>6. Remains(x, q, taken)
        BY <1>4, RemainsSuffix, Zenon
    <1>7. /\ s \in Sockets /\ s \in PoolSockets(u) /\ s \in taken /\ s # None
          /\ s \notin dropped /\ dropped \cup {s} = taken
        <2>1. s \in Sockets /\ s \in PoolSockets(u) /\ s # None
            BY <1>4, <1>5, ExchangeAssumption DEF Pooled, PoolSockets
        <2>2. 1 .. i = (1 .. i - 1) \cup {i} /\ i \notin 1 .. i - 1 /\ 1 .. i \subseteq DOMAIN p
            BY <1>4
        <2>3. Distinct(p)
            BY <1>3 DEF IInv, Ownership, Kept
        <2>4. s \notin dropped
            BY <1>4, <2>2, <2>3, ZenonT(40) DEF Distinct
        <2> QED
            BY <2>1, <2>2, <2>4
    <1>8. /\ e \in Exchange /\ e.sock = s /\ e.phase = "Send" /\ e.outcome = ex[x].outcome
          /\ e.response_bytes = p[i].leftover /\ e.retried = ex[x].retried
          /\ e.force_fresh = ex[x].force_fresh
        BY <1>3, <1>5, <1>7, Zenon DEF Exchange, Phases, Pooled
    <1>9. ex' = [ex EXCEPT ![x] = e]
        BY <1>1, Zenon DEF IInv, TypeOK
    <1>10. u \notin Chatty => p[i].leftover = <<>> /\ Silent(s)
        BY <1>3, <1>4 DEF IInv, Quiet, Resting
    <1> HIDE DEF e, q, taken, dropped
    <1>11. Moved(x, e, q, dropped, None)
        BY <1>1, <1>2, <1>9, ClosedMoved, Zenon DEF IInv, q, dropped
    <1> HIDE DEF s, p
    <1>12. Redistributes(x, e, q, dropped, None)
        <2>1. s \notin SocketsIn(q)
            BY <1>6, <1>7 DEF Remains
        <2>2. ({e.sock} \ {None}) \cup SocketsIn(q) = (Holdings(x) \ dropped) \cup ({None} \ {None})
            BY <1>3, <1>6, <1>7, <1>8 DEF Remains
        <2>3. dropped \subseteq Holdings(x)
            BY <1>3, <1>6, <1>7 DEF Remains
        <2> QED
            BY <1>6, <1>7, <1>8, <2>1, <2>2, <2>3 DEF Redistributes, Remains, WithSocket
    <1>13. KeepsQuiet(x, e, q, None)
        BY <1>3, <1>6, <1>8, <1>10 DEF KeepsQuiet, Remains
    <1>14. CountedAs(x, e)
        BY <1>2, <1>3, <1>8, Zenon DEF CountedAs, Counted
    <1> QED
        BY <1>11, <1>12, <1>13, <1>14, MovedIInv

-----------------------------------------------------------------------------
(* Steps that leave every socket where it is.                              *)

\* On the way to Send an exchange keeps its socket and sends nothing.
LEMMA PhaseIInv ==
    ASSUME IInv, NEW x \in Exchanges, NEW e \in Exchange,
           e.phase \in Unsent, ex[x].phase \in Unsent,
           e.phase \in WithSocket <=> ex[x].phase \in WithSocket,
           e.sock = ex[x].sock, e.response_bytes = ex[x].response_bytes,
           e.outcome = ex[x].outcome, e.retried = ex[x].retried,
           e.force_fresh = ex[x].force_fresh, e.used_pooled = ex[x].used_pooled,
           ex' = [ex EXCEPT ![x] = e], idle' = idle, sock' = sock, wire' = wire,
           executed' = executed
    PROVE  IInv'
    <1> DEFINE u == Target[x]
    <1>1. TypeOK /\ Ownership /\ Quiet /\ Counted(x)
        BY DEF IInv
    <1>2. /\ u \in Upstreams /\ idle[u] \in Seq(Pooled) /\ Len(idle[u]) <= MaxIdle
          /\ PoolSockets(u) = SocketsIn(idle[u])
        BY <1>1, Parts
    <1>3. Owned(x) /\ Kept(u)
        BY <1>1, <1>2 DEF Ownership
    <1>4. idle' = [idle EXCEPT ![u] = idle[u]]
        BY <1>1 DEF TypeOK
    <1>5. Moved(x, e, idle[u], {}, None)
        BY <1>1, <1>4, NothingClosed, ClosedMoved, Zenon
    <1>6. Redistributes(x, e, idle[u], {}, None)
        <2>1. e.sock \notin SocketsIn(idle[u])
            <3>1. None \notin PoolSockets(u)
                BY <1>1, <1>2, Parts, ExchangeAssumption
            <3> QED
                BY <1>2, <1>3, <3>1 DEF Owned
        <2>2. ({e.sock} \ {None}) \cup SocketsIn(idle[u]) = (Holdings(x) \ {}) \cup ({None} \ {None})
            BY <1>2 DEF Holdings, SocketOf
        <2>3. e.sock # None <=> e.phase \in WithSocket
            BY <1>1 DEF TypeOK
        <2> QED
            BY <1>2, <1>3, <2>1, <2>2, <2>3 DEF Redistributes, Kept
    <1>7. KeepsQuiet(x, e, idle[u], None)
        <2>1. e.phase # "Read" /\ e.outcome = "none" /\ ex[x].phase # "Read"
            BY <1>1 DEF Unsent, Counted
        <2>2. u \notin Chatty => Asking(x) /\ Resting(u)
            BY <1>1, <1>2 DEF Quiet
        <2>3. e.sock # None => ex[x].phase \in WithSocket \ {"Read"}
            BY <1>1, <2>1 DEF TypeOK
        <2> QED
            BY <2>1, <2>2, <2>3 DEF KeepsQuiet, Asking, Resting
    <1>8. CountedAs(x, e)
        BY <1>1, Zenon DEF CountedAs, Counted, Unsent
    <1> QED
        BY <1>5, <1>6, <1>7, <1>8, MovedIInv

\* The exchange is made.
LEMMA StartIInv ==
    ASSUME IInv, NEW x \in Exchanges, Start(x)
    PROVE  IInv'
    <1>1. PICK composite \in BOOLEAN :
             ex' = [ex EXCEPT ![x].phase = "Connect", ![x].composite = composite]
        BY Zenon DEF Start
    <1> DEFINE e == [ex[x] EXCEPT !.phase = "Connect", !.composite = composite]
    <1>2. ex[x] \in Exchange /\ ex[x].phase = "New"
        BY DEF IInv, TypeOK, Start
    <1>3. /\ e \in Exchange /\ e.phase = "Connect" /\ e.sock = ex[x].sock
          /\ e.response_bytes = ex[x].response_bytes
          /\ e.outcome = ex[x].outcome /\ e.retried = ex[x].retried
          /\ e.force_fresh = ex[x].force_fresh /\ e.used_pooled = ex[x].used_pooled
        BY <1>2, Zenon DEF Exchange, Phases
    <1>4. ex' = [ex EXCEPT ![x] = e]
        BY <1>1, Zenon DEF IInv, TypeOK
    <1>5. idle' = idle /\ sock' = sock /\ wire' = wire /\ executed' = executed
        BY DEF Start
    <1>6. /\ e.phase \in Unsent /\ ex[x].phase \in Unsent
          /\ e.phase \in WithSocket <=> ex[x].phase \in WithSocket
        BY <1>2, <1>3 DEF Unsent, WithSocket
    <1> HIDE DEF e
    <1> QED
        BY <1>3, <1>4, <1>5, <1>6, PhaseIInv, Zenon

\* The connection is there, or its handshake is complete.
LEMMA ConnectedIInv ==
    ASSUME IInv, NEW x \in Exchanges, Connected(x) \/ HandshakeCompletes(x)
    PROVE  IInv'
    <1>1. PICK phase \in {"TlsHandshake", "Send"} : ex' = [ex EXCEPT ![x].phase = phase]
        BY DEF Connected, HandshakeCompletes
    <1> DEFINE e == [ex[x] EXCEPT !.phase = phase]
    <1>2. ex[x] \in Exchange /\ ex[x].phase \in {"Connecting", "TlsHandshake"}
        BY DEF IInv, TypeOK, Connected, HandshakeCompletes
    <1>3. /\ e \in Exchange /\ e.phase = phase /\ e.sock = ex[x].sock
          /\ e.response_bytes = ex[x].response_bytes
          /\ e.outcome = ex[x].outcome /\ e.retried = ex[x].retried
          /\ e.force_fresh = ex[x].force_fresh /\ e.used_pooled = ex[x].used_pooled
        BY <1>2 DEF Exchange, Phases
    <1>4. ex' = [ex EXCEPT ![x] = e]
        BY <1>1 DEF IInv, TypeOK
    <1>5. idle' = idle /\ sock' = sock /\ wire' = wire /\ executed' = executed
        BY DEF Connected, HandshakeCompletes
    <1>6. /\ e.phase \in Unsent /\ ex[x].phase \in Unsent
          /\ e.phase \in WithSocket <=> ex[x].phase \in WithSocket
        BY <1>2, <1>3 DEF Unsent, WithSocket
    <1> HIDE DEF e
    <1> QED
        BY <1>3, <1>4, <1>5, <1>6, PhaseIInv, Zenon

\* Who owns a socket depends on the exchanges' sockets, the entries of the deques and
\* which sockets are open to which upstream, and on nothing else.
LEMMA Stays ==
    ASSUME TypeOK, Ownership,
           \A x \in Exchanges : ex'[x].sock = ex[x].sock,
           \A u \in Upstreams :
              /\ DOMAIN idle'[u] = DOMAIN idle[u]
              /\ \A i \in DOMAIN idle[u] : idle'[u][i].socket = idle[u][i].socket,
           \A s \in Sockets : /\ sock'[s].state = "closed" <=> sock[s].state = "closed"
                              /\ sock'[s].to = sock[s].to
    PROVE  Ownership'
    <1>1. \A u \in Upstreams : PoolSockets(u)' = PoolSockets(u)
        BY DEF PoolSockets
    <1>2. \A u \in Upstreams : PoolSockets(u) \subseteq Sockets
        <2>1. SUFFICES ASSUME NEW u \in Upstreams, NEW i \in DOMAIN idle[u]
                       PROVE  idle[u][i].socket \in Sockets
            BY DEF PoolSockets
        <2>2. idle[u][i] \in Pooled
            BY ElementOfSeq, LenProperties DEF TypeOK
        <2> QED
            BY <2>2 DEF Pooled
    <1>3. ASSUME NEW x \in Exchanges
          PROVE  Owned(x)'
        <2>1. Owned(x) /\ Target[x] \in Upstreams
            BY ExchangeAssumption DEF Ownership
        <2>2. ex[x].sock # None => ex[x].sock \in Sockets
            BY DEF TypeOK, Exchange
        <2> QED
            BY <1>1, <2>1, <2>2 DEF Owned
    <1>4. ASSUME NEW u \in Upstreams
          PROVE  Kept(u)'
        <2>1. Kept(u)
            BY DEF Ownership
        <2> QED
            BY <1>1, <1>2, <2>1 DEF Kept, Distinct
    <1>5. ASSUME NEW s \in Sockets
          PROVE  Used(s)'
        <2>1. Used(s)
            BY DEF Ownership
        <2> QED
            BY <1>1, <2>1 DEF Used
    <1> QED
        BY <1>3, <1>4, <1>5 DEF Ownership

\* Nothing new comes on a connection.
Quieter(t) ==
    /\ sock'[t].inbox \in {sock[t].inbox, <<>>}
    /\ \A y \in Exchanges, k \in BOOLEAN : wire'[y][k] = t => wire[y][k] = t

\* Nothing new comes on an exchange's connection: it has no more ahead than before.
LEMMA AskingStays ==
    ASSUME TypeOK, NEW x \in Exchanges, Asking(x), ex'[x] = ex[x],
           ex[x].sock # None => Quieter(ex[x].sock)
    PROVE  Asking(x)'
    <1> DEFINE s == ex[x].sock
    <1>1. ex[x] \in Exchange /\ (s # None <=> ex[x].phase \in WithSocket) /\ sock \in [Sockets -> Socket]
        BY DEF TypeOK
    <1>2. ASSUME ex[x].phase \in WithSocket \ {"Read"}
          PROVE  Silent(ex[x].sock)'
        <2>1. /\ sock'[s].inbox = <<>>
              /\ \A y \in Exchanges, k \in BOOLEAN : wire'[y][k] # s
            BY <1>1, <1>2 DEF Asking, Silent, Quieter
        <2> QED
            BY <2>1 DEF Silent
    <1>3. ASSUME ex[x].phase = "Read"
          PROVE  Reading(x)'
        <2>1. Reading(x) /\ Quieter(s) /\ s \in Sockets /\ ex[x].retried \in BOOLEAN
            BY <1>1, <1>3 DEF Asking, WithSocket, Exchange
        <2> DEFINE b == ex[x].response_bytes
                   n == Len(sock[s].inbox)
                   w == IF wire[x][ex[x].retried] = s THEN 1 ELSE 0
                   n1 == Len(sock'[s].inbox)
                   w1 == IF wire'[x][ex[x].retried] = s THEN 1 ELSE 0
        <2>2. sock[s].inbox \in Seq(Response) /\ b \in Seq(Response)
            BY <1>1, <2>1 DEF Socket, Exchange
        <2>3. n \in Nat /\ n1 \in Nat /\ n1 <= n /\ Len(b) \in Nat
            BY <2>1, <2>2, LenProperties, EmptySeq, SMTT(20) DEF Quieter
        <2>4. w1 <= w /\ w \in Nat /\ w1 \in Nat
            BY <2>1 DEF Quieter
        <2>5. n + Len(b) + w <= 1
            BY <2>1, Zenon DEF Reading
        <2>6. \A i \in DOMAIN sock'[s].inbox : sock'[s].inbox[i].for = x
            <3>1. CASE sock'[s].inbox = sock[s].inbox
                BY <2>1, <3>1 DEF Reading
            <3>2. CASE sock'[s].inbox = <<>>
                BY <3>2
            <3> QED
                BY <2>1, <3>1, <3>2 DEF Quieter
        <2>7. \A y \in Exchanges, k \in BOOLEAN : wire'[y][k] = s => y = x /\ k = ex[x].retried
            BY <2>1 DEF Reading, Quieter
        <2>8. \A i \in DOMAIN b : b[i].for = x
            BY <2>1 DEF Reading
        <2>9. n1 + Len(b) + w1 <= 1
            <3> HIDE DEF n, n1, w, w1, b
            <3> QED
                BY <2>3, <2>4, <2>5
        <2> QED
            BY <2>6, <2>7, <2>8, <2>9, Zenon DEF Reading
    <1> QED
        BY <1>2, <1>3 DEF Asking

\* Nothing new comes on the idle connections of an upstream: they stay quiet.
LEMMA RestingStays ==
    ASSUME NEW u, Resting(u), DOMAIN idle'[u] = DOMAIN idle[u],
           \A i \in DOMAIN idle[u] : /\ idle'[u][i].socket = idle[u][i].socket
                                     /\ idle'[u][i].leftover = idle[u][i].leftover
                                     /\ Quieter(idle[u][i].socket)
    PROVE  Resting(u)'
    <1>1. SUFFICES ASSUME NEW i \in DOMAIN idle[u]
                   PROVE  /\ idle'[u][i].leftover = <<>>
                          /\ sock'[idle[u][i].socket].inbox = <<>>
                          /\ \A y \in Exchanges, k \in BOOLEAN : wire'[y][k] # idle[u][i].socket
        BY DEF Resting, Silent
    <1>2. idle[u][i].leftover = <<>> /\ Silent(idle[u][i].socket)
        BY DEF Resting
    <1> QED
        BY <1>2 DEF Silent, Quieter

\* The socket of an exchange is nobody else's.
LEMMA OnlyHere ==
    ASSUME TypeOK, Ownership, NEW x \in Exchanges, ex[x].sock # None
    PROVE  /\ ex[x].sock \in Sockets
           /\ \A y \in Exchanges \ {x} : ex[y].sock # ex[x].sock
           /\ \A u \in Upstreams : \A i \in DOMAIN idle[u] : idle[u][i].socket # ex[x].sock
    <1>1. ex[x].sock \in Holdings(x) /\ Owned(x)
        BY DEF Holdings, SocketOf, Ownership
    <1>2. ex[x].sock \in Sockets /\ \A y \in Exchanges \ {x} : ex[y].sock # ex[x].sock
        BY <1>1, Apart
    <1>3. \A u \in Upstreams : ex[x].sock \notin PoolSockets(u)
        BY <1>1, Apart DEF Owned
    <1> QED
        BY <1>2, <1>3 DEF PoolSockets

\* A count is a natural number.
LEMMA CountType ==
    ASSUME TypeOK
    PROVE  \A x \in Exchanges, k \in BOOLEAN : Count(x, k) \in Nat
    BY DEF TypeOK, Count

\* A step that leaves the exchanges alone and raises no count keeps the counts right.
LEMMA CountedStays ==
    ASSUME TypeOK, \A x \in Exchanges : Counted(x), ex' = ex,
           \A x \in Exchanges, k \in BOOLEAN : Count(x, k)' \in 0 .. Count(x, k)
    PROVE  \A x \in Exchanges : Counted(x)'
    <1>1. SUFFICES ASSUME NEW x \in Exchanges
                   PROVE  Counted(x)'
        OBVIOUS
    <1>2. Counted(x) /\ ex[x].retried \in BOOLEAN /\ ex'[x] = ex[x]
        BY DEF TypeOK, Exchange
    <1>3. \A k \in BOOLEAN : /\ Count(x, k) \in Nat /\ Count(x, k)' \in Nat
                             /\ Count(x, k)' <= Count(x, k)
        BY CountType
    <1>4. \A k \in BOOLEAN : Count(x, k) = 0 => Count(x, k)' = 0
        BY <1>3
    <1>5. \A k \in BOOLEAN : Count(x, k) <= 1 => Count(x, k)' <= 1
        BY <1>3
    <1> QED
        BY <1>2, <1>4, <1>5, Zenon DEF Counted, Count

\* Requests stay on open connections if none is put on the wire and none that
\* still has a request on it is closed.
LEMMA WiredStays ==
    ASSUME Wired,
           \A x \in Exchanges, k \in BOOLEAN :
               wire'[x][k] \in Sockets => /\ wire[x][k] = wire'[x][k]
                                          /\ sock'[wire'[x][k]].state = sock[wire'[x][k]].state
    PROVE  Wired'
    <1> SUFFICES ASSUME NEW x \in Exchanges, NEW k \in BOOLEAN, wire'[x][k] \in Sockets
                 PROVE  sock'[wire'[x][k]].state = "open"
        BY DEF Wired
    <1>1. wire[x][k] = wire'[x][k] /\ sock'[wire'[x][k]].state = sock[wire'[x][k]].state
        OBVIOUS
    <1>2. wire[x][k] \in Sockets => sock[wire[x][k]].state = "open"
        BY DEF Wired
    <1> QED
        BY <1>1, <1>2

\* A backend that closes or resets a connection only takes away what was on it.
LEMMA PeerLeavesIInv ==
    ASSUME IInv, NEW s \in Sockets, PeerCloses(s) \/ PeerResets(s)
    PROVE  IInv'
    <1>1. TypeOK /\ Ownership /\ Wired /\ Quiet /\ \A x \in Exchanges : Counted(x)
        BY DEF IInv
    <1>2. /\ ex' = ex /\ idle' = idle /\ executed' = executed /\ wire' = Unread(s)
          /\ sock[s].state \in {"open", "fin"}
        BY DEF PeerCloses, PeerResets
    <1>3. /\ sock' \in [Sockets -> Socket]
          /\ sock'[s].state \in {"fin", "rst"} /\ sock'[s].to = sock[s].to
          /\ sock'[s].inbox \in {sock[s].inbox, <<>>}
          /\ \A t \in Sockets \ {s} : sock'[t] = sock[t]
        <2>1. sock \in [Sockets -> Socket]
            BY <1>1 DEF TypeOK
        <2>2. CASE PeerCloses(s)
            BY <2>1, <2>2 DEF PeerCloses, Socket
        <2>3. CASE PeerResets(s)
            <3>1. PICK inbox \in {sock[s].inbox, <<>>} :
                     sock' = [sock EXCEPT ![s].state = "rst", ![s].inbox = inbox]
                BY <2>3, Zenon DEF PeerResets
            <3>2. inbox \in Seq(Response)
                BY <2>1, EmptySeq, Zenon DEF Socket
            <3> QED
                BY <2>1, <3>1, <3>2, Zenon DEF Socket
        <2> QED
            BY <2>2, <2>3
    <1>4. \A y \in Exchanges, k \in BOOLEAN :
             wire'[y][k] = IF wire[y][k] = s THEN None ELSE wire[y][k]
        BY <1>2 DEF Unread
    <1>5. TypeOK'
        <2>1. wire' \in [Exchanges -> [BOOLEAN -> Sockets \cup {None, Orphan}]]
            BY <1>1, <1>2 DEF Unread, TypeOK
        <2> QED
            BY <1>1, <1>2, <1>3, <2>1 DEF TypeOK
    <1>6. Ownership'
        BY <1>1, <1>2, <1>3, Stays
    <1>7. Wired'
        <2>1. ASSUME NEW y \in Exchanges, NEW k \in BOOLEAN, wire'[y][k] \in Sockets
              PROVE  wire[y][k] = wire'[y][k] /\ wire'[y][k] # s
            BY <1>4, <2>1, ExchangeAssumption
        <2>2. ASSUME NEW t \in Sockets, t # s PROVE sock'[t].state = sock[t].state
            BY <1>3, <2>2
        <2> QED
            BY <1>1, <2>1, <2>2, WiredStays
    <1>8. \A t \in Sockets : Quieter(t)
        BY <1>3, <1>4, ExchangeAssumption, SMTT(20) DEF Quieter
    <1>9. Quiet'
        <2>1. ASSUME NEW x \in Exchanges, Target[x] \notin Chatty
              PROVE  Asking(x)'
            <3>1. Asking(x) /\ ex'[x] = ex[x] /\ (ex[x].sock # None => ex[x].sock \in Sockets)
                BY <1>1, <1>2, <2>1 DEF Quiet, TypeOK, Exchange
            <3> QED
                BY <1>1, <1>8, <3>1, AskingStays
        <2>2. ASSUME NEW u \in Upstreams \ Chatty
              PROVE  Resting(u)'
            <3>1. \A i \in DOMAIN idle[u] : idle[u][i] \in Pooled
                BY <1>1, ElementOfSeq, LenProperties DEF TypeOK
            <3>2. \A i \in DOMAIN idle[u] : Quieter(idle[u][i].socket)
                BY <1>8, <3>1 DEF Pooled
            <3>3. Resting(u)
                BY <1>1 DEF Quiet
            <3> QED
                BY <1>2, <3>2, <3>3, RestingStays
        <2> QED
            BY <2>1, <2>2 DEF Quiet
    <1>10. \A x \in Exchanges : Counted(x)'
        <2>1. \A x \in Exchanges, k \in BOOLEAN : executed[x][k] \in Nat /\ executed'[x][k] = executed[x][k]
            BY <1>1, <1>2 DEF TypeOK
        <2>2. \A x \in Exchanges, k \in BOOLEAN : Count(x, k)' \in 0 .. Count(x, k)
            BY <1>4, <2>1 DEF Count
        <2> QED
            BY <1>1, <1>2, <2>2, CountedStays
    <1> QED
        BY <1>5, <1>6, <1>7, <1>9, <1>10 DEF IInv

\* A message nobody asked for comes on a connection of a backend that sends such
\* messages, and on no other.
LEMMA PeerSpeaksIInv ==
    ASSUME IInv, NEW s \in Sockets, PeerSpeaks(s)
    PROVE  IInv'
    <1>1. TypeOK /\ Ownership /\ Wired /\ Quiet /\ \A x \in Exchanges : Counted(x)
        BY DEF IInv
    <1>2. /\ ex' = ex /\ idle' = idle /\ executed' = executed /\ wire' = wire
          /\ sock[s].to \in Chatty
        BY DEF PeerSpeaks
    <1>3. /\ sock' \in [Sockets -> Socket]
          /\ sock'[s].state = sock[s].state /\ sock'[s].to = sock[s].to
          /\ \A t \in Sockets \ {s} : sock'[t] = sock[t]
        <2>1. sock \in [Sockets -> Socket]
            BY <1>1 DEF TypeOK
        <2> DEFINE m == [for |-> None, kind |-> "keep"]
        <2>2. m \in Response
            BY DEF Response
        <2> HIDE DEF m
        <2>3. <<m>> \in Seq(Response)
            BY <2>2
        <2>4. sock' = [sock EXCEPT ![s].inbox = <<m>>]
            BY DEF PeerSpeaks, m
        <2> QED
            BY <2>1, <2>3, <2>4, Zenon DEF Socket
    <1>4. TypeOK'
        BY <1>1, <1>2, <1>3 DEF TypeOK
    <1>5. Ownership'
        BY <1>1, <1>2, <1>3, Stays
    <1>6. Wired'
        BY <1>1, <1>2, <1>3 DEF Wired
    <1>7. \A t \in Sockets \ {s} : Quieter(t)
        BY <1>2, <1>3 DEF Quieter
    <1>8. Quiet'
        <2>1. ASSUME NEW x \in Exchanges, Target[x] \notin Chatty
              PROVE  Asking(x)'
            <3>1. Asking(x) /\ ex'[x] = ex[x] /\ (ex[x].sock # None => ex[x].sock \in Sockets)
                BY <1>1, <1>2, <2>1 DEF Quiet, TypeOK, Exchange
            <3>2. ex[x].sock # None => ex[x].sock # s
                BY <1>1, <1>2, <2>1 DEF Ownership, Owned
            <3> QED
                BY <1>1, <1>7, <3>1, <3>2, AskingStays
        <2>2. ASSUME NEW u \in Upstreams \ Chatty
              PROVE  Resting(u)'
            <3>1. \A i \in DOMAIN idle[u] : idle[u][i] \in Pooled
                BY <1>1, ElementOfSeq, LenProperties DEF TypeOK
            <3>2. \A i \in DOMAIN idle[u] : idle[u][i].socket # s
                BY <1>1, <1>2 DEF Ownership, Kept, PoolSockets
            <3>3. \A i \in DOMAIN idle[u] : Quieter(idle[u][i].socket)
                BY <1>7, <3>1, <3>2 DEF Pooled
            <3>4. Resting(u)
                BY <1>1 DEF Quiet
            <3> QED
                BY <1>2, <3>3, <3>4, RestingStays
        <2> QED
            BY <2>1, <2>2 DEF Quiet
    <1>9. \A x \in Exchanges : Counted(x)'
        BY <1>1, <1>2, Zenon DEF Counted, Count
    <1> QED
        BY <1>4, <1>5, <1>6, <1>8, <1>9 DEF IInv

\* An idle connection's age changes nothing else.
LEMMA AgeIInv ==
    ASSUME IInv, NEW u \in Upstreams, Age(u)
    PROVE  IInv'
    <1>1. TypeOK /\ Ownership /\ Wired /\ Quiet /\ \A x \in Exchanges : Counted(x)
        BY DEF IInv
    <1>2. ex' = ex /\ sock' = sock /\ executed' = executed /\ wire' = wire
        BY DEF Age
    <1>3. PICK i \in DOMAIN idle[u] : idle' = [idle EXCEPT ![u][i].expired = TRUE]
        BY Zenon DEF Age, Front
    <1> DEFINE p == idle[u]
               c == [p[i] EXCEPT !.expired = TRUE]
               r == [p EXCEPT ![i] = c]
    <1>4. p \in Seq(Pooled) /\ i \in 1 .. Len(p) /\ DOMAIN p = 1 .. Len(p)
        BY <1>1, <1>3, LenProperties DEF TypeOK
    <1>5. p[i] \in Pooled
        BY <1>4, ElementOfSeq
    <1>6. c \in Pooled /\ c.socket = p[i].socket /\ c.leftover = p[i].leftover
        BY <1>5, Zenon DEF Pooled
    <1>7. idle' = [idle EXCEPT ![u] = r]
        BY <1>1, <1>3 DEF TypeOK
    <1> HIDE DEF c, p
    <1>8. /\ r \in Seq(Pooled) /\ Len(r) = Len(p)
          /\ \A j \in 1 .. Len(p) : r[j] = IF j = i THEN c ELSE p[j]
        BY <1>4, <1>6, ExceptSeq
    <1> HIDE DEF r
    <1>9. DOMAIN r = DOMAIN p
        BY <1>4, <1>8, LenProperties
    <1>10. \A v \in Upstreams :
              /\ DOMAIN idle'[v] = DOMAIN idle[v]
              /\ \A j \in DOMAIN idle[v] : /\ idle'[v][j].socket = idle[v][j].socket
                                           /\ idle'[v][j].leftover = idle[v][j].leftover
        BY <1>1, <1>4, <1>6, <1>7, <1>8, <1>9 DEF TypeOK, p
    <1>11. TypeOK'
        <2>1. idle' \in [Upstreams -> Seq(Pooled)]
            BY <1>1, <1>7, <1>8 DEF TypeOK
        <2>2. \A v \in Upstreams : Len(idle'[v]) <= MaxIdle
            BY <1>1, <1>7, <1>8 DEF TypeOK, p
        <2> QED
            BY <1>1, <1>2, <2>1, <2>2 DEF TypeOK
    <1>12. Ownership'
        BY <1>1, <1>2, <1>10, Stays
    <1>13. Wired' /\ \A x \in Exchanges : Counted(x)'
        BY <1>1, <1>2, Zenon DEF Wired, Counted, Count
    <1>14. \A t : Quieter(t)
        BY <1>2 DEF Quieter
    <1>15. Quiet'
        <2>1. \A x \in Exchanges : Asking(x) => Asking(x)'
            BY <1>2, Zenon DEF Asking, Silent, Reading
        <2>2. \A v \in Upstreams : Resting(v) => Resting(v)'
            BY <1>10, <1>14, RestingStays
        <2> QED
            BY <1>1, <2>1, <2>2 DEF Quiet
    <1> QED
        BY <1>11, <1>12, <1>13, <1>15 DEF IInv

\* A request goes on the wire of a silent connection, for the first time in its
\* attempt.
LEMMA SentIInv ==
    ASSUME IInv, NEW x \in Exchanges, Sent(x)
    PROVE  IInv'
    <1> DEFINE s == ex[x].sock
               k == ex[x].retried
               e == [ex[x] EXCEPT !.phase = "Read"]
    <1>1. TypeOK /\ Ownership /\ Wired /\ Quiet /\ \A y \in Exchanges : Counted(y)
        BY DEF IInv
    <1>2. /\ ex[x].phase = "Send" /\ idle' = idle /\ sock' = sock /\ executed' = executed
          /\ wire' = IF sock[s].state = "open" THEN [wire EXCEPT ![x][k] = s] ELSE wire
        BY DEF Sent
    <1>3. ex[x] \in Exchange /\ s # None /\ k \in BOOLEAN
        BY <1>1, <1>2 DEF TypeOK, WithSocket, Exchange
    <1>4. /\ s \in Sockets /\ \A y \in Exchanges \ {x} : ex[y].sock # s
          /\ \A u \in Upstreams : \A i \in DOMAIN idle[u] : idle[u][i].socket # s
        BY <1>1, <1>3, OnlyHere
    <1>5. /\ e \in Exchange /\ e.phase = "Read" /\ e.sock = s /\ e.retried = k
          /\ e.response_bytes = ex[x].response_bytes /\ e.outcome = ex[x].outcome
          /\ e.got = ex[x].got /\ e.force_fresh = ex[x].force_fresh
          /\ e.used_pooled = ex[x].used_pooled
        BY <1>3 DEF Exchange, Phases
    <1>6. /\ ex' = [ex EXCEPT ![x] = e] /\ ex'[x] = e
          /\ \A y \in Exchanges \ {x} : ex'[y] = ex[y]
        BY <1>1 DEF TypeOK, Sent
    <1> HIDE DEF e
    <1>7. /\ \A y \in Exchanges, j \in BOOLEAN :
                (y # x \/ j # k) => wire'[y][j] = wire[y][j]
          /\ wire'[x][k] = s \/ wire'[x][k] = wire[x][k]
          /\ sock[s].state # "open" => wire' = wire
        BY <1>1, <1>2, <1>3 DEF TypeOK
    <1>8. Counted(x) /\ ex[x].outcome = "none" /\ Count(x, k) = 0
        BY <1>1, <1>2, Zenon DEF Counted, Unsent
    <1>9. TypeOK'
        <2>1. wire' \in [Exchanges -> [BOOLEAN -> Sockets \cup {None, Orphan}]]
            BY <1>1, <1>2, <1>3, <1>4 DEF TypeOK
        <2>2. \A y \in Exchanges : ex'[y].sock # None <=> ex'[y].phase \in WithSocket
            BY <1>1, <1>3, <1>5, <1>6 DEF TypeOK, WithSocket
        <2> QED
            BY <1>1, <1>2, <1>5, <1>6, <2>1, <2>2 DEF TypeOK
    <1>10. Ownership'
        <2>1. \A y \in Exchanges : ex'[y].sock = ex[y].sock
            BY <1>5, <1>6
        <2> QED
            BY <1>1, <1>2, <2>1, Stays
    <1>11. Wired'
        BY <1>1, <1>2, <1>7 DEF Wired
    <1>12. \A t \in Sockets \ {s} : Quieter(t)
        BY <1>2, <1>7 DEF Quieter
    <1>13. ASSUME NEW y \in Exchanges, Target[y] \notin Chatty
           PROVE  Asking(y)'
        <2>1. Asking(y)
            BY <1>1, <1>13 DEF Quiet
        <2>2. CASE y = x
            <3>1. Silent(s) /\ ex[x].response_bytes = <<>>
                BY <1>2, <2>1, <2>2 DEF Asking, WithSocket
            <3>2. \A z \in Exchanges, j \in BOOLEAN : wire'[z][j] = s => z = x /\ j = k
                BY <1>7, <3>1 DEF Silent
            <3>3. sock'[s].inbox = <<>> /\ e.response_bytes = <<>>
                BY <1>2, <1>5, <3>1 DEF Silent
            <3>4. Len(sock'[s].inbox) + Len(e.response_bytes) + (IF wire'[x][k] = s THEN 1 ELSE 0) <= 1
                BY <3>3
            <3>5. Reading(x)'
                <4>1. SUFFICES
                        /\ \A z \in Exchanges, j \in BOOLEAN : wire'[z][j] = s => z = x /\ j = k
                        /\ \A i \in DOMAIN sock'[s].inbox : sock'[s].inbox[i].for = x
                        /\ \A i \in DOMAIN e.response_bytes : e.response_bytes[i].for = x
                        /\ Len(sock'[s].inbox) + Len(e.response_bytes)
                              + (IF wire'[x][k] = s THEN 1 ELSE 0) <= 1
                    BY <1>5, <1>6, ZenonT(40) DEF Reading
                <4>2. DOMAIN <<>> = {}
                    OBVIOUS
                <4> QED
                    BY <3>2, <3>3, <3>4, <4>2
            <3> QED
                BY <1>5, <1>6, <1>8, <2>2, <3>5 DEF Asking
        <2>3. CASE y # x
            <3>1. ex'[y] = ex[y] /\ (ex[y].sock # None => ex[y].sock \in Sockets \ {s})
                BY <1>1, <1>4, <1>6, <2>3 DEF TypeOK, Exchange
            <3> QED
                BY <1>1, <1>12, <2>1, <3>1, AskingStays
        <2> QED
            BY <2>2, <2>3
    <1>14. ASSUME NEW u \in Upstreams \ Chatty
           PROVE  Resting(u)'
        <2>1. \A i \in DOMAIN idle[u] : idle[u][i] \in Pooled
            BY <1>1, ElementOfSeq, LenProperties DEF TypeOK
        <2>2. \A i \in DOMAIN idle[u] : Quieter(idle[u][i].socket)
            BY <1>4, <1>12, <2>1 DEF Pooled
        <2>3. Resting(u)
            BY <1>1 DEF Quiet
        <2> QED
            BY <1>2, <2>2, <2>3, RestingStays
    <1>15. ASSUME NEW y \in Exchanges
           PROVE  Counted(y)'
        <2>1. \A j \in BOOLEAN : (y # x \/ j # k) => Count(y, j)' = Count(y, j)
            BY <1>2, <1>7 DEF Count
        <2>2. CASE y # x
            <3>1. ex'[y] = ex[y] /\ Counted(y) /\ ex[y].retried \in BOOLEAN
                BY <1>1, <1>6, <2>2 DEF TypeOK, Exchange
            <3>2. \A j \in BOOLEAN : Count(y, j)' = Count(y, j)
                BY <2>1, <2>2
            <3> QED
                BY <3>1, <3>2, Zenon DEF Counted
        <2>3. CASE y = x
            <3>1. executed[x][k] \in Nat
                BY <1>1, <1>3 DEF TypeOK
            <3>2. executed'[x][k] = 0
                BY <1>2, <1>8, <3>1 DEF Count
            <3>3. \A j \in BOOLEAN : Count(x, j)' <= 1
                <4>1. ASSUME NEW j \in BOOLEAN, j = k
                      PROVE  executed'[x][j] + (IF wire'[x][j] = None THEN 0 ELSE 1) <= 1
                    BY <3>2, <4>1
                <4>2. ASSUME NEW j \in BOOLEAN, j # k
                      PROVE  Count(x, j)' <= 1
                    BY <1>8, <2>1, <2>3, <4>2 DEF Counted
                <4> QED
                    BY <4>1, <4>2 DEF Count
            <3>4. k => x \in Idempotent /\ ex[x].force_fresh /\ ~ex[x].used_pooled
                BY <1>8 DEF Counted
            <3>5. ~k => Count(x, TRUE)' = 0
                BY <1>2, <1>3, <1>8, <2>1, <2>3, Zenon DEF Counted
            <3>6. x \notin Idempotent => Count(x, TRUE)' = 0
                BY <3>4, <3>5, Zenon
            <3> QED
                BY <1>5, <1>6, <1>8, <2>3, <3>3, <3>4, <3>5, <3>6, Zenon DEF Counted, Unsent
        <2> QED
            BY <2>2, <2>3
    <1> QED
        BY <1>9, <1>10, <1>11, <1>13, <1>14, <1>15 DEF IInv, Quiet

\* The messages b1 and inbox1 are b and inbox after n have moved from inbox to b.
Shifted(b, inbox, n, b1, inbox1) ==
    /\ b1 \in Seq(Response) /\ inbox1 \in Seq(Response)
    /\ Len(b1) = Len(b) + n /\ Len(inbox1) = Len(inbox) - n
    /\ \A i \in DOMAIN b1 : \/ \E j \in DOMAIN b : b1[i] = b[j]
                            \/ \E j \in DOMAIN inbox : b1[i] = inbox[j]
    /\ \A i \in DOMAIN inbox1 : \E j \in DOMAIN inbox : inbox1[i] = inbox[j]

\* recv moves messages from the socket to the exchange, and none is lost or added.
LEMMA Taken ==
    ASSUME NEW b \in Seq(Response), NEW inbox \in Seq(Response), NEW n \in 1 .. Len(inbox),
           NEW b1, b1 = b \o SubSeq(inbox, 1, n),
           NEW inbox1, inbox1 = SubSeq(inbox, n + 1, Len(inbox))
    PROVE  Shifted(b, inbox, n, b1, inbox1)
    <1> DEFINE front == SubSeq(inbox, 1, n)
    <1>1. /\ Len(inbox) \in Nat /\ DOMAIN inbox = 1 .. Len(inbox) /\ n \in Nat /\ n >= 1
          /\ n <= Len(inbox) /\ Len(b) \in Nat /\ DOMAIN b = 1 .. Len(b)
        BY LenProperties
    <1>2. \A i \in 1 .. n : inbox[i] \in Response
        BY <1>1, ElementOfSeq
    <1>3. \A i \in n + 1 .. Len(inbox) : inbox[i] \in Response
        BY <1>1, ElementOfSeq
    <1>4. /\ front \in Seq(Response) /\ Len(front) = IF 1 <= n THEN n - 1 + 1 ELSE 0
          /\ \A i \in 1 .. n - 1 + 1 : front[i] = inbox[1 + i - 1]
        BY <1>1, <1>2, SubSeqProperties
    <1>5. Len(front) = n /\ \A i \in 1 .. n : front[i] = inbox[i]
        BY <1>1, <1>4
    <1>6. /\ inbox1 \in Seq(Response)
          /\ Len(inbox1) = IF n + 1 <= Len(inbox) THEN Len(inbox) - (n + 1) + 1 ELSE 0
          /\ \A i \in 1 .. Len(inbox) - (n + 1) + 1 : inbox1[i] = inbox[n + 1 + i - 1]
        BY <1>1, <1>3, SubSeqProperties
    <1>7. /\ Len(inbox1) = Len(inbox) - n
          /\ \A i \in 1 .. Len(inbox) - n : n + i \in DOMAIN inbox /\ inbox1[i] = inbox[n + i]
        <2>1. Len(inbox1) = Len(inbox) - n
            <3> DEFINE m == Len(inbox)
                       m1 == Len(inbox1)
            <3>1. m1 = IF n + 1 <= m THEN m - (n + 1) + 1 ELSE 0
                BY <1>6
            <3>2. m \in Nat /\ n \in Nat /\ n <= m
                BY <1>1
            <3> HIDE DEF m, m1
            <3>3. m1 = m - n
                <4>1. CASE n + 1 <= m
                    BY <3>1, <3>2, <4>1
                <4>2. CASE ~(n + 1 <= m)
                    BY <3>1, <3>2, <4>2
                <4> QED
                    BY <4>1, <4>2
            <3> QED
                BY <3>3 DEF m, m1
        <2>2. ASSUME NEW i \in 1 .. Len(inbox) - n
              PROVE  n + i \in DOMAIN inbox /\ inbox1[i] = inbox[n + i]
            <3>1. n + 1 + i - 1 = n + i /\ n + i \in DOMAIN inbox /\ i \in 1 .. Len(inbox) - (n + 1) + 1
                BY <1>1
            <3>2. inbox1[i] = inbox[n + 1 + i - 1]
                BY <1>6, <3>1
            <3> QED
                BY <3>1, <3>2
        <2> QED
            BY <2>1, <2>2
    <1> HIDE DEF front
    <1>8. /\ b1 \in Seq(Response) /\ Len(b1) = Len(b) + Len(front)
          /\ \A i \in 1 .. Len(b) + Len(front) :
                b1[i] = IF i <= Len(b) THEN b[i] ELSE front[i - Len(b)]
        BY <1>4, ConcatProperties DEF front
    <1>9. ASSUME NEW i \in DOMAIN b1
          PROVE  \/ \E j \in DOMAIN b : b1[i] = b[j]
                 \/ \E j \in DOMAIN inbox : b1[i] = inbox[j]
        <2>1. i \in 1 .. Len(b) + n
            BY <1>5, <1>8, LenProperties
        <2>2. CASE i <= Len(b)
            <3>1. i \in DOMAIN b /\ b1[i] = b[i]
                BY <1>1, <1>5, <1>8, <2>1, <2>2
            <3> QED
                BY <3>1
        <2>3. CASE ~(i <= Len(b))
            <3>1. i - Len(b) \in 1 .. n
                BY <1>1, <2>1, <2>3
            <3>2. b1[i] = front[i - Len(b)]
                BY <1>5, <1>8, <2>1, <2>3
            <3>3. b1[i] = inbox[i - Len(b)] /\ i - Len(b) \in DOMAIN inbox
                BY <1>1, <1>5, <3>1, <3>2
            <3> QED
                BY <3>3
        <2> QED
            BY <2>2, <2>3
    <1>10. ASSUME NEW i \in DOMAIN inbox1
           PROVE  \E j \in DOMAIN inbox : inbox1[i] = inbox[j]
        <2>1. i \in 1 .. Len(inbox) - n
            BY <1>6, <1>7, LenProperties
        <2>2. inbox1[i] = inbox[n + i] /\ n + i \in DOMAIN inbox
            BY <1>7, <2>1
        <2> QED
            BY <2>2
    <1> QED
        BY <1>5, <1>6, <1>7, <1>8, <1>9, <1>10, Zenon DEF Shifted

\* recv keeps the invariant: what the exchange has ahead stays the same.
LEMMA ReceivedIInv ==
    ASSUME IInv, NEW x \in Exchanges, Received(x)
    PROVE  IInv'
    <1> DEFINE s == ex[x].sock
               b == ex[x].response_bytes
               inbox == sock[s].inbox
    <1>1. TypeOK /\ Ownership /\ Wired /\ Quiet /\ \A y \in Exchanges : Counted(y)
        BY DEF IInv
    <1>2. ex[x].phase = "Read" /\ idle' = idle /\ wire' = wire /\ executed' = executed
        BY DEF Received, Hungry
    <1>3. ex[x] \in Exchange /\ s # None /\ ex[x].retried \in BOOLEAN /\ b \in Seq(Response)
        BY <1>1, <1>2 DEF TypeOK, WithSocket, Exchange
    <1>4. /\ s \in Sockets /\ \A y \in Exchanges \ {x} : ex[y].sock # s
          /\ \A u \in Upstreams : \A i \in DOMAIN idle[u] : idle[u][i].socket # s
        BY <1>1, <1>3, OnlyHere
    <1>5. sock \in [Sockets -> Socket] /\ inbox \in Seq(Response)
        BY <1>1, <1>4 DEF TypeOK, Socket
    <1>6. PICK n \in 1 .. Len(inbox) :
             /\ ex' = [ex EXCEPT ![x].response_bytes = b \o SubSeq(inbox, 1, n)]
             /\ sock' = [sock EXCEPT ![s].inbox = SubSeq(inbox, n + 1, Len(inbox))]
        BY Zenon DEF Received
    <1> DEFINE b1 == b \o SubSeq(inbox, 1, n)
               inbox1 == SubSeq(inbox, n + 1, Len(inbox))
               e == [ex[x] EXCEPT !.response_bytes = b1]
    <1>7. /\ b1 \in Seq(Response) /\ inbox1 \in Seq(Response)
          /\ Len(b1) = Len(b) + n /\ Len(inbox1) = Len(inbox) - n
          /\ \A i \in DOMAIN b1 : \/ \E j \in DOMAIN b : b1[i] = b[j]
                                  \/ \E j \in DOMAIN inbox : b1[i] = inbox[j]
          /\ \A i \in DOMAIN inbox1 : \E j \in DOMAIN inbox : inbox1[i] = inbox[j]
        <2> HIDE DEF b, inbox
        <2>1. Shifted(b, inbox, n, b1, inbox1)
            BY <1>3, <1>5, Taken, Zenon
        <2> QED
            BY <2>1 DEF Shifted
    <1>8. ex' = [ex EXCEPT ![x].response_bytes = b1] /\ sock' = [sock EXCEPT ![s].inbox = inbox1]
        BY <1>6
    <1> HIDE DEF b1, inbox1
    <1>9. /\ e \in Exchange /\ e.phase = "Read" /\ e.sock = s /\ e.retried = ex[x].retried
          /\ e.response_bytes = b1 /\ e.outcome = ex[x].outcome
          /\ e.got = ex[x].got /\ e.force_fresh = ex[x].force_fresh
          /\ e.used_pooled = ex[x].used_pooled
        BY <1>2, <1>3, <1>7, Zenon DEF Exchange
    <1>10. /\ ex' = [ex EXCEPT ![x] = e] /\ ex'[x] = e
           /\ \A y \in Exchanges \ {x} : ex'[y] = ex[y]
        BY <1>1, <1>8 DEF TypeOK
    <1>11. /\ sock' \in [Sockets -> Socket] /\ sock'[s].inbox = inbox1
           /\ sock'[s].state = sock[s].state /\ sock'[s].to = sock[s].to
           /\ \A t \in Sockets \ {s} : sock'[t] = sock[t]
        BY <1>4, <1>5, <1>7, <1>8, Zenon DEF Socket
    <1> HIDE DEF e
    <1>12. TypeOK'
        <2>1. \A y \in Exchanges : ex'[y].sock # None <=> ex'[y].phase \in WithSocket
            BY <1>1, <1>3, <1>9, <1>10 DEF TypeOK, WithSocket
        <2> QED
            BY <1>1, <1>2, <1>9, <1>10, <1>11, <2>1 DEF TypeOK
    <1>13. Ownership'
        <2>1. \A y \in Exchanges : ex'[y].sock = ex[y].sock
            BY <1>9, <1>10
        <2> QED
            BY <1>1, <1>2, <1>11, <2>1, Stays
    <1>14. Wired'
        <2>1. \A t \in Sockets : sock'[t].state = sock[t].state
            BY <1>11
        <2> QED
            BY <1>1, <1>2, <2>1, WiredStays
    <1>15. \A t \in Sockets \ {s} : Quieter(t)
        BY <1>2, <1>11 DEF Quieter
    <1>16. ASSUME NEW y \in Exchanges, Target[y] \notin Chatty
           PROVE  Asking(y)'
        <2>1. Asking(y)
            BY <1>1, <1>16 DEF Quiet
        <2>2. CASE y = x
            <3>1. Reading(x)
                BY <1>2, <2>1, <2>2 DEF Asking
            <3>2. SUFFICES Reading(x)'
                BY <1>2, <1>9, <1>10, <2>1, <2>2 DEF Asking
            <3>3. SUFFICES
                    /\ \A z \in Exchanges, j \in BOOLEAN : wire[z][j] = s => z = x /\ j = ex[x].retried
                    /\ \A i \in DOMAIN inbox1 : inbox1[i].for = x
                    /\ \A i \in DOMAIN b1 : b1[i].for = x
                    /\ Len(inbox1) + Len(b1) + (IF wire[x][ex[x].retried] = s THEN 1 ELSE 0) <= 1
                BY <1>2, <1>9, <1>10, <1>11, ZenonT(40) DEF Reading
            <3>4. /\ \A z \in Exchanges, j \in BOOLEAN : wire[z][j] = s => z = x /\ j = ex[x].retried
                  /\ \A i \in DOMAIN inbox : inbox[i].for = x
                  /\ \A i \in DOMAIN b : b[i].for = x
                  /\ Len(inbox) + Len(b) + (IF wire[x][ex[x].retried] = s THEN 1 ELSE 0) <= 1
                BY <3>1, Zenon DEF Reading
            <3> DEFINE w == IF wire[x][ex[x].retried] = s THEN 1 ELSE 0
            <3>5. Len(inbox1) + Len(b1) + w <= 1
                <4>1. Len(inbox) \in Nat /\ Len(b) \in Nat /\ n \in Nat /\ w \in Nat
                    BY <1>3, <1>5, LenProperties, SMTT(20)
                <4>2. Len(inbox) + Len(b) + w <= 1
                    BY <3>4, Zenon
                <4> HIDE DEF w, inbox, b
                <4> QED
                    BY <1>7, <4>1, <4>2, SMTT(20)
            <3> HIDE DEF inbox, b
            <3>6. ASSUME NEW i \in DOMAIN inbox1 PROVE inbox1[i].for = x
                <4>1. PICK j \in DOMAIN inbox : inbox1[i] = inbox[j]
                    BY <1>7
                <4> QED
                    BY <3>4, <4>1
            <3>7. ASSUME NEW i \in DOMAIN b1 PROVE b1[i].for = x
                <4>1. CASE \E j \in DOMAIN b : b1[i] = b[j]
                    BY <3>4, <4>1
                <4>2. CASE \E j \in DOMAIN inbox : b1[i] = inbox[j]
                    BY <3>4, <4>2
                <4> QED
                    BY <1>7, <4>1, <4>2
            <3> QED
                BY <3>4, <3>5, <3>6, <3>7
        <2>3. CASE y # x
            <3>1. ex'[y] = ex[y] /\ (ex[y].sock # None => ex[y].sock \in Sockets \ {s})
                BY <1>1, <1>4, <1>10, <2>3 DEF TypeOK, Exchange
            <3> QED
                BY <1>1, <1>15, <2>1, <3>1, AskingStays
        <2> QED
            BY <2>2, <2>3
    <1>17. ASSUME NEW u \in Upstreams \ Chatty
           PROVE  Resting(u)'
        <2>1. \A i \in DOMAIN idle[u] : idle[u][i] \in Pooled
            BY <1>1, ElementOfSeq, LenProperties DEF TypeOK
        <2>2. \A i \in DOMAIN idle[u] : Quieter(idle[u][i].socket)
            BY <1>4, <1>15, <2>1 DEF Pooled
        <2>3. Resting(u)
            BY <1>1 DEF Quiet
        <2> QED
            BY <1>2, <2>2, <2>3, RestingStays
    <1>18. ASSUME NEW y \in Exchanges
           PROVE  Counted(y)'
        <2>1. \A j \in BOOLEAN : Count(y, j)' = Count(y, j)
            BY <1>2 DEF Count
        <2>2. /\ ex'[y].phase = ex[y].phase /\ ex'[y].retried = ex[y].retried
              /\ ex'[y].force_fresh = ex[y].force_fresh
              /\ ex'[y].used_pooled = ex[y].used_pooled
              /\ ex'[y].outcome = ex[y].outcome
            BY <1>2, <1>9, <1>10
        <2>3. Counted(y) /\ ex[y].retried \in BOOLEAN
            BY <1>1 DEF TypeOK, Exchange
        <2> QED
            BY <1>2, <2>1, <2>2, <2>3, Zenon DEF Counted, Count
    <1> QED
        BY <1>12, <1>13, <1>14, <1>16, <1>17, <1>18 DEF IInv, Quiet

\* An answer comes to the exchange that reads on the connection its request went out
\* on, and is all that exchange has ahead.
LEMMA AnswerArrives ==
    ASSUME IInv, NEW x \in Exchanges, NEW k \in BOOLEAN, NEW s \in Sockets, wire[x][k] = s,
           NEW kind \in Kinds, NEW y \in Exchanges, Target[y] \notin Chatty, ex[y].sock = s,
           sock'[s].inbox = Append(sock[s].inbox, [for |-> x, kind |-> kind]),
           wire' = [wire EXCEPT ![x][k] = None], ex' = ex
    PROVE  Asking(y)'
    <1> DEFINE m == [for |-> x, kind |-> kind]
               inbox == sock[s].inbox
               b == ex[y].response_bytes
    <1>1. TypeOK /\ Asking(y) /\ s # None
        BY ExchangeAssumption DEF IInv, Quiet
    <1>2. ex[y].phase = "Read"
        BY <1>1 DEF TypeOK, Asking, Silent
    <1>3. Reading(y)
        BY <1>1, <1>2 DEF Asking
    <1>4. y = x /\ k = ex[y].retried
        BY <1>3 DEF Reading
    <1>5. inbox \in Seq(Response) /\ b \in Seq(Response) /\ m \in Response
        BY <1>1, Zenon DEF TypeOK, Socket, Exchange, Response
    <1>6. Len(inbox) \in Nat /\ Len(b) \in Nat /\ DOMAIN inbox = 1 .. Len(inbox)
        BY <1>5, LenProperties
    <1>7. Len(inbox) + Len(b) + 1 <= 1
        BY <1>3, <1>4, Zenon DEF Reading
    <1>8. Len(inbox) = 0 /\ Len(b) = 0
        <2> HIDE DEF inbox, b
        <2> QED
            BY <1>6, <1>7
    <1>9. /\ \A z \in Exchanges, j \in BOOLEAN : wire'[z][j] # s
        BY <1>1, <1>3, <1>4 DEF Reading, TypeOK
    <1> DEFINE inbox1 == sock'[s].inbox
    <1>10. inbox1 = Append(inbox, m)
        OBVIOUS
    <1>11. m.for = x
        OBVIOUS
    <1> HIDE DEF m, inbox, inbox1
    <1>12. /\ inbox1 \in Seq(Response) /\ Len(inbox1) = Len(inbox) + 1
           /\ inbox1[Len(inbox) + 1] = m
        BY <1>5, <1>10, AppendProperties
    <1>13. Len(inbox1) = 1 /\ inbox1[1] = m
        BY <1>8, <1>12
    <1>14. DOMAIN inbox1 = 1 .. 1
        BY <1>12, <1>13, LenProperties, Zenon
    <1>15. \A i \in DOMAIN inbox1 : inbox1[i].for = y
        BY <1>4, <1>11, <1>13, <1>14
    <1>16. Reading(y)'
        <2>1. SUFFICES /\ \A z \in Exchanges, j \in BOOLEAN : wire'[z][j] = s => z = y /\ j = ex[y].retried
                       /\ \A i \in DOMAIN inbox1 : inbox1[i].for = y
                       /\ \A i \in DOMAIN b : b[i].for = y
                       /\ Len(inbox1) + Len(b) + (IF wire'[y][ex[y].retried] = s THEN 1 ELSE 0) <= 1
            BY Zenon DEF Reading, inbox1
        <2>2. \A i \in DOMAIN b : b[i].for = y
            BY <1>3 DEF Reading
        <2>3. wire'[y][ex[y].retried] # s
            BY <1>4, <1>9
        <2> HIDE DEF b
        <2> QED
            BY <1>8, <1>9, <1>13, <1>15, <2>2, <2>3
    <1> QED
        BY <1>1, <1>2, <1>16 DEF Asking

\* The backend's work keeps the invariant.
LEMMA ExecuteIInv ==
    ASSUME IInv, NEW x \in Exchanges, NEW k \in BOOLEAN, Execute(x, k)
    PROVE  IInv'
    <1> DEFINE s == wire[x][k]
    <1>1. TypeOK /\ Ownership /\ Wired /\ Quiet /\ \A y \in Exchanges : Counted(y)
        BY DEF IInv
    <1>2. /\ ex' = ex /\ idle' = idle /\ wire' = [wire EXCEPT ![x][k] = None] /\ s # None
          /\ executed' = [executed EXCEPT ![x][k] = executed[x][k] + 1]
        BY DEF Execute
    <1>3. /\ wire' \in [Exchanges -> [BOOLEAN -> Sockets \cup {None, Orphan}]]
          /\ executed' \in [Exchanges -> [BOOLEAN -> Nat]]
          /\ wire'[x][k] = None /\ executed'[x][k] = executed[x][k] + 1
          /\ \A y \in Exchanges, j \in BOOLEAN :
                (y # x \/ j # k) => /\ wire'[y][j] = wire[y][j]
                                    /\ executed'[y][j] = executed[y][j]
        BY <1>1, <1>2 DEF TypeOK
    <1>4. \A y \in Exchanges : Counted(y)'
        <2>1. \A y \in Exchanges, j \in BOOLEAN : executed[y][j] \in Nat
            BY <1>1 DEF TypeOK
        <2>2. ASSUME NEW y \in Exchanges, NEW j \in BOOLEAN
              PROVE  Count(y, j)' \in 0 .. Count(y, j)
            <3>1. CASE y = x /\ j = k
                BY <1>2, <1>3, <2>1, <3>1 DEF Count
            <3>2. CASE y # x \/ j # k
                BY <1>3, <2>1, <3>2 DEF Count
            <3> QED
                BY <3>1, <3>2
        <2> QED
            BY <1>1, <1>2, <2>2, CountedStays
    <1>5. \A y \in Exchanges, j \in BOOLEAN, t \in Sockets : wire'[y][j] = t => wire[y][j] = t
        <2>1. \A t \in Sockets : t # None
            BY ExchangeAssumption
        <2> QED
            BY <1>3, <2>1
    <1>6. \A u \in Upstreams : \A i \in DOMAIN idle[u] : idle[u][i] \in Pooled
        BY <1>1, ElementOfSeq, LenProperties DEF TypeOK
    <1>7. CASE sock' = sock
        <2>1. TypeOK'
            BY <1>1, <1>2, <1>3, <1>7 DEF TypeOK
        <2>2. Ownership'
            BY <1>1, <1>2, <1>7, Stays
        <2>3. Wired'
            BY <1>1, <1>5, <1>7 DEF Wired
        <2>4. \A t \in Sockets : Quieter(t)
            BY <1>5, <1>7 DEF Quieter
        <2>5. ASSUME NEW y \in Exchanges, Target[y] \notin Chatty
              PROVE  Asking(y)'
            <3>1. Asking(y) /\ ex'[y] = ex[y] /\ (ex[y].sock # None => ex[y].sock \in Sockets)
                BY <1>1, <1>2, <2>5, SMTT(20) DEF Quiet, TypeOK, Exchange
            <3> QED
                BY <1>1, <2>4, <3>1, AskingStays
        <2>6. ASSUME NEW u \in Upstreams \ Chatty
              PROVE  Resting(u)'
            <3>1. \A i \in DOMAIN idle[u] : Quieter(idle[u][i].socket)
                BY <1>6, <2>4 DEF Pooled
            <3>2. Resting(u)
                BY <1>1 DEF Quiet
            <3> QED
                BY <1>2, <3>1, <3>2, RestingStays
        <2> QED
            BY <1>4, <2>1, <2>2, <2>3, <2>5, <2>6 DEF IInv, Quiet
    <1>8. ASSUME s # Orphan, NEW kind \in Kinds,
                 sock' = [sock EXCEPT ![s].inbox =
                             Append(sock[s].inbox, [for |-> x, kind |-> kind])]
          PROVE  IInv'
        <2> DEFINE m == [for |-> x, kind |-> kind]
                   inbox1 == Append(sock[s].inbox, m)
        <2>1. s \in Sockets /\ sock \in [Sockets -> Socket] /\ sock[s].inbox \in Seq(Response)
            BY <1>1, <1>2, <1>8 DEF TypeOK, Socket
        <2>2. m \in Response
            BY DEF Response
        <2>3. inbox1 \in Seq(Response)
            <3> HIDE DEF m
            <3> QED
                BY <2>1, <2>2, AppendProperties
        <2>4. sock' = [sock EXCEPT ![s].inbox = inbox1]
            BY <1>8
        <2> HIDE DEF inbox1
        <2>5. /\ sock' \in [Sockets -> Socket] /\ sock'[s].inbox = inbox1
              /\ sock'[s].state = sock[s].state /\ sock'[s].to = sock[s].to
              /\ \A t \in Sockets \ {s} : sock'[t] = sock[t]
            BY <2>1, <2>3, <2>4, Zenon DEF Socket
        <2>6. TypeOK'
            BY <1>1, <1>2, <1>3, <2>5 DEF TypeOK
        <2>7. Ownership'
            BY <1>1, <1>2, <2>5, Stays, SMTT(20)
        <2>8. Wired'
            <3>1. \A t \in Sockets : sock'[t].state = sock[t].state
                BY <2>5
            <3>2. \A y \in Exchanges, j \in BOOLEAN : wire'[y][j] \in Sockets => wire[y][j] = wire'[y][j]
                BY <1>5
            <3> QED
                BY <1>1, <3>1, <3>2, WiredStays
        <2>9. \A t \in Sockets \ {s} : Quieter(t)
            BY <1>5, <2>5 DEF Quieter
        <2>10. ASSUME NEW y \in Exchanges, Target[y] \notin Chatty
               PROVE  Asking(y)'
            <3>1. Asking(y) /\ ex'[y] = ex[y] /\ (ex[y].sock # None => ex[y].sock \in Sockets)
                BY <1>1, <1>2, <2>10, SMTT(20) DEF Quiet, TypeOK, Exchange
            <3>2. CASE ex[y].sock = s
                <4>1. sock'[s].inbox = Append(sock[s].inbox, [for |-> x, kind |-> kind])
                    BY <2>5, Zenon DEF inbox1
                <4> QED
                    BY <1>2, <2>1, <2>10, <3>2, <4>1, AnswerArrives, Zenon
            <3>3. CASE ex[y].sock # s
                BY <1>1, <2>9, <3>1, <3>3, AskingStays
            <3> QED
                BY <3>2, <3>3
        <2>11. ASSUME NEW u \in Upstreams \ Chatty
               PROVE  Resting(u)'
            <3>1. Resting(u)
                BY <1>1 DEF Quiet
            <3>2. \A i \in DOMAIN idle[u] : idle[u][i].socket # s
                BY <3>1 DEF Resting, Silent
            <3>3. \A i \in DOMAIN idle[u] : Quieter(idle[u][i].socket)
                BY <1>6, <2>9, <3>2 DEF Pooled
            <3> QED
                BY <1>2, <3>1, <3>3, RestingStays
        <2> QED
            BY <1>4, <2>6, <2>7, <2>8, <2>10, <2>11 DEF IInv, Quiet
    <1> QED
        BY <1>7, <1>8, Zenon DEF Execute

-----------------------------------------------------------------------------
(* The theorems.                                                           *)

\* Nothing is open and nothing sent in the beginning.
LEMMA InitIInv ==
    ASSUME Init
    PROVE  IInv
    <1>1. Fresh \in Exchange /\ Closed \in Socket /\ <<>> \in Seq(Pooled) /\ Len(<<>>) = 0
        BY EmptySeq DEF Fresh, Exchange, Phases, Closed, Socket
    <1>2. /\ \A x \in Exchanges : ex[x] = Fresh
          /\ \A u \in Upstreams : idle[u] = <<>> /\ DOMAIN idle[u] = {} /\ PoolSockets(u) = {}
          /\ \A s \in Sockets : sock[s] = Closed
          /\ \A x \in Exchanges, k \in BOOLEAN : wire[x][k] = None /\ executed[x][k] = 0
        BY DEF Init, PoolSockets
    <1>3. /\ Fresh.sock = None /\ Fresh.phase = "New" /\ Fresh.response_bytes = <<>>
          /\ Fresh.outcome = "none" /\ Fresh.retried = FALSE /\ Closed.state = "closed"
        BY DEF Fresh, Closed
    <1>4. TypeOK
        BY <1>1, <1>2, <1>3, ExchangeAssumption, SMTT(20) DEF TypeOK, Init, WithSocket
    <1>5. Ownership
        BY <1>2, <1>3 DEF Ownership, Owned, Kept, Used, Distinct
    <1>6. Wired
        BY <1>2, ExchangeAssumption DEF Wired
    <1>7. Quiet
        BY <1>2, <1>3 DEF Quiet, Asking, Resting, WithSocket
    <1>8. \A x \in Exchanges, k \in BOOLEAN : Count(x, k) = 0
        BY <1>2 DEF Count
    <1>9. \A x \in Exchanges : Counted(x)
        <2>1. SUFFICES ASSUME NEW x \in Exchanges
                       PROVE  Counted(x)
            BY Zenon
        <2>2. ex[x].retried = FALSE /\ ex[x].phase = "New" /\ ex[x].outcome = "none"
            BY <1>2, <1>3
        <2>3. /\ \A k \in BOOLEAN : Count(x, k) <= 1
              /\ Count(x, TRUE) = 0 /\ Count(x, ex[x].retried) = 0
            <3>1. \A k \in BOOLEAN : Count(x, k) <= 1
                BY <1>8
            <3>2. Count(x, TRUE) = 0 /\ Count(x, FALSE) = 0
                BY <1>8, Zenon
            <3>3. Count(x, ex[x].retried) = 0
                BY <2>2, <3>2, Zenon
            <3> QED
                BY <3>1, <3>2, <3>3, Zenon
        <2> QED
            BY <2>2, <2>3, Zenon DEF Counted
    <1> QED
        BY <1>4, <1>5, <1>6, <1>7, <1>9 DEF IInv

\* Every iteration of run() keeps the invariant.
LEMMA AdvanceIInv ==
    ASSUME IInv, NEW x \in Exchanges, Advance(x)
    PROVE  IInv'
    <1>1. CASE OpenPooled(x)
        BY <1>1, OpenPooledIInv
    <1>2. CASE OpenNew(x)
        BY <1>2, OpenNewIInv
    <1>3. CASE ProbeThrows(x)
        BY <1>3, ProbeThrowsIInv
    <1>4. CASE Connected(x) \/ HandshakeCompletes(x)
        BY <1>4, ConnectedIInv
    <1>5. CASE ConnectFails(x) \/ WriteFails(x) \/ FrameFails(x) \/ Expire(x)
        <2>1. Fail(x) /\ ex[x].phase # "Done"
            BY <1>5 DEF ConnectFails, WriteFails, FrameFails, Expire, WithSocket
        <2> QED
            BY <2>1, FailIInv
    <1>6. CASE Sent(x)
        BY <1>6, SentIInv
    <1>7. CASE Received(x)
        BY <1>7, ReceivedIInv
    <1>8. CASE Framed(x)
        <2>1. ex[x].phase = "Read" /\ ex[x].response_bytes # <<>> /\ FinishOk(x, FALSE)
            BY <1>8, Zenon DEF Framed, Frame
        <2> QED
            BY <2>1, FinishOkIInv, Zenon
    <1>9. CASE ReadEnds(x)
        <2>1. ex[x].phase = "Read"
            BY <1>9 DEF ReadEnds, Hungry
        <2>2. Fail(x) \/ (ex[x].response_bytes # <<>> /\ FinishOk(x, TRUE))
            BY <1>9, Zenon DEF ReadEnds, UntilEof
        <2> QED
            BY <2>1, <2>2, FailIInv, FinishOkIInv, Zenon
    <1> QED
        BY <1>1, <1>2, <1>3, <1>4, <1>5, <1>6, <1>7, <1>8, <1>9 DEF Advance

\* The invariant holds in every state, whatever the exchanges, the upstreams and the
\* number of sockets.
THEOREM Invariance == Spec => []IInv
    <1>1. Init => IInv
        BY InitIInv
    <1>2. IInv /\ [Next]_vars => IInv'
        <2>1. SUFFICES ASSUME IInv, [Next]_vars
                       PROVE  IInv'
            OBVIOUS
        <2>2. ASSUME NEW x \in Exchanges, Start(x) \/ Advance(x) \/ Abandon(x)
              PROVE  IInv'
            BY <2>1, <2>2, StartIInv, AdvanceIInv, AbandonIInv
        <2>3. ASSUME NEW x \in Exchanges, NEW k \in BOOLEAN, Execute(x, k)
              PROVE  IInv'
            BY <2>1, <2>3, ExecuteIInv
        <2>4. ASSUME NEW s \in Sockets, PeerCloses(s) \/ PeerResets(s) \/ PeerSpeaks(s)
              PROVE  IInv'
            BY <2>1, <2>4, PeerLeavesIInv, PeerSpeaksIInv
        <2>5. ASSUME NEW u \in Upstreams, Age(u)
              PROVE  IInv'
            BY <2>1, <2>5, AgeIInv
        <2>6. CASE UNCHANGED vars
            <3>1. ex' = ex /\ idle' = idle /\ sock' = sock /\ wire' = wire /\ executed' = executed
                BY <2>6 DEF vars
            <3>2. TypeOK'
                BY <2>1, <3>1 DEF IInv, TypeOK
            <3>3. Ownership'
                BY <2>1, <3>1, Stays DEF IInv
            <3>4. Wired'
                BY <2>1, <3>1 DEF IInv, Wired
            <3>5. Quiet'
                <4>1. \A x \in Exchanges : Asking(x) => Asking(x)'
                    BY <3>1, Zenon DEF Asking, Silent, Reading
                <4>2. \A u \in Upstreams : Resting(u) => Resting(u)'
                    BY <3>1 DEF Resting, Silent
                <4> QED
                    BY <2>1, <4>1, <4>2 DEF IInv, Quiet
            <3>6. \A x \in Exchanges : Counted(x)'
                BY <2>1, <3>1, Zenon DEF IInv, Counted, Count
            <3> QED
                BY <3>2, <3>3, <3>4, <3>5, <3>6 DEF IInv
        <2> QED
            BY <2>1, <2>2, <2>3, <2>4, <2>5, <2>6 DEF Next
    <1> QED
        BY <1>1, <1>2, PTL DEF Spec

\* The invariant says that each open socket has one owner.
LEMMA OneOwner ==
    ASSUME IInv
    PROVE  SingleOwner
    <1>1. TypeOK /\ Ownership
        BY DEF IInv
    <1>2. ASSUME NEW s \in Sockets, NEW o \in PoolOwners(s)
          PROVE  \E u \in Upstreams : \E i \in DOMAIN idle[u] : o = <<u, i>> /\ idle[u][i].socket = s
        <2>1. PICK u \in Upstreams : o \in {u} \X DOMAIN idle[u]
            BY DEF PoolOwners
        <2>2. PICK i \in DOMAIN idle[u] : o = <<u, i>>
            BY <2>1
        <2>3. idle[o[1]][o[2]].socket = s
            BY DEF PoolOwners
        <2> QED
            BY <2>2, <2>3
    <1>3. ASSUME NEW s \in Sockets, NEW u \in Upstreams, NEW i \in DOMAIN idle[u],
                 idle[u][i].socket = s
          PROVE  <<u, i>> \in PoolOwners(s)
        <2>1. <<u, i>> \in {u} \X DOMAIN idle[u] /\ <<u, i>>[1] = u /\ <<u, i>>[2] = i
            OBVIOUS
        <2> QED
            BY <1>3, <2>1 DEF PoolOwners
    <1>4. ASSUME NEW s \in Sockets, sock[s].state = "closed"
          PROVE  ExchangeOwners(s) = {} /\ PoolOwners(s) = {}
        <2>1. ExchangeOwners(s) = {}
            BY <1>1, <1>4, ExchangeAssumption DEF ExchangeOwners, Ownership, Owned
        <2>2. \A u \in Upstreams : \A i \in DOMAIN idle[u] : idle[u][i].socket # s
            BY <1>1, <1>4, SMTT(20) DEF Ownership, Kept, PoolSockets
        <2> QED
            BY <1>2, <2>1, <2>2
    <1>5. ASSUME NEW s \in Sockets, sock[s].state # "closed"
          PROVE  \E o \in ExchangeOwners(s) \cup PoolOwners(s) :
                    ExchangeOwners(s) \cup PoolOwners(s) = {o}
        <2>1. Used(s) /\ s # None
            BY <1>1, ExchangeAssumption DEF Ownership
        <2>2. CASE \E x \in Exchanges : ex[x].sock = s
            <3>1. PICK x \in Exchanges : ex[x].sock = s
                BY <2>2
            <3>2. ExchangeOwners(s) = {x}
                BY <1>1, <2>1, <3>1 DEF ExchangeOwners, Ownership, Owned
            <3>3. PoolOwners(s) = {}
                BY <1>1, <1>2, <2>1, <3>1, OnlyHere
            <3> QED
                BY <3>2, <3>3
        <2>3. CASE \E u \in Upstreams : s \in PoolSockets(u)
            <3>1. PICK u \in Upstreams : s \in PoolSockets(u)
                BY <2>3
            <3>2. PICK i \in DOMAIN idle[u] : idle[u][i].socket = s
                BY <3>1 DEF PoolSockets
            <3>3. ExchangeOwners(s) = {}
                BY <1>1, <2>1, <3>2, OnlyHere DEF ExchangeOwners
            <3>4. ASSUME NEW v \in Upstreams, NEW j \in DOMAIN idle[v], idle[v][j].socket = s
                  PROVE  v = u /\ j = i
                <4>1. Kept(u) /\ Kept(v) /\ s \in PoolSockets(v)
                    BY <1>1, <3>4 DEF Ownership, PoolSockets
                <4>2. v = u
                    BY <3>1, <4>1 DEF Kept
                <4> QED
                    BY <3>2, <3>4, <4>1, <4>2 DEF Kept, Distinct
            <3>5. PoolOwners(s) = {<<u, i>>}
                <4>1. \A o \in PoolOwners(s) : o = <<u, i>>
                    BY <1>2, <3>4
                <4>2. <<u, i>> \in PoolOwners(s)
                    BY <1>3, <3>2
                <4> QED
                    BY <4>1, <4>2
            <3> QED
                BY <3>3, <3>5
        <2> QED
            BY <2>1, <2>2, <2>3, <1>5 DEF Used
    <1>6. \A x \in Exchanges : ex[x].sock # None => sock[ex[x].sock].to = Target[x]
        BY <1>1 DEF Ownership, Owned
    <1>7. \A u \in Upstreams : \A s \in PoolSockets(u) : sock[s].to = u
        BY <1>1 DEF Ownership, Kept
    <1>8. \A u \in Upstreams : Len(idle[u]) <= MaxIdle
        BY <1>1 DEF TypeOK
    <1> QED
        BY <1>4, <1>5, <1>6, <1>7, <1>8 DEF SingleOwner

\* checkout, checkin, invalidate and the replay never share, leak or confuse upstream
\* connections, and a pool never exceeds its limit.
THEOREM OwnerSafety == Spec => []SingleOwner
    BY Invariance, OneOwner, PTL

\* A connection in the pool of a backend that does not speak unasked owes no answer.
THEOREM QuietSafety == Spec => []IdleIsQuiet
    <1>1. IInv => IdleIsQuiet
        BY DEF IInv, Quiet, Resting, Silent, IdleIsQuiet
    <1> QED
        BY <1>1, Invariance, PTL

\* The response finish_ok delivers is the response to the exchange's own request.
THEOREM ResponseSafety == Spec => []OwnResponse
    <1>1. IInv => OwnResponse
        BY DEF IInv, Quiet, Asking, OwnResponse
    <1> QED
        BY <1>1, Invariance, PTL

\* fail's replay executes no request that is not idempotent a second time, and none a
\* third time.
THEOREM ExecutionSafety == Spec => []AtMostOnce
    <1>1. ASSUME IInv
          PROVE  AtMostOnce
        <2>1. SUFFICES ASSUME NEW x \in Exchanges
                       PROVE  executed[x][FALSE] + executed[x][TRUE]
                                 <= IF x \in Idempotent THEN 2 ELSE 1
            BY Zenon DEF AtMostOnce
        <2>2. executed[x][FALSE] \in Nat /\ executed[x][TRUE] \in Nat /\ Counted(x)
            BY <1>1, Zenon DEF IInv, TypeOK
        <2>3. Count(x, FALSE) <= 1 /\ Count(x, TRUE) <= 1 /\ (x \notin Idempotent => Count(x, TRUE) = 0)
            BY <2>2, Zenon DEF Counted
        <2>4. /\ executed[x][FALSE] <= 1 /\ executed[x][TRUE] <= 1
              /\ x \notin Idempotent => executed[x][TRUE] = 0
            <3> DEFINE a == executed[x][FALSE]
                       b == executed[x][TRUE]
                       v == IF wire[x][FALSE] = None THEN 0 ELSE 1
                       w == IF wire[x][TRUE] = None THEN 0 ELSE 1
            <3>1. a + v <= 1 /\ b + w <= 1 /\ (x \notin Idempotent => b + w = 0)
                BY <2>3, Zenon DEF Count
            <3>2. a \in Nat /\ b \in Nat /\ v \in Nat /\ w \in Nat
                BY <2>2, Zenon
            <3> HIDE DEF a, b, v, w
            <3>3. a <= 1 /\ b <= 1 /\ (x \notin Idempotent => b = 0)
                BY <3>1, <3>2
            <3> QED
                BY <3>3, Zenon DEF a, b
        <2> DEFINE a == executed[x][FALSE]
                   b == executed[x][TRUE]
        <2>5. a \in Nat /\ b \in Nat /\ a <= 1 /\ b <= 1 /\ (x \notin Idempotent => b = 0)
            BY <2>2, <2>4, Zenon
        <2> HIDE DEF a, b
        <2>6. a + b <= IF x \in Idempotent THEN 2 ELSE 1
            BY <2>5
        <2> QED
            BY <2>6, Zenon DEF a, b
    <1> QED
        BY <1>1, Invariance, PTL

\* What becomes of an exchange that fails while it has a pooled connection: it starts
\* over, if its method is idempotent.
LEMMA PooledStartsOver ==
    ASSUME IInv, NEW x \in Exchanges, x \in Idempotent, ex[x].used_pooled,
           ex[x].phase # "Done", Fail(x)
    PROVE  ex'[x].outcome = "none"
    <1>1. ~ex[x].retried
        BY Zenon DEF IInv, Counted
    <1>2. Replays(x)
        BY <1>1 DEF Replays
    <1>3. ex' = [ex EXCEPT ![x] = StartedOver(x)]
        BY <1>2 DEF Fail
    <1>4. ex'[x] = StartedOver(x)
        BY <1>3, SMTT(20) DEF IInv, TypeOK
    <1> QED
        BY <1>2, <1>4, StartedOverIs

\* An iteration of run() that ends an idempotent exchange on a pooled connection with
\* an error has a complete message without a status code before it.
LEMMA PooledError ==
    ASSUME IInv, NEW x \in Exchanges, x \in Idempotent, ex[x].used_pooled,
           ex[x].phase \in {"Send", "Read"}, Advance(x), ex'[x].outcome = "error"
    PROVE  ex[x].response_bytes # <<>> /\ Head(ex[x].response_bytes).kind = "garbled"
    <1>1. ex \in [Exchanges -> Exchange] /\ ex[x].outcome = "none"
        BY Zenon DEF IInv, TypeOK, Counted
    <1>2. ~Fail(x)
        BY PooledStartsOver
    <1>3. CASE Sent(x)
        BY <1>1, <1>3 DEF Sent
    <1>4. CASE Received(x)
        <2>1. ex'[x].outcome = ex[x].outcome
            BY <1>1, <1>4 DEF Received, Exchange
        <2> QED
            BY <1>1, <2>1
    <1>5. ASSUME NEW peer_closed, FinishOk(x, peer_closed), ex[x].response_bytes # <<>>
          PROVE  Head(ex[x].response_bytes).kind = "garbled"
        <2> DEFINE message == Head(ex[x].response_bytes)
        <2>1. SUFFICES ASSUME message.kind # "garbled"
                       PROVE  FALSE
            OBVIOUS
        <2>2. ex' = [ex EXCEPT ![x] = Ended("ok", message.for)]
            BY <1>5, <2>1 DEF FinishOk
        <2>3. ex'[x] = Ended("ok", message.for)
            BY <1>1, <2>2
        <2>4. ex'[x].outcome = "ok"
            BY <2>3 DEF Ended, Fresh
        <2> QED
            BY <2>4
    <1>6. CASE Framed(x)
        <2>1. ex[x].response_bytes # <<>> /\ FinishOk(x, FALSE)
            BY <1>6, Zenon DEF Framed, Frame
        <2> QED
            BY <1>5, <2>1, Zenon
    <1>7. CASE ReadEnds(x)
        <2>1. ex[x].response_bytes # <<>> /\ FinishOk(x, TRUE)
            BY <1>2, <1>7, Zenon DEF ReadEnds, UntilEof
        <2> QED
            BY <1>5, <2>1, Zenon
    <1>8. ~OpenPooled(x) /\ ~OpenNew(x) /\ ~ProbeThrows(x) /\ ~Connected(x) /\ ~HandshakeCompletes(x)
        BY Zenon DEF OpenPooled, OpenNew, ProbeThrows, Connected, HandshakeCompletes
    <1>9. ~ConnectFails(x) /\ ~WriteFails(x) /\ ~FrameFails(x) /\ ~Expire(x)
        BY <1>2, SMTT(20) DEF ConnectFails, WriteFails, FrameFails, Expire
    <1> QED
        BY <1>3, <1>4, <1>6, <1>7, <1>8, <1>9 DEF Advance

\* Only its own iterations and its abandonment change an exchange.
LEMMA OthersUnchanged ==
    ASSUME IInv, NEW x \in Exchanges, NEW y \in Exchanges, y # x,
           Start(x) \/ Advance(x) \/ Abandon(x)
    PROVE  ex'[y] = ex[y]
    <1>1. ex \in [Exchanges -> Exchange]
        BY DEF IInv, TypeOK
    <1>2. CASE Start(x)
        BY <1>1, <1>2, Zenon DEF Start
    <1>3. CASE Abandon(x)
        BY <1>1, <1>3 DEF Abandon
    <1>4. CASE OpenPooled(x)
        BY <1>1, <1>4 DEF OpenPooled
    <1>5. CASE OpenNew(x)
        <2>1. \A taken : OpenFresh(x, taken) => ex'[y] = ex[y]
            BY <1>1, ZenonT(40) DEF OpenFresh
        <2> QED
            BY <1>5, <2>1, Zenon DEF OpenNew
    <1>6. CASE ProbeThrows(x)
        BY <1>1, <1>6 DEF ProbeThrows
    <1>7. CASE Connected(x) \/ HandshakeCompletes(x) \/ Sent(x)
        BY <1>1, <1>7 DEF Connected, HandshakeCompletes, Sent
    <1>8. CASE Received(x)
        BY <1>1, <1>8 DEF Received
    <1>9. Fail(x) => ex'[y] = ex[y]
        BY <1>1 DEF Fail
    <1>10. \A peer_closed : FinishOk(x, peer_closed) => ex'[y] = ex[y]
        BY <1>1 DEF FinishOk
    <1>11. CASE ConnectFails(x) \/ WriteFails(x) \/ FrameFails(x) \/ Expire(x)
        BY <1>9, <1>11 DEF ConnectFails, WriteFails, FrameFails, Expire
    <1>12. CASE Framed(x) \/ ReadEnds(x)
        BY <1>9, <1>10, <1>12, Zenon DEF Framed, ReadEnds
    <1> QED
        BY <1>2, <1>3, <1>4, <1>5, <1>6, <1>7, <1>8, <1>11, <1>12 DEF Advance

\* fail hides the failure of a pooled connection from an idempotent request.
THEOREM ReplaySafety == Spec => PooledFailureHidden
    <1> DEFINE Hidden ==
            \A x \in Exchanges :
                /\ x \in Idempotent
                /\ ex[x].phase \in {"Send", "Read"} /\ ex'[x].outcome = "error"
                => \/ ~ex[x].used_pooled
                   \/ /\ ex[x].response_bytes # <<>>
                      /\ Head(ex[x].response_bytes).kind = "garbled"
    <1>1. IInv /\ [Next]_vars => [Hidden]_vars
        <2>1. SUFFICES ASSUME IInv, Next, NEW x \in Exchanges, x \in Idempotent,
                              ex[x].phase \in {"Send", "Read"}, ex'[x].outcome = "error",
                              ex[x].used_pooled
                       PROVE  /\ ex[x].response_bytes # <<>>
                              /\ Head(ex[x].response_bytes).kind = "garbled"
            OBVIOUS
        <2>2. ex[x].outcome = "none"
            BY <2>1, Zenon DEF IInv, Counted
        <2>3. ASSUME NEW y \in Exchanges, Start(y) \/ Advance(y) \/ Abandon(y)
              PROVE  y = x /\ Advance(x)
            <3>1. y = x
                BY <2>1, <2>2, <2>3, OthersUnchanged
            <3>2. ~Start(x)
                BY <2>1 DEF Start
            <3>3. ASSUME Abandon(x)
                  PROVE  FALSE
                <4>1. ex'[x] = Ended("abandoned", None)
                    BY <2>1, <3>3 DEF Abandon, IInv, TypeOK
                <4>2. ex'[x].outcome = "abandoned"
                    BY <4>1 DEF Ended, Fresh
                <4> QED
                    BY <2>1, <4>2
            <3> QED
                BY <2>3, <3>1, <3>2, <3>3
        <2>4. ex' # ex
            BY <2>1, <2>2
        <2>5. Advance(x)
            BY <2>1, <2>3, <2>4, Zenon DEF Next, Execute, PeerCloses, PeerResets, PeerSpeaks, Age
        <2> QED
            BY <2>1, <2>5, PooledError
    <1>2. [][Hidden]_vars => PooledFailureHidden
        BY DEF PooledFailureHidden
    <1> QED
        BY <1>1, <1>2, Invariance, PTL DEF Spec
=============================================================================
