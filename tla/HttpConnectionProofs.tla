------------------------ MODULE HttpConnectionProofs ------------------------
(***************************************************************************)
(* A client connection is never left waiting for an event that cannot      *)
(* come, and an aggregate is only reported ok when its required parts were *)
(* answered: for every client, pipelining or not, every backend and every  *)
(* interleaving.  What the run checks is not inductive: the fd may go      *)
(* unarmed for output only because a write that waits sends the next       *)
(* event, whatever it is, to handle_write (Waiting), and a verdict is      *)
(* right because what a call records is what its backend did (Reported).   *)
(***************************************************************************)
EXTENDS HttpConnection, SequenceTheorems, WellFoundedInduction, TLAPS

-----------------------------------------------------------------------------
(* Sequences.                                                              *)

\* A set of naturals that is not empty has a least element.
LEMMA LeastNumber ==
    ASSUME NEW T \in SUBSET Nat, T # {}
    PROVE  \E x \in T : \A y \in T : x <= y
<1> DEFINE R == OpToRel(<, Nat)
<1>1. \E x \in T : \A y \in T : <<y, x>> \notin R
  <2> HIDE DEF R
  <2>1. IsWellFoundedOn(R, Nat)
    BY NatLessThanWellFounded, Zenon DEF R
  <2>2. QED
    BY <2>1, WFMin, Zenon
<1>2. \A x, y \in Nat : <<y, x>> \notin R => x <= y
  BY DEF OpToRel
<1> HIDE DEF R
<1>3. QED
  BY <1>1, <1>2, Zenon

\* The step of FlattenSeq, with f for what comes before.
Extended(seqs, f, i) == IF i = 1 THEN seqs[i] ELSE f[i - 1] \o seqs[i]

\* f flattens the first n sequences.
Flattens(seqs, n, f) == f = [i \in 1 .. n |-> Extended(seqs, f, i)]

\* There is such a function, however long the sequence is.
LEMMA FlattenExists ==
    ASSUME NEW seqs, NEW n \in Nat
    PROVE  \E f : Flattens(seqs, n, f)
<1> DEFINE wrong == {k \in Nat : \A f : ~Flattens(seqs, k, f)}
<1>1. ASSUME wrong # {} PROVE FALSE
  <2>1. PICK k \in wrong : \A l \in wrong : k <= l
    <3>1. wrong \in SUBSET Nat
      OBVIOUS
    <3> HIDE DEF wrong
    <3>2. QED
      BY <1>1, <3>1, LeastNumber
  <2>2. k \in Nat /\ \A f : ~Flattens(seqs, k, f)
    BY <2>1
  <2>3. CASE k = 0
    <3> DEFINE g == [i \in 1 .. 0 |-> 0]
    <3>1. Flattens(seqs, 0, g)
      BY DEF Flattens
    <3>2. QED
      BY <2>2, <2>3, <3>1
  <2>4. CASE k # 0
    <3>1. k - 1 \in Nat /\ ~(k <= k - 1)
      BY <2>2, <2>4
    <3>2. PICK f : Flattens(seqs, k - 1, f)
      BY <2>1, <3>1
    <3> DEFINE g == [i \in 1 .. k |-> IF i = k THEN Extended(seqs, f, k) ELSE f[i]]
    <3>3. \A i \in 1 .. k - 1 : f[i] = Extended(seqs, f, i)
      BY <3>2 DEF Flattens
    <3>4. ASSUME NEW i \in 1 .. k PROVE g[i] = Extended(seqs, g, i)
      <4>1. i # 1 => i - 1 \in 1 .. k - 1 /\ i - 1 \in 1 .. k /\ i - 1 # k
        BY <2>2
      <4>2. i # 1 => g[i - 1] = f[i - 1]
        BY <4>1
      <4>3. Extended(seqs, g, i) = Extended(seqs, f, i)
        BY <4>2 DEF Extended
      <4>4. CASE i = k
        BY <4>3, <4>4
      <4>5. CASE i # k
        <5>1. i \in 1 .. k - 1
          BY <2>2, <4>5
        <5>2. QED
          BY <3>3, <4>3, <4>5, <5>1
      <4> QED
        BY <4>4, <4>5
    <3>5. g = [i \in 1 .. k |-> g[i]]
      OBVIOUS
    <3> HIDE DEF g
    <3>6. Flattens(seqs, k, g)
      BY <3>4, <3>5, Zenon DEF Flattens
    <3>7. QED
      BY <2>2, <3>6
  <2> QED
    BY <2>3, <2>4
<1>2. QED
  BY <1>1, Zenon

\* Flattening yields a sequence of elements of the sequences.
LEMMA FlattenType ==
    ASSUME NEW S, NEW seqs \in Seq(Seq(S))
    PROVE  FlattenSeq(seqs) \in Seq(S)
<1> DEFINE n == Len(seqs)
           flatten == CHOOSE f : Flattens(seqs, n, f)
<1>1. n \in Nat /\ \A i \in 1 .. n : seqs[i] \in Seq(S)
  OBVIOUS
<1>2. CASE n = 0
  <2>1. seqs = <<>>
    BY <1>2
  <2>2. FlattenSeq(seqs) = seqs
    BY <1>2 DEF FlattenSeq
  <2>3. <<>> \in Seq(S)
    OBVIOUS
  <2>4. QED
    BY <2>1, <2>2, <2>3, Zenon
<1>3. CASE n # 0
  <2>1. FlattenSeq(seqs) = flatten[n]
    BY <1>3 DEF FlattenSeq, Flattens, Extended
  <2>2. Flattens(seqs, n, flatten)
    BY <1>1, FlattenExists, Zenon
  <2> HIDE DEF flatten
  <2>3. \A i \in 1 .. n : flatten[i] = Extended(seqs, flatten, i)
    BY <2>2, Zenon DEF Flattens
  <2> DEFINE wrong == {k \in 1 .. n : flatten[k] \notin Seq(S)}
  <2>4. ASSUME wrong # {} PROVE FALSE
    <3>1. PICK k \in wrong : \A l \in wrong : k <= l
      <4>1. wrong \in SUBSET Nat
        OBVIOUS
      <4> HIDE DEF wrong
      <4>2. QED
        BY <2>4, <4>1, LeastNumber, Zenon
    <3>2. k \in 1 .. n /\ flatten[k] \notin Seq(S)
      BY <3>1
    <3>3. CASE k = 1
      BY <1>1, <2>3, <3>2, <3>3 DEF Extended
    <3>4. CASE k # 1
      <4>1. k - 1 \in 1 .. n /\ ~(k <= k - 1)
        BY <1>1, <3>2, <3>4
      <4>2. flatten[k - 1] \in Seq(S)
        BY <3>1, <4>1
      <4>3. flatten[k] = flatten[k - 1] \o seqs[k]
        BY <2>3, <3>2, <3>4, Zenon DEF Extended
      <4>4. QED
        BY <1>1, <3>2, <4>2, <4>3
    <3> QED
      BY <3>3, <3>4
  <2>5. n \in 1 .. n
    BY <1>1, <1>3
  <2>6. QED
    BY <2>1, <2>4, <2>5
<1>4. QED
  BY <1>2, <1>3

\* An initial and a final segment are sequences of the same elements.
LEMMA SegmentType ==
    ASSUME NEW S, NEW s \in Seq(S), NEW m \in 1 .. Len(s), NEW n \in 1 .. m
    PROVE  /\ SubSeq(s, 1, n) \in Seq(S) /\ SubSeq(s, 1, n) # <<>>
           /\ SubSeq(s, n + 1, m) \in Seq(S)
           /\ SubSeq(s, m + 1, Len(s)) \in Seq(S)
           /\ n = m => SubSeq(s, n + 1, m) = <<>>
<1>1. \A i \in 1 .. Len(s) : s[i] \in S
  OBVIOUS
<1>2. SubSeq(s, 1, n) \in Seq(S) /\ Len(SubSeq(s, 1, n)) = n
  BY <1>1
<1>3. SubSeq(s, 1, n) # <<>>
  BY <1>2
<1>4. SubSeq(s, n + 1, m) \in Seq(S)
  BY <1>1
<1>5. SubSeq(s, m + 1, Len(s)) \in Seq(S)
  BY <1>1
<1>6. n = m => SubSeq(s, n + 1, m) = <<>>
  OBVIOUS
<1>7. QED
  BY <1>2, <1>3, <1>4, <1>5, <1>6

-----------------------------------------------------------------------------
(* Types.                                                                  *)

Statuses == {"ok", "denied", "400", "502", "503"}

\* The calls made for a request.
Call(i) == [req : {i}, child : [Children(i) -> Outcomes]]

Typed == TypeOK /\ (up # None => up \in Call(up.req))

\* The requests of a client are a sequence of requests.
LEMMA ReqsType ==
    ASSUME script \in Scripts
    PROVE  /\ Reqs \in Seq(Request) /\ Len(Reqs) \in Nat /\ DOMAIN Reqs = 1 .. Len(Reqs)
           /\ \A i \in DOMAIN Reqs :
                 /\ Reqs[i].route \in Routes
                 /\ Reqs[i].body = "file" => Reqs[i].route = "none"
           /\ FileParts \in Nat \ {0} /\ OutCap \in Nat \ {0}
           /\ Required \subseteq Deps /\ None \notin Deps
<1>1. Reqs \in Seq(Request)
  BY ConnectionAssumption DEF Reqs
<1>2. Len(Reqs) \in Nat /\ DOMAIN Reqs = 1 .. Len(Reqs)
  BY <1>1
<1>3. \A i \in DOMAIN Reqs : Reqs[i] \in Request
  BY <1>1
<1>4. \A i \in DOMAIN Reqs : Reqs[i].body = "file" => Reqs[i].route = "none"
  BY ConnectionAssumption DEF Reqs
<1>5. \A i \in DOMAIN Reqs : Reqs[i].route \in Routes
  BY <1>3 DEF Request
<1>6. QED
  BY <1>1, <1>2, <1>4, <1>5, ConnectionAssumption

\* What a client sends are pieces of its requests.
LEMMA StreamType ==
    ASSUME script \in Scripts
    PROVE  Stream \in Seq(Piece)
<1> DEFINE pieces == [i \in DOMAIN Reqs |-> Pieces(i)]
<1>1. \A i \in DOMAIN Reqs : Pieces(i) \in Seq(Piece)
  <2> SUFFICES ASSUME NEW i \in DOMAIN Reqs
               PROVE  Pieces(i) \in Seq(Piece)
    OBVIOUS
  <2>1. [req |-> i, part |-> "head"] \in Piece /\ [req |-> i, part |-> "body"] \in Piece
    BY DEF Piece
  <2>2. QED
    BY <2>1 DEF Pieces
<1>2. DOMAIN Reqs = 1 .. Len(Reqs) /\ Len(Reqs) \in Nat
  BY ReqsType
<1>3. pieces \in Seq(Seq(Piece))
  BY <1>1, <1>2
<1> HIDE DEF pieces
<1>4. FlattenSeq(pieces) \in Seq(Piece)
  BY <1>3, FlattenType, Zenon
<1>5. QED
  BY <1>4 DEF Stream, pieces

\* The client's requests stay what they are, and so do the types.
LEMMA SameTypes ==
    ASSUME script' = script
    PROVE  /\ Reqs' = Reqs /\ Piece' = Piece /\ Chunk' = Chunk /\ Conn' = Conn
           /\ Stream' = Stream
           /\ \A i : Children(i)' = Children(i) /\ Call(i)' = Call(i)
<1>1. Reqs' = Reqs
  BY DEF Reqs
<1>2. Piece' = Piece /\ Chunk' = Chunk
  BY <1>1 DEF Piece, Chunk
<1>3. Conn' = Conn
  BY <1>1, <1>2 DEF Conn
<1>4. \A i : Pieces(i)' = Pieces(i)
  BY <1>1 DEF Pieces
<1>5. Stream' = Stream
  BY <1>1, <1>4 DEF Stream
<1>6. \A i : Children(i)' = Children(i)
  BY <1>1 DEF Children
<1>7. \A i : Call(i)' = Call(i)
  BY <1>6, Zenon DEF Call
<1>8. QED
  BY <1>1, <1>2, <1>3, <1>5, <1>6, <1>7

\* The chunks of a response.
LEMMA FramedType ==
    ASSUME script \in Scripts, NEW i \in DOMAIN Reqs, NEW status \in Statuses
    PROVE  /\ Framed(i, status) \in Seq(Chunk) /\ Framed(i, status) # <<>>
           /\ \A k \in DOMAIN Framed(i, status) :
                 Framed(i, status)[k].req = i /\ Framed(i, status)[k].status = status
<1> DEFINE part(p) == [req |-> i, part |-> p, status |-> status]
<1>1. part("head") \in Chunk /\ part("body") \in Chunk /\ part("whole") \in Chunk
  BY DEF Chunk, Statuses
<1>2. \/ Framed(i, status) = <<part("head"), part("body")>>
      \/ Framed(i, status) = <<part("head")>>
      \/ Framed(i, status) = <<part("whole")>>
  BY Zenon DEF Framed
<1>3. \A p : part(p).req = i /\ part(p).status = status
  OBVIOUS
<1> DEFINE one(p) == <<part(p)>>
           two == <<part("head"), part("body")>>
<1>4. \A p : part(p) \in Chunk =>
             one(p) \in Seq(Chunk) /\ one(p) # <<>> /\ DOMAIN one(p) = {1} /\ one(p)[1] = part(p)
  <2> HIDE DEF part
  <2>1. QED
    OBVIOUS
<1>5. /\ two \in Seq(Chunk) /\ two # <<>> /\ DOMAIN two = {1, 2}
      /\ two[1] = part("head") /\ two[2] = part("body")
  <2> HIDE DEF part
  <2>1. QED
    BY <1>1
<1>6. Framed(i, status) \in {two, one("head"), one("whole")}
  BY <1>2, Zenon
<1> HIDE DEF part, one, two
<1>7. QED
  BY <1>1, <1>3, <1>4, <1>5, <1>6

\* What putting chunks into the queue leaves alone.
Queued(c, d, chunks) ==
    /\ d \in Conn
    /\ d.queue = c.queue \o chunks /\ d.queue # <<>>
    /\ d.state = c.state /\ d.pending = c.pending /\ d.file = c.file
    /\ d.read_buf = c.read_buf /\ d.headers = c.headers /\ d.parsing = c.parsing
    /\ d.taken = c.taken

\* finalize_response puts the chunks into the queue and arms the fd for both directions.
LEMMA FinalizedType ==
    ASSUME script \in Scripts, NEW c \in Conn, NEW i \in DOMAIN Reqs, NEW status \in Statuses
    PROVE  /\ Queued(c, Finalized(c, i, status), Framed(i, status))
           /\ Finalized(c, i, status).armed = {"IN", "OUT"}
           /\ Finalized(c, i, status).keep_alive = c.keep_alive
<1>1. Framed(i, status) \in Seq(Chunk) /\ Framed(i, status) # <<>>
  BY FramedType
<1>2. c.queue \in Seq(Chunk)
  BY DEF Conn
<1>3. c.queue \o Framed(i, status) \in Seq(Chunk) /\ c.queue \o Framed(i, status) # <<>>
  BY <1>1, <1>2
<1>4. QED
  BY <1>3, Zenon DEF Finalized, Queued, Conn

\* send_error_response arms it for writing only, and ends the connection.
LEMMA RefusedType ==
    ASSUME script \in Scripts, NEW c \in Conn, NEW chunks \in Seq(Chunk), chunks # <<>>
    PROVE  /\ Queued(c, Refused(c, chunks), chunks)
           /\ Refused(c, chunks).armed = {"OUT"}
           /\ Refused(c, chunks).keep_alive = FALSE
<1>1. c.queue \in Seq(Chunk)
  BY DEF Conn
<1>2. c.queue \o chunks \in Seq(Chunk) /\ c.queue \o chunks # <<>>
  BY <1>1
<1>3. QED
  BY <1>2, Zenon DEF Refused, Queued, Conn

\* What taking a request out of read_buf leaves alone.
Consumed(c, d) ==
    /\ d \in Conn
    /\ d.queue = c.queue /\ d.state = c.state /\ d.pending = c.pending /\ d.file = c.file
    /\ d.armed = c.armed

\* The parser only returns requests of the client.
LEMMA PieceType ==
    ASSUME Typed, conn.read_buf # <<>>
    PROVE  /\ Piece1 \in Piece /\ Piece1.req \in DOMAIN Reqs
           /\ Tail(conn.read_buf) \in Seq(Piece)
           /\ Current \in DOMAIN Reqs
           /\ Headers \in SUBSET {"length", "close"}
<1>1. conn.read_buf \in Seq(Piece) /\ conn.parsing \in DOMAIN Reqs \cup {None}
      /\ conn.headers \in SUBSET {"length", "close"}
  BY DEF Typed, TypeOK, Conn
<1>2. Piece1 \in Piece /\ Tail(conn.read_buf) \in Seq(Piece)
  BY <1>1 DEF Piece1
<1>3. Piece1.req \in DOMAIN Reqs
  BY <1>2 DEF Piece
<1>4. Current \in DOMAIN Reqs
  BY <1>1, <1>3 DEF Current
<1>5. Headers \in SUBSET {"length", "close"}
  BY <1>1 DEF Headers
<1>6. QED
  BY <1>2, <1>3, <1>4, <1>5

\* A parsed request is consumed; its response has not been queued yet.
LEMMA TakenType ==
    ASSUME Typed, conn.read_buf # <<>>
    PROVE  Consumed(conn, Taken) /\ Consumed(conn, Routed)
<1>1. conn \in Conn
  BY DEF Typed, TypeOK
<1>2. /\ Tail(conn.read_buf) \in Seq(Piece) /\ Current \in DOMAIN Reqs
      /\ Headers \in SUBSET {"length", "close"}
  BY PieceType
<1>3. Current \in 0 .. Len(Reqs)
  BY <1>2, ReqsType DEF Typed, TypeOK
<1>4. Consumed(conn, Taken)
  BY <1>1, <1>2, <1>3, Zenon DEF Taken, Consumed, Conn
<1>5. Consumed(Taken, Routed)
  <2> HIDE DEF Taken
  <2>1. Taken \in Conn
    BY <1>4 DEF Consumed
  <2>2. ("close" \notin Taken.headers) \in BOOLEAN
    OBVIOUS
  <2>3. QED
    BY <2>1, <2>2, Zenon DEF Routed, Consumed, Conn
<1>6. QED
  BY <1>4, <1>5 DEF Consumed

\* A closed connection holds nothing.
LEMMA CleanupType ==
    ASSUME Typed, NEW ending \in Endings, Cleanup(ending)
    PROVE  /\ Typed' /\ conn'.state # "open" /\ pc' = Loop /\ up' = None
           /\ conn'.queue = <<>> /\ conn'.file = None /\ conn'.pending = FALSE
           /\ written' = written /\ good' = good /\ script' = script /\ ssl_in' = <<>>
<1>1. conn.taken \in 0 .. Len(Reqs)
  BY DEF Typed, TypeOK, Conn
<1>2. script' = script
  BY DEF Cleanup, client
<1>3. conn' \in Conn /\ conn'.queue = <<>> /\ conn'.file = None /\ conn'.pending = FALSE
      /\ conn'.state = ending
  <2>1. <<>> \in Seq(Piece) /\ <<>> \in Seq(Chunk)
    OBVIOUS
  <2>2. 0 \in 0 .. Len(Reqs)
    BY ReqsType DEF Typed, TypeOK
  <2>3. Fresh \in Conn /\ Fresh.queue = <<>> /\ Fresh.file = None /\ Fresh.pending = FALSE
    BY <2>1, <2>2 DEF Fresh, Conn
  <2> HIDE DEF Fresh
  <2>4. QED
    BY <1>1, <2>3, Zenon DEF Cleanup, Conn
<1>4. Loop \in Points
  BY DEF Loop, Points
<1>5. /\ sent' = sent /\ peer' = peer /\ unread' = unread /\ written' = written
      /\ good' = good /\ draining' = draining /\ up' = None /\ pc' = Loop
      /\ kernel_in' = <<>> /\ ssl_in' = <<>> /\ rekey' = "done"
  BY DEF Cleanup, client, output
<1>6. ending # "open"
  BY DEF Endings
<1>7. Typed'
  BY <1>2, <1>3, <1>4, <1>5, SameTypes DEF Typed, TypeOK
<1>8. QED
  BY <1>2, <1>3, <1>5, <1>6, <1>7

\* The calls in flight belong to a request, and each has an outcome or none yet.
Called(u) == u # None => u.req \in DOMAIN Reqs /\ u \in Call(u.req)

\* A step of the handlers of an open connection.
LEMMA HandlerTyped ==
    ASSUME Typed, script' = script, sent' = sent, peer' = peer, draining' = draining,
           rekey' \in {"none", "due", "here", "done"},
           kernel_in' \in Seq(Piece), ssl_in' \in Seq(Piece),
           unread' \in 0 .. OutCap, written' \in Seq(Chunk),
           conn' \in Conn, conn'.state = "open", pc' \in Points,
           Called(up'), good' \in SUBSET ((DOMAIN Reqs) \X Deps)
    PROVE  Typed'
<1>1. up' # None => /\ up'.req \in DOMAIN Reqs
                    /\ \A d \in DOMAIN up'.child : up'.child[d] \in Outcomes
                    /\ up' \in Call(up'.req)
  BY DEF Called, Call
<1> HIDE DEF Called
<1>2. QED
  BY <1>1, SameTypes DEF Typed, TypeOK

\* The connection is open while a handler runs on it.
LEMMA HandlerOpen ==
    ASSUME Typed
    PROVE  /\ pc.at # "loop" => conn.state = "open"
           /\ conn \in Conn /\ pc \in Points /\ Called(up)
           /\ script \in Scripts
           /\ rekey \in {"none", "due", "here", "done"}
           /\ Rekeyed \in {"none", "due", "here", "done"}
           /\ kernel_in \in Seq(Piece) /\ ssl_in \in Seq(Piece)
           /\ unread \in 0 .. OutCap /\ written \in Seq(Chunk)
           /\ good \in SUBSET ((DOMAIN Reqs) \X Deps)
           /\ [pc EXCEPT !.at = "recv"] \in Points /\ [pc EXCEPT !.at = "parse"] \in Points
           /\ \A u : Return(u) \in Points /\ Proceed(u) \in Points
<1>1. pc.at # "loop" => conn.state = "open"
  BY DEF Typed, TypeOK, Loop
<1>2. pc \in Points
  BY DEF Typed, TypeOK
<1>3. [pc EXCEPT !.at = "recv"] \in Points /\ [pc EXCEPT !.at = "parse"] \in Points
  BY <1>2 DEF Points
<1>4. \A u : Return(u) \in Points /\ Proceed(u) \in Points
  BY <1>2, <1>3 DEF Return, Proceed, Loop, Points
<1>5. Rekeyed \in {"none", "due", "here", "done"}
  BY DEF Typed, TypeOK, Rekeyed
<1>6. Called(up)
  BY DEF Called, Typed, TypeOK
<1>7. QED
  BY <1>1, <1>2, <1>3, <1>4, <1>5, <1>6 DEF Typed, TypeOK

\* handle_client and the outer loop of handle_read keep the types.
LEMMA RecvTyped ==
    ASSUME Typed, HandleEvent \/ HandleHangup \/ RecvBuffered \/ RecvData \/ RecvEnds \/ RecvAgain
    PROVE  Typed'
<1> USE HandlerOpen
<1>1. CASE HandleEvent
  <2>1. conn' \in Conn /\ conn'.state = "open"
    BY <1>1, Zenon DEF HandleEvent, Conn
  <2>2. pc' \in Points
    BY <1>1 DEF HandleEvent, Loop, Points
  <2>3. QED
    BY <1>1, <2>1, <2>2, HandlerTyped DEF HandleEvent, client, tls, output
<1>2. CASE HandleHangup
  BY <1>2, CleanupType DEF HandleHangup, Endings
<1>3. CASE RecvBuffered
  <2>1. conn.state = "open"
    BY <1>3 DEF RecvBuffered
  <2>2. QED
    BY <1>3, <2>1, HandlerTyped DEF RecvBuffered, client, tls, output
<1>4. CASE RecvData
  <2>1. /\ conn' \in Conn /\ conn'.state = conn.state
        /\ kernel_in' \in Seq(Piece) /\ ssl_in' \in Seq(Piece)
    <3>1. CASE \E n \in 1 .. Len(ssl_in) :
                  /\ conn' = [conn EXCEPT !.read_buf = SubSeq(ssl_in, 1, n)]
                  /\ ssl_in' = SubSeq(ssl_in, n + 1, Len(ssl_in))
                  /\ kernel_in' = kernel_in
      <4>1. PICK n \in 1 .. Len(ssl_in) :
                  /\ conn' = [conn EXCEPT !.read_buf = SubSeq(ssl_in, 1, n)]
                  /\ ssl_in' = SubSeq(ssl_in, n + 1, Len(ssl_in))
                  /\ kernel_in' = kernel_in
        BY <3>1, Zenon
      <4>2. Len(ssl_in) \in 1 .. Len(ssl_in) /\ n \in 1 .. Len(ssl_in)
        BY <4>1
      <4>3. SubSeq(ssl_in, 1, n) \in Seq(Piece) /\ SubSeq(ssl_in, n + 1, Len(ssl_in)) \in Seq(Piece)
        BY <4>2, SegmentType
      <4>4. QED
        BY <4>1, <4>3, Zenon DEF Conn
    <3>2. CASE \E m \in 1 .. Len(kernel_in) : \E n \in 1 .. m :
                  /\ conn' = [conn EXCEPT !.read_buf = SubSeq(kernel_in, 1, n)]
                  /\ ssl_in' = SubSeq(kernel_in, n + 1, m)
                  /\ kernel_in' = SubSeq(kernel_in, m + 1, Len(kernel_in))
      <4>0. PICK m \in 1 .. Len(kernel_in) : \E n \in 1 .. m :
                  /\ conn' = [conn EXCEPT !.read_buf = SubSeq(kernel_in, 1, n)]
                  /\ ssl_in' = SubSeq(kernel_in, n + 1, m)
                  /\ kernel_in' = SubSeq(kernel_in, m + 1, Len(kernel_in))
        BY <3>2, Zenon
      <4>1. PICK n \in 1 .. m :
                  /\ conn' = [conn EXCEPT !.read_buf = SubSeq(kernel_in, 1, n)]
                  /\ ssl_in' = SubSeq(kernel_in, n + 1, m)
                  /\ kernel_in' = SubSeq(kernel_in, m + 1, Len(kernel_in))
        BY <4>0, Zenon
      <4>2. /\ SubSeq(kernel_in, 1, n) \in Seq(Piece) /\ SubSeq(kernel_in, n + 1, m) \in Seq(Piece)
            /\ SubSeq(kernel_in, m + 1, Len(kernel_in)) \in Seq(Piece)
        BY SegmentType
      <4>3. QED
        BY <4>1, <4>2, Zenon DEF Conn
    <3>3. \A m \in 1 .. Len(kernel_in) : (IF script.large THEN 1 .. m ELSE {m}) \subseteq 1 .. m
      OBVIOUS
    <3>4. QED
      BY <1>4, <3>1, <3>2, <3>3, Zenon DEF RecvData
  <2>2. conn.state = "open"
    BY <1>4 DEF RecvData
  <2>3. QED
    BY <1>4, <2>1, <2>2, HandlerTyped DEF RecvData, client, output
<1>5. CASE RecvEnds
  BY <1>5, CleanupType, Zenon DEF RecvEnds, Endings
<1>6. CASE RecvAgain
  <2>1. RearmReads(conn) \in Conn /\ RearmReads(conn).state = conn.state
    BY Zenon DEF RearmReads, Conn
  <2>2. conn' \in Conn /\ conn'.state = "open"
    BY <1>6, <2>1 DEF RecvAgain
  <2>3. QED
    BY <1>6, <2>2, HandlerTyped DEF RecvAgain, client, output
<1>7. QED
  BY <1>1, <1>2, <1>3, <1>4, <1>5, <1>6

-----------------------------------------------------------------------------
(* What a step of the inner loop, or the end of a call, does to the queue. *)

\* An aggregate is reported ok only if its required dependencies answered.
Honest(chunk, r, g) ==
    chunk.status = "ok" /\ r[chunk.req].route = "composite" =>
        \A d \in Required : <<chunk.req, d>> \in g

\* A file is only served to an unrouted request.
Unrouted(file) == file # None => Reqs[file.req].route = "none"

\* Responses are added at the end of the queue, and a file behind it.
Adds(chunks) ==
    /\ conn'.queue = conn.queue \o chunks
    /\ conn'.file = conn.file \/ Unrouted(conn'.file)
    /\ \A k \in DOMAIN chunks : Honest(chunks[k], Reqs, good')

Responds ==
    /\ conn' \in Conn /\ conn'.state = conn.state /\ conn'.pending = conn.pending
    /\ \/ conn'.queue = conn.queue /\ conn'.file = conn.file
       \/ conn'.queue # <<>> /\ \E chunks \in Seq(Chunk) : Adds(chunks)

\* A response put into the queue, once it is known to be honest.
LEMMA Responded ==
    ASSUME script \in Scripts, conn \in Conn, NEW c, Consumed(conn, c),
           NEW chunks \in Seq(Chunk), Queued(c, conn', chunks),
           \A k \in DOMAIN chunks : Honest(chunks[k], Reqs, good')
    PROVE  Responds
BY Zenon DEF Responds, Adds, Queued, Consumed

\* finalize_response, for a request that was consumed from c.
LEMMA FinalizedResponds ==
    ASSUME script \in Scripts, conn \in Conn, NEW c, Consumed(conn, c),
           NEW i \in DOMAIN Reqs, NEW status \in Statuses, conn' = Finalized(c, i, status),
           Reqs[i].route = "composite" /\ status = "ok" => \A d \in Required : <<i, d>> \in good'
    PROVE  Responds
<1>1. c \in Conn
  BY DEF Consumed
<1>2. Queued(c, conn', Framed(i, status))
  BY <1>1, FinalizedType
<1>3. /\ Framed(i, status) \in Seq(Chunk)
      /\ \A k \in DOMAIN Framed(i, status) :
            Framed(i, status)[k].req = i /\ Framed(i, status)[k].status = status
  BY FramedType
<1>4. \A k \in DOMAIN Framed(i, status) : Honest(Framed(i, status)[k], Reqs, good')
  BY <1>3 DEF Honest
<1>5. QED
  BY <1>2, <1>3, <1>4, Responded

\* No request is consumed.
LEMMA ConsumedNothing ==
    ASSUME conn \in Conn
    PROVE  Consumed(conn, conn)
BY DEF Consumed

\* send_error_response reports no success.
LEMMA RefusedResponds ==
    ASSUME script \in Scripts, conn \in Conn, NEW c, Consumed(conn, c),
           NEW chunks \in Seq(Chunk), chunks # <<>>, \A k \in DOMAIN chunks : chunks[k].status # "ok",
           conn' \in Conn, conn'.queue = Refused(c, chunks).queue,
           conn'.state = Refused(c, chunks).state, conn'.pending = Refused(c, chunks).pending,
           conn'.file = Refused(c, chunks).file
    PROVE  Responds
<1>1. c \in Conn
  BY DEF Consumed
<1>2. Queued(c, Refused(c, chunks), chunks)
  BY <1>1, RefusedType, Zenon
<1>3. \A k \in DOMAIN chunks : Honest(chunks[k], Reqs, good')
  BY DEF Honest
<1> HIDE DEF Refused
<1>4. QED
  BY <1>2, <1>3, Zenon DEF Responds, Adds, Queued, Consumed

\* The parser and the local routes.
LEMMA ParseResponds ==
    ASSUME Typed,
           ParseRejects \/ ParseRemains \/ ParseHead \/ Deny \/ ServeUnrouted \/ ServeLocal
           \/ RefuseUpstream
    PROVE  Responds
<1>1. conn.read_buf # <<>> /\ conn \in Conn /\ script \in Scripts
  BY DEF Typed, TypeOK, ParseRejects, ParseRemains, ParseHead, Parsed, Deny, ServeUnrouted, ServeLocal,
         RefuseUpstream
<1>2. /\ Piece1.req \in DOMAIN Reqs
      /\ Tail(conn.read_buf) \in Seq(Piece)
      /\ Current \in DOMAIN Reqs
      /\ Headers \in SUBSET {"length", "close"}
  BY <1>1, PieceType
<1>3. Consumed(conn, Taken) /\ Consumed(conn, Routed) /\ Consumed(conn, conn)
  BY <1>1, TakenType, ConsumedNothing
<1>4. Piece1.req \in 0 .. Len(Reqs)
  BY <1>1, <1>2, ReqsType
<1> HIDE DEF Taken, Routed
<1>5. CASE ParseRejects
  <2> DEFINE chunks == Framed(Piece1.req, "400")
  <2>1. /\ chunks \in Seq(Chunk) /\ chunks # <<>>
        /\ \A k \in DOMAIN chunks : chunks[k].status = "400"
    BY <1>1, <1>2, FramedType DEF Statuses
  <2> HIDE DEF chunks
  <2>2. Refused(conn, chunks) \in Conn
    BY <1>1, <2>1, RefusedType, Zenon DEF Queued
  <2>3. PICK rest \in {<<>>, <<[req |-> Piece1.req, part |-> "rest"]>>} :
          conn' = [Refused(conn, chunks) EXCEPT
                      !.read_buf = rest \o Tail(conn.read_buf), !.headers = {},
                      !.taken = Piece1.req]
    BY <1>5, Zenon DEF ParseRejects, chunks
  <2>4. rest \in Seq(Piece)
    <3>1. [req |-> Piece1.req, part |-> "rest"] \in Piece
      BY <1>2 DEF Piece
    <3>2. <<>> \in Seq(Piece) /\ <<[req |-> Piece1.req, part |-> "rest"]>> \in Seq(Piece)
      BY <3>1
    <3>3. QED
      BY <3>2, Zenon
  <2>5. rest \o Tail(conn.read_buf) \in Seq(Piece)
    BY <1>2, <2>4
  <2>6. /\ conn' \in Conn /\ conn'.queue = Refused(conn, chunks).queue
        /\ conn'.state = Refused(conn, chunks).state /\ conn'.pending = Refused(conn, chunks).pending
        /\ conn'.file = Refused(conn, chunks).file
    BY <1>4, <2>2, <2>3, <2>5, Zenon DEF Conn
  <2>7. QED
    BY <1>1, <1>3, <2>1, <2>6, RefusedResponds
<1>6. CASE ParseRemains
  <2> DEFINE chunks == <<[req |-> Piece1.req, part |-> "again", status |-> "400"]>>
  <2>1. /\ chunks \in Seq(Chunk) /\ chunks # <<>>
        /\ \A k \in DOMAIN chunks : chunks[k].status # "ok"
    <3>1. [req |-> Piece1.req, part |-> "again", status |-> "400"] \in Chunk
      BY <1>2 DEF Chunk
    <3>2. QED
      BY <3>1
  <2>2. Refused(conn, chunks) \in Conn
    BY <1>1, <2>1, RefusedType, Zenon DEF Queued
  <2>3. CASE conn' = [Refused(conn, chunks) EXCEPT !.read_buf = Tail(conn.read_buf), !.headers = {}]
    <3> HIDE DEF chunks
    <3>1. /\ conn' \in Conn /\ conn'.queue = Refused(conn, chunks).queue
          /\ conn'.state = Refused(conn, chunks).state /\ conn'.pending = Refused(conn, chunks).pending
          /\ conn'.file = Refused(conn, chunks).file
      BY <1>2, <2>2, <2>3, Zenon DEF Conn
    <3>2. QED
      BY <1>1, <1>3, <2>1, <3>1, RefusedResponds
  <2>4. CASE conn' = [conn EXCEPT !.read_buf = Tail(conn.read_buf)]
    BY <1>1, <1>2, <2>4, Zenon DEF Responds, Conn
  <2>5. QED
    BY <1>6, <2>3, <2>4, Zenon DEF ParseRemains
<1>7. CASE ParseHead
  <2>1. conn' = [conn EXCEPT !.read_buf = Tail(conn.read_buf), !.headers = Headers,
                             !.parsing = Piece1.req]
    BY <1>7 DEF ParseHead
  <2>2. QED
    BY <1>1, <1>2, <2>1, Zenon DEF Responds, Conn
<1>8. CASE Deny
  <2> DEFINE chunks == Framed(Current, "denied")
  <2>1. /\ chunks \in Seq(Chunk) /\ chunks # <<>>
        /\ \A k \in DOMAIN chunks : chunks[k].status = "denied"
    BY <1>1, <1>2, FramedType DEF Statuses
  <2> HIDE DEF chunks
  <2>2. Taken \in Conn
    BY <1>3 DEF Consumed
  <2>3. Refused(Taken, chunks) \in Conn
    BY <1>1, <2>1, <2>2, RefusedType, Zenon DEF Queued
  <2>4. conn' = Refused(Taken, chunks)
    BY <1>8 DEF Deny, chunks
  <2>5. QED
    BY <1>1, <1>3, <2>1, <2>3, <2>4, RefusedResponds
<1>9. CASE ServeUnrouted
  <2> DEFINE chunks == Framed(Current, "ok")
             final == Finalized(Taken, Current, "ok")
             file == IF Reqs[Current].body = "file"
                     THEN [req |-> Current, left |-> FileParts] ELSE Taken.file
  <2>1. chunks \in Seq(Chunk) /\ \A k \in DOMAIN chunks : chunks[k].req = Current
    BY <1>1, <1>2, FramedType DEF Statuses
  <2>2. Taken \in Conn
    BY <1>3 DEF Consumed
  <2>3. Queued(Taken, final, chunks)
    BY <1>1, <1>2, <2>2, FinalizedType DEF Statuses
  <2>4. Reqs[Current].route = "none" /\ conn' = [final EXCEPT !.file = file]
    BY <1>9 DEF ServeUnrouted
  <2>5. \A k \in DOMAIN chunks : Honest(chunks[k], Reqs, good')
    BY <2>1, <2>4 DEF Honest
  <2>6. file = conn.file \/ (file = [req |-> Current, left |-> FileParts] /\ file.req = Current)
    BY <1>3 DEF Consumed
  <2>7. file \in {None} \cup [req : DOMAIN Reqs, left : 1 .. FileParts]
    BY <1>1, <1>2, <2>6, ReqsType DEF Conn
  <2> HIDE DEF final, chunks, file
  <2>8. /\ conn' \in Conn /\ conn'.file = file /\ conn'.queue = final.queue
        /\ conn'.state = final.state /\ conn'.pending = final.pending
    BY <2>3, <2>4, <2>7, Zenon DEF Queued, Conn
  <2>9. file = conn.file \/ Unrouted(file)
    BY <2>4, <2>6 DEF Unrouted
  <2>10. QED
    BY <1>3, <2>1, <2>3, <2>5, <2>8, <2>9, Zenon DEF Responds, Adds, Queued, Consumed
<1>10. CASE ServeLocal
  <2>1. conn' = Finalized(Routed, Current, "ok") /\ Reqs[Current].route = "local"
    BY <1>10 DEF ServeLocal
  <2>2. QED
    BY <1>1, <1>2, <1>3, <2>1, FinalizedResponds DEF Statuses
<1>11. CASE RefuseUpstream
  <2>1. conn' = Finalized(Routed, Current, "502") /\ Reqs[Current].route = "upstream"
    BY <1>11 DEF RefuseUpstream
  <2>2. QED
    BY <1>1, <1>2, <1>3, <2>1, FinalizedResponds DEF Statuses
<1>12. QED
  BY <1>5, <1>6, <1>7, <1>8, <1>9, <1>10, <1>11

-----------------------------------------------------------------------------
(* Upstream and composite calls.                                           *)

\* A dependency counts as answered only if its backend answered.
Reports(i, child, g) ==
    Reqs[i].route = "composite" => \A d \in Deps : child[d] = "ok" => <<i, d>> \in g

Reported == up # None => Reports(up.req, up.child, good)

\* What a call has come to is recorded, and all that is recorded is well formed.
LEMMA AnsweringReports ==
    ASSUME script \in Scripts, NEW i \in DOMAIN Reqs, NEW child \in [Children(i) -> Outcomes], NEW g
    PROVE  /\ Reports(i, child, g \cup Answering(i, child))
           /\ Answering(i, child) \in SUBSET ((DOMAIN Reqs) \X Deps)
<1>1. Answering(i, child) \in SUBSET ((DOMAIN Reqs) \X Deps)
  BY DEF Answering
<1>2. ASSUME Reqs[i].route = "composite", NEW d \in Deps, child[d] = "ok"
      PROVE  <<i, d>> \in g \cup Answering(i, child)
  <2>1. d \in DOMAIN child
    BY <1>2 DEF Children
  <2>2. QED
    BY <1>2, <2>1 DEF Answering
<1>3. QED
  BY <1>1, <1>2 DEF Reports

\* finish_child, finalize_composite: the verdict is ok only if the calls that count were.
LEMMA VerdictHonest ==
    ASSUME script \in Scripts, NEW i \in DOMAIN Reqs, NEW child \in [Children(i) -> Outcomes],
           Finished(child), NEW g, Reports(i, child, g)
    PROVE  /\ Verdict(i, child) \in Statuses
           /\ Reqs[i].route = "composite" /\ Verdict(i, child) = "ok" =>
                 \A d \in Required : <<i, d>> \in g
<1>1. Verdict(i, child) \in Statuses
  BY DEF Verdict, Statuses
<1>2. ASSUME Reqs[i].route = "composite", Verdict(i, child) = "ok", NEW d \in Required
      PROVE  <<i, d>> \in g
  <2>1. d \in Deps /\ DOMAIN child = Deps
    BY <1>2, ReqsType DEF Children
  <2>2. child[d] # "failed" /\ child[d] # "live"
    BY <1>2, <2>1 DEF Verdict, Finished
  <2>3. child[d] \in Outcomes
    BY <2>1
  <2>4. child[d] = "ok"
    BY <2>2, <2>3 DEF Outcomes
  <2>5. QED
    BY <1>2, <2>1, <2>4 DEF Reports
<1>3. QED
  BY <1>1, <1>2

\* The calls after a step: still in flight and reported, or none and answered for.
Calls ==
    /\ Called(up') /\ Responds
    /\ good' \in SUBSET ((DOMAIN Reqs) \X Deps) /\ good \subseteq good'
    /\ up' # None => Reports(up'.req, up'.child, good')

\* start_upstream_exchange, start_composite_exchange, on_upstream_event and the
\* deadlines: child is what the calls for request i have come to.
LEMMA CallsType ==
    ASSUME Typed, NEW i \in DOMAIN Reqs, NEW child \in [Children(i) -> Outcomes],
           NEW c, Consumed(conn, c),
           good' = good \cup Answering(i, child),
           \/ /\ Finished(child) /\ up' = None
              /\ conn' = Finalized(c, i, Verdict(i, child))
           \/ /\ up' = [req |-> i, child |-> child]
              /\ conn' = c
    PROVE  Calls
<1>1. script \in Scripts /\ conn \in Conn /\ good \in SUBSET ((DOMAIN Reqs) \X Deps)
  BY DEF Typed, TypeOK
<1>2. Reports(i, child, good') /\ Answering(i, child) \in SUBSET ((DOMAIN Reqs) \X Deps)
  BY <1>1, AnsweringReports
<1>3. good' \in SUBSET ((DOMAIN Reqs) \X Deps) /\ good \subseteq good'
  BY <1>1, <1>2
<1>4. CASE Finished(child) /\ up' = None /\ conn' = Finalized(c, i, Verdict(i, child))
  <2>1. /\ Verdict(i, child) \in Statuses
        /\ Reqs[i].route = "composite" /\ Verdict(i, child) = "ok" =>
              \A d \in Required : <<i, d>> \in good'
    BY <1>1, <1>2, <1>4, VerdictHonest
  <2>2. Responds
    BY <1>1, <1>4, <2>1, FinalizedResponds
  <2>3. QED
    BY <1>3, <1>4, <2>2 DEF Calls, Called
<1>5. CASE up' = [req |-> i, child |-> child] /\ conn' = c
  <2>1. up'.req = i /\ up'.child = child /\ up' \in Call(i)
    BY <1>5 DEF Call
  <2>2. Responds
    BY <1>5, Zenon DEF Responds, Consumed
  <2>3. Called(up')
    BY <2>1 DEF Called
  <2>4. QED
    BY <1>2, <1>3, <2>1, <2>2, <2>3 DEF Calls
<1>6. QED
  BY <1>4, <1>5

\* The calls for a request are started, or one of them or all of them end.
LEMMA CallsStep ==
    ASSUME Typed, StartExchange \/ ChildEnds \/ TotalDeadline
    PROVE  Calls
<1>1. CASE StartExchange
  <2>1. PICK child \in [Children(Current) -> Outcomes] :
          /\ good' = good \cup Answering(Current, child)
          /\ IF Finished(child)
             THEN /\ conn' = Finalized(Routed, Current, Verdict(Current, child))
                  /\ up' = None
             ELSE /\ conn' = Routed
                  /\ up' = [req |-> Current, child |-> child]
    BY <1>1 DEF StartExchange
  <2>2. conn.read_buf # <<>>
    BY <1>1 DEF StartExchange, Parsed
  <2>3. Current \in DOMAIN Reqs /\ Consumed(conn, Routed)
    BY <2>2, PieceType, TakenType
  <2> HIDE DEF Routed, Current
  <2>4. QED
    BY <2>1, <2>3, CallsType
<1>2. ASSUME up # None, NEW child \in [Children(up.req) -> Outcomes], Settle(child)
      PROVE  Calls
  <2>1. up.req \in DOMAIN Reqs /\ up \in Call(up.req) /\ conn \in Conn
    BY <1>2 DEF Typed, TypeOK
  <2>2. Consumed(conn, conn)
    BY <2>1, ConsumedNothing
  <2>3. \/ /\ Finished(child) /\ up' = None
           /\ conn' = Finalized(conn, up.req, Verdict(up.req, child))
        \/ up' = [up EXCEPT !.child = child] /\ conn' = conn
    BY <1>2 DEF Settle
  <2>4. [up EXCEPT !.child = child] = [req |-> up.req, child |-> child]
    BY <2>1 DEF Call
  <2>5. good' = good \cup Answering(up.req, child)
    BY <1>2 DEF Settle
  <2>6. QED
    BY <1>2, <2>1, <2>2, <2>3, <2>4, <2>5, CallsType
<1>3. up # None => up.child \in [Children(up.req) -> Outcomes]
  BY DEF Typed, Call
<1>4. CASE ChildEnds
  <2>1. PICK d \in DOMAIN up.child, outcome \in {"ok", "failed"} :
          Settle([up.child EXCEPT ![d] = outcome])
    BY <1>4 DEF ChildEnds
  <2>2. up # None /\ [up.child EXCEPT ![d] = outcome] \in [Children(up.req) -> Outcomes]
    BY <1>3, <1>4, <2>1 DEF ChildEnds, Outcomes
  <2>3. QED
    BY <1>2, <2>1, <2>2
<1>5. CASE TotalDeadline
  <2>1. up # None /\ Settle(Cut(up.child))
    BY <1>5 DEF TotalDeadline
  <2>2. Cut(up.child) \in [Children(up.req) -> Outcomes]
    BY <1>3, <2>1 DEF Cut, Outcomes
  <2>3. QED
    BY <1>2, <2>1, <2>2
<1>6. QED
  BY <1>1, <1>4, <1>5

-----------------------------------------------------------------------------
(* Every step keeps the types.                                             *)

\* What the inner loop of handle_read does not touch.
Undisturbed == UNCHANGED <<client, tls, output, draining>>

\* The inner loop goes on, goes back to the outer one, or leaves a call in flight.
Continues == pc'.at \in {"recv", "parse"} \/ (pc' = Loop /\ up' # None)

Inner ==
    \/ ParseRejects \/ ParseRemains \/ ParseHead \/ Deny \/ ServeUnrouted \/ ServeLocal
    \/ RefuseUpstream \/ StartExchange

\* A step of the inner loop.
LEMMA InnerStep ==
    ASSUME Typed, Reported, Inner
    PROVE  /\ pc.at = "parse" /\ conn.state = "open"
           /\ Undisturbed /\ Calls /\ pc' \in Points /\ Continues
<1>1. pc.at = "parse" /\ Undisturbed
  BY DEF Inner, ParseRejects, ParseRemains, ParseHead, Parsed, Deny, ServeUnrouted, ServeLocal,
         RefuseUpstream, StartExchange, Undisturbed
<1>2. conn.state = "open" /\ pc \in Points
  BY <1>1, HandlerOpen
<1>3. \/ pc' = pc
      \/ pc' = [pc EXCEPT !.at = "recv"]
      \/ pc' = Proceed(up')
  BY DEF Inner, ParseRejects, ParseRemains, ParseHead, Deny, ServeUnrouted, ServeLocal,
         RefuseUpstream, StartExchange
<1>4. [pc EXCEPT !.at = "recv"].at = "recv"
  BY <1>2 DEF Points
<1>5. pc' \in Points
  BY <1>2, <1>3, HandlerOpen, Zenon
<1>6. Continues
  BY <1>1, <1>3, <1>4, Zenon DEF Continues, Proceed
<1>7. Calls
  <2>1. CASE StartExchange
    BY <2>1, CallsStep
  <2>2. CASE ~StartExchange
    <3>1. Responds
      BY <2>2, ParseResponds DEF Inner
    <3>2. up' = up /\ good' = good
      BY <2>2 DEF Inner, ParseRejects, ParseRemains, ParseHead, Deny, ServeUnrouted, ServeLocal,
                  RefuseUpstream
    <3>3. QED
      BY <3>1, <3>2, HandlerOpen DEF Calls, Reported
  <2>3. QED
    BY <2>1, <2>2
<1>8. QED
  BY <1>1, <1>2, <1>5, <1>6, <1>7
\* A published call is not the absence of calls.
LEMMA CallIsSome ==
    ASSUME script \in Scripts, NEW i \in DOMAIN Reqs, NEW u \in Call(i)
    PROVE  u # None
<1>1. i \in Nat
  BY ReqsType
<1>2. [Children(i) -> Outcomes] \subseteq [Deps -> Outcomes] \cup [{None} -> Outcomes]
  BY DEF Children
<1>3. u \in [req : Nat, child : [Deps -> Outcomes] \cup [{None} -> Outcomes]]
  BY <1>1, <1>2 DEF Call
<1>4. QED
  BY <1>3, ConnectionAssumption

\* A call ends between two events.  With the last one the fd is armed for both
\* directions; until then the connection stays as it is.
LEMMA CallEnds ==
    ASSUME Typed, ChildEnds \/ TotalDeadline
    PROVE  /\ pc = Loop /\ pc' = pc /\ conn.state = "open" /\ Undisturbed /\ Calls
           /\ \/ conn' = conn /\ up' # None
              \/ conn'.armed = {"IN", "OUT"} /\ conn'.queue # <<>>
<1>1. /\ pc = Loop /\ up # None
      /\ \E child \in [Children(up.req) -> Outcomes] : Settle(child)
  <2>1. pc = Loop /\ up # None
    BY DEF ChildEnds, TotalDeadline
  <2>2. up.child \in [Children(up.req) -> Outcomes]
    BY <2>1 DEF Typed, Call
  <2>3. CASE ChildEnds
    <3>1. PICK d \in DOMAIN up.child, outcome \in {"ok", "failed"} :
            Settle([up.child EXCEPT ![d] = outcome])
      BY <2>3 DEF ChildEnds
    <3>2. [up.child EXCEPT ![d] = outcome] \in [Children(up.req) -> Outcomes]
      BY <2>2, <3>1 DEF Outcomes
    <3>3. QED
      BY <2>1, <3>1, <3>2
  <2>4. CASE TotalDeadline
    <3>1. Cut(up.child) \in [Children(up.req) -> Outcomes]
      BY <2>2 DEF Cut, Outcomes
    <3>2. QED
      BY <2>1, <2>4, <3>1 DEF TotalDeadline
  <2>5. QED
    BY <2>3, <2>4
<1>2. PICK child \in [Children(up.req) -> Outcomes] : Settle(child)
  BY <1>1
<1>3. pc' = pc /\ Undisturbed
  BY <1>2 DEF Settle, Undisturbed
<1>4. conn.state = "open" /\ up.req \in DOMAIN Reqs /\ up \in Call(up.req) /\ script \in Scripts
      /\ conn \in Conn
  BY <1>1 DEF Typed, TypeOK
<1>5. Calls
  BY CallsStep
<1>6. CASE Finished(child)
  <2>1. conn' = Finalized(conn, up.req, Verdict(up.req, child))
    BY <1>2, <1>6 DEF Settle
  <2>2. Verdict(up.req, child) \in Statuses
    BY DEF Verdict, Statuses
  <2>3. conn'.armed = {"IN", "OUT"} /\ conn'.queue # <<>>
    BY <1>4, <2>1, <2>2, FinalizedType DEF Queued
  <2>4. QED
    BY <1>1, <1>3, <1>4, <1>5, <2>3
<1>7. CASE ~Finished(child)
  <2>1. conn' = conn /\ up' = [up EXCEPT !.child = child]
    BY <1>2, <1>7 DEF Settle
  <2>2. up' \in Call(up.req)
    BY <1>4, <2>1 DEF Call
  <2>3. up' # None
    BY <1>4, <2>2, CallIsSome
  <2>4. QED
    BY <1>1, <1>3, <1>4, <1>5, <2>1, <2>3
<1>8. QED
  BY <1>6, <1>7

\* handle_write keeps the types.
LEMMA WriteTyped ==
    ASSUME Typed,
           WriteChunk \/ WriteFilePart \/ WriteBlocks \/ WriteFails \/ WriteDone \/ FileTruncated
    PROVE  Typed'
<1> USE HandlerOpen
<1>1. CASE WriteChunk
  <2>1. conn.queue \in Seq(Chunk) /\ conn.queue # <<>> /\ conn.state = "open"
    BY <1>1 DEF WriteChunk, Conn
  <2>2. Tail(conn.queue) \in Seq(Chunk) /\ Head(conn.queue) \in Chunk
    BY <2>1
  <2>3. conn' \in Conn /\ conn'.state = "open"
    BY <1>1, <2>1, <2>2, Zenon DEF WriteChunk, Conn
  <2>4. written' \in Seq(Chunk) /\ unread' \in 0 .. OutCap /\ rekey' = Rekeyed
    <3>1. written' = Append(written, Head(conn.queue)) /\ unread' = unread + 1 /\ unread < OutCap
          /\ rekey' = Rekeyed
      BY <1>1 DEF WriteChunk, Written, Writable
    <3>2. OutCap \in Nat
      BY ReqsType
    <3>3. QED
      BY <2>2, <3>1, <3>2
  <2>5. QED
    BY <1>1, <2>3, <2>4, HandlerTyped DEF WriteChunk, client
<1>2. CASE WriteFilePart
  <2>1. conn.file \in [req : DOMAIN Reqs, left : 1 .. FileParts] /\ conn.state = "open"
    BY <1>2 DEF WriteFilePart, Conn
  <2>2. FilePart(conn.file.req) \in Chunk
    BY <2>1 DEF FilePart, Chunk
  <2> DEFINE file == IF conn.file.left = 1 THEN None
                     ELSE [conn.file EXCEPT !.left = conn.file.left - 1]
  <2>3. file \in {None} \cup [req : DOMAIN Reqs, left : 1 .. FileParts]
    <3>1. FileParts \in Nat
      BY ReqsType
    <3>2. QED
      BY <2>1, <3>1
  <2>4. conn' = [conn EXCEPT !.pending = FALSE, !.file = file]
    BY <1>2 DEF WriteFilePart
  <2> HIDE DEF file
  <2>5. conn' \in Conn /\ conn'.state = "open"
    BY <2>1, <2>3, <2>4, Zenon DEF Conn
  <2>6. written' \in Seq(Chunk) /\ unread' \in 0 .. OutCap /\ rekey' = Rekeyed
    <3>1. written' = Append(written, FilePart(conn.file.req)) /\ unread' = unread + 1
          /\ unread < OutCap /\ rekey' = Rekeyed
      BY <1>2 DEF WriteFilePart, Written, Writable
    <3>2. OutCap \in Nat
      BY ReqsType
    <3>3. QED
      BY <2>2, <3>1, <3>2
  <2>7. QED
    BY <1>2, <2>5, <2>6, HandlerTyped DEF WriteFilePart, client
<1>3. CASE WriteBlocks
  <2>1. conn' \in Conn /\ conn'.state = "open"
    BY <1>3, Zenon DEF WriteBlocks, SslWant, Conn
  <2>2. Loop \in Points
    BY DEF Loop, Points
  <2>3. QED
    BY <1>3, <2>1, <2>2, HandlerTyped DEF WriteBlocks, client, tls, output
<1>4. CASE WriteFails
  BY <1>4, CleanupType DEF WriteFails, Endings
<1>5. CASE FileTruncated
  BY <1>5, CleanupType DEF FileTruncated, Endings
<1>6. CASE WriteDone
  <2>1. CASE Cleanup("finished")
    BY <2>1, CleanupType DEF Endings
  <2>2. CASE ~Cleanup("finished")
    <3>1. conn' \in Conn /\ conn'.state = "open" /\ pc' \in Points
      <4>1. /\ conn' = conn \/ conn' = [conn EXCEPT !.armed = {"IN"}]
            /\ pc' = Loop \/ pc' = [at |-> "recv", nested |-> TRUE]
            /\ conn.state = "open"
        BY <1>6, <2>2 DEF WriteDone
      <4>2. pc' \in Points
        <5>1. Loop \in Points /\ [at |-> "recv", nested |-> TRUE] \in Points
          BY DEF Points, Loop
        <5>2. QED
          BY <4>1, <5>1, Zenon
      <4>3. conn' \in Conn /\ conn'.state = "open"
        BY <4>1, Zenon DEF Conn
      <4>4. QED
        BY <4>2, <4>3
    <3>2. QED
      BY <1>6, <2>2, <3>1, HandlerTyped DEF WriteDone, client, tls, output
  <2>3. QED
    BY <2>1, <2>2
<1>7. QED
  BY <1>1, <1>2, <1>3, <1>4, <1>5, <1>6

\* The client and the operator keep the types.
LEMMA OthersTyped ==
    ASSUME Typed,
           \/ Stop \/ DrainSweep \/ ParseWaits
           \/ ClientSends \/ ClientReads \/ ClientCloses \/ PeerRekeys \/ PeerAnswers
           \/ UNCHANGED vars
    PROVE  Typed'
<1>1. CASE Stop
  BY <1>1, SameTypes DEF Stop, Typed, TypeOK, client, tls, output
<1>2. CASE DrainSweep
  BY <1>2, CleanupType, Zenon DEF DrainSweep, Endings
<1>3. CASE ParseWaits
  <2>1. conn.state = "open"
    BY <1>3, HandlerOpen DEF ParseWaits
  <2>2. QED
    BY <1>3, <2>1, HandlerOpen, HandlerTyped DEF ParseWaits, client, tls, output
<1>4. CASE ClientSends
  <2>1. /\ sent \in 0 .. Len(Stream) /\ sent < Len(Stream) /\ sent' = sent + 1
        /\ kernel_in' = Append(kernel_in, Next1) /\ script \in Scripts
    BY <1>4 DEF ClientSends, Typed, TypeOK
  <2>2. Stream \in Seq(Piece)
    BY <2>1, StreamType
  <2>3. Next1 \in Piece /\ sent' \in 0 .. Len(Stream)
    BY <2>1, <2>2 DEF Next1
  <2>4. kernel_in' \in Seq(Piece)
    BY <2>1, <2>3, SMTT(20) DEF Typed, TypeOK
  <2>5. QED
    BY <1>4, <2>3, <2>4, SameTypes, SMTT(20) DEF ClientSends, Typed, TypeOK, output
<1>5. CASE ClientReads
  <2>1. unread' \in 0 .. OutCap
    <3>1. OutCap \in Nat /\ unread \in 0 .. OutCap
      BY ReqsType DEF Typed, TypeOK
    <3>2. QED
      BY <1>5, <3>1 DEF ClientReads
  <2>2. QED
    BY <1>5, <2>1, SameTypes DEF ClientReads, Typed, TypeOK, client, tls
<1>6. CASE ClientCloses
  BY <1>6, SameTypes DEF ClientCloses, Typed, TypeOK, tls, output
<1>7. CASE PeerRekeys
  BY <1>7, SameTypes DEF PeerRekeys, Typed, TypeOK, client, output
<1>8. CASE PeerAnswers
  BY <1>8, SameTypes DEF PeerAnswers, Typed, TypeOK, client, output
<1>9. CASE UNCHANGED vars
  BY <1>9, SameTypes DEF vars, Typed, TypeOK
<1>10. QED
  BY <1>1, <1>2, <1>3, <1>4, <1>5, <1>6, <1>7, <1>8, <1>9
-----------------------------------------------------------------------------
(* The inductive invariant.                                                *)

\* A write that waits has something to write, and no request is read meanwhile: the
\* next event goes to handle_write.  A file whose header is gone is being written.
Waiting ==
    /\ conn.pending => HasOutput
    /\ conn.file # None /\ conn.queue = <<>> => conn.pending \/ pc.at = "write"
    /\ pc.at \in {"recv", "parse"} => ~conn.pending

\* NoLostWakeup, and why output may be left without EPOLLOUT: handle_write waits for
\* the message that SSL_write asked for.
Awake ==
    pc = Loop /\ conn.state = "open" /\ up = None =>
        /\ conn.armed # {}
        /\ HasOutput => "OUT" \in conn.armed \/ (conn.pending /\ rekey \in {"due", "here"})
        /\ conn.read_buf # <<>> => HasOutput

\* While a file is served the request for it is known to be unrouted, and what was
\* or will be reported is honest.
Truthful ==
    /\ Unrouted(conn.file)
    /\ \A k \in DOMAIN conn.queue : Honest(conn.queue[k], Reqs, good)
    /\ \A k \in DOMAIN written : Honest(written[k], Reqs, good)
    /\ Reported

\* Records that fit the buffer of handle_read leave nothing in OpenSSL's.
Emptied == ~script.large => ssl_in = <<>>

IInv == Typed /\ Waiting /\ Awake /\ Truthful /\ Emptied

\* Chunks are only added to what is honest, and calls only add to what is good.
LEMMA StillTruthful ==
    ASSUME Typed, Truthful, Calls, script' = script, written' = written
    PROVE  Truthful'
<1>1. Reqs' = Reqs
  BY SameTypes
<1>2. good \subseteq good'
  BY DEF Calls
<1>3. \A chunk : Honest(chunk, Reqs, good) => Honest(chunk, Reqs, good')
  BY <1>2 DEF Honest
<1>4. conn.queue \in Seq(Chunk)
  BY DEF Typed, TypeOK, Conn
<1>5. /\ Unrouted(conn.file)
      /\ \A k \in DOMAIN conn.queue : Honest(conn.queue[k], Reqs, good')
      /\ \A k \in DOMAIN written : Honest(written[k], Reqs, good')
  BY <1>3 DEF Truthful
<1>6. Unrouted(conn'.file) /\ \A k \in DOMAIN conn'.queue : Honest(conn'.queue[k], Reqs, good')
  <2>1. CASE conn'.queue = conn.queue /\ conn'.file = conn.file
    BY <1>5, <2>1
  <2>2. CASE \E chunks \in Seq(Chunk) : Adds(chunks)
    <3>1. PICK chunks \in Seq(Chunk) : Adds(chunks)
      BY <2>2
    <3>2. /\ conn'.queue = conn.queue \o chunks
          /\ conn'.file = conn.file \/ Unrouted(conn'.file)
          /\ \A k \in DOMAIN chunks : Honest(chunks[k], Reqs, good')
      BY <3>1 DEF Adds
    <3>3. Unrouted(conn'.file)
      BY <1>5, <3>2
    <3>4. ASSUME NEW k \in DOMAIN conn'.queue PROVE Honest(conn'.queue[k], Reqs, good')
      <4>1. \/ k \in DOMAIN conn.queue /\ conn'.queue[k] = conn.queue[k]
            \/ \E l \in DOMAIN chunks : conn'.queue[k] = chunks[l]
        <5>1. k \in 1 .. (Len(conn.queue) + Len(chunks))
          BY <1>4, <3>2, <3>4
        <5>2. CASE k <= Len(conn.queue)
          BY <1>4, <3>2, <5>1, <5>2
        <5>3. CASE ~(k <= Len(conn.queue))
          <6>1. k - Len(conn.queue) \in DOMAIN chunks
                /\ conn'.queue[k] = chunks[k - Len(conn.queue)]
            BY <1>4, <3>2, <5>1, <5>3
          <6>2. QED
            BY <6>1
        <5>4. QED
          BY <5>2, <5>3
      <4>2. QED
        BY <1>5, <3>2, <4>1, Zenon
    <3>5. QED
      BY <3>3, <3>4
  <2>3. QED
    BY <2>1, <2>2 DEF Calls, Responds
<1>7. Reported'
  <2>1. up' # None => Reports(up'.req, up'.child, good')
    BY DEF Calls
  <2>2. QED
    BY <1>1, <2>1 DEF Reported, Reports
<1>8. Unrouted(conn.file)' <=> Unrouted(conn'.file)
  BY <1>1 DEF Unrouted
<1>9. QED
  BY <1>1, <1>5, <1>6, <1>7, <1>8 DEF Truthful

\* A step that starts no response and touches no call.
LEMMA QuietTruthful ==
    ASSUME Typed, Truthful, script' = script, good' = good, up' = up \/ up' = None,
           conn'.queue = conn.queue \/ conn'.queue = <<>>,
           conn'.file = conn.file \/ conn'.file = None, written' = written
    PROVE  Truthful'
<1>1. Reqs' = Reqs
  BY SameTypes
<1>2. Unrouted(conn.file)' <=> Unrouted(conn'.file)
  BY <1>1 DEF Unrouted
<1>3. Unrouted(conn'.file)
  BY DEF Truthful, Unrouted
<1>4. \A k \in DOMAIN conn'.queue : Honest(conn'.queue[k], Reqs, good)
  BY DEF Truthful
<1>5. Reported'
  BY <1>1 DEF Truthful, Reported, Reports
<1>6. QED
  BY <1>1, <1>2, <1>3, <1>4, <1>5 DEF Truthful
-----------------------------------------------------------------------------
(* Every step keeps the invariant.                                         *)

\* cleanup ends everything the invariant is about.
LEMMA CleanupKeeps ==
    ASSUME IInv, NEW ending \in Endings, Cleanup(ending)
    PROVE  IInv'
<1>1. /\ Typed' /\ conn'.state # "open" /\ pc' = Loop /\ up' = None
      /\ conn'.queue = <<>> /\ conn'.file = None /\ conn'.pending = FALSE
      /\ written' = written /\ good' = good /\ script' = script /\ ssl_in' = <<>>
  BY CleanupType, Zenon DEF IInv
<1>2. Truthful'
  BY <1>1, QuietTruthful DEF IInv
<1>3. Waiting' /\ Awake' /\ Emptied'
  BY <1>1 DEF Waiting, Awake, Emptied, HasOutput, Loop
<1>4. QED
  BY <1>1, <1>2, <1>3 DEF IInv

\* The inner loop of handle_read: a call is left in flight, or reading goes on.
LEMMA InnerKeeps ==
    ASSUME IInv, Inner
    PROVE  IInv'
<1>1. /\ pc.at = "parse" /\ conn.state = "open"
      /\ Undisturbed /\ Calls /\ pc' \in Points /\ Continues
  BY InnerStep DEF IInv, Truthful
<1>2. /\ script' = script /\ sent' = sent /\ peer' = peer /\ draining' = draining
      /\ rekey' = rekey /\ kernel_in' = kernel_in /\ ssl_in' = ssl_in
      /\ unread' = unread /\ written' = written
  BY <1>1 DEF Undisturbed, client, tls, output
<1>3. /\ conn' \in Conn /\ conn'.state = conn.state /\ conn'.pending = conn.pending
      /\ (conn'.queue = conn.queue /\ conn'.file = conn.file) \/ conn'.queue # <<>>
  BY <1>1 DEF Calls, Responds
<1>4. Typed'
  BY <1>1, <1>2, <1>3, HandlerOpen, HandlerTyped DEF IInv, Calls
<1>5. Truthful'
  BY <1>1, <1>2, StillTruthful DEF IInv
<1>6. ~conn.pending /\ (conn.file # None => conn.queue # <<>>)
  BY <1>1 DEF IInv, Waiting
<1>7. Waiting' /\ Awake'
  BY <1>1, <1>3, <1>6 DEF Waiting, Awake, Continues, HasOutput, Loop
<1>8. Emptied'
  BY <1>2 DEF IInv, Emptied
<1>9. QED
  BY <1>4, <1>5, <1>7, <1>8 DEF IInv

\* The end of a call arms the fd.
LEMMA CallEndsKeeps ==
    ASSUME IInv, ChildEnds \/ TotalDeadline
    PROVE  IInv'
<1>1. /\ pc = Loop /\ pc' = pc /\ conn.state = "open" /\ Undisturbed /\ Calls
      /\ \/ conn' = conn /\ up' # None
         \/ conn'.armed = {"IN", "OUT"} /\ conn'.queue # <<>>
  BY CallEnds DEF IInv
<1>2. /\ script' = script /\ sent' = sent /\ peer' = peer /\ draining' = draining
      /\ rekey' = rekey /\ kernel_in' = kernel_in /\ ssl_in' = ssl_in
      /\ unread' = unread /\ written' = written
  BY <1>1 DEF Undisturbed, client, tls, output
<1>3. conn' \in Conn /\ conn'.state = conn.state /\ conn'.pending = conn.pending
  BY <1>1 DEF Calls, Responds
<1>4. Typed'
  BY <1>1, <1>2, <1>3, HandlerOpen, HandlerTyped DEF IInv, Calls
<1>5. Truthful'
  BY <1>1, <1>2, StillTruthful DEF IInv
<1>6. Waiting' /\ Awake'
  BY <1>1, <1>3 DEF IInv, Waiting, Awake, HasOutput, Loop
<1>7. Emptied'
  BY <1>2 DEF IInv, Emptied
<1>8. QED
  BY <1>4, <1>5, <1>6, <1>7 DEF IInv

\* handle_client and the outer loop of handle_read: with nothing in flight the fd
\* is armed again before handle_read returns.
LEMMA RecvKeeps ==
    ASSUME IInv, HandleEvent \/ HandleHangup \/ RecvBuffered \/ RecvData \/ RecvEnds \/ RecvAgain
    PROVE  IInv'
<1> USE DEF IInv
<1>0. Typed' /\ pc \in Points /\ conn \in Conn
  BY RecvTyped, HandlerOpen
<1>1. CASE HandleEvent
  <2>1. /\ conn'.queue = conn.queue /\ conn'.file = conn.file /\ conn'.pending = conn.pending
        /\ pc'.at = IF "IN" \in Ready /\ ~conn.pending THEN "recv" ELSE "write"
        /\ script' = script /\ good' = good /\ up' = up /\ written' = written /\ ssl_in' = ssl_in
    BY <1>0, <1>1 DEF HandleEvent, Conn, Loop, client, tls, output
  <2>2. Truthful'
    BY <2>1, QuietTruthful
  <2>3. Waiting' /\ Awake'
    BY <2>1, <1>1 DEF HandleEvent, Waiting, Awake, HasOutput, Loop
  <2>4. QED
    BY <1>0, <2>1, <2>2, <2>3 DEF Emptied
<1>2. CASE HandleHangup
  BY <1>2, CleanupKeeps DEF HandleHangup, Endings
<1>3. CASE RecvBuffered
  <2>1. /\ conn' = conn /\ pc.at = "recv" /\ pc'.at = "parse"
        /\ script' = script /\ good' = good /\ up' = up /\ written' = written /\ ssl_in' = ssl_in
    BY <1>0, <1>3 DEF RecvBuffered, Points, client, tls, output
  <2>2. Truthful'
    BY <2>1, QuietTruthful
  <2>3. Waiting' /\ Awake'
    BY <2>1 DEF Waiting, Awake, HasOutput, Loop
  <2>4. QED
    BY <1>0, <2>1, <2>2, <2>3 DEF Emptied
<1>4. CASE RecvData
  <2>1. /\ conn'.queue = conn.queue /\ conn'.file = conn.file /\ conn'.pending = conn.pending
        /\ pc.at = "recv" /\ pc'.at = "parse"
        /\ script' = script /\ good' = good /\ up' = up /\ written' = written
    BY <1>0, <1>4 DEF RecvData, Conn, Points, client, output
  <2>2. Truthful'
    BY <2>1, QuietTruthful
  <2>3. Waiting' /\ Awake'
    BY <2>1 DEF Waiting, Awake, HasOutput, Loop
  <2>4. Emptied'
    <3>1. CASE script.large
      BY <2>1, <3>1 DEF Emptied
    <3>2. CASE ~script.large
      <4>1. ssl_in = <<>>
        BY <3>2 DEF Emptied
      <4>2. PICK m \in 1 .. Len(kernel_in) : ssl_in' = SubSeq(kernel_in, m + 1, m)
        BY <1>4, <3>2, <4>1, Zenon DEF RecvData
      <4>3. kernel_in \in Seq(Piece)
        BY HandlerOpen
      <4>4. m \in 1 .. m
        BY <4>3
      <4>5. ssl_in' = <<>>
        BY <4>2, <4>3, <4>4, SegmentType
      <4>6. QED
        BY <4>5 DEF Emptied
    <3>3. QED
      BY <3>1, <3>2
  <2>5. QED
    BY <1>0, <2>2, <2>3, <2>4
<1>5. CASE RecvEnds
  BY <1>5, CleanupKeeps DEF RecvEnds, Endings
<1>6. CASE RecvAgain
  <2>1. /\ RearmReads(conn).queue = conn.queue /\ RearmReads(conn).file = conn.file
        /\ RearmReads(conn).pending = conn.pending /\ RearmReads(conn).read_buf = conn.read_buf
        /\ RearmReads(conn).armed = IF conn.queue # <<>> THEN {"IN", "OUT"} ELSE {"IN"}
    BY <1>0 DEF RearmReads, Conn
  <2>2. /\ conn' = IF up # None THEN conn ELSE RearmReads(conn)
        /\ conn.read_buf = <<>> /\ pc.at = "recv" /\ pc' = Return(up)
        /\ script' = script /\ good' = good /\ up' = up /\ written' = written /\ ssl_in' = ssl_in
    BY <1>6 DEF RecvAgain, client, output
  <2> HIDE DEF RearmReads
  <2>3. Truthful'
    BY <2>1, <2>2, QuietTruthful
  <2>4. pc' = Loop \/ (pc'.at = "write" /\ pc' # Loop)
    BY <2>2 DEF Return, Loop
  <2>5. ~conn.pending /\ (conn.file # None => conn.queue # <<>>)
    BY <2>2 DEF Waiting
  <2>6. conn'.queue = conn.queue /\ conn'.file = conn.file /\ conn'.pending = conn.pending
        /\ conn'.read_buf = conn.read_buf
    BY <2>1, <2>2
  <2>7. Waiting'
    BY <2>4, <2>5, <2>6 DEF Waiting, HasOutput, Loop
  <2>8. Awake'
    BY <2>1, <2>2, <2>4, <2>5, <2>6, SMTT(20) DEF Awake, HasOutput
  <2>9. QED
    BY <1>0, <2>2, <2>3, <2>7, <2>8 DEF Emptied
<1>7. QED
  BY <1>1, <1>2, <1>3, <1>4, <1>5, <1>6
\* What is written was queued, or is part of a file.
LEMMA WrittenTruthful ==
    ASSUME Typed, Truthful, script' = script, good' = good, up' = up,
           NEW chunk \in Chunk, Honest(chunk, Reqs, good), written' = Append(written, chunk),
           \A k \in DOMAIN conn'.queue : Honest(conn'.queue[k], Reqs, good), Unrouted(conn'.file)
    PROVE  Truthful'
<1>1. Reqs' = Reqs
  BY SameTypes
<1>2. Unrouted(conn.file)' <=> Unrouted(conn'.file)
  BY <1>1 DEF Unrouted
<1>3. written \in Seq(Chunk)
  BY DEF Typed, TypeOK
<1>4. \A k \in DOMAIN written' : (k \in DOMAIN written /\ written'[k] = written[k]) \/ written'[k] = chunk
  BY <1>3
<1>5. \A k \in DOMAIN written' : Honest(written'[k], Reqs, good)
  BY <1>4, Zenon DEF Truthful
<1>6. Reported'
  BY <1>1 DEF Truthful, Reported, Reports
<1>7. QED
  BY <1>1, <1>2, <1>5, <1>6 DEF Truthful

\* handle_write: it waits for the event that SSL_write asks for, goes back to
\* handle_read while there are requests in read_buf, or arms the fd for reading.
LEMMA WriteKeeps ==
    ASSUME IInv,
           WriteChunk \/ WriteFilePart \/ WriteBlocks \/ WriteFails \/ WriteDone \/ FileTruncated
    PROVE  IInv'
<1> USE DEF IInv
<1>0. Typed' /\ pc \in Points /\ conn \in Conn /\ script \in Scripts
  BY WriteTyped, HandlerOpen
<1>1. CASE WriteChunk
  <2>1. conn.queue \in Seq(Chunk) /\ conn.queue # <<>>
    BY <1>0, <1>1 DEF WriteChunk, Conn
  <2>2. /\ conn'.queue = Tail(conn.queue) /\ conn'.file = conn.file /\ conn'.pending = FALSE
        /\ pc' = pc /\ pc.at = "write" /\ written' = Append(written, Head(conn.queue))
        /\ script' = script /\ good' = good /\ up' = up /\ ssl_in' = ssl_in
    BY <1>0, <1>1 DEF WriteChunk, Written, Conn, client
  <2>3. Head(conn.queue) \in Chunk /\ Honest(Head(conn.queue), Reqs, good)
    <3>1. Head(conn.queue) = conn.queue[1] /\ 1 \in DOMAIN conn.queue /\ conn.queue[1] \in Chunk
      BY <2>1
    <3>2. QED
      BY <3>1 DEF Truthful
  <2>4. \A k \in DOMAIN Tail(conn.queue) : Honest(Tail(conn.queue)[k], Reqs, good)
    <3>1. \A k \in DOMAIN Tail(conn.queue) :
             k + 1 \in DOMAIN conn.queue /\ Tail(conn.queue)[k] = conn.queue[k + 1]
      BY <2>1
    <3>2. QED
      BY <3>1 DEF Truthful
  <2>5. Truthful'
    BY <2>2, <2>3, <2>4, WrittenTruthful DEF Truthful
  <2>6. Waiting' /\ Awake'
    BY <2>2 DEF Waiting, Awake, Loop
  <2>7. QED
    BY <1>0, <2>2, <2>5, <2>6 DEF Emptied
<1>2. CASE WriteFilePart
  <2>1. conn.file \in [req : DOMAIN Reqs, left : 1 .. FileParts] /\ conn.file # None
    BY <1>0, <1>2 DEF WriteFilePart, Conn
  <2> DEFINE file == IF conn.file.left = 1 THEN None
                     ELSE [conn.file EXCEPT !.left = conn.file.left - 1]
  <2>2. /\ conn'.queue = conn.queue /\ conn'.file = file /\ conn'.pending = FALSE
        /\ pc' = pc /\ pc.at = "write" /\ written' = Append(written, FilePart(conn.file.req))
        /\ script' = script /\ good' = good /\ up' = up /\ ssl_in' = ssl_in
    BY <1>0, <1>2 DEF WriteFilePart, Written, Conn, client
  <2>3. Reqs[conn.file.req].route = "none"
    BY <2>1 DEF Truthful, Unrouted
  <2>4. FilePart(conn.file.req) \in Chunk /\ Honest(FilePart(conn.file.req), Reqs, good)
    BY <2>1, <2>3 DEF FilePart, Chunk, Honest
  <2>5. file = None \/ file.req = conn.file.req
    BY <2>1
  <2> HIDE DEF file
  <2>6. Unrouted(file)
    BY <2>3, <2>5, SMTT(20) DEF Unrouted
  <2>7. Truthful'
    BY <2>2, <2>4, <2>6, WrittenTruthful, SMTT(20) DEF Truthful
  <2>8. Waiting' /\ Awake'
    BY <2>2 DEF Waiting, Awake, Loop
  <2>9. QED
    BY <1>0, <2>2, <2>7, <2>8 DEF Emptied
<1>3. CASE WriteBlocks
  <2>1. /\ conn'.queue = conn.queue /\ conn'.file = conn.file /\ conn'.pending = TRUE
        /\ conn'.armed = SslWant /\ HasOutput /\ pc' = Loop
        /\ script' = script /\ good' = good /\ up' = up /\ ssl_in' = ssl_in /\ written' = written
        /\ rekey' = rekey
    BY <1>0, <1>3 DEF WriteBlocks, Conn, client, tls, output
  <2>2. Truthful'
    BY <2>1, QuietTruthful
  <2>3. Waiting' /\ Awake'
    BY <2>1 DEF Waiting, Awake, HasOutput, SslWant, Loop
  <2>4. QED
    BY <1>0, <2>1, <2>2, <2>3 DEF Emptied
<1>4. CASE WriteFails
  BY <1>4, CleanupKeeps DEF WriteFails, Endings
<1>5. CASE FileTruncated
  BY <1>5, CleanupKeeps DEF FileTruncated, Endings
<1>6. CASE WriteDone
  <2>1. CASE Cleanup("finished")
    BY <2>1, CleanupKeeps DEF Endings
  <2>2. CASE ~Cleanup("finished")
    <3>1. /\ pc.at = "write" /\ ~HasOutput
          /\ \/ conn' = conn /\ pc' = [at |-> "recv", nested |-> TRUE]
             \/ /\ conn.read_buf = <<>> /\ pc' = Loop
                /\ conn' = [conn EXCEPT !.armed = {"IN"}]
          /\ script' = script /\ good' = good /\ up' = up /\ ssl_in' = ssl_in /\ written' = written
      BY <1>6, <2>2 DEF WriteDone, Buffered, client, tls, output
    <3>2. /\ conn'.queue = conn.queue /\ conn'.file = conn.file /\ conn'.pending = conn.pending
          /\ conn'.read_buf = conn.read_buf /\ (pc' = Loop => conn'.armed = {"IN"})
      BY <1>0, <3>1 DEF Conn, Loop
    <3>3. Truthful'
      BY <3>1, <3>2, QuietTruthful
    <3>4. pc'.at \in {"recv", "loop"} /\ (pc' = Loop => conn.read_buf = <<>>)
      BY <3>1 DEF Loop
    <3>5. ~conn.pending
      BY <3>1 DEF Waiting
    <3>6. Waiting' /\ Awake'
      BY <3>1, <3>2, <3>4, <3>5 DEF Waiting, Awake, HasOutput
    <3>7. QED
      BY <1>0, <3>1, <3>3, <3>6 DEF Emptied
  <2>3. QED
    BY <2>1, <2>2
<1>7. QED
  BY <1>1, <1>2, <1>3, <1>4, <1>5, <1>6

\* The client and the operator: the message of a peer that renegotiates may come,
\* but only an SSL call consumes it.
LEMMA OthersKeep ==
    ASSUME IInv,
           \/ Stop \/ DrainSweep \/ ParseWaits
           \/ ClientSends \/ ClientReads \/ ClientCloses \/ PeerRekeys \/ PeerAnswers
           \/ UNCHANGED vars
    PROVE  IInv'
<1> USE DEF IInv
<1>0. Typed' /\ pc \in Points
  BY OthersTyped, HandlerOpen
<1>1. CASE DrainSweep
  BY <1>1, CleanupKeeps DEF DrainSweep, Endings
<1>2. CASE ~DrainSweep
  <2>1. /\ conn' = conn /\ script' = script /\ good' = good /\ up' = up /\ written' = written
        /\ ssl_in' = ssl_in
    BY <1>2 DEF Stop, ParseWaits, ClientSends, ClientReads, ClientCloses, PeerRekeys, PeerAnswers,
                vars, client, tls, output
  <2>2. Truthful'
    BY <2>1, QuietTruthful
  <2>3. rekey' = rekey \/ rekey' \in {"due", "here"}
    BY <1>2 DEF Stop, ParseWaits, ClientSends, ClientReads, ClientCloses, PeerRekeys, PeerAnswers,
                vars, client, tls, output
  <2>4. pc' = pc \/ (pc.at = "parse" /\ pc'.at = "recv")
    BY <1>0, <1>2 DEF Stop, ParseWaits, ClientSends, ClientReads, ClientCloses, PeerRekeys,
                      PeerAnswers, Points, vars
  <2>5. Waiting' /\ Awake'
    BY <2>1, <2>3, <2>4 DEF Waiting, Awake, HasOutput, Loop
  <2>6. QED
    BY <1>0, <2>1, <2>2, <2>5 DEF Emptied
<1>3. QED
  BY <1>1, <1>2

\* A new connection is armed for reading, and there is nothing to write.
LEMMA InitKeeps ==
    ASSUME Init
    PROVE  IInv
<1>1. script \in Scripts /\ Reqs \in Seq(Request) /\ Len(Reqs) \in Nat
  BY ReqsType DEF Init
<1>2. <<>> \in Seq(Piece) /\ <<>> \in Seq(Chunk) /\ 0 \in 0 .. Len(Reqs)
  BY <1>1
<1>3. Fresh \in Conn /\ Fresh.state = "open"
  BY <1>2 DEF Fresh, Conn
<1>4. sent \in 0 .. Len(Stream)
  <2>1. Stream \in Seq(Piece)
    BY <1>1, StreamType
  <2>2. QED
    BY <2>1 DEF Init
<1>5. unread \in 0 .. OutCap
  BY <1>1, ReqsType DEF Init
<1>6. Loop \in Points
  BY DEF Loop, Points
<1>7. Typed
  BY <1>1, <1>2, <1>3, <1>4, <1>5, <1>6, Zenon DEF Init, Typed, TypeOK
<1>8. Waiting /\ Awake /\ Emptied
  BY DEF Init, Fresh, Waiting, Awake, Emptied, HasOutput, Loop
<1>9. Truthful
  BY DEF Init, Fresh, Truthful, Unrouted, Reported
<1>10. QED
  BY <1>7, <1>8, <1>9 DEF IInv

\* The invariant is inductive: every handler, client and shutdown step keeps it.
THEOREM Invariance == Spec => []IInv
<1>1. Init => IInv
  BY InitKeeps
<1>2. IInv /\ [Next]_vars => IInv'
  BY RecvKeeps, InnerKeeps, CallEndsKeeps, WriteKeeps, OthersKeep, Zenon DEF Next, Handler, Inner
<1>3. QED
  BY <1>1, <1>2, PTL DEF Spec

\* handle_read, handle_write and the completion of upstream calls leave an open
\* connection armed for what it waits for: for any client, however it pipelines.
THEOREM WakeupSafety == Spec => []NoLostWakeup
<1>1. IInv => NoLostWakeup
  BY DEF IInv, Awake, NoLostWakeup
<1>2. QED
  BY <1>1, Invariance, PTL

\* finalize_composite reports an aggregate as ok only if every required dependency
\* answered this request: for any dependencies, however calls and deadlines interleave.
THEOREM AggregateSafety == Spec => []OkMeansAnswered
<1>1. IInv => OkMeansAnswered
  <2> SUFFICES ASSUME IInv, NEW chunk \in Range(conn.queue) \cup Range(written)
               PROVE  Honest(chunk, Reqs, good)
    BY DEF OkMeansAnswered, Honest
  <2>1. \/ \E k \in DOMAIN conn.queue : chunk = conn.queue[k]
        \/ \E k \in DOMAIN written : chunk = written[k]
    BY DEF Range
  <2>2. QED
    BY <2>1 DEF IInv, Truthful
<1>2. QED
  BY <1>1, Invariance, PTL

\* handle_read leaves no received byte where no event announces it, for any client
\* whose TLS records fit its buffer.
THEOREM BufferSafety == Spec => [](~script.large => BufferedHandled)
<1>1. IInv => (~script.large => BufferedHandled)
  BY DEF IInv, Awake, Emptied, BufferedHandled
<1>2. QED
  BY <1>1, Invariance, PTL
=============================================================================
