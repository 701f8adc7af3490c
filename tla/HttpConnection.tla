--------------------------- MODULE HttpConnection ---------------------------
(***************************************************************************)
(* One client connection of a worker: HttpHandler's read and write paths,  *)
(* the single and composite upstream calls it waits for, the part of       *)
(* TcpWorker::handle_client that dispatches its epoll events, and the      *)
(* graceful-shutdown sweep.  The client socket is TLS and registered with  *)
(* EPOLLET | EPOLLONESHOT.  The handlers run on the worker's event loop;   *)
(* pc splits them at their system calls, so that the client's bytes arrive *)
(* between any two of these.                                               *)
(***************************************************************************)
EXTENDS Integers, Sequences, FiniteSets, SequencesExt

CONSTANTS
    Scripts,     \* what a client may send, and how far ahead of the answers
    FileParts,   \* a large file, in 64 KB buffers
    OutCap,      \* the kernel's send buffer, in queue chunks
    Deps,        \* the dependencies of the composite route
    Required,    \* the required ones
    None

\* How handle_read treats a request: unrouted, refused (401, 405, 429), answered
\* by a local or static handler, proxied, fanned out, malformed.
Routes == {"none", "denied", "local", "upstream", "composite", "bad"}

\* body: what the response looks like (one queue chunk, two, or a header and a
\* large file); close and length: the request has Connection: close, a body.
Request == [route : Routes, body : {"whole", "split", "file"}, close : BOOLEAN, length : BOOLEAN]

\* What a backend call has come to.
Outcomes == {"live", "ok", "failed"}

\* A client sends requests in order, at most window ahead of the responses; large
\* says whether its TLS records may exceed the 4096 byte buffer of handle_read.
\* Nothing is pipelined behind a malformed request: what its remains would do to
\* the next request line is not modelled.
ASSUME ConnectionAssumption ==
    /\ \A s \in Scripts :
          /\ s.requests \in Seq(Request) /\ s.window \in Nat \ {0} /\ s.large \in BOOLEAN
          /\ \A i \in DOMAIN s.requests :
                /\ s.requests[i].body = "split" => s.requests[i].route = "local"
                /\ s.requests[i].body = "file" => s.requests[i].route = "none"
                /\ s.requests[i].route = "bad" => s.window = 1 \/ i = Len(s.requests)
    /\ FileParts \in Nat \ {0} /\ OutCap \in Nat \ {0}
    /\ Required \subseteq Deps
    /\ IsFiniteSet(Deps) /\ Deps # {} /\ None \notin Deps
    /\ None \notin [req : Nat, child : [Deps -> Outcomes] \cup [{None} -> Outcomes]]

VARIABLES
    script,     \* the requests of this client
    sent,       \* how many pieces of them it has sent
    peer,       \* the client's end: "up", "fin" (half closed) or "rst"
    rekey,      \* a TLS message SSL_write waits for: none yet, due, here, done
    kernel_in,  \* received by the kernel
    ssl_in,     \* decrypted by OpenSSL, not yet read
    unread,     \* chunks written that the client has not read
    written,    \* chunks written, in order
    conn,       \* HttpHandler's per-connection maps and the epoll registration
    up,         \* client_upstream_: the calls in flight, or None
    good,       \* <<request, dependency>>: the backend answered with 2xx
    pc,         \* where the event loop is
    draining    \* stop_server_flag, as the worker sees it

vars == <<script, sent, peer, rekey, kernel_in, ssl_in, unread, written,
          conn, up, good, pc, draining>>
client == <<script, sent, peer>>
tls == <<rekey, kernel_in, ssl_in>>
output == <<unread, written>>

-----------------------------------------------------------------------------
(* The client's requests and the responses to them.                        *)

Reqs == script.requests

\* A request is sent in a piece, or in two if it has a body.
Pieces(i) == <<[req |-> i, part |-> "head"]>>
             \o IF Reqs[i].length THEN <<[req |-> i, part |-> "body"]>> ELSE <<>>

Stream == FlattenSeq([i \in DOMAIN Reqs |-> Pieces(i)])

\* rest: what a rejection leaves of a head.
Piece == [req : DOMAIN Reqs, part : {"head", "body", "rest"}]

\* again: a further 400, for the remains of a request already rejected.
Chunk == [req : DOMAIN Reqs, part : {"whole", "head", "body", "file", "again"},
          status : {"ok", "denied", "400", "502", "503"}]

\* The queue chunks finalize_response makes of a response: on TLS a body of up to
\* 64 KB is coalesced with the header, a file follows it outside the queue.
Framed(i, status) ==
    IF Reqs[i].body = "split" /\ status = "ok"
    THEN <<[req |-> i, part |-> "head", status |-> status],
           [req |-> i, part |-> "body", status |-> status]>>
    ELSE IF Reqs[i].body = "file" /\ status = "ok"
         THEN <<[req |-> i, part |-> "head", status |-> status]>>
         ELSE <<[req |-> i, part |-> "whole", status |-> status]>>

FilePart(i) == [req |-> i, part |-> "file", status |-> "ok"]

\* A whole response.
Whole(i, status) ==
    Framed(i, status) \o
    IF Reqs[i].body = "file" /\ status = "ok" THEN [k \in 1 .. FileParts |-> FilePart(i)] ELSE <<>>

StatusOf(i) ==
    IF \E k \in DOMAIN written : written[k].req = i
    THEN written[CHOOSE k \in DOMAIN written : written[k].req = i].status
    ELSE "ok"

\* What was written, without the repeated 400s.
Answers == SelectSeq(written, LAMBDA chunk : chunk.part # "again")

\* The whole responses to the first n requests, in order.
Responses(n) == FlattenSeq([i \in 1 .. n |-> Whole(i, StatusOf(i))])

-----------------------------------------------------------------------------
(* The state.                                                              *)

\* Why a connection was closed.
Endings == {"finished", "eof", "error", "truncated", "drained", "expired"}

Conn == [state : {"open"} \cup Endings, armed : SUBSET {"IN", "OUT"}, pending : BOOLEAN,
         read_buf : Seq(Piece), parsing : DOMAIN Reqs \cup {None},
         headers : SUBSET {"length", "close"}, keep_alive : BOOLEAN,
         queue : Seq(Chunk), file : {None} \cup [req : DOMAIN Reqs, left : 1 .. FileParts],
         taken : 0 .. Len(Reqs)]

\* The control points of the loop and of the two handlers; nested is a
\* handle_read called by handle_write.
Points == [at : {"loop", "recv", "parse", "write"}, nested : BOOLEAN]

Loop == [at |-> "loop", nested |-> FALSE]

\* Types, and: a closed connection holds nothing (cleanup misses no map).
TypeOK ==
    /\ script \in Scripts
    /\ sent \in 0 .. Len(Stream)
    /\ peer \in {"up", "fin", "rst"}
    /\ rekey \in {"none", "due", "here", "done"}
    /\ kernel_in \in Seq(Piece) /\ ssl_in \in Seq(Piece)
    /\ unread \in 0 .. OutCap
    /\ written \in Seq(Chunk)
    /\ conn \in Conn
    /\ up # None => /\ up.req \in DOMAIN Reqs
                    /\ \A d \in DOMAIN up.child : up.child[d] \in Outcomes
    /\ good \subseteq (DOMAIN Reqs) \X Deps
    /\ pc \in Points
    /\ draining \in BOOLEAN
    /\ conn.state # "open" => up = None /\ pc = Loop

\* on_connect, and the registration that follows the completed handshake.
Fresh == [state |-> "open", armed |-> {"IN"}, pending |-> FALSE, read_buf |-> <<>>,
          parsing |-> None, headers |-> {}, keep_alive |-> TRUE, queue |-> <<>>,
          file |-> None, taken |-> 0]

Init ==
    /\ script \in Scripts
    /\ sent = 0 /\ peer = "up"
    /\ rekey = "none" /\ kernel_in = <<>> /\ ssl_in = <<>>
    /\ unread = 0 /\ written = <<>>
    /\ conn = Fresh /\ up = None /\ good = {}
    /\ pc = Loop /\ draining = FALSE

-----------------------------------------------------------------------------
(* Pieces of the handlers.                                                 *)

\* HttpHandler::cleanup: every map is erased, the upstream calls are aborted.
Cleanup(ending) ==
    /\ conn' = [Fresh EXCEPT !.state = ending, !.armed = {}, !.keep_alive = FALSE,
                             !.taken = conn.taken]
    /\ up' = None
    /\ pc' = Loop
    /\ kernel_in' = <<>> /\ ssl_in' = <<>> /\ rekey' = "done"
    /\ UNCHANGED <<client, output, good, draining>>

\* finalize_response.
Finalized(c, i, status) ==
    [c EXCEPT !.queue = c.queue \o Framed(i, status), !.armed = {"IN", "OUT"}]

\* send_error_response.
Refused(c, chunks) ==
    [c EXCEPT !.queue = c.queue \o chunks, !.armed = {"OUT"}, !.keep_alive = FALSE]

\* handle_read returns: to handle_write if that called it and nothing is in
\* flight now, else to the loop.
Return(inflight) ==
    IF pc.nested /\ inflight = None THEN [at |-> "write", nested |-> FALSE] ELSE Loop

\* Mutant: handle_read reads on although a call is in flight.
ProceedAlways(inflight) == [pc EXCEPT !.at = "recv"]

\* Mutant: handle_read returns after every request.
ProceedNever(inflight) == Return(inflight)

\* After a routed request handle_read returns if a call is in flight, and looks
\* for the next request otherwise.
Proceed(inflight) == IF inflight # None THEN Loop ELSE [pc EXCEPT !.at = "recv"]

\* An SSL call handles the message a renegotiating peer has sent.
Rekeyed == IF rekey = "here" THEN "done" ELSE rekey

-----------------------------------------------------------------------------
(* TcpWorker::handle_client, once the handshake is complete.               *)

Readable == kernel_in # <<>> \/ peer = "fin" \/ rekey = "here"

Writable == unread < OutCap

Ready == conn.armed \cap ((IF Readable THEN {"IN"} ELSE {}) \cup (IF Writable THEN {"OUT"} ELSE {}))

\* EPOLLIN goes to handle_write when a write waits for it, EPOLLOUT only counts
\* without EPOLLIN.  EPOLLONESHOT disarms the fd.
HandleEvent ==
    /\ pc = Loop /\ conn.state = "open" /\ peer # "rst"
    /\ Ready # {}
    /\ conn' = [conn EXCEPT !.armed = {}]
    /\ pc' = [Loop EXCEPT !.at = IF "IN" \in Ready /\ ~conn.pending THEN "recv" ELSE "write"]
    /\ UNCHANGED <<client, tls, output, up, good, draining>>

\* EPOLLERR and EPOLLHUP are reported for any armed fd.
HandleHangup ==
    /\ pc = Loop /\ conn.state = "open" /\ peer = "rst"
    /\ conn.armed # {}
    /\ Cleanup("error")

-----------------------------------------------------------------------------
(* handle_read: the outer loop.                                            *)

\* Buffered bytes are parsed before more are read.
RecvBuffered ==
    /\ pc.at = "recv" /\ conn.read_buf # <<>>
    /\ pc' = [pc EXCEPT !.at = "parse"]
    /\ UNCHANGED <<client, tls, output, conn, up, good, draining>>

\* SSL_read returns bytes of one record, all of it if it fits the buffer.
RecvData ==
    /\ pc.at = "recv" /\ conn.read_buf = <<>>
    /\ \/ /\ ssl_in # <<>>
          /\ \E n \in 1 .. Len(ssl_in) :
                /\ conn' = [conn EXCEPT !.read_buf = SubSeq(ssl_in, 1, n)]
                /\ ssl_in' = SubSeq(ssl_in, n + 1, Len(ssl_in))
          /\ UNCHANGED kernel_in
       \/ /\ ssl_in = <<>> /\ peer # "rst"
          /\ \E m \in 1 .. Len(kernel_in) : \E n \in IF script.large THEN 1 .. m ELSE {m} :
                /\ conn' = [conn EXCEPT !.read_buf = SubSeq(kernel_in, 1, n)]
                /\ ssl_in' = SubSeq(kernel_in, n + 1, m)
                /\ kernel_in' = SubSeq(kernel_in, m + 1, Len(kernel_in))
    /\ rekey' = Rekeyed
    /\ pc' = [pc EXCEPT !.at = "parse"]
    /\ UNCHANGED <<client, output, up, good, draining>>

\* The end of the stream, or a reset: whatever is queued is dropped.
RecvEnds ==
    /\ pc.at = "recv" /\ conn.read_buf = <<>> /\ ssl_in = <<>>
    /\ \/ peer = "rst" /\ Cleanup("error")
       \/ peer = "fin" /\ kernel_in = <<>> /\ Cleanup("eof")

\* Mutant: reads are re-armed without writes.
RearmReadsOnly(c) == [c EXCEPT !.armed = {"IN"}]

\* rearm_reads, with nothing in flight.
RearmReads(c) == [c EXCEPT !.armed = IF c.queue # <<>> THEN {"IN", "OUT"} ELSE {"IN"}]

RecvAgain ==
    /\ pc.at = "recv" /\ conn.read_buf = <<>> /\ ssl_in = <<>>
    /\ peer = "up" /\ kernel_in = <<>>
    /\ conn' = IF up # None THEN conn ELSE RearmReads(conn)
    /\ rekey' = Rekeyed
    /\ pc' = Return(up)
    /\ UNCHANGED <<client, kernel_in, ssl_in, output, up, good, draining>>

-----------------------------------------------------------------------------
(* handle_read: the inner loop.  The parser consumes what it is given and  *)
(* keeps its place between calls; requests_, the request it fills in, is   *)
(* cleared only after an error.                                            *)

Piece1 == Head(conn.read_buf)

\* The headers the parser sees at the end of this head.
Headers ==
    conn.headers \cup (IF Reqs[Piece1.req].length THEN {"length"} ELSE {})
                 \cup (IF Reqs[Piece1.req].close THEN {"close"} ELSE {})

\* A malformed head, or a second Content-Length in requests_.
Malformed ==
    /\ conn.parsing = None /\ Piece1.part = "head"
    /\ \/ Reqs[Piece1.req].route = "bad"
       \/ Reqs[Piece1.req].length /\ "length" \in conn.headers

\* The remains of a rejected request, where a request line should be.
Remains == conn.parsing = None /\ Piece1.part # "head"

ParseWaits ==
    /\ pc.at = "parse" /\ conn.read_buf = <<>>
    /\ pc' = [pc EXCEPT !.at = "recv"]
    /\ UNCHANGED <<client, tls, output, conn, up, good, draining>>

\* The parser stops at the offending byte; only the inner loop is left, so the rest
\* of the head, if any, is parsed again.
ParseRejects ==
    /\ pc.at = "parse" /\ conn.read_buf # <<>> /\ Malformed
    /\ \E rest \in {<<>>, <<[req |-> Piece1.req, part |-> "rest"]>>} :
          conn' = [Refused(conn, Framed(Piece1.req, "400")) EXCEPT
                      !.read_buf = rest \o Tail(conn.read_buf), !.headers = {},
                      !.taken = Piece1.req]
    /\ pc' = [pc EXCEPT !.at = "recv"]
    /\ UNCHANGED <<client, tls, output, up, good, draining>>

\* Remains are rejected in their turn, or taken for the start of a request line.
ParseRemains ==
    /\ pc.at = "parse" /\ conn.read_buf # <<>> /\ Remains
    /\ \/ /\ conn' = [Refused(conn, <<[req |-> Piece1.req, part |-> "again", status |-> "400"]>>)
                          EXCEPT !.read_buf = Tail(conn.read_buf), !.headers = {}]
          /\ pc' = [pc EXCEPT !.at = "recv"]
       \/ /\ conn' = [conn EXCEPT !.read_buf = Tail(conn.read_buf)]
          /\ UNCHANGED pc
    /\ UNCHANGED <<client, tls, output, up, good, draining>>

ParseHead ==
    /\ pc.at = "parse" /\ conn.read_buf # <<>> /\ ~Malformed /\ ~Remains
    /\ conn.parsing = None /\ "length" \in Headers
    /\ conn' = [conn EXCEPT !.read_buf = Tail(conn.read_buf), !.headers = Headers,
                            !.parsing = Piece1.req]
    /\ UNCHANGED <<client, tls, output, up, good, pc, draining>>

\* parse returns true.
Parsed ==
    /\ pc.at = "parse" /\ conn.read_buf # <<>> /\ ~Malformed /\ ~Remains
    /\ conn.parsing = None => "length" \notin Headers

Current == IF conn.parsing = None THEN Piece1.req ELSE conn.parsing

\* The connection once the parser is reset.
Taken == [conn EXCEPT !.read_buf = Tail(conn.read_buf), !.parsing = None, !.taken = Current,
                      !.headers = IF conn.parsing = None THEN Headers ELSE conn.headers]

\* Mutant: the Connection header is not looked at.
RoutedKept == Taken

\* A routed request decides whether the connection is kept.
Routed == [Taken EXCEPT !.keep_alive = "close" \notin Taken.headers]

\* 401, 405 and 429: the inner loop continues.
Deny ==
    /\ Parsed /\ Reqs[Current].route = "denied"
    /\ conn' = Refused(Taken, Framed(Current, "denied"))
    /\ UNCHANGED <<client, tls, output, up, good, pc, draining>>

\* The static-file fallback; here too the inner loop continues.
ServeUnrouted ==
    /\ Parsed /\ Reqs[Current].route = "none"
    /\ conn' = [Finalized(Taken, Current, "ok") EXCEPT
                   !.file = IF Reqs[Current].body = "file"
                            THEN [req |-> Current, left |-> FileParts] ELSE Taken.file]
    /\ UNCHANGED <<client, tls, output, up, good, pc, draining>>

ServeLocal ==
    /\ Parsed /\ Reqs[Current].route = "local"
    /\ conn' = Finalized(Routed, Current, "ok")
    /\ pc' = Proceed(up)
    /\ UNCHANGED <<client, tls, output, up, good, draining>>

-----------------------------------------------------------------------------
(* Upstream and composite routes.                                          *)

Children(i) == IF Reqs[i].route = "composite" THEN Deps ELSE {None}

\* Mutant: a failed required dependency does not fail the aggregate.
VerdictOk(i, child) == "ok"

\* finish_child for a single call, finalize_composite for an aggregate.
Verdict(i, child) ==
    IF Reqs[i].route = "composite"
    THEN IF \E d \in Required : child[d] = "failed" THEN "503" ELSE "ok"
    ELSE IF child[None] = "failed" THEN "502" ELSE "ok"

Answering(i, child) == {<<i, d>> : d \in {e \in Deps \cap DOMAIN child : child[e] = "ok"}}

Finished(child) == \A d \in DOMAIN child : child[d] # "live"

\* No upstream server, or its circuit is open: answered before anything is
\* published in client_upstream_.
RefuseUpstream ==
    /\ Parsed /\ Reqs[Current].route = "upstream"
    /\ conn' = Finalized(Routed, Current, "502")
    /\ pc' = Proceed(up)
    /\ UNCHANGED <<client, tls, output, up, good, draining>>

\* start_upstream_exchange and start_composite_exchange: the calls are published
\* (in place of older ones) and driven once; some may end at once.
StartExchange ==
    /\ Parsed /\ Reqs[Current].route \in {"upstream", "composite"}
    /\ \E child \in [Children(Current) -> Outcomes] :
          /\ good' = good \cup Answering(Current, child)
          /\ IF Finished(child)
             THEN /\ conn' = Finalized(Routed, Current, Verdict(Current, child))
                  /\ up' = None
             ELSE /\ conn' = Routed
                  /\ up' = [req |-> Current, child |-> child]
    /\ pc' = Proceed(up')
    /\ UNCHANGED <<client, tls, output, draining>>

\* on_upstream_event or a child's own deadline: a call ends; with the last one the
\* response is framed and the state erased.
Settle(child) ==
    /\ good' = good \cup Answering(up.req, child)
    /\ IF Finished(child)
       THEN /\ conn' = Finalized(conn, up.req, Verdict(up.req, child))
            /\ up' = None
       ELSE /\ up' = [up EXCEPT !.child = child]
            /\ UNCHANGED conn
    /\ UNCHANGED <<client, tls, output, pc, draining>>

ChildEnds ==
    /\ pc = Loop /\ up # None
    /\ \E d \in DOMAIN up.child, outcome \in {"ok", "failed"} :
          /\ up.child[d] = "live"
          /\ Settle([up.child EXCEPT ![d] = outcome])

\* force_finish_child.
Cut(child) == [d \in DOMAIN child |-> IF child[d] = "live" THEN "failed" ELSE child[d]]

\* The aggregate's deadline cuts off every call still in flight.
TotalDeadline ==
    /\ pc = Loop /\ up # None /\ Reqs[up.req].route = "composite"
    /\ Settle(Cut(up.child))

-----------------------------------------------------------------------------
(* handle_write.                                                           *)

HasOutput == conn.queue # <<>> \/ conn.file # None

Written(chunk) ==
    /\ written' = Append(written, chunk)
    /\ unread' = unread + 1
    /\ rekey' = Rekeyed

\* SSL_write takes a chunk whole or not at all.
WriteChunk ==
    /\ pc.at = "write" /\ conn.queue # <<>>
    /\ peer # "rst" /\ rekey # "due" /\ Writable
    /\ Written(Head(conn.queue))
    /\ conn' = [conn EXCEPT !.queue = Tail(conn.queue), !.pending = FALSE]
    /\ UNCHANGED <<client, kernel_in, ssl_in, up, good, pc, draining>>

WriteFilePart ==
    /\ pc.at = "write" /\ conn.queue = <<>> /\ conn.file # None
    /\ peer # "rst" /\ rekey # "due" /\ Writable
    /\ Written(FilePart(conn.file.req))
    /\ conn' = [conn EXCEPT !.pending = FALSE,
                   !.file = IF conn.file.left = 1 THEN None
                            ELSE [conn.file EXCEPT !.left = conn.file.left - 1]]
    /\ UNCHANGED <<client, kernel_in, ssl_in, up, good, pc, draining>>

\* The direction SSL_write asks for.
SslWant == IF rekey = "due" THEN {"IN"} ELSE {"OUT"}

\* wait_for_ssl_write.
WriteBlocks ==
    /\ pc.at = "write" /\ HasOutput
    /\ peer # "rst" /\ (rekey = "due" \/ ~Writable)
    /\ conn' = [conn EXCEPT !.pending = TRUE, !.armed = SslWant]
    /\ pc' = Loop
    /\ UNCHANGED <<client, tls, output, up, good, draining>>

WriteFails ==
    /\ pc.at = "write" /\ HasOutput /\ peer = "rst"
    /\ Cleanup("error")

\* pread fails or finds the file shorter than it was.
FileTruncated ==
    /\ pc.at = "write" /\ conn.queue = <<>> /\ conn.file # None
    /\ Cleanup("truncated")

\* Mutant: read_buf is not looked at.
BufferedNever == FALSE

Buffered == conn.read_buf # <<>>

\* Everything is sent.
WriteDone ==
    /\ pc.at = "write" /\ ~HasOutput
    /\ \/ ~conn.keep_alive /\ Cleanup("finished")
       \/ /\ conn.keep_alive /\ Buffered
          /\ pc' = [at |-> "recv", nested |-> TRUE]
          /\ UNCHANGED <<client, tls, output, conn, up, good, draining>>
       \/ /\ conn.keep_alive /\ ~Buffered
          /\ conn' = [conn EXCEPT !.armed = {"IN"}]
          /\ pc' = Loop
          /\ UNCHANGED <<client, tls, output, up, good, draining>>

-----------------------------------------------------------------------------
(* Graceful shutdown.                                                      *)

\* Mutant: calls in flight do not count.
InflightWithoutUpstream == conn.read_buf # <<>> \/ HasOutput

\* has_inflight_work; request_ready_ is never set.
HasInflightWork == up # None \/ conn.read_buf # <<>> \/ HasOutput

Stop ==
    /\ ~draining
    /\ draining' = TRUE
    /\ UNCHANGED <<client, tls, output, conn, up, good, pc>>

\* drain_connections closes connections between requests at once, and all of
\* them when its budget is used up.
DrainSweep ==
    /\ draining /\ pc = Loop /\ conn.state = "open"
    /\ \/ ~HasInflightWork /\ Cleanup("drained")
       \/ HasInflightWork /\ Cleanup("expired")

-----------------------------------------------------------------------------
(* The client.                                                             *)

Next1 == Stream[sent + 1]

ClientSends ==
    /\ sent < Len(Stream) /\ peer = "up" /\ conn.state = "open"
    /\ Next1.req > script.window =>
          Len(written) - unread >= Len(Responses(Next1.req - script.window))
    /\ sent' = sent + 1
    /\ kernel_in' = Append(kernel_in, Next1)
    /\ UNCHANGED <<script, peer, rekey, ssl_in, output, conn, up, good, pc, draining>>

ClientReads ==
    /\ unread > 0
    /\ unread' = unread - 1
    /\ UNCHANGED <<client, tls, written, conn, up, good, pc, draining>>

ClientCloses ==
    /\ peer = "up" /\ conn.state = "open"
    /\ peer' \in {"fin", "rst"}
    /\ UNCHANGED <<script, sent, tls, output, conn, up, good, pc, draining>>

\* The peer starts to renegotiate (once), and later sends what SSL_write waits for.
PeerRekeys ==
    /\ peer = "up" /\ conn.state = "open" /\ rekey = "none"
    /\ rekey' = "due"
    /\ UNCHANGED <<client, kernel_in, ssl_in, output, conn, up, good, pc, draining>>

PeerAnswers ==
    /\ peer = "up" /\ rekey = "due"
    /\ rekey' = "here"
    /\ UNCHANGED <<client, kernel_in, ssl_in, output, conn, up, good, pc, draining>>

Handler ==
    \/ HandleEvent \/ HandleHangup
    \/ RecvBuffered \/ RecvData \/ RecvEnds \/ RecvAgain
    \/ ParseWaits \/ ParseRejects \/ ParseRemains \/ ParseHead \/ Deny \/ ServeUnrouted \/ ServeLocal
    \/ RefuseUpstream \/ StartExchange
    \/ WriteChunk \/ WriteFilePart \/ WriteBlocks \/ WriteFails \/ WriteDone

Next ==
    \/ Handler
    \/ ChildEnds \/ TotalDeadline \/ FileTruncated
    \/ Stop \/ DrainSweep
    \/ ClientSends \/ ClientReads \/ ClientCloses \/ PeerRekeys \/ PeerAnswers

Spec == Init /\ [][Next]_vars

\* The worker's loop keeps running, a backend call ends on its deadline at the
\* latest, and the client goes on reading and finishing what it has begun.
Fairness ==
    /\ WF_vars(Handler) /\ WF_vars(ChildEnds)
    /\ WF_vars(ClientReads) /\ WF_vars(PeerAnswers)

FairSpec == Spec /\ Fairness

-----------------------------------------------------------------------------
(* Properties.                                                             *)

\* Responses reach the client whole, in the order of the requests, once each:
\* read path, write path, file path and upstream completions never mix them up.
\* Left aside are the 400s that the remains of a rejected request may add.
InOrder == IsPrefix(Answers, Responses(Len(Reqs)))

\* The connection is never left waiting for an event that cannot come.  Unless a
\* call is in flight, whose end arms the fd: the fd is armed, for the direction
\* the TLS layer can move in if there is output, and requests are only left in
\* read_buf while there is output, after which handle_write takes them up.
NoLostWakeup ==
    pc = Loop /\ conn.state = "open" /\ up = None =>
        /\ conn.armed # {}
        /\ HasOutput => "OUT" \in conn.armed \/ rekey \in {"due", "here"}
        /\ conn.read_buf # <<>> => HasOutput

\* A connection at rest has no received bytes that no event will announce: not in
\* read_buf, and not in OpenSSL's buffer, which epoll does not know of.
BufferedHandled ==
    pc = Loop /\ conn.state = "open" /\ up = None /\ ~HasOutput =>
        conn.read_buf = <<>> /\ ssl_in = <<>>

Closing(i) == Reqs[i].close \/ Reqs[i].route \in {"denied", "bad"}

\* Nothing follows the response to a Connection: close request or to a refused
\* one, which announced the end of the connection.
CloseIsLast ==
    \A j, k \in DOMAIN written :
        Closing(written[j].req) => written[k].req <= written[j].req

\* An aggregate is only reported ok when every required dependency's backend
\* answered this very request, however children and deadlines interleave.
OkMeansAnswered ==
    \A chunk \in Range(conn.queue) \cup Range(written) :
        chunk.status = "ok" /\ Reqs[chunk.req].route = "composite" =>
            \A d \in Required : <<chunk.req, d>> \in good

\* The shutdown sweep takes a connection for idle only once every request that
\* was received has been answered in full.
SweepStep ==
    conn.state = "open" /\ conn'.state = "drained" => Len(Answers) >= Len(Responses(conn.taken))

DrainAnswers == [][SweepStep]_vars

LastSent(i) == Len(FlattenSeq([j \in 1 .. i |-> Pieces(j)]))

Answered(i) == i > Len(Reqs) \/ Len(Answers) >= Len(Responses(i))

Excused(i) ==
    \/ peer # "up" \/ draining \/ conn.state = "truncated"
    \/ \E j \in DOMAIN Reqs : j < i /\ Closing(j)

\* Every request that was sent in full is answered in full, unless the client or
\* the operator ends the connection, the file shrinks, or an earlier request was
\* to be the last.
AllAnswered ==
    \A i \in 1 .. Max({Len(s.requests) : s \in Scripts}) :
        (i <= Len(Reqs) /\ sent >= LastSent(i)) ~> (Answered(i) \/ Excused(i))
=============================================================================
