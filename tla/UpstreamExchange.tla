-------------------------- MODULE UpstreamExchange --------------------------
(***************************************************************************)
(* UpstreamExchange (one backend round trip, driven by a worker's event    *)
(* loop) over the process-wide ConnectionPool, against backends that close *)
(* idle connections, reset them, answer late, partly, or not at all.  Each *)
(* iteration of the loop in UpstreamExchange::run is one action, so the    *)
(* exchanges of different workers interleave between iterations; finish-   *)
(* _child's reuse_to_pool is part of the iteration that ends the exchange. *)
(***************************************************************************)
EXTENDS Integers, Sequences

CONSTANTS
    Exchanges,     \* one exchange per request attempt of the handler
    Upstreams,     \* pool keys: scheme and TLS policy, host and port
    Target,        \* the upstream each exchange talks to
    Tls,           \* the upstreams reached over TLS
    Idempotent,    \* the exchanges whose method is GET, HEAD or OPTIONS
    Sockets,       \* file descriptors for upstream sockets
    MaxIdle,       \* ConnectionPool::max_idle_per_upstream
    MaxResponse,   \* max_response_bytes, in messages
    Kinds,         \* the kinds of response the backends give
    Chatty,        \* the upstreams whose backends send bytes nobody asked for
    None,          \* no socket, no request, nothing
    Orphan         \* a sent request whose socket the gateway has closed

ASSUME ExchangeAssumption ==
    /\ Target \in [Exchanges -> Upstreams]
    /\ Tls \subseteq Upstreams
    /\ Idempotent \subseteq Exchanges
    /\ MaxIdle \in Nat /\ MaxResponse \in Nat
    /\ Kinds \subseteq {"keep", "close", "until_eof", "bad", "garbled", "part"}
    /\ Chatty \subseteq Upstreams
    /\ None # Orphan
    /\ None \notin Sockets /\ Orphan \notin Sockets
    /\ None \notin Exchanges

VARIABLES
    ex,         \* the exchanges
    idle,       \* ConnectionPool::idle_: a deque per key, a missing key is empty
    sock,       \* the gateway's upstream sockets, with what the peer did to them
    wire,       \* where each fully sent request is, by exchange and replay flag
    executed    \* how often the backend executed each of them

vars == <<ex, idle, sock, wire, executed>>

Phases == {"New", "Connect", "Connecting", "TlsHandshake", "Send", "Read", "Done"}

\* A response, or its beginning ("part"), as try_frame and finish_ok tell them
\* apart: framed and reusable, framed with Connection: close, delimited by the
\* end of the stream, unframeable or too large, without a status code.
Response == [for : Exchanges \cup {None}, kind : Kinds \cup {"keep"}]

Exchange == [phase : Phases, composite : BOOLEAN, sock : Sockets \cup {None}, used_pooled : BOOLEAN,
             retried : BOOLEAN, force_fresh : BOOLEAN, response_bytes : Seq(Response),
             outcome : {"none", "ok", "error", "abandoned"}, got : Exchanges \cup {None}]

Pooled == [socket : Sockets, leftover : Seq(Response), expired : BOOLEAN]

Socket == [state : {"closed", "open", "fin", "rst"}, to : Upstreams \cup {None},
           inbox : Seq(Response)]

WithSocket == {"Connecting", "TlsHandshake", "Send", "Read"}

\* sock_ is dereferenced in the four phases in between and is set exactly there;
\* the pool keeps at most max_idle_per_upstream connections of a key.
TypeOK ==
    /\ ex \in [Exchanges -> Exchange]
    /\ \A x \in Exchanges : ex[x].sock # None <=> ex[x].phase \in WithSocket
    /\ idle \in [Upstreams -> Seq(Pooled)]
    /\ \A u \in Upstreams : Len(idle[u]) <= MaxIdle
    /\ sock \in [Sockets -> Socket]
    /\ wire \in [Exchanges -> [BOOLEAN -> Sockets \cup {None, Orphan}]]
    /\ executed \in [Exchanges -> [BOOLEAN -> Nat]]

Closed == [state |-> "closed", to |-> None, inbox |-> <<>>]

Fresh == [phase |-> "New", composite |-> FALSE, sock |-> None, used_pooled |-> FALSE,
          retried |-> FALSE, force_fresh |-> FALSE, response_bytes |-> <<>>,
          outcome |-> "none", got |-> None]

Init ==
    /\ ex = [x \in Exchanges |-> Fresh]
    /\ idle = [u \in Upstreams |-> <<>>]
    /\ sock = [s \in Sockets |-> Closed]
    /\ wire = [x \in Exchanges |-> [k \in BOOLEAN |-> None]]
    /\ executed = [x \in Exchanges |-> [k \in BOOLEAN |-> 0]]

-----------------------------------------------------------------------------
(* Sockets and the pool.                                                   *)

\* Requests already sent on a socket the gateway closes may still reach the
\* application, but their answers come to nobody.
Orphaned(closing) ==
    [x \in Exchanges |-> [k \in BOOLEAN |->
        IF wire[x][k] \in closing THEN Orphan ELSE wire[x][k]]]

\* The last shared_ptr to each of these sockets dies.
Close(closing) ==
    /\ sock' = [s \in Sockets |-> IF s \in closing THEN Closed ELSE sock[s]]
    /\ wire' = Orphaned(closing)

SocketOf(x) == {ex[x].sock} \ {None}

PoolSockets(u) == {idle[u][i].socket : i \in DOMAIN idle[u]}

\* The entry checkout returns: the first that has not expired.
Front(u) ==
    {i \in DOMAIN idle[u] : ~idle[u][i].expired /\ \A j \in 1 .. i - 1 : idle[u][j].expired}

\* The probe of open_connection: poll with a zero timeout, then a peek.  A quiet
\* socket times out and is alive; a reset one makes Poller::wait report Error,
\* which is not looked at; a readable one is alive if there are bytes.
Alive(s) ==
    \/ sock[s].state \in {"open", "rst"}
    \/ sock[s].inbox # <<>>

\* ConnectionPool::checkin: a full deque drops (closes) the connection.
Checkin(x, s, leftover) ==
    IF Len(idle[Target[x]]) >= MaxIdle
    THEN /\ Close({s})
         /\ UNCHANGED idle
    ELSE /\ idle' = [idle EXCEPT ![Target[x]] =
                        Append(@, [socket |-> s, leftover |-> leftover, expired |-> FALSE])]
         /\ UNCHANGED <<sock, wire>>

-----------------------------------------------------------------------------
(* How an exchange ends or starts over.                                    *)

\* Only the result of a destroyed exchange remains.
Ended(outcome, got) == [Fresh EXCEPT !.phase = "Done", !.outcome = outcome, !.got = got]

StartedOver(x) ==
    [ex[x] EXCEPT !.phase = "Connect", !.sock = None, !.used_pooled = FALSE,
                  !.retried = TRUE, !.force_fresh = TRUE, !.response_bytes = <<>>]

\* Mutant: any method is replayed.
ReplaysAnyMethod(x) == ex[x].used_pooled /\ ~ex[x].retried

\* Mutant: nothing is replayed.
ReplaysNever(x) == FALSE

\* fail's condition: a pooled connection, an idempotent method, the first time.
Replays(x) == ex[x].used_pooled /\ x \in Idempotent /\ ~ex[x].retried

\* UpstreamExchange::fail with, for the terminal case, the destruction of the
\* exchange in finish_child.  A pooled connection that fails invalidates every
\* idle connection of its key.
Fail(x) ==
    LET u == Target[x]
    IN  /\ ex' = [ex EXCEPT ![x] = IF Replays(x) THEN StartedOver(x)
                                   ELSE Ended("error", None)]
        /\ IF ex[x].used_pooled
           THEN /\ idle' = [idle EXCEPT ![u] = <<>>]
                /\ Close(SocketOf(x) \cup PoolSockets(u))
           ELSE /\ Close(SocketOf(x))
                /\ UNCHANGED idle
        /\ UNCHANGED executed

\* finish_ok, then reuse_to_pool in finish_child.  A message without a status
\* code ends the exchange without replay or invalidation; a child of a composite
\* never gives its connection back.
FinishOk(x, peer_closed) ==
    LET message == Head(ex[x].response_bytes)
    IN  /\ ex' = [ex EXCEPT ![x] = IF message.kind = "garbled" THEN Ended("error", None)
                                   ELSE Ended("ok", message.for)]
        /\ IF message.kind = "keep" /\ ~peer_closed /\ ~ex[x].composite
           THEN Checkin(x, ex[x].sock, Tail(ex[x].response_bytes))
           ELSE /\ Close(SocketOf(x))
                /\ UNCHANGED idle
        /\ UNCHANGED executed

-----------------------------------------------------------------------------
(* The iterations of run().                                                *)

\* The exchange of a single-upstream request or of a composite's child is made.
Start(x) ==
    /\ ex[x].phase = "New"
    /\ \E composite \in BOOLEAN :
          ex' = [ex EXCEPT ![x].phase = "Connect", ![x].composite = composite]
    /\ UNCHANGED <<idle, sock, wire, executed>>

\* open_fresh connects to the target: at once, or waiting for writability.
FreshPhases(x) ==
    {"Connecting", IF Target[x] \in Tls THEN "TlsHandshake" ELSE "Send"}

\* open_fresh, once the sockets in "dropped" have been closed: it may reuse one of
\* their descriptors, or fail at once.
OpenFresh(x, dropped) ==
    \/ \E s \in Sockets, phase \in FreshPhases(x) :
          /\ sock[s].state = "closed" \/ s \in dropped
          /\ sock' = [t \in Sockets |->
                         IF t = s THEN [state |-> "open", to |-> Target[x], inbox |-> <<>>]
                         ELSE IF t \in dropped THEN Closed ELSE sock[t]]
          /\ wire' = Orphaned(dropped)
          /\ ex' = [ex EXCEPT ![x].sock = s, ![x].phase = phase]
    \/ /\ Close(dropped)
       /\ ex' = [ex EXCEPT ![x] = Ended("error", None)]

\* Mutant: the key does not tell upstreams apart.
OpenPooledAnyKey(x) ==
    \E u \in Upstreams :
        /\ ex[x].phase = "Connect"
        /\ ~ex[x].force_fresh
        /\ \E i \in Front(u) :
              LET conn == idle[u][i]
              IN  /\ Alive(conn.socket)
                  /\ idle' = [idle EXCEPT ![u] = SubSeq(@, i + 1, Len(@))]
                  /\ Close({idle[u][j].socket : j \in 1 .. i - 1})
                  /\ ex' = [ex EXCEPT ![x].sock = conn.socket, ![x].used_pooled = TRUE,
                                      ![x].response_bytes = conn.leftover, ![x].phase = "Send"]
        /\ UNCHANGED executed

\* Connect with a pooled connection that passes the probe.
OpenPooled(x) ==
    LET u == Target[x]
    IN  /\ ex[x].phase = "Connect"
        /\ ~ex[x].force_fresh
        /\ \E i \in Front(u) :
              LET conn == idle[u][i]
              IN  /\ Alive(conn.socket)
                  /\ idle' = [idle EXCEPT ![u] = SubSeq(@, i + 1, Len(@))]
                  /\ Close({idle[u][j].socket : j \in 1 .. i - 1})
                  /\ ex' = [ex EXCEPT ![x].sock = conn.socket, ![x].used_pooled = TRUE,
                                      ![x].response_bytes = conn.leftover, ![x].phase = "Send"]
        /\ UNCHANGED executed

\* Connect with a new connection: the pool is not asked, has none, or the one it
\* returned is dead.
OpenNew(x) ==
    LET u == Target[x]
    IN  /\ ex[x].phase = "Connect"
        /\ \/ /\ ex[x].force_fresh
              /\ OpenFresh(x, {})
              /\ UNCHANGED idle
           \/ /\ ~ex[x].force_fresh
              /\ Front(u) = {}
              /\ OpenFresh(x, PoolSockets(u))
              /\ idle' = [idle EXCEPT ![u] = <<>>]
           \/ /\ ~ex[x].force_fresh
              /\ \E i \in Front(u) :
                    /\ ~Alive(idle[u][i].socket)
                    /\ OpenFresh(x, {idle[u][j].socket : j \in 1 .. i})
                    /\ idle' = [idle EXCEPT ![u] = SubSeq(@, i + 1, Len(@))]
        /\ UNCHANGED executed

\* The probe's peek throws, because the connection is reset after poll found it
\* readable: the exchange fails without trying a new connection.
ProbeThrows(x) ==
    LET u == Target[x]
    IN  /\ ex[x].phase = "Connect"
        /\ ~ex[x].force_fresh
        /\ u \notin Tls
        /\ \E i \in Front(u) :
              /\ LET s == sock[idle[u][i].socket]
                 IN  s.state = "fin" \/ (s.state = "open" /\ s.inbox # <<>>)
              /\ idle' = [idle EXCEPT ![u] = SubSeq(@, i + 1, Len(@))]
              /\ Close({idle[u][j].socket : j \in 1 .. i})
        /\ ex' = [ex EXCEPT ![x] = Ended("error", None)]
        /\ UNCHANGED executed

\* Connecting: the socket became writable and SO_ERROR says whether it worked.
Connected(x) ==
    /\ ex[x].phase = "Connecting"
    /\ sock[ex[x].sock].state # "rst"
    /\ ex' = [ex EXCEPT ![x].phase = IF Target[x] \in Tls THEN "TlsHandshake" ELSE "Send"]
    /\ UNCHANGED <<idle, sock, wire, executed>>

HandshakeCompletes(x) ==
    /\ ex[x].phase = "TlsHandshake"
    /\ sock[ex[x].sock].state = "open"
    /\ ex' = [ex EXCEPT ![x].phase = "Send"]
    /\ UNCHANGED <<idle, sock, wire, executed>>

\* A refused connect, or a handshake that fails or does not verify.
ConnectFails(x) ==
    /\ ex[x].phase \in {"Connecting", "TlsHandshake"}
    /\ Fail(x)

\* Send, when the last byte is accepted: on to Read.  A backend that has closed
\* its side takes the bytes but not the request.
Sent(x) ==
    /\ ex[x].phase = "Send"
    /\ sock[ex[x].sock].state \in {"open", "fin"}
    /\ ex' = [ex EXCEPT ![x].phase = "Read"]
    /\ wire' = IF sock[ex[x].sock].state = "open"
               THEN [wire EXCEPT ![x][ex[x].retried] = ex[x].sock] ELSE wire
    /\ UNCHANGED <<idle, sock, executed>>

\* Send on a socket the peer has reset.
WriteFails(x) ==
    /\ ex[x].phase = "Send"
    /\ sock[ex[x].sock].state = "rst"
    /\ Fail(x)

\* try_frame on the bytes received so far, before the end of the stream.
Frame(x) ==
    IF ex[x].response_bytes = <<>> THEN "Incomplete"
    ELSE LET kind == Head(ex[x].response_bytes).kind
         IN  CASE kind \in {"keep", "close", "garbled"} -> "Complete"
               [] kind = "bad" -> "Error"
               [] kind \in {"until_eof", "part"} -> "Incomplete"

\* Read with a complete message.
Framed(x) ==
    /\ ex[x].phase = "Read"
    /\ Frame(x) = "Complete"
    /\ FinishOk(x, FALSE)

\* Read with bytes that cannot be framed, or with too many of them.
FrameFails(x) ==
    /\ ex[x].phase = "Read"
    /\ \/ Frame(x) = "Error"
       \/ Frame(x) = "Incomplete" /\ Len(ex[x].response_bytes) > MaxResponse
    /\ Fail(x)

\* Read goes on to recv.
Hungry(x) ==
    /\ ex[x].phase = "Read"
    /\ Frame(x) = "Incomplete"
    /\ Len(ex[x].response_bytes) <= MaxResponse

\* Read: recv returns some of the bytes that have arrived.
Received(x) ==
    LET s == ex[x].sock
    IN  /\ Hungry(x)
        /\ \E n \in 1 .. Len(sock[s].inbox) :
              /\ ex' = [ex EXCEPT ![x].response_bytes =
                           ex[x].response_bytes \o SubSeq(sock[s].inbox, 1, n)]
              /\ sock' = [sock EXCEPT ![s].inbox =
                             SubSeq(sock[s].inbox, n + 1, Len(sock[s].inbox))]
        /\ UNCHANGED <<idle, wire, executed>>

\* The bytes so far are a message that the end of the stream completes.
UntilEof(x) ==
    ex[x].response_bytes # <<>> /\ Head(ex[x].response_bytes).kind = "until_eof"

\* Read: recv returns 0, which completes a close-delimited message and breaks
\* any other, or throws because the peer has reset the connection.
ReadEnds(x) ==
    /\ Hungry(x)
    /\ sock[ex[x].sock].inbox = <<>>
    /\ \/ /\ sock[ex[x].sock].state = "fin"
          /\ UntilEof(x)
          /\ FinishOk(x, TRUE)
       \/ /\ sock[ex[x].sock].state = "fin"
          /\ ~UntilEof(x)
          /\ Fail(x)
       \/ /\ sock[ex[x].sock].state = "rst"
          /\ Fail(x)

\* The idle deadline of the current phase has passed when run() looks at it.
Expire(x) ==
    /\ ex[x].phase \in WithSocket \cup {"Connect"}
    /\ Fail(x)

\* Mutant: an abandoned connection goes back to the pool.
AbandonReuses(x) ==
    /\ ex[x].phase \in WithSocket
    /\ ex' = [ex EXCEPT ![x] = Ended("abandoned", None)]
    /\ Checkin(x, ex[x].sock, <<>>)
    /\ UNCHANGED executed

\* The client went away or the composite's deadline fired: the exchange is
\* destroyed where it stands.
Abandon(x) ==
    /\ ex[x].phase \in WithSocket
    /\ ex' = [ex EXCEPT ![x] = Ended("abandoned", None)]
    /\ Close(SocketOf(x))
    /\ UNCHANGED <<idle, executed>>

\* advance(): one iteration of run() that an event, or nothing at all, allows.
Advance(x) ==
    \/ OpenPooled(x) \/ OpenNew(x) \/ ProbeThrows(x)
    \/ Connected(x) \/ HandshakeCompletes(x) \/ ConnectFails(x)
    \/ Sent(x) \/ WriteFails(x)
    \/ Received(x) \/ Framed(x) \/ FrameFails(x) \/ ReadEnds(x)
    \/ Expire(x)

-----------------------------------------------------------------------------
(* The backends and the clock.                                             *)

\* The backend executes a request that has reached it and answers it, if the
\* connection is still there, or stays silent.
Execute(x, k) ==
    LET s == wire[x][k]
    IN  /\ s # None
        /\ executed' = [executed EXCEPT ![x][k] = executed[x][k] + 1]
        /\ wire' = [wire EXCEPT ![x][k] = None]
        /\ \/ UNCHANGED sock
           \/ /\ s # Orphan
              /\ \E kind \in Kinds :
                    sock' = [sock EXCEPT ![s].inbox =
                                Append(sock[s].inbox, [for |-> x, kind |-> kind])]
        /\ UNCHANGED <<ex, idle>>

\* The requests the backend will not read any more.
Unread(s) ==
    [x \in Exchanges |-> [k \in BOOLEAN |-> IF wire[x][k] = s THEN None ELSE wire[x][k]]]

\* The backend closes a connection, idle or not.
PeerCloses(s) ==
    /\ sock[s].state = "open"
    /\ sock' = [sock EXCEPT ![s].state = "fin"]
    /\ wire' = Unread(s)
    /\ UNCHANGED <<ex, idle, executed>>

\* The backend or the network resets a connection; bytes not read yet may be lost.
PeerResets(s) ==
    /\ sock[s].state \in {"open", "fin"}
    /\ \E inbox \in {sock[s].inbox, <<>>} :
          sock' = [sock EXCEPT ![s].state = "rst", ![s].inbox = inbox]
    /\ wire' = Unread(s)
    /\ UNCHANGED <<ex, idle, executed>>

\* A backend sends a message nobody asked for, such as a 408 on an idle
\* connection.
PeerSpeaks(s) ==
    /\ sock[s].to \in Chatty
    /\ sock[s].state = "open" /\ sock[s].inbox = <<>>
    /\ sock' = [sock EXCEPT ![s].inbox = <<[for |-> None, kind |-> "keep"]>>]
    /\ UNCHANGED <<ex, idle, wire, executed>>

\* An idle connection's last use falls out of the idle timeout, oldest first.
Age(u) ==
    /\ \E i \in Front(u) : idle' = [idle EXCEPT ![u][i].expired = TRUE]
    /\ UNCHANGED <<ex, sock, wire, executed>>

Next ==
    \/ \E x \in Exchanges : Start(x) \/ Advance(x) \/ Abandon(x)
    \/ \E x \in Exchanges, k \in BOOLEAN : Execute(x, k)
    \/ \E s \in Sockets : PeerCloses(s) \/ PeerResets(s) \/ PeerSpeaks(s)
    \/ \E u \in Upstreams : Age(u)

Spec == Init /\ [][Next]_vars

-----------------------------------------------------------------------------
(* Properties.                                                             *)

ExchangeOwners(s) == {x \in Exchanges : ex[x].sock = s}

PoolOwners(s) ==
    {e \in UNION {{u} \X DOMAIN idle[u] : u \in Upstreams} : idle[e[1]][e[2]].socket = s}

\* A connection has exactly one owner, an exchange or an entry of the pool, whose
\* upstream it leads to, and a closed one has none: checkout, checkin, invalidate
\* and the replay never share, leak or confuse connections, nor let the pool of an
\* upstream exceed its limit.
SingleOwner ==
    /\ \A s \in Sockets :
          IF sock[s].state = "closed"
          THEN ExchangeOwners(s) = {} /\ PoolOwners(s) = {}
          ELSE \E o \in ExchangeOwners(s) \cup PoolOwners(s) :
                  ExchangeOwners(s) \cup PoolOwners(s) = {o}
    /\ \A x \in Exchanges : ex[x].sock # None => sock[ex[x].sock].to = Target[x]
    /\ \A u \in Upstreams : \A s \in PoolSockets(u) : sock[s].to = u
    /\ \A u \in Upstreams : Len(idle[u]) <= MaxIdle

\* An idle connection to a backend that speaks only when spoken to owes nobody an
\* answer: no request sent on it is still to be
\* executed, no answer is still to be read.  A late answer to a request that
\* timed out is therefore never taken for the answer to the next one.
IdleIsQuiet ==
    \A u \in Upstreams \ Chatty : \A i \in DOMAIN idle[u] :
        LET conn == idle[u][i]
        IN  /\ conn.leftover = <<>>
            /\ sock[conn.socket].inbox = <<>>
            /\ \A x \in Exchanges, k \in BOOLEAN : wire[x][k] # conn.socket

\* An exchange with such a backend that succeeds delivers the response to its own
\* request.
OwnResponse ==
    \A x \in Exchanges :
        ex[x].outcome = "ok" /\ Target[x] \notin Chatty => ex[x].got = x

\* A request whose method is not idempotent is executed at most once, whatever
\* happens to its connection; any request at most twice.
AtMostOnce ==
    \A x \in Exchanges :
        executed[x][FALSE] + executed[x][TRUE] <= IF x \in Idempotent THEN 2 ELSE 1

\* An idempotent request does not fail because of the pooled connection it was
\* given, unless a complete message without a status code came back on it.
PooledFailureHidden ==
    [][\A x \in Exchanges :
          /\ x \in Idempotent
          /\ ex[x].phase \in {"Send", "Read"} /\ ex'[x].outcome = "error"
          => \/ ~ex[x].used_pooled
             \/ /\ ex[x].response_bytes # <<>>
                /\ Head(ex[x].response_bytes).kind = "garbled"]_vars
=============================================================================
