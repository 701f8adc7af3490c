----------------------------- MODULE TcpWorker -----------------------------
(***************************************************************************)
(* A worker's event loop: the connection table keyed by file descriptor,   *)
(* accepting, TLS handshakes, the upstream sockets that share the epoll    *)
(* set, the idle reaper and the graceful shutdown.  What a handler does    *)
(* with a request is reduced to what it does to descriptors (HttpConnection *)
(* has the rest).  The kernel reuses the numbers of closed descriptors.    *)
(* A turn of the loop collects events (epoll_wait), handles them one by    *)
(* one, and ends with check_timeout when a second has passed.              *)
(***************************************************************************)
EXTENDS Integers, Sequences, FiniteSets

CONSTANTS
    Fds,         \* descriptor numbers
    MaxConns,    \* bound: connections offered to the worker
    Limit,       \* max_connections, as far as this worker can use it
    MaxAge,      \* keepalive_timeout, in checks
    MaxEvents,   \* MAX_EVENTS
    Pipeliners,  \* connections whose clients may pipeline
    None

VARIABLES
    kernel,       \* the open descriptors: what each is a socket of
    armed,        \* those in the epoll set and armed
    conns,        \* conns_: descriptor to connection and handshake state
    last_active,  \* last_active_: descriptor to checks since the last event
    owner,        \* upstream_fd_owner_: descriptor to connection
    call,         \* client_upstream_: connection to the descriptor of its call
    pipelining,   \* connections whose clients do
    busy,         \* connections with output or a call (has_inflight_work)
    in_use,       \* slots of the budget this worker holds
    offered,      \* connections offered so far
    events,       \* the events of this turn that are not yet handled
    at,           \* where the loop is: "wait", "handle" or "end"
    phase         \* "run", "drain", "exited"

vars == <<kernel, armed, conns, last_active, owner, call, busy, in_use, offered, events, at, phase,
          pipelining>>
table == <<kernel, armed, conns, last_active, owner, call, busy, in_use>>

Ids == 1 .. MaxConns

Listen == "listen"

\* A descriptor is a client's socket or the upstream socket of a client's call.
File == [kind : {"client", "upstream"}, conn : Ids]

Entry == [conn : Ids, ssl : {"HANDSHAKING", "READY"}]

ASSUME WorkerAssumption ==
    /\ IsFiniteSet(Fds) /\ Listen \notin Fds
    /\ MaxConns \in Nat \ {0} /\ Limit \in Nat \ {0} /\ MaxAge \in Nat
    /\ MaxEvents \in Nat \ {0} /\ Pipeliners \subseteq Ids
    /\ None \notin Fds \cup Ids \cup File \cup Entry \cup 0 .. MaxAge

\* for: the socket the kernel reported, which only the model knows.
Event == [fd : Fds, for : File, hup : BOOLEAN] \cup [fd : {Listen}]

Open(fd) == kernel[fd] # None

Free == {fd \in Fds : ~Open(fd)}

Entries(table_) == {fd \in Fds : table_[fd] # None}

TypeOK ==
    /\ kernel \in [Fds -> File \cup {None}]
    /\ armed \subseteq {fd \in Fds : Open(fd)}
    /\ conns \in [Fds -> Entry \cup {None}]
    /\ last_active \in [Fds -> 0 .. MaxAge \cup {None}]
    /\ owner \in [Fds -> Ids \cup {None}]
    /\ call \in [Ids -> Fds \cup {None}]
    /\ busy \subseteq Ids
    /\ in_use \in 0 .. Limit
    /\ offered \in 0 .. MaxConns
    /\ \A i \in DOMAIN events : events[i] \in Event
    /\ Len(events) <= MaxEvents
    /\ at \in {"wait", "handle", "end"}
    /\ phase \in {"run", "drain", "exited"}
    /\ pipelining \in {{}, Pipeliners}

Init ==
    /\ kernel = [fd \in Fds |-> None] /\ armed = {}
    /\ conns = [fd \in Fds |-> None] /\ last_active = [fd \in Fds |-> None]
    /\ owner = [fd \in Fds |-> None] /\ call = [c \in Ids |-> None] /\ busy = {}
    /\ in_use = 0 /\ offered = 0
    /\ events = <<>> /\ at = "wait" /\ phase = "run"
    /\ pipelining \in {{}, Pipeliners}

-----------------------------------------------------------------------------
(* Closing descriptors.                                                    *)

\* The descriptor of the connection's own socket, if that is open.
ClientFd(c) == {fd \in Fds : kernel[fd] = [kind |-> "client", conn |-> c]}

\* abort_upstream_for_client: the sockets of the calls in flight.
Aborted(cs) == {call[c] : c \in cs} \ {None}

\* HttpHandler::cleanup of the connections cs; it knows nothing of conns_.
CleanedUp(cs) ==
    LET gone == (UNION {ClientFd(c) : c \in cs}) \cup Aborted(cs)
    IN  /\ kernel' = [fd \in Fds |-> IF fd \in gone THEN None ELSE kernel[fd]]
        /\ armed' = armed \ gone
        /\ owner' = [fd \in Fds |-> IF fd \in Aborted(cs) THEN None ELSE owner[fd]]
        /\ call' = [c \in Ids |-> IF c \in cs THEN None ELSE call[c]]
        /\ busy' = busy \ cs

\* The entries of fds are erased, and their tickets with them.
Erased(fds) ==
    /\ conns' = [fd \in Fds |-> IF fd \in fds THEN None ELSE conns[fd]]
    /\ in_use' = in_use - Cardinality(fds \cap Entries(conns))

Forgotten(fds) == [fd \in Fds |-> IF fd \in fds THEN None ELSE last_active[fd]]

ConnsOf(fds) == {conns[fd].conn : fd \in fds \cap Entries(conns)}

\* cleanup, then erase: every teardown the worker itself decides on.
TornDown(fds) == CleanedUp(ConnsOf(fds)) /\ Erased(fds)

-----------------------------------------------------------------------------
(* epoll_wait.  Any armed descriptor may be ready; EPOLLONESHOT disarms it. *)

\* The worker looks for a hangup on client sockets only.
Hups(fd) == IF kernel[fd].kind = "client" THEN BOOLEAN ELSE {FALSE}

\* Mutant: registered without EPOLLONESHOT.
ReportKeepsArmed(fd) ==
    /\ at = "wait" /\ phase # "exited" /\ Len(events) < MaxEvents
    /\ fd \in armed
    /\ \E hup \in Hups(fd) : events' = Append(events, [fd |-> fd, for |-> kernel[fd], hup |-> hup])
    /\ UNCHANGED <<kernel, armed, conns, last_active, owner, call, busy, in_use, offered, at, phase,
                   pipelining>>

Report(fd) ==
    /\ at = "wait" /\ phase # "exited" /\ Len(events) < MaxEvents
    /\ fd \in armed
    /\ armed' = armed \ {fd}
    /\ \E hup \in Hups(fd) : events' = Append(events, [fd |-> fd, for |-> kernel[fd], hup |-> hup])
    /\ UNCHANGED <<kernel, conns, last_active, owner, call, busy, in_use, offered, at, phase,
                   pipelining>>

ReportListen ==
    /\ at = "wait" /\ phase = "run" /\ Len(events) < MaxEvents
    /\ offered < MaxConns
    /\ \A i \in DOMAIN events : events[i].fd # Listen
    /\ events' = Append(events, [fd |-> Listen])
    /\ UNCHANGED <<table, offered, at, phase, pipelining>>

\* epoll_wait returns, with events or after its timeout.
Wake ==
    /\ at = "wait" /\ phase # "exited"
    /\ at' = IF events = <<>> THEN "end" ELSE "handle"
    /\ UNCHANGED <<table, offered, events, phase, pipelining>>

Now == Head(events)

\* The event is dealt with.
Handled ==
    /\ events' = Tail(events)
    /\ at' = IF Len(events) = 1 THEN "end" ELSE "handle"
    /\ UNCHANGED <<offered, phase, pipelining>>

-----------------------------------------------------------------------------
(* handle_accept: one step per accepted socket.                            *)

Accepting == at = "handle" /\ Now.fd = Listen

\* try_acquire succeeds.
Room == in_use < Limit

\* The budget has no room: closed at once.
Shed ==
    /\ Accepting /\ offered < MaxConns /\ Free # {}
    /\ ~Room
    /\ offered' = offered + 1
    /\ UNCHANGED <<table, events, at, phase, pipelining>>

\* Mutant: the ticket of an overwritten entry is never released.
StoredLeaks(fd, c) ==
    /\ conns' = [conns EXCEPT ![fd] = [conn |-> c, ssl |-> "HANDSHAKING"]]
    /\ in_use' = in_use + 1

\* conns_[fd] = ...: the ticket of an entry still there is released.
Stored(fd, c) ==
    /\ conns' = [conns EXCEPT ![fd] = [conn |-> c, ssl |-> "HANDSHAKING"]]
    /\ in_use' = IF conns[fd] # None THEN in_use ELSE in_use + 1

Accept ==
    /\ Accepting /\ offered < MaxConns
    /\ Room
    /\ offered' = offered + 1
    /\ \E fd \in Free :
          /\ last_active' = [last_active EXCEPT ![fd] = 0]
          /\ kernel' = [kernel EXCEPT ![fd] = [kind |-> "client", conn |-> offered']]
          /\ armed' = armed \cup {fd}
          /\ Stored(fd, offered')
    /\ UNCHANGED <<owner, call, busy, events, at, phase, pipelining>>

\* initSSL fails: ticket and socket go, the activity record stays.
AcceptFails ==
    /\ Accepting /\ offered < MaxConns
    /\ Room
    /\ offered' = offered + 1
    /\ \E fd \in Free : last_active' = [last_active EXCEPT ![fd] = 0]
    /\ UNCHANGED <<kernel, armed, conns, owner, call, busy, in_use, events, at, phase, pipelining>>

\* accept would block.
AcceptDone ==
    /\ Accepting
    /\ Handled
    /\ UNCHANGED table

-----------------------------------------------------------------------------
(* handle_client.                                                          *)

Client == at = "handle" /\ Now.fd # Listen /\ owner[Now.fd] = None

NoEntry ==
    /\ Client /\ conns[Now.fd] = None
    /\ Handled
    /\ UNCHANGED table

Handshaking == Client /\ conns[Now.fd] # None /\ conns[Now.fd].ssl = "HANDSHAKING"

\* The peer hung up, or SSL_accept failed for good: the entry's socket is the last
\* reference, so the descriptor is closed with it.  cleanup is not called.
HandshakeEnds ==
    /\ Handshaking
    /\ LET gone == ClientFd(conns[Now.fd].conn)
       IN  /\ kernel' = [fd \in Fds |-> IF fd \in gone THEN None ELSE kernel[fd]]
           /\ armed' = armed \ gone
    /\ Erased({Now.fd})
    /\ last_active' = Forgotten({Now.fd})
    /\ Handled
    /\ UNCHANGED <<owner, call, busy>>

\* SSL_accept completes, or wants more; either way the descriptor is armed again.
HandshakeStep ==
    /\ Handshaking /\ ~Now.hup
    /\ \E ssl \in {"HANDSHAKING", "READY"} : conns' = [conns EXCEPT ![Now.fd].ssl = ssl]
    /\ armed' = armed \cup {Now.fd}
    /\ Handled
    /\ UNCHANGED <<kernel, last_active, owner, call, busy, in_use>>

Ready == Client /\ conns[Now.fd] # None /\ conns[Now.fd].ssl = "READY"

Hangup ==
    /\ Ready /\ Now.hup
    /\ TornDown({Now.fd})
    /\ last_active' = Forgotten({Now.fd})
    /\ Handled

\* The socket of the entry is open and has this descriptor.
Live(fd) == conns[fd] # None /\ kernel[fd] = [kind |-> "client", conn |-> conns[fd].conn]

Touched == [last_active EXCEPT ![Now.fd] = 0]

Conn == conns[Now.fd].conn

\* handle_read or handle_write leaves the connection with or without output; with
\* a call in flight (rearm_reads) possibly disarmed.
Serve ==
    /\ Ready /\ ~Now.hup /\ Live(Now.fd)
    /\ last_active' = Touched
    /\ armed' \in {armed \cup {Now.fd}} \cup (IF call[Conn] # None THEN {armed} ELSE {})
    /\ busy' \in {busy \cup {Conn}} \cup (IF call[Conn] = None THEN {busy \ {Conn}} ELSE {})
    /\ Handled
    /\ UNCHANGED <<kernel, conns, owner, call, in_use>>

\* handle_read starts an upstream call in place of an older one, whose socket is
\* closed but stays in upstream_fd_owner_.  The client's descriptor is disarmed,
\* unless the response to a request pipelined before this one has armed it.
Proxy ==
    /\ Ready /\ ~Now.hup /\ Live(Now.fd)
    /\ last_active' = Touched
    /\ \E fd \in Free \cup Aborted({Conn}) :
          /\ kernel' = [f \in Fds |-> IF f = fd THEN [kind |-> "upstream", conn |-> Conn]
                                      ELSE IF f = call[Conn] THEN None ELSE kernel[f]]
          /\ owner' = [owner EXCEPT ![fd] = Conn]
          /\ call' = [call EXCEPT ![Conn] = fd]
          /\ armed' \in LET others == (armed \ Aborted({Conn})) \cup {fd}
                        IN  {others} \cup (IF Conn \in pipelining THEN {others \cup {Now.fd}} ELSE {})
    /\ busy' = busy \cup {Conn}
    /\ Handled
    /\ UNCHANGED <<conns, in_use>>

\* The handler itself cleans up: the response was the last one, the stream ended,
\* or an error occurred (it is one at once if the entry's socket was closed
\* before).  The worker's entry and its ticket stay.
HandlerCloses ==
    /\ Ready /\ ~Now.hup
    /\ last_active' = Touched
    /\ CleanedUp({Conn})
    /\ Handled
    /\ UNCHANGED <<conns, in_use>>

-----------------------------------------------------------------------------
(* on_upstream_event.                                                      *)

Upstream == at = "handle" /\ Now.fd # Listen /\ owner[Now.fd] # None

\* The connection has no call: the event is dropped.
UpstreamGone ==
    /\ Upstream /\ call[owner[Now.fd]] = None
    /\ Handled
    /\ UNCHANGED table

\* Mutant: the socket it gives up stays in upstream_fd_owner_.
GoesOnKeepsOld(c) ==
    /\ call[c] # None
    /\ \E fd \in Free \cup {call[c]} :
          /\ kernel' = [kernel EXCEPT ![call[c]] = None, ![fd] = kernel[call[c]]]
          /\ owner' = [owner EXCEPT ![fd] = c]
          /\ call' = [call EXCEPT ![c] = fd]
          /\ armed' = (armed \ {call[c]}) \cup {fd}
    /\ UNCHANGED <<conns, last_active, busy, in_use>>

\* drive_child: the call goes on, on its socket or (a retry) on a new one, whose
\* number may be any that is free once the old one is closed.
GoesOn(c) ==
    /\ call[c] # None
    /\ \E fd \in Free \cup {call[c]} :
          /\ kernel' = [kernel EXCEPT ![call[c]] = None, ![fd] = kernel[call[c]]]
          /\ owner' = [owner EXCEPT ![call[c]] = None, ![fd] = c]
          /\ call' = [call EXCEPT ![c] = fd]
          /\ armed' = (armed \ {call[c]}) \cup {fd}
    /\ UNCHANGED <<conns, last_active, busy, in_use>>

\* The call of c is over: its response is queued and the client's descriptor armed.
CallOver(c) ==
    /\ call[c] # None
    /\ kernel' = [kernel EXCEPT ![call[c]] = None]
    /\ owner' = [owner EXCEPT ![call[c]] = None]
    /\ call' = [call EXCEPT ![c] = None]
    /\ armed' = (armed \ {call[c]}) \cup ClientFd(c)
    /\ UNCHANGED <<conns, last_active, busy, in_use>>

Advance ==
    /\ Upstream
    /\ GoesOn(owner[Now.fd])
    /\ Handled

UpstreamDone ==
    /\ Upstream
    /\ CallOver(owner[Now.fd])
    /\ Handled

-----------------------------------------------------------------------------
(* The end of a turn.                                                      *)

\* check_upstream_timeouts: a call in flight has run out of time, or is retried.
UpstreamTimeout ==
    /\ at = "end"
    /\ \E c \in Ids : CallOver(c) \/ GoesOn(c)
    /\ UNCHANGED <<offered, events, at, phase, pipelining>>

\* Less than a second since the last check.
NextTurn ==
    /\ at = "end" /\ phase = "run"
    /\ at' = "wait"
    /\ UNCHANGED <<table, offered, events, phase, pipelining>>

\* Mutant: entries whose socket the handler has closed are passed over.
ExpiredLive == {fd \in Fds : last_active[fd] = MaxAge /\ (conns[fd] # None => Live(fd))}

\* Idle for more than keepalive_timeout at this check.
Expired == {fd \in Fds : last_active[fd] = MaxAge}

\* check_timeout: expired connections are torn down, records without entry dropped.
CheckTimeout ==
    /\ at = "end" /\ phase = "run"
    /\ TornDown(Expired)
    /\ last_active' = [fd \in Fds |->
                          IF conns[fd] = None \/ fd \in Expired THEN None
                          ELSE IF last_active[fd] = None \/ last_active[fd] = MaxAge
                               THEN last_active[fd] ELSE last_active[fd] + 1]
    /\ at' = "wait"
    /\ UNCHANGED <<offered, events, phase, pipelining>>

\* stop_server_flag ends the loop before the next epoll_wait.
Stop ==
    /\ at = "wait" /\ events = <<>> /\ phase = "run"
    /\ phase' = "drain"
    /\ UNCHANGED <<table, offered, events, at, pipelining>>

\* The entries drain_connections closes at the end of a turn.
Drainable ==
    {fd \in Entries(conns) : conns[fd].ssl = "HANDSHAKING" \/ conns[fd].conn \notin busy}

DrainSweep ==
    /\ at = "end" /\ phase = "drain"
    /\ TornDown(Drainable)
    /\ last_active' = Forgotten(Drainable)
    /\ at' = "wait"
    /\ UNCHANGED <<offered, events, phase, pipelining>>

\* Mutant: only the connections it was waiting for.
RemainingBusy == {fd \in Entries(conns) : conns[fd].conn \in busy}

\* The entries still there when the drain is over.
Remaining == Entries(conns)

\* No connection is left, or the budget is used up and the rest is closed.
DrainEnds ==
    /\ at = "wait" /\ events = <<>> /\ phase = "drain"
    /\ TornDown(Remaining)
    /\ last_active' = Forgotten(Remaining)
    /\ phase' = "exited"
    /\ UNCHANGED <<offered, events, at, pipelining>>

-----------------------------------------------------------------------------
Handle ==
    \/ Shed \/ Accept \/ AcceptFails \/ AcceptDone
    \/ NoEntry \/ HandshakeEnds \/ HandshakeStep
    \/ Hangup \/ Serve \/ Proxy \/ HandlerCloses
    \/ UpstreamGone \/ Advance \/ UpstreamDone

Next ==
    \/ \E fd \in Fds : Report(fd)
    \/ ReportListen \/ Wake \/ Handle
    \/ UpstreamTimeout \/ NextTurn \/ CheckTimeout
    \/ Stop \/ DrainSweep \/ DrainEnds

Spec == Init /\ [][Next]_vars

\* The loop keeps turning, a check comes about every second, and the drain has a
\* deadline that it looks at on every turn.
FairSpec ==
    /\ Spec
    /\ WF_vars(Wake) /\ WF_vars(Handle) /\ WF_vars(NextTurn) /\ WF_vars(DrainSweep)
    /\ SF_vars(CheckTimeout) /\ SF_vars(DrainEnds)

-----------------------------------------------------------------------------
(* Properties.                                                             *)

\* Whatever numbers the kernel reuses, every open client socket has its own entry
\* and activity record, or the reaper and the drain would never find it; and the
\* worker holds one slot of the budget per entry, also when an entry is
\* overwritten because its descriptor number is in use again.
Tracked ==
    /\ in_use = Cardinality(Entries(conns))
    /\ \A fd \in Fds :
           Open(fd) /\ kernel[fd].kind = "client" => Live(fd) /\ last_active[fd] # None

\* If clients do not pipeline, upstream_fd_owner_ names exactly the open upstream
\* sockets, and each works for an open connection: no call outlives its client.
UpstreamOwned ==
    pipelining = {} =>
        \A fd \in Fds :
            /\ owner[fd] # None <=> Open(fd) /\ kernel[fd].kind = "upstream"
            /\ owner[fd] # None => kernel[fd].conn = owner[fd] /\ ClientFd(owner[fd]) # {}

\* A worker that has exited has closed every socket and returned every slot.
ExitedClean == phase = "exited" => in_use = 0 /\ \A fd \in Fds : ~Open(fd)

\* The slot of a connection that the handler has closed is given back: the reaper
\* finds the entry, unless its number is reused or the worker drains before.
SlotsReturn ==
    \A fd \in Fds : (conns[fd] # None /\ ~Live(fd)) ~> (conns[fd] = None \/ Live(fd))

\* An event is handled for the socket it was reported for: by the connection of
\* that client socket, or by the call of that upstream socket.
RightRecipient ==
    /\ Client /\ conns[Now.fd] # None => Now.for = [kind |-> "client", conn |-> Conn]
    /\ Upstream => Now.for = [kind |-> "upstream", conn |-> owner[Now.fd]]

\* Without pipelining that is so, however descriptor numbers are reused within a
\* turn: nothing a handler closes has an event waiting.
SerialRecipient == pipelining = {} => RightRecipient
=============================================================================
