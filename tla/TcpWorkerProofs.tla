-------------------------- MODULE TcpWorkerProofs --------------------------
(***************************************************************************)
(* A worker loses no client socket, whatever numbers the kernel reuses and *)
(* however events are ordered within a turn, for any number of descriptors *)
(* and connections.  What the run checks is not inductive: that a client   *)
(* socket keeps its entry needs to know that the descriptor of a call is   *)
(* an upstream socket (Calling), and that the last sockets go with the     *)
(* last entries needs to know that a call has a client (also Calling).     *)
(* Without pipelining, a client whose call is in flight has no event       *)
(* pending (Waiting); so nothing a handler closes has one.                 *)
(***************************************************************************)
EXTENDS TcpWorker, FiniteSetTheorems, TLAPS

\* Where the loop is says whether there are events to handle.
LoopInv ==
    /\ events \in Seq(Event)
    /\ at = "handle" => events # <<>>
    /\ at = "end" \/ phase = "exited" => events = <<>>
    /\ phase = "exited" => at = "wait"

ClientOf(c) == [kind |-> "client", conn |-> c]
UpstreamOf(c) == [kind |-> "upstream", conn |-> c]

\* An open socket is a client's, and has its entry and its activity record, or
\* that of its connection's call.
Sockets ==
    \A fd \in Fds :
        /\ Open(fd) /\ kernel[fd].kind = "client" => Live(fd) /\ last_active[fd] # None
        /\ Open(fd) /\ kernel[fd].kind = "upstream" => call[kernel[fd].conn] = fd

\* Every accepted connection has a number of its own.
Numbered ==
    /\ \A fd \in Fds : conns[fd] # None => conns[fd].conn <= offered
    /\ \A f, g \in Fds :
          conns[f] # None /\ conns[g] # None /\ conns[f].conn = conns[g].conn => f = g

\* A call has its socket and its client, which has completed the handshake.
Calling ==
    \A c \in Ids :
        call[c] # None =>
            /\ kernel[call[c]] = UpstreamOf(c)
            /\ \E fd \in Fds : Live(fd) /\ conns[fd].conn = c /\ conns[fd].ssl = "READY"

\* A connection in its handshake is open: only the worker closes it, with its
\* entry.
Greeting ==
    \A fd \in Fds : conns[fd] # None /\ conns[fd].ssl = "HANDSHAKING" => Live(fd)

Slots == in_use = Cardinality(Entries(conns))

TableInv == Slots /\ Sockets /\ Numbered /\ Calling /\ Greeting

\* An event is of the socket that has its number now, which is not armed again
\* and has no other event.
Current ==
    \A i \in DOMAIN events :
        events[i].fd # Listen =>
            /\ kernel[events[i].fd] = events[i].for
            /\ events[i].fd \notin armed
            /\ \A j \in DOMAIN events : events[j].fd = events[i].fd => i = j

\* upstream_fd_owner_ is client_upstream_ turned around.
Owned ==
    \A fd \in Fds :
        /\ owner[fd] # None <=> Open(fd) /\ kernel[fd].kind = "upstream"
        /\ owner[fd] # None => kernel[fd].conn = owner[fd]

\* A client whose call is in flight is neither armed nor about to be handled.
Waiting ==
    \A fd \in Fds :
        Live(fd) /\ call[conns[fd].conn] # None =>
            fd \notin armed /\ \A i \in DOMAIN events : events[i].fd # fd

SerialInv == pipelining = {} => Current /\ Owned /\ Waiting

IInv == TypeOK /\ LoopInv /\ TableInv /\ SerialInv /\ ExitedClean

-----------------------------------------------------------------------------
(* What the provers need to know of the parts.                             *)

TableType ==
    /\ kernel \in [Fds -> File \cup {None}]
    /\ armed \subseteq {fd \in Fds : Open(fd)}
    /\ conns \in [Fds -> Entry \cup {None}]
    /\ last_active \in [Fds -> 0 .. MaxAge \cup {None}]
    /\ owner \in [Fds -> Ids \cup {None}]
    /\ call \in [Ids -> Fds \cup {None}]
    /\ busy \subseteq Ids
    /\ in_use \in 0 .. Limit

LoopType ==
    /\ offered \in 0 .. MaxConns
    /\ \A i \in DOMAIN events : events[i] \in Event
    /\ Len(events) <= MaxEvents
    /\ at \in {"wait", "handle", "end"}
    /\ phase \in {"run", "drain", "exited"}
    /\ pipelining \in {{}, Pipeliners}

\* The type invariant, in the two halves the proofs treat separately.
LEMMA Types == TypeOK <=> TableType /\ LoopType
BY DEF TypeOK, TableType, LoopType

\* "Nothing" is told from everything the tables hold.
LEMMA Nothing ==
    /\ None \notin Fds /\ None \notin Ids /\ None \notin File /\ None \notin Entry
    /\ None \notin 0 .. MaxAge /\ Listen \notin Fds
    /\ MaxConns \in Nat /\ Limit \in Nat /\ MaxEvents \in Nat /\ IsFiniteSet(Fds)
BY WorkerAssumption

\* Two sockets of a kind and a connection are the same to the kernel table.
LEMMA FileIs ==
    ASSUME NEW r \in File, NEW c
    PROVE  /\ r = ClientOf(c) <=> r.kind = "client" /\ r.conn = c
           /\ r = UpstreamOf(c) <=> r.kind = "upstream" /\ r.conn = c
           /\ r.kind \in {"client", "upstream"} /\ r.conn \in Ids
BY DEF File, ClientOf, UpstreamOf

\* What it is for the entry of a descriptor to be of the socket that is open.
LEMMA LiveIs ==
    ASSUME TableType, NEW fd \in Fds
    PROVE  /\ Open(fd) => kernel[fd] \in File
           /\ conns[fd] # None => conns[fd] \in Entry
           /\ Live(fd) <=> /\ conns[fd] # None /\ Open(fd)
                           /\ kernel[fd].kind = "client" /\ kernel[fd].conn = conns[fd].conn
<1>1. (Open(fd) => kernel[fd] \in File) /\ (conns[fd] # None => conns[fd] \in Entry)
  BY DEF TableType, Open
<1>2. Live(fd) <=> conns[fd] # None /\ kernel[fd] = ClientOf(conns[fd].conn)
  BY DEF Live, ClientOf
<1>3. ASSUME conns[fd] # None PROVE ClientOf(conns[fd].conn) \in File
  BY <1>1, <1>3 DEF ClientOf, File, Entry
<1>4. QED
  BY <1>1, <1>2, <1>3, FileIs, Nothing DEF Open

\* The sockets a cleanup of the connections cs closes are all of theirs.
LEMMA GoneIs ==
    ASSUME TableType, Sockets, Calling, NEW cs \in SUBSET Ids, NEW fd \in Fds
    PROVE  /\ fd \in (UNION {ClientFd(c) : c \in cs}) \cup Aborted(cs) <=>
                  Open(fd) /\ kernel[fd].conn \in cs
           /\ fd \in Aborted(cs) <=>
                  Open(fd) /\ kernel[fd].kind = "upstream" /\ kernel[fd].conn \in cs
<1>1. fd \in Aborted(cs) <=> \E c \in cs : call[c] = fd
  BY Nothing DEF Aborted
<1>2. fd \in UNION {ClientFd(c) : c \in cs} <=> \E c \in cs : kernel[fd] = ClientOf(c)
  BY DEF ClientFd, ClientOf
<1>3. ASSUME NEW c \in cs PROVE UpstreamOf(c) \in File /\ ClientOf(c) \in File
  BY DEF UpstreamOf, ClientOf, File
<1>4. ASSUME NEW c \in cs, call[c] = fd PROVE kernel[fd] = UpstreamOf(c)
  BY <1>4, Nothing DEF Calling
<1>5. ASSUME Open(fd) PROVE kernel[fd] \in File
  BY <1>5, LiveIs
<1>6. fd \in Aborted(cs) => Open(fd) /\ kernel[fd].kind = "upstream" /\ kernel[fd].conn \in cs
  BY <1>1, <1>3, <1>4, <1>5, FileIs, Nothing DEF Open
<1>7. Open(fd) /\ kernel[fd].kind = "upstream" /\ kernel[fd].conn \in cs => fd \in Aborted(cs)
  BY <1>1 DEF Sockets
<1>8. (\E c \in cs : kernel[fd] = ClientOf(c)) <=>
      Open(fd) /\ kernel[fd].kind = "client" /\ kernel[fd].conn \in cs
  BY <1>3, <1>5, FileIs, Nothing DEF Open
<1>9. QED
  BY <1>2, <1>5, <1>6, <1>7, <1>8, FileIs

-----------------------------------------------------------------------------
(* How the steps change the tables.                                        *)

\* The sockets of the connections cs are closed.
Severs(cs) ==
    LET gone == (UNION {ClientFd(c) : c \in cs}) \cup Aborted(cs)
    IN  /\ kernel' = [fd \in Fds |-> IF fd \in gone THEN None ELSE kernel[fd]]
        /\ armed' = armed \ gone
        /\ owner' = [fd \in Fds |-> IF fd \in Aborted(cs) THEN None ELSE owner[fd]]
        /\ call' = [c \in Ids |-> IF c \in cs THEN None ELSE call[c]]
        /\ busy' \in SUBSET Ids

\* Closing the sockets of connections, and erasing entries of no others, keeps
\* the tables in order: cleanup by a handler, the reaper, the drain.
LEMMA SeversTable ==
    ASSUME TableType, TableInv, NEW cs \in SUBSET Ids, NEW fds \in SUBSET Fds,
           Severs(cs), Erased(fds), ConnsOf(fds) \subseteq cs, offered' = offered,
           \A fd \in Entries(conns) \ fds : conns[fd].conn \in cs => conns[fd].ssl = "READY",
           last_active' \in [Fds -> 0 .. MaxAge \cup {None}],
           \A fd \in Fds : conns'[fd] # None /\ last_active[fd] # None => last_active'[fd] # None
    PROVE  TableType' /\ TableInv'
<1> USE DEF TableInv
<1>1. ASSUME NEW fd \in Fds
      PROVE  /\ kernel'[fd] = IF Open(fd) /\ kernel[fd].conn \in cs THEN None ELSE kernel[fd]
             /\ fd \in armed' => fd \in armed /\ ~(Open(fd) /\ kernel[fd].conn \in cs)
             /\ conns'[fd] = IF fd \in fds THEN None ELSE conns[fd]
             /\ conns[fd] # None /\ fd \in fds => conns[fd].conn \in cs
  BY <1>1, GoneIs DEF Severs, Erased, ConnsOf, Entries
<1>2. \A c \in Ids : call'[c] = IF c \in cs THEN None ELSE call[c]
  BY DEF Severs
<1>3. Slots' /\ in_use' \in 0 .. Limit
  <2>1. IsFiniteSet(Entries(conns)) /\ Entries(conns') = Entries(conns) \ fds
    BY <1>1, FS_Subset, Nothing DEF Entries
  <2>2. Cardinality(Entries(conns')) = Cardinality(Entries(conns)) - Cardinality(Entries(conns) \cap fds)
    BY <2>1, FS_Difference, Zenon
  <2>3. IsFiniteSet(Entries(conns) \ fds) /\ IsFiniteSet(Entries(conns) \cap fds)
    BY <2>1, FS_Difference, FS_Intersection, Zenon
  <2>4. Cardinality(Entries(conns')) \in Nat /\ Cardinality(Entries(conns) \cap fds) \in Nat
    BY <2>1, <2>3, FS_CardinalityType
  <2>5. Entries(conns) \cap fds = fds \cap Entries(conns)
    OBVIOUS
  <2>6. in_use' = Cardinality(Entries(conns')) /\ in_use \in 0 .. Limit
    BY <2>2, <2>4, <2>5, Zenon DEF Slots, Erased, TableType
  <2>7. in_use' \in 0 .. Limit
    BY <2>2, <2>4, <2>6, Nothing DEF Slots
  <2>8. QED
    BY <2>6, <2>7 DEF Slots, Entries
<1>4. TableType'
  <2>1. kernel' \in [Fds -> File \cup {None}] /\ owner' \in [Fds -> Ids \cup {None}]
    BY DEF Severs, TableType
  <2>2. armed' \subseteq {fd \in Fds : kernel'[fd] # None}
    BY <1>1 DEF TableType, Open, Severs
  <2>3. conns' \in [Fds -> Entry \cup {None}] /\ call' \in [Ids -> Fds \cup {None}]
    BY DEF Erased, Severs, TableType
  <2>4. QED
    BY <1>3, <2>1, <2>2, <2>3 DEF TableType, Open, Severs
<1>5. ASSUME NEW fd \in Fds, Open(fd)'
      PROVE  Open(fd) /\ kernel'[fd] = kernel[fd] /\ kernel[fd].conn \notin cs /\ kernel[fd] \in File
  BY <1>1, <1>5, LiveIs DEF Open
<1>6. ASSUME NEW fd \in Fds, Live(fd), conns[fd].conn \notin cs
      PROVE  Live(fd)' /\ conns'[fd] = conns[fd] /\ kernel'[fd] = kernel[fd]
  BY <1>1, <1>4, <1>6, LiveIs DEF Live
<1>7. Sockets'
  <2>1. ASSUME NEW fd \in Fds, Open(fd)', kernel'[fd].kind = "client"
        PROVE  Live(fd)' /\ last_active'[fd] # None
    <3>1. Live(fd) /\ last_active[fd] # None
      BY <1>5, <2>1 DEF Sockets
    <3>2. conns[fd].conn \notin cs
      BY <1>5, <2>1, <3>1, LiveIs
    <3>3. QED
      BY <1>6, <3>1, <3>2, LiveIs
  <2>2. ASSUME NEW fd \in Fds, Open(fd)', kernel'[fd].kind = "upstream"
        PROVE  call'[kernel'[fd].conn] = fd
    BY <1>2, <1>5, <2>2, FileIs DEF Sockets
  <2>3. QED
    BY <2>1, <2>2 DEF Sockets
<1>8. Numbered'
  BY <1>1 DEF Numbered
<1>9. Calling'
  <2>1. SUFFICES ASSUME NEW c \in Ids, call'[c] # None
                 PROVE  /\ kernel'[call'[c]] = UpstreamOf(c)
                        /\ \E fd \in Fds : Live(fd)' /\ conns'[fd].conn = c /\ conns'[fd].ssl = "READY"
    BY DEF Calling, UpstreamOf
  <2>2. c \notin cs /\ call'[c] = call[c] /\ call[c] \in Fds
    BY <1>2, <2>1 DEF TableType
  <2>3. kernel[call[c]] = UpstreamOf(c) /\ UpstreamOf(c) \in File
    BY <2>2, <2>1 DEF Calling, UpstreamOf, File
  <2>4. kernel'[call[c]] = UpstreamOf(c)
    BY <1>1, <2>2, <2>3, FileIs
  <2>5. PICK fd \in Fds : Live(fd) /\ conns[fd].conn = c /\ conns[fd].ssl = "READY"
    BY <2>1, <2>2 DEF Calling
  <2>6. QED
    BY <1>6, <2>2, <2>4, <2>5
<1>10. Greeting'
  <2>1. SUFFICES ASSUME NEW fd \in Fds, conns'[fd] # None, conns'[fd].ssl = "HANDSHAKING"
                 PROVE  Live(fd)'
    BY DEF Greeting
  <2>2. fd \notin fds /\ conns'[fd] = conns[fd] /\ conns[fd].conn \notin cs
    BY <1>1, <2>1 DEF Entries
  <2>3. QED
    BY <1>6, <2>1, <2>2 DEF Greeting
<1>11. QED
  BY <1>3, <1>4, <1>7, <1>8, <1>9, <1>10

\* An accepted connection gets a number that no entry has, and takes over the
\* entry, the slot and the record of a descriptor whose socket was closed.
LEMMA AcceptTable ==
    ASSUME TableType, TableInv, offered \in 0 .. MaxConns, offered < MaxConns, Room,
           NEW fd \in Free, offered' = offered + 1, Stored(fd, offered + 1),
           last_active' = [last_active EXCEPT ![fd] = 0],
           kernel' = [kernel EXCEPT ![fd] = ClientOf(offered + 1)],
           armed' = armed \cup {fd}, UNCHANGED <<owner, call, busy>>
    PROVE  TableType' /\ TableInv'
<1> DEFINE n == offered + 1
           e == [conn |-> n, ssl |-> "HANDSHAKING"]
<1> USE Nothing DEF TableInv
<1>1. fd \in Fds /\ ~Open(fd) /\ n \in Ids /\ ClientOf(n) \in File /\ e \in Entry /\ n \in Nat
  BY DEF Free, Ids, ClientOf, File, Entry
<1>2. /\ conns' = [conns EXCEPT ![fd] = e]
      /\ in_use' = IF conns[fd] # None THEN in_use ELSE in_use + 1
  BY DEF Stored
<1>3. ClientOf(n).kind = "client" /\ ClientOf(n).conn = n /\ e.conn = n
  BY DEF ClientOf
<1> HIDE DEF n, e
<1>4. Slots' /\ in_use' \in 0 .. Limit
  <2>1. IsFiniteSet(Entries(conns)) /\ Entries(conns') = Entries(conns) \cup {fd}
    BY <1>1, <1>2, FS_Subset DEF Entries, TableType
  <2>2. fd \in Entries(conns) <=> conns[fd] # None
    BY <1>1 DEF Entries
  <2>3. Cardinality(Entries(conns')) =
            IF fd \in Entries(conns) THEN in_use ELSE in_use + 1
    BY <2>1, FS_AddElement, Zenon DEF Slots
  <2>4. in_use' \in 0 .. Limit
    BY <1>2 DEF Room, TableType
  <2>5. QED
    BY <1>2, <2>2, <2>3, <2>4 DEF Slots, Entries
<1>5. TableType'
  <2>1. kernel' \in [Fds -> File \cup {None}] /\ conns' \in [Fds -> Entry \cup {None}]
    BY <1>1, <1>2 DEF TableType, n
  <2>2. last_active' \in [Fds -> 0 .. MaxAge \cup {None}]
    <3>1. 0 \in 0 .. MaxAge
      BY WorkerAssumption
    <3>2. QED
      BY <3>1, Zenon DEF TableType
  <2>3. armed' \subseteq {f \in Fds : kernel'[f] # None}
    BY <1>1 DEF TableType, Open, n
  <2>4. QED
    BY <1>4, <2>1, <2>2, <2>3 DEF TableType, Open
<1>6. /\ \A g \in Fds \ {fd} : /\ kernel'[g] = kernel[g] /\ conns'[g] = conns[g]
                               /\ last_active'[g] = last_active[g]
      /\ kernel'[fd] = ClientOf(n) /\ conns'[fd] = e /\ last_active'[fd] = 0
  BY <1>1, <1>2 DEF TableType, n
<1>7. Live(fd)' /\ 0 # None
  BY <1>1, <1>3, <1>6, WorkerAssumption DEF Live, ClientOf
<1>8. ASSUME NEW g \in Fds \ {fd} PROVE Live(g)' = Live(g)
  BY <1>6 DEF Live
<1>9. Sockets'
  <2>1. ASSUME NEW g \in Fds, Open(g)', kernel'[g].kind = "client"
        PROVE  Live(g)' /\ last_active'[g] # None
    BY <1>6, <1>7, <1>8, <2>1 DEF Sockets, Open
  <2>2. ASSUME NEW g \in Fds, Open(g)', kernel'[g].kind = "upstream"
        PROVE  call'[kernel'[g].conn] = g
    BY <1>3, <1>6, <2>2 DEF Sockets, Open
  <2>3. QED
    BY <2>1, <2>2 DEF Sockets
<1>10. Numbered'
  <2>1. \A g \in Fds \ {fd} : conns'[g] # None => conns'[g].conn \in Nat /\ conns'[g].conn < n
    BY <1>6, LiveIs DEF Numbered, n, Entry, Ids
  <2>2. QED
    BY <1>1, <1>3, <1>6, <2>1 DEF Numbered, n
<1>11. Calling'
  <2>1. SUFFICES ASSUME NEW c \in Ids, call[c] # None
                 PROVE  /\ kernel'[call[c]] = UpstreamOf(c)
                        /\ \E g \in Fds : Live(g)' /\ conns'[g].conn = c /\ conns'[g].ssl = "READY"
    BY DEF Calling, UpstreamOf
  <2>2. kernel[call[c]] = UpstreamOf(c) /\ UpstreamOf(c) \in File /\ call[c] \in Fds
    BY <2>1 DEF Calling, UpstreamOf, File, TableType
  <2>3. call[c] # fd
    BY <1>1, <2>2 DEF Open
  <2>4. PICK g \in Fds : Live(g) /\ conns[g].conn = c /\ conns[g].ssl = "READY"
    BY <2>1 DEF Calling
  <2>5. g # fd
    BY <1>1, <2>4, LiveIs
  <2>6. QED
    BY <1>6, <1>8, <2>2, <2>3, <2>4, <2>5
<1>12. Greeting'
  BY <1>6, <1>7, <1>8 DEF Greeting
<1>13. QED
  BY <1>4, <1>5, <1>9, <1>10, <1>11, <1>12

\* The call of connection c is on the socket new from now on, or over if that is
\* None, and the socket it was on is closed: a new call, a retry, an answer.
Recalls(c, new) ==
    /\ kernel' = [f \in Fds |-> IF f = new THEN UpstreamOf(c)
                                ELSE IF f = call[c] THEN None ELSE kernel[f]]
    /\ call' = [call EXCEPT ![c] = new]

\* The call of a connection moves to a free descriptor, stays or ends, and the
\* other connections keep their sockets.
LEMMA RecallsTable ==
    ASSUME TableType, TableInv, NEW c \in Ids, NEW new \in Free \cup {call[c], None}, Recalls(c, new),
           \E g \in Fds : Live(g) /\ conns[g].conn = c /\ conns[g].ssl = "READY",
           armed' \subseteq {f \in Fds : Open(f)'}, owner' \in [Fds -> Ids \cup {None}],
           busy' \subseteq Ids, last_active' \in [Fds -> 0 .. MaxAge \cup {None}],
           \A f \in Fds : last_active[f] # None => last_active'[f] # None,
           UNCHANGED <<conns, in_use, offered>>
    PROVE  /\ TableType' /\ TableInv'
           /\ \A g \in Fds : Live(g) => Live(g)' /\ kernel'[g] = kernel[g]
<1> USE Nothing DEF TableInv
<1>1. new \in Fds \cup {None} /\ UpstreamOf(c) \in File /\ UpstreamOf(c).kind = "upstream"
  BY DEF Free, TableType, UpstreamOf, File
<1>2. /\ \A f \in Fds : kernel'[f] = IF f = new THEN UpstreamOf(c)
                                     ELSE IF f = call[c] THEN None ELSE kernel[f]
      /\ \A d \in Ids : call'[d] = IF d = c THEN new ELSE call[d]
  BY DEF Recalls, TableType
<1>3. TableType'
  <2>1. kernel' \in [Fds -> File \cup {None}]
    BY <1>1 DEF Recalls, TableType
  <2>2. call' \in [Ids -> Fds \cup {None}]
    BY <1>1 DEF Recalls, TableType
  <2>3. QED
    BY <2>1, <2>2 DEF TableType, Open
<1>4. \A d \in Ids : call[d] # None => kernel[call[d]] = UpstreamOf(d) /\ UpstreamOf(d) \in File
                                       /\ call[d] \in Fds
  BY DEF Calling, UpstreamOf, File, TableType
<1>5. \A d \in Ids : UpstreamOf(d).conn = d /\ UpstreamOf(d).kind = "upstream"
  BY DEF UpstreamOf
<1>6. ASSUME NEW g \in Fds, Live(g) PROVE Live(g)' /\ kernel'[g] = kernel[g]
  <2>1. Open(g) /\ kernel[g].kind = "client"
    BY <1>6, LiveIs
  <2>2. g # call[c]
    BY <1>4, <1>5, <2>1
  <2>3. g # new
    BY <2>1, <2>2 DEF Free
  <2>4. QED
    BY <1>2, <1>6, <2>2, <2>3 DEF Live
<1>7. Sockets'
  <2>1. ASSUME NEW f \in Fds, Open(f)', kernel'[f].kind = "client"
        PROVE  Live(f)' /\ last_active'[f] # None
    BY <1>1, <1>2, <1>6, <2>1 DEF Sockets, Open
  <2>2. ASSUME NEW f \in Fds, Open(f)', kernel'[f].kind = "upstream"
        PROVE  call'[kernel'[f].conn] = f
    <3>1. CASE f = new
      BY <1>2, <1>5, <3>1
    <3>2. CASE f # new
      <4>1. Open(f) /\ kernel'[f] = kernel[f] /\ f # call[c]
        BY <1>2, <2>2, <3>2 DEF Open
      <4>2. kernel[f].conn \in Ids /\ call[kernel[f].conn] = f
        BY <2>2, <4>1, LiveIs, FileIs DEF Sockets
      <4>3. QED
        BY <1>2, <4>1, <4>2
    <3>3. QED
      BY <3>1, <3>2
  <2>3. QED
    BY <2>1, <2>2 DEF Sockets
<1>8. Calling'
  <2>1. SUFFICES ASSUME NEW d \in Ids, call'[d] # None
                 PROVE  /\ kernel'[call'[d]] = UpstreamOf(d)
                        /\ \E g \in Fds : Live(g)' /\ conns'[g].conn = d /\ conns'[g].ssl = "READY"
    BY DEF Calling
  <2>2. \E g \in Fds : Live(g) /\ conns[g].conn = d /\ conns[g].ssl = "READY"
    BY <1>2, <2>1 DEF Calling
  <2>3. CASE d = c
    BY <1>1, <1>2, <1>6, <2>1, <2>2, <2>3
  <2>4. CASE d # c
    <3>1. call'[d] = call[d] /\ call[d] \in Fds /\ kernel[call[d]] = UpstreamOf(d)
      BY <1>2, <1>4, <2>1, <2>4
    <3>2. call[d] # call[c] /\ call[d] \notin Free
      BY <1>4, <1>5, <2>1, <2>4, <3>1 DEF Free, Open
    <3>3. QED
      BY <1>2, <1>6, <2>2, <3>1, <3>2
  <2>5. QED
    BY <2>3, <2>4
<1>9. Greeting'
  BY <1>6 DEF Greeting
<1>10. Slots' /\ Numbered'
  BY DEF Slots, Numbered, Entries
<1>11. QED
  BY <1>3, <1>6, <1>7, <1>8, <1>9, <1>10

\* A step that leaves the sockets, the calls and the entries alone.
LEMMA SameTable ==
    ASSUME TableType, TableInv, UNCHANGED <<kernel, conns, call, in_use>>, offered \in Nat,
           offered' \in {offered, offered + 1},
           armed' \subseteq {f \in Fds : Open(f)}, owner' \in [Fds -> Ids \cup {None}],
           busy' \subseteq Ids, last_active' \in [Fds -> 0 .. MaxAge \cup {None}],
           \A f \in Fds : last_active[f] # None => last_active'[f] # None
    PROVE  TableType' /\ TableInv'
<1> USE DEF TableInv
<1>1. TableType'
  BY DEF TableType, Open
<1>2. Slots' /\ Sockets' /\ Calling' /\ Greeting'
  BY DEF Slots, Entries, Sockets, Calling, Greeting, Open, Live
<1>3. Numbered'
  <2>1. \A f \in Fds : conns[f] # None => conns[f].conn \in Nat /\ conns[f].conn <= offered
    BY LiveIs DEF Numbered, Entry, Ids
  <2>2. \A f \in Fds : conns[f] # None => conns[f].conn <= offered'
    BY <2>1
  <2>3. QED
    BY <2>2 DEF Numbered
<1>4. QED
  BY <1>1, <1>2, <1>3

\* A step that at most disarms a descriptor.
LEMMA KeptTable ==
    ASSUME TableType, TableInv, LoopType, armed' \subseteq armed,
           UNCHANGED <<kernel, conns, last_active, owner, call, busy, in_use, offered>>
    PROVE  TableType' /\ TableInv'
<1>1. /\ offered \in Nat /\ armed' \subseteq {f \in Fds : Open(f)} /\ owner' \in [Fds -> Ids \cup {None}]
      /\ busy' \subseteq Ids /\ last_active' \in [Fds -> 0 .. MaxAge \cup {None}]
  BY DEF TableType, LoopType
<1>2. QED
  BY <1>1, SameTable

-----------------------------------------------------------------------------
(* The events of a turn.                                                   *)

\* The event at hand, and what is left of the turn once it is handled.
LEMMA HandledLoop ==
    ASSUME LoopType, LoopInv, at = "handle"
    PROVE  /\ 1 \in DOMAIN events /\ Now = events[1] /\ Now \in Event /\ phase # "exited"
           /\ Now.fd # Listen => Now.fd \in Fds /\ Now.for \in File
           /\ Handled => /\ LoopType' /\ LoopInv' /\ phase' # "exited"
                         /\ UNCHANGED <<offered, phase, pipelining>>
                         /\ \A i \in DOMAIN events' : i + 1 \in DOMAIN events /\ events'[i] = events[i + 1]
<1>1. events \in Seq(Event) /\ events # <<>> /\ phase # "exited"
  BY DEF LoopInv
<1>2. 1 \in DOMAIN events /\ Now = events[1] /\ Now \in Event
  BY <1>1 DEF Now
<1>3. ASSUME Now.fd # Listen PROVE Now.fd \in Fds /\ Now.for \in File
  BY <1>2, <1>3 DEF Event
<1>4. ASSUME Handled
      PROVE  /\ LoopType' /\ LoopInv' /\ phase' # "exited"
             /\ UNCHANGED <<offered, phase, pipelining>>
             /\ \A i \in DOMAIN events' : i + 1 \in DOMAIN events /\ events'[i] = events[i + 1]
  <2>1. /\ events' = Tail(events) /\ at' = IF Len(events) = 1 THEN "end" ELSE "handle"
        /\ UNCHANGED <<offered, phase, pipelining>>
    BY <1>4 DEF Handled
  <2>2. /\ events' \in Seq(Event) /\ Len(events') = Len(events) - 1 /\ Len(events) \in Nat
        /\ (Len(events) = 1 <=> events' = <<>>)
    <3>1. events' \in Seq(Event) /\ Len(events) \in Nat \ {0}
      BY <1>1, <2>1
    <3>2. Len(events') = Len(events) - 1
      BY <1>1, <2>1
    <3>3. events' = <<>> <=> Len(events') = 0
      BY <3>1
    <3>4. QED
      BY <3>1, <3>2, <3>3
  <2>3. \A i \in DOMAIN events' : i + 1 \in DOMAIN events /\ events'[i] = events[i + 1]
    BY <1>1, <2>1, <2>2
  <2>4. LoopType'
    <3>1. \A i \in DOMAIN events' : events'[i] \in Event
      BY <2>2
    <3>2. Len(events') <= MaxEvents
      BY <2>2, Nothing DEF LoopType
    <3>3. QED
      BY <2>1, <3>1, <3>2 DEF LoopType
  <2>5. LoopInv'
    BY <1>1, <2>1, <2>2 DEF LoopInv
  <2>6. QED
    BY <1>1, <2>1, <2>3, <2>4, <2>5
<1>5. QED
  BY <1>1, <1>2, <1>3, <1>4

\* The parts of the invariant.
LEMMA Parts ==
    /\ IInv <=> TableType /\ LoopType /\ LoopInv /\ TableInv /\ SerialInv /\ ExitedClean
    /\ TableType' /\ LoopType' /\ LoopInv' /\ TableInv' /\ SerialInv' /\ phase' # "exited" => IInv'
BY Types DEF IInv, ExitedClean, TypeOK, TableType, LoopType

\* Without pipelining, an event that goes to handle_client is of the open socket
\* of its entry, whose connection has no call in flight.
LEMMA SerialClient ==
    ASSUME IInv, pipelining = {}, Client
    PROVE  /\ Live(Now.fd) /\ Conn \in Ids /\ call[Conn] = None /\ Now.fd \in Fds
           /\ kernel[Now.fd].kind = "client" /\ kernel[Now.fd].conn = Conn
<1>1. /\ Now.fd \in Fds /\ Now.for \in File /\ 1 \in DOMAIN events /\ Now = events[1]
      /\ TableType /\ TableInv /\ Current /\ Owned /\ Waiting /\ owner[Now.fd] = None
  BY Parts, HandledLoop DEF Client, SerialInv
<1>2. kernel[Now.fd] \in File /\ Open(Now.fd)
  BY <1>1, Nothing DEF Current, Open
<1>3. kernel[Now.fd].kind = "client"
  BY <1>1, <1>2, FileIs DEF Owned
<1>4. Live(Now.fd) /\ Conn \in Ids
  BY <1>1, <1>2, <1>3, LiveIs DEF TableInv, Sockets, Conn, Entry
<1>5. QED
  BY <1>1, <1>3, <1>4, LiveIs DEF Waiting, Conn

\* Nor is there a second event for a descriptor that is being handled.
LEMMA OtherEvents ==
    ASSUME IInv, pipelining = {}, at = "handle", Handled
    PROVE  \A i \in DOMAIN events' :
               events'[i].fd # Listen =>
                   /\ events'[i].fd # Now.fd /\ events'[i].fd \in Fds
                   /\ kernel[events'[i].fd] = events'[i].for /\ Open(events'[i].fd)
                   /\ events'[i].fd \notin armed
                   /\ \A j \in DOMAIN events' : events'[j].fd = events'[i].fd => i = j
                   /\ \A f \in Fds : Live(f) /\ call[conns[f].conn] # None => events'[i].fd # f
<1>1. /\ 1 \in DOMAIN events /\ Now = events[1] /\ Current /\ Waiting /\ events \in Seq(Event)
      /\ events' = Tail(events)
      /\ \A i \in DOMAIN events' : i + 1 \in DOMAIN events /\ events'[i] = events[i + 1]
  BY Parts, HandledLoop DEF SerialInv, LoopInv, Handled
<1>2. SUFFICES ASSUME NEW i \in DOMAIN events', events'[i].fd # Listen
               PROVE  /\ events'[i].fd # Now.fd /\ events'[i].fd \in Fds
                      /\ kernel[events'[i].fd] = events'[i].for /\ Open(events'[i].fd)
                      /\ events'[i].fd \notin armed
                      /\ \A j \in DOMAIN events' : events'[j].fd = events'[i].fd => i = j
                      /\ \A f \in Fds : Live(f) /\ call[conns[f].conn] # None => events'[i].fd # f
  OBVIOUS
<1>3. i \in Nat \ {0} /\ \A j \in DOMAIN events' : j \in Nat
  BY <1>1
<1>4. events[i + 1] \in Event /\ i + 1 # 1
  BY <1>1, <1>2, <1>3
<1>5. events'[i].fd \in Fds /\ events'[i].for \in File
  BY <1>1, <1>2, <1>4 DEF Event
<1>6. kernel[events'[i].fd] = events'[i].for /\ events'[i].fd \notin armed /\ events'[i].fd # Now.fd
  BY <1>1, <1>2, <1>4 DEF Current
<1>7. Open(events'[i].fd)
  BY <1>5, <1>6, Nothing DEF Open
<1>8. ASSUME NEW j \in DOMAIN events', events'[j].fd = events'[i].fd PROVE i = j
  <2>1. i + 1 = j + 1
    BY <1>1, <1>2, <1>8 DEF Current
  <2>2. QED
    BY <1>3, <2>1
<1>9. QED
  BY <1>1, <1>5, <1>6, <1>7, <1>8 DEF Waiting

\* The events that remain are still of the sockets they were reported for, if
\* the step has neither closed nor armed those.
LEMMA CurrentKept ==
    ASSUME IInv, pipelining = {}, at = "handle", Handled,
           \A i \in DOMAIN events' :
               events'[i].fd # Listen =>
                   kernel'[events'[i].fd] = kernel[events'[i].fd] /\ events'[i].fd \notin armed'
    PROVE  Current'
BY OtherEvents DEF Current

\* Without pipelining, a connection whose event is at hand has no other socket.
LEMMA NoOtherSocket ==
    ASSUME IInv, pipelining = {}, Client, NEW f \in Fds \ {Now.fd}, Open(f)
    PROVE  kernel[f].conn # Conn
<1>1. TableType /\ TableInv /\ kernel[f] \in File
  BY Parts, LiveIs
<1>2. kernel[f].kind = "client" => conns[f] # None /\ conns[f].conn = kernel[f].conn
  BY <1>1, LiveIs DEF TableInv, Sockets
<1>3. kernel[f].kind = "upstream" => call[kernel[f].conn] = f
  BY <1>1 DEF TableInv, Sockets
<1>4. conns[Now.fd] # None
  BY <1>1, SerialClient, LiveIs
<1>5. Now.fd \in Fds /\ call[Conn] = None
  BY SerialClient
<1>6. kernel[f].kind = "client" => kernel[f].conn # Conn
  BY <1>1, <1>2, <1>4, <1>5 DEF TableInv, Numbered, Conn
<1>7. kernel[f].kind = "upstream" => kernel[f].conn # Conn
  BY <1>3, <1>5, Nothing
<1>8. QED
  BY <1>1, <1>6, <1>7, FileIs

\* handle_read and handle_write keep the invariant.
LEMMA ServeIInv ==
    ASSUME IInv, Serve
    PROVE  IInv'
<1>1. /\ Client /\ Live(Now.fd) /\ Handled /\ last_active' = Touched
      /\ armed \subseteq armed' /\ armed' \subseteq armed \cup {Now.fd}
      /\ busy' \subseteq busy \cup {Conn}
      /\ UNCHANGED <<kernel, conns, owner, call, in_use>>
  BY DEF Serve, Ready
<1>2. TableType /\ LoopType /\ LoopInv /\ TableInv /\ SerialInv /\ at = "handle" /\ Now.fd \in Fds
  BY <1>1, Parts, HandledLoop DEF Client
<1>3. LoopType' /\ LoopInv' /\ phase' # "exited" /\ UNCHANGED <<offered, phase, pipelining>>
  BY <1>1, <1>2, HandledLoop
<1>4. TableType' /\ TableInv'
  <2>1. Open(Now.fd) /\ Conn \in Ids
    BY <1>1, <1>2, LiveIs DEF Conn, Entry
  <2>2. 0 \in 0 .. MaxAge /\ 0 # None
    BY WorkerAssumption
  <2>3. /\ last_active' \in [Fds -> 0 .. MaxAge \cup {None}]
        /\ \A f \in Fds : last_active[f] # None => last_active'[f] # None
    BY <1>1, <1>2, <2>2 DEF Touched, TableType
  <2>4. armed' \subseteq {f \in Fds : Open(f)} /\ busy' \subseteq Ids
    BY <1>1, <1>2, <2>1 DEF TableType
  <2>5. owner' \in [Fds -> Ids \cup {None}] /\ offered \in Nat
    BY <1>1, <1>2 DEF TableType, LoopType
  <2>6. QED
    BY <1>1, <1>2, <1>3, <2>3, <2>4, <2>5, SameTable
<1>5. SerialInv'
  <2>1. SUFFICES ASSUME pipelining = {} PROVE Current' /\ Owned' /\ Waiting'
    BY <1>3 DEF SerialInv
  <2>2. Current'
    BY <1>1, <1>2, <2>1, OtherEvents, CurrentKept
  <2>3. Owned'
    BY <1>1, <1>2, <2>1 DEF SerialInv, Owned, Open
  <2>4. Waiting'
    <3>1. SUFFICES ASSUME NEW f \in Fds, Live(f), call[conns[f].conn] # None
                   PROVE  f \notin armed' /\ \A i \in DOMAIN events' : events'[i].fd # f
      BY <1>1 DEF Waiting, Live
    <3>2. f # Now.fd /\ f \notin armed
      BY <1>1, <1>2, <2>1, <3>1, SerialClient DEF SerialInv, Waiting, Conn
    <3>3. QED
      BY <1>1, <1>2, <2>1, <3>1, <3>2, OtherEvents, Nothing
  <2>5. QED
    BY <2>2, <2>3, <2>4
<1>6. QED
  BY <1>3, <1>4, <1>5, Parts

\* A step of the TLS handshake keeps the invariant.
LEMMA HandshakeStepIInv ==
    ASSUME IInv, HandshakeStep
    PROVE  IInv'
<1>1. PICK ssl \in {"HANDSHAKING", "READY"} : conns' = [conns EXCEPT ![Now.fd].ssl = ssl]
  BY Zenon DEF HandshakeStep
<1>2. /\ Client /\ conns[Now.fd] # None /\ conns[Now.fd].ssl = "HANDSHAKING" /\ Handled
      /\ armed' = armed \cup {Now.fd} /\ UNCHANGED <<kernel, last_active, owner, call, busy, in_use>>
  BY DEF HandshakeStep, Handshaking
<1>3. TableType /\ LoopType /\ LoopInv /\ TableInv /\ SerialInv /\ at = "handle" /\ Now.fd \in Fds
  BY <1>2, Parts, HandledLoop DEF Client
<1>4. LoopType' /\ LoopInv' /\ phase' # "exited" /\ UNCHANGED <<offered, phase, pipelining>>
  BY <1>2, <1>3, HandledLoop
<1> DEFINE e == [conns[Now.fd] EXCEPT !.ssl = ssl]
<1>5. conns' = [conns EXCEPT ![Now.fd] = e]
  BY <1>1
<1>6. e \in Entry /\ e.conn = conns[Now.fd].conn
  BY <1>2, <1>3, LiveIs DEF Entry
<1> HIDE DEF e
<1>7. /\ \A f \in Fds \ {Now.fd} : conns'[f] = conns[f]
      /\ conns'[Now.fd] = e /\ e # None
      /\ conns' \in [Fds -> Entry \cup {None}]
  BY <1>3, <1>5, <1>6, Nothing DEF TableType
<1>8. \A f \in Fds : /\ conns'[f] # None <=> conns[f] # None
                     /\ conns[f] # None => conns'[f].conn = conns[f].conn
                     /\ Live(f)' <=> Live(f)
  BY <1>2, <1>6, <1>7 DEF Live
<1>9. Live(Now.fd) /\ Open(Now.fd)
  BY <1>2, <1>3, LiveIs DEF TableInv, Greeting
<1>10. TableType'
  BY <1>2, <1>3, <1>7, <1>9 DEF TableType, Open
<1>11. TableInv'
  <2> USE DEF TableInv
  <2>1. Slots'
    <3>1. Entries(conns') = Entries(conns)
      BY <1>8 DEF Entries
    <3>2. QED
      BY <1>2, <1>3, <3>1 DEF Slots, Entries
  <2>2. Sockets' /\ Greeting'
    BY <1>2, <1>3, <1>7, <1>8, <1>9 DEF Sockets, Open, Greeting
  <2>3. Numbered'
    BY <1>3, <1>4, <1>8 DEF Numbered
  <2>4. Calling'
    <3>1. SUFFICES ASSUME NEW c \in Ids, call[c] # None
                   PROVE  \E g \in Fds : Live(g)' /\ conns'[g].conn = c /\ conns'[g].ssl = "READY"
      BY <1>2, <1>3 DEF Calling
    <3>2. PICK g \in Fds : Live(g) /\ conns[g].conn = c /\ conns[g].ssl = "READY"
      BY <1>3, <3>1 DEF Calling
    <3>3. g # Now.fd
      BY <1>2, <3>2
    <3>4. QED
      BY <1>7, <1>8, <3>2, <3>3
  <2>5. QED
    BY <2>1, <2>2, <2>3, <2>4
<1>12. SerialInv'
  <2>1. SUFFICES ASSUME pipelining = {} PROVE Current' /\ Owned' /\ Waiting'
    BY <1>4 DEF SerialInv
  <2>2. Current'
    BY <1>2, <1>3, <2>1, OtherEvents, CurrentKept
  <2>3. Owned'
    BY <1>2, <1>3, <2>1 DEF SerialInv, Owned, Open
  <2>4. Waiting'
    <3>1. SUFFICES ASSUME NEW f \in Fds, Live(f), call[conns[f].conn] # None
                   PROVE  f \notin armed' /\ \A i \in DOMAIN events' : events'[i].fd # f
      BY <1>2, <1>8, LiveIs, <1>3 DEF Waiting
    <3>2. f # Now.fd /\ f \notin armed
      BY <1>2, <1>3, <2>1, <3>1, SerialClient DEF SerialInv, Waiting, Conn
    <3>3. QED
      BY <1>2, <1>3, <2>1, <3>1, <3>2, OtherEvents, Nothing
  <2>5. QED
    BY <2>2, <2>3, <2>4
<1>13. QED
  BY <1>4, <1>10, <1>11, <1>12, Parts

\* The owners of the sockets that remain remain, and a client that waits for its
\* call does so still.
LEMMA SeversSerial ==
    ASSUME TableType, TableInv, NEW cs \in SUBSET Ids, Severs(cs), Owned, TableType',
           \A f \in Fds : conns'[f] \in {conns[f], None}
    PROVE  /\ Owned' /\ armed' \subseteq armed
           /\ \A f \in Fds : kernel'[f] = IF Open(f) /\ kernel[f].conn \in cs THEN None ELSE kernel[f]
           /\ \A f \in Fds : Live(f)' /\ call'[conns'[f].conn] # None =>
                                 Live(f) /\ call[conns[f].conn] # None
<1> USE DEF TableInv
<1>1. ASSUME NEW f \in Fds
      PROVE  /\ kernel'[f] = IF Open(f) /\ kernel[f].conn \in cs THEN None ELSE kernel[f]
             /\ owner'[f] = IF Open(f) /\ kernel[f].kind = "upstream" /\ kernel[f].conn \in cs
                            THEN None ELSE owner[f]
  BY <1>1, GoneIs DEF Severs
<1>2. Owned'
  BY <1>1 DEF Owned, Open
<1>3. ASSUME NEW f \in Fds, Live(f)', call'[conns'[f].conn] # None
      PROVE  Live(f) /\ call[conns[f].conn] # None
  <2>1. conns'[f] = conns[f] /\ conns[f] # None /\ kernel'[f] = kernel[f]
    <3>1. conns'[f] = conns[f] /\ conns[f] # None /\ kernel'[f] = ClientOf(conns[f].conn)
      BY <1>3 DEF Live, ClientOf
    <3>2. ClientOf(conns[f].conn) \in File
      BY <3>1, LiveIs DEF ClientOf, File, Entry
    <3>3. QED
      BY <1>1, <3>1, <3>2, Nothing
  <2>2. conns[f].conn \in Ids
    BY <2>1, LiveIs DEF Entry
  <2>3. QED
    BY <1>3, <2>1, <2>2 DEF Severs, Live
<1>4. QED
  BY <1>1, <1>2, <1>3 DEF Severs

\* What closes the connection of the event at hand, with its entry or not, keeps
\* the invariant.
LEMMA ClosesIInv ==
    ASSUME IInv, Client, conns[Now.fd] # None, Handled, NEW fds \in SUBSET {Now.fd},
           Severs({Conn}), Erased(fds), conns[Now.fd].ssl = "READY" \/ fds = {Now.fd},
           last_active' \in [Fds -> 0 .. MaxAge \cup {None}],
           \A fd \in Fds : conns'[fd] # None /\ last_active[fd] # None => last_active'[fd] # None
    PROVE  IInv'
<1>1. TableType /\ LoopType /\ LoopInv /\ TableInv /\ SerialInv /\ at = "handle" /\ Now.fd \in Fds
  BY Parts, HandledLoop DEF Client
<1>2. LoopType' /\ LoopInv' /\ phase' # "exited" /\ UNCHANGED <<offered, phase, pipelining>>
  BY <1>1, HandledLoop
<1>3. Conn \in Ids /\ fds \in SUBSET Fds /\ {Conn} \in SUBSET Ids
  BY <1>1, LiveIs DEF Conn, Entry
<1>4. TableType' /\ TableInv'
  <2>1. ConnsOf(fds) \subseteq {Conn}
    BY DEF ConnsOf, Conn
  <2>2. \A fd \in Entries(conns) \ fds : conns[fd].conn \in {Conn} => conns[fd].ssl = "READY"
    BY <1>1 DEF TableInv, Numbered, Entries, Conn
  <2>3. QED
    BY <1>1, <1>2, <1>3, <2>1, <2>2, SeversTable
<1>5. SerialInv'
  <2>1. SUFFICES ASSUME pipelining = {} PROVE Current' /\ Owned' /\ Waiting'
    BY <1>2 DEF SerialInv
  <2>2. \A f \in Fds : conns'[f] \in {conns[f], None}
    BY DEF Erased
  <2>3. /\ Owned' /\ armed' \subseteq armed
        /\ \A f \in Fds : kernel'[f] = IF Open(f) /\ kernel[f].conn \in {Conn} THEN None ELSE kernel[f]
        /\ \A f \in Fds : Live(f)' /\ call'[conns'[f].conn] # None =>
                              Live(f) /\ call[conns[f].conn] # None
    BY <1>1, <1>3, <1>4, <2>1, <2>2, SeversSerial DEF SerialInv
  <2>4. Current'
    <3>1. ASSUME NEW i \in DOMAIN events', events'[i].fd # Listen
          PROVE  kernel'[events'[i].fd] = kernel[events'[i].fd] /\ events'[i].fd \notin armed'
      <4>1. events'[i].fd \in Fds \ {Now.fd} /\ Open(events'[i].fd) /\ events'[i].fd \notin armed
        BY <1>1, <2>1, <3>1, OtherEvents
      <4>2. kernel[events'[i].fd].conn # Conn
        BY <2>1, <4>1, NoOtherSocket
      <4>3. QED
        BY <2>3, <4>1, <4>2
    <3>2. QED
      BY <1>1, <2>1, <3>1, CurrentKept
  <2>5. Waiting'
    <3>1. SUFFICES ASSUME NEW f \in Fds, Live(f)', call'[conns'[f].conn] # None
                   PROVE  f \notin armed' /\ \A i \in DOMAIN events' : events'[i].fd # f
      BY DEF Waiting
    <3>2. Live(f) /\ call[conns[f].conn] # None
      BY <2>3, <3>1
    <3>3. f \notin armed
      BY <1>1, <2>1, <3>2 DEF Waiting, SerialInv
    <3>4. \A i \in DOMAIN events' : events'[i].fd # f
      BY <1>1, <2>1, <3>2, OtherEvents, Nothing
    <3>5. QED
      BY <2>3, <3>3, <3>4
  <2>6. QED
    BY <2>3, <2>4, <2>5
<1>6. QED
  BY <1>2, <1>4, <1>5, Parts

\* What the worker forgets and what it counts on.
LEMMA ForgottenType ==
    ASSUME TableType, NEW fds \in SUBSET Fds
    PROVE  /\ Forgotten(fds) \in [Fds -> 0 .. MaxAge \cup {None}]
           /\ Erased(fds) => \A fd \in Fds : conns'[fd] # None /\ last_active[fd] # None =>
                                                 Forgotten(fds)[fd] # None
BY DEF TableType, Forgotten, Erased

\* A client that hangs up is torn down.
LEMMA HangupIInv ==
    ASSUME IInv, Hangup
    PROVE  IInv'
<1>1. /\ Client /\ conns[Now.fd] # None /\ TornDown({Now.fd}) /\ Handled
      /\ last_active' = Forgotten({Now.fd})
  BY DEF Hangup, Ready
<1>2. TableType /\ Now.fd \in Fds
  BY <1>1, Parts, HandledLoop DEF Client
<1>3. ConnsOf({Now.fd}) = {Conn} /\ Conn \in Ids
  BY <1>1, <1>2, LiveIs DEF ConnsOf, Entries, Conn, Entry
<1>4. Severs({Conn}) /\ Erased({Now.fd})
  BY <1>1, <1>2, <1>3, Zenon DEF TornDown, CleanedUp, Severs, TableType
<1>5. QED
  BY <1>1, <1>2, <1>4, ForgottenType, ClosesIInv

\* A handler that cleans up its connection leaves the entry.
LEMMA HandlerClosesIInv ==
    ASSUME IInv, HandlerCloses
    PROVE  IInv'
<1>1. /\ Client /\ conns[Now.fd] # None /\ conns[Now.fd].ssl = "READY" /\ CleanedUp({Conn})
      /\ Handled /\ last_active' = Touched /\ UNCHANGED <<conns, in_use>>
  BY DEF HandlerCloses, Ready
<1>2. TableType /\ Now.fd \in Fds
  BY <1>1, Parts, HandledLoop DEF Client
<1>3. Severs({Conn})
  BY <1>1, <1>2 DEF CleanedUp, Severs, TableType
<1>4. Erased({})
  <2>1. {} \cap Entries(conns) = {} /\ Cardinality({}) = 0 /\ in_use - 0 = in_use
    BY <1>2, FS_EmptySet DEF TableType
  <2>2. QED
    BY <1>1, <1>2, <2>1 DEF Erased, TableType
<1>5. 0 \in 0 .. MaxAge /\ 0 # None
  BY WorkerAssumption
<1>6. /\ last_active' \in [Fds -> 0 .. MaxAge \cup {None}]
      /\ \A fd \in Fds : last_active[fd] # None => last_active'[fd] # None
  BY <1>1, <1>2, <1>5 DEF Touched, TableType
<1>7. QED
  BY <1>1, <1>3, <1>4, <1>6, ClosesIInv

\* A handshake that fails has no call to abort, so that closing the socket and
\* erasing the entry is enough.
LEMMA HandshakeEndsIInv ==
    ASSUME IInv, HandshakeEnds
    PROVE  IInv'
<1> DEFINE gone == ClientFd(Conn)
<1>1. /\ Client /\ conns[Now.fd] # None /\ conns[Now.fd].ssl = "HANDSHAKING" /\ Handled
      /\ kernel' = [fd \in Fds |-> IF fd \in gone THEN None ELSE kernel[fd]]
      /\ armed' = armed \ gone /\ Erased({Now.fd}) /\ last_active' = Forgotten({Now.fd})
      /\ UNCHANGED <<owner, call, busy>>
  BY DEF HandshakeEnds, Handshaking, Conn
<1>2. TableType /\ TableInv /\ Now.fd \in Fds
  BY <1>1, Parts, HandledLoop, Zenon DEF Client
<1>3. Conn \in Ids /\ call[Conn] = None
  <2>1. Conn \in Ids
    BY <1>1, <1>2, LiveIs DEF Conn, Entry
  <2>2. \A g \in Fds : Live(g) /\ conns[g].conn = Conn => conns[g].ssl = "HANDSHAKING"
    BY <1>1, <1>2, LiveIs DEF TableInv, Numbered, Conn
  <2>3. QED
    BY <2>1, <2>2, <1>2 DEF TableInv, Calling
<1>4. Aborted({Conn}) = {} /\ (UNION {ClientFd(c) : c \in {Conn}}) = gone
  BY <1>3 DEF Aborted
<1>5. Severs({Conn})
  <2>1. /\ kernel' = [fd \in Fds |-> IF fd \in gone \cup {} THEN None ELSE kernel[fd]]
        /\ armed' = armed \ (gone \cup {})
    BY <1>1
  <2>2. /\ owner' = [fd \in Fds |-> IF fd \in {} THEN None ELSE owner[fd]]
        /\ call' = [c \in Ids |-> IF c \in {Conn} THEN None ELSE call[c]]
        /\ busy' \in SUBSET Ids
    BY <1>1, <1>2, <1>3 DEF TableType
  <2> HIDE DEF gone
  <2>3. QED
    BY <1>4, <2>1, <2>2 DEF Severs
<1>6. QED
  BY <1>1, <1>2, <1>5, ForgottenType, ClosesIInv

-----------------------------------------------------------------------------
(* The end of a turn.                                                      *)

\* Tearing down connections between turns, when no event is left.
LEMMA TearsDown ==
    ASSUME IInv, NEW fds \in SUBSET Fds, TornDown(fds), events = <<>>,
           UNCHANGED <<offered, events, pipelining>>,
           last_active' \in [Fds -> 0 .. MaxAge \cup {None}],
           \A fd \in Fds : conns'[fd] # None /\ last_active[fd] # None => last_active'[fd] # None
    PROVE  TableType' /\ TableInv' /\ SerialInv'
<1>1. TableType /\ TableInv /\ SerialInv
  BY Parts
<1>2. ConnsOf(fds) \in SUBSET Ids
  BY <1>1, LiveIs DEF ConnsOf, Entries, Entry
<1>3. Severs(ConnsOf(fds)) /\ Erased(fds)
  BY <1>1 DEF TornDown, CleanedUp, Severs, TableType
<1>4. TableType' /\ TableInv'
  <2>1. \A fd \in Entries(conns) \ fds : conns[fd].conn \in ConnsOf(fds) => conns[fd].ssl = "READY"
    BY <1>1 DEF TableInv, Numbered, Entries, ConnsOf
  <2>2. QED
    BY <1>1, <1>2, <1>3, <2>1, SeversTable
<1>5. SerialInv'
  <2>1. SUFFICES ASSUME pipelining = {} PROVE Current' /\ Owned' /\ Waiting'
    BY DEF SerialInv
  <2>2. \A f \in Fds : conns'[f] \in {conns[f], None}
    BY <1>3 DEF Erased
  <2>3. /\ Owned' /\ armed' \subseteq armed
        /\ \A f \in Fds : Live(f)' /\ call'[conns'[f].conn] # None =>
                              Live(f) /\ call[conns[f].conn] # None
    BY <1>1, <1>2, <1>3, <1>4, <2>1, <2>2, SeversSerial DEF SerialInv
  <2>4. Current'
    BY DEF Current
  <2>5. Waiting'
    BY <1>1, <2>1, <2>3 DEF Waiting, SerialInv
  <2>6. QED
    BY <2>3, <2>4, <2>5
<1>6. QED
  BY <1>4, <1>5

\* check_timeout: the reaper.
LEMMA CheckTimeoutIInv ==
    ASSUME IInv, CheckTimeout
    PROVE  IInv'
<1>1. /\ at = "end" /\ phase = "run" /\ TornDown(Expired) /\ at' = "wait"
      /\ UNCHANGED <<offered, events, phase, pipelining>>
      /\ last_active' = [fd \in Fds |->
                          IF conns[fd] = None \/ fd \in Expired THEN None
                          ELSE IF last_active[fd] = None \/ last_active[fd] = MaxAge
                               THEN last_active[fd] ELSE last_active[fd] + 1]
  BY DEF CheckTimeout
<1>2. TableType /\ LoopType /\ LoopInv /\ events = <<>> /\ Expired \in SUBSET Fds
  BY <1>1, Parts DEF LoopInv, Expired
<1>3. \A fd \in Fds : conns'[fd] # None => conns[fd] # None /\ fd \notin Expired
  BY <1>1 DEF TornDown, Erased
<1>4. /\ last_active' \in [Fds -> 0 .. MaxAge \cup {None}]
      /\ \A fd \in Fds : conns'[fd] # None /\ last_active[fd] # None => last_active'[fd] # None
  <2>1. \A a \in 0 .. MaxAge : a # MaxAge => a + 1 \in 0 .. MaxAge
    BY WorkerAssumption
  <2>2. \A fd \in Fds : last_active[fd] \in 0 .. MaxAge \cup {None}
    BY <1>2 DEF TableType
  <2>3. ASSUME NEW fd \in Fds
        PROVE  /\ last_active'[fd] \in 0 .. MaxAge \cup {None}
               /\ conns'[fd] # None /\ last_active[fd] # None => last_active'[fd] # None
    BY <1>1, <1>3, <2>1, <2>2, Nothing
  <2>4. QED
    BY <1>1, <2>3
<1>5. LoopType' /\ LoopInv'
  BY <1>1, <1>2 DEF LoopType, LoopInv
<1>6. QED
  BY <1>1, <1>2, <1>4, <1>5, TearsDown, Parts

\* A sweep of drain_connections.
LEMMA DrainSweepIInv ==
    ASSUME IInv, DrainSweep
    PROVE  IInv'
<1>1. /\ at = "end" /\ phase = "drain" /\ TornDown(Drainable) /\ at' = "wait"
      /\ UNCHANGED <<offered, events, phase, pipelining>> /\ last_active' = Forgotten(Drainable)
  BY DEF DrainSweep
<1>2. TableType /\ LoopType /\ LoopInv /\ events = <<>> /\ Drainable \in SUBSET Fds
  BY <1>1, Parts DEF LoopInv, Drainable, Entries
<1>3. LoopType' /\ LoopInv'
  BY <1>1, <1>2 DEF LoopType, LoopInv
<1>4. Erased(Drainable)
  BY <1>1 DEF TornDown
<1>5. TableType' /\ TableInv' /\ SerialInv'
  BY <1>1, <1>2, <1>4, ForgottenType, TearsDown
<1>6. QED
  BY <1>1, <1>3, <1>5, Parts

\* The end of drain_connections: the last entries go, with every socket.
LEMMA DrainEndsIInv ==
    ASSUME IInv, DrainEnds
    PROVE  IInv'
<1>1. /\ at = "wait" /\ events = <<>> /\ TornDown(Remaining) /\ phase' = "exited"
      /\ UNCHANGED <<offered, events, at, pipelining>> /\ last_active' = Forgotten(Remaining)
  BY DEF DrainEnds
<1>2. TableType /\ TableInv /\ LoopType /\ LoopInv /\ Remaining \in SUBSET Fds
  BY <1>1, Parts DEF Remaining, Entries
<1>3. LoopType' /\ LoopInv'
  BY <1>1, <1>2 DEF LoopType, LoopInv
<1>4. Erased(Remaining)
  BY <1>1 DEF TornDown
<1>5. TableType' /\ TableInv' /\ SerialInv'
  BY <1>1, <1>2, <1>4, ForgottenType, TearsDown
<1>6. in_use' = 0
  <2>1. Remaining \cap Entries(conns) = Entries(conns)
    BY DEF Remaining
  <2>2. in_use - in_use = 0
    BY <1>2 DEF TableType
  <2>3. QED
    BY <1>2, <1>4, <2>1, <2>2 DEF Erased, TableInv, Slots
<1>7. ASSUME NEW f \in Fds PROVE ~Open(f)'
  <2>1. ConnsOf(Remaining) \in SUBSET Ids
    BY <1>2, LiveIs DEF ConnsOf, Entries, Entry
  <2>2. \A g \in Fds : Live(g) => conns[g].conn \in ConnsOf(Remaining)
    BY <1>2, LiveIs DEF ConnsOf, Remaining, Entries
  <2>3. ASSUME Open(f) PROVE kernel[f].conn \in ConnsOf(Remaining)
    <3>1. CASE kernel[f].kind = "client"
      BY <1>2, <2>2, <2>3, <3>1, LiveIs DEF TableInv, Sockets
    <3>2. CASE kernel[f].kind = "upstream"
      <4>1. kernel[f].conn \in Ids /\ call[kernel[f].conn] = f
        BY <1>2, <2>3, <3>2, LiveIs, FileIs DEF TableInv, Sockets
      <4>2. \E g \in Fds : Live(g) /\ conns[g].conn = kernel[f].conn
        BY <1>2, <4>1, Nothing DEF TableInv, Calling
      <4>3. QED
        BY <2>2, <4>2
    <3>3. QED
      BY <1>2, <2>3, <3>1, <3>2, LiveIs, FileIs
  <2>4. kernel' = [fd \in Fds |->
                      IF fd \in (UNION {ClientFd(c) : c \in ConnsOf(Remaining)})
                                    \cup Aborted(ConnsOf(Remaining))
                      THEN None ELSE kernel[fd]]
    BY <1>1 DEF TornDown, CleanedUp
  <2>5. QED
    BY <1>2, <2>1, <2>3, <2>4, GoneIs DEF Open, TableInv
<1>8. ExitedClean'
  BY <1>6, <1>7 DEF ExitedClean
<1>9. QED
  BY <1>3, <1>5, <1>8, Types DEF IInv, TypeOK, TableType, LoopType

-----------------------------------------------------------------------------
(* Upstream calls.                                                         *)

\* upstream_fd_owner_ follows the call.
Renames(c, new) ==
    owner' = [f \in Fds |-> IF f = new THEN c ELSE IF f = call[c] THEN None ELSE owner[f]]

\* A call that goes on or ends has a client, and its socket is an upstream one.
LEMMA CallHas ==
    ASSUME TableType, TableInv, NEW c \in Ids, call[c] # None
    PROVE  /\ call[c] \in Fds /\ kernel[call[c]] = UpstreamOf(c) /\ UpstreamOf(c) \in File
           /\ UpstreamOf(c).kind = "upstream" /\ UpstreamOf(c).conn = c
           /\ Open(call[c])
           /\ \E g \in Fds : Live(g) /\ conns[g].conn = c /\ conns[g].ssl = "READY"
<1>1. UpstreamOf(c) \in File /\ UpstreamOf(c).kind = "upstream" /\ UpstreamOf(c).conn = c
  BY DEF UpstreamOf, File
<1>2. QED
  BY <1>1, Nothing DEF TableInv, Calling, TableType, Open

\* drive_child when the call goes on.
LEMMA GoesOnTable ==
    ASSUME TableType, TableInv, NEW c \in Ids, GoesOn(c), offered' = offered
    PROVE  /\ TableType' /\ TableInv' /\ call[c] # None
           /\ \E new \in Free \cup {call[c]} :
                 Recalls(c, new) /\ Renames(c, new) /\ armed' = (armed \ {call[c]}) \cup {new}
<1>1. call[c] # None /\ UNCHANGED <<conns, last_active, busy, in_use>>
  BY DEF GoesOn
<1>2. PICK new \in Free \cup {call[c]} :
          /\ kernel' = [kernel EXCEPT ![call[c]] = None, ![new] = kernel[call[c]]]
          /\ owner' = [owner EXCEPT ![call[c]] = None, ![new] = c]
          /\ call' = [call EXCEPT ![c] = new]
          /\ armed' = (armed \ {call[c]}) \cup {new}
  BY Zenon DEF GoesOn
<1>3. call[c] \in Fds /\ new \in Fds /\ kernel[call[c]] = UpstreamOf(c)
  BY <1>1, CallHas DEF Free
<1>4. Recalls(c, new)
  BY <1>2, <1>3, Zenon DEF Recalls, TableType
<1>5. Renames(c, new)
  BY <1>2, <1>3, Zenon DEF Renames, TableType
<1>6. armed' \subseteq {f \in Fds : kernel'[f] # None}
  BY <1>1, <1>2, <1>3, <1>4, CallHas, Nothing DEF Recalls, TableType, Open
<1>7. owner' \in [Fds -> Ids \cup {None}]
  BY <1>5 DEF Renames, TableType
<1>8. TableType' /\ TableInv'
  BY <1>1, <1>2, <1>4, <1>6, <1>7, CallHas, RecallsTable DEF TableType, Open
<1>9. QED
  BY <1>1, <1>2, <1>4, <1>5, <1>8

\* finish_child, when the call is over.
LEMMA CallOverTable ==
    ASSUME TableType, TableInv, NEW c \in Ids, CallOver(c), offered' = offered
    PROVE  /\ TableType' /\ TableInv' /\ call[c] # None
           /\ Recalls(c, None) /\ Renames(c, None) /\ armed' = (armed \ {call[c]}) \cup ClientFd(c)
<1>1. /\ call[c] # None /\ UNCHANGED <<conns, last_active, busy, in_use>>
      /\ armed' = (armed \ {call[c]}) \cup ClientFd(c)
  BY DEF CallOver
<1>2. call[c] \in Fds
  BY <1>1, CallHas
<1>3. \A f \in Fds : f # None
  BY Nothing
<1>4. Recalls(c, None) /\ Renames(c, None)
  <2>1. kernel' = [kernel EXCEPT ![call[c]] = None] /\ owner' = [owner EXCEPT ![call[c]] = None]
    BY DEF CallOver
  <2>2. /\ kernel' = [f \in Fds |-> IF f = call[c] THEN None ELSE kernel[f]]
        /\ owner' = [f \in Fds |-> IF f = call[c] THEN None ELSE owner[f]]
    BY <1>2, <2>1, Zenon DEF TableType
  <2>3. /\ kernel' = [f \in Fds |-> IF f = None THEN UpstreamOf(c)
                                    ELSE IF f = call[c] THEN None ELSE kernel[f]]
        /\ owner' = [f \in Fds |-> IF f = None THEN c ELSE IF f = call[c] THEN None ELSE owner[f]]
    BY <1>3, <2>2
  <2>4. QED
    BY <2>3, Zenon DEF CallOver, Recalls, Renames
<1>5. armed' \subseteq {f \in Fds : kernel'[f] # None}
  <2>1. \A f \in ClientFd(c) : f \in Fds /\ kernel[f] = ClientOf(c) /\ ClientOf(c) \in File
    BY DEF ClientFd, ClientOf, File
  <2>2. \A f \in ClientFd(c) : f # call[c]
    BY <1>1, <2>1, CallHas DEF ClientOf
  <2>3. QED
    BY <1>1, <1>4, <2>1, <2>2, Nothing DEF Recalls, TableType, Open
<1>6. owner' \in [Fds -> Ids \cup {None}]
  BY <1>4 DEF Renames, TableType
<1>7. TableType' /\ TableInv'
  BY <1>1, <1>4, <1>5, <1>6, CallHas, RecallsTable DEF TableType, Open
<1>8. QED
  BY <1>1, <1>4, <1>7

\* None of the events in evs is of the socket of c's call, or of a client that waits.
LeftBeside(c, evs) ==
    \A i \in DOMAIN evs :
        evs[i].fd # Listen =>
            /\ evs[i].fd \in Fds \ {call[c]} /\ Open(evs[i].fd)
            /\ kernel[evs[i].fd] = evs[i].for /\ evs[i].fd \notin armed
            /\ \A j \in DOMAIN evs : evs[j].fd = evs[i].fd => i = j
            /\ \A f \in Fds : Live(f) /\ call[conns[f].conn] # None => evs[i].fd # f


\* upstream_fd_owner_ stays client_upstream_ turned around, and no client socket
\* changes, when a call moves, ends, or is the first of its connection.
LEMMA RecallsOwned ==
    ASSUME TableType, TableInv, Owned, NEW c \in Ids, NEW new \in Free \cup {call[c], None},
           Recalls(c, new), Renames(c, new), conns' = conns
    PROVE  /\ Owned'
           /\ \A f \in Fds : Live(f)' => Live(f) /\ f # new
<1>1. UpstreamOf(c).kind = "upstream" /\ UpstreamOf(c).conn = c /\ UpstreamOf(c) \in File
  BY DEF UpstreamOf, File
<1>2. ASSUME NEW f \in Fds
      PROVE  /\ kernel'[f] = IF f = new THEN UpstreamOf(c)
                             ELSE IF f = call[c] THEN None ELSE kernel[f]
             /\ owner'[f] = IF f = new THEN c ELSE IF f = call[c] THEN None ELSE owner[f]
  BY DEF Recalls, Renames
<1>3. Owned'
  BY <1>1, <1>2, Nothing DEF Owned, Open
<1>4. ASSUME NEW f \in Fds, Live(f)' PROVE Live(f) /\ f # new
  <2>1. conns[f] # None /\ kernel'[f] = ClientOf(conns[f].conn) /\ conns[f] \in Entry
    BY <1>4, LiveIs DEF Live, ClientOf
  <2>2. ClientOf(conns[f].conn) \in File /\ ClientOf(conns[f].conn).kind = "client"
    BY <2>1 DEF ClientOf, File, Entry
  <2>3. QED
    BY <1>1, <1>2, <2>1, <2>2, Nothing DEF Live, ClientOf
<1>5. QED
  BY <1>3, <1>4

\* A call that moves to another socket leaves the events that are left right.
LEMMA GoesOnSerial ==
    ASSUME TableType, TableInv, Owned, Waiting, NEW c \in Ids, GoesOn(c), offered' = offered,
           LeftBeside(c, events')
    PROVE  Current' /\ Owned' /\ Waiting'
<1>1. PICK new \in Free \cup {call[c]} :
          Recalls(c, new) /\ Renames(c, new) /\ armed' = (armed \ {call[c]}) \cup {new}
  BY GoesOnTable
<1>2. call[c] # None /\ conns' = conns /\ call[c] \in Fds
  BY GoesOnTable, CallHas DEF GoesOn
<1>3. Owned' /\ \A f \in Fds : Live(f)' => Live(f) /\ f # new
  BY <1>1, <1>2, RecallsOwned
<1>4. \A d \in Ids : call'[d] # None => call[d] # None
  BY <1>1, <1>2 DEF Recalls, TableType
<1>5. Current'
  BY <1>1, <1>2 DEF LeftBeside, Current, Recalls, Free
<1>6. Waiting'
  <2>1. SUFFICES ASSUME NEW f \in Fds, Live(f)', call'[conns[f].conn] # None
                 PROVE  f \notin armed' /\ \A i \in DOMAIN events' : events'[i].fd # f
    BY <1>2, Zenon DEF Waiting
  <2>2. Live(f) /\ f # new /\ call[conns[f].conn] # None
    BY <1>3, <1>4, <2>1, LiveIs DEF Entry
  <2>3. QED
    BY <1>1, <2>2, Nothing DEF Waiting, LeftBeside
<1>7. QED
  BY <1>3, <1>5, <1>6

\* So does a call that ends: its client had no event waiting.
LEMMA CallOverSerial ==
    ASSUME TableType, TableInv, Owned, Waiting, NEW c \in Ids, CallOver(c), offered' = offered,
           LeftBeside(c, events')
    PROVE  Current' /\ Owned' /\ Waiting'
<1>1. /\ Recalls(c, None) /\ Renames(c, None) /\ armed' = (armed \ {call[c]}) \cup ClientFd(c)
      /\ call[c] # None /\ conns' = conns
  BY CallOverTable, Zenon DEF CallOver
<1>2. Owned' /\ \A f \in Fds : Live(f)' => Live(f)
  BY <1>1, RecallsOwned
<1>3. \A f \in ClientFd(c) : f \in Fds /\ Live(f) /\ conns[f].conn = c
  <2>1. ASSUME NEW f \in ClientFd(c)
        PROVE  f \in Fds /\ Open(f) /\ kernel[f].kind = "client" /\ kernel[f].conn = c
    <3>1. f \in Fds /\ kernel[f] = ClientOf(c)
      BY DEF ClientFd, ClientOf
    <3>2. ClientOf(c) \in File /\ ClientOf(c).kind = "client" /\ ClientOf(c).conn = c
      BY DEF ClientOf, File
    <3>3. QED
      BY <3>1, <3>2, Nothing DEF Open
  <2>2. QED
    BY <2>1, LiveIs DEF TableInv, Sockets
<1>4. \A d \in Ids : call'[d] # None => call[d] # None /\ d # c
  BY <1>1 DEF Recalls, TableType
<1>5. Current'
  <2>1. \A i \in DOMAIN events' : events'[i].fd # Listen => events'[i].fd \notin armed'
    BY <1>1, <1>3, Zenon DEF LeftBeside
  <2>2. QED
    BY <1>1, <2>1, Nothing DEF LeftBeside, Current, Recalls
<1>6. Waiting'
  <2>1. SUFFICES ASSUME NEW f \in Fds, Live(f)', call'[conns[f].conn] # None
                 PROVE  f \notin armed' /\ \A i \in DOMAIN events' : events'[i].fd # f
    BY <1>1, Zenon DEF Waiting
  <2>2. Live(f) /\ call[conns[f].conn] # None /\ conns[f].conn # c
    BY <1>2, <1>4, <2>1, LiveIs DEF Entry
  <2>3. QED
    BY <1>1, <1>3, <2>2, Nothing, Zenon DEF Waiting, LeftBeside
<1>7. QED
  BY <1>2, <1>5, <1>6

\* Without pipelining, the event at hand is the one of its owner's call.
LEMMA SerialUpstream ==
    ASSUME IInv, Upstream, Handled
    PROVE  /\ owner[Now.fd] \in Ids
           /\ pipelining = {} => LeftBeside(owner[Now.fd], events')
<1>1. TableType /\ TableInv /\ Now.fd \in Fds /\ at = "handle" /\ owner[Now.fd] # None
  BY Parts, HandledLoop DEF Upstream
<1>2. owner[Now.fd] \in Ids
  BY <1>1 DEF TableType
<1>3. ASSUME pipelining = {} PROVE LeftBeside(owner[Now.fd], events')
  <2>1. call[owner[Now.fd]] = Now.fd
    BY <1>1, <1>3, Parts DEF SerialInv, Owned, TableInv, Sockets
  <2>2. QED
    BY <1>1, <1>3, <2>1, OtherEvents DEF LeftBeside
<1>4. QED
  BY <1>2, <1>3

\* on_upstream_event and check_upstream_timeouts keep the invariant.
LEMMA CallsIInv ==
    ASSUME IInv, Advance \/ UpstreamDone \/ UpstreamTimeout
    PROVE  IInv'
<1>1. TableType /\ LoopType /\ LoopInv /\ TableInv /\ SerialInv
  BY Parts
<1>2. ASSUME NEW c \in Ids, GoesOn(c) \/ CallOver(c), UNCHANGED <<offered, pipelining>>,
             pipelining = {} => LeftBeside(c, events')
      PROVE  TableType' /\ TableInv' /\ SerialInv'
  <2>1. TableType' /\ TableInv'
    BY <1>1, <1>2, GoesOnTable, CallOverTable
  <2>2. SerialInv'
    BY <1>1, <1>2, GoesOnSerial, CallOverSerial DEF SerialInv
  <2>3. QED
    BY <2>1, <2>2
<1>3. CASE Advance \/ UpstreamDone
  <2>1. Upstream /\ Handled /\ at = "handle" /\ (GoesOn(owner[Now.fd]) \/ CallOver(owner[Now.fd]))
    BY <1>3 DEF Advance, UpstreamDone, Upstream
  <2>2. LoopType' /\ LoopInv' /\ phase' # "exited" /\ UNCHANGED <<offered, phase, pipelining>>
    BY <1>1, <2>1, HandledLoop
  <2>3. TableType' /\ TableInv' /\ SerialInv'
    BY <1>2, <2>1, <2>2, SerialUpstream
  <2>4. QED
    BY <2>2, <2>3, Parts
<1>4. CASE UpstreamTimeout
  <2>1. /\ at = "end" /\ UNCHANGED <<offered, events, at, phase, pipelining>>
        /\ \E c \in Ids : CallOver(c) \/ GoesOn(c)
    BY <1>4 DEF UpstreamTimeout
  <2>2. events = <<>> /\ phase # "exited"
    BY <1>1, <2>1 DEF LoopInv
  <2>3. LoopType' /\ LoopInv'
    BY <1>1, <2>1 DEF LoopType, LoopInv
  <2>4. \A c \in Ids : LeftBeside(c, events')
    BY <2>1, <2>2 DEF LeftBeside
  <2>5. TableType' /\ TableInv' /\ SerialInv'
    BY <1>2, <2>1, <2>4
  <2>6. QED
    BY <2>1, <2>2, <2>3, <2>5, Parts
<1>5. QED
  BY <1>3, <1>4

\* handle_read starts a call, in place of one that pipelining has let it start
\* before.
LEMMA ProxyIInv ==
    ASSUME IInv, Proxy
    PROVE  IInv'
<1>1. /\ Client /\ conns[Now.fd].ssl = "READY" /\ Live(Now.fd) /\ Handled /\ last_active' = Touched
      /\ busy' = busy \cup {Conn} /\ UNCHANGED <<conns, in_use>>
  BY DEF Proxy, Ready
<1>2. PICK fd \in Free \cup Aborted({Conn}) :
          /\ kernel' = [f \in Fds |-> IF f = fd THEN UpstreamOf(Conn)
                                      ELSE IF f = call[Conn] THEN None ELSE kernel[f]]
          /\ owner' = [owner EXCEPT ![fd] = Conn]
          /\ call' = [call EXCEPT ![Conn] = fd]
          /\ armed' \in LET others == (armed \ Aborted({Conn})) \cup {fd}
                        IN  {others} \cup (IF Conn \in pipelining THEN {others \cup {Now.fd}} ELSE {})
  BY Zenon DEF Proxy, UpstreamOf
<1>3. TableType /\ LoopType /\ LoopInv /\ TableInv /\ SerialInv /\ at = "handle" /\ Now.fd \in Fds
  BY <1>1, Parts, HandledLoop DEF Client
<1>4. LoopType' /\ LoopInv' /\ phase' # "exited" /\ UNCHANGED <<offered, phase, pipelining>>
  BY <1>1, <1>3, HandledLoop
<1>5. Conn \in Ids /\ Open(Now.fd) /\ kernel[Now.fd].kind = "client" /\ conns[Now.fd].conn = Conn
  BY <1>1, <1>3, LiveIs DEF Conn, Entry
<1>6. /\ fd \in Free \cup {call[Conn], None} /\ fd \in Fds /\ Recalls(Conn, fd)
      /\ Aborted({Conn}) = {call[Conn]} \ {None}
  BY <1>2, <1>3, <1>5 DEF Aborted, Recalls, Free, TableType
<1>7. Now.fd # call[Conn] /\ Now.fd # fd
  <2>1. Now.fd # call[Conn]
    <3>1. CASE call[Conn] = None
      BY <1>3, <3>1, Nothing
    <3>2. CASE call[Conn] # None
      BY <1>3, <1>5, <3>2, CallHas
    <3>3. QED
      BY <3>1, <3>2
  <2>2. QED
    BY <1>5, <1>6, <2>1, Nothing DEF Free
<1>8. TableType' /\ TableInv'
  <2>1. armed' \subseteq (armed \ {call[Conn]}) \cup {fd, Now.fd}
    BY <1>2, <1>6, <1>3, Nothing, Zenon DEF TableType
  <2>2. UpstreamOf(Conn) # None
    <3>1. UpstreamOf(Conn) \in File
      BY <1>5 DEF UpstreamOf, File
    <3>2. QED
      BY <3>1, Nothing
  <2>3. armed' \subseteq {f \in Fds : kernel'[f] # None}
    BY <1>2, <1>3, <1>5, <1>6, <1>7, <2>1, <2>2 DEF TableType, Open
  <2>4. 0 \in 0 .. MaxAge /\ 0 # None
    BY WorkerAssumption
  <2>5. /\ last_active' \in [Fds -> 0 .. MaxAge \cup {None}]
        /\ \A f \in Fds : last_active[f] # None => last_active'[f] # None
    BY <1>1, <1>3, <2>4 DEF Touched, TableType
  <2>6. owner' \in [Fds -> Ids \cup {None}] /\ busy' \subseteq Ids
    BY <1>1, <1>2, <1>3, <1>5, Zenon DEF TableType
  <2>7. QED
    BY <1>1, <1>3, <1>4, <1>5, <1>6, <2>3, <2>5, <2>6, RecallsTable, Zenon DEF Open
<1>9. SerialInv'
  <2>1. SUFFICES ASSUME pipelining = {} PROVE Current' /\ Owned' /\ Waiting'
    BY <1>4 DEF SerialInv
  <2>2. call[Conn] = None /\ Current /\ Owned /\ Waiting
    BY <1>1, <1>3, <2>1, SerialClient DEF SerialInv
  <2>3. armed' = armed \cup {fd} /\ fd \in Free
    BY <1>2, <1>6, <2>1, <2>2, Nothing
  <2>4. Renames(Conn, fd)
    <3>1. \A f \in Fds : f # call[Conn]
      BY <2>2, Nothing
    <3>2. owner' = [f \in Fds |-> IF f = fd THEN Conn ELSE owner[f]]
      BY <1>2, <1>3, Zenon DEF TableType
    <3>3. QED
      BY <3>1, <3>2 DEF Renames
  <2>5. Owned' /\ \A f \in Fds : Live(f)' => Live(f) /\ f # fd
    BY <1>1, <1>3, <1>5, <1>6, <2>2, <2>4, RecallsOwned
  <2>6. \A f \in Fds : Open(f) => kernel'[f] = kernel[f] /\ f # fd
    BY <1>2, <2>2, <2>3, Nothing DEF Free
  <2>7. Current'
    BY <1>1, <1>3, <2>1, <2>3, <2>6, OtherEvents, CurrentKept, Zenon
  <2>8. Waiting'
    <3>1. SUFFICES ASSUME NEW f \in Fds, Live(f)', call'[conns[f].conn] # None
                   PROVE  f \notin armed' /\ \A i \in DOMAIN events' : events'[i].fd # f
      BY <1>1 DEF Waiting
    <3>2. Live(f) /\ f # fd /\ conns[f] # None /\ conns[f].conn \in Ids
      BY <1>3, <2>5, <3>1, LiveIs DEF Entry
    <3>3. CASE conns[f].conn = Conn
      <4>1. f = Now.fd
        BY <1>1, <1>3, <1>5, <3>2, <3>3, LiveIs DEF TableInv, Numbered
      <4>2. Now.fd \notin armed
        BY <1>3, <2>2, HandledLoop, Nothing, Zenon DEF Current
      <4>3. QED
        BY <1>1, <1>3, <2>1, <2>3, <3>2, <4>1, <4>2, OtherEvents, Nothing
    <3>4. CASE conns[f].conn # Conn
      <4>1. call[conns[f].conn] # None
        BY <1>2, <1>3, <3>1, <3>2, <3>4 DEF TableType
      <4>2. QED
        BY <1>1, <1>3, <2>1, <2>2, <2>3, <3>2, <4>1, OtherEvents, Nothing DEF Waiting
    <3>5. QED
      BY <3>3, <3>4
  <2>9. QED
    BY <2>5, <2>7, <2>8
<1>10. QED
  BY <1>4, <1>8, <1>9, Parts

-----------------------------------------------------------------------------
(* Accepting, and the steps that leave the tables alone.                   *)

\* handle_accept, a connection that is let in: its descriptor was free, so no
\* event is waiting for it.
LEMMA AcceptIInv ==
    ASSUME IInv, Accept
    PROVE  IInv'
<1>1. /\ at = "handle" /\ offered < MaxConns /\ Room /\ offered' = offered + 1
      /\ UNCHANGED <<owner, call, busy, events, at, phase, pipelining>>
  BY DEF Accept, Accepting
<1>2. PICK fd \in Free :
          /\ last_active' = [last_active EXCEPT ![fd] = 0]
          /\ kernel' = [kernel EXCEPT ![fd] = ClientOf(offered + 1)]
          /\ armed' = armed \cup {fd}
          /\ Stored(fd, offered + 1)
  BY <1>1, Zenon DEF Accept, ClientOf
<1>3. TableType /\ LoopType /\ LoopInv /\ TableInv /\ SerialInv /\ phase # "exited"
  BY <1>1, Parts, HandledLoop
<1>4. LoopType' /\ LoopInv'
  <2>1. offered' \in 0 .. MaxConns
    BY <1>1, <1>3, Nothing DEF LoopType
  <2>2. QED
    BY <1>1, <1>3, <2>1 DEF LoopType, LoopInv
<1>5. TableType' /\ TableInv'
  BY <1>1, <1>2, <1>3, AcceptTable, Zenon DEF LoopType
<1>6. SerialInv'
  <2>1. SUFFICES ASSUME pipelining = {} PROVE Current' /\ Owned' /\ Waiting'
    BY <1>1 DEF SerialInv
  <2>2. /\ fd \in Fds /\ ~Open(fd) /\ kernel'[fd] = ClientOf(offered + 1)
        /\ ClientOf(offered + 1).kind = "client"
        /\ \A g \in Fds \ {fd} : kernel'[g] = kernel[g] /\ conns'[g] = conns[g]
        /\ conns'[fd].conn = offered + 1 /\ Current /\ Owned /\ Waiting
    BY <1>2, <1>3, <2>1 DEF Free, TableType, ClientOf, Stored, SerialInv
  <2>3. \A i \in DOMAIN events : events[i].fd # Listen => events[i].fd \in Fds \ {fd}
    <3>1. \A i \in DOMAIN events : events[i].fd # Listen => events[i].fd \in Fds /\ events[i].for \in File
      BY <1>3 DEF LoopType, Event
    <3>2. \A i \in DOMAIN events : events[i].fd # Listen => kernel[events[i].fd] = events[i].for
      BY <2>2 DEF Current
    <3>3. QED
      BY <2>2, <3>1, <3>2, Nothing DEF Open
  <2>4. Current'
    BY <1>1, <1>2, <2>2, <2>3 DEF Current
  <2>5. Owned'
    BY <1>1, <2>2 DEF Owned, Open
  <2>6. call[offered + 1] = None
    <3>1. offered + 1 \in Ids /\ offered \in Nat
      BY <1>1, <1>3, Nothing DEF LoopType, Ids
    <3>2. \A g \in Fds : Live(g) => conns[g].conn \in Nat /\ conns[g].conn <= offered
      BY <1>3, LiveIs DEF TableInv, Numbered, Entry, Ids
    <3>3. QED
      BY <1>3, <3>1, <3>2 DEF TableInv, Calling
  <2>7. Waiting'
    BY <1>1, <1>2, <2>2, <2>6 DEF Waiting, Live
  <2>8. QED
    BY <2>4, <2>5, <2>7
<1>7. QED
  BY <1>1, <1>3, <1>4, <1>5, <1>6, Parts

\* The tables and the events stay: what is true of them does too.
LEMMA SameSerial ==
    ASSUME SerialInv, UNCHANGED <<kernel, armed, conns, owner, call, events, pipelining>>
    PROVE  SerialInv'
BY DEF SerialInv, Current, Owned, Waiting, Open, Live

\* Connections that are shed, or whose TLS object cannot be made.
LEMMA RefusedIInv ==
    ASSUME IInv, Shed \/ AcceptFails
    PROVE  IInv'
<1>1. /\ at = "handle" /\ offered < MaxConns /\ offered' = offered + 1
      /\ UNCHANGED <<kernel, armed, conns, owner, call, busy, in_use, events, at, phase, pipelining>>
      /\ \/ last_active' = last_active
         \/ \E fd \in Fds : last_active' = [last_active EXCEPT ![fd] = 0]
  BY DEF Shed, AcceptFails, Accepting, table, Free
<1>2. TableType /\ LoopType /\ LoopInv /\ TableInv /\ SerialInv /\ phase # "exited"
  BY <1>1, Parts, HandledLoop
<1>3. LoopType' /\ LoopInv' /\ offered \in Nat
  <2>1. offered' \in 0 .. MaxConns /\ offered \in Nat
    BY <1>1, <1>2, Nothing DEF LoopType
  <2>2. QED
    BY <1>1, <1>2, <2>1 DEF LoopType, LoopInv
<1>4. TableType' /\ TableInv'
  <2>1. 0 \in 0 .. MaxAge /\ 0 # None
    BY WorkerAssumption
  <2>2. /\ last_active' \in [Fds -> 0 .. MaxAge \cup {None}]
        /\ \A f \in Fds : last_active[f] # None => last_active'[f] # None
    BY <1>1, <1>2, <2>1 DEF TableType
  <2>3. QED
    BY <1>1, <1>2, <1>3, <2>2, SameTable DEF TableType
<1>5. QED
  BY <1>1, <1>2, <1>3, <1>4, SameSerial, Parts

\* The events that go nowhere.
LEMMA DroppedIInv ==
    ASSUME IInv, AcceptDone \/ NoEntry \/ UpstreamGone
    PROVE  IInv'
<1>1. at = "handle" /\ Handled /\ UNCHANGED table
  BY DEF AcceptDone, NoEntry, UpstreamGone, Accepting, Client, Upstream
<1>2. TableType /\ LoopType /\ LoopInv /\ TableInv /\ SerialInv
  BY Parts
<1>3. LoopType' /\ LoopInv' /\ phase' # "exited" /\ UNCHANGED <<offered, phase, pipelining>>
  BY <1>1, <1>2, HandledLoop
<1>4. TableType' /\ TableInv'
  BY <1>1, <1>2, <1>3, KeptTable DEF table
<1>5. SerialInv'
  <2>1. SUFFICES ASSUME pipelining = {} PROVE Current' /\ Owned' /\ Waiting'
    BY <1>3 DEF SerialInv
  <2>2. Current'
    BY <1>1, <2>1, OtherEvents, CurrentKept DEF table
  <2>3. Owned'
    BY <1>1, <1>2, <2>1 DEF SerialInv, Owned, Open, table
  <2>4. Waiting'
    BY <1>1, <1>2, <2>1, OtherEvents, Nothing DEF SerialInv, Waiting, Live, table
  <2>5. QED
    BY <2>2, <2>3, <2>4
<1>6. QED
  BY <1>3, <1>4, <1>5, Parts

\* epoll_wait reports a descriptor, which EPOLLONESHOT disarms: no second event
\* can be reported for it.
LEMMA ReportIInv ==
    ASSUME IInv, NEW fd \in Fds, Report(fd)
    PROVE  IInv'
<1>1. /\ at = "wait" /\ phase # "exited" /\ Len(events) < MaxEvents /\ fd \in armed
      /\ armed' = armed \ {fd}
      /\ UNCHANGED <<kernel, conns, last_active, owner, call, busy, in_use, offered, at, phase,
                     pipelining>>
  BY DEF Report
<1>2. PICK hup \in Hups(fd) : events' = Append(events, [fd |-> fd, for |-> kernel[fd], hup |-> hup])
  BY DEF Report
<1> DEFINE e == [fd |-> fd, for |-> kernel[fd], hup |-> hup]
<1>3. TableType /\ LoopType /\ LoopInv /\ TableInv /\ SerialInv
  BY Parts
<1>4. e \in Event /\ e.fd = fd /\ e.for = kernel[fd] /\ hup \in BOOLEAN
  <2>1. kernel[fd] \in File
    BY <1>1, <1>3, LiveIs DEF TableType
  <2>2. hup \in BOOLEAN
    BY Zenon DEF Hups
  <2>3. QED
    BY <2>1, <2>2 DEF Event
<1>5. events' = Append(events, e) /\ events \in Seq(Event)
  BY <1>2, <1>3 DEF LoopInv
<1> HIDE DEF e
<1>6. /\ events' \in Seq(Event) /\ Len(events') = Len(events) + 1 /\ Len(events) \in Nat
      /\ \A i \in DOMAIN events' : i \in DOMAIN events \/ i = Len(events')
      /\ \A i \in DOMAIN events : events'[i] = events[i] /\ i \in DOMAIN events' /\ i # Len(events')
      /\ events'[Len(events')] = e
  BY <1>4, <1>5
<1>7. LoopType' /\ LoopInv'
  <2>1. Len(events') <= MaxEvents /\ \A i \in DOMAIN events' : events'[i] \in Event
    BY <1>1, <1>6, Nothing
  <2>2. QED
    BY <1>1, <1>3, <1>6, <2>1 DEF LoopType, LoopInv
<1>8. TableType' /\ TableInv'
  BY <1>1, <1>3, KeptTable
<1>9. SerialInv'
  <2>1. SUFFICES ASSUME pipelining = {} PROVE Current' /\ Owned' /\ Waiting'
    BY <1>1 DEF SerialInv
  <2>2. Current /\ Owned /\ Waiting
    BY <1>3, <2>1 DEF SerialInv
  <2>3. \A i \in DOMAIN events : events[i].fd # fd
    BY <1>1, <2>2, Nothing DEF Current
  <2>4. Current'
    BY <1>1, <1>4, <1>6, <2>2, <2>3 DEF Current
  <2>5. Owned'
    BY <1>1, <2>2 DEF Owned, Open
  <2>6. Waiting'
    <3>1. SUFFICES ASSUME NEW f \in Fds, Live(f), call[conns[f].conn] # None
                   PROVE  f \notin armed' /\ \A i \in DOMAIN events' : events'[i].fd # f
      BY <1>1 DEF Waiting, Live
    <3>2. f \notin armed /\ \A i \in DOMAIN events : events[i].fd # f
      BY <2>2, <3>1 DEF Waiting
    <3>3. QED
      BY <1>1, <1>4, <1>6, <3>2
  <2>7. QED
    BY <2>4, <2>5, <2>6
<1>10. QED
  BY <1>1, <1>7, <1>8, <1>9, Parts

\* epoll_wait reports the listening socket.
LEMMA ReportListenIInv ==
    ASSUME IInv, ReportListen
    PROVE  IInv'
<1> DEFINE e == [fd |-> Listen]
<1>1. /\ at = "wait" /\ phase = "run" /\ Len(events) < MaxEvents /\ events' = Append(events, e)
      /\ UNCHANGED <<table, offered, at, phase, pipelining>>
  BY DEF ReportListen
<1>2. TableType /\ LoopType /\ LoopInv /\ TableInv /\ SerialInv
  BY Parts
<1>3. e \in Event /\ e.fd = Listen /\ events \in Seq(Event)
  BY <1>2 DEF LoopInv, Event
<1> HIDE DEF e
<1>4. /\ events' \in Seq(Event) /\ Len(events') = Len(events) + 1 /\ Len(events) \in Nat
      /\ \A i \in DOMAIN events' : i \in DOMAIN events \/ i = Len(events')
      /\ \A i \in DOMAIN events : events'[i] = events[i] /\ i \in DOMAIN events' /\ i # Len(events')
      /\ events'[Len(events')] = e
  BY <1>1, <1>3
<1>5. LoopType' /\ LoopInv'
  <2>1. Len(events') <= MaxEvents /\ \A i \in DOMAIN events' : events'[i] \in Event
    BY <1>1, <1>4, Nothing
  <2>2. QED
    BY <1>1, <1>2, <1>4, <2>1 DEF LoopType, LoopInv
<1>6. TableType' /\ TableInv'
  BY <1>1, <1>2, KeptTable DEF table
<1>7. SerialInv'
  <2>1. SUFFICES ASSUME pipelining = {} PROVE Current' /\ Owned' /\ Waiting'
    BY <1>1 DEF SerialInv
  <2>2. Current'
    BY <1>1, <1>2, <1>3, <1>4, <2>1 DEF SerialInv, Current, table
  <2>3. Owned'
    BY <1>1, <1>2, <2>1 DEF SerialInv, Owned, Open, table
  <2>4. Waiting'
    <3>1. SUFFICES ASSUME NEW f \in Fds, Live(f), call[conns[f].conn] # None
                   PROVE  f \notin armed /\ \A i \in DOMAIN events' : events'[i].fd # f
      BY <1>1 DEF Waiting, Live, table
    <3>2. f \notin armed /\ \A i \in DOMAIN events : events[i].fd # f
      BY <1>2, <2>1, <3>1 DEF SerialInv, Waiting
    <3>3. QED
      BY <1>3, <1>4, <3>2, Nothing
  <2>5. QED
    BY <2>2, <2>3, <2>4
<1>8. QED
  BY <1>1, <1>5, <1>6, <1>7, Parts

\* The loop goes on to its next part.
LEMMA TurnIInv ==
    ASSUME IInv, Wake \/ NextTurn \/ Stop
    PROVE  IInv'
<1>1. /\ phase' # "exited" /\ UNCHANGED <<table, offered, events, pipelining>>
      /\ phase' \in {"run", "drain"} \cup {phase}
      /\ at' \in {"wait", "end", "handle"}
      /\ at' = "handle" => events # <<>>
      /\ at' = "end" => events = <<>>
  BY DEF Wake, NextTurn, Stop
<1>2. TableType /\ LoopType /\ LoopInv /\ TableInv /\ SerialInv
  BY Parts
<1>3. LoopType' /\ LoopInv'
  BY <1>1, <1>2 DEF LoopType, LoopInv
<1>4. TableType' /\ TableInv'
  BY <1>1, <1>2, KeptTable DEF table
<1>5. QED
  BY <1>1, <1>2, <1>3, <1>4, SameSerial, Parts DEF table

-----------------------------------------------------------------------------
(* The theorems.                                                           *)

\* Before the first connection.
LEMMA InitIInv == Init => IInv
<1> SUFFICES ASSUME Init PROVE IInv
  OBVIOUS
<1> USE Nothing DEF Init
<1>1. TableType
  BY DEF TableType
<1>2. LoopType /\ LoopInv
  BY DEF LoopType, LoopInv
<1>3. TableInv
  <2>1. Entries(conns) = {}
    BY DEF Entries
  <2>2. Slots
    BY <2>1, FS_EmptySet, Zenon DEF Slots
  <2>3. QED
    BY <2>2 DEF TableInv, Sockets, Numbered, Calling, Greeting, Open
<1>4. SerialInv
  BY DEF SerialInv, Current, Owned, Waiting, Open, Live
<1>5. QED
  BY <1>1, <1>2, <1>3, <1>4, Parts DEF ExitedClean

\* Every step of the loop keeps the invariant.
LEMMA NextIInv == IInv /\ [Next]_vars => IInv'
<1> SUFFICES ASSUME IInv, [Next]_vars PROVE IInv'
  OBVIOUS
<1>1. CASE Handle
  BY <1>1, RefusedIInv, AcceptIInv, DroppedIInv, HandshakeEndsIInv, HandshakeStepIInv, HangupIInv,
     ServeIInv, ProxyIInv, HandlerClosesIInv, CallsIInv DEF Handle
<1>2. CASE (\E fd \in Fds : Report(fd)) \/ ReportListen \/ Wake \/ NextTurn \/ Stop
  BY <1>2, ReportIInv, ReportListenIInv, TurnIInv
<1>3. CASE UpstreamTimeout \/ CheckTimeout \/ DrainSweep \/ DrainEnds
  BY <1>3, CallsIInv, CheckTimeoutIInv, DrainSweepIInv, DrainEndsIInv
<1>4. CASE UNCHANGED vars
  <2>1. TableType /\ LoopType /\ LoopInv /\ TableInv /\ SerialInv /\ ExitedClean
    BY Parts
  <2>2. TableType' /\ LoopType' /\ LoopInv'
    BY <1>4, <2>1 DEF vars, TableType, LoopType, LoopInv, Open
  <2>3. TableInv'
    BY <1>4, <2>1, KeptTable DEF vars
  <2>4. SerialInv'
    BY <1>4, <2>1, SameSerial DEF vars
  <2>5. ExitedClean'
    BY <1>4, <2>1 DEF vars, ExitedClean, Open
  <2>6. QED
    BY <2>2, <2>3, <2>4, <2>5 DEF IInv, TypeOK, TableType, LoopType
<1>5. QED
  BY <1>1, <1>2, <1>3, <1>4 DEF Next

\* The inductive invariant holds in every reachable state.
THEOREM Invariance == Spec => []IInv
BY InitIInv, NextIInv, PTL DEF Spec

\* Every variable keeps its type; an armed descriptor is an open one.
THEOREM TypeCorrect == Spec => []TypeOK
BY Invariance, PTL DEF IInv

\* Every open client socket has its entry and its activity record, and the worker
\* holds one slot per entry (handle_accept, handle_client, check_timeout).
THEOREM TrackedSafety == Spec => []Tracked
<1>1. IInv => Tracked
  BY DEF IInv, TableInv, Slots, Sockets, Tracked
<1>2. QED
  BY <1>1, Invariance, PTL

\* A worker that has exited has closed every socket and returned every slot
\* (drain_connections).
THEOREM ExitSafety == Spec => []ExitedClean
BY Invariance, PTL DEF IInv

\* Without pipelining, upstream_fd_owner_ names the open upstream sockets, and
\* no call outlives its client.
THEOREM OwnerSafety == Spec => []UpstreamOwned
<1>1. IInv => UpstreamOwned
  <2>1. SUFFICES ASSUME IInv, pipelining = {}, NEW fd \in Fds
                 PROVE  /\ owner[fd] # None <=> Open(fd) /\ kernel[fd].kind = "upstream"
                        /\ owner[fd] # None => kernel[fd].conn = owner[fd] /\ ClientFd(owner[fd]) # {}
    BY DEF UpstreamOwned
  <2>2. TableType /\ TableInv /\ Owned
    BY <2>1, Parts DEF SerialInv
  <2>3. ASSUME owner[fd] # None PROVE ClientFd(owner[fd]) # {}
    <3>1. owner[fd] \in Ids /\ call[owner[fd]] = fd
      BY <2>2, <2>3 DEF Owned, TableInv, Sockets, TableType
    <3>2. PICK g \in Fds : Live(g) /\ conns[g].conn = owner[fd]
      <4>1. call[owner[fd]] # None
        BY <3>1, Nothing
      <4>2. QED
        BY <2>2, <3>1, <4>1, CallHas
    <3>3. g \in ClientFd(owner[fd])
      BY <3>2 DEF Live, ClientFd
    <3>4. QED
      BY <3>3
  <2>4. QED
    BY <2>2, <2>3 DEF Owned
<1>2. QED
  BY <1>1, Invariance, PTL

\* Without pipelining, an event is handled for the socket it was reported for,
\* however descriptor numbers are reused within a turn (handle_client,
\* on_upstream_event).
THEOREM RecipientSafety == Spec => []SerialRecipient
<1>1. IInv => SerialRecipient
  <2>1. SUFFICES ASSUME IInv, pipelining = {} PROVE RightRecipient
    BY DEF SerialRecipient
  <2>2. ASSUME at = "handle", Now.fd # Listen
        PROVE  Now.fd \in Fds /\ Now.for \in File /\ kernel[Now.fd] = Now.for
    <3>1. LoopType /\ LoopInv /\ Current
      BY <2>1, Parts DEF SerialInv
    <3>2. 1 \in DOMAIN events /\ Now = events[1] /\ Now.fd \in Fds /\ Now.for \in File
      BY <2>2, <3>1, HandledLoop
    <3>3. QED
      BY <2>2, <3>1, <3>2 DEF Current
  <2>3. ASSUME Client PROVE Now.for = ClientOf(Conn)
    <3>1. Now.for \in File /\ kernel[Now.fd] = Now.for
      BY <2>2, <2>3 DEF Client
    <3>2. kernel[Now.fd].kind = "client" /\ kernel[Now.fd].conn = Conn
      BY <2>1, <2>3, SerialClient
    <3>3. QED
      BY <3>1, <3>2, FileIs
  <2>4. ASSUME Upstream PROVE Now.for = UpstreamOf(owner[Now.fd])
    <3>1. Now.fd \in Fds /\ Now.for \in File /\ kernel[Now.fd] = Now.for /\ owner[Now.fd] # None
      BY <2>2, <2>4 DEF Upstream
    <3>2. kernel[Now.fd].kind = "upstream" /\ kernel[Now.fd].conn = owner[Now.fd]
      BY <2>1, <3>1, Parts DEF SerialInv, Owned
    <3>3. QED
      BY <3>1, <3>2, FileIs
  <2>5. QED
    BY <2>3, <2>4 DEF RightRecipient, ClientOf, UpstreamOf
<1>2. QED
  BY <1>1, Invariance, PTL
=============================================================================
