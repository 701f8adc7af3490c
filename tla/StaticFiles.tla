---------------------------- MODULE StaticFiles ----------------------------
(***************************************************************************)
(* Files of the document root as one worker serves them: the descriptor    *)
(* cache (FdCache), the content cache (FileCache), the static branch of    *)
(* HttpHandler::send_response and the file part of handle_write, beside a  *)
(* file system that other programs write to and a descriptor table that    *)
(* the other threads of the process use too.                               *)
(*                                                                         *)
(* A file is the sequence of its versions.  A version is written over the  *)
(* old one ("edited", open descriptors see it), put in its place           *)
(* ("replaced", open descriptors keep the old one), or is the absence of   *)
(* the file (size Gone).  Times are seconds, as in st_mtime and time().    *)
(*                                                                         *)
(* A connection asks for its next file when the one before has been sent;  *)
(* pipelining is in HttpConnection.  A number taken by another thread is a *)
(* socket's: pread and sendfile refuse it.                                 *)
(***************************************************************************)
EXTENDS Naturals, Sequences, FiniteSets, FiniteSetsExt, SequencesExt

CONSTANTS
    Path,           \* request paths, each naming a file
    StartSize,      \* the size of each file at the start
    Requests,       \* what clients ask: [path, gzip, head]
    Changes,        \* what other programs do to files: [path, way, size]
    Conn, Tls,      \* client connections, and those of them that use TLS
    Number,         \* descriptor numbers, a set of naturals
    FdEntries,      \* max_entries_ of FdCache
    Ttl,            \* ttl_sec_
    FileEntries,    \* max_entries_ of FileCache
    MaxFileSize,    \* max_file_size_
    MaxInline,      \* MAX_INLINE
    Size,           \* sizes of files
    Gone,           \* in place of a size: there is no file
    None, Other,    \* nothing; a descriptor of another kind or thread
    MaxTime, MaxEdits   \* bounds of the instance

ASSUME StaticConstants ==
    /\ StartSize \in [Path -> Size]
    /\ Requests \subseteq [path : Path, gzip : BOOLEAN, head : BOOLEAN]
    /\ Changes \subseteq [path : Path, way : {"edited", "replaced"}, size : Size \cup {Gone}]
    /\ Tls \subseteq Conn /\ Number \subseteq Nat /\ Size \subseteq Nat
    /\ FdEntries \in Nat \ {0} /\ Ttl \in Nat \ {0} /\ FileEntries \in Nat \ {0}
    /\ MaxInline \in Nat /\ MaxFileSize \in Nat /\ MaxInline <= MaxFileSize
    /\ MaxTime \in Nat /\ MaxEdits \in Nat

VARIABLES
    now,        \* time(nullptr)
    disk,       \* the versions of each file, the current one last
    table,      \* what each descriptor number stands for
    fds,        \* FdCache: list_ with the entries of map_, most recent first
    contents,   \* FileCache: list_, most recent first
    streams,    \* file_fds_, file_offsets_, file_sizes_
    turn,       \* the handler at work: between stat and open, or in sendfile
    last        \* history: the answer given in the latest step, if it gave one

vars == <<now, disk, table, fds, contents, streams, turn, last>>

-----------------------------------------------------------------------------
(* The file system and the descriptor table.                               *)

Latest(p) == disk[p][Len(disk[p])]

\* What a read through descriptor d sees: its version, or the last one
\* written over it.
Seen(d) ==
    Max({v \in d.ver..Len(disk[d.path]) :
            \A w \in (d.ver + 1)..v : disk[d.path][w].way = "edited"})

Length(d) == disk[d.path][Seen(d)].size

IsFile(n) == table[n] \notin {None, Other}

FreeNumbers == {n \in Number : table[n] = None}

Close(tab, n) == [tab EXCEPT ![n] = None]

-----------------------------------------------------------------------------
(* FdCache, on a cache value s.                                            *)

Position(s, p) ==
    IF \E i \in DOMAIN s : s[i].path = p THEN CHOOSE i \in DOMAIN s : s[i].path = p ELSE 0

ToFront(s, i) == <<s[i]>> \o RemoveAt(s, i)

\* Mutant: the last second of the time to live is counted in.
FastHitLate(p) ==
    LET i == Position(fds, p) IN i # 0 /\ now - fds[i].validated <= Ttl

\* try_get: a hit within the time to live.
FastHit(p) ==
    LET i == Position(fds, p) IN i # 0 /\ now - fds[i].validated < Ttl

\* validate: an entry of another mtime is dropped and its descriptor closed.
Valid(p, mtime) ==
    LET i == Position(fds, p) IN i # 0 /\ fds[i].mtime = mtime

Validate(p) ==
    LET i == Position(fds, p) IN ToFront([fds EXCEPT ![i].validated = now], i)

Drop(c, p) ==
    LET i == Position(c.fds, p)
    IN  IF i = 0 THEN c
        ELSE [fds |-> RemoveAt(c.fds, i), table |-> Close(c.table, c.fds[i].fd)]

\* Mutant: an evicted descriptor is not closed.
EvictUnclosed(c) ==
    [c EXCEPT !.fds = IF Len(c.fds) >= FdEntries THEN SubSeq(c.fds, 1, FdEntries - 1) ELSE c.fds]

\* put: the old entry of the path and the least recently used ones make room.
Evict(c) ==
    LET kept == IF Len(c.fds) >= FdEntries THEN SubSeq(c.fds, 1, FdEntries - 1) ELSE c.fds
        gone == {c.fds[i].fd : i \in (Len(kept) + 1)..Len(c.fds)}
    IN  [fds |-> kept, table |-> [n \in Number |-> IF n \in gone THEN None ELSE c.table[n]]]

Put(c, p, n, st) ==
    LET d == Evict(Drop(c, p))
    IN  [d EXCEPT !.fds = <<[path |-> p, fd |-> n, size |-> st.size, mtime |-> st.mtime,
                             validated |-> now]>> \o d.fds]

-----------------------------------------------------------------------------
(* FileCache, on a cache value s with entries [path, gzip, body, mtime].   *)

Key(p, gzip) == [path |-> p, gzip |-> gzip]

Entry(s, key) == {i \in DOMAIN s : s[i].key = key}

Hit(s, key, mtime) ==
    \E i \in Entry(s, key) : mtime = 0 \/ s[i].mtime = mtime

\* get: a stale entry is removed.
Get(s, key, mtime) ==
    CASE Entry(s, key) = {} -> s
      [] Hit(s, key, mtime) -> ToFront(s, CHOOSE i \in Entry(s, key) : TRUE)
      [] OTHER -> RemoveAt(s, CHOOSE i \in Entry(s, key) : TRUE)

Store(s, key, body, size, mtime) ==
    LET e == [key |-> key, body |-> body, mtime |-> mtime]
    IN  IF size > MaxFileSize THEN s
        ELSE IF Entry(s, key) # {}
             THEN <<e>> \o RemoveAt(s, CHOOSE i \in Entry(s, key) : TRUE)
             ELSE <<e>> \o (IF Len(s) >= FileEntries THEN Front(s) ELSE s)

-----------------------------------------------------------------------------
(* The body of a small file, as send_response gets it.  read() goes on     *)
(* where the last read of the shared descriptor ended.                     *)

ReadCount(d, size) ==
    LET left == IF Length(d) > d.off THEN Length(d) - d.off ELSE 0
    IN  IF left < size THEN left ELSE size

\* The content cache, the descriptor and the body after the raw content has
\* been looked up and, on a miss, read.  The body None stands for a short read.
Raw(s, tab, n, p, st) ==
    LET got   == Get(s, Key(p, FALSE), st.mtime)
        d     == tab[n]
        count == ReadCount(d, st.size)
        body  == [ver |-> Seen(d), from |-> d.off]
    IN  CASE Hit(s, Key(p, FALSE), st.mtime) ->
               [contents |-> got, table |-> tab, body |-> Head(got).body]
          [] ~Hit(s, Key(p, FALSE), st.mtime) /\ count = st.size ->
               [contents |-> Store(got, Key(p, FALSE), body, st.size, st.mtime),
                table |-> [tab EXCEPT ![n].off = @ + count], body |-> body]
          [] OTHER ->
               [contents |-> got, table |-> [tab EXCEPT ![n].off = @ + count], body |-> None]

\* The same for a client that accepts gzip; zipped is the compressed size, or
\* None when compression fails and the raw content is sent.
Gzip(s, tab, n, p, st, zipped) ==
    LET key == Key(p, TRUE)
        got == Get(s, key, st.mtime)
        raw == Raw(got, tab, n, p, st)
    IN  IF Hit(s, key, st.mtime)
        THEN [contents |-> got, table |-> tab, body |-> Head(got).body]
        ELSE IF raw.body = None \/ zipped = None THEN raw
        ELSE [raw EXCEPT !.contents = Store(raw.contents, key, raw.body, zipped, st.mtime)]

\* The answer is framed; body None with status 200 is a stream or a HEAD.
Answer(p, status, body, st) ==
    last' = [path |-> p, status |-> status, body |-> body, size |-> st.size, at |-> now]

\* send_response from the point where the descriptor n and the file's size
\* and mtime are known; c is the caches and the table so far.
Serve(conn, req, n, st, c) ==
    IF st.size > MaxInline
    THEN /\ streams' = [streams EXCEPT ![conn] =
                IF req.head THEN None
                ELSE [fd |-> n, path |-> req.path, offset |-> 0, size |-> st.size, held |-> 0]]
         /\ Answer(req.path, 200, None, st)
         /\ table' = c.table
         /\ UNCHANGED contents
    ELSE \E zipped \in {1, MaxFileSize + 1, None} :
         LET r == IF req.gzip THEN Gzip(contents, c.table, n, req.path, st, zipped)
                  ELSE Raw(contents, c.table, n, req.path, st)
         IN  /\ contents' = r.contents
             /\ table' = r.table
             /\ IF r.body = None THEN Answer(req.path, 500, None, st)
                ELSE Answer(req.path, 200, IF req.head THEN None ELSE r.body, st)
             /\ UNCHANGED streams

-----------------------------------------------------------------------------
(* The handler's turns.                                                    *)

Quiet == last = None

Idle == turn.at = "idle" /\ Quiet

\* A request that finds its descriptor in the cache, within the time to live.
RequestFast(conn, req) ==
    /\ Idle /\ streams[conn] = None
    /\ FastHit(req.path)
    /\ LET i == Position(fds, req.path)
       IN  /\ fds' = ToFront(fds, i)
           /\ Serve(conn, req, fds[i].fd, [size |-> fds[i].size, mtime |-> fds[i].mtime],
                    [fds |-> fds, table |-> table])
    /\ UNCHANGED <<now, disk, turn>>

\* One that does not: stat(), which finds no file or goes on to Open.
RequestStat(conn, req) ==
    /\ Idle /\ streams[conn] = None
    /\ ~FastHit(req.path)
    /\ LET v  == Latest(req.path)
           st == [size |-> v.size, mtime |-> v.at]
       IN  IF v.size = Gone
           THEN Answer(req.path, 404, None, st) /\ UNCHANGED turn
           ELSE /\ turn' = [at |-> "stat", conn |-> conn, req |-> req, st |-> st, since |-> now]
                /\ UNCHANGED last
    /\ UNCHANGED <<now, disk, table, fds, contents, streams>>

\* validate, or else open and put, and then the body.
Open ==
    /\ turn.at = "stat"
    /\ LET p     == turn.req.path
           c     == Drop([fds |-> fds, table |-> table], p)
           free  == {n \in Number : c.table[n] = None}
           n     == Min(free)
           file  == [path |-> p, ver |-> Len(disk[p]), off |-> 0]
           added == Put([c EXCEPT !.table[n] = file], p, n, turn.st)
       IN  IF Valid(p, turn.st.mtime)
           THEN /\ fds' = Validate(p)
                /\ Serve(turn.conn, turn.req, fds[Position(fds, p)].fd, turn.st,
                         [fds |-> fds, table |-> table])
           ELSE IF Latest(p).size = Gone \/ free = {}
           THEN /\ fds' = c.fds /\ table' = c.table
                /\ Answer(p, 500, None, turn.st)
                /\ UNCHANGED <<contents, streams>>
           ELSE /\ fds' = added.fds
                /\ Serve(turn.conn, turn.req, n, turn.st, added)
    /\ turn' = [at |-> "idle"]
    /\ UNCHANGED <<now, disk>>

\* Mutant: the loop goes on when nothing remains.
AdvanceEndless(conn, s, count) ==
    streams' = [streams EXCEPT ![conn] = [s EXCEPT !.offset = @ + count]]

\* A number of blocks has been sent; the mappings go with the last one.
Advance(conn, s, count) ==
    streams' = [streams EXCEPT ![conn] =
        IF s.offset + count = s.size THEN None ELSE [s EXCEPT !.offset = @ + count]]

Fail(conn) == streams' = [streams EXCEPT ![conn] = None]

Remaining(s) == Min({s.size, Length(table[s.fd])}) - s.offset

AtEnd(s) == Length(table[s.fd]) <= s.offset

\* One pass of the loops of handle_write on a response whose head has been
\* sent.  Over TLS a chunk is read ahead and kept until SSL_write has taken it
\* (ssl_file_buffers_); the file's end is an error, as is a descriptor that is
\* not a file's.  In the clear sendfile reads and sends at once; it returns 0
\* at the end of the file, and the loop repeats it.
WriteTls(conn, s) ==
    \/ /\ s.held = 0 /\ (IF IsFile(s.fd) THEN AtEnd(s) ELSE TRUE)
       /\ Fail(conn)
    \/ /\ s.held = 0 /\ IsFile(s.fd)
       /\ \E chunk \in 1..Remaining(s) : streams' = [streams EXCEPT ![conn].held = chunk]
    \/ /\ s.held > 0
       /\ \E count \in 1..s.held : Advance(conn, [s EXCEPT !.held = @ - count], count)

WriteClear(conn, s) ==
    \/ /\ ~IsFile(s.fd)
       /\ Fail(conn) /\ UNCHANGED turn
    \/ /\ IsFile(s.fd) /\ AtEnd(s)
       /\ turn' = [at |-> "sendfile", conn |-> conn] /\ UNCHANGED streams
    \/ /\ IsFile(s.fd)
       /\ \E count \in 1..Remaining(s) : Advance(conn, s, count)
       /\ UNCHANGED turn

WriteFile(conn) ==
    /\ Idle /\ streams[conn] # None
    /\ IF conn \in Tls THEN WriteTls(conn, streams[conn]) /\ UNCHANGED turn
       ELSE WriteClear(conn, streams[conn])
    /\ UNCHANGED <<last, now, disk, table, fds, contents>>

\* The loop around sendfile gets on once the file has grown.
Resume ==
    /\ turn.at = "sendfile"
    /\ LET s == streams[turn.conn] IN Length(table[s.fd]) > s.offset
    /\ turn' = [at |-> "idle"]
    /\ UNCHANGED <<last, now, disk, table, fds, contents, streams>>

\* cleanup: the client has gone or the reaper closed the connection; the
\* descriptor stays with the cache.
Cleanup(conn) ==
    /\ Idle /\ streams[conn] # None
    /\ streams' = [streams EXCEPT ![conn] = None]
    /\ UNCHANGED <<last, now, disk, table, fds, contents, turn>>

\* The worker ends and with it its caches (~FdCache).
Exit ==
    /\ Idle /\ \A conn \in Conn : streams[conn] = None
    /\ fds' = <<>> /\ contents' = <<>>
    /\ table' = [n \in Number |->
                    IF \E i \in DOMAIN fds : fds[i].fd = n THEN None ELSE table[n]]
    /\ UNCHANGED <<last, now, disk, streams, turn>>

-----------------------------------------------------------------------------
(* The world around: time, writers of files, other threads.                *)

\* A handler is never delayed past the end of the second it started in and
\* the next one.
Tick ==
    /\ Quiet /\ now < MaxTime
    /\ turn.at = "stat" => turn.since = now
    /\ now' = now + 1
    /\ UNCHANGED <<last, disk, table, fds, contents, streams, turn>>

Edits == MapThenSumSet(LAMBDA f : Len(disk[f]) - 1, Path)

Write(c) ==
    /\ Quiet /\ Edits < MaxEdits
    /\ c.way = "edited" => Latest(c.path).size # Gone /\ c.size # Gone
    /\ disk' = [disk EXCEPT ![c.path] = Append(@, [at |-> now, size |-> c.size, way |-> c.way])]
    /\ UNCHANGED <<last, now, table, fds, contents, streams, turn>>

OtherOpens ==
    /\ Quiet /\ FreeNumbers # {}
    /\ table' = [table EXCEPT ![Min(FreeNumbers)] = Other]
    /\ UNCHANGED <<last, now, disk, fds, contents, streams, turn>>

OtherCloses(n) ==
    /\ Quiet /\ table[n] = Other
    /\ table' = Close(table, n)
    /\ UNCHANGED <<last, now, disk, fds, contents, streams, turn>>

Init ==
    /\ now = 2
    /\ disk = [p \in Path |-> <<[at |-> 1, size |-> StartSize[p], way |-> "replaced"]>>]
    /\ table = [n \in Number |-> None]
    /\ fds = <<>> /\ contents = <<>>
    /\ streams = [c \in Conn |-> None]
    /\ turn = [at |-> "idle"] /\ last = None

\* The history of an answer is cleared before anything else happens.
Clear ==
    /\ last # None
    /\ last' = None
    /\ UNCHANGED <<now, disk, table, fds, contents, streams, turn>>

Handler ==
    \/ \E conn \in Conn, req \in Requests : RequestFast(conn, req) \/ RequestStat(conn, req)
    \/ Open \/ Resume \/ Exit
    \/ \E conn \in Conn : WriteFile(conn) \/ Cleanup(conn)

World ==
    \/ Tick \/ OtherOpens
    \/ \E c \in Changes : Write(c)
    \/ \E n \in Number : OtherCloses(n)

Next == Handler \/ World \/ Clear

Spec == Init /\ [][Next]_vars

-----------------------------------------------------------------------------
(* Properties.                                                             *)

\* Both caches stay within their bounds with one entry per key, each entry of
\* FdCache has a descriptor of its file, and each descriptor a worker has
\* opened for a file belongs to exactly one entry: none is leaked, shared or
\* closed twice (fd_cache.cpp: validate, put, clear).
DescriptorsOwned ==
    /\ Len(fds) <= FdEntries /\ Len(contents) <= FileEntries
    /\ \A i, j \in DOMAIN contents : contents[i].key = contents[j].key => i = j
    /\ \A i \in DOMAIN fds :
          IsFile(fds[i].fd) /\ table[fds[i].fd].path = fds[i].path
    /\ \A n \in Number :
          IsFile(n) => Cardinality({i \in DOMAIN fds : fds[i].fd = n}) = 1
    /\ Cardinality({fds[i].path : i \in DOMAIN fds}) = Len(fds)

\* Version v of a file was on disk, or cannot be told by its mtime from one
\* that was, less than Ttl seconds (and the second a handler may take) before t.
OnDiskAt(p, v, t) ==
    \E u \in v..Len(disk[p]) :
        /\ disk[p][u].at = disk[p][v].at
        /\ u = Len(disk[p]) \/ disk[p][u + 1].at + Ttl >= t

\* Neither cache makes a small file older than the time to live: what is
\* answered was on disk within the last Ttl seconds (try_get and validate,
\* with FileCache::get on the mtime they give it).
Fresh ==
    last # None /\ last.body # None => OnDiskAt(last.path, last.body.ver, last.at)

\* The loop around sendfile, which has no case for a result of 0, hangs the
\* worker only on a file that was changed after it was first opened, or on a
\* descriptor number that the cache has since given to another file.
HangNeedsChange ==
    turn.at = "sendfile" =>
        LET s == streams[turn.conn]
        IN  Len(disk[s.path]) > 1 \/ table[s.fd].path # s.path

\* A file that is on disk, is not changed and can be opened is answered with
\* its whole content: whether the caches still hold it cannot be told from
\* outside.  Not so: read() goes on where an earlier read of the cached
\* descriptor ended, so content that was dropped is answered with 500.
Served ==
    last # None /\ Len(disk[last.path]) = 1 =>
        /\ last.status = 200
        /\ last.body # None => last.body.from = 0
=============================================================================
