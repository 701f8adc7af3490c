------------------------- MODULE ConfigReloadProofs -------------------------
(***************************************************************************)
(* No reload request is lost and the admin keys follow the file, for any   *)
(* number of workers, revisions, replacements of the file and requests.    *)
(* What the runs check is not inductive.  A worker on its way through the  *)
(* reload must be known to have read the file as it is (Underway); a       *)
(* request made for a broken file must not be counted as applied (Open);   *)
(* and what the admin thread has in hand must be the file's (AdminReads).  *)
(***************************************************************************)
EXTENDS ConfigReload, TLAPS

\* The places of check_timeout after from_file.
Applying == {"upstreams", "limiter", "budget"}

\* x, the state of a worker, has applied and read no generation that is still
\* to come, works only on one it has not applied, and has a configuration in
\* hand where it applies one.
Counted(x) ==
    /\ x.applied <= generation /\ x.loaded <= generation
    /\ x.at # "serve" => x.applied < generation
    /\ x.at \in Applying => x.from \in Config

\* A worker that has read the file for the latest request has read what it is.
Underway(x) ==
    asked /\ file \in Revisions /\ x.loaded = generation =>
        /\ x.at \in Applying => x.from = file
        /\ x.at \in {"limiter", "budget"} => x.config = file

\* A request made for a broken file is neither applied nor being applied.
Open(x) ==
    asked /\ file = Bad =>
        /\ x.applied # generation
        /\ x.at \in Applying => x.loaded # generation

\* A worker that has applied the latest request runs the file, and its
\* certificate could be loaded.
Applied(x) ==
    /\ x.tls \notin BadCert
    /\ asked /\ file \in Revisions /\ x.applied = generation =>
          /\ x.config = file
          /\ file \notin BadCert => x.tls = file

WorkerInv(x) == Counted(x) /\ Underway(x) /\ Open(x) /\ Applied(x)

\* Nothing but the file as it is has reached the admin thread since the file
\* was replaced, when it had nothing in hand then.
AdminReads ==
    /\ admin.applied <= generation
    /\ admin.at = "apply" => admin.from \in Config
    /\ told \in {"ready", "yes"} /\ file \in Revisions =>
          /\ admin.at = "apply" => admin.from = file
          /\ admin.pending \in {None, file}

\* The keys are of a revision with the listener on, and of the file once its
\* reload was seen, also while the thread works on the next request.
KeysInUse ==
    /\ admin.keys \in Revisions \ AdminOff
    /\ /\ told = "yes" /\ file \in Revisions \ AdminOff /\ admin.applied = generation
       /\ admin.at = "poll" \/ admin.for = "request"
       => admin.keys = file

AdminInv == AdminReads /\ KeysInUse

IInv ==
    /\ TypeOK /\ Requests <= MaxRequests
    /\ \A w \in Workers : WorkerInv(worker[w])
    /\ AdminInv

\* At the start everybody runs the first revision.
LEMMA InitIInv == Init => IInv
<1> SUFFICES ASSUME Init PROVE IInv
  OBVIOUS
<1> USE ReloadAssumption DEF Init
<1>1. TypeOK
  <2>1. First \in Config /\ 0 \in 0 .. MaxRequests /\ 0 \in 0 .. MaxEdits
    BY DEF Config
  <2>2. worker \in [Workers -> Worker]
    BY <2>1 DEF Worker
  <2>3. admin \in Admin
    BY <2>1 DEF Admin
  <2>4. QED
    BY <2>1, <2>2, <2>3, Zenon DEF TypeOK
<1>2. Requests <= MaxRequests
  BY DEF Requests
<1>3. \A w \in Workers : WorkerInv(worker[w])
  BY DEF WorkerInv, Counted, Underway, Open, Applied, Applying
<1>4. AdminInv
  BY DEF AdminInv, AdminReads, KeysInUse
<1>5. QED
  BY <1>1, <1>2, <1>3, <1>4 DEF IInv

-----------------------------------------------------------------------------
(* The workers.                                                            *)

\* A step of check_timeout changes one worker, and perhaps a shared part.
LEMMA WorkerMoves ==
    ASSUME IInv, NEW w \in Workers, NEW x \in Worker, Moves(w, x), WorkerInv(x),
           shared' \in [Parts -> Config],
           UNCHANGED <<file, generation, admin, edits, asked, told>>
    PROVE  IInv'
<1> USE DEF IInv
<1>1. worker' = [worker EXCEPT ![w] = x] /\ worker \in [Workers -> Worker]
  BY DEF Moves, TypeOK
<1>2. TypeOK'
  BY <1>1 DEF TypeOK
<1>3. (Requests <= MaxRequests)'
  BY DEF Requests
<1>4. (\A v \in Workers : WorkerInv(worker[v]))'
  BY <1>1 DEF WorkerInv, Counted, Underway, Open, Applied
<1>5. AdminInv'
  BY DEF AdminInv, AdminReads, KeysInUse
<1>6. QED
  BY <1>2, <1>3, <1>4, <1>5

\* What a worker's state is made of.
LEMMA WorkerFields ==
    ASSUME IInv, NEW w \in Workers
    PROVE  /\ worker[w] \in Worker /\ WorkerInv(worker[w])
           /\ worker[w].applied \in Nat /\ worker[w].loaded \in Nat /\ generation \in Nat
           /\ generation \in 0 .. MaxRequests /\ shared \in [Parts -> Config]
           /\ file \in Revisions \cup {Bad, Missing}
BY ReloadAssumption DEF IInv, TypeOK, Worker

\* A worker between two waits sees a new generation and remembers which.
LEMMA LoadGenerationIInv ==
    ASSUME IInv, NEW w \in Workers, LoadGeneration(w)
    PROVE  IInv'
<1> DEFINE x == [worker[w] EXCEPT !.at = "check", !.loaded = generation]
<1>1. Moves(w, x) /\ UNCHANGED <<file, generation, shared, admin, edits, asked, told>>
  BY DEF LoadGeneration
<1>2. x \in Worker
  BY WorkerFields, Zenon DEF Worker
<1>3. worker[w].at = "serve" /\ generation # worker[w].applied
  BY DEF LoadGeneration, At, Due
<1>4. WorkerInv(x)
  BY <1>3, WorkerFields DEF Worker, WorkerInv, Counted, Underway, Open, Applied, Applying
<1> HIDE DEF x
<1>5. QED
  BY <1>1, <1>2, <1>4, WorkerFields, WorkerMoves

\* The validity check before a load decides whether to go on, and no more.
LEMMA CheckIInv ==
    ASSUME IInv, NEW w \in Workers, Check(w)
    PROVE  IInv'
<1>1. PICK ok \in BOOLEAN : Moves(w, [worker[w] EXCEPT !.at = IF ok THEN "load" ELSE "serve"])
  BY DEF Check, LooksValid
<1> DEFINE x == [worker[w] EXCEPT !.at = IF ok THEN "load" ELSE "serve"]
<1>2. x \in Worker
  BY WorkerFields DEF Worker
<1>3. WorkerInv(x)
  BY WorkerFields DEF Check, At, Worker, WorkerInv, Counted, Underway, Open, Applied, Applying
<1> HIDE DEF x
<1>4. QED
  BY <1>1, <1>2, <1>3, WorkerFields, WorkerMoves DEF Check, x

\* A worker that loads the file has a configuration to apply, or gives up with its
\* old one.
LEMMA LoadIInv ==
    ASSUME IInv, NEW w \in Workers, Load(w)
    PROVE  IInv'
<1>1. worker[w].at = "load" /\ UNCHANGED <<file, generation, shared, admin, edits, asked, told>>
  BY DEF Load, At
<1>2. CASE Loads
  <2> DEFINE x == [worker[w] EXCEPT !.at = "upstreams", !.from = Content]
  <2>1. Moves(w, x)
    BY <1>2 DEF Load
  <2>2. Content \in Config /\ file # Bad /\ (file \in Revisions => Content = file)
    BY <1>2, WorkerFields, ReloadAssumption DEF Loads, Content, Config
  <2>3. x \in Worker
    BY <2>2, WorkerFields, Zenon DEF Worker, Parts
  <2>4. WorkerInv(x)
    BY <1>1, <2>2, WorkerFields DEF Worker, WorkerInv, Counted, Underway, Open, Applied, Applying
  <2> HIDE DEF x
  <2>5. QED
    BY <1>1, <2>1, <2>3, <2>4, WorkerFields, WorkerMoves
<1>3. CASE ~Loads
  <2> DEFINE x == [worker[w] EXCEPT !.at = "serve"]
  <2>1. Moves(w, x)
    BY <1>3 DEF Load
  <2>2. x \in Worker
    BY WorkerFields DEF Worker
  <2>3. WorkerInv(x)
    BY WorkerFields DEF Worker, WorkerInv, Counted, Underway, Open, Applied, Applying
  <2> HIDE DEF x
  <2>4. QED
    BY <1>1, <2>1, <2>2, <2>3, WorkerFields, WorkerMoves
<1>4. QED
  BY <1>2, <1>3

\* The three steps that apply a configuration write it, as it was read, to a
\* shared part.
LEMMA PublishType ==
    ASSUME IInv, NEW w \in Workers, worker[w].at \in Applying, NEW part \in Parts, Publish(w, part)
    PROVE  shared' \in [Parts -> Config] /\ worker[w].from \in Config
BY WorkerFields DEF WorkerInv, Counted, Publish, Publishes

\* The loaded configuration reaches the upstream manager.
LEMMA ReloadConfigIInv ==
    ASSUME IInv, NEW w \in Workers, ReloadConfig(w)
    PROVE  IInv'
<1> DEFINE x == [worker[w] EXCEPT !.at = "limiter", !.config = worker[w].from]
<1>1. Moves(w, x) /\ UNCHANGED <<file, generation, admin, edits, asked, told>>
  BY DEF ReloadConfig
<1>2. worker[w].at = "upstreams" /\ worker[w].at \in Applying
  BY DEF ReloadConfig, At, Applying
<1>3. shared' \in [Parts -> Config] /\ worker[w].from \in Config
  BY <1>2, PublishType DEF ReloadConfig, Parts
<1>4. x \in Worker
  BY <1>3, WorkerFields, Zenon DEF Worker, Parts
<1>5. WorkerInv(x)
  BY <1>2, <1>3, WorkerFields DEF Worker, WorkerInv, Counted, Underway, Open, Applied, Applying
<1> HIDE DEF x
<1>6. QED
  BY <1>1, <1>3, <1>4, <1>5, WorkerMoves

\* Then the rate limiters.
LEMMA UpdateLimiterIInv ==
    ASSUME IInv, NEW w \in Workers, UpdateLimiter(w)
    PROVE  IInv'
<1> DEFINE x == [worker[w] EXCEPT !.at = "budget"]
<1>1. Moves(w, x) /\ UNCHANGED <<file, generation, admin, edits, asked, told>>
  BY DEF UpdateLimiter
<1>2. worker[w].at = "limiter" /\ worker[w].at \in Applying
  BY DEF UpdateLimiter, At, Applying
<1>3. shared' \in [Parts -> Config] /\ worker[w].from \in Config
  BY <1>2, PublishType DEF UpdateLimiter, Parts
<1>4. x \in Worker
  BY WorkerFields DEF Worker, Parts
<1>5. WorkerInv(x)
  BY <1>2, WorkerFields DEF Worker, WorkerInv, Counted, Underway, Open, Applied, Applying
<1> HIDE DEF x
<1>6. QED
  BY <1>1, <1>3, <1>4, <1>5, WorkerMoves

\* The generation that counts as applied is the one loaded before the file was
\* read, so that a request made meanwhile is seen the next time.
LEMMA FinishReloadIInv ==
    ASSUME IInv, NEW w \in Workers, FinishReload(w)
    PROVE  IInv'
<1> DEFINE x == [worker[w] EXCEPT !.at = "serve", !.from = None, !.applied = Seen(w),
                                  !.tls = Context(w)]
<1>1. Moves(w, x) /\ UNCHANGED <<file, generation, admin, edits, asked, told>>
  BY DEF FinishReload
<1>2. worker[w].at = "budget" /\ worker[w].at \in Applying
  BY DEF FinishReload, At, Applying
<1>3. shared' \in [Parts -> Config] /\ worker[w].from \in Config
  BY <1>2, PublishType DEF FinishReload, Parts
<1>4. Seen(w) = worker[w].loaded /\ Context(w) \in Config
  BY <1>3, WorkerFields DEF Seen, Context, Worker
<1>5. Context(w) \notin BadCert /\ (worker[w].from \notin BadCert => Context(w) = worker[w].from)
  BY WorkerFields DEF Context, WorkerInv, Applied
<1>6. x \in Worker
  BY <1>4, WorkerFields, Zenon DEF Worker
<1>7. WorkerInv(x)
  BY <1>2, <1>4, <1>5, WorkerFields
     DEF Worker, WorkerInv, Counted, Underway, Open, Applied, Applying
<1> HIDE DEF x
<1>8. QED
  BY <1>1, <1>3, <1>6, <1>7, WorkerMoves

-----------------------------------------------------------------------------
(* The admin thread and the operator.                                      *)

\* A step of the admin thread that asks for nothing.
LEMMA AdminMoves ==
    ASSUME IInv, NEW x \in Admin, admin' = x, AdminInv', (Requests <= MaxRequests)',
           UNCHANGED <<file, generation, worker, shared, edits, asked, told>>
    PROVE  IInv'
<1> USE DEF IInv
<1>1. TypeOK'
  BY DEF TypeOK
<1>2. (\A v \in Workers : WorkerInv(worker[v]))'
  BY DEF WorkerInv, Counted, Underway, Open, Applied
<1>3. QED
  BY <1>1, <1>2

\* What the admin thread's state is made of.
LEMMA AdminFields ==
    ASSUME IInv
    PROVE  /\ admin \in Admin /\ generation \in 0 .. MaxRequests /\ generation \in Nat
           /\ admin.applied \in 0 .. MaxRequests /\ MaxRequests \in Nat
           /\ AdminReads /\ KeysInUse
           /\ file \in Revisions \cup {Bad, Missing} /\ told \in {"no", "ready", "yes"}
           /\ Requests <= MaxRequests
BY ReloadAssumption DEF IInv, AdminInv, TypeOK, Admin

\* Keys that are adopted are of a revision with the listener on.
LEMMA AdoptedKeys ==
    ASSUME NEW keys \in Revisions \ AdminOff, NEW c \in Config
    PROVE  /\ Adopted(keys, c) \in Revisions \ AdminOff
           /\ c \in Revisions \ AdminOff => Adopted(keys, c) = c
BY ReloadAssumption DEF Adopted, Config

\* maybe_refresh_keys takes the keys that handle_reload left, or goes to read the file.
LEMMA RefreshIInv ==
    ASSUME IInv, Refresh
    PROVE  IInv'
<1> USE AdminFields
<1>1. CASE admin.pending # None
  <2> DEFINE k == Adopted(admin.keys, admin.pending)
             x == [admin EXCEPT !.applied = generation, !.pending = None, !.keys = k]
  <2>1. admin' = x /\ admin.at = "poll"
    BY <1>1 DEF Refresh
  <2>2. admin.pending \in Config
    BY <1>1 DEF Admin
  <2>3. /\ k \in Revisions \ AdminOff
        /\ admin.pending \in Revisions \ AdminOff => k = admin.pending
    BY <2>2, AdoptedKeys DEF KeysInUse
  <2> HIDE DEF k
  <2>4. x \in Admin
    BY <2>3, Zenon DEF Admin, Config
  <2>5. AdminInv'
    <3>1. x.at = "poll" /\ x.applied = generation /\ x.pending = None /\ x.keys = k
      BY <2>1 DEF Admin
    <3>2. AdminReads'
      BY <2>1, <3>1 DEF Refresh, AdminReads
    <3>3. told = "yes" /\ file \in Revisions \ AdminOff => k = file
      BY <1>1, <2>3 DEF AdminReads
    <3>4. KeysInUse'
      BY <2>1, <2>3, <3>1, <3>3, Zenon DEF Refresh, KeysInUse
    <3>5. QED
      BY <3>2, <3>4 DEF AdminInv
  <2>6. (Requests <= MaxRequests)'
    BY <2>1 DEF Refresh, Requests, Admin
  <2> HIDE DEF x
  <2>7. QED
    BY <2>1, <2>4, <2>5, <2>6, AdminMoves DEF Refresh
<1>2. CASE admin.pending = None
  <2> DEFINE x == [admin EXCEPT !.applied = generation, !.at = "check", !.for = "refresh"]
  <2>1. admin' = x /\ admin.at = "poll"
    BY <1>2 DEF Refresh
  <2>2. x \in Admin
    BY Zenon DEF Admin
  <2>3. AdminInv'
    BY <1>2, <2>1 DEF Refresh, AdminInv, AdminReads, KeysInUse, Admin
  <2>4. (Requests <= MaxRequests)'
    BY <2>1 DEF Refresh, Requests, Admin
  <2> HIDE DEF x
  <2>5. QED
    BY <2>1, <2>2, <2>3, <2>4, AdminMoves DEF Refresh
<1>3. QED
  BY <1>1, <1>2

\* handle_reload begins with the check of the file.
LEMMA RequestIInv ==
    ASSUME IInv, Request
    PROVE  IInv'
<1> DEFINE x == [admin EXCEPT !.at = "check", !.for = "request"]
<1>1. admin' = x /\ admin.at = "poll"
  BY DEF Request
<1>2. x \in Admin
  BY AdminFields, Zenon DEF Admin
<1>3. AdminInv'
  BY <1>1, AdminFields DEF Request, AdminInv, AdminReads, KeysInUse, Admin
<1>4. (Requests <= MaxRequests)'
  BY <1>1, AdminFields DEF Request, Requests, Admin
<1> HIDE DEF x
<1>5. QED
  BY <1>1, <1>2, <1>3, <1>4, AdminMoves DEF Request

\* A file that is a valid revision passes is_valid_file.
LEMMA AdminCheckIInv ==
    ASSUME IInv, AdminCheck
    PROVE  IInv'
<1>1. PICK ok \in LooksValid : admin' = [admin EXCEPT !.at = IF ok THEN "load" ELSE "poll"]
  BY DEF AdminCheck
<1>2. ok \in BOOLEAN /\ (file \in Revisions => ok)
  BY <1>1 DEF LooksValid
<1> DEFINE x == [admin EXCEPT !.at = IF ok THEN "load" ELSE "poll"]
<1>3. x \in Admin
  BY <1>2, AdminFields DEF Admin
<1>4. AdminInv'
  BY <1>1, <1>2, AdminFields DEF AdminCheck, AdminInv, AdminReads, KeysInUse, Admin
<1>5. (Requests <= MaxRequests)'
  BY <1>1, <1>2, AdminFields DEF AdminCheck, Requests, Admin
<1> HIDE DEF x
<1>6. QED
  BY <1>1, <1>3, <1>4, <1>5, AdminMoves DEF AdminCheck, x

\* The admin thread reads the file for itself or for a request.
LEMMA AdminLoadIInv ==
    ASSUME IInv, AdminLoad
    PROVE  IInv'
<1> USE AdminFields
<1>1. CASE Loads
  <2> DEFINE x == [admin EXCEPT !.at = "apply", !.from = Content]
  <2>1. admin' = x /\ admin.at = "load"
    BY <1>1 DEF AdminLoad
  <2>2. Content \in Config /\ (file \in Revisions => Content = file)
    BY <1>1, ReloadAssumption DEF Loads, Content, Config
  <2>3. x \in Admin
    BY <2>2, Zenon DEF Admin
  <2>4. AdminInv'
    BY <2>1, <2>2, Zenon DEF AdminLoad, AdminInv, AdminReads, KeysInUse, Admin
  <2>5. (Requests <= MaxRequests)'
    BY <2>1 DEF AdminLoad, Requests, Admin
  <2> HIDE DEF x
  <2>6. QED
    BY <2>1, <2>3, <2>4, <2>5, AdminMoves DEF AdminLoad
<1>2. CASE ~Loads
  <2> DEFINE x == [admin EXCEPT !.at = "poll"]
  <2>1. admin' = x /\ admin.at = "load" /\ file \notin Revisions
    BY <1>2, ReloadAssumption DEF AdminLoad, Loads
  <2>2. x \in Admin
    BY DEF Admin
  <2>3. AdminInv'
    BY <2>1, Zenon DEF AdminLoad, AdminInv, AdminReads, KeysInUse, Admin
  <2>4. (Requests <= MaxRequests)'
    BY <2>1 DEF AdminLoad, Requests, Admin
  <2> HIDE DEF x
  <2>5. QED
    BY <2>1, <2>2, <2>3, <2>4, AdminMoves DEF AdminLoad
<1>3. QED
  BY <1>1, <1>2

\* A refresh ends with the keys of what it read.
LEMMA RefreshEndsIInv ==
    ASSUME IInv, RefreshEnds
    PROVE  IInv'
<1> USE AdminFields
<1> DEFINE k == Adopted(admin.keys, admin.from)
           x == [admin EXCEPT !.at = "poll", !.from = None, !.keys = k]
<1>1. admin' = x /\ admin.at = "apply" /\ admin.for = "refresh"
  BY DEF RefreshEnds
<1>2. /\ k \in Revisions \ AdminOff
      /\ admin.from \in Revisions \ AdminOff => k = admin.from
  BY <1>1, AdoptedKeys DEF AdminReads, KeysInUse
<1> HIDE DEF k
<1>3. x \in Admin
  BY <1>2, Zenon DEF Admin, Config
<1>4. AdminInv'
  <2>1. x.at = "poll" /\ x.keys = k /\ x.applied = admin.applied /\ x.pending = admin.pending
    BY DEF Admin
  <2>2. told = "yes" /\ file \in Revisions \ AdminOff => k = file
    BY <1>1, <1>2 DEF AdminReads
  <2>3. QED
    BY <1>1, <1>2, <2>1, <2>2, Zenon DEF RefreshEnds, AdminInv, AdminReads, KeysInUse
<1>5. (Requests <= MaxRequests)'
  BY <1>1 DEF RefreshEnds, Requests, Admin
<1> HIDE DEF x
<1>6. QED
  BY <1>1, <1>3, <1>4, <1>5, AdminMoves DEF RefreshEnds

\* A new generation is one that nobody has applied or read.
LEMMA AskedWorkers ==
    ASSUME IInv, Asked, worker' = worker, file' = file
    PROVE  (\A w \in Workers : WorkerInv(worker[w]))'
<1> SUFFICES ASSUME NEW w \in Workers PROVE WorkerInv(worker[w])'
  OBVIOUS
<1>1. /\ worker[w].applied \in Nat /\ worker[w].loaded \in Nat /\ generation \in Nat
      /\ WorkerInv(worker[w])
  BY WorkerFields
<1>2. worker[w].applied < generation' /\ worker[w].loaded < generation'
  BY <1>1 DEF Asked, WorkerInv, Counted
<1>3. Counted(worker[w])'
  BY <1>1, <1>2 DEF Asked, WorkerInv, Counted
<1>4. Underway(worker[w])' /\ Open(worker[w])' /\ Applied(worker[w])'
  BY <1>1, <1>2 DEF Asked, WorkerInv, Underway, Open, Applied
<1>5. QED
  BY <1>3, <1>4 DEF WorkerInv

\* handle_reload ends: it counts up the generation and leaves the keys pending.
LEMMA RequestEndsIInv ==
    ASSUME IInv, RequestEnds
    PROVE  IInv'
<1> USE AdminFields
<1> DEFINE x == [admin EXCEPT !.at = "poll", !.from = None, !.pending = admin.from]
<1>1. /\ admin' = x /\ admin.at = "apply" /\ admin.for = "request"
      /\ UNCHANGED <<file, worker, shared, edits>>
  BY DEF RequestEnds
<1>2. /\ generation' = generation + 1 /\ asked' = TRUE
      /\ told' = IF told = "ready" THEN "yes" ELSE told
  BY DEF RequestEnds, Asked
<1>3. generation' \in 0 .. MaxRequests
  BY <1>1, <1>2 DEF Requests
<1>4. x \in Admin
  BY Zenon DEF Admin
<1>5. TypeOK'
  <2> HIDE DEF x
  <2>1. told' \in {"no", "ready", "yes"}
    BY <1>2
  <2>2. QED
    BY <1>1, <1>2, <1>3, <1>4, <2>1 DEF IInv, TypeOK
<1>6. (Requests <= MaxRequests)'
  BY <1>1, <1>2, <1>3 DEF Requests, Admin
<1>7. (\A w \in Workers : WorkerInv(worker[w]))'
  BY <1>1, AskedWorkers DEF RequestEnds
<1>8. AdminInv'
  <2>1. x.at = "poll" /\ x.keys = admin.keys /\ x.applied = admin.applied /\ x.pending = admin.from
    BY DEF Admin
  <2>2. admin.applied \in Nat /\ admin.applied <= generation
    BY DEF AdminReads
  <2> HIDE DEF x
  <2>3. AdminReads'
    BY <1>1, <1>2, <2>1, <2>2 DEF AdminReads
  <2>4. KeysInUse'
    BY <1>1, <1>2, <2>1, <2>2 DEF KeysInUse
  <2>5. QED
    BY <2>3, <2>4 DEF AdminInv
<1>9. QED
  BY <1>5, <1>6, <1>7, <1>8 DEF IInv

\* A signal counts up the generation.
LEMMA SighupIInv ==
    ASSUME IInv, Sighup
    PROVE  IInv'
<1> USE AdminFields
<1>1. /\ generation' = generation + 1 /\ asked' = TRUE
      /\ told' = IF told = "ready" THEN "yes" ELSE told
      /\ UNCHANGED <<file, worker, shared, admin, edits>>
  BY DEF Sighup, Asked
<1>2. generation' \in 0 .. MaxRequests /\ (Requests <= MaxRequests)'
  BY <1>1 DEF Sighup, Requests
<1>3. TypeOK'
  <2>1. told' \in {"no", "ready", "yes"}
    BY <1>1
  <2>2. QED
    BY <1>1, <1>2, <2>1 DEF IInv, TypeOK
<1>4. (\A w \in Workers : WorkerInv(worker[w]))'
  BY <1>1, AskedWorkers DEF Sighup
<1>5. AdminInv'
  <2>1. admin.applied \in Nat /\ admin.applied <= generation
    BY DEF AdminReads
  <2>2. AdminReads'
    BY <1>1, <2>1 DEF AdminReads
  <2>3. KeysInUse'
    BY <1>1, <2>1 DEF KeysInUse
  <2>4. QED
    BY <2>2, <2>3 DEF AdminInv
<1>6. QED
  BY <1>2, <1>3, <1>4, <1>5 DEF IInv

\* After a replacement no request counts, but for one made for a broken file,
\* which nobody has applied.
LEMMA EditIInv ==
    ASSUME IInv, Edit
    PROVE  IInv'
<1> USE AdminFields
<1>1. /\ file' \in Revisions \cup {Bad, Missing}
      /\ asked' = (asked /\ file = Bad /\ file' \in Revisions)
      /\ told' = IF admin.at = "poll" /\ admin.pending = None THEN "ready" ELSE "no"
      /\ UNCHANGED <<generation, worker, shared, admin>>
  BY DEF Edit
<1>2. TypeOK'
  <2>1. edits' \in 0 .. MaxEdits
    BY ReloadAssumption DEF Edit, IInv, TypeOK
  <2>2. asked' \in BOOLEAN /\ told' \in {"no", "ready", "yes"}
    BY <1>1
  <2>3. QED
    BY <1>1, <2>1, <2>2 DEF IInv, TypeOK
<1>3. (Requests <= MaxRequests)'
  BY <1>1 DEF Requests
<1>4. ASSUME NEW w \in Workers PROVE WorkerInv(worker[w])'
  <2>1. WorkerInv(worker[w])
    BY DEF IInv
  <2>2. Bad \notin Revisions
    BY ReloadAssumption
  <2>3. Counted(worker[w])' /\ Open(worker[w])'
    BY <1>1, <2>1, <2>2, Zenon DEF WorkerInv, Counted, Open
  <2>4. Underway(worker[w])' /\ Applied(worker[w])'
    BY <1>1, <2>1, Zenon DEF WorkerInv, Open, Underway, Applied, Applying
  <2>5. QED
    BY <2>3, <2>4 DEF WorkerInv
<1>5. AdminInv'
  BY <1>1 DEF AdminInv, AdminReads, KeysInUse
<1>6. QED
  BY <1>2, <1>3, <1>4, <1>5 DEF IInv

-----------------------------------------------------------------------------
(* The theorems.                                                           *)

\* Every step preserves the invariant, one case per action.
LEMMA NextIInv == IInv /\ [Next]_vars => IInv'
<1> SUFFICES ASSUME IInv, [Next]_vars PROVE IInv'
  OBVIOUS
<1>1. ASSUME NEW w \in Workers, WorkerStep(w) PROVE IInv'
  BY <1>1, LoadGenerationIInv, CheckIInv, LoadIInv, ReloadConfigIInv, UpdateLimiterIInv,
     FinishReloadIInv DEF WorkerStep
<1>2. CASE AdminStep
  BY <1>2, RefreshIInv, AdminCheckIInv, AdminLoadIInv, RefreshEndsIInv, RequestEndsIInv
     DEF AdminStep
<1>3. CASE Request \/ Sighup \/ Edit
  BY <1>3, RequestIInv, SighupIInv, EditIInv
<1>4. CASE UNCHANGED vars
  BY <1>4 DEF vars, IInv, TypeOK, Requests, WorkerInv, Counted, Underway, Open, Applied,
        AdminInv, AdminReads, KeysInUse
<1>5. QED
  BY <1>1, <1>2, <1>3, <1>4 DEF Next

\* The inductive invariant holds in every reachable state.
THEOREM Invariance == Spec => []IInv
BY InitIInv, NextIInv, PTL DEF Spec

\* No reload is lost: a worker that counts the latest request as applied runs
\* the file it was made for, with a usable certificate (check_timeout,
\* reload_config).
THEOREM ReloadSafety == Spec => []NoLostReload
<1>1. IInv => NoLostReload
  BY DEF IInv, WorkerInv, Applied, NoLostReload
<1>2. QED
  BY <1>1, Invariance, PTL

\* The admin listener always has keys of a revision that switched it on, and
\* the file's once maybe_refresh_keys has seen its reload.
THEOREM KeySafety == Spec => []KeysFollow
<1>1. IInv => KeysFollow
  BY DEF IInv, AdminInv, KeysInUse, KeysFollow
<1>2. QED
  BY <1>1, Invariance, PTL
=============================================================================
