---------------------------- MODULE ConfigReload ----------------------------
(***************************************************************************)
(* Hot reload.  SIGHUP and POST /admin/reload increment one generation     *)
(* counter; every worker compares it with the generation it has applied,   *)
(* reads and validates the file itself, and applies it to its own state    *)
(* and to what the workers share.  The admin thread refreshes its keys     *)
(* from the same counter.  The file is replaced by an operator at any      *)
(* time, and is opened twice by each reader: is_valid_file looks at it,    *)
(* from_file loads it.  A configuration is the revision it came from.      *)
(***************************************************************************)
EXTENDS Integers, FiniteSets

CONSTANTS
    Workers,
    Revisions,    \* file contents that pass from_file and validate
    First,        \* the revision the process was started with
    AdminOff,     \* revisions with admin.enabled = false
    BadCert,      \* configurations whose certificate cannot be loaded
    Bad,          \* file content that does not
    Missing,      \* no file
    Default,      \* the configuration of a default-constructed Config
    MaxEdits,     \* bound: replacements of the file
    MaxRequests,  \* bound: reload requests
    None

ASSUME ReloadAssumption ==
    /\ First \in Revisions \ (AdminOff \cup BadCert)
    /\ AdminOff \subseteq Revisions /\ BadCert \subseteq Revisions \cup {Default}
    /\ Cardinality({Bad, Missing, Default, None}) = 4
    /\ {Bad, Missing, Default, None} \cap Revisions = {}
    /\ MaxEdits \in Nat /\ MaxRequests \in Nat

VARIABLES
    file,        \* what config_path names
    generation,  \* config_reload_generation
    worker,      \* TcpWorker: where check_timeout is and what is applied
    shared,      \* what the workers share: the configuration each part is from
    admin,       \* AdminServer: likewise, with the keys in use
    edits,       \* replacements of the file so far
    asked,       \* history: a reload of this file was requested
    told         \* history: likewise, and the admin thread held nothing of the file before

vars == <<file, generation, worker, shared, admin, edits, asked, told>>

Config == Revisions \cup {Default}

\* UpstreamManager, RateLimiterManager and ConnectionBudget, each with its own lock.
Parts == {"upstreams", "limiter", "budget"}

\* loaded: the generation check_timeout has read; from: the configuration it has.
Worker == [at : {"serve", "check", "load"} \cup Parts, loaded : 0 .. MaxRequests,
           from : Config \cup {None}, applied : 0 .. MaxRequests, config : Config, tls : Config]

\* keys: the revision whose admin.api_keys are in use.
Admin == [at : {"poll", "check", "load", "apply"}, for : {"refresh", "request"},
          from : Config \cup {None}, applied : 0 .. MaxRequests, keys : Config,
          pending : Config \cup {None}]

TypeOK ==
    /\ file \in Revisions \cup {Bad, Missing}
    /\ generation \in 0 .. MaxRequests
    /\ worker \in [Workers -> Worker]
    /\ shared \in [Parts -> Config]
    /\ admin \in Admin
    /\ edits \in 0 .. MaxEdits /\ asked \in BOOLEAN /\ told \in {"no", "ready", "yes"}

Init ==
    /\ file = First /\ generation = 0
    /\ worker = [w \in Workers |-> [at |-> "serve", loaded |-> 0, from |-> None,
                                    applied |-> 0, config |-> First, tls |-> First]]
    /\ shared = [part \in Parts |-> First]
    /\ admin = [at |-> "poll", for |-> "refresh", from |-> None, applied |-> 0,
                keys |-> First, pending |-> None]
    /\ edits = 0 /\ asked = FALSE /\ told = "ready"

-----------------------------------------------------------------------------
(* Reading the file.                                                       *)

\* is_valid_file: it can be opened and is a JSON object.  What is wrong with Bad
\* may be of either kind.
LooksValid == {ok \in BOOLEAN : IF ok THEN file # Missing ELSE file \notin Revisions}

\* from_file and validate, without error.  A file that cannot be opened leaves
\* the defaults, which is no error.
Loads == file # Bad

Content == IF file = Missing THEN Default ELSE file

-----------------------------------------------------------------------------
(* check_timeout of a worker.                                              *)

At(w, place) == worker[w].at = place

Moves(w, changes) == worker' = [worker EXCEPT ![w] = changes]

Due(w) == generation # worker[w].applied

LoadGeneration(w) ==
    /\ At(w, "serve") /\ Due(w)
    /\ Moves(w, [worker[w] EXCEPT !.at = "check", !.loaded = generation])
    /\ UNCHANGED <<file, generation, shared, admin, edits, asked, told>>

Check(w) ==
    /\ At(w, "check")
    /\ \E ok \in LooksValid : Moves(w, [worker[w] EXCEPT !.at = IF ok THEN "load" ELSE "serve"])
    /\ UNCHANGED <<file, generation, shared, admin, edits, asked, told>>

\* A rejected file leaves everything as it is; the next check tries again.
Load(w) ==
    /\ At(w, "load")
    /\ Moves(w, IF Loads THEN [worker[w] EXCEPT !.at = "upstreams", !.from = Content]
                ELSE [worker[w] EXCEPT !.at = "serve"])
    /\ UNCHANGED <<file, generation, shared, admin, edits, asked, told>>

\* Mutant: the generation is read again when the configuration is applied.
SeenAgain(w) == generation

\* The generation that counts as applied.
Seen(w) == worker[w].loaded

\* The certificate in use: the old one if the new one cannot be loaded.
Context(w) == IF worker[w].from \in BadCert THEN worker[w].tls ELSE worker[w].from

\* Mutant: only the first worker to see a generation writes the shared parts.
PublishesFirst(w) == \A v \in Workers : worker[v].applied < worker[w].loaded

\* Every worker writes the shared parts.
Publishes(w) == TRUE

Publish(w, part) ==
    shared' = IF Publishes(w) THEN [shared EXCEPT ![part] = worker[w].from] ELSE shared

\* reload_config up to the upstreams, and its limits on requests.
ReloadConfig(w) ==
    /\ At(w, "upstreams")
    /\ Moves(w, [worker[w] EXCEPT !.at = "limiter", !.config = worker[w].from])
    /\ Publish(w, "upstreams")
    /\ UNCHANGED <<file, generation, admin, edits, asked, told>>

UpdateLimiter(w) ==
    /\ At(w, "limiter")
    /\ Moves(w, [worker[w] EXCEPT !.at = "budget"])
    /\ Publish(w, "limiter")
    /\ UNCHANGED <<file, generation, admin, edits, asked, told>>

\* The connection limit, the TLS context and the generation.
FinishReload(w) ==
    /\ At(w, "budget")
    /\ Moves(w, [worker[w] EXCEPT !.at = "serve", !.from = None, !.applied = Seen(w),
                                  !.tls = Context(w)])
    /\ Publish(w, "budget")
    /\ UNCHANGED <<file, generation, admin, edits, asked, told>>

-----------------------------------------------------------------------------
(* The admin thread.                                                       *)

\* Mutant: whatever the new revision says.
AdoptedAlways(keys, c) == c

\* apply_admin_keys: not from a revision that switches the listener off.
Adopted(keys, c) == IF c \in AdminOff \cup {Default} THEN keys ELSE c

\* maybe_refresh_keys: the generation counts as applied whatever comes of it.
\* Keys of a validated POST /admin/reload are at hand; otherwise it reads the file.
Refresh ==
    /\ admin.at = "poll" /\ generation # admin.applied
    /\ admin' = IF admin.pending # None
                THEN [admin EXCEPT !.applied = generation, !.pending = None,
                                   !.keys = Adopted(admin.keys, admin.pending)]
                ELSE [admin EXCEPT !.applied = generation, !.at = "check", !.for = "refresh"]
    /\ UNCHANGED <<file, generation, worker, shared, edits, asked, told>>

\* Requests so far, one under way included.
Requests == generation + (IF admin.at # "poll" /\ admin.for = "request" THEN 1 ELSE 0)

\* handle_reload begins; the thread looks at the generation before each request.
Request ==
    /\ admin.at = "poll" /\ Requests < MaxRequests
    /\ admin' = [admin EXCEPT !.at = "check", !.for = "request"]
    /\ UNCHANGED <<file, generation, worker, shared, edits, asked, told>>

AdminCheck ==
    /\ admin.at = "check"
    /\ \E ok \in LooksValid : admin' = [admin EXCEPT !.at = IF ok THEN "load" ELSE "poll"]
    /\ UNCHANGED <<file, generation, worker, shared, edits, asked, told>>

AdminLoad ==
    /\ admin.at = "load"
    /\ admin' = IF Loads THEN [admin EXCEPT !.at = "apply", !.from = Content]
                ELSE [admin EXCEPT !.at = "poll"]
    /\ UNCHANGED <<file, generation, worker, shared, edits, asked, told>>

RefreshEnds ==
    /\ admin.at = "apply" /\ admin.for = "refresh"
    /\ admin' = [admin EXCEPT !.at = "poll", !.from = None,
                              !.keys = Adopted(admin.keys, admin.from)]
    /\ UNCHANGED <<file, generation, worker, shared, edits, asked, told>>

\* config_reload_generation.fetch_add.
Asked ==
    /\ generation' = generation + 1
    /\ asked' = TRUE
    /\ told' = IF told = "ready" THEN "yes" ELSE told

\* The validated keys are left for the refresh, and the workers are told.
RequestEnds ==
    /\ admin.at = "apply" /\ admin.for = "request"
    /\ admin' = [admin EXCEPT !.at = "poll", !.from = None, !.pending = admin.from]
    /\ Asked
    /\ UNCHANGED <<file, worker, shared, edits>>

-----------------------------------------------------------------------------
(* The operator.                                                           *)

Sighup ==
    /\ Requests < MaxRequests
    /\ Asked
    /\ UNCHANGED <<file, worker, shared, admin, edits>>

\* The file is replaced.  A request made while it was broken is still open when
\* it is repaired.
Edit ==
    /\ edits < MaxEdits
    /\ edits' = edits + 1
    /\ file' \in (Revisions \cup {Bad, Missing}) \ {file}
    /\ asked' = (asked /\ file = Bad /\ file' \in Revisions)
    /\ told' = IF admin.at = "poll" /\ admin.pending = None THEN "ready" ELSE "no"
    /\ UNCHANGED <<generation, worker, shared, admin>>

-----------------------------------------------------------------------------
WorkerStep(w) == LoadGeneration(w) \/ Check(w) \/ Load(w)
                 \/ ReloadConfig(w) \/ UpdateLimiter(w) \/ FinishReload(w)

AdminStep == Refresh \/ AdminCheck \/ AdminLoad \/ RefreshEnds \/ RequestEnds

Next == (\E w \in Workers : WorkerStep(w)) \/ AdminStep \/ Request \/ Sighup \/ Edit

Spec == Init /\ [][Next]_vars

\* Every worker calls check_timeout about once a second, and the admin thread
\* looks at the generation at least as often.
FairSpec == Spec /\ (\A w \in Workers : WF_vars(WorkerStep(w))) /\ WF_vars(AdminStep)

-----------------------------------------------------------------------------
(* Properties.                                                             *)

\* No request is lost: a worker that counts the latest generation as applied runs
\* the file the reload was asked for, also if it was replaced or gone while others
\* were reading it, or was broken at first.  It serves that file's certificate, or
\* another usable one if that cannot be loaded.
NoLostReload ==
    \A w \in Workers :
        asked /\ file \in Revisions /\ At(w, "serve") /\ worker[w].applied = generation =>
            /\ worker[w].config = file
            /\ worker[w].tls \notin BadCert
            /\ file \notin BadCert => worker[w].tls = file

\* Every worker comes to run the file and every shared part to be of it, once the
\* file stays valid and a reload was asked for.
AllAdopt ==
    <>[](asked /\ file \in Revisions =>
            /\ shared = [part \in Parts |-> file]
            /\ \A w \in Workers : worker[w].config = file)

\* The listener always has keys, of a revision that switched it on.  Once
\* maybe_refresh_keys has seen the latest reload they are the file's, unless
\* the thread was reading, or had set keys aside, when the file was last
\* replaced, or nothing was asked since: those keys may hide the newer ones.
KeysFollow ==
    /\ admin.keys \in Revisions \ AdminOff
    /\ told = "yes" /\ file \in Revisions \ AdminOff
           /\ admin.at = "poll" /\ admin.applied = generation => admin.keys = file
=============================================================================
