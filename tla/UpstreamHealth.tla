--------------------------- MODULE UpstreamHealth ---------------------------
(***************************************************************************)
(* The servers of one upstream group in the UpstreamManager that all       *)
(* workers share: round-robin selection, active health checks and reload.  *)
(* Every worker is a thread.  Its check_health copies the list under the   *)
(* mutex, probes server by server without it, and writes the results back  *)
(* under it, by position; reloads and picks of other workers fall between. *)
(* A worker also has its own copy of the configuration, which it replaces  *)
(* at its own time.  An empty list stands for a group that does not exist. *)
(***************************************************************************)
EXTENDS Integers, Sequences, SequencesExt, FiniteSetsExt

CONSTANTS
    Workers,
    Configs,      \* the lists of servers a configuration file may have
    MaxReloads,   \* bound: reloads, counting each worker's
    MaxFlips,     \* bound: times a server goes down or comes back
    FailureCap    \* bound: the failure counter saturates here

ASSUME HealthAssumption ==
    /\ \A c \in Configs : c \in Seq(Range(c))
    /\ MaxReloads \in Nat /\ MaxFlips \in Nat /\ FailureCap \in Nat \ {0}

VARIABLES
    servers,   \* config_.upstreams[name].servers
    index,     \* round_robin_indices_[name], modulo the number of servers
    reloads,   \* reloads so far: which incarnation of the list this is
    config,    \* the workers' own configuration (HttpHandler::config_)
    thread,    \* what each worker is doing
    up,        \* environment: the servers that accept connections
    flips,     \* environment: changes of up so far
    waited     \* history: picks since a healthy position was last picked or came back

vars == <<servers, index, reloads, config, thread, up, flips, waited>>

Servers == UNION {Range(c) : c \in Configs}

Server == [server : Servers, healthy : BOOLEAN, consecutive_failures : 0 .. FailureCap]

\* A worker serves connections, is in check_health, or has a reference to a server.
Loop == [at |-> "loop"]
Probing(targets, results) == [at |-> "probing", targets |-> targets, results |-> results]
Picked(list, i) == [at |-> "picked", list |-> list, position |-> i]

ThreadOK(t) ==
    \/ t = Loop
    \/ /\ t.at = "probing"
       /\ t.targets \in Configs
       /\ Len(t.results) <= Len(t.targets)
       /\ \A i \in DOMAIN t.results : t.results[i] \in BOOLEAN
    \/ /\ t.at = "picked"
       /\ t.list \in 0 .. reloads
       /\ t.list = reloads => t.position \in DOMAIN servers

\* Positions that are picked stay within the list, and a healthy server has no
\* failures on record.
TypeOK ==
    /\ \A i \in DOMAIN servers :
          servers[i] \in Server /\ (servers[i].healthy => servers[i].consecutive_failures = 0)
    /\ [i \in DOMAIN servers |-> servers[i].server] \in Configs
    /\ index \in 0 .. Len(servers)
    /\ reloads \in 0 .. MaxReloads
    /\ config \in [Workers -> Configs]
    /\ \A w \in Workers : ThreadOK(thread[w])
    /\ up \subseteq Servers /\ flips \in 0 .. MaxFlips
    /\ DOMAIN waited = DOMAIN servers

\* The servers of a configuration start out healthy.
Loaded(c) == [i \in DOMAIN c |-> [server |-> c[i], healthy |-> TRUE, consecutive_failures |-> 0]]

Fresh == [i \in DOMAIN servers' |-> 0]

Init ==
    /\ \E c \in Configs : servers = Loaded(c) /\ config = [w \in Workers |-> c]
    /\ index = 0 /\ reloads = 0
    /\ thread = [w \in Workers |-> Loop]
    /\ up = Servers /\ flips = 0
    /\ waited = [i \in DOMAIN servers |-> 0]

-----------------------------------------------------------------------------
(* Reload and selection.                                                   *)

\* reload_config of one worker replaces its own configuration and the shared list.
Reload(w) ==
    /\ thread[w] = Loop /\ reloads < MaxReloads
    /\ reloads' = reloads + 1
    /\ \E c \in Configs : config' = [config EXCEPT ![w] = c] /\ servers' = Loaded(c)
    /\ index' = 0
    /\ waited' = Fresh
    /\ UNCHANGED <<thread, up, flips>>

\* The first healthy position from idx on, or idx if there is none.
Candidate(ss, idx) ==
    LET healthy == {i \in 0 .. Len(ss) - 1 : ss[((idx + i) % Len(ss)) + 1].healthy}
    IN  IF healthy = {} THEN idx + 1 ELSE ((idx + Min(healthy)) % Len(ss)) + 1

\* Mutant: the next search starts at the position this one found.
NextIndexFound(ss, idx) == Candidate(ss, idx) - 1

\* round_robin_indices_[upstream_name]++
NextIndex(ss, idx) == (idx + 1) % Len(ss)

\* pick_server, which returns a reference into the list.
Pick(w) ==
    /\ thread[w] = Loop /\ config[w] # <<>> /\ servers # <<>>
    /\ LET found == Candidate(servers, index)
       IN  /\ thread' = [thread EXCEPT ![w] = Picked(reloads, found)]
           /\ waited' = [i \in DOMAIN waited |->
                            IF i = found \/ ~servers[i].healthy THEN 0 ELSE waited[i] + 1]
    /\ index' = NextIndex(servers, index)
    /\ UNCHANGED <<servers, reloads, config, up, flips>>

\* The worker knows the group, the shared list does not any more: pick_server
\* throws, and handle_read closes the client's connection.
PickThrows(w) ==
    /\ thread[w] = Loop /\ config[w] # <<>> /\ servers = <<>>
    /\ UNCHANGED vars

\* The caller copies the server it has a reference to.
Copy(w) ==
    /\ thread[w].at = "picked"
    /\ thread' = [thread EXCEPT ![w] = Loop]
    /\ UNCHANGED <<servers, index, reloads, config, up, flips, waited>>

-----------------------------------------------------------------------------
(* check_health.                                                           *)

Snapshot(w) ==
    /\ thread[w] = Loop
    /\ thread' = [thread EXCEPT ![w] = Probing([i \in DOMAIN servers |-> servers[i].server], <<>>)]
    /\ UNCHANGED <<servers, index, reloads, config, up, flips, waited>>

\* health_probe of the next target: connects or not.
HealthProbe(w) ==
    /\ thread[w].at = "probing"
    /\ LET t == thread[w]
           n == Len(t.results) + 1
       IN  /\ n <= Len(t.targets)
           /\ thread' = [thread EXCEPT ![w] =
                            Probing(t.targets, Append(t.results, t.targets[n] \in up))]
    /\ UNCHANGED <<servers, index, reloads, config, up, flips, waited>>

\* Mutant: a server that is back is not noticed.
JudgedDownForGood(s, ok) ==
    [s EXCEPT !.healthy = ok /\ s.healthy,
              !.consecutive_failures = IF ok THEN 0 ELSE Min({@ + 1, FailureCap})]

\* What a probe's result makes of a server.
Judged(s, ok) ==
    [s EXCEPT !.healthy = ok,
              !.consecutive_failures = IF ok THEN 0 ELSE Min({@ + 1, FailureCap})]

\* Results go to positions; those the list does not have any more are skipped.
Apply(w) ==
    /\ thread[w].at = "probing"
    /\ LET t == thread[w]
       IN  /\ Len(t.results) = Len(t.targets)
           /\ servers' = [i \in DOMAIN servers |->
                             IF i \in DOMAIN t.results THEN Judged(servers[i], t.results[i])
                             ELSE servers[i]]
    /\ waited' = [i \in DOMAIN servers |->
                     IF servers'[i].healthy = servers[i].healthy THEN waited[i] ELSE 0]
    /\ thread' = [thread EXCEPT ![w] = Loop]
    /\ UNCHANGED <<index, reloads, config, up, flips>>

\* A server goes down or comes back.
Flip(s) ==
    /\ flips < MaxFlips
    /\ flips' = flips + 1
    /\ up' = IF s \in up THEN up \ {s} ELSE up \cup {s}
    /\ UNCHANGED <<servers, index, reloads, config, thread, waited>>

-----------------------------------------------------------------------------
Next ==
    \/ \E w \in Workers :
          \/ Reload(w) \/ Pick(w) \/ PickThrows(w) \/ Copy(w)
          \/ Snapshot(w) \/ HealthProbe(w) \/ Apply(w)
    \/ \E s \in Servers : Flip(s)

Spec == Init /\ [][Next]_vars

\* A worker goes on with what it is doing, and checks about every second.
FairSpec ==
    /\ Spec
    /\ \A w \in Workers :
          /\ WF_vars(Copy(w)) /\ WF_vars(HealthProbe(w)) /\ WF_vars(Apply(w))
          /\ SF_vars(Snapshot(w))

-----------------------------------------------------------------------------
(* Properties.                                                             *)

\* Round robin: among n servers a healthy one is picked at least every n picks,
\* whatever is down and whichever workers pick.
Rotation == \A i \in DOMAIN servers : servers[i].healthy => waited[i] < Len(servers)

\* Failed servers are removed and come back: once servers and configuration stay
\* as they are, health settles on the truth, in spite of results that are late or
\* of a list that is gone.
Converges == <>[](\A i \in DOMAIN servers : servers[i].healthy <=> servers[i].server \in up)
=============================================================================
