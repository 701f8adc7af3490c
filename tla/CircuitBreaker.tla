--------------------------- MODULE CircuitBreaker ---------------------------
(***************************************************************************)
(* The per-backend circuit breaker of UpstreamManager (allow_request,      *)
(* record_success, record_failure, reload) together with the life cycle    *)
(* HttpHandler gives every backend call: start_upstream_exchange or        *)
(* start_composite_exchange admits it, finish_child records its outcome    *)
(* and may retry it, abort_upstream_for_client or force_finish_child       *)
(* abandons it.  Every manager call holds the manager's mutex, so each is  *)
(* one atomic step; the calls of different workers interleave freely.      *)
(***************************************************************************)
EXTENDS Integers, FiniteSets

CONSTANTS
    Requests,     \* slots for concurrent backend calls, over all workers
    Backends,     \* backend servers (one circuit each)
    Threshold,    \* circuit_failure_threshold of each call's route
    Recovery,     \* circuit_recovery_timeout_ms of each call's route, in ticks
    MaxRetries,   \* max_retries of each call's route (0 for a composite child)
    Idempotent,   \* the calls whose method is GET, HEAD or OPTIONS
    FailureCap,   \* bound: the failure counter saturates here
    MaxElapsed,   \* bound: the time since a circuit opened saturates here
    NoOne,        \* the half-open probe slot is free
    Leaked        \* the probe slot is taken, but its call is gone

\* Config::validate demands a threshold and a recovery timeout of at least 1 and
\* a non-negative max_retries.
ASSUME CircuitAssumption ==
    /\ Threshold \in [Requests -> Nat \ {0}]
    /\ Recovery \in [Requests -> Nat \ {0}]
    /\ MaxRetries \in [Requests -> Nat]
    /\ Idempotent \subseteq Requests
    /\ FailureCap \in Nat
    /\ \A r \in Requests : Threshold[r] <= FailureCap
    /\ MaxElapsed \in Nat
    /\ \A r \in Requests : Recovery[r] <= MaxElapsed
    /\ NoOne # Leaked
    /\ NoOne \notin Requests
    /\ Leaked \notin Requests

VARIABLES
    circuit,   \* circuit_states_: a missing entry is the default state
    req,       \* what each slot is doing
    failing,   \* environment: the backends whose calls may currently fail
    holder     \* history: which call the half-open probe slot was given to

vars == <<circuit, req, failing, holder>>

\* "elapsed" is steady_clock::now() - opened_at, the only use made of the clock.
CircuitState == [consecutive_failures : 0 .. FailureCap, elapsed : 0 .. MaxElapsed,
                 open : BOOLEAN, half_open_probe : BOOLEAN]

Closed == [consecutive_failures |-> 0, elapsed |-> MaxElapsed,
           open |-> FALSE, half_open_probe |-> FALSE]

Request == [inflight : BOOLEAN, backend : Backends, attempt_count : 0 .. 2, probe : BOOLEAN]

TypeOK ==
    /\ circuit \in [Backends -> CircuitState]
    /\ req \in [Requests -> Request]
    /\ failing \subseteq Backends
    /\ holder \in [Backends -> Requests \cup {NoOne, Leaked}]

-----------------------------------------------------------------------------
(* The three manager operations, on one circuit.                           *)

\* Mutant: an open circuit never lets a probe through.
AllowsOnlyClosed(c, recovery) == ~c.open

\* allow_request: closed, or past the cooldown with the probe slot free.
Allows(c, recovery) ==
    \/ ~c.open
    \/ c.elapsed >= recovery /\ ~c.half_open_probe

\* allow_request takes the probe slot exactly when the circuit is open.
Admitted(c) == [c EXCEPT !.half_open_probe = c.open]

\* Mutant: the probe's success closes the circuit but keeps the slot.
SuccessKeepsSlot(c) == [c EXCEPT !.consecutive_failures = 0, !.open = FALSE]

\* record_success: forget the failures, close the circuit, free the slot.
AfterSuccess(c) == [c EXCEPT !.consecutive_failures = 0, !.open = FALSE,
                             !.half_open_probe = FALSE]

\* The counter is only ever compared with thresholds, so it may saturate.
Increment(n) == IF n < FailureCap THEN n + 1 ELSE n

\* Mutant: the failed probe does not give the slot back.
FailureKeepsSlot(c, threshold) ==
    LET n == Increment(c.consecutive_failures)
    IN  [c EXCEPT !.consecutive_failures = n,
                  !.open = c.open \/ n >= threshold,
                  !.elapsed = IF n >= threshold THEN 0 ELSE c.elapsed]

\* Mutant: the circuit opens one failure early.
FailureOffByOne(c, threshold) ==
    LET n == Increment(c.consecutive_failures)
    IN  [c EXCEPT !.half_open_probe = FALSE,
                  !.consecutive_failures = n,
                  !.open = c.open \/ n + 1 >= threshold,
                  !.elapsed = IF n + 1 >= threshold THEN 0 ELSE c.elapsed]

\* record_failure: std::max(1, failure_threshold) is the threshold itself, which is
\* at least 1 in a validated config.
AfterFailure(c, threshold) ==
    LET n == Increment(c.consecutive_failures)
    IN  [c EXCEPT !.half_open_probe = FALSE,
                  !.consecutive_failures = n,
                  !.open = c.open \/ n >= threshold,
                  !.elapsed = IF n >= threshold THEN 0 ELSE c.elapsed]

-----------------------------------------------------------------------------
Idle(b) == [inflight |-> FALSE, backend |-> b, attempt_count |-> 0, probe |-> FALSE]

Init ==
    /\ circuit = [b \in Backends |-> Closed]
    /\ \E b \in Backends : req = [r \in Requests |-> Idle(b)]
    /\ failing \in SUBSET Backends
    /\ holder = [b \in Backends |-> NoOne]

\* pick_server returned b and allow_request let the call through.  A call that
\* is not let through is answered 503 and leaves every variable unchanged.
Start(r, b) ==
    /\ ~req[r].inflight
    /\ Allows(circuit[b], Recovery[r])
    /\ req' = [req EXCEPT ![r] = [inflight |-> TRUE, backend |-> b, attempt_count |-> 0,
                                  probe |-> circuit[b].open]]
    /\ circuit' = [circuit EXCEPT ![b] = Admitted(@)]
    /\ holder' = [holder EXCEPT ![b] = IF circuit[b].open THEN r ELSE @]
    /\ UNCHANGED failing

\* finish_child after the exchange produced a response (of any status code).
Succeed(r) ==
    LET b == req[r].backend
    IN  /\ req[r].inflight
        /\ circuit' = [circuit EXCEPT ![b] = AfterSuccess(@)]
        /\ req' = [req EXCEPT ![r] = Idle(b)]
        /\ holder' = [holder EXCEPT ![b] = NoOne]
        /\ UNCHANGED failing

\* Mutant: the method is not looked at.
RetriesAnyMethod(r, transient) ==
    /\ req[r].attempt_count < MaxRetries[r]
    /\ req[r].attempt_count < 2
    /\ transient

\* finish_child's condition with should_retry_backend_request's.
Retries(r, transient) ==
    /\ req[r].attempt_count < MaxRetries[r]
    /\ req[r].attempt_count < 2
    /\ r \in Idempotent
    /\ transient

\* finish_child after the exchange failed: the failure is recorded first; then
\* the call is replaced by a fresh exchange, without asking allow_request
\* again, or answered 502/504.
Fail(r, transient) ==
    LET b == req[r].backend
    IN  /\ req[r].inflight
        /\ b \in failing
        /\ circuit' = [circuit EXCEPT ![b] = AfterFailure(@, Threshold[r])]
        /\ req' = [req EXCEPT ![r] =
                      IF Retries(r, transient)
                      THEN [req[r] EXCEPT !.attempt_count = req[r].attempt_count + 1,
                                          !.probe = FALSE]
                      ELSE Idle(b)]
        /\ holder' = [holder EXCEPT ![b] = NoOne]
        /\ UNCHANGED failing

\* The client went away (abort_upstream_for_client) or a composite's overall
\* deadline fired (force_finish_child): the exchange is dropped and nothing is
\* recorded.
Abandon(r) ==
    LET b == req[r].backend
    IN  /\ req[r].inflight
        /\ req' = [req EXCEPT ![r] = Idle(b)]
        /\ holder' = [holder EXCEPT ![b] = IF @ = r THEN Leaked ELSE @]
        /\ UNCHANGED <<circuit, failing>>

\* UpstreamManager::reload clears every circuit; calls in flight go on.
Reload ==
    /\ circuit' = [b \in Backends |-> Closed]
    /\ holder' = [b \in Backends |-> NoOne]
    /\ UNCHANGED <<req, failing>>

Tick ==
    /\ circuit' = [b \in Backends |->
                      [circuit[b] EXCEPT !.elapsed = IF @ < MaxElapsed THEN @ + 1 ELSE @]]
    /\ UNCHANGED <<req, failing, holder>>

\* Environment: a backend starts or stops failing.
Toggle(b) ==
    /\ failing' = IF b \in failing THEN failing \ {b} ELSE failing \cup {b}
    /\ UNCHANGED <<circuit, req, holder>>

Finish(r) == Succeed(r) \/ (\E transient \in BOOLEAN : Fail(r, transient)) \/ Abandon(r)

Next ==
    \/ \E r \in Requests, b \in Backends : Start(r, b)
    \/ \E r \in Requests : Finish(r)
    \/ Reload
    \/ Tick
    \/ \E b \in Backends : Toggle(b)

Spec == Init /\ [][Next]_vars

\* Every exchange has an idle deadline and a response size cap, and the worker
\* drives it on every turn of its loop, so it ends one way or another; the clock
\* advances; and clients keep asking for every backend.
FairSpec ==
    /\ Spec
    /\ WF_vars(Tick)
    /\ \A r \in Requests : WF_vars(Finish(r))
    /\ \A b \in Backends : SF_vars(\E r \in Requests : Start(r, b))

-----------------------------------------------------------------------------
(* Properties.                                                             *)

\* The probe slot of a circuit is only ever taken while that circuit is open:
\* neither a straggler's late outcome nor a reload leaves a closed circuit with
\* its slot taken (such a circuit would admit no probe after its next opening).
ProbeOnlyWhenOpen ==
    \A b \in Backends : circuit[b].half_open_probe => circuit[b].open

\* An open circuit has seen, since its last success or reload, as many failures
\* in a row as the threshold of some route demands.
OpenNeedsFailures ==
    \A b \in Backends :
        circuit[b].open =>
            \E r \in Requests : circuit[b].consecutive_failures >= Threshold[r]

\* A taken probe slot belongs to a call that was let through as the probe and is
\* still in flight on that backend and on its first exchange, unless such a call
\* was abandoned: abandoning is the only way the slot is lost.
SlotAccounted ==
    \A b \in Backends :
        /\ circuit[b].half_open_probe <=> holder[b] # NoOne
        /\ holder[b] \in Requests =>
              LET r == req[holder[b]]
              IN  r.inflight /\ r.backend = b /\ r.probe /\ r.attempt_count = 0

\* The route-level retry never replays a call whose method is not idempotent,
\* and never exceeds the route's max_retries.
RetryOnlyIdempotent ==
    \A r \in Requests :
        /\ req[r].attempt_count > 0 => r \in Idempotent /\ req[r].inflight
        /\ req[r].attempt_count <= MaxRetries[r]

\* Once a backend stops failing, its circuit does not stay open: requests that
\* keep coming get a probe through and close it again, whatever stragglers
\* record meanwhile, unless a probe is abandoned.
CircuitRecovers ==
    \A b \in Backends :
        <>[](b \notin failing) => []<>(~circuit[b].open \/ holder[b] = Leaked)
=============================================================================
