------------------------ MODULE CircuitBreakerProofs ------------------------
(***************************************************************************)
(* The circuit breaker's safety invariants hold for every set of requests, *)
(* backends and routes.  The conjunction of the five invariants that TLC   *)
(* checks is inductive: SlotAccounted needs TypeOK, ProbeOnlyWhenOpen      *)
(* needs that an admitted call takes the slot only of an open circuit, and *)
(* RetryOnlyIdempotent needs that an idle slot counts no attempt.          *)
(***************************************************************************)
EXTENDS CircuitBreaker, TLAPS

IInv ==
    /\ TypeOK
    /\ ProbeOnlyWhenOpen
    /\ OpenNeedsFailures
    /\ SlotAccounted
    /\ RetryOnlyIdempotent

\* The saturating counter stays in its range, never decreases, and reaches any
\* value up to the cap.
LEMMA IncrementType ==
    ASSUME NEW n \in 0 .. FailureCap
    PROVE  Increment(n) \in 0 .. FailureCap /\ Increment(n) >= n
BY CircuitAssumption DEF Increment

\* record_failure on a well-typed circuit.
LEMMA FailureType ==
    ASSUME NEW c \in CircuitState, NEW threshold \in Nat
    PROVE  /\ AfterFailure(c, threshold) \in CircuitState
           /\ AfterFailure(c, threshold).half_open_probe = FALSE
           /\ AfterFailure(c, threshold).consecutive_failures = Increment(c.consecutive_failures)
           /\ AfterFailure(c, threshold).open
                = (c.open \/ Increment(c.consecutive_failures) >= threshold)
<1>1. Increment(c.consecutive_failures) \in 0 .. FailureCap
  BY IncrementType DEF CircuitState
<1>2. 0 \in 0 .. MaxElapsed /\ c.elapsed \in 0 .. MaxElapsed /\ c.open \in BOOLEAN
  BY CircuitAssumption DEF CircuitState
<1>3. AfterFailure(c, threshold) \in CircuitState
  BY <1>1, <1>2, Zenon DEF AfterFailure, CircuitState
<1>4. QED
  BY <1>1, <1>2, <1>3 DEF AfterFailure, CircuitState

\* record_success on a well-typed circuit.
LEMMA SuccessType ==
    ASSUME NEW c \in CircuitState
    PROVE  /\ AfterSuccess(c) \in CircuitState
           /\ AfterSuccess(c).half_open_probe = FALSE
           /\ AfterSuccess(c).open = FALSE
<1>1. 0 \in 0 .. FailureCap
  BY CircuitAssumption
<1>2. QED
  BY <1>1, Zenon DEF AfterSuccess, CircuitState

\* Every circuit starts closed and every slot idle.
LEMMA InitIInv == Init => IInv
<1> SUFFICES ASSUME Init PROVE IInv
  OBVIOUS
<1> USE CircuitAssumption DEF Init, Closed, Idle
<1>1. TypeOK
  BY DEF TypeOK, CircuitState, Request
<1>2. ProbeOnlyWhenOpen /\ OpenNeedsFailures
  BY DEF ProbeOnlyWhenOpen, OpenNeedsFailures
<1>3. SlotAccounted
  BY DEF SlotAccounted
<1>4. RetryOnlyIdempotent
  BY DEF RetryOnlyIdempotent
<1>5. QED
  BY <1>1, <1>2, <1>3, <1>4 DEF IInv

\* Admitting a call: allow_request takes the slot of an open circuit only.
LEMMA StartIInv ==
    ASSUME IInv, NEW r \in Requests, NEW b \in Backends, Start(r, b)
    PROVE  IInv'
<1> USE CircuitAssumption DEF IInv, Start, Admitted, Allows
<1>1. circuit[b] \in CircuitState /\ Admitted(circuit[b]) \in CircuitState
  BY DEF TypeOK, CircuitState
<1>2. TypeOK'
  <2>1. circuit' \in [Backends -> CircuitState]
    BY <1>1 DEF TypeOK
  <2>2. req' \in [Requests -> Request]
    BY <1>1 DEF TypeOK, Request, CircuitState
  <2>3. QED
    BY <2>1, <2>2 DEF TypeOK
<1>3. ProbeOnlyWhenOpen'
  BY <1>1 DEF ProbeOnlyWhenOpen, TypeOK, CircuitState
<1>4. OpenNeedsFailures'
  BY <1>1 DEF OpenNeedsFailures, TypeOK, CircuitState
<1>5. SlotAccounted'
  BY <1>1 DEF SlotAccounted, ProbeOnlyWhenOpen, TypeOK, CircuitState, Request
<1>6. RetryOnlyIdempotent'
  BY DEF RetryOnlyIdempotent, TypeOK, Request
<1>7. QED
  BY <1>2, <1>3, <1>4, <1>5, <1>6

\* record_success closes the circuit and frees the slot, whoever held it.
LEMMA SucceedIInv ==
    ASSUME IInv, NEW r \in Requests, Succeed(r)
    PROVE  IInv'
<1> USE CircuitAssumption DEF IInv, Succeed
<1> DEFINE b == req[r].backend
<1>1. b \in Backends /\ circuit[b] \in CircuitState
  BY DEF TypeOK, Request
<1>2. AfterSuccess(circuit[b]) \in CircuitState
  BY <1>1, SuccessType, Zenon
<1>3. TypeOK'
  BY <1>1, <1>2 DEF TypeOK, Request, Idle
<1>4. ProbeOnlyWhenOpen' /\ OpenNeedsFailures'
  BY <1>1 DEF ProbeOnlyWhenOpen, OpenNeedsFailures, TypeOK, CircuitState, AfterSuccess
<1>5. SlotAccounted'
  BY <1>1 DEF SlotAccounted, TypeOK, CircuitState, AfterSuccess, Request, Idle
<1>6. RetryOnlyIdempotent'
  <2>1. /\ req' = [req EXCEPT ![r] = Idle(req[r].backend)]
        /\ Idle(req[r].backend).attempt_count = 0 /\ MaxRetries[r] \in Nat
    BY DEF Idle
  <2>2. QED
    BY <2>1 DEF RetryOnlyIdempotent, TypeOK
<1>7. QED
  BY <1>3, <1>4, <1>5, <1>6

\* record_failure frees the slot, then finish_child retries or ends the call.
LEMMA FailIInv ==
    ASSUME IInv, NEW r \in Requests, NEW transient \in BOOLEAN, Fail(r, transient)
    PROVE  IInv'
<1> USE CircuitAssumption DEF IInv
<1> DEFINE b == req[r].backend
           c == circuit[b]
           f == AfterFailure(c, Threshold[r])
<1>1. b \in Backends /\ c \in CircuitState /\ Threshold[r] \in Nat
  BY DEF TypeOK, Request
<1>2. /\ f \in CircuitState
      /\ f.half_open_probe = FALSE
      /\ f.consecutive_failures = Increment(c.consecutive_failures)
      /\ f.open = (c.open \/ Increment(c.consecutive_failures) >= Threshold[r])
  BY <1>1, FailureType, Zenon DEF TypeOK
<1>3. circuit' = [circuit EXCEPT ![b] = f] /\ holder' = [holder EXCEPT ![b] = NoOne]
      /\ failing' = failing
  BY DEF Fail
<1>4. c.consecutive_failures \in Nat
      /\ Increment(c.consecutive_failures) \in Nat
      /\ Increment(c.consecutive_failures) >= c.consecutive_failures
  BY <1>1, IncrementType DEF CircuitState
<1> DEFINE q == [req[r] EXCEPT !.attempt_count = req[r].attempt_count + 1, !.probe = FALSE]
<1>5. \/ req' = [req EXCEPT ![r] = Idle(b)]
      \/ Retries(r, transient) /\ req' = [req EXCEPT ![r] = q]
  BY Zenon DEF Fail
<1>6. Retries(r, transient) => /\ q \in Request /\ q.inflight = req[r].inflight
                               /\ q.attempt_count = req[r].attempt_count + 1
                               /\ q.attempt_count <= MaxRetries[r] /\ r \in Idempotent
  <2>1. req[r] \in Request /\ MaxRetries[r] \in Nat
    BY DEF TypeOK
  <2>2. req[r].attempt_count \in 0 .. 2
    BY <2>1 DEF Request
  <2>3. SUFFICES ASSUME Retries(r, transient)
                 PROVE  /\ q \in Request /\ q.inflight = req[r].inflight
                        /\ q.attempt_count = req[r].attempt_count + 1
                        /\ q.attempt_count <= MaxRetries[r] /\ r \in Idempotent
    OBVIOUS
  <2>4. req[r].attempt_count + 1 \in 0 .. 2 /\ req[r].attempt_count + 1 <= MaxRetries[r]
    BY <2>1, <2>2, <2>3 DEF Retries
  <2>5. q \in Request /\ q.inflight = req[r].inflight
        /\ q.attempt_count = req[r].attempt_count + 1
    BY <2>1, <2>4, Zenon DEF Request
  <2>6. QED
    BY <2>3, <2>4, <2>5 DEF Retries
<1>7. Idle(b) \in Request
  BY <1>1 DEF Idle, Request
<1> HIDE DEF b, c, f, q
<1>8. TypeOK'
  BY <1>1, <1>2, <1>3, <1>5, <1>6, <1>7 DEF TypeOK
<1>9. ProbeOnlyWhenOpen'
  BY <1>1, <1>2, <1>3 DEF ProbeOnlyWhenOpen, TypeOK
<1>10. OpenNeedsFailures'
  <2> SUFFICES ASSUME NEW d \in Backends, circuit'[d].open
               PROVE  \E s \in Requests : circuit'[d].consecutive_failures >= Threshold[s]
    BY DEF OpenNeedsFailures
  <2>1. CASE d # b
    BY <2>1, <1>3, <1>1 DEF OpenNeedsFailures, TypeOK
  <2>2. CASE d = b
    <3>1. circuit'[d] = f
      BY <2>2, <1>3, <1>1 DEF TypeOK
    <3>2. CASE f.consecutive_failures >= Threshold[r]
      BY <3>1, <3>2
    <3>3. CASE c.open
      <4>1. PICK s \in Requests : c.consecutive_failures >= Threshold[s]
        BY <3>3, <1>1 DEF OpenNeedsFailures, c
      <4>2. f.consecutive_failures >= Threshold[s]
        BY <4>1, <1>2, <1>4
      <4>3. QED
        BY <3>1, <4>2
    <3>4. QED
      BY <3>1, <3>2, <3>3, <1>2, Zenon
  <2>3. QED
    BY <2>1, <2>2
<1>11. SlotAccounted'
  <2> SUFFICES ASSUME NEW d \in Backends
               PROVE  /\ circuit'[d].half_open_probe <=> holder'[d] # NoOne
                      /\ holder'[d] \in Requests =>
                           /\ req'[holder'[d]].inflight
                           /\ req'[holder'[d]].backend = d
                           /\ req'[holder'[d]].probe
                           /\ req'[holder'[d]].attempt_count = 0
    BY DEF SlotAccounted
  <2>1. CASE d = b
    BY <2>1, <1>1, <1>2, <1>3 DEF TypeOK
  <2>2. CASE d # b
    <3>1. circuit'[d] = circuit[d] /\ holder'[d] = holder[d]
      BY <2>2, <1>1, <1>3 DEF TypeOK
    <3>2. holder[d] # r
      BY <2>2 DEF SlotAccounted, b
    <3>3. holder[d] \in Requests => req'[holder[d]] = req[holder[d]]
      BY <3>2, <1>5 DEF TypeOK
    <3>4. QED
      BY <3>1, <3>3 DEF SlotAccounted
  <2>3. QED
    BY <2>1, <2>2
<1>12. RetryOnlyIdempotent'
  <2>1. req[r].inflight
    BY DEF Fail
  <2>2. CASE req' = [req EXCEPT ![r] = Idle(b)]
    BY <2>2 DEF RetryOnlyIdempotent, TypeOK, Idle
  <2>3. CASE Retries(r, transient) /\ req' = [req EXCEPT ![r] = q]
    BY <2>1, <2>3, <1>6, Zenon DEF RetryOnlyIdempotent, TypeOK
  <2>4. QED
    BY <2>2, <2>3, <1>5
<1>13. QED
  BY <1>8, <1>9, <1>10, <1>11, <1>12

\* Abandoning the holder turns its slot into a leaked one.
LEMMA AbandonIInv ==
    ASSUME IInv, NEW r \in Requests, Abandon(r)
    PROVE  IInv'
<1> USE CircuitAssumption DEF IInv, Abandon
<1>1. req[r].backend \in Backends
  BY DEF TypeOK, Request
<1>2. TypeOK'
  BY <1>1 DEF TypeOK, Request, Idle
<1>3. ProbeOnlyWhenOpen' /\ OpenNeedsFailures'
  BY DEF ProbeOnlyWhenOpen, OpenNeedsFailures
<1>4. SlotAccounted'
  <2> SUFFICES ASSUME NEW d \in Backends
               PROVE  /\ circuit[d].half_open_probe <=> holder'[d] # NoOne
                      /\ holder'[d] \in Requests =>
                           /\ req'[holder'[d]].inflight
                           /\ req'[holder'[d]].backend = d
                           /\ req'[holder'[d]].probe
                           /\ req'[holder'[d]].attempt_count = 0
    BY Zenon DEF SlotAccounted
  <2>1. holder'[d] = IF d = req[r].backend /\ holder[d] = r THEN Leaked ELSE holder[d]
    BY <1>1 DEF TypeOK
  <2>2. holder[d] = r => d = req[r].backend
    BY DEF SlotAccounted
  <2>3. holder'[d] \in Requests => holder'[d] = holder[d] /\ holder[d] # r
    BY <2>1, <2>2
  <2>4. ASSUME NEW s \in Requests, s # r PROVE req'[s] = req[s]
    BY <2>4 DEF TypeOK
  <2>5. circuit[d].half_open_probe <=> holder[d] # NoOne
    BY DEF SlotAccounted
  <2>6. holder'[d] # NoOne <=> holder[d] # NoOne
    BY <2>1
  <2>7. holder[d] \in Requests => /\ req[holder[d]].inflight
                                  /\ req[holder[d]].backend = d
                                  /\ req[holder[d]].probe
                                  /\ req[holder[d]].attempt_count = 0
    BY DEF SlotAccounted
  <2> HIDE DEF IInv, Abandon
  <2>8. QED
    BY <2>3, <2>4, <2>5, <2>6, <2>7
<1>5. RetryOnlyIdempotent'
  <2>1. /\ req' = [req EXCEPT ![r] = Idle(req[r].backend)]
        /\ Idle(req[r].backend).attempt_count = 0 /\ MaxRetries[r] \in Nat
    BY DEF Idle
  <2>2. QED
    BY <2>1 DEF RetryOnlyIdempotent, TypeOK
<1>6. QED
  BY <1>2, <1>3, <1>4, <1>5

\* The clock moves only the elapsed times, which no invariant reads.
LEMMA TickIInv ==
    ASSUME IInv, Tick
    PROVE  IInv'
<1> USE CircuitAssumption DEF IInv
<1> DEFINE ticked(b) == [circuit[b] EXCEPT !.elapsed = IF circuit[b].elapsed < MaxElapsed
                                                       THEN circuit[b].elapsed + 1
                                                       ELSE circuit[b].elapsed]
<1>1. ASSUME NEW b \in Backends
      PROVE  /\ circuit'[b] \in CircuitState
             /\ circuit'[b].open = circuit[b].open
             /\ circuit'[b].half_open_probe = circuit[b].half_open_probe
             /\ circuit'[b].consecutive_failures = circuit[b].consecutive_failures
  <2>1. circuit[b] \in CircuitState /\ circuit[b].elapsed \in 0 .. MaxElapsed
    BY DEF TypeOK, CircuitState
  <2>2. circuit'[b] = ticked(b)
    BY DEF Tick
  <2>3. QED
    BY <2>1, <2>2 DEF CircuitState
<1>2. circuit' \in [Backends -> CircuitState] /\ UNCHANGED <<req, failing, holder>>
  BY <1>1 DEF Tick
<1>3. TypeOK'
  BY <1>2 DEF TypeOK
<1>4. ProbeOnlyWhenOpen' /\ OpenNeedsFailures'
  BY <1>1, <1>2 DEF ProbeOnlyWhenOpen, OpenNeedsFailures
<1>5. SlotAccounted' /\ RetryOnlyIdempotent'
  BY <1>1, <1>2 DEF SlotAccounted, RetryOnlyIdempotent
<1>6. QED
  BY <1>3, <1>4, <1>5

\* Every step preserves the invariant, one case per action.
LEMMA NextIInv == IInv /\ [Next]_vars => IInv'
<1> SUFFICES ASSUME IInv, [Next]_vars PROVE IInv'
  OBVIOUS
<1>1. CASE \E r \in Requests, b \in Backends : Start(r, b)
  BY <1>1, StartIInv
<1>2. CASE \E r \in Requests : Finish(r)
  BY <1>2, SucceedIInv, FailIInv, AbandonIInv DEF Finish
<1>3. CASE Reload
  BY <1>3, CircuitAssumption DEF Reload, IInv, TypeOK, ProbeOnlyWhenOpen, OpenNeedsFailures,
        SlotAccounted, RetryOnlyIdempotent, Closed, CircuitState
<1>4. CASE Tick
  BY <1>4, TickIInv
<1>5. CASE (\E b \in Backends : Toggle(b)) \/ UNCHANGED vars
  BY <1>5 DEF Toggle, vars, IInv, TypeOK, ProbeOnlyWhenOpen, OpenNeedsFailures,
        SlotAccounted, RetryOnlyIdempotent
<1>6. QED
  BY <1>1, <1>2, <1>3, <1>4, <1>5 DEF Next

\* The inductive invariant holds in every reachable state.
THEOREM Invariance == Spec => []IInv
BY InitIInv, NextIInv, PTL DEF Spec

\* Every circuit and request slot of the circuit breaker stays well typed.
THEOREM TypeCorrect == Spec => []TypeOK
BY Invariance, PTL DEF IInv

\* The half-open probe slot of UpstreamManager is taken only in an open circuit,
\* and is only ever lost by abandoning the call that holds it.
THEOREM SlotSafety == Spec => [](ProbeOnlyWhenOpen /\ SlotAccounted)
BY Invariance, PTL DEF IInv

\* Only an open circuit of UpstreamManager has its half-open probe slot taken.
THEOREM ProbeSafety == Spec => []ProbeOnlyWhenOpen
BY Invariance, PTL DEF IInv

\* A circuit is open only after a full threshold of consecutive failures.
THEOREM OpenSafety == Spec => []OpenNeedsFailures
BY Invariance, PTL DEF IInv

\* finish_child never retries a non-idempotent call, nor more than max_retries
\* times.
THEOREM RetrySafety == Spec => []RetryOnlyIdempotent
BY Invariance, PTL DEF IInv
=============================================================================
