----------------------- MODULE ConnectionBudgetProofs -----------------------
(***************************************************************************)
(* The connection budget is exact and never oversubscribed, for any number *)
(* of workers, table entries and limits.  The invariant the runs check is  *)
(* not inductive: a compare-and-swap may rest on a check made long ago, so *)
(* Checked keeps what that check has established, and Seen ties the local  *)
(* "current" of every call to a value the counter had during the call.     *)
(***************************************************************************)
EXTENDS ConnectionBudget, FiniteSetTheorems, TLAPS

\* max_ never exceeds the highest limit in force so far, and a call past its
\* check holds a counter value below a limit it has seen.
Checked ==
    /\ max <= peak
    /\ \A w \in Workers :
          /\ \A limit \in window[w].limits : limit <= peak
          /\ call[w].at = "cas" => \E limit \in window[w].limits : call[w].current < limit

\* The present counter and limit, and the local copy of the counter, belong to
\* what a call in progress has seen.
Seen ==
    \A w \in Workers :
        call[w].at # "idle" =>
            /\ call[w].current \in window[w].used
            /\ in_use \in window[w].used
            /\ max \in window[w].limits

IInv ==
    /\ TypeOK
    /\ IsFiniteSet(held)
    /\ CountExact
    /\ NeverAbovePeak
    /\ Checked
    /\ Seen

\* No call is in progress and no ticket is live at the start.
LEMMA InitIInv == Init => IInv
<1> SUFFICES ASSUME Init PROVE IInv
  OBVIOUS
<1>1. max \in Nat /\ max = peak
  BY BudgetAssumption DEF Init
<1>2. TypeOK
  BY <1>1 DEF Init, TypeOK, Outside, Call, NoWindow
<1>3. IsFiniteSet(held) /\ CountExact
  BY FS_EmptySet DEF Init, CountExact
<1>4. NeverAbovePeak /\ Checked /\ Seen
  BY <1>1 DEF Init, NeverAbovePeak, Checked, Seen, Outside, NoWindow
<1>5. QED
  BY <1>2, <1>3, <1>4 DEF IInv

\* What Observe adds to the windows: the new counter and limit, for every call
\* in progress.
LEMMA ObserveType ==
    ASSUME TypeOK, NEW used \in Nat, NEW limit \in Limits, NEW w \in Workers
    PROVE  /\ Observe(used, limit) \in [Workers -> [used : SUBSET Nat, limits : SUBSET Limits]]
           /\ call[w].at = "idle" => Observe(used, limit)[w] = window[w]
           /\ call[w].at # "idle" =>
                 /\ Observe(used, limit)[w].used = window[w].used \cup {used}
                 /\ Observe(used, limit)[w].limits = window[w].limits \cup {limit}
BY DEF TypeOK, Observe

\* Observing a counter value and a limit keeps, for every worker, what Checked
\* and Seen say of its window.
LEMMA ObserveKeeps ==
    ASSUME TypeOK, Checked, Seen, NEW used \in Nat, NEW limit \in Limits, NEW v \in Workers,
           NEW top \in Nat, peak <= top, limit <= top
    PROVE  LET o == Observe(used, limit)[v]
           IN  /\ \A l \in o.limits : l <= top
               /\ call[v].at = "cas" => \E l \in o.limits : call[v].current < l
               /\ call[v].at # "idle" => /\ call[v].current \in o.used
                                         /\ used \in o.used
                                         /\ limit \in o.limits
<1> DEFINE o == Observe(used, limit)[v]
<1>1. \A l \in window[v].limits : l \in Nat /\ l <= peak /\ peak \in Nat
  BY BudgetAssumption DEF TypeOK, Checked
<1>2. \A l \in window[v].limits : l <= top
  BY <1>1
<1>3. CASE call[v].at = "idle"
  <2>1. o = window[v]
    BY <1>3, ObserveType
  <2>2. QED
    BY <1>2, <1>3, <2>1
<1>4. CASE call[v].at # "idle"
  <2>1. o.used = window[v].used \cup {used} /\ o.limits = window[v].limits \cup {limit}
    BY <1>4, ObserveType
  <2>2. call[v].at = "cas" => \E l \in window[v].limits : call[v].current < l
    BY DEF Checked
  <2>3. call[v].current \in window[v].used
    BY <1>4 DEF Seen
  <2>4. QED
    BY <1>2, <1>4, <2>1, <2>2, <2>3
<1>5. QED
  BY <1>3, <1>4

\* A load starts a call whose window holds the present counter and limit.
LEMMA LoadIInv ==
    ASSUME IInv, NEW w \in Workers, Load(w)
    PROVE  IInv'
<1> USE BudgetAssumption DEF IInv, Load
<1>1. TypeOK'
  BY DEF TypeOK, Call
<1>2. (IsFiniteSet(held) /\ CountExact /\ NeverAbovePeak)'
  BY DEF CountExact, NeverAbovePeak
<1>3. Checked' /\ Seen'
  BY DEF Checked, Seen, TypeOK, Call
<1>4. QED
  BY <1>1, <1>2, <1>3

\* A check that passes has compared with the present limit, which the window
\* holds.
LEMMA CheckIInv ==
    ASSUME IInv, NEW w \in Workers, Check(w)
    PROVE  IInv'
<1> USE BudgetAssumption DEF IInv, Check
<1>0. call[w].current \in Nat /\ call[w] \in Call /\ max \in Nat /\ call[w].at = "check"
  BY DEF TypeOK, Call
<1>1. (IsFiniteSet(held) /\ CountExact /\ NeverAbovePeak)'
  BY DEF CountExact, NeverAbovePeak
<1>2. CASE call[w].current >= max
  <2>1. call' = [call EXCEPT ![w] = Outside] /\ window' = [window EXCEPT ![w] = NoWindow]
    BY <1>2
  <2>2. TypeOK'
    BY <2>1 DEF TypeOK, Call, Outside, NoWindow
  <2>3. Checked' /\ Seen'
    BY <2>1 DEF Checked, Seen, TypeOK, Outside, NoWindow
  <2>4. QED
    BY <1>1, <2>2, <2>3
<1>3. CASE ~(call[w].current >= max)
  <2>1. call' = [call EXCEPT ![w] = [call[w] EXCEPT !.at = "cas"]] /\ window' = window
    BY <1>3
  <2>2. [call[w] EXCEPT !.at = "cas"] \in Call
        /\ [call[w] EXCEPT !.at = "cas"].current = call[w].current
        /\ [call[w] EXCEPT !.at = "cas"].at = "cas"
    BY <1>0 DEF Call
  <2>3. TypeOK'
    BY <2>1, <2>2 DEF TypeOK
  <2>4. Seen' /\ max \in window[w].limits
    BY <1>0, <2>1, <2>2 DEF Seen, TypeOK
  <2>5. Checked'
    BY <1>0, <1>3, <2>1, <2>2, <2>4 DEF Checked, TypeOK
  <2>6. QED
    BY <1>1, <2>3, <2>4, <2>5
<1>4. QED
  BY <1>2, <1>3

\* A failed compare-and-swap re-reads the counter, which the window holds.
LEMMA CasFailsIInv ==
    ASSUME IInv, NEW w \in Workers, CasFails(w)
    PROVE  IInv'
<1> USE BudgetAssumption DEF IInv, CasFails
<1>1. TypeOK'
  BY DEF TypeOK, Call
<1>2. (IsFiniteSet(held) /\ CountExact /\ NeverAbovePeak)'
  BY DEF CountExact, NeverAbovePeak
<1>3. Checked' /\ Seen'
  BY DEF Checked, Seen, TypeOK, Call
<1>4. QED
  BY <1>1, <1>2, <1>3

\* A successful compare-and-swap: the counter was still "current", which is
\* below a limit the call has seen, which is at most the peak.
LEMMA CasSucceedsIInv ==
    ASSUME IInv, NEW w \in Workers, NEW s \in Slots, CasSucceeds(w, s)
    PROVE  IInv'
<1> USE BudgetAssumption DEF IInv, CasSucceeds
<1>1. in_use \in Nat /\ in_use' = in_use + 1 /\ in_use' \in Nat /\ max \in Limits
  BY DEF TypeOK
<1>2. window' = [Observe(in_use', max) EXCEPT ![w] = NoWindow]
      /\ call' = [call EXCEPT ![w] = Outside]
  OBVIOUS
<1>3. TypeOK'
  <2>1. window' \in [Workers -> [used : SUBSET Nat, limits : SUBSET Limits]]
    BY <1>1, <1>2, ObserveType DEF NoWindow
  <2>2. call' \in [Workers -> Call]
    BY <1>2 DEF TypeOK, Outside, Call
  <2>3. QED
    BY <1>1, <2>1, <2>2 DEF TypeOK
<1>4. (IsFiniteSet(held) /\ CountExact)'
  BY <1>1, FS_AddElement, Zenon DEF CountExact
<1>5. NeverAbovePeak'
  <2>1. PICK limit \in window[w].limits : call[w].current < limit
    BY DEF Checked
  <2>2. limit \in Nat /\ limit <= peak /\ peak \in Nat
    BY <2>1 DEF Checked, TypeOK
  <2>3. QED
    BY <1>1, <2>1, <2>2 DEF NeverAbovePeak
<1>6. ASSUME NEW v \in Workers
      PROVE  /\ \A limit \in window'[v].limits : limit <= peak
             /\ call'[v].at = "cas" =>
                   \E limit \in window'[v].limits : call'[v].current < limit
             /\ call'[v].at # "idle" => /\ call'[v].current \in window'[v].used
                                        /\ in_use' \in window'[v].used
                                        /\ max \in window'[v].limits
  <2>1. CASE v = w
    <3>1. call'[v] = Outside /\ window'[v] = NoWindow
      BY <1>1, <1>2, <2>1, ObserveType DEF TypeOK
    <3>2. QED
      BY <3>1 DEF Outside, NoWindow
  <2>2. CASE v # w
    <3>1. call'[v] = call[v] /\ window'[v] = Observe(in_use', max)[v]
      BY <1>1, <1>2, <2>2, ObserveType DEF TypeOK
    <3>2. peak \in Nat /\ peak <= peak /\ max <= peak
      BY DEF TypeOK, Checked
    <3>3. TypeOK /\ Checked /\ Seen
      OBVIOUS
    <3> HIDE DEF IInv, CasSucceeds
    <3> DEFINE o == Observe(in_use', max)[v]
    <3>4. /\ \A l \in o.limits : l <= peak
          /\ call[v].at = "cas" => \E l \in o.limits : call[v].current < l
          /\ call[v].at # "idle" => /\ call[v].current \in o.used
                                    /\ in_use' \in o.used
                                    /\ max \in o.limits
      BY <1>1, <3>2, <3>3, ObserveKeeps
    <3> HIDE DEF o
    <3>5. window'[v] = o
      BY <3>1 DEF o
    <3>6. QED
      BY <3>1, <3>4, <3>5
  <2>3. QED
    BY <2>1, <2>2
<1>7. Checked' /\ Seen'
  BY <1>6 DEF Checked, Seen
<1>8. QED
  BY <1>3, <1>4, <1>5, <1>7

\* Destroying a table entry gives back exactly the slot it held.
LEMMA ReleaseIInv ==
    ASSUME IInv, NEW w \in Workers, NEW s \in Slots, Release(w, s)
    PROVE  IInv'
<1> USE BudgetAssumption DEF IInv, Release
<1>1. /\ IsFiniteSet(held')
      /\ Cardinality(held') = Cardinality(held) - 1
      /\ Cardinality(held') \in Nat
  BY FS_RemoveElement, FS_CardinalityType
<1>2. in_use \in Nat /\ in_use' = in_use - 1 /\ in_use' \in Nat /\ max \in Limits
  BY <1>1 DEF TypeOK, CountExact
<1>3. window' = Observe(in_use', max) /\ call' = call /\ peak' = peak /\ max' = max
  OBVIOUS
<1>4. window' \in [Workers -> [used : SUBSET Nat, limits : SUBSET Limits]]
  BY <1>2, <1>3, ObserveType
<1>5. TypeOK' /\ CountExact' /\ NeverAbovePeak'
  BY <1>1, <1>2, <1>3, <1>4 DEF TypeOK, CountExact, NeverAbovePeak
<1>6. peak \in Nat /\ peak <= peak /\ max <= peak
  BY DEF TypeOK, Checked
<1>7. ASSUME NEW v \in Workers
      PROVE  /\ \A l \in window'[v].limits : l <= peak
             /\ call[v].at = "cas" => \E l \in window'[v].limits : call[v].current < l
             /\ call[v].at # "idle" => /\ call[v].current \in window'[v].used
                                       /\ in_use' \in window'[v].used
                                       /\ max \in window'[v].limits
  <2>1. TypeOK /\ Checked /\ Seen
    OBVIOUS
  <2> HIDE DEF IInv, Release
  <2>2. QED
    BY <1>2, <1>3, <1>6, <2>1, ObserveKeeps, Zenon
<1>8. Checked' /\ Seen'
  <2> HIDE DEF IInv, Release
  <2>1. QED
    BY <1>3, <1>6, <1>7 DEF Checked, Seen
<1>9. QED
  BY <1>1, <1>5, <1>8

\* A reload moves the limit; the peak follows it upwards only.
LEMMA SetLimitIInv ==
    ASSUME IInv, NEW w \in Workers, NEW limit \in Limits, SetLimit(w, limit)
    PROVE  IInv'
<1> USE BudgetAssumption DEF IInv, SetLimit
<1>1. peak \in Nat /\ peak' \in Nat /\ peak <= peak' /\ limit <= peak' /\ peak' \in Limits
  BY DEF TypeOK
<1>2. /\ window' = Observe(in_use, limit) /\ call' = call /\ in_use' = in_use
      /\ held' = held /\ max' = limit /\ in_use \in Nat
  BY DEF TypeOK
<1>3. window' \in [Workers -> [used : SUBSET Nat, limits : SUBSET Limits]]
  BY <1>2, ObserveType
<1>4. (TypeOK /\ IsFiniteSet(held) /\ CountExact /\ NeverAbovePeak)'
  BY <1>1, <1>2, <1>3 DEF TypeOK, CountExact, NeverAbovePeak
<1>5. ASSUME NEW v \in Workers
      PROVE  /\ \A l \in window'[v].limits : l <= peak'
             /\ call[v].at = "cas" => \E l \in window'[v].limits : call[v].current < l
             /\ call[v].at # "idle" => /\ call[v].current \in window'[v].used
                                       /\ in_use' \in window'[v].used
                                       /\ max' \in window'[v].limits
  <2>1. TypeOK /\ Checked /\ Seen
    OBVIOUS
  <2> HIDE DEF IInv, SetLimit
  <2>2. QED
    BY <1>1, <1>2, <2>1, ObserveKeeps
<1>6. Checked' /\ Seen'
  <2> HIDE DEF IInv, SetLimit
  <2>1. QED
    BY <1>1, <1>2, <1>5 DEF Checked, Seen
<1>7. QED
  BY <1>4, <1>6

\* Every step preserves the invariant, one case per atomic operation.
LEMMA NextIInv == IInv /\ [Next]_vars => IInv'
<1> SUFFICES ASSUME IInv, [Next]_vars PROVE IInv'
  OBVIOUS
<1>1. CASE Next
  BY <1>1, LoadIInv, CheckIInv, CasFailsIInv, CasSucceedsIInv, ReleaseIInv, SetLimitIInv DEF Next
<1>2. CASE UNCHANGED vars
  BY <1>2 DEF vars, IInv, TypeOK, CountExact, NeverAbovePeak, Checked, Seen
<1>3. QED
  BY <1>1, <1>2

\* The inductive invariant holds in every reachable state.
THEOREM Invariance == Spec => []IInv
BY InitIInv, NextIInv, PTL DEF Spec

\* Every variable of the budget stays well typed; in particular the unsigned
\* counter never wraps.
THEOREM TypeCorrect == Spec => []TypeOK
BY Invariance, PTL DEF IInv

\* The counter of the budget is the number of live tickets.
THEOREM ExactCount == Spec => []CountExact
BY Invariance, PTL DEF IInv

\* No interleaving of try_acquire, release and set_limit oversubscribes the
\* highest limit that was in force.
THEOREM Ceiling == Spec => []NeverAbovePeak
BY Invariance, PTL DEF IInv

\* Only a successful compare-and-swap raises the counter, and its call has seen
\* a limit above it.
LEMMA NextAdmit == IInv /\ [Next]_vars => [AdmitStep]_vars
<1> SUFFICES ASSUME IInv, Next, in_use' > in_use
             PROVE  \E w \in Workers :
                       /\ call[w].at = "cas" /\ call'[w].at = "idle"
                       /\ \E limit \in window[w].limits : in_use < limit
  BY DEF AdmitStep
<1>1. in_use \in Nat
  BY DEF IInv, TypeOK
<1>2. PICK w \in Workers, s \in Slots : CasSucceeds(w, s)
  <2>1. PICK w \in Workers :
           \/ Load(w) \/ Check(w) \/ CasFails(w)
           \/ \E s \in Slots : CasSucceeds(w, s) \/ Release(w, s)
           \/ \E limit \in Limits : SetLimit(w, limit)
    BY DEF Next
  <2>2. ~(Load(w) \/ Check(w) \/ CasFails(w))
    BY <1>1 DEF Load, Check, CasFails
  <2>3. ~(\E limit \in Limits : SetLimit(w, limit))
    BY <1>1 DEF SetLimit
  <2>4. ~(\E s \in Slots : Release(w, s))
    <3>1. ASSUME NEW s \in Slots, Release(w, s) PROVE in_use' = in_use - 1
      BY <3>1 DEF Release
    <3>2. ~(in_use' = in_use - 1)
      BY <1>1
    <3>3. QED
      BY <3>1, <3>2
  <2>5. QED
    BY <2>1, <2>2, <2>3, <2>4
<1>3. call[w].at = "cas" /\ call'[w].at = "idle" /\ in_use = call[w].current
  BY <1>2 DEF CasSucceeds, Outside, IInv, TypeOK
<1>4. \E limit \in window[w].limits : in_use < limit
  BY <1>3 DEF IInv, Checked
<1>5. QED
  BY <1>3, <1>4

\* A slot is handed out only below a limit that was in force during the call.
THEOREM AdmitSafety == Spec => AdmitJustified
BY Invariance, NextAdmit, PTL DEF Spec, AdmitJustified

\* Only a check refuses, and it compares values its call has seen.
LEMMA NextShed == IInv /\ [Next]_vars => [ShedStep]_vars
<1> SUFFICES ASSUME IInv, Next, NEW w \in Workers, call[w].at = "check", call'[w].at = "idle"
             PROVE  \E used \in window[w].used, limit \in window[w].limits : used >= limit
  BY DEF ShedStep
<1>1. call \in [Workers -> Call]
  BY DEF IInv, TypeOK
<1>2. Check(w)
  BY <1>1, Zenon DEF Next, Load, Check, CasFails, CasSucceeds, Release, SetLimit
<1>3. call[w].current >= max
  BY <1>1, <1>2 DEF Check, Call
<1>4. call[w].current \in window[w].used /\ max \in window[w].limits
  BY DEF IInv, Seen
<1>5. QED
  BY <1>3, <1>4

\* A connection is shed only if usage and limit, as seen by the call, leave no
\* room.
THEOREM ShedSafety == Spec => ShedJustified
BY Invariance, NextShed, PTL DEF Spec, ShedJustified
=============================================================================
