-------------------------- MODULE ConnectionBudget --------------------------
(***************************************************************************)
(* The process-wide connection budget: ConnectionBudget::try_acquire (a    *)
(* load, then check-and-CAS rounds), the RAII Ticket that gives the slot   *)
(* back, and set_limit, called by every worker that applies a reload.      *)
(* Each atomic operation is a step; workers interleave between them.  The  *)
(* atomics are read in their modification order (no stale relaxed loads).  *)
(***************************************************************************)
EXTENDS Integers, FiniteSets

CONSTANTS
    Workers,     \* worker threads, each with its own accept loop
    Slots,       \* connection table entries a worker can have
    Limits,      \* values max_connections takes in the config file over time
    NoCall       \* the worker is not inside try_acquire

ASSUME BudgetAssumption ==
    /\ Limits \subseteq Nat
    /\ Limits # {}
    /\ NoCall \notin Nat

VARIABLES
    in_use,     \* in_use_
    max,        \* max_
    call,       \* where each worker is in try_acquire
    held,       \* the live tickets, by the worker and table entry that own them
    peak,       \* history: the highest limit in force so far
    window      \* history: in_use and max values in force since each call began

vars == <<in_use, max, call, held, peak, window>>

\* "current" is the local variable of try_acquire.
Call == [at : {"idle"}, current : {NoCall}] \cup [at : {"check", "cas"}, current : Nat]

Outside == [at |-> "idle", current |-> NoCall]

NoWindow == [used |-> {}, limits |-> {}]

TypeOK ==
    /\ in_use \in Nat
    /\ max \in Limits
    /\ call \in [Workers -> Call]
    /\ held \subseteq Workers \X Slots
    /\ peak \in Limits
    /\ window \in [Workers -> [used : SUBSET Nat, limits : SUBSET Limits]]

Init ==
    /\ in_use = 0
    /\ max \in Limits
    /\ call = [w \in Workers |-> Outside]
    /\ held = {}
    /\ peak = max
    /\ window = [w \in Workers |-> NoWindow]

\* What the calls in progress have seen go by, once in_use or max has changed.
Observe(used, limit) ==
    [w \in Workers |->
        IF call[w].at = "idle" THEN window[w]
        ELSE [used |-> window[w].used \cup {used}, limits |-> window[w].limits \cup {limit}]]

-----------------------------------------------------------------------------
\* The first load of in_use_.
Load(w) ==
    /\ call[w].at = "idle"
    /\ call' = [call EXCEPT ![w] = [at |-> "check", current |-> in_use]]
    /\ window' = [window EXCEPT ![w] = [used |-> {in_use}, limits |-> {max}]]
    /\ UNCHANGED <<in_use, max, held, peak>>

\* Mutant: the comparison lets one connection too many through.
CheckOffByOne(w) ==
    /\ call[w].at = "check"
    /\ IF call[w].current > max
       THEN /\ call' = [call EXCEPT ![w] = Outside]
            /\ window' = [window EXCEPT ![w] = NoWindow]
       ELSE /\ call' = [call EXCEPT ![w].at = "cas"]
            /\ UNCHANGED window
    /\ UNCHANGED <<in_use, max, held, peak>>

\* Mutant: the comparison refuses the last free slot.
CheckTooStrict(w) ==
    /\ call[w].at = "check"
    /\ IF call[w].current + 1 >= max
       THEN /\ call' = [call EXCEPT ![w] = Outside]
            /\ window' = [window EXCEPT ![w] = NoWindow]
       ELSE /\ call' = [call EXCEPT ![w].at = "cas"]
            /\ UNCHANGED window
    /\ UNCHANGED <<in_use, max, held, peak>>

\* The load of max_ and the comparison: refuse (std::nullopt) or go on.
Check(w) ==
    /\ call[w].at = "check"
    /\ IF call[w].current >= max
       THEN /\ call' = [call EXCEPT ![w] = Outside]
            /\ window' = [window EXCEPT ![w] = NoWindow]
       ELSE /\ call' = [call EXCEPT ![w].at = "cas"]
            /\ UNCHANGED window
    /\ UNCHANGED <<in_use, max, held, peak>>

\* Mutant: a plain store instead of the compare-and-swap.
StoreSucceeds(w, s) ==
    /\ call[w].at = "cas"
    /\ <<w, s>> \notin held
    /\ in_use' = call[w].current + 1
    /\ held' = held \cup {<<w, s>>}
    /\ call' = [call EXCEPT ![w] = Outside]
    /\ window' = [Observe(in_use', max) EXCEPT ![w] = NoWindow]
    /\ UNCHANGED <<max, peak>>

\* compare_exchange_weak succeeds; handle_accept moves the ticket into the
\* connection table entry s.
CasSucceeds(w, s) ==
    /\ call[w].at = "cas"
    /\ in_use = call[w].current
    /\ <<w, s>> \notin held
    /\ in_use' = call[w].current + 1
    /\ held' = held \cup {<<w, s>>}
    /\ call' = [call EXCEPT ![w] = Outside]
    /\ window' = [Observe(in_use', max) EXCEPT ![w] = NoWindow]
    /\ UNCHANGED <<max, peak>>

\* compare_exchange_weak fails, possibly spuriously, and refreshes "current".
CasFails(w) ==
    /\ call[w].at = "cas"
    /\ call' = [call EXCEPT ![w] = [at |-> "check", current |-> in_use]]
    /\ UNCHANGED <<in_use, max, held, peak, window>>

\* The table entry is destroyed or overwritten: ~Ticket calls release().
Release(w, s) ==
    /\ call[w].at = "idle"
    /\ <<w, s>> \in held
    /\ in_use' = in_use - 1
    /\ held' = held \ {<<w, s>>}
    /\ window' = Observe(in_use', max)
    /\ UNCHANGED <<max, call, peak>>

\* check_timeout applied a reload; nothing is evicted.
SetLimit(w, limit) ==
    /\ call[w].at = "idle"
    /\ max' = limit
    /\ peak' = IF limit > peak THEN limit ELSE peak
    /\ window' = Observe(in_use, limit)
    /\ UNCHANGED <<in_use, call, held>>

Next ==
    \E w \in Workers :
        \/ Load(w)
        \/ Check(w)
        \/ CasFails(w)
        \/ \E s \in Slots : CasSucceeds(w, s) \/ Release(w, s)
        \/ \E limit \in Limits : SetLimit(w, limit)

Spec == Init /\ [][Next]_vars

-----------------------------------------------------------------------------
(* Properties.                                                             *)

\* The counter is exactly the number of live tickets, so no interleaving of
\* acquires and releases loses a slot, invents one, or makes the unsigned
\* counter wrap below zero.
CountExact == in_use = Cardinality(held)

\* However acquires race with each other and with set_limit, there are never
\* more tickets than the highest limit that was ever in force; with a constant
\* max_connections this is the configured ceiling itself.
NeverAbovePeak == in_use <= peak

\* A slot is handed out only if usage, at that very moment, is below a limit
\* that was in force at some moment of the call.
AdmitStep ==
    in_use' > in_use =>
        \E w \in Workers :
            /\ call[w].at = "cas" /\ call'[w].at = "idle"
            /\ \E limit \in window[w].limits : in_use < limit

\* try_acquire never admits without such a limit.
AdmitJustified == [][AdmitStep]_vars

\* A connection is shed only if some usage and some limit, each in force at some
\* moment of the call, leave no room.
ShedStep ==
    \A w \in Workers :
        call[w].at = "check" /\ call'[w].at = "idle" =>
            \E used \in window[w].used, limit \in window[w].limits : used >= limit

\* try_acquire never refuses without such a pair.
ShedJustified == [][ShedStep]_vars
=============================================================================
