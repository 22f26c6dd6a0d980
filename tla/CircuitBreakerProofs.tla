------------------------- MODULE CircuitBreakerProofs -------------------------
(***************************************************************************)
(* The safety of one circuit breaker, for any set of callers, any          *)
(* configuration and any ShouldTrip, and that it keeps the promise of      *)
(* AbstractBreaker.                                                        *)
(***************************************************************************)
EXTENDS BreakerRefinement, FiniteSetTheorems, TLAPS

\* NewCircuitBreaker puts every number of the configuration in force above zero.
LEMMA EffectiveConfig ==
    /\ FailureThreshold \in Nat \ {0}
    /\ SuccessThreshold \in Nat \ {0}
    /\ Timeout \in Nat \ {0}
    /\ HalfOpenMaxRequests \in Nat \ {0}
    /\ WindowSize \in Nat \ {0}
BY ConfigAssumption
   DEF FailureThreshold, SuccessThreshold, Timeout, HalfOpenMaxRequests, WindowSize,
       OrDefault

-------------------------------------------------------------------------------
(* The sliding window. *)

\* A set of failure records with slots up to n and ages up to WindowSize.
Window(fs, n) ==
    /\ DOMAIN fs \subseteq 1 .. n
    /\ fs \in [DOMAIN fs -> 0 .. WindowSize]

\* A window is finite, and holds no more records than it has slots.
LEMMA WindowFinite ==
    ASSUME NEW n \in Nat, NEW fs, Window(fs, n)
    PROVE  /\ IsFiniteSet(DOMAIN fs)
           /\ Cardinality(DOMAIN fs) \in 0 .. n
<1>1. IsFiniteSet(1 .. n) /\ Cardinality(1 .. n) = n
  BY FS_Interval
<1>2. /\ IsFiniteSet(DOMAIN fs)
      /\ Cardinality(DOMAIN fs) <= n
  BY <1>1, FS_Subset DEF Window
<1>. QED
  BY <1>2, FS_CardinalityType

\* Cleaning a window leaves a window, with no slot that was not in use.
LEMMA CleanupWindow ==
    ASSUME NEW n \in Nat, NEW fs, Window(fs, n)
    PROVE  /\ Window(cleanupOldFailures(fs), n)
           /\ DOMAIN cleanupOldFailures(fs) \subseteq DOMAIN fs
           /\ Cardinality(DOMAIN cleanupOldFailures(fs)) <= Cardinality(DOMAIN fs)
<1>1. DOMAIN cleanupOldFailures(fs) \subseteq DOMAIN fs
  BY DEF cleanupOldFailures
<1>2. Window(cleanupOldFailures(fs), n)
  BY DEF cleanupOldFailures, Window
<1>3. Cardinality(DOMAIN cleanupOldFailures(fs)) <= Cardinality(DOMAIN fs)
  BY <1>1, WindowFinite, FS_Subset
<1>. QED
  BY <1>1, <1>2, <1>3

\* While a window is not full, the slot for the next record is a free one.
LEMMA NewSlotIsFree ==
    ASSUME NEW n \in Nat, NEW fs, Window(fs, n), Cardinality(DOMAIN fs) < n
    PROVE  NewSlot(fs) \in (1 .. n) \ DOMAIN fs
<1>. DEFINE k == Cardinality(DOMAIN fs)
<1>1. IsFiniteSet(DOMAIN fs) /\ k \in Nat
  BY WindowFinite
<1>2. Cardinality(1 .. k + 1) = k + 1
  BY <1>1, FS_Interval
<1>3. ~ (1 .. k + 1 \subseteq DOMAIN fs)
  <2>. SUFFICES ASSUME 1 .. k + 1 \subseteq DOMAIN fs PROVE FALSE
    OBVIOUS
  <2>1. Cardinality(1 .. k + 1) <= k
    BY <1>1, FS_Subset
  <2>. QED
    BY <1>1, <1>2, <2>1
<1>4. PICK i \in 1 .. k + 1 : i \notin DOMAIN fs
  BY <1>3
<1>5. NewSlot(fs) \in (1 .. k + 1) \ DOMAIN fs
  BY <1>4 DEF NewSlot
<1>. QED
  BY <1>1, <1>5

\* Recording a failure in a window that is not full leaves a window.
LEMMA RecordWindow ==
    ASSUME NEW n \in Nat, NEW fs, Window(fs, n), Cardinality(DOMAIN fs) < n
    PROVE  Window(recordFailure(fs), n)
<1>. DEFINE more == [i \in DOMAIN fs \cup {NewSlot(fs)} |->
                        IF i \in DOMAIN fs THEN fs[i] ELSE 0]
<1>1. NewSlot(fs) \in 1 .. n
  BY NewSlotIsFree
<1>2. Window(more, n)
  BY <1>1, EffectiveConfig DEF Window
<1>. QED
  BY <1>2, CleanupWindow DEF recordFailure

-------------------------------------------------------------------------------
(* The inductive invariant. *)

\* The counter of half-open requests is in range only because of what it counts,
\* and what it counts is a cardinality, so the set of probes has to be finite.
IInv ==
    /\ TypeOK
    /\ ClosedBelowThreshold
    /\ ProbeAccounting
    /\ IsFiniteSet(probes)

LEMMA InitIInv == Init => IInv
<1>. SUFFICES ASSUME Init PROVE IInv
  OBVIOUS
<1>1. DOMAIN NoFailures = {} /\ NoFailures \in [DOMAIN NoFailures -> 0 .. WindowSize]
  BY DEF NoFailures
<1>2. Cardinality({}) = 0 /\ IsFiniteSet({})
  BY FS_EmptySet
<1>3. TypeOK
  BY <1>1, EffectiveConfig DEF Init, TypeOK
<1>4. ClosedBelowThreshold
  BY <1>1, <1>2, EffectiveConfig DEF Init, ClosedBelowThreshold
<1>5. ProbeAccounting
  BY DEF Init, ProbeAccounting
<1>. QED
  BY <1>2, <1>3, <1>4, <1>5 DEF Init, IInv

\* A call that asks a breaker for permission.
LEMMA AllowRequestIInv ==
    ASSUME IInv, NEW c \in Callers, allowRequest(c)
    PROVE  IInv'
<1>. USE EffectiveConfig DEF IInv, allowRequest, Goto
<1>0. /\ c \notin probes
      /\ pc' \in [Callers -> {"idle", "inFlight", "blocked"}]
      /\ probes \subseteq {d \in Callers : pc'[d] = "inFlight"}
      /\ Window(failures, FailureThreshold)
  BY DEF TypeOK, Window, AllowClosed, AllowAfterTimeout, RejectOpen, AllowHalfOpen,
         RejectHalfOpen
<1>1. CASE AllowClosed(c)
  <2>1. /\ Window(failures', FailureThreshold)
        /\ Cardinality(DOMAIN failures') <= Cardinality(DOMAIN failures)
        /\ Cardinality(DOMAIN failures) \in Nat
        /\ Cardinality(DOMAIN failures') \in Nat
    BY <1>0, <1>1, CleanupWindow, WindowFinite DEF AllowClosed
  <2>2. TypeOK'
    BY <1>0, <1>1, <2>1 DEF AllowClosed, TypeOK, Window, history
  <2>3. ClosedBelowThreshold'
    BY <1>1, <2>1 DEF AllowClosed, ClosedBelowThreshold
  <2>4. ProbeAccounting' /\ IsFiniteSet(probes')
    BY <1>1 DEF AllowClosed, ProbeAccounting, history
  <2>. QED
    BY <2>2, <2>3, <2>4
<1>2. CASE AllowAfterTimeout(c)
  <2>1. /\ state' = "half-open" /\ stateAge' = 0 /\ failures' = failures
        /\ halfOpenRequests' = 0 /\ consecutiveSuccesses' = 0
        /\ probes' = {c} /\ strays' = 0 /\ leaked' = 0 /\ pc'[c] = "inFlight"
    BY <1>2 DEF AllowAfterTimeout, transitionToHalfOpen, enterState, TypeOK
  <2>2. Cardinality({c}) = 1 /\ IsFiniteSet({c})
    BY FS_Singleton
  <2>3. TypeOK'
    BY <1>0, <2>1 DEF TypeOK
  <2>4. ProbeAccounting' /\ ClosedBelowThreshold'
    BY <2>1, <2>2 DEF ProbeAccounting, ClosedBelowThreshold
  <2>. QED
    BY <2>1, <2>2, <2>3, <2>4
<1>3. CASE RejectOpen(c) \/ RejectHalfOpen(c)
  <2>1. UNCHANGED <<breaker, history>>
    BY <1>3 DEF RejectOpen, RejectHalfOpen
  <2>2. TypeOK'
    BY <1>0, <2>1 DEF TypeOK, breaker, history
  <2>3. ClosedBelowThreshold' /\ ProbeAccounting' /\ IsFiniteSet(probes')
    BY <2>1 DEF ClosedBelowThreshold, ProbeAccounting, breaker, history
  <2>. QED
    BY <2>2, <2>3
<1>4. CASE AllowHalfOpen(c)
  <2>1. /\ IsFiniteSet(probes')
        /\ Cardinality(probes) \in Nat
        /\ Cardinality(probes') = Cardinality(probes) + 1
    BY <1>0, <1>4, FS_AddElement, FS_CardinalityType DEF AllowHalfOpen
  <2>2. TypeOK'
    BY <1>0, <1>4 DEF AllowHalfOpen, TypeOK
  <2>3. ProbeAccounting' /\ ClosedBelowThreshold'
    BY <1>4, <2>1 DEF AllowHalfOpen, ProbeAccounting, ClosedBelowThreshold, TypeOK
  <2>. QED
    BY <2>1, <2>2, <2>3
<1>. QED
  BY <1>1, <1>2, <1>3, <1>4

\* A call that reports its result.
LEMMA RecordResultIInv ==
    ASSUME IInv, NEW c \in Callers, NEW r \in Results, recordResult(c, r)
    PROVE  IInv'
<1>. USE EffectiveConfig DEF IInv, recordResult, Goto
<1>0. /\ pc' \in [Callers -> {"idle", "inFlight", "blocked"}]
      /\ probes \ {c} \subseteq {d \in Callers : pc'[d] = "inFlight"}
      /\ Window(failures, FailureThreshold)
      /\ state # "half-open" => probes = {}
  BY DEF TypeOK, Window, ProbeAccounting, ClosedFailure, ClosedSuccess, HalfOpenFailure,
         HalfOpenSuccess, OpenResult
<1>1. CASE ClosedFailure(c, r)
  <2>1. Window(failures', FailureThreshold)
    BY <1>0, <1>1, RecordWindow DEF ClosedFailure, ClosedBelowThreshold
  <2>2. Cardinality(DOMAIN failures') \in Nat
    BY <2>1, WindowFinite
  <2>3. CASE shouldOpen(failures')
    <3>1. /\ state' = "open" /\ stateAge' = 0 /\ halfOpenRequests' = 0
          /\ consecutiveSuccesses' = 0 /\ strays' = 0 /\ leaked' = 0 /\ probes' = {}
      BY <1>1, <2>3 DEF ClosedFailure, transitionToOpen, enterState
    <3>2. TypeOK'
      BY <1>0, <2>1, <3>1 DEF TypeOK, Window
    <3>. QED
      BY <3>1, <3>2, FS_EmptySet DEF ClosedBelowThreshold, ProbeAccounting
  <2>4. CASE ~ shouldOpen(failures')
    <3>1. UNCHANGED <<state, stateAge, halfOpenRequests, consecutiveSuccesses, history>>
      BY <1>1, <2>4 DEF ClosedFailure
    <3>2. TypeOK'
      BY <1>0, <1>1, <2>1, <3>1 DEF TypeOK, Window, history, ClosedFailure
    <3>3. ClosedBelowThreshold'
      BY <2>2, <2>4 DEF ClosedBelowThreshold, shouldOpen
    <3>4. ProbeAccounting' /\ IsFiniteSet(probes')
      BY <1>1, <3>1 DEF ProbeAccounting, history, ClosedFailure
    <3>. QED
      BY <3>2, <3>3, <3>4
  <2>. QED
    BY <2>3, <2>4
<1>2. CASE ClosedSuccess(c, r)
  <2>1. /\ Window(failures', FailureThreshold)
        /\ Cardinality(DOMAIN failures') <= Cardinality(DOMAIN failures)
        /\ Cardinality(DOMAIN failures) \in Nat
        /\ Cardinality(DOMAIN failures') \in Nat
    BY <1>0, <1>2, CleanupWindow, WindowFinite DEF ClosedSuccess
  <2>2. TypeOK'
    BY <1>0, <1>2, <2>1 DEF ClosedSuccess, TypeOK, Window, history
  <2>3. ClosedBelowThreshold'
    BY <1>2, <2>1 DEF ClosedSuccess, ClosedBelowThreshold
  <2>4. ProbeAccounting' /\ IsFiniteSet(probes')
    BY <1>2 DEF ClosedSuccess, ProbeAccounting, history
  <2>. QED
    BY <2>2, <2>3, <2>4
<1>3. CASE HalfOpenFailure(c, r)
  <2>1. /\ state' = "open" /\ stateAge' = 0 /\ halfOpenRequests' = 0 /\ failures' = failures
        /\ consecutiveSuccesses' = 0 /\ strays' = 0 /\ leaked' = 0 /\ probes' = {}
    BY <1>3 DEF HalfOpenFailure, transitionToOpen, enterState
  <2>2. TypeOK'
    BY <1>0, <2>1 DEF TypeOK
  <2>. QED
    BY <2>1, <2>2, FS_EmptySet DEF ClosedBelowThreshold, ProbeAccounting
<1>4. CASE HalfOpenSuccess(c, r)
  <2>1. CASE consecutiveSuccesses + 1 >= SuccessThreshold
    <3>1. /\ state' = "closed" /\ stateAge' = 0 /\ halfOpenRequests' = 0
          /\ failures' = NoFailures /\ DOMAIN failures' = {}
          /\ failures' \in [DOMAIN failures' -> 0 .. WindowSize]
          /\ consecutiveSuccesses' = 0 /\ strays' = 0 /\ leaked' = 0 /\ probes' = {}
      BY <1>4, <2>1 DEF HalfOpenSuccess, transitionToClosed, enterState, NoFailures
    <3>2. TypeOK'
      BY <1>0, <3>1 DEF TypeOK
    <3>. QED
      BY <3>1, <3>2, FS_EmptySet DEF ClosedBelowThreshold, ProbeAccounting
  <2>2. CASE ~ (consecutiveSuccesses + 1 >= SuccessThreshold)
    <3>1. /\ state = "half-open"
          /\ consecutiveSuccesses' = consecutiveSuccesses + 1
          /\ halfOpenRequests' = halfOpenRequests - 1
          /\ probes' = probes \ {c}
          /\ strays' = IF c \in probes THEN strays ELSE strays + 1
          /\ UNCHANGED <<state, stateAge, failures, leaked>>
      BY <1>4, <2>2 DEF HalfOpenSuccess
    <3>2. /\ IsFiniteSet(probes')
          /\ Cardinality(probes) \in Nat
          /\ Cardinality(probes') \in Nat
          /\ Cardinality(probes') =
                IF c \in probes THEN Cardinality(probes) - 1 ELSE Cardinality(probes)
      BY <3>1, FS_RemoveElement, FS_CardinalityType
    <3>3. strays' \in Nat /\ consecutiveSuccesses' \in 0 .. SuccessThreshold - 1
      BY <2>2, <3>1 DEF TypeOK
    <3>4. ProbeAccounting' /\ ClosedBelowThreshold'
      BY <3>1, <3>2 DEF ProbeAccounting, ClosedBelowThreshold, TypeOK
    <3>5. halfOpenRequests' \in -SuccessThreshold .. HalfOpenMaxRequests
      BY <3>1, <3>2, <3>3, <3>4 DEF ProbeAccounting, TypeOK
    <3>6. TypeOK'
      BY <1>0, <3>1, <3>3, <3>5 DEF TypeOK
    <3>. QED
      BY <3>2, <3>4, <3>6
  <2>. QED
    BY <2>1, <2>2
<1>5. CASE OpenResult(c, r)
  <2>1. UNCHANGED <<breaker, history>> /\ probes = {}
    BY <1>0, <1>5 DEF OpenResult
  <2>2. TypeOK'
    BY <1>0, <2>1 DEF TypeOK, breaker, history
  <2>3. ClosedBelowThreshold' /\ ProbeAccounting' /\ IsFiniteSet(probes')
    BY <2>1 DEF ClosedBelowThreshold, ProbeAccounting, breaker, history
  <2>. QED
    BY <2>2, <2>3
<1>. QED
  BY <1>1, <1>2, <1>3, <1>4, <1>5

\* A call that panics: it stays counted, and no longer runs.
LEMMA PanicsIInv ==
    ASSUME IInv, NEW c \in Callers, panics(c)
    PROVE  IInv'
<1>. USE EffectiveConfig DEF IInv, panics, Goto
<1>1. /\ IsFiniteSet(probes')
      /\ Cardinality(probes) \in Nat
      /\ Cardinality(probes') =
            IF c \in probes THEN Cardinality(probes) - 1 ELSE Cardinality(probes)
  BY FS_RemoveElement, FS_CardinalityType
<1>2. TypeOK'
  BY DEF TypeOK, breaker
<1>3. ProbeAccounting' /\ ClosedBelowThreshold'
  BY <1>1 DEF ProbeAccounting, ClosedBelowThreshold, TypeOK, breaker
<1>. QED
  BY <1>1, <1>2, <1>3

\* Time passes: ages grow no further than their caps, and no record comes or goes.
LEMMA TickIInv ==
    ASSUME IInv, Tick
    PROVE  IInv'
<1>. USE EffectiveConfig DEF IInv, Tick, UpTo
<1>1. /\ DOMAIN failures' = DOMAIN failures
      /\ failures' \in [DOMAIN failures' -> 0 .. WindowSize]
  BY DEF TypeOK
<1>2. TypeOK'
  BY <1>1 DEF TypeOK, history
<1>3. ClosedBelowThreshold' /\ ProbeAccounting' /\ IsFiniteSet(probes')
  BY <1>1 DEF ClosedBelowThreshold, ProbeAccounting, history
<1>. QED
  BY <1>2, <1>3

LEMMA NextIInv == IInv /\ [Next]_vars => IInv'
<1>. SUFFICES ASSUME IInv, [Next]_vars PROVE IInv'
  OBVIOUS
<1>1. ASSUME NEW c \in Callers, allowRequest(c) PROVE IInv'
  BY <1>1, AllowRequestIInv
<1>2. ASSUME NEW c \in Callers, getState(c) PROVE IInv'
  <2>1. /\ UNCHANGED <<breaker, history>>
        /\ pc' \in [Callers -> {"idle", "inFlight", "blocked"}]
        /\ probes \subseteq {d \in Callers : pc'[d] = "inFlight"}
    BY <1>2 DEF getState, Goto, IInv, TypeOK
  <2>2. TypeOK'
    BY <2>1 DEF IInv, TypeOK, breaker, history
  <2>3. ClosedBelowThreshold' /\ ProbeAccounting' /\ IsFiniteSet(probes')
    BY <2>1 DEF IInv, ClosedBelowThreshold, ProbeAccounting, breaker, history
  <2>. QED
    BY <2>2, <2>3 DEF IInv
<1>3. ASSUME NEW c \in Callers, NEW r \in Results, recordResult(c, r) PROVE IInv'
  BY <1>3, RecordResultIInv
<1>4. CASE Tick
  BY <1>4, TickIInv
<1>5. ASSUME NEW c \in Callers, panics(c) PROVE IInv'
  BY <1>5, PanicsIInv
<1>6. CASE UNCHANGED vars
  BY <1>6 DEF vars, breaker, history, IInv, TypeOK, ClosedBelowThreshold, ProbeAccounting
<1>. QED
  BY <1>1, <1>2, <1>3, <1>4, <1>5, <1>6 DEF Next

LEMMA Invariance == Spec => []IInv
BY InitIInv, NextIInv, PTL DEF Spec

-------------------------------------------------------------------------------

\* Every variable of the breaker stays in its range, for any configuration.
THEOREM TypeCorrect == Spec => []TypeOK
<1>1. IInv => TypeOK
  BY DEF IInv
<1>. QED
  BY <1>1, Invariance, PTL

\* A closed breaker holds fewer failure records than it takes to open it:
\* recordResult never skips the transition, and closing forgets the old records.
THEOREM ClosedBelow == Spec => []ClosedBelowThreshold
<1>1. IInv => ClosedBelowThreshold
  BY DEF IInv
<1>. QED
  BY <1>1, Invariance, PTL

\* The half-open counter differs from the number of probes in flight by the call
\* that ended the cool-down and the successes of calls of earlier periods.
THEOREM ProbesAccounted == Spec => []ProbeAccounting
<1>1. IInv => ProbeAccounting
  BY DEF IInv
<1>. QED
  BY <1>1, Invariance, PTL

\* The probes of a half-open period never exceed HalfOpenMaxRequests by more than
\* SuccessThreshold, however many callers there are and whatever they left behind.
THEOREM ProbesStayBounded == Spec => []ProbesBounded
<1>1. IInv => ProbesBounded
  <2>. SUFFICES ASSUME IInv, state = "half-open"
       PROVE Cardinality(probes) <= HalfOpenMaxRequests + SuccessThreshold
    BY DEF ProbesBounded
  <2>1. Cardinality(probes) \in Nat
    BY FS_CardinalityType DEF IInv
  <2>. QED
    BY <2>1, EffectiveConfig DEF IInv, TypeOK, ProbeAccounting
<1>. QED
  BY <1>1, Invariance, PTL

\* Whatever finishes late, a half-open breaker is not left without a free slot and
\* without a probe, unless more than HalfOpenMaxRequests of its probes panicked.
THEOREM SlotsAreForProbes == Spec => []RefusesForProbes
<1>1. IInv => RefusesForProbes
  <2>. SUFFICES ASSUME IInv, state = "half-open", probes = {},
                       halfOpenRequests >= HalfOpenMaxRequests
       PROVE leaked > HalfOpenMaxRequests
    BY DEF RefusesForProbes
  <2>1. Cardinality(probes) = 0
    BY FS_EmptySet
  <2>2. halfOpenRequests = leaked - 1 - strays /\ strays \in Nat /\ leaked \in Nat
    BY <2>1 DEF IInv, TypeOK, ProbeAccounting
  <2>. QED
    BY <2>2, EffectiveConfig
<1>. QED
  BY <1>1, Invariance, PTL

-------------------------------------------------------------------------------
(* The refinement of AbstractBreaker: what the operators on the window do to the *)
(* failures that count, and then what each step of the breaker is one level up.  *)

\* A window that has been cleaned has nothing left to clean.
LEMMA CleanupIdempotent ==
    ASSUME NEW fs
    PROVE  cleanupOldFailures(cleanupOldFailures(fs)) = cleanupOldFailures(fs)
BY DEF cleanupOldFailures

\* A failure recorded in a window that is not full is one more record, of age 0, in
\* a slot of its own, after those that have not expired.
LEMMA RecordFailureAdds ==
    ASSUME NEW n \in Nat, NEW fs, Window(fs, n), Cardinality(DOMAIN fs) < n
    PROVE  LET kept == cleanupOldFailures(fs) IN
           \E i \in (1 .. n) \ DOMAIN kept :
                /\ recordFailure(fs) =
                        [j \in DOMAIN kept \cup {i} |-> IF j = i THEN 0 ELSE kept[j]]
                /\ Cardinality(DOMAIN recordFailure(fs)) = Cardinality(DOMAIN kept) + 1
<1>. DEFINE kept == cleanupOldFailures(fs)
            i    == NewSlot(fs)
            more == [j \in DOMAIN fs \cup {i} |-> IF j \in DOMAIN fs THEN fs[j] ELSE 0]
<1>1. i \in (1 .. n) \ DOMAIN fs /\ i \notin DOMAIN kept
  BY NewSlotIsFree, CleanupWindow
<1>2. DOMAIN cleanupOldFailures(more) = DOMAIN kept \cup {i}
  BY <1>1, EffectiveConfig DEF cleanupOldFailures
<1>3. cleanupOldFailures(more)
        = [j \in DOMAIN kept \cup {i} |-> IF j = i THEN 0 ELSE kept[j]]
  BY <1>1, <1>2 DEF cleanupOldFailures
<1>4. IsFiniteSet(DOMAIN kept)
  BY CleanupWindow, WindowFinite
<1>5. Cardinality(DOMAIN kept \cup {i}) = Cardinality(DOMAIN kept) + 1
  BY <1>1, <1>4, FS_AddElement
<1>. QED
  BY <1>1, <1>2, <1>3, <1>5 DEF recordFailure

\* When time passes, the failures that count grow older by one, and those that
\* become too old by it no longer count.
LEMMA TickExpires ==
    ASSUME NEW n \in Nat, NEW fs, Window(fs, n)
    PROVE  LET kept == cleanupOldFailures(fs) IN
           cleanupOldFailures([i \in DOMAIN fs |-> UpTo(WindowSize, fs[i])])
             = [i \in {j \in DOMAIN kept : kept[j] + 1 < WindowSize} |-> kept[i] + 1]
<1>. DEFINE kept  == cleanupOldFailures(fs)
            older == [i \in DOMAIN fs |-> UpTo(WindowSize, fs[i])]
<1>1. \A i \in DOMAIN fs : fs[i] \in 0 .. WindowSize
  BY DEF Window
<1>2. {i \in DOMAIN older : older[i] < WindowSize}
        = {j \in DOMAIN kept : kept[j] + 1 < WindowSize}
  BY <1>1, EffectiveConfig DEF UpTo, cleanupOldFailures
<1>3. \A i \in {j \in DOMAIN kept : kept[j] + 1 < WindowSize} : older[i] = kept[i] + 1
  BY <1>1, EffectiveConfig DEF UpTo, cleanupOldFailures
<1>. QED
  BY <1>2, <1>3 DEF cleanupOldFailures

\* AbstractBreaker counts its failures with the Cardinality of this module.
LEMMA SameCardinality == \A S : Promise!Cardinality(S) = Cardinality(S)
BY DEF Cardinality, Promise!Cardinality

LEMMA InitPromise == Init => Promise!Init
BY DEF Init, Promise!Init, openFor, recent, calls, GetStatsFailures, cleanupOldFailures,
       NoFailures, Promise!None

\* A call that is let through is admitted; one that is refused changes nothing that
\* was promised, and neither does the cleaning of the window.
LEMMA AllowRequestPromise ==
    ASSUME IInv, NEW c \in Callers, allowRequest(c)
    PROVE  Promise!Admit(c) \/ UNCHANGED Promise!vars
<1>0. c \notin calls /\ pc \in [Callers -> {"idle", "inFlight", "blocked"}]
  BY DEF allowRequest, calls, IInv, TypeOK
<1>1. CASE AllowClosed(c)
  <2>1. openFor' = openFor
    BY <1>1 DEF AllowClosed, openFor
  <2>2. recent' = recent
    BY <1>1, CleanupIdempotent DEF AllowClosed, recent, GetStatsFailures
  <2>3. calls' = calls \cup {c}
    BY <1>0, <1>1 DEF AllowClosed, Goto, calls
  <2>. QED
    BY <1>0, <1>1, <2>1, <2>2, <2>3 DEF AllowClosed, Promise!Admit
<1>2. CASE AllowAfterTimeout(c)
  <2>1. openFor' = 0 /\ recent' = Promise!None /\ state' = "half-open"
        /\ consecutiveSuccesses' = 0
    BY <1>2 DEF AllowAfterTimeout, transitionToHalfOpen, enterState, openFor, recent,
                NoFailures, Promise!None
  <2>2. calls' = calls \cup {c}
    BY <1>0, <1>2 DEF AllowAfterTimeout, Goto, calls
  <2>3. state = "open" /\ openFor >= Timeout
    BY <1>2 DEF AllowAfterTimeout, openFor
  <2>. QED
    BY <1>0, <2>1, <2>2, <2>3 DEF Promise!Admit, Promise!Become
<1>3. CASE AllowHalfOpen(c)
  <2>1. openFor' = openFor /\ recent' = recent
    BY <1>3 DEF AllowHalfOpen, openFor, recent
  <2>2. calls' = calls \cup {c}
    BY <1>0, <1>3 DEF AllowHalfOpen, Goto, calls
  <2>. QED
    BY <1>0, <1>3, <2>1, <2>2 DEF AllowHalfOpen, Promise!Admit
<1>4. CASE RejectOpen(c) \/ RejectHalfOpen(c)
  <2>1. UNCHANGED breaker /\ Goto(c, "blocked")
    BY <1>4 DEF RejectOpen, RejectHalfOpen
  <2>2. openFor' = openFor /\ recent' = recent
    BY <2>1 DEF breaker, openFor, recent, GetStatsFailures
  <2>3. calls' = calls
    BY <1>0, <2>1 DEF Goto, calls
  <2>. QED
    BY <2>1, <2>2, <2>3 DEF breaker, Promise!vars
<1>. QED
  BY <1>1, <1>2, <1>3, <1>4 DEF allowRequest

\* A result that comes back ends its call: a failure of a closed breaker counts with
\* those that lie in the window and with no others, and opens it when they are
\* FailureThreshold.
LEMMA RecordResultPromise ==
    ASSUME IInv, NEW c \in Callers, NEW r \in Results, recordResult(c, r)
    PROVE  Promise!Ends(c)
<1>. DEFINE kept == cleanupOldFailures(failures)
<1>0. c \in calls /\ calls' = calls \ {c}
  BY DEF recordResult, Goto, calls, IInv, TypeOK
<1>1. CASE ClosedFailure(c, r)
  <2>1. /\ Window(failures, FailureThreshold)
        /\ Cardinality(DOMAIN failures) < FailureThreshold
        /\ FailureThreshold \in Nat
    BY <1>1, EffectiveConfig DEF ClosedFailure, IInv, TypeOK, ClosedBelowThreshold, Window
  <2>2. state = "closed" /\ recent = kept /\ failures' = recordFailure(failures)
    BY <1>1 DEF ClosedFailure, recent, GetStatsFailures
  <2>3. PICK i \in (1 .. FailureThreshold) \ DOMAIN kept :
            /\ recordFailure(failures)
                    = [j \in DOMAIN kept \cup {i} |-> IF j = i THEN 0 ELSE kept[j]]
            /\ Cardinality(DOMAIN recordFailure(failures)) = Cardinality(DOMAIN kept) + 1
    BY <2>1, RecordFailureAdds, Zenon
  <2>4. CASE shouldOpen(failures')
    <3>1. /\ state' = "open" /\ consecutiveSuccesses' = 0
          /\ openFor' = 0 /\ recent' = Promise!None
      BY <1>1, <2>4 DEF ClosedFailure, transitionToOpen, enterState, openFor, recent,
                        NoFailures, Promise!None
    <3>2. Cardinality(DOMAIN recent) + 1 >= FailureThreshold
      BY <2>2, <2>3, <2>4 DEF shouldOpen
    <3>3. Promise!Fails
      BY <2>2, <3>1, <3>2, SameCardinality DEF Promise!Fails, Promise!Become
    <3>. QED
      BY <1>0, <3>3 DEF Promise!Ends
  <2>5. CASE ~ shouldOpen(failures')
    <3>1. UNCHANGED <<state, stateAge, consecutiveSuccesses>>
      BY <1>1, <2>5 DEF ClosedFailure
    <3>2. recent' = failures' /\ openFor' = openFor
      BY <2>2, <3>1, CleanupIdempotent DEF recent, openFor, GetStatsFailures, recordFailure
    <3>3. Promise!AnotherFailure
      BY <2>2, <2>3, <3>2 DEF Promise!AnotherFailure
    <3>4. Cardinality(DOMAIN recent) + 1 < FailureThreshold
      <4>1. Cardinality(DOMAIN recent) \in Nat
        BY <2>1, <2>2, CleanupWindow, WindowFinite
      <4>. QED
        BY <2>1, <2>2, <2>3, <2>5, <4>1 DEF shouldOpen
    <3>5. Promise!Fails
      BY <2>2, <3>1, <3>2, <3>3, <3>4, SameCardinality DEF Promise!Fails
    <3>. QED
      BY <1>0, <3>5 DEF Promise!Ends
  <2>. QED
    BY <2>4, <2>5
<1>2. CASE ClosedSuccess(c, r)
  <2>1. recent' = recent /\ openFor' = openFor
    BY <1>2, CleanupIdempotent DEF ClosedSuccess, recent, openFor, GetStatsFailures
  <2>. QED
    BY <1>0, <1>2, <2>1 DEF ClosedSuccess, Promise!Ends, Promise!Succeeds
<1>3. CASE HalfOpenFailure(c, r)
  <2>1. /\ state = "half-open" /\ state' = "open" /\ consecutiveSuccesses' = 0
        /\ openFor' = 0 /\ recent' = Promise!None
    BY <1>3 DEF HalfOpenFailure, transitionToOpen, enterState, openFor, recent,
                NoFailures, Promise!None
  <2>. QED
    BY <1>0, <2>1 DEF Promise!Ends, Promise!Fails, Promise!Become
<1>4. CASE HalfOpenSuccess(c, r)
  <2>1. CASE consecutiveSuccesses + 1 >= SuccessThreshold
    <3>1. /\ state = "half-open" /\ state' = "closed" /\ consecutiveSuccesses' = 0
          /\ openFor' = 0 /\ recent' = Promise!None
      BY <1>4, <2>1 DEF HalfOpenSuccess, transitionToClosed, enterState, openFor, recent,
                GetStatsFailures, cleanupOldFailures, NoFailures, Promise!None
    <3>. QED
      BY <1>0, <2>1, <3>1 DEF Promise!Ends, Promise!Succeeds, Promise!Become
  <2>2. CASE ~ (consecutiveSuccesses + 1 >= SuccessThreshold)
    <3>1. /\ state = "half-open" /\ UNCHANGED <<state, stateAge, failures>>
          /\ consecutiveSuccesses' = consecutiveSuccesses + 1
      BY <1>4, <2>2 DEF HalfOpenSuccess
    <3>2. openFor' = openFor /\ recent' = recent
      BY <3>1 DEF openFor, recent, GetStatsFailures
    <3>3. consecutiveSuccesses + 1 < SuccessThreshold
      BY <2>2, EffectiveConfig DEF IInv, TypeOK
    <3>. QED
      BY <1>0, <3>1, <3>2, <3>3 DEF Promise!Ends, Promise!Succeeds
  <2>. QED
    BY <2>1, <2>2
<1>5. CASE OpenResult(c, r)
  <2>1. openFor' = openFor /\ recent' = recent
    BY <1>5 DEF OpenResult, breaker, openFor, recent, GetStatsFailures
  <2>. QED
    BY <1>0, <1>5, <2>1 DEF OpenResult, breaker, Promise!Ends
<1>. QED
  BY <1>1, <1>2, <1>3, <1>4, <1>5 DEF recordResult

\* A call that panics is no longer in flight, and nothing else is known of it.
LEMMA PanicsPromise ==
    ASSUME IInv, NEW c \in Callers, panics(c)
    PROVE  Promise!Panics(c)
<1>1. c \in Panicking \cap calls /\ calls' = calls \ {c}
  BY DEF panics, Goto, calls, IInv, TypeOK
<1>2. openFor' = openFor /\ recent' = recent
  BY DEF panics, breaker, openFor, recent, GetStatsFailures
<1>. QED
  BY <1>1, <1>2 DEF panics, breaker, Promise!Panics

\* Time passes at both levels: a record expires at its tick one level up, when it
\* becomes too old to be counted below.
LEMMA TickPromise ==
    ASSUME IInv, Tick
    PROVE  Promise!Tick
<1>1. openFor' = IF state = "open" /\ openFor < Timeout THEN openFor + 1 ELSE openFor
  BY EffectiveConfig DEF Tick, UpTo, openFor, IInv, TypeOK
<1>2. recent' = [i \in {j \in DOMAIN recent : recent[j] + 1 < WindowSize} |-> recent[i] + 1]
  <2>1. CASE state = "closed"
    <3>1. Window(failures, FailureThreshold) /\ FailureThreshold \in Nat
      BY EffectiveConfig DEF IInv, TypeOK, Window
    <3>. QED
      BY <2>1, <3>1, TickExpires DEF Tick, recent, GetStatsFailures
  <2>2. CASE state # "closed"
    BY <2>2 DEF Tick, recent, NoFailures
  <2>. QED
    BY <2>1, <2>2
<1>3. calls' = calls /\ UNCHANGED <<state, consecutiveSuccesses>>
  BY DEF Tick, calls
<1>. QED
  BY <1>1, <1>2, <1>3 DEF Promise!Tick

LEMMA NextPromise == IInv /\ [Next]_vars => [Promise!Next]_Promise!vars
<1>. SUFFICES ASSUME IInv, [Next]_vars PROVE Promise!Next \/ UNCHANGED Promise!vars
  OBVIOUS
<1>1. ASSUME NEW c \in Callers, allowRequest(c)
      PROVE  Promise!Next \/ UNCHANGED Promise!vars
  BY <1>1, AllowRequestPromise DEF Promise!Next
<1>2. ASSUME NEW c \in Callers, getState(c) PROVE UNCHANGED Promise!vars
  <2>1. calls' = calls
    BY <1>2 DEF getState, Goto, calls, IInv, TypeOK
  <2>. QED
    BY <1>2, <2>1 DEF getState, breaker, openFor, recent, GetStatsFailures, Promise!vars
<1>3. ASSUME NEW c \in Callers, NEW r \in Results, recordResult(c, r) PROVE Promise!Next
  BY <1>3, RecordResultPromise DEF Promise!Next
<1>4. ASSUME NEW c \in Callers, panics(c) PROVE Promise!Next
  BY <1>4, PanicsPromise DEF Promise!Next
<1>5. CASE Tick
  BY <1>5, TickPromise DEF Promise!Next
<1>6. CASE UNCHANGED vars
  BY <1>6 DEF vars, breaker, openFor, recent, calls, GetStatsFailures, Promise!vars
<1>. QED
  BY <1>1, <1>2, <1>3, <1>4, <1>5, <1>6 DEF Next

\* The breaker keeps its promise: it opens exactly when FailureThreshold failures
\* since it last closed lie within one window, admits nobody for Timeout, and closes
\* after SuccessThreshold successes in a row, however the calls interleave.
THEOREM KeepsPromise == Spec => ImplementsPromise
<1>. QED
  BY InitPromise, NextPromise, Invariance, PTL DEF Spec, ImplementsPromise, Promise!Spec

===============================================================================
