---------------------------- MODULE CircuitBreaker ----------------------------
(***************************************************************************)
(* One circuit breaker of circuit_breaker.go and the goroutines that send  *)
(* their calls through it.                                                 *)
(*                                                                         *)
(* allowRequest, recordResult and getState each run under cb.mu from their *)
(* first to their last line, so each is one action.  Between the two a     *)
(* call is in flight and anything may happen to the breaker: the hazards   *)
(* of this code are results that arrive in a state other than the one that *)
(* admitted the call.                                                      *)
(*                                                                         *)
(* Time is discrete.  The code reads time only as "now minus a timestamp"  *)
(* and only compares it with Timeout and WindowSize, so the model keeps    *)
(* ages instead of timestamps and lets them grow no further than the value *)
(* they are compared with.                                                 *)
(***************************************************************************)
EXTENDS Integers, FiniteSets

CONSTANTS
    Callers,                 \* the goroutines that call Execute and RecordResult
    Panicking,               \* those whose call may panic, and who recover from it
    Results,                 \* what a call may produce: [err, status]
    TripResults,             \* the results for which config.ShouldTrip is true
    ConfFailureThreshold,    \* the CircuitBreakerConfig as the caller gave it:
    ConfSuccessThreshold,    \* zero and negative values select the defaults
    ConfTimeout,
    ConfHalfOpenMaxRequests,
    ConfWindowSize

ASSUME ConfigAssumption ==
    /\ ConfFailureThreshold \in Int
    /\ ConfSuccessThreshold \in Int
    /\ ConfTimeout \in Int
    /\ ConfHalfOpenMaxRequests \in Int
    /\ ConfWindowSize \in Int

ASSUME PanickingAssumption == Panicking \subseteq Callers

-------------------------------------------------------------------------------
(* The configuration in force: NewCircuitBreaker replaces what is not positive. *)

OrDefault(given, default) == IF given <= 0 THEN default ELSE given

FailureThreshold    == OrDefault(ConfFailureThreshold, 5)
SuccessThreshold    == OrDefault(ConfSuccessThreshold, 2)
Timeout             == OrDefault(ConfTimeout, 60)
HalfOpenMaxRequests == OrDefault(ConfHalfOpenMaxRequests, 1)
WindowSize          == OrDefault(ConfWindowSize, 60)

\* The ShouldTrip of a configuration that has none.
defaultShouldTrip(r) == r.err \/ r.status >= 500 \/ r.status < 200

-------------------------------------------------------------------------------

VARIABLES
    state,                 \* "closed", "open" or "half-open"
    stateAge,              \* now - stateChangeTime
    failures,              \* the failure records: slot |-> age (no one reads their order)
    halfOpenRequests,
    consecutiveSuccesses,
    pc,                    \* where each caller is
    \* History, read by the properties only:
    probes,                \* the calls in flight that this half-open period admitted
    strays,                \* the successes this half-open period counted for other calls
    leaked                 \* the probes of this half-open period that ended in a panic

breaker == <<state, stateAge, failures, halfOpenRequests, consecutiveSuccesses>>
history == <<probes, strays, leaked>>
vars    == <<breaker, pc, history>>

NoFailures == [i \in {} |-> 0]

Init ==
    /\ state = "closed"
    /\ stateAge = 0
    /\ failures = NoFailures
    /\ halfOpenRequests = 0
    /\ consecutiveSuccesses = 0
    /\ pc = [c \in Callers |-> "idle"]
    /\ probes = {}
    /\ strays = 0
    /\ leaked = 0

Goto(c, label) == pc' = [pc EXCEPT ![c] = label]

-------------------------------------------------------------------------------
(* The sliding window. *)

cleanupOldFailures_Keeps(fs) == fs

\* A record survives while its timestamp is after now - WindowSize.
cleanupOldFailures(fs) == [i \in {j \in DOMAIN fs : fs[j] < WindowSize} |-> fs[i]]

NewSlot(fs) == CHOOSE i \in 1 .. Cardinality(DOMAIN fs) + 1 : i \notin DOMAIN fs

recordFailure(fs) ==
    cleanupOldFailures([i \in DOMAIN fs \cup {NewSlot(fs)} |->
                            IF i \in DOMAIN fs THEN fs[i] ELSE 0])

shouldOpen(fs) == Cardinality(DOMAIN fs) >= FailureThreshold

\* What GetStats counts: it cleans a copy and leaves the breaker as it is.
GetStatsFailures == cleanupOldFailures(failures)

-------------------------------------------------------------------------------
(* The transitions.  OnStateChange and the logger run inside them, under the  *)
(* lock, and change nothing of the breaker.                                   *)

enterState(s) ==
    /\ state' = s
    /\ stateAge' = 0
    /\ halfOpenRequests' = 0
    /\ consecutiveSuccesses' = 0
    /\ strays' = 0
    /\ leaked' = 0

transitionToOpen == enterState("open") /\ probes' = {}

transitionToHalfOpen(c) ==
    enterState("half-open") /\ probes' = {c} /\ UNCHANGED failures

transitionToClosed_KeepsFailures ==
    enterState("closed") /\ probes' = {} /\ UNCHANGED failures

transitionToClosed ==
    enterState("closed") /\ probes' = {} /\ failures' = NoFailures

-------------------------------------------------------------------------------
(* allowRequest, one action per branch. *)

AllowClosed(c) ==
    /\ state = "closed"
    /\ failures' = cleanupOldFailures(failures)
    /\ Goto(c, "inFlight")
    /\ UNCHANGED <<state, stateAge, halfOpenRequests, consecutiveSuccesses, history>>

\* The call that ends the cool-down is let through and not counted.
AllowAfterTimeout(c) ==
    /\ state = "open"
    /\ stateAge >= Timeout
    /\ transitionToHalfOpen(c)
    /\ Goto(c, "inFlight")

RejectOpen_RestartsCooldown(c) ==
    /\ state = "open"
    /\ stateAge < Timeout
    /\ stateAge' = 0
    /\ Goto(c, "blocked")
    /\ UNCHANGED <<state, failures, halfOpenRequests, consecutiveSuccesses, history>>

RejectOpen(c) ==
    /\ state = "open"
    /\ stateAge < Timeout
    /\ Goto(c, "blocked")
    /\ UNCHANGED <<breaker, history>>

AllowHalfOpen_OneTooMany(c) ==
    /\ state = "half-open"
    /\ halfOpenRequests <= HalfOpenMaxRequests
    /\ halfOpenRequests' = halfOpenRequests + 1
    /\ probes' = probes \cup {c}
    /\ Goto(c, "inFlight")
    /\ UNCHANGED <<state, stateAge, failures, consecutiveSuccesses, strays, leaked>>

AllowHalfOpen(c) ==
    /\ state = "half-open"
    /\ halfOpenRequests < HalfOpenMaxRequests
    /\ halfOpenRequests' = halfOpenRequests + 1
    /\ probes' = probes \cup {c}
    /\ Goto(c, "inFlight")
    /\ UNCHANGED <<state, stateAge, failures, consecutiveSuccesses, strays, leaked>>

\* The counter goes up before it is looked at.
RejectHalfOpen_TakesSlot(c) ==
    /\ state = "half-open"
    /\ halfOpenRequests >= HalfOpenMaxRequests
    /\ halfOpenRequests' = halfOpenRequests + 1
    /\ Goto(c, "blocked")
    /\ UNCHANGED <<state, stateAge, failures, consecutiveSuccesses, history>>

RejectHalfOpen(c) ==
    /\ state = "half-open"
    /\ halfOpenRequests >= HalfOpenMaxRequests
    /\ Goto(c, "blocked")
    /\ UNCHANGED <<breaker, history>>

allowRequest(c) ==
    /\ pc[c] = "idle"
    /\ \/ AllowClosed(c)
       \/ AllowAfterTimeout(c)
       \/ RejectOpen(c)
       \/ AllowHalfOpen(c)
       \/ RejectHalfOpen(c)

\* Execute builds the CircuitBreakerError of a refused call with a second,
\* separate acquisition of the lock.
getState(c) ==
    /\ pc[c] = "blocked"
    /\ Goto(c, "idle")
    /\ UNCHANGED <<breaker, history>>

-------------------------------------------------------------------------------
(* recordResult, one action per branch.  Execute records a call that failed,  *)
(* RecordResult one that returned a response: each call records once.         *)

ClosedFailure(c, r) ==
    /\ state = "closed"
    /\ r \in TripResults
    /\ failures' = recordFailure(failures)
    /\ IF shouldOpen(failures')
       THEN transitionToOpen
       ELSE UNCHANGED <<state, stateAge, halfOpenRequests, consecutiveSuccesses, history>>

ClosedSuccess(c, r) ==
    /\ state = "closed"
    /\ r \notin TripResults
    /\ failures' = cleanupOldFailures(failures)
    /\ UNCHANGED <<state, stateAge, halfOpenRequests, consecutiveSuccesses, history>>

HalfOpenFailure(c, r) ==
    /\ state = "half-open"
    /\ r \in TripResults
    /\ transitionToOpen
    /\ UNCHANGED failures

HalfOpenSuccess_KeepsSlot(c, r) ==
    /\ state = "half-open"
    /\ r \notin TripResults
    /\ IF consecutiveSuccesses + 1 >= SuccessThreshold
       THEN transitionToClosed
       ELSE /\ consecutiveSuccesses' = consecutiveSuccesses + 1
            /\ probes' = probes \ {c}
            /\ strays' = IF c \in probes THEN strays ELSE strays + 1
            /\ UNCHANGED <<state, stateAge, failures, halfOpenRequests, leaked>>

\* The code counts the success whether or not this period admitted the call.
HalfOpenSuccess(c, r) ==
    /\ state = "half-open"
    /\ r \notin TripResults
    /\ IF consecutiveSuccesses + 1 >= SuccessThreshold
       THEN transitionToClosed
       ELSE /\ consecutiveSuccesses' = consecutiveSuccesses + 1
            /\ halfOpenRequests' = halfOpenRequests - 1
            /\ probes' = probes \ {c}
            /\ strays' = IF c \in probes THEN strays ELSE strays + 1
            /\ UNCHANGED <<state, stateAge, failures, leaked>>

\* A result that comes back to an open breaker is ignored.
OpenResult(c, r) ==
    /\ state = "open"
    /\ UNCHANGED <<breaker, history>>

recordResult(c, r) ==
    /\ pc[c] = "inFlight"
    /\ Goto(c, "idle")
    /\ \/ ClosedFailure(c, r)
       \/ ClosedSuccess(c, r)
       \/ HalfOpenFailure(c, r)
       \/ HalfOpenSuccess(c, r)
       \/ OpenResult(c, r)

\* Execute defers nothing: when fn panics, in a callback of the user that the
\* request runs, or ValidateStatus does before RecordResult, no result is recorded.
panics(c) ==
    /\ c \in Panicking
    /\ pc[c] = "inFlight"
    /\ Goto(c, "idle")
    /\ probes' = probes \ {c}
    /\ leaked' = IF c \in probes THEN leaked + 1 ELSE leaked
    /\ UNCHANGED <<breaker, strays>>

-------------------------------------------------------------------------------

UpTo(limit, age) == IF age < limit THEN age + 1 ELSE limit

\* Time passes; at their caps the ages no longer matter.
Tick ==
    /\ \/ stateAge < Timeout
       \/ \E i \in DOMAIN failures : failures[i] < WindowSize
    /\ stateAge' = UpTo(Timeout, stateAge)
    /\ failures' = [i \in DOMAIN failures |-> UpTo(WindowSize, failures[i])]
    /\ UNCHANGED <<state, halfOpenRequests, consecutiveSuccesses, pc, history>>

Next ==
    \/ \E c \in Callers : allowRequest(c)
    \/ \E c \in Callers : getState(c)
    \/ \E c \in Callers, r \in Results : recordResult(c, r)
    \/ \E c \in Callers : panics(c)
    \/ Tick

Spec == Init /\ [][Next]_vars

\* What the environment owes the breaker: time passes, calls keep coming, and a
\* call in flight ends (with any result, or in a panic).
Fairness ==
    /\ WF_vars(Tick)
    /\ \A c \in Callers :
        /\ WF_vars(allowRequest(c))
        /\ WF_vars(getState(c))
        /\ WF_vars(panics(c) \/ \E r \in Results : recordResult(c, r))

FairSpec == Spec /\ Fairness

-------------------------------------------------------------------------------
(* Properties. *)

\* Every variable stays in its range; halfOpenRequests may go below zero, because
\* successes of calls that were never counted are subtracted from it.
TypeOK ==
    /\ state \in {"closed", "open", "half-open"}
    /\ stateAge \in 0 .. Timeout
    /\ DOMAIN failures \subseteq 1 .. FailureThreshold
    /\ failures \in [DOMAIN failures -> 0 .. WindowSize]
    /\ halfOpenRequests \in -SuccessThreshold .. HalfOpenMaxRequests
    /\ consecutiveSuccesses \in 0 .. SuccessThreshold - 1
    /\ pc \in [Callers -> {"idle", "inFlight", "blocked"}]
    /\ probes \subseteq {c \in Callers : pc[c] = "inFlight"}
    /\ strays \in Nat
    /\ leaked \in Nat

\* A closed breaker never holds FailureThreshold failure records, not even
\* expired ones or ones from before it last opened: the failures of an earlier
\* closed period cannot help to open it again.
ClosedBelowThreshold ==
    state = "closed" => Cardinality(DOMAIN failures) < FailureThreshold

\* What the counter of half-open requests counts: the probes in flight and those
\* lost to a panic, less the call that ended the cool-down, less the successes it
\* was charged for calls admitted before this period.  Out of half-open both
\* counters are zero.
ProbeAccounting ==
    /\ state = "half-open" =>
        /\ halfOpenRequests = Cardinality(probes) + leaked - 1 - strays
        /\ strays <= consecutiveSuccesses
    /\ state # "half-open" =>
        /\ halfOpenRequests = 0 /\ consecutiveSuccesses = 0
        /\ probes = {} /\ strays = 0 /\ leaked = 0

\* However many calls of earlier periods finish during a half-open period, never
\* more than this many of the period's own calls are in flight at once.
ProbesBounded ==
    state = "half-open" =>
        Cardinality(probes) <= HalfOpenMaxRequests + SuccessThreshold

\* A half-open breaker that refuses calls has a probe in flight, whose result will give
\* the slot back, or has lost more than HalfOpenMaxRequests probes to panics: late
\* results of other calls never use its slots up, and fewer panics do not either.
RefusesForProbes ==
    state = "half-open" /\ halfOpenRequests >= HalfOpenMaxRequests =>
        probes # {} \/ leaked > HalfOpenMaxRequests

\* An open breaker does not stay open while calls keep coming: refused calls do
\* not put off its half-open period.
OpenIsLeft == state = "open" ~> state = "half-open"

\* A half-open period in which no probe panics ends: whatever the breaker has
\* subtracted and counted, it does not end up refusing every call while it waits
\* for one more success.
HalfOpenResolves == state = "half-open" ~> state # "half-open" \/ leaked > 0

\* The half-open state as its comment has it, "allowing limited requests to test
\* recovery": it always ends in a verdict.  In the code a probe that panics keeps its
\* slot, the breaker then refuses every call, and nothing but a restart ends the
\* period.
HalfOpenAlwaysResolves == state = "half-open" ~> state # "half-open"

===============================================================================
