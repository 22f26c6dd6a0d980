--------------------------- MODULE AbstractBreaker ----------------------------
(***************************************************************************)
(* What a circuit breaker promises its users: it opens exactly when        *)
(* FailureThreshold failures since it last closed lie within one window,   *)
(* then admits nobody for Timeout, and closes after SuccessThreshold       *)
(* successes with no failure between them.  There are no locks, counters   *)
(* or stale records here: a failure leaves the window at the very tick at  *)
(* which it becomes too old.                                               *)
(***************************************************************************)
EXTENDS Integers, FiniteSets

CONSTANTS Callers, Panicking, FailureThreshold, SuccessThreshold, Timeout, WindowSize

VARIABLES
    phase,      \* "closed", "open" or "half-open"
    openFor,    \* for how long it has been open, up to Timeout
    recent,     \* the failures in the window, each with its age
    streak,     \* the successes since the half-open period began
    calls       \* the callers whose calls were admitted and have not ended

vars == <<phase, openFor, recent, streak, calls>>

None == [i \in {} |-> 0]

Init ==
    /\ phase = "closed"
    /\ openFor = 0
    /\ recent = None
    /\ streak = 0
    /\ calls = {}

Become(p) == phase' = p /\ openFor' = 0 /\ recent' = None /\ streak' = 0

\* Nobody is admitted by a breaker that has not been open for Timeout.
Admit(c) ==
    /\ c \notin calls
    /\ calls' = calls \cup {c}
    /\ \/ phase # "open" /\ UNCHANGED <<phase, openFor, recent, streak>>
       \/ phase = "open" /\ openFor >= Timeout /\ Become("half-open")

AnotherFailure ==
    \E i \in (1 .. FailureThreshold) \ DOMAIN recent :
        recent' = [j \in DOMAIN recent \cup {i} |-> IF j = i THEN 0 ELSE recent[j]]

Fails ==
    \/ /\ phase = "closed"
       /\ Cardinality(DOMAIN recent) + 1 < FailureThreshold
       /\ AnotherFailure
       /\ UNCHANGED <<phase, openFor, streak>>
    \/ /\ phase = "closed"
       /\ Cardinality(DOMAIN recent) + 1 >= FailureThreshold
       /\ Become("open")
    \/ phase = "half-open" /\ Become("open")

Succeeds ==
    \/ phase = "closed" /\ UNCHANGED <<phase, openFor, recent, streak>>
    \/ /\ phase = "half-open"
       /\ streak + 1 < SuccessThreshold
       /\ streak' = streak + 1
       /\ UNCHANGED <<phase, openFor, recent>>
    \/ phase = "half-open" /\ streak + 1 >= SuccessThreshold /\ Become("closed")

Ends(c) ==
    /\ c \in calls
    /\ calls' = calls \ {c}
    /\ \/ Fails
       \/ Succeeds
       \/ phase = "open" /\ UNCHANGED <<phase, openFor, recent, streak>>

\* A call that panics has no result, and counts for nothing.
Panics(c) ==
    /\ c \in Panicking \cap calls
    /\ calls' = calls \ {c}
    /\ UNCHANGED <<phase, openFor, recent, streak>>

Tick ==
    /\ openFor' = IF phase = "open" /\ openFor < Timeout THEN openFor + 1 ELSE openFor
    /\ recent' = [i \in {j \in DOMAIN recent : recent[j] + 1 < WindowSize} |-> recent[i] + 1]
    /\ UNCHANGED <<phase, streak, calls>>

Next ==
    \/ \E c \in Callers : Admit(c) \/ Ends(c) \/ Panics(c)
    \/ Tick

Spec == Init /\ [][Next]_vars

===============================================================================
