--------------------------- MODULE BreakerRefinement ---------------------------
(***************************************************************************)
(* CircuitBreaker implements AbstractBreaker.  The state and the streak of *)
(* successes are the breaker's own; the rest is computed from it here.     *)
(***************************************************************************)
EXTENDS CircuitBreaker

\* The age of the state is of interest to an open breaker only.
openFor == IF state = "open" THEN stateAge ELSE 0

\* The failures that count are those of a closed breaker that are in the window:
\* records that are too old or were kept while it was open are not among them.
recent == IF state = "closed" THEN GetStatsFailures ELSE NoFailures

calls == {c \in Callers : pc[c] = "inFlight"}

Promise == INSTANCE AbstractBreaker WITH
    phase   <- state,
    openFor <- openFor,
    recent  <- recent,
    streak  <- consecutiveSuccesses,
    calls   <- calls

\* Every behaviour of the breaker is one AbstractBreaker allows: cleaning the
\* window only when a call passes counts the same failures as expiring each at
\* its time; the failures kept while it is open are never counted again; nobody
\* gets through an open breaker early; and results that come back late change
\* the state only as the results of that period's own calls would.
ImplementsPromise == Promise!Spec

===============================================================================
