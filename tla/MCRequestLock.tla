----------------------------- MODULE MCRequestLock -----------------------------
(* Values for TLC of the constants of RequestLock. *)
EXTENDS RequestLock, TLC

\* The least that shows what computing the key of a circuit breaker does.
WithBreaker == {"FullUrl", "getOrSetCircuitBreakerKey"}

===============================================================================
