--------------------------- MODULE MCCircuitBreaker ----------------------------
(* Values for TLC of the constants of CircuitBreaker. *)
EXTENDS BreakerRefinement, TLC

MCResults ==
    {[err |-> TRUE, status |-> 0]}
    \cup {[err |-> FALSE, status |-> s] : s \in {199, 200, 499, 500}}

MCTripResults == {r \in MCResults : defaultShouldTrip(r)}

===============================================================================
