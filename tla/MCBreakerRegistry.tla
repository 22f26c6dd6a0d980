-------------------------- MODULE MCBreakerRegistry ---------------------------
(* The symmetry of BreakerRegistry for TLC. *)
EXTENDS BreakerRegistry, TLC

Symmetry == Permutations(Callers) \cup Permutations(Keys) \cup Permutations(Addresses)

===============================================================================
