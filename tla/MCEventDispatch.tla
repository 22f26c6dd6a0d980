---------------------------- MODULE MCEventDispatch ----------------------------
(* Values for TLC of the constants of EventDispatch. *)
EXTENDS EventDispatch, TLC

CONSTANTS unbuffered, buffered

MCCapacity == (unbuffered :> 0) @@ (buffered :> 1)

===============================================================================
