------------------------------ MODULE MCTimed ------------------------------
(***************************************************************************)
(* Two calls of one operation in one process, for the same key.            *)
(***************************************************************************)
EXTENDS TimedCall, TLC

CONSTANTS c1, c2, key, operation

OneKey == (c1 :> key) @@ (c2 :> key)
OneCircuit == (c1 :> operation) @@ (c2 :> operation)
=============================================================================
