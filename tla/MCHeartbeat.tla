----------------------------- MODULE MCHeartbeat -----------------------------
(* The tokens are interchangeable.                                         *)
EXTENDS Heartbeat, TLC

TokenSymmetry == Permutations(Tokens)
=============================================================================
