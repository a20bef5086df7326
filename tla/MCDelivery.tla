----------------------------- MODULE MCDelivery -----------------------------
(* Small instances of Delivery for TLC: which faults may happen in a run.   *)
EXTENDS Delivery, TLC

NoFaults == [f \in Faults |-> 0]

EveryFault == [f \in Faults |-> 1]
NetworkOnly  == [NoFaults EXCEPT !["net"] = 1, !["server"] = 1]

HandlerSymmetry == Permutations(Handlers)
=============================================================================
