------------------------------ MODULE MCServer ------------------------------
(* A topic for TLC: a record that breaks the contract, and a healthy partition.*)
EXTENDS Server, TLC

Trace(t) == [station |-> "A", ts |-> t, icao |-> "x", last |-> t, snap |-> t, aborted |-> FALSE]
NotATrace == Trace(0)
PoisonRecords == {NotATrace}

MCPartitions == {1, 2}
Poisoned == 1 :> <<Trace(1), NotATrace>> @@ 2 :> <<Trace(2)>>
=============================================================================
