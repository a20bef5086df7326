------------------------------- MODULE Durable -------------------------------
(***************************************************************************)
(* What a sink of a Kafka topic promises: a consumer group's committed        *)
(* offsets cover only records that are durably stored, now and later.  The    *)
(* archiver and the history writer both implement it.                       *)
(***************************************************************************)
EXTENDS Naturals

CONSTANTS
    Partitions,
    Position        \* the records of the topic, as <<partition, offset>>

VARIABLES
    stored,         \* the records that are durable
    done            \* the committed offset per partition

vars == <<stored, done>>

Owed(d) == {x \in Position : x[2] <= d[x[1]]}

Init ==
    /\ stored = {}
    /\ done = [p \in Partitions |-> 0]

(* Storing may replace what is stored already, except what is owed.          *)
Store ==
    /\ Owed(done) \subseteq stored'
    /\ UNCHANGED done

Commit ==
    /\ \A p \in Partitions : done[p] <= done'[p]
    /\ Owed(done') \subseteq stored
    /\ UNCHANGED stored

Next == Store \/ Commit

Spec == Init /\ [][Next]_vars
=============================================================================
