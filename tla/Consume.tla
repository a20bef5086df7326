------------------------------- MODULE Consume -------------------------------
(***************************************************************************)
(* consume.Batch: the loop that drains a Kafka topic into durable storage.  *)
(* It polls, decodes everything the poll returned, and gathers records      *)
(* until it flushes; the flush stores them and only then commits offsets.   *)
(* A cancelled loop flushes once more (closing) and returns.                *)
(* What storing means is the caller's: a module that extends this one adds   *)
(* the steps between StartFlush and CommitOffsets.                         *)
(*                                                                         *)
(* The topic is a constant: a poll may return any prefix of what is left,    *)
(* so a record that is not there yet is one no poll has returned.           *)
(***************************************************************************)
EXTENDS Integers, Sequences, FiniteSets

CONSTANTS
    Partitions,     \* partitions of the topic
    Topic,          \* partition -> sequence of records
    Poison,         \* records whose decode error is fatal
    FlushRecords,   \* *_FLUSH_RECORDS
    MaxCrashes      \* crashes, errors and stops of the process

ASSUME ConsumeAssumption ==
    /\ FlushRecords \in Nat \ {0}
    /\ MaxCrashes \in Nat
    /\ DOMAIN Topic = Partitions
    /\ \A p \in Partitions : Len(Topic[p]) \in Nat /\ DOMAIN Topic[p] = 1..Len(Topic[p])

VARIABLES
    cpc,            \* down, polling, flushing, closing (the flush before it returns)
    position,       \* next-to-read offset per partition, in the client
    committed,      \* the group's committed offset per partition, on the broker
    pending,        \* records decoded and not yet flushed, as <<partition, offset>>
    crashes

consumeVars == <<cpc, position, committed, pending, crashes>>

Position == UNION {{p} \X DOMAIN Topic[p] : p \in Partitions}
Record(x) == Topic[x[1]][x[2]]
Flushing == cpc \in {"flushing", "closing"}

(* The records of each partition p after offset a[p], up to offset b[p].     *)
Slice(a, b) == UNION {{p} \X ((a[p] + 1)..b[p]) : p \in Partitions}

ConsumeTypeOK ==
    /\ cpc \in {"down", "polling", "flushing", "closing"}
    /\ position \in [Partitions -> Nat]
    /\ committed \in [Partitions -> Nat]
    /\ pending \subseteq Partitions \X Nat
    /\ crashes \in Nat

ConsumeInit ==
    /\ cpc = "down"
    /\ position = [p \in Partitions |-> 0]
    /\ committed = [p \in Partitions |-> 0]
    /\ pending = {}
    /\ crashes = 0

(* Mutant: a committed offset read as the last record's, not the next one's. *)
StartOneBack ==
    /\ cpc = "down"
    /\ cpc' = "polling"
    /\ position' = [p \in Partitions |-> committed[p] - 1]
    /\ UNCHANGED <<committed, pending, crashes>>

(* The process starts and joins the group: it reads on from what is committed.*)
Start ==
    /\ cpc = "down"
    /\ cpc' = "polling"
    /\ position' = committed
    /\ UNCHANGED <<committed, pending, crashes>>

(* Where a poll of at most room records may leave the positions.            *)
PollEnds(room) ==
    {to \in [Partitions -> UNION {0..Len(Topic[p]) : p \in Partitions}] :
        /\ \A p \in Partitions : position[p] <= to[p] /\ to[p] <= Len(Topic[p])
        /\ Cardinality(Slice(position, to)) <= room}

(* The records up to to are decoded; an error of decode ends the process.     *)
Gather(to, then) ==
    /\ position' = to
    /\ IF \E x \in Slice(position, to) : Record(x) \in Poison
         THEN cpc' = "down" /\ pending' = {}
         ELSE cpc' = then /\ pending' = pending \cup Slice(position, to)

(* One PollRecords call.  Its records are uncommitted the moment it returns, *)
(* so all of them are decoded before anything can be committed.             *)
Poll ==
    /\ cpc = "polling"
    /\ Cardinality(pending) < FlushRecords
    /\ \E to \in PollEnds(FlushRecords - Cardinality(pending)) :
         /\ Slice(position, to) # {}
         /\ Gather(to, "polling")
    /\ UNCHANGED <<committed, crashes>>

(* Mutant: what the poll could not decode is not looked at once the context    *)
(* is cancelled.                                                          *)
LastPollUnchecked ==
    /\ cpc = "polling"
    /\ Cardinality(pending) < FlushRecords
    /\ \E to \in PollEnds(FlushRecords - Cardinality(pending)) :
         /\ position' = to
         /\ pending' = pending \cup {x \in Slice(position, to) : Record(x) \notin Poison}
         /\ cpc' = IF pending' = {} THEN "down" ELSE "closing"
    /\ UNCHANGED committed

(* The poll a cancelled context interrupts, or that returned just before:     *)
(* the loop flushes what is pending and returns.                            *)
LastPoll ==
    /\ cpc = "polling"
    /\ Cardinality(pending) < FlushRecords
    /\ \E to \in PollEnds(FlushRecords - Cardinality(pending)) :
         Gather(to, IF pending \cup Slice(position, to) = {} THEN "down" ELSE "closing")
    /\ UNCHANGED committed

(* Mutant: len(pending) > 1.                                                *)
StartFlushOfSeveral ==
    /\ cpc = "polling"
    /\ Cardinality(pending) > 1
    /\ cpc' = "flushing"
    /\ UNCHANGED <<position, committed, pending, crashes>>

(* The batch is full or flush_after has passed.  flush returns at once when   *)
(* there is nothing to store.                                              *)
StartFlush ==
    /\ cpc = "polling"
    /\ pending # {}
    /\ cpc' = "flushing"
    /\ UNCHANGED <<position, committed, pending, crashes>>

(* CommitUncommittedOffsets commits every polled position.                  *)
CommitOffsets ==
    /\ Flushing
    /\ committed' = position
    /\ pending' = {}
    /\ cpc' = IF cpc = "closing" THEN "down" ELSE "polling"
    /\ UNCHANGED <<position, crashes>>

Counted ==
    /\ crashes < MaxCrashes
    /\ crashes' = crashes + 1

(* The loop ends anywhere: killed, or returning the error of a write, a       *)
(* commit or a fetch.                                                      *)
Stop ==
    /\ cpc # "down"
    /\ Counted
    /\ cpc' = "down"
    /\ pending' = {}
    /\ UNCHANGED <<position, committed>>

-----------------------------------------------------------------------------
(* What every caller's proof rests on.                                      *)

(* The records whose offsets are committed.                                  *)
Committed == {x \in Position : x[2] <= committed[x[1]]}

(* pending is what lies between the committed offset and the position, and a  *)
(* loop that is down has nothing pending.                                    *)
BatchInv ==
    /\ \A p \in Partitions : committed[p] <= Len(Topic[p])
    /\ cpc # "down" => /\ \A p \in Partitions : /\ committed[p] <= position[p]
                                                /\ position[p] <= Len(Topic[p])
                       /\ pending = Slice(committed, position)
    /\ cpc = "down" => pending = {}

(* A record whose decode error is fatal stops its partition: its offset is     *)
(* never committed, whatever else the poll returned and however often the      *)
(* process restarts, so nothing is dropped silently.                         *)
PoisonNotPassed ==
    \A x \in Position : Record(x) \in Poison => committed[x[1]] < x[2]

(* What is pending was decoded, and nothing else was committed.               *)
DecodedInv ==
    /\ \A x \in pending : Record(x) \notin Poison
    /\ PoisonNotPassed
=============================================================================
