------------------------------- MODULE History -------------------------------
(***************************************************************************)
(* The history writer: drains aircraft.state_history and its .replay twin    *)
(* into the table aircraft_traces, one INSERT per trace, and commits offsets    *)
(* when all are in.  The statements commit one by one, as the comment in         *)
(* store.go says; a pgx batch is one implicit transaction, whose outcomes, all     *)
(* rows or none, are among these.                                          *)
(*                                                                         *)
(* A record is a Trace [station, ts, icao, last, snap, aborted]: snap stands  *)
(* for the other columns, and aborted says that the processor's transaction   *)
(* around the record was aborted.  The client does not ask for read_committed,*)
(* so a poll returns aborted records like any other.  A record that is not a  *)
(* Trace is in Poison.  Partitions are those of both topics.                *)
(***************************************************************************)
EXTENDS Consume

VARIABLES
    table,          \* aircraft_traces: the rows
    queued          \* traces of the batch being flushed still to insert

vars == <<consumeVars, table, queued>>

(* A trace's row, and the UNIQUE constraint's columns.                      *)
Row(t) == [station |-> t.station, ts |-> t.ts, icao |-> t.icao, last |-> t.last,
           snap |-> t.snap]
Key(r) == <<r.station, r.ts, r.icao, r.last>>

Traces == {x \in Position : Record(x) \notin Poison}

Init ==
    /\ ConsumeInit
    /\ table = {}
    /\ queued = {}

Flush ==
    /\ StartFlush
    /\ queued' = pending
    /\ UNCHANGED table

(* Mutant: ON CONFLICT DO NOTHING is missing and the constraint is on the    *)
(* event alone, so a conflicting row is replaced.                           *)
StoredByEvent(r) == {q \in table : <<q.station, q.ts>> # <<r.station, r.ts>>} \cup {r}

(* INSERT ... ON CONFLICT DO NOTHING.                                       *)
Stored(r) == IF \E q \in table : Key(q) = Key(r) THEN table ELSE table \cup {r}

(* The next statement of the batch; a partition's traces are in offset order.*)
Insert(x) ==
    /\ Flushing
    /\ x \in queued
    /\ \A y \in queued : y[1] = x[1] => x[2] <= y[2]
    /\ table' = Stored(Row(Record(x)))
    /\ queued' = queued \ {x}
    /\ UNCHANGED consumeVars

(* Mutant: offsets are committed while statements are still to run.         *)
CommitEarly ==
    /\ CommitOffsets
    /\ queued' = {}
    /\ UNCHANGED table

(* flush commits once insert has returned: every statement has run.         *)
Commit ==
    /\ queued = {}
    /\ CommitOffsets
    /\ UNCHANGED <<table, queued>>

Exit ==
    /\ Stop
    /\ queued' = {}
    /\ UNCHANGED table

(* The context is cancelled: another service has returned, or a signal came.  *)
Close ==
    /\ LastPoll
    /\ queued' = pending'
    /\ UNCHANGED table

Next ==
    \/ Start /\ UNCHANGED <<table, queued>>
    \/ Poll /\ UNCHANGED <<table, queued>>
    \/ Flush
    \/ \E x \in queued : Insert(x)
    \/ Commit
    \/ Exit
    \/ Close /\ Counted

Spec == Init /\ [][Next]_vars

(* Compose restarts the process, polls return, the flush timer fires, and    *)
(* the database answers.                                                   *)
Fairness ==
    /\ WF_vars(Start /\ UNCHANGED <<table, queued>>)
    /\ WF_vars(Poll /\ UNCHANGED <<table, queued>>)
    /\ WF_vars(Flush)
    /\ WF_vars(\E x \in queued : Insert(x))
    /\ WF_vars(Commit)

FairSpec == Spec /\ Fairness

-----------------------------------------------------------------------------
TypeOK ==
    /\ ConsumeTypeOK
    /\ table \subseteq {Row(Record(x)) : x \in Traces}
    /\ queued \subseteq pending

(* A trace whose offset is committed is in the table, as it was sent: insert  *)
(* and commit are not one transaction, so this needs their order and the      *)
(* re-insert after a crash to leave other rows alone.                       *)
HistoryComplete ==
    \A x \in Traces \cap Committed : Row(Record(x)) \in table

(* Every trace reaches the table, however often the process stops between     *)
(* inserting and committing.                                               *)
TracesStored ==
    \A x \in Traces : <>[](Row(Record(x)) \in table)

(* The abstract specification this one implements.                          *)
Promise == INSTANCE Durable WITH
    stored <- {x \in Traces : Row(Record(x)) \in table},
    done   <- committed

(* The history writer keeps the same promise as the archiver: offsets only     *)
(* advance, over traces that are rows, and no row is ever taken back.          *)
ImplementsDurable == Promise!Spec

-----------------------------------------------------------------------------
(* The strengthening under which HistoryComplete is inductive, for a topic in  *)
(* which traces that agree in the columns of the constraint agree altogether.  *)
KeysIdentify ==
    \A x, y \in Traces :
       Key(Row(Record(x))) = Key(Row(Record(y))) => Row(Record(x)) = Row(Record(y))

(* What is committed is in the table, and so is what the flush has inserted.    *)
RowInv ==
    /\ \A x \in Traces \cap Committed : Row(Record(x)) \in table
    /\ Flushing => \A x \in pending : x \in queued \/ Row(Record(x)) \in table

(* Only a flush has statements to run.                                       *)
QueueInv == ~Flushing => queued = {}

-----------------------------------------------------------------------------
(* A statement of the sink's comment that this consumer does not keep.       *)

(* ProcessorJob.java: "Consumers must read_committed": what the processor      *)
(* rolled back leaves no trace in the table.                                *)
NoAbortedRow ==
    \A r \in table : \E x \in Traces : ~Record(x).aborted /\ Row(Record(x)) = r
=============================================================================
