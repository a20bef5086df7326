------------------------------- MODULE Archiver -------------------------------
(***************************************************************************)
(* The archiver: drains events.raw into Parquet files, one per event date   *)
(* present in the batch, each named by the event-time range it holds.       *)
(*                                                                         *)
(* A record is a Row [station, ts, raw]; one that is not a gateway event has *)
(* station NoStation and ts 0 (decodeRow zeroes them) and keeps its bytes.   *)
(* The archive maps a path to the set of rows of its file: readers sort and  *)
(* dedupe rows, so neither order nor multiplicity inside a file is kept.     *)
(*                                                                         *)
(* reused is history: the names of files that held committed records and were    *)
(* replaced, under the same name, by a file without some of their rows.         *)
(***************************************************************************)
EXTENDS Consume

CONSTANTS
    NoStation,      \* the empty station_id
    DayLength       \* time units in an event date

ASSUME ArchiverAssumption ==
    /\ DayLength \in Nat \ {0}
    /\ \A x \in Position : Record(x).ts \in Nat
    /\ Poison = {}  \* the archiver's decode never returns an error

VARIABLES
    archive,        \* path -> rows
    unwritten,      \* directories of the batch being flushed still to write
    reused

vars == <<consumeVars, archive, unwritten, reused>>

(* Row.partition: the directory of a row.                                  *)
Unknown == "unknown"
Directory(r) == IF r.station = NoStation \/ r.ts = 0
                  THEN Unknown ELSE <<"dt", r.ts \div DayLength>>

(* The records of the batch that go to one directory.                      *)
Group(dir) == {x \in pending : Directory(Record(x)) = dir}

Init ==
    /\ ConsumeInit
    /\ archive = << >>
    /\ unwritten = {} /\ reused = {}

Flush ==
    /\ StartFlush
    /\ unwritten' = {Directory(Record(x)) : x \in pending}
    /\ UNCHANGED <<archive, reused>>

(* path is named by the times of two records of S.                          *)
Named(path, S) ==
    /\ \E y \in S : Directory(Record(y)) = path.dir /\ Record(y).ts = path.first
    /\ \E y \in S : Directory(Record(y)) = path.dir /\ Record(y).ts = path.last

(* putFile writes beside the file and renames, replacing a file of that name.*)
PutFile(path, content) ==
    /\ archive' = [q \in DOMAIN archive \cup {path} |->
                     IF q = path THEN content ELSE archive[q]]
    /\ reused' = reused \cup {q \in {path} : /\ q \in DOMAIN archive /\ Named(q, Committed)
                                            /\ ~(archive[q] \subseteq content)}

(* groupAndWrite, one directory at a time in map order: the group sorted by  *)
(* time goes to a file named by its first and last.                        *)
WriteFile(dir) ==
    /\ Flushing
    /\ dir \in unwritten
    /\ \E first, last \in Group(dir) :
         /\ \A x \in Group(dir) : /\ Record(first).ts <= Record(x).ts
                                  /\ Record(x).ts <= Record(last).ts
         /\ PutFile([dir |-> dir, first |-> Record(first).ts, last |-> Record(last).ts],
                    {Record(x) : x \in Group(dir)})
    /\ unwritten' = unwritten \ {dir}
    /\ UNCHANGED consumeVars

(* Mutant: offsets are committed while files are still to be written.       *)
CommitEarly ==
    /\ CommitOffsets
    /\ unwritten' = {}
    /\ UNCHANGED <<archive, reused>>

(* flush commits after groupAndWrite has written every file.                *)
Commit ==
    /\ unwritten = {}
    /\ CommitOffsets
    /\ UNCHANGED <<archive, unwritten, reused>>

Exit ==
    /\ Stop
    /\ unwritten' = {}
    /\ UNCHANGED <<archive, reused>>

(* The context is cancelled: another service has returned, or a signal came.  *)
Close ==
    /\ LastPoll
    /\ unwritten' = {Directory(Record(x)) : x \in pending'}
    /\ UNCHANGED <<archive, reused>>

Next ==
    \/ Start /\ UNCHANGED <<archive, unwritten, reused>>
    \/ Poll /\ UNCHANGED <<archive, unwritten, reused>>
    \/ Flush
    \/ \E dir \in unwritten : WriteFile(dir)
    \/ Commit
    \/ Exit
    \/ Close /\ Counted

Spec == Init /\ [][Next]_vars

(* The service manager restarts the process, poll returns what there is, the *)
(* flush timer fires and writing makes progress.                            *)
Fairness ==
    /\ WF_vars(Start /\ UNCHANGED <<archive, unwritten, reused>>)
    /\ WF_vars(Poll /\ UNCHANGED <<archive, unwritten, reused>>)
    /\ WF_vars(Flush)
    /\ WF_vars(\E dir \in unwritten : WriteFile(dir))
    /\ WF_vars(Commit)

FairSpec == Spec /\ Fairness

-----------------------------------------------------------------------------
(* What ReadDay finds in a directory: its files' rows, deduped.             *)
ReadDay(dir) == UNION {archive[q] : q \in {f \in DOMAIN archive : f.dir = dir}}

TypeOK ==
    /\ ConsumeTypeOK
    /\ \A q \in DOMAIN archive : archive[q] \subseteq {Record(x) : x \in Position}

Archived(x) == Record(x) \in ReadDay(Directory(Record(x)))

(* x lies in the range of a name that two batches have shared.              *)
Overwritten(x) ==
    \E q \in reused : /\ q.dir = Directory(Record(x))
                      /\ q.first <= Record(x).ts /\ Record(x).ts <= q.last

(* Every record whose offset is committed is in the archive under its own event  *)
(* date, re-sent copies and stops between rename and commit notwithstanding, but   *)
(* for those of a file whose name a later batch has used again: flush commits       *)
(* only after all files of the batch are in place, and what a repeated batch with    *)
(* other boundaries replaces is read again.                                  *)
CommittedArchived == \A x \in Committed : Archived(x) \/ Overwritten(x)

(* Every record of the topic is archived in the end, however often the process    *)
(* is stopped between writing files and committing offsets, with that exception.   *)
EverythingArchived == \A x \in Position : <>[](Archived(x) \/ Overwritten(x))

(* The abstract specification this one implements.                          *)
Promise == INSTANCE Durable WITH
    stored <- {x \in Position : Archived(x) \/ Overwritten(x)},
    done   <- committed

(* The archiver keeps a sink's promise: offsets only advance, over records the  *)
(* archive has, and a record with a committed offset is taken out of it only by    *)
(* a file of the same name.                                                 *)
ImplementsDurable == Promise!Spec

-----------------------------------------------------------------------------
(* The strengthening under which CommittedArchived is inductive.             *)

(* x is in a file named by the times of records in S, and in its range.       *)
Held(x, S) ==
    \E q \in DOMAIN archive :
       /\ q.dir = Directory(Record(x))
       /\ Record(x) \in archive[q]
       /\ q.first <= Record(x).ts /\ Record(x).ts <= q.last
       /\ Named(q, S)

(* A committed record is in a file named by committed records, or its name was     *)
(* used again; a pending one whose directory is written is in a file named by      *)
(* pending records.                                                        *)
FileInv ==
    /\ \A x \in Committed : Held(x, Committed) \/ Overwritten(x)
    /\ Flushing =>
         \A x \in pending : Directory(Record(x)) \in unwritten \/ Held(x, pending)

(* What is committed or written is held by a file that stays: the inductive   *)
(* invariant behind CommittedArchived.                                      *)
ArchiveInv == BatchInv /\ FileInv

-----------------------------------------------------------------------------
(* A statement of the documentation that the code does not keep.            *)

(* README.md:125: "Undecodable records are kept under dt=unknown/ with their bytes  *)
(* in raw."  Every record whose offset is committed is in the archive.          *)
ArchiveComplete == \A x \in Committed : Archived(x)
=============================================================================
