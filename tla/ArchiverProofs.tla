--------------------------- MODULE ArchiverProofs ---------------------------
(***************************************************************************)
(* The archiver keeps what it commits, for every topic, re-sent copies and        *)
(* shared timestamps included, every batch size and any number of crashes, but    *)
(* for the files whose name a later batch uses again.                         *)
(***************************************************************************)
EXTENDS Archiver, ConsumeProofs

(* The archiver's steps are the loop's, with files beside them.               *)
LEMMA LoopInit == Init => ConsumeTypeOK /\ BatchInv /\ DecodedInv
BY BatchInit DEF Init

LEMMA LoopStep ==
    ConsumeTypeOK /\ BatchInv /\ DecodedInv /\ [Next]_vars
      => ConsumeTypeOK' /\ BatchInv' /\ DecodedInv'
<1> SUFFICES ASSUME ConsumeTypeOK, BatchInv, DecodedInv, [Next]_vars
             PROVE  ConsumeTypeOK' /\ BatchInv' /\ DecodedInv'
  OBVIOUS
<1>1. crashes' \in Nat
  BY DEF ConsumeTypeOK, Next, vars, consumeVars, Start, Poll, Flush, StartFlush, WriteFile,
         Commit, CommitOffsets, Exit, Stop, Counted
<1>2. \/ Start \/ Poll \/ LastPoll \/ StartFlush \/ CommitOffsets \/ Stop
      \/ UNCHANGED <<cpc, position, committed, pending>>
  BY DEF Next, vars, consumeVars, Flush, WriteFile, Commit, Exit, Close
<1> QED BY <1>1, <1>2, BatchStep

-----------------------------------------------------------------------------
(* The files.                                                              *)

LEMMA FileInit == Init => FileInv
<1> SUFFICES ASSUME Init PROVE FileInv
  OBVIOUS
<1>1. ASSUME NEW x \in Position PROVE x \notin Committed
  <2> PICK p \in Partitions, i \in Nat : x = <<p, i>> /\ 0 < i
    BY PositionFacts
  <2> QED BY DEF Committed, Init, ConsumeInit
<1>2. Committed = {}
  BY <1>1 DEF Committed
<1> QED BY <1>2 DEF FileInv, Init, ConsumeInit

(* A file that holds a committed record is named by committed records: when a     *)
(* flush replaces it, it keeps its rows or its name is counted as reused.          *)
LEMMA FileStep == ConsumeTypeOK /\ BatchInv /\ FileInv /\ [Next]_vars => FileInv'
<1> SUFFICES ASSUME ConsumeTypeOK, BatchInv, FileInv, [Next]_vars PROVE FileInv'
  OBVIOUS
<1>n. ASSUME NEW S, NEW T, S \subseteq T, NEW q, Named(q, S) PROVE Named(q, T)
  BY <1>n DEF Named
<1>c. ASSUME UNCHANGED <<archive, reused, committed>>,
             Flushing' => \A x \in pending' : Directory(Record(x)) \in unwritten' \/ Held(x, pending)'
      PROVE  FileInv'
  <2>1. Committed' = Committed
    BY <1>c DEF Committed
  <2>2. \A x \in Committed : (Held(x, Committed) \/ Overwritten(x))'
    BY <2>1, <1>c DEF FileInv, Held, Named, Overwritten
  <2> QED BY <1>c, <2>1, <2>2 DEF FileInv
<1>1. CASE (Start \/ Poll \/ Exit) /\ UNCHANGED <<archive, reused>>
  BY <1>1, <1>c DEF Start, Poll, Gather, Exit, Stop, Flushing
<1>2. CASE Flush
  BY <1>2, <1>c DEF Flush, StartFlush
<1>3. ASSUME NEW dir \in unwritten, WriteFile(dir) PROVE FileInv'
  <2>1. PICK first \in Group(dir), last \in Group(dir) :
          /\ \A x \in Group(dir) : Record(first).ts <= Record(x).ts /\ Record(x).ts <= Record(last).ts
          /\ PutFile([dir |-> dir, first |-> Record(first).ts, last |-> Record(last).ts],
                     {Record(x) : x \in Group(dir)})
    BY <1>3 DEF WriteFile
  <2> DEFINE path == [dir |-> dir, first |-> Record(first).ts, last |-> Record(last).ts]
             content == {Record(x) : x \in Group(dir)}
  <2>2. /\ cpc # "down" /\ Flushing /\ Flushing' /\ UNCHANGED <<committed, pending>>
        /\ unwritten' = unwritten \ {dir}
    BY <1>3 DEF WriteFile, consumeVars, Flushing
  <2>3. Committed' = Committed
    BY <2>2 DEF Committed
  <2>4. /\ path \in DOMAIN archive' /\ archive'[path] = content
        /\ \A q \in DOMAIN archive : q # path => q \in DOMAIN archive' /\ archive'[q] = archive[q]
        /\ path.dir = dir /\ path.first = Record(first).ts /\ path.last = Record(last).ts
    BY <2>1 DEF PutFile
  <2>5. /\ reused \subseteq reused'
        /\ path \in DOMAIN archive /\ Named(path, Committed) /\ ~(archive[path] \subseteq content)
             => path \in reused'
    BY <2>1 DEF PutFile
  <2>6. /\ first \in pending /\ Directory(Record(first)) = dir
        /\ last \in pending /\ Directory(Record(last)) = dir
    BY DEF Group
  <2>7. Named(path, pending)
    BY <2>4, <2>6 DEF Named
  <2>8. \A x \in Group(dir) : path.first <= Record(x).ts /\ Record(x).ts <= path.last
    BY <2>1, <2>4
  <2>9. \A x : Overwritten(x) => Overwritten(x)'
    BY <2>5 DEF Overwritten
  <2> HIDE DEF path, content
  <2>10. ASSUME NEW x \in Committed, Held(x, Committed) PROVE (Held(x, Committed) \/ Overwritten(x))'
    <3> PICK q \in DOMAIN archive :
          /\ q.dir = Directory(Record(x)) /\ Record(x) \in archive[q]
          /\ q.first <= Record(x).ts /\ Record(x).ts <= q.last
          /\ Named(q, Committed)
      BY <2>10 DEF Held
    <3>1. Named(q, Committed)'
      BY <2>3 DEF Named
    <3>2. CASE q # path \/ archive[q] \subseteq content
      <4>1. q \in DOMAIN archive' /\ Record(x) \in archive'[q]
        BY <2>4, <3>2
      <4> QED BY <3>1, <4>1 DEF Held
    <3>3. CASE q = path /\ ~(archive[q] \subseteq content)
      BY <2>5, <3>3 DEF Overwritten
    <3> QED BY <3>2, <3>3
  <2>11. ASSUME NEW x \in Committed PROVE (Held(x, Committed) \/ Overwritten(x))'
    BY <2>9, <2>10 DEF FileInv
  <2>12. ASSUME NEW x \in pending, Directory(Record(x)) \notin unwritten'
        PROVE  Held(x, pending)'
    <3>1. CASE Directory(Record(x)) = dir
      <4>1. x \in Group(dir) /\ Record(x) \in content
        BY <3>1 DEF content, Group
      <4>2. Named(path, pending)'
        BY <2>2, <2>7 DEF Named
      <4> QED BY <3>1, <4>1, <4>2, <2>4, <2>8 DEF Held
    <3>2. CASE Directory(Record(x)) # dir
      <4> PICK q \in DOMAIN archive :
            /\ q.dir = Directory(Record(x)) /\ Record(x) \in archive[q]
            /\ q.first <= Record(x).ts /\ Record(x).ts <= q.last
            /\ Named(q, pending)
        BY <2>2, <2>12, <3>2 DEF FileInv, Held
      <4>1. q # path
        BY <3>2, <2>4
      <4>2. Named(q, pending)'
        BY <2>2 DEF Named
      <4> QED BY <2>4, <4>1, <4>2 DEF Held
    <3> QED BY <3>1, <3>2
  <2> QED BY <2>2, <2>3, <2>11, <2>12 DEF FileInv
<1>4. CASE Commit
  <2>1. /\ Flushing /\ ~Flushing' /\ unwritten = {}
        /\ UNCHANGED <<archive, reused>>
    BY <1>4 DEF Commit, CommitOffsets, Flushing
  <2>2. Committed' = Committed \cup pending
    BY <1>4, CommitFacts DEF Commit
  <2>3. \A x \in Committed : Held(x, Committed) \/ Overwritten(x)
    BY DEF FileInv
  <2>4. \A x \in pending : Held(x, pending)
    BY <2>1 DEF FileInv
  <2>5. PICK T : T = Committed \cup pending
    OBVIOUS
  <2>6. \A x \in T : Held(x, T) \/ Overwritten(x)
    BY <2>3, <2>4, <2>5, <1>n DEF Held
  <2>7. \A x \in Committed' : (Held(x, Committed) \/ Overwritten(x))'
    BY <2>1, <2>2, <2>5, <2>6 DEF Held, Named, Overwritten
  <2> QED BY <2>1, <2>7 DEF FileInv
<1>5. CASE Close
  BY <1>5, <1>c DEF Close, LastPoll
<1>6. CASE UNCHANGED vars
  BY <1>6 DEF vars, consumeVars, FileInv, Held, Named, Overwritten, Committed, Flushing
<1> QED BY <1>1, <1>2, <1>3, <1>4, <1>5, <1>6 DEF Next, Exit

(* What is held is read back.                                               *)
LEMMA FilesRead == FileInv => CommittedArchived
<1> SUFFICES ASSUME FileInv, NEW x \in Committed
             PROVE  Archived(x) \/ Overwritten(x)
  BY DEF CommittedArchived
<1>1. Held(x, Committed) \/ Overwritten(x)
  BY DEF FileInv
<1> QED BY <1>1 DEF Held, Archived, ReadDay

(* Whatever is re-sent, re-read or shares its time with another record: no crash   *)
(* between writing files and committing offsets, and no later batch, takes a         *)
(* committed record out of the archive, unless that batch's first and last records    *)
(* have the times of committed ones that named the record's file.                 *)
THEOREM ArchiveKept == Spec => []CommittedArchived
BY LoopInit, LoopStep, FileInit, FileStep, FilesRead, PTL DEF Spec

-----------------------------------------------------------------------------
(* The refinement: a commit is a commit of the sink, every other step stores  *)
(* or changes nothing.                                                      *)

LEMMA PromiseInit == Init => Promise!Init
<1> SUFFICES ASSUME Init PROVE Promise!Init
  OBVIOUS
<1>1. archive = << >> /\ reused = {} /\ committed = [p \in Partitions |-> 0]
  BY DEF Init, ConsumeInit
<1>2. \A x : ~Archived(x) /\ ~Overwritten(x)
  BY <1>1 DEF Archived, ReadDay, Overwritten
<1> QED BY <1>1, <1>2 DEF Promise!Init

LEMMA PromiseStep ==
    ConsumeTypeOK /\ BatchInv /\ CommittedArchived' /\ [Next]_vars
      => [Promise!Next]_(Promise!vars)
<1> SUFFICES ASSUME ConsumeTypeOK, BatchInv, CommittedArchived', [Next]_vars
             PROVE  Promise!Next
  OBVIOUS
<1>1. Committed' \subseteq {x \in Position : Archived(x) \/ Overwritten(x)}'
  BY DEF CommittedArchived, Committed
<1>2. ASSUME UNCHANGED committed PROVE Promise!Store
  <2>1. Committed' = Promise!Owed(committed)
    BY <1>2 DEF Committed, Promise!Owed
  <2> QED BY <1>1, <1>2, <2>1 DEF Promise!Store
<1>3. CASE Commit
  <2>1. cpc # "down" /\ committed' = position /\ UNCHANGED <<archive, reused>>
    BY <1>3 DEF Commit, CommitOffsets, Flushing
  <2>2. \A p \in Partitions : committed[p] <= committed'[p]
    BY <2>1 DEF BatchInv
  <2>3. Promise!Owed(committed') = Committed'
    BY DEF Committed, Promise!Owed
  <2>4. \A x : (Archived(x)' <=> Archived(x)) /\ (Overwritten(x)' <=> Overwritten(x))
    BY <2>1 DEF Archived, ReadDay, Overwritten
  <2>5. UNCHANGED {x \in Position : Archived(x) \/ Overwritten(x)}
    BY <2>4
  <2> QED BY <1>1, <2>2, <2>3, <2>5 DEF Promise!Next, Promise!Commit
<1>4. CASE ~Commit
  <2>1. UNCHANGED committed
    BY <1>4 DEF Next, vars, consumeVars, Start, Poll, Gather, Flush, StartFlush, WriteFile,
               Exit, Stop, Close, LastPoll
  <2> QED BY <1>2, <2>1 DEF Promise!Next
<1> QED BY <1>3, <1>4

(* For every topic the archiver implements the promise of a sink: the offsets      *)
(* flush commits only advance, over records that are in the archive, and a file      *)
(* takes one of them out only by having the name of the file it was in.            *)
THEOREM ArchiverImplementsDurable == Spec => ImplementsDurable
BY LoopInit, LoopStep, FileInit, FileStep, FilesRead, PromiseInit, PromiseStep, PTL
   DEF Spec, ImplementsDurable, Promise!Spec
=============================================================================
