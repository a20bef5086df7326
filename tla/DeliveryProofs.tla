--------------------------- MODULE DeliveryProofs ---------------------------
(***************************************************************************)
(* Proofs about Delivery for every number of lines, every batch size, every *)
(* set of handlers and every budget of faults.                             *)
(***************************************************************************)
EXTENDS Delivery, FiniteSetTheorems, FunctionTheorems, TLAPS

-----------------------------------------------------------------------------
(* Facts about the operators.                                              *)

(* The positions append keeps form a finite set of naturals.               *)
LEMMA KeptFinite ==
    ASSUME NEW lines \in Seq(Nat)
    PROVE  /\ IsFiniteSet(Kept(lines))
           /\ Kept(lines) \subseteq Nat
           /\ \A i \in Kept(lines) : lines[i] \in Nat
<1>1. IsFiniteSet(DOMAIN lines)
  <2>1. DOMAIN lines = 1..Len(lines) /\ Len(lines) \in Nat
    OBVIOUS
  <2> QED BY <2>1, FS_Interval
<1>2. Kept(lines) \in SUBSET DOMAIN lines
  BY DEF Kept
<1>3. IsFiniteSet(Kept(lines))
  BY <1>1, <1>2, FS_Subset
<1> QED BY <1>2, <1>3

(* The rank of a kept line among the kept ones: between 1 and their number, *)
(* increasing.                                                             *)
LEMMA RankFacts ==
    ASSUME NEW K \in SUBSET Nat, IsFiniteSet(K)
    PROVE  LET Rank(i) == Cardinality({j \in K : j <= i})
           IN  /\ Cardinality(K) \in Nat
               /\ \A i \in K : Rank(i) \in 1..Cardinality(K)
               /\ \A i, k \in K : i < k => Rank(i) < Rank(k)
               /\ \A i, k \in K : Rank(i) = Rank(k) => i = k
<1> DEFINE Upto(i) == {j \in K : j <= i}
<1>1. \A i \in K : IsFiniteSet(Upto(i)) /\ Cardinality(Upto(i)) \in Nat
                    /\ Cardinality(Upto(i)) <= Cardinality(K)
  <2> TAKE i \in K
  <2>1. Upto(i) \in SUBSET K
    OBVIOUS
  <2> HIDE DEF Upto
  <2> QED BY <2>1, FS_Subset, FS_CardinalityType
<1>2. \A i \in K : Cardinality(Upto(i)) # 0
  <2> TAKE i \in K
  <2>1. i \in Upto(i)
    OBVIOUS
  <2> HIDE DEF Upto
  <2> QED BY <1>1, <2>1, FS_EmptySet
<1>3. ASSUME NEW i \in K, NEW k \in K, i < k
      PROVE  Cardinality(Upto(i)) < Cardinality(Upto(k))
  <2>0. i \in Nat /\ k \in Nat
    OBVIOUS
  <2>1. \A j \in K : j <= i => j <= k
    BY <1>3, <2>0
  <2>2. ~(k <= i) /\ k <= k
    BY <1>3, <2>0
  <2>3. Upto(i) \in SUBSET Upto(k) /\ k \in Upto(k) /\ k \notin Upto(i)
    BY <2>1, <2>2
  <2> HIDE DEF Upto
  <2>4. Cardinality(Upto(i)) # Cardinality(Upto(k)) /\ Cardinality(Upto(i)) <= Cardinality(Upto(k))
    BY <1>1, <2>3, FS_Subset
  <2> QED BY <2>4, <1>1
<1>4. Cardinality(K) \in Nat
  BY FS_CardinalityType
<1>5. \A i, k \in K : i < k \/ k < i \/ i = k
  OBVIOUS
<1>6. \A i, k \in K : Cardinality(Upto(i)) = Cardinality(Upto(k)) => i = k
  <2> HIDE DEF Upto
  <2> QED BY <1>1, <1>3, <1>5
<1> QED BY <1>1, <1>2, <1>3, <1>4, <1>6

(* What INSERT adds: finitely many events with distinct ids just above last.*)
LEMMA InsertedFacts ==
    ASSUME NEW lines \in Seq(Nat), NEW last \in Nat
    PROVE  LET new == Inserted(lines, last)
           IN  /\ new \subseteq Event
               /\ IsFiniteSet(new)
               /\ UniqueIds(new)
               /\ \A e \in new : last < e.id /\ e.id <= last + Cardinality(new)
<1> DEFINE K == Kept(lines)
           Rank(i) == Cardinality({j \in K : j <= i})
           Row(i) == [id |-> last + Rank(i), line |-> lines[i]]
           new == {Row(i) : i \in K}
           f == [i \in K |-> Row(i)]
<1>1. K \in SUBSET Nat /\ IsFiniteSet(K) /\ \A i \in K : lines[i] \in Nat
  BY KeptFinite
<1>2. /\ Cardinality(K) \in Nat
      /\ \A i \in K : Rank(i) \in 1..Cardinality(K)
      /\ \A i, k \in K : Rank(i) = Rank(k) => i = k
  <2> HIDE DEF K
  <2> QED BY <1>1, RankFacts
<1>3. Inserted(lines, last) = new
  BY DEF Inserted
<1> HIDE DEF K, Rank
<1>4. \A i, k \in K : last + Rank(i) = last + Rank(k) => i = k
  BY <1>2
<1>5. f \in Bijection(K, new)
  <2>1. f \in [K -> new]
    OBVIOUS
  <2>2. \A a, b \in K : f[a] = f[b] => a = b
    BY <1>4
  <2>3. \A t \in new : \E s \in K : f[s] = t
    OBVIOUS
  <2> QED BY <2>1, <2>2, <2>3, Fun_IsBij
<1>6. IsFiniteSet(new) /\ Cardinality(new) = Cardinality(K)
  <2>1. ExistsBijection(K, new)
    BY <1>5 DEF ExistsBijection
  <2> HIDE DEF new
  <2> QED BY <1>1, <2>1, FS_Bijection
<1>7. new \subseteq Event
  <2> SUFFICES ASSUME NEW i \in K PROVE Row(i) \in Event
    OBVIOUS
  <2>1. last + Rank(i) \in Nat /\ lines[i] \in Nat
    BY <1>1, <1>2
  <2> QED BY <2>1 DEF Event
<1>8. UniqueIds(new)
  <2> SUFFICES ASSUME NEW i \in K, NEW k \in K, Row(i).id = Row(k).id
               PROVE  Row(i) = Row(k)
    BY DEF UniqueIds
  <2> QED BY <1>4
<1>9. \A e \in new : last < e.id /\ e.id <= last + Cardinality(new)
  <2> SUFFICES ASSUME NEW i \in K
               PROVE  last < Row(i).id /\ Row(i).id <= last + Cardinality(new)
    OBVIOUS
  <2>1. Row(i).id = last + Rank(i)
    OBVIOUS
  <2> QED BY <2>1, <1>2, <1>6
<1> QED BY <1>3, <1>6, <1>7, <1>8, <1>9

-----------------------------------------------------------------------------
(* Type correctness.                                                       *)

(* Every step keeps the types; Insert and Commit need the transaction to be  *)
(* finite, the other steps only move values the types already cover.        *)
LEMMA TypeStep == TypeOK /\ [Next]_vars => TypeOK'
<1> SUFFICES ASSUME TypeOK, [Next]_vars PROVE TypeOK'
  OBVIOUS
<1> USE DEF TypeOK, StationTypeOK, WireTypeOK
<1>w. ASSUME UNCHANGED wireVars PROVE WireTypeOK'
  BY <1>w DEF wireVars
<1>f. ASSUME NEW f \in Faults, Fault(f) PROVE faults' \in [Faults -> Nat]
  BY <1>f DEF Fault
<1>n. Faults = {"kill", "signal", "sqlite", "power", "net", "server"}
  BY DEF Faults
<1>1. CASE StartIngest \/ Connect \/ FlushDue \/ FeedLost \/ Clear
  <2>1. CASE StartIngest \/ Connect \/ FlushDue
    BY <2>1, <1>w DEF StartIngest, Connect, FlushDue, bufferVars, publishVars
  <2>2. CASE FeedLost
    BY <2>2, <1>w DEF FeedLost, bufferVars, publishVars
  <2>3. CASE Clear
    <3>1. ipc' \in {"reading", "connecting", "down"} /\ pending' \in Seq(Nat)
      BY <2>3 DEF Clear
    <3> QED BY <2>3, <3>1, <1>w DEF Clear, bufferVars, publishVars
  <2> QED BY <1>1, <2>1, <2>2, <2>3
<1>2. CASE \E line \in {Blank, 1} : Read(line)
  <2> PICK line \in {Blank, 1} : Read(line)
    BY <1>2
  <2>1. heard' \in Nat /\ pending' \in Seq(Nat)
    BY DEF Read, Blank
  <2> QED BY <2>1, <1>w DEF Read, bufferVars, publishVars
<1>3. CASE Insert
  <2>1. seq + Cardinality(txn) \in Nat
    BY FS_CardinalityType
  <2>2. /\ Inserted(pending, seq + Cardinality(txn)) \subseteq Event
        /\ IsFiniteSet(Inserted(pending, seq + Cardinality(txn)))
    BY <2>1, InsertedFacts
  <2>3. txn' \subseteq Event /\ IsFiniteSet(txn')
    BY <1>3, <2>2, FS_Union DEF Insert
  <2> QED BY <1>3, <2>3, <1>w DEF Insert, publishVars
<1>4. CASE Commit
  <2>1. seq' \in Nat /\ IsFiniteSet(txn')
    BY <1>4, FS_CardinalityType, FS_EmptySet DEF Commit
  <2>2. Lines(txn) \subseteq Nat
    BY DEF Lines, Event
  <2> QED BY <1>4, <2>1, <2>2, <1>w DEF Commit, publishVars
<1>5. CASE Signal \/ SqliteError \/ KillIngest
  <2>1. faults' \in [Faults -> Nat]
    BY <1>5, <1>f, <1>n DEF Signal, SqliteError, KillIngest
  <2>2. /\ ipc' \in {"down", "insert"} /\ why' \in {"loop", "exit"}
        /\ pending' \in Seq(Nat) /\ txn' \subseteq Event /\ IsFiniteSet(txn')
    <3>1. IngestGone \/ (ipc' = "insert" /\ why' = "exit" /\ UNCHANGED <<pending, txn>>)
      BY <1>5 DEF Signal, SqliteError, KillIngest, Unwind
    <3>2. CASE IngestGone
      BY <3>2, FS_EmptySet DEF IngestGone
    <3> QED BY <3>1, <3>2
  <2> QED BY <1>5, <2>1, <2>2 DEF Signal, SqliteError, KillIngest, publishVars
<1>6. CASE StartPublish \/ PostSucceeds \/ PostRefused \/ PostDisconnected
  BY <1>6 DEF StartPublish, PostSucceeds, PostRefused, PostDisconnected,
              ingestVars, bufferVars, wireVars
<1>7. CASE GiveUp \/ PublishDies
  <2>1. faults' \in [Faults -> Nat]
    BY <1>7, <1>f, <1>n DEF GiveUp, PublishDies
  <2> QED BY <1>7, <2>1 DEF GiveUp, PublishDies, ingestVars, bufferVars
<1>8. CASE Post
  <2>1. batch' \subseteq Event
    BY <1>8 DEF Post, NextBatch
  <2>2. peer' \in Handlers
    BY <1>8 DEF Post
  <2>3. handler' \in [Handlers -> [phase : {"idle", "received", "producing"},
                                   batch : SUBSET Event, todo : SUBSET Event]]
    BY <1>8, <2>1 DEF Post
  <2> QED BY <1>8, <2>1, <2>2, <2>3 DEF Post, ingestVars, bufferVars
<1>9. CASE Ack
  BY <1>9, <1>w DEF Ack, Acked, ingestVars
<1>10. CASE Sync \/ Boot
  <2>1. CASE Sync
    BY <2>1, <1>w DEF Sync, ingestVars, publishVars
  <2>2. CASE Boot
    BY <2>2, <1>w DEF Boot, bufferVars
  <2> QED BY <1>10, <2>1, <2>2
<1>11. CASE PowerLoss
  <2>1. faults' \in [Faults -> Nat]
    BY <1>11, <1>f, <1>n DEF PowerLoss
  <2> QED BY <1>11, <2>1, FS_EmptySet DEF PowerLoss
<1>12. CASE Gateway /\ UNCHANGED stationVars
  <2>0. StationTypeOK'
    BY <1>12 DEF stationVars, ingestVars, bufferVars, publishVars
  <2>1. Idle \in [phase : {"idle", "received", "producing"},
                  batch : SUBSET Event, todo : SUBSET Event]
    BY DEF Idle
  <2>2. ASSUME NEW h \in Handlers, Accept(h) PROVE WireTypeOK'
    BY <2>2 DEF Accept
  <2>3. ASSUME NEW h \in Handlers, Reject(h) \/ Answer(h) PROVE WireTypeOK'
    <3>1. \E s \in {"ok", "error"} : Return(h, s)
      BY <2>3 DEF Reject, Answer
    <3>2. UNCHANGED <<log, faults>>
      BY <2>3 DEF Reject, Answer
    <3> QED BY <2>1, <3>1, <3>2 DEF Return
  <2>4. ASSUME NEW h \in Handlers, Produce(h) PROVE WireTypeOK'
    <3> PICK e \in handler[h].todo :
              /\ log' = Append(log, e)
              /\ handler' = [handler EXCEPT ![h].todo = @ \ {e}]
      BY <2>4 DEF Produce
    <3>1. log' \in Seq(Event)
      OBVIOUS
    <3> QED BY <2>4, <3>1 DEF Produce
  <2>5. ASSUME NEW h \in Handlers, Fail(h) PROVE WireTypeOK'
    <3>1. faults' \in [Faults -> Nat]
      BY <2>5, <1>f, <1>n DEF Fail
    <3> QED BY <2>1, <2>5, <3>1 DEF Fail, Return
  <2>6. ASSUME Crash PROVE WireTypeOK'
    <3>1. faults' \in [Faults -> Nat]
      BY <2>6, <1>f, <1>n DEF Crash
    <3> QED BY <2>1, <2>6, <3>1 DEF Crash
  <2> QED BY <1>12, <2>0, <2>2, <2>3, <2>4, <2>5, <2>6 DEF Gateway, Serve
<1>13. CASE UNCHANGED vars
  BY <1>13 DEF vars, stationVars, ingestVars, bufferVars, publishVars, wireVars
<1> QED BY <1>1, <1>2, <1>3, <1>4, <1>5, <1>6, <1>7, <1>8, <1>9, <1>10, <1>11,
           <1>12, <1>13 DEF Next, Ingest, Publish, Machine

LEMMA TypeInit == Init => TypeOK
BY FS_EmptySet DEF Init, StationInit, WireInit, TypeOK, StationTypeOK, WireTypeOK, Idle, Faults

(* The state of station, buffer, publisher, gateway and topic always has the *)
(* types declared for it.                                                  *)
THEOREM TypeCorrect == Spec => []TypeOK
BY TypeInit, TypeStep, PTL DEF Spec

-----------------------------------------------------------------------------
(* No accepted event is lost.                                              *)

LEMMA InvInit == Init => DeliveryInv
<1> SUFFICES ASSUME Init PROVE DeliveryInv
  OBVIOUS
<1> USE DEF Init, StationInit, WireInit
<1>1. BufferInv
  BY DEF BufferInv, UniqueIds
<1>2. HandlerInv
  BY DEF HandlerInv, Idle
<1>3. PublishInv
  BY DEF PublishInv
<1>4. LossInv
  BY DEF LossInv, NoAcceptedEventLost
<1> QED BY <1>1, <1>2, <1>3, <1>4 DEF DeliveryInv

(* Ids stay unique: INSERT numbers on from the counter, a commit moves the   *)
(* counter past what it adds, a DELETE only shrinks the table, and a power   *)
(* loss restores rows and counter together.                                *)
LEMMA BufferStep == TypeOK /\ BufferInv /\ [Next]_vars => BufferInv'
<1> SUFFICES ASSUME TypeOK, BufferInv, [Next]_vars PROVE BufferInv'
  OBVIOUS
<1> USE DEF BufferInv
<1>t. /\ seq \in Nat /\ IsFiniteSet(txn) /\ Cardinality(txn) \in Nat
      /\ txn \subseteq Event /\ rows \subseteq Event /\ pending \in Seq(Nat)
      /\ disk.rows \subseteq Event /\ disk.seq \in Nat
  BY FS_CardinalityType DEF TypeOK, StationTypeOK
<1>u. ASSUME UNCHANGED <<rows, seq, disk>>, txn' = txn \/ txn' = {} PROVE BufferInv'
  <2>1. CASE txn' = txn
    BY <1>u, <2>1 DEF UniqueIds
  <2>2. CASE txn' = {}
    BY <1>u, <2>2 DEF UniqueIds
  <2> QED BY <1>u, <2>1, <2>2
<1>1. CASE Insert
  <2> DEFINE last == seq + Cardinality(txn)
             new == Inserted(pending, last)
  <2>1. last \in Nat
    BY <1>t
  <2>2. /\ new \subseteq Event /\ IsFiniteSet(new) /\ UniqueIds(new)
        /\ Cardinality(new) \in Nat
        /\ \A e \in new : last < e.id /\ e.id <= last + Cardinality(new)
    BY <2>1, <1>t, InsertedFacts, FS_CardinalityType
  <2>3. txn' = txn \cup new /\ UNCHANGED <<rows, seq, disk>>
    BY <1>1 DEF Insert
  <2> HIDE DEF new
  <2>4. \A e \in txn, f \in new : e.id < f.id
    BY <1>t, <2>1, <2>2 DEF Event
  <2>5. Cardinality(txn') = Cardinality(txn) + Cardinality(new)
    <3>1. txn \cap new = {}
      BY <2>4, <1>t DEF Event
    <3>2. Cardinality(txn \cup new)
             = Cardinality(txn) + Cardinality(new) - Cardinality(txn \cap new)
      BY <2>2, <1>t, FS_Union
    <3>3. Cardinality(txn \cap new) = 0
      BY <3>1, FS_EmptySet
    <3> QED BY <3>2, <3>3, <2>2, <2>3, <1>t
  <2>6. UniqueIds(txn')
    BY <2>2, <2>3, <2>4, <1>t DEF UniqueIds, Event
  <2>7. \A e \in txn' : seq < e.id /\ e.id <= seq + Cardinality(txn')
    BY <1>t, <2>2, <2>3, <2>5 DEF Event
  <2> QED BY <2>3, <2>6, <2>7 DEF UniqueIds
<1>2. CASE Commit
  <2>1. /\ rows' = rows \cup txn /\ seq' = seq + Cardinality(txn)
        /\ txn' = {} /\ UNCHANGED disk
    BY <1>2 DEF Commit
  <2>2. \A e \in rows, f \in txn : e.id < f.id
    BY <1>t DEF Event
  <2>3. UniqueIds(rows')
    BY <2>1, <2>2, <1>t DEF UniqueIds, Event
  <2>4. \A e \in rows' : e.id <= seq'
    BY <2>1, <1>t DEF Event
  <2> QED BY <2>1, <2>3, <2>4 DEF UniqueIds
<1>3. CASE Ack
  <2>1. rows' \subseteq rows /\ UNCHANGED <<seq, txn, disk>>
    BY <1>3 DEF Ack, Acked
  <2> QED BY <2>1 DEF UniqueIds
<1>4. CASE Sync
  <2>1. /\ disk'.rows = rows /\ disk'.seq = seq
        /\ UNCHANGED <<rows, seq, txn>>
    BY <1>4 DEF Sync
  <2> QED BY <2>1 DEF UniqueIds
<1>5. CASE PowerLoss
  <2>1. rows' = disk.rows /\ seq' = disk.seq /\ txn' = {} /\ UNCHANGED disk
    BY <1>5 DEF PowerLoss
  <2> QED BY <2>1 DEF UniqueIds
<1>6. CASE Signal \/ SqliteError \/ KillIngest
  BY <1>6, <1>u DEF Signal, SqliteError, KillIngest, Unwind, IngestGone
<1>7. CASE \/ StartIngest \/ Connect \/ (\E line \in {Blank, 1} : Read(line))
           \/ FlushDue \/ FeedLost \/ Clear
  BY <1>7, <1>u DEF StartIngest, Connect, Read, FlushDue, FeedLost, Clear, bufferVars
<1>8. CASE \/ StartPublish \/ Post \/ PostSucceeds \/ PostRefused
           \/ GiveUp \/ PostDisconnected \/ PublishDies \/ Boot
  BY <1>8, <1>u DEF StartPublish, Post, PostSucceeds, PostRefused, GiveUp,
                    PostDisconnected, PublishDies, Boot, bufferVars
<1>9. CASE (Gateway /\ UNCHANGED stationVars) \/ UNCHANGED vars
  BY <1>9, <1>u DEF vars, stationVars, bufferVars
<1> QED BY <1>1, <1>2, <1>3, <1>4, <1>5, <1>6, <1>7, <1>8, <1>9
        DEF Next, Ingest, Publish, Machine

(* The topic only grows.                                                   *)
LEMMA PublishedGrows ==
    TypeOK /\ [Next]_vars =>
       \/ Published' = Published
       \/ \E h \in Handlers : \E e \in handler[h].todo :
             /\ Produce(h)
             /\ handler' = [handler EXCEPT ![h].todo = @ \ {e}]
             /\ Published' = Published \cup {e}
<1> SUFFICES ASSUME TypeOK, [Next]_vars
             PROVE  \/ Published' = Published
                    \/ \E h \in Handlers : \E e \in handler[h].todo :
                         /\ Produce(h)
                         /\ handler' = [handler EXCEPT ![h].todo = @ \ {e}]
                         /\ Published' = Published \cup {e}
  OBVIOUS
<1>1. CASE UNCHANGED log
  BY <1>1 DEF Published
<1>2. CASE \E h \in Handlers : Produce(h)
  <2> PICK h \in Handlers : Produce(h)
    BY <1>2
  <2> PICK e \in handler[h].todo :
            /\ log' = Append(log, e)
            /\ handler' = [handler EXCEPT ![h].todo = @ \ {e}]
    BY DEF Produce
  <2>1. log \in Seq(Event) /\ e \in Event
    BY DEF TypeOK, WireTypeOK
  <2>2. /\ DOMAIN log' = DOMAIN log \cup {Len(log) + 1}
        /\ log'[Len(log) + 1] = e
        /\ \A i \in DOMAIN log : log'[i] = log[i]
    BY <2>1
  <2>3. Published' = Published \cup {e}
    BY <2>2 DEF Published
  <2> QED BY <2>3
<1>3. (\E h \in Handlers : Produce(h)) \/ UNCHANGED log
  BY DEF Next, Ingest, Publish, Machine, Gateway, Serve, vars, wireVars,
         StartIngest, Connect, Read, FlushDue, FeedLost, Insert, Commit, Clear,
         Signal, SqliteError, KillIngest, StartPublish, Post, PostSucceeds,
         PostRefused, GiveUp, PostDisconnected, Ack, PublishDies, Sync,
         PowerLoss, Boot, Accept, Reject, Answer, Fail, Crash
<1> QED BY <1>1, <1>2, <1>3

(* A handler starts with everything to do, and stops having to do an event   *)
(* only by producing it.                                                   *)
LEMMA HandlerStep == TypeOK /\ HandlerInv /\ [Next]_vars => HandlerInv'
<1> SUFFICES ASSUME TypeOK, HandlerInv, [Next]_vars PROVE HandlerInv'
  OBVIOUS
<1>t. handler \in [Handlers -> [phase : {"idle", "received", "producing"},
                               batch : SUBSET Event, todo : SUBSET Event]]
  BY DEF TypeOK, WireTypeOK
<1>g. Published \subseteq Published'
  BY PublishedGrows
<1>u. ASSUME handler' = handler PROVE HandlerInv'
  BY <1>u, <1>g DEF HandlerInv
<1>r. ASSUME NEW h \in Handlers, handler' = [handler EXCEPT ![h] = Idle]
      PROVE  HandlerInv'
  BY <1>r, <1>g, <1>t DEF HandlerInv, Idle
<1>1. CASE Post
  <2> PICK h \in Handlers :
        handler' = [handler EXCEPT ![h] = [phase |-> "received",
                                           batch |-> batch', todo |-> batch']]
    BY <1>1 DEF Post
  <2> QED BY <1>t, <1>g DEF HandlerInv
<1>2. CASE \E h \in Handlers : Accept(h)
  <2> PICK h \in Handlers : Accept(h)
    BY <1>2
  <2>1. /\ handler' = [handler EXCEPT ![h].phase = "producing"]
        /\ handler[h].phase = "received"
    BY DEF Accept
  <2>2. /\ handler'[h].batch = handler[h].batch
        /\ handler'[h].todo = handler[h].batch
        /\ \A k \in Handlers : k # h => handler'[k] = handler[k]
    BY <2>1, <1>t DEF HandlerInv
  <2>3. ASSUME NEW k \in Handlers, k = h
        PROVE  /\ handler'[k].phase = "received" => handler'[k].todo = handler'[k].batch
               /\ handler'[k].batch \ handler'[k].todo \subseteq Published'
    BY <2>2, <2>3
  <2>4. ASSUME NEW k \in Handlers, k # h
        PROVE  /\ handler'[k].phase = "received" => handler'[k].todo = handler'[k].batch
               /\ handler'[k].phase = "producing" =>
                     handler'[k].batch \ handler'[k].todo \subseteq Published'
    BY <2>2, <2>4, <1>g DEF HandlerInv
  <2> QED BY <2>3, <2>4 DEF HandlerInv
<1>3. CASE \E h \in Handlers : Produce(h)
  <2>1. CASE Published' = Published
    <3> PICK h \in Handlers : Produce(h)
      BY <1>3
    <3> PICK e \in handler[h].todo :
              /\ log' = Append(log, e)
              /\ handler' = [handler EXCEPT ![h].todo = @ \ {e}]
      BY DEF Produce
    <3>1. log \in Seq(Event) /\ e \in Event
      BY DEF TypeOK, WireTypeOK
    <3>2. Len(log) + 1 \in DOMAIN log' /\ log'[Len(log) + 1] = e
      BY <3>1
    <3>3. e \in Published'
      BY <3>2 DEF Published
    <3>4. handler[h].phase = "producing"
      BY DEF Produce
    <3> QED BY <3>3, <3>4, <1>t, <1>g DEF HandlerInv
  <2>2. CASE Published' # Published
    <3> PICK h \in Handlers : \E e \in handler[h].todo :
              /\ Produce(h)
              /\ handler' = [handler EXCEPT ![h].todo = @ \ {e}]
              /\ Published' = Published \cup {e}
      BY <2>2, PublishedGrows
    <3>1. handler[h].phase = "producing"
      BY DEF Produce
    <3> QED BY <3>1, <1>t DEF HandlerInv
  <2> QED BY <2>1, <2>2
<1>4. CASE \E h \in Handlers : Reject(h) \/ Answer(h) \/ Fail(h)
  BY <1>4, <1>r DEF Reject, Answer, Fail, Return
<1>5. CASE Crash
  BY <1>5 DEF Crash, HandlerInv, Idle
<1>6. CASE \/ StartIngest \/ Connect \/ (\E line \in {Blank, 1} : Read(line))
           \/ FlushDue \/ FeedLost \/ Insert \/ Commit \/ Clear
           \/ Signal \/ SqliteError \/ KillIngest
  BY <1>6, <1>u DEF StartIngest, Connect, Read, FlushDue, FeedLost, Insert, Commit,
                    Clear, Signal, SqliteError, KillIngest, wireVars
<1>7. CASE \/ StartPublish \/ PostSucceeds \/ PostRefused \/ GiveUp
           \/ PostDisconnected \/ Ack \/ PublishDies \/ Machine \/ UNCHANGED vars
  BY <1>7, <1>u DEF StartPublish, PostSucceeds, PostRefused, GiveUp, PostDisconnected,
                    Ack, PublishDies, Machine, Sync, PowerLoss, Boot, vars, wireVars
<1> QED BY <1>1, <1>2, <1>3, <1>4, <1>5, <1>6, <1>7
        DEF Next, Ingest, Publish, Gateway, Serve

(* What the publisher believes about its batch stays true: no one but its   *)
(* own Ack removes rows, a request carries the batch it was sent with, and   *)
(* a handler answers 200 only with nothing left to produce.                 *)
LEMMA PublishStep ==
    TypeOK /\ HandlerInv /\ PublishInv /\ [Next]_vars => PublishInv'
<1> SUFFICES ASSUME TypeOK, HandlerInv, PublishInv, [Next]_vars PROVE PublishInv'
  OBVIOUS
<1>t. /\ handler \in [Handlers -> [phase : {"idle", "received", "producing"},
                                  batch : SUBSET Event, todo : SUBSET Event]]
      /\ peer \in Handlers \cup {NoPeer} /\ NoPeer \notin Handlers
  BY WireAssumption DEF TypeOK, WireTypeOK
<1>g. Published \subseteq Published'
  BY PublishedGrows
<1>u. ASSUME UNCHANGED <<publishVars, handler, peer, reply>>, rows \subseteq rows'
      PROVE  PublishInv'
  BY <1>u, <1>g DEF PublishInv, publishVars
<1>n. ASSUME ppc' \in {"off", "down", "idle"}, peer' = NoPeer, reply' = "none"
      PROVE  PublishInv'
  BY <1>n DEF PublishInv
<1>p. ppc \notin {"posting"} => peer = NoPeer /\ reply = "none"
  BY DEF PublishInv
<1>q. reply # "none" => peer = NoPeer
  BY DEF PublishInv
<1>1. CASE \/ StartIngest \/ Connect \/ (\E line \in {Blank, 1} : Read(line))
           \/ FlushDue \/ FeedLost \/ Insert \/ Commit \/ Clear
           \/ Signal \/ SqliteError \/ KillIngest \/ Sync \/ UNCHANGED vars
  BY <1>1, <1>u DEF StartIngest, Connect, Read, FlushDue, FeedLost, Insert, Commit, Clear,
        Signal, SqliteError, KillIngest, Sync, wireVars, bufferVars, vars, stationVars
<1>2. CASE StartPublish \/ GiveUp \/ PublishDies \/ PowerLoss \/ Ack
  BY <1>2, <1>n, <1>p DEF StartPublish, GiveUp, PublishDies, PowerLoss, Ack, wireVars
<1>3. CASE PostRefused \/ PostDisconnected
  BY <1>3, <1>n, <1>q DEF PostRefused, PostDisconnected
<1>4. CASE Boot
  <2>1. peer = NoPeer
    BY <1>4, <1>t DEF Boot, PublishInv
  <2>2. reply = "none"
    BY <1>4 DEF Boot, PublishInv
  <2> QED BY <1>4, <1>n, <2>1, <2>2 DEF Boot, wireVars
<1>5. CASE PostSucceeds
  BY <1>5, <1>g, <1>q DEF PostSucceeds, PublishInv, bufferVars
<1>6. CASE Post
  <2> PICK h \in Handlers :
        /\ handler' = [handler EXCEPT ![h] = [phase |-> "received",
                                              batch |-> batch', todo |-> batch']]
        /\ peer' = h
    BY <1>6 DEF Post
  <2>1. batch' \subseteq rows /\ ppc' = "posting" /\ reply' = "none" /\ rows' = rows
    BY <1>6, <1>p DEF Post, NextBatch, bufferVars
  <2> QED BY <2>1, <1>t DEF PublishInv
<1>7. CASE (\E h \in Handlers : Accept(h) \/ Produce(h)) /\ UNCHANGED stationVars
  <2>1. /\ \A k \in Handlers : /\ handler'[k].batch = handler[k].batch
                               /\ handler[k].phase # "idle" => handler'[k].phase # "idle"
        /\ UNCHANGED <<peer, reply>>
    BY <1>7, <1>t DEF Accept, Produce
  <2>2. UNCHANGED <<ppc, batch, rows>>
    BY <1>7 DEF stationVars, publishVars, bufferVars
  <2> QED BY <2>1, <2>2, <1>t, <1>g DEF PublishInv
<1>8. ASSUME NEW h \in Handlers, NEW s, Return(h, s), UNCHANGED stationVars,
             s = "error" \/ (s = "ok" /\ handler[h].batch \subseteq Published)
      PROVE  PublishInv'
  <2>1. UNCHANGED <<ppc, batch, rows>>
    BY <1>8 DEF stationVars, publishVars, bufferVars
  <2>2. CASE peer = h
    <3>1. ppc = "posting" /\ handler[h].batch = batch
      BY <2>2, <1>t DEF PublishInv
    <3>2. peer' = NoPeer /\ reply' = s
      BY <1>8, <2>2 DEF Return
    <3> QED BY <2>1, <3>1, <3>2, <1>8, <1>g DEF PublishInv
  <2>3. CASE peer # h
    <3>1. /\ UNCHANGED <<peer, reply>>
          /\ peer # NoPeer => handler'[peer] = handler[peer]
      BY <1>8, <2>3, <1>t DEF Return
    <3> QED BY <2>1, <3>1, <1>g DEF PublishInv
  <2> QED BY <2>2, <2>3
<1>9. CASE (\E h \in Handlers : Reject(h) \/ Answer(h) \/ Fail(h)) /\ UNCHANGED stationVars
  <2> PICK h \in Handlers : Reject(h) \/ Answer(h) \/ Fail(h)
    BY <1>9
  <2>1. CASE Reject(h) \/ Fail(h)
    BY <1>8, <1>9, <2>1 DEF Reject, Fail
  <2>2. CASE Answer(h)
    <3>1. handler[h].batch \subseteq Published
      BY <2>2 DEF Answer, HandlerInv
    <3> QED BY <1>8, <1>9, <2>2, <3>1 DEF Answer
  <2> QED BY <2>1, <2>2
<1>10. CASE Crash /\ UNCHANGED stationVars
  <2>1. UNCHANGED <<ppc, batch, rows>>
    BY <1>10 DEF stationVars, publishVars, bufferVars
  <2>2. peer' = NoPeer /\ reply' = (IF peer # NoPeer THEN "reset" ELSE reply)
    BY <1>10 DEF Crash
  <2> QED BY <2>1, <2>2, <1>g DEF PublishInv
<1> QED BY <1>1, <1>2, <1>3, <1>4, <1>5, <1>6, <1>7, <1>9, <1>10
        DEF Next, Ingest, Publish, Machine, Gateway, Serve

(* Only Ack and a power loss remove rows.  Ack removes events that a 200    *)
(* put in the topic; a power loss goes back to a state that was sound.      *)
LEMMA LossStep ==
    TypeOK /\ BufferInv /\ PublishInv /\ LossInv /\ [Next]_vars => LossInv'
<1> SUFFICES ASSUME TypeOK, BufferInv, PublishInv, LossInv, [Next]_vars PROVE LossInv'
  OBVIOUS
<1> USE DEF LossInv, NoAcceptedEventLost
<1>g. Published \subseteq Published'
  BY PublishedGrows
<1>l. ASSUME NEW S, NEW T, S \subseteq T PROVE Lines(S) \subseteq Lines(T)
  BY <1>l DEF Lines
<1>h. Lines(Published) \subseteq Lines(Published')
  BY <1>g, <1>l
<1>u. ASSUME UNCHANGED <<rows, accepted, disk>> PROVE LossInv'
  BY <1>u, <1>h
<1>1. CASE Commit
  <2>1. rows' = rows \cup txn /\ accepted' = accepted \cup Lines(txn) /\ UNCHANGED disk
    BY <1>1 DEF Commit
  <2>2. Lines(rows) \subseteq Lines(rows') /\ Lines(txn) \subseteq Lines(rows')
    BY <2>1, <1>l
  <2> QED BY <2>1, <2>2, <1>h
<1>2. CASE Ack
  <2>1. /\ rows' = {e \in rows : e.id \notin Ids(batch)}
        /\ UNCHANGED <<accepted, disk>>
    BY <1>2 DEF Ack, Acked
  <2>2. batch \subseteq rows /\ batch \subseteq Published
    BY <1>2 DEF Ack, PublishInv
  <2>3. \A e \in rows : e \in rows' \/ e \in batch
    BY <2>1, <2>2 DEF Ids, BufferInv, UniqueIds
  <2>4. Lines(rows) \subseteq Lines(rows') \cup Lines(Published)
    BY <2>2, <2>3 DEF Lines
  <2> QED BY <2>1, <2>4, <1>h
<1>3. CASE Sync
  <2>1. /\ disk'.rows = rows /\ disk'.accepted = accepted
        /\ UNCHANGED <<rows, accepted>>
    BY <1>3 DEF Sync
  <2> QED BY <2>1, <1>h
<1>4. CASE PowerLoss
  <2>1. rows' = disk.rows /\ accepted' = disk.accepted /\ UNCHANGED disk
    BY <1>4 DEF PowerLoss
  <2> QED BY <2>1, <1>h
<1>5. CASE \/ StartIngest \/ Connect \/ (\E line \in {Blank, 1} : Read(line))
           \/ FlushDue \/ FeedLost \/ Insert \/ Clear
           \/ Signal \/ SqliteError \/ KillIngest
  BY <1>5, <1>u DEF StartIngest, Connect, Read, FlushDue, FeedLost, Insert, Clear,
                    Signal, SqliteError, KillIngest, bufferVars
<1>6. CASE \/ StartPublish \/ Post \/ PostSucceeds \/ PostRefused
           \/ GiveUp \/ PostDisconnected \/ PublishDies \/ Boot
  BY <1>6, <1>u DEF StartPublish, Post, PostSucceeds, PostRefused, GiveUp,
                    PostDisconnected, PublishDies, Boot, bufferVars
<1>7. CASE (Gateway /\ UNCHANGED stationVars) \/ UNCHANGED vars
  BY <1>7, <1>u DEF vars, stationVars, bufferVars
<1> QED BY <1>1, <1>2, <1>3, <1>4, <1>5, <1>6, <1>7
        DEF Next, Ingest, Publish, Machine

(* The inductive invariant holds in every reachable state.                  *)
THEOREM InvCorrect == Spec => []DeliveryInv
<1>1. Init => TypeOK /\ DeliveryInv
  BY TypeInit, InvInit
<1>2. TypeOK /\ DeliveryInv /\ [Next]_vars => (TypeOK /\ DeliveryInv)'
  BY TypeStep, BufferStep, HandlerStep, PublishStep, LossStep DEF DeliveryInv
<1> QED BY <1>1, <1>2, PTL DEF Spec

(* Whatever is killed, interrupted, timed out, re-sent or loses power, every *)
(* line committed to the buffer (and kept by the disk) is in the buffer or   *)
(* in events.raw.                                                          *)
THEOREM NoEventLost == Spec => []NoAcceptedEventLost
<1>1. DeliveryInv => NoAcceptedEventLost
  BY DEF DeliveryInv, LossInv
<1> QED BY <1>1, InvCorrect, PTL

-----------------------------------------------------------------------------
(* Ids identify events.                                                    *)

LEMMA LinesGrow ==
    ASSUME NEW S, NEW T, S \subseteq T
    PROVE  Lines(S) \subseteq Lines(T)
BY DEF Lines

(* Only Post gives a handler anything to produce, and only rows.            *)
LEMMA AskedStep ==
    TypeOK /\ [Next]_vars => Asked' \subseteq Asked \cup rows
<1> SUFFICES ASSUME TypeOK, [Next]_vars PROVE Asked' \subseteq Asked \cup rows
  OBVIOUS
<1>t. handler \in [Handlers -> [phase : {"idle", "received", "producing"},
                               batch : SUBSET Event, todo : SUBSET Event]]
  BY DEF TypeOK, WireTypeOK
<1>s. ASSUME \A h \in Handlers : handler'[h].todo \subseteq handler[h].todo \cup rows
      PROVE  Asked' \subseteq Asked \cup rows
  BY <1>s DEF Asked
<1>1. CASE Post
  <2> PICK h \in Handlers :
        handler' = [handler EXCEPT ![h] = [phase |-> "received",
                                           batch |-> batch', todo |-> batch']]
    BY <1>1 DEF Post
  <2>1. batch' \subseteq rows
    BY <1>1 DEF Post, NextBatch
  <2>2. \A k \in Handlers : handler'[k].todo \subseteq handler[k].todo \cup rows
    BY <2>1, <1>t
  <2> QED BY <2>2, <1>s
<1>2. CASE \E h \in Handlers : Accept(h) \/ Produce(h)
  <2>1. \A k \in Handlers : handler'[k].todo \subseteq handler[k].todo
    BY <1>2, <1>t DEF Accept, Produce
  <2> QED BY <2>1, <1>s
<1>3. CASE \E h \in Handlers : Reject(h) \/ Answer(h) \/ Fail(h)
  <2>1. \A k \in Handlers : handler'[k].todo \subseteq handler[k].todo
    BY <1>3, <1>t DEF Reject, Answer, Fail, Return, Idle
  <2> QED BY <2>1, <1>s
<1>4. CASE Crash
  <2>1. \A k \in Handlers : handler'[k].todo \subseteq handler[k].todo
    BY <1>4 DEF Crash, Idle
  <2> QED BY <2>1, <1>s
<1>5. CASE UNCHANGED handler
  BY <1>5, <1>s
<1>6. \/ Post \/ Crash \/ UNCHANGED handler
      \/ \E h \in Handlers : Serve(h) \/ Fail(h)
  BY DEF Next, Ingest, Publish, Machine, Gateway, vars, wireVars,
         StartIngest, Connect, Read, FlushDue, FeedLost, Insert, Commit, Clear,
         Signal, SqliteError, KillIngest, StartPublish, PostSucceeds,
         PostRefused, GiveUp, PostDisconnected, Ack, PublishDies, Sync, PowerLoss, Boot
<1> QED BY <1>1, <1>2, <1>3, <1>4, <1>5, <1>6 DEF Serve

(* A power loss stays on record.                                           *)
LEMMA PowerStep ==
    TypeOK /\ [Next]_vars =>
       \/ faults'["power"] = faults["power"]
       \/ PowerLoss /\ faults'["power"] = faults["power"] + 1
<1> SUFFICES ASSUME TypeOK, [Next]_vars
             PROVE  \/ faults'["power"] = faults["power"]
                    \/ PowerLoss /\ faults'["power"] = faults["power"] + 1
  OBVIOUS
<1>t. faults \in [Faults -> Nat] /\ "power" \in Faults
  BY DEF TypeOK, WireTypeOK, Faults
<1>1. \/ PowerLoss /\ Fault("power")
      \/ UNCHANGED faults
      \/ \E f \in {"signal", "sqlite", "kill", "net", "server"} : Fault(f)
  BY DEF Next, Ingest, Publish, Machine, Gateway, Serve, vars, wireVars,
         StartIngest, Connect, Read, FlushDue, FeedLost, Insert, Commit, Clear,
         Signal, SqliteError, KillIngest, StartPublish, Post, PostSucceeds,
         PostRefused, GiveUp, PostDisconnected, Ack, PublishDies, Sync, PowerLoss, Boot,
         Accept, Reject, Produce, Answer, Fail, Crash
<1> QED BY <1>t, <1>1 DEF Fault

(* The counter covers every id in use, and INSERT goes above the counter; a  *)
(* rolled-back transaction has shown its ids to nobody.                     *)
LEMMA IdStep == TypeOK /\ BufferInv /\ IdInv /\ [Next]_vars => IdInv'
<1> SUFFICES ASSUME TypeOK, BufferInv, IdInv, [Next]_vars, faults'["power"] = 0
             PROVE  LET known == rows' \cup Asked' \cup Published'
                    IN  UniqueIds(known) /\ \A e \in known : e.id <= seq'
  BY DEF IdInv
<1> DEFINE known == rows \cup Asked \cup Published
<1>t. /\ seq \in Nat /\ Cardinality(txn) \in Nat /\ faults["power"] \in Nat
      /\ txn \subseteq Event /\ known \subseteq Event
  <2>1. "power" \in Faults
    BY DEF Faults
  <2> QED BY <2>1, FS_CardinalityType DEF TypeOK, StationTypeOK, WireTypeOK, Asked, Published
<1>p. ~PowerLoss /\ faults["power"] = 0
  <2>1. CASE PowerLoss
    <3>1. faults'["power"] = faults["power"] + 1
      BY <2>1 DEF PowerLoss, Fault, TypeOK, WireTypeOK, Faults
    <3> QED BY <3>1, <1>t
  <2> QED BY <2>1, PowerStep
<1>k. UniqueIds(known) /\ \A e \in known : e.id <= seq
  BY <1>p DEF IdInv
<1>a. Asked' \subseteq Asked \cup rows
  BY AskedStep
<1>g. Published' \subseteq Published \cup Asked
  BY PublishedGrows DEF Asked
<1>1. CASE rows' \subseteq rows /\ seq' = seq
  <2>1. rows' \cup Asked' \cup Published' \subseteq known
    BY <1>1, <1>a, <1>g
  <2> HIDE DEF known
  <2> QED BY <1>1, <2>1, <1>k DEF UniqueIds
<1>2. CASE Commit
  <2>1. rows' = rows \cup txn /\ seq' = seq + Cardinality(txn)
    BY <1>2 DEF Commit
  <2>2. rows' \cup Asked' \cup Published' \subseteq known \cup txn
    BY <2>1, <1>a, <1>g
  <2>3. /\ UniqueIds(txn)
        /\ \A e \in txn : seq < e.id /\ e.id <= seq + Cardinality(txn)
    BY DEF BufferInv
  <2> HIDE DEF known
  <2>4. \A e \in known \cup txn : e.id <= seq'
    BY <2>1, <2>3, <1>k, <1>t DEF Event
  <2>5. \A e \in known, f \in txn : e.id # f.id
    BY <2>3, <1>k, <1>t DEF Event
  <2>6. UniqueIds(known \cup txn)
    BY <2>3, <2>5, <1>k DEF UniqueIds
  <2> QED BY <2>2, <2>4, <2>6 DEF UniqueIds
<1>3. (rows' \subseteq rows /\ seq' = seq) \/ Commit
  BY <1>p DEF Next, Ingest, Publish, Machine, vars, stationVars, bufferVars,
         StartIngest, Connect, Read, FlushDue, FeedLost, Insert, Clear,
         Signal, SqliteError, KillIngest, StartPublish, Post, PostSucceeds,
         PostRefused, GiveUp, PostDisconnected, Ack, Acked, PublishDies, Sync, Boot
<1> QED BY <1>1, <1>2, <1>3

LEMMA IdInit == Init => IdInv
BY DEF Init, StationInit, WireInit, IdInv, UniqueIds, Asked, Published, Idle

(* As long as no power loss takes the AUTOINCREMENT counter back, an id in    *)
(* events.raw stands for one line, however often it was sent.                *)
THEOREM IdsIdentify == Spec => []IdIdentifiesEvent
<1>1. IdInv => IdIdentifiesEvent
  BY DEF IdInv, IdIdentifiesEvent, UniqueIds, Published
<1>2. TypeOK /\ DeliveryInv /\ IdInv /\ [Next]_vars => IdInv'
  BY IdStep DEF DeliveryInv
<1> QED BY <1>1, <1>2, IdInit, TypeCorrect, InvCorrect, PTL DEF Spec

-----------------------------------------------------------------------------
(* The order of the topic.                                                 *)

(* What TypeOK says of everything the order is about.                       *)
LEMMA OrderTypes ==
    ASSUME TypeOK
    PROVE  /\ rows \subseteq Event /\ txn \subseteq Event /\ disk.rows \subseteq Event
           /\ Asked \subseteq Event /\ Published \subseteq Event
           /\ \A h \in Handlers : handler[h].todo \subseteq Event
           /\ Waiting \subseteq Nat
           /\ heard \in Nat /\ seq \in Nat /\ Cardinality(txn) \in Nat
BY KeptFinite, FS_CardinalityType
   DEF TypeOK, StationTypeOK, WireTypeOK, Asked, Published, Waiting

(* Steps that add nothing: ingest may forget what it was writing, handlers   *)
(* may stop.                                                               *)
LEMMA QuietStep ==
    ASSUME OrderInv, UNCHANGED <<rows, disk, heard, log, accepted, seq>>,
           txn' = txn \/ txn' = {},
           pending' = pending \/ pending' = <<>>,
           ipc' = "off" <=> ipc = "off", ppc' = "off" <=> ppc = "off",
           \A h \in Handlers :
              \/ handler'[h].todo = {}
              \/ /\ handler'[h].todo = handler[h].todo
                 /\ handler'[h].phase = "idle" => handler[h].phase = "idle"
    PROVE  OrderInv'
<1>1. Asked' \subseteq Asked
  BY DEF Asked
<1>2. Waiting' \subseteq Waiting /\ (pending' = pending \/ Kept(pending') = {})
  <2>1. CASE pending' = pending
    BY <2>1 DEF Waiting
  <2>2. CASE pending' = <<>>
    BY <2>2 DEF Waiting, Kept
  <2> QED BY <2>1, <2>2
<1>3. Published' = Published /\ Delivered' = Delivered
  BY DEF Published, Delivered
<1>4. Lines(txn') \subseteq Lines(txn)
  BY DEF Lines
<1>5. StoreInv'
  <2> DEFINE all == rows \cup Asked \cup txn \cup disk.rows \cup Published
             all1 == rows' \cup Asked' \cup txn' \cup disk'.rows \cup Published'
  <2>1. all1 \subseteq all
    BY <1>1, <1>3
  <2>2. Lines(all1) \subseteq Lines(all)
    BY <2>1, LinesGrow
  <2>3. Lines(all1) \cup Waiting' \subseteq 1..heard'
    BY <2>2, <1>2 DEF OrderInv, StoreInv
  <2>4. \A i, j \in Kept(pending') : i < j => pending'[i] < pending'[j]
    BY <1>2 DEF OrderInv, StoreInv
  <2> QED BY <2>3, <2>4, <1>3 DEF OrderInv, StoreInv
<1>6. ChainInv'
  <2>1. InOrder(rows)' /\ InOrder(disk.rows)'
    BY <1>3 DEF OrderInv, ChainInv, InOrder, Earlier
  <2>2. \A e \in rows' \cup Asked', line \in Lines(txn') \cup Waiting' :
          (line < e.line /\ line \notin Delivered') => Earlier(rows', line, e.id)
    BY <1>1, <1>2, <1>3, <1>4 DEF OrderInv, ChainInv
  <2>3. /\ \A e, f \in txn' :
             (e.id < f.id /\ f.line < e.line /\ f.line \notin Delivered')
               => Earlier(rows' \cup txn', f.line, e.id)
        /\ \A e \in txn', line \in Waiting' :
             (line < e.line /\ line \notin Delivered') => Earlier(rows' \cup txn', line, e.id)
    <3>1. CASE txn' = txn
      BY <3>1, <1>2, <1>3 DEF OrderInv, ChainInv
    <3>2. CASE txn' = {}
      BY <3>2
    <3> QED BY <3>1, <3>2
  <2> QED BY <2>1, <2>2, <2>3 DEF ChainInv
<1>7. RequestInv'
  <2> SUFFICES ASSUME NEW h \in Handlers, handler'[h].todo # {}
               PROVE
           LET todo == handler'[h].todo
           IN  /\ handler'[h].phase # "idle"
               /\ UniqueIds(todo)
               /\ ipc' # "off" => \A e \in todo : e.id <= seq' /\ (e \in rows' \/ e.line \in Delivered')
               /\ \A e \in todo, f \in rows' \cup Asked' : f.line \notin Delivered' =>
                     /\ f.id <= e.id => f \in todo
                     /\ (e.id < f.id /\ f.line < e.line) => Earlier(todo, f.line, e.id)
    BY DEF RequestInv, UniqueIds
  <2>1. handler'[h].todo = handler[h].todo /\ handler'[h].phase # "idle"
    BY DEF OrderInv, RequestInv
  <2> QED BY <2>1, <1>1, <1>3 DEF OrderInv, RequestInv
<1>8. FrontInv'
  <2>1. rows' \cup Asked' \cup txn' \subseteq rows \cup Asked \cup txn
    BY <1>1
  <2>2. Lines(rows' \cup Asked' \cup txn') \subseteq Lines(rows \cup Asked \cup txn)
    BY <2>1, LinesGrow
  <2> QED BY <2>2, <1>2, <1>3 DEF OrderInv, FrontInv
<1> QED BY <1>5, <1>6, <1>7, <1>8 DEF OrderInv

(* A line that is read is above every line there is.                        *)
LEMMA ReadStep ==
    ASSUME TypeOK, OrderInv, NEW x \in {Blank, 1}, Read(x)
    PROVE  OrderInv'
<1>u. UNCHANGED <<rows, disk, log, accepted, seq, txn, ipc, ppc, handler>>
  BY DEF Read, bufferVars, publishVars, wireVars
<1>d. Published' = Published /\ Delivered' = Delivered /\ Asked' = Asked
  BY <1>u DEF Published, Delivered, Asked
<1> DEFINE new == IF x = Blank THEN {} ELSE {heard + 1}
<1>t. heard \in Nat /\ pending \in Seq(Nat) /\ Waiting \subseteq Nat
  BY OrderTypes DEF TypeOK, StationTypeOK
<1>e. /\ rows \subseteq Event /\ txn \subseteq Event /\ Asked \subseteq Event
      /\ Published \subseteq Event
  BY OrderTypes
<1>1. /\ heard' \in Nat /\ heard <= heard' /\ new \subseteq 1..heard'
      /\ \A n \in new : n = heard + 1
  BY <1>t DEF Read
<1>2. /\ Waiting' = Waiting \cup new
      /\ \A i, j \in Kept(pending') : i < j => pending'[i] < pending'[j]
  <2>1. /\ DOMAIN pending' = DOMAIN pending \cup {Len(pending) + 1}
        /\ pending'[Len(pending) + 1] = IF x = Blank THEN Blank ELSE heard + 1
        /\ \A i \in DOMAIN pending : pending'[i] = pending[i] /\ i < Len(pending) + 1
        /\ Len(pending) + 1 \notin DOMAIN pending
        /\ Len(pending) \in Nat
    BY <1>t DEF Read, Blank
  <2>2. Kept(pending') = IF x = Blank THEN Kept(pending) ELSE Kept(pending) \cup {Len(pending) + 1}
    BY <2>1, <1>t DEF Kept, Blank
  <2>3. Kept(pending) \subseteq DOMAIN pending /\ DOMAIN pending \subseteq Nat
    BY <1>t DEF Kept
  <2>4. \A i \in Kept(pending) : pending[i] \in Waiting
    BY DEF Waiting
  <2>5. \A n \in Waiting : n < heard + 1
    BY <1>t DEF OrderInv, StoreInv
  <2>6. \A i, j \in Kept(pending') : i < j => pending'[i] < pending'[j]
    <3> SUFFICES ASSUME NEW i \in Kept(pending'), NEW j \in Kept(pending'), i < j
                 PROVE  pending'[i] < pending'[j]
      OBVIOUS
    <3>1. CASE i \in Kept(pending) /\ j \in Kept(pending)
      BY <3>1, <2>1, <2>3 DEF OrderInv, StoreInv
    <3>2. CASE i \in Kept(pending) /\ j = Len(pending) + 1 /\ x # Blank
      BY <3>2, <2>1, <2>3, <2>4, <2>5
    <3>3. i # Len(pending) + 1
      BY <2>1, <2>2, <2>3
    <3> QED BY <3>1, <3>2, <3>3, <2>2
  <2>7. Waiting' = Waiting \cup new
    <3>1. Waiting' = {pending'[i] : i \in Kept(pending')}
      BY DEF Waiting
    <3>2. {pending'[i] : i \in Kept(pending)} = Waiting
      BY <2>1, <2>3 DEF Waiting
    <3> QED BY <3>1, <3>2, <2>1, <2>2
  <2> QED BY <2>6, <2>7
<1> HIDE DEF new
<1>3. StoreInv'
  <2>1. Lines(rows \cup Asked \cup txn \cup disk.rows \cup Published) \cup Waiting
          \subseteq 1..heard
    BY DEF OrderInv, StoreInv
  <2>2. 1..heard \subseteq 1..heard'
    BY <1>1, <1>t
  <2>3. Lines(rows' \cup Asked' \cup txn' \cup disk'.rows \cup Published') \cup Waiting'
          \subseteq 1..heard'
    BY <2>1, <2>2, <1>1, <1>2, <1>u, <1>d
  <2> QED BY <2>3, <1>2, <1>u, <1>d DEF OrderInv, StoreInv
<1>b. \A n \in Lines(rows \cup Asked \cup txn \cup disk.rows \cup Published) : n \in 1..heard
  BY DEF OrderInv, StoreInv
<1>c. \A e \in rows \cup Asked \cup txn, n \in new : ~(n < e.line)
  <2> SUFFICES ASSUME NEW e \in rows \cup Asked \cup txn PROVE ~(heard + 1 < e.line)
    BY <1>1
  <2>1. e.line \in 1..heard
    BY <1>b DEF Lines
  <2> QED BY <2>1, <1>t
<1>4. ChainInv'
  <2>1. InOrder(rows)' /\ InOrder(disk.rows)'
    BY <1>d, <1>u DEF OrderInv, ChainInv, InOrder, Earlier
  <2> QED BY <2>1, <1>c, <1>d, <1>u, <1>2 DEF OrderInv, ChainInv
<1>5. RequestInv'
  BY <1>d, <1>u DEF OrderInv, RequestInv
<1>6. FrontInv'
  <2>1. \A d \in Delivered, n \in new : ~(n < d)
    <3> SUFFICES ASSUME NEW d \in Delivered PROVE ~(heard + 1 < d)
      BY <1>1
    <3>1. d \in 1..heard
      BY <1>b DEF Lines, Delivered
    <3> QED BY <3>1, <1>t
  <2> QED BY <2>1, <1>d, <1>u, <1>2 DEF OrderInv, FrontInv
<1> QED BY <1>3, <1>4, <1>5, <1>6 DEF OrderInv

(* What is synced is the buffer as it is.                                   *)
LEMMA SyncStep ==
    ASSUME OrderInv, Sync
    PROVE  OrderInv'
<1>u. UNCHANGED <<rows, log, accepted, seq, txn, ipc, ppc, handler, pending, heard>>
  BY DEF Sync, publishVars, wireVars, ingestVars
<1>d. /\ Published' = Published /\ Delivered' = Delivered /\ Asked' = Asked
      /\ Waiting' = Waiting
  BY <1>u DEF Published, Delivered, Asked, Waiting
<1>s. disk'.rows = rows /\ disk'.accepted = accepted
  BY DEF Sync
<1>1. StoreInv'
  <2>1. Lines(rows' \cup Asked' \cup txn' \cup disk'.rows \cup Published')
          \subseteq Lines(rows \cup Asked \cup txn \cup disk.rows \cup Published)
    BY <1>u, <1>d, <1>s, LinesGrow
  <2> QED BY <2>1, <1>u, <1>d, <1>s DEF OrderInv, StoreInv
<1>2. ChainInv'
  <2>1. InOrder(rows)' /\ InOrder(disk.rows)'
    BY <1>d, <1>u, <1>s DEF OrderInv, ChainInv, InOrder, Earlier
  <2> QED BY <2>1, <1>d, <1>u DEF OrderInv, ChainInv
<1>3. RequestInv' /\ FrontInv'
  BY <1>d, <1>u DEF OrderInv, RequestInv, FrontInv
<1> QED BY <1>1, <1>2, <1>3 DEF OrderInv

(* By the time the machine is up again no old request is being served.       *)
LEMMA BootStep ==
    ASSUME OrderInv, Boot
    PROVE  OrderInv'
<1>u. UNCHANGED <<rows, disk, log, accepted, seq, txn, handler, pending, heard>>
  BY DEF Boot, bufferVars, wireVars
<1>i. \A h \in Handlers : handler[h].todo = {}
  BY DEF Boot, OrderInv, RequestInv
<1>d. /\ Published' = Published /\ Delivered' = Delivered /\ Asked' = Asked
      /\ Waiting' = Waiting
  BY <1>u DEF Published, Delivered, Asked, Waiting
<1>1. StoreInv'
  <2>1. ipc' # "off" /\ ppc' # "off"
    BY DEF Boot
  <2> QED BY <2>1, <1>u, <1>d DEF OrderInv, StoreInv
<1>2. ChainInv'
  <2>1. InOrder(rows)' /\ InOrder(disk.rows)'
    BY <1>d, <1>u DEF OrderInv, ChainInv, InOrder, Earlier
  <2> QED BY <2>1, <1>d, <1>u DEF OrderInv, ChainInv
<1>3. RequestInv' /\ FrontInv'
  BY <1>d, <1>u, <1>i DEF OrderInv, RequestInv, FrontInv, UniqueIds
<1> QED BY <1>1, <1>2, <1>3 DEF OrderInv

(* Ack deletes what is in the topic, and nothing depends on that any more.   *)
LEMMA AckStep ==
    ASSUME TypeOK, BufferInv, PublishInv, OrderInv, Ack
    PROVE  OrderInv'
<1>u. UNCHANGED <<disk, log, accepted, seq, txn, handler, pending, heard, ipc>>
  BY DEF Ack, ingestVars, wireVars
<1>d. /\ Published' = Published /\ Delivered' = Delivered /\ Asked' = Asked
      /\ Waiting' = Waiting
  BY <1>u DEF Published, Delivered, Asked, Waiting
<1>r. rows' \subseteq rows /\ \A e \in rows : e.line \notin Delivered => e \in rows'
  <2>1. rows' = {e \in rows : e.id \notin Ids(batch)}
    BY DEF Ack, Acked
  <2>2. batch \subseteq rows /\ batch \subseteq Published
    BY DEF Ack, PublishInv
  <2>3. \A e \in rows : e \in rows' \/ e \in batch
    BY <2>1, <2>2 DEF Ids, BufferInv, UniqueIds
  <2> QED BY <2>1, <2>2, <2>3 DEF Delivered, Lines
<1>e. ASSUME NEW S, NEW line, NEW id, line \notin Delivered, Earlier(rows \cup S, line, id)
      PROVE  Earlier(rows' \cup S, line, id)
  BY <1>e, <1>r DEF Earlier
<1>f. ASSUME NEW line, NEW id, line \notin Delivered, Earlier(rows, line, id)
      PROVE  Earlier(rows', line, id)
  BY <1>f, <1>r DEF Earlier
<1>1. StoreInv'
  <2>1. Lines(rows' \cup Asked' \cup txn' \cup disk'.rows \cup Published')
          \subseteq Lines(rows \cup Asked \cup txn \cup disk.rows \cup Published)
    BY <1>u, <1>d, <1>r, LinesGrow
  <2>2. IsFiniteSet(rows')
    BY <1>r, FS_Subset DEF OrderInv, StoreInv
  <2>3. ppc' # "off" /\ ppc # "off"
    BY DEF Ack
  <2> QED BY <2>1, <2>2, <2>3, <1>u, <1>d, <1>r DEF OrderInv, StoreInv
<1>2. ChainInv'
  <2>1. InOrder(rows')
    <3> SUFFICES ASSUME NEW e \in rows', NEW f \in rows',
                        e.id < f.id /\ f.line < e.line /\ f.line \notin Delivered
                 PROVE  Earlier(rows', f.line, e.id)
      BY DEF InOrder
    <3>1. Earlier(rows, f.line, e.id)
      BY <1>r DEF OrderInv, ChainInv, InOrder
    <3> QED BY <3>1, <1>f
  <2>2. InOrder(rows)' /\ InOrder(disk.rows)'
    BY <2>1, <1>d, <1>u DEF OrderInv, ChainInv, InOrder, Earlier
  <2>3. \A e \in rows' \cup Asked', line \in Lines(txn') \cup Waiting' :
          (line < e.line /\ line \notin Delivered') => Earlier(rows', line, e.id)
    BY <1>d, <1>u, <1>r, <1>f DEF OrderInv, ChainInv
  <2>4. /\ \A e, f \in txn' :
             (e.id < f.id /\ f.line < e.line /\ f.line \notin Delivered')
               => Earlier(rows' \cup txn', f.line, e.id)
        /\ \A e \in txn', line \in Waiting' :
             (line < e.line /\ line \notin Delivered') => Earlier(rows' \cup txn', line, e.id)
    BY DEF Ack
  <2> QED BY <2>2, <2>3, <2>4 DEF ChainInv
<1>3. RequestInv'
  BY <1>d, <1>u, <1>r DEF OrderInv, RequestInv
<1>4. FrontInv'
  <2>1. Lines(rows' \cup Asked' \cup txn') \subseteq Lines(rows \cup Asked \cup txn)
    BY <1>u, <1>d, <1>r, LinesGrow
  <2> QED BY <2>1, <1>u, <1>d DEF OrderInv, FrontInv
<1> QED BY <1>1, <1>2, <1>3, <1>4 DEF OrderInv

(* What a power loss brings back was in the buffer, or is a repeat.          *)
LEMMA PowerLossStep ==
    ASSUME OrderInv, PowerLoss
    PROVE  OrderInv'
<1>u. UNCHANGED <<disk, log, handler, heard>>
  BY DEF PowerLoss
<1>p. /\ rows' = disk.rows /\ seq' = disk.seq /\ accepted' = disk.accepted
      /\ txn' = {} /\ pending' = <<>> /\ ipc' = "off" /\ ppc' = "off"
  BY DEF PowerLoss
<1>d. /\ Published' = Published /\ Delivered' = Delivered /\ Asked' = Asked
      /\ Waiting' = {} /\ Kept(pending') = {} /\ Lines(txn') = {}
  BY <1>u, <1>p DEF Published, Delivered, Asked, Waiting, Kept, Lines
<1>r. \A e \in rows' : e.line \notin Delivered => e \in rows
  BY <1>p DEF OrderInv, StoreInv
<1>1. StoreInv'
  <2>1. Lines(rows' \cup Asked' \cup txn' \cup disk'.rows \cup Published')
          \subseteq Lines(rows \cup Asked \cup txn \cup disk.rows \cup Published)
    BY <1>u, <1>d, <1>p, LinesGrow
  <2> QED BY <2>1, <1>u, <1>d, <1>p DEF OrderInv, StoreInv
<1>2. ChainInv'
  <2>1. InOrder(rows)' /\ InOrder(disk.rows)'
    BY <1>d, <1>u, <1>p DEF OrderInv, ChainInv, InOrder, Earlier
  <2> QED BY <2>1, <1>d, <1>u, <1>p DEF ChainInv
<1>3. RequestInv'
  BY <1>d, <1>u, <1>r, <1>p DEF OrderInv, RequestInv
<1>4. FrontInv'
  <2>1. \A line \in Lines(rows' \cup Asked' \cup txn') :
           line \notin Delivered => line \in Lines(rows \cup Asked \cup txn)
    BY <1>d, <1>p, <1>r DEF Lines
  <2> QED BY <2>1, <1>d DEF OrderInv, FrontInv
<1> QED BY <1>1, <1>2, <1>3, <1>4 DEF OrderInv

(* A commit adds newer ids; a line among them that is older than one in a     *)
(* request is in the buffer already, before it.                              *)
LEMMA CommitStep ==
    ASSUME TypeOK, BufferInv, OrderInv, Commit
    PROVE  OrderInv'
<1>u. UNCHANGED <<disk, log, handler, pending, heard, ppc>>
  BY DEF Commit, publishVars, wireVars
<1>c. /\ rows' = rows \cup txn /\ txn' = {} /\ seq' = seq + Cardinality(txn)
      /\ accepted \subseteq accepted' /\ ipc = "commit" /\ ipc' = "clear"
  BY DEF Commit
<1>d. /\ Published' = Published /\ Delivered' = Delivered /\ Asked' = Asked
      /\ Waiting' = Waiting /\ Lines(txn') = {}
  BY <1>u, <1>c DEF Published, Delivered, Asked, Waiting, Lines
<1>t. /\ rows \subseteq Event /\ txn \subseteq Event /\ Asked \subseteq Event
      /\ \A h \in Handlers : handler[h].todo \subseteq Event
      /\ seq \in Nat /\ Cardinality(txn) \in Nat /\ IsFiniteSet(txn)
  BY OrderTypes DEF TypeOK, StationTypeOK
<1>e. ASSUME NEW line, NEW id, Earlier(rows, line, id) PROVE Earlier(rows', line, id)
  BY <1>e, <1>c DEF Earlier
<1>b. /\ \A e \in rows : e.id <= seq
      /\ \A e \in txn : seq < e.id
  BY DEF BufferInv
<1>1. StoreInv'
  <2>1. Lines(rows' \cup Asked' \cup txn' \cup disk'.rows \cup Published')
          \subseteq Lines(rows \cup Asked \cup txn \cup disk.rows \cup Published)
    BY <1>u, <1>d, <1>c, LinesGrow
  <2>2. IsFiniteSet(rows')
    BY <1>c, <1>t, FS_Union DEF OrderInv, StoreInv
  <2> QED BY <2>1, <2>2, <1>u, <1>d, <1>c DEF OrderInv, StoreInv
<1>2. ChainInv'
  <2>1. InOrder(rows')
    <3> SUFFICES ASSUME NEW e \in rows', NEW f \in rows',
                        e.id < f.id /\ f.line < e.line /\ f.line \notin Delivered
                 PROVE  Earlier(rows', f.line, e.id)
      BY DEF InOrder
    <3>1. CASE e \in rows /\ f \in rows
      BY <3>1, <1>e DEF OrderInv, ChainInv, InOrder
    <3>2. CASE e \in rows /\ f \in txn
      <4>1. f.line \in Lines(txn)
        BY <3>2 DEF Lines
      <4> QED BY <4>1, <3>2, <1>e DEF OrderInv, ChainInv
    <3>3. CASE e \in txn /\ f \in rows
      BY <3>3, <1>b, <1>t DEF Event
    <3>4. CASE e \in txn /\ f \in txn
      BY <3>4, <1>c DEF OrderInv, ChainInv
    <3> QED BY <3>1, <3>2, <3>3, <3>4, <1>c
  <2>2. InOrder(rows)' /\ InOrder(disk.rows)'
    BY <2>1, <1>d, <1>u DEF OrderInv, ChainInv, InOrder, Earlier
  <2>3. ASSUME NEW e \in rows' \cup Asked', NEW line \in Waiting,
               line < e.line, line \notin Delivered
        PROVE  Earlier(rows', line, e.id)
    <3>1. CASE e \in rows \cup Asked
      BY <3>1, <2>3, <1>e DEF OrderInv, ChainInv
    <3>2. CASE e \in txn
      BY <3>2, <2>3, <1>c DEF OrderInv, ChainInv
    <3> QED BY <3>1, <3>2, <1>c, <1>d
  <2> QED BY <2>2, <2>3, <1>c, <1>d DEF ChainInv
<1>3. RequestInv'
  <2>1. ASSUME NEW h \in Handlers, NEW e \in handler[h].todo,
               NEW f \in txn, f.line \notin Delivered
        PROVE  /\ f.id <= e.id => f \in handler[h].todo
               /\ (e.id < f.id /\ f.line < e.line) => Earlier(handler[h].todo, f.line, e.id)
    <3>1. e.id <= seq
      BY <1>c DEF OrderInv, RequestInv
    <3>2. ~(f.id <= e.id)
      BY <3>1, <1>b, <1>t DEF Event
    <3>3. ASSUME f.line < e.line PROVE Earlier(handler[h].todo, f.line, e.id)
      <4>1. e \in Asked /\ f.line \in Lines(txn)
        BY DEF Asked, Lines
      <4>2. Earlier(rows, f.line, e.id)
        BY <4>1, <3>3, <2>1 DEF OrderInv, ChainInv
      <4>3. PICK g \in rows : g.line = f.line /\ g.id < e.id
        BY <4>2 DEF Earlier
      <4>4. g.id <= e.id
        BY <4>3, <1>t DEF Event
      <4>5. g \in handler[h].todo
        BY <4>3, <4>4, <2>1 DEF OrderInv, RequestInv
      <4> QED BY <4>3, <4>5 DEF Earlier
    <3> QED BY <3>2, <3>3
  <2>2. ASSUME NEW h \in Handlers, NEW e \in handler[h].todo
        PROVE  e.id <= seq' /\ (e \in rows' \/ e.line \in Delivered)
    <3>1. e.id <= seq /\ (e \in rows \/ e.line \in Delivered)
      BY <1>c DEF OrderInv, RequestInv
    <3> QED BY <3>1, <1>c, <1>t DEF Event
  <2> QED BY <2>1, <2>2, <1>c, <1>d, <1>u DEF OrderInv, RequestInv
<1>4. FrontInv'
  <2>1. Lines(rows' \cup Asked' \cup txn') \subseteq Lines(rows \cup Asked \cup txn)
    BY <1>u, <1>d, <1>c, LinesGrow
  <2> QED BY <2>1, <1>d DEF OrderInv, FrontInv
<1> QED BY <1>1, <1>2, <1>3, <1>4 DEF OrderInv

(* INSERT numbers the lines that wait in their order.                        *)
LEMMA InsertedOrder ==
    ASSUME NEW lines \in Seq(Nat), NEW last \in Nat,
           \A i, j \in Kept(lines) : i < j => lines[i] < lines[j]
    PROVE  LET new == Inserted(lines, last)
           IN  /\ Lines(new) = {lines[i] : i \in Kept(lines)}
               /\ \A e, f \in new : e.id < f.id <=> e.line < f.line
<1> DEFINE K == Kept(lines)
           Rank(i) == Cardinality({j \in K : j <= i})
           Row(i) == [id |-> last + Rank(i), line |-> lines[i]]
           new == {Row(i) : i \in K}
<1>1. K \in SUBSET Nat /\ IsFiniteSet(K) /\ \A i \in K : lines[i] \in Nat
  BY KeptFinite
<1>2. /\ \A i \in K : Rank(i) \in Nat
      /\ \A i, k \in K : i < k => Rank(i) < Rank(k)
  <2> HIDE DEF K
  <2>1. /\ Cardinality(K) \in Nat
        /\ \A i \in K : Rank(i) \in 1..Cardinality(K)
        /\ \A i, k \in K : i < k => Rank(i) < Rank(k)
    BY <1>1, RankFacts
  <2> HIDE DEF Rank
  <2> QED BY <2>1
<1>3. Inserted(lines, last) = new
  BY DEF Inserted
<1>4. \A i, j \in K : i < j => lines[i] < lines[j]
  OBVIOUS
<1> HIDE DEF K, Rank
<1>5. ASSUME NEW i \in K, NEW k \in K
      PROVE  last + Rank(i) < last + Rank(k) <=> lines[i] < lines[k]
  <2>1. i < k \/ i = k \/ k < i
    BY <1>1
  <2>2. CASE i < k
    BY <2>2, <1>2, <1>4
  <2>3. CASE i = k
    BY <2>3, <1>1, <1>2
  <2>4. CASE k < i
    <3>1. Rank(k) < Rank(i) /\ lines[k] < lines[i]
      BY <2>4, <1>2, <1>4
    <3> QED BY <3>1, <1>1, <1>2
  <2> QED BY <2>1, <2>2, <2>3, <2>4
<1>6. \A e, f \in new : e.id < f.id <=> e.line < f.line
  <2> SUFFICES ASSUME NEW i \in K, NEW k \in K
               PROVE  Row(i).id < Row(k).id <=> Row(i).line < Row(k).line
    OBVIOUS
  <2> QED BY <1>5
<1>7. Lines(new) = {lines[i] : i \in K}
  <2>1. \A i \in K : Row(i) \in new /\ Row(i).line = lines[i]
    OBVIOUS
  <2>2. \A e \in new : \E i \in K : e = Row(i)
    OBVIOUS
  <2> HIDE DEF Row, new
  <2> QED BY <2>1, <2>2 DEF Lines
<1> QED BY <1>3, <1>6, <1>7 DEF K

(* Inserting numbers what waits above everything else, in its order; a flush  *)
(* done again after an interruption puts the lines behind their first rows.   *)
LEMMA InsertStep ==
    ASSUME TypeOK, BufferInv, OrderInv, Insert
    PROVE  OrderInv'
<1>u. UNCHANGED <<rows, seq, accepted, disk, log, handler, pending, heard, ppc>>
  BY DEF Insert, publishVars, wireVars
<1>d. /\ Published' = Published /\ Delivered' = Delivered /\ Asked' = Asked
      /\ Waiting' = Waiting
  BY <1>u DEF Published, Delivered, Asked, Waiting
<1> DEFINE last == seq + Cardinality(txn)
           new == Inserted(pending, last)
<1>t. /\ rows \subseteq Event /\ txn \subseteq Event /\ last \in Nat
      /\ seq \in Nat /\ Cardinality(txn) \in Nat /\ pending \in Seq(Nat)
  BY OrderTypes DEF TypeOK, StationTypeOK
<1>i. txn' = txn \cup new /\ ipc = "insert" /\ ipc' = "commit"
  BY DEF Insert
<1>n. /\ new \subseteq Event
      /\ \A e \in new : last < e.id
      /\ Lines(new) = Waiting
      /\ \A e, f \in new : e.id < f.id <=> e.line < f.line
  <2>1. new \subseteq Event /\ \A e \in new : last < e.id
    BY <1>t, InsertedFacts
  <2>2. \A i, j \in Kept(pending) : i < j => pending[i] < pending[j]
    BY DEF OrderInv, StoreInv
  <2>3. /\ Lines(new) = {pending[i] : i \in Kept(pending)}
        /\ \A e, f \in new : e.id < f.id <=> e.line < f.line
    BY <2>2, <1>t, InsertedOrder
  <2> QED BY <2>1, <2>3 DEF Waiting
<1> HIDE DEF new
<1>b. \A e \in txn, f \in new : e.id < f.id
  <2>1. \A e \in txn : e.id <= last
    BY DEF BufferInv
  <2> HIDE DEF last
  <2> QED BY <2>1, <1>t, <1>n DEF Event
<1>l. Lines(txn') = Lines(txn) \cup Waiting
  BY <1>i, <1>n DEF Lines
<1>e. ASSUME NEW line, NEW id, Earlier(rows \cup txn, line, id)
      PROVE  Earlier(rows \cup txn', line, id)
  BY <1>e, <1>i DEF Earlier
<1>1. StoreInv'
  <2>1. Lines(rows' \cup Asked' \cup txn' \cup disk'.rows \cup Published')
          \subseteq Lines(rows \cup Asked \cup txn \cup disk.rows \cup Published) \cup Waiting
    BY <1>u, <1>d, <1>l DEF Lines
  <2> QED BY <2>1, <1>u, <1>d, <1>i DEF OrderInv, StoreInv
<1>2. ChainInv'
  <2>1. InOrder(rows)' /\ InOrder(disk.rows)'
    BY <1>d, <1>u DEF OrderInv, ChainInv, InOrder, Earlier
  <2>2. \A e \in rows' \cup Asked', line \in Lines(txn') \cup Waiting' :
          (line < e.line /\ line \notin Delivered') => Earlier(rows', line, e.id)
    BY <1>d, <1>u, <1>l DEF OrderInv, ChainInv
  <2>3. ASSUME NEW e \in txn', NEW f \in txn',
               e.id < f.id /\ f.line < e.line /\ f.line \notin Delivered
        PROVE  Earlier(rows \cup txn', f.line, e.id)
    <3>1. CASE e \in txn /\ f \in txn
      BY <3>1, <2>3, <1>e DEF OrderInv, ChainInv
    <3>2. CASE e \in txn /\ f \in new
      <4>1. f.line \in Waiting
        BY <3>2, <1>n DEF Lines
      <4> QED BY <4>1, <3>2, <2>3, <1>e DEF OrderInv, ChainInv
    <3>3. CASE e \in new /\ f \in txn
      BY <3>3, <2>3, <1>b, <1>n, <1>t DEF Event
    <3>4. CASE e \in new /\ f \in new
      BY <3>4, <2>3, <1>n DEF Event
    <3> QED BY <3>1, <3>2, <3>3, <3>4, <1>i
  <2>4. ASSUME NEW e \in txn', NEW line \in Waiting, line < e.line, line \notin Delivered
        PROVE  Earlier(rows \cup txn', line, e.id)
    <3>1. CASE e \in txn
      BY <3>1, <2>4, <1>e DEF OrderInv, ChainInv
    <3>2. CASE e \in new
      <4>1. PICK g \in new : g.line = line
        BY <1>n DEF Lines
      <4>2. g.id < e.id
        BY <4>1, <3>2, <2>4, <1>n
      <4> QED BY <4>1, <4>2, <1>i DEF Earlier
    <3> QED BY <3>1, <3>2, <1>i
  <2> QED BY <2>1, <2>2, <2>3, <2>4, <1>d, <1>u DEF ChainInv
<1>3. RequestInv'
  BY <1>d, <1>u, <1>i DEF OrderInv, RequestInv
<1>4. FrontInv'
  <2>1. Lines(rows' \cup Asked' \cup txn') \subseteq Lines(rows \cup Asked \cup txn) \cup Waiting
    BY <1>u, <1>d, <1>l DEF Lines
  <2> QED BY <2>1, <1>d DEF OrderInv, FrontInv
<1> QED BY <1>1, <1>2, <1>3, <1>4 DEF OrderInv

(* next_batch returns the oldest rows: with a row, every older one.           *)
LEMMA NextBatchOldest ==
    ASSUME TypeOK, IsFiniteSet(rows), NEW limit \in Nat,
           NEW e \in NextBatch(limit), NEW f \in rows, f.id <= e.id
    PROVE  f \in NextBatch(limit)
<1> DEFINE Below(x) == {g \in rows : g.id < x.id}
<1>1. e \in rows /\ Cardinality(Below(e)) < limit
  BY DEF NextBatch
<1>t. \A x \in rows : x.id \in Nat
  BY OrderTypes DEF Event
<1>2. Below(f) \in SUBSET Below(e) /\ Below(e) \in SUBSET rows
  <2>1. \A g \in rows : g.id < f.id => g.id < e.id
    BY <1>1, <1>t
  <2> QED BY <2>1
<1> HIDE DEF Below
<1>3. IsFiniteSet(Below(e)) /\ IsFiniteSet(Below(f))
  BY <1>2, FS_Subset
<1>4. /\ Cardinality(Below(f)) <= Cardinality(Below(e))
      /\ Cardinality(Below(f)) \in Nat /\ Cardinality(Below(e)) \in Nat
  BY <1>2, <1>3, FS_Subset, FS_CardinalityType
<1>5. Cardinality(Below(f)) < limit
  BY <1>1, <1>4
<1> QED BY <1>5 DEF NextBatch, Below

(* A new request has the oldest rows, so it has whatever is before one of its  *)
(* events and was not delivered: no older request has more, as long as the     *)
(* power has not failed since.                                              *)
LEMMA PostStep ==
    ASSUME TypeOK, BufferInv, OrderInv, Post
    PROVE  OrderInv'
<1>u. UNCHANGED <<rows, seq, accepted, disk, txn, log, pending, heard, ipc>>
  BY DEF Post, ingestVars, bufferVars
<1>o. ppc # "off" /\ ppc' # "off" /\ ipc # "off"
  BY DEF Post, OrderInv, StoreInv
<1> DEFINE B == NextBatch(PublishBatch)
<1>1. PICK h \in Handlers :
         /\ handler[h].phase = "idle"
         /\ handler' = [handler EXCEPT ![h] = [phase |-> "received", batch |-> B, todo |-> B]]
  BY DEF Post
<1>t. /\ handler \in [Handlers -> [phase : {"idle", "received", "producing"},
                                  batch : SUBSET Event, todo : SUBSET Event]]
      /\ rows \subseteq Event
  BY DEF TypeOK, WireTypeOK, StationTypeOK
<1>b. B \subseteq rows
  BY DEF NextBatch
<1>c. \A e \in B, f \in rows : f.id <= e.id => f \in B
  BY NextBatchOldest, StationAssumption DEF OrderInv, StoreInv
<1> HIDE DEF B
<1>2. /\ handler'[h].todo = B /\ handler'[h].phase = "received"
      /\ \A k \in Handlers : k # h => handler'[k] = handler[k]
  BY <1>1, <1>t
<1>a. rows' \cup Asked' \subseteq rows \cup Asked
  BY <1>2, <1>b, <1>u DEF Asked
<1>d. Published' = Published /\ Delivered' = Delivered /\ Waiting' = Waiting
  BY <1>u DEF Published, Delivered, Waiting
<1>3. StoreInv'
  <2>1. Lines(rows' \cup Asked' \cup txn' \cup disk'.rows \cup Published')
          \subseteq Lines(rows \cup Asked \cup txn \cup disk.rows \cup Published)
    BY <1>u, <1>d, <1>a, LinesGrow
  <2> QED BY <2>1, <1>u, <1>d, <1>o DEF OrderInv, StoreInv
<1>4. ChainInv'
  <2>1. InOrder(rows)' /\ InOrder(disk.rows)'
    BY <1>d, <1>u DEF OrderInv, ChainInv, InOrder, Earlier
  <2>2. \A e \in rows' \cup Asked', line \in Lines(txn') \cup Waiting' :
          (line < e.line /\ line \notin Delivered') => Earlier(rows', line, e.id)
    BY <1>d, <1>u, <1>a DEF OrderInv, ChainInv
  <2> QED BY <2>1, <2>2, <1>d, <1>u DEF OrderInv, ChainInv
<1>5. RequestInv'
  <2>1. ASSUME NEW e \in B, NEW f \in rows' \cup Asked', f.line \notin Delivered
        PROVE  /\ f.id <= e.id => f \in B
               /\ (e.id < f.id /\ f.line < e.line) => Earlier(B, f.line, e.id)
    <3>1. f \in rows
      BY <2>1, <1>a, <1>o DEF OrderInv, RequestInv, Asked
    <3>2. ASSUME e.id < f.id /\ f.line < e.line PROVE Earlier(B, f.line, e.id)
      <4>1. Earlier(rows, f.line, e.id)
        BY <3>1, <3>2, <2>1, <1>b DEF OrderInv, ChainInv, InOrder
      <4>2. PICK g \in rows : g.line = f.line /\ g.id < e.id
        BY <4>1 DEF Earlier
      <4>3. g.id <= e.id
        BY <4>2, <1>b, <1>t DEF Event
      <4> QED BY <4>2, <4>3, <1>c DEF Earlier
    <3> QED BY <3>1, <3>2, <1>c
  <2>2. UniqueIds(B) /\ \A e \in B : e.id <= seq /\ e \in rows
    BY <1>b DEF BufferInv, UniqueIds
  <2>3. ASSUME NEW k \in Handlers
        PROVE  LET todo == handler'[k].todo
               IN  /\ handler'[k].phase = "idle" => todo = {}
                   /\ UniqueIds(todo)
                   /\ ipc' # "off" =>
                        \A e \in todo : e.id <= seq' /\ (e \in rows' \/ e.line \in Delivered')
                   /\ \A e \in todo, f \in rows' \cup Asked' : f.line \notin Delivered' =>
                        /\ f.id <= e.id => f \in todo
                        /\ (e.id < f.id /\ f.line < e.line) => Earlier(todo, f.line, e.id)
    <3>1. CASE k = h
      BY <3>1, <2>1, <2>2, <1>2, <1>d, <1>u
    <3>2. CASE k # h
      BY <3>2, <1>2, <1>d, <1>u, <1>a DEF OrderInv, RequestInv
    <3> QED BY <3>1, <3>2
  <2> QED BY <2>3 DEF RequestInv
<1>6. FrontInv'
  <2>1. Lines(rows' \cup Asked' \cup txn') \subseteq Lines(rows \cup Asked \cup txn)
    BY <1>u, <1>a, LinesGrow
  <2> QED BY <2>1, <1>d DEF OrderInv, FrontInv
<1> QED BY <1>3, <1>4, <1>5, <1>6 DEF OrderInv

(* What a handler produces next is a repeat or newer than the whole topic.     *)
LEMMA ProducedNewest ==
    ASSUME TypeOK, OrderInv, NEW e \in Asked
    PROVE  e.line \in Delivered \/ \A d \in Delivered : d < e.line
<1>1. e.line \in Nat /\ Delivered \subseteq Nat
  BY OrderTypes DEF Event, Delivered, Lines
<1>2. e.line \in Lines(rows \cup Asked \cup txn)
  BY DEF Lines
<1>3. ASSUME NEW d \in Delivered, e.line < d PROVE e.line \in Delivered
  BY <1>2, <1>3 DEF OrderInv, FrontInv
<1> QED BY <1>1, <1>3

(* A handler produces the first of its events.  A line that was not delivered   *)
(* and is older would be in the request too, before it.                       *)
LEMMA ProduceStep ==
    ASSUME TypeOK, OrderInv, UNCHANGED stationVars,
           NEW h \in Handlers, NEW e \in handler[h].todo,
           handler[h].phase = "producing",
           \A f \in handler[h].todo : e.id <= f.id,
           handler' = [handler EXCEPT ![h].todo = @ \ {e}],
           Published' = Published \cup {e}
    PROVE  OrderInv'
<1>u. UNCHANGED <<rows, seq, accepted, disk, txn, pending, heard, ipc, ppc>>
  BY DEF stationVars, ingestVars, bufferVars, publishVars
<1>t. /\ handler \in [Handlers -> [phase : {"idle", "received", "producing"},
                                  batch : SUBSET Event, todo : SUBSET Event]]
      /\ rows \subseteq Event /\ Asked \subseteq Event /\ e \in Event
  BY OrderTypes DEF TypeOK, WireTypeOK
<1>1. /\ handler'[h].todo = handler[h].todo \ {e} /\ handler'[h].phase = "producing"
      /\ \A k \in Handlers : k # h => handler'[k] = handler[k]
  BY <1>t
<1>a. Asked' \subseteq Asked /\ e \in Asked
  BY <1>1 DEF Asked
<1>d. Delivered' = Delivered \cup {e.line} /\ Waiting' = Waiting
  BY <1>u DEF Delivered, Lines, Waiting
<1>2. StoreInv'
  <2>1. Lines(rows' \cup Asked' \cup txn' \cup disk'.rows \cup Published')
          \subseteq Lines(rows \cup Asked \cup txn \cup disk.rows \cup Published)
    BY <1>u, <1>a, LinesGrow
  <2> QED BY <2>1, <1>u, <1>d DEF OrderInv, StoreInv
<1>3. ChainInv'
  <2>1. InOrder(rows)' /\ InOrder(disk.rows)'
    BY <1>d, <1>u DEF OrderInv, ChainInv, InOrder, Earlier
  <2>2. \A x \in rows' \cup Asked', line \in Lines(txn') \cup Waiting' :
          (line < x.line /\ line \notin Delivered') => Earlier(rows', line, x.id)
    BY <1>d, <1>u, <1>a DEF OrderInv, ChainInv
  <2> QED BY <2>1, <2>2, <1>d, <1>u DEF OrderInv, ChainInv
<1>4. RequestInv'
  <2> DEFINE todo == handler[h].todo
  <2>1. ASSUME NEW x \in todo \ {e}, NEW f \in rows \cup Asked, f.line \notin Delivered'
        PROVE  /\ f.id <= x.id => f \in todo \ {e}
               /\ (x.id < f.id /\ f.line < x.line) => Earlier(todo \ {e}, f.line, x.id)
    <3>1. f # e /\ f.line # e.line /\ f.line \notin Delivered
      BY <2>1, <1>d
    <3>2. f.id <= x.id => f \in todo
      BY <3>1 DEF OrderInv, RequestInv
    <3>3. ASSUME x.id < f.id /\ f.line < x.line PROVE Earlier(todo \ {e}, f.line, x.id)
      <4>1. Earlier(todo, f.line, x.id)
        BY <3>1, <3>3 DEF OrderInv, RequestInv
      <4>2. PICK g \in todo : g.line = f.line /\ g.id < x.id
        BY <4>1 DEF Earlier
      <4> QED BY <4>2, <3>1 DEF Earlier
    <3> QED BY <3>1, <3>2, <3>3
  <2>2. UniqueIds(todo \ {e}) /\ todo \ {e} \subseteq todo
    BY DEF OrderInv, RequestInv, UniqueIds
  <2>3. ASSUME NEW k \in Handlers
        PROVE  LET new == handler'[k].todo
               IN  /\ handler'[k].phase = "idle" => new = {}
                   /\ UniqueIds(new)
                   /\ ipc' # "off" =>
                        \A x \in new : x.id <= seq' /\ (x \in rows' \/ x.line \in Delivered')
                   /\ \A x \in new, f \in rows' \cup Asked' : f.line \notin Delivered' =>
                        /\ f.id <= x.id => f \in new
                        /\ (x.id < f.id /\ f.line < x.line) => Earlier(new, f.line, x.id)
    <3>1. CASE k = h
      <4>1. ipc' # "off" =>
              \A x \in todo : x.id <= seq' /\ (x \in rows' \/ x.line \in Delivered')
        BY <1>d, <1>u DEF OrderInv, RequestInv
      <4>2. handler'[k].todo = todo \ {e} /\ handler'[k].phase # "idle"
        BY <3>1, <1>1
      <4>3. \A x \in todo \ {e}, f \in rows' \cup Asked' : f.line \notin Delivered' =>
              /\ f.id <= x.id => f \in todo \ {e}
              /\ (x.id < f.id /\ f.line < x.line) => Earlier(todo \ {e}, f.line, x.id)
        BY <2>1, <1>a, <1>u
      <4> HIDE DEF todo
      <4> QED BY <4>1, <4>2, <4>3, <2>2
    <3>2. CASE k # h
      BY <3>2, <1>1, <1>d, <1>u, <1>a DEF OrderInv, RequestInv
    <3> QED BY <3>1, <3>2
  <2> QED BY <2>3 DEF RequestInv
<1>5. FrontInv'
  <2>1. ASSUME NEW f \in rows \cup Asked, f.line \notin Delivered, f.line # e.line,
               f.line < e.line
        PROVE  FALSE
    <3>1. ~(f.id <= e.id)
      <4>1. ASSUME f.id <= e.id PROVE FALSE
        <5>1. f \in handler[h].todo
          BY <4>1, <2>1 DEF OrderInv, RequestInv
        <5>2. f.id = e.id
          BY <5>1, <4>1, <1>t DEF Event
        <5> QED BY <5>1, <5>2, <2>1 DEF OrderInv, RequestInv, UniqueIds
      <4> QED BY <4>1
    <3>2. e.id < f.id
      BY <3>1, <1>t DEF Event
    <3>3. Earlier(handler[h].todo, f.line, e.id)
      BY <3>2, <2>1 DEF OrderInv, RequestInv
    <3>4. PICK g \in handler[h].todo : g.id < e.id
      BY <3>3 DEF Earlier
    <3> QED BY <3>4, <1>t DEF Event
  <2>2. ASSUME NEW line \in Lines(txn) \cup Waiting, line \notin Delivered, line < e.line
        PROVE  FALSE
    <3>1. Earlier(rows, line, e.id)
      BY <2>2, <1>a DEF OrderInv, ChainInv
    <3>2. PICK g \in rows : g.line = line /\ g.id < e.id
      BY <3>1 DEF Earlier
    <3>3. g.id <= e.id /\ ~(e.id <= g.id)
      BY <3>2, <1>t DEF Event
    <3>4. g \in handler[h].todo
      BY <3>2, <3>3, <2>2 DEF OrderInv, RequestInv
    <3> QED BY <3>3, <3>4
  <2>3. ASSUME NEW line \in Lines(rows' \cup Asked' \cup txn') \cup Waiting',
               line < e.line, line \notin Delivered'
        PROVE  FALSE
    <3>1. line \notin Delivered /\ line # e.line
      BY <2>3, <1>d
    <3>2. CASE line \in Lines(txn) \cup Waiting
      BY <3>1, <3>2, <2>2, <2>3
    <3>3. CASE line \notin Lines(txn) \cup Waiting
      <4>1. line \in Lines(rows \cup Asked)
        BY <3>3, <1>u, <1>a, <1>d DEF Lines
      <4>2. PICK f \in rows \cup Asked : f.line = line
        BY <4>1 DEF Lines
      <4> QED BY <4>2, <3>1, <2>1, <2>3
    <3> QED BY <3>2, <3>3
  <2>4. ASSUME NEW d \in Delivered,
               NEW line \in Lines(rows' \cup Asked' \cup txn') \cup Waiting', line < d
        PROVE  line \in Delivered'
    <3>1. Lines(rows' \cup Asked' \cup txn') \subseteq Lines(rows \cup Asked \cup txn)
      BY <1>u, <1>a, LinesGrow
    <3> QED BY <2>4, <3>1, <1>d DEF OrderInv, FrontInv
  <2> QED BY <2>3, <2>4, <1>d DEF FrontInv
<1> QED BY <1>2, <1>3, <1>4, <1>5 DEF OrderInv

LEMMA OrderInit == Init => OrderInv
<1> SUFFICES ASSUME Init PROVE OrderInv
  OBVIOUS
<1>1. /\ rows = {} /\ txn = {} /\ disk.rows = {} /\ disk.accepted = {} /\ accepted = {}
      /\ Kept(pending) = {} /\ Waiting = {} /\ Published = {} /\ Asked = {}
      /\ ipc = "down" /\ ppc = "down"
      /\ \A h \in Handlers : handler[h].todo = {}
  BY DEF Init, StationInit, WireInit, Kept, Waiting, Published, Asked, Idle
<1>2. Lines({}) = {}
  BY DEF Lines
<1>3. StoreInv
  BY <1>1, <1>2, FS_EmptySet DEF StoreInv
<1>4. ChainInv /\ RequestInv /\ FrontInv
  BY <1>1, <1>2 DEF ChainInv, InOrder, RequestInv, UniqueIds, FrontInv, Delivered
<1> QED BY <1>3, <1>4 DEF OrderInv

(* Every step keeps the order.                                              *)
LEMMA OrderStep ==
    TypeOK /\ BufferInv /\ PublishInv /\ OrderInv /\ [Next]_vars => OrderInv'
<1> SUFFICES ASSUME TypeOK, BufferInv, PublishInv, OrderInv, [Next]_vars PROVE OrderInv'
  OBVIOUS
<1>t. handler \in [Handlers -> [phase : {"idle", "received", "producing"},
                               batch : SUBSET Event, todo : SUBSET Event]]
  BY DEF TypeOK, WireTypeOK
<1>1. CASE StartIngest \/ Connect \/ FlushDue \/ FeedLost
  BY <1>1, QuietStep DEF StartIngest, Connect, FlushDue, FeedLost,
       bufferVars, publishVars, wireVars
<1>2. CASE Clear
  <2>1. ipc' \in {"reading", "connecting", "down"}
    BY <1>2 DEF Clear, TypeOK, StationTypeOK
  <2> QED BY <1>2, <2>1, QuietStep DEF Clear, bufferVars, publishVars, wireVars
<1>3. CASE Signal \/ SqliteError \/ KillIngest
  <2>1. IngestGone \/ (ipc' = "insert" /\ UNCHANGED <<pending, txn>>)
    BY <1>3 DEF Signal, SqliteError, KillIngest, Unwind
  <2>2. /\ ipc # "off" /\ ipc' # "off" /\ (pending' = pending \/ pending' = <<>>)
        /\ (txn' = txn \/ txn' = {})
    BY <1>3, <2>1 DEF Signal, SqliteError, KillIngest, IngestGone
  <2> QED BY <1>3, <2>2, QuietStep DEF Signal, SqliteError, KillIngest, publishVars
<1>4. CASE \/ StartPublish \/ PostSucceeds \/ PostRefused \/ GiveUp
           \/ PostDisconnected \/ PublishDies
  BY <1>4, QuietStep DEF StartPublish, PostSucceeds, PostRefused, GiveUp,
       PostDisconnected, PublishDies, ingestVars, bufferVars, wireVars
<1>5. CASE UNCHANGED vars
  BY <1>5, QuietStep DEF vars, stationVars, ingestVars, bufferVars, publishVars, wireVars
<1>6. CASE (\E h \in Handlers : Accept(h)) /\ UNCHANGED stationVars
  <2>1. \A k \in Handlers : /\ handler'[k].todo = handler[k].todo
                            /\ handler'[k].phase = "idle" => handler[k].phase = "idle"
    BY <1>6, <1>t DEF Accept
  <2>2. UNCHANGED log
    BY <1>6 DEF Accept
  <2> QED BY <1>6, <2>1, <2>2, QuietStep DEF stationVars, ingestVars, bufferVars, publishVars
<1>7. CASE /\ (\E h \in Handlers : Reject(h) \/ Answer(h) \/ Fail(h)) \/ Crash
           /\ UNCHANGED stationVars
  <2>1. \A k \in Handlers : handler'[k] = handler[k] \/ handler'[k].todo = {}
    <3>1. CASE Crash
      BY <3>1 DEF Crash, Idle
    <3>2. CASE \E h \in Handlers : Reject(h) \/ Answer(h) \/ Fail(h)
      <4>1. PICK h \in Handlers : handler' = [handler EXCEPT ![h] = Idle]
        BY <3>2 DEF Reject, Answer, Fail, Return
      <4> QED BY <4>1, <1>t DEF Idle
    <3> QED BY <1>7, <3>1, <3>2
  <2>2. UNCHANGED log
    BY <1>7 DEF Reject, Answer, Fail, Crash
  <2>3. \A k \in Handlers :
          \/ handler'[k].todo = {}
          \/ /\ handler'[k].todo = handler[k].todo
             /\ handler'[k].phase = "idle" => handler[k].phase = "idle"
    BY <2>1
  <2> QED BY <1>7, <2>2, <2>3, QuietStep DEF stationVars, ingestVars, bufferVars, publishVars
<1>8. CASE (\E h \in Handlers : Produce(h)) /\ UNCHANGED stationVars
  <2> PICK h \in Handlers : Produce(h)
    BY <1>8
  <2> PICK e \in handler[h].todo :
            /\ \A f \in handler[h].todo : e.id <= f.id
            /\ log' = Append(log, e)
            /\ handler' = [handler EXCEPT ![h].todo = @ \ {e}]
    BY DEF Produce
  <2>1. log \in Seq(Event) /\ e \in Event
    BY DEF TypeOK, WireTypeOK
  <2>2. /\ DOMAIN log' = DOMAIN log \cup {Len(log) + 1}
        /\ log'[Len(log) + 1] = e
        /\ \A i \in DOMAIN log : log'[i] = log[i]
    BY <2>1
  <2>3. Published' = Published \cup {e}
    BY <2>2 DEF Published
  <2>4. handler[h].phase = "producing"
    BY DEF Produce
  <2> QED BY <1>8, <2>3, <2>4, ProduceStep
<1>9. CASE \E line \in {Blank, 1} : Read(line)
  BY <1>9, ReadStep
<1>10. CASE Insert \/ Commit \/ Post \/ Ack \/ Sync \/ PowerLoss \/ Boot
  BY <1>10, InsertStep, CommitStep, PostStep, AckStep, SyncStep, PowerLossStep, BootStep
<1> QED BY <1>1, <1>2, <1>3, <1>4, <1>5, <1>6, <1>7, <1>8, <1>9, <1>10
        DEF Next, Ingest, Publish, Machine, Gateway, Serve

(* Buffer, requests and topic stay in the order of the feed, up to repeats.     *)
THEOREM OrderCorrect == Spec => []OrderInv
<1>1. TypeOK /\ DeliveryInv /\ OrderInv /\ [Next]_vars => OrderInv'
  BY OrderStep DEF DeliveryInv
<1> QED BY <1>1, OrderInit, TypeCorrect, InvCorrect, PTL DEF Spec

(* Appending to the topic: what it then holds.                               *)
LEMMA ProduceFacts ==
    ASSUME TypeOK, NEW h \in Handlers, Produce(h)
    PROVE  \E e \in Asked :
              /\ log' = Append(log, e)
              /\ DOMAIN log' = DOMAIN log \cup {Len(log) + 1}
              /\ log'[Len(log) + 1] = e
              /\ \A i \in DOMAIN log : log'[i] = log[i]
<1> PICK e \in handler[h].todo : log' = Append(log, e)
  BY DEF Produce
<1>1. log \in Seq(Event) /\ e \in Event
  BY DEF TypeOK, WireTypeOK
<1> QED BY <1>1 DEF Asked

(* A step that does not produce leaves the topic alone.                        *)
LEMMA LogStep ==
    ASSUME [Next]_vars
    PROVE  UNCHANGED log \/ \E h \in Handlers : Produce(h) /\ UNCHANGED stationVars
BY DEF Next, Ingest, Publish, Machine, Gateway, Serve, vars, wireVars,
       StartIngest, Connect, Read, FlushDue, FeedLost, Insert, Commit, Clear,
       Signal, SqliteError, KillIngest, StartPublish, Post, PostSucceeds,
       PostRefused, GiveUp, PostDisconnected, Ack, PublishDies, Sync,
       PowerLoss, Boot, Accept, Reject, Answer, Fail, Crash

(* In the station's partition a line at or before the newest seen is a repeat:  *)
(* StationDedup loses nothing by dropping it, whatever overlaps, is retried or   *)
(* is brought back by a power loss.                                         *)
THEOREM RepeatsTrail == Spec => []RepeatsTrailNewest
<1>1. Init => RepeatsTrailNewest
  BY DEF Init, WireInit, RepeatsTrailNewest
<1>2. ASSUME TypeOK, OrderInv, RepeatsTrailNewest, [Next]_vars
      PROVE  RepeatsTrailNewest'
  <2>1. CASE UNCHANGED log
    BY <1>2, <2>1 DEF RepeatsTrailNewest
  <2>2. ASSUME NEW h \in Handlers, Produce(h) PROVE RepeatsTrailNewest'
    <3> PICK e \in Asked : /\ log' = Append(log, e)
                           /\ DOMAIN log' = DOMAIN log \cup {Len(log) + 1}
                           /\ log'[Len(log) + 1] = e
                           /\ \A i \in DOMAIN log : log'[i] = log[i]
      BY <1>2, <2>2, ProduceFacts
    <3>t. /\ log \in Seq(Event) /\ DOMAIN log = 1..Len(log) /\ Len(log) \in Nat
          /\ e.line \in Nat /\ \A i \in DOMAIN log : log[i].line \in Nat
      <4>1. log \in Seq(Event)
        BY <1>2 DEF TypeOK, WireTypeOK
      <4>2. \A i \in DOMAIN log : log[i] \in Event
        BY <4>1
      <4>3. e \in Event
        BY <1>2, OrderTypes
      <4>4. \A x \in Event : x.line \in Nat
        BY DEF Event
      <4>5. DOMAIN log = 1..Len(log) /\ Len(log) \in Nat
        BY <4>1
      <4> QED BY <4>1, <4>2, <4>3, <4>4, <4>5
    <3>1. e.line \in Delivered \/ \A d \in Delivered : d < e.line
      BY <1>2, ProducedNewest
    <3>2. Delivered = {log[i].line : i \in DOMAIN log}
      BY DEF Delivered, Lines, Published
    <3> SUFFICES ASSUME NEW j \in DOMAIN log', NEW i \in 1..(j-1), log'[i].line >= log'[j].line
                 PROVE  \E k \in 1..(j-1) : log'[k].line = log'[j].line
      BY DEF RepeatsTrailNewest
    <3>3. CASE j \in DOMAIN log
      <4>1. 1..(j-1) \subseteq DOMAIN log
        BY <3>3, <3>t
      <4>2. log[i].line >= log[j].line
        BY <3>3, <4>1
      <4>3. PICK k \in 1..(j-1) : log[k].line = log[j].line
        BY <1>2, <3>3, <4>2 DEF RepeatsTrailNewest
      <4> QED BY <3>3, <4>1, <4>3
    <3>4. CASE j = Len(log) + 1
      <4>1. 1..(j-1) = DOMAIN log
        BY <3>4, <3>t
      <4>2. log[i].line \in Delivered /\ log[i].line >= e.line
        BY <3>4, <4>1, <3>2
      <4>3. e.line \in Delivered
        BY <4>1, <4>2, <3>1, <3>t
      <4>4. PICK k \in DOMAIN log : log[k].line = e.line
        BY <4>3, <3>2
      <4> QED BY <3>4, <4>1, <4>4
    <3> QED BY <3>3, <3>4
  <2> QED BY <1>2, <2>1, <2>2, LogStep
<1> QED BY <1>1, <1>2, TypeCorrect, OrderCorrect, PTL DEF Spec

-----------------------------------------------------------------------------
(* The refinement.                                                         *)

(* The topic of the promise: the lines of the log.                            *)
LEMMA TopicFacts ==
    Promise!Delivered = Delivered
BY DEF Promise!Delivered, Delivered, Lines, Published

(* Steps that change neither what is heard, stored, promised, delivered nor the  *)
(* number of power losses do nothing in the promise.                          *)
LEMMA StutterStep ==
    ASSUME UNCHANGED <<heard, rows, accepted, log>>, faults'["power"] = faults["power"]
    PROVE  UNCHANGED Promise!vars
BY DEF Promise!vars

(* Reading hears, committing accepts, producing delivers, acknowledging releases,  *)
(* a power loss is an outage, and nothing else is visible.                       *)
LEMMA PromiseStep ==
    ASSUME TypeOK, DeliveryInv, OrderInv, [Next]_vars
    PROVE  [Promise!Next]_(Promise!vars)
<1> DEFINE topic == [i \in DOMAIN log |-> log[i].line]
<1>1. CASE \E line \in {Blank, 1} : Read(line)
  <2>1. PICK line \in {Blank, 1} : Read(line)
    BY <1>1
  <2>2. UNCHANGED <<rows, accepted, log, faults>>
    BY <2>1 DEF Read, bufferVars, wireVars
  <2>3. CASE line = Blank
    <3>1. heard' = heard
      BY <2>1, <2>3 DEF Read
    <3> QED BY <3>1, <2>2, StutterStep
  <2>4. CASE line # Blank
    <3>1. heard' = heard + 1
      BY <2>1, <2>4 DEF Read
    <3>2. Promise!Hear
      BY <3>1, <2>2 DEF Promise!Hear
    <3> QED BY <3>2 DEF Promise!Next
  <2> QED BY <2>3, <2>4
<1>2. CASE Commit
  <2>1. /\ rows' = rows \cup txn /\ accepted' = accepted \cup Lines(txn)
        /\ UNCHANGED <<heard, log, faults>>
    BY <1>2 DEF Commit, wireVars
  <2>2. Lines(txn) \in SUBSET (1..heard)
    BY DEF OrderInv, StoreInv, Lines
  <2>3. Lines(rows') = Lines(rows) \cup Lines(txn)
    BY <2>1 DEF Lines
  <2>4. Promise!Accept
    BY <2>1, <2>2, <2>3 DEF Promise!Accept
  <2> QED BY <2>4 DEF Promise!Next
<1>3. ASSUME NEW h \in Handlers, Produce(h), UNCHANGED stationVars
      PROVE  Promise!Deliver
  <2>1. PICK e \in Asked : /\ log' = Append(log, e)
                           /\ DOMAIN log' = DOMAIN log \cup {Len(log) + 1}
                           /\ log'[Len(log) + 1] = e
                           /\ \A i \in DOMAIN log : log'[i] = log[i]
    BY <1>3, ProduceFacts
  <2>2. UNCHANGED <<heard, rows, accepted, faults>>
    BY <1>3 DEF Produce, stationVars, ingestVars, bufferVars
  <2>3. e.line \in 1..heard
    BY DEF OrderInv, StoreInv, Lines
  <2>4. e.line \in Delivered \/ \A d \in Delivered : d < e.line
    BY ProducedNewest
  <2>5. [i \in DOMAIN log |-> log[i].line]' = Append([i \in DOMAIN log |-> log[i].line], e.line)
    <3>1. log \in Seq(Event) /\ DOMAIN log = 1..Len(log) /\ Len(log) \in Nat
      BY DEF TypeOK, WireTypeOK
    <3>2. topic \in Seq(Nat) /\ Len(topic) = Len(log)
      <4>1. \A i \in DOMAIN log : log[i].line \in Nat
        <5>1. \A i \in DOMAIN log : log[i] \in Event
          BY <3>1
        <5> QED BY <5>1 DEF Event
      <4> QED BY <3>1, <4>1
    <3>3. topic' = [i \in 1..(Len(log) + 1) |-> IF i = Len(log) + 1 THEN e.line ELSE log[i].line]
      BY <2>1, <3>1
    <3>4. Append(topic, e.line) = [i \in 1..(Len(log) + 1) |->
                                      IF i = Len(log) + 1 THEN e.line ELSE log[i].line]
      BY <3>1, <3>2
    <3> QED BY <3>3, <3>4
  <2> QED BY <2>2, <2>3, <2>4, <2>5, TopicFacts DEF Promise!Deliver
<1>4. CASE Ack
  <2>1. /\ rows' = {e \in rows : e.id \notin Ids(batch)}
        /\ UNCHANGED <<heard, accepted, log, faults>>
    BY <1>4 DEF Ack, Acked, ingestVars, wireVars
  <2>2. batch \subseteq rows /\ batch \subseteq Published
    BY <1>4 DEF Ack, DeliveryInv, PublishInv
  <2>3. \A e \in rows : e \in rows' \/ e \in batch
    BY <2>1, <2>2 DEF Ids, DeliveryInv, BufferInv, UniqueIds
  <2>4. Lines(rows') \subseteq Lines(rows) /\ Lines(rows) \ Lines(rows') \subseteq Delivered
    BY <2>1, <2>2, <2>3 DEF Lines, Delivered
  <2>5. Promise!Release
    BY <2>1, <2>4, TopicFacts DEF Promise!Release
  <2> QED BY <2>5 DEF Promise!Next
<1>5. CASE PowerLoss
  <2>1. /\ rows' = disk.rows /\ accepted' = disk.accepted /\ UNCHANGED <<heard, log>>
    BY <1>5 DEF PowerLoss
  <2>2. faults'["power"] = faults["power"] + 1
    BY <1>5 DEF PowerLoss, Fault, TypeOK, WireTypeOK, Faults
  <2>3. Lines(disk.rows) \subseteq Lines(rows) \cup Delivered
    BY DEF OrderInv, StoreInv, Lines
  <2>4. /\ disk.accepted \subseteq accepted
        /\ disk.accepted \subseteq Lines(disk.rows) \cup Delivered
    BY DEF OrderInv, StoreInv, DeliveryInv, LossInv, Delivered
  <2>5. Promise!Outage
    BY <2>1, <2>2, <2>3, <2>4, TopicFacts DEF Promise!Outage
  <2> QED BY <2>5 DEF Promise!Next
<1>6. CASE UNCHANGED <<heard, rows, accepted, log>> /\ ~PowerLoss
  BY <1>6, PowerStep, StutterStep
<1>7. \/ (\E line \in {Blank, 1} : Read(line)) \/ Commit \/ Ack \/ PowerLoss
      \/ (\E h \in Handlers : Produce(h) /\ UNCHANGED stationVars)
      \/ UNCHANGED <<heard, rows, accepted, log>>
  BY DEF Next, Ingest, Publish, Machine, Gateway, Serve, vars, wireVars, stationVars,
         ingestVars, bufferVars, StartIngest, Connect, FlushDue, FeedLost, Insert, Clear,
         Signal, SqliteError, KillIngest, StartPublish, Post, PostSucceeds,
         PostRefused, GiveUp, PostDisconnected, PublishDies, Sync, Boot,
         Accept, Reject, Answer, Fail, Crash
<1> QED BY <1>1, <1>2, <1>3, <1>4, <1>5, <1>6, <1>7 DEF Promise!Next

LEMMA PromiseInit == Init => Promise!Init
<1> SUFFICES ASSUME Init PROVE Promise!Init
  OBVIOUS
<1>1. heard = 0 /\ accepted = {} /\ rows = {} /\ log = <<>> /\ faults["power"] = 0
  BY DEF Init, StationInit, WireInit, Faults
<1>2. Lines(rows) = {} /\ [i \in DOMAIN log |-> log[i].line] = <<>>
  BY <1>1 DEF Lines
<1> QED BY <1>1, <1>2 DEF Promise!Init

(* Station and gateway, with their transactions, requests, retries, crashes and    *)
(* power losses, implement ordered at-least-once handover.                       *)
THEOREM DeliveryImplementsHandover == Spec => ImplementsHandover
<1>1. TypeOK /\ DeliveryInv /\ OrderInv /\ [Next]_vars => [Promise!Next]_(Promise!vars)
  BY PromiseStep
<1> QED BY <1>1, PromiseInit, TypeCorrect, InvCorrect, OrderCorrect, PTL
        DEF Spec, ImplementsHandover, Promise!Spec
=============================================================================
