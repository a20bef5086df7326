---------------------------- MODULE ConsumeProofs ----------------------------
(***************************************************************************)
(* The consume loop, for every topic, every batch size and any number of      *)
(* stops: what the proofs of its callers have in common.                    *)
(***************************************************************************)
EXTENDS Consume, TLAPS

(* Slices and committed prefixes as sets of positions.                      *)
LEMMA SliceFacts ==
    ASSUME NEW a \in [Partitions -> Nat], NEW b \in [Partitions -> Nat]
    PROVE  \A x : x \in Slice(a, b) <=>
              \E p \in Partitions, i \in Nat : x = <<p, i>> /\ a[p] < i /\ i <= b[p]
<1>1. \A p \in Partitions : a[p] \in Nat /\ b[p] \in Nat
  OBVIOUS
<1>2. ASSUME NEW x, x \in Slice(a, b)
      PROVE  \E p \in Partitions, i \in Nat : x = <<p, i>> /\ a[p] < i /\ i <= b[p]
  <2> PICK p \in Partitions : x \in {p} \X ((a[p] + 1)..b[p])
    BY <1>2 DEF Slice
  <2> PICK i \in (a[p] + 1)..b[p] : x = <<p, i>>
    OBVIOUS
  <2> QED BY <1>1
<1>3. ASSUME NEW p \in Partitions, NEW i \in Nat, a[p] < i, i <= b[p]
      PROVE  <<p, i>> \in Slice(a, b)
  <2>1. i \in (a[p] + 1)..b[p]
    BY <1>1, <1>3
  <2> QED BY <2>1 DEF Slice
<1> QED BY <1>2, <1>3

LEMMA PositionFacts ==
    \A x : x \in Position <=>
       \E p \in Partitions, i \in Nat : x = <<p, i>> /\ 0 < i /\ i <= Len(Topic[p])
<1>1. \A p \in Partitions : Len(Topic[p]) \in Nat /\ DOMAIN Topic[p] = 1..Len(Topic[p])
  BY ConsumeAssumption
<1>2. ASSUME NEW x, x \in Position
      PROVE  \E p \in Partitions, i \in Nat : x = <<p, i>> /\ 0 < i /\ i <= Len(Topic[p])
  <2> PICK p \in Partitions : x \in {p} \X DOMAIN Topic[p]
    BY <1>2 DEF Position
  <2> PICK i \in 1..Len(Topic[p]) : x = <<p, i>>
    BY <1>1
  <2> QED BY <1>1
<1>3. ASSUME NEW p \in Partitions, NEW i \in Nat, 0 < i, i <= Len(Topic[p])
      PROVE  <<p, i>> \in Position
  <2>1. i \in DOMAIN Topic[p]
    BY <1>1, <1>3
  <2> QED BY <2>1 DEF Position
<1> QED BY <1>2, <1>3

-----------------------------------------------------------------------------
(* The offsets.                                                            *)

LEMMA BatchInit == ConsumeInit => ConsumeTypeOK /\ BatchInv /\ DecodedInv
<1> SUFFICES ASSUME ConsumeInit PROVE ConsumeTypeOK /\ BatchInv /\ DecodedInv
  OBVIOUS
<1>1. ConsumeTypeOK /\ BatchInv
  BY ConsumeAssumption DEF ConsumeInit, ConsumeTypeOK, BatchInv
<1>2. PoisonNotPassed
  BY PositionFacts DEF ConsumeInit, PoisonNotPassed
<1> QED BY <1>1, <1>2 DEF DecodedInv, ConsumeInit

(* A poll extends position and pending together, or ends the loop.            *)
LEMMA GatherStep ==
    ASSUME ConsumeTypeOK, BatchInv, DecodedInv, cpc = "polling", committed' = committed,
           NEW room, NEW to \in PollEnds(room),
           NEW then \in {"down", "polling", "closing"}, Gather(to, then),
           then = "down" => pending \cup Slice(position, to) = {}
    PROVE  /\ cpc' \in {"down", "polling", "closing"}
           /\ position' \in [Partitions -> Nat]
           /\ pending' \subseteq Partitions \X Nat
           /\ BatchInv' /\ DecodedInv'
<1> USE DEF ConsumeTypeOK
<1>1. to \in [Partitions -> Nat]
  <2>1. UNION {0..Len(Topic[p]) : p \in Partitions} \subseteq Nat
    BY ConsumeAssumption
  <2> QED BY <2>1 DEF PollEnds
<1>2. \A p \in Partitions : position[p] <= to[p] /\ to[p] <= Len(Topic[p])
  BY DEF PollEnds
<1>3. /\ pending = Slice(committed, position)
      /\ \A p \in Partitions : committed[p] <= position[p] /\ committed[p] <= Len(Topic[p])
  BY DEF BatchInv
<1>4. \A p \in Partitions : /\ committed[p] \in Nat /\ position[p] \in Nat /\ to[p] \in Nat
                           /\ committed[p] <= to[p]
  BY <1>1, <1>2, <1>3
<1>5. \A p \in Partitions, i \in Nat :
        (committed[p] < i /\ i <= to[p]) <=>
           \/ committed[p] < i /\ i <= position[p]
           \/ position[p] < i /\ i <= to[p]
  BY <1>2, <1>3, <1>4
<1>6. Slice(committed, to) = Slice(committed, position) \cup Slice(position, to)
  BY <1>1, <1>5, SliceFacts
<1>7. pending \cup Slice(position, to) \subseteq Partitions \X Nat
  <2>1. ASSUME NEW x \in Slice(position, to) PROVE x \in Partitions \X Nat
    BY <1>1, <2>1, SliceFacts
  <2> QED BY <2>1
<1>8. position' = to /\ PoisonNotPassed'
  BY DEF Gather, DecodedInv, PoisonNotPassed
<1>9. CASE \E x \in Slice(position, to) : Record(x) \in Poison
  BY <1>1, <1>3, <1>8, <1>9 DEF Gather, BatchInv, DecodedInv
<1>10. CASE ~\E x \in Slice(position, to) : Record(x) \in Poison
  <2>1. cpc' = then /\ pending' = pending \cup Slice(position, to)
    BY <1>10 DEF Gather
  <2>2. \A x \in pending' : Record(x) \notin Poison
    BY <1>10, <2>1 DEF DecodedInv
  <2>3. BatchInv'
    BY <1>2, <1>3, <1>4, <1>6, <1>8, <2>1 DEF BatchInv
  <2> QED BY <1>1, <1>7, <1>8, <2>1, <2>2, <2>3 DEF DecodedInv
<1> QED BY <1>9, <1>10

(* Nothing pending is committed, and everything pending is in the topic.     *)
LEMMA PendingFacts ==
    ASSUME ConsumeTypeOK, BatchInv, cpc # "down"
    PROVE  /\ pending \subseteq Position
           /\ pending \cap Committed = {}
           /\ {x \in Position : x[2] <= position[x[1]]} \subseteq Committed \cup pending
<1>1. pending = Slice(committed, position)
  BY DEF BatchInv
<1>2. \A p \in Partitions : /\ committed[p] \in Nat /\ position[p] \in Nat
                           /\ Len(Topic[p]) \in Nat /\ position[p] <= Len(Topic[p])
  BY ConsumeAssumption DEF ConsumeTypeOK, BatchInv
<1>3. \A x : x \in pending <=> \E p \in Partitions, i \in Nat :
                 x = <<p, i>> /\ committed[p] < i /\ i <= position[p]
  BY <1>1, SliceFacts DEF ConsumeTypeOK
<1>4. ASSUME NEW x \in pending PROVE x \in Position /\ x \notin Committed
  <2> PICK p \in Partitions, i \in Nat : x = <<p, i>> /\ committed[p] < i /\ i <= position[p]
    BY <1>3
  <2>1. 0 < i /\ i <= Len(Topic[p]) /\ ~(i <= committed[p])
    BY <1>2
  <2> QED BY <2>1, PositionFacts DEF Committed
<1>5. ASSUME NEW x \in Position, x[2] <= position[x[1]], x \notin Committed
      PROVE  x \in pending
  <2> PICK p \in Partitions, i \in Nat : x = <<p, i>>
    BY PositionFacts
  <2>1. committed[p] < i /\ i <= position[p]
    BY <1>2, <1>5 DEF Committed
  <2> QED BY <2>1, <1>3
<1> QED BY <1>4, <1>5

(* A commit commits exactly what is pending.                                 *)
LEMMA CommitFacts ==
    ASSUME ConsumeTypeOK, BatchInv, CommitOffsets
    PROVE  /\ Committed' = Committed \cup pending
           /\ \A p \in Partitions : committed[p] <= committed'[p]
<1>1. cpc # "down" /\ committed' = position
  BY DEF CommitOffsets, Flushing
<1>2. Committed' \subseteq Committed \cup pending
  BY <1>1, PendingFacts DEF Committed
<1>3. \A p \in Partitions : committed[p] \in Nat /\ position[p] \in Nat
                             /\ committed[p] <= position[p]
  BY <1>1 DEF ConsumeTypeOK, BatchInv
<1>4. ASSUME NEW x \in Committed PROVE x \in Committed'
  <2> PICK p \in Partitions, i \in Nat : x = <<p, i>>
    BY PositionFacts DEF Committed
  <2>1. i <= committed[p]
    BY DEF Committed
  <2>2. i <= position[p]
    BY <2>1, <1>3
  <2> QED BY <1>1, <2>2 DEF Committed
<1>5. ASSUME NEW x \in pending PROVE x \in Committed'
  <2>1. x \in Slice(committed, position)
    BY <1>1 DEF BatchInv
  <2>2. PICK p \in Partitions, i \in Nat : x = <<p, i>> /\ i <= position[p]
    BY <2>1, SliceFacts DEF ConsumeTypeOK
  <2>3. x \in Position
    BY <1>1, PendingFacts
  <2> QED BY <1>1, <2>2, <2>3 DEF Committed
<1> QED BY <1>1, <1>2, <1>3, <1>4, <1>5

(* A poll extends both sides, a flush changes neither, a commit empties them, *)
(* a stop starts again from what is committed.  A poll that finds what cannot *)
(* be decoded commits nothing.                                              *)
LEMMA BatchStep ==
    ASSUME ConsumeTypeOK, BatchInv, DecodedInv, crashes' \in Nat,
           \/ Start \/ Poll \/ LastPoll \/ StartFlush \/ CommitOffsets \/ Stop
           \/ UNCHANGED <<cpc, position, committed, pending>>
    PROVE  ConsumeTypeOK' /\ BatchInv' /\ DecodedInv'
<1> USE DEF ConsumeTypeOK
<1>l. \A p \in Partitions : Len(Topic[p]) \in Nat
  BY ConsumeAssumption
<1>e. ASSUME NEW a \in [Partitions -> Nat] PROVE Slice(a, a) = {}
  BY SliceFacts
<1>1. CASE Start
  <2>1. position' = committed /\ committed' = committed /\ pending' = pending
    BY <1>1 DEF Start
  <2>2. pending' = Slice(committed', position')
    BY <1>1, <2>1, <1>e DEF Start, BatchInv
  <2> QED BY <1>1, <2>1, <2>2, <1>l DEF Start, BatchInv, DecodedInv, PoisonNotPassed
<1>2. CASE Poll
  <2> PICK to \in PollEnds(FlushRecords - Cardinality(pending)) : Gather(to, "polling")
    BY <1>2 DEF Poll
  <2>1. cpc = "polling" /\ committed' = committed
    BY <1>2 DEF Poll
  <2> QED BY <2>1, GatherStep
<1>3. CASE LastPoll
  <2> PICK to \in PollEnds(FlushRecords - Cardinality(pending)) :
        Gather(to, IF pending \cup Slice(position, to) = {} THEN "down" ELSE "closing")
    BY <1>3 DEF LastPoll
  <2>1. cpc = "polling" /\ committed' = committed
    BY <1>3 DEF LastPoll
  <2> QED BY <2>1, GatherStep
<1>4. CASE StartFlush
  BY <1>4 DEF StartFlush, BatchInv, DecodedInv, PoisonNotPassed
<1>5. CASE CommitOffsets
  <2>1. /\ cpc' \in {"polling", "down"} /\ Flushing
        /\ committed' = position /\ position' = position /\ pending' = {}
    BY <1>5 DEF CommitOffsets
  <2>2. pending' = Slice(committed', position')
    BY <2>1, <1>e
  <2>3. ASSUME NEW x \in Position, Record(x) \in Poison PROVE committed'[x[1]] < x[2]
    <3>1. x \notin Committed'
      <4>1. x \notin Committed
        <5> PICK p \in Partitions, i \in Nat : x = <<p, i>>
          BY PositionFacts
        <5>1. committed[p] < i
          BY <2>3 DEF DecodedInv, PoisonNotPassed
        <5> QED BY <5>1 DEF Committed
      <4> QED BY <1>5, <2>3, <4>1, CommitFacts DEF DecodedInv
    <3> PICK p \in Partitions, i \in Nat : x = <<p, i>>
      BY PositionFacts
    <3>2. ~(i <= committed'[p]) /\ committed'[p] \in Nat
      BY <2>1, <3>1 DEF Committed
    <3> QED BY <3>2
  <2> QED BY <2>1, <2>2, <2>3, <1>l DEF BatchInv, Flushing, DecodedInv, PoisonNotPassed
<1>6. CASE Stop
  BY <1>6 DEF Stop, BatchInv, DecodedInv, PoisonNotPassed
<1>7. CASE UNCHANGED <<cpc, position, committed, pending>>
  BY <1>7 DEF BatchInv, DecodedInv, PoisonNotPassed
<1> QED BY <1>1, <1>2, <1>3, <1>4, <1>5, <1>6, <1>7
=============================================================================
