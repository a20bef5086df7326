--------------------------- MODULE BackfillProofs ---------------------------
(***************************************************************************)
(* Proofs about Backfill for every archive that is read in order, every      *)
(* number of partitions, runs and disturbances.                            *)
(***************************************************************************)
EXTENDS Backfill, WellFoundedInduction, NaturalsInduction, TLAPS

-----------------------------------------------------------------------------
(* Facts about the operators.                                              *)

LEMMA LeastNat ==
    ASSUME NEW T, T \subseteq Nat, T # {}
    PROVE  \E x \in T : \A y \in T : x <= y
<1>1. PICK x \in T : \A y \in T : ~ (<<y, x>> \in OpToRel(<, Nat))
  BY NatLessThanWellFounded, WFMin
<1>2. \A y \in T : ~ (y < x)
  BY <1>1 DEF OpToRel
<1> QED BY <1>2

LEMMA ArchiveFacts ==
    ASSUME InOrder
    PROVE  /\ Len(Archive) \in Nat \ {0} /\ DOMAIN Archive = 1..Len(Archive)
           /\ Rows = {Archive[k] : k \in 1..Len(Archive)}
<1>1. Archive \in Seq(Rows) /\ Archive # << >>
  BY DEF InOrder
<1>2. Len(Archive) \in Nat \ {0} /\ DOMAIN Archive = 1..Len(Archive)
  BY <1>1
<1> QED BY <1>2 DEF Rows, Range

(* Among the rows of a station the order is that of times, then lines.         *)
LEMMA LessFacts ==
    ASSUME NEW m \in Rows, NEW n \in Rows, m.station = n.station
    PROVE  /\ Less(m, n) <=> (m.ts < n.ts \/ (m.ts = n.ts /\ m.fp < n.fp))
           /\ m = n \/ Less(m, n) \/ Less(n, m)
           /\ ~(Less(m, n) /\ Less(n, m))
BY RowAssumption DEF Less

(* A batch has at least one row and ends in the archive.                       *)
LEMMA BatchEndFacts ==
    ASSUME InOrder, next \in 0..(Len(Archive) - 1)
    PROVE  BatchEnd \in (next + 1)..Len(Archive)
<1> DEFINE T == {next + BatchSize} \cup {e \in DayEnds : e > next}
<1>1. Len(Archive) \in Nat /\ next \in Nat /\ next < Len(Archive)
  BY ArchiveFacts
<1>2. DayEnds \subseteq Nat /\ Len(Archive) \in DayEnds
  BY DEF InOrder
<1>3. BatchSize \in Nat /\ BatchSize > 0
  BY BackfillAssumption
<1>4. T # {} /\ Len(Archive) \in T /\ \A x \in T : x \in Nat /\ x > next
  BY <1>1, <1>2, <1>3
<1>5. BatchEnd = CHOOSE x \in T : \A y \in T : x =< y
  BY DEF BatchEnd, Min
<1> HIDE DEF T
<1>6. \E x \in T : \A y \in T : x =< y
  <2>1. T \subseteq Nat
    BY <1>4
  <2> QED BY <2>1, <1>4, LeastNat
<1>7. BatchEnd \in T /\ \A y \in T : BatchEnd =< y
  BY <1>5, <1>6
<1> QED BY <1>1, <1>4, <1>7

(* What a replay appends keeps the partition complete: rows before the batch     *)
(* have been replayed, those in it come in order.                              *)
LEMMA CompleteGrows ==
    ASSUME InOrder, NEW p \in Partitions, NEW t \in Seq(Rows), NEW start \in 0..Len(t),
           NEW a \in Nat, NEW b \in Nat, NEW c \in 0..b, a < Len(Archive), a <= b, b <= Len(Archive),
           Complete(t, a, p, start)
    PROVE  Complete(t \o Share(a + 1, b, p), c, p, start)
<1> DEFINE share == Share(a + 1, b, p)
           u == t \o share
           n == Len(t)
           last == Len(Archive)
<1>1. /\ last \in Nat /\ DOMAIN Archive = 1..last
      /\ Rows = {Archive[k] : k \in 1..last}
  BY ArchiveFacts
<1>2. a + 1 \in DOMAIN Archive /\ b \in 0..last
  BY <1>1
<1>3. SharesRows(share, a + 1, b, p)
  BY <1>2 DEF InOrder
<1>4. \A k, l \in 1..last :
         (k < l /\ Archive[k].station = Archive[l].station) => Less(Archive[k], Archive[l])
  BY <1>1 DEF InOrder
<1> HIDE DEF share
<1>5. /\ n \in Nat /\ Len(share) \in Nat /\ DOMAIN share = 1..Len(share)
      /\ Len(u) = n + Len(share)
      /\ \A i \in 1..n : u[i] = t[i]
      /\ \A i \in 1..Len(share) : u[n + i] = share[i]
  BY <1>3 DEF SharesRows
<1>6. start \in Nat /\ start <= n
  BY <1>5
<1> SUFFICES Complete(u, c, p, start)
  BY DEF share
<1>7. /\ \A j \in (start + 1)..n, m \in Rows :
           (m.station = t[j].station /\ Less(m, t[j])) => \E i \in (start + 1)..(j - 1) : t[i] = m
      /\ \A k \in 1..a : PartitionOf(Archive[k].station) = p =>
           \E i \in (start + 1)..n : t[i] = Archive[k]
  BY DEF Complete
<1>8. b <= last /\ a < last
  OBVIOUS
<1> HIDE DEF u, n, last
<1>9. ASSUME NEW k \in 1..b, PartitionOf(Archive[k].station) = p
      PROVE  \E i \in (start + 1)..Len(u) : u[i] = Archive[k]
  <2>1. CASE k <= a
    <3>1. PICK i \in (start + 1)..n : t[i] = Archive[k]
      BY <2>1, <1>9, <1>7
    <3>2. i \in (start + 1)..Len(u) /\ i \in 1..n
      BY <1>5, <1>6
    <3> QED BY <3>1, <3>2, <1>5
  <2>2. CASE k > a
    <3>0. k \in (a + 1)..b
      BY <2>2
    <3>1. PICK i \in 1..Len(share) : share[i] = Archive[k]
      BY <3>0, <1>9, <1>3, <1>5 DEF SharesRows
    <3>2. n + i \in (start + 1)..Len(u)
      BY <1>5, <1>6
    <3> QED BY <3>1, <3>2, <1>5
  <2> QED BY <2>1, <2>2
<1>10. ASSUME NEW j \in (start + 1)..Len(u), NEW m \in Rows,
              m.station = u[j].station, Less(m, u[j])
       PROVE  \E i \in (start + 1)..(j - 1) : u[i] = m
  <2>1. CASE j <= n
    <3>1. j \in (start + 1)..n /\ u[j] = t[j]
      BY <2>1, <1>5, <1>6
    <3>2. PICK i \in (start + 1)..(j - 1) : t[i] = m
      BY <3>1, <1>10, <1>7
    <3>3. i \in 1..n
      BY <3>1, <1>5, <1>6
    <3> QED BY <3>2, <3>3, <1>5
  <2>2. CASE j > n
    <3> DEFINE x == j - n
    <3>1. x \in 1..Len(share) /\ j = n + x
      BY <2>2, <1>5, <1>6
    <3> HIDE DEF x
    <3>2. PICK k \in (a + 1)..b :
            /\ share[x] = Archive[k] /\ PartitionOf(Archive[k].station) = p
            /\ \A l \in (a + 1)..(k - 1) : PartitionOf(Archive[l].station) = p =>
                 \E y \in 1..(x - 1) : share[y] = Archive[l]
      BY <3>1, <1>3, <1>5 DEF SharesRows
    <3>3. u[j] = Archive[k] /\ k \in 1..last /\ Archive[k] \in Rows
      BY <3>1, <3>2, <1>1, <1>5, <1>8
    <3>4. PICK l \in 1..last : m = Archive[l]
      BY <1>1
    <3>5. l < k
      <4>1. ASSUME k < l PROVE FALSE
        <5>1. Less(Archive[k], m)
          BY <4>1, <3>3, <3>4, <1>4, <1>10
        <5> QED BY <5>1, <3>3, <1>10, LessFacts
      <4>2. k # l
        BY <3>3, <3>4, <1>10, LessFacts
      <4> QED BY <4>1, <4>2, <3>3, <3>4, <1>1
    <3>6. PartitionOf(Archive[l].station) = p
      BY <3>2, <3>3, <3>4, <1>10
    <3>7. CASE l <= a
      <4>0. l \in 1..a
        BY <3>4, <3>7, <1>1
      <4>1. PICK i \in (start + 1)..n : t[i] = Archive[l]
        BY <4>0, <3>6, <1>7
      <4>2. i \in (start + 1)..(j - 1) /\ i \in 1..n
        BY <3>1, <1>5, <1>6
      <4> QED BY <4>1, <4>2, <3>4, <1>5
    <3>8. CASE l > a
      <4>1. PICK y \in 1..(x - 1) : share[y] = Archive[l]
        BY <3>2, <3>4, <3>5, <3>6, <3>8, <1>1
      <4>2. n + y \in (start + 1)..(j - 1) /\ y \in 1..Len(share)
        BY <3>1, <1>5, <1>6
      <4> QED BY <4>1, <4>2, <3>4, <1>5
    <3> QED BY <3>4, <3>7, <3>8, <1>1
  <2> QED BY <2>1, <2>2, <1>5, <1>6
<1>11. \A k \in 1..c : k \in 1..b
  OBVIOUS
<1>12. \A k \in 1..c : PartitionOf(Archive[k].station) = p =>
          \E i \in (start + 1)..Len(u) : u[i] = Archive[k]
  BY <1>9, <1>11
<1> QED BY <1>10, <1>12 DEF Complete

(* A later script, which has replayed nothing, asks for less.                   *)
LEMMA CompleteAnew ==
    ASSUME NEW t, NEW n, NEW p, NEW start, Complete(t, n, p, start)
    PROVE  Complete(t, 0, p, start)
<1>1. 1..0 = {}
  OBVIOUS
<1> QED BY <1>1 DEF Complete

(* One record set: appended rows are the partition's own.                       *)
LEMMA AppendedFacts ==
    ASSUME InOrder, NEW p \in Partitions, NEW t \in Seq(Rows),
           \A j \in DOMAIN t : PartitionOf(t[j].station) = p,
           NEW a \in Nat, NEW b \in Nat, a < Len(Archive), a <= b, b <= Len(Archive)
    PROVE  LET u == t \o Share(a + 1, b, p)
           IN  /\ u \in Seq(Rows) /\ Len(t) <= Len(u)
               /\ \A i \in 1..Len(t) : u[i] = t[i]
               /\ \A j \in DOMAIN u : PartitionOf(u[j].station) = p
<1> DEFINE share == Share(a + 1, b, p)
           u == t \o share
           n == Len(t)
<1>1. Len(Archive) \in Nat /\ DOMAIN Archive = 1..Len(Archive)
  BY ArchiveFacts
<1>2. a + 1 \in DOMAIN Archive /\ b \in 0..Len(Archive)
  BY <1>1
<1>3. SharesRows(share, a + 1, b, p)
  BY <1>2 DEF InOrder
<1> HIDE DEF share
<1>5. share \in Seq(Rows) /\ \A i \in DOMAIN share : PartitionOf(share[i].station) = p
  BY <1>3 DEF SharesRows
<1>6. /\ n \in Nat /\ Len(share) \in Nat /\ DOMAIN share = 1..Len(share)
      /\ DOMAIN t = 1..n /\ DOMAIN u = 1..Len(u)
      /\ u \in Seq(Rows) /\ Len(u) = n + Len(share)
      /\ \A i \in 1..n : u[i] = t[i]
      /\ \A i \in 1..Len(share) : u[n + i] = share[i]
  BY <1>5
<1>8. Len(t) <= Len(u) /\ \A i \in 1..Len(t) : u[i] = t[i]
  BY <1>6
<1> HIDE DEF n, u
<1>7. ASSUME NEW j \in 1..Len(u) PROVE PartitionOf(u[j].station) = p
  <2>1. CASE j <= n
    <3>1. j \in 1..n
      BY <2>1, <1>6
    <3> QED BY <3>1, <1>6
  <2>2. CASE j > n
    <3> DEFINE x == j - n
    <3>1. x \in 1..Len(share) /\ j = n + x
      BY <2>2, <1>6
    <3> HIDE DEF x
    <3>2. u[j] = share[x]
      BY <3>1, <1>6
    <3> QED BY <3>1, <3>2, <1>5, <1>6
  <2> QED BY <2>1, <2>2, <1>6
<1> QED BY <1>6, <1>7, <1>8 DEF u, share

(* A batch, whole or in part, is appended to every partition; of a failed one the   *)
(* next script knows nothing.                                                 *)
LEMMA ReplayFacts ==
    ASSUME InOrder, TypeOK, ReplayInv, Replay \/ ReplayFails
    PROVE  /\ topic' \in [Partitions -> Seq(Rows)]
           /\ next' \in 0..Len(Archive)
           /\ \/ phase' = "replay" /\ next' < Len(Archive)
              \/ phase' = "waitFold" /\ next' = Len(Archive)
              \/ phase' = "idle"
           /\ \A p \in Partitions :
                /\ Len(topic[p]) <= Len(topic'[p])
                /\ \A i \in 1..Len(topic[p]) : topic'[p][i] = topic[p][i]
                /\ \A j \in DOMAIN topic'[p] : PartitionOf(topic'[p][j].station) = p
                /\ \A start \in 0..Len(topic[p]) :
                     Complete(topic[p], next, p, start) => Complete(topic'[p], next', p, start)
<1>1. Len(Archive) \in Nat \ {0}
  BY ArchiveFacts
<1>2. phase = "replay" /\ next \in Nat /\ next < Len(Archive)
  BY <1>1 DEF Replay, ReplayFails, ReplayInv, TypeOK
<1>3. BatchEnd \in Nat /\ next < BatchEnd /\ BatchEnd <= Len(Archive)
  <2>1. next \in 0..(Len(Archive) - 1)
    BY <1>1, <1>2
  <2>2. BatchEnd \in (next + 1)..Len(Archive)
    BY <2>1, BatchEndFacts
  <2> QED BY <2>2, <1>1, <1>2
<1>4. PICK ends \in [Partitions -> next..BatchEnd], c \in Nat :
        /\ topic' = [p \in Partitions |-> topic[p] \o Share(next + 1, ends[p], p)]
        /\ next' = c
        /\ \A p \in Partitions : c <= ends[p]
        /\ \/ phase' = "replay" /\ c < Len(Archive)
           \/ phase' = "waitFold" /\ c = Len(Archive)
           \/ phase' = "idle"
  <2>1. CASE Replay
    <3> DEFINE ends == [p \in Partitions |-> BatchEnd]
    <3>1. ends \in [Partitions -> next..BatchEnd] /\ \A p \in Partitions : ends[p] = BatchEnd
      BY <1>2, <1>3
    <3>2. topic' = [p \in Partitions |-> topic[p] \o Share(next + 1, ends[p], p)]
      BY <2>1 DEF Replay, Produced
    <3>3. /\ next' = BatchEnd
          /\ \/ phase' = "replay" /\ BatchEnd < Len(Archive)
             \/ phase' = "waitFold" /\ BatchEnd = Len(Archive)
             \/ phase' = "idle"
      BY <2>1, <1>1, <1>2, <1>3 DEF Replay
    <3>4. \A p \in Partitions : BatchEnd <= ends[p]
      BY <3>1, <1>3
    <3> HIDE DEF ends
    <3> QED BY <3>1, <3>2, <3>3, <3>4, <1>3
  <2>2. CASE ReplayFails
    <3>1. PICK ends \in [Partitions -> next..BatchEnd] :
            topic' = [p \in Partitions |-> Produced(next + 1, ends[p])[p]]
      BY <2>2 DEF ReplayFails
    <3>2. topic' = [p \in Partitions |-> topic[p] \o Share(next + 1, ends[p], p)]
      BY <3>1 DEF Produced
    <3>3. next' = 0 /\ phase' = "idle"
      BY <2>2 DEF ReplayFails
    <3>4. \A p \in Partitions : 0 <= ends[p]
      BY <3>1, <1>2, <1>3
    <3> QED BY <3>1, <3>2, <3>3, <3>4
  <2> QED BY <2>1, <2>2
<1>5. ASSUME NEW p \in Partitions
      PROVE  /\ topic'[p] \in Seq(Rows)
             /\ Len(topic[p]) <= Len(topic'[p])
             /\ \A i \in 1..Len(topic[p]) : topic'[p][i] = topic[p][i]
             /\ \A j \in DOMAIN topic'[p] : PartitionOf(topic'[p][j].station) = p
             /\ c <= Len(Archive)
             /\ \A start \in 0..Len(topic[p]) :
                  Complete(topic[p], next, p, start) => Complete(topic'[p], next', p, start)
  <2> DEFINE t == topic[p]
             b == ends[p]
  <2>1. b \in Nat /\ next <= b /\ b <= Len(Archive)
    BY <1>1, <1>2, <1>3
  <2>2. t \in Seq(Rows) /\ \A j \in DOMAIN t : PartitionOf(t[j].station) = p
    BY DEF TypeOK, ReplayInv
  <2>3. topic'[p] = t \o Share(next + 1, b, p) /\ c \in 0..b
    <3>1. topic'[p] = t \o Share(next + 1, b, p) /\ c <= b
      BY <1>4
    <3> QED BY <3>1, <2>1
  <2>4. c <= Len(Archive)
    BY <2>1, <2>3, <1>1
  <2> HIDE DEF t, b
  <2>5. PICK a \in Nat : a = next
    BY <1>2
  <2>6. PICK u : u = topic'[p]
    OBVIOUS
  <2>7. u = t \o Share(a + 1, b, p) /\ a < Len(Archive) /\ a <= b
    BY <2>1, <2>3, <2>5, <2>6, <1>2
  <2>8. /\ u \in Seq(Rows) /\ Len(t) <= Len(u)
        /\ \A i \in 1..Len(t) : u[i] = t[i]
        /\ \A j \in DOMAIN u : PartitionOf(u[j].station) = p
    <3>1. LET v == t \o Share(a + 1, b, p)
          IN  /\ v \in Seq(Rows) /\ Len(t) <= Len(v)
              /\ \A i \in 1..Len(t) : v[i] = t[i]
              /\ \A j \in DOMAIN v : PartitionOf(v[j].station) = p
      BY <2>1, <2>2, <2>7, AppendedFacts
    <3> QED BY <3>1, <2>7
  <2>9. ASSUME NEW start \in 0..Len(t), Complete(t, a, p, start)
        PROVE  Complete(u, c, p, start)
    BY <2>1, <2>2, <2>3, <2>7, <2>9, CompleteGrows
  <2> QED BY <2>4, <2>5, <2>6, <2>8, <2>9, <1>4 DEF t
<1>6. DOMAIN topic' = Partitions /\ topic' = [p \in Partitions |-> topic'[p]]
  BY <1>4
<1>7. topic' \in [Partitions -> Seq(Rows)]
  BY <1>5, <1>6
<1>8. next' \in 0..Len(Archive)
  <2>1. CASE Partitions = {}
    BY <2>1, RowAssumption, ArchiveFacts
  <2>2. CASE Partitions # {}
    <3>1. PICK p \in Partitions : TRUE
      BY <2>2
    <3>2. c <= Len(Archive)
      BY <3>1, <1>5
    <3> QED BY <3>2, <1>1, <1>4
  <2> QED BY <2>1, <2>2
<1> QED BY <1>4, <1>5, <1>7, <1>8

(* What the history writer has ahead: an entry is appended, or the oldest go.       *)
LEMMA AppendFacts ==
    ASSUME NEW S, NEW t \in Seq(S), NEW e \in S
    PROVE  /\ Append(t, e) \in Seq(S)
           /\ \A j \in DOMAIN Append(t, e) :
                \/ j \in DOMAIN t /\ Append(t, e)[j] = t[j]
                \/ Append(t, e)[j] = e
OBVIOUS

LEMMA SuffixFacts ==
    ASSUME NEW S, NEW t \in Seq(S), NEW k \in DOMAIN t
    PROVE  LET u == SubSeq(t, k + 1, Len(t))
           IN  /\ u \in Seq(S)
               /\ \A j \in DOMAIN u : j \in Nat /\ k + j \in DOMAIN t /\ u[j] = t[k + j]
<1> DEFINE u == SubSeq(t, k + 1, Len(t))
<1>1. Len(t) \in Nat /\ k \in 1..Len(t) /\ DOMAIN t = 1..Len(t)
  OBVIOUS
<1>2. /\ u \in Seq(S) /\ Len(u) = Len(t) - k
      /\ \A j \in 1..(Len(t) - k) : u[j] = t[k + j]
  BY <1>1
<1>3. DOMAIN u = 1..(Len(t) - k)
  BY <1>2
<1> HIDE DEF u
<1>4. \A j \in DOMAIN u : j \in Nat /\ k + j \in DOMAIN t /\ u[j] = t[k + j]
  BY <1>1, <1>2, <1>3
<1> QED BY <1>2, <1>4 DEF u

-----------------------------------------------------------------------------
(* The types.                                                              *)

LEMMA StationFacts ==
    ASSUME NEW m \in Rows
    PROVE  /\ m.station \in Stations /\ m.icao \in Icaos
           /\ [ts |-> m.ts, fp |-> m.fp] \in [ts : Nat, fp : Nat]
           /\ PartitionOf(m.station) \in Partitions /\ TracePartitionOf(m.icao) \in Partitions
BY RowAssumption DEF Stations, Icaos

LEMMA EmptyTypes ==
    ASSUME EmptyState
    PROVE  /\ mark' \in [Stations -> {None} \cup [ts : Nat, fp : Nat]]
           /\ DOMAIN aircraft' = Icaos
           /\ \A i \in Icaos : aircraft'[i].last \in Nat /\ aircraft'[i].life \subseteq Rows
           /\ unflushed' = {} /\ forgotten' = {}
BY DEF EmptyState, Create

LEMMA EndTypes ==
    ASSUME TypeOK, EndTransaction
    PROVE  txn' \subseteq Partitions /\ due' \in [Partitions -> Nat]
BY DEF TypeOK, EndTransaction

(* What folding a row makes of an aircraft.                                   *)
LEMMA LifeFacts ==
    ASSUME NEW a, NEW m
    PROVE  /\ Apply(a, m, m, 0).life = a.life \cup {m}
           /\ Apply(a, m, m, 0).last = IF m.ts > a.last THEN m.ts ELSE a.last
           /\ Create.life = {}
BY DEF Apply, Create

LEMMA TraceFacts ==
    ASSUME NEW a, NEW m, NEW f \in BOOLEAN
    PROVE  /\ Trace(m, a, f).event = m /\ Trace(m, a, f).life = a.life
           /\ f => Trace(m, a, f).forgot
BY DEF Trace

LEMMA TraceType ==
    ASSUME NEW m \in Rows, NEW a, a.last \in Nat, a.life \subseteq Rows, NEW f \in BOOLEAN
    PROVE  Trace(m, a, f) \in Traces
BY DEF Trace, Traces

(* The record that a fold reads.                                            *)
LEMMA FoldedRow ==
    ASSUME TypeOK, ReplayInv, NEW p \in Partitions, Fold(p)
    PROVE  LET m == topic[p][read[p] + 1]
           IN  /\ m \in Rows /\ PartitionOf(m.station) = p
               /\ read[p] + 1 \in 1..Len(topic[p])
<1>1. topic[p] \in Seq(Rows) /\ read[p] \in Nat
  BY DEF TypeOK
<1>2. read[p] < Len(topic[p])
  BY DEF Fold
<1>3. read[p] + 1 \in 1..Len(topic[p]) /\ DOMAIN topic[p] = 1..Len(topic[p])
  BY <1>1, <1>2
<1>4. topic[p][read[p] + 1] \in Rows
  BY <1>1, <1>3
<1>5. \A j \in DOMAIN topic[p] : PartitionOf(topic[p][j].station) = p
  BY DEF ReplayInv
<1> QED BY <1>3, <1>4, <1>5

LEMMA FoldTypes ==
    ASSUME TypeOK, ReplayInv, NEW p \in Partitions, Fold(p)
    PROVE  TypeOK'
<1>1. PICK m \in Rows : m = topic[p][read[p] + 1]
  BY FoldedRow
<1> DEFINE a == Apply(aircraft[m.icao], m, m, 0)
           f == m.icao \in forgotten
           u == [event |-> m, trace |-> IF a.dirty THEN None ELSE Trace(m, a, f)]
<1>2. /\ read' = [read EXCEPT ![p] = @ + 1] /\ opened' = opened \cup {p}
      /\ UNCHANGED <<scriptVars, topic, committed, txn, forgotten, due, historyVars>>
  BY DEF Fold
<1>3. \/ UNCHANGED <<mark, aircraft, unflushed>>
      \/ /\ mark' = [mark EXCEPT ![m.station] = [ts |-> m.ts, fp |-> m.fp]]
         /\ aircraft' = [aircraft EXCEPT ![m.icao] = a]
         /\ unflushed' = unflushed \cup {u}
  BY <1>1 DEF Fold
<1>4. m.icao \in Icaos /\ m.ts \in Nat
  BY StationFacts, RowAssumption
<1>5. a.last \in Nat /\ a.life \subseteq Rows
  <2>1. PICK b : b = aircraft[m.icao]
    OBVIOUS
  <2>2. b.last \in Nat /\ b.life \subseteq Rows
    BY <1>4, <2>1 DEF TypeOK
  <2>3. a.life = b.life \cup {m} /\ a.last = IF m.ts > b.last THEN m.ts ELSE b.last
    BY <2>1, LifeFacts
  <2> HIDE DEF a
  <2> QED BY <1>4, <2>2, <2>3
<1>6. f \in BOOLEAN
  OBVIOUS
<1> HIDE DEF a, f
<1>7. Trace(m, a, f) \in Traces
  BY <1>5, <1>6, TraceType
<1>8. u.event = m /\ u.trace \in Traces \cup {None}
  BY <1>7
<1> HIDE DEF u
<1>9. \A v \in unflushed' : v.event \in Rows /\ v.trace \in Traces \cup {None}
  BY <1>3, <1>8 DEF TypeOK
<1>10. mark' \in [Stations -> {None} \cup [ts : Nat, fp : Nat]]
  BY <1>3, StationFacts DEF TypeOK
<1>11. DOMAIN aircraft' = Icaos
       /\ \A i \in Icaos : aircraft'[i].last \in Nat /\ aircraft'[i].life \subseteq Rows
  BY <1>3, <1>4, <1>5 DEF TypeOK
<1>12. read' \in [Partitions -> Nat] /\ opened' \subseteq Partitions
  BY <1>2 DEF TypeOK
<1> QED BY <1>2, <1>9, <1>10, <1>11, <1>12 DEF TypeOK, scriptVars, historyVars

LEMMA TypeStep ==
    ASSUME InOrder, TypeOK, ReplayInv, Next
    PROVE  TypeOK'
<1>0. 0 \in 0..Len(Archive)
  BY ArchiveFacts
<1>1. CASE Start
  <2>0. phase' = "replay" /\ next' = 0 /\ UNCHANGED <<topic, txn, committed, due, ahead, seen, table>>
    BY <1>1 DEF Start, historyVars
  <2>1. CASE up
    BY <2>0, <2>1, <1>0, <1>1 DEF Start, TypeOK
  <2>2. CASE ~up
    <3>1. EmptyState /\ read' = [p \in Partitions |-> StartOffset(p)]
          /\ opened' = {p \in Partitions : committed[p] # None}
      BY <2>2, <1>1 DEF Start
    <3>2. read' \in [Partitions -> Nat] /\ opened' \subseteq Partitions
      BY <3>1 DEF StartOffset, TypeOK
    <3> QED BY <2>0, <3>1, <3>2, <1>0, EmptyTypes DEF TypeOK
  <2> QED BY <2>1, <2>2
<1>2. CASE Replay \/ ReplayFails
  <2>1. /\ topic' \in [Partitions -> Seq(Rows)]
        /\ next' \in 0..Len(Archive)
        /\ phase' \in {"replay", "waitFold", "idle"}
    BY <1>2, ReplayFacts
  <2>2. UNCHANGED <<shadowVars, committed, due, historyVars>>
    BY <1>2 DEF Replay, ReplayFails
  <2> QED BY <2>1, <2>2 DEF TypeOK, shadowVars, historyVars
<1>3. CASE Interrupt
  BY <1>0, <1>3 DEF Interrupt, TypeOK, shadowVars, historyVars
<1>4. CASE WaitFold \/ WaitHistory
  BY <1>4 DEF WaitFold, WaitHistory, TypeOK, shadowVars, historyVars
<1>5. CASE RemoveShadow \/ Lost
  <2>1. /\ EmptyState /\ EndTransaction /\ opened' = {} /\ read' = [p \in Partitions |-> 0]
        /\ UNCHANGED <<topic, committed, ahead, seen, table>>
        /\ (phase' = "idle" /\ next' = 0) \/ UNCHANGED <<phase, next>>
    BY <1>5 DEF RemoveShadow, Lost, historyVars
  <2>2. read' \in [Partitions -> Nat] /\ opened' \subseteq Partitions /\ forgotten' \subseteq Icaos
    BY <2>1, EmptyTypes
  <2> QED BY <2>1, <2>2, <1>0, EmptyTypes, EndTypes DEF TypeOK
<1>6. ASSUME NEW p \in Partitions, Fold(p) PROVE TypeOK'
  BY <1>6, FoldTypes
<1>7. ASSUME NEW u \in unflushed, Send(u) PROVE TypeOK'
  <2>1. /\ UNCHANGED <<phase, next, topic, read, mark, aircraft, opened, forgotten, committed, due, seen, table>>
        /\ unflushed' = unflushed \ {u}
    BY <1>7 DEF Send, scriptVars
  <2>2. u.event \in Rows /\ u.trace \in Traces \cup {None}
    BY DEF TypeOK
  <2>3. PICK q \in Partitions : q = TracePartitionOf(u.event.icao)
    BY <2>2, StationFacts
  <2>4. \/ UNCHANGED <<ahead, txn>>
        \/ /\ u.trace # None
           /\ ahead' = [ahead EXCEPT ![q] = Append(ahead[q], u.trace)] /\ txn' = txn \cup {q}
    BY <1>7, <2>3 DEF Send
  <2>5. ahead' \in [Partitions -> Seq(Traces \cup {Marker})] /\ txn' \subseteq Partitions
    <3>1. ahead[q] \in Seq(Traces \cup {Marker})
      BY DEF TypeOK
    <3>2. u.trace # None => Append(ahead[q], u.trace) \in Seq(Traces \cup {Marker})
      BY <2>2, <3>1, AppendFacts
    <3> QED BY <2>4, <3>2 DEF TypeOK
  <2> QED BY <2>1, <2>5 DEF TypeOK
<1>8. CASE Checkpoint
  <2>1. /\ UNCHANGED <<phase, next, topic, read, mark, aircraft, opened, unflushed, forgotten, ahead, seen, table>>
        /\ EndTransaction
        /\ committed' = [p \in Partitions |-> IF p \in opened THEN read[p] ELSE committed[p]]
    BY <1>8 DEF Checkpoint, scriptVars, historyVars
  <2>2. committed' \in [Partitions -> Nat \cup {None}]
    BY <2>1 DEF TypeOK
  <2> QED BY <2>1, <2>2, EndTypes DEF TypeOK
<1>9. ASSUME NEW i \in Icaos, Forget(i) PROVE TypeOK'
  <2>1. /\ UNCHANGED <<phase, next, topic, read, mark, opened, unflushed, txn, committed, due, ahead, seen, table>>
        /\ aircraft' = [aircraft EXCEPT ![i] = Create] /\ forgotten' = forgotten \cup {i}
    BY <1>9 DEF Forget, scriptVars, historyVars
  <2>2. Create.last = 0 /\ Create.life = {}
    BY DEF Create
  <2>3. DOMAIN aircraft' = Icaos
        /\ \A j \in Icaos : aircraft'[j].last \in Nat /\ aircraft'[j].life \subseteq Rows
    BY <2>1, <2>2 DEF TypeOK
  <2> QED BY <2>1, <2>3 DEF TypeOK
<1>10. ASSUME NEW q \in Partitions, WriteMarker(q) PROVE TypeOK'
  <2>1. /\ UNCHANGED <<phase, next, topic, shadowVars, committed, seen, table>>
        /\ due[q] > 0 /\ due' = [due EXCEPT ![q] = @ - 1]
        /\ ahead' = [ahead EXCEPT ![q] = Append(ahead[q], Marker)]
    BY <1>10 DEF WriteMarker, scriptVars
  <2>2. Append(ahead[q], Marker) \in Seq(Traces \cup {Marker})
    BY AppendFacts DEF TypeOK
  <2>3. due' \in [Partitions -> Nat] /\ ahead' \in [Partitions -> Seq(Traces \cup {Marker})]
    BY <2>1, <2>2 DEF TypeOK
  <2> QED BY <2>1, <2>3 DEF TypeOK, shadowVars
<1>11. ASSUME NEW q \in Partitions, NEW k \in Unread(q), Persist(q, k) PROVE TypeOK'
  <2>1. /\ UNCHANGED <<phase, next, topic, shadowVars, committed, due>>
        /\ table' = table \/ table' = table \cup {ahead[q][k]}
        /\ ahead' = [ahead EXCEPT ![q] = SubSeq(ahead[q], k + 1, Len(ahead[q]))]
        /\ seen' = seen \cup {q}
    BY <1>11 DEF Persist, scriptVars
  <2>2. ahead[q] \in Seq(Traces \cup {Marker}) /\ k \in DOMAIN ahead[q] /\ ahead[q][k] # Marker
    BY DEF TypeOK, Unread
  <2>3. ahead[q][k] \in Traces
    BY <2>2
  <2>4. SubSeq(ahead[q], k + 1, Len(ahead[q])) \in Seq(Traces \cup {Marker})
    BY <2>2, SuffixFacts
  <2>5. ahead' \in [Partitions -> Seq(Traces \cup {Marker})]
    BY <2>1, <2>4 DEF TypeOK
  <2> QED BY <2>1, <2>3, <2>5 DEF TypeOK, shadowVars
<1> QED BY <1>1, <1>2, <1>3, <1>4, <1>5, <1>6, <1>7, <1>8, <1>9, <1>10, <1>11
        DEF Next, Script, Shadow, Store

(* The topic and the script's place in it.                                    *)
LEMMA ReplayStep ==
    ASSUME InOrder, TypeOK, ReplayInv, Next
    PROVE  ReplayInv'
<1>1. CASE Replay \/ ReplayFails
  <2>1. ASSUME NEW p \in Partitions
        PROVE  /\ \A j \in DOMAIN topic'[p] : PartitionOf(topic'[p][j].station) = p
               /\ Complete(topic'[p], next', p, 0)
    <3>1. topic[p] \in Seq(Rows) /\ 0 \in 0..Len(topic[p])
      BY DEF TypeOK
    <3>2. Complete(topic[p], next, p, 0)
      BY DEF ReplayInv
    <3> QED BY <3>1, <3>2, <1>1, ReplayFacts
  <2>2. \/ phase' = "replay" /\ next' < Len(Archive)
        \/ phase' = "waitFold" /\ next' = Len(Archive)
        \/ phase' = "idle"
    BY <1>1, ReplayFacts
  <2>3. /\ phase' = "replay" => next' < Len(Archive)
        /\ phase' \in {"waitFold", "waitHistory", "remove"} => next' = Len(Archive)
    BY <2>2
  <2> QED BY <2>1, <2>3 DEF ReplayInv
<1>2. CASE ~(Replay \/ ReplayFails)
  <2>1. topic' = topic
    BY <1>2 DEF Next, Script, Shadow, Start, Interrupt, WaitFold, WaitHistory, RemoveShadow,
                Fold, Send, Checkpoint, Forget, WriteMarker, Store, Persist, Lost
  <2>2. \/ next' = next /\ phase' = phase
        \/ next' = 0 /\ phase' \in {"idle", "replay"}
        \/ next' = next /\ phase = "waitFold" /\ phase' = "waitHistory"
        \/ next' = next /\ phase = "waitHistory" /\ phase' = "remove"
    BY <1>2 DEF Next, Script, Shadow, Start, Interrupt, WaitFold, WaitHistory, RemoveShadow,
                Fold, Send, Checkpoint, Forget, WriteMarker, Store, Persist, Lost, scriptVars
  <2>3. /\ phase' = "replay" => next' < Len(Archive)
        /\ phase' \in {"waitFold", "waitHistory", "remove"} => next' = Len(Archive)
    BY <2>2, ArchiveFacts DEF ReplayInv
  <2>4. ASSUME NEW p \in Partitions PROVE Complete(topic'[p], next', p, 0)
    <3>1. Complete(topic[p], next, p, 0)
      BY DEF ReplayInv
    <3>2. Complete(topic[p], 0, p, 0)
      BY <3>1, CompleteAnew
    <3> QED BY <3>1, <3>2, <2>1, <2>2
  <2> QED BY <2>1, <2>3, <2>4 DEF ReplayInv
<1> QED BY <1>1, <1>2

-----------------------------------------------------------------------------
(* The shadow.                                                             *)

(* What StationDedup drops has been folded: the mark is that of a row that was read, *)
(* and the partition has every earlier row of the station before that one.         *)
LEMMA RepeatHandled ==
    ASSUME InOrder, TypeOK, ReplayInv, ReadInv, MarkInv, NEW p \in Partitions, Fold(p),
           Repeat(topic[p][read[p] + 1])
    PROVE  topic[p][read[p] + 1] \in Handled
<1>1. PICK m \in Rows : m = topic[p][read[p] + 1] /\ PartitionOf(m.station) = p
  BY FoldedRow
<1>2. m.station \in Stations /\ mark[m.station] # None
  BY <1>1, StationFacts DEF Repeat
<1>3. PICK r \in Rows :
        /\ r.station = m.station /\ mark[m.station] = [ts |-> r.ts, fp |-> r.fp]
        /\ \E j \in 1..read[p] : topic[p][j] = r
  BY <1>1, <1>2 DEF MarkInv
<1>4. PICK j \in 1..read[p] : topic[p][j] = r
  BY <1>3
<1>5. \/ m.ts < r.ts
      \/ m.ts = r.ts /\ m.fp = r.fp
  BY <1>1, <1>3 DEF Repeat
<1>6. /\ read[p] \in Nat /\ topic[p] \in Seq(Rows) /\ read[p] <= Len(topic[p])
      /\ \A i \in 1..read[p] : topic[p][i] \in Handled
  BY DEF TypeOK, ReadInv
<1>7. CASE m.ts < r.ts
  <2>1. Less(m, r)
    BY <1>3, <1>7, LessFacts
  <2>2. Complete(topic[p], next, p, 0)
    BY DEF ReplayInv
  <2>3. j \in (0 + 1)..Len(topic[p])
    BY <1>6
  <2>4. PICK i \in (0 + 1)..(j - 1) : topic[p][i] = m
    BY <1>3, <1>4, <2>1, <2>2, <2>3 DEF Complete
  <2>5. i \in 1..read[p]
    BY <1>6
  <2> QED BY <1>1, <1>6, <2>4, <2>5
<1>8. CASE m.ts = r.ts /\ m.fp = r.fp
  <2>1. m = r
    BY <1>3, <1>8, RowAssumption
  <2> QED BY <1>1, <1>4, <1>6, <2>1
<1> QED BY <1>5, <1>7, <1>8

(* What a fold does, with the record it reads named.                              *)
LEMMA FoldFacts ==
    ASSUME InOrder, TypeOK, ReplayInv, ReadInv, MarkInv, NEW p \in Partitions, Fold(p)
    PROVE  \E m \in Rows :
              /\ m = topic[p][read[p] + 1] /\ PartitionOf(m.station) = p
              /\ up /\ read[p] \in Nat /\ read[p] + 1 <= Len(topic[p])
              /\ read' = [read EXCEPT ![p] = read[p] + 1] /\ opened' = opened \cup {p}
              /\ UNCHANGED <<phase, next, topic, up, forgotten, committed, historyVars, folded, skipped, headless>>
              /\ m \in Handled' /\ Handled \subseteq Handled'
              /\ \/ Repeat(m) /\ UNCHANGED <<mark, aircraft, unflushed>>
                 \/ /\ ~Repeat(m)
                    /\ mark' = [mark EXCEPT ![m.station] = [ts |-> m.ts, fp |-> m.fp]]
                    /\ aircraft' = [aircraft EXCEPT ![m.icao] = Apply(aircraft[m.icao], m, m, 0)]
                    /\ \E u : /\ unflushed' = unflushed \cup {u}
                              /\ u.trace # None => u.trace =
                                   Trace(m, Apply(aircraft[m.icao], m, m, 0), m.icao \in forgotten)
<1>1. PICK m \in Rows : m = topic[p][read[p] + 1] /\ PartitionOf(m.station) = p
  BY FoldedRow
<1> DEFINE a == Apply(aircraft[m.icao], m, m, 0)
           f == m.icao \in forgotten
           u == [event |-> m, trace |-> IF a.dirty THEN None ELSE Trace(m, a, f)]
<1>2. up /\ read[p] \in Nat /\ read[p] + 1 <= Len(topic[p])
  <2>1. topic[p] \in Seq(Rows) /\ read[p] \in Nat
    BY DEF TypeOK
  <2> QED BY <2>1 DEF Fold
<1>3. /\ read' = [read EXCEPT ![p] = read[p] + 1] /\ opened' = opened \cup {p}
      /\ UNCHANGED <<phase, next, topic, up, forgotten, committed, historyVars, folded, skipped, headless>>
  BY DEF Fold, scriptVars
<1>4. \/ Repeat(m) /\ UNCHANGED <<mark, aircraft, unflushed>>
      \/ /\ ~Repeat(m)
         /\ mark' = [mark EXCEPT ![m.station] = [ts |-> m.ts, fp |-> m.fp]]
         /\ aircraft' = [aircraft EXCEPT ![m.icao] = a]
         /\ unflushed' = unflushed \cup {u}
  BY <1>1 DEF Fold
<1>5. u.event = m /\ (u.trace # None => u.trace = Trace(m, a, f))
  <2> HIDE DEF a, f
  <2> QED OBVIOUS
<1> HIDE DEF a, f, u
<1>6. m \in Handled' /\ Handled \subseteq Handled'
  <2>1. CASE Repeat(m) /\ UNCHANGED <<mark, aircraft, unflushed>>
    BY <1>1, <1>3, <2>1, RepeatHandled DEF Handled
  <2>2. CASE unflushed' = unflushed \cup {u}
    BY <1>3, <1>5, <2>2 DEF Handled
  <2> QED BY <1>4, <2>1, <2>2
<1>7. \/ Repeat(m) /\ UNCHANGED <<mark, aircraft, unflushed>>
      \/ /\ ~Repeat(m)
         /\ mark' = [mark EXCEPT ![m.station] = [ts |-> m.ts, fp |-> m.fp]]
         /\ aircraft' = [aircraft EXCEPT ![m.icao] = a]
         /\ \E v : unflushed' = unflushed \cup {v} /\ (v.trace # None => v.trace = Trace(m, a, f))
  BY <1>4, <1>5
<1> QED BY <1>1, <1>2, <1>3, <1>6, <1>7 DEF a, f

(* The steps by what they do to the shadow: started, left alone while the topic grows,  *)
(* folding, sending, checkpointing, gone, forgetting, or left alone.                  *)
LEMMA StepKinds ==
    ASSUME Next
    PROVE  \/ Start
           \/ (Replay \/ ReplayFails) /\ UNCHANGED <<shadowVars, committed, historyVars, folded, headless>>
           \/ \E p \in Partitions : Fold(p)
           \/ \E u \in unflushed : Send(u)
           \/ Checkpoint
           \/ /\ EmptyState /\ up' = FALSE /\ opened' = {} /\ read' = [p \in Partitions |-> 0]
              /\ UNCHANGED <<topic, committed, historyVars, folded, headless>>
           \/ \E i \in Icaos : Forget(i)
           \/ UNCHANGED <<topic, shadowVars, committed, folded, headless>>
BY DEF Next, Script, Shadow, Store, Replay, ReplayFails, Interrupt, WaitFold, WaitHistory, RemoveShadow,
       Lost, WriteMarker, Persist

(* What a step of the sink, a checkpoint or an expiry leaves alone.                  *)
LEMMA SendFacts ==
    ASSUME NEW u \in unflushed, Send(u)
    PROVE  /\ UNCHANGED <<phase, next, topic, up, read, mark, aircraft, opened, forgotten, committed,
                          table, skipped, headless>>
           /\ unflushed' = unflushed \ {u} /\ folded' = folded \cup {u.event}
           /\ up /\ Handled' = Handled /\ folded \subseteq folded'
<1>1. /\ UNCHANGED <<phase, next, topic, up, read, mark, aircraft, opened, forgotten, committed,
                     table, skipped, headless>>
      /\ unflushed' = unflushed \ {u} /\ folded' = folded \cup {u.event} /\ up
  BY DEF Send, scriptVars
<1>2. \A e : e \in Handled' <=> e \in Handled
  BY <1>1 DEF Handled
<1>3. Handled' = Handled
  BY <1>2
<1> QED BY <1>1, <1>3

LEMMA CheckpointFacts ==
    ASSUME Checkpoint
    PROVE  /\ UNCHANGED <<phase, next, topic, up, read, mark, aircraft, opened, unflushed, forgotten,
                          historyVars, folded, skipped, headless>>
           /\ up /\ unflushed = {}
           /\ committed' = [p \in Partitions |-> IF p \in opened THEN read[p] ELSE committed[p]]
           /\ Handled = folded /\ Handled' = Handled
BY DEF Checkpoint, scriptVars, Handled

LEMMA ForgetFacts ==
    ASSUME NEW i \in Icaos, Forget(i)
    PROVE  /\ UNCHANGED <<phase, next, topic, up, read, mark, opened, unflushed, committed,
                          historyVars, folded, skipped, headless>>
           /\ aircraft' = [aircraft EXCEPT ![i] = Create] /\ forgotten' = forgotten \cup {i}
           /\ up /\ Handled' = Handled
BY DEF Forget, scriptVars, Handled

(* Read or committed offsets lie in the part of the topic that a replay leaves as it is.  *)
LEMMA PrefixKept ==
    ASSUME InOrder, TypeOK, ReplayInv, Replay \/ ReplayFails, NEW p \in Partitions,
           NEW n \in Nat, n <= Len(topic[p])
    PROVE  n <= Len(topic'[p]) /\ \A i \in 1..n : topic'[p][i] = topic[p][i]
<1>1. /\ topic'[p] \in Seq(Rows) /\ Len(topic[p]) <= Len(topic'[p])
      /\ \A i \in 1..Len(topic[p]) : topic'[p][i] = topic[p][i]
  BY ReplayFacts
<1>2. topic[p] \in Seq(Rows)
  BY DEF TypeOK
<1>3. Len(topic[p]) \in Nat /\ Len(topic'[p]) \in Nat
  BY <1>1, <1>2
<1>4. \A i \in 1..n : i \in 1..Len(topic[p])
  BY <1>3
<1> QED BY <1>1, <1>3, <1>4

LEMMA ReadStep ==
    ASSUME InOrder, TypeOK, ReplayInv, ReadInv, MarkInv, CommitInv, Next
    PROVE  ReadInv'
<1>1. CASE Start
  <2>1. CASE up
    <3>1. up' /\ UNCHANGED <<topic, read, unflushed, folded>>
      BY <1>1, <2>1 DEF Start
    <3> QED BY <3>1, <2>1 DEF ReadInv, Handled
  <2>2. CASE ~up
    <3>1. up' /\ unflushed' = {} /\ topic' = topic /\ folded' = folded
          /\ read' = [p \in Partitions |-> StartOffset(p)]
      BY <1>1, <2>2 DEF Start, EmptyState
    <3>2. ASSUME NEW p \in Partitions
          PROVE  read'[p] <= Len(topic'[p]) /\ \A i \in 1..read'[p] : topic'[p][i] \in folded'
      <4>1. topic[p] \in Seq(Rows) /\ Len(topic[p]) \in Nat
        BY DEF TypeOK
      <4>2. CASE committed[p] = None
        <5>1. read'[p] = 0 /\ 1..0 = {}
          BY <3>1, <4>2 DEF StartOffset
        <5> QED BY <5>1, <4>1, <3>1
      <4>3. CASE committed[p] # None
        BY <3>1, <4>3 DEF StartOffset, CommitInv
      <4> QED BY <4>2, <4>3
    <3>3. folded' \subseteq Handled'
      BY DEF Handled
    <3> QED BY <3>1, <3>2, <3>3 DEF ReadInv
  <2> QED BY <2>1, <2>2
<1>2. CASE (Replay \/ ReplayFails) /\ UNCHANGED <<shadowVars, committed, historyVars, folded, headless>>
  <2>1. UNCHANGED <<up, read, unflushed>> /\ Handled' = Handled
    BY <1>2 DEF shadowVars, Handled
  <2>2. ASSUME NEW p \in Partitions
        PROVE  read[p] <= Len(topic'[p]) /\ \A i \in 1..read[p] : topic'[p][i] = topic[p][i]
    <3>1. read[p] \in Nat /\ read[p] <= Len(topic[p])
      BY DEF TypeOK, ReadInv
    <3> QED BY <3>1, <1>2, PrefixKept
  <2> QED BY <2>1, <2>2 DEF ReadInv
<1>3. ASSUME NEW p \in Partitions, Fold(p) PROVE ReadInv'
  <2>1. PICK m \in Rows :
          /\ m = topic[p][read[p] + 1]
          /\ up /\ read[p] \in Nat /\ read[p] + 1 <= Len(topic[p])
          /\ read' = [read EXCEPT ![p] = read[p] + 1]
          /\ UNCHANGED <<topic, up>>
          /\ m \in Handled' /\ Handled \subseteq Handled'
    BY <1>3, FoldFacts
  <2>2. ASSUME NEW q \in Partitions
        PROVE  read'[q] <= Len(topic[q]) /\ \A i \in 1..read'[q] : topic[q][i] \in Handled'
    <3>1. CASE q = p
      <4>1. read'[q] = read[p] + 1
        BY <2>1, <3>1 DEF TypeOK
      <4>2. ASSUME NEW i \in 1..(read[p] + 1) PROVE topic[p][i] \in Handled'
        <5>1. i = read[p] + 1 \/ i \in 1..read[p]
          BY <2>1
        <5> QED BY <5>1, <2>1 DEF ReadInv
      <4> QED BY <2>1, <3>1, <4>1, <4>2
    <3>2. CASE q # p
      <4>1. read'[q] = read[q]
        BY <2>1, <3>2 DEF TypeOK
      <4> QED BY <2>1, <4>1 DEF ReadInv
    <3> QED BY <3>1, <3>2
  <2> QED BY <2>1, <2>2 DEF ReadInv
<1>4. ASSUME NEW u \in unflushed, Send(u) PROVE ReadInv'
  BY <1>4, SendFacts DEF ReadInv
<1>7. CASE Checkpoint
  BY <1>7, CheckpointFacts DEF ReadInv
<1>8. ASSUME NEW i \in Icaos, Forget(i) PROVE ReadInv'
  BY <1>8, ForgetFacts DEF ReadInv
<1>5. CASE /\ EmptyState /\ up' = FALSE /\ opened' = {} /\ read' = [p \in Partitions |-> 0]
           /\ UNCHANGED <<topic, committed, historyVars, folded, headless>>
  <2>1. \A p \in Partitions : read'[p] = 0 /\ 1..0 = {} /\ 0 <= Len(topic[p])
    BY <1>5 DEF TypeOK
  <2> QED BY <1>5, <2>1 DEF ReadInv, EmptyState
<1>6. CASE UNCHANGED <<topic, shadowVars, committed, folded, headless>>
  BY <1>6 DEF ReadInv, Handled, shadowVars
<1> QED BY <1>1, <1>2, <1>3, <1>4, <1>5, <1>6, <1>7, <1>8, StepKinds

LEMMA MarkStep ==
    ASSUME InOrder, TypeOK, ReplayInv, ReadInv, MarkInv, Next
    PROVE  MarkInv'
<1>0. \A s \in Stations : PartitionOf(s) \in Partitions
  BY RowAssumption DEF Stations
<1>1. CASE Start
  <2>1. topic' = topic
    BY <1>1 DEF Start
  <2>2. CASE up
    BY <1>1, <2>1, <2>2 DEF Start, MarkInv
  <2>3. CASE ~up
    <3>1. \A s \in Stations : mark'[s] = None
      BY <1>1, <2>3 DEF Start, EmptyState
    <3> QED BY <3>1 DEF MarkInv
  <2> QED BY <2>2, <2>3
<1>2. CASE (Replay \/ ReplayFails) /\ UNCHANGED <<shadowVars, committed, historyVars, folded, headless>>
  <2>1. ASSUME NEW p \in Partitions
        PROVE  \A i \in 1..read[p] : topic'[p][i] = topic[p][i]
    <3>1. read[p] \in Nat /\ read[p] <= Len(topic[p])
      BY DEF TypeOK, ReadInv
    <3> QED BY <3>1, <1>2, PrefixKept
  <2>2. UNCHANGED <<mark, read>>
    BY <1>2 DEF shadowVars
  <2> QED BY <2>1, <2>2, <1>0 DEF MarkInv
<1>3. ASSUME NEW p \in Partitions, Fold(p) PROVE MarkInv'
  <2>1. PICK m \in Rows :
          /\ m = topic[p][read[p] + 1] /\ PartitionOf(m.station) = p
          /\ read[p] \in Nat /\ read' = [read EXCEPT ![p] = read[p] + 1]
          /\ topic' = topic
          /\ \/ mark' = mark
             \/ mark' = [mark EXCEPT ![m.station] = [ts |-> m.ts, fp |-> m.fp]]
    BY <1>3, FoldFacts
  <2>2. ASSUME NEW s \in Stations, mark'[s] # None
        PROVE  \E r \in Rows : /\ r.station = s /\ mark'[s] = [ts |-> r.ts, fp |-> r.fp]
                               /\ \E j \in 1..read'[PartitionOf(s)] : topic'[PartitionOf(s)][j] = r
    <3>1. CASE mark'[s] = mark[s]
      <4>1. PICK r \in Rows : /\ r.station = s /\ mark[s] = [ts |-> r.ts, fp |-> r.fp]
                              /\ \E j \in 1..read[PartitionOf(s)] : topic[PartitionOf(s)][j] = r
        BY <2>2, <3>1 DEF MarkInv
      <4>2. \A j \in 1..read[PartitionOf(s)] : j \in 1..read'[PartitionOf(s)]
        BY <2>1, <1>0 DEF TypeOK
      <4> QED BY <4>1, <4>2, <3>1, <2>1
    <3>2. CASE mark'[s] # mark[s]
      <4>1. s = m.station /\ mark'[s] = [ts |-> m.ts, fp |-> m.fp]
        BY <2>1, <3>2 DEF TypeOK
      <4>2. read'[p] = read[p] + 1 /\ read[p] + 1 \in 1..(read[p] + 1)
        BY <2>1 DEF TypeOK
      <4> QED BY <2>1, <4>1, <4>2
    <3> QED BY <3>1, <3>2
  <2> QED BY <2>2 DEF MarkInv
<1>4. ASSUME NEW u \in unflushed, Send(u) PROVE MarkInv'
  BY <1>4, SendFacts DEF MarkInv
<1>7. CASE Checkpoint
  BY <1>7, CheckpointFacts DEF MarkInv
<1>8. ASSUME NEW i \in Icaos, Forget(i) PROVE MarkInv'
  BY <1>8, ForgetFacts DEF MarkInv
<1>5. CASE EmptyState
  <2>1. \A s \in Stations : mark'[s] = None
    BY <1>5 DEF EmptyState
  <2> QED BY <2>1 DEF MarkInv
<1>6. CASE UNCHANGED <<topic, shadowVars, committed, folded, headless>>
  BY <1>6 DEF MarkInv, shadowVars
<1> QED BY <1>1, <1>2, <1>3, <1>4, <1>5, <1>6, <1>7, <1>8, StepKinds

LEMMA CommitTypes ==
    ASSUME TypeOK, NEW p \in Partitions
    PROVE  /\ read[p] \in Nat /\ read[p] # None
           /\ committed[p] # None => committed[p] \in Nat
           /\ topic[p] \in Seq(Rows) /\ Len(topic[p]) \in Nat
BY RowAssumption DEF TypeOK

LEMMA CommitStep ==
    ASSUME InOrder, TypeOK, ReplayInv, ReadInv, MarkInv, CommitInv, Next
    PROVE  CommitInv'
<1>1. CASE Start
  <2>1. up' /\ UNCHANGED <<topic, committed, folded>>
    BY <1>1 DEF Start
  <2>2. CASE up
    <3>1. UNCHANGED <<read, opened, unflushed>>
      BY <1>1, <2>2 DEF Start
    <3> QED BY <2>1, <2>2, <3>1 DEF CommitInv
  <2>3. CASE ~up
    <3>1. /\ read' = [p \in Partitions |-> StartOffset(p)]
          /\ opened' = {p \in Partitions : committed[p] # None} /\ unflushed' = {}
      BY <1>1, <2>3 DEF Start, EmptyState
    <3>2. ASSUME NEW p \in Partitions
          PROVE  /\ p \notin opened' => read'[p] = 0
                 /\ committed[p] = None => p \notin opened'
                 /\ committed[p] # None => p \in opened' /\ committed[p] <= read'[p]
      BY <3>1, CommitTypes DEF StartOffset
    <3> QED BY <2>1, <3>1, <3>2 DEF CommitInv
  <2> QED BY <2>2, <2>3
<1>2. CASE (Replay \/ ReplayFails) /\ UNCHANGED <<shadowVars, committed, historyVars, folded, headless>>
  <2>1. UNCHANGED <<up, read, opened, unflushed, committed, folded>>
    BY <1>2 DEF shadowVars
  <2>2. ASSUME NEW p \in Partitions, committed[p] # None
        PROVE  /\ committed[p] <= Len(topic'[p])
               /\ \A i \in 1..committed[p] : topic'[p][i] \in folded
    <3>1. /\ committed[p] \in Nat /\ committed[p] <= Len(topic[p])
          /\ \A i \in 1..committed[p] : topic[p][i] \in folded
      BY <2>2, CommitTypes DEF CommitInv
    <3>2. /\ committed[p] <= Len(topic'[p])
          /\ \A i \in 1..committed[p] : topic'[p][i] = topic[p][i]
      BY <3>1, <1>2, PrefixKept
    <3> QED BY <3>1, <3>2
  <2> QED BY <2>1, <2>2 DEF CommitInv
<1>3. ASSUME NEW p \in Partitions, Fold(p) PROVE CommitInv'
  <2>1. /\ read[p] \in Nat /\ up
        /\ read' = [read EXCEPT ![p] = read[p] + 1] /\ opened' = opened \cup {p}
        /\ UNCHANGED <<topic, up, committed, folded>>
    BY <1>3, FoldFacts
  <2>2. read'[p] = read[p] + 1 /\ \A q \in Partitions : q # p => read'[q] = read[q]
    BY <2>1 DEF TypeOK
  <2>3. ASSUME NEW q \in Partitions
        PROVE  /\ q \notin opened' => read'[q] = 0
               /\ committed[q] = None => q \notin opened' \/ read'[q] > 0
               /\ committed[q] # None => q \in opened' /\ committed[q] <= read'[q]
    <3>1. CASE q = p
      BY <2>1, <2>2, <3>1, CommitTypes DEF CommitInv
    <3>2. CASE q # p
      BY <2>1, <2>2, <3>2, CommitTypes DEF CommitInv
    <3> QED BY <3>1, <3>2
  <2>4. p \in opened' /\ committed[p] # read'[p]
    <3>1. CASE committed[p] = None
      BY <2>1, <2>2, <3>1, RowAssumption
    <3>2. CASE committed[p] # None
      <4>1. committed[p] \in Nat /\ committed[p] <= read[p]
        BY <2>1, <3>2, CommitTypes DEF CommitInv
      <4> QED BY <2>1, <2>2, <4>1
    <3> QED BY <2>1, <3>1, <3>2
  <2> QED BY <2>1, <2>3, <2>4 DEF CommitInv
<1>4. ASSUME NEW u \in unflushed, Send(u) PROVE CommitInv'
  <2>1. UNCHANGED <<topic, up, read, opened, committed>> /\ unflushed # {} /\ folded \subseteq folded'
    BY <1>4, SendFacts
  <2> QED BY <2>1 DEF CommitInv
<1>8. ASSUME NEW i \in Icaos, Forget(i) PROVE CommitInv'
  BY <1>8, ForgetFacts DEF CommitInv
<1>5. CASE Checkpoint
  <2>1. /\ UNCHANGED <<topic, up, read, opened>> /\ unflushed' = {}
        /\ committed' = [p \in Partitions |-> IF p \in opened THEN read[p] ELSE committed[p]]
        /\ up
    BY <1>5, CheckpointFacts
  <2>2. folded' = Handled /\ folded \subseteq folded'
    BY <1>5, CheckpointFacts
  <2>3. ASSUME NEW p \in Partitions
        PROVE  /\ committed'[p] = None => p \notin opened
               /\ committed'[p] # None =>
                    /\ committed'[p] <= Len(topic[p])
                    /\ \A i \in 1..committed'[p] : topic[p][i] \in folded'
                    /\ p \in opened /\ committed'[p] <= read[p]
    <3>1. CASE p \in opened
      <4>1. committed'[p] = read[p] /\ read[p] \in Nat /\ read[p] # None
        BY <2>1, <3>1, CommitTypes
      <4>2. read[p] <= Len(topic[p]) /\ \A i \in 1..read[p] : topic[p][i] \in folded'
        BY <2>2 DEF ReadInv
      <4> QED BY <3>1, <4>1, <4>2
    <3>2. CASE p \notin opened
      <4>1. committed'[p] = committed[p]
        BY <2>1, <3>2
      <4>2. committed[p] = None
        BY <2>1, <3>2 DEF CommitInv
      <4> QED BY <3>2, <4>1, <4>2
    <3> QED BY <3>1, <3>2
  <2>4. \A p \in Partitions : p \notin opened => read[p] = 0
    BY DEF CommitInv
  <2> QED BY <2>1, <2>3, <2>4 DEF CommitInv
<1>6. CASE /\ EmptyState /\ up' = FALSE /\ opened' = {} /\ read' = [p \in Partitions |-> 0]
           /\ UNCHANGED <<topic, committed, historyVars, folded, headless>>
  <2>1. \A p \in Partitions : read'[p] = 0
    BY <1>6
  <2>2. unflushed' = {}
    BY <1>6 DEF EmptyState
  <2> QED BY <1>6, <2>1, <2>2 DEF CommitInv
<1>7. CASE UNCHANGED <<topic, shadowVars, committed, folded, headless>>
  BY <1>7 DEF CommitInv, shadowVars
<1> QED BY <1>1, <1>2, <1>3, <1>4, <1>5, <1>6, <1>7, <1>8, StepKinds

-----------------------------------------------------------------------------
(* The waits.                                                              *)

(* When every partition that has records is committed to its end, nothing is held back. *)
LEMMA NothingHeld ==
    ASSUME TypeOK, ReadInv, CommitInv,
           \A p \in Partitions : topic[p] = << >> \/ committed[p] = Len(topic[p])
    PROVE  /\ unflushed = {}
           /\ up => \A p \in opened : committed[p] = read[p]
<1>1. ASSUME NEW p \in Partitions, p \in opened, up PROVE committed[p] = read[p]
  <2>1. /\ read[p] \in Nat /\ read[p] <= Len(topic[p]) /\ Len(topic[p]) \in Nat
        /\ committed[p] # None => committed[p] \in Nat
    BY CommitTypes DEF ReadInv
  <2>2. CASE committed[p] = None
    <3>1. topic[p] = << >> /\ Len(topic[p]) = 0
      BY <2>1, <2>2, RowAssumption
    <3> QED BY <1>1, <2>1, <2>2, <3>1 DEF CommitInv
  <2>3. CASE committed[p] # None
    <3>1. committed[p] <= read[p] /\ committed[p] \in Nat
      BY <1>1, <2>1, <2>3 DEF CommitInv
    <3>2. committed[p] = Len(topic[p]) \/ Len(topic[p]) = 0
      OBVIOUS
    <3> QED BY <2>1, <3>1, <3>2
  <2> QED BY <2>2, <2>3
<1>2. opened \subseteq Partitions
  BY DEF TypeOK
<1>3. unflushed # {} => up
  BY DEF ReadInv
<1> QED BY <1>1, <1>2, <1>3 DEF CommitInv

LEMMA DoneStep ==
    ASSUME InOrder, BackfillInv, Next
    PROVE  DoneInv'
<1> USE DEF BackfillInv
<1> DEFINE Caught == \A p \in Partitions : topic[p] = << >> \/ committed[p] = Len(topic[p])
           One == \A q \in Partitions : \A j, k \in Unread(q) : j = k
<1>1. CASE phase' \notin {"waitHistory", "remove"}
  BY <1>1 DEF DoneInv
<1>2. CASE WaitFold
  <2>1. UNCHANGED <<topic, committed, folded, unflushed>> /\ phase = "waitFold" /\ phase' = "waitHistory"
    BY <1>2 DEF WaitFold, shadowVars
  <2>2. SUFFICES ASSUME ~skipped'
                 PROVE  Caught /\ Rows \subseteq folded /\ unflushed = {}
    BY <2>1 DEF DoneInv
  <2>3. Caught
    <3>1. ASSUME NEW p \in Partitions, topic[p] # << >> PROVE committed[p] = Len(topic[p])
      <4>1. p \in Counted /\ committed[p] # None
        BY <1>2, <2>2, <3>1 DEF WaitFold, Counted
      <4>2. Len(topic[p]) - committed[p] = 0
        BY <1>2, <4>1 DEF WaitFold, FoldCaughtUp
      <4> QED BY <4>1, <4>2, CommitTypes
    <3> QED BY <3>1
  <2>4. unflushed = {}
    BY <2>3, NothingHeld
  <2>5. ASSUME NEW m \in Rows PROVE m \in folded
    <3>1. PICK k \in 1..Len(Archive) : m = Archive[k]
      BY ArchiveFacts
    <3>2. PICK p \in Partitions : p = PartitionOf(m.station)
      BY StationFacts
    <3>3. Complete(topic[p], Len(Archive), p, 0)
      BY <2>1 DEF ReplayInv
    <3>4. PICK i \in (0 + 1)..Len(topic[p]) : topic[p][i] = m
      BY <3>1, <3>2, <3>3 DEF Complete
    <3>5. Len(topic[p]) \in Nat /\ i \in 1..Len(topic[p])
      BY CommitTypes
    <3>6. topic[p] # << >>
      BY <3>5
    <3>7. committed[p] = Len(topic[p]) /\ committed[p] # None
      BY <2>3, <3>5, <3>6, RowAssumption
    <3> QED BY <3>4, <3>5, <3>7 DEF CommitInv
  <2> QED BY <2>3, <2>4, <2>5
<1>3. CASE phase' \in {"waitHistory", "remove"} /\ ~WaitFold
  <2>0. /\ phase \in {"waitHistory", "remove"} /\ topic' = topic
        /\ folded \subseteq folded'
        /\ skipped' = skipped \/ WaitHistory
    BY <1>3 DEF Next, Script, Shadow, Start, Replay, ReplayFails, Interrupt, WaitHistory, RemoveShadow,
                Fold, Send, Checkpoint, Forget, WriteMarker, Store, Persist, Lost, scriptVars, TypeOK, ReplayInv
  <2>1. ~skipped' => ~skipped
    <3>1. CASE skipped' = skipped
      BY <3>1
    <3>2. CASE WaitHistory
      BY <3>2, Zenon DEF WaitHistory
    <3> QED BY <2>0, <3>1, <3>2
  <2>2. SUFFICES ASSUME ~skipped'
                 PROVE  /\ \A p \in Partitions : topic[p] = << >> \/ committed'[p] = Len(topic[p])
                        /\ Rows \subseteq folded' /\ unflushed' = {}
                        /\ phase' = "remove" => One'
    BY <2>0 DEF DoneInv
  <2>3. ~skipped /\ Caught /\ Rows \subseteq folded' /\ unflushed = {} /\ (phase = "remove" => One)
    <3>1. ~skipped
      BY <2>1, <2>2
    <3> QED BY <2>0, <3>1 DEF DoneInv
  <2>4. up => \A p \in opened : committed[p] = read[p]
    BY <2>3, NothingHeld
  <2>5. CASE WaitHistory
    <3>1. /\ UNCHANGED <<ahead, unflushed, committed>>
          /\ \A q \in seen : Len(ahead[q]) <= 1
          /\ \A q \in Partitions \ seen : ahead[q] = << >>
      <4>1. UNCHANGED <<ahead, unflushed, committed>> /\ HistoryCaughtUp
        BY <2>5 DEF WaitHistory, shadowVars, historyVars
      <4>2. ~(\E q \in Partitions \ seen : ahead[q] # << >>)
        BY <2>2, <2>5 DEF WaitHistory
      <4> QED BY <4>1, <4>2 DEF HistoryCaughtUp, HistoryLag
    <3>2. ASSUME NEW q \in Partitions, NEW j \in Unread(q), NEW k \in Unread(q) PROVE j = k
      <4>1. ahead[q] \in Seq(Traces \cup {Marker}) /\ j \in DOMAIN ahead[q] /\ k \in DOMAIN ahead[q]
        BY DEF TypeOK, Unread
      <4>2. Len(ahead[q]) \in Nat /\ j \in 1..Len(ahead[q]) /\ k \in 1..Len(ahead[q])
        BY <4>1
      <4>3. Len(ahead[q]) <= 1
        <5>1. CASE q \in seen
          BY <3>1, <5>1
        <5>2. CASE q \notin seen
          BY <3>1, <5>2
        <5> QED BY <5>1, <5>2
      <4> QED BY <4>2, <4>3
    <3>3. One'
      BY <3>1, <3>2 DEF Unread
    <3> QED BY <2>3, <3>1, <3>3
  <2>6. CASE Interrupt \/ RemoveShadow \/ Start \/ Replay \/ ReplayFails
    BY <1>3, <2>0, <2>6 DEF Interrupt, RemoveShadow, Start, Replay, ReplayFails
  <2>7. ASSUME NEW p \in Partitions, Fold(p) PROVE FALSE
    <3>1. up /\ read[p] < Len(topic[p])
      BY <2>7 DEF Fold
    <3>2. read[p] \in Nat /\ Len(topic[p]) \in Nat /\ topic[p] # << >>
      BY <3>1, CommitTypes
    <3>3. committed[p] = Len(topic[p]) /\ committed[p] # None
      BY <2>3, <3>2, RowAssumption
    <3>4. committed[p] <= read[p]
      BY <3>1, <3>3 DEF CommitInv
    <3> QED BY <3>1, <3>2, <3>3, <3>4
  <2>8. ~(\E u \in unflushed : Send(u))
    BY <2>3
  <2>9. CASE Checkpoint
    <3>1. /\ up /\ phase' = phase /\ UNCHANGED <<unflushed, ahead>>
          /\ committed' = [p \in Partitions |-> IF p \in opened THEN read[p] ELSE committed[p]]
      BY <2>9, CheckpointFacts DEF historyVars
    <3>2. \A p \in Partitions : committed'[p] = committed[p]
      BY <3>1, <2>4
    <3>3. One' <=> One
      BY <3>1 DEF Unread
    <3> QED BY <2>3, <3>1, <3>2, <3>3
  <2>10. CASE Lost
    <3>1. phase' = phase /\ unflushed' = {} /\ UNCHANGED <<committed, ahead>>
      BY <1>3, <2>10 DEF Lost, EmptyState, historyVars
    <3>2. One' <=> One
      BY <3>1 DEF Unread
    <3> QED BY <2>3, <3>1, <3>2
  <2>11. ASSUME NEW i \in Icaos, Forget(i)
         PROVE  phase' = phase /\ UNCHANGED <<committed, unflushed>> /\ (One' <=> One)
    <3>1. phase' = phase /\ UNCHANGED <<committed, unflushed, ahead>>
      BY <2>11, ForgetFacts DEF historyVars
    <3> QED BY <3>1 DEF Unread
  <2>12. ASSUME NEW q \in Partitions, WriteMarker(q) \/ \E k \in Unread(q) : Persist(q, k)
         PROVE  phase' = phase /\ UNCHANGED <<committed, unflushed>> /\ (One => One')
    <3>1. phase' = phase /\ UNCHANGED <<committed, unflushed>>
      BY <2>12 DEF WriteMarker, Persist, scriptVars, shadowVars
    <3>2. ASSUME One, NEW r \in Partitions, NEW j \in Unread(r)', NEW k \in Unread(r)' PROVE j = k
      <4>1. r # q => ahead'[r] = ahead[r]
        BY <2>12 DEF WriteMarker, Persist, TypeOK
      <4>2. /\ ahead[q] \in Seq(Traces \cup {Marker})
            /\ j \in DOMAIN ahead'[r] /\ ahead'[r][j] # Marker
            /\ k \in DOMAIN ahead'[r] /\ ahead'[r][k] # Marker
        BY DEF TypeOK, Unread
      <4>3. CASE r # q
        BY <3>2, <4>1, <4>2, <4>3 DEF Unread
      <4>4. CASE r = q /\ WriteMarker(q)
        <5>1. ahead'[q] = Append(ahead[q], Marker)
          BY <4>4 DEF WriteMarker, TypeOK
        <5>2. j \in Unread(q) /\ k \in Unread(q)
          BY <4>2, <4>4, <5>1, AppendFacts DEF Unread
        <5> QED BY <3>2, <5>2
      <4>5. ASSUME r = q, NEW n \in Unread(q), Persist(q, n) PROVE j = k
        <5>1. ahead'[q] = SubSeq(ahead[q], n + 1, Len(ahead[q]))
          BY <4>5 DEF Persist, TypeOK
        <5>2. n \in DOMAIN ahead[q] /\ n \in Nat
          BY <4>2 DEF Unread
        <5>3. \A i \in DOMAIN ahead'[q] :
                 i \in Nat /\ n + i \in DOMAIN ahead[q] /\ ahead'[q][i] = ahead[q][n + i]
          <6>1. LET u == SubSeq(ahead[q], n + 1, Len(ahead[q]))
                IN  \A i \in DOMAIN u : i \in Nat /\ n + i \in DOMAIN ahead[q] /\ u[i] = ahead[q][n + i]
            BY <4>2, <5>2, SuffixFacts
          <6> QED BY <5>1, <6>1
        <5>4. n + j \in Unread(q) /\ n + k \in Unread(q) /\ j \in Nat /\ k \in Nat
          BY <4>2, <4>5, <5>3 DEF Unread
        <5>5. n + j = n + k
          BY <3>2, <5>4
        <5> QED BY <5>2, <5>4, <5>5
      <4> QED BY <2>12, <4>3, <4>4, <4>5
    <3> QED BY <3>1, <3>2
  <2> HIDE DEF One, Caught
  <2>13. (\E i \in Icaos : Forget(i)) \/ (\E q \in Partitions : WriteMarker(q)) \/ Store =>
            phase' = phase /\ UNCHANGED <<committed, unflushed>> /\ (One => One')
    BY <2>11, <2>12 DEF Store
  <2>14. (phase' = phase /\ UNCHANGED <<committed, unflushed>> /\ (One => One')) =>
            /\ \A p \in Partitions : topic[p] = << >> \/ committed'[p] = Len(topic[p])
            /\ Rows \subseteq folded' /\ unflushed' = {}
            /\ phase' = "remove" => One'
    BY <2>3 DEF Caught
  <2> QED BY <1>3, <2>5, <2>6, <2>7, <2>8, <2>9, <2>10, <2>13, <2>14 DEF Next, Script, Shadow
<1> QED BY <1>1, <1>2, <1>3

-----------------------------------------------------------------------------
(* The theorems.                                                           *)

LEMMA BackfillInit == InOrder /\ Init => BackfillInv
<1> SUFFICES ASSUME InOrder, Init PROVE BackfillInv
  OBVIOUS
<1>1. Len(Archive) \in Nat \ {0} /\ 0 \in 0..Len(Archive)
  BY ArchiveFacts
<1>2. \A p \in Partitions : topic[p] = << >> /\ read[p] = 0 /\ committed[p] = None
  BY DEF Init
<1>3. 1..0 = {} /\ (0 + 1)..0 = {} /\ Len(<< >>) = 0 /\ DOMAIN << >> = {}
  OBVIOUS
<1>4. TypeOK
  BY <1>1 DEF Init, TypeOK, Create
<1>5. ReplayInv
  <2>1. ASSUME NEW p \in Partitions PROVE Complete(topic[p], next, p, 0)
    <3>1. next = 0 /\ Len(topic[p]) = 0
      BY <1>2, <1>3 DEF Init
    <3> QED BY <1>3, <3>1 DEF Complete
  <2>2. phase = "idle"
    BY DEF Init
  <2> QED BY <1>2, <1>3, <2>1, <2>2 DEF ReplayInv
<1>6. ReadInv
  BY <1>2, <1>3 DEF Init, ReadInv
<1>7. MarkInv
  BY DEF Init, MarkInv
<1>8. CommitInv
  BY <1>2 DEF Init, CommitInv
<1>9. DoneInv
  BY DEF Init, DoneInv
<1> QED BY <1>4, <1>5, <1>6, <1>7, <1>8, <1>9 DEF BackfillInv

LEMMA BackfillStep == InOrder /\ BackfillInv /\ [Next]_vars => BackfillInv'
<1> SUFFICES ASSUME InOrder, BackfillInv, [Next]_vars PROVE BackfillInv'
  OBVIOUS
<1>1. CASE Next
  BY <1>1, TypeStep, ReplayStep, ReadStep, MarkStep, CommitStep, DoneStep DEF BackfillInv
<1>2. CASE UNCHANGED vars
  <2>1. UNCHANGED <<phase, next, topic, up, read, mark, aircraft, opened, unflushed, txn, forgotten,
                    committed, due, ahead, seen, table, folded, skipped>>
    BY <1>2 DEF vars, scriptVars, shadowVars, historyVars
  <2> USE DEF BackfillInv
  <2>2. TypeOK' /\ ReplayInv'
    BY <2>1 DEF TypeOK, ReplayInv
  <2>3. ReadInv' /\ MarkInv' /\ CommitInv' /\ DoneInv'
    BY <2>1 DEF ReadInv, Handled, MarkInv, CommitInv, DoneInv, Unread
  <2> QED BY <2>2, <2>3
<1> QED BY <1>1, <1>2

(* The inductive invariant, for every archive that is read in order.                *)
THEOREM InvCorrect == InOrder => (Spec => []BackfillInv)
<1> SUFFICES ASSUME InOrder PROVE Spec => []BackfillInv
  OBVIOUS
<1>1. Init => BackfillInv
  BY BackfillInit
<1>2. BackfillInv /\ [Next]_vars => BackfillInv'
  BY BackfillStep
<1> QED BY <1>1, <1>2, PTL DEF Spec

(* A backfill that says it is complete has folded every archived row and stored every   *)
(* trace but the last of a partition: wait_lag's two waits are enough for that, except   *)
(* for a partition one of them does not see.                                    *)
THEOREM CompleteIsComplete == InOrder => (Spec => []BackfillComplete)
<1>1. BackfillInv => BackfillComplete
  BY DEF BackfillInv, DoneInv, BackfillComplete
<1> QED BY <1>1, InvCorrect, PTL

-----------------------------------------------------------------------------
(* Whole traces.                                                           *)

(* A fold marks one row more: whatever its station reported before it is marked,       *)
(* because the shadow has read the partition from a point where it is complete.         *)
LEMMA FoldMarks ==
    ASSUME InOrder, TimesTell, BackfillInv, StartInv, NEW p \in Partitions, Fold(p),
           NEW m \in Rows, m = topic[p][read[p] + 1], PartitionOf(m.station) = p, ~Repeat(m),
           mark' = [mark EXCEPT ![m.station] = [ts |-> m.ts, fp |-> m.fp]]
    PROVE  /\ \A x \in Rows : Marked(x)' <=> Marked(x) \/ x = m
           /\ \A x \in Rows : x.station = m.station => (~Less(m, x) <=> Marked(x) \/ x = m)
<1>1. PICK start \in 0..read[p] :
        /\ Complete(topic[p], next, p, start)
        /\ \A j \in (start + 1)..read[p] : Marked(topic[p][j])
  BY DEF StartInv
<1>2. /\ read[p] \in Nat /\ start \in Nat /\ start <= read[p] /\ Len(topic[p]) \in Nat
      /\ read[p] + 1 <= Len(topic[p])
  <2>1. read[p] \in Nat /\ topic[p] \in Seq(Rows)
    BY DEF BackfillInv, TypeOK
  <2>2. read[p] < Len(topic[p])
    BY DEF Fold
  <2> QED BY <2>1, <2>2
<1>3. ASSUME NEW x \in Rows, x.station = m.station, Less(x, m) PROVE Marked(x)
  <2>1. read[p] + 1 \in (start + 1)..Len(topic[p])
    BY <1>2
  <2>2. PICK i \in (start + 1)..((read[p] + 1) - 1) : topic[p][i] = x
    BY <1>1, <1>3, <2>1 DEF Complete
  <2>3. i \in (start + 1)..read[p]
    BY <1>2
  <2> QED BY <1>1, <2>2, <2>3
<1>4. m.station \in Stations /\ DOMAIN mark = Stations
      /\ (mark[m.station] # None => mark[m.station].ts \in Nat)
  <2>1. m.station \in Stations
    BY StationFacts
  <2>2. DOMAIN mark = Stations /\ mark[m.station] \in {None} \cup [ts : Nat, fp : Nat]
    BY <2>1 DEF BackfillInv, TypeOK
  <2> QED BY <2>1, <2>2
<1>5. \A x \in Rows : x.ts \in Nat /\ x.fp \in Nat
  BY RowAssumption
<1>6. mark[m.station] # None => mark[m.station].ts <= m.ts
  BY <1>4, <1>5 DEF Repeat
<1>7. mark'[m.station] = [ts |-> m.ts, fp |-> m.fp]
  BY <1>4
<1>8. mark'[m.station] # None /\ mark'[m.station].ts = m.ts
  BY <1>5, <1>7, RowAssumption
<1>9. ASSUME NEW x \in Rows, x.station = m.station
      PROVE  /\ Marked(x)' <=> x.ts <= m.ts
             /\ Marked(x) => x.ts <= m.ts
             /\ ~Less(m, x) <=> x.ts <= m.ts
             /\ x.ts <= m.ts <=> Less(x, m) \/ x = m
  <2>1. Marked(x)' <=> x.ts <= m.ts
    BY <1>8, <1>9 DEF Marked
  <2>2. Marked(x) => x.ts <= m.ts
    BY <1>4, <1>5, <1>6, <1>9 DEF Marked
  <2>3. (x.ts = m.ts => x = m) /\ x.ts \in Nat /\ m.ts \in Nat
    BY <1>5, <1>9 DEF TimesTell
  <2>4. /\ Less(x, m) <=> (x.ts < m.ts \/ (x.ts = m.ts /\ x.fp < m.fp))
        /\ x = m \/ Less(x, m) \/ Less(m, x)
        /\ ~(Less(x, m) /\ Less(m, x))
    BY <1>9, LessFacts
  <2>5. x = m => ~Less(m, x)
    BY <2>4
  <2>6. x = m => x.ts = m.ts
    OBVIOUS
  <2>7. x.ts <= m.ts <=> Less(x, m) \/ x = m
    BY <2>3, <2>4, <2>6
  <2> QED BY <2>1, <2>2, <2>4, <2>5, <2>7
<1>10. ASSUME NEW x \in Rows, x.station # m.station
       PROVE  Marked(x)' <=> Marked(x)
  <2>1. x.station \in Stations
    BY StationFacts
  <2>2. mark'[x.station] = mark[x.station]
    BY <1>4, <1>10, <2>1
  <2> QED BY <2>2 DEF Marked
<1> QED BY <1>3, <1>9, <1>10

LEMMA FoldWhole ==
    ASSUME InOrder, TimesTell, BackfillInv, TraceInv, LifeInv, StartInv, NEW p \in Partitions, Fold(p)
    PROVE  TraceInv' /\ LifeInv' /\ StartInv'
<1> USE DEF BackfillInv
<1>1. PICK m \in Rows :
        /\ m = topic[p][read[p] + 1] /\ PartitionOf(m.station) = p
        /\ up /\ read[p] \in Nat /\ read[p] + 1 <= Len(topic[p])
        /\ read' = [read EXCEPT ![p] = read[p] + 1] /\ opened' = opened \cup {p}
        /\ UNCHANGED <<phase, next, topic, up, forgotten, committed, historyVars, folded, skipped, headless>>
        /\ m \in Handled' /\ Handled \subseteq Handled'
        /\ \/ Repeat(m) /\ UNCHANGED <<mark, aircraft, unflushed>>
           \/ /\ ~Repeat(m)
              /\ mark' = [mark EXCEPT ![m.station] = [ts |-> m.ts, fp |-> m.fp]]
              /\ aircraft' = [aircraft EXCEPT ![m.icao] = Apply(aircraft[m.icao], m, m, 0)]
              /\ \E u : /\ unflushed' = unflushed \cup {u}
                        /\ u.trace # None => u.trace =
                             Trace(m, Apply(aircraft[m.icao], m, m, 0), m.icao \in forgotten)
  BY FoldFacts
<1>2. read'[p] = read[p] + 1 /\ \A q \in Partitions : q # p => read'[q] = read[q]
  BY <1>1 DEF TypeOK
<1>3. ASSUME Marked(m)', \A x \in Rows : Marked(x) => Marked(x)' PROVE StartInv'
  <2>1. ASSUME NEW q \in Partitions
        PROVE  \E start \in 0..read'[q] :
                  /\ Complete(topic'[q], next', q, start)
                  /\ \A j \in (start + 1)..read'[q] : Marked(topic[q][j])'
    <3>1. PICK start \in 0..read[q] :
            /\ Complete(topic[q], next, q, start)
            /\ \A j \in (start + 1)..read[q] : Marked(topic[q][j])
      BY DEF StartInv
    <3>2. /\ read[q] \in Nat /\ start \in Nat /\ start <= read[q] /\ read[q] <= Len(topic[q])
          /\ topic[q] \in Seq(Rows) /\ Len(topic[q]) \in Nat
      BY CommitTypes DEF ReadInv
    <3>3. start \in 0..read'[q]
      BY <1>1, <1>2, <3>2
    <3>4. ASSUME NEW j \in (start + 1)..read'[q] PROVE Marked(topic[q][j])'
      <4>1. CASE j \in (start + 1)..read[q]
        <5>1. j \in 1..Len(topic[q]) /\ topic[q][j] \in Rows
          BY <3>2, <4>1
        <5>2. PICK x \in Rows : x = topic[q][j]
          BY <5>1
        <5>3. Marked(x)'
          BY <1>3, <3>1, <4>1, <5>2
        <5>4. topic'[q][j] = x
          BY <1>1, <5>2
        <5> QED BY <5>3, <5>4 DEF Marked
      <4>2. CASE j \notin (start + 1)..read[q]
        <5>1. q = p /\ j = read[p] + 1
          BY <1>1, <1>2, <3>2, <4>2
        <5>2. topic'[q][j] = m
          BY <1>1, <5>1
        <5> QED BY <1>3, <5>2 DEF Marked
      <4> QED BY <4>1, <4>2
    <3> QED BY <1>1, <3>1, <3>3, <3>4
  <2> QED BY <2>1, <1>1 DEF StartInv
<1>4. CASE Repeat(m) /\ UNCHANGED <<mark, aircraft, unflushed>>
  <2>1. Marked(m)' /\ \A x \in Rows : Marked(x)' <=> Marked(x)
    <3>1. m.ts \in Nat /\ mark[m.station] # None
      BY <1>4, RowAssumption DEF Repeat
    <3>2. mark[m.station] \in [ts : Nat, fp : Nat]
      BY <3>1, StationFacts DEF TypeOK
    <3>3. mark[m.station].ts \in Nat /\ (m.ts < mark[m.station].ts \/ m.ts = mark[m.station].ts)
      BY <1>4, <3>2 DEF Repeat
    <3>4. Marked(m)
      BY <3>1, <3>3 DEF Marked
    <3> QED BY <3>4, <1>4 DEF Marked
  <2>2. TraceInv'
    BY <1>1, <1>4 DEF TraceInv, Whole, Unread, historyVars
  <2>3. LifeInv'
    BY <1>1, <1>4 DEF LifeInv, Marked
  <2> QED BY <2>1, <2>2, <2>3, <1>3
<1>5. ASSUME NEW u, ~Repeat(m), unflushed' = unflushed \cup {u},
             mark' = [mark EXCEPT ![m.station] = [ts |-> m.ts, fp |-> m.fp]],
             aircraft' = [aircraft EXCEPT ![m.icao] = Apply(aircraft[m.icao], m, m, 0)],
             u.trace # None =>
                u.trace = Trace(m, Apply(aircraft[m.icao], m, m, 0), m.icao \in forgotten)
      PROVE  TraceInv' /\ LifeInv' /\ StartInv'
  <2> DEFINE a == Apply(aircraft[m.icao], m, m, 0)
             f == m.icao \in forgotten
  <2>1. /\ \A x \in Rows : Marked(x)' <=> Marked(x) \/ x = m
        /\ \A x \in Rows : x.station = m.station => (~Less(m, x) <=> Marked(x) \/ x = m)
    BY <1>1, <1>5, FoldMarks
  <2>2. StartInv'
    BY <1>3, <2>1
  <2>0. a.life = aircraft[m.icao].life \cup {m}
    BY LifeFacts
  <2>12. f \in BOOLEAN
    OBVIOUS
  <2>3. /\ a.life = aircraft[m.icao].life \cup {m}
        /\ Trace(m, a, f).event = m /\ Trace(m, a, f).life = a.life
        /\ f => Trace(m, a, f).forgot
    <3> HIDE DEF a, f
    <3> QED BY <2>0, <2>12, TraceFacts
  <2>4. m.icao \in Icaos /\ m.station \in Stations /\ DOMAIN aircraft = Icaos
    BY StationFacts DEF TypeOK
  <2>5. /\ aircraft' = [aircraft EXCEPT ![m.icao] = a]
        /\ u.trace # None => u.trace = Trace(m, a, f)
    BY <1>5
  <2> HIDE DEF a
  <2>6. aircraft'[m.icao] = a /\ \A i \in Icaos : i # m.icao => aircraft'[i] = aircraft[i]
    BY <2>4, <2>5
  <2>7. ASSUME NEW s \in Stations, NEW i \in Icaos \ forgotten
        PROVE  {x \in aircraft'[i].life : x.station = s}
                 = {x \in Rows : x.station = s /\ x.icao = i /\ Marked(x)'}
    <3>1. {x \in aircraft[i].life : x.station = s}
            = {x \in Rows : x.station = s /\ x.icao = i /\ Marked(x)}
      BY DEF LifeInv
    <3>2. \A x : (x \in aircraft[i].life /\ x.station = s)
                    <=> (x \in Rows /\ x.station = s /\ x.icao = i /\ Marked(x))
      BY <3>1
    <3>3. \A x : x \in aircraft'[i].life <=> x \in aircraft[i].life \/ (i = m.icao /\ x = m)
      BY <2>3, <2>6
    <3>4. \A x : (x \in aircraft'[i].life /\ x.station = s)
                    <=> (x \in Rows /\ x.station = s /\ x.icao = i /\ Marked(x)')
      BY <2>1, <3>2, <3>3
    <3> QED BY <3>4
  <2>8. LifeInv'
    BY <1>1, <2>7 DEF LifeInv
  <2>9. ASSUME ~f PROVE Whole(Trace(m, a, f))
    <3>1. {x \in aircraft[m.icao].life : x.station = m.station}
            = {x \in Rows : x.station = m.station /\ x.icao = m.icao /\ Marked(x)}
      BY <2>4, <2>9 DEF LifeInv
    <3>2. \A x : (x \in aircraft[m.icao].life /\ x.station = m.station)
                    <=> (x \in Rows /\ x.station = m.station /\ x.icao = m.icao /\ Marked(x))
      BY <3>1
    <3>3. \A x : (x \in a.life /\ x.station = m.station)
                    <=> (x \in Rows /\ x.station = m.station /\ x.icao = m.icao /\ ~Less(m, x))
      BY <2>1, <2>3, <3>2
    <3>4. {x \in a.life : x.station = m.station}
            = {x \in Rows : x.station = m.station /\ x.icao = m.icao /\ ~Less(m, x)}
      BY <3>3
    <3> QED BY <2>3, <3>4 DEF Whole
  <2>10. u.trace # None => u.trace.forgot \/ Whole(u.trace)
    <3>1. Trace(m, a, f).forgot \/ Whole(Trace(m, a, f))
      BY <2>3, <2>9
    <3> QED BY <2>5, <3>1
  <2> HIDE DEF f
  <2>11. TraceInv'
    <3>1. UNCHANGED <<table, ahead>>
      BY <1>1 DEF historyVars
    <3>2. \A v \in unflushed' : v.trace # None => v.trace.forgot \/ Whole(v.trace)
      BY <1>5, <2>10 DEF TraceInv
    <3> QED BY <3>1, <3>2 DEF TraceInv, Whole, Unread
  <2> QED BY <2>2, <2>8, <2>11
<1> QED BY <1>1, <1>4, <1>5

(* A shadow starts at the beginning of the topic or at its end.                     *)
LEMMA StartWhole ==
    ASSUME InOrder, BackfillInv, Start, ~up, ~headless'
    PROVE  LifeInv' /\ StartInv'
<1> USE DEF BackfillInv
<1>1. /\ EmptyState /\ topic' = topic /\ next' = 0
      /\ read' = [p \in Partitions |-> StartOffset(p)]
      /\ \A p \in Partitions : StartOffset(p) \notin 1..(Len(topic[p]) - 1)
  BY DEF Start
<1>2. LifeInv'
  <2>1. \A i \in Icaos : aircraft'[i].life = {}
    BY <1>1, LifeFacts DEF EmptyState
  <2>2. \A x \in Rows : ~Marked(x)'
    BY <1>1, StationFacts DEF EmptyState, Marked
  <2> QED BY <2>1, <2>2 DEF LifeInv
<1>3. ASSUME NEW p \in Partitions
      PROVE  Complete(topic[p], 0, p, StartOffset(p)) /\ StartOffset(p) \in Nat
  <2>1. /\ StartOffset(p) \in Nat /\ StartOffset(p) <= Len(topic[p]) /\ Len(topic[p]) \in Nat
    BY CommitTypes DEF StartOffset, CommitInv
  <2>2. StartOffset(p) = 0 \/ StartOffset(p) = Len(topic[p])
    BY <1>1, <2>1
  <2>3. CASE StartOffset(p) = 0
    BY <2>1, <2>3, CompleteAnew DEF ReplayInv
  <2>4. CASE StartOffset(p) = Len(topic[p])
    <3>1. (StartOffset(p) + 1)..Len(topic[p]) = {} /\ 1..0 = {}
      BY <2>1, <2>4
    <3> QED BY <2>1, <3>1 DEF Complete
  <2> QED BY <2>2, <2>3, <2>4
<1>4. StartInv'
  <2>1. ASSUME NEW p \in Partitions
        PROVE  \E start \in 0..read'[p] :
                  /\ Complete(topic'[p], next', p, start)
                  /\ \A j \in (start + 1)..read'[p] : Marked(topic[p][j])'
    <3>1. PICK n \in Nat : n = StartOffset(p)
      BY <1>3
    <3>2. read'[p] = n /\ Complete(topic'[p], next', p, n)
      BY <1>1, <1>3, <3>1
    <3>3. n \in 0..n /\ (n + 1)..n = {}
      BY <3>1
    <3> QED BY <3>2, <3>3
  <2> QED BY <2>1 DEF StartInv
<1> QED BY <1>2, <1>4

LEMMA StartKept ==
    ASSUME InOrder, BackfillInv, StartInv,
           UNCHANGED <<read, mark>>,
           \/ topic' = topic /\ next' \in {0, next}
           \/ Replay \/ ReplayFails
    PROVE  StartInv'
<1> USE DEF BackfillInv
<1>1. ASSUME NEW p \in Partitions
      PROVE  \E start \in 0..read'[p] :
                /\ Complete(topic'[p], next', p, start)
                /\ \A j \in (start + 1)..read'[p] : Marked(topic[p][j])'
  <2>1. PICK start \in 0..read[p] :
          /\ Complete(topic[p], next, p, start)
          /\ \A j \in (start + 1)..read[p] : Marked(topic[p][j])
    BY DEF StartInv
  <2>2. /\ read[p] \in Nat /\ read[p] <= Len(topic[p]) /\ Len(topic[p]) \in Nat
        /\ start \in 0..Len(topic[p]) /\ \A j \in (start + 1)..read[p] : j \in 1..read[p]
    BY CommitTypes DEF ReadInv
  <2>3. CASE topic' = topic /\ next' \in {0, next}
    <3>1. Complete(topic[p], 0, p, start)
      BY <2>1, CompleteAnew
    <3> QED BY <2>1, <2>3, <3>1 DEF Marked
  <2>4. CASE Replay \/ ReplayFails
    <3>1. Complete(topic'[p], next', p, start)
      BY <2>1, <2>2, <2>4, ReplayFacts
    <3>2. \A i \in 1..read[p] : topic'[p][i] = topic[p][i]
      BY <2>2, <2>4, PrefixKept
    <3>3. \A j \in (start + 1)..read[p] : Marked(topic[p][j])'
      BY <2>1, <2>2, <3>2 DEF Marked
    <3> QED BY <2>1, <3>1, <3>3
  <2> QED BY <2>3, <2>4
<1> QED BY <1>1 DEF StartInv

(* A trace that has been sent, is stored, or is still ahead was whole before.            *)
LEMMA TracesKept ==
    ASSUME TypeOK, TraceInv, Next, ~(\E p \in Partitions : Fold(p))
    PROVE  TraceInv'
<1> DEFINE Good(t) == t.forgot \/ Whole(t)
<1>1. \A t \in table' : t \in table \/ \E q \in Partitions : \E k \in Unread(q) : t = ahead[q][k]
  BY DEF Next, Script, Shadow, Store, Start, Replay, ReplayFails, Interrupt, WaitFold, WaitHistory,
         RemoveShadow, Send, Checkpoint, Forget, WriteMarker, Persist, Lost, historyVars
<1>2. unflushed' \subseteq unflushed
  BY DEF Next, Script, Shadow, Store, Start, Replay, ReplayFails, Interrupt, WaitFold, WaitHistory,
         RemoveShadow, Send, Checkpoint, Forget, WriteMarker, Persist, Lost, EmptyState, shadowVars
<1>3. ASSUME NEW q \in Partitions, NEW j \in Unread(q)'
      PROVE  \/ \E k \in Unread(q) : ahead'[q][j] = ahead[q][k]
             \/ \E u \in unflushed : u.trace # None /\ ahead'[q][j] = u.trace
  <2>1. ahead[q] \in Seq(Traces \cup {Marker}) /\ j \in DOMAIN ahead'[q] /\ ahead'[q][j] # Marker
    BY DEF TypeOK, Unread
  <2>2. CASE ahead'[q] = ahead[q]
    BY <2>1, <2>2 DEF Unread
  <2>3. ASSUME NEW u \in unflushed, Send(u), ahead'[q] # ahead[q]
        PROVE  \/ \E k \in Unread(q) : ahead'[q][j] = ahead[q][k]
               \/ \E v \in unflushed : v.trace # None /\ ahead'[q][j] = v.trace
    <3>1. u.trace # None /\ ahead'[q] = Append(ahead[q], u.trace) /\ u.trace \in Traces \cup {Marker}
      BY <2>3 DEF Send, TypeOK
    <3>2. (j \in DOMAIN ahead[q] /\ ahead'[q][j] = ahead[q][j]) \/ ahead'[q][j] = u.trace
      BY <2>1, <3>1, AppendFacts
    <3> QED BY <2>1, <3>1, <3>2 DEF Unread
  <2>4. ASSUME NEW r \in Partitions, WriteMarker(r), ahead'[q] # ahead[q]
        PROVE  \E k \in Unread(q) : ahead'[q][j] = ahead[q][k]
    <3>1. ahead'[q] = Append(ahead[q], Marker)
      BY <2>4 DEF WriteMarker, TypeOK
    <3>2. j \in DOMAIN ahead[q] /\ ahead'[q][j] = ahead[q][j]
      BY <2>1, <3>1, AppendFacts
    <3> QED BY <2>1, <3>2 DEF Unread
  <2>5. ASSUME NEW r \in Partitions, NEW n \in Unread(r), Persist(r, n), ahead'[q] # ahead[q]
        PROVE  \E k \in Unread(q) : ahead'[q][j] = ahead[q][k]
    <3>1. r = q /\ ahead'[q] = SubSeq(ahead[q], n + 1, Len(ahead[q]))
      BY <2>5 DEF Persist, TypeOK
    <3>2. n \in DOMAIN ahead[q]
      BY <3>1 DEF Unread
    <3>3. n + j \in DOMAIN ahead[q] /\ ahead'[q][j] = ahead[q][n + j]
      BY <2>1, <3>1, <3>2, SuffixFacts
    <3> QED BY <2>1, <3>3 DEF Unread
  <2>6. \/ ahead'[q] = ahead[q]
        \/ \E u \in unflushed : Send(u)
        \/ \E r \in Partitions : WriteMarker(r)
        \/ Store
    BY DEF Next, Script, Shadow, Start, Replay, ReplayFails, Interrupt, WaitFold, WaitHistory,
           RemoveShadow, Checkpoint, Forget, Lost, historyVars
  <2> QED BY <2>2, <2>3, <2>4, <2>5, <2>6 DEF Store
<1>4. \A t \in table : Good(t)
  BY DEF TraceInv
<1>5. \A q \in Partitions : \A k \in Unread(q) : Good(ahead[q][k])
  BY DEF TraceInv
<1>6. \A u \in unflushed : u.trace # None => Good(u.trace)
  BY DEF TraceInv
<1> HIDE DEF Good
<1>7. \A t \in table' : Good(t)
  BY <1>1, <1>4, <1>5
<1>8. \A u \in unflushed' : u.trace # None => Good(u.trace)
  BY <1>2, <1>6
<1>9. \A q \in Partitions : \A j \in Unread(q)' : Good(ahead'[q][j])
  BY <1>3, <1>5, <1>6
<1> QED BY <1>7, <1>8, <1>9 DEF TraceInv, Good, Whole

LEMMA WholeStep ==
    ASSUME InOrder, TimesTell, BackfillInv, WholeInv, Next
    PROVE  WholeInv'
<1> SUFFICES ASSUME ~headless' PROVE TraceInv' /\ (up' => LifeInv' /\ StartInv')
  BY DEF WholeInv
<1>0. ~headless /\ TraceInv /\ (up => LifeInv /\ StartInv)
  <2>1. headless => headless'
    BY DEF Next, Script, Shadow, Store, Start, Replay, ReplayFails, Interrupt, WaitFold, WaitHistory,
           RemoveShadow, Fold, Send, Checkpoint, Forget, WriteMarker, Persist, Lost
  <2> QED BY <2>1 DEF WholeInv
<1>1. CASE \E p \in Partitions : Fold(p)
  <2>1. PICK p \in Partitions : Fold(p)
    BY <1>1
  <2> QED BY <1>0, <2>1, FoldWhole DEF Fold
<1>2. CASE ~(\E p \in Partitions : Fold(p))
  <2>0. TraceInv'
    BY <1>0, <1>2, TracesKept DEF BackfillInv
  <2>1. CASE Start
    <3>1. topic' = topic /\ next' = 0
      BY <2>1 DEF Start
    <3>2. CASE up
      <4>1. UNCHANGED <<read, mark, aircraft, forgotten>>
        BY <2>1, <3>2 DEF Start
      <4>2. LifeInv'
        BY <1>0, <3>2, <4>1 DEF LifeInv, Marked
      <4>3. StartInv'
        BY <1>0, <3>1, <3>2, <4>1, StartKept
      <4> QED BY <2>0, <4>2, <4>3
    <3>3. CASE ~up
      BY <2>0, <2>1, <3>3, StartWhole
    <3> QED BY <3>2, <3>3
  <2>2. CASE up' = FALSE
    BY <2>0, <2>2
  <2>3. CASE /\ UNCHANGED <<up, read, mark, aircraft, forgotten>>
             /\ \/ topic' = topic /\ next' \in {0, next}
                \/ Replay \/ ReplayFails
    <3>1. up' => LifeInv'
      BY <1>0, <2>3 DEF LifeInv, Marked
    <3>2. up' => StartInv'
      BY <1>0, <2>3, StartKept
    <3> QED BY <2>0, <3>1, <3>2
  <2>4. ASSUME NEW i \in Icaos, Forget(i) PROVE LifeInv' /\ StartInv'
    <3>1. /\ UNCHANGED <<next, topic, read, mark>> /\ up
          /\ aircraft' = [aircraft EXCEPT ![i] = Create] /\ forgotten' = forgotten \cup {i}
      BY <2>4, ForgetFacts
    <3>2. \A j \in Icaos \ forgotten' : j \in Icaos \ forgotten /\ aircraft'[j] = aircraft[j]
      BY <3>1 DEF BackfillInv, TypeOK
    <3>3. LifeInv'
      BY <1>0, <3>1, <3>2 DEF LifeInv, Marked
    <3>4. StartInv'
      BY <1>0, <3>1, StartKept
    <3> QED BY <3>3, <3>4
  <2>5. \/ Start
        \/ up' = FALSE
        \/ /\ UNCHANGED <<up, read, mark, aircraft, forgotten>>
           /\ \/ topic' = topic /\ next' \in {0, next}
              \/ Replay \/ ReplayFails
        \/ \E i \in Icaos : Forget(i)
    BY <1>2 DEF Next, Script, Shadow, Store, Replay, ReplayFails, Interrupt, WaitFold, WaitHistory,
           RemoveShadow, Send, Checkpoint, WriteMarker, Persist, Lost, shadowVars, scriptVars
  <2> QED BY <2>0, <2>1, <2>2, <2>3, <2>4, <2>5
<1> QED BY <1>1, <1>2

(* Every backfilled trace is whole, for archives in which a station's lines have times of  *)
(* their own, unless a shadow started in the middle of a replay or the aircraft expired.   *)
THEOREM WholeTraces == InOrder /\ TimesTell => (Spec => []TracesWhole)
<1> SUFFICES ASSUME InOrder, TimesTell PROVE Spec => []TracesWhole
  OBVIOUS
<1>1. Init => WholeInv
  BY DEF Init, WholeInv, TraceInv, Unread
<1>2. BackfillInv /\ WholeInv /\ [Next]_vars => WholeInv'
  <2> SUFFICES ASSUME BackfillInv, WholeInv, [Next]_vars PROVE WholeInv'
    OBVIOUS
  <2>1. CASE Next
    BY <2>1, WholeStep
  <2>2. CASE UNCHANGED vars
    <3>1. UNCHANGED <<next, topic, up, read, mark, aircraft, unflushed, forgotten, ahead, table, headless>>
      BY <2>2 DEF vars, scriptVars, shadowVars, historyVars
    <3>2. TraceInv' <=> TraceInv
      BY <3>1 DEF TraceInv, Whole, Unread
    <3>3. LifeInv' <=> LifeInv
      BY <3>1 DEF LifeInv, Marked
    <3>4. StartInv => StartInv'
      BY <3>1, StartKept
    <3> QED BY <3>1, <3>2, <3>3, <3>4 DEF WholeInv
  <2> QED BY <2>1, <2>2
<1>3. WholeInv => TracesWhole
  BY DEF WholeInv, TraceInv, TracesWhole
<1>4. Spec => []BackfillInv
  BY InvCorrect
<1> QED BY <1>1, <1>2, <1>3, <1>4, PTL DEF Spec
=============================================================================
