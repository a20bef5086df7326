------------------------------ MODULE Backfill ------------------------------
(***************************************************************************)
(* `just backfill`: cmd/backfill replays the archive onto events.raw.replay,    *)
(* a shadow processor folds it from empty state, and the history writer stores  *)
(* the traces; the script waits for both and removes the shadow.  The script    *)
(* may be interrupted or fail at any point, which leaves the shadow running,    *)
(* and the shadow may be lost, which leaves its group's offsets.               *)
(*                                                                         *)
(*   script   phase: idle, replay, waitFold, waitHistory, remove; next, the     *)
(*            rows of the archive replayed so far                           *)
(*   topic    events.raw.replay, per partition                               *)
(*   shadow   up; read, mark and aircraft, as in Processor; opened, the          *)
(*            partitions whose position it knows; unflushed, what its sink       *)
(*            still holds: [event, trace]; txn, the partitions of                *)
(*            aircraft.state_history.replay its open transaction wrote to        *)
(*   broker   committed, the shadow's group, None before its first commit;       *)
(*            due, the markers of ended transactions still to be written          *)
(*   history  seen, the partitions its group has an offset of; ahead, the         *)
(*            traces and markers after that offset; table                     *)
(*                                                                         *)
(* The history writer reads uncommitted records, so what the sink has written   *)
(* it stores.  The rest is history: folded, the events whose traces are on the    *)
(* topic; forgotten, the aircraft that expired in this shadow; skipped, one of    *)
(* this run's waits ended with records in a partition it did not count;           *)
(* headless, a shadow started in the middle of a replay.                        *)
(***************************************************************************)
EXTENDS Aircraft, SequencesExt, FiniteSets

CONSTANTS
    Files,          \* the archive's files: [day, rows]
    Unknown,        \* the day of undecodable rows
    Partitions,                     \* of every topic
    PartitionOf(_),                 \* of a station
    TracePartitionOf(_),            \* of an icao
    Marker,                         \* a transaction's marker
    BatchSize,
    None,           \* no mark, no trace, no committed offset
    MaxRuns, MaxTroubles,
    MaxAhead,       \* entries the history writer may be behind on a partition
    MaxDue          \* markers due on a partition when a checkpoint ends a transaction

ASSUME BackfillAssumption ==
    /\ BatchSize \in Nat \ {0} /\ MaxRuns \in Nat /\ MaxTroubles \in Nat
    /\ MaxAhead \in Nat \ {0} /\ MaxDue \in Nat \ {0}

VARIABLES phase, next, topic, up, read, mark, aircraft, opened, unflushed, txn, forgotten,
          committed, due, ahead, seen, table, folded, skipped, headless, runs, troubles

scriptVars == <<phase, next, runs>>
shadowVars == <<up, read, mark, aircraft, opened, unflushed, txn, forgotten>>
historyVars == <<ahead, seen, table>>
vars == <<scriptVars, topic, shadowVars, committed, due, historyVars, folded, skipped, headless, troubles>>

-----------------------------------------------------------------------------
(* The archive.                                                            *)

(* By time, then station, then line.                                        *)
Less(a, b) ==
    \/ a.ts < b.ts
    \/ a.ts = b.ts /\ a.station < b.station
    \/ a.ts = b.ts /\ a.station = b.station /\ a.fp < b.fp

(* Days: the dated directories in order, dt=unknown left out.                *)
Days == SetToSortSeq({f.day : f \in Files} \ {Unknown}, <)

(* ReadDay: the rows of all of a day's files, each once, in canonical order.    *)
ReadDay(day) ==
    SetToSortSeq(UNION {Range(f.rows) : f \in {g \in Files : g.day = day}}, Less)

FirstDays(n) == FlattenSeq([d \in 1..n |-> ReadDay(Days[d])])
Archive == FirstDays(Len(Days))
Rows == Range(Archive)
Stations == {m.station : m \in Rows}
Icaos == {m.icao : m \in Rows}

(* A fingerprint tells the lines of a microsecond apart.                      *)
ASSUME RowAssumption ==
    /\ \A m \in Rows :
         /\ m.ts \in Nat /\ m.fp \in Nat /\ m.station \in Nat
         /\ PartitionOf(m.station) \in Partitions /\ TracePartitionOf(m.icao) \in Partitions
    /\ \A m, n \in Rows : (m.station = n.station /\ m.ts = n.ts /\ m.fp = n.fp) => m = n
    /\ None \notin Nat /\ None \notin [ts : Nat, fp : Nat]

-----------------------------------------------------------------------------
EmptyState ==
    /\ mark' = [s \in Stations |-> None]
    /\ aircraft' = [i \in Icaos |-> Create]
    /\ unflushed' = {}
    /\ forgotten' = {}

Init ==
    /\ phase = "idle" /\ next = 0 /\ runs = 0 /\ troubles = 0
    /\ topic = [p \in Partitions |-> << >>]
    /\ up = FALSE /\ opened = {} /\ unflushed = {}
    /\ read = [p \in Partitions |-> 0]
    /\ mark = [s \in Stations |-> None]
    /\ aircraft = [i \in Icaos |-> Create]
    /\ committed = [p \in Partitions |-> None]
    /\ txn = {} /\ due = [q \in Partitions |-> 0] /\ forgotten = {}
    /\ ahead = [q \in Partitions |-> << >>] /\ seen = {} /\ table = {} /\ folded = {}
    /\ skipped = FALSE /\ headless = FALSE

Trouble ==
    /\ troubles < MaxTroubles
    /\ troubles' = troubles + 1

(* Where a shadow without a checkpoint starts: the group's offset, or earliest. *)
StartOffset(p) == IF committed[p] = None THEN 0 ELSE committed[p]

(* The open transaction is committed, or aborted: a marker for each partition of it.  *)
EndTransaction ==
    /\ txn' = {}
    /\ due' = [q \in Partitions |-> IF q \in txn THEN due[q] + 1 ELSE due[q]]

-----------------------------------------------------------------------------
(* scripts/backfill.sh and cmd/backfill.                                     *)

(* compose up: a shadow that is still there stays as it is.                   *)
Start ==
    /\ phase = "idle" /\ runs < MaxRuns
    /\ phase' = "replay" /\ next' = 0 /\ runs' = runs + 1
    /\ up' = TRUE
    /\ IF up THEN UNCHANGED <<read, mark, aircraft, unflushed, forgotten, opened, headless>>
       ELSE /\ EmptyState
            /\ read' = [p \in Partitions |-> StartOffset(p)]
            /\ opened' = {p \in Partitions : committed[p] # None}
            /\ headless' = (headless \/ \E p \in Partitions :
                                          StartOffset(p) \in 1..(Len(topic[p]) - 1))
    /\ skipped' = FALSE
    /\ UNCHANGED <<topic, txn, committed, due, historyVars, folded, troubles>>

(* Mutant: the records have no key, and go to the partitions in turn.           *)
ProducedInTurn(a, b) ==
    [p \in Partitions |->
        topic[p] \o FlattenSeq([k \in 1..(b - a + 1) |->
                       IF 1 + ((a + k) % Cardinality(Partitions)) = p THEN <<Archive[a + k - 1]>> ELSE << >>])]

(* Of rows a..b, those of the stations of partition p.                        *)
Share(a, b, p) == SelectSeq(SubSeq(Archive, a, b), LAMBDA m : PartitionOf(m.station) = p)

(* The records of rows a..b, each to its station's partition.                 *)
Produced(a, b) == [p \in Partitions |-> topic[p] \o Share(a, b, p)]

DayEnds == {Len(FirstDays(n)) : n \in DOMAIN Days}

(* A batch ends where its day does.                                          *)
BatchEnd == Min({next + BatchSize} \cup {e \in DayEnds : e > next})

(* One ProduceSync; after the last one the command exits.                     *)
Replay ==
    /\ phase = "replay"
    /\ topic' = Produced(next + 1, BatchEnd)
    /\ next' = BatchEnd
    /\ phase' = IF BatchEnd = Len(Archive) THEN "waitFold" ELSE phase
    /\ UNCHANGED <<runs, shadowVars, committed, due, historyVars, folded, skipped, headless, troubles>>

(* A record is refused: the batch is there in part, and the script exits.       *)
ReplayFails ==
    /\ phase = "replay"
    /\ Trouble
    /\ \E ends \in [Partitions -> next..BatchEnd] :
         topic' = [p \in Partitions |-> Produced(next + 1, ends[p])[p]]
    /\ phase' = "idle" /\ next' = 0
    /\ UNCHANGED <<runs, shadowVars, committed, due, historyVars, folded, skipped, headless>>

(* Ctrl-C.                                                                 *)
Interrupt ==
    /\ phase # "idle"
    /\ Trouble
    /\ phase' = "idle" /\ next' = 0
    /\ UNCHANGED <<runs, topic, shadowVars, committed, due, historyVars, folded, skipped, headless>>

(* Partitions that wait_lag sees: it does not count a lag of "-".              *)
Counted == {p \in Partitions : committed[p] # None}

(* Mutant: the loop ends when any partition has caught up.                    *)
AnyFoldCaughtUp == \E p \in Counted : Len(topic[p]) - committed[p] = 0

FoldCaughtUp ==
    /\ Counted # {}
    /\ \A p \in Counted : Len(topic[p]) - committed[p] = 0

(* wait_lag flink-processor.replay events.raw.replay 0.                      *)
WaitFold ==
    /\ phase = "waitFold"
    /\ FoldCaughtUp
    /\ phase' = "waitHistory"
    /\ skipped' = \E p \in Partitions \ Counted : topic[p] # << >>
    /\ UNCHANGED <<next, runs, topic, shadowVars, committed, due, historyVars, folded, headless, troubles>>

(* The history group's lag on a partition.                                     *)
HistoryLag(q) == Len(ahead[q])

(* Mutant: a lag of 0 is waited for here too.                                *)
HistoryDrained == seen # {} /\ \A q \in seen : HistoryLag(q) <= 0

(* A partition without an offset of the group is not counted here either.       *)
HistoryCaughtUp == seen # {} /\ \A q \in seen : HistoryLag(q) <= 1

(* wait_lag history aircraft.state_history.replay 1.                         *)
WaitHistory ==
    /\ phase = "waitHistory"
    /\ HistoryCaughtUp
    /\ phase' = "remove"
    /\ skipped' = (skipped \/ \E q \in Partitions \ seen : ahead[q] # << >>)
    /\ UNCHANGED <<next, runs, topic, shadowVars, committed, due, historyVars, folded, headless, troubles>>

(* compose rm.                                                             *)
RemoveShadow ==
    /\ phase = "remove"
    /\ phase' = "idle" /\ next' = 0
    /\ up' = FALSE /\ opened' = {}
    /\ read' = [p \in Partitions |-> 0]
    /\ EmptyState /\ EndTransaction
    /\ UNCHANGED <<runs, topic, committed, historyVars, folded, skipped, headless, troubles>>

-----------------------------------------------------------------------------
(* The shadow processor and the history writer.                             *)

(* The traces of a partition that the history writer has not stored.                *)
Unread(q) == {k \in DOMAIN ahead[q] : ahead[q][k] # Marker}

(* The bound on what the history writer is behind: it stores before more comes.      *)
Room(q) == Len(ahead[q]) < MaxAhead \/ Unread(q) = {}

Repeat(m) ==
    /\ mark[m.station] # None
    /\ \/ m.ts < mark[m.station].ts
       \/ m.ts = mark[m.station].ts /\ m.fp = mark[m.station].fp

Trace(m, a, f) == [event |-> m, last |-> a.last, life |-> a.life, forgot |-> f]

(* One record through the job: dropped, or folded, with a trace if it changed    *)
(* the aircraft.                                                           *)
Fold(p) ==
    /\ up /\ read[p] < Len(topic[p])
    /\ read' = [read EXCEPT ![p] = @ + 1]
    /\ opened' = opened \cup {p}
    /\ LET m == topic[p][read[p] + 1]
           a == Apply(aircraft[m.icao], m, m, 0)
       IN  IF Repeat(m) THEN UNCHANGED <<mark, aircraft, unflushed>>
           ELSE /\ mark' = [mark EXCEPT ![m.station] = [ts |-> m.ts, fp |-> m.fp]]
                /\ aircraft' = [aircraft EXCEPT ![m.icao] = a]
                /\ unflushed' = unflushed \cup
                     {[event |-> m, trace |-> IF a.dirty THEN None
                                              ELSE Trace(m, a, m.icao \in forgotten)]}
    /\ UNCHANGED <<scriptVars, topic, up, txn, forgotten, committed, due, historyVars,
                   folded, skipped, headless, troubles>>

(* onTimer: an aircraft the shadow has not heard of for expireMs is cleared;        *)
(* StationDedup keeps the marks.  Between two runs any time may pass; within one it   *)
(* is a disturbance.                                                        *)
Forget(i) ==
    /\ up /\ aircraft[i] # Create
    /\ IF phase = "idle" THEN UNCHANGED troubles ELSE Trouble
    /\ aircraft' = [aircraft EXCEPT ![i] = Create]
    /\ forgotten' = forgotten \cup {i}
    /\ UNCHANGED <<scriptVars, topic, up, read, mark, opened, unflushed, txn, committed, due,
                   historyVars, folded, skipped, headless>>

(* The sink's producer sends a record it holds, in the open transaction.             *)
Send(u) ==
    /\ up /\ Room(TracePartitionOf(u.event.icao))
    /\ unflushed' = unflushed \ {u}
    /\ folded' = folded \cup {u.event}
    /\ LET q == TracePartitionOf(u.event.icao)
       IN  IF u.trace = None THEN UNCHANGED <<ahead, txn>>
           ELSE /\ ahead' = [ahead EXCEPT ![q] = Append(@, u.trace)]
                /\ txn' = txn \cup {q}
    /\ UNCHANGED <<scriptVars, topic, up, read, mark, aircraft, opened, forgotten, committed, due,
                   seen, table, skipped, headless, troubles>>

(* A checkpoint, for which the sink has sent what it held: the transaction is        *)
(* committed, and the group's offsets, of partitions it has read from or had an      *)
(* offset of.                                                              *)
Checkpoint ==
    /\ up /\ unflushed = {} /\ \A q \in Partitions : due[q] < MaxDue
    /\ committed' = [p \in Partitions |-> IF p \in opened THEN read[p] ELSE committed[p]]
    /\ committed' # committed \/ txn # {}
    /\ EndTransaction
    /\ UNCHANGED <<scriptVars, topic, up, read, mark, aircraft, opened, unflushed, forgotten,
                   historyVars, folded, skipped, headless, troubles>>

(* The broker writes a marker, while the next transaction may have begun.            *)
WriteMarker(q) ==
    /\ due[q] > 0 /\ Room(q)
    /\ due' = [due EXCEPT ![q] = @ - 1]
    /\ ahead' = [ahead EXCEPT ![q] = Append(@, Marker)]
    /\ UNCHANGED <<scriptVars, topic, shadowVars, committed, seen, table, folded, skipped, headless, troubles>>

(* The shadow's containers are gone; after a reboot the script is too.          *)
Lost ==
    /\ up
    /\ Trouble
    /\ up' = FALSE /\ opened' = {}
    /\ read' = [p \in Partitions |-> 0]
    /\ EmptyState /\ EndTransaction
    /\ \/ phase' = "idle" /\ next' = 0
       \/ UNCHANGED <<phase, next>>
    /\ UNCHANGED <<runs, topic, committed, historyVars, folded, skipped, headless>>

Key(t) == <<t.event.station, t.event.ts, t.event.icao, t.last>>

(* The next trace of a partition, past markers: ON CONFLICT DO NOTHING, and the       *)
(* offset behind it committed.                                               *)
Persist(q, k) ==
    /\ \A j \in Unread(q) : k <= j
    /\ LET t == ahead[q][k]
       IN  table' = IF \E row \in table : Key(row) = Key(t) THEN table ELSE table \cup {t}
    /\ ahead' = [ahead EXCEPT ![q] = SubSeq(@, k + 1, Len(@))]
    /\ seen' = seen \cup {q}
    /\ UNCHANGED <<scriptVars, topic, shadowVars, committed, due, folded, skipped, headless, troubles>>

Script == Start \/ Replay \/ WaitFold \/ WaitHistory \/ RemoveShadow
Shadow == (\E p \in Partitions : Fold(p)) \/ (\E u \in unflushed : Send(u)) \/ Checkpoint
Store == \E q \in Partitions : \E k \in Unread(q) : Persist(q, k)

Next ==
    \/ Script \/ ReplayFails \/ Interrupt
    \/ Shadow \/ Lost
    \/ \E i \in Icaos : Forget(i)
    \/ \E q \in Partitions : WriteMarker(q)
    \/ Store

Spec == Init /\ [][Next]_vars

(* What can go on goes on: the script's steps, the shadow's, the broker's and the     *)
(* history writer's.                                                        *)
Progress ==
    \/ Replay \/ WaitFold \/ WaitHistory \/ RemoveShadow
    \/ Shadow \/ Store
    \/ \E q \in Partitions : WriteMarker(q)

FairSpec == Spec /\ WF_vars(Progress)

-----------------------------------------------------------------------------
Traces == [event : Rows, last : Nat, life : SUBSET Rows, forgot : BOOLEAN]

TypeOK ==
    /\ phase \in {"idle", "replay", "waitFold", "waitHistory", "remove"}
    /\ next \in 0..Len(Archive)
    /\ topic \in [Partitions -> Seq(Rows)]
    /\ read \in [Partitions -> Nat] /\ committed \in [Partitions -> Nat \cup {None}]
    /\ mark \in [Stations -> {None} \cup [ts : Nat, fp : Nat]]
    /\ DOMAIN aircraft = Icaos
    /\ \A i \in Icaos : aircraft[i].last \in Nat /\ aircraft[i].life \subseteq Rows
    /\ opened \subseteq Partitions /\ txn \subseteq Partitions /\ forgotten \subseteq Icaos
    /\ \A u \in unflushed : u.event \in Rows /\ u.trace \in Traces \cup {None}
    /\ due \in [Partitions -> Nat]
    /\ ahead \in [Partitions -> Seq(Traces \cup {Marker})]
    /\ seen \subseteq Partitions /\ table \subseteq Traces

(* When the script says it is complete, every archived event has been folded by   *)
(* some shadow and all traces are stored but the last one of a partition, through    *)
(* interrupted and failed runs, lost shadows, re-replays that StationDedup drops      *)
(* and markers that come late.  wait_lag's slack of 1 is meant for a marker, but it   *)
(* may be a trace whose marker is not there yet.  The exception: wait_lag does not   *)
(* count a partition without a committed offset, of either group, and may be too     *)
(* early for one.                                                           *)
BackfillComplete ==
    (phase = "remove" /\ ~skipped) =>
       Rows \subseteq folded /\ \A q \in Partitions : \A j, k \in Unread(q) : j = k

(* The station's part of the life a trace was folded from.                        *)
Whole(t) ==
    {m \in t.life : m.station = t.event.station}
      = {m \in Rows : /\ m.station = t.event.station /\ m.icao = t.event.icao
                      /\ ~Less(t.event, m)}

(* A backfilled trace is whole: the fold behind it had seen everything its station  *)
(* had reported of the aircraft, and nothing later.  So a second run stores the     *)
(* same rows for an aircraft that one station hears.  Two exceptions.  A shadow that *)
(* starts in the middle of a replay, after one was lost, folds the rest from empty  *)
(* state and then drops the replay as repeats.  And an aircraft that expired in a    *)
(* shadow (left up after an interrupted run, or 300 s into a replay) is folded from  *)
(* empty state from then on, while the marks drop its earlier rows.               *)
TracesWhole ==
    ~headless => /\ \A t \in table : t.forgot \/ Whole(t)
                 /\ \A q \in Partitions : \A k \in Unread(q) :
                      ahead[q][k].forgot \/ Whole(ahead[q][k])

(* A counted partition ends in more than one marker: two transactions overlapped      *)
(* there, and no trace is left behind which the offset would move.                   *)
Overlapped == \E q \in seen : HistoryLag(q) > 1 /\ Unread(q) = {}

(* The waits end, unless the shadow is lost or markers alone make the history group's *)
(* lag larger than the slack, which nothing but another run reduces.               *)
RunEnds == (phase = "waitFold") ~> (phase = "idle" \/ ~up \/ []Overlapped)

-----------------------------------------------------------------------------
(* The sequence holds the rows of a..b that go to partition p, in their order.      *)
SharesRows(share, a, b, p) ==
    /\ share \in Seq(Rows)
    /\ \A i \in DOMAIN share : \E k \in a..b :
         /\ share[i] = Archive[k] /\ PartitionOf(Archive[k].station) = p
         /\ \A l \in a..(k - 1) : PartitionOf(Archive[l].station) = p =>
              \E j \in 1..(i - 1) : share[j] = Archive[l]
    /\ \A k \in a..b : PartitionOf(Archive[k].station) = p =>
         \E i \in DOMAIN share : share[i] = Archive[k]

(* What the replay relies on: the archive is sorted, and the share of a partition  *)
(* keeps the order.                                                          *)
InOrder ==
    /\ Archive \in Seq(Rows) /\ Archive # << >>
    /\ DayEnds \subseteq Nat /\ Len(Archive) \in DayEnds
    /\ \A k, l \in DOMAIN Archive :
         (k < l /\ Archive[k].station = Archive[l].station) => Less(Archive[k], Archive[l])
    /\ \A p \in Partitions, a \in DOMAIN Archive, b \in 0..Len(Archive) :
         SharesRows(Share(a, b, p), a, b, p)

(* One station has no two lines of one microsecond.                           *)
TimesTell == \A m, n \in Rows : (m.station = n.station /\ m.ts = n.ts) => m = n

-----------------------------------------------------------------------------
(* The strengthening under which BackfillComplete is inductive.                *)

(* From start on, records t of a partition have every row of a station before a later *)
(* one, and all of the first n rows of the archive that go there.                   *)
Complete(t, n, p, start) ==
    /\ \A j \in (start + 1)..Len(t), m \in Rows :
         (m.station = t[j].station /\ Less(m, t[j])) => \E i \in (start + 1)..(j - 1) : t[i] = m
    /\ \A k \in 1..n : PartitionOf(Archive[k].station) = p =>
         \E i \in (start + 1)..Len(t) : t[i] = Archive[k]

ReplayInv ==
    /\ phase = "replay" => next < Len(Archive)
    /\ phase \in {"waitFold", "waitHistory", "remove"} => next = Len(Archive)
    /\ \A p \in Partitions :
         /\ \A j \in DOMAIN topic[p] : PartitionOf(topic[p][j].station) = p
         /\ Complete(topic[p], next, p, 0)

Handled == folded \cup {u.event : u \in unflushed}

(* What the shadow has read is folded, as itself or in an earlier copy.               *)
ReadInv ==
    /\ ~up => unflushed = {} /\ \A p \in Partitions : read[p] = 0
    /\ \A p \in Partitions :
         /\ read[p] <= Len(topic[p])
         /\ \A i \in 1..read[p] : topic[p][i] \in Handled

(* A mark is that of a row that has been read.                                       *)
MarkInv ==
    \A s \in Stations : mark[s] # None =>
       \E r \in Rows : /\ r.station = s /\ mark[s] = [ts |-> r.ts, fp |-> r.fp]
                       /\ \E j \in 1..read[PartitionOf(s)] : topic[PartitionOf(s)][j] = r

(* What the group has committed is on the topic of traces, and what is not sent is      *)
(* not committed.                                                              *)
CommitInv ==
    /\ \A p \in Partitions :
         /\ p \notin opened => read[p] = 0
         /\ committed[p] = None => p \notin opened \/ read[p] > 0
         /\ committed[p] # None =>
              /\ committed[p] <= Len(topic[p])
              /\ \A i \in 1..committed[p] : topic[p][i] \in folded
              /\ up => p \in opened /\ committed[p] <= read[p]
    /\ unflushed # {} => \E p \in opened : committed[p] # read[p]

(* Once the first wait is over all is folded and nothing is left to send, and once the   *)
(* second is, one trace of a partition is left to store.                            *)
DoneInv ==
    /\ (phase \in {"waitHistory", "remove"} /\ ~skipped) =>
         /\ \A p \in Partitions : topic[p] = << >> \/ committed[p] = Len(topic[p])
         /\ Rows \subseteq folded /\ unflushed = {}
    /\ (phase = "remove" /\ ~skipped) => \A q \in Partitions : \A j, k \in Unread(q) : j = k

BackfillInv == TypeOK /\ ReplayInv /\ ReadInv /\ MarkInv /\ CommitInv /\ DoneInv

-----------------------------------------------------------------------------
(* The strengthening under which TracesWhole is inductive.                       *)

(* Marked: the shadow's mark of the station is not older than the row.             *)
Marked(m) == mark[m.station] # None /\ m.ts <= mark[m.station].ts

(* An aircraft's life has the rows of each station up to its mark, unless it expired.   *)
LifeInv ==
    \A s \in Stations, i \in Icaos \ forgotten :
       {m \in aircraft[i].life : m.station = s} = {m \in Rows : m.station = s /\ m.icao = i /\ Marked(m)}

(* There is a start from which the partition is complete and the shadow has read it.   *)
StartInv ==
    \A p \in Partitions : \E start \in 0..read[p] :
       /\ Complete(topic[p], next, p, start)
       /\ \A j \in (start + 1)..read[p] : Marked(topic[p][j])

TraceInv ==
    /\ \A t \in table : t.forgot \/ Whole(t)
    /\ \A q \in Partitions : \A k \in Unread(q) : ahead[q][k].forgot \/ Whole(ahead[q][k])
    /\ \A u \in unflushed : u.trace # None => u.trace.forgot \/ Whole(u.trace)

WholeInv == ~headless => TraceInv /\ (up => LifeInv /\ StartInv)
=============================================================================
