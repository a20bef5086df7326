------------------------------ MODULE Processor ------------------------------
(***************************************************************************)
(* The Flink job: decode events.raw, drop a station's re-deliveries, fold    *)
(* each aircraft's messages into a snapshot, publish snapshots and traces,   *)
(* and sweep: republish what was heard but unchanged, tombstone the silent.  *)
(*                                                                         *)
(* A record of a partition is a parsed line [station, ts, icao, fp, fields]: *)
(* fp is StationDedup's fingerprint and fields maps the payload fields the   *)
(* message carries to values (0 is null).  Garbage is a record Decode drops. *)
(* Event time is counted in ticks, TicksPerMilli to a millisecond.           *)
(*                                                                         *)
(* One record passes through all operators in one step: the shuffles between *)
(* them can only change the order in which different stations' records meet, *)
(* and that order is arbitrary here.  A checkpoint saves operator state,      *)
(* source offsets and what the sinks have written; a restore goes back to it *)
(* (the sinks' open transaction is aborted with the rest).                   *)
(***************************************************************************)
EXTENDS Aircraft, Sequences, FiniteSets

CONSTANTS
    Partitions, Topic,      \* partition -> sequence of records
    Stations, Icaos,
    Prints,                 \* StationDedup's fingerprints
    Garbage,                \* a record that does not parse
    NoIcao,                 \* a parsed line that names no aircraft
    NoMark, NoAircraft,     \* null state
    Never, Tombstone,       \* no record / a null record for a key of aircraft.state
    Sweep,                  \* SWEEP_MS
    MaxClock, MaxCrashes    \* bounds on processing time and on restarts

ASSUME ProcessorAssumption ==
    /\ Sweep \in Nat \ {0} /\ MaxClock \in Nat /\ MaxCrashes \in Nat
    /\ NoIcao \notin Icaos

IsMessage(m) ==
    /\ m.station \in Stations /\ m.ts \in Nat \ {0}
    /\ m.icao \in Icaos \cup {NoIcao} /\ m.fp \in Prints
    /\ \A f \in DOMAIN m.fields : f \in Fields /\ m.fields[f] \in Nat \ {0}

ASSUME TopicAssumption ==
    \A p \in Partitions :
       /\ Len(Topic[p]) \in Nat /\ DOMAIN Topic[p] = 1..Len(Topic[p])
       /\ \A k \in DOMAIN Topic[p] : Topic[p][k] = Garbage \/ IsMessage(Topic[p][k])

(* The gateway produces with the station's id as the key: one partition each.  *)
FromStation(p, k, s) == Topic[p][k] # Garbage /\ Topic[p][k].station = s
ASSUME KeyAssumption ==
    \A p, q \in Partitions : \A k \in DOMAIN Topic[p], l \in DOMAIN Topic[q] :
       (Topic[p][k] # Garbage /\ FromStation(q, l, Topic[p][k].station)) => p = q

VARIABLES
    up, clock, crashes,
    offset,         \* records read, per partition
    mark,           \* StationDedup: newest event seen, per station
    aircraft,       \* StateFunction: state per ICAO
    timers,         \* registered processing-time timers, [icao, at]
    stateOut,       \* aircraft.state, compacted: newest record per ICAO
    traces,         \* aircraft.state_history: the traces written
    folded,         \* history: positions of the records folded so far
    checkpoint      \* the newest completed checkpoint

jobVars == <<offset, mark, aircraft, timers, stateOut, traces, folded>>
vars == <<up, clock, crashes, jobVars, checkpoint>>

Record(x) == Topic[x[1]][x[2]]

SnapshotType == [value : [AllFields -> Nat], first : Nat, last : Nat,
                 stations : SUBSET Stations, messages : Nat]
AircraftType == [value : [AllFields -> Nat], fieldTs : [AllFields -> Nat],
                 first : Nat, last : Nat, stations : SUBSET Stations, messages : Nat,
                 dirty : BOOLEAN, heard : Nat, life : SUBSET (Partitions \X Nat)]
JobType == [offset   : [Partitions -> Nat],
            mark     : [Stations -> [ts : Nat, fp : Prints] \cup {NoMark}],
            aircraft : [Icaos -> AircraftType \cup {NoAircraft}],
            timers   : SUBSET [icao : Icaos, at : Nat],
            stateOut : [Icaos -> SnapshotType \cup {Never, Tombstone}],
            traces   : SUBSET [station : Stations, ts : Nat, icao : Icaos, snap : SnapshotType],
            folded   : SUBSET (Partitions \X Nat)]

ASSUME NullAssumption ==
    /\ NoAircraft \notin AircraftType
    /\ {Never, Tombstone} \cap SnapshotType = {}
    /\ NoMark \notin [ts : Nat, fp : Prints]

Job == [offset |-> offset, mark |-> mark, aircraft |-> aircraft, timers |-> timers,
        stateOut |-> stateOut, traces |-> traces, folded |-> folded]

Init ==
    /\ up = TRUE /\ clock = 0 /\ crashes = 0
    /\ offset = [p \in Partitions |-> 0]
    /\ mark = [s \in Stations |-> NoMark]
    /\ aircraft = [i \in Icaos |-> NoAircraft]
    /\ timers = {}
    /\ stateOut = [i \in Icaos |-> Never]
    /\ traces = {} /\ folded = {}
    /\ checkpoint = Job

-----------------------------------------------------------------------------
(* The operators.                                                          *)

(* Mutants: the newest event itself is not compared; its whole tick is dropped.*)
RepeatStrictlyOlder(m) ==
    mark[m.station] # NoMark /\ m.ts < mark[m.station].ts
RepeatOfInstant(m) ==
    mark[m.station] # NoMark /\ m.ts <= mark[m.station].ts

(* StationDedup: at or before the newest seen from the station.             *)
Repeat(m) ==
    /\ mark[m.station] # NoMark
    /\ \/ m.ts < mark[m.station].ts
       \/ m.ts = mark[m.station].ts /\ m.fp = mark[m.station].fp

(* The next record of a partition, if there is one, and its arrival.        *)
Upcoming(p) == {Topic[p][k] : k \in {offset[p] + 1} \cap DOMAIN Topic[p]}

Arrives(p) ==
    /\ up
    /\ offset' = [offset EXCEPT ![p] = @ + 1]
    /\ UNCHANGED <<up, clock, crashes, checkpoint>>

(* Decode logs and drops what does not parse.                               *)
Skip(p) ==
    /\ Garbage \in Upcoming(p)
    /\ Arrives(p)
    /\ UNCHANGED <<mark, aircraft, timers, stateOut, traces, folded>>

(* StationDedup drops a repeat.                                             *)
Drop(p) ==
    \E m \in Upcoming(p) \ {Garbage} :
       /\ Arrives(p)
       /\ Repeat(m)
       /\ UNCHANGED <<mark, aircraft, timers, stateOut, traces, folded>>

Marked(m) == mark' = [mark EXCEPT ![m.station] = [ts |-> m.ts, fp |-> m.fp]]

(* A line without an ICAO goes to events.decoded and no further.            *)
PassBy(p) ==
    \E m \in Upcoming(p) \ {Garbage} :
       /\ Arrives(p)
       /\ ~Repeat(m) /\ m.icao = NoIcao
       /\ Marked(m)
       /\ UNCHANGED <<aircraft, timers, stateOut, traces, folded>>

(* Mutant: every message registers a timer.                                 *)
RegisteredEachTime(i) == {[icao |-> i, at |-> clock + Sweep]}

(* The first message of an aircraft starts its timer chain.                 *)
Registered(i) ==
    {[icao |-> i, at |-> n] : n \in IF aircraft[i] = NoAircraft THEN {clock + Sweep} ELSE {}}

(* StateFunction.processElement: a first message starts the timer chain, a   *)
(* change publishes the snapshot and its trace.                             *)
Fold(p) ==
    \E m \in Upcoming(p) \ {Garbage} :
       /\ Arrives(p)
       /\ ~Repeat(m) /\ m.icao # NoIcao
       /\ Marked(m)
       /\ LET x   == <<p, offset[p] + 1>>
              new == aircraft[m.icao] = NoAircraft
              a   == Apply(IF new THEN Create ELSE aircraft[m.icao], m, x, clock)
          IN  /\ aircraft' = [aircraft EXCEPT ![m.icao] = a]
              /\ timers' = timers \cup Registered(m.icao)
              /\ stateOut' = IF a.dirty THEN stateOut
                                        ELSE [stateOut EXCEPT ![m.icao] = Snapshot(a)]
              /\ traces' = IF a.dirty THEN traces
                           ELSE traces \cup {[station |-> m.station, ts |-> m.ts,
                                              icao |-> m.icao, snap |-> Snapshot(a)]}
              /\ folded' = folded \cup {x}

(* StateFunction.onTimer; a timer may fire late, but in order.              *)
OnTimer(t) ==
    /\ up
    /\ t.at <= clock
    /\ \A u \in timers : u.icao = t.icao => t.at <= u.at
    /\ LET i    == t.icao
           a    == aircraft[i]
           live == a # NoAircraft
           gone == live /\ Expired(a, t.at)
           owed == live /\ ~gone /\ a.dirty
       IN  /\ aircraft' = [aircraft EXCEPT ![i] = IF gone THEN NoAircraft
                                                  ELSE IF owed THEN [a EXCEPT !.dirty = FALSE]
                                                  ELSE a]
           /\ stateOut' = [stateOut EXCEPT ![i] = IF gone THEN Tombstone
                                                  ELSE IF owed THEN Snapshot(a)
                                                  ELSE stateOut[i]]
           /\ timers' = (timers \ {t}) \cup
                        (IF live /\ ~gone THEN {[icao |-> i, at |-> t.at + Sweep]} ELSE {})
    /\ UNCHANGED <<up, clock, crashes, offset, mark, traces, folded, checkpoint>>

Tick ==
    /\ clock < MaxClock
    /\ clock' = clock + 1
    /\ UNCHANGED <<up, crashes, jobVars, checkpoint>>

TakeCheckpoint ==
    /\ up
    /\ checkpoint # Job
    /\ checkpoint' = Job
    /\ UNCHANGED <<up, clock, crashes, jobVars>>

Crash ==
    /\ up
    /\ crashes < MaxCrashes
    /\ up' = FALSE
    /\ crashes' = crashes + 1
    /\ UNCHANGED <<clock, jobVars, checkpoint>>

Restore ==
    /\ ~up
    /\ up' = TRUE
    /\ offset' = checkpoint.offset /\ mark' = checkpoint.mark
    /\ aircraft' = checkpoint.aircraft /\ timers' = checkpoint.timers
    /\ stateOut' = checkpoint.stateOut /\ traces' = checkpoint.traces
    /\ folded' = checkpoint.folded
    /\ UNCHANGED <<clock, crashes, checkpoint>>

Next ==
    \/ \E p \in Partitions : Skip(p) \/ Drop(p) \/ PassBy(p) \/ Fold(p)
    \/ \E t \in timers : OnTimer(t)
    \/ Tick \/ TakeCheckpoint \/ Crash \/ Restore

Spec == Init /\ [][Next]_vars

-----------------------------------------------------------------------------
TypeOK ==
    /\ up \in BOOLEAN /\ clock \in Nat /\ crashes \in Nat
    /\ Job \in JobType
    /\ checkpoint \in JobType

(* A station's re-sent batch is folded once, also when a restore reads part    *)
(* of the topic again.  The one exception: the mark holds one fingerprint, so  *)
(* a line gets past it again if between the two copies the station sent        *)
(* another line of the same microsecond.                                    *)
EventsFoldedOnce ==
    \A x, y \in folded :
       (Record(x) = Record(y) /\ x[2] < y[2]) =>
          \E k \in (x[2] + 1)..(y[2] - 1) :
             LET z == Topic[x[1]][k]
             IN  z # Garbage /\ z.station = Record(x).station /\ z.ts = Record(x).ts
                 /\ z.fp # Record(x).fp

(* ... and nothing that is not a repeat is dropped: every record read that   *)
(* names an aircraft has been folded, as itself or as an earlier copy.       *)
NothingDropped ==
    \A p \in Partitions : \A k \in 1..offset[p] :
       (Topic[p][k] # Garbage /\ Topic[p][k].icao # NoIcao)
          => \E y \in folded : Record(y) = Topic[p][k]

(* A stale backlog of one station cannot regress what another has reported:  *)
(* every field holds the value of a newest message that carried it, in       *)
(* whatever order the stations' messages were folded.                       *)
NewestWins ==
    \A i \in Icaos : aircraft[i] # NoAircraft =>
       \A f \in AllFields :
          LET setters == {x \in aircraft[i].life : f \in Carries(Record(x))}
          IN  IF setters = {} THEN aircraft[i].value[f] = 0
              ELSE \E x \in setters :
                      /\ aircraft[i].value[f] = Carried(Record(x), f)
                      /\ \A y \in setters : Record(y).ts <= Record(x).ts

(* What the map reads is what the job knows: the newest record of a key is   *)
(* the tombstone of a forgotten aircraft, or the snapshot of a live one,     *)
(* whose payload is current and whose times and counts are current unless a  *)
(* sweep still owes them.  A sweep may also owe the first snapshot, when all  *)
(* messages so far carried nothing.                                        *)
Current(ac, out) ==
    \A i \in Icaos :
       IF ac[i] = NoAircraft THEN out[i] \in {Never, Tombstone}
       ELSE /\ IF out[i] \in {Never, Tombstone}
                 THEN ac[i].dirty /\ ac[i].value = Create.value
                 ELSE out[i].value = ac[i].value
            /\ ~ac[i].dirty => out[i] = Snapshot(ac[i])
StateTopicCurrent == Current(aircraft, stateOut)

(* One timer chain per live aircraft, and none for a forgotten one; its next *)
(* check is never later than expireMs plus one sweep after the aircraft was  *)
(* last heard, so silence is noticed by then.  Timers survive late firing    *)
(* and restores.                                                           *)
Armed(ac, tm) ==
    \A i \in Icaos :
       LET chain == {t \in tm : t.icao = i}
       IN  IF ac[i] = NoAircraft THEN chain = {}
           ELSE \E t \in chain : /\ chain = {t}
                                 /\ t.at <= ac[i].heard + Expire + Sweep
SweepArmed == Armed(aircraft, timers)

(* An aircraft is forgotten only after more than expireMs of silence; a      *)
(* restore may go back to before it was heard.                              *)
ForgottenOnlyWhenSilent ==
    [][\A i \in Icaos :
          (up /\ aircraft[i] # NoAircraft /\ aircraft'[i] = NoAircraft)
             => clock - aircraft[i].heard > Expire]_vars

-----------------------------------------------------------------------------
(* The strengthening under which the sweep's invariants are inductive: a      *)
(* checkpoint is as sound as the running job, and no one was heard later      *)
(* than now.                                                               *)
HeardPast(ac) == \A i \in Icaos : ac[i] # NoAircraft => ac[i].heard <= clock

(* The running job and its newest checkpoint are both sound: the inductive    *)
(* invariant behind SweepArmed and StateTopicCurrent.                       *)
SweepInv ==
    /\ HeardPast(aircraft) /\ HeardPast(checkpoint.aircraft)
    /\ SweepArmed /\ Armed(checkpoint.aircraft, checkpoint.timers)
    /\ StateTopicCurrent /\ Current(checkpoint.aircraft, checkpoint.stateOut)

(* Every record read is no newer than its station's mark, and the mark is that   *)
(* of a record read after which its tick saw no other fingerprint.            *)
MarkInv(off, mk) ==
    /\ \A p \in Partitions : 1..off[p] \subseteq DOMAIN Topic[p]
    /\ \A s \in Stations, p \in Partitions : \A k \in 1..off[p] :
          FromStation(p, k, s) => mk[s] # NoMark /\ Topic[p][k].ts <= mk[s].ts
    /\ \A s \in Stations : mk[s] # NoMark =>
          \E p \in Partitions : \E n \in 1..off[p] :
             /\ FromStation(p, n, s) /\ Topic[p][n].ts = mk[s].ts /\ Topic[p][n].fp = mk[s].fp
             /\ \A k \in (n + 1)..off[p] :
                   (FromStation(p, k, s) /\ Topic[p][k].ts = mk[s].ts) => Topic[p][k].fp = mk[s].fp

(* Positions x of records that were read and name an aircraft.               *)
Names(x, off) == x[2] \in 1..off[x[1]] /\ Record(x) # Garbage /\ Record(x).icao # NoIcao

(* Between two copies of a line that were both folded there is another line of   *)
(* the tick.                                                               *)
OnceInv(off, fo) ==
    /\ \A x \in fo : Names(x, off)
    /\ \A x, y \in fo :
          (Record(x) = Record(y) /\ x[2] < y[2]) =>
             \E k \in (x[2] + 1)..(y[2] - 1) :
                /\ FromStation(x[1], k, Record(x).station)
                /\ Topic[x[1]][k].ts = Record(x).ts /\ Topic[x[1]][k].fp # Record(x).fp

(* What was read and names an aircraft was folded.                           *)
AllFolded(off, fo) ==
    \A p \in Partitions : \A k \in 1..off[p] :
       (Topic[p][k] # Garbage /\ Topic[p][k].icao # NoIcao)
          => \E y \in fo : Record(y) = Topic[p][k]

(* A field holds the value and the millisecond of a newest message that set it.   *)
Newest(a, f) ==
    LET setters == {x \in a.life : f \in Carries(Record(x))}
    IN  IF setters = {} THEN a.value[f] = 0 /\ a.fieldTs[f] = 0
        ELSE \E x \in setters :
                /\ a.value[f] = Carried(Record(x), f)
                /\ a.fieldTs[f] = Milli(Record(x).ts)
                /\ \A y \in setters : Record(y).ts <= Record(x).ts

FieldInv(off, ac) ==
    \A i \in Icaos : ac[i] # NoAircraft =>
       /\ \A x \in ac[i].life : Names(x, off) /\ Record(x).icao = i
       /\ \A f \in AllFields : Newest(ac[i], f)

(* Again both for the running job and for its newest checkpoint.              *)
DedupInv ==
    /\ MarkInv(offset, mark) /\ MarkInv(checkpoint.offset, checkpoint.mark)
    /\ OnceInv(offset, folded) /\ OnceInv(checkpoint.offset, checkpoint.folded)
FoldedInv == AllFolded(offset, folded) /\ AllFolded(checkpoint.offset, checkpoint.folded)
NewestInv == FieldInv(offset, aircraft) /\ FieldInv(checkpoint.offset, checkpoint.aircraft)

-----------------------------------------------------------------------------
(* What the processor relies on.                                            *)

(* A line older than one its station sent before is a repeat: what Delivery's    *)
(* RepeatsTrailNewest says of the partition, as long as the station's clock does   *)
(* not step back.  A fingerprint tells the lines of a tick apart.               *)
RepeatsTrail ==
    \A p \in Partitions : \A k \in DOMAIN Topic[p] : Topic[p][k] # Garbage =>
       \A l \in 1..(k - 1) : FromStation(p, l, Topic[p][k].station) =>
          /\ Topic[p][l].ts > Topic[p][k].ts => \E n \in 1..(k - 1) : Topic[p][n] = Topic[p][k]
          /\ (Topic[p][l].ts = Topic[p][k].ts /\ Topic[p][l].fp = Topic[p][k].fp)
                => Topic[p][l] = Topic[p][k]

(* No two stations hear one aircraft in the same millisecond: fields are compared   *)
(* by the millisecond.                                                     *)
MillisTell ==
    \A p, q \in Partitions : \A k \in DOMAIN Topic[p], l \in DOMAIN Topic[q] :
       (/\ Topic[p][k] # Garbage /\ Topic[q][l] # Garbage
        /\ Topic[p][k].icao = Topic[q][l].icao /\ Topic[p][k].icao # NoIcao
        /\ Milli(Topic[p][k].ts) = Milli(Topic[q][l].ts))
           => Topic[p][k].station = Topic[q][l].station
=============================================================================
