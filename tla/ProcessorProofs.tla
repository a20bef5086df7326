--------------------------- MODULE ProcessorProofs ---------------------------
(***************************************************************************)
(* The processor's state topic and sweep, for every topic, every sweep and    *)
(* expiry interval and any number of restarts.                             *)
(***************************************************************************)
EXTENDS Processor, TLAPS

-----------------------------------------------------------------------------
(* The fold.                                                               *)

LEMMA CarriesFacts ==
    ASSUME NEW m, IsMessage(m)
    PROVE  /\ Carries(m) \subseteq AllFields
           /\ \A f \in Carries(m) : Carried(m, f) \in Nat
BY AircraftAssumption DEF IsMessage, Carries, Carried, AllFields

LEMMA MilliType ==
    ASSUME NEW ts \in Nat PROVE Milli(ts) \in Nat
BY AircraftAssumption DEF Milli

LEMMA CreateType == Create \in AircraftType
BY DEF Create, AircraftType

(* One message turns an aircraft into an aircraft heard now, which is dirty   *)
(* exactly if its payload did not change.                                   *)
LEMMA ApplyFacts ==
    ASSUME NEW a \in AircraftType, NEW m, IsMessage(m),
           NEW x \in Partitions \X Nat, clock \in Nat
    PROVE  LET b == Apply(a, m, x, clock)
           IN  /\ b \in AircraftType
               /\ b.heard = clock
               /\ b.dirty <=> b.value = a.value
<1> DEFINE taken == Taken(a, m)
           value == [f \in AllFields |-> IF f \in taken THEN Carried(m, f) ELSE a.value[f]]
           fieldTs == [f \in AllFields |-> IF f \in taken THEN Milli(m.ts) ELSE a.fieldTs[f]]
           b == Apply(a, m, x, clock)
<1>1. taken \subseteq Carries(m)
  BY DEF Taken
<1>2. value \in [AllFields -> Nat]
  BY <1>1, CarriesFacts DEF AircraftType
<1>3. m.ts \in Nat /\ m.station \in Stations
  BY DEF IsMessage
<1>4. fieldTs \in [AllFields -> Nat]
  BY <1>3, MilliType DEF AircraftType
<1>5. /\ b.value = value /\ b.fieldTs = fieldTs /\ b.heard = clock
      /\ b.dirty = (value = a.value)
  BY DEF Apply, Unchanged
<1>6. /\ (IF a.first = 0 \/ m.ts < a.first THEN m.ts ELSE a.first) \in Nat
      /\ (IF m.ts > a.last THEN m.ts ELSE a.last) \in Nat
      /\ a.stations \cup {m.station} \subseteq Stations
      /\ a.messages + 1 \in Nat
      /\ a.life \cup {x} \subseteq Partitions \X Nat
  BY <1>3 DEF AircraftType
<1> HIDE DEF value, fieldTs, taken
<1>7. b = [value |-> value, fieldTs |-> fieldTs,
           first |-> IF a.first = 0 \/ m.ts < a.first THEN m.ts ELSE a.first,
           last |-> IF m.ts > a.last THEN m.ts ELSE a.last,
           stations |-> a.stations \cup {m.station},
           messages |-> a.messages + 1,
           dirty |-> (value = a.value), heard |-> clock, life |-> a.life \cup {x}]
  BY DEF Apply, Unchanged, value, fieldTs, taken
<1>8. b \in AircraftType
  BY <1>2, <1>4, <1>6, <1>7 DEF AircraftType
<1> QED BY <1>5, <1>8

LEMMA SnapshotFacts ==
    ASSUME NEW a \in AircraftType
    PROVE  Snapshot(a) \in SnapshotType /\ Snapshot(a).value = a.value
BY DEF AircraftType, SnapshotType, Snapshot

LEMMA UpcomingFacts ==
    ASSUME NEW p \in Partitions, NEW m \in Upcoming(p) \ {Garbage}
    PROVE  IsMessage(m)
BY TopicAssumption DEF Upcoming

-----------------------------------------------------------------------------
(* What a fold does, once for all the proofs below.                        *)

LEMMA FoldFacts ==
    ASSUME TypeOK, NEW p \in Partitions, Fold(p)
    PROVE  \E i \in Icaos, a, b \in AircraftType :
              /\ aircraft[i] = NoAircraft => a = Create
              /\ aircraft[i] # NoAircraft => a = aircraft[i]
              /\ b.heard = clock
              /\ b.dirty <=> b.value = a.value
              /\ aircraft' = [aircraft EXCEPT ![i] = b]
              /\ timers' = timers \cup (IF aircraft[i] = NoAircraft
                                          THEN {[icao |-> i, at |-> clock + Sweep]} ELSE {})
              /\ stateOut' = IF b.dirty THEN stateOut
                                        ELSE [stateOut EXCEPT ![i] = Snapshot(b)]
              /\ UNCHANGED <<up, clock, crashes, checkpoint>>
              /\ offset' = [offset EXCEPT ![p] = @ + 1]
              /\ folded' = folded \cup {<<p, offset[p] + 1>>}
              /\ \E m : /\ IsMessage(m)
                        /\ mark' = [mark EXCEPT ![m.station] = [ts |-> m.ts, fp |-> m.fp]]
                        /\ traces' = IF b.dirty THEN traces
                                     ELSE traces \cup {[station |-> m.station, ts |-> m.ts,
                                                        icao |-> i, snap |-> Snapshot(b)]}
<1> PICK m \in Upcoming(p) \ {Garbage} :
      /\ Arrives(p)
      /\ ~Repeat(m) /\ m.icao # NoIcao
      /\ Marked(m)
      /\ LET x   == <<p, offset[p] + 1>>
             new == aircraft[m.icao] = NoAircraft
             a   == Apply(IF new THEN Create ELSE aircraft[m.icao], m, x, clock)
         IN  /\ aircraft' = [aircraft EXCEPT ![m.icao] = a]
             /\ timers' = timers \cup Registered(m.icao)
             /\ stateOut' = IF a.dirty THEN stateOut
                                       ELSE [stateOut EXCEPT ![m.icao] = Snapshot(a)]
             /\ traces' = IF a.dirty THEN traces
                          ELSE traces \cup {[station |-> m.station, ts |-> m.ts,
                                             icao |-> m.icao, snap |-> Snapshot(a)]}
             /\ folded' = folded \cup {x}
  BY DEF Fold
<1>1. IsMessage(m)
  BY UpcomingFacts
<1>2. m.icao \in Icaos
  BY <1>1 DEF IsMessage
<1> DEFINE i == m.icao
           x == <<p, offset[p] + 1>>
           a == IF aircraft[i] = NoAircraft THEN Create ELSE aircraft[i]
           b == Apply(a, m, x, clock)
<1>3. x \in Partitions \X Nat /\ clock \in Nat /\ aircraft[i] \in AircraftType \cup {NoAircraft}
  BY <1>2 DEF TypeOK, JobType, Job
<1>4. a \in AircraftType
  BY <1>3, CreateType
<1> HIDE DEF a
<1>5. b \in AircraftType /\ b.heard = clock /\ (b.dirty <=> b.value = a.value)
  BY <1>1, <1>3, <1>4, ApplyFacts
<1>6. /\ aircraft' = [aircraft EXCEPT ![i] = b]
      /\ timers' = timers \cup (IF aircraft[i] = NoAircraft
                                   THEN {[icao |-> i, at |-> clock + Sweep]} ELSE {})
      /\ stateOut' = IF b.dirty THEN stateOut ELSE [stateOut EXCEPT ![i] = Snapshot(b)]
      /\ traces' = IF b.dirty THEN traces
                   ELSE traces \cup {[station |-> m.station, ts |-> m.ts,
                                      icao |-> i, snap |-> Snapshot(b)]}
      /\ folded' = folded \cup {x}
  BY DEF a, Registered
<1>7. /\ aircraft[i] = NoAircraft => a = Create
      /\ aircraft[i] # NoAircraft => a = aircraft[i]
  BY DEF a
<1>8. /\ offset' = [offset EXCEPT ![p] = @ + 1]
      /\ UNCHANGED <<up, clock, crashes, checkpoint>>
      /\ mark' = [mark EXCEPT ![m.station] = [ts |-> m.ts, fp |-> m.fp]]
  BY DEF Arrives, Marked
<1> HIDE DEF b, x
<1> QED BY <1>1, <1>2, <1>4, <1>5, <1>6, <1>7, <1>8 DEF x

(* What a timer does: forget, republish or go on, and keep the chain going   *)
(* exactly if the aircraft stays.                                          *)
LEMMA TimerFacts ==
    ASSUME TypeOK, NEW t \in timers, OnTimer(t)
    PROVE  LET i == t.icao
               a == aircraft[i]
           IN  /\ i \in Icaos /\ t.at \in Nat /\ t.at <= clock
               /\ UNCHANGED <<up, clock, crashes, offset, mark, traces, folded, checkpoint>>
               /\ \/ /\ a = NoAircraft
                     /\ aircraft' = aircraft /\ stateOut' = stateOut
                     /\ timers' = timers \ {t}
                  \/ /\ a # NoAircraft /\ Expired(a, t.at)
                     /\ aircraft' = [aircraft EXCEPT ![i] = NoAircraft]
                     /\ stateOut' = [stateOut EXCEPT ![i] = Tombstone]
                     /\ timers' = timers \ {t}
                  \/ /\ a # NoAircraft /\ ~Expired(a, t.at) /\ a.dirty
                     /\ aircraft' = [aircraft EXCEPT ![i] = [a EXCEPT !.dirty = FALSE]]
                     /\ stateOut' = [stateOut EXCEPT ![i] = Snapshot(a)]
                     /\ timers' = (timers \ {t}) \cup {[icao |-> i, at |-> t.at + Sweep]}
                  \/ /\ a # NoAircraft /\ ~Expired(a, t.at) /\ ~a.dirty
                     /\ aircraft' = aircraft /\ stateOut' = stateOut
                     /\ timers' = (timers \ {t}) \cup {[icao |-> i, at |-> t.at + Sweep]}
<1>1. /\ aircraft \in [Icaos -> AircraftType \cup {NoAircraft}]
      /\ stateOut \in [Icaos -> SnapshotType \cup {Never, Tombstone}]
      /\ t.icao \in Icaos /\ t.at \in Nat
  BY DEF TypeOK, JobType, Job
<1> QED BY <1>1 DEF OnTimer

-----------------------------------------------------------------------------
(* Type correctness.                                                       *)

LEMMA TypeInit == Init => TypeOK
BY DEF Init, TypeOK, Job, JobType

LEMMA TypeStep == TypeOK /\ [Next]_vars => TypeOK'
<1> SUFFICES ASSUME TypeOK, [Next]_vars PROVE TypeOK'
  OBVIOUS
<1>t. /\ offset \in [Partitions -> Nat]
      /\ mark \in [Stations -> [ts : Nat, fp : Prints] \cup {NoMark}]
      /\ aircraft \in [Icaos -> AircraftType \cup {NoAircraft}]
      /\ timers \subseteq [icao : Icaos, at : Nat]
      /\ stateOut \in [Icaos -> SnapshotType \cup {Never, Tombstone}]
      /\ traces \subseteq [station : Stations, ts : Nat, icao : Icaos, snap : SnapshotType]
      /\ folded \subseteq Partitions \X Nat
      /\ up \in BOOLEAN /\ clock \in Nat /\ crashes \in Nat /\ checkpoint \in JobType
      /\ Sweep \in Nat
  BY ProcessorAssumption, AircraftAssumption DEF TypeOK, JobType, Job
<1>j. ASSUME /\ offset' \in [Partitions -> Nat]
             /\ mark' \in [Stations -> [ts : Nat, fp : Prints] \cup {NoMark}]
             /\ aircraft' \in [Icaos -> AircraftType \cup {NoAircraft}]
             /\ timers' \subseteq [icao : Icaos, at : Nat]
             /\ stateOut' \in [Icaos -> SnapshotType \cup {Never, Tombstone}]
             /\ traces' \subseteq [station : Stations, ts : Nat, icao : Icaos, snap : SnapshotType]
             /\ folded' \subseteq Partitions \X Nat
      PROVE  Job' \in JobType
  BY <1>j DEF Job, JobType
<1>1. ASSUME NEW p \in Partitions, Skip(p) \/ Drop(p) PROVE TypeOK'
  <2>1. UNCHANGED <<mark, aircraft, timers, stateOut, traces, folded, up, clock, crashes, checkpoint>>
    BY <1>1 DEF Skip, Drop, Arrives
  <2>2. offset' = [offset EXCEPT ![p] = @ + 1]
    BY <1>1 DEF Skip, Drop, Arrives
  <2>3. offset' \in [Partitions -> Nat]
    BY <1>t, <2>2
  <2> QED BY <1>t, <1>j, <2>1, <2>3 DEF TypeOK
<1>2. ASSUME NEW p \in Partitions, PassBy(p) PROVE TypeOK'
  <2> PICK m \in Upcoming(p) \ {Garbage} : Arrives(p) /\ Marked(m)
    BY <1>2 DEF PassBy
  <2>1. IsMessage(m)
    BY UpcomingFacts
  <2>2. mark' \in [Stations -> [ts : Nat, fp : Prints] \cup {NoMark}]
    BY <1>t, <2>1 DEF Marked, IsMessage
  <2>3. offset' \in [Partitions -> Nat]
    BY <1>t DEF Arrives
  <2> QED BY <1>2, <1>t, <1>j, <2>2, <2>3 DEF PassBy, Arrives, TypeOK
<1>3. ASSUME NEW p \in Partitions, Fold(p) PROVE TypeOK'
  <2> PICK i \in Icaos, a \in AircraftType, b \in AircraftType :
        /\ aircraft' = [aircraft EXCEPT ![i] = b]
        /\ timers' = timers \cup (IF aircraft[i] = NoAircraft
                                    THEN {[icao |-> i, at |-> clock + Sweep]} ELSE {})
        /\ stateOut' = IF b.dirty THEN stateOut ELSE [stateOut EXCEPT ![i] = Snapshot(b)]
        /\ UNCHANGED <<up, clock, crashes, checkpoint>>
        /\ offset' = [offset EXCEPT ![p] = @ + 1]
        /\ folded' = folded \cup {<<p, offset[p] + 1>>}
        /\ \E m : /\ IsMessage(m)
                  /\ mark' = [mark EXCEPT ![m.station] = [ts |-> m.ts, fp |-> m.fp]]
                  /\ traces' = IF b.dirty THEN traces
                               ELSE traces \cup {[station |-> m.station, ts |-> m.ts,
                                                  icao |-> i, snap |-> Snapshot(b)]}
    BY <1>3, FoldFacts
  <2> PICK m : /\ IsMessage(m)
               /\ mark' = [mark EXCEPT ![m.station] = [ts |-> m.ts, fp |-> m.fp]]
               /\ traces' = IF b.dirty THEN traces
                            ELSE traces \cup {[station |-> m.station, ts |-> m.ts,
                                               icao |-> i, snap |-> Snapshot(b)]}
    OBVIOUS
  <2>1. Snapshot(b) \in SnapshotType
    BY SnapshotFacts
  <2>2. m.station \in Stations /\ m.ts \in Nat /\ m.fp \in Prints
    BY DEF IsMessage
  <2>3. offset' \in [Partitions -> Nat] /\ folded' \subseteq Partitions \X Nat
    BY <1>t
  <2>4. mark' \in [Stations -> [ts : Nat, fp : Prints] \cup {NoMark}]
    BY <1>t, <2>2
  <2>5. aircraft' \in [Icaos -> AircraftType \cup {NoAircraft}]
    BY <1>t
  <2>6. timers' \subseteq [icao : Icaos, at : Nat]
    BY <1>t
  <2>7. stateOut' \in [Icaos -> SnapshotType \cup {Never, Tombstone}]
    BY <1>t, <2>1
  <2>8. traces' \subseteq [station : Stations, ts : Nat, icao : Icaos, snap : SnapshotType]
    BY <1>t, <2>1, <2>2
  <2> QED BY <1>t, <1>j, <2>3, <2>4, <2>5, <2>6, <2>7, <2>8 DEF TypeOK
<1>4. ASSUME NEW t \in timers, OnTimer(t) PROVE TypeOK'
  <2> DEFINE i == t.icao
             a == aircraft[i]
  <2>1. /\ i \in Icaos /\ t.at \in Nat
        /\ UNCHANGED <<up, clock, crashes, offset, mark, traces, folded, checkpoint>>
    BY <1>4, TimerFacts
  <2>2. timers' \subseteq [icao : Icaos, at : Nat]
    <3>1. t.at + Sweep \in Nat
      BY <1>t, <2>1
    <3>2. [icao |-> i, at |-> t.at + Sweep] \in [icao : Icaos, at : Nat]
      BY <2>1, <3>1
    <3>3. timers' \subseteq timers \cup {[icao |-> i, at |-> t.at + Sweep]}
      BY <1>4 DEF OnTimer
    <3> QED BY <1>t, <3>2, <3>3
  <2>3. aircraft' \in [Icaos -> AircraftType \cup {NoAircraft}]
    <3>1. a \in AircraftType => [a EXCEPT !.dirty = FALSE] \in AircraftType
      BY DEF AircraftType
    <3>2. a \in AircraftType \cup {NoAircraft}
      BY <1>t, <2>1
    <3> QED BY <1>4, <1>t, <2>1, <3>1, <3>2, TimerFacts
  <2>4. stateOut' \in [Icaos -> SnapshotType \cup {Never, Tombstone}]
    <3>1. a # NoAircraft => Snapshot(a) \in SnapshotType
      BY <1>t, <2>1, SnapshotFacts
    <3>2. \/ stateOut' = stateOut
          \/ stateOut' = [stateOut EXCEPT ![i] = Tombstone]
          \/ a # NoAircraft /\ stateOut' = [stateOut EXCEPT ![i] = Snapshot(a)]
      BY <1>4, TimerFacts
    <3> QED BY <1>t, <2>1, <3>1, <3>2
  <2> QED BY <1>t, <1>j, <2>1, <2>2, <2>3, <2>4 DEF TypeOK
<1>5. CASE Tick
  BY <1>5, <1>t, <1>j DEF Tick, jobVars, TypeOK
<1>9. CASE Crash
  <2>1. up' \in BOOLEAN
    BY <1>9, Zenon DEF Crash
  <2>2. crashes' \in Nat
    BY <1>9, <1>t DEF Crash
  <2>3. UNCHANGED <<clock, offset, mark, aircraft, timers, stateOut, traces, folded, checkpoint>>
    BY <1>9, Zenon DEF Crash, jobVars
  <2> QED BY <1>t, <1>j, <2>1, <2>2, <2>3 DEF TypeOK
<1>6. CASE TakeCheckpoint
  BY <1>6, <1>t, <1>j DEF TakeCheckpoint, jobVars, TypeOK
<1>7. CASE Restore
  <2>1. /\ checkpoint.offset \in [Partitions -> Nat]
        /\ checkpoint.mark \in [Stations -> [ts : Nat, fp : Prints] \cup {NoMark}]
        /\ checkpoint.aircraft \in [Icaos -> AircraftType \cup {NoAircraft}]
        /\ checkpoint.timers \subseteq [icao : Icaos, at : Nat]
        /\ checkpoint.stateOut \in [Icaos -> SnapshotType \cup {Never, Tombstone}]
        /\ checkpoint.traces \subseteq [station : Stations, ts : Nat, icao : Icaos, snap : SnapshotType]
        /\ checkpoint.folded \subseteq Partitions \X Nat
    BY <1>t DEF JobType
  <2> QED BY <1>7, <1>t, <1>j, <2>1 DEF Restore, TypeOK
<1>8. CASE UNCHANGED vars
  BY <1>8, <1>t, <1>j DEF vars, jobVars, TypeOK
<1> QED BY <1>1, <1>2, <1>3, <1>4, <1>5, <1>6, <1>7, <1>8, <1>9 DEF Next

(* Operator state, outputs and checkpoint always have their declared types.  *)
THEOREM TypeCorrect == Spec => []TypeOK
BY TypeInit, TypeStep, PTL DEF Spec

-----------------------------------------------------------------------------
(* The sweep.                                                              *)

LEMMA SweepInit == Init => SweepInv
BY DEF Init, Job, SweepInv, HeardPast, SweepArmed, Armed, StateTopicCurrent, Current

(* A fold keeps the job sound: the aircraft is heard now, its chain is there  *)
(* or is started, and its payload is published unless it did not change.     *)
LEMMA FoldSound ==
    ASSUME TypeOK, NEW p \in Partitions, Fold(p),
           HeardPast(aircraft), SweepArmed, StateTopicCurrent
    PROVE  HeardPast(aircraft)' /\ SweepArmed' /\ StateTopicCurrent'
<1> PICK i \in Icaos, a \in AircraftType, b \in AircraftType :
      /\ aircraft[i] = NoAircraft => a = Create
      /\ aircraft[i] # NoAircraft => a = aircraft[i]
      /\ b.heard = clock
      /\ b.dirty <=> b.value = a.value
      /\ aircraft' = [aircraft EXCEPT ![i] = b]
      /\ timers' = timers \cup (IF aircraft[i] = NoAircraft
                                  THEN {[icao |-> i, at |-> clock + Sweep]} ELSE {})
      /\ stateOut' = IF b.dirty THEN stateOut ELSE [stateOut EXCEPT ![i] = Snapshot(b)]
      /\ UNCHANGED <<up, clock, crashes, checkpoint>>
  BY FoldFacts
<1>t. /\ aircraft \in [Icaos -> AircraftType \cup {NoAircraft}]
      /\ timers \subseteq [icao : Icaos, at : Nat]
      /\ stateOut \in [Icaos -> SnapshotType \cup {Never, Tombstone}]
      /\ clock \in Nat /\ Sweep \in Nat /\ Expire \in Nat
  BY ProcessorAssumption, AircraftAssumption DEF TypeOK, JobType, Job
<1>b. b # NoAircraft /\ aircraft'[i] = b /\ \A j \in Icaos \ {i} : aircraft'[j] = aircraft[j]
  BY <1>t, NullAssumption
<1>1. HeardPast(aircraft)'
  BY <1>t, <1>b DEF HeardPast
<1>2. SweepArmed'
  <2> SUFFICES ASSUME NEW j \in Icaos
               PROVE  LET chain == {t \in timers' : t.icao = j}
                      IN  IF aircraft'[j] = NoAircraft THEN chain = {}
                          ELSE \E t \in chain : /\ chain = {t}
                                                /\ t.at <= aircraft'[j].heard + Expire + Sweep
    BY DEF SweepArmed, Armed
  <2> DEFINE old == {t \in timers : t.icao = j}
  <2>0. IF aircraft[j] = NoAircraft THEN old = {}
        ELSE \E t \in old : old = {t} /\ t.at <= aircraft[j].heard + Expire + Sweep
    BY DEF SweepArmed, Armed
  <2>1. CASE j # i
    <3>1. {t \in timers' : t.icao = j} = old
      BY <2>1
    <3> QED BY <2>0, <2>1, <3>1, <1>b
  <2>2. CASE j = i /\ aircraft[i] = NoAircraft
    <3> DEFINE n == [icao |-> i, at |-> clock + Sweep]
    <3>1. {t \in timers' : t.icao = j} = {n}
      BY <2>0, <2>2
    <3>2. n.at <= b.heard + Expire + Sweep
      BY <1>t
    <3> HIDE DEF n
    <3> QED BY <2>2, <3>1, <3>2, <1>b
  <2>3. CASE j = i /\ aircraft[i] # NoAircraft
    <3>1. {t \in timers' : t.icao = j} = old
      BY <2>3
    <3>2. aircraft[i].heard <= clock /\ aircraft[i].heard \in Nat
      BY <2>3, <1>t DEF HeardPast, AircraftType
    <3>3. PICK t \in old : old = {t} /\ t.at <= aircraft[j].heard + Expire + Sweep
      BY <2>0, <2>3
    <3>4. t.at \in Nat
      BY <1>t
    <3>5. t.at <= b.heard + Expire + Sweep
      BY <1>t, <2>3, <3>2, <3>3, <3>4
    <3> QED BY <2>3, <3>1, <3>3, <3>5, <1>b
  <2> QED BY <2>1, <2>2, <2>3
<1>3. StateTopicCurrent'
  <2> SUFFICES ASSUME NEW j \in Icaos
               PROVE  IF aircraft'[j] = NoAircraft THEN stateOut'[j] \in {Never, Tombstone}
                      ELSE /\ IF stateOut'[j] \in {Never, Tombstone}
                                THEN aircraft'[j].dirty /\ aircraft'[j].value = Create.value
                                ELSE stateOut'[j].value = aircraft'[j].value
                           /\ ~aircraft'[j].dirty => stateOut'[j] = Snapshot(aircraft'[j])
    BY DEF StateTopicCurrent, Current, Create
  <2>0. IF aircraft[j] = NoAircraft THEN stateOut[j] \in {Never, Tombstone}
        ELSE /\ IF stateOut[j] \in {Never, Tombstone}
                  THEN aircraft[j].dirty /\ aircraft[j].value = Create.value
                  ELSE stateOut[j].value = aircraft[j].value
             /\ ~aircraft[j].dirty => stateOut[j] = Snapshot(aircraft[j])
    BY DEF StateTopicCurrent, Current
  <2>1. CASE j # i
    <3>1. stateOut'[j] = stateOut[j]
      BY <1>t, <2>1
    <3> QED BY <2>0, <2>1, <3>1, <1>b
  <2>2. CASE j = i /\ b.dirty
    <3>1. stateOut'[i] = stateOut[i] /\ b.value = a.value
      BY <2>2
    <3>2. IF stateOut[i] \in {Never, Tombstone} THEN a.value = Create.value
                                               ELSE stateOut[i].value = a.value
      BY <2>0, <2>2
    <3> QED BY <2>2, <3>1, <3>2, <1>b
  <2>3. CASE j = i /\ ~b.dirty
    <3>1. stateOut'[i] = Snapshot(b)
      BY <1>t, <2>3
    <3>2. Snapshot(b) \notin {Never, Tombstone} /\ Snapshot(b).value = b.value
      BY SnapshotFacts, NullAssumption
    <3> QED BY <2>3, <3>1, <3>2, <1>b
  <2> QED BY <2>1, <2>2, <2>3
<1> QED BY <1>1, <1>2, <1>3

(* A timer keeps the job sound: its aircraft is alive, for it is in a chain;   *)
(* the aircraft goes with its chain, or the chain moves one sweep on, which   *)
(* is soon enough because the aircraft has not expired at the timer's time.   *)
LEMMA TimerSound ==
    ASSUME TypeOK, NEW t \in timers, OnTimer(t),
           HeardPast(aircraft), SweepArmed, StateTopicCurrent
    PROVE  HeardPast(aircraft)' /\ SweepArmed' /\ StateTopicCurrent'
<1> DEFINE i == t.icao
           a == aircraft[i]
           n == [icao |-> i, at |-> t.at + Sweep]
<1>t. /\ aircraft \in [Icaos -> AircraftType \cup {NoAircraft}]
      /\ timers \subseteq [icao : Icaos, at : Nat]
      /\ stateOut \in [Icaos -> SnapshotType \cup {Never, Tombstone}]
      /\ clock \in Nat /\ Sweep \in Nat /\ Expire \in Nat
      /\ i \in Icaos /\ t.at \in Nat
  BY ProcessorAssumption, AircraftAssumption DEF TypeOK, JobType, Job
<1>c. a # NoAircraft /\ {u \in timers : u.icao = i} = {t}
  BY <1>t DEF SweepArmed, Armed
<1>a. a \in AircraftType /\ a.heard \in Nat /\ a.heard <= clock
  BY <1>t, <1>c DEF HeardPast, AircraftType
<1>f. /\ clock' = clock
      /\ \/ /\ Expired(a, t.at)
            /\ aircraft' = [aircraft EXCEPT ![i] = NoAircraft]
            /\ stateOut' = [stateOut EXCEPT ![i] = Tombstone]
            /\ timers' = timers \ {t}
         \/ \E b \in AircraftType :
               /\ ~Expired(a, t.at)
               /\ b.heard = a.heard /\ b.value = a.value /\ ~b.dirty
               /\ Snapshot(b) = Snapshot(a)
               /\ aircraft' = [aircraft EXCEPT ![i] = b]
               /\ stateOut' = [stateOut EXCEPT ![i] = Snapshot(b)]
               /\ timers' = (timers \ {t}) \cup {n}
  <2>1. CASE /\ Expired(a, t.at)
             /\ aircraft' = [aircraft EXCEPT ![i] = NoAircraft]
             /\ stateOut' = [stateOut EXCEPT ![i] = Tombstone]
             /\ timers' = timers \ {t}
    BY <2>1, TimerFacts
  <2>2. CASE /\ ~Expired(a, t.at) /\ a.dirty
             /\ aircraft' = [aircraft EXCEPT ![i] = [a EXCEPT !.dirty = FALSE]]
             /\ stateOut' = [stateOut EXCEPT ![i] = Snapshot(a)]
             /\ timers' = (timers \ {t}) \cup {n}
    <3> DEFINE b == [a EXCEPT !.dirty = FALSE]
    <3>1. /\ b \in AircraftType /\ b.heard = a.heard /\ b.value = a.value /\ ~b.dirty
          /\ Snapshot(b) = Snapshot(a)
      BY <1>a DEF AircraftType, Snapshot
    <3> HIDE DEF b
    <3>2. aircraft' = [aircraft EXCEPT ![i] = b]
      BY <2>2 DEF b
    <3>3. stateOut' = [stateOut EXCEPT ![i] = Snapshot(b)]
      BY <2>2, <3>1
    <3> QED BY <2>2, <3>1, <3>2, <3>3, TimerFacts
  <2>3. CASE /\ ~Expired(a, t.at) /\ ~a.dirty
             /\ aircraft' = aircraft /\ stateOut' = stateOut
             /\ timers' = (timers \ {t}) \cup {n}
    <3>1. stateOut[i] = Snapshot(a)
      BY <1>t, <1>c, <2>3 DEF StateTopicCurrent, Current
    <3>2. stateOut' = [stateOut EXCEPT ![i] = Snapshot(a)] /\ aircraft' = [aircraft EXCEPT ![i] = a]
      BY <1>t, <2>3, <3>1
    <3> QED BY <1>a, <2>3, <3>2, TimerFacts
  <2> QED BY <1>c, <2>1, <2>2, <2>3, TimerFacts
<1>o. \A j \in Icaos \ {i} : /\ aircraft'[j] = aircraft[j] /\ stateOut'[j] = stateOut[j]
                             /\ {u \in timers' : u.icao = j} = {u \in timers : u.icao = j}
  BY <1>f, <1>t
<1>1. CASE aircraft'[i] = NoAircraft
  <2>1. {u \in timers' : u.icao = i} = {} /\ stateOut'[i] = Tombstone
    BY <1>1, <1>t, <1>c, <1>f, NullAssumption
  <2>2. HeardPast(aircraft)'
    BY <1>1, <1>o, <1>f DEF HeardPast
  <2>3. SweepArmed'
    BY <1>1, <1>o, <2>1 DEF SweepArmed, Armed
  <2>4. StateTopicCurrent'
    BY <1>1, <1>o, <2>1 DEF StateTopicCurrent, Current, Create
  <2> QED BY <2>2, <2>3, <2>4
<1>2. CASE aircraft'[i] # NoAircraft
  <2> PICK b \in AircraftType :
        /\ ~Expired(a, t.at)
        /\ b.heard = a.heard /\ b.value = a.value /\ ~b.dirty
        /\ aircraft' = [aircraft EXCEPT ![i] = b]
        /\ stateOut' = [stateOut EXCEPT ![i] = Snapshot(b)]
        /\ timers' = (timers \ {t}) \cup {n}
    BY <1>2, <1>t, <1>f
  <2>1. aircraft'[i] = b /\ stateOut'[i] = Snapshot(b)
    BY <1>t
  <2>2. {u \in timers' : u.icao = i} = {n}
    BY <1>c
  <2>3. n.at <= b.heard + Expire + Sweep
    BY <1>t, <1>a DEF Expired
  <2>4. HeardPast(aircraft)'
    BY <1>a, <1>o, <1>f, <2>1 DEF HeardPast
  <2> HIDE DEF n
  <2>5. SweepArmed'
    BY <1>2, <1>o, <2>1, <2>2, <2>3 DEF SweepArmed, Armed
  <2>6. Snapshot(b) \notin {Never, Tombstone} /\ Snapshot(b).value = b.value
    BY SnapshotFacts, NullAssumption
  <2>7. StateTopicCurrent'
    BY <1>2, <1>o, <2>1, <2>6 DEF StateTopicCurrent, Current, Create
  <2> QED BY <2>4, <2>5, <2>7
<1> QED BY <1>1, <1>2

LEMMA SweepStep == TypeOK /\ SweepInv /\ [Next]_vars => SweepInv'
<1> SUFFICES ASSUME TypeOK, SweepInv, [Next]_vars PROVE SweepInv'
  OBVIOUS
<1>t. /\ clock \in Nat
      /\ aircraft \in [Icaos -> AircraftType \cup {NoAircraft}]
      /\ checkpoint.aircraft \in [Icaos -> AircraftType \cup {NoAircraft}]
  BY DEF TypeOK, JobType, Job
<1>k. ASSUME checkpoint' = checkpoint, clock' = clock
      PROVE  /\ HeardPast(checkpoint.aircraft)'
             /\ Armed(checkpoint.aircraft, checkpoint.timers)'
             /\ Current(checkpoint.aircraft, checkpoint.stateOut)'
  BY <1>k DEF SweepInv, HeardPast, Armed, Current, Create
<1>1. ASSUME NEW p \in Partitions, Skip(p) \/ Drop(p) \/ PassBy(p) PROVE SweepInv'
  BY <1>1, <1>k DEF Skip, Drop, PassBy, Arrives, SweepInv, HeardPast, SweepArmed, Armed,
                    StateTopicCurrent, Current, Create
<1>2. ASSUME NEW p \in Partitions, Fold(p) PROVE SweepInv'
  <2>1. checkpoint' = checkpoint /\ clock' = clock
    BY <1>2 DEF Fold, Arrives
  <2> QED BY <1>2, <1>k, <2>1, FoldSound DEF SweepInv
<1>3. ASSUME NEW t \in timers, OnTimer(t) PROVE SweepInv'
  <2>1. checkpoint' = checkpoint /\ clock' = clock
    BY <1>3 DEF OnTimer
  <2> QED BY <1>3, <1>k, <2>1, TimerSound DEF SweepInv
<1>4. CASE Tick
  <2>1. ASSUME NEW ac \in [Icaos -> AircraftType \cup {NoAircraft}],
               \A i \in Icaos : ac[i] # NoAircraft => ac[i].heard <= clock
        PROVE  \A i \in Icaos : ac[i] # NoAircraft => ac[i].heard <= clock'
    BY <1>4, <1>t, <2>1 DEF Tick, AircraftType
  <2>2. HeardPast(aircraft)' /\ HeardPast(checkpoint.aircraft)'
    BY <1>4, <1>t, <2>1 DEF Tick, jobVars, SweepInv, HeardPast
  <2> QED BY <1>4, <2>2 DEF Tick, jobVars, SweepInv, SweepArmed, Armed,
                            StateTopicCurrent, Current, Create
<1>5. CASE TakeCheckpoint
  BY <1>5 DEF TakeCheckpoint, Job, jobVars, SweepInv, HeardPast, SweepArmed, Armed,
              StateTopicCurrent, Current, Create
<1>6. CASE Restore
  BY <1>6 DEF Restore, SweepInv, HeardPast, SweepArmed, Armed,
              StateTopicCurrent, Current, Create
<1>7. CASE Crash \/ UNCHANGED vars
  BY <1>7 DEF Crash, vars, jobVars, SweepInv, HeardPast, SweepArmed, Armed,
              StateTopicCurrent, Current, Create
<1> QED BY <1>1, <1>2, <1>3, <1>4, <1>5, <1>6, <1>7 DEF Next

(* Every live aircraft has exactly one timer chain, no forgotten one has any,  *)
(* and the next check comes within expireMs plus one sweep of the last        *)
(* message: StateFunction registers, renews and drops timers in step with its *)
(* state, also when timers fire late and across restores.                   *)
THEOREM ChainPerAircraft == Spec => []SweepArmed
<1>1. SweepInv => SweepArmed
  BY DEF SweepInv
<1> QED BY <1>1, TypeInit, TypeStep, SweepInit, SweepStep, PTL DEF Spec

(* aircraft.state holds for every aircraft what the job knows of it, up to     *)
(* what a sweep still owes, and a tombstone or nothing for the others.        *)
THEOREM TopicCurrent == Spec => []StateTopicCurrent
<1>1. SweepInv => StateTopicCurrent
  BY DEF SweepInv
<1> QED BY <1>1, TypeInit, TypeStep, SweepInit, SweepStep, PTL DEF Spec

(* The sweep forgets an aircraft only after more than expireMs of silence.    *)
THEOREM OnlySilentForgotten == Spec => ForgottenOnlyWhenSilent
<1> DEFINE Kept(i) == (up /\ aircraft[i] # NoAircraft /\ aircraft'[i] = NoAircraft)
                         => clock - aircraft[i].heard > Expire
           Silent == \A i \in Icaos : Kept(i)
<1>1. TypeOK /\ [Next]_vars => [Silent]_vars
  <2> SUFFICES ASSUME TypeOK, Next, NEW i \in Icaos PROVE Kept(i)
    OBVIOUS
  <2>t. /\ aircraft \in [Icaos -> AircraftType \cup {NoAircraft}]
        /\ clock \in Nat /\ Expire \in Nat
    BY ProcessorAssumption, AircraftAssumption DEF TypeOK, JobType, Job
  <2>1. ASSUME NEW p \in Partitions, Skip(p) \/ Drop(p) \/ PassBy(p) PROVE Kept(i)
    BY <2>1 DEF Skip, Drop, PassBy
  <2>2. ASSUME NEW p \in Partitions, Fold(p) PROVE Kept(i)
    <3> PICK j \in Icaos, b \in AircraftType : aircraft' = [aircraft EXCEPT ![j] = b]
      BY <2>2, FoldFacts
    <3> QED BY <2>t, NullAssumption
  <2>3. ASSUME NEW t \in timers, OnTimer(t) PROVE Kept(i)
    <3> SUFFICES ASSUME aircraft[i] # NoAircraft, aircraft'[i] = NoAircraft
                 PROVE  clock - aircraft[i].heard > Expire
      OBVIOUS
    <3>1. aircraft[i] \in AircraftType /\ aircraft[i].heard \in Nat
      BY <2>t DEF AircraftType
    <3>2. \/ aircraft' = aircraft
          \/ /\ aircraft' = [aircraft EXCEPT ![t.icao] = NoAircraft]
             /\ Expired(aircraft[t.icao], t.at)
          \/ aircraft' = [aircraft EXCEPT ![t.icao] = [aircraft[t.icao] EXCEPT !.dirty = FALSE]]
             /\ aircraft[t.icao] # NoAircraft
      BY <2>3, TimerFacts
    <3>3. t.icao \in Icaos /\ t.at \in Nat /\ t.at <= clock
      BY <2>3, TimerFacts
    <3>4. [aircraft[i] EXCEPT !.dirty = FALSE] # NoAircraft
      <4>1. [aircraft[i] EXCEPT !.dirty = FALSE] \in AircraftType
        BY <3>1 DEF AircraftType
      <4> QED BY <4>1, NullAssumption
    <3>5. i = t.icao /\ Expired(aircraft[i], t.at)
      BY <2>t, <3>2, <3>3, <3>4
    <3> QED BY <2>t, <3>1, <3>3, <3>5 DEF Expired
  <2>4. CASE Tick \/ TakeCheckpoint \/ Crash \/ Restore
    BY <2>4 DEF Tick, TakeCheckpoint, Crash, Restore, jobVars
  <2> QED BY <2>1, <2>2, <2>3, <2>4 DEF Next
<1> HIDE DEF Silent
<1>2. Spec => [][Silent]_vars
  BY <1>1, TypeInit, TypeStep, PTL DEF Spec
<1> QED BY <1>2 DEF Silent, ForgottenOnlyWhenSilent

-----------------------------------------------------------------------------
(* Deduplication.                                                          *)

(* A record arrives: it is dropped as garbage or as a repeat, or it becomes its   *)
(* station's mark and, if it names an aircraft, is folded.                     *)
LEMMA ArrivalFacts ==
    ASSUME TypeOK, NEW p \in Partitions, Skip(p) \/ Drop(p) \/ PassBy(p) \/ Fold(p)
    PROVE  LET n == offset[p] + 1
               m == Topic[p][n]
           IN  /\ n \in DOMAIN Topic[p] /\ n \in Nat
               /\ offset' = [offset EXCEPT ![p] = n] /\ checkpoint' = checkpoint
               /\ m # Garbage => IsMessage(m)
               /\ \/ /\ m = Garbage \/ Repeat(m)
                     /\ UNCHANGED <<mark, aircraft, folded>>
                  \/ /\ m # Garbage /\ ~Repeat(m)
                     /\ mark' = [mark EXCEPT ![m.station] = [ts |-> m.ts, fp |-> m.fp]]
                     /\ \/ m.icao = NoIcao /\ UNCHANGED <<aircraft, folded>>
                        \/ /\ m.icao # NoIcao
                           /\ folded' = folded \cup {<<p, n>>}
                           /\ aircraft' = [aircraft EXCEPT ![m.icao] =
                                 Apply(IF aircraft[m.icao] = NoAircraft THEN Create ELSE aircraft[m.icao],
                                       m, <<p, n>>, clock)]
<1> DEFINE n == offset[p] + 1
           m == Topic[p][n]
<1>1. n \in Nat /\ offset[p] \in Nat
  BY DEF TypeOK, JobType, Job
<1>2. n \in DOMAIN Topic[p] /\ Upcoming(p) = {m} /\ Arrives(p)
  BY DEF Skip, Drop, PassBy, Fold, Upcoming
<1>3. offset' = [offset EXCEPT ![p] = n] /\ checkpoint' = checkpoint
  BY <1>2 DEF Arrives
<1>4. m # Garbage => IsMessage(m)
  BY <1>2, TopicAssumption
<1>5. CASE Skip(p)
  BY <1>1, <1>2, <1>3, <1>4, <1>5 DEF Skip
<1>6. CASE Drop(p)
  BY <1>1, <1>2, <1>3, <1>4, <1>6 DEF Drop
<1>7. CASE PassBy(p)
  BY <1>1, <1>2, <1>3, <1>4, <1>7 DEF PassBy, Marked
<1>8. CASE Fold(p)
  BY <1>1, <1>2, <1>3, <1>4, <1>8 DEF Fold, Marked
<1> QED BY <1>5, <1>6, <1>7, <1>8

LEMMA DedupTypes ==
    ASSUME TypeOK
    PROVE  /\ offset \in [Partitions -> Nat]
           /\ mark \in [Stations -> [ts : Nat, fp : Prints] \cup {NoMark}]
           /\ aircraft \in [Icaos -> AircraftType \cup {NoAircraft}]
           /\ folded \subseteq Partitions \X Nat
           /\ \A s \in Stations : mark[s] # NoMark => mark[s].ts \in Nat /\ mark[s].fp \in Prints
BY DEF TypeOK, JobType, Job

LEMMA MarkStep ==
    ASSUME TypeOK, MarkInv(offset, mark), NEW p \in Partitions,
           Skip(p) \/ Drop(p) \/ PassBy(p) \/ Fold(p)
    PROVE  MarkInv(offset', mark')
<1> DEFINE n == offset[p] + 1
           m == Topic[p][n]
<1>a. /\ n \in DOMAIN Topic[p] /\ n \in Nat
      /\ offset' = [offset EXCEPT ![p] = n]
      /\ m # Garbage => IsMessage(m)
      /\ \/ (m = Garbage \/ Repeat(m)) /\ mark' = mark
         \/ /\ m # Garbage /\ ~Repeat(m)
            /\ mark' = [mark EXCEPT ![m.station] = [ts |-> m.ts, fp |-> m.fp]]
  BY ArrivalFacts
<1>t. /\ offset \in [Partitions -> Nat]
      /\ mark \in [Stations -> [ts : Nat, fp : Prints] \cup {NoMark}]
      /\ \A s \in Stations : mark[s] # NoMark => mark[s].ts \in Nat /\ mark[s].fp \in Prints
  BY DedupTypes
<1>m. m # Garbage => m.station \in Stations /\ m.ts \in Nat /\ m.fp \in Prints
  BY <1>a DEF IsMessage
<1>o. /\ \A q \in Partitions : \A k \in 1..offset'[q] : k \in 1..offset[q] \/ (q = p /\ k = n)
      /\ \A q \in Partitions : 1..offset[q] \subseteq 1..offset'[q]
      /\ n \in 1..offset'[p]
      /\ \A q \in Partitions : q # p => offset'[q] = offset[q]
      /\ \A q \in Partitions : offset[q] \in Nat
      /\ offset'[p] = n /\ offset[p] < n
  BY <1>a, <1>t
<1> HIDE DEF n
<1>d. \A q \in Partitions : 1..offset'[q] \subseteq DOMAIN Topic[q]
  BY <1>a, <1>o DEF MarkInv
<1>x. \A q \in Partitions : \A k \in 1..offset'[q] :
         /\ k \in Nat
         /\ Topic[q][k] # Garbage => /\ Topic[q][k].ts \in Nat /\ Topic[q][k].fp \in Prints
                                     /\ Topic[q][k].station \in Stations
  BY <1>d, TopicAssumption DEF IsMessage
<1>1. CASE m = Garbage /\ mark' = mark
  BY <1>1, <1>d, <1>o DEF MarkInv, FromStation
<1>2. CASE m # Garbage /\ Repeat(m) /\ mark' = mark
  <2>1. mark[m.station] # NoMark /\ m.ts <= mark[m.station].ts
        /\ (m.ts = mark[m.station].ts => m.fp = mark[m.station].fp)
    BY <1>2, <1>m, <1>t DEF Repeat
  <2>2. \A s \in Stations, q \in Partitions : \A k \in 1..offset'[q] :
          FromStation(q, k, s) => mark'[s] # NoMark /\ Topic[q][k].ts <= mark'[s].ts
    BY <1>2, <1>o, <2>1 DEF MarkInv, FromStation
  <2>3. ASSUME NEW s \in Stations, mark'[s] # NoMark
        PROVE  \E q \in Partitions : \E j \in 1..offset'[q] :
                 /\ FromStation(q, j, s) /\ Topic[q][j].ts = mark'[s].ts /\ Topic[q][j].fp = mark'[s].fp
                 /\ \A k \in (j + 1)..offset'[q] :
                      (FromStation(q, k, s) /\ Topic[q][k].ts = mark'[s].ts) => Topic[q][k].fp = mark'[s].fp
    <3>1. PICK q \in Partitions : \E j \in 1..offset[q] :
                 /\ FromStation(q, j, s) /\ Topic[q][j].ts = mark[s].ts /\ Topic[q][j].fp = mark[s].fp
                 /\ \A k \in (j + 1)..offset[q] :
                      (FromStation(q, k, s) /\ Topic[q][k].ts = mark[s].ts) => Topic[q][k].fp = mark[s].fp
      BY <1>2, <2>3 DEF MarkInv
    <3>p. PICK j \in 1..offset[q] :
                 /\ FromStation(q, j, s) /\ Topic[q][j].ts = mark[s].ts /\ Topic[q][j].fp = mark[s].fp
                 /\ \A k \in (j + 1)..offset[q] :
                      (FromStation(q, k, s) /\ Topic[q][k].ts = mark[s].ts) => Topic[q][k].fp = mark[s].fp
      BY <3>1
    <3>2. \A k \in (j + 1)..offset'[q] : k \in (j + 1)..offset[q] \/ (q = p /\ k = n)
      BY <1>a, <1>o
    <3>3. j \in 1..offset'[q]
      BY <1>o
    <3>4. \A k \in (j + 1)..offset'[q] :
            (FromStation(q, k, s) /\ Topic[q][k].ts = mark'[s].ts) => Topic[q][k].fp = mark'[s].fp
      BY <1>2, <2>1, <3>p, <3>2 DEF FromStation
    <3> QED BY <1>2, <3>p, <3>3, <3>4
  <2> QED BY <1>d, <2>2, <2>3 DEF MarkInv
<1>3. CASE m # Garbage /\ ~Repeat(m) /\ mark' = [mark EXCEPT ![m.station] = [ts |-> m.ts, fp |-> m.fp]]
  <2>1. /\ mark'[m.station] = [ts |-> m.ts, fp |-> m.fp]
        /\ mark'[m.station].ts = m.ts /\ mark'[m.station].fp = m.fp /\ mark'[m.station] # NoMark
        /\ \A s \in Stations : s # m.station => mark'[s] = mark[s]
        /\ mark[m.station] # NoMark => mark[m.station].ts <= m.ts
    <3>1. mark'[m.station] = [ts |-> m.ts, fp |-> m.fp]
      BY <1>3, <1>m, <1>t
    <3>2. mark'[m.station] # NoMark
      BY <1>3, <1>m, <3>1, NullAssumption
    <3>3. mark[m.station] # NoMark => mark[m.station].ts <= m.ts
      BY <1>3, <1>m, <1>t DEF Repeat
    <3> QED BY <1>3, <1>t, <3>1, <3>2, <3>3
  <2>2. ASSUME NEW s \in Stations, NEW q \in Partitions, NEW k \in 1..offset'[q], FromStation(q, k, s)
        PROVE  mark'[s] # NoMark /\ Topic[q][k].ts <= mark'[s].ts
    <3>1. CASE k \in 1..offset[q] /\ s # m.station
      BY <2>1, <2>2, <3>1 DEF MarkInv
    <3>2. CASE k \in 1..offset[q] /\ s = m.station
      <4>1. mark[s] # NoMark /\ Topic[q][k].ts <= mark[s].ts
        BY <2>2, <3>2 DEF MarkInv
      <4>2. Topic[q][k].ts \in Nat /\ mark[s].ts \in Nat /\ m.ts \in Nat
        BY <1>3, <1>m, <1>t, <1>x, <2>2, <4>1 DEF FromStation
      <4> QED BY <2>1, <3>2, <4>1, <4>2
    <3>3. CASE q = p /\ k = n
      BY <1>3, <1>m, <2>1, <2>2, <3>3 DEF FromStation
    <3> QED BY <1>o, <3>1, <3>2, <3>3
  <2>3. ASSUME NEW s \in Stations, mark'[s] # NoMark
        PROVE  \E q \in Partitions : \E j \in 1..offset'[q] :
                 /\ FromStation(q, j, s) /\ Topic[q][j].ts = mark'[s].ts /\ Topic[q][j].fp = mark'[s].fp
                 /\ \A k \in (j + 1)..offset'[q] :
                      (FromStation(q, k, s) /\ Topic[q][k].ts = mark'[s].ts) => Topic[q][k].fp = mark'[s].fp
    <3>1. CASE s = m.station
      <4>1. (n + 1)..offset'[p] = {}
        BY <1>a, <1>o
      <4>2. FromStation(p, n, s) /\ Topic[p][n].ts = mark'[s].ts /\ Topic[p][n].fp = mark'[s].fp
        BY <1>3, <2>1, <3>1 DEF FromStation
      <4> QED BY <1>o, <4>1, <4>2
    <3>2. CASE s # m.station
      <4>1. PICK q \in Partitions : \E j \in 1..offset[q] :
                   /\ FromStation(q, j, s) /\ Topic[q][j].ts = mark[s].ts /\ Topic[q][j].fp = mark[s].fp
                   /\ \A k \in (j + 1)..offset[q] :
                        (FromStation(q, k, s) /\ Topic[q][k].ts = mark[s].ts) => Topic[q][k].fp = mark[s].fp
        BY <2>1, <2>3, <3>2 DEF MarkInv
      <4>p. PICK j \in 1..offset[q] :
                 /\ FromStation(q, j, s) /\ Topic[q][j].ts = mark[s].ts /\ Topic[q][j].fp = mark[s].fp
                 /\ \A k \in (j + 1)..offset[q] :
                      (FromStation(q, k, s) /\ Topic[q][k].ts = mark[s].ts) => Topic[q][k].fp = mark[s].fp
        BY <4>1
      <4>2. \A k \in (j + 1)..offset'[q] : k \in (j + 1)..offset[q] \/ (q = p /\ k = n)
        BY <1>a, <1>o
      <4>3. \A k \in (j + 1)..offset'[q] :
              (FromStation(q, k, s) /\ Topic[q][k].ts = mark'[s].ts) => Topic[q][k].fp = mark'[s].fp
        BY <2>1, <3>2, <4>p, <4>2 DEF FromStation
      <4>4. j \in 1..offset'[q]
        BY <1>o
      <4> QED BY <2>1, <3>2, <4>p, <4>3, <4>4
    <3> QED BY <3>1, <3>2
  <2> QED BY <1>d, <2>2, <2>3 DEF MarkInv
<1> QED BY <1>a, <1>1, <1>2, <1>3

(* The positions that were read stay read.                                   *)
LEMMA NamesKept ==
    ASSUME offset \in [Partitions -> Nat], NEW p \in Partitions,
           offset' = [offset EXCEPT ![p] = offset[p] + 1],
           NEW x \in Partitions \X Nat, Names(x, offset)
    PROVE  Names(x, offset')
BY DEF Names

LEMMA OnceStep ==
    ASSUME TypeOK, MarkInv(offset, mark), OnceInv(offset, folded), NEW p \in Partitions,
           Skip(p) \/ Drop(p) \/ PassBy(p) \/ Fold(p)
    PROVE  OnceInv(offset', folded')
<1> DEFINE n == offset[p] + 1
           m == Topic[p][n]
           new == <<p, n>>
           Between(x, y) == \E k \in (x[2] + 1)..(y[2] - 1) :
                /\ FromStation(x[1], k, Record(x).station)
                /\ Topic[x[1]][k].ts = Record(x).ts /\ Topic[x[1]][k].fp # Record(x).fp
<1>a. /\ n \in DOMAIN Topic[p] /\ n \in Nat
      /\ offset' = [offset EXCEPT ![p] = n]
      /\ m # Garbage => IsMessage(m)
      /\ \/ folded' = folded
         \/ m # Garbage /\ ~Repeat(m) /\ m.icao # NoIcao /\ folded' = folded \cup {new}
  BY ArrivalFacts
<1>t. /\ offset \in [Partitions -> Nat] /\ folded \subseteq Partitions \X Nat
      /\ \A s \in Stations : mark[s] # NoMark => mark[s].ts \in Nat /\ mark[s].fp \in Prints
  BY DedupTypes
<1>k. \A x \in folded : Names(x, offset')
  BY <1>a, <1>t, NamesKept DEF OnceInv
<1>1. CASE folded' = folded
  BY <1>1, <1>k DEF OnceInv
<1>2. CASE m # Garbage /\ ~Repeat(m) /\ m.icao # NoIcao /\ folded' = folded \cup {new}
  <2>1. Names(new, offset') /\ Record(new) = m /\ new[1] = p /\ new[2] = n
    BY <1>a, <1>t, <1>2 DEF Names, Record
  <2>2. ASSUME NEW x \in folded, Record(x) = m
        PROVE  x[1] = p /\ x[2] \in 1..offset[p] /\ x[2] < n
    <3>1. /\ x[1] \in Partitions /\ x[2] \in 1..offset[x[1]] /\ x[2] \in DOMAIN Topic[x[1]]
          /\ Topic[x[1]][x[2]] = m
      BY <1>t, <2>2 DEF OnceInv, Names, MarkInv, Record
    <3>2. x[1] = p
      BY <1>a, <1>2, <3>1, KeyAssumption DEF FromStation
    <3> QED BY <1>t, <3>1, <3>2
  <2>3. ASSUME NEW x \in folded, Record(x) = m PROVE Between(x, new)
    <3> DEFINE s == m.station
    <3>1. x[1] = p /\ x[2] \in 1..offset[p] /\ Topic[p][x[2]] = m
      BY <2>2, <2>3 DEF Record
    <3>2. s \in Stations /\ m.ts \in Nat /\ FromStation(p, x[2], s)
      BY <1>a, <1>2, <3>1 DEF IsMessage, FromStation
    <3>3. mark[s] # NoMark /\ m.ts <= mark[s].ts
      BY <3>1, <3>2 DEF MarkInv
    <3>4. m.ts = mark[s].ts /\ m.fp # mark[s].fp
      BY <1>2, <1>t, <3>2, <3>3 DEF Repeat
    <3>5. PICK q \in Partitions : \E j \in 1..offset[q] :
             /\ FromStation(q, j, s) /\ Topic[q][j].ts = mark[s].ts /\ Topic[q][j].fp = mark[s].fp
             /\ \A k \in (j + 1)..offset[q] :
                  (FromStation(q, k, s) /\ Topic[q][k].ts = mark[s].ts) => Topic[q][k].fp = mark[s].fp
      BY <3>2, <3>3 DEF MarkInv
    <3>6. PICK j \in 1..offset[q] :
             /\ FromStation(q, j, s) /\ Topic[q][j].ts = mark[s].ts /\ Topic[q][j].fp = mark[s].fp
             /\ \A k \in (j + 1)..offset[q] :
                  (FromStation(q, k, s) /\ Topic[q][k].ts = mark[s].ts) => Topic[q][k].fp = mark[s].fp
      BY <3>5
    <3>7. q = p
      <4>1. j \in DOMAIN Topic[q] /\ m # Garbage /\ FromStation(q, j, m.station)
        BY <1>2, <3>6 DEF MarkInv
      <4> QED BY <1>a, <4>1, KeyAssumption
    <3>8. x[2] # j /\ x[2] \notin (j + 1)..offset[p]
      BY <3>1, <3>2, <3>4, <3>6, <3>7
    <3>9. j \in (x[2] + 1)..(n - 1)
      BY <1>t, <3>1, <3>7, <3>8
    <3>10. FromStation(x[1], j, s) /\ Topic[x[1]][j].ts = m.ts /\ Topic[x[1]][j].fp # m.fp
      BY <3>1, <3>4, <3>6, <3>7
    <3> QED BY <2>1, <2>3, <3>9, <3>10
  <2>4. ASSUME NEW x \in folded', NEW y \in folded', Record(x) = Record(y), x[2] < y[2]
        PROVE  Between(x, y)
    <3>1. CASE x \in folded /\ y \in folded
      BY <2>4, <3>1 DEF OnceInv
    <3>2. CASE x \in folded /\ y = new
      BY <2>1, <2>3, <2>4, <3>2
    <3>3. CASE x = new
      <4>1. x[2] = n /\ n \in Nat
        BY <1>a, <2>1, <3>3
      <4>2. y \in folded => y[2] \in Nat /\ y[2] < n
        BY <1>t, <2>1, <2>2, <2>4, <3>3
      <4>3. y = new => y[2] = n
        BY <2>1
      <4> QED BY <1>2, <2>4, <4>1, <4>2, <4>3
    <3> QED BY <1>2, <3>1, <3>2, <3>3
  <2>5. \A x \in folded' : Names(x, offset')
    BY <1>2, <1>k, <2>1
  <2> HIDE DEF new
  <2> QED BY <2>4, <2>5 DEF OnceInv
<1> QED BY <1>a, <1>1, <1>2

LEMMA FoldedStep ==
    ASSUME TypeOK, RepeatsTrail, MarkInv(offset, mark), AllFolded(offset, folded), NEW p \in Partitions,
           Skip(p) \/ Drop(p) \/ PassBy(p) \/ Fold(p)
    PROVE  AllFolded(offset', folded')
<1> DEFINE n == offset[p] + 1
           m == Topic[p][n]
           new == <<p, n>>
<1>a. /\ n \in DOMAIN Topic[p] /\ n \in Nat
      /\ offset' = [offset EXCEPT ![p] = n]
      /\ m # Garbage => IsMessage(m)
      /\ folded \subseteq folded'
      /\ \/ m = Garbage \/ Repeat(m) \/ m.icao = NoIcao
         \/ new \in folded'
  BY ArrivalFacts
<1>t. /\ offset \in [Partitions -> Nat]
      /\ \A s \in Stations : mark[s] # NoMark => mark[s].ts \in Nat
  BY DedupTypes
<1>o. \A q \in Partitions : \A k \in 1..offset'[q] : k \in 1..offset[q] \/ (q = p /\ k = n)
  BY <1>a, <1>t
<1>1. ASSUME m # Garbage, m.icao # NoIcao PROVE \E y \in folded' : Record(y) = m
  <2>1. CASE new \in folded'
    <3>1. Record(new) = m
      BY DEF Record
    <3> QED BY <2>1, <3>1
  <2>2. CASE Repeat(m)
    <3> DEFINE s == m.station
    <3>1. s \in Stations /\ m.ts \in Nat
      BY <1>a, <1>1 DEF IsMessage
    <3>2. PICK q \in Partitions : \E j \in 1..offset[q] :
             /\ FromStation(q, j, s) /\ Topic[q][j].ts = mark[s].ts /\ Topic[q][j].fp = mark[s].fp
      BY <2>2, <3>1 DEF MarkInv, Repeat
    <3>3. PICK j \in 1..offset[q] :
             /\ FromStation(q, j, s) /\ Topic[q][j].ts = mark[s].ts /\ Topic[q][j].fp = mark[s].fp
      BY <3>2
    <3>4. q = p
      <4>1. j \in DOMAIN Topic[q] /\ FromStation(q, j, m.station)
        BY <3>3 DEF MarkInv
      <4> QED BY <1>a, <1>1, <4>1, KeyAssumption
    <3>5. j \in 1..(n - 1) /\ FromStation(p, j, m.station)
      BY <1>t, <3>3, <3>4
    <3>6. \E k \in 1..(n - 1) : Topic[p][k] = m
      <4>1. CASE m.ts < mark[s].ts
        <5>1. Topic[p][j].ts > m.ts
          BY <1>t, <3>1, <3>3, <3>4, <4>1
        <5> QED BY <1>a, <1>1, <3>5, <5>1 DEF RepeatsTrail
      <4>2. CASE m.ts = mark[s].ts /\ m.fp = mark[s].fp
        <5>1. Topic[p][j].ts = m.ts /\ Topic[p][j].fp = m.fp
          BY <3>3, <3>4, <4>2
        <5>2. Topic[p][j] = m
          BY <1>a, <1>1, <3>5, <5>1 DEF RepeatsTrail
        <5> QED BY <3>5, <5>2
      <4> QED BY <2>2, <4>1, <4>2 DEF Repeat
    <3>7. PICK k \in 1..(n - 1) : Topic[p][k] = m
      BY <3>6
    <3>8. k \in 1..offset[p]
      BY <1>t
    <3> QED BY <1>a, <1>1, <3>7, <3>8 DEF AllFolded
  <2> QED BY <1>a, <1>1, <2>1, <2>2
<1> QED BY <1>a, <1>o, <1>1 DEF AllFolded

-----------------------------------------------------------------------------
(* The newest message wins.                                                 *)

LEMMA MilliOrder ==
    ASSUME NEW s \in Nat, NEW t \in Nat, Milli(s) < Milli(t)
    PROVE  s < t
<1> DEFINE d == TicksPerMilli
           q == s \div d
           r == t \div d
<1>1. d \in Nat /\ d > 0
  BY AircraftAssumption
<1>2. q \in Nat /\ r \in Nat /\ q + 1 <= r
  BY <1>1 DEF Milli
<1>3. s < d * (q + 1) /\ d * r <= t
  BY <1>1
<1>4. d * (q + 1) <= d * r
  BY <1>1, <1>2
<1> QED BY <1>1, <1>2, <1>3, <1>4

(* One message keeps a field's value the newest, if no message already folded is   *)
(* newer within its millisecond.                                            *)
LEMMA ApplyNewest ==
    ASSUME NEW a \in AircraftType, NEW m, IsMessage(m), NEW x \in Partitions \X Nat, Record(x) = m,
           NEW f \in AllFields, Newest(a, f),
           \A y \in a.life : /\ Record(y).ts \in Nat
                             /\ Milli(Record(y).ts) = Milli(m.ts) => Record(y).ts <= m.ts
    PROVE  Newest(Apply(a, m, x, clock), f)
<1> DEFINE b == Apply(a, m, x, clock)
           Setters(life) == {y \in life : f \in Carries(Record(y))}
           taken == f \in Carries(m) /\ Milli(m.ts) >= a.fieldTs[f]
<1>1. /\ b.value[f] = IF taken THEN Carried(m, f) ELSE a.value[f]
      /\ b.fieldTs[f] = IF taken THEN Milli(m.ts) ELSE a.fieldTs[f]
      /\ b.life = a.life \cup {x}
  BY DEF Apply, Taken
<1>2. m.ts \in Nat /\ Milli(m.ts) \in Nat /\ a.fieldTs[f] \in Nat
  BY MilliType DEF IsMessage, AircraftType
<1>3. Setters(b.life) = Setters(a.life) \cup (IF f \in Carries(m) THEN {x} ELSE {})
  BY <1>1
<1>s. /\ Setters(a.life) \subseteq a.life
      /\ \A y \in Setters(b.life) : y \in Setters(a.life) \/ y = x
  BY <1>3
<1> DEFINE Best(c, S) ==
             IF S = {} THEN c.value[f] = 0 /\ c.fieldTs[f] = 0
             ELSE \E y \in S : /\ c.value[f] = Carried(Record(y), f)
                               /\ c.fieldTs[f] = Milli(Record(y).ts)
                               /\ \A z \in S : Record(z).ts <= Record(y).ts
<1>n. Best(a, Setters(a.life)) /\ (Best(b, Setters(b.life)) => Newest(b, f))
  BY DEF Newest
<1>b. SUFFICES Best(b, Setters(b.life))
  BY <1>n
<1> HIDE DEF b, Setters
<1>4. CASE f \notin Carries(m)
  BY <1>1, <1>3, <1>4, <1>n
<1>5. CASE f \in Carries(m) /\ Setters(a.life) = {}
  <2>1. a.fieldTs[f] = 0
    BY <1>5, <1>n
  <2>2. taken /\ Setters(b.life) = {x}
    BY <1>2, <1>3, <1>5, <2>1
  <2>3. b.value[f] = Carried(Record(x), f) /\ b.fieldTs[f] = Milli(Record(x).ts)
    BY <1>1, <2>2
  <2>4. Record(x).ts <= Record(x).ts
    BY <1>2
  <2> QED BY <2>2, <2>3, <2>4
<1>6. CASE f \in Carries(m) /\ Setters(a.life) # {}
  <2>1. PICK y \in Setters(a.life) : /\ a.value[f] = Carried(Record(y), f)
                                     /\ a.fieldTs[f] = Milli(Record(y).ts)
                                     /\ \A z \in Setters(a.life) : Record(z).ts <= Record(y).ts
    BY <1>6, <1>n
  <2>2. Setters(b.life) = Setters(a.life) \cup {x} /\ Setters(b.life) # {}
    BY <1>3, <1>6
  <2>3. Record(y).ts \in Nat /\ \A z \in Setters(a.life) : Record(z).ts \in Nat
    BY <1>s
  <2>4. CASE taken
    <3>1. Record(y).ts <= m.ts
      <4>1. Milli(Record(y).ts) \in Nat /\ Milli(m.ts) >= Milli(Record(y).ts)
        BY <2>1, <2>3, <2>4, MilliType
      <4>2. CASE Milli(m.ts) = Milli(Record(y).ts)
        BY <1>s, <4>2
      <4>3. CASE Milli(m.ts) > Milli(Record(y).ts)
        BY <1>2, <2>3, <4>1, <4>3, MilliOrder
      <4> QED BY <1>2, <4>1, <4>2, <4>3
    <3>2. \A z \in Setters(b.life) : Record(z).ts <= m.ts
      BY <1>2, <2>1, <2>2, <2>3, <3>1
    <3>3. x \in Setters(b.life) /\ b.value[f] = Carried(Record(x), f) /\ b.fieldTs[f] = Milli(Record(x).ts)
      BY <1>1, <2>2, <2>4
    <3> QED BY <1>n, <2>2, <3>2, <3>3
  <2>5. CASE ~taken
    <3>1. m.ts <= Record(y).ts
      <4>1. Milli(m.ts) < Milli(Record(y).ts)
        BY <1>2, <1>6, <2>1, <2>5
      <4> QED BY <1>2, <2>3, <4>1, MilliOrder
    <3>2. \A z \in Setters(b.life) : Record(z).ts <= Record(y).ts
      BY <2>1, <2>2, <3>1
    <3>3. y \in Setters(b.life) /\ b.value[f] = Carried(Record(y), f) /\ b.fieldTs[f] = Milli(Record(y).ts)
      BY <1>1, <2>1, <2>2, <2>5
    <3> QED BY <1>n, <2>2, <3>2, <3>3
  <2> QED BY <2>4, <2>5
<1> QED BY <1>4, <1>5, <1>6

LEMMA FieldStep ==
    ASSUME TypeOK, MillisTell, MarkInv(offset, mark), FieldInv(offset, aircraft), NEW p \in Partitions,
           Skip(p) \/ Drop(p) \/ PassBy(p) \/ Fold(p)
    PROVE  FieldInv(offset', aircraft')
<1> DEFINE n == offset[p] + 1
           m == Topic[p][n]
           x == <<p, n>>
           i == m.icao
           a == IF aircraft[i] = NoAircraft THEN Create ELSE aircraft[i]
           b == Apply(a, m, x, clock)
<1>a. /\ n \in DOMAIN Topic[p] /\ n \in Nat
      /\ offset' = [offset EXCEPT ![p] = n]
      /\ m # Garbage => IsMessage(m)
      /\ \/ aircraft' = aircraft
         \/ m # Garbage /\ ~Repeat(m) /\ i # NoIcao /\ aircraft' = [aircraft EXCEPT ![i] = b]
  BY ArrivalFacts
<1>t. /\ offset \in [Partitions -> Nat]
      /\ aircraft \in [Icaos -> AircraftType \cup {NoAircraft}]
      /\ \A s \in Stations : mark[s] # NoMark => mark[s].ts \in Nat /\ mark[s].fp \in Prints
      /\ clock \in Nat
  BY DedupTypes DEF TypeOK
<1>l. \A j \in Icaos : aircraft[j] # NoAircraft => aircraft[j].life \subseteq Partitions \X Nat
  BY <1>t DEF AircraftType
<1>k. \A j \in Icaos : aircraft[j] # NoAircraft =>
         \A y \in aircraft[j].life : Names(y, offset') /\ Record(y).icao = j
  BY <1>a, <1>t, <1>l, NamesKept DEF FieldInv
<1>1. CASE aircraft' = aircraft
  BY <1>1, <1>k DEF FieldInv
<1>2. CASE m # Garbage /\ ~Repeat(m) /\ i # NoIcao /\ aircraft' = [aircraft EXCEPT ![i] = b]
  <2>1. /\ IsMessage(m) /\ i \in Icaos /\ m.ts \in Nat /\ m.station \in Stations
        /\ x \in Partitions \X Nat /\ Record(x) = m /\ Names(x, offset')
    BY <1>a, <1>t, <1>2 DEF IsMessage, Names, Record
  <2>2. /\ a \in AircraftType
        /\ \A y \in a.life : Names(y, offset) /\ Record(y).icao = i
        /\ \A f \in AllFields : Newest(a, f)
    <3>1. CASE aircraft[i] = NoAircraft
      <4>1. a = Create /\ Create.life = {}
        BY <3>1 DEF Create
      <4>2. \A f \in AllFields : Newest(Create, f)
        BY DEF Newest, Create
      <4> QED BY <4>1, <4>2, CreateType
    <3>2. CASE aircraft[i] # NoAircraft
      BY <1>t, <2>1, <3>2 DEF FieldInv
    <3> QED BY <3>1, <3>2
  <2> HIDE DEF a
  <2>3. b.life = a.life \cup {x} /\ a.life \subseteq Partitions \X Nat
    BY <2>2 DEF Apply, AircraftType
  <2>4. ASSUME NEW y \in a.life
        PROVE  /\ Record(y).ts \in Nat
               /\ Milli(Record(y).ts) = Milli(m.ts) => Record(y).ts <= m.ts
    <3>1. /\ y[1] \in Partitions /\ y[2] \in 1..offset[y[1]] /\ y[2] \in DOMAIN Topic[y[1]]
          /\ Record(y) = Topic[y[1]][y[2]] /\ Record(y) # Garbage /\ Record(y).icao = i
      BY <2>2, <2>3 DEF Names, Record, MarkInv
    <3>2. Record(y).ts \in Nat /\ Record(y).station \in Stations
      BY <3>1, TopicAssumption DEF IsMessage
    <3>3. ASSUME Milli(Record(y).ts) = Milli(m.ts) PROVE Record(y).ts <= m.ts
      <4>1. Record(y).station = m.station
        BY <1>a, <1>2, <3>1, <3>3 DEF MillisTell
      <4>2. mark[m.station] # NoMark /\ Record(y).ts <= mark[m.station].ts
        BY <2>1, <3>1, <4>1 DEF MarkInv, FromStation
      <4>3. mark[m.station].ts <= m.ts /\ mark[m.station].ts \in Nat
        BY <1>2, <1>t, <2>1, <4>2 DEF Repeat
      <4> QED BY <2>1, <3>2, <4>2, <4>3
    <3> QED BY <3>2, <3>3
  <2>5. \A f \in AllFields : Newest(b, f)
    BY <2>1, <2>2, <2>4, ApplyNewest
  <2>6. \A y \in b.life : Names(y, offset') /\ Record(y).icao = i
    BY <1>a, <1>t, <2>1, <2>2, <2>3, NamesKept
  <2> HIDE DEF b
  <2> QED BY <1>2, <1>t, <1>k, <2>1, <2>5, <2>6 DEF FieldInv
<1> QED BY <1>a, <1>1, <1>2

(* A timer forgets an aircraft or leaves its fields alone.                     *)
LEMMA FieldTimer ==
    ASSUME TypeOK, FieldInv(offset, aircraft), NEW t \in timers, OnTimer(t)
    PROVE  FieldInv(offset', aircraft')
<1> DEFINE i == t.icao
           a == aircraft[i]
           b == [a EXCEPT !.dirty = FALSE]
<1>1. /\ i \in Icaos /\ offset' = offset
      /\ \/ aircraft' = aircraft
         \/ aircraft' = [aircraft EXCEPT ![i] = NoAircraft]
         \/ a # NoAircraft /\ aircraft' = [aircraft EXCEPT ![i] = b]
  BY TimerFacts
<1>2. aircraft \in [Icaos -> AircraftType \cup {NoAircraft}]
  BY DedupTypes
<1>3. ASSUME a # NoAircraft PROVE b.life = a.life /\ b.value = a.value /\ b.fieldTs = a.fieldTs
  BY <1>1, <1>2, <1>3 DEF AircraftType
<1>4. ASSUME a # NoAircraft, NEW f \in AllFields, Newest(a, f) PROVE Newest(b, f)
  BY <1>3, <1>4 DEF Newest
<1> HIDE DEF b
<1> QED BY <1>1, <1>2, <1>3, <1>4 DEF FieldInv

-----------------------------------------------------------------------------
(* The three invariants, for the job and its checkpoint.                      *)

LEMMA DedupInit == Init => DedupInv /\ FoldedInv /\ NewestInv
<1> SUFFICES ASSUME Init PROVE DedupInv /\ FoldedInv /\ NewestInv
  OBVIOUS
<1>1. /\ offset = [p \in Partitions |-> 0] /\ mark = [s \in Stations |-> NoMark]
      /\ aircraft = [i \in Icaos |-> NoAircraft] /\ folded = {}
      /\ checkpoint.offset = offset /\ checkpoint.mark = mark
      /\ checkpoint.aircraft = aircraft /\ checkpoint.folded = folded
  BY DEF Init, Job
<1>2. \A p \in Partitions : 1..offset[p] = {}
  BY <1>1
<1>3. MarkInv(offset, mark) /\ OnceInv(offset, folded) /\ AllFolded(offset, folded)
      /\ FieldInv(offset, aircraft)
  BY <1>1, <1>2 DEF MarkInv, OnceInv, AllFolded, FieldInv
<1> QED BY <1>1, <1>3 DEF DedupInv, FoldedInv, NewestInv

(* A step that is no arrival and no timer leaves the job, or takes it from the       *)
(* checkpoint, or the checkpoint from the job.                               *)
LEMMA OtherStep ==
    ASSUME Tick \/ TakeCheckpoint \/ Crash \/ Restore \/ UNCHANGED vars
    PROVE  /\ \/ UNCHANGED <<offset, mark, aircraft, folded>>
              \/ /\ offset' = checkpoint.offset /\ mark' = checkpoint.mark
                 /\ aircraft' = checkpoint.aircraft /\ folded' = checkpoint.folded
           /\ \/ checkpoint' = checkpoint
              \/ /\ checkpoint'.offset = offset /\ checkpoint'.mark = mark
                 /\ checkpoint'.aircraft = aircraft /\ checkpoint'.folded = folded
BY DEF Tick, TakeCheckpoint, Crash, Restore, vars, jobVars, Job

LEMMA DedupStep == TypeOK /\ DedupInv /\ [Next]_vars => DedupInv'
<1> SUFFICES ASSUME TypeOK, DedupInv, [Next]_vars PROVE DedupInv'
  OBVIOUS
<1>1. ASSUME NEW p \in Partitions, Skip(p) \/ Drop(p) \/ PassBy(p) \/ Fold(p) PROVE DedupInv'
  <2>1. checkpoint' = checkpoint
    BY <1>1, ArrivalFacts
  <2> QED BY <1>1, <2>1, MarkStep, OnceStep DEF DedupInv
<1>2. ASSUME NEW t \in timers, OnTimer(t) PROVE DedupInv'
  BY <1>2 DEF OnTimer, DedupInv
<1>3. CASE Tick \/ TakeCheckpoint \/ Crash \/ Restore \/ UNCHANGED vars
  BY <1>3, OtherStep DEF DedupInv
<1> QED BY <1>1, <1>2, <1>3 DEF Next

(* A line a station sends again is folded once, however often the batch is sent, read    *)
(* again or restored, but for one that another line of the same microsecond follows       *)
(* before the copy.                                                          *)
THEOREM FoldedOnce == Spec => []EventsFoldedOnce
<1>1. DedupInv => EventsFoldedOnce
  BY DEF DedupInv, OnceInv, EventsFoldedOnce, FromStation
<1> QED BY <1>1, TypeInit, TypeStep, DedupInit, DedupStep, PTL DEF Spec

LEMMA FoldedInvStep ==
    RepeatsTrail => (TypeOK /\ DedupInv /\ FoldedInv /\ [Next]_vars => FoldedInv')
<1> SUFFICES ASSUME RepeatsTrail, TypeOK, DedupInv, FoldedInv, [Next]_vars PROVE FoldedInv'
  OBVIOUS
<1>1. ASSUME NEW p \in Partitions, Skip(p) \/ Drop(p) \/ PassBy(p) \/ Fold(p) PROVE FoldedInv'
  <2>1. checkpoint' = checkpoint
    BY <1>1, ArrivalFacts
  <2> QED BY <1>1, <2>1, FoldedStep DEF DedupInv, FoldedInv
<1>2. ASSUME NEW t \in timers, OnTimer(t) PROVE FoldedInv'
  BY <1>2 DEF OnTimer, FoldedInv
<1>3. CASE Tick \/ TakeCheckpoint \/ Crash \/ Restore \/ UNCHANGED vars
  BY <1>3, OtherStep DEF FoldedInv
<1> QED BY <1>1, <1>2, <1>3 DEF Next

(* In a topic as the stations and the gateway write it nothing but repeats is dropped:     *)
(* every record read that names an aircraft was folded, itself or as an earlier copy.      *)
THEOREM NothingIsDropped == RepeatsTrail => (Spec => []NothingDropped)
<1> SUFFICES ASSUME RepeatsTrail PROVE Spec => []NothingDropped
  OBVIOUS
<1>1. FoldedInv => NothingDropped
  BY DEF FoldedInv, AllFolded, NothingDropped
<1>2. TypeOK /\ DedupInv /\ FoldedInv /\ [Next]_vars => FoldedInv'
  BY FoldedInvStep
<1> QED BY <1>1, <1>2, TypeInit, TypeStep, DedupInit, DedupStep, PTL DEF Spec

LEMMA NewestInvStep ==
    MillisTell => (TypeOK /\ DedupInv /\ NewestInv /\ [Next]_vars => NewestInv')
<1> SUFFICES ASSUME MillisTell, TypeOK, DedupInv, NewestInv, [Next]_vars PROVE NewestInv'
  OBVIOUS
<1>1. ASSUME NEW p \in Partitions, Skip(p) \/ Drop(p) \/ PassBy(p) \/ Fold(p) PROVE NewestInv'
  <2>1. checkpoint' = checkpoint
    BY <1>1, ArrivalFacts
  <2> QED BY <1>1, <2>1, FieldStep DEF DedupInv, NewestInv
<1>2. ASSUME NEW t \in timers, OnTimer(t) PROVE NewestInv'
  <2>1. checkpoint' = checkpoint
    BY <1>2 DEF OnTimer
  <2> QED BY <1>2, <2>1, FieldTimer DEF NewestInv
<1>3. CASE Tick \/ TakeCheckpoint \/ Crash \/ Restore \/ UNCHANGED vars
  BY <1>3, OtherStep DEF NewestInv
<1> QED BY <1>1, <1>2, <1>3 DEF Next

(* A stale backlog does not regress an aircraft: each field is that of a newest message      *)
(* folded since the aircraft is known, in whatever order stations deliver, unless two        *)
(* stations hear it in the same millisecond.                                   *)
THEOREM NewestMessageWins == MillisTell => (Spec => []NewestWins)
<1> SUFFICES ASSUME MillisTell PROVE Spec => []NewestWins
  OBVIOUS
<1>1. NewestInv => NewestWins
  BY DEF NewestInv, FieldInv, Newest, NewestWins
<1>2. TypeOK /\ DedupInv /\ NewestInv /\ [Next]_vars => NewestInv'
  BY NewestInvStep
<1> QED BY <1>1, <1>2, TypeInit, TypeStep, DedupInit, DedupStep, PTL DEF Spec
=============================================================================
