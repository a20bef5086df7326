------------------------------ MODULE Aircraft ------------------------------
(***************************************************************************)
(* The fold of one message into one aircraft's state, as the live processor  *)
(* and the backfill's shadow processor both run it.  A message is            *)
(* [station, ts, icao, fp, fields]; fields maps the payload fields it carries *)
(* to values, and 0 is null.  Event time is counted in ticks, TicksPerMilli   *)
(* to a millisecond; now is processing time.                               *)
(***************************************************************************)
EXTENDS Integers

CONSTANTS
    Fields,                 \* payload fields
    PositionFields,         \* lat and lon
    PositionTs,             \* the field positionTs
    TicksPerMilli,
    Expire                  \* expireMs

ASSUME AircraftAssumption ==
    /\ TicksPerMilli \in Nat \ {0} /\ Expire \in Nat
    /\ PositionFields \subseteq Fields /\ PositionTs \notin Fields

AllFields == Fields \cup {PositionTs}

Snapshot(a) == [value |-> a.value, first |-> a.first, last |-> a.last,
                stations |-> a.stations, messages |-> a.messages]

(* Mutant: the unset times are -1 instead of null.                          *)
CreateUnset == [value |-> [f \in AllFields |-> 0], fieldTs |-> [f \in AllFields |-> 0],
                first |-> -1, last |-> -1, stations |-> {}, messages |-> 0,
                dirty |-> FALSE, heard |-> 0, life |-> {}]

(* Aircraft.create; life is history: the positions folded into this state.  *)
Create == [value |-> [f \in AllFields |-> 0], fieldTs |-> [f \in AllFields |-> 0],
           first |-> 0, last |-> 0, stations |-> {}, messages |-> 0,
           dirty |-> FALSE, heard |-> 0, life |-> {}]

Milli(ts) == ts \div TicksPerMilli

(* The fields a message sets: those it carries, and positionTs when it       *)
(* carries the whole position.                                             *)
Carries(m) == DOMAIN m.fields \cup
              (IF PositionFields \subseteq DOMAIN m.fields THEN {PositionTs} ELSE {})
Carried(m, f) == IF f = PositionTs THEN m.ts ELSE m.fields[f]

(* Mutant: the message that arrives last wins.                             *)
TakenAlways(a, m) == {f \in Carries(m) : m.ts > 0}

(* set: a field is taken if the message is at least as new as its last setter.*)
Taken(a, m) == {f \in Carries(m) : Milli(m.ts) >= a.fieldTs[f]}

(* Mutant: only the position is compared.                                  *)
PositionUnchanged(old, new) == \A f \in PositionFields : new[f] = old[f]

(* apply's result, negated: no field was set to another value.              *)
Unchanged(old, new) == new = old

(* apply, with heardMs; dirty means a snapshot is owed on the next sweep.    *)
Apply(a, m, x, now) ==
    LET value == [f \in AllFields |-> IF f \in Taken(a, m) THEN Carried(m, f) ELSE a.value[f]]
    IN  [value    |-> value,
         fieldTs  |-> [f \in AllFields |-> IF f \in Taken(a, m) THEN Milli(m.ts) ELSE a.fieldTs[f]],
         first    |-> IF a.first = 0 \/ m.ts < a.first THEN m.ts ELSE a.first,
         last     |-> IF m.ts > a.last THEN m.ts ELSE a.last,
         stations |-> a.stations \cup {m.station},
         messages |-> a.messages + 1,
         dirty    |-> Unchanged(a.value, value),
         heard    |-> now,
         life     |-> a.life \cup {x}]

(* Mutant: >= for >.                                                        *)
ExpiredOnTheDot(a, timestamp) == timestamp - a.heard >= Expire

(* expired: silent for longer than expireMs before the timer's own time.     *)
Expired(a, timestamp) == timestamp - a.heard > Expire
=============================================================================
