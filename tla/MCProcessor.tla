----------------------------- MODULE MCProcessor -----------------------------
(* Topics for TLC: partition 1 holds station A's records, partition 2 B's.  *)
EXTENDS Processor, TLC

Msg(s, t, i, fp, fs) == [station |-> s, ts |-> t, icao |-> i, fp |-> fp, fields |-> fs]
Alt(v) == "alt" :> v
Pos(v) == "lat" :> v @@ "lon" :> v

MCPartitions == {1, 2}

(* A sends two lines of one tick, and the first of them again.  B delivers a    *)
(* backlog and sends its first line again at once and at the end; between them  *)
(* are a line that does not parse, one about an aircraft of its own that says   *)
(* nothing, and one that names no aircraft.  No two stations' messages share    *)
(* a millisecond (2 ticks).                                                 *)
Resent ==
    LET a1 == Msg("A", 5, "x", "f1", Pos(1))
        a2 == Msg("A", 5, "x", "f2", Alt(1))
        b1 == Msg("B", 2, "x", "f3", "alt" :> 2 @@ "lat" :> 2)
    IN  1 :> <<a1, a2, a1>> @@
        2 :> <<b1, b1, Garbage, Msg("B", 3, "y", "f4", << >>),
               Msg("B", 3, NoIcao, "f5", << >>), b1>>

(* It is a topic the processor can be given.                                 *)
ASSUME ResentAssumption == RepeatsTrail /\ MillisTell
=============================================================================
