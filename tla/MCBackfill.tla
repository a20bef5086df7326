----------------------------- MODULE MCBackfill -----------------------------
(* An archive for TLC.                                                     *)
EXTENDS Backfill

Msg(s, t, i, f) == [station |-> s, ts |-> t, icao |-> i, fp |-> t, fields |-> f]
Alt(v) == [f \in {"alt"} |-> v]
Lat(v) == [f \in {"lat"} |-> v]

(* Station 1 hears x on two days, station 2 hears y on the second; a crash of the *)
(* archiver left two files that overlap, and one record was undecodable.         *)
MCFiles ==
    LET a1 == Msg(1, 1, "x", Alt(1))
        a2 == Msg(1, 4, "x", Lat(1))
        b1 == Msg(2, 3, "y", Alt(2))
    IN  {[day |-> 1, rows |-> <<a1>>], [day |-> 1, rows |-> <<a1, a1>>],
         [day |-> 2, rows |-> <<a2, b1>>], [day |-> 0, rows |-> <<Msg(2, 9, "x", Alt(9))>>]}

OwnPartition(s) == s
TracePartition(i) == IF i = "x" THEN 1 ELSE 2

ASSUME ArchiveAssumption == InOrder /\ TimesTell
=============================================================================
