------------------------------ MODULE MCHistory ------------------------------
(* Topics for TLC: partition 1 is of the live topic, 2 of the .replay topic. *)
EXTENDS History, TLC

Trace(s, t, i, l, n) ==
    [station |-> s, ts |-> t, icao |-> i, last |-> l, snap |-> n, aborted |-> FALSE]
Aborted(t) == [t EXCEPT !.aborted = TRUE]

MCPartitions == {1, 2}

(* A crash made the processor write a trace again; the backfill re-folds two  *)
(* of them; two aircraft in one microsecond.                                *)
Refolded ==
    LET t1 == Trace("A", 1, "x", 1, 1)
        t2 == Trace("A", 1, "y", 1, 1)
        t3 == Trace("B", 2, "x", 2, 2)
    IN  1 :> <<t1, t2, t3>> @@ 2 :> <<t1, t3, Trace("A", 3, "y", 3, 1)>>

(* The processor folds A's message and then B's older one, crashes, and       *)
(* after the restore folds them in the other order.                         *)
RolledBack ==
    1 :> <<Aborted(Trace("A", 2, "x", 2, 1)), Aborted(Trace("B", 1, "x", 2, 2)),
           Trace("B", 1, "x", 1, 3), Trace("A", 2, "x", 2, 2)>> @@ 2 :> << >>
=============================================================================
