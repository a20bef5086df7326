----------------------------- MODULE MCArchiver -----------------------------
(* Topics for TLC.  Two partitions hold the events of two stations.         *)
EXTENDS Archiver, TLC

Row(s, t, l) == [station |-> s, ts |-> t, raw |-> l]

MCPartitions == {1, 2}

(* Two event dates; the first station's batch is sent again, the second          *)
(* station's backlog is late.                                               *)
Resent ==
    1 :> <<Row("A", 10, "a"), Row("A", 12, "b"), Row("A", 10, "a"), Row("A", 12, "b"),
           Row("A", 21, "c")>> @@
    2 :> <<Row("B", 11, "a"), Row("B", 20, "d"), Row("B", 13, "e")>>

(* Records that are not gateway events.                                    *)
Undecodable ==
    1 :> <<Row("none", 0, "x"), Row("A", 10, "a")>> @@
    2 :> <<Row("none", 0, "y")>>
=============================================================================
