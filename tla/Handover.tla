------------------------------ MODULE Handover ------------------------------
(***************************************************************************)
(* What the station and the gateway together promise about the lines of a   *)
(* feed: at-least-once, and in an order StationDedup can undo.  This module  *)
(* says nothing of batches, ids, requests or transactions; Delivery          *)
(* implements it.                                                          *)
(***************************************************************************)
EXTENDS Naturals, Sequences

VARIABLES
    heard,          \* lines 1..heard have been read from the feed
    held,           \* lines the station stores
    promised,       \* lines that must not be lost any more
    topic,          \* the station's partition of events.raw
    outages         \* power losses so far

vars == <<heard, held, promised, topic, outages>>

Delivered == {topic[i] : i \in DOMAIN topic}

Init ==
    /\ heard = 0 /\ held = {} /\ promised = {}
    /\ topic = <<>> /\ outages = 0

Hear ==
    /\ heard' = heard + 1
    /\ UNCHANGED <<held, promised, topic, outages>>

(* Lines are stored, and from then on promised.                             *)
Accept ==
    \E lines \in SUBSET (1..heard) :
       /\ held' = held \cup lines
       /\ promised' = promised \cup lines
       /\ UNCHANGED <<heard, topic, outages>>

(* A line enters the topic: one that is there already, or a newer one.       *)
Deliver ==
    \E line \in 1..heard :
       /\ line \in Delivered \/ \A old \in Delivered : old < line
       /\ topic' = Append(topic, line)
       /\ UNCHANGED <<heard, held, promised, outages>>

(* Only what is in the topic may be forgotten.                              *)
Release ==
    /\ held' \subseteq held
    /\ held \ held' \subseteq Delivered
    /\ UNCHANGED <<heard, promised, topic, outages>>

(* A power loss takes back some promises, never one that it then breaks.     *)
Outage ==
    /\ outages' = outages + 1
    /\ held' \subseteq held \cup Delivered
    /\ promised' \subseteq promised
    /\ promised' \subseteq held' \cup Delivered
    /\ UNCHANGED <<heard, topic>>

Next == Hear \/ Accept \/ Deliver \/ Release \/ Outage

Spec == Init /\ [][Next]_vars
=============================================================================
