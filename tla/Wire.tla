-------------------------------- MODULE Wire --------------------------------
(***************************************************************************)
(* What the station and the gateway share: the events they exchange, the   *)
(* HTTP connections between them, the topic events.raw, and the faults the  *)
(* environment may inject.                                                 *)
(*                                                                         *)
(* An SBS line is abstracted to the order in which ingest heard it: line n *)
(* is the pair (ts, raw) of the n-th non-blank line.  Blank stands for a    *)
(* line whose raw is the empty string.                                     *)
(***************************************************************************)
EXTENDS Integers, Sequences, FiniteSets

CONSTANTS
    Handlers,       \* HTTP requests the gateway can be serving at one time
    NoPeer,         \* the publisher has no open request
    MaxFaults,      \* how often each kind of fault may occur
    MaxKinds        \* how many kinds of fault may occur in one behaviour

Faults == {"kill", "signal", "sqlite", "power", "net", "server"}

ASSUME WireAssumption ==
    /\ IsFiniteSet(Handlers)
    /\ Handlers # {}
    /\ NoPeer \notin Handlers
    /\ MaxFaults \in [Faults -> Nat]
    /\ MaxKinds \in Nat

VARIABLES
    handler,        \* the gateway's requests, in whatever state they are
    peer,           \* the handler the publisher is waiting for, or NoPeer
    reply,          \* what that handler (or its death) answered
    log,            \* the station's partition of events.raw, append-only
    faults          \* faults injected so far

wireVars == <<handler, peer, reply, log, faults>>

Blank == 0

(* One buffered event: the id SQLite assigned and the line it holds.       *)
Event == [id : Nat, line : Nat]

Lines(events) == {e.line : e \in events}
Ids(events)   == {e.id : e \in events}
Published     == {log[i] : i \in DOMAIN log}

Idle == [phase |-> "idle", batch |-> {}, todo |-> {}]

WireTypeOK ==
    /\ handler \in [Handlers -> [phase : {"idle", "received", "producing"},
                                 batch : SUBSET Event,
                                 todo  : SUBSET Event]]
    /\ peer \in Handlers \cup {NoPeer}
    /\ reply \in {"none", "ok", "error", "reset"}
    /\ log \in Seq(Event)
    /\ faults \in [Faults -> Nat]

WireInit ==
    /\ handler = [h \in Handlers |-> Idle]
    /\ peer = NoPeer
    /\ reply = "none"
    /\ log = <<>>
    /\ faults = [f \in Faults |-> 0]

(* A fault of kind f may still occur.                                      *)
Possible(f) ==
    /\ faults[f] < MaxFaults[f]
    /\ Cardinality({k \in Faults : faults[k] > 0} \cup {f}) <= MaxKinds

Fault(f) ==
    /\ Possible(f)
    /\ faults' = [faults EXCEPT ![f] = @ + 1]
=============================================================================
