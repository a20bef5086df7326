------------------------------- MODULE Gateway -------------------------------
(***************************************************************************)
(* The gateway's POST /v1/events: authenticate, decode and validate,        *)
(* produce every event to events.raw, and answer 200 only when the broker   *)
(* has acknowledged all of them.  Each request runs in its own goroutine;   *)
(* one whose client has gone away (h # peer) may run on for a while.        *)
(***************************************************************************)
EXTENDS Wire

(* The handler returns; its answer is read only if the client still waits.  *)
Return(h, status) ==
    /\ handler' = [handler EXCEPT ![h] = Idle]
    /\ peer'  = IF peer = h THEN NoPeer ELSE peer
    /\ reply' = IF peer = h THEN status ELSE reply

(* Mutant: a limit on the batch size, off by one.                           *)
ValidBelowLimit(events) ==
    /\ events # {} /\ Cardinality(events) < 2
    /\ \A e \in events : e.line # Blank

(* eventsRequest.Valid                                                     *)
Valid(events) ==
    /\ events # {}
    /\ \A e \in events : e.line # Blank

(* bearerAuth finds the station and decodeValid accepts the body.           *)
Accept(h) ==
    /\ handler[h].phase = "received"
    /\ Valid(handler[h].batch)
    /\ handler' = [handler EXCEPT ![h].phase = "producing"]
    /\ UNCHANGED <<peer, reply, log, faults>>

(* decodeValid answers 422.                                                *)
Reject(h) ==
    /\ handler[h].phase = "received"
    /\ ~Valid(handler[h].batch)
    /\ Return(h, "error")
    /\ UNCHANGED <<log, faults>>

(* The broker appends a request's records in the order of the request; two  *)
(* requests may interleave.                                                *)
Produce(h) ==
    /\ handler[h].phase = "producing"
    /\ \E e \in handler[h].todo :
         /\ \A f \in handler[h].todo : e.id <= f.id
         /\ log' = Append(log, e)
         /\ handler' = [handler EXCEPT ![h].todo = @ \ {e}]
    /\ UNCHANGED <<peer, reply, faults>>

(* Mutant: 200 before the broker has acknowledged every record.             *)
AnswerEarly(h) ==
    /\ handler[h].phase = "producing"
    /\ Return(h, "ok")
    /\ UNCHANGED <<log, faults>>

(* Publish has returned: every record is acknowledged.                      *)
Answer(h) ==
    /\ handler[h].phase = "producing"
    /\ handler[h].todo = {}
    /\ Return(h, "ok")
    /\ UNCHANGED <<log, faults>>

(* The database or the broker fails, or the 5 s deadline passes: 500.  When   *)
(* the client has gone away net/http cancels the request, at some time.  What *)
(* was appended by then stays in the topic.                                *)
Fail(h) ==
    /\ handler[h].phase # "idle"
    /\ IF peer = h THEN Fault("server") ELSE UNCHANGED faults
    /\ Return(h, "error")
    /\ UNCHANGED log

(* The gateway dies with every request it was serving.                     *)
Crash ==
    /\ \E h \in Handlers : handler[h].phase # "idle"
    /\ Fault("server")
    /\ handler' = [h \in Handlers |-> Idle]
    /\ reply' = IF peer # NoPeer THEN "reset" ELSE reply
    /\ peer' = NoPeer
    /\ UNCHANGED log

Serve(h) == Accept(h) \/ Reject(h) \/ Produce(h) \/ Answer(h)

Gateway == (\E h \in Handlers : Serve(h) \/ Fail(h)) \/ Crash
=============================================================================
