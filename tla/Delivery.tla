------------------------------ MODULE Delivery ------------------------------
(***************************************************************************)
(* One station and the gateway composed: the path of an event from the      *)
(* receiver's feed to the topic events.raw.                                *)
(***************************************************************************)
EXTENDS Station, Gateway

vars == <<stationVars, wireVars>>

Init == StationInit /\ WireInit

Next ==
    \/ Ingest \/ Publish \/ Machine
    \/ Gateway /\ UNCHANGED stationVars

Spec == Init /\ [][Next]_vars

(* The supervisor restarts a loop that exits, each loop runs on, the feed    *)
(* can be reached again, and a request is served unless a fault ends it.     *)
(* Reading is not fair: the sky may be empty.                               *)
Fairness ==
    /\ WF_vars(StartIngest) /\ WF_vars(Connect) /\ WF_vars(FlushDue)
    /\ WF_vars(Insert) /\ WF_vars(Commit) /\ WF_vars(Clear)
    /\ WF_vars(StartPublish) /\ WF_vars(Post)
    /\ WF_vars(PostSucceeds \/ PostRefused \/ PostDisconnected) /\ WF_vars(Ack)
    /\ WF_vars(Boot)
    /\ \A h \in Handlers : WF_vars(Serve(h) /\ UNCHANGED stationVars)

FairSpec == Spec /\ Fairness

-----------------------------------------------------------------------------
TypeOK == StationTypeOK /\ WireTypeOK

(* No event is lost between the buffer and the topic: a line that ingest has *)
(* committed (and no power loss took back) is in the buffer or in events.raw,*)
(* whatever is killed, interrupted, timed out or re-sent.  publish_once      *)
(* deletes a batch only after the gateway's 200, and exactly that batch.     *)
NoAcceptedEventLost == accepted \subseteq Lines(rows) \cup Lines(Published)

(* What StationDedup relies on: in the station's partition a line at or      *)
(* before the newest seen is a repeat, however requests overlap, because     *)
(* next_batch always offers the oldest rows and every request is produced in *)
(* order.                                                                  *)
RepeatsTrailNewest ==
    \A j \in DOMAIN log :
       (\E i \in 1..(j-1) : log[i].line >= log[j].line)
          => \E i \in 1..(j-1) : log[i].line = log[j].line

(* The station plus id identifies an event uniquely across re-sends: the     *)
(* AUTOINCREMENT counter never hands an id out again, even when the buffer   *)
(* has been drained or a transaction rolled back.  Without a power loss, that  *)
(* is, which takes the counter back together with the unsynced commits.       *)
IdIdentifiesEvent ==
    faults["power"] = 0 =>
       \A i, j \in DOMAIN log : log[i].id = log[j].id => log[i].line = log[j].line

(* The queue never wedges: whatever is in the buffer, publish empties it     *)
(* again and again.  A row the gateway refuses would stop it for ever, so    *)
(* this needs append's filter to agree with eventsRequest.Valid.            *)
QueueDrains == []<>(rows = {})

(* With only the network and the gateway failing, every line ingest has      *)
(* read reaches the topic: pending is flushed, posted and re-posted until    *)
(* the broker has it.                                                      *)
HeardReachesTopic ==
    \A n \in 1..MaxLines : (heard >= n) ~> (n \in Lines(Published))

-----------------------------------------------------------------------------
(* The strengthening under which NoAcceptedEventLost is inductive.          *)

UniqueIds(events) == \A e, f \in events : e.id = f.id => e = f

(* Ids are unique and none is above the counter, in the buffer and on disk;  *)
(* those of an open transaction lie just above it.                          *)
BufferInv ==
    /\ UniqueIds(rows) /\ \A e \in rows : e.id <= seq
    /\ UniqueIds(disk.rows) /\ \A e \in disk.rows : e.id <= disk.seq
    /\ UniqueIds(txn)
    /\ \A e \in txn : seq < e.id /\ e.id <= seq + Cardinality(txn)

(* What a handler no longer has to produce is in the topic.                 *)
HandlerInv ==
    \A h \in Handlers :
       /\ handler[h].phase = "received" => handler[h].todo = handler[h].batch
       /\ handler[h].phase = "producing" =>
            handler[h].batch \ handler[h].todo \subseteq Published

(* The publisher waits for a request that carries its own batch; that batch  *)
(* stays in the buffer, and is in the topic once a 200 was sent.            *)
PublishInv ==
    /\ ppc \in {"posting", "posted"} => batch \subseteq rows
    /\ peer # NoPeer => /\ ppc = "posting"
                        /\ reply = "none"
                        /\ handler[peer].phase # "idle"
                        /\ handler[peer].batch = batch
    /\ reply # "none" => ppc = "posting"
    /\ (reply = "ok" \/ ppc = "posted") => batch \subseteq Published

(* Neither the buffer nor its durable image has lost a line.                *)
LossInv ==
    /\ NoAcceptedEventLost
    /\ disk.accepted \subseteq Lines(disk.rows) \cup Lines(Published)

(* Every accepted event is accounted for: the inductive invariant behind     *)
(* NoAcceptedEventLost, about ids, requests in flight and what fsync saved.  *)
DeliveryInv == BufferInv /\ HandlerInv /\ PublishInv /\ LossInv

-----------------------------------------------------------------------------
(* The strengthening under which ids identify events.                        *)

(* What the handlers have yet to produce.                                   *)
Asked == UNION {handler[h].todo : h \in Handlers}

(* Without a power loss no two events anywhere share an id, and none is above the  *)
(* counter.                                                                *)
IdInv ==
    faults["power"] = 0 =>
       LET known == rows \cup Asked \cup Published
       IN  UniqueIds(known) /\ \A e \in known : e.id <= seq

-----------------------------------------------------------------------------
(* The strengthening under which the order of the topic is inductive.  A line may   *)
(* have several events: an interrupted flush is done again.  What matters is the     *)
(* first event of a line, by id, as long as the line has not been delivered.         *)

Delivered == Lines(Published)
Waiting == {pending[i] : i \in Kept(pending)}

(* Every line was heard; pending has them in order.  What the disk still has and the  *)
(* buffer has not was delivered, and nothing is accepted on disk only.            *)
StoreInv ==
    /\ IsFiniteSet(rows) /\ IsFiniteSet(disk.rows)
    /\ Lines(rows \cup Asked \cup txn \cup disk.rows \cup Published) \cup Waiting \subseteq 1..heard
    /\ \A i, j \in Kept(pending) : i < j => pending[i] < pending[j]
    /\ disk.accepted \subseteq accepted
    /\ \A e \in disk.rows : e \in rows \/ e.line \in Delivered
    /\ ipc = "off" <=> ppc = "off"

(* Some of the events has the line, before id.                               *)
Earlier(events, line, id) == \E e \in events : e.line = line /\ e.id < id

(* First events are in the order of their lines.                             *)
InOrder(events) ==
    \A e, f \in events :
       (e.id < f.id /\ f.line < e.line /\ f.line \notin Delivered) => Earlier(events, f.line, e.id)

(* They are in the buffer and on disk, and stay so when ingest commits or inserts      *)
(* what it has.                                                            *)
ChainInv ==
    /\ InOrder(rows) /\ InOrder(disk.rows)
    /\ \A e \in rows \cup Asked, line \in Lines(txn) \cup Waiting :
          (line < e.line /\ line \notin Delivered) => Earlier(rows, line, e.id)
    /\ \A e, f \in txn :
          (e.id < f.id /\ f.line < e.line /\ f.line \notin Delivered)
             => Earlier(rows \cup txn, f.line, e.id)
    /\ \A e \in txn, line \in Waiting :
          (line < e.line /\ line \notin Delivered) => Earlier(rows \cup txn, line, e.id)

(* A request has everything that is older than an event it has yet to produce and was    *)
(* not delivered; a power loss may leave it with more than the buffer has.         *)
RequestInv ==
    \A h \in Handlers :
       LET todo == handler[h].todo
       IN  /\ handler[h].phase = "idle" => todo = {}
           /\ UniqueIds(todo)
           /\ ipc # "off" => \A e \in todo : e.id <= seq /\ (e \in rows \/ e.line \in Delivered)
           /\ \A e \in todo, f \in rows \cup Asked : f.line \notin Delivered =>
                 /\ f.id <= e.id => f \in todo
                 /\ (e.id < f.id /\ f.line < e.line) => Earlier(todo, f.line, e.id)

(* Whatever was not delivered is newer than all that was.                     *)
FrontInv ==
    \A d \in Delivered, line \in Lines(rows \cup Asked \cup txn) \cup Waiting :
       line < d => line \in Delivered

(* The inductive invariant behind RepeatsTrailNewest and ImplementsHandover.     *)
OrderInv == StoreInv /\ ChainInv /\ RequestInv /\ FrontInv

-----------------------------------------------------------------------------
(* The abstract specification this one implements.                          *)
Promise == INSTANCE Handover WITH
    held     <- Lines(rows),
    promised <- accepted,
    topic    <- [i \in DOMAIN log |-> log[i].line],
    outages  <- faults["power"]

(* Station and gateway implement ordered at-least-once handover: a line enters *)
(* the topic as a repeat or as the newest so far, the buffer forgets only what  *)
(* the topic has, and a power loss takes back nothing it still owes.           *)
ImplementsHandover == Promise!Spec
=============================================================================
