------------------------------- MODULE Station -------------------------------
(***************************************************************************)
(* The station: ingest reads the receiver's feed into the SQLite buffer,    *)
(* publish drains the buffer to the gateway.  They are separate processes   *)
(* that share only the buffer; the supervisor restarts either when it dies.*)
(*                                                                         *)
(*   ingest   ipc      down, connecting, reading, or the step of flush()    *)
(*                     it is about to take: insert, commit, clear           *)
(*            why      what runs that flush: the loop, or the finally block *)
(*                     after the feed closed (eof) or while exiting (exit)  *)
(*            pending  lines read and not yet written                      *)
(*   buffer   rows, seq   the events table and its AUTOINCREMENT counter    *)
(*            txn      rows of ingest's open transaction (the write lock)   *)
(*            disk     what the last fsync made durable                     *)
(*   publish  ppc      down, idle, posting (request sent), posted (200 read)*)
(*            batch    what next_batch returned                            *)
(*                                                                         *)
(* heard and accepted are history: how many lines ingest read, and which    *)
(* of them it committed (less those a power loss took back).               *)
(***************************************************************************)
EXTENDS Wire

CONSTANTS
    MaxLines,       \* non-blank lines the feed will send
    IngestBatch,    \* INGEST_BATCH_SIZE
    PublishBatch    \* PUBLISH_BATCH_SIZE

ASSUME StationAssumption ==
    /\ MaxLines \in Nat
    /\ IngestBatch \in Nat \ {0}
    /\ PublishBatch \in Nat \ {0}

VARIABLES ipc, why, pending, heard, rows, seq, txn, accepted, disk, ppc, batch

ingestVars  == <<ipc, why, pending, heard>>
bufferVars  == <<rows, seq, txn, accepted, disk>>
publishVars == <<ppc, batch>>
stationVars == <<ingestVars, bufferVars, publishVars>>

StationTypeOK ==
    /\ ipc \in {"off", "down", "connecting", "reading", "insert", "commit", "clear"}
    /\ why \in {"loop", "eof", "exit"}
    /\ pending \in Seq(Nat)
    /\ heard \in Nat
    /\ rows \subseteq Event /\ seq \in Nat
    /\ txn \subseteq Event /\ IsFiniteSet(txn)
    /\ accepted \subseteq Nat
    /\ disk \in [rows : SUBSET Event, seq : Nat, accepted : SUBSET Nat]
    /\ ppc \in {"off", "down", "idle", "posting", "posted"}
    /\ batch \subseteq Event

StationInit ==
    /\ ipc = "down" /\ why = "loop" /\ pending = <<>> /\ heard = 0
    /\ rows = {} /\ seq = 0 /\ txn = {} /\ accepted = {}
    /\ disk = [rows |-> {}, seq |-> 0, accepted |-> {}]
    /\ ppc = "down" /\ batch = {}

-----------------------------------------------------------------------------
(* The buffer.                                                             *)

(* append's filter: the positions of the lines that are not blank.         *)
Kept(lines) == {i \in DOMAIN lines : lines[i] # Blank}

(* Mutant: the column is not AUTOINCREMENT, ids start above the rows left.  *)
InsertedAboveRows(lines, last) ==
    LET top == CHOOSE n \in Ids(rows \cup txn) \cup {0} : \A m \in Ids(rows \cup txn) : m <= n
    IN  {[id   |-> top + Cardinality({j \in Kept(lines) : j <= i}),
          line |-> lines[i]] : i \in Kept(lines)}

(* The rows INSERT makes of the kept lines when last is the newest id.      *)
Inserted(lines, last) ==
    {[id   |-> last + Cardinality({j \in Kept(lines) : j <= i}),
      line |-> lines[i]] : i \in Kept(lines)}

(* Mutants: ORDER BY id DESC; and a query that selects nothing but the ids.  *)
NewestBatch(limit) ==
    {e \in rows : Cardinality({f \in rows : f.id > e.id}) < limit}
IdsOnly(limit) ==
    {[id |-> e.id] : e \in {d \in rows : Cardinality({f \in rows : f.id < d.id}) < limit}}

(* ORDER BY id LIMIT limit.                                                *)
NextBatch(limit) ==
    {e \in rows : Cardinality({f \in rows : f.id < e.id}) < limit}

(* Mutant: DELETE FROM events without the ids.                              *)
AckedAll(events) == {e \in rows : events = {}}

(* DELETE FROM events WHERE id = ?, for every event of the batch.          *)
Acked(events) == {e \in rows : e.id \notin Ids(events)}

-----------------------------------------------------------------------------
(* Ingest.                                                                 *)

StartIngest ==
    /\ ipc = "down"
    /\ ipc' = "connecting"
    /\ UNCHANGED <<why, pending, heard, bufferVars, publishVars, wireVars>>

Connect ==
    /\ ipc = "connecting"
    /\ ipc' = "reading" /\ why' = "loop"
    /\ UNCHANGED <<pending, heard, bufferVars, publishVars, wireVars>>

(* The loop flushes a full batch before it reads again.                    *)
Read(line) ==
    /\ ipc = "reading"
    /\ Len(pending) < IngestBatch
    /\ line # Blank => heard < MaxLines
    /\ heard' = IF line = Blank THEN heard ELSE heard + 1
    /\ pending' = Append(pending, IF line = Blank THEN Blank ELSE heard + 1)
    /\ UNCHANGED <<ipc, why, bufferVars, publishVars, wireVars>>

(* A full batch, or flush_after has passed: either way pending is not empty.*)
FlushDue ==
    /\ ipc = "reading"
    /\ pending # <<>>
    /\ ipc' = "insert"
    /\ UNCHANGED <<why, pending, heard, bufferVars, publishVars, wireVars>>

(* Mutant: no finally block, what is pending is forgotten.                  *)
FeedLostUnflushed ==
    /\ ipc = "reading"
    /\ ipc' = "connecting"
    /\ pending' = <<>>
    /\ UNCHANGED <<why, heard, bufferVars, publishVars, wireVars>>

(* The feed closes or the socket fails: the finally block, then reconnect. *)
FeedLost ==
    /\ ipc = "reading"
    /\ IF pending = <<>>
         THEN ipc' = "connecting" /\ why' = why
         ELSE ipc' = "insert" /\ why' = "eof"
    /\ UNCHANGED <<pending, heard, bufferVars, publishVars, wireVars>>

Insert ==
    /\ ipc = "insert"
    /\ ipc' = "commit"
    /\ txn' = txn \cup Inserted(pending, seq + Cardinality(txn))
    /\ UNCHANGED <<why, pending, heard, rows, seq, accepted, disk, publishVars, wireVars>>

Commit ==
    /\ ipc = "commit"
    /\ ipc' = "clear"
    /\ rows' = rows \cup txn
    /\ seq' = seq + Cardinality(txn)
    /\ accepted' = accepted \cup Lines(txn)
    /\ txn' = {}
    /\ UNCHANGED <<why, pending, heard, disk, publishVars, wireVars>>

Clear ==
    /\ ipc = "clear"
    /\ pending' = <<>>
    /\ ipc' = CASE why = "loop" -> "reading"
                [] why = "eof"  -> "connecting"
                [] why = "exit" -> "down"
    /\ UNCHANGED <<why, heard, bufferVars, publishVars, wireVars>>

(* The process is gone: memory is lost and SQLite rolls the transaction back.*)
IngestGone ==
    /\ ipc' = "down" /\ why' = "loop"
    /\ pending' = <<>>
    /\ txn' = {}

(* An exception unwinds ingest: the finally block flushes what is pending,   *)
(* unless the exception came out of that block's own flush.  A transaction   *)
(* the interrupted flush left open is still open in the next one.            *)
Unwind ==
    IF ipc = "connecting" \/ pending = <<>> \/ (ipc # "reading" /\ why # "loop")
      THEN IngestGone
      ELSE /\ ipc' = "insert" /\ why' = "exit"
           /\ UNCHANGED <<pending, txn>>

(* SIGTERM becomes SystemExit, wherever the interpreter is.                 *)
Signal ==
    /\ ipc \notin {"off", "down"}
    /\ Fault("signal")
    /\ Unwind
    /\ UNCHANGED <<heard, rows, seq, accepted, disk, publishVars, handler, peer, reply, log>>

(* The database is locked or the disk is full: not an OSError, so it exits. *)
SqliteError ==
    /\ ipc \in {"insert", "commit"}
    /\ Fault("sqlite")
    /\ Unwind
    /\ UNCHANGED <<heard, rows, seq, accepted, disk, publishVars, handler, peer, reply, log>>

KillIngest ==
    /\ ipc \notin {"off", "down"}
    /\ Fault("kill")
    /\ IngestGone
    /\ UNCHANGED <<heard, rows, seq, accepted, disk, publishVars, handler, peer, reply, log>>

-----------------------------------------------------------------------------
(* Publish.                                                                *)

StartPublish ==
    /\ ppc = "down"
    /\ ppc' = "idle"
    /\ UNCHANGED <<ingestVars, bufferVars, batch, wireVars>>

(* publish_once reads a batch and post_json sends it.                      *)
Post ==
    /\ ppc = "idle"
    /\ rows # {}
    /\ batch' = NextBatch(PublishBatch)
    /\ ppc' = "posting"
    /\ \E h \in Handlers :
         /\ handler[h].phase = "idle"
         /\ handler' = [handler EXCEPT ![h] = [phase |-> "received",
                                               batch |-> batch',
                                               todo  |-> batch']]
         /\ peer' = h
    /\ UNCHANGED <<ingestVars, bufferVars, reply, log, faults>>

PostSucceeds ==
    /\ ppc = "posting" /\ reply = "ok"
    /\ ppc' = "posted"
    /\ reply' = "none"
    /\ UNCHANGED <<ingestVars, bufferVars, batch, handler, peer, log, faults>>

(* A non-2xx answer (HTTPError is a URLError): main sleeps and retries.     *)
PostRefused ==
    /\ ppc = "posting" /\ reply = "error"
    /\ ppc' = "idle" /\ batch' = {}
    /\ reply' = "none"
    /\ UNCHANGED <<ingestVars, bufferVars, handler, peer, log, faults>>

(* No connection, or no answer in 10 s: URLError or TimeoutError.  The       *)
(* gateway may still be serving the request, and its answer is not read.    *)
GiveUp ==
    /\ ppc = "posting"
    /\ Fault("net")
    /\ ppc' = "idle" /\ batch' = {}
    /\ peer' = NoPeer /\ reply' = "none"
    /\ UNCHANGED <<ingestVars, bufferVars, handler, log>>

(* The connection breaks before the status line: http.client raises         *)
(* RemoteDisconnected, which is not one of POST_ERRORS, and main exits.     *)
PostDisconnected ==
    /\ ppc = "posting" /\ reply = "reset"
    /\ ppc' = "down" /\ batch' = {}
    /\ reply' = "none"
    /\ UNCHANGED <<ingestVars, bufferVars, handler, peer, log, faults>>

(* The DELETE waits for the write lock.                                    *)
Ack ==
    /\ ppc = "posted"
    /\ txn = {}
    /\ rows' = Acked(batch)
    /\ ppc' = "idle" /\ batch' = {}
    /\ UNCHANGED <<ingestVars, seq, txn, accepted, disk, wireVars>>

(* Killed, signalled, or an uncaught exception (a lock held for too long).  *)
PublishDies ==
    /\ ppc \in {"idle", "posting", "posted"}
    /\ Fault("kill")
    /\ ppc' = "down" /\ batch' = {}
    /\ peer' = NoPeer /\ reply' = "none"
    /\ UNCHANGED <<ingestVars, bufferVars, handler, log>>

-----------------------------------------------------------------------------
(* The machine.                                                            *)

(* Mutant: the counter is written back without the rows.                    *)
TornSync ==
    /\ Possible("power")
    /\ disk' = [disk EXCEPT !.seq = seq, !.accepted = accepted]
    /\ UNCHANGED <<ingestVars, rows, seq, txn, accepted, publishVars, wireVars>>

(* synchronous=NORMAL: commits reach the disk later, at a checkpoint or when *)
(* the kernel writes the WAL back.  What is on the disk can be observed only *)
(* while power may still fail, so the model stops syncing after that.        *)
Sync ==
    /\ Possible("power")
    /\ disk # [rows |-> rows, seq |-> seq, accepted |-> accepted]
    /\ disk' = [rows |-> rows, seq |-> seq, accepted |-> accepted]
    /\ UNCHANGED <<ingestVars, rows, seq, txn, accepted, publishVars, wireVars>>

PowerLoss ==
    /\ ipc # "off"
    /\ Fault("power")
    /\ ipc' = "off" /\ why' = "loop" /\ pending' = <<>> /\ txn' = {}
    /\ rows' = disk.rows /\ seq' = disk.seq /\ accepted' = disk.accepted
    /\ ppc' = "off" /\ batch' = {}
    /\ peer' = NoPeer /\ reply' = "none"
    /\ UNCHANGED <<heard, disk, handler, log>>

(* Booting takes longer than the gateway keeps a request (5 s).             *)
Boot ==
    /\ ipc = "off" /\ ppc = "off"
    /\ \A h \in Handlers : handler[h].phase = "idle"
    /\ ipc' = "down" /\ ppc' = "down"
    /\ UNCHANGED <<why, pending, heard, bufferVars, batch, wireVars>>

Ingest ==
    \/ StartIngest \/ Connect
    \/ \E line \in {Blank, 1} : Read(line)
    \/ FlushDue \/ FeedLost \/ Insert \/ Commit \/ Clear
    \/ Signal \/ SqliteError \/ KillIngest

Publish ==
    \/ StartPublish \/ Post \/ PostSucceeds \/ PostRefused
    \/ GiveUp \/ PostDisconnected \/ Ack \/ PublishDies

Machine == Sync \/ PowerLoss \/ Boot
=============================================================================
