# Listening Post: TLA+ specifications

Listening Post collects ADS-B lines heard by stations on Raspberry Pis, forwards
them over HTTP to a gateway, and processes them behind Kafka: an archive of
everything, a live picture of the sky, and a history of every aircraft. These
modules specify how an event travels through the system and what may happen to
it on the way. TLC checks them on small instances; TLAPS proves the
safety properties of the runs, and three refinements, for all values of the
constants that meet the assumptions, some of them under conditions on the topic or
the archive; the table under Proofs names each condition, and each property names
the cases it excepts.

    tlc -workers 4 -config Delivery_safety.cfg MCDelivery
    tlapm DeliveryProofs.tla

`PROJECT.json` lists components, runs, mutants, hazards, findings and theorems,
and maps every definition to the lines it models.

## The system

| Component | State | Operations | Talks to |
|---|---|---|---|
| ingest (`station/ingest.py`) | lines read and not yet written | read, flush by size or time, flush on exit, reconnect | dump1090 by TCP; the buffer |
| buffer (`station/buffer.py`) | events table, AUTOINCREMENT counter, WAL | append, next_batch, ack, sample | shared by the three loops, one SQLite file |
| publish (`station/publish.py`, `gateway.py`) | the batch being posted | read a batch, POST, delete after 2xx, retry | the buffer; the gateway by HTTP |
| heartbeat (`station/heartbeat.py`) | the previous sample | sample, report | the buffer read-only; the gateway |
| supervisor (`station/supervisor.py`) | child processes | start, restart, terminate | signals to the loops |
| gateway (`internal/gateway`) | requests in progress, readiness | authenticate, validate, produce, answer; heartbeats; probes | Postgres, Kafka `events.raw` |
| consume loop (`internal/consume`) | positions, pending records | poll, decode, flush, commit | Kafka consumer group |
| archiver (`internal/archiver`) | Parquet files | group by date, write, rename, commit | `events.raw`; files |
| history writer (`internal/history`) | table `aircraft_traces` | insert, commit | `aircraft.state_history` and `.replay`; Postgres |
| processor (`flink/`) | mark per station, state and timer per aircraft, checkpoint | decode, dedup, fold, sweep, checkpoint, restore | `events.raw` to `aircraft.state`, `aircraft.state_history` |
| backfill (`cmd/backfill`, `scripts/backfill.sh`) | none of its own | replay the archive, wait for lags | archive to `events.raw.replay`, a second processor |
| map (`map/map.py`) | dictionary of snapshots | fold | `aircraft.state` |
| registry (`scripts/stations.sh`, `stations.go`) | stations, tokens | add, revoke, look up | Postgres |
| server process (`main.go`) | one context for the three Go services | start all, stop all with the first that returns | signals; gateway, archiver, history |

What is hard: three station processes share one file and can die at any point;
a publisher that gives up leaves a request running at the gateway, so requests
of one station overlap; delivery is at-least-once, and everything downstream
must recognise repeats without a common id; consumers store first and commit
offsets later; the processor combines processing-time timers with event-time
data and goes back to a checkpoint when it fails. Correctness of each part:

* station and gateway: no committed event is lost, repeats are recognisable,
  the queue never wedges, everything heard arrives;
* archiver and history: an offset is committed only when its record is stored
  and stays stored, and everything is stored in the end;
* server process: one failure stops all of it, a stop loses nothing, readiness is
  true;
* supervisor: what dies is restarted, a stop ends everything and flushes ingest;
* heartbeats and registry: reports are true, stored once, and accepted from exactly
  the stations that are not revoked;
* backfill: a run that says it is complete has stored what the archive holds;
* processor: each event counts once, values never go back in time, the compacted
  topic is current, aircraft are forgotten exactly when they fall silent.

## Modules

| Module | Models | Used by |
|---|---|---|
| `Wire` | what station and gateway share: requests, the topic, fault budgets | `Station`, `Gateway` |
| `Station` | ingest, buffer, publish, power | `Delivery` |
| `Gateway` | `POST /v1/events` | `Delivery` |
| `Delivery` | the composition; properties and inductive invariant | `MCDelivery`, `DeliveryProofs` |
| `Handover` | abstract: at-least-once, in an order a dedup can undo | implemented by `Delivery` |
| `Consume` | `consume.Batch`; its inductive invariant | `Archiver`, `History`, `ConsumeProofs` |
| `Archiver` | the archive; properties and inductive invariant | `MCArchiver`, `ArchiverProofs` |
| `History` | the history writer | `MCHistory`, `Server` |
| `Durable` | abstract: committed offsets cover only what is stored | implemented by `Archiver` and `History` |
| `Server` | the server process: three services, gateway life cycle, probes, drain, on top of `History` | `MCServer`, `ServerProofs` |
| `Supervisor` | the station's supervisor, its children and systemd | its own runs, `SupervisorProofs` |
| `Heartbeat` | status reports, token lookup, the registry | `MCHeartbeat`, `HeartbeatProofs` |
| `Aircraft` | the fold of one message into one aircraft's state | `Processor`, `Backfill` |
| `Processor` | the Flink job; properties and inductive invariant | `MCProcessor`, `ProcessorProofs` |
| `Backfill` | the archive replayed through a shadow processor into the history table; properties and inductive invariant | `MCBackfill`, `BackfillProofs` |

`ConsumeProofs` holds the lemmas about the loop that `ArchiverProofs` and
`ServerProofs` share; `ServerProofs` has the history writer by itself first, and
then the process around it.

The `MC` modules define fault budgets, topics and archives for TLC. Operators
under a comment that begins with "Mutant" are no part of the specification: each
is a plausible wrong version of the definition after it, which `PROJECT.json`
pairs with the property that must notice.

### Station, Gateway, Delivery

A line is represented by the order in which ingest heard it; `Blank` is an empty
line. Ingest's control state `ipc` names the point it has reached: each of the
three steps of `flush()` (insert, commit, clear) is an action, so that a signal,
an error or a kill can come between them. `why` says whether the loop or the
finally block runs the flush. `Unwind` is what an exception does at each point,
including the flush that is repeated within the transaction an interrupted one
left open, and the finally block that is interrupted itself.

The buffer is the set `rows` of `[id, line]`, the counter `seq` and the open
transaction `txn`; `disk` is what an fsync last saved, and a power loss goes back
to it. `Post` reads a batch and opens a request in any idle handler; `GiveUp`
leaves it behind. A handler without its client may go on producing or be
cancelled at any time. `Produce` appends one record; requests interleave.

`MaxFaults` gives each kind of fault a budget (`kill`, `signal`, `sqlite`,
`power`, `net`, `server`), and `MaxKinds` says how many kinds may occur in one
behaviour. The proofs hold for every budget.

`Boot` waits until no request is in progress: a Pi takes longer to boot than the
five seconds after which the gateway ends a request.

`Handover` knows lines that are held, promised and delivered, and nothing of
batches, ids, requests or transactions. `Delivery` implements it with the buffer's
lines as `held`, `accepted` as `promised` and the topic's lines as `topic`.

### Consume, Archiver, History

The topic is a constant, and a poll returns any non-empty piece of what is left:
a record that has not been produced yet is one no poll has returned. A record is
named by its position `<<partition, offset>>`. `Stop` covers kills, failed writes,
failed commits and failed fetches; `Close` is the cancelled context, whose last
poll may have returned records, with the flush that follows (`closing`).

The archive maps a path (directory, first time, last time) to a set of rows.
`reused` remembers the names under which a file with committed records was replaced
by one that lacks some of them. History's statements commit one by one, as the
comment in `store.go` has it; a pgx batch is one implicit transaction, so this
allows more than happens.
History's table is a set of rows, and `Stored` is the insert with its conflict
clause. In the table's topic `aborted` marks records of rolled-back transactions.
Both implement `Durable`: offsets only advance, over records that are stored, and
storing never takes a committed record away.

### Server

`History`'s loop, the gateway's life (connect, bind in either order, ready,
unready, drain, drain the admin port) and the archiver's, under one context. A
service that returns cancels it; the process exits when all have returned. One
request on the public port and one `/readyz` probe stand for the clients; a probe
loads `ready` and only later answers. A listener may die at any time from its bind
on, before the gateway is ready and during the drain too, and so may both; `died`
has those that did, which `errc` holds until the gateway looks. `clean`
records that nothing has failed since the launch, which is when a stop must lose
nothing: it becomes false as well when a drain gives up on a client, since then
`Shutdown` returns an error. A missing setting is a service that returns before it connects.

### Supervisor

The children are none, starting (no handler yet), running, closing, unwinding or
dead. Closing is ingest's flush after the feed has closed, which runs in the same
finally block as the flush of an unwinding child: one signal cuts the former short,
a second one the latter. The lines lost are `cut` or `lost` accordingly. The supervisor's own steps are separate:
starting children before the handler is installed, the sleep before a restart,
the child that is started but not yet in `procs`, terminating, joining, killing,
and multiprocessing's join at exit. A stop reaches the supervisor alone (`kill`)
or its group (Ctrl-C, and systemd's default). Of the loops only what a stop can
lose is kept: whether ingest has lines pending.

### Heartbeat

The buffer is reduced to the two numbers the reports are derived from, changed by
ingest's appends and publish's deletes between samples. The clock advances
between two readings and may be set back. Requests are records of their own, so a
late one is still in flight when the next report is built; lookup and insert are
separate steps, with the registry's commands between them.

### Processor, Aircraft

A record is a parsed line: station, time, aircraft, dedup fingerprint and the
fields it carries. One record passes all operators in one step: a station's
records keep their order through both shuffles, records of different stations
meet in an arbitrary order here as there, and barriers make a checkpoint a cut.
A checkpoint saves state, offsets and what the sinks have written; `Restore` goes
back to all of it. `life` and `folded` are history variables.

### Backfill

The archive is a set of files, read as `ReadDay` does: all files of a day, sorted,
equal rows once. `Replay` produces a batch, ending where its day ends. The shadow
starts from the group's offsets with empty state, drops repeats and folds with
`Aircraft`'s operators; `Forget` is the expiry of an aircraft, whose dedup mark
stays. Its sink sends what it holds in any order (`Send`), each trace to the
partition of its aircraft, in an open transaction; a checkpoint ends the transaction
and commits the group's offsets, for partitions the shadow knows a position of. The
broker writes the transaction's markers later (`WriteMarker`), perhaps after traces
of the next one. For each partition `ahead` is what lies after the history group's
offset, traces and markers, so that the lag is its length; `seen` has the partitions
the group has an offset of. Both of the script's waits see committed partitions
only, one by one, the second with a slack of 1. A run may be interrupted, fail with
part of a batch produced, or lose the shadow; a later run finds what it left: the
topic, the offsets, perhaps the shadow, with or without its aircraft.

## Runs

| Run | Question | Distinct states |
|---|---|---|
| `delivery_safety` | Is any committed event lost, misordered or given another's id; is `Handover` implemented? | 1.2 M |
| `delivery_liveness` | Does the queue drain, does everything heard arrive? | 207 k |
| `archiver_resends` | Is what is committed archived, whatever is sent twice and stopped when; is `Durable` implemented? | 206 k |
| `history_recovers` | The same for traces, with replayed copies | 4 k |
| `processor_fold` | Is each event folded once, the newest value kept, the state topic current, each timer chain alone? | 173 k |
| `server_lifecycle` | Does one failure end the process, a stop lose nothing, a probe hear the truth, poison stay uncommitted? | 319 k |
| `supervisor_restarts` | Is what dies restarted, does a stop end everything, is ingest's batch flushed? | 21 k |
| `heartbeat_reports` | Are reports true and stored once, are only revoked stations refused, and those always? | 1.5 M |
| `backfill_reruns` | Is a complete backfill complete, are its traces whole, do its waits end? | 378 k |

Bounds. *Delivery*: two lines with batches of two make a full and a partial batch
and a buffer that is drained and filled again; two handlers make one abandoned and
one current request; two kinds of fault, each once, are what the counterexamples
to the mutants need. The liveness run has three lines, so that one batch overtakes
part of another. *Archiver*: two stations over two dates, one batch
sent twice, in batches of up to three and with two crashes, give overlapping
re-reads and a re-send that takes the name of an earlier file. *Processor*:
the clock goes beyond one sweep and one expiry, a millisecond has two ticks, and
both stations re-send. *Server*: two failures, so that a service fails while another
one's failure is being handled; the poison record shares its partition with a good
one. *Supervisor*: three children and two deaths, so that one dies during the
other's restart. *Heartbeat*: two disturbances (`MaxTroubles`) of clock, network,
database or registry, three readings of the clock and two tokens. *Backfill*: two
runs and one disturbance, and aircraft that may expire between the runs at no cost;
two stations with an aircraft each, one over two days, files that overlap, and a
third partition that stays empty. The history writer may be two entries behind
(`MaxAhead`) and one marker late (`MaxDue`): enough for two unread traces, for a
trace before its marker, and for a partition that ends in two markers.
Invariants with theorems hold
beyond these bounds.

Deadlock is checked for `Delivery` and `Server`. The other runs end when the topic
is used up, the clock's bound is reached or the station is stopped, so it is
switched off there. Symmetry is used for handlers and tokens, in runs without
liveness properties.

Fairness. `Delivery`: the supervisor restarts a loop that exits, loops and
requests make progress, and the feed can be reached again (`Restart=always`, the
loops' own retries, the gateway's deadline). Reading is not fair: the sky may be
empty. Faults are bounded in number, which is what "eventually delivered" needs.
`Archiver`, `History`: compose restarts the process, polls return, the flush
timer fires, the disk or database answers. `Server`: goroutines run on, the drain
window ends by its deadline, and what is cancelled returns; clients, polls and
restarts are not assumed. `Supervisor`: the supervisor and systemd run on, joins
time out; that a child's flush ever ends is not assumed. `Backfill`: as long as
something can be done by script, shadow, broker or history writer, something is
(`Progress`): the script polls, checkpoints are taken, markers are written; runs and
disturbances are not assumed.

### Statements the code does not keep

Three runs end in a violation. Each checks one sentence of the documentation or
of a comment; `PROJECT.json` quotes it.

* `supervisor_stop`: a stop that reaches the process group makes ingest flush, and
  the supervisor's own `terminate()` sends a second SIGTERM into that flush.
* `archiver_undecodable`: undecodable rows all have the zero time, so the file of
  one batch replaces that of another.
* `history_uncommitted`: traces of aborted transactions are stored.

The passing properties name the exceptions they need, or their runs stay clear of
cases of this kind, which the model shows when its constants allow them:

* a power loss takes back every commit that was not fsynced
  (`synchronous=NORMAL`), which can be more than the one batch README.md:252 speaks
  of, and the AUTOINCREMENT counter with it: `IdIdentifiesEvent` is stated for
  behaviours without a power loss;
* a signal that finds ingest in the finally block's own flush (the feed has just
  closed) loses the lines of that flush: `Unwind`. The one SIGTERM of a stop of the
  supervisor can do this, so `SupervisorStopFlushes` excepts those lines (`cut`);
* a connection that breaks before the status line raises `RemoteDisconnected`,
  which is not one of `POST_ERRORS`: publish exits and is restarted
  (`PostDisconnected`), although README.md:56 says network errors never exit it;
* two batches of one date with equal first and last times share a path. Delivery
  re-sends, so this needs no coincidence of times: the copies of a file's first and
  last record, flushed without one that lay between them, replace the file, and
  that record is gone although its offset is committed. `CommittedArchived`,
  `EverythingArchived` and the refinement except the records in the range of a name
  that was used again like this (`Overwritten`);
* two traces of one aircraft and station in one microsecond share a key:
  `history_recovers` has none such;
* the dedup remembers one fingerprint: a line is folded again if the station sent
  another one of the same microsecond between its two copies, which
  `EventsFoldedOnce` states as its one exception;
* times of fields are compared in milliseconds: in `processor_fold` messages of
  different stations are a millisecond apart;
* a report that repeats the `reported_at` of another, after a step of the clock, is
  accepted and not stored: `AcceptedReportStored` allows it when the clock was set
  back;
* `wait_lag` ignores partitions that have no committed offset, of the shadow's group
  and of the history writer's, so a backfill may say it is complete before such a
  partition is folded or stored: `BackfillComplete` excepts it (`skipped`);
* the slack of 1 that is meant for a commit marker may also be the last trace of a
  partition whose marker is not written yet: `BackfillComplete` allows one unread
  trace for each partition;
* where two transactions overlap, a partition ends in two markers, a lag of 2 for
  ever, and the second wait does not end until another run moves it: the comment at
  `scripts/backfill.sh:12` counts on one. `RunEnds` excepts this (`Overlapped`) and a
  shadow that is lost while the script waits;
* a shadow that replaces a lost one in the middle of a replay starts at the group's
  offsets with empty state, and drops the next replay of what it has folded as
  repeats, so the traces of partial states stay: `TracesWhole` excepts it
  (`headless`). A shadow that an interrupted run left up forgets its aircraft after
  `EXPIRE_SECONDS` and keeps their marks, with the same effect, and so does a replay
  that takes longer than that: `TracesWhole` excepts the traces of such aircraft
  (`forgot`). A station's two lines of one microsecond have it too, by the dedup's
  one fingerprint: `backfill_reruns` and the theorem need distinct times
  (`TimesTell`);
* README.md:158 calls the backfill idempotent. The shadow reads its partitions in
  any order, so an aircraft that several stations hear may fold in another order
  the second time and give traces with other keys: `TracesWhole` says what is the
  same in every run, which is the station's own part.

## Proofs

| Module | Theorem | States |
|---|---|---|
| `DeliveryProofs` | `TypeCorrect` | `[]TypeOK` |
| | `InvCorrect` | `[]DeliveryInv` |
| | `NoEventLost` | `[]NoAcceptedEventLost` |
| | `IdsIdentify` | `[]IdIdentifiesEvent` |
| | `OrderCorrect` | `[]OrderInv` |
| | `RepeatsTrail` | `[]RepeatsTrailNewest` |
| | `DeliveryImplementsHandover` | `ImplementsHandover`, the refinement of `Handover` |
| `ArchiverProofs` | `ArchiveKept` | `[]CommittedArchived` |
| | `ArchiverImplementsDurable` | the refinement of `Durable` |
| `ServerProofs` | `TypeCorrect`, `PoisonStopsPartition` | `[]TypeOK`, `[]PoisonNotPassed` of the history writer |
| | `HistoryKept`, `HistoryImplementsDurable` | `[]HistoryComplete` and the refinement of `Durable`, if `KeysIdentify` |
| | `ServerTypeCorrect`, `PoisonNeverPassed` | `[]ServerTypeOK`, `[]PoisonNotPassed` of the process |
| | `ReadyMeansServing` | `[]ReadinessHonest` |
| | `CleanStopLosesNothing` | `StopLosesNothing` |
| | `ProcessKeepsHistory` | `[]HistoryComplete` of the process, if `KeysIdentify` |
| `SupervisorProofs` | `TypeCorrect`, `StopFlushes` | `[]TypeOK`, `[]SupervisorStopFlushes` |
| `HeartbeatProofs` | `TypeCorrect` | `[]TypeOK` |
| | `BadReportsExplained`, `PublishTimesTrue` | `BadReportOnlyAfterStep`, `PublishTimeTrue` |
| | `AcceptedStored` | `[]AcceptedReportStored` |
| | `UnauthorizedMeansRevoked`, `RevokedSilenced` | `[]UnauthorizedOnlyIfRevoked`, `[]RevokedStationSilenced` |
| `ProcessorProofs` | `TypeCorrect` | `[]TypeOK` |
| | `ChainPerAircraft`, `TopicCurrent` | `[]SweepArmed`, `[]StateTopicCurrent` |
| | `OnlySilentForgotten` | `ForgottenOnlyWhenSilent` |
| | `FoldedOnce` | `[]EventsFoldedOnce` |
| | `NothingIsDropped` | `[]NothingDropped`, if `RepeatsTrail` |
| | `NewestMessageWins` | `[]NewestWins`, if `MillisTell` |
| `BackfillProofs` | `InvCorrect`, `CompleteIsComplete` | `[]BackfillInv`, `[]BackfillComplete`, if `InOrder` |
| | `WholeTraces` | `[]TracesWhole`, if `InOrder` and `TimesTell` |

Every strengthening named below is defined beside the properties it serves, and
holds on the runs' instances.

*Delivery, losses.* `NoAcceptedEventLost` is not inductive: a delete is harmless
only because the deleted rows are in the topic. `DeliveryInv` adds why: what a
handler has finished is published (`HandlerInv`); the handler a publisher waits
for carries the publisher's own batch, and a 200 means the batch is published
(`PublishInv`); deleting by id deletes exactly the batch because ids are unique
and below the counter, also in an open transaction and on disk (`BufferInv`); and
the durable image, which a power loss restores, has lost nothing either
(`LossInv`). `InsertedFacts` shows that the ids of an insert are unique and lie
just above the counter, by counting the kept lines before each one. `IdInv` says
the same of all events anywhere, as long as no power loss has taken the counter
back.

*Delivery, order.* A line may have several events, since an interrupted flush is
done again, and requests overlap, so neither ids nor batches are in order of
lines. What is in order is the *first* event of a line that has not been
delivered. `ChainInv` says so of the buffer and of the disk, and that it stays so
when ingest inserts or commits what it has; `RequestInv` says that a request has
everything that is older than an event it has yet to produce and was not
delivered; `FrontInv` that whatever was not delivered is newer than all that was;
`StoreInv` ties disk, buffer and pending lines together. `next_batch` keeps
`RequestInv` because it takes the oldest ids (`NextBatchOldest`), a produce keeps
`FrontInv` because it takes a request's oldest event (`ProducedNewest`), and a
power loss keeps both because what the disk has and the buffer has not was
delivered. The refinement follows: reading hears a line, a commit accepts it, a
produce delivers a repeat or the newest line, a delete releases what was
delivered, a power loss takes back only what it breaks no promise about, and
every other step stutters.

*Consume loop.* `BatchInv` says that pending is exactly what lies between the
committed offset and the position, `DecodedInv` that it was decoded and that no
committed offset is behind a record that was not.

*Archiver.* A file can disappear only by being replaced by one of the same name.
`FileInv` says that a committed record is in a file named by the times of committed
records, or in the range of a name in `reused`; and that a pending one whose
directory is written is in a file named by the times of pending records. A write
that replaces the file of a committed record either has all its rows or enters the
name in `reused`, since committed records name it. So nothing is assumed of the
times: re-sent copies and stations that hear in the same microsecond are included.

*History.* `RowInv` says that what is committed is in the table, and so is what a
flush has inserted so far. `KeysIdentify` is needed because the insert ignores
conflicts: of two traces with one key only the first is stored. For both sinks a
step that commits is `Durable!Commit`, since the position it commits is not
behind the committed offset and what it covers is stored; every other step leaves
the offsets alone and is `Durable!Store`.

*Server.* The loop inside the process is stopped by other services' failures as
well, so `ServerInv` says when the loop is up and that a writer that returned
undisturbed has committed what it read (`WriterInv`), which listeners are bound at
each of the gateway's steps (`GatewayInv`), and who may still be waited for
(`ClientInv`). A clean stop loses nothing because each part of this holds when the
last service returns.

*Supervisor.* `FlushInv` says that ingest unwinds only after the one signal that
the finally block or systemd sends it, and that it has lines pending only while
its own finally block is still to run or running; what a signal finds in the flush
of a closed feed is cut, and nothing is lost otherwise.

*Heartbeat.* `LoopInv` says how far the previous state, the sample and the buffer
are apart, and that the previous state is of the past; `ReportInv` that reports
are known by their times and accepted ones stored; `TokenInv` that a request with
a 401, or one sent after the revocation, has a token that does not do any more.

*Processor.* Each invariant is stated of the running job and of its checkpoint,
which makes a restore sound. `SweepInv`: no one was heard later than now, each
live aircraft has one chain that is due in time, and the state topic is current.
Being heard moves the deadline of an existing chain only forward; a timer that
does not expire its aircraft at time t is renewed for t plus a sweep, within the
bound because the silence at t was at most `Expire`. `DedupInv`: what was read is
not newer than its station's mark, and the mark is that of a record after which
its tick saw no other fingerprint, so that of two folded copies another line of
the tick came between. `FoldedInv`: under `RepeatsTrail`, which is what
`DeliveryProofs!RepeatsTrail` shows of the partition while the station's clock
does not step back, a dropped record has a copy that was folded. `NewestInv`: each
field is that of the newest of its setters, if stations do not report an aircraft
in the same millisecond (`MillisTell`).

*Backfill.* `Complete` says of a partition that it has every row of a station
before a later one, and all that this run has replayed. A batch keeps it
(`CompleteGrows`), and a failed one too. So what the dedup drops has been folded:
the mark is that of a row that was read, and the dropped row is before it
(`RepeatHandled`). What is read is folded or about to be flushed (`ReadInv`), what
is committed is sent, and what is not sent is not committed (`CommitInv`):
when the first wait has seen every partition, all rows are folded and nothing is
held back (`NothingHeld`), so no trace follows any more, and when the second has,
the slack leaves at most one unread trace on a partition (`DoneInv`). For whole traces `StartInv` finds for each partition a
start from which it is complete and read, so that a fold marks exactly one row
more of its station (`FoldMarks`), and `LifeInv` ties an aircraft that has not
expired to its stations' marks.

Assumptions are those on the constants (`WireAssumption`, `StationAssumption`,
`ConsumeAssumption`, `ArchiverAssumption`, `AircraftAssumption`,
`ProcessorAssumption`, `TopicAssumption`, `KeyAssumption`, `NullAssumption`,
`HeartbeatAssumption`, `NoneAssumption`, `SupervisorAssumption`,
`BackfillAssumption`, `RowAssumption`), and the conditions in the table; TLC
evaluates the former in every run, and `RepeatsTrail`, `MillisTell`, `InOrder` and
`TimesTell` for the topics and archives of its runs. `KeyAssumption` is Kafka's
partitioning by station. `InOrder` is a condition on the archive: it is not empty,
its rows are sorted, and a partition's share of a batch keeps their order. The
last two are what sort and selection compute, which needs induction over the
sequence.

Model-checked only: the liveness properties (`QueueDrains`, `HeardReachesTopic`,
`EverythingArchived`, `TracesStored`, `FailureEndsProcess`, `DeadListenerNoticed`,
`StopCompletes`, `DeadChildRestarted`, `RunEnds`), since liveness under fairness is
beyond the proof system's reach, and what the recursive library operators on
sequences compute.

## Not modelled

Byte framing, SBS field parsing, JSON and Parquet encodings (data, not control);
logging; TLS and reverse proxy; database migrations; consumer-group rebalances
(one instance runs); a broker that loses acknowledged records. The map is a
development tool that keeps the newest record of each key, which
`StateTopicCurrent` describes. `events.decoded` is written and read by nothing.
`internal/kafkatest` serves the tests.

Simplifications: a checkpoint and the commit of its Kafka transaction are one step
(a job that is down for longer than the transaction timeout loses what the
checkpoint says was written); the archiver inside `Server` has a life but no files;
a station's clock steps back in `Heartbeat` only, not in the times of its lines.

## Plan

1. Proofs that connect modules: the topics of `Processor` as what `Delivery`
   allows, so that `RepeatsTrail` becomes a step of the argument.
2. Checkpoint and transaction commit as two steps, with the transaction timeout.
3. A station clock that steps back in the times of lines, from `Delivery` through
   the processor's dedup.
