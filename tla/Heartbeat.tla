----------------------------- MODULE Heartbeat -----------------------------
(***************************************************************************)
(* A station's status reports, and the registry that authorises them: the    *)
(* heartbeat loop samples the buffer ingest and publish share, derives what    *)
(* happened since its previous sample, and posts a report; the gateway looks   *)
(* the token up, validates the report and saves it; an operator mints and       *)
(* revokes tokens (stations.sh) and reconfigures the station.                 *)
(*                                                                         *)
(*   buffer     seq (sqlite_sequence), depth (rows)                           *)
(*   heartbeat  pc: sample, build, post, wait; stats, the sample; prev, the      *)
(*              State of the previous report; report; token; told, how the       *)
(*              newest report ended                                         *)
(*   reports    [at, rate, event, publish]; sizes and uptime never matter        *)
(*   gateway    requests: each [report, token, stage, late]; table, heartbeats   *)
(*   registry   tokens, and revoked: the station is                           *)
(*                                                                         *)
(* clock is the station's wall clock.  It advances between two readings, and    *)
(* NTP may step it back.  The rest is history: acked and recreated, since the    *)
(* last sample; stepped, since the last report; setBack, ever; late, sent when    *)
(* the token was already revoked.                                           *)
(***************************************************************************)
EXTENDS Integers

CONSTANTS
    Tokens,
    None,                               \* no State, no time
    MaxClock, MaxSeq,       \* bounds: time, events per buffer,
    MaxTroubles             \* and what disturbs: clock steps, losses, operator commands

ASSUME HeartbeatAssumption ==
    MaxClock \in Nat /\ MaxSeq \in Nat /\ MaxTroubles \in Nat

VARIABLES seq, depth, acked, recreated,
          clock, stepped, setBack,
          pc, stats, prev, report, token, told,
          requests, table,
          tokens, revoked,
          troubles

bufferVars   == <<seq, depth, acked, recreated>>
clockVars    == <<clock, stepped, setBack>>
loopVars     == <<pc, stats, prev, report, token, told>>
gatewayVars  == <<requests, table>>
registryVars == <<tokens, revoked>>
vars == <<bufferVars, clockVars, loopVars, gatewayVars, registryVars, troubles>>

Stats == [seq : Nat, depth : Nat, acked : BOOLEAN, recreated : BOOLEAN]
State == [at : Nat, seq : Nat, depth : Nat]
Report == [at : Nat, rate : {"absent", "positive", "negative"}, event : BOOLEAN, publish : BOOLEAN]
Answers == {"200", "401", "422", "500"}
Request == [report : Report, token : Tokens, stage : {"sent", "authorised"} \cup Answers, late : BOOLEAN]

ASSUME NoneAssumption ==
    /\ None \notin Stats /\ None \notin State /\ None \notin Report
    /\ None \notin Answers \cup {"died"}

TypeOK ==
    /\ seq \in Nat /\ depth \in Nat
    /\ {acked, recreated, stepped, setBack, revoked} \subseteq BOOLEAN
    /\ clock \in Nat /\ troubles \in Nat
    /\ pc \in {"sample", "build", "post", "wait"}
    /\ stats \in Stats \cup {None} /\ prev \in State \cup {None}
    /\ report \in Report \cup {None}
    /\ token \in Tokens /\ told \in Answers \cup {"died", None}
    /\ requests \subseteq Request
    /\ table \subseteq [report : Report, late : BOOLEAN]
    /\ tokens \in [Tokens -> {"unminted", "active", "revoked"}]

(* The station is registered and runs with a token stations.sh has minted.      *)
Init ==
    /\ seq = 0 /\ depth = 0 /\ acked = FALSE /\ recreated = FALSE
    /\ clock = 0 /\ stepped = FALSE /\ setBack = FALSE
    /\ pc = "sample" /\ stats = None /\ prev = None /\ report = None /\ told = None
    /\ token \in Tokens
    /\ tokens \in [Tokens -> {"unminted", "active"}] /\ tokens[token] = "active"
    /\ revoked = FALSE
    /\ requests = {} /\ table = {} /\ troubles = 0

Trouble ==
    /\ troubles < MaxTroubles
    /\ troubles' = troubles + 1

-----------------------------------------------------------------------------
(* The buffer, as ingest and publish change it.                             *)

Append ==
    /\ seq < MaxSeq
    /\ seq' = seq + 1 /\ depth' = depth + 1
    /\ UNCHANGED <<acked, recreated, clockVars, loopVars, gatewayVars, registryVars, troubles>>

Ack(n) ==
    /\ n <= depth
    /\ depth' = depth - n /\ acked' = TRUE
    /\ UNCHANGED <<seq, recreated, clockVars, loopVars, gatewayVars, registryVars, troubles>>

(* The file is replaced by an empty one.                                    *)
Recreate ==
    /\ seq > 0
    /\ seq' = 0 /\ depth' = 0
    /\ recreated' = TRUE /\ Trouble
    /\ UNCHANGED <<acked, clockVars, loopVars, gatewayVars, registryVars>>

StepBack(c) ==
    /\ c < clock
    /\ clock' = c /\ stepped' = TRUE /\ setBack' = TRUE
    /\ Trouble
    /\ UNCHANGED <<bufferVars, loopVars, gatewayVars, registryVars>>

-----------------------------------------------------------------------------
(* The heartbeat loop.                                                      *)

(* Mutant: sqlite_sequence has no row before the first event, and NULL stays.     *)
SampleNull ==
    /\ pc = "sample"
    /\ stats' = [seq |-> IF seq = 0 THEN None ELSE seq, depth |-> depth,
                 acked |-> acked, recreated |-> recreated]
    /\ acked' = FALSE /\ recreated' = FALSE
    /\ pc' = "build"
    /\ UNCHANGED <<seq, depth, clockVars, prev, report, token, told, gatewayVars, registryVars, troubles>>

(* sample_buffer: one statement reads depth and seq.                         *)
Sample ==
    /\ pc = "sample"
    /\ stats' = [seq |-> seq, depth |-> depth, acked |-> acked, recreated |-> recreated]
    /\ acked' = FALSE /\ recreated' = FALSE
    /\ pc' = "build"
    /\ UNCHANGED <<seq, depth, clockVars, prev, report, token, told, gatewayVars, registryVars, troubles>>

(* Mutant: what arrived since is not counted.                               *)
LeftOfPrevious == prev.depth - stats.depth

(* Rows publish acked since the last report, however fast it drains.          *)
Left == prev.depth + (stats.seq - prev.seq) - stats.depth

(* arrived / (now - prev.at), by its sign.                                   *)
Rate(now) == IF now < prev.at /\ stats.seq > prev.seq THEN "negative" ELSE "positive"

(* The first report of a process, or of a recreated buffer.                  *)
Fresh == prev = None \/ stats.seq < prev.seq

(* Mutant: a State that goes back in time is not kept.                       *)
StateNotBefore(now) ==
    IF prev # None /\ now < prev.at THEN prev
    ELSE [at |-> now, seq |-> stats.seq, depth |-> stats.depth]

StateAt(now) == [at |-> now, seq |-> stats.seq, depth |-> stats.depth]

(* build_report: event and publish say that last_event_ts and last_publish_ts    *)
(* become now; otherwise the previous ones stay.  A division by zero ends the    *)
(* process, and the supervisor starts it again.                              *)
Build ==
    /\ pc = "build"
    /\ clock < MaxClock
    /\ clock' = clock + 1 /\ stepped' = FALSE
    /\ LET now == clock + 1
       IN  IF ~Fresh /\ now = prev.at
             THEN pc' = "sample" /\ prev' = None /\ report' = None /\ told' = "died"
             ELSE /\ pc' = "post" /\ told' = None
                  /\ prev' = StateAt(now)
                  /\ report' = [at |-> now, rate |-> IF Fresh THEN "absent" ELSE Rate(now),
                                event |-> ~Fresh /\ stats.seq > prev.seq,
                                publish |-> ~Fresh /\ Left > 0]
    /\ stats' = None
    /\ UNCHANGED <<bufferVars, setBack, token, gatewayVars, registryVars, troubles>>

Post ==
    /\ pc = "post"
    /\ requests' = requests \cup {[report |-> report, token |-> token, stage |-> "sent",
                                   late |-> revoked \/ tokens[token] = "revoked"]}
    /\ pc' = "wait"
    /\ UNCHANGED <<bufferVars, clockVars, stats, prev, report, token, told, table,
                   registryVars, troubles>>

(* The heartbeat loop waits for the answer to r.                             *)
Awaited(r) == pc = "wait" /\ r.report = report /\ r.token = token

(* The answer; an error is logged, and the next tick makes a new report.       *)
Answered(r) ==
    /\ Awaited(r) /\ r.stage \in Answers
    /\ requests' = requests \ {r}
    /\ told' = r.stage
    /\ pc' = "sample"
    /\ UNCHANGED <<bufferVars, clockVars, stats, prev, report, token, table, registryVars, troubles>>

(* No answer within the timeout, or no connection: POST_ERRORS.              *)
Unanswered ==
    /\ pc = "wait"
    /\ pc' = "sample" /\ Trouble
    /\ UNCHANGED <<bufferVars, clockVars, stats, prev, report, token, told, gatewayVars, registryVars>>

(* Any other exception ends the process: the connection closes before the       *)
(* answer, the buffer cannot be read.  The supervisor starts it again.          *)
Dies ==
    /\ pc \in {"sample", "wait"}
    /\ pc' = "sample" /\ prev' = None /\ report' = None /\ told' = None
    /\ Trouble
    /\ UNCHANGED <<bufferVars, clockVars, stats, token, gatewayVars, registryVars>>

-----------------------------------------------------------------------------
(* The gateway.                                                            *)

(* Request r is at stage s next; an answer nobody waits for is gone.           *)
Moves(r, s) ==
    /\ requests' = (requests \ {r}) \cup
                   (IF s \in Answers /\ ~Awaited(r) THEN {} ELSE {[r EXCEPT !.stage = s]})
    /\ UNCHANGED <<bufferVars, clockVars, loopVars, registryVars>>

(* Mutant: the station is not joined.                                       *)
LookupToken(t) == tokens[t] = "active"

(* Lookup: the token is there and neither it nor its station is revoked.       *)
Lookup(t) == tokens[t] = "active" /\ ~revoked

BearerAuth(r) ==
    /\ r.stage = "sent"
    /\ Moves(r, IF Lookup(r.token) THEN "authorised" ELSE "401")
    /\ UNCHANGED <<table, troubles>>

(* Mutant: a failed lookup is a token not found.                            *)
LookupFailsUnauthorized(r) ==
    /\ r.stage = "sent"
    /\ Trouble
    /\ Moves(r, "401")
    /\ UNCHANGED table

LookupFails(r) ==
    /\ r.stage = "sent"
    /\ Trouble
    /\ Moves(r, "500")
    /\ UNCHANGED table

Valid(r) == r.rate # "negative"

Refuse(r) ==
    /\ r.stage = "authorised" /\ ~Valid(r.report)
    /\ Moves(r, "422")
    /\ UNCHANGED <<table, troubles>>

(* ON CONFLICT (station_id, reported_at) DO NOTHING.                         *)
Inserted(r) ==
    IF \E row \in table : row.report.at = r.report.at THEN table
    ELSE table \cup {[report |-> r.report, late |-> r.late]}

Save(r) ==
    /\ r.stage = "authorised" /\ Valid(r.report)
    /\ table' = Inserted(r)
    /\ Moves(r, "200")
    /\ UNCHANGED troubles

(* Mutant: a failed insert is only logged.                                  *)
SaveFailsQuietly(r) ==
    /\ r.stage = "authorised" /\ Valid(r.report)
    /\ Trouble
    /\ Moves(r, "200")
    /\ UNCHANGED table

(* The insert fails, or times out and may have been done all the same.          *)
SaveFails(r) ==
    /\ r.stage = "authorised" /\ Valid(r.report)
    /\ Trouble
    /\ Moves(r, "500")
    /\ table' \in {table, Inserted(r)}

(* The gateway dies, or the network loses the request or the answer.           *)
Lost(r) ==
    /\ Trouble
    /\ requests' = requests \ {r}
    /\ UNCHANGED <<bufferVars, clockVars, loopVars, table, registryVars>>

-----------------------------------------------------------------------------
(* The operator.                                                           *)

Command ==
    /\ Trouble
    /\ UNCHANGED <<bufferVars, clockVars, gatewayVars>>

(* token-add.                                                              *)
Mint(t) ==
    /\ tokens[t] = "unminted"
    /\ Command
    /\ tokens' = [tokens EXCEPT ![t] = "active"]
    /\ UNCHANGED <<loopVars, revoked>>

(* STATION_TOKEN is changed, which takes a restart of the station.            *)
Switch(t) ==
    /\ tokens[t] = "active" /\ t # token
    /\ Command
    /\ token' = t
    /\ pc' = "sample" /\ stats' = None /\ prev' = None /\ report' = None /\ told' = None
    /\ UNCHANGED <<tokens, revoked>>

(* token-revoke.                                                           *)
TokenRevoke(t) ==
    /\ tokens[t] = "active"
    /\ Command
    /\ tokens' = [tokens EXCEPT ![t] = "revoked"]
    /\ UNCHANGED <<loopVars, revoked>>

(* revoke.                                                                 *)
Revoke ==
    /\ ~revoked
    /\ Command
    /\ revoked' = TRUE
    /\ UNCHANGED <<loopVars, tokens>>

Next ==
    \/ Append \/ Recreate
    \/ \E n \in 1..depth : Ack(n)
    \/ \E c \in 0..clock : StepBack(c)
    \/ Sample \/ Build \/ Post \/ Unanswered \/ Dies
    \/ \E r \in requests : \/ Answered(r) \/ BearerAuth(r) \/ LookupFails(r)
                           \/ Refuse(r) \/ Save(r) \/ SaveFails(r) \/ Lost(r)
    \/ \E t \in Tokens : Mint(t) \/ Switch(t) \/ TokenRevoke(t)
    \/ Revoke

Spec == Init /\ [][Next]_vars

-----------------------------------------------------------------------------
(* A report is refused, or building it ends the process, only right after the    *)
(* clock was set back: the rate divides by a difference of wall clock readings.  *)
(* The report after it is sound again, because the State moves on even when the   *)
(* report it came with is refused.                                          *)
BadReportOnlyAfterStep ==
    [][(pc = "build" /\ pc' # "build" /\ (told' = "died" \/ (pc' = "post" /\ ~Valid(report'))))
          => stepped]_vars

(* last_publish_ts moves when publish has acknowledged something since the        *)
(* previous sample, however much arrived meanwhile, and only then; if the buffer  *)
(* was recreated meanwhile it still never moves without one.                   *)
PublishTimeTrue ==
    [][(pc = "build" /\ pc' = "post" /\ prev # None) =>
          /\ report'.publish => stats.acked
          /\ (stats.acked /\ ~stats.recreated) => report'.publish]_vars

(* A report the station was told is accepted is stored, exactly once.  That it is  *)
(* this report and not another one of the same microsecond needs a clock that was  *)
(* never set back.                                                          *)
AcceptedReportStored ==
    /\ (told = "200" /\ pc \in {"sample", "build"}) =>
          \E row \in table : row.report = report \/ (row.report.at = report.at /\ setBack)
    /\ \A row, other \in table : row.report.at = other.report.at => row = other

(* A station is told its token is bad only if it or the token was revoked, not     *)
(* because the database did not answer and not by a rotation (token-add, restart    *)
(* with the new token, token-revoke of the old one) with a request in flight.      *)
UnauthorizedOnlyIfRevoked ==
    told = "401" => revoked \/ tokens[token] = "revoked"

(* What a station sends after it or its token was revoked is not stored.          *)
RevokedStationSilenced == \A row \in table : ~row.late

-----------------------------------------------------------------------------
(* The strengthenings under which these are inductive.                       *)

(* What happened between the samples p and q: without a new file the rows p had,   *)
(* and those that arrived, are in q unless publish acknowledged some; in a new one  *)
(* no row is missing unless it did.                                          *)
Since(p, q, some, new) ==
    /\ ~new => /\ q.seq >= p.seq
               /\ IF some THEN p.depth + (q.seq - p.seq) - q.depth > 0
                          ELSE p.depth + (q.seq - p.seq) - q.depth = 0
    /\ (new /\ ~some) => q.depth = q.seq

(* A step of the loop finds what the step before it has left; the previous State,   *)
(* the sample and the buffer are each as far from the next as acked and recreated   *)
(* say, and the State is of the past unless the clock was set back.               *)
LoopInv ==
    LET buffer == [seq |-> seq, depth |-> depth]
    IN  /\ pc = "build" => stats # None
        /\ pc \in {"post", "wait"} => report # None /\ told = None
        /\ told \in Answers => report # None
        /\ depth <= seq
        /\ stats # None => stats.depth <= stats.seq
        /\ prev # None => prev.depth <= prev.seq
        /\ pc = "build" => Since(stats, buffer, acked, recreated)
        /\ (pc = "build" /\ prev # None) => Since(prev, stats, stats.acked, stats.recreated)
        /\ (pc # "build" /\ prev # None) => Since(prev, buffer, acked, recreated)
        /\ (prev # None /\ ~stepped) => prev.at <= clock

(* The reports there are.                                                  *)
Reports == {r.report : r \in requests} \cup {row.report : row \in table} \cup ({report} \ {None})

(* Unless the clock was set back a report is known by its time, and none has a       *)
(* time to come; one row per time in any case; a report with a 200 is stored.       *)
Stored(x) == \E row \in table : row.report = x \/ (row.report.at = x.at /\ setBack)
ReportInv ==
    /\ ~setBack => \A x, y \in Reports : x.at <= clock /\ (x.at = y.at => x = y)
    /\ \A row, other \in table : row.report.at = other.report.at => row = other
    /\ \A r \in requests : r.stage = "200" => Stored(r.report)
    /\ told = "200" => Stored(report)

(* Every token in use has been minted; a request with a 401, and one that was sent   *)
(* too late, has a token that does not do any more, and the latter gets nowhere.     *)
Barred(t) == revoked \/ tokens[t] = "revoked"
TokenInv ==
    /\ tokens[token] # "unminted"
    /\ \A r \in requests : /\ tokens[r.token] # "unminted"
                           /\ r.stage = "401" => Barred(r.token)
                           /\ r.late => Barred(r.token) /\ r.stage # "authorised"
    /\ told = "401" => Barred(token)
    /\ RevokedStationSilenced
=============================================================================
