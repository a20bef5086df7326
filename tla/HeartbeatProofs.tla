--------------------------- MODULE HeartbeatProofs ---------------------------
(***************************************************************************)
(* Status reports and tokens, for any number of tokens, events, reports and      *)
(* troubles.                                                               *)
(***************************************************************************)
EXTENDS Heartbeat, TLAPS

Stages == {"sent", "authorised"} \cup Answers
Row == [report : Report, late : BOOLEAN]

-----------------------------------------------------------------------------
(* What the steps of the gateway do.                                        *)

(* A request that moves keeps everything but its stage, or is gone.            *)
LEMMA MovesFacts ==
    ASSUME TypeOK, NEW r \in requests, NEW s \in Stages, Moves(r, s)
    PROVE  /\ UNCHANGED <<bufferVars, clockVars, loopVars, registryVars>>
           /\ r \in Request
           /\ \E q \in Request : /\ q.report = r.report /\ q.token = r.token
                                 /\ q.late = r.late /\ q.stage = s
                                 /\ requests' \subseteq requests \cup {q}
<1> DEFINE q == [r EXCEPT !.stage = s]
<1>1. r \in Request
  BY DEF TypeOK
<1>2. q \in Request /\ q.report = r.report /\ q.token = r.token /\ q.late = r.late /\ q.stage = s
  BY <1>1 DEF Request, Stages
<1>3. requests' \subseteq requests \cup {q}
  BY DEF Moves
<1> HIDE DEF q
<1> QED BY <1>1, <1>2, <1>3 DEF Moves

(* One step of the gateway for request r: it moves to stage s, and only a report    *)
(* that is valid and authorised enters the table, when there is none of its time.    *)
LEMMA GatewayFacts ==
    ASSUME TypeOK, NEW r \in requests,
           BearerAuth(r) \/ LookupFails(r) \/ Refuse(r) \/ Save(r) \/ SaveFails(r)
    PROVE  \E s \in {"authorised"} \cup Answers :
              /\ Moves(r, s)
              /\ table' \in {table, Inserted(r)}
              /\ table' # table => r.stage = "authorised"
              /\ s = "200" => table' = Inserted(r)
              /\ s = "401" => ~Lookup(r.token)
              /\ s = "authorised" => Lookup(r.token)
              /\ troubles' \in {troubles, troubles + 1}
<1>1. CASE BearerAuth(r)
  <2>1. CASE Lookup(r.token)
    BY <1>1, <2>1 DEF BearerAuth, Answers
  <2>2. CASE ~Lookup(r.token)
    BY <1>1, <2>2 DEF BearerAuth, Answers
  <2> QED BY <2>1, <2>2
<1>2. CASE LookupFails(r)
  BY <1>2 DEF LookupFails, Trouble, Answers
<1>3. CASE Refuse(r)
  BY <1>3 DEF Refuse, Answers
<1>4. CASE Save(r)
  BY <1>4 DEF Save, Answers
<1>5. CASE SaveFails(r)
  BY <1>5 DEF SaveFails, Trouble, Answers
<1> QED BY <1>1, <1>2, <1>3, <1>4, <1>5

LEMMA InsertedFacts ==
    ASSUME TypeOK, NEW r \in Request
    PROVE  /\ Inserted(r) \subseteq table \cup {[report |-> r.report, late |-> r.late]}
           /\ table \subseteq Inserted(r)
           /\ [report |-> r.report, late |-> r.late] \in Row
           /\ \E row \in Inserted(r) : row.report.at = r.report.at
           /\ (\A row \in table : row.report.at # r.report.at)
                 => [report |-> r.report, late |-> r.late] \in Inserted(r)
           /\ (\E row \in table : row.report.at = r.report.at) => Inserted(r) = table
<1>1. [report |-> r.report, late |-> r.late] \in Row
  BY DEF Request, Row
<1> QED BY <1>1 DEF Inserted

-----------------------------------------------------------------------------
(* Type correctness.                                                       *)

LEMMA BuildFacts ==
    ASSUME TypeOK, LoopInv, Build
    PROVE  LET now == clock + 1
           IN  /\ stats \in Stats /\ now \in Nat /\ clock' = now /\ stepped' = FALSE /\ stats' = None
               /\ \/ /\ ~Fresh /\ now = prev.at
                     /\ pc' = "sample" /\ prev' = None /\ report' = None /\ told' = "died"
                  \/ /\ Fresh \/ now # prev.at
                     /\ pc' = "post" /\ told' = None
                     /\ prev' = StateAt(now) /\ prev' \in State
                     /\ report' \in Report /\ report'.at = now
                     /\ report'.rate = IF Fresh THEN "absent" ELSE Rate(now)
                     /\ report'.publish <=> (~Fresh /\ Left > 0)
<1>t. stats \in Stats /\ clock \in Nat /\ clock + 1 \in Nat
  BY DEF TypeOK, LoopInv, Build
<1>1. StateAt(clock + 1) \in State
  BY <1>t DEF Stats, State, StateAt
<1>2. CASE ~Fresh /\ clock + 1 = prev.at
  BY <1>t, <1>2 DEF Build
<1>3. CASE Fresh \/ clock + 1 # prev.at
  <2> DEFINE rate == IF Fresh THEN "absent" ELSE Rate(clock + 1)
             event == ~Fresh /\ stats.seq > prev.seq
             publish == ~Fresh /\ Left > 0
  <2>1. rate \in {"absent", "positive", "negative"}
    BY DEF Rate
  <2>2. event \in BOOLEAN /\ publish \in BOOLEAN
    OBVIOUS
  <2>3. /\ pc' = "post" /\ told' = None /\ prev' = StateAt(clock + 1)
        /\ report' = [at |-> clock + 1, rate |-> rate, event |-> event, publish |-> publish]
        /\ clock' = clock + 1 /\ stepped' = FALSE /\ stats' = None
    BY <1>3, Zenon DEF Build
  <2> HIDE DEF rate, event, publish
  <2>4. report' \in Report /\ report'.at = clock + 1 /\ report'.rate = rate /\ report'.publish = publish
    BY <1>t, <2>1, <2>2, <2>3 DEF Report
  <2>5. report'.publish <=> (~Fresh /\ Left > 0)
    BY <2>4 DEF publish
  <2>6. report'.rate = IF Fresh THEN "absent" ELSE Rate(clock + 1)
    BY <2>4 DEF rate
  <2> QED BY <1>t, <1>1, <1>3, <2>3, <2>4, <2>5, <2>6
<1> QED BY <1>2, <1>3

LEMMA BooleansKept ==
    ASSUME TypeOK, Next
    PROVE  ({acked, recreated, stepped, setBack, revoked} \subseteq BOOLEAN)'
<1>t. /\ acked \in BOOLEAN /\ recreated \in BOOLEAN /\ stepped \in BOOLEAN
      /\ setBack \in BOOLEAN /\ revoked \in BOOLEAN
  BY DEF TypeOK
<1> DEFINE Bool == acked' \in BOOLEAN /\ recreated' \in BOOLEAN /\ stepped' \in BOOLEAN
                   /\ setBack' \in BOOLEAN /\ revoked' \in BOOLEAN
<1>1. CASE Append \/ Recreate \/ (\E n \in 1..depth : Ack(n)) \/ (\E c \in 0..clock : StepBack(c))
  BY <1>1, <1>t, Zenon DEF Append, Recreate, Ack, StepBack, bufferVars, clockVars, registryVars
<1>2. CASE Sample \/ Build \/ Post \/ Unanswered \/ Dies \/ (\E r \in requests : Answered(r))
  BY <1>2, <1>t, Zenon DEF Sample, Build, Post, Unanswered, Dies, Answered, bufferVars, clockVars, registryVars
<1>3. ASSUME NEW r \in requests, BearerAuth(r) \/ LookupFails(r) \/ Refuse(r) \/ Save(r) \/ SaveFails(r) \/ Lost(r)
      PROVE  Bool
  <2>1. UNCHANGED <<bufferVars, clockVars, registryVars>>
    BY <1>3, Zenon DEF BearerAuth, LookupFails, Refuse, Save, SaveFails, Lost, Moves
  <2> QED BY <1>t, <2>1, Zenon DEF bufferVars, clockVars, registryVars
<1>4. ASSUME NEW t \in Tokens, Mint(t) \/ Switch(t) \/ TokenRevoke(t) PROVE Bool
  BY <1>4, <1>t, Zenon DEF Mint, Switch, TokenRevoke, Command, bufferVars, clockVars
<1>5. CASE Revoke
  BY <1>5, <1>t, Zenon DEF Revoke, Command, bufferVars, clockVars
<1>6. Bool
  BY <1>1, <1>2, <1>3, <1>4, <1>5 DEF Next
<1> QED BY <1>6

LEMMA TypeInit == Init => TypeOK /\ LoopInv
<1> SUFFICES ASSUME Init PROVE TypeOK /\ LoopInv
  OBVIOUS
<1>1. {acked, recreated, stepped, setBack, revoked} \subseteq BOOLEAN
  BY DEF Init
<1>2. TypeOK
  BY <1>1 DEF Init, TypeOK
<1>3. LoopInv
  BY NoneAssumption DEF Init, LoopInv
<1> QED BY <1>2, <1>3

LEMMA TypeStep == TypeOK /\ LoopInv /\ [Next]_vars => TypeOK'
<1> SUFFICES ASSUME TypeOK, LoopInv, Next PROVE TypeOK'
  BY DEF TypeOK, vars, bufferVars, clockVars, loopVars, gatewayVars, registryVars
<1>b. ({acked, recreated, stepped, setBack, revoked} \subseteq BOOLEAN)'
  BY BooleansKept
<1>e. troubles' \in {troubles, troubles + 1} => troubles' \in Nat
  BY DEF TypeOK
<1> USE DEF TypeOK
<1>1. CASE Append
  BY <1>1, <1>b DEF Append, clockVars, loopVars, gatewayVars, registryVars
<1>2. CASE Recreate
  BY <1>2, <1>b DEF Recreate, Trouble, clockVars, loopVars, gatewayVars, registryVars
<1>3. ASSUME NEW n \in 1..depth, Ack(n) PROVE TypeOK'
  BY <1>3, <1>b DEF Ack, clockVars, loopVars, gatewayVars, registryVars
<1>4. ASSUME NEW c \in 0..clock, StepBack(c) PROVE TypeOK'
  BY <1>4, <1>b DEF StepBack, Trouble, bufferVars, loopVars, gatewayVars, registryVars
<1>5. CASE Sample
  <2>1. stats' \in Stats
    BY <1>5 DEF Sample, Stats
  <2> QED BY <1>5, <1>b, <2>1 DEF Sample, clockVars, gatewayVars, registryVars
<1>6. CASE Build
  <2>1. /\ clock' \in Nat /\ stats' = None /\ pc' \in {"sample", "post"}
        /\ prev' \in State \cup {None} /\ report' \in Report \cup {None} /\ told' \in {"died", None}
    BY <1>6, BuildFacts
  <2> QED BY <1>6, <1>b, <2>1 DEF Build, bufferVars, gatewayVars, registryVars
<1>7. CASE Post
  <2>1. report \in Report
    BY <1>7 DEF Post, LoopInv
  <2>2. [report |-> report, token |-> token, stage |-> "sent",
         late |-> revoked \/ tokens[token] = "revoked"] \in Request
    BY <2>1 DEF Request
  <2>3. requests' \subseteq Request
    BY <1>7, <2>2 DEF Post
  <2> QED BY <1>7, <1>b, <2>3 DEF Post, bufferVars, clockVars, registryVars
<1>8. CASE Unanswered \/ Dies
  <2>1. troubles' \in Nat
    BY <1>8 DEF Unanswered, Dies, Trouble
  <2> QED BY <1>8, <1>b, <2>1 DEF Unanswered, Dies, bufferVars, clockVars, gatewayVars, registryVars
<1>9. ASSUME NEW r \in requests, Answered(r) PROVE TypeOK'
  BY <1>9, <1>b DEF Answered, bufferVars, clockVars, registryVars
<1>10. ASSUME NEW r \in requests,
              BearerAuth(r) \/ LookupFails(r) \/ Refuse(r) \/ Save(r) \/ SaveFails(r)
       PROVE  TypeOK'
  <2> HIDE DEF TypeOK
  <2>1. PICK s \in {"authorised"} \cup Answers :
           /\ Moves(r, s) /\ table' \in {table, Inserted(r)}
           /\ troubles' \in {troubles, troubles + 1}
    BY <1>10, GatewayFacts, Zenon
  <2>s. s \in Stages
    BY DEF Stages
  <2>2. /\ r \in Request /\ requests' \subseteq Request
        /\ UNCHANGED <<bufferVars, clockVars, loopVars, registryVars>>
    <3>1. requests \subseteq Request
      BY DEF TypeOK
    <3> QED BY <2>1, <2>s, <3>1, MovesFacts
  <2>3. table' \subseteq Row
    <3>1. table \subseteq Row
      BY DEF TypeOK, Row
    <3>2. Inserted(r) \subseteq Row
      BY <2>2, <3>1, InsertedFacts
    <3> QED BY <2>1, <3>1, <3>2
  <2> QED BY <1>b, <1>e, <2>1, <2>2, <2>3 DEF TypeOK, Row, bufferVars, clockVars, loopVars, registryVars
<1>11. ASSUME NEW r \in requests, Lost(r) PROVE TypeOK'
  BY <1>11, <1>b DEF Lost, Trouble, bufferVars, clockVars, loopVars, registryVars
<1>12. ASSUME NEW t \in Tokens, Mint(t) \/ Switch(t) \/ TokenRevoke(t) PROVE TypeOK'
  <2>1. tokens' \in [Tokens -> {"unminted", "active", "revoked"}] /\ troubles' \in Nat
    BY <1>12 DEF Mint, Switch, TokenRevoke, Command, Trouble
  <2> QED BY <1>12, <1>b, <2>1 DEF Mint, Switch, TokenRevoke, Command, bufferVars, clockVars, loopVars, gatewayVars
<1>13. CASE Revoke
  BY <1>13, <1>b DEF Revoke, Command, Trouble, bufferVars, clockVars, loopVars, gatewayVars
<1> QED BY <1>1, <1>2, <1>3, <1>4, <1>5, <1>6, <1>7, <1>8, <1>9, <1>10, <1>11, <1>12, <1>13 DEF Next

-----------------------------------------------------------------------------
(* The loop's own reckoning.                                                *)

LEMMA LoopStep == TypeOK /\ LoopInv /\ [Next]_vars => LoopInv'
<1> SUFFICES ASSUME TypeOK, LoopInv, Next PROVE LoopInv'
  BY DEF LoopInv, Since, vars, bufferVars, clockVars, loopVars
<1>t. /\ seq \in Nat /\ depth \in Nat /\ clock \in Nat
      /\ stats \in Stats \cup {None} /\ prev \in State \cup {None}
      /\ acked \in BOOLEAN /\ recreated \in BOOLEAN /\ stepped \in BOOLEAN
      /\ stats # None => /\ stats.seq \in Nat /\ stats.depth \in Nat
                         /\ stats.acked \in BOOLEAN /\ stats.recreated \in BOOLEAN
      /\ prev # None => prev.seq \in Nat /\ prev.depth \in Nat /\ prev.at \in Nat
  BY DEF TypeOK, Stats, State
<1>1. CASE Append
  BY <1>1, <1>t DEF Append, clockVars, loopVars, LoopInv, Since
<1>2. CASE Recreate
  <2>1. /\ seq' = 0 /\ depth' = 0 /\ recreated' /\ (~acked' => ~acked)
        /\ UNCHANGED <<acked, clockVars, loopVars>>
    BY <1>2, Zenon DEF Recreate
  <2> QED BY <1>t, <2>1 DEF clockVars, loopVars, LoopInv, Since
<1>3. ASSUME NEW n \in 1..depth, Ack(n) PROVE LoopInv'
  <2>1. /\ depth' = depth - n /\ acked'
        /\ UNCHANGED <<seq, recreated, clockVars, loopVars>>
    BY <1>3, Zenon DEF Ack
  <2> QED BY <1>t, <2>1 DEF clockVars, loopVars, LoopInv, Since
<1>4. ASSUME NEW c \in 0..clock, StepBack(c) PROVE LoopInv'
  <2>1. stepped' /\ UNCHANGED <<bufferVars, loopVars>>
    BY <1>4, Zenon DEF StepBack
  <2> QED BY <1>t, <2>1 DEF bufferVars, loopVars, LoopInv, Since
<1>5. CASE Sample
  <2>1. /\ pc = "sample" /\ pc' = "build" /\ ~acked' /\ ~recreated'
        /\ stats' = [seq |-> seq, depth |-> depth, acked |-> acked, recreated |-> recreated]
        /\ UNCHANGED <<seq, depth, clockVars, prev, report, told>>
    BY <1>5, Zenon DEF Sample
  <2>2. /\ stats' \in Stats /\ stats'.seq = seq /\ stats'.depth = depth
        /\ stats'.acked = acked /\ stats'.recreated = recreated
    BY <1>t, <2>1 DEF Stats
  <2> QED BY <1>t, <2>1, <2>2, NoneAssumption DEF clockVars, LoopInv, Since
<1>6. CASE Build
  <2>1. pc = "build" /\ UNCHANGED bufferVars
    BY <1>6 DEF Build
  <2>2. CASE pc' = "sample"
    <3>1. prev' = None /\ told' = "died" /\ stats' = None
      BY <1>6, <2>2, BuildFacts
    <3> QED BY <2>1, <2>2, <3>1 DEF bufferVars, LoopInv, Answers
  <2>3. CASE pc' # "sample"
    <3>1. /\ pc' = "post" /\ told' = None /\ stats' = None /\ report' \in Report
          /\ prev' = StateAt(clock + 1) /\ prev' \in State /\ clock' = clock + 1 /\ stats # None
      BY <1>6, <2>3, BuildFacts, NoneAssumption
    <3>2. prev'.seq = stats.seq /\ prev'.depth = stats.depth /\ prev'.at = clock'
      BY <3>1 DEF StateAt
    <3> QED BY <1>t, <2>1, <3>1, <3>2, NoneAssumption DEF bufferVars, LoopInv, Since
  <2> QED BY <2>2, <2>3
<1>7. CASE Post \/ Unanswered
  BY <1>7, NoneAssumption DEF Post, Unanswered, bufferVars, clockVars, LoopInv, Since
<1>8. ASSUME NEW r \in requests, Answered(r) PROVE LoopInv'
  BY <1>8 DEF Answered, Awaited, bufferVars, clockVars, LoopInv, Since
<1>9. CASE Dies
  BY <1>9, NoneAssumption DEF Dies, bufferVars, clockVars, LoopInv
<1>10. ASSUME NEW t \in Tokens, Switch(t) PROVE LoopInv'
  BY <1>10, NoneAssumption DEF Switch, Command, bufferVars, clockVars, LoopInv
<1>11. ASSUME UNCHANGED <<bufferVars, clockVars, loopVars>> PROVE LoopInv'
  BY <1>11 DEF bufferVars, clockVars, loopVars, LoopInv, Since
<1>12. ASSUME NEW r \in requests, BearerAuth(r) \/ LookupFails(r) \/ Refuse(r) \/ Save(r) \/ SaveFails(r) \/ Lost(r)
       PROVE  LoopInv'
  BY <1>11, <1>12 DEF BearerAuth, LookupFails, Refuse, Save, SaveFails, Lost, Moves
<1>13. ASSUME NEW t \in Tokens, Mint(t) \/ TokenRevoke(t) \/ Revoke PROVE LoopInv'
  BY <1>11, <1>13 DEF Mint, TokenRevoke, Revoke, Command
<1>14. CASE Revoke
  BY <1>11, <1>14 DEF Revoke, Command
<1> QED BY <1>1, <1>2, <1>3, <1>4, <1>5, <1>6, <1>7, <1>8, <1>9, <1>10, <1>12, <1>13, <1>14 DEF Next

(* The heartbeat loop always has the sample, the report and the State its next       *)
(* step needs, and what is sent and stored is a report.                        *)
THEOREM TypeCorrect == Spec => []TypeOK
BY TypeInit, TypeStep, LoopStep, PTL DEF Spec

(* Only after the clock was set back does build_report divide by zero or make a       *)
(* report the gateway refuses.                                              *)
THEOREM BadReportsExplained == Spec => BadReportOnlyAfterStep
<1> DEFINE Bad == pc = "build" /\ pc' # "build" /\ (told' = "died" \/ (pc' = "post" /\ ~Valid(report')))
<1>1. TypeOK /\ LoopInv /\ [Next]_vars => [Bad => stepped]_vars
  <2> SUFFICES ASSUME TypeOK, LoopInv, Next, Bad PROVE stepped
    OBVIOUS
  <2>1. CASE Build
    <3> SUFFICES ASSUME ~stepped PROVE FALSE
      OBVIOUS
    <3>1. prev # None => prev.at < clock + 1 /\ prev.at \in Nat /\ clock \in Nat
      BY DEF LoopInv, TypeOK, State
    <3>2. ~Fresh => ~(clock + 1 < prev.at) /\ clock + 1 # prev.at
      BY <3>1 DEF Fresh
    <3>3. /\ pc' = "post" /\ told' # "died"
          /\ report'.rate = IF Fresh THEN "absent" ELSE Rate(clock + 1)
      BY <2>1, <3>2, BuildFacts, NoneAssumption
    <3>4. report'.rate # "negative"
      BY <3>2, <3>3 DEF Rate
    <3> QED BY <3>3, <3>4 DEF Valid
  <2>2. ASSUME NEW t \in Tokens, Switch(t) PROVE FALSE
    BY <2>2, NoneAssumption DEF Switch
  <2>3. ASSUME UNCHANGED pc PROVE FALSE
    BY <2>3
  <2>4. CASE Sample \/ Post \/ Unanswered \/ Dies
    BY <2>4 DEF Sample, Post, Unanswered, Dies
  <2>5. CASE Append \/ Recreate \/ (\E n \in 1..depth : Ack(n)) \/ (\E c \in 0..clock : StepBack(c))
    BY <2>5, <2>3 DEF Append, Recreate, Ack, StepBack, loopVars
  <2>6. ASSUME NEW r \in requests,
               \/ Answered(r) \/ BearerAuth(r) \/ LookupFails(r)
               \/ Refuse(r) \/ Save(r) \/ SaveFails(r) \/ Lost(r)
        PROVE  FALSE
    BY <2>6, <2>3 DEF Answered, Awaited, BearerAuth, LookupFails, Refuse, Save, SaveFails, Lost, Moves, loopVars
  <2>7. ASSUME NEW t \in Tokens, Mint(t) \/ TokenRevoke(t) PROVE FALSE
    BY <2>7, <2>3 DEF Mint, TokenRevoke, loopVars
  <2>8. CASE Revoke
    BY <2>8, <2>3 DEF Revoke, loopVars
  <2> QED BY <2>1, <2>2, <2>4, <2>5, <2>6, <2>7, <2>8 DEF Next
<1>2. Spec => [][Bad => stepped]_vars
  BY <1>1, TypeInit, TypeStep, LoopStep, PTL DEF Spec
<1> QED BY <1>2 DEF BadReportOnlyAfterStep

(* last_publish_ts moves exactly when publish has acknowledged something since the    *)
(* previous sample, and in a recreated buffer never without that.                *)
THEOREM PublishTimesTrue == Spec => PublishTimeTrue
<1> DEFINE Built == pc = "build" /\ pc' = "post" /\ prev # None
           True  == /\ report'.publish => stats.acked
                    /\ (stats.acked /\ ~stats.recreated) => report'.publish
<1>1. TypeOK /\ LoopInv /\ [Next]_vars => [Built => True]_vars
  <2> SUFFICES ASSUME TypeOK, LoopInv, Next, Built PROVE True
    OBVIOUS
  <2>1. CASE Build
    <3>1. /\ stats \in Stats /\ prev \in State
          /\ stats.seq \in Nat /\ stats.depth \in Nat /\ prev.seq \in Nat /\ prev.depth \in Nat
          /\ stats.acked \in BOOLEAN /\ stats.recreated \in BOOLEAN
      BY <2>1, BuildFacts DEF TypeOK, Stats, State
    <3>2. Since(prev, stats, stats.acked, stats.recreated) /\ prev.depth <= prev.seq
      BY DEF LoopInv
    <3>3. report'.publish <=> (~(stats.seq < prev.seq) /\ Left > 0)
      BY <2>1, BuildFacts DEF Fresh
    <3> QED BY <3>1, <3>2, <3>3 DEF Since, Left
  <2>2. ASSUME pc' = pc \/ pc' \in {"sample", "build", "wait"} PROVE FALSE
    BY <2>2
  <2>4. CASE Sample \/ Post \/ Unanswered \/ Dies \/ \E t \in Tokens : Switch(t)
    BY <2>4 DEF Sample, Post, Unanswered, Dies, Switch
  <2>5. CASE Append \/ Recreate \/ (\E n \in 1..depth : Ack(n)) \/ (\E c \in 0..clock : StepBack(c))
    BY <2>5, <2>2 DEF Append, Recreate, Ack, StepBack, loopVars
  <2>6. ASSUME NEW r \in requests,
               \/ Answered(r) \/ BearerAuth(r) \/ LookupFails(r)
               \/ Refuse(r) \/ Save(r) \/ SaveFails(r) \/ Lost(r)
        PROVE  FALSE
    BY <2>6, <2>2 DEF Answered, Awaited, BearerAuth, LookupFails, Refuse, Save, SaveFails, Lost, Moves, loopVars
  <2>7. ASSUME NEW t \in Tokens, Mint(t) \/ TokenRevoke(t) PROVE FALSE
    BY <2>7, <2>2 DEF Mint, TokenRevoke, loopVars
  <2>8. CASE Revoke
    BY <2>8, <2>2 DEF Revoke, loopVars
  <2> QED BY <2>1, <2>4, <2>5, <2>6, <2>7, <2>8 DEF Next
<1> HIDE DEF True
<1>2. Spec => [][Built => True]_vars
  BY <1>1, TypeInit, TypeStep, LoopStep, PTL DEF Spec
<1> QED BY <1>2 DEF PublishTimeTrue, True

-----------------------------------------------------------------------------
(* Reports and tokens at the gateway.                                        *)

LEMMA ReportInit == Init => ReportInv /\ TokenInv
<1> SUFFICES ASSUME Init PROVE ReportInv /\ TokenInv
  OBVIOUS
<1>1. requests = {} /\ table = {} /\ report = None /\ told = None /\ tokens[token] = "active"
  BY DEF Init
<1>2. Reports = {}
  BY <1>1 DEF Reports
<1> QED BY <1>1, <1>2, NoneAssumption DEF ReportInv, TokenInv, RevokedStationSilenced, Answers

(* Rows are only added, and the clock's history only grows.                     *)
LEMMA StoredKept ==
    ASSUME table \subseteq table', setBack => setBack', NEW x, Stored(x)
    PROVE  \E row \in table' : row.report = x \/ (row.report.at = x.at /\ setBack')
BY DEF Stored

LEMMA ReportStep == TypeOK /\ LoopInv /\ ReportInv /\ [Next]_vars => ReportInv'
<1> SUFFICES ASSUME TypeOK, LoopInv, ReportInv, Next PROVE ReportInv'
  BY DEF ReportInv, Reports, Stored, vars, bufferVars, clockVars, loopVars, gatewayVars
<1>t. /\ clock \in Nat /\ setBack \in BOOLEAN
      /\ requests \subseteq Request /\ table \subseteq Row /\ report \in Report \cup {None}
  BY DEF TypeOK, Row
<1>r. /\ \A x \in Reports : x \in Report /\ x.at \in Nat
  BY <1>t DEF Reports, Request, Row, Report
(* Steps that add no report, or none that is new.                            *)
<1>k. ASSUME Reports' \subseteq Reports, table' = table, setBack' = setBack, clock' = clock,
             \A q \in requests' : q.stage = "200" => Stored(q.report),
             told' = "200" => Stored(report')
      PROVE  ReportInv'
  <2>1. \A x : Stored(x)' <=> Stored(x)
    BY <1>k DEF Stored
  <2>2. ~setBack' => \A x, y \in Reports' : x.at <= clock' /\ (x.at = y.at => x = y)
    BY <1>k DEF ReportInv
  <2>3. \A row, other \in table' : row.report.at = other.report.at => row = other
    BY <1>k DEF ReportInv
  <2> QED BY <1>k, <2>1, <2>2, <2>3 DEF ReportInv, Stored
<1>s. \A q \in requests : q.stage = "200" => Stored(q.report)
  BY DEF ReportInv
<1>1. CASE Append \/ Recreate \/ (\E n \in 1..depth : Ack(n)) \/ Sample
  <2>1. UNCHANGED <<requests, table, report, told, setBack, clock>>
    BY <1>1 DEF Append, Recreate, Ack, Sample, clockVars, loopVars, gatewayVars
  <2> QED BY <1>k, <1>s, <2>1 DEF ReportInv, Reports
<1>2. ASSUME NEW c \in 0..clock, StepBack(c) PROVE ReportInv'
  <2>1. setBack' /\ UNCHANGED <<requests, table, report, told>>
    BY <1>2, Zenon DEF StepBack, loopVars, gatewayVars
  <2> QED BY <2>1 DEF ReportInv, Stored
<1>3. CASE Build
  <2>1. /\ UNCHANGED <<requests, table, setBack>> /\ clock' = clock + 1
        /\ told' # "200"
        /\ report' = None \/ (report' \in Report /\ report'.at = clock + 1)
    <3>1. told' \in {"died", None}
      BY <1>3, BuildFacts
    <3>2. told' # "200"
      BY <3>1, NoneAssumption DEF Answers
    <3> QED BY <1>3, <3>2, BuildFacts DEF Build, gatewayVars
  <2>2. \A x \in Reports' : x \in Reports \/ (x = report' /\ x.at = clock + 1)
    BY <2>1 DEF Reports
  <2>3. ~setBack' => \A x, y \in Reports' : x.at <= clock' /\ (x.at = y.at => x = y)
    BY <1>t, <1>r, <2>1, <2>2 DEF ReportInv
  <2> QED BY <2>1, <2>3 DEF ReportInv, Stored
<1>4. CASE Post
  <2> DEFINE q == [report |-> report, token |-> token, stage |-> "sent",
                   late |-> revoked \/ tokens[token] = "revoked"]
  <2>1. /\ requests' = requests \cup {q} /\ q.report = report /\ q.stage = "sent"
        /\ UNCHANGED <<table, report, told, setBack, clock>>
    BY <1>4 DEF Post, clockVars
  <2> HIDE DEF q
  <2>2. Reports' \subseteq Reports
    BY <1>4, <2>1 DEF Reports, Post, LoopInv
  <2>3. \A p \in requests' : p.stage = "200" => Stored(p.report)
    BY <1>s, <2>1
  <2>4. told' = "200" => Stored(report')
    BY <2>1 DEF ReportInv
  <2> QED BY <1>k, <2>1, <2>2, <2>3, <2>4
<1>5. ASSUME NEW r \in requests, Answered(r) PROVE ReportInv'
  <2>1. /\ requests' \subseteq requests /\ r.report = report /\ told' = r.stage
        /\ UNCHANGED <<table, report, setBack, clock>>
    BY <1>5 DEF Answered, Awaited, clockVars
  <2>2. Reports' \subseteq Reports
    BY <2>1 DEF Reports
  <2> QED BY <1>k, <1>s, <2>1, <2>2
<1>6. CASE Unanswered \/ Dies \/ \E t \in Tokens : Switch(t)
  <2>1. /\ UNCHANGED <<requests, table, setBack, clock>>
        /\ UNCHANGED <<report, told>> \/ (report' = None /\ told' = None)
    BY <1>6 DEF Unanswered, Dies, Switch, Command, clockVars, gatewayVars
  <2>2. Reports' \subseteq Reports
    BY <2>1 DEF Reports
  <2>3. told' = "200" => Stored(report')
    BY <2>1, NoneAssumption DEF ReportInv, Answers
  <2> QED BY <1>k, <1>s, <2>1, <2>2, <2>3
<1>7. ASSUME NEW r \in requests,
             BearerAuth(r) \/ LookupFails(r) \/ Refuse(r) \/ Save(r) \/ SaveFails(r)
      PROVE  ReportInv'
  <2>1. PICK s \in {"authorised"} \cup Answers :
           /\ Moves(r, s) /\ table' \in {table, Inserted(r)} /\ (s = "200" => table' = Inserted(r))
    BY <1>7, GatewayFacts, Zenon
  <2>s. s \in Stages
    BY DEF Stages
  <2>2. PICK q \in Request : /\ q.report = r.report /\ q.stage = s
                             /\ requests' \subseteq requests \cup {q}
    BY <2>1, <2>s, MovesFacts, Zenon
  <2>3. /\ r \in Request /\ UNCHANGED <<report, told, setBack, clock>>
    BY <2>1, <2>s, MovesFacts DEF clockVars, loopVars
  <2> DEFINE new == [report |-> r.report, late |-> r.late]
  <2>4. /\ table \subseteq table' /\ table' \subseteq table \cup {new}
        /\ (\E row \in table : row.report.at = r.report.at) => table' = table
        /\ s = "200" => \/ new \in table'
                        \/ \E row \in table : row.report.at = r.report.at
    BY <2>1, <2>3, InsertedFacts
  <2>5. new.report = r.report
    OBVIOUS
  <2> HIDE DEF new
  <2>6. Reports' \subseteq Reports /\ r.report \in Reports
    BY <2>2, <2>3, <2>4, <2>5 DEF Reports
  <2>7. ~setBack' => \A x, y \in Reports' : x.at <= clock' /\ (x.at = y.at => x = y)
    BY <2>3, <2>6 DEF ReportInv
  <2>8. \A row, other \in table' : row.report.at = other.report.at => row = other
    BY <2>4, <2>5 DEF ReportInv
  <2>9. s = "200" => \E row \in table' : row.report = r.report \/ (row.report.at = r.report.at /\ setBack')
    <3> SUFFICES ASSUME s = "200", new \notin table'
                 PROVE  \E row \in table' : row.report = r.report \/ (row.report.at = r.report.at /\ setBack')
      BY <2>5
    <3>1. PICK row \in table : row.report.at = r.report.at
      BY <2>4
    <3>2. row.report \in Reports
      BY DEF Reports
    <3>3. row.report = r.report \/ setBack
      BY <2>6, <3>1, <3>2 DEF ReportInv
    <3> QED BY <2>3, <2>4, <3>1, <3>3
  <2>10. \A p \in requests' : p.stage = "200" =>
            \E row \in table' : row.report = p.report \/ (row.report.at = p.report.at /\ setBack')
    BY <1>s, <2>2, <2>3, <2>4, <2>9 DEF Stored
  <2>11. told' = "200" =>
            \E row \in table' : row.report = report' \/ (row.report.at = report'.at /\ setBack')
    BY <2>3, <2>4 DEF ReportInv, Stored
  <2> QED BY <2>7, <2>8, <2>10, <2>11 DEF ReportInv, Stored
<1>8. ASSUME NEW r \in requests, Lost(r) PROVE ReportInv'
  <2>1. requests' \subseteq requests /\ UNCHANGED <<table, report, told, setBack, clock>>
    BY <1>8 DEF Lost, clockVars, loopVars
  <2>2. Reports' \subseteq Reports
    BY <2>1 DEF Reports
  <2> QED BY <1>k, <1>s, <2>1, <2>2 DEF ReportInv
<1>9. CASE Revoke \/ \E t \in Tokens : Mint(t) \/ TokenRevoke(t)
  <2>1. UNCHANGED <<requests, table, report, told, setBack, clock>>
    BY <1>9 DEF Revoke, Mint, TokenRevoke, Command, clockVars, loopVars, gatewayVars
  <2> QED BY <1>k, <1>s, <2>1 DEF ReportInv, Reports
<1> QED BY <1>1, <1>2, <1>3, <1>4, <1>5, <1>6, <1>7, <1>8, <1>9 DEF Next

(* A report the station was told is accepted is in the table, and each time has one    *)
(* row, whatever is lost, answered late or sent twice.                         *)
THEOREM AcceptedStored == Spec => []AcceptedReportStored
<1>1. ReportInv => AcceptedReportStored
  BY DEF ReportInv, AcceptedReportStored, Stored
<1> QED BY <1>1, TypeInit, TypeStep, LoopStep, ReportInit, ReportStep, PTL DEF Spec

LEMMA TokenStep == TypeOK /\ LoopInv /\ TokenInv /\ [Next]_vars => TokenInv'
<1> SUFFICES ASSUME TypeOK, LoopInv, TokenInv, Next PROVE TokenInv'
  BY DEF TokenInv, Barred, RevokedStationSilenced, vars, loopVars, gatewayVars, registryVars
<1>t. /\ revoked \in BOOLEAN /\ tokens \in [Tokens -> {"unminted", "active", "revoked"}]
      /\ token \in Tokens /\ requests \subseteq Request /\ table \subseteq Row
      /\ \A r \in requests : r.token \in Tokens /\ r.late \in BOOLEAN
  BY DEF TypeOK, Row, Request
<1> USE DEF RevokedStationSilenced, Barred
<1>1. CASE \/ Append \/ Recreate \/ (\E n \in 1..depth : Ack(n)) \/ (\E c \in 0..clock : StepBack(c))
           \/ Sample \/ Unanswered
  <2>1. UNCHANGED <<requests, table, token, told, tokens, revoked>>
    BY <1>1 DEF Append, Recreate, Ack, StepBack, Sample, Unanswered, loopVars, gatewayVars, registryVars
  <2> QED BY <2>1 DEF TokenInv
<1>2. CASE Build \/ Dies
  <2>1. UNCHANGED <<requests, table, token, tokens, revoked>> /\ told' \in {"died", None}
    BY <1>2, BuildFacts DEF Build, Dies, gatewayVars, registryVars
  <2> QED BY <2>1, NoneAssumption DEF TokenInv, Answers
<1>3. CASE Post
  <2> DEFINE q == [report |-> report, token |-> token, stage |-> "sent",
                   late |-> revoked \/ tokens[token] = "revoked"]
  <2>1. /\ requests' = requests \cup {q} /\ q.token = token /\ q.stage = "sent"
        /\ q.late <=> Barred(token)
        /\ UNCHANGED <<table, token, told, tokens, revoked>>
    BY <1>3 DEF Post, registryVars
  <2> HIDE DEF q
  <2> QED BY <1>t, <2>1 DEF TokenInv
<1>4. ASSUME NEW r \in requests, Answered(r) PROVE TokenInv'
  <2>1. /\ requests' \subseteq requests /\ r.token = token /\ told' = r.stage
        /\ UNCHANGED <<table, token, tokens, revoked>>
    BY <1>4 DEF Answered, Awaited, registryVars
  <2> QED BY <2>1 DEF TokenInv
<1>5. ASSUME NEW r \in requests,
             BearerAuth(r) \/ LookupFails(r) \/ Refuse(r) \/ Save(r) \/ SaveFails(r)
      PROVE  TokenInv'
  <2>1. PICK s \in {"authorised"} \cup Answers :
           /\ Moves(r, s) /\ table' \in {table, Inserted(r)}
           /\ table' # table => r.stage = "authorised"
           /\ s = "401" => ~Lookup(r.token)
           /\ s = "authorised" => Lookup(r.token)
    BY <1>5, GatewayFacts, Zenon
  <2>s. s \in Stages
    BY DEF Stages
  <2>2. PICK q \in Request : /\ q.token = r.token /\ q.late = r.late /\ q.stage = s
                             /\ requests' \subseteq requests \cup {q}
    BY <2>1, <2>s, MovesFacts, Zenon
  <2>3. r \in Request /\ UNCHANGED <<token, told, tokens, revoked>>
    BY <2>1, <2>s, MovesFacts DEF loopVars, registryVars
  <2>4. \A p \in requests' : /\ tokens[p.token] # "unminted"
                             /\ p.stage = "401" => Barred(p.token)
                             /\ p.late => Barred(p.token) /\ p.stage # "authorised"
    BY <1>t, <2>1, <2>2 DEF TokenInv, Lookup
  <2>5. \A row \in table' : ~row.late
    <3>1. CASE table' = table
      BY <3>1 DEF TokenInv
    <3>2. CASE table' # table
      <4>1. ~r.late
        BY <2>1, <3>2 DEF TokenInv
      <4>2. table' \subseteq table \cup {[report |-> r.report, late |-> r.late]}
        BY <2>1, <2>3, <3>2, InsertedFacts
      <4> QED BY <4>1, <4>2 DEF TokenInv
    <3> QED BY <3>1, <3>2
  <2> QED BY <2>3, <2>4, <2>5 DEF TokenInv
<1>6. ASSUME NEW r \in requests, Lost(r) PROVE TokenInv'
  <2>1. requests' \subseteq requests /\ UNCHANGED <<table, token, told, tokens, revoked>>
    BY <1>6 DEF Lost, loopVars, registryVars
  <2> QED BY <2>1 DEF TokenInv
<1>7. ASSUME NEW t \in Tokens, Mint(t) \/ TokenRevoke(t) PROVE TokenInv'
  <2>1. /\ UNCHANGED <<requests, table, token, told, revoked>>
        /\ tokens' \in {[tokens EXCEPT ![t] = "active"], [tokens EXCEPT ![t] = "revoked"]}
        /\ tokens[t] # "revoked"
    BY <1>7 DEF Mint, TokenRevoke, Command, loopVars, gatewayVars
  <2>2. \A u \in Tokens : /\ tokens[u] # "unminted" => tokens'[u] # "unminted"
                          /\ tokens[u] = "revoked" => tokens'[u] = "revoked"
    BY <1>t, <2>1
  <2> QED BY <1>t, <2>1, <2>2 DEF TokenInv
<1>8. ASSUME NEW t \in Tokens, Switch(t) PROVE TokenInv'
  <2>1. /\ UNCHANGED <<requests, table, tokens, revoked>>
        /\ token' = t /\ told' = None /\ tokens[t] = "active"
    BY <1>8 DEF Switch, Command, gatewayVars
  <2> QED BY <2>1, NoneAssumption DEF TokenInv, Answers
<1>9. CASE Revoke
  <2>1. UNCHANGED <<requests, table, token, told, tokens>> /\ revoked'
    BY <1>9, Zenon DEF Revoke, Command, loopVars, gatewayVars
  <2> QED BY <2>1 DEF TokenInv
<1> QED BY <1>1, <1>2, <1>3, <1>4, <1>5, <1>6, <1>7, <1>8, <1>9 DEF Next

(* A station is told 401 only when it or the token it runs with is revoked, and     *)
(* not by a failed lookup or by a rotation with requests in flight.               *)
THEOREM UnauthorizedMeansRevoked == Spec => []UnauthorizedOnlyIfRevoked
<1>1. TokenInv => UnauthorizedOnlyIfRevoked
  BY DEF TokenInv, Barred, UnauthorizedOnlyIfRevoked
<1> QED BY <1>1, TypeInit, TypeStep, LoopStep, ReportInit, TokenStep, PTL DEF Spec

(* What is sent after a revocation never enters the table.                      *)
THEOREM RevokedSilenced == Spec => []RevokedStationSilenced
<1>1. TokenInv => RevokedStationSilenced
  BY DEF TokenInv
<1> QED BY <1>1, TypeInit, TypeStep, LoopStep, ReportInit, TokenStep, PTL DEF Spec
=============================================================================
