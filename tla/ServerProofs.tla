---------------------------- MODULE ServerProofs ----------------------------
(***************************************************************************)
(* The history writer by itself, for every topic, every batch size and any     *)
(* number of stops; then the server process: the composition keeps what the   *)
(* writer keeps alone, whatever the other services do to it, and stops honestly. *)
(***************************************************************************)
EXTENDS Server, ConsumeProofs

-----------------------------------------------------------------------------
(* The history writer.                                                     *)


(* The writer's steps are the loop's, with statements beside them.            *)
LEMMA LoopInit == Init => ConsumeTypeOK /\ BatchInv /\ DecodedInv
BY BatchInit DEF Init

LEMMA LoopStep ==
    ConsumeTypeOK /\ BatchInv /\ DecodedInv /\ [Next]_vars
      => ConsumeTypeOK' /\ BatchInv' /\ DecodedInv'
<1> SUFFICES ASSUME ConsumeTypeOK, BatchInv, DecodedInv, [Next]_vars
             PROVE  ConsumeTypeOK' /\ BatchInv' /\ DecodedInv'
  OBVIOUS
<1>1. crashes' \in Nat
  BY DEF ConsumeTypeOK, Next, vars, consumeVars, Start, Poll, Flush, StartFlush, Insert,
         Commit, CommitOffsets, Exit, Stop, Counted
<1>2. \/ Start \/ Poll \/ LastPoll \/ StartFlush \/ CommitOffsets \/ Stop
      \/ UNCHANGED <<cpc, position, committed, pending>>
  BY DEF Next, vars, consumeVars, Flush, Insert, Commit, Exit, Close
<1> QED BY <1>1, <1>2, BatchStep

(* Nothing that is not a Trace is ever passed over, in whatever company the    *)
(* poll returned it and whenever the context is cancelled.                   *)
THEOREM PoisonStopsPartition == Spec => []PoisonNotPassed
<1>1. DecodedInv => PoisonNotPassed
  BY DEF DecodedInv
<1> QED BY <1>1, LoopInit, LoopStep, PTL DEF Spec

-----------------------------------------------------------------------------
(* The rows.                                                               *)

LEMMA PendingTraces ==
    ASSUME ConsumeTypeOK, BatchInv, DecodedInv, cpc # "down"
    PROVE  pending \subseteq Traces
BY PendingFacts DEF DecodedInv, Traces

LEMMA TypeInit == Init => TypeOK /\ QueueInv
<1>1. Init => ConsumeTypeOK
  BY LoopInit
<1> QED BY <1>1 DEF Init, ConsumeInit, TypeOK, QueueInv

(* The table gets only rows of pending traces.                               *)
LEMMA TableStep ==
    ASSUME TypeOK, BatchInv, DecodedInv, QueueInv, ConsumeTypeOK',
           \/ (Start \/ Poll \/ UNCHANGED <<cpc, position, committed, pending>>)
              /\ UNCHANGED <<table, queued>>
           \/ Flush \/ (\E x \in queued : Insert(x)) \/ Commit \/ Exit \/ Close
    PROVE  TypeOK' /\ QueueInv'
<1>t. ConsumeTypeOK /\ ConsumeTypeOK'
  BY DEF TypeOK
<1>c. ASSUME table' = table, queued' \subseteq pending', ~Flushing' => queued' = {}
      PROVE  TypeOK' /\ QueueInv'
  BY <1>c, <1>t DEF TypeOK, QueueInv
<1>1. CASE (Start \/ Poll) /\ UNCHANGED <<table, queued>>
  <2>1. cpc \in {"down", "polling"}
    BY <1>1 DEF Start, Poll
  <2> QED BY <1>1, <1>c, <2>1 DEF QueueInv, Flushing
<1>2. CASE Flush
  BY <1>2, <1>c DEF Flush, StartFlush, Flushing
<1>3. ASSUME NEW x \in queued, Insert(x) PROVE TypeOK' /\ QueueInv'
  <2>1. /\ Flushing /\ Flushing' /\ pending' = pending
        /\ table' = Stored(Row(Record(x))) /\ queued' = queued \ {x}
    BY <1>3 DEF Insert, consumeVars, Flushing
  <2>2. x \in Traces
    BY <1>t, <2>1, PendingTraces DEF TypeOK, Flushing
  <2>3. table' \subseteq {Row(Record(y)) : y \in Traces}
    BY <2>1, <2>2 DEF TypeOK, Stored
  <2> QED BY <1>t, <2>1, <2>3 DEF TypeOK, QueueInv
<1>4. CASE Commit \/ Exit
  <2>1. table' = table /\ queued' = {}
    BY <1>4 DEF Commit, Exit
  <2> QED BY <1>c, <2>1
<1>5. CASE Close
  <2>1. table' = table /\ queued' = pending'
    BY <1>5 DEF Close
  <2>2. ~Flushing' => pending' = {}
    BY <1>5 DEF Close, LastPoll, Gather, Flushing
  <2> QED BY <1>c, <2>1, <2>2
<1>6. CASE UNCHANGED <<cpc, position, committed, pending, table, queued>>
  BY <1>6, <1>c DEF TypeOK, QueueInv, Flushing
<1> QED BY <1>1, <1>2, <1>3, <1>4, <1>5, <1>6

LEMMA TypeStep ==
    TypeOK /\ BatchInv /\ DecodedInv /\ QueueInv /\ [Next]_vars => TypeOK' /\ QueueInv'
<1> SUFFICES ASSUME TypeOK, BatchInv, DecodedInv, QueueInv, [Next]_vars
             PROVE  TypeOK' /\ QueueInv'
  OBVIOUS
<1>1. ConsumeTypeOK'
  BY LoopStep DEF TypeOK
<1> QED BY <1>1, TableStep DEF Next, vars, consumeVars

(* The table holds rows of the topic's traces, and what is queued is pending.  *)
THEOREM TypeCorrect == Spec => []TypeOK
BY LoopInit, LoopStep, TypeInit, TypeStep, PTL DEF Spec

-----------------------------------------------------------------------------
(* What is committed is stored.                                             *)

LEMMA RowsInit == Init => RowInv
<1> SUFFICES ASSUME Init PROVE RowInv
  OBVIOUS
<1>1. ASSUME NEW x \in Position PROVE x \notin Committed
  <2> PICK p \in Partitions, i \in Nat : x = <<p, i>> /\ 0 < i
    BY PositionFacts
  <2> QED BY DEF Committed, Init, ConsumeInit
<1>2. Committed = {}
  BY <1>1 DEF Committed
<1> QED BY <1>2 DEF RowInv, Init, ConsumeInit

(* What an INSERT leaves of the table: every row, and the row itself.          *)
LEMMA StoredFacts ==
    ASSUME KeysIdentify, TypeOK, NEW x \in Traces
    PROVE  table \subseteq Stored(Row(Record(x))) /\ Row(Record(x)) \in Stored(Row(Record(x)))
<1>1. ASSUME NEW q \in table, Key(q) = Key(Row(Record(x))) PROVE q = Row(Record(x))
  <2> PICK y \in Traces : q = Row(Record(y))
    BY DEF TypeOK
  <2> QED BY <1>1 DEF KeysIdentify
<1> QED BY <1>1 DEF Stored

(* A row that is in the table stays, and a trace leaves queued only for the    *)
(* table, so a commit finds all of the batch there.                          *)
LEMMA RowStep ==
    ASSUME KeysIdentify, TypeOK, BatchInv, DecodedInv, RowInv,
           \/ (Start \/ Poll \/ UNCHANGED <<cpc, position, committed, pending>>)
              /\ UNCHANGED <<table, queued>>
           \/ Flush \/ (\E x \in queued : Insert(x)) \/ Commit \/ Exit \/ Close
    PROVE  RowInv'
<1>t. ConsumeTypeOK
  BY DEF TypeOK
<1>c. ASSUME UNCHANGED <<table, committed>>,
             Flushing' => \A x \in pending' : x \in queued' \/ Row(Record(x)) \in table
      PROVE  RowInv'
  <2>1. Committed' = Committed
    BY <1>c DEF Committed
  <2> QED BY <1>c, <2>1 DEF RowInv
<1>1. CASE (Start \/ Poll \/ Exit) /\ UNCHANGED table
  <2>1. ~Flushing' /\ committed' = committed
    BY <1>1 DEF Start, Poll, Gather, Exit, Stop, Flushing
  <2> QED BY <1>1, <1>c, <2>1
<1>2. CASE Flush
  BY <1>2, <1>c DEF Flush, StartFlush
<1>3. ASSUME NEW x \in queued, Insert(x) PROVE RowInv'
  <2>1. /\ Flushing /\ Flushing' /\ UNCHANGED <<committed, pending>>
        /\ table' = Stored(Row(Record(x))) /\ queued' = queued \ {x}
    BY <1>3 DEF Insert, consumeVars, Flushing
  <2>2. x \in Traces
    BY <1>t, <2>1, PendingTraces DEF TypeOK, Flushing
  <2>3. table \subseteq table' /\ Row(Record(x)) \in table'
    BY <2>1, <2>2, StoredFacts
  <2>4. Committed' = Committed
    BY <2>1 DEF Committed
  <2> QED BY <2>1, <2>3, <2>4 DEF RowInv
<1>4. CASE Commit
  <2>1. Committed' = Committed \cup pending
    BY <1>4, <1>t, CommitFacts DEF Commit
  <2>2. Flushing /\ ~Flushing' /\ queued = {} /\ table' = table
    BY <1>4 DEF Commit, CommitOffsets, Flushing
  <2> QED BY <2>1, <2>2 DEF RowInv
<1>5. CASE Close
  BY <1>5, <1>c DEF Close, LastPoll
<1>6. CASE UNCHANGED <<cpc, position, committed, pending, table, queued>>
  BY <1>6, <1>c DEF RowInv, Flushing
<1> QED BY <1>1, <1>2, <1>3, <1>4, <1>5, <1>6 DEF Exit

LEMMA RowsStep ==
    ASSUME KeysIdentify
    PROVE  TypeOK /\ BatchInv /\ DecodedInv /\ RowInv /\ [Next]_vars => RowInv'
BY RowStep DEF Next, vars, consumeVars

(* A trace whose offset is committed is in the table as it was sent, wherever   *)
(* the process stopped between the INSERTs and the commit, and whatever was     *)
(* inserted again.                                                         *)
THEOREM HistoryKept ==
    ASSUME KeysIdentify
    PROVE  Spec => []HistoryComplete
<1>1. RowInv => HistoryComplete
  BY DEF RowInv, HistoryComplete
<1> QED BY <1>1, LoopInit, LoopStep, TypeInit, TypeStep, RowsInit, RowsStep, PTL DEF Spec

-----------------------------------------------------------------------------
(* The refinement: a commit is a commit of the sink, every other step stores  *)
(* or changes nothing.                                                      *)

LEMMA PromiseInit == Init => Promise!Init
BY DEF Init, ConsumeInit, Promise!Init

(* Only traces are owed.                                                    *)
LEMMA CommittedTraces == ConsumeTypeOK /\ DecodedInv => Committed \subseteq Traces
<1> SUFFICES ASSUME ConsumeTypeOK, DecodedInv, NEW x \in Committed PROVE x \in Traces
  OBVIOUS
<1>1. x \in Position
  BY DEF Committed
<1> PICK p \in Partitions, i \in Nat : x = <<p, i>>
  BY <1>1, PositionFacts
<1>2. i <= committed[p] /\ committed[p] \in Nat
  BY DEF Committed, ConsumeTypeOK
<1>3. ~(committed[p] < i)
  BY <1>2
<1> QED BY <1>1, <1>3 DEF DecodedInv, PoisonNotPassed, Traces

LEMMA PromiseStep ==
    ConsumeTypeOK /\ BatchInv /\ (Committed \subseteq Traces /\ HistoryComplete)' /\ [Next]_vars
      => [Promise!Next]_(Promise!vars)
<1> SUFFICES ASSUME ConsumeTypeOK, BatchInv, (Committed \subseteq Traces)',
                    HistoryComplete', [Next]_vars
             PROVE  Promise!Next
  OBVIOUS
<1>1. Committed' \subseteq {x \in Traces : Row(Record(x)) \in table'}
  BY DEF HistoryComplete
<1>2. Promise!Owed(committed') = Committed'
  BY DEF Committed, Promise!Owed
<1>3. CASE Commit
  <2>1. table' = table
    BY <1>3 DEF Commit
  <2>2. \A p \in Partitions : committed[p] <= committed'[p]
    BY <1>3, CommitFacts DEF Commit
  <2> QED BY <1>1, <1>2, <2>1, <2>2 DEF Promise!Next, Promise!Commit
<1>4. CASE ~Commit
  <2>1. committed' = committed
    BY <1>4 DEF Next, vars, consumeVars, Start, Poll, Flush, StartFlush, Insert,
               Exit, Stop, Close, LastPoll
  <2> QED BY <1>1, <1>2, <2>1 DEF Promise!Next, Promise!Store
<1> QED BY <1>3, <1>4

(* The history writer implements the promise of a sink: the offsets flush       *)
(* commits only advance, over traces that are rows, and no later INSERT takes    *)
(* one of them back.                                                        *)
THEOREM HistoryImplementsDurable ==
    ASSUME KeysIdentify
    PROVE  Spec => ImplementsDurable
<1>1. RowInv => HistoryComplete
  BY DEF RowInv, HistoryComplete
<1> QED BY <1>1, LoopInit, LoopStep, TypeInit, TypeStep, RowsInit, RowsStep, CommittedTraces,
           PromiseInit, PromiseStep, PTL DEF Spec, ImplementsDurable, Promise!Spec

-----------------------------------------------------------------------------
(* What an action does to the history writer.                               *)

LEMMA CountedType == crashes \in Nat /\ Counted => crashes' \in Nat
BY DEF Counted

LEMMA ReturnsFacts ==
    ASSUME crashes \in Nat, clean \in BOOLEAN, NEW error \in BOOLEAN, Returns(error)
    PROVE  /\ crashes' \in Nat /\ clean' \in BOOLEAN /\ cancelled' = TRUE
           /\ clean' => clean /\ ~error
<1>1. CASE error
  <2>1. Counted /\ clean' = FALSE /\ cancelled' = TRUE
    BY <1>1, Zenon DEF Returns
  <2>2. crashes' \in Nat
    BY <2>1, CountedType
  <2>3. clean' \in BOOLEAN /\ (clean' => clean /\ ~error)
    BY <2>1, Zenon
  <2> QED BY <2>1, <2>2, <2>3, Zenon
<1>2. CASE ~error
  BY <1>2 DEF Returns
<1> QED BY <1>1, <1>2

(* Of every step one of three things is true of the loop and its table.       *)
LEMMA WriterStep ==
    ASSUME ServerTypeOK, ServerInv, [ServerNext]_serverVars
    PROVE  /\ crashes' \in Nat
           /\ \/ (Start \/ Poll \/ UNCHANGED <<cpc, position, committed, pending>>)
                 /\ UNCHANGED <<table, queued>>
              \/ Flush \/ (\E x \in queued : Insert(x)) \/ Commit \/ Exit \/ Close
              \/ Launch \/ Kill
<1>t. crashes \in Nat /\ clean \in BOOLEAN /\ cancelled \in BOOLEAN
  BY DEF ServerTypeOK, TypeOK, ConsumeTypeOK
<1>u. ASSUME UNCHANGED <<cpc, position, committed, pending, table, queued>>,
             crashes' = crashes \/ Counted
      PROVE  /\ crashes' \in Nat
             /\ UNCHANGED <<cpc, position, committed, pending, table, queued>>
  BY <1>t, <1>u DEF Counted
<1>1. CASE Launch \/ Kill
  BY <1>1, <1>t DEF Launch, Kill, Counted
<1>2. CASE Terminate \/ ProcessExit
  BY <1>2, <1>u DEF Terminate, ProcessExit, vars, consumeVars
<1>3. CASE Gateway
  BY <1>3, <1>u DEF Gateway, GatewayConnects, GatewayNotConnected, Bind, ListenerDies, BindFails,
     SetReady, SetUnready, Drain, Drained, GatewayReturns, Returns, historyVars, vars, consumeVars
<1>4. CASE ArchiverConnects \/ ArchiverReturns \/ Clients
  BY <1>4, <1>u DEF ArchiverConnects, ArchiverReturns, Clients, Request, Respond, Probe, Ask,
     ProbeAnswered, Returns, historyVars, vars, consumeVars
<1>5. CASE HistoryConnects \/ HistoryNotConnected
  <2>1. CASE HistoryConnects
    BY <2>1, <1>t DEF HistoryConnects, Start, consumeVars
  <2>2. CASE HistoryNotConnected
    BY <2>2, <1>u DEF HistoryNotConnected, Returns
  <2> QED BY <1>5, <2>1, <2>2
<1>6. CASE HistoryPolls
  BY <1>6, <1>t DEF HistoryPolls, Poll
<1>7. CASE HistoryCloses
  BY <1>7, <1>t DEF HistoryCloses
<1>8. CASE HistoryFlushes
  BY <1>8, <1>t DEF HistoryFlushes, Flush, StartFlush, Insert, consumeVars, Commit, CommitOffsets
<1>9. CASE HistoryFails
  BY <1>9, <1>t DEF HistoryFails, Exit, Stop, Counted
<1>10. CASE UNCHANGED serverVars
  BY <1>10, <1>u DEF serverVars, historyVars, vars, consumeVars
<1> QED BY <1>1, <1>2, <1>3, <1>4, <1>5, <1>6, <1>7, <1>8, <1>9, <1>10
        DEF ServerNext, HistoryWriter

(* So the loop's own invariants hold in the process too.                     *)
LEMMA LoopKept ==
    ASSUME ServerTypeOK, ServerInv, [ServerNext]_serverVars
    PROVE  TypeOK' /\ BatchInv' /\ DecodedInv' /\ QueueInv'
<1>t. TypeOK /\ ConsumeTypeOK /\ BatchInv /\ DecodedInv /\ QueueInv /\ crashes' \in Nat
  BY WriterStep DEF ServerTypeOK, TypeOK, ServerInv
<1>1. CASE Launch
  <2>1. /\ cpc = "down" /\ pending = {} /\ queued = {}
        /\ position' = committed
        /\ UNCHANGED <<cpc, committed, pending, table, queued>>
    BY <1>1, <1>t DEF Launch, ServerInv, GatewayInv, WriterInv, BatchInv, QueueInv, Flushing
  <2> QED BY <1>t, <2>1 DEF TypeOK, ConsumeTypeOK, BatchInv, DecodedInv, PoisonNotPassed,
                            QueueInv, Flushing
<1>2. CASE Kill
  <2>1. /\ cpc' = "down" /\ pending' = {} /\ queued' = {}
        /\ UNCHANGED <<position, committed, table>>
    BY <1>2 DEF Kill
  <2> QED BY <1>t, <2>1 DEF TypeOK, ConsumeTypeOK, BatchInv, DecodedInv, PoisonNotPassed,
                            QueueInv
<1>3. CASE \/ (Start \/ Poll \/ UNCHANGED <<cpc, position, committed, pending>>)
              /\ UNCHANGED <<table, queued>>
           \/ Flush \/ (\E x \in queued : Insert(x)) \/ Commit \/ Exit \/ Close
  <2>1. \/ Start \/ Poll \/ LastPoll \/ StartFlush \/ CommitOffsets \/ Stop
        \/ UNCHANGED <<cpc, position, committed, pending>>
    BY <1>3 DEF Flush, Insert, consumeVars, Commit, Exit, Close
  <2>2. ConsumeTypeOK' /\ BatchInv' /\ DecodedInv'
    BY <1>t, <2>1, BatchStep
  <2> QED BY <1>t, <1>3, <2>2, TableStep
<1> QED BY <1>1, <1>2, <1>3, WriterStep

-----------------------------------------------------------------------------
(* The services' lives.                                                     *)

LEMMA ServerInitInv == ServerInit => ServerTypeOK /\ ServerInv
<1> SUFFICES ASSUME ServerInit PROVE ServerTypeOK /\ ServerInv
  OBVIOUS
<1>1. TypeOK /\ BatchInv /\ DecodedInv /\ QueueInv
  BY LoopInit, TypeInit DEF ServerInit
<1>2. ServerTypeOK
  BY <1>1 DEF ServerInit, ServerTypeOK
<1>3. WriterInv /\ GatewayInv /\ ClientInv
  BY DEF ServerInit, Init, ConsumeInit, WriterInv, GatewayInv, ClientInv
<1> QED BY <1>1, <1>2, <1>3 DEF ServerInv

(* Steps that leave gateway and clients alone.                              *)
LEMMA ServerStep ==
    ServerTypeOK /\ ServerInv /\ [ServerNext]_serverVars => ServerTypeOK' /\ ServerInv'
<1> SUFFICES ASSUME ServerTypeOK, ServerInv, [ServerNext]_serverVars
             PROVE  ServerTypeOK' /\ ServerInv'
  OBVIOUS
<1>l. TypeOK' /\ BatchInv' /\ DecodedInv' /\ QueueInv'
  BY LoopKept
<1>q. SUFFICES (ServerTypeOK /\ WriterInv /\ GatewayInv /\ ClientInv)'
  BY <1>l DEF ServerInv
<1>t. /\ proc \in {"down", "up"} /\ cancelled \in BOOLEAN /\ clean \in BOOLEAN
      /\ bound \subseteq Listeners /\ died \subseteq Listeners /\ ready \in BOOLEAN
      /\ crashes \in Nat
  BY DEF ServerTypeOK, TypeOK, ConsumeTypeOK
<1> USE DEF ServerTypeOK, ServerInv, WriterInv, GatewayInv, ClientInv
<1>1. CASE Launch
  BY <1>1, <1>l DEF Launch, clientVars
<1>2. CASE Terminate
  BY <1>2, <1>l DEF Terminate, gatewayVars, clientVars
<1>3. CASE ProcessExit
  BY <1>3, <1>l DEF ProcessExit, Gone, vars, consumeVars
<1>4. CASE Kill
  BY <1>4, <1>l DEF Kill, Gone
<1>5. CASE GatewayConnects
  BY <1>5, <1>l DEF GatewayConnects, historyVars, vars, consumeVars, clientVars
<1>6. CASE GatewayNotConnected
  <2>1. cancelled' \in BOOLEAN /\ clean' \in BOOLEAN /\ (clean' => clean)
    BY <1>6, <1>t, ReturnsFacts DEF GatewayNotConnected
  <2> QED BY <1>6, <1>l, <2>1 DEF GatewayNotConnected, clientVars
<1>7. ASSUME NEW l \in Listeners, Bind(l) PROVE (ServerTypeOK /\ WriterInv /\ GatewayInv /\ ClientInv)'
  BY <1>7, <1>l DEF Bind, historyVars, vars, consumeVars, clientVars
<1>8. CASE BindFails
  <2>1. cancelled' \in BOOLEAN /\ clean' = FALSE
    BY <1>8, <1>t DEF BindFails, Returns
  <2> QED BY <1>8, <1>l, <2>1 DEF BindFails, clientVars
<1>9. CASE SetReady
  BY <1>9, <1>l DEF SetReady, historyVars, vars, consumeVars, clientVars
<1>10. ASSUME NEW l \in Listeners, ListenerDies(l) PROVE (ServerTypeOK /\ WriterInv /\ GatewayInv /\ ClientInv)'
  <2>1. /\ l \in bound /\ bound' = bound \ {l} /\ died' = died \cup {l}
        /\ UNCHANGED <<cpc, position, committed, hist, proc, cancelled, gw, ready, arch, request, probe>>
    BY <1>10 DEF ListenerDies, clientVars
  <2>2. clean' = FALSE
    BY <1>10, Zenon DEF ListenerDies
  <2>3. clean' \in BOOLEAN /\ ~clean'
    BY <2>2, Zenon
  <2>4. /\ bound' \subseteq Listeners /\ died' \subseteq Listeners /\ bound' \cap died' = {}
        /\ bound = Listeners \ died => bound' = Listeners \ died'
        /\ bound = {"admin"} \ died => bound' = {"admin"} \ died'
        /\ bound # {}
    BY <1>t, <2>1
  <2>5. GatewayInv'
    BY <2>1, <2>3, <2>4
  <2> QED BY <1>l, <2>1, <2>3, <2>4, <2>5
<1>11. CASE SetUnready
  <2>1. /\ gw = "serving" /\ gw' = "unready" /\ ready' = FALSE
        /\ UNCHANGED <<historyVars, proc, cancelled, bound, died, arch, clientVars, clean>>
    BY <1>11, Zenon DEF SetUnready
  <2>2. ready' \in BOOLEAN /\ ~ready'
    BY <2>1, Zenon
  <2>3. /\ gw = "serving" /\ gw' = "unready"
        /\ UNCHANGED <<cpc, position, committed, pending, proc, cancelled, bound, died, hist, arch,
                       request, probe, clean>>
    BY <2>1 DEF historyVars, vars, consumeVars, clientVars
  <2> QED BY <1>l, <2>2, <2>3
<1>12. CASE Drain
  BY <1>12, <1>l DEF Drain, historyVars, vars, consumeVars, clientVars, Listeners
<1>13. CASE Drained
  BY <1>13, <1>l DEF Drained, historyVars, vars, consumeVars, clientVars, Listeners
<1>14. CASE GatewayReturns
  BY <1>14, <1>l DEF GatewayReturns, historyVars, vars, consumeVars, clientVars
<1>15. CASE Request
  BY <1>15, <1>l DEF Request, historyVars, vars, consumeVars, gatewayVars
<1>16. CASE Respond
  BY <1>16, <1>l DEF Respond, historyVars, vars, consumeVars, gatewayVars
<1>17. CASE Probe
  BY <1>17, <1>l DEF Probe, historyVars, vars, consumeVars, gatewayVars
<1>18. CASE Ask \/ \E status \in {"ok", "unavailable"} : ProbeAnswered(status)
  BY <1>18, <1>l DEF Ask, ProbeAnswered, historyVars, vars, consumeVars, gatewayVars
<1>19. CASE ArchiverConnects
  BY <1>19, <1>l DEF ArchiverConnects, historyVars, vars, consumeVars, gatewayVars, clientVars
<1>20. CASE ArchiverReturns
  <2>1. cancelled' \in BOOLEAN /\ clean' \in BOOLEAN /\ (clean' => clean)
    BY <1>20, <1>t, ReturnsFacts DEF ArchiverReturns
  <2> QED BY <1>20, <1>l, <2>1 DEF ArchiverReturns, gatewayVars, clientVars
<1>21. CASE HistoryConnects
  BY <1>21, <1>l DEF HistoryConnects, Start, consumeVars, gatewayVars, clientVars
<1>22. CASE HistoryNotConnected
  <2>1. cancelled' \in BOOLEAN /\ clean' \in BOOLEAN /\ (clean' => clean)
    BY <1>22, <1>t, ReturnsFacts DEF HistoryNotConnected
  <2> QED BY <1>22, <1>l, <2>1 DEF HistoryNotConnected, gatewayVars, clientVars
<1>23. CASE HistoryPolls
  BY <1>23, <1>l DEF HistoryPolls, gatewayVars, clientVars
<1>24. CASE HistoryCloses
  <2>1. /\ hist = "running" /\ clean' \in BOOLEAN /\ (clean' => clean)
        /\ hist' = IF cpc' = "down" THEN "returned" ELSE "running"
        /\ UNCHANGED <<proc, cancelled, gw, bound, died, ready, arch, request, probe>>
    BY <1>24, <1>t DEF HistoryCloses, gatewayVars, clientVars
  <2>2. ASSUME cpc' = "down", clean' PROVE position' = committed'
    <3>1. LastPoll /\ ~\E x \in Slice(position, position') : Record(x) \in Poison
      BY <1>24, <2>2 DEF HistoryCloses, Close
    <3>2. pending \cup Slice(position, position') = {} /\ committed' = committed
      BY <2>2, <3>1 DEF LastPoll, Gather
    <3>3. Slice(committed, position) = {}
      BY <3>1, <3>2 DEF LastPoll, BatchInv
    <3>4. /\ position \in [Partitions -> Nat] /\ position' \in [Partitions -> Nat]
          /\ committed \in [Partitions -> Nat]
      BY <1>l DEF TypeOK, ConsumeTypeOK
    <3>5. \A p \in Partitions : committed[p] <= position[p] /\ position[p] <= position'[p]
      BY <3>1 DEF LastPoll, Gather, PollEnds, BatchInv
    <3>6. ASSUME NEW p \in Partitions PROVE committed[p] = position'[p]
      <4>1. <<p, position[p]>> \notin Slice(committed, position)
        BY <3>3
      <4>2. <<p, position'[p]>> \notin Slice(position, position')
        BY <3>2
      <4> QED BY <3>4, <3>5, <4>1, <4>2, SliceFacts
    <3> QED BY <3>2, <3>4, <3>6
  <2> QED BY <1>l, <2>1, <2>2
<1>25. CASE HistoryFlushes
  <2>1. /\ hist = "running"
        /\ hist' = IF cpc' = "down" THEN "returned" ELSE "running"
        /\ UNCHANGED <<proc, cancelled, gw, bound, died, ready, arch, request, probe, clean>>
    BY <1>25 DEF HistoryFlushes, gatewayVars, clientVars
  <2>2. cpc' = "down" => position' = committed'
    BY <1>25, <2>1 DEF HistoryFlushes, Flush, StartFlush, Insert, consumeVars, Commit, CommitOffsets
  <2> QED BY <1>l, <2>1, <2>2
<1>26. CASE HistoryFails
  <2>1. /\ hist = "running" /\ hist' = "returned" /\ cpc' = "down"
        /\ cancelled' = TRUE /\ clean' = FALSE
        /\ UNCHANGED <<proc, gatewayVars, arch, clientVars>>
    BY <1>26, Zenon DEF HistoryFails, Exit, Stop
  <2>2. clean' \in BOOLEAN /\ ~clean' /\ cancelled' \in BOOLEAN
    BY <2>1, Zenon
  <2>3. /\ hist = "running" /\ hist' = "returned" /\ cpc' = "down"
        /\ UNCHANGED <<proc, gw, bound, died, ready, arch, request, probe>>
    BY <2>1 DEF gatewayVars, clientVars
  <2> QED BY <1>l, <2>2, <2>3
<1>27. CASE UNCHANGED serverVars
  BY <1>27, <1>l DEF serverVars, historyVars, vars, consumeVars, gatewayVars, clientVars
<1> QED BY <1>1, <1>2, <1>3, <1>4, <1>5, <1>6, <1>7, <1>8, <1>9, <1>10, <1>11, <1>12, <1>13,
           <1>14, <1>15, <1>16, <1>17, <1>18, <1>19, <1>20, <1>21, <1>22, <1>23, <1>24, <1>25,
           <1>26, <1>27 DEF ServerNext, Gateway, HistoryWriter, Clients

(* The process and its services are always in a state of those declared.      *)
THEOREM ServerTypeCorrect == ServerSpec => []ServerTypeOK
BY ServerInitInv, ServerStep, PTL DEF ServerSpec

(* A record that is not a Trace is never passed over, though a signal or another *)
(* service may cancel the loop at any time, and restarts read it again.         *)
THEOREM PoisonNeverPassed == ServerSpec => []PoisonNotPassed
<1>1. ServerInv => PoisonNotPassed
  BY DEF ServerInv, DecodedInv
<1> QED BY <1>1, ServerInitInv, ServerStep, PTL DEF ServerSpec

(* /readyz is honest: ready only with both listeners up, unset while a request   *)
(* is drained, which probes can still see.                                   *)
THEOREM ReadyMeansServing == ServerSpec => []ReadinessHonest
<1>1. ServerTypeOK /\ ServerInv => ReadinessHonest
  BY DEF ServerTypeOK, ServerInv, GatewayInv, ReadinessHonest
<1> QED BY <1>1, ServerInitInv, ServerStep, PTL DEF ServerSpec

(* An undisturbed stop answers every client and commits every polled trace: the  *)
(* process exits only when all three services have returned, the gateway after    *)
(* its drains and the history writer after its last flush.                     *)
THEOREM CleanStopLosesNothing == ServerSpec => StopLosesNothing
<1> DEFINE Lossless == (proc = "up" /\ proc' = "down" /\ clean') =>
                          /\ request # "serving" /\ probe # "checking"
                          /\ committed = position
<1>1. ServerTypeOK /\ ServerInv /\ [ServerNext]_serverVars => [Lossless]_serverVars
  <2> SUFFICES ASSUME ServerTypeOK, ServerInv, ServerNext,
                      proc = "up", proc' = "down", clean'
               PROVE  /\ request # "serving" /\ probe # "checking"
                      /\ committed = position
    OBVIOUS
  <2>1. ProcessExit
    <3>1. ~Kill
      BY Zenon DEF Kill
    <3>2. ~(Launch \/ Terminate \/ ArchiverConnects \/ ArchiverReturns)
      BY DEF Launch, Terminate, ArchiverConnects, ArchiverReturns
    <3>3. ~Gateway
      BY DEF Gateway, GatewayConnects, GatewayNotConnected, Bind, ListenerDies, BindFails,
             SetReady, SetUnready, Drain, Drained, GatewayReturns
    <3>4. ~HistoryWriter
      BY DEF HistoryWriter, HistoryConnects, HistoryNotConnected, HistoryPolls, HistoryCloses,
             HistoryFlushes, HistoryFails
    <3>5. ~Clients
      BY DEF Clients, Request, Respond, Probe, Ask, ProbeAnswered
    <3> QED BY <3>1, <3>2, <3>3, <3>4, <3>5 DEF ServerNext
  <2>2. gw = "returned" /\ hist = "returned" /\ clean
    BY <2>1 DEF ProcessExit
  <2> QED BY <2>2 DEF ServerInv, WriterInv, ClientInv
<1> HIDE DEF Lossless
<1>2. ServerSpec => [][Lossless]_serverVars
  BY <1>1, ServerInitInv, ServerStep, PTL DEF ServerSpec
<1> QED BY <1>2 DEF Lossless, StopLosesNothing

-----------------------------------------------------------------------------
(* The rows.                                                               *)

(* In the process too, what is committed is in the table.                     *)
THEOREM ProcessKeepsHistory ==
    ASSUME KeysIdentify
    PROVE  ServerSpec => []HistoryComplete
<1>1. ServerInit => RowInv
  BY RowsInit DEF ServerInit
<1>2. ServerTypeOK /\ ServerInv /\ RowInv /\ [ServerNext]_serverVars => RowInv'
  <2> SUFFICES ASSUME ServerTypeOK, ServerInv, RowInv, [ServerNext]_serverVars PROVE RowInv'
    OBVIOUS
  <2>1. CASE Launch \/ Kill
    <3>1. UNCHANGED <<table, committed>> /\ ~Flushing'
      BY <2>1 DEF Launch, Kill, Flushing, ServerInv, GatewayInv, WriterInv
    <3>2. Committed' = Committed
      BY <3>1 DEF Committed
    <3> QED BY <3>1, <3>2 DEF RowInv
  <2>2. TypeOK /\ BatchInv /\ DecodedInv
    BY DEF ServerTypeOK, ServerInv
  <2> QED BY <2>1, <2>2, WriterStep, RowStep
<1>3. RowInv => HistoryComplete
  BY DEF RowInv, HistoryComplete
<1> QED BY <1>1, <1>2, <1>3, ServerInitInv, ServerStep, PTL DEF ServerSpec
=============================================================================
