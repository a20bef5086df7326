-------------------------- MODULE SupervisorProofs --------------------------
(***************************************************************************)
(* The station's supervisor, for every set of children and any number of      *)
(* deaths: types, and what a stop of the supervisor alone can lose.            *)
(***************************************************************************)
EXTENDS Supervisor, TLAPS

(* A signal leaves a child in a phase, and a phase a child.                   *)
LEMMA SignalledFacts ==
    ASSUME NEW phase \in Phases
    PROVE  /\ Signalled(phase) \in Phases
           /\ Signalled(phase) = "none" <=> phase = "none"
           /\ Signalled(phase) = "unwinding" <=> phase = "running"
           /\ Signalled(phase) \notin {"starting", "running"}
BY DEF Signalled, Phases

(* Nothing dies or is killed unnoticed.                                     *)
LEMMA Unharmed ==
    ASSUME TypeOK, Next
    PROVE  /\ deaths' \in Nat /\ killed' \in BOOLEAN
           /\ deaths' = 0 => deaths = 0
           /\ killed => killed'
<1>t. deaths \in Nat /\ killed \in BOOLEAN
  BY DEF TypeOK
<1>1. deaths' \in {deaths, deaths + 1}
  BY DEF Next, Child, Ready, Unwound, Fails, IsKilled, Work, FeedCloses, FeedFlushed,
         Supervise, StartFirst, Notice,
         Terminate, JoinTimesOut, Watch, Spawn, Record, TerminatedAll, Joined, AtExit,
         Systemd, SupervisorKilled, Restart, Reap, ReapKills, StopSupervisor, StopGroup
<1>2. killed' = killed \/ \E c \in Children : killed' = (killed \/ c = Ingest)
  BY Zenon DEF Next, Child, Ready, Unwound, Fails, IsKilled, Work, FeedCloses, FeedFlushed,
         Supervise, StartFirst, Notice,
         Terminate, JoinTimesOut, Watch, Spawn, Record, TerminatedAll, Joined, AtExit,
         Systemd, SupervisorKilled, Restart, Reap, ReapKills, StopSupervisor, StopGroup
<1>3. killed' \in BOOLEAN /\ (killed => killed')
  BY <1>t, <1>2, Zenon
<1>4. deaths' \in Nat /\ (deaths' = 0 => deaths = 0)
  BY <1>t, <1>1
<1> QED BY <1>3, <1>4

LEMMA TypeInit == Init => TypeOK /\ TodoInv
<1> SUFFICES ASSUME Init PROVE TypeOK /\ TodoInv
  OBVIOUS
<1>1. killed \in BOOLEAN
  BY Zenon DEF Init
<1>2. /\ sup = "boot" /\ child = [c \in Children |-> "none"]
      /\ recorded = {} /\ target = Ingest /\ todo = {}
      /\ batch = "none" /\ reaped = {} /\ stop = "no" /\ deaths = 0
  BY DEF Init
<1> QED BY <1>1, <1>2, SupervisorAssumption DEF TypeOK, TodoInv, Phases

LEMMA TypeStep == TypeOK /\ TodoInv /\ [Next]_vars => TypeOK' /\ TodoInv'
<1> SUFFICES ASSUME TypeOK, TodoInv, Next PROVE TypeOK' /\ TodoInv'
  BY DEF TypeOK, TodoInv, vars
<1>u. deaths' \in Nat /\ killed' \in BOOLEAN
  BY Unharmed
<1>b. \A ch : BatchAfter(ch) \in {"none", "pending", "cut", "lost"}
  BY DEF TypeOK, BatchAfter
<1>s. \A c \in Children : Signalled(child[c]) \in Phases
  BY SignalledFacts DEF TypeOK
<1> DEFINE Changed == /\ child' \in [Children -> Phases]
                      /\ batch' \in {"none", "pending", "cut", "lost"}
<1>c. Changed
  <2>1. ASSUME NEW c \in Children, Child(c) \/ StartFirst(c) \/ Notice(c) PROVE Changed
    BY <2>1, <1>b, <1>s DEF TypeOK, Phases, Child, Ready, Unwound, Fails, IsKilled, StartFirst, Notice
  <2>2. ASSUME NEW c \in Children, Terminate(c) \/ JoinTimesOut(c) \/ Reap(c) \/ ReapKills(c) PROVE Changed
    BY <2>2, <1>b, <1>s DEF TypeOK, Phases, Terminate, JoinTimesOut, Reap, ReapKills
  <2>3. CASE Work \/ FeedCloses \/ FeedFlushed \/ Watch \/ Spawn \/ Record \/ TerminatedAll \/ Joined \/ AtExit
    BY <2>3 DEF TypeOK, Phases, Work, FeedCloses, FeedFlushed, Watch, Spawn, Record, TerminatedAll, Joined, AtExit
  <2>4. CASE SupervisorKilled \/ Restart \/ StopSupervisor
    BY <2>4 DEF TypeOK, Phases, SupervisorKilled, Restart, StopSupervisor
  <2>5. CASE StopGroup
    BY <2>5, <1>b, <1>s DEF TypeOK, StopGroup
  <2> QED BY <2>1, <2>2, <2>3, <2>4, <2>5 DEF Next, Supervise, Systemd
<1>1. ASSUME NEW c \in Children, Child(c) \/ StartFirst(c) \/ Notice(c) PROVE TypeOK' /\ TodoInv'
  BY <1>1, <1>u, <1>c DEF TypeOK, TodoInv, Child, Ready, Unwound, Fails, IsKilled, StartFirst, Notice
<1>2. ASSUME NEW c \in Children, Terminate(c) \/ JoinTimesOut(c) \/ Reap(c) \/ ReapKills(c)
      PROVE  TypeOK' /\ TodoInv'
  BY <1>2, <1>u, <1>c DEF TypeOK, TodoInv, Terminate, JoinTimesOut, Reap, ReapKills
<1>3. CASE Work \/ FeedCloses \/ FeedFlushed \/ Watch \/ Spawn \/ Record \/ TerminatedAll \/ Joined \/ AtExit
  BY <1>3, <1>u, <1>c DEF TypeOK, TodoInv, Work, FeedCloses, FeedFlushed, Watch, Spawn, Record, TerminatedAll, Joined, AtExit
<1>4. CASE SupervisorKilled \/ Restart
  BY <1>4, <1>u, <1>c DEF TypeOK, TodoInv, SupervisorKilled, Restart
<1>5. CASE StopSupervisor \/ StopGroup
  <2>1. /\ stop' \in {"main", "group"}
        /\ \/ sup' = "terminating" /\ todo' = recorded
           \/ sup' \in {"killed", "atexit"} /\ todo' = todo /\ sup # "terminating"
        /\ UNCHANGED <<reaped, recorded, target>>
    BY <1>5 DEF StopSupervisor, StopGroup, SupervisorSignalled, Up
  <2> QED BY <1>u, <1>c, <2>1 DEF TypeOK, TodoInv
<1> QED BY <1>1, <1>2, <1>3, <1>4, <1>5 DEF Next, Supervise, Systemd

(* supervise, its children and systemd keep to their states, and the finally      *)
(* block only terminates processes that procs has.                            *)
THEOREM TypeCorrect == Spec => []TypeOK
BY TypeInit, TypeStep, PTL DEF Spec

-----------------------------------------------------------------------------
(* A stop of the supervisor alone.                                          *)

LEMMA FlushStep == TypeOK /\ TodoInv /\ FlushInv /\ [Next]_vars => FlushInv'
<1> SUFFICES ASSUME TypeOK, TodoInv, FlushInv, Next,
                    stop' # "group", deaths' = 0, ~killed'
             PROVE  FlushInv'
  BY DEF FlushInv, vars, Up
<1>d. deaths = 0 /\ ~killed
  BY Unharmed
<1>g. stop # "group"
  BY DEF Next, Child, Ready, Unwound, Fails, IsKilled, Work, FeedCloses, FeedFlushed,
         Supervise, StartFirst, Notice,
         Terminate, JoinTimesOut, Watch, Spawn, Record, TerminatedAll, Joined, AtExit,
         Systemd, SupervisorKilled, Restart, Reap, ReapKills, StopSupervisor, StopGroup
<1>i. /\ batch # "lost"
      /\ child[Ingest] \in {"none", "starting"} => batch = "none"
      /\ child[Ingest] = "dead" => batch # "pending"
      /\ (sup = "boot" \/ Up \/ Ingest \in todo) => child[Ingest] \notin {"unwinding", "dead"}
      /\ (sup = "killed" /\ Ingest \notin reaped) => child[Ingest] # "unwinding"
      /\ sup = "restart" => target # Ingest
  BY <1>d, <1>g DEF FlushInv
<1>t. /\ child \in [Children -> Phases]
      /\ batch \in {"none", "pending", "cut"} /\ Ingest \in Children
  BY <1>i, SupervisorAssumption DEF TypeOK
<1> USE DEF FlushInv, Up
<1>1. ASSUME NEW c \in Children, Ready(c) \/ Unwound(c) \/ StartFirst(c) \/ Notice(c) PROVE FlushInv'
  BY <1>1, <1>i, <1>t DEF Ready, Unwound, StartFirst, Notice
<1>2. ASSUME NEW c \in Children, Fails(c) \/ IsKilled(c) PROVE FALSE
  BY <1>2, <1>d DEF Fails, IsKilled
<1>3. CASE Work \/ FeedCloses \/ FeedFlushed \/ Watch \/ Spawn \/ Record \/ TerminatedAll \/ Joined \/ AtExit
  BY <1>3, <1>i, <1>t DEF TodoInv, Work, FeedCloses, FeedFlushed, Watch, Spawn, Record, TerminatedAll, Joined, AtExit
<1>4. ASSUME NEW c \in Children, Terminate(c) \/ Reap(c) PROVE FlushInv'
  <2>1. /\ child' = [child EXCEPT ![c] = Signalled(child[c])]
        /\ batch' = BatchAfter(child')
    BY <1>4, <1>t DEF Terminate, Reap
  <2>2. CASE c = Ingest
    <3>1. child[Ingest] # "unwinding"
      BY <1>4, <1>i, <2>2 DEF Terminate, Reap
    <3>2. /\ child'[Ingest] = Signalled(child[Ingest])
          /\ child'[Ingest] = "none" => batch = "none"
          /\ child'[Ingest] = "dead" => batch # "pending" \/ child[Ingest] = "closing"
      BY <1>i, <1>t, <2>1, <2>2, <3>1 DEF Signalled, Phases
    <3>3. /\ batch' # "lost"
          /\ child'[Ingest] = "none" => batch' = "none"
          /\ child'[Ingest] = "dead" => batch' # "pending"
      BY <1>i, <1>t, <2>1, <3>2 DEF BatchAfter, Phases
    <3>4. child'[Ingest] # "starting"
      BY <1>t, <3>2, SignalledFacts
    <3> QED BY <1>4, <1>i, <1>t, <2>2, <3>2, <3>3, <3>4 DEF TodoInv, Terminate, Reap
  <2>3. CASE c # Ingest
    <3>1. child'[Ingest] = child[Ingest]
      BY <1>t, <2>1, <2>3
    <3>2. batch' = batch
      BY <1>t, <2>1, <3>1 DEF BatchAfter
    <3> QED BY <1>4, <1>i, <2>3, <3>1, <3>2 DEF Terminate, Reap
  <2> QED BY <2>2, <2>3
<1>5. ASSUME NEW c \in Children, JoinTimesOut(c) \/ ReapKills(c) PROVE FlushInv'
  <2>1. killed' = (killed \/ c = Ingest)
    BY <1>5, Zenon DEF JoinTimesOut, ReapKills
  <2>2. c # Ingest
    BY <2>1, Zenon
  <2>3. child'[Ingest] = child[Ingest] /\ batch' = BatchAfter(child')
    BY <1>5, <1>t, <2>2 DEF JoinTimesOut, ReapKills
  <2>4. batch' = batch
    BY <1>t, <2>3 DEF BatchAfter
  <2> QED BY <1>5, <1>i, <2>3, <2>4 DEF JoinTimesOut, ReapKills
<1>6. CASE SupervisorKilled
  BY <1>6, <1>d DEF SupervisorKilled
<1>7. CASE Restart
  BY <1>7, <1>t DEF Restart
<1>8. CASE StopSupervisor
  <2>1. /\ sup = "boot" \/ Up
        /\ \/ sup' = "terminating" /\ todo' = recorded
           \/ sup' \in {"killed", "atexit"} /\ todo' = {}
        /\ UNCHANGED <<reaped, child, batch>>
    BY <1>8 DEF StopSupervisor, SupervisorSignalled, TodoInv
  <2> QED BY <1>i, <2>1
<1>9. CASE StopGroup
  BY <1>9 DEF StopGroup
<1> QED BY <1>1, <1>2, <1>3, <1>4, <1>5, <1>6, <1>7, <1>8, <1>9 DEF Next, Child, Supervise, Systemd

(* A stop that reaches only the supervisor loses none of the lines ingest has       *)
(* pending, wherever it falls (before the handler is there, between two children,    *)
(* while a child is being restarted), but for those a flush of a closed feed holds.    *)
THEOREM StopFlushes == Spec => []SupervisorStopFlushes
<1>1. Init => FlushInv
  BY SupervisorAssumption DEF Init, FlushInv, Up
<1>2. FlushInv => SupervisorStopFlushes
  BY DEF FlushInv, SupervisorStopFlushes
<1> QED BY <1>1, <1>2, TypeInit, TypeStep, FlushStep, PTL DEF Spec
=============================================================================
