----------------------------- MODULE Supervisor -----------------------------
(***************************************************************************)
(* The station's supervisor: starts ingest, publish and heartbeat as child    *)
(* processes, restarts any that dies, and on SIGINT or SIGTERM terminates and   *)
(* joins them.  A stop reaches the supervisor alone (kill), or every process    *)
(* of its group: Ctrl-C, and systemd, whose units stop that way by default.     *)
(*                                                                         *)
(*   sup       boot (children being started, no handler yet), watch, restart    *)
(*             (sleeping before it), spawned (a child started and not yet in    *)
(*             procs), terminating, joining, atexit, exited, killed             *)
(*   child     none, starting (no handler yet), running, closing (ingest's      *)
(*             flush when the feed has closed), unwinding (its finally blocks    *)
(*             run for an exception), dead                                   *)
(*   recorded  the children procs has                                         *)
(*   batch     ingest's pending lines: none, pending, cut (lost in the flush     *)
(*             of a closed feed), or lost otherwise                           *)
(*   reaped    the children systemd has signalled                             *)
(*                                                                         *)
(* stop and killed are history: whom the stop signal reached, and whether         *)
(* ingest was killed outright.                                              *)
(***************************************************************************)
EXTENDS Naturals, FiniteSets

CONSTANTS
    Children,       \* the names of TARGETS
    Ingest,         \* the one that has lines pending
    MaxDeaths       \* children or supervisors that die by themselves

ASSUME SupervisorAssumption == Ingest \in Children /\ MaxDeaths \in Nat

VARIABLES sup, child, recorded, target, todo, batch, reaped, stop, killed, deaths

vars == <<sup, child, recorded, target, todo, batch, reaped, stop, killed, deaths>>

Phases == {"none", "starting", "running", "closing", "unwinding", "dead"}
Alive(c) == child[c] \in Phases \ {"none", "dead"}
Up == sup \in {"watch", "restart", "spawned"}

TypeOK ==
    /\ sup \in {"boot", "watch", "restart", "spawned", "terminating", "joining",
                "atexit", "exited", "killed"}
    /\ child \in [Children -> Phases]
    /\ recorded \subseteq Children /\ todo \subseteq recorded /\ reaped \subseteq Children
    /\ target \in Children
    /\ batch \in {"none", "pending", "cut", "lost"}
    /\ stop \in {"no", "main", "group"} /\ killed \in BOOLEAN
    /\ deaths \in Nat

Init ==
    /\ sup = "boot"
    /\ child = [c \in Children |-> "none"]
    /\ recorded = {} /\ target = Ingest /\ todo = {}
    /\ batch = "none" /\ reaped = {} /\ stop = "no" /\ killed = FALSE /\ deaths = 0

-----------------------------------------------------------------------------
(* A child.                                                                *)

(* Mutant: no handler is installed, SIGTERM kills.                           *)
TerminatedAtOnce(phase) == IF phase \in {"none", "dead"} THEN phase ELSE "dead"

(* What an exception does, a signal's SystemExit or KeyboardInterrupt too: it     *)
(* unwinds a running child, whose finally blocks flush, and comes out of a flush   *)
(* that a finally block runs already, be it of a closed feed or of a signal.       *)
Signalled(phase) ==
    CASE phase = "running" -> "unwinding"
      [] phase \in {"starting", "closing", "unwinding"} -> "dead"
      [] OTHER -> phase

(* The lines of an ingest that is dead in children ch are gone.              *)
BatchAfter(ch) ==
    IF ch[Ingest] = "dead" /\ child[Ingest] # "dead" /\ batch = "pending"
      THEN IF child[Ingest] = "closing" THEN "cut" ELSE "lost"
      ELSE batch

(* child: logging and the handler are set up, target() runs.                 *)
Ready(c) ==
    /\ child[c] = "starting"
    /\ child' = [child EXCEPT ![c] = "running"]
    /\ UNCHANGED <<reaped, sup, recorded, target, todo, batch, stop, killed, deaths>>

(* Ingest reads a line, or flushes what it has.                             *)
Work ==
    /\ child[Ingest] = "running"
    /\ batch' = IF batch = "none" THEN "pending" ELSE "none"
    /\ UNCHANGED <<reaped, sup, child, recorded, target, todo, stop, killed, deaths>>

(* The peer closes, or the socket fails: the finally block flushes the pending     *)
(* lines, and main connects again.                                           *)
FeedCloses ==
    /\ child[Ingest] = "running" /\ batch = "pending"
    /\ child' = [child EXCEPT ![Ingest] = "closing"]
    /\ UNCHANGED <<reaped, sup, recorded, target, todo, batch, stop, killed, deaths>>

FeedFlushed ==
    /\ child[Ingest] = "closing"
    /\ child' = [child EXCEPT ![Ingest] = "running"]
    /\ batch' = "none"
    /\ UNCHANGED <<reaped, sup, recorded, target, todo, stop, killed, deaths>>

(* The finally blocks are done: ingest's has flushed.                        *)
Unwound(c) ==
    /\ child[c] = "unwinding"
    /\ child' = [child EXCEPT ![c] = "dead"]
    /\ batch' = IF c = Ingest /\ batch = "pending" THEN "none" ELSE batch
    /\ UNCHANGED <<reaped, sup, recorded, target, todo, stop, killed, deaths>>

(* An uncaught exception, of a flush too.                                   *)
Fails(c) ==
    /\ Alive(c) /\ deaths < MaxDeaths
    /\ child' = [child EXCEPT ![c] = Signalled(@)]
    /\ batch' = BatchAfter(child')
    /\ deaths' = deaths + 1
    /\ UNCHANGED <<reaped, sup, recorded, target, todo, stop, killed>>

(* Out of memory: no unwinding.                                             *)
IsKilled(c) ==
    /\ Alive(c) /\ deaths < MaxDeaths
    /\ child' = [child EXCEPT ![c] = "dead"]
    /\ batch' = BatchAfter(child')
    /\ killed' = (killed \/ c = Ingest)
    /\ deaths' = deaths + 1
    /\ UNCHANGED <<reaped, sup, recorded, target, todo, stop>>

-----------------------------------------------------------------------------
(* supervise.                                                              *)

(* The dict comprehension that starts every child.                          *)
StartFirst(c) ==
    /\ sup = "boot" /\ child[c] = "none"
    /\ child' = [child EXCEPT ![c] = "starting"]
    /\ UNCHANGED <<reaped, sup, recorded, target, todo, batch, stop, killed, deaths>>

(* procs is complete and the handler installed.                             *)
Watch ==
    /\ sup = "boot" /\ \A c \in Children : child[c] # "none"
    /\ sup' = "watch" /\ recorded' = Children
    /\ UNCHANGED <<reaped, child, target, todo, batch, stop, killed, deaths>>

(* Mutant: only the child whose sentinel woke the loop is looked at, and of    *)
(* several the others are forgotten.                                        *)
NoticeAlone(c) ==
    /\ sup = "watch" /\ child[c] = "dead" /\ \A d \in Children \ {c} : child[d] # "dead"
    /\ sup' = "restart" /\ target' = c
    /\ UNCHANGED <<reaped, child, recorded, todo, batch, stop, killed, deaths>>

(* A sentinel fires and the loop finds a dead child; it sleeps.               *)
Notice(c) ==
    /\ sup = "watch" /\ child[c] = "dead"
    /\ sup' = "restart" /\ target' = c
    /\ UNCHANGED <<reaped, child, recorded, todo, batch, stop, killed, deaths>>

(* start(): until it returns, procs holds the dead process.                  *)
Spawn ==
    /\ sup = "restart"
    /\ sup' = "spawned"
    /\ child' = [child EXCEPT ![target] = "starting"]
    /\ recorded' = recorded \ {target}
    /\ batch' = IF target = Ingest THEN "none" ELSE batch
    /\ UNCHANGED <<reaped, target, todo, stop, killed, deaths>>

Record ==
    /\ sup = "spawned"
    /\ sup' = "watch" /\ recorded' = recorded \cup {target}
    /\ UNCHANGED <<reaped, child, target, todo, batch, stop, killed, deaths>>

(* Mutant: the finally block goes by targets, not by procs.                   *)
TargetsSignalled ==
    IF Up THEN sup' = "terminating" /\ todo' = Children
          ELSE sup' \in {"killed", "atexit"} /\ todo' = todo

(* SIGTERM before the handler is there kills the supervisor, SIGINT unwinds it. *)
(* From the loop either leads to the finally block.                          *)
SupervisorSignalled ==
    IF Up THEN sup' = "terminating" /\ todo' = recorded
          ELSE sup' \in {"killed", "atexit"} /\ todo' = todo

StopSupervisor ==
    /\ stop = "no" /\ (sup = "boot" \/ Up)
    /\ stop' = "main"
    /\ SupervisorSignalled
    /\ UNCHANGED <<reaped, child, recorded, target, batch, killed, deaths>>

StopGroup ==
    /\ stop = "no" /\ (sup = "boot" \/ Up)
    /\ stop' = "group"
    /\ SupervisorSignalled
    /\ child' = [c \in Children |-> Signalled(child[c])]
    /\ batch' = BatchAfter(child')
    /\ UNCHANGED <<reaped, recorded, target, killed, deaths>>

(* p.terminate() for every process of procs.                                *)
Terminate(c) ==
    /\ sup = "terminating" /\ c \in todo
    /\ child' = [child EXCEPT ![c] = Signalled(@)]
    /\ batch' = BatchAfter(child')
    /\ todo' = todo \ {c}
    /\ UNCHANGED <<reaped, sup, recorded, target, stop, killed, deaths>>

TerminatedAll ==
    /\ sup = "terminating" /\ todo = {}
    /\ sup' = "joining"
    /\ UNCHANGED <<reaped, child, recorded, target, todo, batch, stop, killed, deaths>>

(* Mutant: a child that does not exit in time is left alone.                 *)
JoinTimesOutQuietly(c) ==
    /\ sup = "joining" /\ c \in recorded /\ Alive(c)
    /\ UNCHANGED vars

(* join(10) returns with the child still alive: p.kill().                    *)
JoinTimesOut(c) ==
    /\ sup = "joining" /\ c \in recorded /\ Alive(c)
    /\ child' = [child EXCEPT ![c] = "dead"]
    /\ batch' = BatchAfter(child')
    /\ killed' = (killed \/ c = Ingest)
    /\ UNCHANGED <<reaped, sup, recorded, target, todo, stop, deaths>>

Joined ==
    /\ sup = "joining" /\ \A c \in recorded : ~Alive(c)
    /\ sup' = "atexit"
    /\ UNCHANGED <<reaped, child, recorded, target, todo, batch, stop, killed, deaths>>

(* At exit multiprocessing joins every child that is not a daemon.            *)
AtExit ==
    /\ sup = "atexit" /\ \A c \in Children : ~Alive(c)
    /\ sup' = "exited"
    /\ UNCHANGED <<reaped, child, recorded, target, todo, batch, stop, killed, deaths>>

-----------------------------------------------------------------------------
(* systemd.                                                                *)

SupervisorKilled ==
    /\ sup \notin {"exited", "killed"} /\ deaths < MaxDeaths
    /\ sup' = "killed" /\ todo' = {}
    /\ deaths' = deaths + 1
    /\ UNCHANGED <<reaped, child, recorded, target, batch, stop, killed>>

(* The main process is gone: what is left of its group is signalled, unless the *)
(* stop did that, and killed when it takes too long.                         *)
Reap(c) ==
    /\ sup = "killed" /\ stop # "group" /\ Alive(c) /\ c \notin reaped
    /\ reaped' = reaped \cup {c}
    /\ child' = [child EXCEPT ![c] = Signalled(@)]
    /\ batch' = BatchAfter(child')
    /\ UNCHANGED <<sup, recorded, target, todo, stop, killed, deaths>>

ReapKills(c) ==
    /\ sup = "killed" /\ Alive(c) /\ (stop = "group" \/ c \in reaped)
    /\ child' = [child EXCEPT ![c] = "dead"]
    /\ batch' = BatchAfter(child')
    /\ killed' = (killed \/ c = Ingest)
    /\ UNCHANGED <<sup, recorded, target, todo, reaped, stop, deaths>>

(* Restart=always, unless a stop was asked for.                             *)
Restart ==
    /\ sup = "killed" /\ stop = "no" /\ \A c \in Children : ~Alive(c)
    /\ sup' = "boot"
    /\ child' = [c \in Children |-> "none"]
    /\ recorded' = {} /\ todo' = {} /\ reaped' = {}
    /\ batch' = "none"
    /\ UNCHANGED <<target, stop, killed, deaths>>

Child(c) == Ready(c) \/ Unwound(c) \/ Fails(c) \/ IsKilled(c)
Supervise ==
    \/ \E c \in Children : StartFirst(c) \/ Notice(c) \/ Terminate(c) \/ JoinTimesOut(c)
    \/ Watch \/ Spawn \/ Record \/ TerminatedAll \/ Joined \/ AtExit
Systemd == SupervisorKilled \/ Restart \/ \E c \in Children : Reap(c) \/ ReapKills(c)

Next ==
    \/ (\E c \in Children : Child(c)) \/ Work \/ FeedCloses \/ FeedFlushed
    \/ Supervise \/ Systemd
    \/ StopSupervisor \/ StopGroup

Spec == Init /\ [][Next]_vars

(* The supervisor and systemd run on, a join times out, a child starts up.      *)
(* That a child's flush ends is not assumed.                                 *)
Fairness ==
    /\ WF_vars(Supervise) /\ WF_vars(Restart)
    /\ \A c \in Children : WF_vars(Ready(c)) /\ WF_vars(Reap(c) \/ ReapKills(c))

FairSpec == Spec /\ Fairness

-----------------------------------------------------------------------------
Stopped == sup \in {"exited", "killed"} /\ \A c \in Children : ~Alive(c)

(* A stop ends everything, however long a child's flush takes, if it does not   *)
(* fall between starting a child and recording it: finally terminates what is    *)
(* in procs, and kills what does not exit.                                   *)
StopCompletes ==
    (stop # "no" /\ sup = "terminating" /\ recorded = Children) ~> Stopped

(* A child that dies is restarted, also when several die at once or one dies     *)
(* while another is being restarted, unless a stop comes first.               *)
DeadChildRestarted ==
    \A c \in Children : (child[c] = "dead") ~> (child[c] = "running" \/ stop # "no")

(* A stop of the supervisor alone loses pending lines only when its one SIGTERM    *)
(* meets ingest in the flush of a closed feed, which is a finally block already:    *)
(* anywhere else that SIGTERM starts the flush and no second one cuts it short.     *)
SupervisorStopFlushes ==
    (stop = "main" /\ deaths = 0 /\ ~killed) => batch # "lost"

(* Whoever is left to be signalled, the finally block is at it.              *)
TodoInv == sup # "terminating" => todo = {}

(* As long as nothing has died or been killed and no signal went to the group,  *)
(* ingest unwinds only when it has been signalled by the finally block or by       *)
(* systemd, which signal it once, and has lines pending only while its finally     *)
(* block is still to run: the strengthening that makes SupervisorStopFlushes        *)
(* inductive.                                                              *)
FlushInv ==
    (stop # "group" /\ deaths = 0 /\ ~killed) =>
       /\ batch # "lost"
       /\ child[Ingest] \in {"none", "starting"} => batch = "none"
       /\ child[Ingest] = "dead" => batch # "pending"
       /\ (sup = "boot" \/ Up \/ Ingest \in todo) => child[Ingest] \notin {"unwinding", "dead"}
       /\ (sup = "killed" /\ Ingest \notin reaped) => child[Ingest] # "unwinding"
       /\ sup = "restart" => target # Ingest

-----------------------------------------------------------------------------
(* A statement of the documentation that the code does not keep.            *)

(* README.md: "A normal stop (SIGINT/SIGTERM) flushes everything."  Stated of the   *)
(* lines a flush of a closed feed does not hold, for those are lost to any stop:     *)
(* a stop that reaches the group loses the others too.                        *)
StopFlushesEverything ==
    (stop # "no" /\ deaths = 0 /\ ~killed) => batch # "lost"
=============================================================================
