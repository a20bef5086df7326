------------------------------- MODULE Server -------------------------------
(***************************************************************************)
(* The server process: gateway, archiver and history writer run in one        *)
(* process, and the first to return cancels the others.  The gateway's life    *)
(* is modelled from its first ping to the end of its drain, with one request   *)
(* on the public port and one /readyz probe on the admin port; the history     *)
(* writer is the one of module History; of the archiver only its life is kept. *)
(*                                                                         *)
(*   process  proc       down or up                                          *)
(*            cancelled  the errgroup's context                              *)
(*   gateway  gw         its step: db, kafka, bind, serving, unready (told to  *)
(*                       stop), drain, drainAdmin, returned                   *)
(*            bound      listeners that accept connections                    *)
(*            died       listeners whose Serve has failed                    *)
(*            ready      the flag /readyz loads                               *)
(*   clients  request    on the public port: none, serving, answered, cut      *)
(*            probe      on the admin port: none, checking, ok, unavailable,   *)
(*                       refused                                            *)
(*                                                                         *)
(* clean is history: nothing has failed or timed out since the launch.         *)
(***************************************************************************)
EXTENDS History

VARIABLES proc, cancelled, gw, bound, died, ready, arch, hist, request, probe, clean

gatewayVars == <<gw, bound, died, ready>>
clientVars  == <<request, probe>>
historyVars == <<vars, hist>>
serverVars  == <<historyVars, proc, cancelled, gatewayVars, arch, clientVars, clean>>

Listeners == {"public", "admin"}

ServerTypeOK ==
    /\ TypeOK
    /\ proc \in {"down", "up"} /\ cancelled \in BOOLEAN /\ clean \in BOOLEAN
    /\ gw \in {"off", "db", "kafka", "bind", "serving", "unready", "drain",
               "drainAdmin", "returned"}
    /\ bound \subseteq Listeners /\ died \subseteq Listeners /\ ready \in BOOLEAN
    /\ arch \in {"off", "kafka", "running", "returned"}
    /\ hist \in {"off", "db", "kafka", "running", "returned"}
    /\ request \in {"none", "serving", "answered", "cut"}
    /\ probe \in {"none", "checking", "ok", "unavailable", "refused"}

ServerInit ==
    /\ Init
    /\ proc = "down" /\ cancelled = FALSE /\ clean = TRUE
    /\ gw = "off" /\ bound = {} /\ died = {} /\ ready = FALSE
    /\ arch = "off" /\ hist = "off"
    /\ request = "none" /\ probe = "none"

-----------------------------------------------------------------------------
(* The process.                                                            *)

(* main: run starts every service; nothing has been polled yet.              *)
Launch ==
    /\ proc = "down"
    /\ proc' = "up" /\ cancelled' = FALSE /\ clean' = TRUE
    /\ gw' = "db" /\ arch' = "kafka" /\ hist' = "db"
    /\ position' = committed
    /\ UNCHANGED <<cpc, committed, pending, crashes, table, queued, bound, died, ready, clientVars>>

(* SIGTERM or Ctrl-C cancels the context every service's derives from.       *)
Terminate ==
    /\ proc = "up" /\ ~cancelled
    /\ Counted
    /\ cancelled' = TRUE
    /\ UNCHANGED <<cpc, position, committed, pending, table, queued, hist, proc,
                   gatewayVars, arch, clientVars, clean>>

(* The process is gone, and with it every connection.                       *)
Gone ==
    /\ proc' = "down"
    /\ gw' = "off" /\ arch' = "off" /\ hist' = "off"
    /\ bound' = {} /\ died' = {} /\ ready' = FALSE
    /\ request' = IF request = "serving" THEN "cut" ELSE request
    /\ probe' = IF probe = "checking" THEN "refused" ELSE probe

(* Mutant: run waits for the first service only.                            *)
ExitOnFirst ==
    /\ proc = "up"
    /\ "returned" \in {gw, arch, hist}
    /\ Gone
    /\ cpc' = "down" /\ pending' = {} /\ queued' = {}
    /\ UNCHANGED <<position, committed, crashes, table, cancelled, clean>>

(* g.Wait returns when every service has.                                   *)
ProcessExit ==
    /\ proc = "up"
    /\ gw = "returned" /\ arch = "returned" /\ hist = "returned"
    /\ Gone
    /\ UNCHANGED <<vars, cancelled, clean>>

(* Killed: out of memory, or still draining when the grace period is over.    *)
Kill ==
    /\ proc = "up"
    /\ Counted
    /\ Gone
    /\ cpc' = "down" /\ pending' = {} /\ queued' = {}
    /\ clean' = FALSE
    /\ UNCHANGED <<position, committed, table, cancelled>>

(* Mutant: the services are joined without a common context.                 *)
ReturnsAlone(error) ==
    /\ UNCHANGED cancelled
    /\ IF error THEN Counted /\ clean' = FALSE ELSE UNCHANGED <<crashes, clean>>

(* A service returns an error: the errgroup cancels the context.  What a       *)
(* cancelled context makes return is not a failure.                         *)
Returns(error) ==
    /\ cancelled' = TRUE
    /\ IF error THEN Counted /\ clean' = FALSE ELSE UNCHANGED <<crashes, clean>>

-----------------------------------------------------------------------------
(* The gateway.                                                            *)

(* openDB and OpenKafka ping; then the listeners are bound.                  *)
GatewayConnects ==
    /\ gw \in {"db", "kafka"} /\ ~cancelled
    /\ gw' = IF gw = "db" THEN "kafka" ELSE "bind"
    /\ UNCHANGED <<historyVars, proc, cancelled, bound, died, ready, arch, clientVars, clean>>

(* A ping fails, or the context is cancelled during it.                     *)
GatewayNotConnected ==
    /\ gw \in {"db", "kafka"}
    /\ Returns(~cancelled)
    /\ gw' = "returned"
    /\ UNCHANGED <<cpc, position, committed, pending, table, queued, hist, proc, bound,
                   died, ready, arch, clientVars>>

(* The loop over the map of servers, in either order.                       *)
Bind(l) ==
    /\ gw = "bind" /\ l \notin bound \cup died
    /\ bound' = bound \cup {l}
    /\ UNCHANGED <<historyVars, proc, cancelled, gw, died, ready, arch, clientVars, clean>>

(* The port is taken.  A listener bound before it serves on until the end.    *)
BindFails ==
    /\ gw = "bind" /\ bound \cup died # Listeners
    /\ Returns(TRUE)
    /\ gw' = "returned"
    /\ UNCHANGED <<cpc, position, committed, pending, table, queued, hist, proc, bound,
                   died, ready, arch, clientVars>>

(* ready is set without looking at the context, or at errc.                  *)
SetReady ==
    /\ gw = "bind" /\ bound \cup died = Listeners
    /\ ready' = TRUE /\ gw' = "serving"
    /\ UNCHANGED <<historyVars, proc, cancelled, bound, died, arch, clientVars, clean>>

(* Serve returns an error that is not ErrServerClosed, at any time from Listen     *)
(* to Shutdown: errc keeps it for the select.  Either listener, or both.           *)
ListenerDies(l) ==
    /\ l \in bound
    /\ Counted
    /\ bound' = bound \ {l} /\ died' = died \cup {l} /\ clean' = FALSE
    /\ UNCHANGED <<cpc, position, committed, pending, table, queued, hist, proc, cancelled,
                   gw, ready, arch, clientVars>>

(* Mutant: a dead listener is only logged.                                  *)
SetUnreadyOnCancel ==
    /\ gw = "serving"
    /\ cancelled
    /\ ready' = FALSE /\ gw' = "unready"
    /\ UNCHANGED <<historyVars, proc, cancelled, bound, died, arch, clientVars, clean>>

(* The select: the context is done, or a listener is dead.                   *)
SetUnready ==
    /\ gw = "serving"
    /\ cancelled \/ died # {}
    /\ ready' = FALSE /\ gw' = "unready"
    /\ UNCHANGED <<historyVars, proc, cancelled, bound, died, arch, clientVars, clean>>

(* Mutant: both servers are shut down together.                             *)
DrainBoth ==
    /\ gw = "unready"
    /\ gw' = "drain" /\ bound' = {}
    /\ UNCHANGED <<historyVars, proc, cancelled, died, ready, arch, clientVars, clean>>

(* public.Shutdown closes the listener and waits for the requests.           *)
Drain ==
    /\ gw = "unready"
    /\ gw' = "drain" /\ bound' = bound \ {"public"}
    /\ UNCHANGED <<historyVars, proc, cancelled, died, ready, arch, clientVars, clean>>

(* public.Shutdown returns nil when the requests are done, an error when the 5 s   *)
(* are over; then admin.Shutdown.                                           *)
Drained ==
    /\ gw = "drain"
    /\ gw' = "drainAdmin" /\ bound' = bound \ {"admin"}
    /\ clean' = (clean /\ request # "serving")
    /\ UNCHANGED <<historyVars, proc, cancelled, died, ready, arch, clientVars>>

(* So does admin.Shutdown, and Run returns, with the context cancelled or an        *)
(* error of its own.                                                       *)
GatewayReturns ==
    /\ gw = "drainAdmin"
    /\ gw' = "returned"
    /\ cancelled' = TRUE
    /\ clean' = (clean /\ probe # "checking")
    /\ UNCHANGED <<historyVars, proc, bound, died, ready, arch, clientVars>>

-----------------------------------------------------------------------------
(* Its clients.                                                            *)

Request ==
    /\ request = "none" /\ "public" \in bound
    /\ request' = "serving"
    /\ UNCHANGED <<historyVars, proc, cancelled, gatewayVars, arch, probe, clean>>

Respond ==
    /\ request = "serving"
    /\ request' = "answered"
    /\ UNCHANGED <<historyVars, proc, cancelled, gatewayVars, arch, probe, clean>>

(* A GET /readyz: no listener, or ready is loaded, before the checks run.      *)
Probe ==
    /\ probe = "none" /\ proc = "up"
    /\ probe' = IF "admin" \notin bound THEN "refused"
                ELSE IF ready THEN "checking" ELSE "unavailable"
    /\ UNCHANGED <<historyVars, proc, cancelled, gatewayVars, arch, request, clean>>

(* Database and broker answer, or one fails or takes longer than 2 s.         *)
ProbeAnswered(status) ==
    /\ probe = "checking"
    /\ probe' = status
    /\ UNCHANGED <<historyVars, proc, cancelled, gatewayVars, arch, request, clean>>

Ask ==
    /\ probe \notin {"none", "checking"}
    /\ probe' = "none"
    /\ UNCHANGED <<historyVars, proc, cancelled, gatewayVars, arch, request, clean>>

-----------------------------------------------------------------------------
(* The archiver.                                                           *)

ArchiverConnects ==
    /\ arch = "kafka" /\ ~cancelled
    /\ arch' = "running"
    /\ UNCHANGED <<historyVars, proc, cancelled, gatewayVars, clientVars, clean>>

(* It cannot connect, its loop fails, or it has flushed and returns.          *)
ArchiverReturns ==
    /\ arch \in {"kafka", "running"}
    /\ Returns(~cancelled)
    /\ arch' = "returned"
    /\ UNCHANGED <<cpc, position, committed, pending, table, queued, hist, proc,
                   gatewayVars, clientVars>>

-----------------------------------------------------------------------------
(* The history writer.                                                     *)

HistoryConnects ==
    /\ hist \in {"db", "kafka"} /\ ~cancelled
    /\ IF hist = "db" THEN hist' = "kafka" /\ UNCHANGED consumeVars
                      ELSE hist' = "running" /\ Start
    /\ UNCHANGED <<table, queued, proc, cancelled, gatewayVars, arch, clientVars, clean>>

HistoryNotConnected ==
    /\ hist \in {"db", "kafka"}
    /\ Returns(~cancelled)
    /\ hist' = "returned"
    /\ UNCHANGED <<cpc, position, committed, pending, table, queued, proc,
                   gatewayVars, arch, clientVars>>

(* The loop; a record that is not a Trace ends it with an error.             *)
HistoryPolls ==
    /\ hist = "running" /\ ~cancelled
    /\ Poll
    /\ hist' = IF cpc' = "down" THEN "returned" ELSE hist
    /\ cancelled' = (cpc' = "down")
    /\ clean' = (clean /\ cpc' # "down")
    /\ UNCHANGED <<table, queued, proc, gatewayVars, arch, clientVars>>

(* The context is done: the last poll, and the last flush.                   *)
HistoryCloses ==
    /\ hist = "running" /\ cancelled
    /\ Close /\ UNCHANGED crashes
    /\ hist' = IF cpc' = "down" THEN "returned" ELSE hist
    /\ clean' = (clean /\ ~\E x \in Slice(position, position') : Record(x) \in Poison)
    /\ UNCHANGED <<proc, cancelled, gatewayVars, arch, clientVars>>

HistoryFlushes ==
    /\ hist = "running"
    /\ Flush \/ (\E x \in queued : Insert(x)) \/ Commit
    /\ hist' = IF cpc' = "down" THEN "returned" ELSE hist
    /\ UNCHANGED <<proc, cancelled, gatewayVars, arch, clientVars, clean>>

(* A fetch, a statement or a commit fails.                                  *)
HistoryFails ==
    /\ hist = "running"
    /\ Exit
    /\ hist' = "returned" /\ cancelled' = TRUE /\ clean' = FALSE
    /\ UNCHANGED <<proc, gatewayVars, arch, clientVars>>

-----------------------------------------------------------------------------
Gateway ==
    \/ GatewayConnects \/ GatewayNotConnected
    \/ (\E l \in Listeners : Bind(l) \/ ListenerDies(l))
    \/ BindFails \/ SetReady \/ SetUnready \/ Drain \/ Drained \/ GatewayReturns
HistoryWriter ==
    \/ HistoryConnects \/ HistoryNotConnected \/ HistoryPolls \/ HistoryCloses
    \/ HistoryFlushes \/ HistoryFails
Clients ==
    \/ Request \/ Respond \/ Probe \/ Ask
    \/ \E status \in {"ok", "unavailable"} : ProbeAnswered(status)

ServerNext ==
    \/ Launch \/ Terminate \/ ProcessExit \/ Kill
    \/ Gateway
    \/ ArchiverConnects \/ ArchiverReturns
    \/ HistoryWriter
    \/ Clients

ServerSpec == ServerInit /\ [][ServerNext]_serverVars

(* Each service's goroutine runs on, the drain window ends, and what is        *)
(* cancelled returns.  Clients, polls and restarts are not assumed to act.     *)
ServerFairness ==
    /\ WF_serverVars(Gateway)
    /\ WF_serverVars(ArchiverReturns /\ cancelled)
    /\ WF_serverVars(HistoryNotConnected /\ cancelled)
    /\ WF_serverVars(HistoryCloses) /\ WF_serverVars(HistoryFlushes)
    /\ WF_serverVars(ProcessExit)

ServerFairSpec == ServerSpec /\ ServerFairness

-----------------------------------------------------------------------------
(* One dead loop does not leave the process up and half-working: once any       *)
(* service has returned, whatever the others are in the middle of, the process  *)
(* exits.                                                                  *)
FailureEndsProcess ==
    ("returned" \in {gw, arch, hist}) ~> (proc = "down")

(* /readyz means what it says: ready is set only while both listeners accept,    *)
(* but for one whose Serve has failed, and as long as a request is being drained    *)
(* a probe still reaches the admin listener and finds ready unset.               *)
ReadinessHonest ==
    /\ ready => proc = "up" /\ bound = Listeners \ died
    /\ gw = "drain" => "admin" \in bound \cup died /\ ~ready

(* A dead listener does not leave the gateway reporting ready, also one that died    *)
(* before ready was set, or beside another.                                   *)
DeadListenerNoticed == (ready /\ died # {}) ~> ~ready

(* A stop that nothing disturbs loses nothing: when the process exits, the      *)
(* request in flight was answered, the probe too, and every trace the history    *)
(* writer polled is stored with its offset committed.                         *)
StopLosesNothing ==
    [][(proc = "up" /\ proc' = "down" /\ clean') =>
          /\ request # "serving" /\ probe # "checking"
          /\ committed = position]_serverVars

-----------------------------------------------------------------------------
(* The strengthening under which these are inductive.                       *)

(* The loop runs while the history writer does; before it has joined the group, *)
(* and after it has returned undisturbed, nothing it polled is uncommitted.     *)
WriterInv ==
    /\ hist = "running" <=> cpc # "down"
    /\ (hist \in {"db", "kafka"} \/ (hist = "returned" /\ clean)) => position = committed

(* ready is set while the gateway serves, and the listeners are those of its     *)
(* step, but for those that have died.                                      *)
GatewayInv ==
    /\ proc = "down" => gw = "off" /\ hist = "off"
    /\ ready <=> gw = "serving"
    /\ gw \in {"off", "db", "kafka", "drainAdmin"} => bound = {}
    /\ gw \in {"off", "db", "kafka"} => died = {}
    /\ gw \in {"serving", "unready"} => bound = Listeners \ died
    /\ gw = "drain" => bound = {"admin"} \ died
    /\ bound \cap died = {}
    /\ (gw = "returned" /\ clean) => bound = {}

(* A request or probe is under way only while the gateway waits for it, unless   *)
(* the drain window closed on it.                                           *)
ClientInv ==
    /\ gw \in {"off", "db", "kafka"} => request # "serving" /\ probe # "checking"
    /\ gw = "bind" => probe # "checking"
    /\ clean => /\ gw = "drainAdmin" => request # "serving"
                /\ gw = "returned" => request # "serving" /\ probe # "checking"

(* The inductive invariant of the process, without its rows.                  *)
ServerInv ==
    /\ BatchInv /\ DecodedInv /\ QueueInv
    /\ WriterInv /\ GatewayInv /\ ClientInv
=============================================================================
