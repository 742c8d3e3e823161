------------------------------ MODULE AppSession ------------------------------
(***************************************************************************)
(* Starting, watching and stopping applications in the flatpak plugin:     *)
(* ApplicationStart and ApplicationStop of flatpak_shim.cc, the monitor     *)
(* that polls a started application every 500 ms, and the portal proxies an *)
(* application owns in portals/portal_manager.cc and portal_proxy.cc.      *)
(*                                                                         *)
(* One thread runs the io_context, hence every handler of the strand; a     *)
(* start passes through several of them.  ApplicationStop runs on the       *)
(* platform thread, or on the io thread when a failed install calls it,     *)
(* takes no lock, and waits up to five seconds for the process to end.     *)
(*                                                                         *)
(* Handlers of different starts are pending as a set: the model does not    *)
(* use the order in which the strand received them.                        *)
(*                                                                         *)
(* External, and therefore free: what libflatpak and sdbus answer, when the *)
(* permission dialogs end, and the processes of the applications.          *)
(***************************************************************************)
EXTENDS Integers, FiniteSets

CONSTANTS
    AppIds,
    Starts,     \* the calls of ApplicationStart
    AppOf,      \* the application each start names
    Portals,    \* the portal interfaces
    Interfaces, \* those each application is given
    Stoppers,   \* the threads that call ApplicationStop
    None

ASSUME SessionAssumption ==
    /\ AppOf \in [Starts -> AppIds]
    /\ Interfaces \in [AppIds -> SUBSET Portals]
    /\ Stoppers \subseteq {"platform", "io"}
    /\ None \notin Starts
    /\ None \notin AppIds

VARIABLES
    plugin,          \* "running", or "terminated" by an exception that nothing
                     \* catches, or in "undefined" behaviour
    pc,              \* where each start is
    answer,          \* what its callback has been given
    process,         \* the process flatpak_installation_launch_full started
    active_sessions, \* the start whose MonitorSession the map holds, by app
    cancelled,       \* MonitorSession::cancelled
    timer,           \* sessions whose timer is pending
    handler,         \* the session monitor_app is busy with on the io thread
    stop,            \* each thread's call of ApplicationStop
    stopped,         \* applications reported stopped and not started since
    app_context      \* the applications PortalManager knows

startVars == <<pc, answer>>
monitorVars == <<active_sessions, cancelled, timer, handler>>
stopVars == <<stop, stopped>>
vars == <<plugin, startVars, process, monitorVars, stopVars, app_context>>

Locations ==
    {"idle", "dispatched",     \* before and on the strand
     "permissions",            \* the permission dialogs
     "runtime",                \* check_runtime looks for the runtime
     "installing", "installed",          \* the runtime's transaction, its success
     "extending",                        \* the extensions' transaction
     "ready", "no_runtime", "no_extension",  \* the result on its way to the strand
     "portals", "no_portals",  \* register_application has returned or thrown
     "launched", "ended"}

NotMonitoring == [session |-> None, step |-> "none", starting |-> FALSE]
NotStopping == [app |-> None, session |-> None, child |-> FALSE, valid |-> FALSE]

\* The io thread takes a handler when none occupies it.
IoFree == plugin = "running" /\ handler = NotMonitoring /\ stop["io"] = NotStopping
PlatformFree == plugin = "running" /\ stop["platform"] = NotStopping

Exists(s) == process[s] \in {"starting", "up"}
Running(a) == \E s \in Starts : AppOf[s] = a /\ Exists(s)

\* Mutant: the timer's handler captures the session itself.
TimersHoldSession(m) == timer

\* The map holds the only lasting reference to a session and a timer only a
\* weak one: the timers that stay pending when the map becomes m.
TimersOf(m) == {s \in timer : m[AppOf[s]] = s}

\* A proxy lives while a context owns it (PortalProxy caches weak pointers).
LiveProxies == UNION {Interfaces[a] : a \in app_context}

Move(s, from, to) == pc[s] = from /\ pc' = [pc EXCEPT ![s] = to]
Answer(s, from, result) ==
    /\ Move(s, from, "ended")
    /\ answer' = [answer EXCEPT ![s] = result]

-----------------------------------------------------------------------------
(* ApplicationStart up to the launch. *)

RequestStart(s) ==
    /\ PlatformFree
    /\ Move(s, "idle", "dispatched")
    /\ UNCHANGED <<plugin, answer, process, monitorVars, stopVars, app_context>>

\* No id, no installation, or no such application in it.
StartRejected(s) ==
    /\ IoFree
    /\ Answer(s, "dispatched", "error")
    /\ UNCHANGED <<plugin, process, monitorVars, stopVars, app_context>>

AskPermissions(s) ==
    /\ IoFree
    /\ Move(s, "dispatched", "permissions")
    /\ UNCHANGED <<plugin, answer, process, monitorVars, stopVars, app_context>>

\* External: the dialogs end.  Whatever was granted, the start goes on.
PermissionsAnswered(s) ==
    /\ plugin = "running"
    /\ Move(s, "permissions", "runtime")
    /\ UNCHANGED <<plugin, answer, process, monitorVars, stopVars, app_context>>

\* install_extensions: there are none or none is missing, a transaction fetches
\* the missing ones, or there cannot be one.
AfterExtensions == {"ready", "extending", "no_extension"}

\* check_runtime: the runtime is there, or has to be fetched by a transaction,
\* and the transaction may be impossible (the remote is gone).
CheckRuntime(s) ==
    /\ plugin = "running"
    /\ \E next \in AfterExtensions \cup {"installing", "no_runtime"} :
          Move(s, "runtime", next)
    /\ UNCHANGED <<plugin, answer, process, monitorVars, stopVars, app_context>>

\* The thread of install_runtime posts how its transaction went.
RuntimeTransactionEnds(s) ==
    /\ plugin = "running"
    /\ \E result \in {"installed", "no_runtime"} : Move(s, "installing", result)
    /\ UNCHANGED <<plugin, answer, process, monitorVars, stopVars, app_context>>

RuntimeInstalled(s) ==
    /\ IoFree
    /\ \E next \in AfterExtensions : Move(s, "installed", next)
    /\ UNCHANGED <<plugin, answer, process, monitorVars, stopVars, app_context>>

\* The thread of install_extensions.
ExtensionTransactionEnds(s) ==
    /\ plugin = "running"
    /\ \E result \in {"ready", "no_extension"} : Move(s, "extending", result)
    /\ UNCHANGED <<plugin, answer, process, monitorVars, stopVars, app_context>>

\* The continuation of a failed runtime reads value() of an ErrorOr that holds
\* an error; std::get throws through io_context::run.
RuntimeMissing(s) ==
    /\ IoFree
    /\ pc[s] = "no_runtime"
    /\ plugin' = "terminated"
    /\ UNCHANGED <<startVars, process, monitorVars, stopVars, app_context>>

ExtensionMissing(s) ==
    /\ IoFree
    /\ Answer(s, "no_extension", "error")
    /\ UNCHANGED <<plugin, process, monitorVars, stopVars, app_context>>

\* create_sandbox registers the application with the portals; emplace leaves a
\* context that is there already.
CreateSandbox(s) ==
    /\ IoFree
    /\ Move(s, "ready", "portals")
    /\ app_context' = app_context \cup {AppOf[s]}
    /\ UNCHANGED <<plugin, answer, process, monitorVars, stopVars>>

\* GetProxy throws, for a proxy that it has to create.
CreateSandboxFails(s) ==
    /\ IoFree
    /\ Move(s, "ready", "no_portals")
    /\ ~(Interfaces[AppOf[s]] \subseteq LiveProxies)
    /\ UNCHANGED <<plugin, answer, process, monitorVars, stopVars, app_context>>

\* Mutant: the callback is not called.
PortalsMissingSilent(s) ==
    /\ IoFree
    /\ Move(s, "no_portals", "ended")
    /\ UNCHANGED <<plugin, answer, process, monitorVars, stopVars, app_context>>

PortalsMissing(s) ==
    /\ IoFree
    /\ Answer(s, "no_portals", "error")
    /\ UNCHANGED <<plugin, process, monitorVars, stopVars, app_context>>

LaunchFails(s) ==
    /\ IoFree
    /\ Answer(s, "portals", "error")
    /\ UNCHANGED <<plugin, process, monitorVars, stopVars, app_context>>

\* The process is started and its session replaces any other of the
\* application; monitor_app runs before the callback does.
Launch(s) ==
    /\ IoFree
    /\ Move(s, "portals", "launched")
    /\ process' = [process EXCEPT ![s] = "starting"]
    /\ active_sessions' = [active_sessions EXCEPT ![AppOf[s]] = s]
    /\ timer' = TimersOf(active_sessions')
    /\ handler' = [session |-> s, step |-> "check", starting |-> TRUE]
    /\ stopped' = stopped \ {AppOf[s]}
    /\ UNCHANGED <<plugin, answer, cancelled, stop, app_context>>

-----------------------------------------------------------------------------
(* The monitor, on the io thread. *)

TimerFires(s) ==
    /\ IoFree
    /\ s \in timer
    /\ timer' = timer \ {s}
    /\ handler' = [session |-> s, step |-> "check", starting |-> FALSE]
    /\ UNCHANGED <<plugin, startVars, process, active_sessions, cancelled,
                   stopVars, app_context>>

InMonitor(s, step) ==
    plugin = "running" /\ handler.session = s /\ handler.step = step

\* monitor_app returns; in a start the callback follows.
MonitorReturns(s) ==
    /\ handler' = NotMonitoring
    /\ IF handler.starting THEN Answer(s, "launched", "ok")
                           ELSE UNCHANGED startVars

\* Mutant: the map is asked, not flatpak.
MonitorFindsSession(s) ==
    /\ InMonitor(s, "check")
    /\ active_sessions[AppOf[s]] # None
    /\ handler' = [handler EXCEPT !.step = "schedule"]
    /\ UNCHANGED <<plugin, startVars, process, active_sessions, cancelled, timer,
                   stopVars, app_context>>

\* A live instance of the application is found, or not: also a running one is
\* missed behind an instance that has no application id.
MonitorFindsApp(s) ==
    /\ InMonitor(s, "check")
    /\ s \notin cancelled
    /\ Running(AppOf[s])
    /\ handler' = [handler EXCEPT !.step = "schedule"]
    /\ UNCHANGED <<plugin, startVars, process, active_sessions, cancelled, timer,
                   stopVars, app_context>>

\* Mutant: cleanup_app gets past its compare_exchange.
CleanupUnregisters(s) ==
    /\ cancelled' = cancelled \cup {s}
    /\ app_context' = app_context \ {AppOf[s]}
    /\ active_sessions' = [active_sessions EXCEPT ![AppOf[s]] = None]
    /\ timer' = TimersOf(active_sessions')

\* cleanup_app stores TRUE in cancelled, and then returns because its
\* compare_exchange expects FALSE: the rest of it never runs.
cleanup_app(s) ==
    /\ cancelled' = cancelled \cup {s}
    /\ UNCHANGED <<app_context, active_sessions, timer>>

MonitorMissesApp(s) ==
    /\ InMonitor(s, "check")
    /\ IF s \in cancelled
         THEN UNCHANGED <<app_context, active_sessions, timer, cancelled>>
         ELSE cleanup_app(s)
    /\ MonitorReturns(s)
    /\ UNCHANGED <<plugin, process, stopVars>>

\* The name must still be in the map; if the session itself is not, it dies
\* with this handler and takes the timer with it.
schedule_next_check(s) ==
    /\ InMonitor(s, "schedule")
    /\ timer' = IF s \notin cancelled /\ active_sessions[AppOf[s]] = s
                  THEN timer \cup {s} ELSE timer
    /\ MonitorReturns(s)
    /\ UNCHANGED <<plugin, process, active_sessions, cancelled, stopVars,
                   app_context>>

-----------------------------------------------------------------------------
(* ApplicationStop and is_app_running. *)

\* Thread t looks the application up and sends SIGTERM to its child, if the
\* instance has one: right after the launch it has none yet.
StopBegins(t, a) ==
    /\ t \in Stoppers
    /\ IF t = "io" THEN IoFree ELSE PlatformFree
    /\ active_sessions[a] # None
    /\ LET s == active_sessions[a]
       IN  stop' = [stop EXCEPT ![t] = [app |-> a, session |-> s,
                                        child |-> process[s] = "up", valid |-> TRUE]]
    /\ UNCHANGED <<plugin, startVars, process, monitorVars, stopped, app_context>>

\* Mutant: the entry stays, with a null session.
EraseUnbound(a) ==
    /\ active_sessions' = [active_sessions EXCEPT ![a] = 0]
    /\ timer' = TimersOf(active_sessions')

\* Erasing an application invalidates the iterators of the other calls.
Erase(a) ==
    /\ active_sessions' = [active_sessions EXCEPT ![a] = None]
    /\ timer' = TimersOf(active_sessions')

Invalidated(t, a) ==
    [u \in DOMAIN stop |->
        IF u # t /\ stop[u].app = a THEN [stop[u] EXCEPT !.valid = FALSE] ELSE stop[u]]

\* The child has ended, and the session is erased.
StopEnds(t) ==
    /\ plugin = "running"
    /\ stop[t].app # None /\ stop[t].valid
    /\ stop[t].child => process[stop[t].session] = "gone"
    /\ Erase(stop[t].app)
    /\ stop' = [Invalidated(t, stop[t].app) EXCEPT ![t] = NotStopping]
    /\ stopped' = stopped \cup {stop[t].app}
    /\ UNCHANGED <<plugin, startVars, process, cancelled, handler, app_context>>

\* Mutant: SIGTERM again, which the application is free to ignore.
StopTerminatesAgain(t) ==
    /\ plugin = "running"
    /\ stop[t].child
    /\ process[stop[t].session] = "up"
    /\ UNCHANGED vars

\* The five seconds are over: SIGKILL.
StopKills(t) ==
    /\ plugin = "running"
    /\ stop[t].child
    /\ process[stop[t].session] = "up"
    /\ process' = [process EXCEPT ![stop[t].session] = "gone"]
    /\ UNCHANGED <<plugin, startVars, monitorVars, stopVars, app_context>>

\* The iterator is not valid any more: the other thread has erased its element.
StopUndefined(t) ==
    /\ plugin = "running"
    /\ stop[t].app # None /\ ~stop[t].valid
    /\ stop[t].child => process[stop[t].session] = "gone"
    /\ plugin' = "undefined"
    /\ UNCHANGED <<startVars, process, monitorVars, stopVars, app_context>>

\* is_app_running erases a session whose application has gone.  It holds
\* monitor_mutex_, which ApplicationStop does not take.
IsAppRunning(a) ==
    /\ PlatformFree
    /\ active_sessions[a] # None
    /\ ~Running(a)
    /\ cancelled' = cancelled \cup {active_sessions[a]}
    /\ Erase(a)
    /\ stop' = Invalidated("platform", a)
    /\ UNCHANGED <<plugin, startVars, process, handler, stopped, app_context>>

-----------------------------------------------------------------------------
(* External: the processes. *)

ProcessUp(s) ==
    /\ process[s] = "starting"
    /\ process' = [process EXCEPT ![s] = "up"]
    /\ UNCHANGED <<plugin, startVars, monitorVars, stopVars, app_context>>

ProcessExits(s) ==
    /\ Exists(s)
    /\ process' = [process EXCEPT ![s] = "gone"]
    /\ UNCHANGED <<plugin, startVars, monitorVars, stopVars, app_context>>

Init ==
    /\ plugin = "running"
    /\ pc = [s \in Starts |-> "idle"]
    /\ answer = [s \in Starts |-> "none"]
    /\ process = [s \in Starts |-> "none"]
    /\ active_sessions = [a \in AppIds |-> None]
    /\ cancelled = {}
    /\ timer = {}
    /\ handler = NotMonitoring
    /\ stop = [t \in {"platform", "io"} |-> NotStopping]
    /\ stopped = {}
    /\ app_context = {}

\* What the strand runs for a start: one handler after the other.
OnStrand(s) ==
    \/ StartRejected(s) \/ AskPermissions(s)
    \/ RuntimeInstalled(s) \/ RuntimeMissing(s) \/ ExtensionMissing(s)
    \/ CreateSandbox(s) \/ CreateSandboxFails(s) \/ PortalsMissing(s)
    \/ LaunchFails(s) \/ Launch(s)

Monitor(s) ==
    TimerFires(s) \/ MonitorFindsApp(s) \/ MonitorMissesApp(s) \/ schedule_next_check(s)

\* What becomes of the runtime and the extensions off the strand.
Runtime(s) ==
    CheckRuntime(s) \/ RuntimeTransactionEnds(s) \/ ExtensionTransactionEnds(s)

StopGoesOn(t) == StopEnds(t) \/ StopKills(t) \/ StopUndefined(t)

Next ==
    \/ \E s \in Starts :
          \/ RequestStart(s) \/ OnStrand(s) \/ Monitor(s)
          \/ PermissionsAnswered(s) \/ Runtime(s)
          \/ ProcessUp(s) \/ ProcessExits(s)
    \/ \E a \in AppIds : IsAppRunning(a) \/ \E t \in Stoppers : StopBegins(t, a)
    \/ \E t \in Stoppers : StopGoesOn(t)

Spec == Init /\ [][Next]_vars

\* The io_context's queue is first in, first out: a handler posted to it, or a
\* timer that has expired, runs however busy others keep the thread (strong
\* fairness).  libflatpak returns; the waiting loop of a stop is bounded.  A
\* user may leave a dialog open, and an application may run for ever.
Fairness ==
    /\ \A s \in Starts :
          /\ SF_vars(OnStrand(s)) /\ SF_vars(TimerFires(s))
          /\ WF_vars(Monitor(s)) /\ WF_vars(Runtime(s))
    /\ \A t \in Stoppers : WF_vars(StopGoesOn(t))

FairSpec == Spec /\ Fairness

-----------------------------------------------------------------------------
(* Properties. *)

TypeOK ==
    /\ plugin \in {"running", "terminated", "undefined"}
    /\ pc \in [Starts -> Locations]
    /\ answer \in [Starts -> {"none", "ok", "error"}]
    /\ process \in [Starts -> {"none", "starting", "up", "gone"}]
    /\ active_sessions \in [AppIds -> Starts \cup {None}]
    /\ cancelled \subseteq Starts
    /\ timer \subseteq Starts
    /\ handler \in [session : Starts \cup {None}, step : {"none", "check", "schedule"},
                    starting : BOOLEAN]
    /\ stop \in [{"platform", "io"} ->
                    [app : AppIds \cup {None}, session : Starts \cup {None},
                     child : BOOLEAN, valid : BOOLEAN]]
    /\ stopped \subseteq AppIds
    /\ app_context \subseteq AppIds

\* The sessions that will look at their application again.
Monitors == timer \cup {s \in Starts : handler.session = s}

\* However starts, stops and timers fall, one monitor at most polls an
\* application: a session that another start has replaced, or a stop erased,
\* polls no more (schedule_next_check, flatpak_shim.cc:3349-3367).
OneMonitorPerApp ==
    \A s1, s2 \in Monitors : AppOf[s1] = AppOf[s2] => s1 = s2

\* An application keeps its portals while a process of it exists, also when it
\* is started again just as the monitor sees it gone.
RunningKeepsPortals ==
    \A s \in Starts : Exists(s) => AppOf[s] \in app_context

\* Once the permissions are settled the caller of ApplicationStart gets an
\* answer (test_flatpak.cc:632-634: "App start timed out for"), except where the
\* plugin goes down: a runtime that cannot be installed takes it down.
StartAnsweredWhileUp ==
    \A s \in Starts : pc[s] = "runtime" ~> (answer[s] # "none" \/ plugin # "running")

\* The monitor of an application that is gone stops polling.
ExitEndsMonitor ==
    \A s \in Starts :
        s \in Monitors /\ ~Running(AppOf[s])
            ~> s \notin Monitors \/ Running(AppOf[s]) \/ plugin # "running"

\* ApplicationStop returns, whether or not the application obeys SIGTERM.
StopReturns ==
    \A t \in Stoppers : stop[t] # NotStopping ~> stop[t] = NotStopping \/ plugin # "running"

\* "Stop application with given id." (messages.g.h:406; test_flatpak.cc:662
\* expects the application not to run afterwards.)  An application that was
\* reported stopped and has not been launched since has no process.
StoppedMeansNotRunning == \A a \in stopped : ~Running(a)
=============================================================================
