--------------------------- MODULE AppSessionProofs ---------------------------
(***************************************************************************)
(* Proofs about AppSession, for any number of applications, starts, stops   *)
(* and portals.                                                            *)
(***************************************************************************)
EXTENDS AppSession, TLAPS

\* Every timer belongs to the session the map holds, and not to an application
\* a handler of the monitor is busy with.
TimersCurrent ==
    \A s \in timer :
        /\ active_sessions[AppOf[s]] = s
        /\ handler.session # None => AppOf[s] # AppOf[handler.session]

\* The map holds sessions of starts that have launched.
SessionsLaunched ==
    \A a \in AppIds : active_sessions[a] # None =>
        /\ pc[active_sessions[a]] \in {"launched", "ended"}
        /\ AppOf[active_sessions[a]] = a

\* A start has registered its application when it goes on to the launch.
RegisteredFirst ==
    \A s \in Starts :
        pc[s] = "portals" \/ Exists(s) => AppOf[s] \in app_context

\* A session in the map is polled, until its monitor is cancelled.
ActiveIsWatched ==
    \A a \in AppIds : active_sessions[a] # None
        => active_sessions[a] \in cancelled \cup Monitors

\* A start is over when its caller is answered and not before; a process was
\* started for those that were answered "ok" and for the one in its launch,
\* which has the io thread.
ToldWhatHappened ==
    \A s \in Starts :
        /\ answer[s] # "none" <=> pc[s] = "ended"
        /\ process[s] # "none" <=> pc[s] = "launched" \/ answer[s] = "ok"
        /\ pc[s] = "launched" <=> handler.session = s /\ handler.starting

\* A stop waits for a process that is up or gone, and its iterator is valid only
\* while the map has an entry of the application.
StopsHold ==
    \A t \in {"platform", "io"} : stop[t] # NotStopping =>
        /\ stop[t].app \in AppIds
        /\ stop[t].session \in Starts
        /\ stop[t].child => process[stop[t].session] \in {"up", "gone"}
        /\ stop[t].valid => active_sessions[stop[t].app] # None

USE SessionAssumption

StopType ==
    [{"platform", "io"} -> [app : AppIds \cup {None}, session : Starts \cup {None},
                            child : BOOLEAN, valid : BOOLEAN]]

\* Invalidating iterators and erasing an application keep the types.
LEMMA InvalidatedType ==
    ASSUME stop \in StopType, NEW t, NEW a
    PROVE  Invalidated(t, a) \in StopType
<1> DEFINE D == {"platform", "io"}
<1>1. DOMAIN stop = D
  BY DEF StopType
<1>2. ASSUME NEW u \in D
      PROVE  [stop[u] EXCEPT !.valid = FALSE] \in
                [app : AppIds \cup {None}, session : Starts \cup {None},
                 child : BOOLEAN, valid : BOOLEAN]
  BY <1>2 DEF StopType
<1> QED BY <1>1, <1>2 DEF Invalidated, StopType

LEMMA EraseType ==
    ASSUME active_sessions \in [AppIds -> Starts \cup {None}], timer \subseteq Starts,
           NEW a, Erase(a)
    PROVE  /\ active_sessions' \in [AppIds -> Starts \cup {None}]
           /\ timer' \subseteq timer
BY DEF Erase, TimersOf

\* Every variable keeps its type, in the starts of ApplicationStart, the
\* monitor and the stops alike.
THEOREM TypeCorrect == Spec => []TypeOK
<1>1. Init => TypeOK
  BY DEF Init, TypeOK, NotMonitoring, NotStopping, Locations
<1>2. TypeOK /\ [Next]_vars => TypeOK'
  <2> SUFFICES ASSUME TypeOK, [Next]_vars PROVE TypeOK'
    OBVIOUS
  <2> USE DEF TypeOK, Locations, startVars, monitorVars, stopVars
  <2>1. ASSUME NEW s \in Starts, RequestStart(s) PROVE TypeOK'
    BY <2>1 DEF RequestStart, Move
  <2>2. ASSUME NEW s \in Starts, OnStrand(s) PROVE TypeOK'
    <3>1. CASE Launch(s)
      BY <3>1 DEF Launch, Move, TimersOf
    <3>2. CASE StartRejected(s) \/ AskPermissions(s)
      BY <3>2 DEF StartRejected, AskPermissions, Answer, Move
    <3>3. CASE RuntimeInstalled(s) \/ RuntimeMissing(s) \/ ExtensionMissing(s)
      BY <3>3 DEF RuntimeInstalled, AfterExtensions, RuntimeMissing,
                       ExtensionMissing, Answer, Move
    <3>4. CASE CreateSandbox(s) \/ CreateSandboxFails(s)
      BY <3>4 DEF CreateSandbox, CreateSandboxFails, Move
    <3>5. CASE PortalsMissing(s) \/ LaunchFails(s)
      BY <3>5 DEF PortalsMissing, LaunchFails, Answer, Move
    <3> QED BY <2>2, <3>1, <3>2, <3>3, <3>4, <3>5 DEF OnStrand
  <2>3. ASSUME NEW s \in Starts, Monitor(s) PROVE TypeOK'
    <3>1. CASE TimerFires(s)
      BY <3>1 DEF TimerFires
    <3>2. CASE MonitorFindsApp(s)
      BY <3>2 DEF MonitorFindsApp, InMonitor
    <3>3. CASE MonitorMissesApp(s)
      BY <3>3 DEF MonitorMissesApp, cleanup_app, MonitorReturns, NotMonitoring,
                  Answer, Move
    <3>4. CASE schedule_next_check(s)
      BY <3>4 DEF schedule_next_check, MonitorReturns, NotMonitoring, Answer, Move
    <3> QED BY <2>3, <3>1, <3>2, <3>3, <3>4 DEF Monitor
  <2>4. ASSUME NEW s \in Starts, PermissionsAnswered(s) \/ Runtime(s)
        PROVE TypeOK'
    BY <2>4 DEF PermissionsAnswered, Runtime, CheckRuntime, RuntimeTransactionEnds,
               ExtensionTransactionEnds, AfterExtensions, Move
  <2>5. ASSUME NEW s \in Starts, ProcessUp(s) \/ ProcessExits(s) PROVE TypeOK'
    BY <2>5 DEF ProcessUp, ProcessExits
  <2>6. ASSUME NEW a \in AppIds, IsAppRunning(a) PROVE TypeOK'
    <3>1. stop' \in StopType
      BY <2>6, InvalidatedType DEF IsAppRunning, StopType
    <3>2. cancelled' \subseteq Starts
      BY <2>6 DEF IsAppRunning
    <3> QED BY <2>6, <3>1, <3>2, EraseType DEF IsAppRunning, StopType
  <2>7. ASSUME NEW a \in AppIds, NEW t \in Stoppers, StopBegins(t, a) PROVE TypeOK'
    BY <2>7 DEF StopBegins
  <2>8. ASSUME NEW t \in Stoppers, StopGoesOn(t) PROVE TypeOK'
    <3>1. CASE StopEnds(t)
      <4>1. stop[t].app \in AppIds \cup {None}
        OBVIOUS
      <4>2. Invalidated(t, stop[t].app) \in StopType
        BY InvalidatedType DEF StopType
      <4>3. stop' \in StopType
        BY <3>1, <4>2 DEF StopEnds, NotStopping, StopType
      <4>4. stop[t].app # None
        BY <3>1 DEF StopEnds
      <4> QED BY <3>1, <4>1, <4>3, <4>4, EraseType DEF StopEnds, StopType
    <3>2. CASE StopKills(t)
      BY <3>2 DEF StopKills
    <3>3. CASE StopUndefined(t)
      BY <3>3 DEF StopUndefined
    <3> QED BY <2>8, <3>1, <3>2, <3>3 DEF StopGoesOn
  <2>9. CASE UNCHANGED vars
    BY <2>9 DEF vars
  <2> QED
    BY <2>1, <2>2, <2>3, <2>4, <2>5, <2>6, <2>7, <2>8, <2>9 DEF Next
<1> QED BY <1>1, <1>2, PTL DEF Spec

-----------------------------------------------------------------------------
\* TimersOf keeps the timers of the sessions the map still holds.
LEMMA TimersOfCurrent ==
    ASSUME NEW m, NEW s, s \in TimersOf(m)
    PROVE  s \in timer /\ m[AppOf[s]] = s
BY DEF TimersOf

\* Erasing an application disturbs neither invariant.
LEMMA EraseKeeps ==
    ASSUME TypeOK, TimersCurrent, SessionsLaunched, NEW a, Erase(a),
           UNCHANGED <<pc, handler>>
    PROVE  TimersCurrent' /\ SessionsLaunched'
<1>1. TimersCurrent'
  BY TimersOfCurrent DEF Erase, TimersCurrent
<1>2. SessionsLaunched'
  BY DEF Erase, SessionsLaunched, TypeOK
<1> QED BY <1>1, <1>2

LEMMA SessionsHold == Spec => [](TypeOK /\ TimersCurrent /\ SessionsLaunched)
<1>1. Init => TimersCurrent /\ SessionsLaunched
  BY DEF Init, TimersCurrent, SessionsLaunched
<1>2. TypeOK /\ TypeOK' /\ TimersCurrent /\ SessionsLaunched /\ [Next]_vars
        => TimersCurrent' /\ SessionsLaunched'
  <2> SUFFICES ASSUME TypeOK, TypeOK', TimersCurrent, SessionsLaunched, [Next]_vars
               PROVE  TimersCurrent' /\ SessionsLaunched'
    OBVIOUS
  <2> USE DEF startVars, monitorVars, stopVars
  <2>0. ASSUME UNCHANGED monitorVars,
               \A s \in Starts : pc[s] \in {"launched", "ended"}
                                   => pc'[s] \in {"launched", "ended"}
        PROVE  TimersCurrent' /\ SessionsLaunched'
    BY <2>0 DEF TimersCurrent, SessionsLaunched, TypeOK
  <2>1. ASSUME NEW s \in Starts, RequestStart(s) PROVE TimersCurrent' /\ SessionsLaunched'
    BY <2>0, <2>1 DEF RequestStart, Move, TypeOK
  <2>2. ASSUME NEW s \in Starts, OnStrand(s) PROVE TimersCurrent' /\ SessionsLaunched'
    <3>1. CASE Launch(s)
      <4> USE <3>1 DEF Launch, Move
      <4>1. s \notin timer
        <5>1. ASSUME s \in timer PROVE FALSE
          BY <5>1 DEF TimersCurrent, SessionsLaunched, TypeOK
        <5> QED BY <5>1
      <4>2. timer' = TimersOf(active_sessions')
        OBVIOUS
      <4>3. \A x \in timer' : x \in timer /\ active_sessions'[AppOf[x]] = x
        BY <4>2, TimersOfCurrent
      <4>4. active_sessions'[AppOf[s]] = s
        BY DEF TypeOK
      <4>5. \A x \in timer' : AppOf[x] # AppOf[s]
        BY <4>1, <4>3, <4>4
      <4>6. handler'.session = s
        OBVIOUS
      <4>7. TimersCurrent'
        BY <4>3, <4>5, <4>6 DEF TimersCurrent
      <4>8. SessionsLaunched'
        BY DEF SessionsLaunched, TypeOK
      <4> QED BY <4>7, <4>8
    <3>2. CASE StartRejected(s) \/ AskPermissions(s)
      BY <2>0, <3>2 DEF StartRejected, AskPermissions, Answer, Move, TypeOK
    <3>3. CASE RuntimeInstalled(s) \/ RuntimeMissing(s) \/ ExtensionMissing(s)
      BY <2>0, <3>3 DEF RuntimeInstalled, AfterExtensions, RuntimeMissing,
                       ExtensionMissing, Answer, Move, TypeOK
    <3>4. CASE CreateSandbox(s) \/ CreateSandboxFails(s)
      BY <2>0, <3>4 DEF CreateSandbox, CreateSandboxFails, Move, TypeOK
    <3>5. CASE PortalsMissing(s) \/ LaunchFails(s)
      BY <2>0, <3>5 DEF PortalsMissing, LaunchFails, Answer, Move, TypeOK
    <3> QED BY <2>2, <3>1, <3>2, <3>3, <3>4, <3>5 DEF OnStrand
  <2>3. ASSUME NEW s \in Starts, Monitor(s) PROVE TimersCurrent' /\ SessionsLaunched'
    <3>0. ASSUME UNCHANGED startVars \/ Answer(s, "launched", "ok"),
                 UNCHANGED active_sessions
          PROVE  SessionsLaunched'
      BY <3>0 DEF SessionsLaunched, Answer, Move, TypeOK
    <3>1. CASE TimerFires(s)
      <4>1. TimersCurrent'
        BY <3>1 DEF TimerFires, TimersCurrent, IoFree, NotMonitoring
      <4> QED BY <3>0, <3>1, <4>1 DEF TimerFires
    <3>2. CASE MonitorFindsApp(s)
      <4>1. handler'.session = handler.session
        BY <3>2 DEF MonitorFindsApp, TypeOK
      <4> QED BY <3>2, <4>1 DEF MonitorFindsApp, TimersCurrent, SessionsLaunched
    <3>3. CASE MonitorMissesApp(s)
      <4>1. UNCHANGED <<timer, active_sessions>> /\ handler'.session = None
        BY <3>3 DEF MonitorMissesApp, cleanup_app, MonitorReturns, NotMonitoring
      <4>2. TimersCurrent'
        BY <4>1 DEF TimersCurrent
      <4> QED BY <3>0, <3>3, <4>1, <4>2 DEF MonitorMissesApp, MonitorReturns
    <3>4. CASE schedule_next_check(s)
      <4>1. /\ UNCHANGED active_sessions
            /\ handler'.session = None
            /\ \A x \in timer' : x \in timer \/ active_sessions[AppOf[x]] = x
        BY <3>4 DEF schedule_next_check, MonitorReturns, NotMonitoring
      <4>2. TimersCurrent'
        BY <4>1 DEF TimersCurrent
      <4> QED BY <3>0, <3>4, <4>1, <4>2 DEF schedule_next_check, MonitorReturns
    <3> QED BY <2>3, <3>1, <3>2, <3>3, <3>4 DEF Monitor
  <2>4. ASSUME NEW s \in Starts, PermissionsAnswered(s) \/ Runtime(s)
        PROVE TimersCurrent' /\ SessionsLaunched'
    BY <2>0, <2>4 DEF PermissionsAnswered, Runtime, CheckRuntime, RuntimeTransactionEnds,
               ExtensionTransactionEnds, AfterExtensions, Move, TypeOK
  <2>5. ASSUME NEW s \in Starts, ProcessUp(s) \/ ProcessExits(s)
        PROVE TimersCurrent' /\ SessionsLaunched'
    BY <2>0, <2>5 DEF ProcessUp, ProcessExits
  <2>6. ASSUME NEW a \in AppIds, IsAppRunning(a) PROVE TimersCurrent' /\ SessionsLaunched'
    BY <2>6, EraseKeeps DEF IsAppRunning
  <2>7. ASSUME NEW a \in AppIds, NEW t \in Stoppers, StopBegins(t, a)
        PROVE TimersCurrent' /\ SessionsLaunched'
    BY <2>0, <2>7 DEF StopBegins
  <2>8. ASSUME NEW t \in Stoppers, StopGoesOn(t) PROVE TimersCurrent' /\ SessionsLaunched'
    <3>1. CASE StopEnds(t)
      BY <3>1, EraseKeeps DEF StopEnds
    <3>2. CASE StopKills(t) \/ StopUndefined(t)
      BY <2>0, <3>2 DEF StopKills, StopUndefined
    <3> QED BY <2>8, <3>1, <3>2 DEF StopGoesOn
  <2>9. CASE UNCHANGED vars
    BY <2>0, <2>9 DEF vars
  <2> QED
    BY <2>1, <2>2, <2>3, <2>4, <2>5, <2>6, <2>7, <2>8, <2>9 DEF Next
<1> QED BY <1>1, <1>2, TypeCorrect, PTL DEF Spec

\* However starts, stops and timers interleave, one monitor at most polls an
\* application.
THEOREM OneMonitor == Spec => []OneMonitorPerApp
<1>1. TypeOK /\ TimersCurrent => OneMonitorPerApp
  BY DEF TypeOK, TimersCurrent, OneMonitorPerApp, Monitors
<1> QED BY <1>1, SessionsHold, PTL

\* An application keeps its portals for as long as a process of it exists,
\* whatever the monitor and the stops do meanwhile.
THEOREM PortalsKept == Spec => []RunningKeepsPortals
<1>1. Init => RegisteredFirst
  BY DEF Init, RegisteredFirst, Exists
<1>2. TypeOK /\ RegisteredFirst /\ [Next]_vars => RegisteredFirst'
  <2> SUFFICES ASSUME TypeOK, RegisteredFirst, [Next]_vars PROVE RegisteredFirst'
    OBVIOUS
  <2> USE DEF startVars, monitorVars, stopVars
  <2>0. ASSUME app_context \subseteq app_context',
               \A x \in Starts : pc'[x] = "portals" \/ Exists(x)'
                    => \/ pc[x] = "portals" \/ Exists(x)
                       \/ AppOf[x] \in app_context'
        PROVE  RegisteredFirst'
    BY <2>0 DEF RegisteredFirst
  <2>1. ASSUME NEW s \in Starts, RequestStart(s) \/ PermissionsAnswered(s)
        PROVE RegisteredFirst'
    BY <2>0, <2>1 DEF RequestStart, PermissionsAnswered, Move, TypeOK, Exists
  <2>2. ASSUME NEW s \in Starts, OnStrand(s) PROVE RegisteredFirst'
    <3>1. CASE Launch(s)
      BY <2>0, <3>1 DEF Launch, Move, TypeOK, Exists
    <3>2. CASE StartRejected(s) \/ AskPermissions(s)
      BY <2>0, <3>2 DEF StartRejected, AskPermissions, Answer, Move, TypeOK, Exists
    <3>3. CASE RuntimeInstalled(s) \/ RuntimeMissing(s) \/ ExtensionMissing(s)
      BY <2>0, <3>3 DEF RuntimeInstalled, AfterExtensions, RuntimeMissing,
                       ExtensionMissing, Answer, Move, TypeOK, Exists
    <3>4. CASE CreateSandbox(s) \/ CreateSandboxFails(s)
      BY <2>0, <3>4 DEF CreateSandbox, CreateSandboxFails, Move, TypeOK, Exists
    <3>5. CASE PortalsMissing(s) \/ LaunchFails(s)
      BY <2>0, <3>5 DEF PortalsMissing, LaunchFails, Answer, Move, TypeOK, Exists
    <3> QED BY <2>2, <3>1, <3>2, <3>3, <3>4, <3>5 DEF OnStrand
  <2>3. ASSUME NEW s \in Starts, Monitor(s) PROVE RegisteredFirst'
    <3>1. UNCHANGED <<process, app_context>>
      BY <2>3 DEF Monitor, TimerFires, MonitorFindsApp, MonitorMissesApp,
                  schedule_next_check, cleanup_app
    <3>2. UNCHANGED startVars \/ Answer(s, "launched", "ok")
      BY <2>3 DEF Monitor, TimerFires, MonitorFindsApp, MonitorMissesApp,
                  schedule_next_check, MonitorReturns
    <3> QED BY <2>0, <3>1, <3>2 DEF Answer, Move, TypeOK, Exists
  <2>4. ASSUME NEW s \in Starts, Runtime(s) PROVE RegisteredFirst'
    BY <2>0, <2>4 DEF Runtime, CheckRuntime, RuntimeTransactionEnds,
               ExtensionTransactionEnds, AfterExtensions, Move, TypeOK, Exists
  <2>5. ASSUME NEW s \in Starts, ProcessUp(s) \/ ProcessExits(s) PROVE RegisteredFirst'
    BY <2>0, <2>5 DEF ProcessUp, ProcessExits, TypeOK, Exists
  <2>6. ASSUME NEW a \in AppIds, IsAppRunning(a) PROVE RegisteredFirst'
    BY <2>0, <2>6 DEF IsAppRunning, Exists
  <2>7. ASSUME NEW a \in AppIds, NEW t \in Stoppers, StopBegins(t, a) PROVE RegisteredFirst'
    BY <2>0, <2>7 DEF StopBegins, Exists
  <2>8. ASSUME NEW t \in Stoppers, StopGoesOn(t) PROVE RegisteredFirst'
    BY <2>0, <2>8 DEF StopGoesOn, StopEnds, StopKills, StopUndefined, TypeOK, Exists
  <2>9. CASE UNCHANGED vars
    BY <2>0, <2>9 DEF vars, Exists
  <2> QED
    BY <2>1, <2>2, <2>3, <2>4, <2>5, <2>6, <2>7, <2>8, <2>9 DEF Next
<1>3. RegisteredFirst => RunningKeepsPortals
  BY DEF RegisteredFirst, RunningKeepsPortals
<1> QED BY <1>1, <1>2, <1>3, TypeCorrect, PTL DEF Spec

-----------------------------------------------------------------------------
\* The sessions stay watched when a step leaves the map alone, cancels no less
\* and keeps what polls the sessions of the map.
LEMMA StaysWatched ==
    ASSUME ActiveIsWatched, UNCHANGED active_sessions, cancelled \subseteq cancelled',
           \A a \in AppIds : active_sessions[a] \in Monitors
               => active_sessions[a] \in cancelled' \cup Monitors'
    PROVE  ActiveIsWatched'
BY DEF ActiveIsWatched

\* Erasing an application leaves the others watched.
LEMMA EraseWatched ==
    ASSUME TypeOK, SessionsLaunched, ActiveIsWatched, NEW a \in AppIds, Erase(a),
           cancelled \subseteq cancelled', UNCHANGED handler
    PROVE  ActiveIsWatched'
<1> SUFFICES ASSUME NEW b \in AppIds, active_sessions'[b] # None
             PROVE  active_sessions'[b] \in cancelled' \cup Monitors'
  BY DEF ActiveIsWatched
<1>1. b # a /\ active_sessions'[b] = active_sessions[b]
  BY DEF Erase, TypeOK
<1>2. active_sessions[b] \in cancelled \cup Monitors /\ AppOf[active_sessions[b]] = b
  BY <1>1 DEF ActiveIsWatched, SessionsLaunched
<1>3. active_sessions[b] \in timer => active_sessions[b] \in timer'
  BY <1>1, <1>2 DEF Erase, TimersOf
<1> QED BY <1>1, <1>2, <1>3 DEF Monitors

\* A session in the map is polled, by a timer that is pending or by the handler
\* that is busy with it, until its monitor is cancelled: no order of starts,
\* stops and timers loses the monitor of an application that was started.
THEOREM ActiveWatched == Spec => []ActiveIsWatched
<1>1. Init => ActiveIsWatched
  BY DEF Init, ActiveIsWatched
<1>2. TypeOK /\ SessionsLaunched /\ ActiveIsWatched /\ [Next]_vars => ActiveIsWatched'
  <2> SUFFICES ASSUME TypeOK, SessionsLaunched, ActiveIsWatched, [Next]_vars
               PROVE  ActiveIsWatched'
    OBVIOUS
  <2> USE DEF startVars, monitorVars, stopVars
  <2>0. ASSUME UNCHANGED monitorVars PROVE ActiveIsWatched'
    BY <2>0 DEF ActiveIsWatched, Monitors
  <2>1. ASSUME NEW s \in Starts,
               RequestStart(s) \/ PermissionsAnswered(s) \/ Runtime(s)
        PROVE  ActiveIsWatched'
    BY <2>0, <2>1 DEF RequestStart, PermissionsAnswered, Runtime, CheckRuntime,
                      RuntimeTransactionEnds, ExtensionTransactionEnds
  <2>2. ASSUME NEW s \in Starts, OnStrand(s) PROVE ActiveIsWatched'
    <3>1. CASE Launch(s)
      <4> SUFFICES ASSUME NEW b \in AppIds, active_sessions'[b] # None
                   PROVE  active_sessions'[b] \in cancelled' \cup Monitors'
        BY DEF ActiveIsWatched
      <4>1. /\ active_sessions' = [active_sessions EXCEPT ![AppOf[s]] = s]
            /\ handler'.session = s /\ handler.session = None
            /\ timer' = TimersOf(active_sessions') /\ UNCHANGED cancelled
        BY <3>1 DEF Launch, IoFree, NotMonitoring
      <4>2. CASE b = AppOf[s]
        BY <4>1, <4>2 DEF TypeOK, Monitors
      <4>3. CASE b # AppOf[s]
        <5>1. active_sessions'[b] = active_sessions[b]
          BY <4>1, <4>3 DEF TypeOK
        <5>2. /\ active_sessions[b] \in cancelled \cup Monitors
              /\ AppOf[active_sessions[b]] = b
          BY <5>1 DEF ActiveIsWatched, SessionsLaunched
        <5>3. active_sessions[b] \in cancelled \cup timer
          BY <4>1, <5>1, <5>2 DEF Monitors
        <5>4. active_sessions[b] \in timer => active_sessions[b] \in timer'
          BY <4>1, <5>1, <5>2 DEF TimersOf
        <5> QED BY <4>1, <5>1, <5>3, <5>4 DEF Monitors
      <4> QED BY <4>2, <4>3
    <3>2. CASE ~Launch(s)
      BY <2>0, <2>2, <3>2
      DEF OnStrand, StartRejected, AskPermissions, RuntimeInstalled,
          RuntimeMissing, ExtensionMissing, CreateSandbox, CreateSandboxFails,
          PortalsMissing, LaunchFails
    <3> QED BY <3>1, <3>2
  <2>3. ASSUME NEW s \in Starts, Monitor(s) PROVE ActiveIsWatched'
    <3>1. CASE TimerFires(s)
      BY <3>1, StaysWatched DEF TimerFires, Monitors, IoFree, NotMonitoring
    <3>2. CASE MonitorFindsApp(s)
      <4>1. handler'.session = handler.session
        BY <3>2 DEF MonitorFindsApp, TypeOK
      <4> QED BY <3>2, <4>1, StaysWatched DEF MonitorFindsApp, Monitors
    <3>3. CASE MonitorMissesApp(s)
      <4>1. /\ UNCHANGED <<timer, active_sessions>>
            /\ cancelled \subseteq cancelled' /\ s \in cancelled'
            /\ handler.session = s
        BY <3>3 DEF MonitorMissesApp, cleanup_app, InMonitor
      <4> QED BY <4>1, StaysWatched DEF Monitors
    <3>4. CASE schedule_next_check(s)
      <4>1. /\ UNCHANGED <<cancelled, active_sessions>>
            /\ timer \subseteq timer' /\ handler.session = s
            /\ s \in cancelled \/ active_sessions[AppOf[s]] # s \/ s \in timer'
        BY <3>4 DEF schedule_next_check, InMonitor
      <4>2. ASSUME NEW a \in AppIds, active_sessions[a] \in Monitors
            PROVE  active_sessions[a] \in cancelled' \cup Monitors'
        <5>1. active_sessions[a] \in timer \/ active_sessions[a] = s
          BY <4>1, <4>2 DEF Monitors
        <5>2. active_sessions[a] = s => AppOf[s] = a
          BY DEF SessionsLaunched
        <5> QED BY <4>1, <5>1, <5>2 DEF Monitors
      <4> QED BY <4>1, <4>2, StaysWatched
    <3> QED BY <2>3, <3>1, <3>2, <3>3, <3>4 DEF Monitor
  <2>4. ASSUME NEW s \in Starts, ProcessUp(s) \/ ProcessExits(s) PROVE ActiveIsWatched'
    BY <2>0, <2>4 DEF ProcessUp, ProcessExits
  <2>5. ASSUME NEW a \in AppIds, IsAppRunning(a) PROVE ActiveIsWatched'
    BY <2>5, EraseWatched DEF IsAppRunning
  <2>6. ASSUME NEW a \in AppIds, NEW t \in Stoppers, StopBegins(t, a)
        PROVE  ActiveIsWatched'
    BY <2>0, <2>6 DEF StopBegins
  <2>7. ASSUME NEW t \in Stoppers, StopGoesOn(t) PROVE ActiveIsWatched'
    <3>1. CASE StopEnds(t)
      BY <3>1, EraseWatched DEF StopEnds, TypeOK
    <3>2. CASE StopKills(t) \/ StopUndefined(t)
      BY <2>0, <3>2 DEF StopKills, StopUndefined
    <3> QED BY <2>7, <3>1, <3>2 DEF StopGoesOn
  <2>8. CASE UNCHANGED vars
    BY <2>0, <2>8 DEF vars
  <2> QED BY <2>1, <2>2, <2>3, <2>4, <2>5, <2>6, <2>7, <2>8 DEF Next
<1> QED BY <1>1, <1>2, SessionsHold, PTL DEF Spec

-----------------------------------------------------------------------------
(* What the callers of ApplicationStart are told. *)

\* A step of a start that launches nothing: from a place before the launch to
\* another, or to the end with an error.
GoesOn(s) ==
    /\ UNCHANGED <<process, handler>>
    /\ pc[s] \notin {"launched", "ended"}
    /\ \E to \in Locations \ {"launched"} :
          /\ pc' = [pc EXCEPT ![s] = to]
          /\ IF to = "ended" THEN answer' = [answer EXCEPT ![s] = "error"]
                             ELSE UNCHANGED answer

LEMMA GoesOnTold ==
    ASSUME TypeOK, ToldWhatHappened, NEW s \in Starts, GoesOn(s)
    PROVE  ToldWhatHappened'
<1>1. PICK to \in Locations \ {"launched"} :
         /\ pc' = [pc EXCEPT ![s] = to]
         /\ IF to = "ended" THEN answer' = [answer EXCEPT ![s] = "error"]
                            ELSE UNCHANGED answer
  BY DEF GoesOn
<1>2. answer[s] = "none" /\ process[s] = "none"
  BY DEF GoesOn, ToldWhatHappened
<1>3. CASE to = "ended"
  BY <1>1, <1>2, <1>3 DEF GoesOn, ToldWhatHappened, TypeOK
<1>4. CASE to # "ended"
  BY <1>1, <1>2, <1>4 DEF GoesOn, ToldWhatHappened, TypeOK
<1> QED BY <1>3, <1>4

\* monitor_app returns: to the callback of a start, or to the io thread.
LEMMA MonitorReturnsTold ==
    ASSUME TypeOK, ToldWhatHappened, NEW s \in Starts, handler.session = s,
           MonitorReturns(s), UNCHANGED process
    PROVE  ToldWhatHappened'
<1>1. handler'.session = None /\ handler'.starting = FALSE
  BY DEF MonitorReturns, NotMonitoring
<1>2. CASE handler.starting
  BY <1>1, <1>2 DEF MonitorReturns, Answer, Move, ToldWhatHappened, TypeOK
<1>3. CASE ~handler.starting
  <2>1. UNCHANGED startVars
    BY <1>3 DEF MonitorReturns
  <2>2. \A x \in Starts : pc[x] # "launched"
    BY <1>3 DEF ToldWhatHappened
  <2> QED BY <1>1, <2>1, <2>2 DEF startVars, ToldWhatHappened
<1> QED BY <1>2, <1>3

\* The steps of a start before its launch, and what they leave alone.
LEMMA StartSteps ==
    ASSUME TypeOK, NEW s \in Starts,
           \/ RequestStart(s) \/ PermissionsAnswered(s) \/ Runtime(s)
           \/ OnStrand(s) /\ ~Launch(s)
    PROVE  /\ GoesOn(s) \/ UNCHANGED <<startVars, process, handler>>
           /\ UNCHANGED <<process, monitorVars, stopVars>>
<1> USE DEF startVars, monitorVars, stopVars, Locations
<1>1. CASE RequestStart(s) \/ PermissionsAnswered(s) \/ Runtime(s)
  BY <1>1 DEF RequestStart, PermissionsAnswered, Runtime, CheckRuntime,
              RuntimeTransactionEnds, ExtensionTransactionEnds, AfterExtensions,
              Move, GoesOn
<1>2. CASE \/ StartRejected(s) \/ ExtensionMissing(s) \/ PortalsMissing(s)
           \/ LaunchFails(s)
  BY <1>2 DEF StartRejected, ExtensionMissing, PortalsMissing, LaunchFails, Answer,
              Move, GoesOn
<1>3. CASE \/ AskPermissions(s) \/ RuntimeInstalled(s) \/ CreateSandbox(s)
           \/ CreateSandboxFails(s)
  BY <1>3 DEF AskPermissions, RuntimeInstalled, AfterExtensions, CreateSandbox,
              CreateSandboxFails, Move, GoesOn
<1>4. CASE RuntimeMissing(s)
  BY <1>4 DEF RuntimeMissing
<1> QED BY <1>1, <1>2, <1>3, <1>4 DEF OnStrand

\* A start is told "ok" exactly when its process was started, "error" when none
\* was, and is over exactly when it was told; one whose process is started and
\* whose caller is still to be told has the io thread.
THEOREM StartsToldWhatHappened == Spec => []ToldWhatHappened
<1>1. Init => ToldWhatHappened
  BY DEF Init, ToldWhatHappened, NotMonitoring
<1>2. TypeOK /\ ToldWhatHappened /\ [Next]_vars => ToldWhatHappened'
  <2> SUFFICES ASSUME TypeOK, ToldWhatHappened, [Next]_vars PROVE ToldWhatHappened'
    OBVIOUS
  <2> USE DEF startVars, monitorVars, stopVars
  <2>0. ASSUME UNCHANGED <<startVars, handler>>,
               \A s \in Starts : process'[s] # "none" <=> process[s] # "none"
        PROVE  ToldWhatHappened'
    BY <2>0 DEF ToldWhatHappened
  <2>1. ASSUME NEW s \in Starts,
               \/ RequestStart(s) \/ PermissionsAnswered(s) \/ Runtime(s)
               \/ OnStrand(s) /\ ~Launch(s)
        PROVE  ToldWhatHappened'
    BY <2>0, <2>1, StartSteps, GoesOnTold
  <2>2. ASSUME NEW s \in Starts, Launch(s) PROVE ToldWhatHappened'
    <3>1. handler.session = None /\ answer[s] = "none"
      BY <2>2 DEF Launch, IoFree, NotMonitoring, Move, ToldWhatHappened
    <3> QED BY <2>2, <3>1 DEF Launch, Move, ToldWhatHappened, TypeOK
  <2>3. ASSUME NEW s \in Starts, Monitor(s) PROVE ToldWhatHappened'
    <3>1. CASE TimerFires(s)
      BY <3>1 DEF TimerFires, IoFree, NotMonitoring, ToldWhatHappened, TypeOK
    <3>2. CASE MonitorFindsApp(s)
      BY <3>2 DEF MonitorFindsApp, ToldWhatHappened, TypeOK
    <3>3. CASE MonitorMissesApp(s) \/ schedule_next_check(s)
      BY <3>3, MonitorReturnsTold DEF MonitorMissesApp, schedule_next_check, InMonitor
    <3> QED BY <2>3, <3>1, <3>2, <3>3 DEF Monitor
  <2>4. ASSUME NEW s \in Starts, ProcessUp(s) \/ ProcessExits(s) PROVE ToldWhatHappened'
    BY <2>0, <2>4 DEF ProcessUp, ProcessExits, Exists, TypeOK
  <2>5. ASSUME NEW a \in AppIds, IsAppRunning(a) PROVE ToldWhatHappened'
    BY <2>0, <2>5 DEF IsAppRunning
  <2>6. ASSUME NEW a \in AppIds, NEW t \in Stoppers, StopBegins(t, a)
        PROVE  ToldWhatHappened'
    BY <2>0, <2>6 DEF StopBegins
  <2>7. ASSUME NEW t \in Stoppers, StopGoesOn(t) PROVE ToldWhatHappened'
    BY <2>0, <2>7 DEF StopGoesOn, StopEnds, StopKills, StopUndefined, TypeOK
  <2>8. CASE UNCHANGED vars
    BY <2>0, <2>8 DEF vars
  <2> QED BY <2>1, <2>2, <2>3, <2>4, <2>5, <2>6, <2>7, <2>8 DEF Next
<1> QED BY <1>1, <1>2, TypeCorrect, PTL DEF Spec

\* The callback of a start is called at most once: what was told stays.
THEOREM ToldOnce ==
    Spec => [][\A s \in Starts : answer[s] # "none" => answer'[s] = answer[s]]_vars
<1>1. TypeOK /\ ToldWhatHappened /\ [Next]_vars
        => [\A s \in Starts : answer[s] # "none" => answer'[s] = answer[s]]_vars
  <2> SUFFICES ASSUME TypeOK, ToldWhatHappened, Next,
                      NEW x \in Starts, answer[x] # "none"
               PROVE  answer'[x] = answer[x]
    OBVIOUS
  <2> USE DEF startVars, monitorVars, stopVars
  <2>0. pc[x] = "ended"
    BY DEF ToldWhatHappened
  <2>1. ASSUME NEW s \in Starts,
               \/ RequestStart(s) \/ PermissionsAnswered(s) \/ Runtime(s)
               \/ OnStrand(s) /\ ~Launch(s)
        PROVE  answer'[x] = answer[x]
    BY <2>0, <2>1, StartSteps DEF GoesOn, TypeOK
  <2>2. ASSUME NEW s \in Starts,
               Launch(s) \/ Monitor(s) \/ ProcessUp(s) \/ ProcessExits(s)
        PROVE  answer'[x] = answer[x]
    BY <2>0, <2>2
    DEF Launch, Monitor, TimerFires, MonitorFindsApp, MonitorMissesApp,
        schedule_next_check, MonitorReturns, Answer, Move, ProcessUp, ProcessExits,
        TypeOK
  <2>3. ASSUME NEW a \in AppIds,
               IsAppRunning(a) \/ \E t \in Stoppers : StopBegins(t, a)
        PROVE  answer'[x] = answer[x]
    BY <2>3 DEF IsAppRunning, StopBegins
  <2>4. ASSUME NEW t \in Stoppers, StopGoesOn(t) PROVE answer'[x] = answer[x]
    BY <2>4 DEF StopGoesOn, StopEnds, StopKills, StopUndefined
  <2> QED BY <2>1, <2>2, <2>3, <2>4 DEF Next
<1> QED BY <1>1, TypeCorrect, StartsToldWhatHappened, PTL DEF Spec

-----------------------------------------------------------------------------
(* ApplicationStop. *)

\* Stops keep holding when a step leaves them alone, starts no process anew that
\* one of them waits for, and drops no entry.
LEMMA StaysHeld ==
    ASSUME StopsHold, UNCHANGED stop,
           \A s \in Starts : process[s] \in {"up", "gone"} => process'[s] \in {"up", "gone"},
           \A a \in AppIds : active_sessions[a] # None => active_sessions'[a] # None
    PROVE  StopsHold'
BY DEF StopsHold

\* An erased application invalidates the iterators of the others, and the call
\* that erases it has none or ends.
LEMMA EraseHeld ==
    ASSUME TypeOK, StopsHold, NEW t \in {"platform", "io"}, NEW a \in AppIds,
           Erase(a), UNCHANGED process,
           \/ stop[t] = NotStopping /\ stop' = Invalidated(t, a)
           \/ stop' = [Invalidated(t, a) EXCEPT ![t] = NotStopping]
    PROVE  StopsHold'
<1> SUFFICES ASSUME NEW u \in {"platform", "io"}, stop'[u] # NotStopping
             PROVE  /\ stop'[u].app \in AppIds
                    /\ stop'[u].session \in Starts
                    /\ stop'[u].child => process[stop'[u].session] \in {"up", "gone"}
                    /\ stop'[u].valid => active_sessions'[stop'[u].app] # None
  BY DEF StopsHold
<1>1. u # t
  BY DEF Invalidated, TypeOK
<1>2. stop'[u] = IF stop[u].app = a THEN [stop[u] EXCEPT !.valid = FALSE] ELSE stop[u]
  BY <1>1 DEF Invalidated, TypeOK
<1>3. stop[u] # NotStopping
  BY <1>2, <1>1 DEF NotStopping, TypeOK
<1>4. CASE stop[u].app = a
  <2>1. /\ stop'[u].app = stop[u].app /\ stop'[u].session = stop[u].session
        /\ stop'[u].child = stop[u].child /\ stop'[u].valid = FALSE
    BY <1>2, <1>4 DEF TypeOK
  <2> QED BY <1>3, <2>1 DEF StopsHold
<1>5. CASE stop[u].app # a
  <2>1. stop'[u] = stop[u]
    BY <1>2, <1>5
  <2>2. stop[u].app \in AppIds
    BY <1>3 DEF StopsHold
  <2>3. active_sessions'[stop[u].app] = active_sessions[stop[u].app]
    BY <1>5, <2>2 DEF Erase, TypeOK
  <2> QED BY <1>3, <2>1, <2>3 DEF StopsHold
<1> QED BY <1>4, <1>5

\* A stop under way waits for a process that is up or gone, never for one that is
\* still to start, and while its iterator is valid the map has the entry it
\* stands for: one step of it is always possible, so that it gets to its end.
THEOREM StopsAreHeld == Spec => []StopsHold
<1>1. Init => StopsHold
  BY DEF Init, StopsHold
<1>2. TypeOK /\ ToldWhatHappened /\ StopsHold /\ [Next]_vars => StopsHold'
  <2> SUFFICES ASSUME TypeOK, ToldWhatHappened, StopsHold, [Next]_vars
               PROVE  StopsHold'
    OBVIOUS
  <2> USE DEF startVars, monitorVars, stopVars
  <2>1. ASSUME NEW s \in Starts,
               \/ RequestStart(s) \/ PermissionsAnswered(s) \/ Runtime(s)
               \/ OnStrand(s) /\ ~Launch(s)
        PROVE  StopsHold'
    BY <2>1, StartSteps, StaysHeld
  <2>2. ASSUME NEW s \in Starts, Launch(s) PROVE StopsHold'
    <3>1. process[s] = "none"
      BY <2>2 DEF Launch, Move, ToldWhatHappened, TypeOK
    <3>2. \A x \in Starts : process[x] \in {"up", "gone"} => process'[x] \in {"up", "gone"}
      BY <2>2, <3>1 DEF Launch, TypeOK
    <3>3. \A a \in AppIds : active_sessions[a] # None => active_sessions'[a] # None
      BY <2>2 DEF Launch, TypeOK
    <3> QED BY <2>2, <3>2, <3>3, StaysHeld DEF Launch
  <2>3. ASSUME NEW s \in Starts, Monitor(s) PROVE StopsHold'
    BY <2>3, StaysHeld
    DEF Monitor, TimerFires, MonitorFindsApp, MonitorMissesApp, cleanup_app,
        schedule_next_check
  <2>4. ASSUME NEW s \in Starts, ProcessUp(s) \/ ProcessExits(s) PROVE StopsHold'
    BY <2>4, StaysHeld DEF ProcessUp, ProcessExits, TypeOK
  <2>5. ASSUME NEW a \in AppIds, IsAppRunning(a) PROVE StopsHold'
    BY <2>5, EraseHeld DEF IsAppRunning, PlatformFree
  <2>6. ASSUME NEW a \in AppIds, NEW t \in Stoppers, StopBegins(t, a) PROVE StopsHold'
    <3>1. /\ active_sessions[a] \in Starts
          /\ stop' = [stop EXCEPT ![t] = [app |-> a, session |-> active_sessions[a],
                         child |-> process[active_sessions[a]] = "up", valid |-> TRUE]]
          /\ UNCHANGED <<process, active_sessions>>
      BY <2>6 DEF StopBegins, TypeOK
    <3>2. t \in {"platform", "io"}
      OBVIOUS
    <3> QED BY <3>1, <3>2 DEF StopsHold, TypeOK
  <2>7. ASSUME NEW t \in Stoppers, StopGoesOn(t) PROVE StopsHold'
    <3>1. CASE StopEnds(t)
      <4>1. stop[t].app \in AppIds
        BY <3>1 DEF StopEnds, TypeOK
      <4> QED BY <3>1, <4>1, EraseHeld DEF StopEnds
    <3>2. CASE StopKills(t)
      BY <3>2, StaysHeld DEF StopKills, TypeOK
    <3>3. CASE StopUndefined(t)
      BY <3>3, StaysHeld DEF StopUndefined
    <3> QED BY <2>7, <3>1, <3>2, <3>3 DEF StopGoesOn
  <2>8. CASE UNCHANGED vars
    BY <2>8, StaysHeld DEF vars
  <2> QED BY <2>1, <2>2, <2>3, <2>4, <2>5, <2>6, <2>7, <2>8 DEF Next
<1> QED BY <1>1, <1>2, TypeCorrect, StartsToldWhatHappened, PTL DEF Spec

\* Thread u erases the session of a: its stop ends, or the platform thread's
\* is_app_running finds nothing running.
ErasedBy(u, a) ==
    /\ active_sessions'[a] = None
    /\ \/ u \in Stoppers /\ stop[u].app = a /\ stop'[u] = NotStopping
       \/ u = "platform" /\ ~Running(a) /\ active_sessions[a] # None

\* An iterator of a stop under way is lost only to the other thread, which erases
\* the same application between this thread's look-up and its own erasing; and
\* only such a stop is undefined.
LostToAnother ==
    /\ \A t \in {"platform", "io"} :
          stop[t].valid /\ stop[t].app # None
          /\ stop'[t].app = stop[t].app /\ ~stop'[t].valid
          => \E u \in {"platform", "io"} \ {t} : ErasedBy(u, stop[t].app)
    /\ plugin' = "undefined" /\ plugin # "undefined"
          => \E t \in Stoppers : stop[t].app # None /\ ~stop[t].valid

\* ApplicationStop keeps its iterator across five seconds without a lock
\* (flatpak_shim.cc:2200-2233).  Whichever threads call it, and however starts,
\* monitors and processes go meanwhile - also a second start, which replaces the
\* session the iterator leads to - the iterator is good until the other thread
\* erases that application.
THEOREM StopsLoseToStopsOnly == Spec => [][LostToAnother]_vars
<1>1. TypeOK /\ [Next]_vars => LostToAnother
  <2> SUFFICES ASSUME TypeOK, [Next]_vars PROVE LostToAnother
    OBVIOUS
  <2> USE DEF startVars, monitorVars, stopVars
  <2>0. ASSUME UNCHANGED stop, plugin' # "undefined" \/ plugin' = plugin
        PROVE  LostToAnother
    BY <2>0 DEF LostToAnother
  <2>1. ASSUME NEW s \in Starts,
               \/ RequestStart(s) \/ PermissionsAnswered(s) \/ Runtime(s)
               \/ ProcessUp(s) \/ ProcessExits(s) \/ Monitor(s)
        PROVE  LostToAnother
    BY <2>0, <2>1
    DEF RequestStart, PermissionsAnswered, Runtime, CheckRuntime,
        RuntimeTransactionEnds, ExtensionTransactionEnds, ProcessUp, ProcessExits,
        Monitor, TimerFires, MonitorFindsApp, MonitorMissesApp, schedule_next_check
  <2>2. ASSUME NEW s \in Starts, OnStrand(s) PROVE LostToAnother
    BY <2>0, <2>2
    DEF OnStrand, StartRejected, AskPermissions, RuntimeInstalled,
        RuntimeMissing, ExtensionMissing, CreateSandbox, CreateSandboxFails,
        PortalsMissing, LaunchFails, Launch
  <2>3. ASSUME NEW a \in AppIds, IsAppRunning(a) PROVE LostToAnother
    <3>1. /\ stop' = Invalidated("platform", a) /\ ~Running(a)
          /\ stop["platform"] = NotStopping
          /\ active_sessions[a] # None /\ active_sessions'[a] = None
          /\ plugin' = plugin
      BY <2>3 DEF IsAppRunning, PlatformFree, Erase, TypeOK
    <3>2. stop'["platform"] = stop["platform"]
      BY <3>1 DEF Invalidated, TypeOK
    <3>3. ASSUME stop["io"].valid, stop["io"].app # None, ~stop'["io"].valid
          PROVE  ErasedBy("platform", stop["io"].app)
      <4>1. stop["io"].app = a
        BY <3>1, <3>3 DEF Invalidated, TypeOK
      <4> QED BY <3>1, <4>1 DEF ErasedBy, TypeOK
    <3>4. stop["platform"].app = None
      BY <3>1 DEF NotStopping
    <3> QED BY <3>1, <3>2, <3>3, <3>4 DEF LostToAnother
  <2>4. ASSUME NEW a \in AppIds, NEW t \in Stoppers, StopBegins(t, a)
        PROVE  LostToAnother
    <3>1. /\ stop[t] = NotStopping /\ plugin' = plugin
          /\ \A u \in {"platform", "io"} : u # t => stop'[u] = stop[u]
      BY <2>4 DEF StopBegins, IoFree, PlatformFree, TypeOK
    <3>2. stop[t].app = None
      BY <3>1 DEF NotStopping
    <3> QED BY <3>1, <3>2 DEF LostToAnother
  <2>5. ASSUME NEW t \in Stoppers, StopGoesOn(t) PROVE LostToAnother
    <3>1. CASE StopEnds(t)
      <4>1. /\ stop' = [Invalidated(t, stop[t].app) EXCEPT ![t] = NotStopping]
            /\ plugin' = plugin /\ stop[t].app # None /\ t \in {"platform", "io"}
            /\ Erase(stop[t].app)
        BY <3>1, SessionAssumption DEF StopEnds
      <4>0. active_sessions'[stop[t].app] = None
        BY <4>1 DEF Erase, TypeOK
      <4>2. stop'[t] = NotStopping
        BY <4>1 DEF Invalidated, TypeOK
      <4>3. stop'[t].app # stop[t].app
        BY <4>1, <4>2 DEF NotStopping
      <4>4. ASSUME NEW v \in {"platform", "io"}, v # t,
                   stop[v].valid, ~stop'[v].valid
            PROVE  ErasedBy(t, stop[v].app)
        <5>1. stop'[v] = Invalidated(t, stop[t].app)[v]
          BY <4>1, <4>4 DEF Invalidated, TypeOK
        <5>2. stop[v].app = stop[t].app
          BY <4>4, <5>1 DEF Invalidated, TypeOK
        <5> QED BY <4>0, <4>2, <5>2 DEF ErasedBy
      <4> QED BY <4>1, <4>3, <4>4 DEF LostToAnother
    <3>2. CASE StopKills(t)
      BY <2>0, <3>2 DEF StopKills
    <3>3. CASE StopUndefined(t)
      BY <3>3 DEF StopUndefined, LostToAnother
    <3> QED BY <2>5, <3>1, <3>2, <3>3 DEF StopGoesOn
  <2>6. CASE UNCHANGED vars
    BY <2>0, <2>6 DEF vars
  <2> QED BY <2>1, <2>2, <2>3, <2>4, <2>5, <2>6 DEF Next
<1> QED BY <1>1, TypeCorrect, PTL DEF Spec
=============================================================================
