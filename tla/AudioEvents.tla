----------------------------- MODULE AudioEvents -----------------------------
(***************************************************************************)
(* The players of audioplayers_linux that are made under one id, one after  *)
(* the other, and how their events get to Dart (audio_player.cc,            *)
(* audioplayers_linux_plugin.cc, messages.cc).                             *)
(*                                                                         *)
(* The platform thread creates and disposes players and passes on what Dart *)
(* listens to.  Three threads send events; each is queued for the GLib main *)
(* loop, whose thread also runs the watch on the player's bus.  A queued    *)
(* event holds the SharedState of its player, which outlives the player.    *)
(*                                                                         *)
(* What a player plays is in AudioPlayer.                                  *)
(***************************************************************************)
EXTENDS Integers, Sequences

CONSTANTS
    MaxPlayers,     \* bound: players made under the id
    MaxSubscribed,  \* bound: times Dart listens
    MaxIdle         \* bound: events queued for the main loop

Players == 1..MaxPlayers
None == 0

VARIABLES
    player,         \* the player in audioPlayers_
    players,        \* how many have been made
    disposing,      \* the player that Dispose or the destructor is at, and where
    streaming,      \* players whose playbin may run a streaming thread
    watched,        \* players whose bus is watched
    in_watch,       \* the player OnBusMessage is running for
    cancelled,      \* SharedState::cancelled
    freed,          \* players that have been deleted
    event_channel,  \* the player whose handler the event channel has
    event_sink,     \* SharedState::sink: the subscription it belongs to
    subscribed,     \* how often Dart has listened
    idle,           \* events queued for the main loop: whose they are
    delivered,      \* the last event that Dart was sent
    crashed         \* a deleted player has been used

lifeVars == <<player, players, disposing>>
pipeVars == <<streaming, watched, in_watch>>
channelVars == <<event_channel, event_sink, subscribed>>
vars == <<lifeVars, pipeVars, cancelled, freed, channelVars, idle, delivered,
          crashed>>

NotDisposing == [player |-> None, step |-> "none"]
PlatformFree == ~crashed /\ disposing = NotDisposing
MainFree == ~crashed /\ in_watch = None
NoEvent == [player |-> None, subscription |-> None]

-----------------------------------------------------------------------------
(* Dart's calls, on the platform thread. *)

\* CreatePlayer: a player that is there already is left alone.
CreatePlayer ==
    /\ PlatformFree
    /\ player = None
    /\ players < MaxPlayers
    /\ players' = players + 1
    /\ player' = players'
    /\ event_channel' = players'
    /\ streaming' = streaming \cup {players'}
    /\ watched' = watched \cup {players'}
    /\ UNCHANGED <<disposing, in_watch, cancelled, freed, event_sink, subscribed,
                   idle, delivered, crashed>>

\* There is no playbin: the constructor throws after it has given the channel
\* its handler, which stays.
CreateThrows ==
    /\ PlatformFree
    /\ player = None
    /\ players < MaxPlayers
    /\ players' = players + 1
    /\ event_channel' = players'
    /\ freed' = freed \cup {players'}
    /\ UNCHANGED <<player, disposing, pipeVars, cancelled, event_sink, subscribed,
                   idle, delivered, crashed>>

\* Without a handler the engine answers for the channel.
Listen ==
    /\ PlatformFree
    /\ event_channel # None
    /\ subscribed < MaxSubscribed
    /\ subscribed' = subscribed + 1
    /\ event_sink' = IF event_channel \in cancelled THEN event_sink
                       ELSE [event_sink EXCEPT ![event_channel] = subscribed']
    /\ UNCHANGED <<lifeVars, pipeVars, cancelled, freed, event_channel, idle,
                   delivered, crashed>>

Cancel ==
    /\ PlatformFree
    /\ event_channel # None
    /\ event_sink[event_channel] # None
    /\ event_sink' = [event_sink EXCEPT ![event_channel] = None]
    /\ UNCHANGED <<lifeVars, pipeVars, cancelled, freed, event_channel,
                   subscribed, idle, delivered, crashed>>

-----------------------------------------------------------------------------
(* DisposePlayer, on the platform thread: Dispose and the destructor. *)

Disposes(step) == ~crashed /\ disposing.step = step
GoesOnTo(step) == disposing' = [disposing EXCEPT !.step = step]

DisposePlayer ==
    /\ PlatformFree
    /\ player # None
    /\ disposing' = [player |-> player, step |-> "release"]
    /\ player' = None
    /\ UNCHANGED <<players, pipeVars, cancelled, freed, channelVars, idle,
                   delivered, crashed>>

\* set_state(NULL) waits for the streaming thread.
ReleaseMediaSource ==
    /\ Disposes("release")
    /\ streaming' = streaming \ {disposing.player}
    /\ GoesOnTo("unwatch")
    /\ UNCHANGED <<player, players, watched, in_watch, cancelled, freed,
                   channelVars, idle, delivered, crashed>>

\* gst_bus_remove_watch does not wait for a watch that is running.
RemoveWatch ==
    /\ Disposes("unwatch")
    /\ watched' = watched \ {disposing.player}
    /\ GoesOnTo("cancel")
    /\ UNCHANGED <<player, players, streaming, in_watch, cancelled, freed,
                   channelVars, idle, delivered, crashed>>

\* Mutant: the destructor leaves the shared state as it is.
KeepDelivery ==
    /\ Disposes("cancel")
    /\ GoesOnTo("free")
    /\ UNCHANGED <<player, players, pipeVars, cancelled, freed, channelVars, idle,
                   delivered, crashed>>

CancelDelivery ==
    /\ Disposes("cancel")
    /\ cancelled' = cancelled \cup {disposing.player}
    /\ event_sink' = [event_sink EXCEPT ![disposing.player] = None]
    /\ GoesOnTo("free")
    /\ UNCHANGED <<player, players, pipeVars, freed, event_channel, subscribed,
                   idle, delivered, crashed>>

Free ==
    /\ Disposes("free")
    /\ event_channel' = None
    /\ freed' = freed \cup {disposing.player}
    /\ disposing' = NotDisposing
    /\ UNCHANGED <<player, players, pipeVars, cancelled, event_sink, subscribed,
                   idle, delivered, crashed>>

-----------------------------------------------------------------------------
(* Events: SendEvent and OnError, from three threads. *)

\* The platform thread in a call of Dart, the streaming thread in AboutToFinish,
\* and the main loop's in OnBusMessage.
Sends(p) ==
    \/ p = player \/ p \in streaming
    \/ p = in_watch /\ p \notin freed

SendEvent(p) ==
    /\ ~crashed
    /\ Sends(p)
    /\ Len(idle) < MaxIdle
    /\ idle' = Append(idle, p)
    /\ UNCHANGED <<lifeVars, pipeVars, cancelled, freed, channelVars, delivered,
                   crashed>>

\* The main loop's thread.
WatchBegins(p) ==
    /\ MainFree
    /\ p \in watched
    /\ in_watch' = p
    /\ UNCHANGED <<lifeVars, streaming, watched, cancelled, freed, channelVars,
                   idle, delivered, crashed>>

WatchEnds ==
    /\ ~crashed
    /\ in_watch # None
    /\ in_watch' = None
    /\ UNCHANGED <<lifeVars, streaming, watched, cancelled, freed, channelVars,
                   idle, delivered, crashed>>

WatchUsesFreed ==
    /\ ~crashed
    /\ in_watch \in freed
    /\ crashed' = TRUE
    /\ UNCHANGED <<lifeVars, pipeVars, cancelled, freed, channelVars, idle,
                   delivered>>

\* The queued lambda, under sink_mu.
Deliver ==
    /\ MainFree
    /\ idle # <<>>
    /\ idle' = Tail(idle)
    /\ LET p == Head(idle)
       IN  delivered' = IF p \in cancelled \/ event_sink[p] = None THEN delivered
                          ELSE [player |-> p, subscription |-> event_sink[p]]
    /\ UNCHANGED <<lifeVars, pipeVars, cancelled, freed, channelVars, crashed>>

-----------------------------------------------------------------------------
Init ==
    /\ player = None /\ players = 0 /\ disposing = NotDisposing
    /\ streaming = {} /\ watched = {} /\ in_watch = None
    /\ cancelled = {} /\ freed = {}
    /\ event_channel = None /\ subscribed = 0
    /\ event_sink = [p \in Players |-> None]
    /\ idle = <<>> /\ delivered = NoEvent /\ crashed = FALSE

Dart == CreatePlayer \/ CreateThrows \/ Listen \/ Cancel \/ DisposePlayer

Dispose == ReleaseMediaSource \/ RemoveWatch \/ CancelDelivery \/ Free

Next ==
    \/ Dart \/ Dispose \/ WatchEnds \/ WatchUsesFreed \/ Deliver
    \/ \E p \in Players : SendEvent(p) \/ WatchBegins(p)

Spec == Init /\ [][Next]_vars

-----------------------------------------------------------------------------
(* Properties. *)

Subscriptions == None..MaxSubscribed

TypeOK ==
    /\ {player, in_watch, event_channel, players} \subseteq None..MaxPlayers
    /\ disposing \in [player : None..MaxPlayers,
                      step : {"none", "release", "unwatch", "cancel", "free"}]
    /\ \A s \in {streaming, watched, cancelled, freed} : s \subseteq Players
    /\ event_sink \in [Players -> Subscriptions]
    /\ subscribed \in Subscriptions
    /\ idle \in Seq(Players)
    /\ delivered \in [player : None..MaxPlayers, subscription : Subscriptions]
    /\ crashed \in BOOLEAN

\* An event that is still queued when its player is disposed of is dropped: once
\* the destructor has run Dart hears nothing of the player, whoever queued the
\* event and whatever player has its id and channel by then (lines 111-119,
\* 136-141).
SilentAfterDispose ==
    [][delivered' # delivered => delivered'.player \notin freed]_vars
=============================================================================
