----------------------------- MODULE VideoPlayer -----------------------------
(***************************************************************************)
(* One player of the video_player_linux plugin                             *)
(* (src/plugins/video_player_linux/video_player.cc).  Three threads share  *)
(* it: the platform thread runs the calls of the Dart application, the     *)
(* GLib main loop runs the bus messages of the GStreamer pipeline and the  *)
(* audio upgrade, and a streaming thread of GStreamer hands over frames.   *)
(* Only atomics, gst_mutex_ (frames) and event_mutex_ (the event sink)     *)
(* stand between them, so a handler runs here in steps that end where      *)
(* another thread can see or change what it works on.                      *)
(*                                                                         *)
(* GStreamer itself is external: a pipeline that moves one state at a time *)
(* towards the last state set, loses its playback rate when it goes down   *)
(* to READY, and accepts seeks from PAUSED upwards.                        *)
(***************************************************************************)
EXTENDS Integers, Sequences

CONSTANTS
    Media,      \* the media played: has it video, could an audio sink be built
    Rates,      \* the playback speeds the application asks for; 1 is one of them
    MaxCalls,   \* bound: calls of the application before it disposes the player
    MaxPosts    \* bound: end-of-stream, buffering and hot-plug events

ASSUME MediaAssumption == Media \subseteq [video: BOOLEAN, bin: BOOLEAN]
ASSUME RatesAssumption == Rates \subseteq Nat \ {0} /\ 1 \in Rates
ASSUME BoundsAssumption == MaxCalls \in Nat /\ MaxPosts \in Nat

VARIABLES
    has_video,  \* whether the medium has a video stream (fixed)
    player,     \* the flags of the player, looping and the wanted state
    speed,      \* rate_ and pending_rate_
    audio,      \* the audio sink, the udev monitor and the pending upgrade
    pipe,       \* the GStreamer pipeline and its bus
    dart,       \* the event channel: is there a sink, has it heard "initialized"
    thread,     \* where the platform thread and the main loop are
    stream,     \* where the streaming thread is
    gst_mutex,  \* the thread that holds gst_mutex_ across steps, or "none"
    hist,       \* history: the state last asked for, races met
    budget      \* what is left of the bounds

vars == <<has_video, player, speed, audio, pipe, dart, thread, stream,
          gst_mutex, hist, budget>>

------------------------------------------------------------------------------
(* Values *)

NULL == 1
READY == 2
PAUSED == 3
PLAYING == 4
States == NULL .. PLAYING

Unknown == 0                \* the sentinel -2.0 of rate_
Threads == {"platform", "loop"}
Other(t) == IF t = "platform" THEN "loop" ELSE "platform"

\* Steps at which a thread has read or reset rate_ and has not yet done what
\* goes with it.
RateSteps == {"seek", "store", "ready", "restart"}

CommonSteps == {"idle", "apply", "seek", "store", "ready", "restore"}
PlatformSteps == CommonSteps \cup
    {"play", "pause", "invalidate", "replay", "disconnect", "stop", "shader",
     "gone"}
LoopSteps == CommonSteps \cup
    {"playing", "eos", "buffering", "buffered", "announce", "monitor",
     "restart", "resume", "hold"}
Messages == {"playing", "eos", "buffering", "buffered"}

TypeOK ==
    /\ has_video \in BOOLEAN
    /\ player \in [valid: BOOLEAN, initialized: BOOLEAN, sent: BOOLEAN,
                   prepared: BOOLEAN, connected: BOOLEAN, buffering: BOOLEAN,
                   looping: BOOLEAN, balanced: BOOLEAN,
                   target: {PAUSED, PLAYING}]
    /\ speed \in [rate: Rates \cup {Unknown}, pending: Rates]
    /\ audio \in [bin: BOOLEAN, upgraded: BOOLEAN, monitor: BOOLEAN, idle: BOOLEAN]
    /\ pipe \in [state: States, want: States, segment: Rates,
                 filling: BOOLEAN, bus: Seq(Messages)]
    /\ dart \in [listening: BOOLEAN, heard: BOOLEAN]
    /\ thread \in [Threads -> [at: PlatformSteps \cup LoopSteps, value: Nat]]
    /\ thread["platform"].at \in PlatformSteps
    /\ thread["loop"].at \in LoopSteps
    /\ stream \in {"idle", "frame", "sending"}
    /\ gst_mutex \in {"none", "stream", "platform"}
    /\ hist \in [asked: States, raced: BOOLEAN, misread: BOOLEAN]
    /\ budget \in [calls: 0 .. MaxCalls, posts: 0 .. MaxPosts]

Init ==
    /\ \E m \in Media :
         /\ has_video = m.video
         /\ audio = [bin |-> m.bin, upgraded |-> m.bin, monitor |-> FALSE, idle |-> FALSE]
    /\ player = [valid |-> TRUE, initialized |-> FALSE, sent |-> FALSE,
                 prepared |-> FALSE, connected |-> TRUE, buffering |-> FALSE,
                 looping |-> FALSE, balanced |-> FALSE, target |-> PAUSED]
    /\ speed = [rate |-> Unknown, pending |-> 1]
    /\ pipe = [state |-> NULL, want |-> NULL, segment |-> 1,
               filling |-> FALSE, bus |-> <<>>]
    /\ dart = [listening |-> FALSE, heard |-> FALSE]
    /\ thread = [t \in Threads |-> [at |-> "idle", value |-> 0]]
    /\ stream = "idle"
    /\ gst_mutex = "none"
    /\ hist = [asked |-> NULL, raced |-> FALSE, misread |-> FALSE]
    /\ budget = [calls |-> MaxCalls, posts |-> MaxPosts]

------------------------------------------------------------------------------
(* Steps of a thread.  Once the player is deleted the model stops: what a   *)
(* handler that still runs then does is undefined.                         *)

Alive == thread["platform"].at # "gone"
At(t, step) == Alive /\ thread[t].at = step
GoWith(t, step, v) == thread' = [thread EXCEPT ![t] = [at |-> step, value |-> v]]
Go(t, step) == GoWith(t, step, 0)

\* Where the handler of thread t goes on after the speed has been applied.
AfterApply(t) == IF t = "loop" THEN "announce" ELSE "idle"

Touch(t) ==
    hist' = [hist EXCEPT !.raced = @ \/ thread[Other(t)].at \in RateSteps]

(* The pipeline *)

\* gst_element_set_state: downwards at once (and, below PAUSED, after the
\* streaming thread has left its callback), upwards step by step; the segment
\* rate is lost on the way through READY and the bus is emptied in NULL.
SetState(s) ==
    /\ s < PAUSED => stream = "idle"
    /\ LET now == IF s < pipe.state THEN s
                  ELSE IF pipe.state = NULL /\ s > NULL THEN READY ELSE pipe.state
       IN  pipe' = [pipe EXCEPT !.state = now,
                                !.want = s,
                                !.segment = IF now < PAUSED THEN 1 ELSE @,
                                !.bus = IF s = NULL THEN <<>> ELSE @]

\* A state set for its own sake, not to restore the one found.
Ask(s) == SetState(s) /\ hist' = [hist EXCEPT !.asked = s]

Advance ==
    /\ Alive
    /\ READY <= pipe.state /\ pipe.state < pipe.want
    /\ pipe' = [pipe EXCEPT !.state = @ + 1,
                            !.bus = IF pipe.state = PAUSED
                                    THEN Append(@, "playing") ELSE @]
    /\ UNCHANGED <<has_video, player, speed, audio, dart, thread, stream,
                   gst_mutex, hist, budget>>

Post(message) ==
    /\ Alive /\ player.connected /\ budget.posts > 0
    /\ budget' = [budget EXCEPT !.posts = @ - 1]
    /\ pipe' = [pipe EXCEPT !.bus = Append(@, message),
                            !.filling = IF message = "buffering" THEN TRUE
                                        ELSE IF message = "buffered" THEN FALSE ELSE @]
    /\ UNCHANGED <<has_video, player, speed, audio, dart, thread, stream,
                   gst_mutex, hist>>

PipelineStep ==
    \/ Advance
    \/ pipe.state = PLAYING /\ Post("eos")
    \/ pipe.state >= PAUSED /\ ~pipe.filling /\ Post("buffering")
    \/ pipe.filling /\ Post("buffered")

------------------------------------------------------------------------------
(* ApplyPlaybackSpeed, on either thread *)

ApplyRead(t) ==
    /\ At(t, "apply")
    /\ IF speed.pending = speed.rate
       THEN Go(t, AfterApply(t))
       ELSE GoWith(t, "seek", speed.pending)
    /\ Touch(t)
    /\ UNCHANGED <<has_video, player, speed, audio, pipe, dart, stream,
                   gst_mutex, budget>>

ApplySeek(t) ==
    /\ At(t, "seek")
    /\ IF pipe.state < PAUSED
       THEN Go(t, AfterApply(t)) /\ UNCHANGED pipe
       ELSE /\ GoWith(t, "store", thread[t].value)
            /\ pipe' = [pipe EXCEPT !.segment = thread[t].value]
    /\ Touch(t)
    /\ UNCHANGED <<has_video, player, speed, audio, dart, stream, gst_mutex,
                   budget>>

ApplyStore(t) ==
    /\ At(t, "store")
    /\ speed' = [speed EXCEPT !.rate = thread[t].value]
    /\ Go(t, AfterApply(t))
    /\ Touch(t)
    /\ UNCHANGED <<has_video, player, audio, pipe, dart, stream, gst_mutex,
                   budget>>

(* The round trip through READY that changes the audio or video chain *)

\* The state to come back to is read without waiting, and the cached rate is
\* given up.
RoundTrip(t) ==
    /\ GoWith(t, "ready", pipe.state)
    /\ speed' = [speed EXCEPT !.rate = Unknown]
    /\ Touch(t)

GoReady(t) ==
    /\ At(t, "ready")
    /\ SetState(READY)
    /\ GoWith(t, "restore", thread[t].value)
    /\ Touch(t)
    /\ UNCHANGED <<has_video, player, speed, audio, dart, stream, gst_mutex,
                   budget>>

\* StopAudioMonitor
NoMonitor == [audio EXCEPT !.monitor = FALSE, !.idle = FALSE]

\* The upgrade ends with the new sink in place and the monitor stopped.
Restore(t) ==
    /\ At(t, "restore")
    /\ SetState(thread[t].value)
    /\ hist' = [hist EXCEPT !.misread = @ \/ thread[t].value # hist.asked]
    /\ audio' = IF t = "loop" THEN [NoMonitor EXCEPT !.upgraded = TRUE] ELSE audio
    /\ Go(t, "idle")
    /\ UNCHANGED <<has_video, player, speed, dart, stream, gst_mutex, budget>>

SharedStep(t) ==
    ApplyRead(t) \/ ApplySeek(t) \/ ApplyStore(t) \/ GoReady(t) \/ Restore(t)

------------------------------------------------------------------------------
(* Calls of the application, on the platform thread                         *)

\* The plugin passes a call on only to a player it still has and IsValid.
Call ==
    /\ At("platform", "idle") /\ player.valid /\ budget.calls > 0
    /\ budget' = [budget EXCEPT !.calls = @ - 1]

\* Calls that would change nothing are left out: they only stutter.
SetLooping(looping) ==
    /\ Call
    /\ looping # player.looping
    /\ player' = [player EXCEPT !.looping = looping]
    /\ UNCHANGED <<has_video, speed, audio, pipe, dart, thread, stream,
                   gst_mutex, hist>>

Play ==
    /\ Call
    /\ player' = [player EXCEPT !.target = PLAYING]
    /\ Go("platform", "play")
    /\ UNCHANGED <<has_video, speed, audio, pipe, dart, stream, gst_mutex, hist>>

Pause ==
    /\ Call
    /\ pipe.state # NULL
    /\ player' = [player EXCEPT !.target = PAUSED]
    /\ Go("platform", "pause")
    /\ UNCHANGED <<has_video, speed, audio, pipe, dart, stream, gst_mutex, hist>>

PlayOrPauseAsks ==
    /\ \/ At("platform", "play") /\ Ask(PLAYING)
       \/ At("platform", "pause") /\ Ask(PAUSED)
    /\ Go("platform", "idle")
    /\ UNCHANGED <<has_video, player, speed, audio, dart, stream, gst_mutex,
                   budget>>

SetPlaybackSpeed(rate) ==
    /\ Call
    /\ speed' = [speed EXCEPT !.pending = rate]
    /\ Go("platform", IF pipe.state < PAUSED THEN "idle" ELSE "apply")
    /\ Touch("platform")
    /\ UNCHANGED <<has_video, player, audio, pipe, dart, stream, gst_mutex>>

\* The seek puts the segment rate back to 1 ...
SeekTo ==
    /\ Call
    /\ pipe' = [pipe EXCEPT !.segment = IF pipe.state < PAUSED THEN @ ELSE 1]
    /\ Go("platform", IF speed.pending = 1 THEN "idle" ELSE "invalidate")
    /\ UNCHANGED <<has_video, player, speed, audio, dart, stream, gst_mutex, hist>>

\* Mutant: the other field is reset.
InvalidatePending == speed' = [speed EXCEPT !.pending = Unknown]

Invalidate == speed' = [speed EXCEPT !.rate = Unknown]

\* ... so another one is wanted, whatever the cached rate says.
SeekInvalidates ==
    /\ At("platform", "invalidate")
    /\ Invalidate
    /\ Go("platform", "apply")
    /\ Touch("platform")
    /\ UNCHANGED <<has_video, player, audio, pipe, dart, stream, gst_mutex, budget>>

\* SetOutputChannels, also called by SetChannelMixPreset, and SetEqualizer.
SetOutputChannels ==
    /\ Call
    /\ audio.bin
    /\ RoundTrip("platform")
    /\ UNCHANGED <<has_video, player, audio, pipe, dart, stream, gst_mutex>>

\* The first SetVideoBalance puts the element into the video chain.
SetVideoBalance ==
    /\ Call
    /\ has_video /\ ~player.balanced
    /\ player' = [player EXCEPT !.balanced = TRUE]
    /\ RoundTrip("platform")
    /\ UNCHANGED <<has_video, audio, pipe, dart, stream, gst_mutex>>

(* The event channel *)

\* SendInitialized: dropped when nobody listens.
SendInitialized == dart' = [dart EXCEPT !.heard = @ \/ dart.listening]

Listen ==
    /\ Call
    /\ dart' = [listening |-> TRUE, heard |-> FALSE]
    /\ Go("platform", "replay")
    /\ UNCHANGED <<has_video, player, speed, audio, pipe, stream, gst_mutex, hist>>

\* Mutant: nothing is said again to a new listener.
NoReplay == UNCHANGED dart

ReplayCurrentState == IF player.initialized THEN SendInitialized ELSE UNCHANGED dart

Replay ==
    /\ At("platform", "replay")
    /\ ReplayCurrentState
    /\ Go("platform", "idle")
    /\ UNCHANGED <<has_video, player, speed, audio, pipe, stream, gst_mutex,
                   hist, budget>>

Cancel ==
    /\ Call
    /\ dart.listening
    /\ dart' = [dart EXCEPT !.listening = FALSE]
    /\ UNCHANGED <<has_video, player, speed, audio, pipe, thread, stream,
                   gst_mutex, hist>>

(* Dispose, and the deletion of the player after it *)

Dispose ==
    /\ At("platform", "idle") /\ player.valid
    /\ player' = [player EXCEPT !.valid = FALSE, !.initialized = FALSE]
    /\ audio' = NoMonitor
    /\ budget' = [budget EXCEPT !.calls = 0]
    /\ Go("platform", "disconnect")
    /\ UNCHANGED <<has_video, speed, pipe, dart, stream, gst_mutex, hist>>

\* Handlers that already run go on; no message will be taken any more, so the
\* bus is left empty here.
Disconnect ==
    /\ At("platform", "disconnect")
    /\ player' = [player EXCEPT !.connected = FALSE]
    /\ pipe' = [pipe EXCEPT !.bus = <<>>]
    /\ budget' = [budget EXCEPT !.posts = 0]
    /\ Go("platform", "stop")
    /\ UNCHANGED <<has_video, speed, audio, dart, stream, gst_mutex, hist>>

\* Mutant: gst_mutex_ is taken before the pipeline is stopped.
StopUnderMutex ==
    /\ At("platform", "stop")
    /\ \/ gst_mutex = "none" /\ gst_mutex' = "platform" /\ UNCHANGED <<thread, pipe, hist>>
       \/ gst_mutex = "platform" /\ Ask(NULL) /\ gst_mutex' = "none" /\ Go("platform", "shader")
    /\ UNCHANGED <<has_video, player, speed, audio, dart, stream, budget>>

StopPipeline ==
    /\ At("platform", "stop")
    /\ Ask(NULL)
    /\ Go("platform", "shader")
    /\ UNCHANGED <<has_video, player, speed, audio, dart, stream, gst_mutex, budget>>

\* The shader goes once no frame is being drawn, the sink after it.
DropShaderAndSink ==
    /\ At("platform", "shader")
    /\ has_video => gst_mutex = "none"
    /\ player' = [player EXCEPT !.prepared = FALSE]
    /\ dart' = [dart EXCEPT !.listening = FALSE]
    /\ Go("platform", "gone")
    /\ UNCHANGED <<has_video, speed, audio, pipe, stream, gst_mutex, hist, budget>>

PlatformGoesOn ==
    \/ PlayOrPauseAsks \/ SeekInvalidates \/ Replay
    \/ Disconnect \/ StopPipeline \/ DropShaderAndSink
    \/ SharedStep("platform")

ApplicationCalls ==
    \/ \E looping \in BOOLEAN : SetLooping(looping)
    \/ \E rate \in Rates : SetPlaybackSpeed(rate)
    \/ Play \/ Pause \/ SeekTo \/ SetOutputChannels \/ SetVideoBalance
    \/ Listen \/ Cancel \/ Dispose

------------------------------------------------------------------------------
(* The main loop *)

\* OnBusMessage: one handler per message.  Messages that only report (errors,
\* tags, the lower states) change nothing here.
TakeMessage ==
    /\ At("loop", "idle") /\ player.connected /\ pipe.bus # <<>>
    /\ Go("loop", Head(pipe.bus))
    /\ pipe' = [pipe EXCEPT !.bus = Tail(@)]
    /\ UNCHANGED <<has_video, player, speed, audio, dart, stream, gst_mutex, hist,
                   budget>>

\* OnMediaStateChange(PLAYING): prepare may fail to find the caps.
Prepare ==
    /\ At("loop", "playing")
    /\ has_video => gst_mutex = "none"
    /\ \E found \in IF has_video THEN BOOLEAN ELSE {FALSE} :
         player' = [player EXCEPT !.prepared = @ \/ found, !.initialized = TRUE]
    /\ Go("loop", "apply")
    /\ UNCHANGED <<has_video, speed, audio, pipe, dart, stream, gst_mutex, hist,
                   budget>>

\* Without video no frame will ever announce the player.
Announce ==
    /\ At("loop", "announce")
    /\ IF ~has_video /\ ~player.sent
       THEN player' = [player EXCEPT !.sent = TRUE] /\ SendInitialized
       ELSE UNCHANGED <<player, dart>>
    /\ Go("loop", IF audio.upgraded THEN "idle" ELSE "monitor")
    /\ UNCHANGED <<has_video, speed, audio, pipe, stream, gst_mutex, hist, budget>>

\* StartAudioMonitor: a device may be there already.
StartAudioMonitor ==
    /\ At("loop", "monitor")
    /\ \E present \in IF audio.monitor THEN {FALSE} ELSE BOOLEAN :
         audio' = [audio EXCEPT !.monitor = TRUE, !.idle = @ \/ present]
    /\ Go("loop", "idle")
    /\ UNCHANGED <<has_video, player, speed, pipe, dart, stream, gst_mutex, hist,
                   budget>>

OnUdevEvent ==
    /\ At("loop", "idle") /\ budget.posts > 0
    /\ audio.monitor /\ ~audio.upgraded /\ ~audio.idle
    /\ audio' = [audio EXCEPT !.idle = TRUE]
    /\ budget' = [budget EXCEPT !.posts = @ - 1]
    /\ UNCHANGED <<has_video, player, speed, pipe, dart, thread, stream,
                   gst_mutex, hist>>

\* The new sink may not get ready: the next hot-plug tries again.
OnAudioUpgrade ==
    /\ At("loop", "idle") /\ audio.idle
    /\ audio' = [audio EXCEPT !.idle = FALSE]
    /\ \/ UNCHANGED <<thread, speed, hist>>
       \/ ~audio.upgraded /\ player.valid /\ RoundTrip("loop")
    /\ UNCHANGED <<has_video, player, pipe, dart, stream, gst_mutex, budget>>

\* Mutant: the restarted pipeline is believed to keep its rate.
KeepRate == UNCHANGED speed

ForgetRate == speed' = [speed EXCEPT !.rate = Unknown]

OnPlaybackEnded ==
    /\ At("loop", "eos")
    /\ IF player.looping
       THEN /\ player' = [player EXCEPT !.buffering = FALSE]
            /\ ForgetRate
            /\ Touch("loop")
            /\ Go("loop", "restart")
       ELSE Go("loop", "idle") /\ UNCHANGED <<player, speed, hist>>
    /\ UNCHANGED <<has_video, audio, pipe, dart, stream, gst_mutex, budget>>

Restart ==
    /\ At("loop", "restart")
    /\ Ask(READY)
    /\ Go("loop", "resume")
    /\ UNCHANGED <<has_video, player, speed, audio, dart, stream, gst_mutex, budget>>

\* The pipeline is paused while it buffers, if the user wants it to play.
BufferingStarts ==
    /\ At("loop", "buffering")
    /\ player' = [player EXCEPT !.buffering = TRUE]
    /\ Go("loop", IF ~player.buffering /\ player.target = PLAYING THEN "hold" ELSE "idle")
    /\ UNCHANGED <<has_video, speed, audio, pipe, dart, stream, gst_mutex, hist,
                   budget>>

\* Mutant: buffering ends without the pipeline being resumed.
StayPaused == "idle"

AfterBuffering == IF player.target = PLAYING THEN "resume" ELSE "idle"

BufferingEnds ==
    /\ At("loop", "buffered")
    /\ player' = [player EXCEPT !.buffering = FALSE]
    /\ Go("loop", AfterBuffering)
    /\ UNCHANGED <<has_video, speed, audio, pipe, dart, stream, gst_mutex, hist,
                   budget>>

HoldOrResume ==
    /\ \/ At("loop", "hold") /\ Ask(PAUSED)
       \/ At("loop", "resume") /\ Ask(PLAYING)
    /\ Go("loop", "idle")
    /\ UNCHANGED <<has_video, player, speed, audio, dart, stream, gst_mutex, budget>>

LoopStep ==
    \/ TakeMessage \/ Prepare \/ Announce \/ StartAudioMonitor \/ OnAudioUpgrade
    \/ OnPlaybackEnded \/ Restart \/ BufferingStarts \/ BufferingEnds \/ HoldOrResume
    \/ SharedStep("loop")

------------------------------------------------------------------------------
(* The streaming thread: handoff_handler *)

\* A frame waits for gst_mutex_.
Frame ==
    /\ Alive /\ stream = "idle" /\ pipe.state = PLAYING
    /\ player.connected /\ player.valid /\ player.initialized /\ has_video
    /\ stream' = "frame"
    /\ UNCHANGED <<has_video, player, speed, audio, pipe, dart, thread,
                   gst_mutex, hist, budget>>

\* The first frame is drawn before the player is announced.
Draw ==
    /\ Alive /\ stream = "frame" /\ gst_mutex = "none"
    /\ IF player.prepared /\ ~player.sent
       THEN /\ player' = [player EXCEPT !.sent = TRUE]
            /\ stream' = "sending" /\ gst_mutex' = "stream"
       ELSE stream' = "idle" /\ UNCHANGED <<player, gst_mutex>>
    /\ UNCHANGED <<has_video, speed, audio, pipe, dart, thread, hist, budget>>

SendFirst ==
    /\ Alive /\ stream = "sending"
    /\ SendInitialized
    /\ stream' = "idle" /\ gst_mutex' = "none"
    /\ UNCHANGED <<has_video, player, speed, audio, pipe, thread, hist, budget>>

------------------------------------------------------------------------------
Next ==
    \/ ApplicationCalls \/ PlatformGoesOn
    \/ LoopStep \/ OnUdevEvent
    \/ Frame \/ Draw \/ SendFirst
    \/ PipelineStep

Spec == Init /\ [][Next]_vars

\* The platform thread and a callback of the streaming thread run on; calls,
\* events, the progress of the pipeline and the main loop may stop at any time.
FairSpec ==
    /\ Spec
    /\ WF_vars(PlatformGoesOn)
    /\ WF_vars(Draw \/ SendFirst)

------------------------------------------------------------------------------
(* Properties *)

Quiet ==
    /\ \A t \in Threads : thread[t].at = "idle"
    /\ player.valid
    /\ pipe.bus = <<>>

\* Once the player has announced itself, whoever listens has heard
\* "initialized", whichever of listen, play and the first frame came first:
\* otherwise the Dart initialize() never completes (comment in Init).
InitializedHeard ==
    (Quiet /\ stream # "sending" /\ player.sent /\ dart.listening) => dart.heard

\* When the user wants the player to play and it does not buffer, the pipeline
\* has been told to play: no interleaving of play, pause, buffering and looping
\* leaves it paused, unless a round trip through READY restored a state that was
\* no longer the one asked for.
PlayHolds ==
    (Quiet /\ player.target = PLAYING /\ ~player.buffering /\ ~hist.misread)
        => pipe.want = PLAYING

\* A playing pipeline runs at the speed the user chose last, after any seek,
\* loop, hot-plug or change of channels, unless one thread chose or applied the
\* speed or reset the pipeline in the middle of the other's doing so.
SpeedHonoured ==
    (Quiet /\ pipe.state = PLAYING /\ ~hist.raced /\ ~hist.misread)
        => pipe.segment = speed.pending

\* Dispose comes to an end, whatever the loop and the streaming thread are
\* doing: no thread waits for one that waits for it.
DisposeReturns ==
    thread["platform"].at = "disconnect" ~> thread["platform"].at = "gone"

==============================================================================
