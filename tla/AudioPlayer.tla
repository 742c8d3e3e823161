----------------------------- MODULE AudioPlayer -----------------------------
(***************************************************************************)
(* One player of audioplayers_linux (audio_player.cc).                      *)
(*                                                                         *)
(* Three threads touch it without a common lock.  The platform thread runs  *)
(* Dart's calls; the GLib main loop's thread runs the watch on the bus of   *)
(* playbin, which calls the same Pause, Resume, Stop and SetPlayback; and   *)
(* playbin's streaming thread runs AboutToFinish.  They meet in atomics:    *)
(* isInitialized_, isPlaying_, isLooping_ and isSeekCompleted_.             *)
(*                                                                         *)
(* A function is a list of the steps between which another thread can come; *)
(* todo holds what each of the two calling threads still has to do.         *)
(*                                                                         *)
(* External: playbin, with its state, the state it is asked for, and the    *)
(* messages it posts on its bus, which set_state(NULL) flushes.  The        *)
(* atomics are sequentially consistent here; the code asks for less.        *)
(***************************************************************************)
EXTENDS Integers, Sequences

CONSTANTS
    Sources,    \* the urls Dart plays
    NoSource,   \* the empty url
    MaxBus,     \* bound: messages waiting on the bus
    MaxSeeks,   \* bound: flushing seeks playbin has not settled
    MaxCalls    \* bound: Dart's calls

ASSUME SourceAssumption == NoSource \notin Sources
ASSUME BoundAssumption == {MaxBus, MaxSeeks, MaxCalls} \subseteq Nat

VARIABLES
    url,            \* url_
    initialized,    \* isInitialized_
    playing,        \* isPlaying_
    looping,        \* isLooping_
    seekCompleted,  \* isSeekCompleted_
    todo,           \* what each calling thread has still to do
    calls,          \* how many calls Dart has made
    asked,          \* the argument of the SetSourceUrl that is running
    copied,         \* url_copy of a running AboutToFinish, or NoSource
    pipe,           \* external: the state of playbin
    target,         \* ... the state it is asked for
    uri,            \* ... its "uri" property
    seeks,          \* ... flushing seeks under way
    drain,          \* ... how near it is to the end of the source
    failed,         \* ... its last change of state has failed
    bus,            \* ... messages on its bus, oldest first
    reported        \* onComplete was sent for this end, with no Resume since

dartVars == <<calls, asked>>
flags == <<initialized, playing, looping, seekCompleted>>
pipeVars == <<pipe, target, uri, seeks, drain, failed>>
vars == <<url, flags, todo, dartVars, copied, pipeVars, bus, reported>>

Threads == {"platform", "main"}
PipeStates == {"null", "ready", "paused", "playing"}

-----------------------------------------------------------------------------
(* The functions of the player, as the steps they take. *)

Pause == <<"clear_playing", "if_initialized", "pause_pipe">>
Resume == <<"set_playing", "if_initialized", "play_pipe">>
SetPosition == <<"if_initialized", "if_seek_completed", "send_seek">>
Play == SetPosition \o Resume
Stop == Pause \o SetPosition
SetSourceUrl == <<"store_url", "null_pipe", "reset_flags", "ready_pipe">>
ReleaseMediaSource == <<"release", "null_pipe">>

\* The thread t takes the step it has next.
Takes(t, step) == todo[t] # <<>> /\ Head(todo[t]) = step
GoOn(t) == todo' = [todo EXCEPT ![t] = Tail(@)]

\* An early return: from the function that was to end with one of these.
Ends == {"pause_pipe", "play_pipe", "send_seek"}
Return(t) ==
    LET last == CHOOSE i \in 1..Len(todo[t]) :
                    /\ todo[t][i] \in Ends
                    /\ \A j \in 1..(i - 1) : todo[t][j] \notin Ends
    IN  todo' = [todo EXCEPT ![t] = SubSeq(@, last + 1, Len(@))]

\* Every function looks at isInitialized_ before it turns to playbin.
IfInitialized(t) ==
    /\ Takes(t, "if_initialized")
    /\ IF initialized THEN GoOn(t) ELSE Return(t)
    /\ UNCHANGED <<url, flags, dartVars, copied, pipeVars, bus, reported>>

\* Pause: isPlaying_ first ...
ClearPlaying(t) ==
    /\ Takes(t, "clear_playing")
    /\ playing' = FALSE
    /\ GoOn(t)
    /\ UNCHANGED <<url, initialized, looping, seekCompleted, dartVars, copied,
                   pipeVars, bus, reported>>

\* ... then playbin, if it had been prepared.
PausePipe(t) ==
    /\ Takes(t, "pause_pipe")
    /\ target' = "paused"
    /\ GoOn(t)
    /\ UNCHANGED <<url, flags, dartVars, copied, pipe, uri, seeks, drain, failed,
                   bus, reported>>

\* Mutant: the early return comes before isPlaying_ is set.
SetPlayingIfPrepared(t) ==
    /\ Takes(t, "set_playing")
    /\ playing' = (playing \/ initialized)
    /\ reported' = (reported /\ ~initialized)
    /\ GoOn(t)
    /\ UNCHANGED <<url, initialized, looping, seekCompleted, dartVars, copied,
                   pipeVars, bus>>

\* Resume: likewise.
SetPlaying(t) ==
    /\ Takes(t, "set_playing")
    /\ playing' = TRUE
    /\ reported' = FALSE
    /\ GoOn(t)
    /\ UNCHANGED <<url, initialized, looping, seekCompleted, dartVars, copied,
                   pipeVars, bus>>

PlayPipe(t) ==
    /\ Takes(t, "play_pipe")
    /\ target' = "playing"
    /\ GoOn(t)
    /\ UNCHANGED <<url, flags, dartVars, copied, pipe, uri, seeks, drain, failed,
                   bus, reported>>

\* SetPlayback drops a seek that comes before the last one is over ...
IfSeekCompleted(t) ==
    /\ Takes(t, "if_seek_completed")
    /\ IF seekCompleted THEN GoOn(t) ELSE Return(t)
    /\ UNCHANGED <<url, flags, dartVars, copied, pipeVars, bus, reported>>

Prerolled == pipe \in {"paused", "playing"}

\* ... or sends it to playbin, which leaves the end of the source ...
SendSeek(t) ==
    /\ Takes(t, "send_seek")
    /\ Prerolled
    /\ seeks < MaxSeeks
    /\ seekCompleted' = FALSE
    /\ seeks' = seeks + 1
    /\ drain' = "no"
    /\ GoOn(t)
    /\ UNCHANGED <<url, initialized, playing, looping, dartVars, copied, pipe,
                   target, uri, failed, bus, reported>>

\* Mutant: a refused seek is left outstanding.
RefusedSeekStays(t) ==
    /\ Takes(t, "send_seek")
    /\ seekCompleted' = FALSE
    /\ GoOn(t)
    /\ UNCHANGED <<url, initialized, playing, looping, dartVars, copied, pipeVars,
                   bus, reported>>

\* ... unless playbin refuses it.
SeekRefused(t) ==
    /\ Takes(t, "send_seek")
    /\ seekCompleted' = TRUE
    /\ GoOn(t)
    /\ UNCHANGED <<url, initialized, playing, looping, dartVars, copied, pipeVars,
                   bus, reported>>

-----------------------------------------------------------------------------
(* SetSourceUrl and ReleaseMediaSource, on the platform thread. *)

StoreUrl(t) ==
    /\ Takes(t, "store_url")
    /\ url' = asked
    /\ GoOn(t)
    /\ UNCHANGED <<flags, dartVars, copied, pipeVars, bus, reported>>

\* gst_element_set_state(NULL) waits for the streaming thread.
NullPipe(t) ==
    /\ Takes(t, "null_pipe")
    /\ copied = NoSource
    /\ pipe' = "null"
    /\ target' = "null"
    /\ bus' = <<>>
    /\ seeks' = 0
    /\ drain' = "no"
    /\ failed' = FALSE
    /\ reported' = FALSE
    /\ GoOn(t)
    /\ UNCHANGED <<url, flags, dartVars, copied, uri>>

ResetFlags(t) ==
    /\ Takes(t, "reset_flags")
    /\ initialized' = FALSE
    /\ playing' = FALSE
    /\ uri' = asked
    /\ GoOn(t)
    /\ UNCHANGED <<url, looping, seekCompleted, dartVars, copied, pipe, target,
                   seeks, drain, failed, bus, reported>>

\* From NULL to READY, at once.  A bus watch that ran late may have asked for
\* more in the meantime: then playbin is taken back, and says so.
ReadyPipe(t) ==
    /\ Takes(t, "ready_pipe")
    /\ pipe' = "ready"
    /\ target' = "ready"
    /\ bus' = IF pipe = "ready" /\ target = "ready" THEN bus
                                                 ELSE Append(bus, "to_ready")
    /\ asked' = NoSource
    /\ GoOn(t)
    /\ UNCHANGED <<url, flags, calls, copied, uri, seeks, drain, failed, reported>>

Release(t) ==
    /\ Takes(t, "release")
    /\ playing' = FALSE
    /\ initialized' = FALSE
    /\ url' = NoSource
    /\ GoOn(t)
    /\ UNCHANGED <<looping, seekCompleted, dartVars, copied, pipeVars, bus,
                   reported>>

-----------------------------------------------------------------------------
(* Dart's calls, one at a time on the platform thread. *)

OneMoreCall ==
    /\ todo["platform"] = <<>>
    /\ calls < MaxCalls
    /\ calls' = calls + 1

Call(program) ==
    /\ OneMoreCall
    /\ todo' = [todo EXCEPT !["platform"] = program]
    /\ UNCHANGED <<url, flags, copied, pipeVars, bus, reported>>

\* Mutant: the uri is set before playbin has stopped.
CallSetSourceEarly(s) ==
    /\ Call(<<"store_url", "reset_flags", "null_pipe", "ready_pipe">>)
    /\ asked' = s

CallSetSource(s) == Call(SetSourceUrl) /\ asked' = s
CallControl ==
    /\ \E f \in {Pause, Resume, Stop, SetPosition, ReleaseMediaSource} : Call(f)
    /\ UNCHANGED asked
CallSetLooping ==
    /\ OneMoreCall
    /\ looping' = ~looping
    /\ UNCHANGED <<url, initialized, playing, seekCompleted, todo, asked, copied,
                   pipeVars, bus, reported>>

-----------------------------------------------------------------------------
(* OnBusMessage, on the GLib main loop's thread. *)

Hears(m) == todo["main"] = <<>> /\ bus # <<>> /\ Head(bus) = m

\* READY: the source is not prepared until PAUSED.
OnReady ==
    /\ Hears("to_ready")
    /\ bus' = Tail(bus)
    /\ target' = "paused"
    /\ initialized' = FALSE
    /\ UNCHANGED <<url, playing, looping, seekCompleted, todo, dartVars, copied,
                   pipe, uri, seeks, drain, failed, reported>>

\* PAUSED for the first time: onPrepared; isPlaying_ is looked at afterwards.
OnPaused ==
    /\ Hears("to_paused")
    /\ bus' = Tail(bus)
    /\ initialized' = TRUE
    /\ todo' = [todo EXCEPT !["main"] =
                    IF initialized THEN <<>> ELSE <<"check_playing">>]
    /\ UNCHANGED <<url, playing, looping, seekCompleted, dartVars, copied, pipeVars,
                   reported>>

CheckPlaying ==
    /\ Takes("main", "check_playing")
    /\ todo' = [todo EXCEPT !["main"] = IF playing THEN Resume ELSE <<>>]
    /\ UNCHANGED <<url, flags, dartVars, copied, pipeVars, bus, reported>>

\* Mutant: the end of the stream is reported whether or not AboutToFinish was
\* first.
OnEosAlways ==
    /\ Hears("eos")
    /\ bus' = Tail(bus)
    /\ reported' = TRUE
    /\ todo' = [todo EXCEPT !["main"] = IF looping THEN Play ELSE Stop]
    /\ UNCHANGED <<url, flags, dartVars, copied, pipeVars>>

\* EOS counts while isPlaying_ is set: OnPlaybackEnded sends onComplete, and the
\* player plays again or stops.  (Not even a seek and a second drain fit between
\* the test and the send.)
OnEos ==
    /\ Hears("eos")
    /\ bus' = Tail(bus)
    /\ IF playing
         THEN /\ reported' = TRUE
              /\ todo' = [todo EXCEPT !["main"] = IF looping THEN Play ELSE Stop]
         ELSE UNCHANGED <<reported, todo>>
    /\ UNCHANGED <<url, flags, dartVars, copied, pipeVars>>

OnAsyncDone ==
    /\ Hears("async_done")
    /\ bus' = Tail(bus)
    /\ seekCompleted' = TRUE
    /\ UNCHANGED <<url, initialized, playing, looping, todo, dartVars, copied,
                   pipeVars, reported>>

\* PLAYING and errors are only passed on to Dart.
OnOther ==
    /\ Hears("to_playing") \/ Hears("error")
    /\ bus' = Tail(bus)
    /\ UNCHANGED <<url, flags, todo, dartVars, copied, pipeVars, reported>>

-----------------------------------------------------------------------------
(* playbin, external, and AboutToFinish on its streaming thread. *)

Room(n) == Len(bus) + n <= MaxBus

Post(messages) == Room(Len(messages)) /\ bus' = bus \o messages

\* playbin moves one state towards the one it is asked for.
PipeMoves ==
    /\ \/ pipe = "ready" /\ target \in {"paused", "playing"} /\ ~failed
          /\ pipe' = "paused" /\ Post(<<"to_paused", "async_done">>)
       \/ pipe = "paused" /\ target = "playing"
          /\ pipe' = "playing" /\ Post(<<"to_playing">>)
       \/ pipe = "playing" /\ target = "paused"
          /\ pipe' = "paused" /\ Post(<<"to_paused">>)
       \/ pipe = "null" /\ target \in {"paused", "playing"}
          /\ pipe' = "ready" /\ Post(<<"to_ready">>)
    /\ UNCHANGED <<url, flags, todo, dartVars, copied, target, uri, seeks, drain,
                   failed, reported>>

\* It cannot prepare the source.
PipeFails ==
    /\ pipe = "ready"
    /\ target \in {"paused", "playing"}
    /\ ~failed
    /\ failed' = TRUE
    /\ Post(<<"error">>)
    /\ UNCHANGED <<url, flags, todo, dartVars, copied, pipe, target, uri, seeks,
                   drain, reported>>

SeekSettles ==
    /\ seeks > 0
    /\ seeks' = seeks - 1
    /\ Post(<<"async_done">>)
    /\ UNCHANGED <<url, flags, todo, dartVars, copied, pipe, target, uri, drain,
                   failed, reported>>

\* The source drains: AboutToFinish without looping takes isPlaying_ and sends
\* onComplete; EOS follows.
AboutToFinish ==
    /\ pipe = "playing"
    /\ drain = "no"
    /\ copied = NoSource
    /\ ~looping
    /\ drain' = "last_buffer"
    /\ playing' = FALSE
    /\ reported' = playing
    /\ UNCHANGED <<url, initialized, looping, seekCompleted, todo, dartVars, copied,
                   pipe, target, uri, seeks, failed, bus>>

\* With looping it copies url_ under url_mu_ ...
AboutToLoop ==
    /\ pipe = "playing"
    /\ drain = "no"
    /\ copied = NoSource
    /\ looping
    /\ IF url = NoSource
         THEN drain' = "last_buffer" /\ UNCHANGED copied
         ELSE copied' = url /\ UNCHANGED drain
    /\ UNCHANGED <<url, flags, todo, dartVars, pipe, target, uri, seeks, failed, bus,
                   reported>>

\* ... and queues it.
QueueAgain ==
    /\ copied # NoSource
    /\ uri' = copied
    /\ copied' = NoSource
    /\ UNCHANGED <<url, flags, todo, dartVars, pipe, target, seeks, drain, failed,
                   bus, reported>>

Drained ==
    /\ drain = "last_buffer"
    /\ pipe = "playing"
    /\ drain' = "eos"
    /\ Post(<<"eos">>)
    /\ UNCHANGED <<url, flags, todo, dartVars, copied, pipe, target, uri, seeks,
                   failed, reported>>

-----------------------------------------------------------------------------
Init ==
    /\ url = NoSource /\ uri = NoSource /\ asked = NoSource /\ copied = NoSource
    /\ initialized = FALSE /\ playing = FALSE /\ looping = FALSE
    /\ seekCompleted = TRUE
    /\ todo = [t \in Threads |-> <<>>]
    /\ pipe = "null" /\ target = "null" /\ seeks = 0 /\ drain = "no"
    /\ failed = FALSE
    /\ bus = <<>>
    /\ calls = 0
    /\ reported = FALSE

Dart == (\E s \in Sources : CallSetSource(s)) \/ CallControl \/ CallSetLooping

RunStep(t) ==
    \/ ClearPlaying(t) \/ PausePipe(t) \/ SetPlaying(t) \/ PlayPipe(t)
    \/ IfInitialized(t) \/ IfSeekCompleted(t) \/ SendSeek(t) \/ SeekRefused(t)
    \/ StoreUrl(t) \/ NullPipe(t) \/ ResetFlags(t) \/ ReadyPipe(t)
    \/ Release(t)

OnBusMessage ==
    \/ OnReady \/ OnPaused \/ OnEos \/ OnAsyncDone \/ OnOther
    \/ CheckPlaying

Playbin ==
    \/ PipeMoves \/ PipeFails \/ SeekSettles
    \/ AboutToFinish \/ AboutToLoop \/ QueueAgain \/ Drained

Next ==
    \/ Dart \/ OnBusMessage \/ Playbin
    \/ \E t \in Threads : RunStep(t)

Spec == Init /\ [][Next]_vars

\* Both threads run, and playbin settles what it was asked: fairly enough not to
\* be held up for ever by MaxBus, which is the model's.  Nothing obliges Dart to
\* call, or a source to end.
Fairness ==
    /\ WF_vars(OnBusMessage)
    /\ \A t \in Threads : WF_vars(RunStep(t))
    /\ SF_vars(PipeMoves) /\ SF_vars(SeekSettles) /\ WF_vars(QueueAgain)

FairSpec == Spec /\ Fairness

-----------------------------------------------------------------------------
(* Properties. *)

BusMessages ==
    {"to_ready", "to_paused", "to_playing", "eos", "async_done", "error"}

Steps == {"clear_playing", "pause_pipe", "set_playing", "play_pipe",
          "if_initialized",
          "if_seek_completed", "send_seek", "store_url", "null_pipe", "reset_flags",
          "ready_pipe", "release", "check_playing"}

TypeOK ==
    /\ {url, uri, asked, copied} \subseteq Sources \cup {NoSource}
    /\ {initialized, playing, looping, seekCompleted, failed, reported}
         \subseteq BOOLEAN
    /\ todo \in [Threads -> Seq(Steps)]
    /\ pipe \in PipeStates /\ target \in PipeStates
    /\ seeks \in 0..MaxSeeks
    /\ calls \in 0..MaxCalls
    /\ drain \in {"no", "last_buffer", "eos"}
    /\ bus \in Seq(BusMessages)

\* Whatever AboutToFinish copies while Dart changes the source, playbin comes
\* to play the source Dart set last: url_ is stored first, set_state(NULL)
\* waits for the streaming thread, and only then is "uri" set (lines 213-222).
PlaysSourceSetLast ==
    url # NoSource /\ "ready_pipe" \notin {todo["platform"][i] :
                                i \in 1..Len(todo["platform"])}
        => uri = url

\* An end that AboutToFinish has reported is not reported again by its EOS,
\* which arrives on another thread, unless the player was resumed in between:
\* the exchange of isPlaying_ pays for one onComplete (lines 156, 340).
CompletesOnce ==
    [][OnEos /\ drain = "eos" /\ reported => todo' = todo]_vars

Pausing(t) ==
    \E i \in 1..Len(todo[t]) : todo[t][i] \in {"clear_playing", "pause_pipe"}

ResumesEarly ==
    /\ todo["platform"] = Resume
    /\ todo["main"] = <<>>
    /\ ~initialized
    /\ url # NoSource

\* A resume that comes before the source is prepared is not forgotten: the bus
\* watch starts playbin then (lines 470-475), unless somebody pauses or changes
\* the source.  It is only said of an idle watch: one that is still busy with
\* the end of the previous source stops the new one.
EarlyResumeHonoured ==
    ResumesEarly ~> (\/ pipe = "playing" \/ failed \/ pipe = "null"
                     \/ \E t \in Threads : Pausing(t))

\* A seek never locks out the later ones for good: isSeekCompleted_ comes back
\* with ASYNC_DONE or with playbin's refusal.  A source change can lose the
\* ASYNC_DONE, and then that of the next source's preroll does it.
SeekRecovers == ~seekCompleted ~> seekCompleted \/ failed \/ pipe = "null"
=============================================================================
