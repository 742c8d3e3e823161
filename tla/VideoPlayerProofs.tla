-------------------------- MODULE VideoPlayerProofs --------------------------
(***************************************************************************)
(* Proofs about VideoPlayer, for any rates and any number of calls and      *)
(* events.                                                                 *)
(***************************************************************************)
EXTENDS VideoPlayer, TLAPS

\* What a thread carries from step to step is the state to restore, or the
\* rate it applies.
CarriesItsKind ==
    \A t \in Threads :
        /\ thread[t].at \in {"ready", "restore"} => thread[t].value \in States
        /\ thread[t].at \in {"seek", "store"} => thread[t].value \in Rates

Typed == TypeOK /\ CarriesItsKind

\* The steps of the main loop after Prepare.
Prepared == {"apply", "seek", "store", "announce", "monitor"}

\* A player that has frames to draw or has announced itself is initialized, as
\* long as it is not disposed: this is what a new listener is told.
InitializedFirst ==
    player.valid =>
        /\ player.sent \/ player.prepared => player.initialized
        /\ thread["loop"].at \in Prepared => player.initialized

\* Only a valid player replays, and it has a listener then.
ReplayHasListener ==
    thread["platform"].at = "replay" => player.valid /\ dart.listening

\* Who has not heard of an announced player is about to hear of it.
StillToHear ==
    (player.valid /\ player.sent /\ dart.listening /\ ~dart.heard)
        => stream = "sending" \/ thread["platform"].at = "replay"

IInv == InitializedFirst /\ ReplayHasListener /\ StillToHear

USE RatesAssumption, BoundsAssumption, MediaAssumption

\* The types of the variables, by name, so that a step only looks at those it
\* changes.
PlayerType ==
    [valid: BOOLEAN, initialized: BOOLEAN, sent: BOOLEAN, prepared: BOOLEAN,
     connected: BOOLEAN, buffering: BOOLEAN, looping: BOOLEAN,
     balanced: BOOLEAN, target: {PAUSED, PLAYING}]
SpeedType == [rate: Rates \cup {Unknown}, pending: Rates]
AudioType == [bin: BOOLEAN, upgraded: BOOLEAN, monitor: BOOLEAN, idle: BOOLEAN]
PipeType ==
    [state: States, want: States, segment: Rates, filling: BOOLEAN,
     bus: Seq(Messages)]
DartType == [listening: BOOLEAN, heard: BOOLEAN]
HistType == [asked: States, raced: BOOLEAN, misread: BOOLEAN]
BudgetType == [calls: 0 .. MaxCalls, posts: 0 .. MaxPosts]
ThreadType == [Threads -> [at: PlatformSteps \cup LoopSteps, value: Nat]]

ThreadOK ==
    /\ thread \in ThreadType
    /\ thread["platform"].at \in PlatformSteps
    /\ thread["loop"].at \in LoopSteps
    /\ CarriesItsKind

TypesOK ==
    /\ has_video \in BOOLEAN
    /\ player \in PlayerType
    /\ speed \in SpeedType
    /\ audio \in AudioType
    /\ pipe \in PipeType
    /\ dart \in DartType
    /\ ThreadOK
    /\ stream \in {"idle", "frame", "sending"}
    /\ gst_mutex \in {"none", "stream", "platform"}
    /\ hist \in HistType
    /\ budget \in BudgetType

LEMMA SameTypes == Typed <=> TypesOK
BY DEF Typed, TypeOK, TypesOK, PlayerType, SpeedType, AudioType, PipeType, DartType,
       HistType, BudgetType, ThreadOK, ThreadType

LEMMA SameTypesNext == Typed' <=> TypesOK'
BY DEF Typed, TypeOK, TypesOK, PlayerType, SpeedType, AudioType, PipeType, DartType,
       HistType, BudgetType, ThreadOK, ThreadType

\* Moving thread t to a step of its own keeps the type of thread, and what the
\* thread carries keeps its kind.
LEMMA GoType ==
    ASSUME Typed, NEW t \in Threads, NEW step, NEW v \in Nat, GoWith(t, step, v),
           t = "platform" => step \in PlatformSteps,
           t = "loop" => step \in LoopSteps,
           step \in {"ready", "restore"} => v \in States,
           step \in {"seek", "store"} => v \in Rates
    PROVE  ThreadOK'
<1>1. thread \in ThreadType
  BY DEF Typed, TypeOK, ThreadType
<1>2. thread' = [thread EXCEPT ![t] = [at |-> step, value |-> v]]
  BY DEF GoWith
<1>3. thread' \in ThreadType
  BY <1>1, <1>2 DEF ThreadType, Threads
<1>4. /\ thread'[t] = [at |-> step, value |-> v]
      /\ \A u \in Threads : u # t => thread'[u] = thread[u]
  BY <1>1, <1>2 DEF ThreadType
<1>5. CarriesItsKind'
  BY <1>3, <1>4 DEF Typed, CarriesItsKind
<1> QED BY <1>3, <1>4, <1>5 DEF Typed, TypeOK, Threads, ThreadOK

\* Setting a state keeps the type of the pipeline.
LEMMA SetStateType ==
    ASSUME pipe \in PipeType, NEW s \in States, SetState(s)
    PROVE  pipe' \in PipeType
<1> DEFINE now == IF s < pipe.state THEN s
                  ELSE IF pipe.state = NULL /\ s > NULL THEN READY ELSE pipe.state
<1>1. now \in States
  BY DEF States, NULL, READY, PAUSED, PLAYING, PipeType
<1>2. <<>> \in Seq(Messages) /\ 1 \in Rates
  OBVIOUS
<1> QED BY <1>1, <1>2 DEF SetState, PipeType

LEMMA TouchType ==
    ASSUME hist \in HistType, thread \in ThreadType, NEW t \in Threads, Touch(t)
    PROVE  hist' \in HistType
BY DEF HistType, Touch

LEMMA AskType ==
    ASSUME hist \in HistType, pipe \in PipeType, NEW s \in States, Ask(s)
    PROVE  hist' \in HistType /\ pipe' \in PipeType
BY SetStateType DEF HistType, Ask

\* The steps both threads share.
LEMMA SharedType ==
    ASSUME Typed, NEW t \in Threads, SharedStep(t)
    PROVE  Typed'
<1>0. TypesOK
  BY SameTypes
<1>1. /\ pipe \in PipeType /\ hist \in HistType /\ thread \in ThreadType
      /\ speed \in SpeedType
      /\ audio \in AudioType
  BY SameTypes DEF TypesOK, ThreadOK
<1>2. t = "platform" \/ t = "loop"
  BY DEF Threads
<1>3. /\ AfterApply(t) \in {"announce", "idle"}
      /\ t = "platform" => AfterApply(t) \in PlatformSteps
      /\ t = "loop" => AfterApply(t) \in LoopSteps
      /\ CommonSteps \subseteq PlatformSteps /\ CommonSteps \subseteq LoopSteps
  BY <1>2 DEF AfterApply, PlatformSteps, LoopSteps, CommonSteps
<1>4. 0 \in Nat /\ Rates \subseteq Nat /\ States \subseteq Nat /\ READY \in States
  BY DEF States, NULL, READY, PAUSED, PLAYING
<1>5. CASE ApplyRead(t)
  <2>1. Touch(t) /\ hist' \in HistType
    BY <1>1, <1>5, TouchType DEF ApplyRead
  <2>2. CASE speed.pending = speed.rate
    <3>1. GoWith(t, AfterApply(t), 0)
      BY <1>5, <2>2 DEF ApplyRead, Go
    <3>2. ThreadOK'
      BY <3>1, <1>3, <1>4, GoType
    <3> QED BY <3>2, <2>1, <1>5, <1>0, SameTypesNext DEF ApplyRead, TypesOK
  <2>3. CASE speed.pending # speed.rate
    <3>1. GoWith(t, "seek", speed.pending) /\ speed.pending \in Rates
      BY <1>1, <1>5, <2>3 DEF ApplyRead, SpeedType
    <3>2. ThreadOK'
      BY <3>1, <1>3, <1>4, GoType DEF CommonSteps
    <3> QED BY <3>2, <2>1, <1>5, <1>0, SameTypesNext DEF ApplyRead, TypesOK
  <2> QED BY <2>2, <2>3
<1>6. CASE ApplySeek(t)
  <2>1. hist' \in HistType
    BY <1>1, <1>6, TouchType DEF ApplySeek
  <2>2. thread[t].value \in Rates
    BY <1>6 DEF ApplySeek, At, Typed, CarriesItsKind
  <2>3. pipe' \in PipeType
    BY <1>1, <1>6, <2>2 DEF ApplySeek, PipeType
  <2>4. GoWith(t, AfterApply(t), 0) \/ GoWith(t, "store", thread[t].value)
    BY <1>6 DEF ApplySeek, Go
  <2>5. ThreadOK'
    <3>1. CASE GoWith(t, AfterApply(t), 0)
      BY <3>1, <1>3, <1>4, GoType
    <3>2. CASE GoWith(t, "store", thread[t].value)
      BY <3>2, <2>2, <1>3, <1>4, GoType DEF CommonSteps
    <3> QED BY <2>4, <3>1, <3>2
  <2> QED BY <2>1, <2>3, <2>5, <1>6, <1>0, SameTypesNext DEF ApplySeek, TypesOK
<1>7. CASE ApplyStore(t)
  <2>1. hist' \in HistType
    BY <1>1, <1>7, TouchType DEF ApplyStore
  <2>2. thread[t].value \in Rates
    BY <1>7 DEF ApplyStore, At, Typed, CarriesItsKind
  <2>3. ThreadOK'
    <3>1. GoWith(t, AfterApply(t), 0)
      BY <1>7 DEF ApplyStore, Go
    <3> QED BY <3>1, <1>3, <1>4, GoType
  <2>4. speed' \in SpeedType
    BY <1>1, <2>2, <1>7 DEF ApplyStore, SpeedType
  <2> QED BY <2>1, <2>3, <2>4, <1>7, <1>0, SameTypesNext DEF ApplyStore, TypesOK
<1>8. CASE GoReady(t)
  <2>1. hist' \in HistType
    BY <1>1, <1>8, TouchType DEF GoReady
  <2>2. thread[t].value \in States
    BY <1>8 DEF GoReady, At, Typed, CarriesItsKind
  <2>3. pipe' \in PipeType
    BY <1>1, <1>4, <1>8, SetStateType DEF GoReady
  <2>4. ThreadOK'
    <3>1. GoWith(t, "restore", thread[t].value)
      BY <1>8 DEF GoReady
    <3> QED BY <3>1, <2>2, <1>3, <1>4, GoType DEF CommonSteps
  <2> QED BY <2>1, <2>3, <2>4, <1>8, <1>0, SameTypesNext DEF GoReady, TypesOK
<1>9. CASE Restore(t)
  <2>1. thread[t].value \in States
    BY <1>9 DEF Restore, At, Typed, CarriesItsKind
  <2>2. pipe' \in PipeType
    BY <1>1, <1>9, <2>1, SetStateType DEF Restore
  <2>3. hist' \in HistType
    BY <1>1, <1>9 DEF Restore, HistType
  <2>4. audio' \in AudioType
    BY <1>1, <1>9 DEF Restore, NoMonitor, AudioType
  <2>5. ThreadOK'
    <3>1. GoWith(t, "idle", 0)
      BY <1>9 DEF Restore, Go
    <3> QED BY <3>1, <1>3, <1>4, GoType DEF CommonSteps
  <2> QED BY <2>2, <2>3, <2>4, <2>5, <1>9, <1>0, SameTypesNext DEF Restore, TypesOK
<1> QED BY <1>5, <1>6, <1>7, <1>8, <1>9 DEF SharedStep

\* A move to a step that carries nothing.
LEMMA PlainGo ==
    ASSUME Typed, NEW t \in Threads, NEW step, Go(t, step),
           step \notin {"ready", "restore", "seek", "store"},
           t = "platform" => step \in PlatformSteps,
           t = "loop" => step \in LoopSteps
    PROVE  ThreadOK'
<1>1. 0 \in Nat /\ GoWith(t, step, 0)
  BY DEF Go
<1> QED BY <1>1, GoType

\* A call uses up budget.
LEMMA CallType ==
    ASSUME budget \in BudgetType, Call
    PROVE  budget' \in BudgetType
BY DEF Call, BudgetType

\* SendInitialized only changes what has been heard.
LEMMA SendType ==
    ASSUME dart \in DartType, SendInitialized
    PROVE  dart' \in DartType
BY DEF SendInitialized, DartType

\* The start of a round trip.
LEMMA RoundTripType ==
    ASSUME Typed, TypesOK, NEW t \in Threads, RoundTrip(t)
    PROVE  ThreadOK' /\ hist' \in HistType /\ speed' \in SpeedType
<1>1. pipe.state \in States /\ pipe.state \in Nat
  BY DEF TypesOK, PipeType, States, NULL, PLAYING
<1>2. GoWith(t, "ready", pipe.state)
  BY DEF RoundTrip
<1>3. "ready" \in PlatformSteps /\ "ready" \in LoopSteps
  BY DEF PlatformSteps, LoopSteps, CommonSteps
<1>4. ThreadOK'
  BY <1>1, <1>2, <1>3, GoType
<1>5. hist' \in HistType
  BY TouchType DEF RoundTrip, TypesOK, ThreadOK
<1>6. speed' \in SpeedType
  BY DEF RoundTrip, TypesOK, SpeedType
<1> QED BY <1>4, <1>5, <1>6

\* The calls of the application.
LEMMA CallsType ==
    ASSUME Typed, ApplicationCalls
    PROVE  Typed'
<1>0. "platform" \in Threads /\ "loop" \in Threads /\ TypesOK
  BY SameTypes DEF Threads
<1>1. CASE \E looping \in BOOLEAN : SetLooping(looping)
  <2>1. budget' \in BudgetType
    BY <1>1, <1>0, CallType DEF SetLooping, TypesOK
  <2>2. player' \in PlayerType
    BY <1>1, <1>0 DEF SetLooping, TypesOK, PlayerType
  <2> QED BY <2>1, <2>2, <1>1, <1>0, SameTypesNext DEF SetLooping, TypesOK, CarriesItsKind, ThreadOK
<1>2. CASE \E rate \in Rates : SetPlaybackSpeed(rate)
  <2>1. budget' \in BudgetType
    BY <1>2, <1>0, CallType DEF SetPlaybackSpeed, TypesOK
  <2>2. speed' \in SpeedType
    BY <1>2, <1>0 DEF SetPlaybackSpeed, TypesOK, SpeedType
  <2>3. ThreadOK'
    BY <1>2, <1>0, PlainGo DEF SetPlaybackSpeed, PlatformSteps, LoopSteps, CommonSteps
  <2>4. hist' \in HistType
    BY <1>2, <1>0, TouchType DEF SetPlaybackSpeed, TypesOK, ThreadOK
  <2> QED BY <2>1, <2>2, <2>3, <2>4, <1>2, <1>0, SameTypesNext DEF SetPlaybackSpeed, TypesOK
<1>3. CASE Play
  <2>1. budget' \in BudgetType
    BY <1>3, <1>0, CallType DEF Play, TypesOK
  <2>2. player' \in PlayerType
    BY <1>3, <1>0 DEF Play, TypesOK, PlayerType
  <2>3. ThreadOK'
    BY <1>3, <1>0, PlainGo DEF Play, PlatformSteps, LoopSteps, CommonSteps
  <2> QED BY <2>1, <2>2, <2>3, <1>3, <1>0, SameTypesNext DEF Play, TypesOK
<1>4. CASE Pause
  <2>1. budget' \in BudgetType
    BY <1>4, <1>0, CallType DEF Pause, TypesOK
  <2>2. player' \in PlayerType
    BY <1>4, <1>0 DEF Pause, TypesOK, PlayerType
  <2>3. ThreadOK'
    BY <1>4, <1>0, PlainGo DEF Pause, PlatformSteps, LoopSteps, CommonSteps
  <2> QED BY <2>1, <2>2, <2>3, <1>4, <1>0, SameTypesNext DEF Pause, TypesOK
<1>5. CASE SeekTo
  <2>1. budget' \in BudgetType
    BY <1>5, <1>0, CallType DEF SeekTo, TypesOK
  <2>2. pipe' \in PipeType
    BY <1>5, <1>0 DEF SeekTo, TypesOK, PipeType
  <2>3. ThreadOK'
    BY <1>5, <1>0, PlainGo DEF SeekTo, PlatformSteps, LoopSteps, CommonSteps
  <2> QED BY <2>1, <2>2, <2>3, <1>5, <1>0, SameTypesNext DEF SeekTo, TypesOK
<1>6. CASE SetOutputChannels
  <2>1. budget' \in BudgetType
    BY <1>6, <1>0, CallType DEF SetOutputChannels, TypesOK
  <2>2. ThreadOK' /\ hist' \in HistType /\ speed' \in SpeedType
    BY <1>6, <1>0, RoundTripType DEF SetOutputChannels
  <2> QED BY <2>1, <2>2, <1>6, <1>0, SameTypesNext DEF SetOutputChannels, TypesOK
<1>7. CASE SetVideoBalance
  <2>1. budget' \in BudgetType
    BY <1>7, <1>0, CallType DEF SetVideoBalance, TypesOK
  <2>2. player' \in PlayerType
    BY <1>7, <1>0 DEF SetVideoBalance, TypesOK, PlayerType
  <2>3. ThreadOK' /\ hist' \in HistType /\ speed' \in SpeedType
    BY <1>7, <1>0, RoundTripType DEF SetVideoBalance
  <2> QED BY <2>1, <2>2, <2>3, <1>7, <1>0, SameTypesNext DEF SetVideoBalance, TypesOK
<1>8. CASE Listen
  <2>1. budget' \in BudgetType
    BY <1>8, <1>0, CallType DEF Listen, TypesOK
  <2>2. dart' \in DartType
    BY <1>8, <1>0 DEF Listen, TypesOK, DartType
  <2>3. ThreadOK'
    BY <1>8, <1>0, PlainGo DEF Listen, PlatformSteps, LoopSteps, CommonSteps
  <2> QED BY <2>1, <2>2, <2>3, <1>8, <1>0, SameTypesNext DEF Listen, TypesOK
<1>9. CASE Cancel
  <2>1. budget' \in BudgetType
    BY <1>9, <1>0, CallType DEF Cancel, TypesOK
  <2>2. dart' \in DartType
    BY <1>9, <1>0 DEF Cancel, TypesOK, DartType
  <2> QED BY <2>1, <2>2, <1>9, <1>0, SameTypesNext DEF Cancel, TypesOK, CarriesItsKind, ThreadOK
<1>10. CASE Dispose
  <2>1. budget' \in BudgetType
    BY <1>10, <1>0 DEF Dispose, TypesOK, BudgetType
  <2>2. player' \in PlayerType
    BY <1>10, <1>0 DEF Dispose, TypesOK, PlayerType
  <2>3. audio' \in AudioType
    BY <1>10, <1>0 DEF Dispose, TypesOK, AudioType, NoMonitor
  <2>4. ThreadOK'
    BY <1>10, <1>0, PlainGo DEF Dispose, PlatformSteps, LoopSteps, CommonSteps
  <2> QED BY <2>1, <2>2, <2>3, <2>4, <1>10, <1>0, SameTypesNext DEF Dispose, TypesOK
<1> QED BY <1>1, <1>2, <1>3, <1>4, <1>5, <1>6, <1>7, <1>8, <1>9, <1>10 DEF ApplicationCalls

\* The platform thread going on.
LEMMA PlatformType ==
    ASSUME Typed, PlatformGoesOn
    PROVE  Typed'
<1>0. "platform" \in Threads /\ "loop" \in Threads /\ TypesOK
  BY SameTypes DEF Threads
<1>1. CASE PlayOrPauseAsks
  <2>1. hist' \in HistType /\ pipe' \in PipeType
    BY <1>1, <1>0, AskType DEF PlayOrPauseAsks, States, NULL, READY, PAUSED, PLAYING, TypesOK
  <2>2. ThreadOK'
    BY <1>1, <1>0, PlainGo DEF PlayOrPauseAsks, PlatformSteps, LoopSteps, CommonSteps
  <2> QED BY <2>1, <2>2, <1>1, <1>0, SameTypesNext DEF PlayOrPauseAsks, TypesOK
<1>2. CASE SeekInvalidates
  <2>1. speed' \in SpeedType
    BY <1>2, <1>0 DEF SeekInvalidates, TypesOK, SpeedType, Invalidate
  <2>2. hist' \in HistType
    BY <1>2, <1>0, TouchType DEF SeekInvalidates, TypesOK, ThreadOK
  <2>3. ThreadOK'
    BY <1>2, <1>0, PlainGo DEF SeekInvalidates, PlatformSteps, LoopSteps, CommonSteps
  <2> QED BY <2>1, <2>2, <2>3, <1>2, <1>0, SameTypesNext DEF SeekInvalidates, TypesOK
<1>3. CASE Replay
  <2>1. dart' \in DartType
    BY <1>3, <1>0, SendType DEF Replay, ReplayCurrentState, TypesOK
  <2>2. ThreadOK'
    BY <1>3, <1>0, PlainGo DEF Replay, PlatformSteps, LoopSteps, CommonSteps
  <2> QED BY <2>1, <2>2, <1>3, <1>0, SameTypesNext DEF Replay, TypesOK
<1>4. CASE Disconnect
  <2>1. player' \in PlayerType
    BY <1>4, <1>0 DEF Disconnect, TypesOK, PlayerType
  <2>2. pipe' \in PipeType
    <3>1. <<>> \in Seq(Messages)
      OBVIOUS
    <3> QED BY <3>1, <1>4, <1>0 DEF Disconnect, TypesOK, PipeType
  <2>3. budget' \in BudgetType
    BY <1>4, <1>0 DEF Disconnect, TypesOK, BudgetType
  <2>4. ThreadOK'
    BY <1>4, <1>0, PlainGo DEF Disconnect, PlatformSteps, LoopSteps, CommonSteps
  <2> QED BY <2>1, <2>2, <2>3, <2>4, <1>4, <1>0, SameTypesNext DEF Disconnect, TypesOK
<1>5. CASE StopPipeline
  <2>1. hist' \in HistType /\ pipe' \in PipeType
    BY <1>5, <1>0, AskType DEF StopPipeline, States, NULL, READY, PAUSED, PLAYING, TypesOK
  <2>2. ThreadOK'
    BY <1>5, <1>0, PlainGo DEF StopPipeline, PlatformSteps, LoopSteps, CommonSteps
  <2> QED BY <2>1, <2>2, <1>5, <1>0, SameTypesNext DEF StopPipeline, TypesOK
<1>6. CASE DropShaderAndSink
  <2>1. player' \in PlayerType
    BY <1>6, <1>0 DEF DropShaderAndSink, TypesOK, PlayerType
  <2>2. dart' \in DartType
    BY <1>6, <1>0 DEF DropShaderAndSink, TypesOK, DartType
  <2>3. ThreadOK'
    BY <1>6, <1>0, PlainGo DEF DropShaderAndSink, PlatformSteps, LoopSteps, CommonSteps
  <2> QED BY <2>1, <2>2, <2>3, <1>6, <1>0, SameTypesNext DEF DropShaderAndSink, TypesOK
<1>7. CASE SharedStep("platform")
  BY <1>0, <1>7, SharedType
<1> QED BY <1>1, <1>2, <1>3, <1>4, <1>5, <1>6, <1>7 DEF PlatformGoesOn

\* The main loop.
LEMMA LoopType ==
    ASSUME Typed, LoopStep
    PROVE  Typed'
<1>0. "platform" \in Threads /\ "loop" \in Threads /\ TypesOK
  BY SameTypes DEF Threads
<1>1. CASE TakeMessage
  <2>1. Head(pipe.bus) \in Messages /\ Tail(pipe.bus) \in Seq(Messages)
    BY <1>1, <1>0 DEF TakeMessage, TypesOK, PipeType
  <2>2. pipe' \in PipeType
    BY <1>1, <1>0, <2>1 DEF TakeMessage, TypesOK, PipeType
  <2>3. ThreadOK'
    BY <1>1, <1>0, <2>1, PlainGo DEF TakeMessage, Messages, LoopSteps
  <2> QED BY <2>1, <2>2, <2>3, <1>1, <1>0, SameTypesNext DEF TakeMessage, TypesOK
<1>2. CASE Prepare
  <2>1. player' \in PlayerType
    BY <1>2, <1>0 DEF Prepare, TypesOK, PlayerType
  <2>2. ThreadOK'
    BY <1>2, <1>0, PlainGo DEF Prepare, PlatformSteps, LoopSteps, CommonSteps
  <2> QED BY <2>1, <2>2, <1>2, <1>0, SameTypesNext DEF Prepare, TypesOK
<1>3. CASE Announce
  <2>1. dart' \in DartType
    BY <1>3, <1>0, SendType DEF Announce, TypesOK
  <2>2. player' \in PlayerType
    BY <1>3, <1>0 DEF Announce, TypesOK, PlayerType
  <2>3. ThreadOK'
    BY <1>3, <1>0, PlainGo DEF Announce, PlatformSteps, LoopSteps, CommonSteps
  <2> QED BY <2>1, <2>2, <2>3, <1>3, <1>0, SameTypesNext DEF Announce, TypesOK
<1>4. CASE StartAudioMonitor
  <2>1. audio' \in AudioType
    BY <1>4, <1>0 DEF StartAudioMonitor, TypesOK, AudioType
  <2>2. ThreadOK'
    BY <1>4, <1>0, PlainGo DEF StartAudioMonitor, PlatformSteps, LoopSteps, CommonSteps
  <2> QED BY <2>1, <2>2, <1>4, <1>0, SameTypesNext DEF StartAudioMonitor, TypesOK
<1>5. CASE OnAudioUpgrade
  <2>1. audio' \in AudioType
    BY <1>5, <1>0 DEF OnAudioUpgrade, TypesOK, AudioType
  <2>2. ThreadOK' /\ hist' \in HistType /\ speed' \in SpeedType
    BY <1>5, <1>0, RoundTripType DEF OnAudioUpgrade, TypesOK, ThreadOK, CarriesItsKind
  <2> QED BY <2>1, <2>2, <1>5, <1>0, SameTypesNext DEF OnAudioUpgrade, TypesOK
<1>6. CASE OnPlaybackEnded
  <2>1. player' \in PlayerType
    BY <1>6, <1>0 DEF OnPlaybackEnded, TypesOK, PlayerType
  <2>2. speed' \in SpeedType
    BY <1>6, <1>0 DEF OnPlaybackEnded, TypesOK, SpeedType, ForgetRate
  <2>3. hist' \in HistType
    BY <1>6, <1>0, TouchType DEF OnPlaybackEnded, TypesOK, ThreadOK
  <2>4. ThreadOK'
    BY <1>6, <1>0, PlainGo DEF OnPlaybackEnded, PlatformSteps, LoopSteps, CommonSteps
  <2> QED BY <2>1, <2>2, <2>3, <2>4, <1>6, <1>0, SameTypesNext DEF OnPlaybackEnded, TypesOK
<1>7. CASE Restart
  <2>1. hist' \in HistType /\ pipe' \in PipeType
    BY <1>7, <1>0, AskType DEF Restart, States, NULL, READY, PAUSED, PLAYING, TypesOK
  <2>2. ThreadOK'
    BY <1>7, <1>0, PlainGo DEF Restart, PlatformSteps, LoopSteps, CommonSteps
  <2> QED BY <2>1, <2>2, <1>7, <1>0, SameTypesNext DEF Restart, TypesOK
<1>8. CASE BufferingStarts
  <2>1. player' \in PlayerType
    BY <1>8, <1>0 DEF BufferingStarts, TypesOK, PlayerType
  <2>2. ThreadOK'
    BY <1>8, <1>0, PlainGo DEF BufferingStarts, PlatformSteps, LoopSteps, CommonSteps
  <2> QED BY <2>1, <2>2, <1>8, <1>0, SameTypesNext DEF BufferingStarts, TypesOK
<1>9. CASE BufferingEnds
  <2>1. player' \in PlayerType
    BY <1>9, <1>0 DEF BufferingEnds, TypesOK, PlayerType
  <2>2. ThreadOK'
    BY <1>9, <1>0, PlainGo DEF BufferingEnds, PlatformSteps, LoopSteps, CommonSteps, AfterBuffering
  <2> QED BY <2>1, <2>2, <1>9, <1>0, SameTypesNext DEF BufferingEnds, TypesOK
<1>10. CASE HoldOrResume
  <2>1. hist' \in HistType /\ pipe' \in PipeType
    BY <1>10, <1>0, AskType DEF HoldOrResume, States, NULL, READY, PAUSED, PLAYING, TypesOK
  <2>2. ThreadOK'
    BY <1>10, <1>0, PlainGo DEF HoldOrResume, PlatformSteps, LoopSteps, CommonSteps
  <2> QED BY <2>1, <2>2, <1>10, <1>0, SameTypesNext DEF HoldOrResume, TypesOK
<1>11. CASE SharedStep("loop")
  BY <1>0, <1>11, SharedType
<1> QED BY <1>1, <1>2, <1>3, <1>4, <1>5, <1>6, <1>7, <1>8, <1>9, <1>10, <1>11 DEF LoopStep

\* GStreamer and the system.
LEMMA OthersType ==
    ASSUME Typed, OnUdevEvent \/ Frame \/ Draw \/ SendFirst \/ PipelineStep
    PROVE  Typed'
<1>0. "platform" \in Threads /\ "loop" \in Threads /\ TypesOK
  BY SameTypes DEF Threads
<1>1. CASE OnUdevEvent
  <2>1. audio' \in AudioType
    BY <1>1, <1>0 DEF OnUdevEvent, TypesOK, AudioType
  <2>2. budget' \in BudgetType
    BY <1>1, <1>0 DEF OnUdevEvent, TypesOK, BudgetType
  <2> QED BY <2>1, <2>2, <1>1, <1>0, SameTypesNext DEF OnUdevEvent, TypesOK, CarriesItsKind, ThreadOK
<1>2. CASE Frame
  <2> QED BY <1>2, <1>0, SameTypesNext DEF Frame, TypesOK, CarriesItsKind, ThreadOK
<1>3. CASE Draw
  <2>1. player' \in PlayerType
    BY <1>3, <1>0 DEF Draw, TypesOK, PlayerType
  <2> QED BY <2>1, <1>3, <1>0, SameTypesNext DEF Draw, TypesOK, CarriesItsKind, ThreadOK
<1>4. CASE SendFirst
  <2>1. dart' \in DartType
    BY <1>4, <1>0, SendType DEF SendFirst, TypesOK
  <2> QED BY <2>1, <1>4, <1>0, SameTypesNext DEF SendFirst, TypesOK, CarriesItsKind, ThreadOK
<1>5. CASE Advance
  <2>1. pipe.state + 1 \in States
    BY <1>5, <1>0 DEF Advance, TypesOK, PipeType, States, NULL, READY, PLAYING
  <2>2. Append(pipe.bus, "playing") \in Seq(Messages)
    BY <1>5, <1>0 DEF TypesOK, PipeType, Messages
  <2>3. pipe' \in PipeType
    BY <1>5, <1>0, <2>1, <2>2 DEF Advance, TypesOK, PipeType
  <2> QED BY <2>1, <2>2, <2>3, <1>5, <1>0, SameTypesNext DEF Advance, TypesOK, CarriesItsKind, ThreadOK
<1>6. CASE \E message \in Messages : Post(message)
  <2>1. PICK message \in Messages : Post(message)
    BY <1>6, <1>0
  <2>2. Append(pipe.bus, message) \in Seq(Messages)
    BY <1>6, <1>0, <2>1 DEF TypesOK, PipeType
  <2>3. pipe' \in PipeType
    BY <1>0, <2>1, <2>2 DEF Post, TypesOK, PipeType
  <2>4. budget' \in BudgetType
    BY <1>0, <2>1 DEF Post, TypesOK, BudgetType
  <2> QED BY <2>1, <2>2, <2>3, <2>4, <1>6, <1>0, SameTypesNext DEF Post, TypesOK, CarriesItsKind, ThreadOK
<1> QED BY <1>1, <1>2, <1>3, <1>4, <1>5, <1>6 DEF PipelineStep, Messages

LEMMA TypedInit == Init => Typed
<1> SUFFICES ASSUME Init PROVE Typed
  OBVIOUS
<1>1. PICK m \in Media : /\ has_video = m.video
                         /\ audio = [bin |-> m.bin, upgraded |-> m.bin,
                                     monitor |-> FALSE, idle |-> FALSE]
  BY DEF Init
<1>2. m.video \in BOOLEAN /\ m.bin \in BOOLEAN
  BY <1>1
<1>3. <<>> \in Seq(Messages) /\ NULL \in States /\ 0 \in Nat
  BY DEF States, NULL, PLAYING
<1> QED BY <1>1, <1>2, <1>3
        DEF Init, Typed, TypeOK, CarriesItsKind, Threads, PlatformSteps, LoopSteps,
            CommonSteps, PAUSED, PLAYING

LEMMA TypedStep == Typed /\ [Next]_vars => Typed'
<1> SUFFICES ASSUME Typed, [Next]_vars PROVE Typed'
  OBVIOUS
<1>1. CASE UNCHANGED vars
  BY <1>1 DEF vars, Typed, TypeOK, CarriesItsKind
<1>2. CASE Next
  BY <1>2, CallsType, PlatformType, LoopType, OthersType DEF Next
<1> QED BY <1>1, <1>2

\* Every variable keeps its type; in particular only rates reach the pipeline
\* as rates and states as states, although one local carries both.
THEOREM TypeCorrect == Spec => []TypeOK
<1>1. Typed => TypeOK
  BY DEF Typed
<1> QED BY TypedInit, TypedStep, <1>1, PTL DEF Spec

------------------------------------------------------------------------------
\* What a move changes.
LEMMA GoEffect ==
    ASSUME TypesOK, NEW t \in Threads, NEW step, NEW v, GoWith(t, step, v)
    PROVE  /\ thread'[t].at = step
           /\ \A u \in Threads : u # t => thread'[u] = thread[u]
BY DEF GoWith, TypesOK, ThreadOK, ThreadType

\* The steps both threads share: only the main loop's are among the prepared.
LEMMA SharedKeepsHeard ==
    ASSUME TypesOK, IInv, NEW t \in Threads, SharedStep(t)
    PROVE  IInv'
<1>1. /\ t = "loop" => thread'["platform"] = thread["platform"]
      /\ t = "platform" => thread'["loop"] = thread["loop"]
      /\ thread'[t].at \in {"seek", "store", "restore", "idle", AfterApply(t)}
      /\ thread[t].at \in {"ready", "restore"} => thread'[t].at \in {"restore", "idle"}
      /\ thread[t].at \in {"apply", "seek", "store", "ready", "restore"}
  <2>1. PICK step, v : GoWith(t, step, v) /\ step \in {"seek", "store", "restore", "idle", AfterApply(t)}
            /\ (thread[t].at \in {"ready", "restore"} => step \in {"restore", "idle"})
    BY DEF SharedStep, ApplyRead, ApplySeek, ApplyStore, GoReady, Restore, Go, At
  <2>2. thread[t].at \in {"apply", "seek", "store", "ready", "restore"}
    BY DEF SharedStep, ApplyRead, ApplySeek, ApplyStore, GoReady, Restore, At
  <2> QED BY <2>1, <2>2, GoEffect DEF Threads
<1>2. UNCHANGED <<player, dart, stream>>
  BY DEF SharedStep, ApplyRead, ApplySeek, ApplyStore, GoReady, Restore
<1>3. t = "platform" \/ t = "loop"
  BY DEF Threads
<1>4. CASE t = "platform"
  BY <1>1, <1>2, <1>4 DEF IInv, InitializedFirst, ReplayHasListener, StillToHear, AfterApply
<1>5. CASE t = "loop"
  BY <1>1, <1>2, <1>5
     DEF IInv, InitializedFirst, ReplayHasListener, StillToHear, AfterApply, Prepared
<1> QED BY <1>3, <1>4, <1>5

\* The calls of the application.
LEMMA CallsKeepHeard ==
    ASSUME TypesOK, IInv, ApplicationCalls
    PROVE  IInv'
<1>0. "platform" \in Threads /\ "loop" \in Threads /\ "platform" # "loop"
  BY DEF Threads
<1>1. CASE \E looping \in BOOLEAN : SetLooping(looping)
  <2>1. /\ player'.valid = player.valid
        /\ player'.initialized = player.initialized
        /\ player'.sent = player.sent
        /\ player'.prepared = player.prepared
    BY <1>1, <1>0 DEF SetLooping, TypesOK, PlayerType
  <2> QED BY <2>1, <1>1, <1>0 DEF SetLooping, IInv, InitializedFirst, ReplayHasListener, StillToHear, Prepared, Go, At, Call
<1>2. CASE \E rate \in Rates : SetPlaybackSpeed(rate)
  <2>1. /\ thread'["platform"].at \in {"idle", "apply"}
        /\ thread'["loop"] = thread["loop"]
    BY <1>2, <1>0, GoEffect DEF SetPlaybackSpeed, Go
  <2> QED BY <2>1, <1>2, <1>0 DEF SetPlaybackSpeed, IInv, InitializedFirst, ReplayHasListener, StillToHear, Prepared, Go, At, Call
<1>3. CASE Play
  <2>1. /\ player'.valid = player.valid
        /\ player'.initialized = player.initialized
        /\ player'.sent = player.sent
        /\ player'.prepared = player.prepared
    BY <1>3, <1>0 DEF Play, TypesOK, PlayerType
  <2>2. /\ thread'["platform"].at = "play"
        /\ thread'["loop"] = thread["loop"]
    BY <1>3, <1>0, GoEffect DEF Play, Go
  <2> QED BY <2>1, <2>2, <1>3, <1>0 DEF Play, IInv, InitializedFirst, ReplayHasListener, StillToHear, Prepared, Go, At, Call
<1>4. CASE Pause
  <2>1. /\ player'.valid = player.valid
        /\ player'.initialized = player.initialized
        /\ player'.sent = player.sent
        /\ player'.prepared = player.prepared
    BY <1>4, <1>0 DEF Pause, TypesOK, PlayerType
  <2>2. /\ thread'["platform"].at = "pause"
        /\ thread'["loop"] = thread["loop"]
    BY <1>4, <1>0, GoEffect DEF Pause, Go
  <2> QED BY <2>1, <2>2, <1>4, <1>0 DEF Pause, IInv, InitializedFirst, ReplayHasListener, StillToHear, Prepared, Go, At, Call
<1>5. CASE SeekTo
  <2>1. /\ thread'["platform"].at \in {"idle", "invalidate"}
        /\ thread'["loop"] = thread["loop"]
    BY <1>5, <1>0, GoEffect DEF SeekTo, Go
  <2> QED BY <2>1, <1>5, <1>0 DEF SeekTo, IInv, InitializedFirst, ReplayHasListener, StillToHear, Prepared, Go, At, Call
<1>6. CASE SetOutputChannels
  <2>1. /\ thread'["platform"].at = "ready"
        /\ thread'["loop"] = thread["loop"]
    BY <1>6, <1>0, GoEffect DEF SetOutputChannels, Go, RoundTrip
  <2> QED BY <2>1, <1>6, <1>0 DEF SetOutputChannels, IInv, InitializedFirst, ReplayHasListener, StillToHear, Prepared, Go, At, Call
<1>7. CASE SetVideoBalance
  <2>1. /\ player'.valid = player.valid
        /\ player'.initialized = player.initialized
        /\ player'.sent = player.sent
        /\ player'.prepared = player.prepared
    BY <1>7, <1>0 DEF SetVideoBalance, TypesOK, PlayerType
  <2>2. /\ thread'["platform"].at = "ready"
        /\ thread'["loop"] = thread["loop"]
    BY <1>7, <1>0, GoEffect DEF SetVideoBalance, Go, RoundTrip
  <2> QED BY <2>1, <2>2, <1>7, <1>0 DEF SetVideoBalance, IInv, InitializedFirst, ReplayHasListener, StillToHear, Prepared, Go, At, Call
<1>8. CASE Listen
  <2>1. /\ thread'["platform"].at = "replay"
        /\ thread'["loop"] = thread["loop"]
    BY <1>8, <1>0, GoEffect DEF Listen, Go
  <2>2. dart'.listening
    BY <1>8, <1>0 DEF Listen
  <2> QED BY <2>1, <2>2, <1>8, <1>0 DEF Listen, IInv, InitializedFirst, ReplayHasListener, StillToHear, Prepared, Go, At, Call
<1>9. CASE Cancel
  <2>1. ~dart'.listening
    BY <1>9, <1>0 DEF Cancel, TypesOK, DartType
  <2> QED BY <2>1, <1>9, <1>0 DEF Cancel, IInv, InitializedFirst, ReplayHasListener, StillToHear, Prepared, Go, At, Call
<1>10. CASE Dispose
  <2>1. /\ thread'["platform"].at = "disconnect"
        /\ thread'["loop"] = thread["loop"]
    BY <1>10, <1>0, GoEffect DEF Dispose, Go
  <2>2. ~player'.valid
    BY <1>10, <1>0 DEF Dispose, TypesOK, PlayerType
  <2> QED BY <2>1, <2>2, <1>10, <1>0 DEF Dispose, IInv, InitializedFirst, ReplayHasListener, StillToHear, Prepared, Go, At, Call
<1> QED BY <1>1, <1>2, <1>3, <1>4, <1>5, <1>6, <1>7, <1>8, <1>9, <1>10 DEF ApplicationCalls

\* The platform thread going on.
LEMMA PlatformKeepsHeard ==
    ASSUME TypesOK, IInv, PlatformGoesOn
    PROVE  IInv'
<1>0. "platform" \in Threads /\ "loop" \in Threads /\ "platform" # "loop"
  BY DEF Threads
<1>1. CASE PlayOrPauseAsks
  <2>1. /\ thread'["platform"].at = "idle"
        /\ thread'["loop"] = thread["loop"]
    BY <1>1, <1>0, GoEffect DEF PlayOrPauseAsks, Go
  <2> QED BY <2>1, <1>1, <1>0 DEF PlayOrPauseAsks, IInv, InitializedFirst, ReplayHasListener, StillToHear, Prepared, Go, At, Call
<1>2. CASE SeekInvalidates
  <2>1. /\ thread'["platform"].at = "apply"
        /\ thread'["loop"] = thread["loop"]
    BY <1>2, <1>0, GoEffect DEF SeekInvalidates, Go
  <2> QED BY <2>1, <1>2, <1>0 DEF SeekInvalidates, IInv, InitializedFirst, ReplayHasListener, StillToHear, Prepared, Go, At, Call
<1>3. CASE Replay
  <2>1. /\ thread'["platform"].at = "idle"
        /\ thread'["loop"] = thread["loop"]
    BY <1>3, <1>0, GoEffect DEF Replay, Go
  <2>2. /\ dart'.listening = dart.listening
        /\ player.initialized /\ dart.listening => dart'.heard
        /\ dart.heard => dart'.heard
    BY <1>3, <1>0 DEF Replay, ReplayCurrentState, SendInitialized, TypesOK, DartType
  <2> QED BY <2>1, <2>2, <1>3, <1>0 DEF Replay, IInv, InitializedFirst, ReplayHasListener, StillToHear, Prepared, Go, At, Call
<1>4. CASE Disconnect
  <2>1. /\ player'.valid = player.valid
        /\ player'.initialized = player.initialized
        /\ player'.sent = player.sent
        /\ player'.prepared = player.prepared
    BY <1>4, <1>0 DEF Disconnect, TypesOK, PlayerType
  <2>2. /\ thread'["platform"].at = "stop"
        /\ thread'["loop"] = thread["loop"]
    BY <1>4, <1>0, GoEffect DEF Disconnect, Go
  <2> QED BY <2>1, <2>2, <1>4, <1>0 DEF Disconnect, IInv, InitializedFirst, ReplayHasListener, StillToHear, Prepared, Go, At, Call
<1>5. CASE StopPipeline
  <2>1. /\ thread'["platform"].at = "shader"
        /\ thread'["loop"] = thread["loop"]
    BY <1>5, <1>0, GoEffect DEF StopPipeline, Go
  <2> QED BY <2>1, <1>5, <1>0 DEF StopPipeline, IInv, InitializedFirst, ReplayHasListener, StillToHear, Prepared, Go, At, Call
<1>6. CASE DropShaderAndSink
  <2>1. /\ thread'["platform"].at = "gone"
        /\ thread'["loop"] = thread["loop"]
    BY <1>6, <1>0, GoEffect DEF DropShaderAndSink, Go
  <2>2. /\ ~dart'.listening
        /\ ~player'.prepared
    BY <1>6, <1>0 DEF DropShaderAndSink, TypesOK, DartType, PlayerType
  <2>3. /\ player'.valid = player.valid
        /\ player'.initialized = player.initialized
        /\ player'.sent = player.sent
    BY <1>6, <1>0 DEF DropShaderAndSink, TypesOK, PlayerType
  <2> QED BY <2>1, <2>2, <2>3, <1>6, <1>0 DEF DropShaderAndSink, IInv, InitializedFirst, ReplayHasListener, StillToHear, Prepared, Go, At, Call
<1>7. CASE SharedStep("platform")
  BY <1>0, <1>7, SharedKeepsHeard
<1> QED BY <1>1, <1>2, <1>3, <1>4, <1>5, <1>6, <1>7 DEF PlatformGoesOn

\* The main loop.
LEMMA LoopKeepsHeard ==
    ASSUME TypesOK, IInv, LoopStep
    PROVE  IInv'
<1>0. "platform" \in Threads /\ "loop" \in Threads /\ "platform" # "loop"
  BY DEF Threads
<1>1. CASE TakeMessage
  <2>1. Head(pipe.bus) \in Messages
    BY <1>1, <1>0 DEF TakeMessage, TypesOK, PipeType
  <2>2. /\ thread'["loop"].at \in Messages
        /\ thread'["platform"] = thread["platform"]
    BY <1>1, <1>0, <2>1, GoEffect DEF TakeMessage, Go
  <2>3. Messages \cap Prepared = {}
    BY DEF Messages, Prepared
  <2> QED BY <2>1, <2>2, <2>3, <1>1, <1>0 DEF TakeMessage, IInv, InitializedFirst, ReplayHasListener, StillToHear, Prepared, Go, At, Call
<1>2. CASE Prepare
  <2>1. /\ thread'["loop"].at = "apply"
        /\ thread'["platform"] = thread["platform"]
    BY <1>2, <1>0, GoEffect DEF Prepare, Go
  <2>2. /\ player'.initialized
        /\ player'.valid = player.valid
        /\ player'.sent = player.sent
    BY <1>2, <1>0 DEF Prepare, TypesOK, PlayerType
  <2> QED BY <2>1, <2>2, <1>2, <1>0 DEF Prepare, IInv, InitializedFirst, ReplayHasListener, StillToHear, Prepared, Go, At, Call
<1>3. CASE Announce
  <2>1. /\ thread'["loop"].at \in {"idle", "monitor"}
        /\ thread'["platform"] = thread["platform"]
    BY <1>3, <1>0, GoEffect DEF Announce, Go
  <2>2. /\ player'.valid = player.valid
        /\ player'.initialized = player.initialized
        /\ player'.prepared = player.prepared
    BY <1>3, <1>0 DEF Announce, TypesOK, PlayerType
  <2>3. /\ dart'.listening = dart.listening
        /\ dart.heard => dart'.heard
        /\ player'.sent /\ ~player.sent /\ dart.listening => dart'.heard
    BY <1>3, <1>0 DEF Announce, SendInitialized, TypesOK, PlayerType, DartType
  <2> QED BY <2>1, <2>2, <2>3, <1>3, <1>0 DEF Announce, IInv, InitializedFirst, ReplayHasListener, StillToHear, Prepared, Go, At, Call
<1>4. CASE StartAudioMonitor
  <2>1. /\ thread'["loop"].at = "idle"
        /\ thread'["platform"] = thread["platform"]
    BY <1>4, <1>0, GoEffect DEF StartAudioMonitor, Go
  <2> QED BY <2>1, <1>4, <1>0 DEF StartAudioMonitor, IInv, InitializedFirst, ReplayHasListener, StillToHear, Prepared, Go, At, Call
<1>5. CASE OnAudioUpgrade
  <2>1. /\ thread'["loop"].at \in {"idle", "ready"}
        /\ thread'["platform"] = thread["platform"]
    BY <1>5, <1>0, GoEffect DEF OnAudioUpgrade, RoundTrip, At
  <2> QED BY <2>1, <1>5, <1>0 DEF OnAudioUpgrade, IInv, InitializedFirst, ReplayHasListener, StillToHear, Prepared, Go, At, Call
<1>6. CASE OnPlaybackEnded
  <2>1. /\ thread'["loop"].at \in {"idle", "restart"}
        /\ thread'["platform"] = thread["platform"]
    BY <1>6, <1>0, GoEffect DEF OnPlaybackEnded, Go
  <2>2. /\ player'.valid = player.valid
        /\ player'.initialized = player.initialized
        /\ player'.sent = player.sent
        /\ player'.prepared = player.prepared
    BY <1>6, <1>0 DEF OnPlaybackEnded, TypesOK, PlayerType
  <2> QED BY <2>1, <2>2, <1>6, <1>0 DEF OnPlaybackEnded, IInv, InitializedFirst, ReplayHasListener, StillToHear, Prepared, Go, At, Call
<1>7. CASE Restart
  <2>1. /\ thread'["loop"].at = "resume"
        /\ thread'["platform"] = thread["platform"]
    BY <1>7, <1>0, GoEffect DEF Restart, Go
  <2> QED BY <2>1, <1>7, <1>0 DEF Restart, IInv, InitializedFirst, ReplayHasListener, StillToHear, Prepared, Go, At, Call
<1>8. CASE BufferingStarts
  <2>1. /\ thread'["loop"].at \in {"idle", "hold"}
        /\ thread'["platform"] = thread["platform"]
    BY <1>8, <1>0, GoEffect DEF BufferingStarts, Go
  <2>2. /\ player'.valid = player.valid
        /\ player'.initialized = player.initialized
        /\ player'.sent = player.sent
        /\ player'.prepared = player.prepared
    BY <1>8, <1>0 DEF BufferingStarts, TypesOK, PlayerType
  <2> QED BY <2>1, <2>2, <1>8, <1>0 DEF BufferingStarts, IInv, InitializedFirst, ReplayHasListener, StillToHear, Prepared, Go, At, Call
<1>9. CASE BufferingEnds
  <2>1. /\ thread'["loop"].at \in {"idle", "resume"}
        /\ thread'["platform"] = thread["platform"]
    BY <1>9, <1>0, GoEffect DEF BufferingEnds, Go, AfterBuffering
  <2>2. /\ player'.valid = player.valid
        /\ player'.initialized = player.initialized
        /\ player'.sent = player.sent
        /\ player'.prepared = player.prepared
    BY <1>9, <1>0 DEF BufferingEnds, TypesOK, PlayerType
  <2> QED BY <2>1, <2>2, <1>9, <1>0 DEF BufferingEnds, IInv, InitializedFirst, ReplayHasListener, StillToHear, Prepared, Go, At, Call
<1>10. CASE HoldOrResume
  <2>1. /\ thread'["loop"].at = "idle"
        /\ thread'["platform"] = thread["platform"]
    BY <1>10, <1>0, GoEffect DEF HoldOrResume, Go
  <2> QED BY <2>1, <1>10, <1>0 DEF HoldOrResume, IInv, InitializedFirst, ReplayHasListener, StillToHear, Prepared, Go, At, Call
<1>11. CASE SharedStep("loop")
  BY <1>0, <1>11, SharedKeepsHeard
<1> QED BY <1>1, <1>2, <1>3, <1>4, <1>5, <1>6, <1>7, <1>8, <1>9, <1>10, <1>11 DEF LoopStep

\* GStreamer and the streaming thread.
LEMMA OthersKeepHeard ==
    ASSUME TypesOK, IInv, OnUdevEvent \/ Frame \/ Draw \/ SendFirst \/ PipelineStep
    PROVE  IInv'
<1>0. "platform" \in Threads /\ "loop" \in Threads /\ "platform" # "loop"
  BY DEF Threads
<1>1. CASE OnUdevEvent
  <2> QED BY <1>1, <1>0 DEF OnUdevEvent, IInv, InitializedFirst, ReplayHasListener, StillToHear, Prepared, Go, At, Call
<1>2. CASE Frame
  <2> QED BY <1>2, <1>0 DEF Frame, IInv, InitializedFirst, ReplayHasListener, StillToHear, Prepared, Go, At, Call
<1>3. CASE Draw
  <2>1. /\ player'.valid = player.valid
        /\ player'.initialized = player.initialized
        /\ player'.prepared = player.prepared
    BY <1>3, <1>0 DEF Draw, TypesOK, PlayerType
  <2>2. player'.sent => player.sent \/ (stream' = "sending" /\ player.prepared)
    BY <1>3, <1>0 DEF Draw, TypesOK, PlayerType
  <2> QED BY <2>1, <2>2, <1>3, <1>0 DEF Draw, IInv, InitializedFirst, ReplayHasListener, StillToHear, Prepared, Go, At, Call
<1>4. CASE SendFirst
  <2>1. /\ dart'.listening = dart.listening
        /\ dart.listening => dart'.heard
    BY <1>4, <1>0 DEF SendFirst, SendInitialized, TypesOK, DartType
  <2> QED BY <2>1, <1>4, <1>0 DEF SendFirst, IInv, InitializedFirst, ReplayHasListener, StillToHear, Prepared, Go, At, Call
<1>5. CASE Advance
  <2> QED BY <1>5, <1>0 DEF Advance, IInv, InitializedFirst, ReplayHasListener, StillToHear, Prepared, Go, At, Call
<1>6. CASE \E message \in Messages : Post(message)
  <2> QED BY <1>6, <1>0 DEF Post, IInv, InitializedFirst, ReplayHasListener, StillToHear, Prepared, Go, At, Call
<1> QED BY <1>1, <1>2, <1>3, <1>4, <1>5, <1>6 DEF PipelineStep, Messages

LEMMA HeardInit == Init => IInv
BY DEF Init, IInv, InitializedFirst, ReplayHasListener, StillToHear, Prepared, Threads

LEMMA HeardStep == Typed /\ IInv /\ [Next]_vars => IInv'
<1> SUFFICES ASSUME TypesOK, IInv, [Next]_vars PROVE IInv'
  BY SameTypes
<1>1. CASE UNCHANGED vars
  BY <1>1 DEF vars, IInv, InitializedFirst, ReplayHasListener, StillToHear
<1>2. CASE Next
  BY <1>2, CallsKeepHeard, PlatformKeepsHeard, LoopKeepsHeard, OthersKeepHeard DEF Next
<1> QED BY <1>1, <1>2

\* Whichever of listen, play and the first frame comes first, and however often
\* the application listens and cancels: once all is quiet, a listener of a player
\* that has announced itself has heard of it.
THEOREM ListenerHears == Spec => []InitializedHeard
<1>1. IInv => InitializedHeard
  <2> SUFFICES ASSUME IInv, Quiet, stream # "sending", player.sent, dart.listening
               PROVE  dart.heard
    BY DEF InitializedHeard
  <2>1. thread["platform"].at = "idle" /\ player.valid
    BY DEF Quiet, Threads
  <2> QED BY <2>1 DEF IInv, StillToHear
<1> QED BY TypedInit, TypedStep, HeardInit, HeardStep, <1>1, PTL DEF Spec

------------------------------------------------------------------------------
\* Why play holds: the pipeline wants what was asked last, except within a round
\* trip, and whoever leaves the player playing and not buffering has asked for
\* PLAYING or is about to.
WantIsAsked ==
    (~hist.misread /\ \A t \in Threads : thread[t].at # "restore")
        => pipe.want = hist.asked

PlayAsked ==
    (player.valid /\ player.target = PLAYING /\ ~player.buffering)
        => \/ hist.asked = PLAYING
           \/ thread["platform"].at = "play"
           \/ thread["loop"].at \in {"restart", "resume"}

StepsFit ==
    /\ thread["platform"].at = "pause" => player.target = PAUSED
    /\ thread["platform"].at \in {"disconnect", "stop"} => ~player.valid
    /\ thread["loop"].at = "hold" => player.buffering

PlayInv == WantIsAsked /\ PlayAsked /\ StepsFit

\* A state set for its own sake.
LEMMA AskEffect ==
    ASSUME TypesOK, NEW s, Ask(s)
    PROVE  /\ pipe'.want = s /\ hist'.asked = s
           /\ hist'.misread = hist.misread
BY DEF Ask, SetState, TypesOK, PipeType, HistType

\* Touch only notes races.
LEMMA TouchEffect ==
    ASSUME TypesOK, NEW t, Touch(t)
    PROVE  hist'.asked = hist.asked /\ hist'.misread = hist.misread
BY DEF Touch, TypesOK, HistType

\* The steps both threads share: a restored state that is not the one asked for
\* is noted.
LEMMA SharedKeepsPlay ==
    ASSUME TypesOK, PlayInv, NEW t \in Threads, SharedStep(t)
    PROVE  PlayInv'
<1>0. t = "platform" \/ t = "loop"
  BY DEF Threads
<1>1. /\ \A u \in Threads : u # t => thread'[u] = thread[u]
      /\ thread'[t].at \in {"seek", "store", "restore", "idle", "announce"}
      /\ thread[t].at \in {"apply", "seek", "store", "ready", "restore"}
  <2>1. PICK step, v : /\ GoWith(t, step, v)
                       /\ step \in {"seek", "store", "restore", "idle", "announce"}
    BY DEF SharedStep, ApplyRead, ApplySeek, ApplyStore, GoReady, Restore, Go, AfterApply
  <2>2. thread[t].at \in {"apply", "seek", "store", "ready", "restore"}
    BY DEF SharedStep, ApplyRead, ApplySeek, ApplyStore, GoReady, Restore, At
  <2> QED BY <2>1, <2>2, GoEffect
<1>2. UNCHANGED player
  BY DEF SharedStep, ApplyRead, ApplySeek, ApplyStore, GoReady, Restore
<1>3. hist'.asked = hist.asked
  BY TouchEffect DEF SharedStep, ApplyRead, ApplySeek, ApplyStore, GoReady, Restore,
                     TypesOK, HistType
<1>4. PlayAsked' /\ StepsFit'
  BY <1>0, <1>1, <1>2, <1>3 DEF PlayInv, PlayAsked, StepsFit, Threads
<1>5. WantIsAsked'
  <2>1. CASE ApplyRead(t) \/ ApplySeek(t) \/ ApplyStore(t)
    <3>1. pipe'.want = pipe.want /\ hist'.misread = hist.misread
      BY <2>1, TouchEffect DEF ApplyRead, ApplySeek, ApplyStore, TypesOK, PipeType
    <3>2. thread[t].at # "restore"
      BY <2>1 DEF ApplyRead, ApplySeek, ApplyStore, At
    <3> QED BY <3>1, <3>2, <1>1, <1>3 DEF PlayInv, WantIsAsked
  <2>2. CASE GoReady(t)
    <3>1. thread'[t].at = "restore"
      BY <2>2, GoEffect DEF GoReady
    <3> QED BY <3>1 DEF WantIsAsked
  <2>3. CASE Restore(t)
    <3>1. /\ pipe'.want = thread[t].value
          /\ ~hist'.misread => thread[t].value = hist.asked
      BY <2>3 DEF Restore, SetState, TypesOK, PipeType, HistType
    <3> QED BY <3>1, <1>3 DEF WantIsAsked
  <2> QED BY <2>1, <2>2, <2>3 DEF SharedStep
<1> QED BY <1>4, <1>5 DEF PlayInv

\* The calls of the application.
LEMMA CallsKeepPlay ==
    ASSUME TypesOK, PlayInv, ApplicationCalls
    PROVE  PlayInv'
<1>0. /\ "platform" \in Threads /\ "loop" \in Threads /\ "platform" # "loop"
      /\ PLAYING # PAUSED
  BY DEF Threads, PLAYING, PAUSED
<1>1. CASE \E looping \in BOOLEAN : SetLooping(looping)
  <2>1. /\ player'.valid = player.valid
        /\ player'.target = player.target
        /\ player'.buffering = player.buffering
    BY <1>1, <1>0 DEF SetLooping, TypesOK, PlayerType
  <2> QED BY <2>1, <1>1, <1>0 DEF SetLooping, PlayInv, WantIsAsked, PlayAsked, StepsFit, Go, At, Call, Threads
<1>2. CASE \E rate \in Rates : SetPlaybackSpeed(rate)
  <2>1. /\ thread'["platform"].at \in {"idle", "apply"}
        /\ thread'["loop"] = thread["loop"]
    BY <1>2, <1>0, GoEffect DEF SetPlaybackSpeed, Go
  <2>2. hist'.asked = hist.asked /\ hist'.misread = hist.misread
    BY <1>2, <1>0, TouchEffect DEF SetPlaybackSpeed
  <2> QED BY <2>1, <2>2, <1>2, <1>0 DEF SetPlaybackSpeed, PlayInv, WantIsAsked, PlayAsked, StepsFit, Go, At, Call, Threads
<1>3. CASE Play
  <2>1. /\ thread'["platform"].at = "play"
        /\ thread'["loop"] = thread["loop"]
    BY <1>3, <1>0, GoEffect DEF Play, Go
  <2> QED BY <2>1, <1>3, <1>0 DEF Play, PlayInv, WantIsAsked, PlayAsked, StepsFit, Go, At, Call, Threads
<1>4. CASE Pause
  <2>1. /\ player'.valid = player.valid
        /\ player'.buffering = player.buffering
        /\ player'.target = PAUSED
    BY <1>4, <1>0 DEF Pause, TypesOK, PlayerType
  <2>2. /\ thread'["platform"].at = "pause"
        /\ thread'["loop"] = thread["loop"]
    BY <1>4, <1>0, GoEffect DEF Pause, Go
  <2> QED BY <2>1, <2>2, <1>4, <1>0 DEF Pause, PlayInv, WantIsAsked, PlayAsked, StepsFit, Go, At, Call, Threads
<1>5. CASE SeekTo
  <2>1. pipe'.want = pipe.want
    BY <1>5, <1>0 DEF SeekTo, TypesOK, PipeType
  <2>2. /\ thread'["platform"].at \in {"idle", "invalidate"}
        /\ thread'["loop"] = thread["loop"]
    BY <1>5, <1>0, GoEffect DEF SeekTo, Go
  <2> QED BY <2>1, <2>2, <1>5, <1>0 DEF SeekTo, PlayInv, WantIsAsked, PlayAsked, StepsFit, Go, At, Call, Threads
<1>6. CASE SetOutputChannels
  <2>1. hist'.asked = hist.asked /\ hist'.misread = hist.misread
    BY <1>6, <1>0, TouchEffect DEF SetOutputChannels, RoundTrip
  <2>2. /\ thread'["platform"].at = "ready"
        /\ thread'["loop"] = thread["loop"]
    BY <1>6, <1>0, GoEffect DEF SetOutputChannels, Go, RoundTrip
  <2> QED BY <2>1, <2>2, <1>6, <1>0 DEF SetOutputChannels, PlayInv, WantIsAsked, PlayAsked, StepsFit, Go, At, Call, Threads
<1>7. CASE SetVideoBalance
  <2>1. hist'.asked = hist.asked /\ hist'.misread = hist.misread
    BY <1>7, <1>0, TouchEffect DEF SetVideoBalance, RoundTrip
  <2>2. /\ player'.valid = player.valid
        /\ player'.target = player.target
        /\ player'.buffering = player.buffering
    BY <1>7, <1>0 DEF SetVideoBalance, TypesOK, PlayerType
  <2>3. /\ thread'["platform"].at = "ready"
        /\ thread'["loop"] = thread["loop"]
    BY <1>7, <1>0, GoEffect DEF SetVideoBalance, Go, RoundTrip
  <2> QED BY <2>1, <2>2, <2>3, <1>7, <1>0 DEF SetVideoBalance, PlayInv, WantIsAsked, PlayAsked, StepsFit, Go, At, Call, Threads
<1>8. CASE Listen
  <2>1. /\ thread'["platform"].at = "replay"
        /\ thread'["loop"] = thread["loop"]
    BY <1>8, <1>0, GoEffect DEF Listen, Go
  <2> QED BY <2>1, <1>8, <1>0 DEF Listen, PlayInv, WantIsAsked, PlayAsked, StepsFit, Go, At, Call, Threads
<1>9. CASE Cancel
  <2> QED BY <1>9, <1>0 DEF Cancel, PlayInv, WantIsAsked, PlayAsked, StepsFit, Go, At, Call, Threads
<1>10. CASE Dispose
  <2>1. /\ thread'["platform"].at = "disconnect"
        /\ thread'["loop"] = thread["loop"]
    BY <1>10, <1>0, GoEffect DEF Dispose, Go
  <2>2. /\ player'.target = player.target
        /\ player'.buffering = player.buffering
        /\ ~player'.valid
    BY <1>10, <1>0 DEF Dispose, TypesOK, PlayerType
  <2> QED BY <2>1, <2>2, <1>10, <1>0 DEF Dispose, PlayInv, WantIsAsked, PlayAsked, StepsFit, Go, At, Call, Threads
<1> QED BY <1>1, <1>2, <1>3, <1>4, <1>5, <1>6, <1>7, <1>8, <1>9, <1>10 DEF ApplicationCalls

\* The platform thread going on.
LEMMA PlatformKeepsPlay ==
    ASSUME TypesOK, PlayInv, PlatformGoesOn
    PROVE  PlayInv'
<1>0. /\ "platform" \in Threads /\ "loop" \in Threads /\ "platform" # "loop"
      /\ PLAYING # PAUSED
  BY DEF Threads, PLAYING, PAUSED
<1>1. CASE PlayOrPauseAsks
  <2>1. /\ pipe'.want = hist'.asked /\ hist'.misread = hist.misread
        /\ hist'.asked = PLAYING \/ thread["platform"].at = "pause"
    BY <1>1, <1>0, AskEffect DEF PlayOrPauseAsks, At
  <2>2. /\ thread'["platform"].at = "idle"
        /\ thread'["loop"] = thread["loop"]
    BY <1>1, <1>0, GoEffect DEF PlayOrPauseAsks, Go
  <2> QED BY <2>1, <2>2, <1>1, <1>0 DEF PlayOrPauseAsks, PlayInv, WantIsAsked, PlayAsked, StepsFit, Go, At, Call, Threads
<1>2. CASE SeekInvalidates
  <2>1. hist'.asked = hist.asked /\ hist'.misread = hist.misread
    BY <1>2, <1>0, TouchEffect DEF SeekInvalidates, RoundTrip
  <2>2. /\ thread'["platform"].at = "apply"
        /\ thread'["loop"] = thread["loop"]
    BY <1>2, <1>0, GoEffect DEF SeekInvalidates, Go
  <2> QED BY <2>1, <2>2, <1>2, <1>0 DEF SeekInvalidates, PlayInv, WantIsAsked, PlayAsked, StepsFit, Go, At, Call, Threads
<1>3. CASE Replay
  <2>1. /\ thread'["platform"].at = "idle"
        /\ thread'["loop"] = thread["loop"]
    BY <1>3, <1>0, GoEffect DEF Replay, Go
  <2> QED BY <2>1, <1>3, <1>0 DEF Replay, PlayInv, WantIsAsked, PlayAsked, StepsFit, Go, At, Call, Threads
<1>4. CASE Disconnect
  <2>1. pipe'.want = pipe.want
    BY <1>4, <1>0 DEF Disconnect, TypesOK, PipeType
  <2>2. /\ player'.valid = player.valid
        /\ player'.target = player.target
        /\ player'.buffering = player.buffering
    BY <1>4, <1>0 DEF Disconnect, TypesOK, PlayerType
  <2>3. /\ thread'["platform"].at = "stop"
        /\ thread'["loop"] = thread["loop"]
    BY <1>4, <1>0, GoEffect DEF Disconnect, Go
  <2> QED BY <2>1, <2>2, <2>3, <1>4, <1>0 DEF Disconnect, PlayInv, WantIsAsked, PlayAsked, StepsFit, Go, At, Call, Threads
<1>5. CASE StopPipeline
  <2>1. pipe'.want = NULL /\ hist'.asked = NULL /\ hist'.misread = hist.misread
    BY <1>5, <1>0, AskEffect DEF StopPipeline
  <2>2. /\ thread'["platform"].at = "shader"
        /\ thread'["loop"] = thread["loop"]
    BY <1>5, <1>0, GoEffect DEF StopPipeline, Go
  <2> QED BY <2>1, <2>2, <1>5, <1>0 DEF StopPipeline, PlayInv, WantIsAsked, PlayAsked, StepsFit, Go, At, Call, Threads
<1>6. CASE DropShaderAndSink
  <2>1. /\ thread'["platform"].at = "gone"
        /\ thread'["loop"] = thread["loop"]
    BY <1>6, <1>0, GoEffect DEF DropShaderAndSink, Go
  <2>2. /\ player'.valid = player.valid
        /\ player'.target = player.target
        /\ player'.buffering = player.buffering
    BY <1>6, <1>0 DEF DropShaderAndSink, TypesOK, PlayerType
  <2> QED BY <2>1, <2>2, <1>6, <1>0 DEF DropShaderAndSink, PlayInv, WantIsAsked, PlayAsked, StepsFit, Go, At, Call, Threads
<1>7. CASE SharedStep("platform")
  BY <1>0, <1>7, SharedKeepsPlay
<1> QED BY <1>1, <1>2, <1>3, <1>4, <1>5, <1>6, <1>7 DEF PlatformGoesOn

\* The main loop.
LEMMA LoopKeepsPlay ==
    ASSUME TypesOK, PlayInv, LoopStep
    PROVE  PlayInv'
<1>0. /\ "platform" \in Threads /\ "loop" \in Threads /\ "platform" # "loop"
      /\ PLAYING # PAUSED
  BY DEF Threads, PLAYING, PAUSED
<1>1. CASE TakeMessage
  <2>1. Head(pipe.bus) \in Messages /\ pipe'.want = pipe.want
    BY <1>1, <1>0 DEF TakeMessage, TypesOK, PipeType
  <2>2. /\ thread'["loop"].at \in Messages
        /\ thread'["platform"] = thread["platform"]
    BY <1>1, <1>0, <2>1, GoEffect DEF TakeMessage, Go
  <2>3. Messages \cap {"hold", "restart", "resume", "restore"} = {}
    BY DEF Messages
  <2> QED BY <2>1, <2>2, <2>3, <1>1, <1>0 DEF TakeMessage, PlayInv, WantIsAsked, PlayAsked, StepsFit, Go, At, Call, Threads
<1>2. CASE Prepare
  <2>1. /\ thread'["loop"].at = "apply"
        /\ thread'["platform"] = thread["platform"]
    BY <1>2, <1>0, GoEffect DEF Prepare, Go
  <2>2. /\ player'.valid = player.valid
        /\ player'.target = player.target
        /\ player'.buffering = player.buffering
    BY <1>2, <1>0 DEF Prepare, TypesOK, PlayerType
  <2> QED BY <2>1, <2>2, <1>2, <1>0 DEF Prepare, PlayInv, WantIsAsked, PlayAsked, StepsFit, Go, At, Call, Threads
<1>3. CASE Announce
  <2>1. /\ thread'["loop"].at \in {"idle", "monitor"}
        /\ thread'["platform"] = thread["platform"]
    BY <1>3, <1>0, GoEffect DEF Announce, Go
  <2>2. /\ player'.valid = player.valid
        /\ player'.target = player.target
        /\ player'.buffering = player.buffering
    BY <1>3, <1>0 DEF Announce, TypesOK, PlayerType
  <2> QED BY <2>1, <2>2, <1>3, <1>0 DEF Announce, PlayInv, WantIsAsked, PlayAsked, StepsFit, Go, At, Call, Threads
<1>4. CASE StartAudioMonitor
  <2>1. /\ thread'["loop"].at = "idle"
        /\ thread'["platform"] = thread["platform"]
    BY <1>4, <1>0, GoEffect DEF StartAudioMonitor, Go
  <2> QED BY <2>1, <1>4, <1>0 DEF StartAudioMonitor, PlayInv, WantIsAsked, PlayAsked, StepsFit, Go, At, Call, Threads
<1>5. CASE OnAudioUpgrade
  <2>1. hist'.asked = hist.asked /\ hist'.misread = hist.misread
    BY <1>5, <1>0, TouchEffect DEF OnAudioUpgrade, RoundTrip
  <2>2. /\ thread'["loop"].at \in {"idle", "ready"}
        /\ thread'["platform"] = thread["platform"]
    BY <1>5, <1>0, GoEffect DEF OnAudioUpgrade, RoundTrip, At
  <2> QED BY <2>1, <2>2, <1>5, <1>0 DEF OnAudioUpgrade, PlayInv, WantIsAsked, PlayAsked, StepsFit, Go, At, Call, Threads
<1>6. CASE OnPlaybackEnded
  <2>1. hist'.asked = hist.asked /\ hist'.misread = hist.misread
    BY <1>6, <1>0, TouchEffect DEF OnPlaybackEnded
  <2>2. /\ thread'["loop"].at \in {"idle", "restart"}
        /\ thread'["loop"].at = "idle" => player' = player
        /\ thread'["platform"] = thread["platform"]
    BY <1>6, <1>0, GoEffect DEF OnPlaybackEnded, Go
  <2>3. /\ player'.valid = player.valid
        /\ player'.target = player.target
    BY <1>6, <1>0 DEF OnPlaybackEnded, TypesOK, PlayerType
  <2> QED BY <2>1, <2>2, <2>3, <1>6, <1>0 DEF OnPlaybackEnded, PlayInv, WantIsAsked, PlayAsked, StepsFit, Go, At, Call, Threads
<1>7. CASE Restart
  <2>1. pipe'.want = READY /\ hist'.asked = READY /\ hist'.misread = hist.misread
    BY <1>7, <1>0, AskEffect DEF Restart
  <2>2. /\ thread'["loop"].at = "resume"
        /\ thread'["platform"] = thread["platform"]
    BY <1>7, <1>0, GoEffect DEF Restart, Go
  <2> QED BY <2>1, <2>2, <1>7, <1>0 DEF Restart, PlayInv, WantIsAsked, PlayAsked, StepsFit, Go, At, Call, Threads
<1>8. CASE BufferingStarts
  <2>1. /\ thread'["loop"].at \in {"idle", "hold"}
        /\ thread'["platform"] = thread["platform"]
    BY <1>8, <1>0, GoEffect DEF BufferingStarts, Go
  <2>2. /\ player'.valid = player.valid
        /\ player'.target = player.target
        /\ player'.buffering
    BY <1>8, <1>0 DEF BufferingStarts, TypesOK, PlayerType
  <2> QED BY <2>1, <2>2, <1>8, <1>0 DEF BufferingStarts, PlayInv, WantIsAsked, PlayAsked, StepsFit, Go, At, Call, Threads
<1>9. CASE BufferingEnds
  <2>1. /\ thread'["loop"].at \in {"idle", "resume"}
        /\ thread'["platform"] = thread["platform"]
    BY <1>9, <1>0, GoEffect DEF BufferingEnds, Go, AfterBuffering
  <2>2. player.target = PLAYING => thread'["loop"].at = "resume"
    BY <1>9, <1>0, GoEffect DEF BufferingEnds, AfterBuffering, Go
  <2>3. /\ player'.valid = player.valid
        /\ player'.target = player.target
    BY <1>9, <1>0 DEF BufferingEnds, TypesOK, PlayerType
  <2> QED BY <2>1, <2>2, <2>3, <1>9, <1>0 DEF BufferingEnds, PlayInv, WantIsAsked, PlayAsked, StepsFit, Go, At, Call, Threads
<1>10. CASE HoldOrResume
  <2>1. /\ pipe'.want = hist'.asked /\ hist'.misread = hist.misread
        /\ hist'.asked = PLAYING \/ thread["loop"].at = "hold"
    BY <1>10, <1>0, AskEffect DEF HoldOrResume, At
  <2>2. /\ thread'["loop"].at = "idle"
        /\ thread'["platform"] = thread["platform"]
    BY <1>10, <1>0, GoEffect DEF HoldOrResume, Go
  <2> QED BY <2>1, <2>2, <1>10, <1>0 DEF HoldOrResume, PlayInv, WantIsAsked, PlayAsked, StepsFit, Go, At, Call, Threads
<1>11. CASE SharedStep("loop")
  BY <1>0, <1>11, SharedKeepsPlay
<1> QED BY <1>1, <1>2, <1>3, <1>4, <1>5, <1>6, <1>7, <1>8, <1>9, <1>10, <1>11 DEF LoopStep

\* GStreamer and the streaming thread.
LEMMA OthersKeepPlay ==
    ASSUME TypesOK, PlayInv, OnUdevEvent \/ Frame \/ Draw \/ SendFirst \/ PipelineStep
    PROVE  PlayInv'
<1>0. /\ "platform" \in Threads /\ "loop" \in Threads /\ "platform" # "loop"
      /\ PLAYING # PAUSED
  BY DEF Threads, PLAYING, PAUSED
<1>1. CASE OnUdevEvent
  <2> QED BY <1>1, <1>0 DEF OnUdevEvent, PlayInv, WantIsAsked, PlayAsked, StepsFit, Go, At, Call, Threads
<1>2. CASE Frame
  <2> QED BY <1>2, <1>0 DEF Frame, PlayInv, WantIsAsked, PlayAsked, StepsFit, Go, At, Call, Threads
<1>3. CASE Draw
  <2>1. /\ player'.valid = player.valid
        /\ player'.target = player.target
        /\ player'.buffering = player.buffering
    BY <1>3, <1>0 DEF Draw, TypesOK, PlayerType
  <2> QED BY <2>1, <1>3, <1>0 DEF Draw, PlayInv, WantIsAsked, PlayAsked, StepsFit, Go, At, Call, Threads
<1>4. CASE SendFirst
  <2> QED BY <1>4, <1>0 DEF SendFirst, PlayInv, WantIsAsked, PlayAsked, StepsFit, Go, At, Call, Threads
<1>5. CASE Advance
  <2>1. pipe'.want = pipe.want
    BY <1>5, <1>0 DEF Advance, TypesOK, PipeType
  <2> QED BY <2>1, <1>5, <1>0 DEF Advance, PlayInv, WantIsAsked, PlayAsked, StepsFit, Go, At, Call, Threads
<1>6. CASE \E message \in Messages : Post(message)
  <2>1. pipe'.want = pipe.want
    BY <1>6, <1>0 DEF Post, TypesOK, PipeType
  <2> QED BY <2>1, <1>6, <1>0 DEF Post, PlayInv, WantIsAsked, PlayAsked, StepsFit, Go, At, Call, Threads
<1> QED BY <1>1, <1>2, <1>3, <1>4, <1>5, <1>6 DEF PipelineStep, Messages

LEMMA PlayInit == Init => PlayInv
BY DEF Init, PlayInv, WantIsAsked, PlayAsked, StepsFit, Threads, PAUSED, PLAYING

LEMMA PlayStep == Typed /\ PlayInv /\ [Next]_vars => PlayInv'
<1> SUFFICES ASSUME TypesOK, PlayInv, [Next]_vars PROVE PlayInv'
  BY SameTypes
<1>1. CASE UNCHANGED vars
  BY <1>1 DEF vars, PlayInv, WantIsAsked, PlayAsked, StepsFit
<1>2. CASE Next
  BY <1>2, CallsKeepPlay, PlatformKeepsPlay, LoopKeepsPlay, OthersKeepPlay DEF Next
<1> QED BY <1>1, <1>2

\* No interleaving of play, pause, buffering, looping and round trips leaves the
\* pipeline anywhere but on its way to PLAYING when the user wants it to play,
\* except a round trip that restores a state no longer asked for.
THEOREM PlayKept == Spec => []PlayHolds
<1>1. PlayInv => PlayHolds
  <2> SUFFICES ASSUME PlayInv, Quiet, player.target = PLAYING, ~player.buffering,
                      ~hist.misread
               PROVE  pipe.want = PLAYING
    BY DEF PlayHolds
  <2>1. player.valid /\ \A t \in Threads : thread[t].at = "idle"
    BY DEF Quiet
  <2>2. pipe.want = hist.asked
    BY <2>1 DEF PlayInv, WantIsAsked
  <2>3. hist.asked = PLAYING
    BY <2>1 DEF PlayInv, PlayAsked, Threads
  <2> QED BY <2>2, <2>3
<1> QED BY TypedInit, TypedStep, PlayInit, PlayStep, <1>1, PTL DEF Spec

------------------------------------------------------------------------------
\* Why the speed is honoured.  As long as no two threads meet in the middle of
\* it and no stale state is restored ...
Orderly == player.valid /\ ~hist.raced /\ ~hist.misread

\* ... the pipeline wants what was asked last or is on its round trip, ...
WantFollows ==
    ~hist.misread =>
        \/ pipe.want = hist.asked
        \/ pipe.want = READY /\ \E t \in Threads : thread[t].at = "restore"

\* ... it never runs ahead of what it wants, and below PAUSED it has no speed, ...
PipeLevels ==
    /\ pipe.state <= pipe.want
    /\ pipe.state < PAUSED => pipe.segment = 1

\* ... one thread at most is in the middle of changing the speed, ...
OneAtATime == \E t \in Threads : thread[t].at \notin RateSteps

\* ... the cached rate is given up before the pipeline loses its own, ...
RateGivenUp ==
    /\ pipe.state < PAUSED => speed.rate = Unknown
    /\ \A t \in Threads :
        /\ thread[t].at \in {"ready", "restart"} => speed.rate = Unknown
        /\ thread[t].at = "store" => pipe.state >= PAUSED

\* ... the cached rate, and the one being applied, is the one chosen last, ...
RateChosen ==
    /\ \A t \in Threads :
        thread[t].at \in {"seek", "store"} => thread[t].value = speed.pending
    /\ \/ speed.rate \in {Unknown, speed.pending}
       \/ thread["platform"].at \in {"apply", "seek", "store"}

\* ... the pipeline runs at the cached rate or is about to have it cached, except
\* in the middle of SeekTo, ...
RateInForce ==
    thread["platform"].at # "invalidate" =>
        \/ \E t \in Threads : thread[t].at = "store" /\ pipe.segment = thread[t].value
        \/ /\ speed.rate \in {Unknown, pipe.segment}
           /\ \A t \in Threads : thread[t].at # "store"

\* ... and a playing pipeline whose speed is not the chosen one has somebody on
\* the way to apply it.
PlayingPosted == \E i \in DOMAIN pipe.bus : pipe.bus[i] = "playing"
StillToApply ==
    pipe.state = PLAYING =>
        \/ speed.rate = speed.pending
        \/ PlayingPosted
        \/ thread["loop"].at \in {"playing", "apply", "seek", "store"}
        \/ thread["platform"].at \in {"invalidate", "apply", "seek", "store"}
        \/ \E t \in Threads : thread[t].at \in {"ready", "restart"}

SpeedParts ==
    OneAtATime /\ RateGivenUp /\ RateChosen /\ RateInForce /\ StillToApply
SpeedInv == WantFollows /\ PipeLevels /\ (Orderly => SpeedParts)

\* The steps the invariant speaks of.
SpeedSteps ==
    {"apply", "seek", "store", "ready", "restart", "restore", "invalidate", "playing"}

\* What a state set does to the pipeline.
LEMMA SetStateEffect ==
    ASSUME TypesOK, NEW s \in States, SetState(s)
    PROVE  /\ pipe'.want = s /\ pipe'.state <= s
           /\ s < pipe.state => pipe'.state = s
           /\ s >= pipe.state => pipe'.state >= pipe.state
           /\ pipe'.state >= PAUSED => pipe.state >= pipe'.state
           /\ pipe'.segment = IF pipe'.state < PAUSED THEN 1 ELSE pipe.segment
           /\ s # NULL => pipe'.bus = pipe.bus
           /\ pipe'.state \in States
BY DEF SetState, TypesOK, PipeType, States, NULL, READY, PAUSED, PLAYING

\* Who meets the other thread in the middle of its change notes it.
LEMMA TouchNotes ==
    ASSUME TypesOK, NEW t \in Threads, Touch(t)
    PROVE  /\ hist'.asked = hist.asked /\ hist'.misread = hist.misread
           /\ ~hist'.raced => ~hist.raced
           /\ ~hist'.raced => \A u \in Threads : u # t => thread[u].at \notin RateSteps
BY DEF Touch, TypesOK, HistType, Threads, Other

\* Moving thread t.
LEMMA Moved ==
    ASSUME TypesOK, NEW t \in Threads, NEW step, NEW v, GoWith(t, step, v)
    PROVE  /\ thread'[t].at = step /\ thread'[t].value = v
           /\ \A u \in Threads : u # t => thread'[u] = thread[u]
BY DEF GoWith, TypesOK, ThreadOK, ThreadType

\* A step that touches neither the pipeline nor the speed, by a thread that is in
\* none of the steps above and stays out of them.
LEMMA CalmStep ==
    ASSUME SpeedInv, NEW t \in Threads,
           \A u \in Threads : u # t => thread'[u] = thread[u],
           \/ thread'[t] = thread[t]
           \/ thread[t].at \notin SpeedSteps /\ thread'[t].at \notin SpeedSteps,
           UNCHANGED <<speed, hist>>,
           pipe'.state = pipe.state, pipe'.want = pipe.want,
           pipe'.segment = pipe.segment,
           player'.valid => player.valid /\ (PlayingPosted => PlayingPosted')
    PROVE  SpeedInv'
<1>1. \A u \in Threads :
        \/ thread'[u] = thread[u]
        \/ thread[u].at \notin SpeedSteps /\ thread'[u].at \notin SpeedSteps
  OBVIOUS
<1>2. "platform" \in Threads /\ "loop" \in Threads
  BY DEF Threads
<1>3. WantFollows' /\ PipeLevels'
  BY <1>1 DEF SpeedInv, WantFollows, PipeLevels, SpeedSteps
<1>4. ASSUME Orderly' PROVE SpeedParts'
  <2>1. SpeedParts /\ (PlayingPosted => PlayingPosted')
    BY <1>4 DEF Orderly, SpeedInv
  <2>2. OneAtATime'
    BY <2>1, <1>1 DEF SpeedParts, OneAtATime, RateSteps, SpeedSteps
  <2>3. RateGivenUp'
    BY <2>1, <1>1 DEF SpeedParts, RateGivenUp, SpeedSteps
  <2>4. RateChosen'
    BY <2>1, <1>1, <1>2 DEF SpeedParts, RateChosen, SpeedSteps
  <2>5. RateInForce'
    BY <2>1, <1>1, <1>2 DEF SpeedParts, RateInForce, SpeedSteps
  <2>6. StillToApply'
    BY <2>1, <1>1, <1>2 DEF SpeedParts, StillToApply, SpeedSteps
  <2> QED BY <2>2, <2>3, <2>4, <2>5, <2>6 DEF SpeedParts
<1> QED BY <1>3, <1>4 DEF SpeedInv

\* The way into a round trip or a restart: the rate is given up first.
LEMMA GivesUp ==
    ASSUME TypesOK, SpeedInv, NEW t \in Threads, NEW step \in {"ready", "restart"}, NEW v,
           GoWith(t, step, v), thread[t].at \notin SpeedSteps,
           speed' = [speed EXCEPT !.rate = Unknown], Touch(t),
           UNCHANGED pipe, player'.valid = player.valid
    PROVE  SpeedInv'
<1>1. /\ thread'[t].at = step
      /\ \A u \in Threads : u # t => thread'[u] = thread[u]
  BY Moved
<1>2. speed'.rate = Unknown /\ speed'.pending = speed.pending
  BY DEF TypesOK, SpeedType
<1>3. "platform" \in Threads /\ "loop" \in Threads
  BY DEF Threads
<1>4. WantFollows' /\ PipeLevels'
  BY <1>1, TouchNotes DEF SpeedInv, WantFollows, PipeLevels, SpeedSteps
<1>5. ASSUME Orderly' PROVE SpeedParts'
  <2>1. /\ SpeedParts
        /\ \A u \in Threads : u # t => thread[u].at \notin RateSteps
    BY <1>5, TouchNotes DEF Orderly, SpeedInv
  <2>2. \A u \in Threads : u # t => thread'[u].at \notin RateSteps
    BY <1>1, <2>1
  <2>3. OneAtATime'
    BY <2>2 DEF OneAtATime, Threads
  <2>4. RateGivenUp'
    BY <2>2, <1>1, <1>2 DEF RateGivenUp, RateSteps
  <2>5. RateChosen'
    BY <2>2, <1>1, <1>2 DEF RateChosen, RateSteps
  <2>6. RateInForce'
    BY <2>2, <1>1, <1>2 DEF RateInForce, RateSteps
  <2>7. StillToApply'
    BY <1>1 DEF StillToApply
  <2> QED BY <2>3, <2>4, <2>5, <2>6, <2>7 DEF SpeedParts
<1> QED BY <1>4, <1>5 DEF SpeedInv

\* A state of PAUSED or PLAYING asked for by a thread outside these steps.
LEMMA AsksUp ==
    ASSUME TypesOK, SpeedInv, NEW t \in Threads, NEW s \in {PAUSED, PLAYING}, Ask(s),
           Go(t, "idle"), thread[t].at \notin SpeedSteps, UNCHANGED <<player, speed>>
    PROVE  SpeedInv'
<1>1. /\ thread'[t].at = "idle"
      /\ \A u \in Threads : u # t => thread'[u] = thread[u]
  BY Moved DEF Go
<1>2. \A u \in Threads :
        \/ thread'[u] = thread[u]
        \/ thread[u].at \notin SpeedSteps /\ thread'[u].at \notin SpeedSteps
  BY <1>1 DEF SpeedSteps
<1>3. "platform" \in Threads /\ "loop" \in Threads
  BY DEF Threads
<1>4. s \in States /\ SetState(s) /\ s # NULL /\ s >= PAUSED
  BY DEF Ask, States, NULL, READY, PAUSED, PLAYING
<1>5. /\ pipe.state \in States /\ pipe'.state \in States
      /\ pipe'.want = s /\ pipe'.state <= s /\ pipe'.bus = pipe.bus
      /\ pipe.state >= PAUSED <=> pipe'.state >= PAUSED
      /\ pipe'.state = PLAYING => pipe.state = PLAYING
      /\ pipe'.segment = IF pipe'.state < PAUSED THEN 1 ELSE pipe.segment
  BY <1>4, SetStateEffect DEF TypesOK, PipeType, States, NULL, READY, PAUSED, PLAYING
<1>6. hist'.asked = s /\ hist'.misread = hist.misread /\ hist'.raced = hist.raced
  BY DEF Ask, TypesOK, HistType
<1>7. WantFollows' /\ PipeLevels'
  BY <1>5, <1>6 DEF WantFollows, PipeLevels
<1>8. ASSUME Orderly' PROVE SpeedParts'
  <2>1. SpeedParts /\ PipeLevels
    BY <1>6, <1>8 DEF Orderly, SpeedInv
  <2>2. OneAtATime'
    BY <2>1, <1>2 DEF SpeedParts, OneAtATime, RateSteps, SpeedSteps
  <2>3. pipe'.segment = pipe.segment
    BY <2>1, <1>5 DEF PipeLevels, States, NULL, READY, PAUSED, PLAYING
  <2>4. RateGivenUp'
    BY <2>1, <1>2, <1>5 DEF SpeedParts, RateGivenUp, SpeedSteps, States, NULL, PLAYING, PAUSED
  <2>5. RateChosen'
    BY <2>1, <1>2, <1>3 DEF SpeedParts, RateChosen, SpeedSteps
  <2>6. RateInForce'
    BY <2>1, <2>3, <1>2, <1>3 DEF SpeedParts, RateInForce, SpeedSteps
  <2>7. StillToApply'
    BY <2>1, <1>2, <1>3, <1>5 DEF SpeedParts, StillToApply, PlayingPosted, SpeedSteps
  <2> QED BY <2>2, <2>4, <2>5, <2>6, <2>7 DEF SpeedParts
<1> QED BY <1>7, <1>8 DEF SpeedInv

\* The steps both threads share.
LEMMA SharedKeepsSpeed ==
    ASSUME TypesOK, SpeedInv, NEW t \in Threads, SharedStep(t)
    PROVE  SpeedInv'
<1>0. /\ "platform" \in Threads /\ "loop" \in Threads /\ "platform" # "loop"
      /\ AfterApply(t) \notin SpeedSteps
      /\ pipe.state \in States
  BY DEF Threads, AfterApply, SpeedSteps, TypesOK, PipeType
<1>1. CASE ApplyRead(t)
  <2>1. PICK step, v :
          /\ GoWith(t, step, v)
          /\ step \in {"seek", AfterApply(t)}
          /\ step = "seek" => v = speed.pending
          /\ step # "seek" => speed.rate = speed.pending
    <3>1. CASE speed.pending = speed.rate
      <4>1. GoWith(t, AfterApply(t), 0) /\ AfterApply(t) # "seek"
        BY <1>1, <3>1, <1>0 DEF ApplyRead, Go, SpeedSteps
      <4> QED BY <4>1, <3>1
    <3>2. CASE speed.pending # speed.rate
      BY <1>1, <3>2 DEF ApplyRead
    <3> QED BY <3>1, <3>2
  <2>2. /\ thread'[t].at = step /\ thread'[t].value = v
        /\ \A u \in Threads : u # t => thread'[u] = thread[u]
    BY <2>1, Moved
  <2>3. UNCHANGED <<speed, pipe, player>> /\ Touch(t) /\ thread[t].at = "apply"
    BY <1>1 DEF ApplyRead, At
  <2>4. step \notin SpeedSteps \/ step = "seek"
    BY <2>1, <1>0
  <2>5. WantFollows' /\ PipeLevels'
    BY <2>2, <2>3, TouchNotes DEF SpeedInv, WantFollows, PipeLevels
  <2>6. ASSUME Orderly' PROVE SpeedParts'
    <3>1. /\ SpeedParts
          /\ \A u \in Threads : u # t => thread'[u].at \notin RateSteps
      BY <2>2, <2>3, <2>6, TouchNotes DEF Orderly, SpeedInv
    <3>2. OneAtATime'
      BY <3>1, <1>0 DEF OneAtATime, Threads
    <3>3. RateGivenUp'
      BY <3>1, <2>2, <2>3, <2>4 DEF SpeedParts, RateGivenUp, SpeedSteps
    <3>4. RateChosen'
      BY <3>1, <2>1, <2>2, <2>3, <2>4, <1>0 DEF SpeedParts, RateChosen, RateSteps, SpeedSteps, Threads
    <3>5. RateInForce'
      BY <3>1, <2>2, <2>3, <2>4, <1>0 DEF SpeedParts, RateInForce, SpeedSteps
    <3>6. StillToApply'
      BY <3>1, <2>1, <2>2, <2>3, <2>4, <1>0 DEF SpeedParts, StillToApply, PlayingPosted, Threads
    <3> QED BY <3>2, <3>3, <3>4, <3>5, <3>6 DEF SpeedParts
  <2> QED BY <2>5, <2>6 DEF SpeedInv
<1>2. CASE ApplySeek(t)
  <2>1. PICK step, v :
          /\ GoWith(t, step, v)
          /\ \/ pipe.state < PAUSED /\ step = AfterApply(t) /\ UNCHANGED pipe
             \/ /\ ~(pipe.state < PAUSED) /\ step = "store" /\ v = thread[t].value
                /\ pipe' = [pipe EXCEPT !.segment = thread[t].value]
    BY <1>2 DEF ApplySeek, Go
  <2>2. /\ thread'[t].at = step /\ thread'[t].value = v
        /\ \A u \in Threads : u # t => thread'[u] = thread[u]
    BY <2>1, Moved
  <2>3. UNCHANGED <<speed, player>> /\ Touch(t) /\ thread[t].at = "seek"
    BY <1>2 DEF ApplySeek, At
  <2>4. /\ pipe'.state = pipe.state /\ pipe'.want = pipe.want
        /\ step = "store" => pipe'.segment = v /\ pipe.state >= PAUSED
        /\ step # "store" => pipe' = pipe /\ pipe.state < PAUSED /\ step \notin SpeedSteps
    BY <2>1, <1>0 DEF TypesOK, PipeType, SpeedSteps, States, NULL, PLAYING, PAUSED
  <2>5. step \notin SpeedSteps \/ step = "store"
    BY <2>1, <1>0
  <2>6. WantFollows' /\ PipeLevels'
    BY <2>2, <2>3, <2>4, <1>0, TouchNotes
       DEF SpeedInv, WantFollows, PipeLevels, SpeedSteps, States, NULL, PLAYING, PAUSED
  <2>7. ASSUME Orderly' PROVE SpeedParts'
    <3>1. /\ SpeedParts
          /\ \A u \in Threads : u # t => thread'[u].at \notin RateSteps
      BY <2>2, <2>3, <2>7, TouchNotes DEF Orderly, SpeedInv
    <3>2. OneAtATime'
      BY <3>1, <1>0 DEF OneAtATime, Threads
    <3>3. RateGivenUp'
      BY <3>1, <2>2, <2>3, <2>4, <2>5 DEF SpeedParts, RateGivenUp, SpeedSteps, RateSteps
    <3>4. RateChosen'
      BY <3>1, <2>1, <2>2, <2>3, <2>4, <2>5, <1>0
         DEF SpeedParts, RateChosen, RateGivenUp, RateSteps, SpeedSteps, Threads
    <3>5. RateInForce'
      BY <3>1, <2>2, <2>3, <2>4, <2>5, <1>0 DEF SpeedParts, RateInForce, RateSteps, SpeedSteps
    <3>6. StillToApply'
      BY <3>1, <2>2, <2>3, <2>4, <2>5, <1>0
         DEF SpeedParts, StillToApply, Threads, PAUSED, PLAYING, SpeedSteps
    <3> QED BY <3>2, <3>3, <3>4, <3>5, <3>6 DEF SpeedParts
  <2> QED BY <2>6, <2>7 DEF SpeedInv
<1>3. CASE ApplyStore(t)
  <2>1. /\ thread'[t].at = AfterApply(t)
        /\ \A u \in Threads : u # t => thread'[u] = thread[u]
    BY <1>3, Moved DEF ApplyStore, Go
  <2>2. UNCHANGED <<pipe, player>> /\ Touch(t) /\ thread[t].at = "store"
    BY <1>3 DEF ApplyStore, At
  <2>3. speed'.rate = thread[t].value /\ speed'.pending = speed.pending
    BY <1>3 DEF ApplyStore, TypesOK, SpeedType
  <2>4. WantFollows' /\ PipeLevels'
    BY <2>1, <2>2, TouchNotes DEF SpeedInv, WantFollows, PipeLevels
  <2>5. ASSUME Orderly' PROVE SpeedParts'
    <3>1. /\ SpeedParts
          /\ \A u \in Threads : u # t => thread'[u].at \notin RateSteps
          /\ \A u \in Threads : u # t => thread[u].at \notin RateSteps
      BY <2>1, <2>2, <2>5, TouchNotes DEF Orderly, SpeedInv
    <3>2. OneAtATime'
      BY <3>1, <1>0 DEF OneAtATime, Threads
    <3>3. RateGivenUp'
      BY <3>1, <2>1, <2>2, <1>0
         DEF SpeedParts, RateGivenUp, SpeedSteps, RateSteps, States, NULL, PLAYING, PAUSED
    <3>4. RateChosen'
      BY <3>1, <2>1, <2>2, <2>3, <1>0
         DEF SpeedParts, RateChosen, RateSteps, SpeedSteps, Threads
    <3>5. RateInForce'
      BY <3>1, <2>1, <2>2, <2>3, <1>0 DEF SpeedParts, RateInForce, RateSteps, SpeedSteps
    <3>6. StillToApply'
      BY <3>1, <2>1, <2>2, <2>3, <1>0 DEF SpeedParts, StillToApply, RateChosen
    <3> QED BY <3>2, <3>3, <3>4, <3>5, <3>6 DEF SpeedParts
  <2> QED BY <2>4, <2>5 DEF SpeedInv
<1>4. CASE GoReady(t)
  <2>1. /\ thread'[t].at = "restore"
        /\ \A u \in Threads : u # t => thread'[u] = thread[u]
    BY <1>4, Moved DEF GoReady
  <2>2. UNCHANGED <<speed, player>> /\ Touch(t) /\ thread[t].at = "ready" /\ SetState(READY)
    BY <1>4 DEF GoReady, At
  <2>3. /\ pipe'.want = READY /\ pipe'.state <= READY /\ pipe'.state \in States
        /\ pipe'.segment = 1
    BY <2>2, <1>0, SetStateEffect DEF States, NULL, READY, PAUSED, PLAYING
  <2>4. WantFollows' /\ PipeLevels'
    BY <2>1, <2>3 DEF WantFollows, PipeLevels
  <2>5. ASSUME Orderly' PROVE SpeedParts'
    <3>1. /\ SpeedParts
          /\ \A u \in Threads : u # t => thread'[u].at \notin RateSteps
      BY <2>1, <2>2, <2>5, TouchNotes DEF Orderly, SpeedInv
    <3>2. speed'.rate = Unknown
      BY <3>1, <2>2 DEF SpeedParts, RateGivenUp
    <3>3. OneAtATime'
      BY <3>1, <1>0 DEF OneAtATime, Threads
    <3>4. RateGivenUp'
      BY <3>1, <3>2, <2>1 DEF RateGivenUp, RateSteps
    <3>5. RateChosen'
      BY <3>1, <3>2, <2>1 DEF RateChosen, RateSteps
    <3>6. RateInForce'
      BY <3>1, <3>2, <2>1 DEF RateInForce, RateSteps
    <3>7. StillToApply'
      BY <2>3 DEF StillToApply, READY, PLAYING
    <3> QED BY <3>3, <3>4, <3>5, <3>6, <3>7 DEF SpeedParts
  <2> QED BY <2>4, <2>5 DEF SpeedInv
<1>5. CASE Restore(t)
  <2>0. PICK v : v = thread[t].value
    OBVIOUS
  <2>1. /\ thread'[t].at = "idle"
        /\ \A u \in Threads : u # t => thread'[u] = thread[u]
    BY <1>5, Moved DEF Restore, Go
  <2>2. /\ UNCHANGED <<speed, player>> /\ thread[t].at = "restore" /\ SetState(v)
        /\ v \in States
    BY <1>5, <2>0 DEF Restore, At, TypesOK, ThreadOK, CarriesItsKind
  <2>3. /\ hist'.asked = hist.asked /\ hist'.raced = hist.raced
        /\ ~hist'.misread => ~hist.misread /\ v = hist.asked
    BY <1>5, <2>0 DEF Restore, TypesOK, HistType
  <2>4. pipe'.want = v /\ pipe'.state <= v
    BY <2>2, SetStateEffect
  <2>5. WantFollows' /\ PipeLevels'
    BY <2>2, <2>3, <2>4, SetStateEffect DEF WantFollows, PipeLevels
  <2>6. ASSUME Orderly' PROVE SpeedParts'
    <3>1. SpeedParts /\ WantFollows /\ PipeLevels /\ v = hist.asked /\ ~hist.misread
      BY <2>2, <2>3, <2>6 DEF Orderly, SpeedInv
    <3>2. \/ v >= pipe.state
          \/ pipe.state <= READY
      BY <3>1, <1>0, <2>2 DEF WantFollows, PipeLevels, States, NULL, READY, PLAYING
    <3>3. /\ pipe.state >= PAUSED => pipe'.state = pipe.state /\ pipe'.bus = pipe.bus
          /\ pipe.state < PAUSED => pipe'.state < PAUSED
          /\ pipe'.segment = pipe.segment
      BY <3>1, <3>2, <1>0, <2>2, SetStateEffect
         DEF PipeLevels, States, NULL, READY, PAUSED, PLAYING
    <3>4. \A u \in Threads :
            \/ thread'[u] = thread[u]
            \/ thread[u].at = "restore" /\ thread'[u].at = "idle"
      BY <2>1, <2>2
    <3>5. pipe'.state \in States
      BY <2>2, SetStateEffect
    <3>6. OneAtATime'
      BY <3>1, <3>4 DEF SpeedParts, OneAtATime, RateSteps
    <3>7. RateGivenUp'
      BY <3>1, <3>3, <3>4, <3>5, <2>2, <1>0
         DEF SpeedParts, RateGivenUp, States, NULL, PAUSED, PLAYING
    <3>8. RateChosen'
      BY <3>1, <3>4, <2>2, <1>0 DEF SpeedParts, RateChosen
    <3>9. RateInForce'
      BY <3>1, <3>3, <3>4, <2>2, <1>0 DEF SpeedParts, RateInForce
    <3>10. StillToApply'
      BY <3>1, <3>3, <3>4, <2>2, <1>0
         DEF SpeedParts, StillToApply, PlayingPosted, States, NULL, PAUSED, PLAYING
    <3> QED BY <3>6, <3>7, <3>8, <3>9, <3>10 DEF SpeedParts
  <2> QED BY <2>5, <2>6 DEF SpeedInv
<1> QED BY <1>1, <1>2, <1>3, <1>4, <1>5 DEF SharedStep

\* The calls of the application.
LEMMA CallsKeepSpeed ==
    ASSUME TypesOK, SpeedInv, ApplicationCalls
    PROVE  SpeedInv'
<1>0. /\ "platform" \in Threads /\ "loop" \in Threads /\ "platform" # "loop"
      /\ {"idle", "play", "pause", "replay", "disconnect"} \cap SpeedSteps = {}
  BY DEF Threads, SpeedSteps
<1>1. CASE \E looping \in BOOLEAN : SetLooping(looping)
  <2>1. player'.valid = player.valid
    BY <1>1 DEF SetLooping, TypesOK, PlayerType
  <2> QED BY <2>1, <1>1, <1>0, CalmStep DEF SetLooping, PlayingPosted
<1>2. CASE \E rate \in Rates : SetPlaybackSpeed(rate)
  <2>1. PICK step : /\ GoWith("platform", step, 0)
                    /\ step = IF pipe.state < PAUSED THEN "idle" ELSE "apply"
    BY <1>2 DEF SetPlaybackSpeed, Go
  <2>2. /\ thread'["platform"].at = step
        /\ \A u \in Threads : u # "platform" => thread'[u] = thread[u]
    BY <2>1, <1>0, Moved
  <2>3. /\ UNCHANGED <<pipe, player>> /\ Touch("platform")
        /\ thread["platform"].at = "idle" /\ speed'.rate = speed.rate
    BY <1>2 DEF SetPlaybackSpeed, Call, At, TypesOK, SpeedType
  <2>4. pipe.state < PAUSED <=> step # "apply"
    BY <2>1
  <2>5. WantFollows' /\ PipeLevels'
    BY <2>2, <2>3, <1>0, TouchNotes DEF SpeedInv, WantFollows, PipeLevels
  <2>6. ASSUME Orderly' PROVE SpeedParts'
    <3>1. /\ SpeedParts
          /\ \A u \in Threads : thread'[u].at \notin RateSteps
          /\ \A u \in Threads : thread[u].at \notin RateSteps
      BY <2>1, <2>2, <2>3, <2>6, <1>0, TouchNotes DEF Orderly, SpeedInv, RateSteps
    <3>2. OneAtATime'
      BY <3>1, <1>0 DEF OneAtATime
    <3>3. RateGivenUp'
      BY <3>1, <2>3 DEF SpeedParts, RateGivenUp, RateSteps
    <3>4. RateChosen'
      BY <3>1, <2>2, <2>3, <2>4 DEF SpeedParts, RateChosen, RateGivenUp, RateSteps
    <3>5. RateInForce'
      BY <3>1, <2>2, <2>3, <1>0 DEF SpeedParts, RateInForce, RateSteps
    <3>6. StillToApply'
      BY <2>2, <2>3, <2>4 DEF StillToApply, PLAYING, PAUSED
    <3> QED BY <3>2, <3>3, <3>4, <3>5, <3>6 DEF SpeedParts
  <2> QED BY <2>5, <2>6 DEF SpeedInv
<1>3. CASE Play
  <2>1. player'.valid = player.valid
    BY <1>3 DEF Play, TypesOK, PlayerType
  <2>2. thread'["platform"].at = "play" /\ thread["platform"].at = "idle"
        /\ \A u \in Threads : u # "platform" => thread'[u] = thread[u]
    BY <1>3, <1>0, Moved DEF Play, Go, Call, At
  <2> QED BY <2>1, <2>2, <1>3, <1>0, CalmStep DEF Play, PlayingPosted
<1>4. CASE Pause
  <2>1. player'.valid = player.valid
    BY <1>4 DEF Pause, TypesOK, PlayerType
  <2>2. thread'["platform"].at = "pause" /\ thread["platform"].at = "idle"
        /\ \A u \in Threads : u # "platform" => thread'[u] = thread[u]
    BY <1>4, <1>0, Moved DEF Pause, Go, Call, At
  <2> QED BY <2>1, <2>2, <1>4, <1>0, CalmStep DEF Pause, PlayingPosted
<1>5. CASE SeekTo
  <2>1. PICK step : /\ GoWith("platform", step, 0)
                    /\ step = IF speed.pending = 1 THEN "idle" ELSE "invalidate"
    BY <1>5 DEF SeekTo, Go
  <2>2. /\ thread'["platform"].at = step
        /\ \A u \in Threads : u # "platform" => thread'[u] = thread[u]
    BY <2>1, <1>0, Moved
  <2>3. /\ UNCHANGED <<speed, player, hist>> /\ thread["platform"].at = "idle"
        /\ pipe'.state = pipe.state /\ pipe'.want = pipe.want /\ pipe'.bus = pipe.bus
        /\ pipe'.segment = IF pipe.state < PAUSED THEN pipe.segment ELSE 1
    BY <1>5 DEF SeekTo, Call, At, TypesOK, PipeType
  <2>4. /\ step \in {"idle", "invalidate"}
        /\ step = "idle" => speed.pending = 1
    BY <2>1
  <2>5. WantFollows' /\ PipeLevels'
    BY <2>2, <2>3, <2>4, <1>0 DEF SpeedInv, WantFollows, PipeLevels
  <2>6. ASSUME Orderly' PROVE SpeedParts'
    <3>1. SpeedParts /\ PipeLevels
      BY <2>3, <2>6 DEF Orderly, SpeedInv
    <3>2. OneAtATime'
      BY <2>2, <2>4, <1>0 DEF OneAtATime, RateSteps
    <3>3. RateGivenUp'
      BY <3>1, <2>2, <2>3, <2>4 DEF SpeedParts, RateGivenUp
    <3>4. RateChosen'
      BY <3>1, <2>2, <2>3, <2>4, <1>0 DEF SpeedParts, RateChosen
    <3>5. RateInForce'
      <4> SUFFICES ASSUME step = "idle" PROVE RateInForce'
        BY <2>2, <2>4 DEF RateInForce
      <4>1. speed.rate \in {Unknown, 1} /\ pipe'.segment = 1
        BY <3>1, <2>3, <2>4 DEF SpeedParts, RateChosen, PipeLevels
      <4>2. \A u \in Threads : thread'[u].at = "store" => thread'[u] = thread[u] /\ thread'[u].value = 1
        BY <3>1, <2>2, <2>3, <2>4 DEF SpeedParts, RateChosen
      <4> QED BY <4>1, <4>2, <2>3 DEF RateInForce
    <3>6. StillToApply'
      BY <3>1, <2>2, <2>3, <2>4, <1>0 DEF SpeedParts, StillToApply, PlayingPosted
    <3> QED BY <3>2, <3>3, <3>4, <3>5, <3>6 DEF SpeedParts
  <2> QED BY <2>5, <2>6 DEF SpeedInv
<1>6. CASE SetOutputChannels \/ SetVideoBalance
  <2>1. player'.valid = player.valid
    BY <1>6 DEF SetOutputChannels, SetVideoBalance, TypesOK, PlayerType
  <2>2. /\ GoWith("platform", "ready", pipe.state) /\ Touch("platform")
        /\ speed' = [speed EXCEPT !.rate = Unknown]
        /\ UNCHANGED pipe /\ thread["platform"].at = "idle"
    BY <1>6 DEF SetOutputChannels, SetVideoBalance, RoundTrip, Call, At
  <2> QED BY <2>1, <2>2, <1>0, GivesUp
<1>7. CASE Listen
  <2>1. thread'["platform"].at = "replay" /\ thread["platform"].at = "idle"
        /\ \A u \in Threads : u # "platform" => thread'[u] = thread[u]
    BY <1>7, <1>0, Moved DEF Listen, Go, Call, At
  <2> QED BY <2>1, <1>7, <1>0, CalmStep DEF Listen, PlayingPosted
<1>8. CASE Cancel
  BY <1>8, <1>0, CalmStep DEF Cancel, PlayingPosted
<1>9. CASE Dispose
  <2>1. ~player'.valid
    BY <1>9 DEF Dispose, TypesOK, PlayerType
  <2>2. thread'["platform"].at = "disconnect" /\ thread["platform"].at = "idle"
        /\ \A u \in Threads : u # "platform" => thread'[u] = thread[u]
    BY <1>9, <1>0, Moved DEF Dispose, Go, At
  <2> QED BY <2>1, <2>2, <1>9, <1>0, CalmStep DEF Dispose
<1> QED BY <1>1, <1>2, <1>3, <1>4, <1>5, <1>6, <1>7, <1>8, <1>9 DEF ApplicationCalls

\* The platform thread going on.
LEMMA PlatformKeepsSpeed ==
    ASSUME TypesOK, PlayInv, SpeedInv, PlatformGoesOn
    PROVE  SpeedInv'
<1>0. /\ "platform" \in Threads /\ "loop" \in Threads /\ "platform" # "loop"
      /\ {"idle", "play", "pause", "replay", "disconnect", "stop", "shader", "gone"}
            \cap SpeedSteps = {}
  BY DEF Threads, SpeedSteps
<1>1. CASE PlayOrPauseAsks
  <2>1. PICK s \in {PAUSED, PLAYING} : Ask(s)
    BY <1>1 DEF PlayOrPauseAsks
  <2>2. /\ thread["platform"].at \in {"play", "pause"} /\ Go("platform", "idle")
        /\ UNCHANGED <<player, speed>>
    BY <1>1 DEF PlayOrPauseAsks, At
  <2> QED BY <2>1, <2>2, <1>0, AsksUp
<1>2. CASE SeekInvalidates
  <2>1. /\ thread'["platform"].at = "apply" /\ thread["platform"].at = "invalidate"
        /\ \A u \in Threads : u # "platform" => thread'[u] = thread[u]
    BY <1>2, <1>0, Moved DEF SeekInvalidates, Go, At
  <2>2. UNCHANGED <<pipe, player>> /\ Touch("platform")
    BY <1>2 DEF SeekInvalidates
  <2>3. speed'.rate = Unknown /\ speed'.pending = speed.pending
    BY <1>2 DEF SeekInvalidates, Invalidate, TypesOK, SpeedType
  <2>4. WantFollows' /\ PipeLevels'
    BY <2>1, <2>2, <1>0, TouchNotes DEF SpeedInv, WantFollows, PipeLevels
  <2>5. ASSUME Orderly' PROVE SpeedParts'
    <3>1. SpeedParts /\ \A u \in Threads : thread'[u].at \notin RateSteps
      BY <2>1, <2>2, <2>5, <1>0, TouchNotes DEF Orderly, SpeedInv, RateSteps
    <3>2. OneAtATime'
      BY <3>1, <1>0 DEF OneAtATime
    <3>3. RateGivenUp'
      BY <3>1, <2>3 DEF RateGivenUp, RateSteps
    <3>4. RateChosen'
      BY <3>1, <2>3 DEF RateChosen, RateSteps
    <3>5. RateInForce'
      BY <3>1, <2>3 DEF RateInForce, RateSteps
    <3>6. StillToApply'
      BY <2>1 DEF StillToApply
    <3> QED BY <3>2, <3>3, <3>4, <3>5, <3>6 DEF SpeedParts
  <2> QED BY <2>4, <2>5 DEF SpeedInv
<1>3. CASE Replay
  <2>1. thread'["platform"].at = "idle" /\ thread["platform"].at = "replay"
        /\ \A u \in Threads : u # "platform" => thread'[u] = thread[u]
    BY <1>3, <1>0, Moved DEF Replay, Go, At
  <2> QED BY <2>1, <1>3, <1>0, CalmStep DEF Replay, PlayingPosted
<1>4. CASE Disconnect
  <2>1. thread'["platform"].at = "stop" /\ thread["platform"].at = "disconnect"
        /\ \A u \in Threads : u # "platform" => thread'[u] = thread[u]
    BY <1>4, <1>0, Moved DEF Disconnect, Go, At
  <2>2. ~player'.valid
    BY <1>4, <2>1 DEF Disconnect, PlayInv, StepsFit, TypesOK, PlayerType
  <2>3. pipe'.state = pipe.state /\ pipe'.want = pipe.want /\ pipe'.segment = pipe.segment
    BY <1>4 DEF Disconnect, TypesOK, PipeType
  <2> QED BY <2>1, <2>2, <2>3, <1>4, <1>0, CalmStep DEF Disconnect
<1>5. CASE StopPipeline
  <2>1. ~player'.valid
    BY <1>5 DEF StopPipeline, At, PlayInv, StepsFit
  <2>2. pipe'.want = NULL /\ hist'.asked = NULL
    BY <1>5, AskEffect DEF StopPipeline
  <2>3. pipe'.state <= pipe'.want /\ (pipe'.state < PAUSED => pipe'.segment = 1)
    BY <1>5, SetStateEffect DEF StopPipeline, Ask, States, NULL, READY, PAUSED, PLAYING
  <2> QED BY <2>1, <2>2, <2>3 DEF SpeedInv, WantFollows, PipeLevels, Orderly
<1>6. CASE DropShaderAndSink
  <2>1. thread'["platform"].at = "gone" /\ thread["platform"].at = "shader"
        /\ \A u \in Threads : u # "platform" => thread'[u] = thread[u]
    BY <1>6, <1>0, Moved DEF DropShaderAndSink, Go, At
  <2>2. player'.valid = player.valid
    BY <1>6 DEF DropShaderAndSink, TypesOK, PlayerType
  <2> QED BY <2>1, <2>2, <1>6, <1>0, CalmStep DEF DropShaderAndSink, PlayingPosted
<1>7. CASE SharedStep("platform")
  BY <1>0, <1>7, SharedKeepsSpeed
<1> QED BY <1>1, <1>2, <1>3, <1>4, <1>5, <1>6, <1>7 DEF PlatformGoesOn

\* The main loop.
LEMMA LoopKeepsSpeed ==
    ASSUME TypesOK, SpeedInv, LoopStep
    PROVE  SpeedInv'
<1>0. /\ "platform" \in Threads /\ "loop" \in Threads /\ "platform" # "loop"
      /\ {"idle", "eos", "buffering", "buffered", "announce", "monitor", "resume", "hold"}
            \cap SpeedSteps = {}
  BY DEF Threads, SpeedSteps
<1>1. CASE TakeMessage
  <2>1. PICK m : m = Head(pipe.bus)
    OBVIOUS
  <2>2. /\ pipe.bus \in Seq(Messages) /\ pipe.bus # <<>> /\ m \in Messages
        /\ pipe'.bus = Tail(pipe.bus)
        /\ pipe'.state = pipe.state /\ pipe'.want = pipe.want
        /\ pipe'.segment = pipe.segment
    BY <1>1, <2>1 DEF TakeMessage, TypesOK, PipeType
  <2>3. /\ thread'["loop"].at = m /\ thread["loop"].at = "idle"
        /\ thread'["platform"] = thread["platform"]
        /\ \A u \in Threads : u # "loop" => thread'[u] = thread[u]
    BY <1>1, <1>0, <2>1, Moved DEF TakeMessage, Go, At
  <2>4. m # "playing" => (PlayingPosted => PlayingPosted')
    <3> SUFFICES ASSUME m # "playing", NEW i \in DOMAIN pipe.bus, pipe.bus[i] = "playing"
                 PROVE  \E j \in DOMAIN pipe'.bus : pipe'.bus[j] = "playing"
      BY DEF PlayingPosted
    <3>1. /\ i \in 1 .. Len(pipe.bus) /\ i # 1
      BY <2>1, <2>2
    <3>2. /\ i - 1 \in DOMAIN Tail(pipe.bus) /\ Tail(pipe.bus)[i - 1] = pipe.bus[i]
      BY <2>2, <3>1
    <3> QED BY <2>2, <3>2
  <2>5. UNCHANGED <<speed, hist, player>>
    BY <1>1 DEF TakeMessage
  <2>6. CASE m # "playing"
    <3>1. thread'["loop"].at \notin SpeedSteps
      BY <2>2, <2>3, <2>6, <1>0 DEF Messages, SpeedSteps
    <3> QED BY <3>1, <2>2, <2>3, <2>4, <2>5, <2>6, <1>0, CalmStep
  <2>7. CASE m = "playing"
    <3>1. WantFollows' /\ PipeLevels'
      BY <2>2, <2>3, <2>5, <1>0 DEF SpeedInv, WantFollows, PipeLevels
    <3>2. ASSUME Orderly' PROVE SpeedParts'
      <4>1. SpeedParts
        BY <3>2, <2>5 DEF Orderly, SpeedInv
      <4>2. \A u \in Threads :
              \/ thread'[u] = thread[u]
              \/ thread[u].at = "idle" /\ thread'[u].at = "playing"
        BY <2>3, <2>7
      <4>3. OneAtATime'
        BY <4>1, <4>2 DEF SpeedParts, OneAtATime, RateSteps
      <4>4. RateGivenUp'
        BY <4>1, <4>2, <2>2, <2>5 DEF SpeedParts, RateGivenUp
      <4>5. RateChosen'
        BY <4>1, <4>2, <2>5, <1>0 DEF SpeedParts, RateChosen
      <4>6. RateInForce'
        BY <4>1, <4>2, <2>2, <2>5, <1>0 DEF SpeedParts, RateInForce
      <4>7. StillToApply'
        BY <2>3, <2>7 DEF StillToApply
      <4> QED BY <4>3, <4>4, <4>5, <4>6, <4>7 DEF SpeedParts
    <3> QED BY <3>1, <3>2 DEF SpeedInv
  <2> QED BY <2>6, <2>7
<1>2. CASE Prepare
  <2>1. /\ thread'["loop"].at = "apply" /\ thread["loop"].at = "playing"
        /\ thread'["platform"] = thread["platform"]
        /\ \A u \in Threads : u # "loop" => thread'[u] = thread[u]
    BY <1>2, <1>0, Moved DEF Prepare, Go, At
  <2>2. UNCHANGED <<speed, hist, pipe>> /\ player'.valid = player.valid
    BY <1>2 DEF Prepare, TypesOK, PlayerType
  <2>3. WantFollows' /\ PipeLevels'
    BY <2>1, <2>2, <1>0 DEF SpeedInv, WantFollows, PipeLevels
  <2>4. ASSUME Orderly' PROVE SpeedParts'
    <3>1. SpeedParts
      BY <2>2, <2>4 DEF Orderly, SpeedInv
    <3>2. OneAtATime'
      BY <3>1, <2>1, <1>0 DEF OneAtATime, RateSteps
    <3>3. RateGivenUp'
      BY <3>1, <2>1, <2>2 DEF SpeedParts, RateGivenUp
    <3>4. RateChosen'
      BY <3>1, <2>1, <2>2 DEF SpeedParts, RateChosen
    <3>5. RateInForce'
      BY <3>1, <2>1, <2>2 DEF SpeedParts, RateInForce
    <3>6. StillToApply'
      BY <2>1 DEF StillToApply
    <3> QED BY <3>2, <3>3, <3>4, <3>5, <3>6 DEF SpeedParts
  <2> QED BY <2>3, <2>4 DEF SpeedInv
<1>3. CASE Announce
  <2>1. /\ thread'["loop"].at \in {"idle", "monitor"} /\ thread["loop"].at = "announce"
        /\ \A u \in Threads : u # "loop" => thread'[u] = thread[u]
    BY <1>3, <1>0, Moved DEF Announce, Go, At
  <2>2. player'.valid = player.valid
    BY <1>3 DEF Announce, TypesOK, PlayerType
  <2> QED BY <2>1, <2>2, <1>3, <1>0, CalmStep DEF Announce, PlayingPosted
<1>4. CASE StartAudioMonitor
  <2>1. /\ thread'["loop"].at = "idle" /\ thread["loop"].at = "monitor"
        /\ \A u \in Threads : u # "loop" => thread'[u] = thread[u]
    BY <1>4, <1>0, Moved DEF StartAudioMonitor, Go, At
  <2> QED BY <2>1, <1>4, <1>0, CalmStep DEF StartAudioMonitor, PlayingPosted
<1>5. CASE OnAudioUpgrade
  <2>1. UNCHANGED <<pipe, player>> /\ thread["loop"].at = "idle"
    BY <1>5 DEF OnAudioUpgrade, At
  <2>2. CASE UNCHANGED <<thread, speed, hist>>
    BY <2>1, <2>2, <1>0, CalmStep DEF PlayingPosted
  <2>3. CASE RoundTrip("loop")
    BY <2>1, <2>3, <1>0, GivesUp DEF RoundTrip
  <2> QED BY <1>5, <2>2, <2>3 DEF OnAudioUpgrade
<1>6. CASE OnPlaybackEnded
  <2>1. /\ player'.valid = player.valid /\ UNCHANGED pipe
        /\ thread["loop"].at = "eos"
    BY <1>6 DEF OnPlaybackEnded, At, TypesOK, PlayerType
  <2>2. CASE player.looping
    BY <2>1, <2>2, <1>6, <1>0, GivesUp DEF OnPlaybackEnded, ForgetRate, Go
  <2>3. CASE ~player.looping
    <3>1. /\ thread'["loop"].at = "idle" /\ UNCHANGED <<player, speed, hist>>
          /\ \A u \in Threads : u # "loop" => thread'[u] = thread[u]
      BY <1>6, <2>3, <1>0, Moved DEF OnPlaybackEnded, Go
    <3> QED BY <3>1, <2>1, <1>0, CalmStep DEF PlayingPosted
  <2> QED BY <2>2, <2>3
<1>7. CASE Restart
  <2>1. /\ thread'["loop"].at = "resume" /\ thread["loop"].at = "restart"
        /\ \A u \in Threads : u # "loop" => thread'[u] = thread[u]
    BY <1>7, <1>0, Moved DEF Restart, Go, At
  <2>2. UNCHANGED <<speed, player>> /\ SetState(READY)
    BY <1>7 DEF Restart, Ask
  <2>3. hist'.asked = READY /\ hist'.misread = hist.misread /\ hist'.raced = hist.raced
    BY <1>7 DEF Restart, Ask, TypesOK, HistType
  <2>4. /\ pipe'.want = READY /\ pipe'.state <= READY /\ pipe'.state \in States
        /\ pipe'.segment = 1
    BY <2>2, SetStateEffect DEF States, NULL, READY, PAUSED, PLAYING
  <2>5. WantFollows' /\ PipeLevels'
    BY <2>3, <2>4 DEF WantFollows, PipeLevels
  <2>6. ASSUME Orderly' PROVE SpeedParts'
    <3>1. SpeedParts
      BY <2>2, <2>3, <2>6 DEF Orderly, SpeedInv
    <3>2. speed'.rate = Unknown /\ \A u \in Threads : thread'[u].at \notin RateSteps
      BY <3>1, <2>1, <2>2, <1>0
         DEF SpeedParts, RateGivenUp, OneAtATime, RateSteps, Threads
    <3>3. OneAtATime'
      BY <3>2, <1>0 DEF OneAtATime
    <3>4. RateGivenUp'
      BY <3>2 DEF RateGivenUp, RateSteps
    <3>5. RateChosen'
      BY <3>2 DEF RateChosen, RateSteps
    <3>6. RateInForce'
      BY <3>2 DEF RateInForce, RateSteps
    <3>7. StillToApply'
      BY <2>4 DEF StillToApply, READY, PLAYING
    <3> QED BY <3>3, <3>4, <3>5, <3>6, <3>7 DEF SpeedParts
  <2> QED BY <2>5, <2>6 DEF SpeedInv
<1>8. CASE BufferingStarts
  <2>1. /\ thread'["loop"].at \in {"idle", "hold"} /\ thread["loop"].at = "buffering"
        /\ \A u \in Threads : u # "loop" => thread'[u] = thread[u]
    BY <1>8, <1>0, Moved DEF BufferingStarts, Go, At
  <2>2. player'.valid = player.valid
    BY <1>8 DEF BufferingStarts, TypesOK, PlayerType
  <2> QED BY <2>1, <2>2, <1>8, <1>0, CalmStep DEF BufferingStarts, PlayingPosted
<1>9. CASE BufferingEnds
  <2>1. /\ thread'["loop"].at \in {"idle", "resume"} /\ thread["loop"].at = "buffered"
        /\ \A u \in Threads : u # "loop" => thread'[u] = thread[u]
    BY <1>9, <1>0, Moved DEF BufferingEnds, AfterBuffering, Go, At
  <2>2. player'.valid = player.valid
    BY <1>9 DEF BufferingEnds, TypesOK, PlayerType
  <2> QED BY <2>1, <2>2, <1>9, <1>0, CalmStep DEF BufferingEnds, PlayingPosted
<1>10. CASE HoldOrResume
  <2>1. PICK s \in {PAUSED, PLAYING} : Ask(s)
    BY <1>10 DEF HoldOrResume
  <2>2. /\ thread["loop"].at \in {"hold", "resume"} /\ Go("loop", "idle")
        /\ UNCHANGED <<player, speed>>
    BY <1>10 DEF HoldOrResume, At
  <2> QED BY <2>1, <2>2, <1>0, AsksUp
<1>11. CASE SharedStep("loop")
  BY <1>0, <1>11, SharedKeepsSpeed
<1> QED BY <1>1, <1>2, <1>3, <1>4, <1>5, <1>6, <1>7, <1>8, <1>9, <1>10, <1>11 DEF LoopStep

\* GStreamer and the streaming thread: a pipeline that reaches PLAYING says so.
LEMMA OthersKeepSpeed ==
    ASSUME TypesOK, SpeedInv, OnUdevEvent \/ Frame \/ Draw \/ SendFirst \/ PipelineStep
    PROVE  SpeedInv'
<1>0. "platform" \in Threads /\ "loop" \in Threads
  BY DEF Threads
<1>1. CASE OnUdevEvent
  BY <1>1, <1>0, CalmStep DEF OnUdevEvent, PlayingPosted
<1>2. CASE Frame \/ SendFirst
  BY <1>2, <1>0, CalmStep DEF Frame, SendFirst, PlayingPosted
<1>3. CASE Draw
  <2>1. player'.valid = player.valid
    BY <1>3 DEF Draw, TypesOK, PlayerType
  <2> QED BY <2>1, <1>3, <1>0, CalmStep DEF Draw, PlayingPosted
<1>4. CASE Advance
  <2>1. UNCHANGED <<thread, speed, hist, player>>
    BY <1>4 DEF Advance
  <2>2. /\ pipe.state \in States /\ pipe'.state = pipe.state + 1
        /\ pipe.state < pipe.want /\ READY <= pipe.state /\ pipe.want \in States
        /\ pipe'.want = pipe.want /\ pipe'.segment = pipe.segment
    BY <1>4 DEF Advance, TypesOK, PipeType
  <2>3. pipe'.state = PLAYING => PlayingPosted'
    <3> SUFFICES ASSUME pipe'.state = PLAYING PROVE PlayingPosted'
      OBVIOUS
    <3>1. pipe.state = PAUSED
      BY <2>2 DEF States, NULL, READY, PAUSED, PLAYING
    <3>2. pipe'.bus = Append(pipe.bus, "playing") /\ pipe.bus \in Seq(Messages)
      BY <3>1, <1>4 DEF Advance, TypesOK, PipeType
    <3>3. /\ Len(pipe.bus) + 1 \in DOMAIN pipe'.bus
          /\ pipe'.bus[Len(pipe.bus) + 1] = "playing"
      BY <3>2
    <3> QED BY <3>3 DEF PlayingPosted
  <2>4. WantFollows' /\ PipeLevels'
    BY <2>1, <2>2 DEF SpeedInv, WantFollows, PipeLevels, States, NULL, READY, PAUSED, PLAYING
  <2>5. ASSUME Orderly' PROVE SpeedParts'
    <3>1. SpeedParts
      BY <2>1, <2>5 DEF Orderly, SpeedInv
    <3>2. OneAtATime' /\ RateChosen' /\ RateInForce'
      BY <3>1, <2>1, <2>2 DEF SpeedParts, OneAtATime, RateChosen, RateInForce
    <3>3. RateGivenUp'
      BY <3>1, <2>1, <2>2 DEF SpeedParts, RateGivenUp, States, NULL, READY, PAUSED, PLAYING
    <3>4. StillToApply'
      BY <2>3 DEF StillToApply
    <3> QED BY <3>1, <3>2, <3>3, <3>4 DEF SpeedParts
  <2> QED BY <2>4, <2>5 DEF SpeedInv
<1>5. CASE \E message \in Messages : Post(message)
  <2>1. PICK message \in Messages : Post(message)
    BY <1>5
  <2>2. /\ pipe'.state = pipe.state /\ pipe'.want = pipe.want
        /\ pipe'.segment = pipe.segment /\ UNCHANGED <<thread, speed, hist, player>>
        /\ pipe'.bus = Append(pipe.bus, message) /\ pipe.bus \in Seq(Messages)
    BY <2>1 DEF Post, TypesOK, PipeType
  <2>3. PlayingPosted => PlayingPosted'
    <3> SUFFICES ASSUME NEW i \in DOMAIN pipe.bus, pipe.bus[i] = "playing"
                 PROVE  \E j \in DOMAIN pipe'.bus : pipe'.bus[j] = "playing"
      BY DEF PlayingPosted
    <3>1. i \in DOMAIN pipe'.bus /\ pipe'.bus[i] = pipe.bus[i]
      BY <2>2
    <3> QED BY <3>1
  <2> QED BY <2>2, <2>3, <1>0, CalmStep
<1> QED BY <1>1, <1>2, <1>3, <1>4, <1>5 DEF PipelineStep, Messages

LEMMA SpeedInit == Init => SpeedInv
<1> SUFFICES ASSUME Init PROVE SpeedInv
  OBVIOUS
<1>1. /\ pipe.state = NULL /\ pipe.want = NULL /\ pipe.segment = 1 /\ hist.asked = NULL
      /\ speed.rate = Unknown /\ \A t \in Threads : thread[t].at = "idle"
  BY DEF Init
<1> QED BY <1>1 DEF SpeedInv, WantFollows, PipeLevels, SpeedParts, OneAtATime, RateGivenUp,
                    RateChosen, RateInForce, StillToApply, RateSteps, Threads, NULL, PLAYING

LEMMA SpeedStep == Typed /\ PlayInv /\ SpeedInv /\ [Next]_vars => SpeedInv'
<1> SUFFICES ASSUME TypesOK, PlayInv, SpeedInv, [Next]_vars PROVE SpeedInv'
  BY SameTypes
<1>1. CASE UNCHANGED vars
  BY <1>1 DEF vars, SpeedInv, WantFollows, PipeLevels, Orderly, SpeedParts, OneAtATime,
              RateGivenUp, RateChosen, RateInForce, StillToApply, PlayingPosted
<1>2. CASE Next
  BY <1>2, CallsKeepSpeed, PlatformKeepsSpeed, LoopKeepsSpeed, OthersKeepSpeed DEF Next
<1> QED BY <1>1, <1>2

\* A playing pipeline runs at the speed the user chose last, whatever seeks,
\* loops, hot-plugs and changes of channels there were and however many calls,
\* unless one thread chose or applied the speed or reset the pipeline in the
\* middle of the other's doing so, or a stale state was restored.
THEOREM SpeedKept == Spec => []SpeedHonoured
<1>1. Typed /\ SpeedInv => SpeedHonoured
  <2> SUFFICES ASSUME TypesOK, SpeedInv, Quiet, pipe.state = PLAYING, ~hist.raced,
                      ~hist.misread
               PROVE  pipe.segment = speed.pending
    BY SameTypes DEF SpeedHonoured
  <2>1. /\ SpeedParts /\ \A t \in Threads : thread[t].at = "idle"
        /\ "platform" \in Threads /\ "loop" \in Threads /\ ~PlayingPosted
    BY DEF Quiet, Orderly, SpeedInv, Threads, PlayingPosted
  <2>2. speed.rate = speed.pending
    BY <2>1 DEF SpeedParts, StillToApply
  <2>3. speed.rate \in {Unknown, pipe.segment}
    BY <2>1 DEF SpeedParts, RateInForce
  <2>4. speed.pending # Unknown
    BY DEF TypesOK, SpeedType, Unknown
  <2> QED BY <2>2, <2>3, <2>4
<1> QED BY TypedInit, TypedStep, PlayInit, PlayStep, SpeedInit, SpeedStep, <1>1, PTL DEF Spec
==============================================================================
