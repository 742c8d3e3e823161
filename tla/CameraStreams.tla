---------------------------- MODULE CameraStreams ---------------------------
(***************************************************************************)
(* camera_pipewire: the cameras, their PipeWire streams and the image       *)
(* stream to Dart (camera_plugin.cc, camera_stream.cc, pipewire_graph.cc).  *)
(*                                                                         *)
(* Dart's calls start and stop streams on the platform thread, each under   *)
(* the lock of PipeWire's thread loop.  The loop's own thread holds that    *)
(* lock while it handles a frame: it takes a buffer from pw_stream_, offers *)
(* the image and gives the buffer back to pw_stream_, which it reads anew.  *)
(* An image offered goes to a third thread, of GLib, which sends it on the  *)
(* sink that the platform thread sets and resets.                          *)
(*                                                                         *)
(* A second Initialize puts a new stream in place of the old one, which     *)
(* stays alive and goes on calling the camera it belonged to.               *)
(*                                                                         *)
(* External, and therefore free: whether PipeWire can be reached, makes and *)
(* connects a stream, and when it has a frame.                             *)
(***************************************************************************)
EXTENDS SdkCalls

CONSTANTS
    Cameras,        \* the camera ids; each has a texture of its own
    MaxStreams,     \* bound: the streams made
    MaxPosted       \* bound: the images waiting for the GLib thread

Streams == 1..MaxStreams

VARIABLES
    program,    \* running, ended, or crashed
    graph,      \* pipewire_graph::initialized_
    created,    \* the cameras that have a camera_stream and a texture
    pw_stream,  \* pw_stream_ of each camera, 0: null
    owner,      \* the camera each live stream of PipeWire calls: a function
    active,     \* the streams that deliver
    frame,      \* the frame the loop's thread handles, at most one
    image_sink, \* image_sink_ is set, and image_stream_active_
    posted,     \* the images handed to GLib
    sending     \* the GLib thread has found image_sink_ set

cameraVars == <<program, graph, created, pw_stream, owner, active, frame,
                image_sink, posted, sending>>
vars == <<call, cameraVars>>

Live == DOMAIN owner

TypeOK ==
    /\ call \in [Calls -> Call]
    /\ program \in {"running", "ended", "crashed"}
    /\ graph \in {"down", "up"}
    /\ created \subseteq Cameras
    /\ pw_stream \in [Cameras -> Streams \cup {0}]
    /\ Live \subseteq Streams /\ owner \in [Live -> Cameras]
    /\ active \subseteq Live
    /\ frame \subseteq [camera : Cameras, from : Streams, offered : BOOLEAN]
    /\ Cardinality(frame) <= 1
    /\ image_sink \in BOOLEAN /\ sending \in BOOLEAN
    /\ posted \in 0..MaxPosted

\* The constructor of the plugin tries to reach PipeWire.
StateInit ==
    /\ program = "running"
    /\ graph \in {"down", "up"}
    /\ created = {}
    /\ pw_stream = [k \in Cameras |-> 0]
    /\ owner = <<>>
    /\ active = {} /\ frame = {}
    /\ image_sink = FALSE /\ posted = 0 /\ sending = FALSE

Init == CallsInit /\ StateInit

\* pw_thread_loop_lock by the platform thread.
LoopFree == frame = {}

-----------------------------------------------------------------------------
(* camera_stream and pipewire_graph. *)

Without(s) == [r \in Live \ {s} |-> owner[r]]

\* A thread loop or context that cannot be made leaves the graph down.  With a
\* context but no connection, the registry of a null core is asked for.
InitializeFails ==
    /\ graph = "down"
    /\ program' \in {"running", "crashed"}
    /\ UNCHANGED <<graph, pw_stream, owner, active>>

\* pw_stream_new, or pw_stream_connect, fails: pw_stream_ is null.
StreamFails(k) ==
    /\ LoopFree
    /\ graph' = "up"
    /\ pw_stream' = [pw_stream EXCEPT ![k] = 0]
    /\ UNCHANGED <<program, owner, active>>

StreamStarts(k) ==
    /\ LoopFree
    /\ graph' = "up"
    /\ \E s \in Streams :
          /\ s \notin Live /\ 1..(s - 1) \subseteq Live
          /\ pw_stream' = [pw_stream EXCEPT ![k] = s]
          /\ owner' = [r \in Live \cup {s} |-> IF r = s THEN k ELSE owner[r]]
          /\ active' = active \cup {s}
    /\ UNCHANGED program

Start(k) == InitializeFails \/ StreamFails(k) \/ StreamStarts(k)

\* Mutant: the stream is destroyed without the lock of the loop.
StopAtOnce(k) ==
    /\ IF pw_stream[k] = 0 THEN UNCHANGED <<pw_stream, owner, active>>
       ELSE /\ owner' = Without(pw_stream[k])
            /\ active' = active \ {pw_stream[k]}
            /\ pw_stream' = [pw_stream EXCEPT ![k] = 0]
    /\ UNCHANGED <<program, graph>>

Stop(k) ==
    /\ IF pw_stream[k] = 0 THEN UNCHANGED <<pw_stream, owner, active>>
       ELSE /\ LoopFree
            /\ owner' = Without(pw_stream[k])
            /\ active' = active \ {pw_stream[k]}
            /\ pw_stream' = [pw_stream EXCEPT ![k] = 0]
    /\ UNCHANGED <<program, graph>>

\* PauseStream (FALSE) and ResumeStream (TRUE).
SetActive(k, on) ==
    /\ IF pw_stream[k] = 0 THEN UNCHANGED active
       ELSE /\ LoopFree
            /\ active' = IF on THEN active \cup {pw_stream[k]}
                               ELSE active \ {pw_stream[k]}
    /\ UNCHANGED <<program, graph, pw_stream, owner>>

-----------------------------------------------------------------------------
(* The calls, on the platform thread. *)

imageVars == <<frame, image_sink, posted, sending>>
streamVars == <<program, graph, pw_stream, owner, active>>

GetAvailableCameras(c) == AnswerNow(c) /\ UNCHANGED cameraVars
StartVideoRecording(c) == AnswerNow(c) /\ UNCHANGED cameraVars
StopVideoRecording(c)  == LoseReply(c) /\ UNCHANGED cameraVars

Create(c, k) ==
    /\ AnswerNow(c)
    /\ created' = created \cup {k}
    /\ UNCHANGED <<streamVars, imageVars>>

\* Answered before the stream is started, and whether or not it starts.
Initialize(c, k) ==
    \/ k \in created /\ AnswerNow(c) /\ Start(k) /\ UNCHANGED <<created, imageVars>>
    \/ k \notin created /\ LoseReply(c) /\ UNCHANGED cameraVars

\* The other calls of a texture make an entry that is null if there is none.
NullStream(c, k) ==
    /\ k \notin created
    /\ LoseReply(c)
    /\ program' = "crashed"
    /\ UNCHANGED <<graph, created, pw_stream, owner, active, imageVars>>

OfTexture(c, k) == k \in created /\ AnswerNow(c) /\ UNCHANGED <<created, imageVars>>

Dispose(c, k)       == NullStream(c, k) \/ (OfTexture(c, k) /\ Stop(k))
PausePreview(c, k)  == NullStream(c, k) \/ (OfTexture(c, k) /\ SetActive(k, FALSE))
ResumePreview(c, k) == NullStream(c, k) \/ (OfTexture(c, k) /\ SetActive(k, TRUE))

\* An error when the directory of pictures is not known.
TakePicture(c, k) ==
    \/ NullStream(c, k)
    \/ OfTexture(c, k) /\ UNCHANGED streamVars
    \/ k \in created /\ Unimplemented(c) /\ UNCHANGED cameraVars

CameraCall ==
    \E c \in Calls :
        \/ GetAvailableCameras(c)
        \/ StartVideoRecording(c)
        \/ StopVideoRecording(c)
        \/ \E k \in Cameras : \/ Create(c, k)
                              \/ Initialize(c, k)
                              \/ Dispose(c, k)
                              \/ TakePicture(c, k)
                              \/ PausePreview(c, k)
                              \/ ResumePreview(c, k)

\* on_listen sets the sink and starts the image stream, on_cancel undoes both.
SetImageStream(on) ==
    /\ image_sink # on
    /\ image_sink' = on
    /\ UNCHANGED <<call, streamVars, created, frame, posted, sending>>

\* ~CameraPlugin shuts the graph down, joining the loop's thread; the streams
\* go afterwards, and one that is left asks for the lock of no loop.
EndPlugin ==
    /\ LoopFree
    /\ graph' = "down"
    /\ program' = IF \E k \in Cameras : pw_stream[k] # 0 THEN "crashed" ELSE "ended"
    /\ UNCHANGED <<call, created, pw_stream, owner, active, imageVars>>

-----------------------------------------------------------------------------
(* A frame, on the loop's thread: HandleProcess, for the camera that the    *)
(* stream calls, whichever its pw_stream_ is.                              *)

DequeueBuffer(s) ==
    /\ graph = "up" /\ LoopFree
    /\ s \in active
    /\ pw_stream[owner[s]] # 0
    /\ frame' = {[camera |-> owner[s], from |-> pw_stream[owner[s]], offered |-> FALSE]}
    /\ UNCHANGED <<call, streamVars, created, image_sink, posted, sending>>

\* on_image_frame, for the format YUY2 only.
OfferImage ==
    \E f \in frame :
        /\ ~f.offered
        /\ frame' = {[f EXCEPT !.offered = TRUE]}
        /\ \/ image_sink /\ posted < MaxPosted /\ posted' = posted + 1
           \/ UNCHANGED posted
        /\ UNCHANGED <<call, streamVars, created, image_sink, sending>>

QueueBuffer ==
    \E f \in frame :
        /\ f.offered
        /\ frame' = {}
        /\ UNCHANGED <<call, streamVars, created, image_sink, posted, sending>>

\* The GLib thread tests image_sink_ ...
TakeImage ==
    /\ posted > 0 /\ ~sending
    /\ posted' = posted - 1
    /\ sending' = image_sink
    /\ UNCHANGED <<call, streamVars, created, frame, image_sink>>

\* ... and uses it.
SendI420Frame ==
    /\ sending
    /\ sending' = FALSE
    /\ program' = IF image_sink THEN program ELSE "crashed"
    /\ UNCHANGED <<call, graph, created, pw_stream, owner, active, frame,
                   image_sink, posted>>

Next ==
    /\ program = "running"
    /\ \/ CameraCall
       \/ \E on \in BOOLEAN : SetImageStream(on)
       \/ EndPlugin
       \/ \E s \in Live : DequeueBuffer(s)
       \/ OfferImage
       \/ QueueBuffer
       \/ TakeImage
       \/ SendI420Frame

Spec == Init /\ [][Next]_vars

-----------------------------------------------------------------------------
(* Properties. *)

\* A buffer goes back to the stream it was taken from, which is still alive,
\* whatever Dart starts, stops, disposes of or starts twice meanwhile: the
\* platform thread changes pw_stream_ only under the lock of the loop.
FrameKeepsItsStream ==
    \A f \in frame : pw_stream[f.camera] = f.from /\ f.from \in Live
=============================================================================
