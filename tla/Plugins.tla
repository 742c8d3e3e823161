------------------------------ MODULE Plugins -------------------------------
(***************************************************************************)
(* The plugins that share nothing but the engine's platform thread, each in *)
(* a module of its own: a behaviour is one of any of them.  What holds of   *)
(* the behaviours of each holds of any interleaving of all.                 *)
(*                                                                         *)
(* They see the calls of Dart as one variable, and a plugin that is not the *)
(* one a behaviour is of stays in its initial state.                       *)
(***************************************************************************)
EXTENDS SdkCalls

CONSTANTS
    AuthCalls, CameraCalls,                     \* the calls of these two plugins
    MaxListens, MaxStreams, MaxPosted, MaxRequests,     \* bounds
    MaxRetries,
    Apps, Handles, Keys, Values, NoValue, Cameras,
    MaxPlayers, MaxSubscribed, MaxIdle,
    MaxAttempts,
    Sources, NoSource, MaxBus, MaxSeeks, MaxCalls,
    Messages

ASSUME BoundsAssumption ==
    {MaxListens, MaxStreams, MaxPosted, MaxRequests, MaxRetries,
     MaxPlayers, MaxSubscribed, MaxIdle, MaxBus, MaxSeeks, MaxCalls} \subseteq Nat
ASSUME AttemptsAssumption == MaxAttempts \in Nat \ {0}
ASSUME SourceAssumption == NoSource \notin Sources

VARIABLES
    loaded,
    \* FirebaseAuth
    user, due, telling, attached, sink, streamOf, made, listener, listening,
    platform, heard,
    \* FirebaseCore
    apps, deleted,
    \* CloudFirestore
    instance, stream, kind, registered, current, ended,
    \* FirebaseStorage
    sleeper, task, dangling,
    \* SecureStorage
    stored, expected, excused, aborted,
    \* CameraStreams
    program, graph, created, pw_stream, owner, active, frame, image_sink,
    posted, sending,
    \* NetworkFetcher
    thread, attempts, requests, code, token, result, transient,
    \* AudioEvents
    player, players, disposing, streaming, watched, in_watch, cancelled, freed,
    event_channel, event_sink, subscribed, idle, delivered, crashed,
    \* FirestoreTransaction
    sdk, attempt, transactions, commands, applied, channel, handlers, dart, got,
    orderly,
    \* AudioPlayer
    url, initialized, playing, looping, seekCompleted, todo, calls, asked, copied,
    pipe, target, uri, seeks, drain, failed, bus, reported,
    \* PlatformMessages
    message

Auth      == INSTANCE FirebaseAuth WITH Calls <- AuthCalls
Core      == INSTANCE FirebaseCore
Google    == INSTANCE GoogleSignIn
Firestore == INSTANCE CloudFirestore
Storage   == INSTANCE FirebaseStorage
Keyring   == INSTANCE SecureStorage
Camera    == INSTANCE CameraStreams WITH Calls <- CameraCalls
Fetcher   == INSTANCE NetworkFetcher
Audio     == INSTANCE AudioEvents
Transaction == INSTANCE FirestoreTransaction
Playback  == INSTANCE AudioPlayer
Table     == INSTANCE PluginChannels
Pigeon    == INSTANCE PlatformMessages
                 WITH Channels <- Table!Channels, Unheard <- Table!Unheard,
                      Classes <- Table!Classes,
                      Reads <- Table!Reads, Writes <- Table!Writes,
                      Drops <- Table!Drops,
                      Dereferences <- Table!Dereferences

authVars == <<user, due, telling, attached, sink, streamOf, made, listener,
              listening, platform, heard>>
coreVars == <<apps, deleted>>
firestoreVars == <<instance, stream, kind, registered, current, ended>>
storageVars == <<sleeper, task, dangling>>
keyringVars == <<stored, expected, excused, aborted>>
cameraVars == <<program, graph, created, pw_stream, owner, active, frame,
                image_sink, posted, sending>>
fetcherVars == <<thread, attempts, requests, code, token, result, transient>>
audioVars == <<player, players, disposing, streaming, watched, in_watch,
               cancelled, freed, event_channel, event_sink, subscribed, idle,
               delivered, crashed>>
transactionVars == <<sdk, attempt, transactions, commands, applied, channel,
                     handlers, dart, got, orderly>>
playbackVars == <<url, initialized, playing, looping, seekCompleted, todo, calls,
                  asked, copied, pipe, target, uri, seeks, drain, failed, bus,
                  reported>>
vars == <<loaded, call, authVars, coreVars, firestoreVars, storageVars,
          keyringVars, cameraVars, fetcherVars, audioVars, transactionVars,
          playbackVars, message>>

TypeOK ==
    /\ loaded = "auth" => Auth!TypeOK
    /\ loaded = "core" => Core!TypeOK
    /\ loaded = "firestore" => Firestore!TypeOK
    /\ loaded = "storage" => Storage!TypeOK
    /\ loaded = "camera" => Camera!TypeOK
    /\ Keyring!TypeOK
    /\ Fetcher!TypeOK
    /\ Audio!TypeOK
    /\ Transaction!TypeOK
    /\ Playback!TypeOK

\* The calls are those of the plugin that is loaded; the others hold one of
\* their initial states.
Init ==
    /\ loaded \in {"auth", "core", "google", "firestore", "storage", "keyring",
                   "camera", "fetcher", "audio", "transaction", "playback",
                   "channels"}
    /\ call = [c \in CASE loaded = "auth"   -> AuthCalls
                       [] loaded = "camera" -> CameraCalls
                       [] OTHER             -> Calls |-> Unasked]
    /\ Auth!StateInit
    /\ Core!StateInit
    /\ Firestore!StateInit
    /\ Storage!StateInit
    /\ Keyring!Init /\ (loaded # "keyring" => stored = Keyring!Absent)
    /\ Camera!StateInit /\ (loaded # "camera" => graph = "down")
    /\ Fetcher!Init
    /\ Audio!Init
    /\ Transaction!Init
    /\ Playback!Init
    /\ Pigeon!Init

Step(p, next) == loaded = p /\ next /\ UNCHANGED loaded

Next ==
    \/ /\ Step("auth", Auth!Next)
       /\ UNCHANGED <<coreVars, firestoreVars, storageVars, keyringVars,
                      cameraVars, fetcherVars, audioVars, transactionVars,
                      playbackVars, message>>
    \/ /\ Step("core", Core!Next)
       /\ UNCHANGED <<authVars, firestoreVars, storageVars, keyringVars,
                      cameraVars, fetcherVars, audioVars, transactionVars,
                      playbackVars, message>>
    \/ /\ Step("google", Google!Next)
       /\ UNCHANGED <<authVars, coreVars, firestoreVars, storageVars,
                      keyringVars, cameraVars, fetcherVars, audioVars,
                      transactionVars, playbackVars, message>>
    \/ /\ Step("firestore", Firestore!Next)
       /\ UNCHANGED <<authVars, coreVars, storageVars, keyringVars, cameraVars,
                      fetcherVars, audioVars, transactionVars, playbackVars,
                      message>>
    \/ /\ Step("storage", Storage!Next)
       /\ UNCHANGED <<authVars, coreVars, firestoreVars, keyringVars,
                      cameraVars, fetcherVars, audioVars, transactionVars,
                      playbackVars, message>>
    \/ /\ Step("keyring", Keyring!Next)
       /\ UNCHANGED <<call, authVars, coreVars, firestoreVars, storageVars,
                      cameraVars, fetcherVars, audioVars, transactionVars,
                      playbackVars, message>>
    \/ /\ Step("camera", Camera!Next)
       /\ UNCHANGED <<authVars, coreVars, firestoreVars, storageVars,
                      keyringVars, fetcherVars, audioVars, transactionVars,
                      playbackVars, message>>
    \/ /\ Step("fetcher", Fetcher!Next)
       /\ UNCHANGED <<call, authVars, coreVars, firestoreVars, storageVars,
                      keyringVars, cameraVars, audioVars, transactionVars,
                      playbackVars, message>>
    \/ /\ Step("audio", Audio!Next)
       /\ UNCHANGED <<call, authVars, coreVars, firestoreVars, storageVars,
                      keyringVars, cameraVars, fetcherVars, transactionVars,
                      playbackVars, message>>
    \/ /\ Step("transaction", Transaction!Next)
       /\ UNCHANGED <<call, authVars, coreVars, firestoreVars, storageVars,
                      keyringVars, cameraVars, fetcherVars, audioVars,
                      playbackVars, message>>
    \/ /\ Step("playback", Playback!Next)
       /\ UNCHANGED <<call, authVars, coreVars, firestoreVars, storageVars,
                      keyringVars, cameraVars, fetcherVars, audioVars,
                      transactionVars, message>>
    \/ /\ Step("channels", Pigeon!Next)
       /\ UNCHANGED <<call, authVars, coreVars, firestoreVars, storageVars,
                      keyringVars, cameraVars, fetcherVars, audioVars,
                      transactionVars, playbackVars>>

Spec == Init /\ [][Next]_vars

-----------------------------------------------------------------------------
(* Properties, each of the module that it is about. *)

\* The sink of a listener is not reset while OnIdTokenChanged or
\* OnAuthStateChanged is between its test of event_sink_ and its use.
SinkInUseIsSet == Auth!SinkInUseIsSet

\* A subscriber of the id tokens or the authentication state that has nothing
\* on its way to it last heard of the user who is signed in.
StreamIsCurrent == loaded = "auth" => Auth!StreamIsCurrent

\* A stream of Firestore snapshots that was cancelled stays ended.
CancelledStaysEnded == Firestore!CancelledStaysEnded

\* What Dart was told is stored in the keyring is what it holds, unless the
\* keyring has failed or an item was written to an empty one.
StoresWhatWasTold == Keyring!StoresWhatWasTold

\* A camera's buffer goes back to the live stream it was taken from.
FrameKeepsItsStream == Camera!FrameKeepsItsStream

\* The network fetcher's operation that meets only codes that may pass makes no
\* more requests than max_retries allows.
RetriesAreBounded == Fetcher!RetriesAreBounded

\* An event of an audio player that was disposed of is never sent to Dart.
SilentAfterDispose == Audio!SilentAfterDispose

\* What a transaction of Firestore commits is Dart's answer to that very attempt,
\* as long as every attempt was woken by a stored result.
CommitsOwnAnswer == Transaction!CommitsOwnAnswer

\* A handler that reads while its attempt waits for it reads through the
\* transaction of that attempt.
GetReadsOwnAttempt == Transaction!GetReadsOwnAttempt

\* Once a change of source is done, the audio player's playbin has the url that
\* was set last.
PlaysSourceSetLast == Playback!PlaysSourceSetLast

\* The end of a source is told once, by AboutToFinish or by its EOS.
CompletesOnce == Playback!CompletesOnce

\* A message on a channel of a host API is replied to once, unless its method
\* lost the reply.
RepliedOnce == Pigeon!RepliedOnce

\* The two halves of each codec agree: no message of objects that Dart can make
\* fails to be decoded, but the one that initialises google_sign_in, and an
\* object in a reply is read back as one of its class.
CodecsAgree ==
    /\ \A m \in Messages :
          message[m].state = "undecoded"
              => message[m].channel = Table!Firebase!Init
    /\ Pigeon!ReplyReadsBack
=============================================================================
