# Verification of the ivi-homescreen plugins

TLA+ models of the parts of `ivi-homescreen-plugins` that run concurrently,
fail in the middle or depend on the order of messages, the TLC runs that check
them on small instances, and TLAPS proofs of what matters most for instances of
any size. `PROJECT.json` lists components, runs, mutants (a plausible bug in the
code for every checked property, which the run must find), the source lines of
every definition, findings, hazards and theorems.

Contents: 1 the system · 2 modules and how they correspond to the code ·
3 runs, bounds and what they show · 4 fairness · 5 proofs · 6 findings and
known deviations · 7 what is not modelled · 8 plan · 9 running the checks

## 1. The system

The repository is a set of C++ plugins for the ivi-homescreen Flutter embedder.
Each plugin registers Pigeon or method-channel handlers, which the embedder
calls on its platform thread; plugins do not call each other, and share only
`plugins/common`. What makes some of them hard is the threads they add
themselves: an asio `io_context`, detached threads for libflatpak transactions,
the sdbus event loop, GLib's main loop, GStreamer's streaming threads, SDK
completion threads, PipeWire's loop. What they have in common is the generated
code of their channels, by which every call of Dart comes in and is answered.

### 1.1 Inventory of what is modelled

| Part | State it keeps | Operations | Hard behaviour | What makes it correct |
|---|---|---|---|---|
| flatpak: operation tracker (`operation_tracker.{h,cc}`) | map of tracked installs with their bytes, atomic pending total | TrackOperationStart, SetOperationSize, SendOperationFinish, ClearOperation, each posted to the io_context | the total is read from other threads before posted changes have been applied | the total is the sum of the entries and never underflows; entries do not stay behind |
| flatpak: install pipeline (`flatpak_shim.cc` ApplicationInstall, OnTransactionReady, check_disk_usage) | a detached thread per call, the strand's queue, the disk | install in up to two transactions, each with its failures | calls overlap; a disk check and its reservation are apart; eleven exits | one callback per call, the right answer, the disk is not overcommitted |
| flatpak: sessions (`ApplicationStart`, `ApplicationStop`, `monitor_app`, portal manager) | sessions and their timers, portal contexts and proxies, child processes | start, poll every 500 ms, stop with SIGTERM and SIGKILL | a start replaces a session whose monitor is running; a stop runs on another thread without the mutex | one monitor per application, portals while a process exists, stop stops |
| flatpak: permission dialogs (`RequestAppLaunchPermission`, `HandlePermissionResponse`, permissions portal) | requests in progress, event sink, the permission store | look-ups in parallel, one dialog after the other, writes | three threads; the store fails or answers in any order; Flutter disconnects | one callback, with a decision for each permission, and no grant the user did not give |
| flatpak: uninstall and update (`ApplicationUninstall`, `ApplicationUpdate`, `RemoveAllAppPermissions`) | event sinks by application, a transaction's thread, deletions without a reply | transaction signals, last event, deletion of permissions | two operations share one sink; replies of the store in any order, some inline | callback once and last, no permission left, last event heard and last |
| flatpak: query cache (`cache/`) | SQLite table, policy, clean-up thread | queries under four policies, forced refresh, invalidation, clean-up, destructor | data changes between fetch and store; old database after a restart; lost notification | hits within the TTL, forced means fresh, the destructor returns |
| flatpak: network fetcher (`curl_network_fetcher.cc`) | the code of the last response, shared by all its users | Fetch, Post, their retries, IsNetworkAvailable | an operation judges a code another request may have left | retries are bounded |
| video_player_linux: player (`video_player.cc`) | atomics for target state, buffering, rates; audio sink; event sink | play, pause, seek, speed, looping, audio and video chain, dispose; bus handlers; hot-plug | three threads and no common mutex; round trips through READY lose state | "initialized" is heard, play is not lost, speed is kept, dispose returns |
| audioplayers_linux: a player (`audio_player.cc`) | atomics for initialised, playing, looping, seek completed; the url | source, resume, pause, stop, seek, loop, release; the bus watch; about-to-finish | three threads and no common lock; a flag that stays false locks out every later seek | it plays the source set last, an end is told once, an early resume is made good, seeks recover |
| audioplayers_linux: events and disposal (`audioplayers_linux_plugin.cc`) | players by id, shared state with sink and `cancelled`, idle queue | create, dispose, listen, cancel, events from three threads | an event outlives its player, whose id and channel may be another's by then | silence after dispose |
| cloud_firestore: transactions (`cloud_firestore_plugin.cc`) | `transactions_`, `commands_`, a condition variable | create, listen, the SDK's attempts, get, store the result, cancel | the wait has no predicate and another mutex than the answer; attempts repeat | what is committed is the answer to that attempt; the transaction ends |
| cloud_firestore: calls and streams | instances, four kinds of stream, registrations with the SDK | every call; listen and cancel | the SDK speaks on its own thread on a sink that Dart has ended | a cancelled stream stays ended |
| firebase_auth | the SDK's user, a listener per stream | every call; two streams | the SDK tells listeners under its mutex while the platform thread arms and disarms sinks | no sink is taken while it is used; a subscriber is up to date |
| firebase_core, firebase_storage, google_sign_in | apps; tasks and futures; nothing | every call | storage sleeps on the platform thread and leaves a listener on the stack | every message is answered (see channels) |
| secure_storage | one JSON document in the keyring | write, read, contains, delete | read-modify-write of the whole; a failed look-up writes | what Dart was told is stored is stored |
| camera_pipewire | a stream per texture, the image sink | create, initialize, pause, picture, dispose; frames; image stream | PipeWire's thread is in a frame while Dart replaces its stream; a third thread sends images | a buffer goes back to the live stream it came from |
| platform channels (`messages.g.cc` of nine plugins, webview_flutter_view's among them) | a message and its reply | decode, unpack, call, reply | two codecs per API that must agree; throws outside the try; replies kept, lost or given later | one reply per message, and objects survive both codecs |

How they interact: the plugin class (`flatpak_plugin.cc`) turns Dart calls into
strand handlers (install, uninstall, update, start) or runs them at once (stop,
queries through the cache). Install threads post to the tracker and, when they
fail, call ApplicationStop. A start goes through the permission dialogs and then
registers portals; an uninstall deletes what the dialogs stored. The other
plugins meet only on the platform thread and in the form of their channels.

### 1.2 Inventory of what is not

| Part | State and operations | Hard behaviour | Verdict |
|---|---|---|---|
| webview_flutter_view, besides its channels | CEF's browser and a thread for it | `browser_` used before it exists, `on_dispose` while OnPaint runs, a second CefInitialize, `cef_thread_` still joinable when destroyed | CEF has its own processes and order; without a model of it the hazards cannot be told from CEF's promises |
| camera | stubs that answer a constant; acquiring a camera | libcamera's | wrapper |
| webrtc, nav_render_view | WebRTC; a closed library | theirs | wrappers |
| google_sign_in: `google_sign_in.cc` | two credential files | none | nothing calls it |
| pdf, rive_text, comp_surf, comp_region, layer_playground_view, chromium_dart_view | surfaces and conversions | none of their own | no protocol |
| desktop_window_linux, go_router, url_launcher, file_selector, integration_test | none between calls | none | request and reply |
| flatpak: cache observers | counters for logging | none | decides nothing |
| common | main loop, curl, D-Bus, JSON, UUID helpers | the main loop's thread is an actor of VideoPlayer | helpers |

The hazards of all of these, modelled or not, are listed in `PROJECT.json`
"hazards" at the line where they bite, with the properties that cover them or
the reason why none does.

## 2. Modules

Every component module declares its CONSTANTS (with a named ASSUME, in `Plugins`
for the modules it composes), its
VARIABLES grouped by owner, one action per handler (or per stretch of a handler
between two points where another thread can interfere), Next, Spec, FairSpec
where liveness is checked and, at the end, its properties. Definitions that begin with "Mutant:" in their
comment are the plausible bugs the mutant runs substitute; no action of Next
uses them.

| Module | Models | Uses |
|---|---|---|
| `OperationTracker` | the tracker: map, total, posted handlers | |
| `InstallQueue` | ApplicationInstall over the tracker | EXTENDS OperationTracker |
| `InstallService` | what an install call promises, abstractly | INSTANCEd by InstallQueue with `phase <- PhaseOf` |
| `AppSession` | start, monitor, stop, portals | |
| `PermissionService` | what a permission call promises, abstractly | INSTANCEd by PermissionDialogs with `phase <- Phase` and the like |
| `PermissionDialogs` | permission requests and answers | |
| `AppRemoval` | uninstall, update, events, deletion of permissions | |
| `FlatpakCache` | cache manager and SQLite storage | |
| `VideoPlayer` | one player on three threads | |
| `FirestoreTransaction` | a transaction of cloud_firestore with its attempts | |
| `AudioPlayer` | what one audio player plays | |
| `AudioEvents` | the audio players made under one id, and their events | |
| `SdkCalls` | a call answered now, by a future of an SDK, or never | |
| `FirebaseAuth`, `FirebaseCore`, `CloudFirestore`, `FirebaseStorage`, `GoogleSignIn`, `CameraStreams` | the plugin of that name | each EXTENDS SdkCalls |
| `SecureStorage` | the keyring's document | |
| `NetworkFetcher` | retries of the cache's fetcher | |
| `PigeonChannels` | what a generated channel is made of | |
| `AuthChannels`, `CameraChannels`, `FirebaseChannels`, `FirestoreChannels`, `FlatpakChannels`, `VideoPlayerChannels`, `WebViewChannels` | the channels of one plugin, as a table (firebase_core, firebase_storage and google_sign_in in one) | each EXTENDS PigeonChannels |
| `PluginChannels` | all tables, and what the methods do with the reply | INSTANCEs the tables |
| `PlatformMessages` | a message on any channel, from arrival to reply | EXTENDS PigeonChannels |
| `Plugins` | the plugins that share nothing, composed | INSTANCEs their modules, PluginChannels and PlatformMessages |
| `MC*` | values of structured constants for TLC | EXTENDS the module and TLC |
| `*Proofs` | theorems | EXTENDS the module and TLAPS |

The models of the flatpak parts are separate because their state is: the
tracker and the installs share state and are composed, the others meet only in
the strand's queue and in the permission store, and each model leaves the
other's use of these free (permissions appear in AppRemoval by
`PermissionStored`, dialogs end at any time in AppSession, applications are
uninstalled at any time in InstallQueue).

### 2.1 Threads in the flatpak plugin

One thread runs the io_context, and thus both its raw posts and the strand
wrapped around it. asio orders the strand's handlers among themselves and one
poster's raw posts among themselves; the models promise no order between the
two. `posted` is the raw queue and `strandq` the strand's. AppSession and
PermissionDialogs keep pending handlers of different calls as sets, that is, in
any order, which includes the order the code produces. The platform thread,
each detached transaction thread (one per call), the sdbus thread and the
cache's clean-up thread interleave freely with it.

### 2.2 OperationTracker, InstallQueue, InstallService

`active_ops`, `total_pending_bytes` are the tracker's members, with the total
in Int so that an underflow would be a negative number. Each mutator of the code
posts a lambda, which is a record in `posted`; RunHandler runs the one at the
head. `total_ops`, `completed_ops`, `completed_ref` and `is_app` only fill
events and are left out.

`lost` and `replaced` are history: the bytes of entries that a second start of
an application has overwritten, which nobody subtracts, and those applications.
MaxCalls bounds the calls made out of `Calls`.

`pc` is where a call is. StartsOnStrand has four outcomes (InstallRejected,
AlreadyInstalled, Phase1SetupFails, Phase1Starts). On the thread of the call
MeasureDisk reads the free space and Admit/Refuse compare it with the total at
a later step, as `check_disk_usage` does, counting the install's own size
twice as the code does (once in `claimed`, once in the requirement). The two
transactions fetch bytes and may fail or leave the application uninstalled.
Closing handlers differ in whether they finish the tracker's operation, which is
why they carry `finish`. `left` (bytes still to fetch) and `callbacks` are
history the code does not keep.

InstallService states the promise: a call is decided once, "ok" only at a
moment when the application is installed, and its decision reaches the caller.

### 2.3 AppSession

`active_sessions` is the map of MonitorSessions by application, `timer` the
pending steady timers, `handler` the monitor step the io thread is in (between
the process check and the rescheduling a stop may change the map), `stop` the
progress of an ApplicationStop on each thread that calls it, with the
iterator's validity. `app_context` is PortalManager's map. A start whose
runtime is missing installs it first (CheckRuntime, RuntimeTransactionEnds,
RuntimeInstalled), and then its extensions (AfterExtensions,
ExtensionTransactionEnds), each in a transaction on a thread of its own. A
failed runtime installation, or a missing remote, reaches `value()` of an error
inside a handler and terminates the process; `plugin` records that, and
"undefined" where a stop would use an iterator another thread has invalidated.
cleanup_app is modelled as it behaves:
its compare_exchange finds the flag already set and returns.

### 2.4 PermissionDialogs

A call looks all permissions up (`found`), stores a request in `active` under
an id made of the clock's milliseconds, and shows one dialog after the other.
`storing` holds SetPermission calls without a reply; `giveup` are requests that
SendPermissionEvent could not send and whose erasure is still to come, the
window in which the store's reply may still advance them. AskedBefore lets the
store start with earlier decisions. What is asked for is a subsequence of what
the application needs, stated by the rank of each position (`Nth`) instead of by
a recursion, so that it can be reasoned about.

Nothing keeps ids apart: Ask takes any id read before, or a new one, and replaces
the request that has it. A dialog may be answered twice (UserAnswersTwice), and
the code puts the second answer into whatever the request has come to. `askers`
and `mixed` are history: who has asked under each id, and the ids that were taken
while something was under way for them or whose dialog was answered twice. The
calls under a mixed id are Confused, and Claimed is what the user granted,
widened to all who asked under one mixed id. Dialogs and writes to the store
carry the call, and with it the application, of the request they were made from.

PermissionService states the promise to ApplicationStart without requests, ids,
dialogs or threads: a call waits, the user may grant at any moment, and the call
is called back once, either with a decision for every permission its application
needs and no "yes" that does not count as the user's, or with nothing when it
needs none or Flutter did not listen when somebody should have been asked. Its
fairness is that a call that waits is called back. A call may become confused
instead; then it is promised one callback at most, with any decisions.

### 2.5 AppRemoval

`strandq` is the strand in order, because the order of events and the closing
handler is what two properties are about. TransactionEnds frees the transaction
and posts the closing handler; events that are still queued then hold a pointer
to a freed id, so their delivery is a choice between the id being intact, lost
and fatal. `total` and `counter` are RemoveAllAppPermissions' counters of
deletions and replies. `witness` and `owed` are history: whether Flutter has
listened since an operation's first event, and which entries an uninstall found
and nobody has written since.

### 2.6 FlatpakCache

Cached data is its version; `changed[k][v]` is when version v replaced v-1.
A query is in `call[c].pc`: it looks up, fetches (the moment it reads the
installation), stores and returns, and falls back to what is cached according
to the policy, as ExecuteOperation does with the four policies. `since` and
`spoilt` of a call are history: the version a forced refresh must not fall behind,
and what has let an older entry stay or come back (its DELETE failed; another
query's older result was stored). `db` survives Restart. A unit of time is longer than the hand-over of a fetched result to the
database; Tick says so in its guard.

### 2.7 VideoPlayer

`thread[t].at` is where the platform thread and the main loop are inside a
handler; a handler is cut where another thread can see or change what it works
on (between reading the rate and seeking, between clearing the buffering flag
and setting the state, and so on). `pipe` is GStreamer's side: the state,
the state it was told to reach (`want`), the segment rate and the bus.
SetState models what set_state does to a playbin: downwards at once, upwards
one Advance at a time, the rate lost below PAUSED, the bus emptied in NULL, and
no way below PAUSED while the streaming thread is in its callback. That wait is
how Dispose could deadlock, hence `gst_mutex` and `stream`.

SetOutputChannels stands for every call with a round trip through READY on the
audio chain (mix presets and equaliser bands take the same path); SetVideoBalance
is modelled up to the shader's first use. `hist.asked` is the state last set for
its own sake, `hist.misread` tells that a round trip restored another one, and
`hist.raced` that a speed was chosen, or applied, by one thread while the other
was between its steps of doing so: the two properties that except these say so.

### 2.8 FirestoreTransaction

`sdk` is where the SDK's thread is in the lambda it runs once per attempt, `dart`
the other end of the event channel, `channel` the events between them. The
answer is represented by the attempt it was the answer to: `commands` is what
TransactionStoreResult left, `applied` what the lambda has taken. Wait only
becomes "waiting"; a notification before that wakes nobody, as in the code, and
TimeOut, SpuriousWakeUp and OnCancel wake without an answer. `orderly` is
history and tells that this has not happened. The SDK may commit, retry or give
up after each attempt.

### 2.9 AudioPlayer and AudioEvents

In AudioPlayer a function of the player is a list of steps between which another
thread can come (`Pause == <<"clear_playing", "if_initialized", "pause_pipe">>`),
and `todo` what the platform thread and the main loop's thread have still to do,
so that the handlers of the bus use the same functions as Dart's calls, as they
do in the code. `pipe`, `target`, `uri`, `drain`, `seeks` and `bus` are playbin's
side; set_state(NULL) waits for the streaming thread and flushes the bus.

AudioEvents is about life and death: `player` is the one the id maps to,
`disposing` the step the destructor is at, `event_channel` whose handler the
channel has, `idle` the queued events by player. A throwing constructor leaves
its handler registered (CreateThrows). An OnBusMessage that is running while the
watch is removed goes on with a deleted player (WatchUsesFreed, see 6).

### 2.10 SdkCalls and the plugins that use it

A method of these plugins answers at once, hands its reply to a future, or loses
it; `call` is what became of each call. A future ends in the SDK and is answered
in a later step, on the SDK's thread, because the callback reads state that may
have changed in between. The plugin's module gives every method of its interface
a line, and adds the state the plugin really has:

- FirebaseAuth: the steps of Listen and Cancel on the platform thread (`platform`)
  against the SDK, which tells listeners while it holds its mutex (`telling`).
- FirebaseCore: the apps of the SDK; methods the SDK lacks answer as if done.
- CloudFirestore: `registered` are the SDK's callbacks, `current` the one the
  handler can still remove, `ended` the streams whose last event was the end.
- FirebaseStorage: `sleeper` is whom the platform thread sleeps for; `dangling`
  that the SDK used a listener on a stack frame that was gone.
- GoogleSignIn: two methods answer, the others drop the reply.
- CameraStreams: `pw_stream` is what the camera holds, `owner` which camera each
  live stream calls; the frame handler holds the loop's lock from DequeueBuffer to
  QueueBuffer, and the platform thread takes it to start and stop.

SecureStorage and NetworkFetcher stand alone. In the first, `expected` is what
Dart was told and `excused` that the keyring failed or an item was written to an
empty one; in the second an operation's `requests` are counted beside the
`attempts` of the code.

### 2.11 The channels

The `messages.g.cc` files are generated but are the code that runs, and they
disagree with each other, because several versions of the generator made them.
A table has a row for each channel: name, codec, arguments and result, each with
the class it needs and what its absence does: refused with an error, passed on as
null, or a throw by a cast that comes before the test. For each codec it has the
type bytes of WriteValue and ReadValueOfType, and for each class what
ToEncodableList writes and FromEncodableList reads. PluginChannels adds, from the
plugins, which methods lose their reply (`Drops`), dereference a null argument
(`Dereferences`) and which channels have no handler (`Unheard`).

PlatformMessages takes a message through all of that. The codec runs before the
handler's try, so what it throws is not answered by the handler. Refuse, Throw
and MethodThrows answer with an error; a method returns, answers in the call,
keeps the reply for a thread of its own, or loses it.

### 2.12 Plugins

`loaded` is the one plugin a behaviour is of; the others stay in their initial
state. As these plugins share no variable, an interleaving of several takes each
of them through states it also reaches alone, so the union of their state spaces
says as much as the product at a fraction of its size. Each property is the one
of the plugin's module. The exception to "no shared variable" is the platform
thread, which runs one handler at a time: leaving the others' handlers out only
removes stutter.

## 3. Runs

States are distinct states; bounds are the constants of the cfg.

| Run | Bounds | States | What it shows |
|---|---|---|---|
| `queue` | any 2 of 3 calls, two of which name one application; sizes 1, reserve 1, up to 4 bytes free | 183,292 | the total is the sum of the entries and of what replaced ones lost; each callback at most once; the pipeline implements InstallService with its fairness |
| `queue_overcommit` | 3 calls on 3 applications, up to 3 bytes free | violation | AdmittedFitOnDisk |
| `queue_stuck` | 1 call | violation | FinishedLeavesQueue |
| `session` | 2 starts of 1 application, stops from both threads, 2 portals | 7,026 | one monitor per application, portals kept, starts answered, monitors end, stops return |
| `session_stop` | 1 start, 1 stop | violation | StoppedMeansNotRunning |
| `permissions` | 3 applications that need two, one and no permissions, one asked before; 2 ids, 1 dialog that may be answered twice | 382,520 | complete decisions, only the user's grants, each but for confused calls; the dialogs implement PermissionService with its fairness, so every other call goes on |
| `removal` | an uninstall and an update of 1 application, 1 fixed and 1 device permission, 1 event each | 385,723 | callback once and last, clean removal, last event heard and last, every call answered |
| `cache` | 2 callers, 1 key, TTL 1, 1 change, time up to 2 | 928,372 | TTL and freshness over restarts, failing deletions and overtaking stores; the destructor returns |
| `video` | a video with an audio sink and an audio file without, 2 speeds, 3 calls, 2 events | 1,260,975 | "initialized" is heard, play holds, speed is honoured, dispose returns |
| `transaction` | 3 attempts | 37,255 | the transaction ends for Dart, and the SDK's thread is let go (liveness; the safety is in `plugins`) |
| `audio` | 2 sources, 5 calls, 2 messages on the bus, 1 seek at a time | 291,992 | an early resume is made good, seeks recover (liveness; the safety is in `plugins`) |
| `plugins` | per plugin, see below | 911,129 | what 1.1 lists for the auth, Firestore, storage, camera, fetcher, audio-event and channel models; the SDK commits the answer to that attempt and a read goes through its own attempt; the source set last plays and an end is told once |

`plugins` is one run over twelve disjoint state spaces. Calls are reduced by
symmetry (c1 and c2, and the two users): no plugin tells them apart, and the one
action property speaks of neither. Its bounds: 3 calls (2 on firebase_auth, 4 on
camera_pipewire), 2 users, 2 listens per authentication stream, 2 Firebase apps,
2 storage handles, 2 keys and 2 values in the keyring, 2 cameras with 2 PipeWire
streams in all and 1 image under way, 2 retries and at most 4 requests, 2 audio
players under one id with 2 subscriptions and 3 queued events, 1 message over all
channels; a transaction and a player as in their own runs.

Why the bounds are enough for what they ask. The tracker's arithmetic goes
wrong with two entries if at all, a second call on the same application is the
smallest overlap, and a call of another application beside it the smallest case
in which the two must not touch each other; a third call at a time adds no new
kind of step to the tracker (TotalCorrect is for any number). Disk admission
overcommits from three on, because the code counts an install's own size twice,
hence the three calls of `queue_overcommit`. A session is
replaced by the second start. Two applications are enough for one's answer to
reach the other's request, with the third for the path without dialogs; two ids
let requests share one, have one each, or reuse one after the other, and only
whether two are equal matters, so a new id is the least unused. One answer may be
given twice (`Hasty`: the yes to the first of two dialogs, which then stands for
the second). One
transaction event is enough for a queued event behind a freed transaction. The
cache needs one expiry and one change inside a query (MaxClock 2 lets an entry
be hit, expire and be stored again), and two callers for one to overtake the
other; keys do not interact, so one is enough (with one caller and two keys:
the same properties hold over 413,172 states). A player sees any three calls in any order
with two of end-of-stream, buffering and hot-plug: each hazard listed for it
needs two calls and one event at most. A transaction's second attempt is where
an old answer can be mistaken for a new one, and its third where one can be
skipped. Five calls let an audio player be given two sources, played, paused and
sought in any order; a second message on the bus is what a source change can
leave behind or flush. Two streams and four calls let a camera be initialised
again while a frame of its first stream is handled, and then disposed of; two
listeners and two users let one be told of a user who is gone while the next is
added; two players under an id are the smallest case of an event of one reaching
the other's subscriber. One message is enough for the channels because handlers
share nothing between messages. Safety of `session` was also checked with
three starts on two applications (280,869 states), and safety of `video` with
all four kinds of media (about 4.57 million states); both hold, and are not kept
as runs because they take too long for every check.

Deadlock checking is off where the bounds make the system stop (every call
made, every event used) and on in `cache`, which never stops.

The exceptions written into the properties are part of what they say:
ProcessedMeansDecided and the liveness of ImplementsService except calls whose
request shares its id with another's or whose dialog was answered twice, and
GrantsAreUsers counts a grant as given to all who asked under such an id;
ForcedIsFresh excepts a cached answer after the call's DELETE failed or another
thread's older result was stored; TotalIsSumOfEntries the bytes of replaced
entries, of applications installed again only; CleanRemoval excepts uninstalls by ref and unreadable device lists;
FinalEventHeard excepts a listener another operation has disturbed;
StartAnsweredWhileUp, ExitEndsMonitor, StopReturns and EveryCallAnswered of
AppRemoval except a plugin that has gone down; PlayHolds and SpeedHonoured
except a misread or raced round trip; CommitsOwnAnswer excepts a wake-up without
an answer, which is the hazard itself (2.8); StoresWhatWasTold a keyring that
failed and a write to an empty one; RepliedOnce the methods that lose their
reply; CodecsAgree the initialisation of google_sign_in, and RetriesAreBounded
codes the loop does not count (all in 6). Mutants show that each property still
rejects a plausible bug.

## 4. Fairness

- `InstallQueue`: weak fairness of the raw queue, of the strand and of each
  call's thread. The io_context's thread runs until the plugin's destructor,
  and libflatpak's transactions return. Dart need not call; nobody need
  uninstall.
- `AppSession`: strong fairness of each start's strand handler and of its
  timer, because other handlers can occupy the one io thread again and again
  while a handler already queued is still served in turn; weak fairness of the
  monitor step in progress, of the runtime check with its transactions (libflatpak
returns) and of a stop in progress,
  whose waiting loop is bounded to fifty rounds of 100 ms. Dialogs and
  applications may last for ever.
- `PermissionDialogs`: weak fairness of the io thread's steps of calls and of its
  answers, of erasing given-up requests, of the store's replies (sdbus answers by
  itself after its timeout) and of the user, each as a whole: as calls and dialogs
  are finitely many, all are served. The user is an assumption of the liveness
  property and not of the code: there is no timeout on a dialog. He need not
  answer twice.
- `AppRemoval`: weak fairness of the strand, of the end of each transaction and
  of each reply of the store.
- `FlatpakCache`: weak fairness of the clean-up thread (its sleep is bounded by
  the interval), of NotifyAll and of Join, all threads that nothing blocks.
- `VideoPlayer`: weak fairness of the platform thread inside a call and of a
  streaming callback, nothing for the main loop, the pipeline, or the calls:
  Dispose must return without their help.
- `FirestoreTransaction`: weak fairness of the lambda (the timeout of its wait is
  one of its steps), of the SDK and of the delivery of events. Nothing obliges
  Dart to answer, to listen or to cancel.
- `AudioPlayer`: weak fairness of each thread inside a function, of the watch on
  the bus and of about-to-finish's hand-over; strong fairness of playbin's changes
  of state and of its seeks, which post on the bus and which the bound of the bus,
  the model's own, must not hold up for ever. Nothing for Dart.
- The models of `Plugins` are checked for safety and state none.

## 5. Proofs

Checked by TLAPS (`tlapm` 1.4.5, SMT/Z3, Zenon, LS4), for every value of the
constants that satisfies the module's ASSUME; what a theorem assumes beyond that
is said here. The invariants were first checked by TLC. Every safety invariant
and every action property of a run that passes has its theorem. Of the liveness
properties the safe half is proved for many, under a name of its own: what has been
begun always has somebody who will go on with it. That he does is fairness, and
stays with TLC.

**InstallQueueProofs.** TypeCorrect: `Spec => []TypeOK`.

- TotalCorrect, of any calls. A second TrackOperationStart of an application
  overwrites an entry whose bytes stay in the total: `lost` counts them, and the
  property says that only an application of which two calls have started
  (`~Alone`) loses any. By itself it is not inductive: a posted
  TrackOperationStart might find an entry. Accounting adds that nothing is tracked
  or posted for an application without a started call (Untouched), that a posted
  start of an application with one started call is the first handler for it and
  finds no entry (StartsLead), and that only started calls are closed. AccountingStep
  shows that every action keeps it. The sum is stated as the cardinality of a set
  with one pair per byte, so that lemmas about how Assign and Erase change it
  (AssignShare, EraseShare) need finite sets and no induction over data.
- TotalNeverWraps follows: a sum of entries and lost bytes is no less than zero.
- CallbackOnce: Closing says that a call has at most one handler on the strand,
  that the handler fits where the call is, and that the caller has been told
  exactly when no handler is left for an ended call.
- InstallKeepsPromise is the refinement: `Spec => Service!Spec`. Each action
  becomes a step of InstallService or none, in a lemma of its own; Closing gives
  the facts about the handler at the strand's head. The fairness half of
  ImplementsService stays with TLC.

**AppSessionProofs.** TypeCorrect for the whole protocol with its runtime
transactions. OneMonitor from TimersCurrent (every pending timer belongs
to the session the map holds, and not to an application whose monitor is just at
work) and SessionsLaunched (the map holds sessions of starts that have launched,
under their own application). PortalsKept from RegisteredFirst: an application is
registered from the moment a start of it goes on to the launch until its last
process has gone, because the monitor never gets to unregister it.

Five more are about what is begun and must go on. ActiveWatched: no monitor is
lost; a session in the map has a timer or the handler that is busy with it, until
it is cancelled. It needs TimersCurrent, because an Erase takes the timers of the
session it erases (EraseWatched, StaysWatched). StartsToldWhatHappened ties the
answer of a start to whether a process was started for it, and ToldOnce is the
action property that an answer stays. StopsAreHeld says what a stop under way has
in hand, and the action property StopsLoseToStopsOnly how it can lose it: whichever
threads call ApplicationStop, its iterator is good through starts, monitors and
exits until the other thread erases the same application, by a stop that ends or
by is_app_running. That this can happen is in section 6.

**PermissionDialogsProofs.** Nothing is assumed of ids, of the clock or of how
often the user answers. TypeCorrect; OnlyTheUserGrants and CallbackIsComplete from
the invariant DialogInv, which is TypeOK with four parts, each with a lemma about
ShowNextDialog, which three actions call, and a lemma for the step:

- Sequenced: for each id that is not mixed one thing at most is under way: a
  dialog, a posted answer or a decision being written. That is why
  HandlePermissionResponse, which advances whatever request has the id, can do no
  harm to it. An id taken again is not mixed only if nothing was under way.
- AskersKnown: whatever is under way for an id is of a call that has asked under it.
- Allowed: a posted "yes" and a "yes" being written are for an application the
  user has granted it to; for a mixed id, to one that asked under it.
- Ordered: for an id that is not mixed, a dialog or an answer is about the next
  permission of its request, and every permission the application needs is
  decided or still ahead in it.

AsksForTheUndecided shows that what is asked for holds every permission without
a decision; it needs a pigeonhole argument about ranks (NthIsRanked). Mixed ids
stay mixed and Claimed only grows (HistoryGrows, ClaimedGrows), so what was shown
for a state stays true.

Two more theorems are about the callback. CalledBackOnce, of every call: a start
is called back at most once, from OncePerCall (a call without its callback has one
request at most, one called back has none). NoStartIsForgotten, the safe half of
ImplementsService: a start not called back yet, and not confused, has a request
for which something is under way. Its invariant, Pursued, builds on DialogInv,
because a step that ends one request must leave the others theirs. That what is
under way is also taken, and so the call ends, is liveness and stays with TLC.

DialogsKeepPromise is the refinement, `Spec => Service!Spec`. Most actions
stutter; the one that calls back becomes the abstract decision, with or without
decisions, the answers of the user become grants, and a step that mixes an id
confuses the calls under it (ConfuseServes). Whether a callback's decisions are
those the abstract call may give needs an invariant of its own, Truthful: a
request under an id that is not mixed asks only for what its application needs
and holds decisions only for that, and a "yes" in it, or found in the store, is in
Claimed.

**AppRemovalProofs.** One invariant, `IInv`, of six parts: TypeOK; Queued
(what may still be on the strand for a call at each location, and in which
order); Counted (the counter is the total minus the deletions without reply);
Answered; Witnessed (a listener undisturbed since the first event still has its
sink); Remaining (what is owed and still stored is being deleted). Each has a
lemma for its step; the four properties follow from the invariant. NoCallIsLost
adds that a call in a place where it waits for a handler has it on the strand
(WellServed) and that an ended call has its answer (EndedAnswered): an operation
without an answer has a handler, a transaction or a reply to come. EveryCallAnswered
is that together with fairness.

**FlatpakCacheProofs.** HitsAreRecent, an action property, for any number of
callers and keys. EntriesBounded: what an entry holds was replaced, if at all, at
most TTL before the entry expires. It is not inductive by itself, since a store
writes what was fetched earlier; FetchedNow adds that a result on its way to the
store can only have been replaced in the current unit of time. ForcedRefreshes is
for any number of callers too: NothingOlder follows the version in a call's hand
and the entry it could still find, through stores that fail, fall-backs, clean-ups
and restarts; the store of another query (OtherStores) either brings nothing older
or spoils the call, and a spoilt call still answers fresh with what it fetched.
NothingAfterDestructor is about the clean-up thread and the destructor: wherever
the notification finds the thread, it ends for the destructor only, which returns
after it, and then nothing touches the database until the next process (Owned).

**VideoPlayerProofs.** TypeCorrect: the invariant Typed adds CarriesItsKind to
TypeOK, that the value a thread carries between two steps is a state or a rate
according to the step. ListenerHears: InitializedFirst, ReplayHasListener and
StillToHear relate the announcement, the sink and the replay under way.
PlayKept: WantIsAsked (the pipeline was told what was asked last, unless a round
trip misread), PlayAsked and StepsFit, which says for each step of the two
threads what will be asked next. SpeedKept: SpeedInv says that the cached rate is
given up before the pipeline loses its own, that it is otherwise the pipeline's,
and that a playing pipeline without the chosen speed has a step or a message on
the way that applies it; these hold as long as one thread at a time is in the
speed section and nothing was misread.

**PlatformMessagesProofs.** TypeCorrect and EachRepliedOnce for any channels,
codecs and methods: nothing is assumed of the tables, so the result is about the
shape of the generated handlers. The invariant is TypeOK, RepliedOnce and
CalledWasSent, that a message on its way, at a method or kept by one is on a
channel of the tables. CodecsOfTables is about the codecs, for any tables too: if
what each channel answers with is read back as what was written (ReadBack), every
reply is, and a message that stays undecoded was sent on a channel whose codec
does not understand its arguments. CodecInv says of each message on its way what
its channel makes of it.

**PluginsProofs.** One section per plugin, each an invariant of the variables of
that plugin which its steps keep and the steps of the others leave alone.

- Channels: PlatformMessagesProofs instantiated with the tables (EachRepliedOnce).
- Codecs: CodecsAreInverse, by CodecsOfTables, with its hypothesis proved of the
  tables. A class is Regular (its list is read as it was written, and consists of
  plain values and lists), a codec reads under the byte it wrote each of its classes
  (CodecAgrees), and a channel names only classes of its codec (OfItsCodec); these
  are lemmas per plugin. Two classes are not Regular and are dealt with by
  themselves: the settings of a new camera, which are understood (CreateAgrees),
  and the parameters that initialise google_sign_in, which are not (see 6), though
  the reply to them is read back. The proof is long because the tables are.
- Network fetcher: RequestsAreAttempts, as many requests as attempts counted while
  only codes that may pass were met, and one more while the last is judged.
- Keyring: what Dart was told, unless excused, and a document that is no object
  has no items (KeyringInv); ReadOutcomes and the stores have lemmas.
- Firestore's streams: but for a bundle load, what is registered is the last
  listen of a stream that Dart still listens to (FirestoreInv).
- Cameras: a camera's stream is alive and no other camera's (CameraInv).
- Audio events: who may still queue events in each step of the destructor
  (AudioInv).
- firebase_auth: AuthInv follows the programs of Listen and Cancel against the
  SDK's telling: a sink is reset only after its listener was removed, and a stream
  at rest that is not due to be told has heard of the user, or will.
- Transactions: while every attempt is woken by a stored result, at most one
  question is on its way to Dart or in its hands, that of the waiting attempt
  (TransactionInv). Reads need no such condition. TransactionIsNotLeftOpen: a
  completed transaction that Dart still listens to has its end on the way (EndInv).
- Audio player: PlaybackInv lists what can be left to do on each thread, and where
  the new url is by then; a reported end is one that the bus watch's handler
  deals with, unless nothing plays.

Only model-checked: liveness, because fairness and ENABLED are out of the prover's
reach, and with it the fairness half of both ImplementsService. The runs with a
violation have nothing to prove.

## 6. Findings and known deviations

With a violation run:

1. An install whose second transaction cannot be set up is answered but never
   leaves the tracker (`flatpak_shim.cc:1231`, against the comment at 4501): run
   `queue_stuck`.
2. Three installs checked at the same time are admitted for more than the disk
   holds (`flatpak_shim.cc:4460`, against the log text at 4472): run
   `queue_overcommit`.
3. A stop between launch and the child's pid reports success and stops nothing
   (`flatpak_shim.cc:2209`, against `messages.g.h:406`): run `session_stop`.

Shown by the models and listed in `PROJECT.json`, without a run of their own:

4. An uninstall by full ref deletes no permission (`flatpak_shim.cc:1651`,
   against `permissions_portal.h:147`): CleanRemoval excepts `ByRef`.
5. A change of output channels during start-up leaves the player in READY
   (`video_player.cc:1617`, against the comments on the round trips): `hist.misread`.
6. TransactionCreate gives one handler to two owners (`cloud_firestore_plugin.cc:974`,
   against the comment at 967).
7. PerformWithRetry counts neither a 404 nor any other code it does not name, and
   goes on for ever (`curl_network_fetcher.cc:52`, against its header).
8. ~CameraPlugin shuts the graph down before the streams that still need it
   (`camera_plugin.cc:118`, against `camera_stream.h:52`).
9. google_sign_in cannot be initialised through its own codec: it wraps an enum
   as a number of another type than it casts to (`google_sign_in/messages.g.cc:296`).
10. Four firebase_auth handlers cast an argument that may be absent before they
    test it (`firebase_auth/messages.g.cc:2805`, 3671, 3947, 4409).
11. Five methods of webview_flutter_view, firebase_storage and cloud_firestore
    dereference an argument that may be null (`webview_flutter_view_plugin.cc:552`).
12. EvaluateJavascript drops its reply (`webview_flutter_view_plugin.cc:658`).
13. The bus watch of an audio player may be running when the player is deleted
    (`audio_player.cc:777`).
14. A discovery that ends late stores the duration of the previous source
    (`audio_player.cc:695`).
15. A forced refresh may be answered from the cache: the failure of its DELETE is
    ignored (`sqlite_cache_storage.cc:256`, against `cache_manager.h:72`), and a
    second thread can store its older result before the look-up
    (`cache_manager.cc:631`). ForcedIsFresh excepts exactly these.
16. Two permission requests in one millisecond, or after the clock was set back,
    share an id, and the second overwrites the first (`flatpak_shim.cc:4793`): the
    first start never goes on, and answers to its dialogs are stored for the
    second's application. The exceptions for Confused calls are this, and a dialog
    that is answered twice, whose second answer stands for the next permission
    (4657).

Met while modelling and not (or not fully) turned into runs; reasons are in
the notes of the hazards:

- Installs of one application at the same time leave bytes in the pending total
  that no entry holds and nobody subtracts (`operation_tracker.cc:45`): `lost` in
  TotalIsSumOfEntries. It never wraps (TotalNeverWraps).
- OnOperationComplete copies `active_ops_` on the transaction's thread
  (`flatpak_shim.cc:4233-4241`), unsynchronised with the io thread.
- SendPermissionEvent tests `access_sink_` without its mutex (4006).
- ApplicationStop holds a map iterator over seconds (2233) and
  schedule_next_check would lock `monitor_mutex_` twice if cleanup_app ever got
  past its flag (3337).
- cleanup_app finds its flag set and does nothing (`flatpak_shim.cc:3297`); a
  permission request has no timeout (4798); `lock.~lock_guard()` unlocks a mutex
  the scope unlocks again (4580); an event may be sent with a transaction's freed
  id (4095).
- `runtime.empty()` in check_runtime is never true; a start whose remote is gone
  and whose runtime is missing terminates the process. The transactions of a
  runtime carry no id, so SendTransactionEvent throws for them, which is caught,
  and OnOperationComplete counts their operations for any install in progress.
- get_system_installations returns a list it has released, after an error (187-197);
  GetApplicationsUpdate passes on an error that is already set;
  GetApplicationsRemote leaks its remote and LaunchState a reference.
- max_cache_size_mb is compared in a log message and enforced nowhere
  (`cache_manager.cc:699`).
- The keyring: a look-up that fails writes null, and adding a member to null is
  undefined (`keyring.h:123`). Storage: PutData and PutString keep a pointer to an
  argument that is gone when the SDK reads it, and a task reports to a listener on
  a stack frame that has returned (`dangling`).
- camera_pipewire answers Initialize before the stream has started
  (`camera_plugin.cc:305`). Setting an audio source as bytes unlinks the file that
  is playing before it knows whether the new one can be written.
- WrapError puts the message before the code in some generated files and after it
  in others.
- webview_flutter_view uses `browser_` before CEF has made it, disposes while
  OnPaint runs, initialises CEF again for a second view and destroys a joinable
  thread; see 1.2 for why CEF is not modelled.
- ~FlatpakPlugin stops the io_context while detached threads still hold
  pointers to it; GetUserInstallation takes `value()` of an empty optional.
- Two threads that choose and apply speeds at once can leave a playing player at
  the wrong one for good. Found while SpeedHonoured was proved, with six calls: a
  change of output channels restores the speed 2 on the main loop while Dart
  chooses 1 and then 2 again; the last SetPlaybackSpeed finds the rate it is asked
  for in force and does nothing, and the segment stays at 1
  (`video_player.cc:389-404` against 571-608). `hist.raced` covers it.
- The player: Pause can lose against the restart of a looping pipeline or the
  100 % buffering handler; a handler that runs while Dispose disconnects it may
  start the udev watch on a player about to be freed; players whose
  construction failed are kept under id 0; playbins are never unreferenced.

## 7. What is not modelled, and why

Inside modelled components: progress text and the contents of events; the
lookup of refs in lists; live streams, errors, tags, volume and metadata of the
video player and its failed constructors; the audio player's volume, balance,
rate and sources given as bytes; what documents, queries, credentials and
metadata say; several Firestore instances at a time; OnAudioRecovery,
stop_all_monitoring and PortalProxy::cleanup, which nothing calls; expiry by
wall-clock jumps. The channels by which plugins call Dart (Flutter APIs): their
generated callers have no state, and what matters about their order is in the
models of the senders. Shutdown of the plugins with operations in progress,
except the camera's. What a data race between non-atomic members can do beyond
the interleaving of its steps, except where noted ("undefined").

flatpak's remotes and lists (RemoteAdd, RemoteRemove, GetApplicationsRemote,
find_app_in_remotes) are sequential conversions between libflatpak and messages
and keep no state: their channels are in the tables, their contents are not.

External and free: libflatpak, the permission store and the other portals,
GStreamer, udev, the Firebase SDKs, PipeWire, libsecret, HTTP servers, the file
system, the user. Their replies come in any order, may
be failures, and are bounded only by the runs' constants.

Components that have no model are listed in 1.2 and in `PROJECT.json`.

## 8. Plan

Done: OperationTracker and InstallQueue first, as the plugin's central and most
concurrent part, then InstallService as its abstract specification, AppSession,
PermissionDialogs, FlatpakCache, AppRemoval, VideoPlayer and their proofs; then
FirestoreTransaction, AudioPlayer, the plugins over an SDK, the keyring, the
camera, the fetcher and the channels, and Plugins as their composition.

Then the proofs of the plugins' invariants, of the transaction and of the audio
player as parts of Plugins, of the refinement of InstallService, of the player's
speed, of a forced refresh and of the permission dialogs; last PermissionService
with its refinement, the codecs of the channels, and the safe halves of what must
go on in the session, in an uninstall, in the cache and in a transaction. Every
safety invariant and every action property that a run checks has a theorem.

Left for later, in this order:

1. The permission store as a module that PermissionDialogs and AppRemoval share,
   to check an uninstall against dialogs of the same application, with the
   theorems of both carried over.
2. An abstract specification of the session (an application is up, down or
   stopping); what it would say of starts is proved of AppSession itself.
3. webview_flutter_view's threads, from what its code assumes of CEF.

## 9. Running the checks

In this directory, with `tlc` and `tlapm` on the path:

    tlc -workers 2 -config InstallQueue.cfg MCInstallQueue
    tlapm InstallQueueProofs.tla

Each run of `PROJECT.json` names its module and cfg. All runs together take
about twelve minutes on two cores, the proofs about seventeen, of which
PluginsProofs takes seven.
