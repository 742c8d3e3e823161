--------------------------- MODULE PluginsProofs ----------------------------
(***************************************************************************)
(* What is proved of the plugins, each in a section of its own with its    *)
(* invariant: the channels, the network fetcher, the keyring, the streams of*)
(* Firestore, the camera, the audio events, the listeners of firebase_auth,*)
(* the transaction of Firestore, the audio player and, last because of its  *)
(* length, the codecs of the channels.  A step of another plugin leaves the *)
(* variables of the one a section is about alone.                          *)
(***************************************************************************)
EXTENDS Plugins, SequenceTheorems, TLAPS

\* The proofs of PlatformMessages, of the tables of the plugins.
Proved == INSTANCE PlatformMessagesProofs
              WITH Channels <- Table!Channels, Unheard <- Table!Unheard,
                   Classes <- Table!Classes,
                   Reads <- Table!Reads, Writes <- Table!Writes,
                   Drops <- Table!Drops,
                   Dereferences <- Table!Dereferences

LEMMA ChannelsBegin == Init => Proved!IInv
  <1>1. Init => Proved!Init
    BY DEF Init, Pigeon!Init, Proved!Init, Pigeon!Unsent, Proved!Unsent,
           Pigeon!NoChannel, Proved!NoChannel, Pigeon!Sync,
           Proved!Sync, Pigeon!Void, Proved!Void
  <1> QED BY <1>1, Proved!InitIInv

\* Pigeon and Proved are two instances of the same definitions: expanded, their
\* actions are the same formulas.
LEMMA StepOfChannels == [Next]_vars => [Proved!Next]_message
  <1>1. Pigeon!Next => Proved!Next
    BY DEF Pigeon!Next, Proved!Next, Pigeon!Send, Proved!Send, Pigeon!NoHandler,
           Proved!NoHandler, Pigeon!Unlistened, Proved!Unlistened,
           Pigeon!CannotDecode, Proved!CannotDecode, Pigeon!Arrives,
           Proved!Arrives, Pigeon!Decoded, Proved!Decoded,
           Pigeon!Decodes, Proved!Decodes, Pigeon!Knows,
           Proved!Knows, Pigeon!Within, Proved!Within,
           Pigeon!WithParts, Proved!WithParts, Pigeon!CastFields,
           Proved!CastFields, Pigeon!Refuse, Proved!Refuse,
           Pigeon!Heard, Proved!Heard, Pigeon!Stops, Proved!Stops,
           Pigeon!Stopping, Proved!Stopping, Pigeon!Throw,
           Proved!Throw, Pigeon!CallMethod, Proved!CallMethod,
           Pigeon!MethodThrows, Proved!MethodThrows, Pigeon!Returns,
           Proved!Returns, Pigeon!AnswersNow, Proved!AnswersNow,
           Pigeon!KeepsReply, Proved!KeepsReply, Pigeon!AnswersLater,
           Proved!AnswersLater, Pigeon!LosesReply, Proved!LosesReply,
           Pigeon!DereferencesNull, Proved!DereferencesNull,
           Pigeon!Reply, Proved!Reply, Pigeon!In, Proved!In,
           Pigeon!Answers, Proved!Answers, Pigeon!WriteValue,
           Proved!WriteValue, Pigeon!HasClass, Proved!HasClass,
           Pigeon!NoByte, Proved!NoByte, Pigeon!Empty, Proved!Empty,
           Pigeon!Error, Proved!Error, Pigeon!Plain, Proved!Plain,
           Pigeon!Void, Proved!Void
  <1>2. [Next]_vars => Pigeon!Next \/ UNCHANGED message
    BY DEF Next, vars, Step
  <1> QED BY <1>1, <1>2

\* A message of Dart to any of the plugins is replied to once by its handler or
\* its method, unless the method loses the reply.
THEOREM EachRepliedOnce == Spec => []RepliedOnce
  <1>1. Proved!IInv /\ [Next]_vars => Proved!IInv'
    BY StepOfChannels, Proved!NextIInv
  <1>2. Proved!IInv => RepliedOnce
    BY DEF Proved!IInv, Proved!RepliedOnce, RepliedOnce, Pigeon!RepliedOnce,
           Proved!In, Pigeon!In
  <1> QED BY <1>1, <1>2, ChannelsBegin, PTL DEF Spec

-----------------------------------------------------------------------------
(* The network fetcher. *)

\* Between two attempts as many requests have been made as attempts counted, at
\* most, and one more while the last is judged.
RequestsAreAttempts ==
    transient => /\ thread \in {"asking", "sleeping"} => requests <= attempts
                 /\ requests <= attempts + 1

FetcherInv ==
    /\ thread \in {"idle", "asking", "judging", "sleeping"}
    /\ attempts \in 0..MaxRetries
    /\ requests \in Nat
    /\ transient \in BOOLEAN
    /\ RequestsAreAttempts

LEMMA FetcherBegins == Init => FetcherInv
  BY BoundsAssumption DEF Init, Fetcher!Init, FetcherInv, RequestsAreAttempts

LEMMA FetcherGoesOn == FetcherInv /\ [Next]_vars => FetcherInv'
  <1> SUFFICES ASSUME FetcherInv, [Next]_vars PROVE FetcherInv'
    OBVIOUS
  <1> USE BoundsAssumption DEF FetcherInv, RequestsAreAttempts
  <1>1. Fetcher!Next \/ UNCHANGED fetcherVars
    BY DEF Next, vars, Step, fetcherVars
  <1>2. CASE UNCHANGED fetcherVars
    BY <1>2 DEF fetcherVars
  <1>3. ASSUME NEW set \in BOOLEAN, Fetcher!SetBearerToken(set) PROVE FetcherInv'
    BY <1>3 DEF Fetcher!SetBearerToken
  <1>4. CASE Fetcher!Fetch
    BY <1>4 DEF Fetcher!Fetch
  <1>5. CASE Fetcher!PerformRequest
    BY <1>5 DEF Fetcher!PerformRequest, Fetcher!Return
  <1>6. CASE Fetcher!PerformWithRetry
    <2>1. /\ requests' = requests
          /\ thread = "judging"
          /\ transient' = (transient /\ code = "retryable")
      BY <1>6 DEF Fetcher!PerformWithRetry
    <2>2. CASE code # "retryable"
      <3>1. attempts' = attempts /\ thread' \in {"idle", "asking"}
        BY <1>6, <2>2 DEF Fetcher!PerformWithRetry, Fetcher!Return
      <3> QED BY <2>1, <2>2, <3>1
    <2>3. CASE code = "retryable" /\ attempts < MaxRetries
      <3>1. thread' = "sleeping" /\ attempts' = attempts + 1
        BY <1>6, <2>3 DEF Fetcher!PerformWithRetry
      <3> QED BY <2>1, <2>3, <3>1
    <2>4. CASE code = "retryable" /\ ~(attempts < MaxRetries)
      <3>1. thread' = "idle" /\ attempts' = attempts
        BY <1>6, <2>4 DEF Fetcher!PerformWithRetry, Fetcher!Return
      <3> QED BY <2>1, <2>4, <3>1
    <2> QED BY <2>2, <2>3, <2>4
  <1>7. CASE Fetcher!BackOff
    BY <1>7 DEF Fetcher!BackOff
  <1>8. CASE Fetcher!IsNetworkAvailable
    BY <1>8 DEF Fetcher!IsNetworkAvailable
  <1> QED
    BY <1>1, <1>2, <1>3, <1>4, <1>5, <1>6, <1>7, <1>8 DEF Fetcher!Next

\* However IsNetworkAvailable overwrites the code that an operation judges, one
\* that meets only codes that may pass makes at most max_retries requests after
\* its first, whatever max_retries is.
THEOREM BoundedRetries == Spec => []RetriesAreBounded
  <1>1. FetcherInv => RetriesAreBounded
    BY BoundsAssumption DEF FetcherInv, RequestsAreAttempts, RetriesAreBounded,
       Fetcher!RetriesAreBounded
  <1> QED BY <1>1, FetcherBegins, FetcherGoesOn, PTL DEF Spec

-----------------------------------------------------------------------------
(* The keyring. *)

KeyringInv ==
    /\ stored \in [kind : {"object", "null", "absent"}, items : Keyring!Items]
    /\ expected \in Keyring!Items
    /\ excused \in BOOLEAN
    /\ stored.kind # "object" => stored.items = Keyring!NoItems
    /\ StoresWhatWasTold

\* What a look-up that has not failed returns holds the items of the keyring,
\* and leaves them there.
LEMMA LookUp ==
    ASSUME KeyringInv, NEW r \in Keyring!ReadOutcomes(stored)
    PROVE  /\ r.left \in {stored, Keyring!Null}
           /\ r.doc \in {Keyring!Object(stored.items), Keyring!Null}
           /\ r.doc # Keyring!Null => r.left = stored /\ r.ok
           /\ r.doc = Keyring!Null /\ r.ok => /\ r.left = Keyring!Null
                                               /\ stored.items = Keyring!NoItems
           /\ r.ok \in BOOLEAN
  <1> USE DEF Keyring!Found, Keyring!Object, Keyring!Null
  <1>1. CASE /\ stored.kind # "absent"
             /\ r = [doc |-> Keyring!Object(stored.items), left |-> stored, ok |-> TRUE]
    BY <1>1
  <1>2. CASE \E l \in {Keyring!Null, stored} :
                r = [doc |-> Keyring!Null, left |-> l,
                     ok |-> ~Keyring!Found(stored) /\ l = Keyring!Null]
    <2>1. PICK l \in {Keyring!Null, stored} :
             r = [doc |-> Keyring!Null, left |-> l,
                  ok |-> ~Keyring!Found(stored) /\ l = Keyring!Null]
      BY <1>2
    <2>2. r.doc = Keyring!Null /\ r.left = l
      BY <2>1
    <2>3. r.ok = (stored.kind = "absent" /\ l = Keyring!Null)
      BY <2>1
    <2>4. stored.kind = "absent" => stored.items = Keyring!NoItems
      BY DEF KeyringInv
    <2> QED BY <2>2, <2>3, <2>4
  <1> QED BY <1>1, <1>2 DEF Keyring!ReadOutcomes, Keyring!StoreOutcomes

LEMMA KeyringBegins == Init => KeyringInv
  <1> SUFFICES ASSUME Init PROVE KeyringInv
    OBVIOUS
  <1>1. Keyring!Init /\ Keyring!NoItems \in Keyring!Items
    BY DEF Init, Keyring!NoItems, Keyring!Items
  <1>2. CASE stored = Keyring!Absent /\ expected = Keyring!NoItems
    BY <1>1, <1>2 DEF Keyring!Init, KeyringInv, Keyring!Absent,
       StoresWhatWasTold, Keyring!StoresWhatWasTold
  <1>3. CASE expected \in Keyring!Items /\ stored = Keyring!Object(expected)
    BY <1>1, <1>3 DEF Keyring!Init, KeyringInv, Keyring!Object,
       StoresWhatWasTold, Keyring!StoresWhatWasTold
  <1> QED BY <1>1, <1>2, <1>3 DEF Keyring!Init

\* A call that stores `doc` and tells Dart `items` keeps the two in step if they
\* agree whenever nothing has failed.
LEMMA Stores ==
    ASSUME KeyringInv, NEW r, r.left \in {stored, Keyring!Null}, r.ok \in BOOLEAN,
           NEW doc, NEW items \in Keyring!Items,
           doc \in [kind : {"object", "null"}, items : Keyring!Items],
           doc.kind # "object" => doc.items = Keyring!NoItems,
           ~excused /\ r.ok => doc.items = items,
           Keyring!Store(r, doc, items)
    PROVE  KeyringInv'
  <1>1. Keyring!Null \in [kind : {"object", "null"}, items : Keyring!Items]
        /\ Keyring!Null.items = Keyring!NoItems
    BY DEF Keyring!Null, Keyring!Items, Keyring!NoItems
  <1>2. stored' \in {doc, r.left} /\ expected' = items
        /\ excused' = (excused \/ ~r.ok \/ stored' # doc)
    BY DEF Keyring!Store, Keyring!StoreOutcomes, Keyring!Fails
  <1> QED
    BY <1>1, <1>2 DEF KeyringInv, StoresWhatWasTold, Keyring!StoresWhatWasTold,
       Keyring!Items, Keyring!NoItems

LEMMA KeyringGoesOn == KeyringInv /\ [Next]_vars => KeyringInv'
  <1> SUFFICES ASSUME KeyringInv, [Next]_vars PROVE KeyringInv'
    OBVIOUS
  <1>0. Keyring!Next \/ UNCHANGED keyringVars
    BY DEF Next, vars, Step, keyringVars
  <1>1. CASE UNCHANGED keyringVars
    BY <1>1 DEF KeyringInv, keyringVars, StoresWhatWasTold,
       Keyring!StoresWhatWasTold, Keyring!Items, Keyring!NoItems
  <1>n. /\ Keyring!Null \in [kind : {"object", "null"}, items : Keyring!Items]
        /\ Keyring!Null.items = Keyring!NoItems
        /\ Keyring!NoItems \in Keyring!Items
        /\ stored.items \in Keyring!Items
    BY DEF Keyring!Null, Keyring!Items, Keyring!NoItems, KeyringInv
  \* A call that has failed, or has left what a look-up leaves.
  <1>2. ASSUME NEW r \in Keyring!ReadOutcomes(stored),
               stored' \in {r.left, Keyring!Null}, r.doc = Keyring!Null,
               expected' \in Keyring!Items, excused' = TRUE
        PROVE  KeyringInv'
    BY <1>2, <1>n, LookUp DEF KeyringInv, StoresWhatWasTold,
       Keyring!StoresWhatWasTold, Keyring!Items, Keyring!NoItems
  <1>3. ASSUME NEW r \in Keyring!ReadOutcomes(stored), Keyring!Abort(r)
        PROVE  KeyringInv'
    BY <1>2, <1>3 DEF Keyring!Abort, Keyring!Fails, KeyringInv
  <1>4. ASSUME NEW k \in Keys, NEW v \in Values, Keyring!Write(k, v)
        PROVE  KeyringInv'
    <2>1. PICK r \in Keyring!ReadOutcomes(stored) :
             \/ /\ r.doc # Keyring!Null
                /\ Keyring!Store(r, Keyring!Object(Keyring!AddMember(r.doc.items, k, v)),
                                 [expected EXCEPT ![k] = v])
             \/ /\ r.doc = Keyring!Null
                /\ stored' \in {r.left, Keyring!Null}
                /\ expected' = [expected EXCEPT ![k] = v]
                /\ Keyring!Fails(TRUE)
             \/ Keyring!Abort(r)
      BY <1>4 DEF Keyring!Write, Keyring!StoreOutcomes
    <2>2. [expected EXCEPT ![k] = v] \in Keyring!Items
          /\ [stored.items EXCEPT ![k] = v] \in Keyring!Items
      BY DEF KeyringInv, Keyring!Items
    <2>3. CASE /\ r.doc # Keyring!Null
               /\ Keyring!Store(r, Keyring!Object(Keyring!AddMember(r.doc.items, k, v)),
                                [expected EXCEPT ![k] = v])
      <3> DEFINE items == [stored.items EXCEPT ![k] = v]
      <3>1. Keyring!AddMember(r.doc.items, k, v) = items
        BY <2>3, LookUp DEF Keyring!Object, Keyring!AddMember
      <3>2. ~excused => items = [expected EXCEPT ![k] = v]
        BY DEF KeyringInv, StoresWhatWasTold, Keyring!StoresWhatWasTold
      <3> HIDE DEF items
      <3>3. Keyring!Object(items)
               \in [kind : {"object", "null"}, items : Keyring!Items]
            /\ Keyring!Object(items).kind = "object"
            /\ Keyring!Object(items).items = items
        BY <2>2, <3>1 DEF Keyring!Object, items
      <3> QED BY <2>2, <2>3, <3>1, <3>2, <3>3, LookUp, Stores
    <2>4. CASE /\ r.doc = Keyring!Null
               /\ stored' \in {r.left, Keyring!Null}
               /\ expected' = [expected EXCEPT ![k] = v]
               /\ Keyring!Fails(TRUE)
      BY <1>2, <2>2, <2>4 DEF Keyring!Fails
    <2> QED BY <1>3, <2>1, <2>3, <2>4
  <1>5. CASE Keyring!Read
    <2>1. PICK r \in Keyring!ReadOutcomes(stored) :
             stored' = r.left /\ Keyring!Fails(~r.ok) /\ expected' = expected
      BY <1>5 DEF Keyring!Read
    <2>2. excused' = (excused \/ ~r.ok)
      BY <2>1 DEF Keyring!Fails
    <2> QED
      BY <1>n, <2>1, <2>2, LookUp DEF KeyringInv, StoresWhatWasTold,
         Keyring!StoresWhatWasTold, Keyring!Items, Keyring!NoItems
  <1>6. CASE Keyring!ContainsKey
    BY <1>3, <1>5, <1>6 DEF Keyring!ContainsKey
  <1>7. ASSUME NEW k \in Keys, Keyring!DeleteIt(k) PROVE KeyringInv'
    <2> DEFINE doc(r) == IF r.doc = Keyring!Null THEN Keyring!Null
                         ELSE Keyring!Object([r.doc.items EXCEPT ![k] = NoValue])
               items == [expected EXCEPT ![k] = NoValue]
    <2>1. PICK r \in Keyring!ReadOutcomes(stored) :
             Keyring!Store(r, doc(r), items) \/ Keyring!Abort(r)
      BY <1>7 DEF Keyring!DeleteIt
    <2>2. items \in Keyring!Items
          /\ [stored.items EXCEPT ![k] = NoValue] \in Keyring!Items
      BY DEF KeyringInv, Keyring!Items
    <2>3. CASE r.doc = Keyring!Null
      <3>1. ~excused /\ r.ok => Keyring!Null.items = items
        BY <1>n, <2>3, LookUp DEF KeyringInv, StoresWhatWasTold,
           Keyring!StoresWhatWasTold, Keyring!NoItems
      <3> QED BY <1>3, <1>n, <2>1, <2>2, <2>3, <3>1, LookUp, Stores
    <2>4. CASE r.doc # Keyring!Null
      <3> DEFINE left == [stored.items EXCEPT ![k] = NoValue]
      <3>1. doc(r) = Keyring!Object(left)
        BY <2>4, LookUp DEF Keyring!Object
      <3>2. ~excused => left = items
        BY DEF KeyringInv, StoresWhatWasTold, Keyring!StoresWhatWasTold
      <3>3. left \in Keyring!Items
        BY <2>2
      <3> HIDE DEF left
      <3>4. Keyring!Object(left)
               \in [kind : {"object", "null"}, items : Keyring!Items]
            /\ Keyring!Object(left).kind = "object"
            /\ Keyring!Object(left).items = left
        BY <3>3 DEF Keyring!Object
      <3> QED BY <1>3, <2>1, <2>2, <2>4, <3>1, <3>2, <3>4, LookUp, Stores
    <2> QED BY <2>3, <2>4
  <1>8. CASE Keyring!DeleteAll
    <2> DEFINE doc == Keyring!Object(Keyring!NoItems)
    <2>1. /\ stored' \in {doc, stored}
          /\ expected' = Keyring!NoItems
          /\ excused' = (excused \/ stored' # doc)
      BY <1>8 DEF Keyring!DeleteAll, Keyring!Store, Keyring!StoreOutcomes,
         Keyring!Fails
    <2>2. /\ doc \in [kind : {"object", "null"}, items : Keyring!Items]
          /\ doc.items = Keyring!NoItems
          /\ doc.kind = "object"
      BY <1>n DEF Keyring!Object
    <2> HIDE DEF doc
    <2> QED
      BY <1>n, <2>1, <2>2 DEF KeyringInv, StoresWhatWasTold,
         Keyring!StoresWhatWasTold
  <1> QED
    BY <1>0, <1>1, <1>4, <1>5, <1>6, <1>7, <1>8 DEF Keyring!Next

\* Whatever calls are made, and in whatever order, the keyring holds the items
\* that Dart was told it holds, unless it has failed or was empty when an item
\* was written to it.
THEOREM KeyringHoldsWhatWasTold == Spec => []StoresWhatWasTold
  <1>1. KeyringInv => StoresWhatWasTold BY DEF KeyringInv
  <1> QED BY <1>1, KeyringBegins, KeyringGoesOn, PTL DEF Spec

-----------------------------------------------------------------------------
(* The streams of Firestore. *)

\* But for a bundle load, what is registered with the SDK is the last listen of
\* a stream, and Dart listens to it still.
FirestoreInv ==
    /\ stream \in [Firestore!StreamIds
                      -> {"none", "set up", "listening", "cancelled"}]
    /\ kind \in [Firestore!StreamIds -> Firestore!StreamKinds]
    /\ current \in [Firestore!StreamIds -> Nat]
    /\ \A r \in registered :
          /\ r \in Firestore!StreamIds \X Nat
          /\ stream[r[1]] # "none"
          /\ kind[r[1]] # "bundle" => /\ r = <<r[1], current[r[1]]>>
                                      /\ stream[r[1]] = "listening"
    /\ CancelledStaysEnded

LEMMA FirestoreBegins == Init => FirestoreInv
  BY DEF Init, Firestore!StateInit, FirestoreInv, CancelledStaysEnded,
     Firestore!CancelledStaysEnded, Firestore!StreamKinds

\* A call touches a stream only to set it up.
LEMMA FirestoreCalls ==
    ASSUME Firestore!FirestoreCall
    PROVE  \/ UNCHANGED Firestore!streamVars
           \/ \E k \in Firestore!StreamKinds, i \in Firestore!StreamIds :
                 /\ stream[i] = "none"
                 /\ stream' = [stream EXCEPT ![i] = "set up"]
                 /\ kind' = [kind EXCEPT ![i] = k]
                 /\ UNCHANGED <<registered, current, ended>>
  <1>1. PICK c \in Calls :
           \/ Firestore!ClearPersistence(c) \/ Firestore!Terminate(c)
           \/ Firestore!NamedQueryGet(c) \/ Firestore!DisableNetwork(c)
           \/ Firestore!EnableNetwork(c) \/ Firestore!WaitForPendingWrites(c)
           \/ Firestore!DocumentReferenceSet(c)
           \/ Firestore!DocumentReferenceUpdate(c)
           \/ Firestore!DocumentReferenceGet(c)
           \/ Firestore!DocumentReferenceDelete(c)
           \/ Firestore!QueryGet(c) \/ Firestore!AggregateQuery(c)
           \/ Firestore!WriteBatchCommit(c)
           \/ Firestore!SetIndexConfiguration(c)
           \/ Firestore!SetLoggingEnabled(c)
           \/ Firestore!LoadBundle(c) \/ Firestore!SnapshotsInSyncSetup(c)
           \/ Firestore!QuerySnapshot(c)
           \/ Firestore!DocumentReferenceSnapshot(c)
    BY DEF Firestore!FirestoreCall
  <1>2. ASSUME NEW k \in Firestore!StreamKinds, Firestore!SetUp(c, k)
        PROVE  \E i \in Firestore!StreamIds :
                  /\ stream[i] = "none"
                  /\ stream' = [stream EXCEPT ![i] = "set up"]
                  /\ kind' = [kind EXCEPT ![i] = k]
                  /\ UNCHANGED <<registered, current, ended>>
    BY <1>2 DEF Firestore!SetUp
  <1>3. CASE \E k \in Firestore!StreamKinds : Firestore!SetUp(c, k)
    BY <1>2, <1>3
  <1>4. CASE UNCHANGED Firestore!streamVars
    BY <1>4
  <1> QED
    BY <1>1, <1>3, <1>4
       DEF Firestore!ClearPersistence, Firestore!Terminate,
           Firestore!NamedQueryGet, Firestore!DisableNetwork,
           Firestore!EnableNetwork, Firestore!WaitForPendingWrites,
           Firestore!DocumentReferenceSet, Firestore!DocumentReferenceUpdate,
           Firestore!DocumentReferenceGet, Firestore!DocumentReferenceDelete,
           Firestore!QueryGet, Firestore!AggregateQuery,
           Firestore!WriteBatchCommit, Firestore!SetIndexConfiguration,
           Firestore!SetLoggingEnabled, Firestore!LoadBundle,
           Firestore!SnapshotsInSyncSetup, Firestore!QuerySnapshot,
           Firestore!DocumentReferenceSnapshot, Firestore!Ask,
           Firestore!AskAs, Firestore!StreamKinds, Firestore!firestoreVars,
           Firestore!streamVars

LEMMA FirestoreGoesOn == FirestoreInv /\ [Next]_vars => FirestoreInv'
  <1> SUFFICES ASSUME FirestoreInv, [Next]_vars PROVE FirestoreInv'
    OBVIOUS
  <1> USE DEF CancelledStaysEnded, Firestore!CancelledStaysEnded
  <1>0. Firestore!Next \/ UNCHANGED Firestore!streamVars
    BY DEF Next, vars, Step, firestoreVars, Firestore!streamVars
  <1>1. CASE UNCHANGED Firestore!streamVars
    BY <1>1 DEF FirestoreInv, Firestore!streamVars
  <1>2. ASSUME NEW k \in Firestore!StreamKinds, NEW i \in Firestore!StreamIds,
               stream[i] = "none",
               stream' = [stream EXCEPT ![i] = "set up"],
               kind' = [kind EXCEPT ![i] = k],
               UNCHANGED <<registered, current, ended>>
        PROVE  FirestoreInv'
    BY <1>2 DEF FirestoreInv
  <1>3. CASE Firestore!FirestoreCall
    BY <1>1, <1>2, <1>3, FirestoreCalls
  <1>4. ASSUME NEW c \in Calls, Firestore!FutureEnds(c)
        PROVE  FirestoreInv'
    BY <1>1, <1>4 DEF Firestore!FutureEnds, Firestore!FutureSucceeds,
       Firestore!NamedQuery, Firestore!Callback, Firestore!firestoreVars,
       Firestore!streamVars
  <1>5. ASSUME NEW r \in registered, Firestore!SendSuccess(r)
        PROVE  FirestoreInv'
    BY <1>5 DEF FirestoreInv, Firestore!SendSuccess
  <1>6. ASSUME NEW r \in registered, Firestore!SendLast(r)
        PROVE  FirestoreInv'
    BY <1>6 DEF FirestoreInv, Firestore!SendLast
  <1>7. ASSUME NEW i \in Firestore!StreamIds, Firestore!Listen(i)
        PROVE  FirestoreInv'
    <2>1. /\ stream[i] # "none"
          /\ stream' = [stream EXCEPT ![i] = "listening"]
          /\ current' = [current EXCEPT ![i] = current[i] + 1]
          /\ ended' = ended \ {i} /\ kind' = kind
      BY <1>7 DEF Firestore!Listen
    <2>0. current[i] + 1 \in Nat
      <3>1. current \in [Firestore!StreamIds -> Nat]
        BY DEF FirestoreInv
      <3>2. current[i] \in Nat
        BY <3>1
      <3> QED BY <3>2
    \* Another listen of the same stream is gone, unless it loads a bundle.
    <2>2. ASSUME NEW r \in registered'
          PROVE  \/ r = <<i, current[i] + 1>>
                 \/ /\ r \in registered
                    /\ r[1] = i => kind[i] = "bundle"
      <3>1. CASE stream[i] = "listening" /\ kind[i] # "bundle"
        <4>1. registered' = (registered \ {<<i, current[i]>>})
                               \cup {<<i, current[i] + 1>>}
          BY <1>7, <3>1 DEF Firestore!Listen, Firestore!Listening,
             Firestore!RemoveListener, Firestore!WithoutListener
        <4> QED BY <3>1, <4>1 DEF FirestoreInv
      <3>2. CASE stream[i] # "listening" \/ kind[i] = "bundle"
        <4>1. registered' = registered \cup {<<i, current[i] + 1>>}
          BY <1>7, <3>2 DEF Firestore!Listen, Firestore!Listening,
             Firestore!RemoveListener
        <4> QED BY <3>2, <4>1 DEF FirestoreInv
      <3> QED BY <3>1, <3>2
    <2>3. ASSUME NEW r \in registered'
          PROVE  /\ r \in Firestore!StreamIds \X Nat
                 /\ stream'[r[1]] # "none"
                 /\ kind'[r[1]] # "bundle" => /\ r = <<r[1], current'[r[1]]>>
                                              /\ stream'[r[1]] = "listening"
      <3>1. CASE r = <<i, current[i] + 1>>
        <4>1. current'[i] = current[i] + 1
          BY <2>1 DEF FirestoreInv
        <4> QED BY <2>0, <2>1, <3>1, <4>1 DEF FirestoreInv
      <3>2. CASE r \in registered /\ (r[1] = i => kind[i] = "bundle")
        <4>1. r \in Firestore!StreamIds \X Nat /\ r[1] \in Firestore!StreamIds
          BY <3>2 DEF FirestoreInv
        <4>2. stream'[r[1]] \in {"listening", stream[r[1]]}
              /\ (r[1] # i => current'[r[1]] = current[r[1]])
          BY <2>1, <4>1 DEF FirestoreInv
        <4> QED BY <2>1, <3>2, <4>1, <4>2 DEF FirestoreInv
      <3> QED BY <2>2, <3>1, <3>2
    <2>4. stream' \in [Firestore!StreamIds
                          -> {"none", "set up", "listening", "cancelled"}]
          /\ kind' \in [Firestore!StreamIds -> Firestore!StreamKinds]
      BY <2>1 DEF FirestoreInv
    <2>5. current' \in [Firestore!StreamIds -> Nat]
      <3>1. current \in [Firestore!StreamIds -> Nat]
        BY DEF FirestoreInv
      <3> QED BY <2>0, <2>1, <3>1
    <2>6. CancelledStaysEnded'
      <3>1. ASSUME NEW j \in Firestore!StreamIds, stream'[j] = "cancelled"
            PROVE  j # i /\ stream[j] = "cancelled"
        BY <2>1, <3>1 DEF FirestoreInv
      <3> QED BY <2>1, <3>1 DEF FirestoreInv
    <2> QED BY <2>3, <2>4, <2>5, <2>6 DEF FirestoreInv
  <1>8. ASSUME NEW i \in Firestore!StreamIds, Firestore!Cancel(i)
        PROVE  FirestoreInv'
    BY <1>8 DEF FirestoreInv, Firestore!Cancel, Firestore!Listening,
       Firestore!RemoveListener, Firestore!WithoutListener
  <1> QED
    BY <1>0, <1>1, <1>3, <1>4, <1>5, <1>6, <1>7, <1>8
       DEF Firestore!Next, Firestore!SdkStep

\* Nothing that an earlier listen of a stream has left with the SDK speaks on it
\* after Dart has cancelled it, however often Dart listens to it and whatever
\* the SDK tells in between.
THEOREM CancelledStreamStaysEnded == Spec => []CancelledStaysEnded
  <1>1. FirestoreInv => CancelledStaysEnded BY DEF FirestoreInv
  <1> QED BY <1>1, FirestoreBegins, FirestoreGoesOn, PTL DEF Spec

-----------------------------------------------------------------------------
(* The streams of the cameras. *)

\* A camera's stream is alive and no other camera's.
CameraInv ==
    /\ pw_stream \in [Cameras -> Camera!Streams \cup {0}]
    /\ DOMAIN owner \subseteq Camera!Streams
    /\ \A s \in DOMAIN owner : owner[s] \in Cameras
    /\ active \subseteq DOMAIN owner
    /\ \A k \in Cameras : pw_stream[k] # 0 => pw_stream[k] \in DOMAIN owner
    /\ \A j, k \in Cameras :
          pw_stream[j] # 0 /\ pw_stream[j] = pw_stream[k] => j = k
    /\ frame \subseteq [camera : Cameras, from : Camera!Streams, offered : BOOLEAN]
    /\ FrameKeepsItsStream

LEMMA CameraBegins == Init => CameraInv
  BY DEF Init, Camera!StateInit, CameraInv, FrameKeepsItsStream,
     Camera!FrameKeepsItsStream

LEMMA CameraGoesOn == CameraInv /\ [Next]_vars => CameraInv'
  <1> SUFFICES ASSUME CameraInv, [Next]_vars PROVE CameraInv'
    OBVIOUS
  <1> DEFINE hers == <<pw_stream, owner, active>>
  <1> USE DEF FrameKeepsItsStream, Camera!FrameKeepsItsStream, Camera!Live
  <1>0. Camera!Next \/ UNCHANGED <<hers, frame>>
    BY DEF Next, vars, Step, cameraVars
  <1>1. ASSUME UNCHANGED <<hers, frame>> PROVE CameraInv'
    BY <1>1 DEF CameraInv
  <1>2. ASSUME NEW k \in Cameras, Camera!Start(k), UNCHANGED frame
        PROVE  CameraInv'
    <2>1. CASE Camera!InitializeFails
      BY <1>1, <1>2, <2>1 DEF Camera!InitializeFails
    <2>2. CASE Camera!StreamFails(k)
      BY <1>2, <2>2 DEF Camera!StreamFails, Camera!LoopFree, CameraInv
    <2>3. CASE Camera!StreamStarts(k)
      <3>1. PICK s \in Camera!Streams :
               /\ s \notin DOMAIN owner
               /\ pw_stream' = [pw_stream EXCEPT ![k] = s]
               /\ owner' = [r \in DOMAIN owner \cup {s} |->
                               IF r = s THEN k ELSE owner[r]]
               /\ active' = active \cup {s}
        BY <2>3 DEF Camera!StreamStarts
      <3>2. frame = {} /\ frame' = {}
        BY <1>2, <2>3 DEF Camera!StreamStarts, Camera!LoopFree
      <3> QED BY <3>1, <3>2 DEF CameraInv
    <2> QED BY <1>2, <2>1, <2>2, <2>3 DEF Camera!Start
  <1>3. ASSUME NEW k \in Cameras, Camera!Stop(k), UNCHANGED frame
        PROVE  CameraInv'
    <2>1. CASE pw_stream[k] = 0
      BY <1>1, <1>3, <2>1 DEF Camera!Stop
    <2>2. CASE pw_stream[k] # 0
      <3>1. /\ owner' = [r \in DOMAIN owner \ {pw_stream[k]} |-> owner[r]]
            /\ active' = active \ {pw_stream[k]}
            /\ pw_stream' = [pw_stream EXCEPT ![k] = 0]
            /\ frame = {} /\ frame' = {}
        BY <1>3, <2>2 DEF Camera!Stop, Camera!Without, Camera!LoopFree
      <3> QED BY <3>1 DEF CameraInv
    <2> QED BY <2>1, <2>2
  <1>4. ASSUME NEW k \in Cameras, NEW on \in BOOLEAN, Camera!SetActive(k, on),
               UNCHANGED frame
        PROVE  CameraInv'
    <2>1. UNCHANGED <<pw_stream, owner>>
          /\ (pw_stream[k] = 0 => active' = active)
          /\ active' \subseteq active \cup {pw_stream[k]}
      BY <1>4 DEF Camera!SetActive
    <2> QED BY <1>4, <2>1 DEF CameraInv
  <1>5. CASE Camera!CameraCall
    <2> USE DEF Camera!cameraVars, Camera!imageVars, Camera!streamVars
    <2>1. PICK c \in CameraCalls :
             \/ Camera!GetAvailableCameras(c) \/ Camera!StartVideoRecording(c)
             \/ Camera!StopVideoRecording(c)
             \/ \E k \in Cameras :
                   \/ Camera!Create(c, k) \/ Camera!Initialize(c, k)
                   \/ Camera!Dispose(c, k) \/ Camera!TakePicture(c, k)
                   \/ Camera!PausePreview(c, k) \/ Camera!ResumePreview(c, k)
      BY <1>5 DEF Camera!CameraCall
    <2>2. CASE \/ Camera!GetAvailableCameras(c) \/ Camera!StartVideoRecording(c)
               \/ Camera!StopVideoRecording(c)
      BY <1>1, <2>2 DEF Camera!GetAvailableCameras, Camera!StartVideoRecording,
         Camera!StopVideoRecording
    <2>3. ASSUME NEW k \in Cameras,
                 \/ Camera!Create(c, k) \/ Camera!Initialize(c, k)
                 \/ Camera!Dispose(c, k) \/ Camera!TakePicture(c, k)
                 \/ Camera!PausePreview(c, k) \/ Camera!ResumePreview(c, k)
          PROVE  CameraInv'
      <3>1. CASE Camera!Create(c, k) \/ Camera!TakePicture(c, k)
                 \/ Camera!NullStream(c, k)
        BY <1>1, <3>1 DEF Camera!Create, Camera!TakePicture, Camera!NullStream,
           Camera!OfTexture
      <3>2. CASE Camera!Initialize(c, k)
        BY <1>1, <1>2, <3>2 DEF Camera!Initialize
      <3>3. CASE Camera!OfTexture(c, k) /\ Camera!Stop(k)
        BY <1>3, <3>3 DEF Camera!OfTexture
      <3>4. CASE Camera!OfTexture(c, k)
                 /\ (Camera!SetActive(k, FALSE) \/ Camera!SetActive(k, TRUE))
        BY <1>4, <3>4 DEF Camera!OfTexture
      <3> QED
        BY <2>3, <3>1, <3>2, <3>3, <3>4
           DEF Camera!Dispose, Camera!PausePreview, Camera!ResumePreview
    <2> QED BY <2>1, <2>2, <2>3
  <1>6. CASE \E on \in BOOLEAN : Camera!SetImageStream(on)
    BY <1>1, <1>6 DEF Camera!SetImageStream, Camera!streamVars
  <1>7. CASE Camera!EndPlugin \/ Camera!TakeImage \/ Camera!SendI420Frame
    BY <1>1, <1>7 DEF Camera!EndPlugin, Camera!TakeImage, Camera!SendI420Frame,
       Camera!streamVars, Camera!imageVars
  <1>8. ASSUME NEW s \in DOMAIN owner, Camera!DequeueBuffer(s)
        PROVE  CameraInv'
    BY <1>8 DEF Camera!DequeueBuffer, Camera!streamVars, CameraInv
  <1>9. CASE Camera!OfferImage
    BY <1>9 DEF Camera!OfferImage, Camera!streamVars, CameraInv
  <1>10. CASE Camera!QueueBuffer
    BY <1>10 DEF Camera!QueueBuffer, Camera!streamVars, CameraInv
  <1> QED
    BY <1>0, <1>1, <1>5, <1>6, <1>7, <1>8, <1>9, <1>10 DEF Camera!Next

\* A buffer that the thread of PipeWire's loop has taken goes back to the live
\* stream it came from, whatever Dart does to the cameras meanwhile.
THEOREM FrameGoesBack == Spec => []FrameKeepsItsStream
  <1>1. CameraInv => FrameKeepsItsStream BY DEF CameraInv
  <1> QED BY <1>1, CameraBegins, CameraGoesOn, PTL DEF Spec

-----------------------------------------------------------------------------
(* The events of the audio players. *)

Made == 1..players

\* Only players that are not deleted queue events, and a player is cancelled
\* before it is deleted, unless it was never in use.
AudioInv ==
    /\ players \in 0..MaxPlayers
    /\ player \in 0..players /\ in_watch \in 0..players
    /\ streaming \subseteq Made /\ watched \subseteq Made
    /\ freed \subseteq Made /\ cancelled \subseteq Made
    /\ disposing \in [player : 0..players,
                      step : {"none", "release", "unwatch", "cancel", "free"}]
    /\ idle \in Seq(Made)
    /\ \A i \in 1..Len(idle) : idle[i] \in freed => idle[i] \in cancelled
    /\ player \notin freed /\ streaming \cap freed = {}
    /\ disposing.step # "none" => player = 0 /\ disposing.player # 0
    /\ disposing.step \in {"unwatch", "cancel", "free"}
          => disposing.player \notin streaming
    /\ disposing.step = "free" => disposing.player \in cancelled

LEMMA AudioBegins == Init => AudioInv
  BY BoundsAssumption DEF Init, Audio!Init, AudioInv, Made, Audio!None,
     Audio!NotDisposing

LEMMA AudioGoesOn == AudioInv /\ [Next]_vars => AudioInv'
  <1> SUFFICES ASSUME AudioInv, [Next]_vars PROVE AudioInv'
    OBVIOUS
  <1> DEFINE hers == <<player, players, disposing, streaming, watched, in_watch,
                       cancelled, freed, idle>>
  <1> USE DEF Audio!None, Audio!pipeVars, Audio!lifeVars, Audio!channelVars
  <1>0. Audio!Next \/ UNCHANGED <<hers>>
    BY DEF Next, vars, Step, audioVars
  <1>m. MaxPlayers \in Nat
    BY BoundsAssumption
  <1>1. ASSUME UNCHANGED hers PROVE AudioInv'
    BY <1>1 DEF AudioInv, Made
  <1>2. CASE Audio!CreatePlayer
    BY <1>m, <1>2 DEF Audio!CreatePlayer, Audio!PlatformFree,
       Audio!NotDisposing, AudioInv, Made
  <1>3. CASE Audio!CreateThrows
    BY <1>m, <1>3 DEF Audio!CreateThrows, Audio!PlatformFree,
       Audio!NotDisposing, AudioInv, Made
  <1>4. CASE Audio!Listen \/ Audio!Cancel \/ Audio!WatchUsesFreed
    BY <1>1, <1>4 DEF Audio!Listen, Audio!Cancel, Audio!WatchUsesFreed
  <1>5. CASE Audio!DisposePlayer
    BY <1>5 DEF Audio!DisposePlayer, AudioInv, Made
  <1>6. CASE Audio!ReleaseMediaSource
    BY <1>6 DEF Audio!ReleaseMediaSource, Audio!Disposes, Audio!GoesOnTo,
       AudioInv, Made
  <1>7. CASE Audio!RemoveWatch
    BY <1>7 DEF Audio!RemoveWatch, Audio!Disposes, Audio!GoesOnTo, AudioInv,
       Made
  <1>8. CASE Audio!CancelDelivery
    <2>1. /\ disposing.step = "cancel"
          /\ disposing' = [disposing EXCEPT !.step = "free"]
          /\ cancelled' = cancelled \cup {disposing.player}
          /\ UNCHANGED <<player, players, streaming, watched, in_watch, freed, idle>>
      BY <1>8 DEF Audio!CancelDelivery, Audio!Disposes, Audio!GoesOnTo
    <2>2. disposing.player \in Made
      BY <2>1 DEF AudioInv, Made
    <2>3. /\ disposing' \in [player : 0..players,
                             step : {"none", "release", "unwatch", "cancel", "free"}]
          /\ disposing'.player = disposing.player /\ disposing'.step = "free"
      BY <2>1 DEF AudioInv
    <2> QED BY <2>1, <2>2, <2>3 DEF AudioInv, Made
  <1>9. CASE Audio!Free
    <2>1. /\ disposing.step = "free"
          /\ disposing' = [player |-> 0, step |-> "none"]
          /\ freed' = freed \cup {disposing.player}
          /\ UNCHANGED <<player, players, streaming, watched, in_watch, cancelled,
                         idle>>
      BY <1>9 DEF Audio!Free, Audio!Disposes, Audio!NotDisposing
    <2>2. /\ disposing.player \in cancelled /\ disposing.player \notin streaming
          /\ disposing.player \in Made /\ player = 0
      BY <2>1 DEF AudioInv
    <2> QED BY <2>1, <2>2 DEF AudioInv, Made
  <1>10. CASE Audio!WatchEnds
    BY <1>10 DEF Audio!WatchEnds, AudioInv, Made
  <1>11. CASE Audio!Deliver
    BY <1>11 DEF Audio!Deliver, AudioInv, Made
  <1>12. ASSUME NEW p \in Audio!Players, Audio!SendEvent(p)
         PROVE  AudioInv'
    <2>1. idle' = Append(idle, p)
          /\ UNCHANGED <<player, players, disposing, streaming, watched, in_watch,
                         cancelled, freed>>
      BY <1>12 DEF Audio!SendEvent
    <2>2. p \in Made /\ p \notin freed
      BY <1>12 DEF Audio!SendEvent, Audio!Sends, Audio!Players, AudioInv, Made
    <2>3. idle \in Seq(Made)
      BY DEF AudioInv
    <2>4. /\ idle' \in Seq(Made)
          /\ \A i \in 1..Len(idle') : \/ idle'[i] = p
                                      \/ /\ i \in 1..Len(idle)
                                         /\ idle'[i] = idle[i]
      BY <2>1, <2>2, <2>3, AppendProperties
    <2> QED BY <2>1, <2>2, <2>4 DEF AudioInv, Made
  <1>13. ASSUME NEW p \in Audio!Players, Audio!WatchBegins(p)
         PROVE  AudioInv'
    BY <1>13 DEF Audio!WatchBegins, AudioInv, Made
  <1> QED
    BY <1>0, <1>1, <1>2, <1>3, <1>4, <1>5, <1>6, <1>7, <1>8, <1>9, <1>10, <1>11,
       <1>12, <1>13 DEF Audio!Next, Audio!Dart, Audio!Dispose

\* Dart is never sent an event of a player that has been deleted, whichever of
\* the three threads queued it.
THEOREM SilenceAfterDispose == Spec => SilentAfterDispose
  <1>1. AudioInv /\ [Next]_vars
           => [delivered' # delivered => delivered'.player \notin freed]_(Audio!vars)
    <2> SUFFICES ASSUME AudioInv, [Next]_vars, delivered' # delivered
                 PROVE  delivered'.player \notin freed
      BY DEF Audio!vars
    <2>1. Audio!Next
      BY DEF Next, vars, Step, audioVars
    <2>2. Audio!Deliver
      BY <2>1 DEF Audio!Next, Audio!Dart, Audio!Dispose, Audio!CreatePlayer,
         Audio!CreateThrows, Audio!Listen, Audio!Cancel, Audio!DisposePlayer,
         Audio!ReleaseMediaSource, Audio!RemoveWatch, Audio!CancelDelivery,
         Audio!Free, Audio!WatchEnds, Audio!WatchUsesFreed, Audio!SendEvent,
         Audio!WatchBegins
    <2> QED
      BY <2>2 DEF Audio!Deliver, AudioInv, Made
  <1> QED
    BY <1>1, AudioBegins, AudioGoesOn, PTL
       DEF Spec, SilentAfterDispose, Audio!SilentAfterDispose

-----------------------------------------------------------------------------
(* The two streams of the authentication. *)

\* What the platform thread may have left to do: the rest of OnCancelInternal,
\* of OnListenInternal, or of the one and all of the other.
Cancelling == {<<"remove", "disarm", "drop">>, <<"disarm", "drop">>, <<"drop">>}
Making     == {<<"create", "arm", "add">>, <<"arm", "add">>, <<"add">>}
Renewing   == {<<"remove", "disarm", "drop", "create", "arm", "add">>,
               <<"disarm", "drop", "create", "arm", "add">>,
               <<"drop", "create", "arm", "add">>}
Programs   == {<<>>} \cup Cancelling \cup Making \cup Renewing

\* The next step of the platform thread is `what`.
At(what) == platform.steps # <<>> /\ Head(platform.steps) = what

\* The platform thread is at work on the stream t.
Busy(t) == platform.steps # <<>> /\ platform.stream = t

\* A listener of the stream t that will tell it of the user has its turn.
OnItsWay(t) == \E n \in telling.todo \cup {telling.told} :
                  n \in sink /\ streamOf[n] = t

AuthTypes ==
    /\ made \in 0..MaxListens
    /\ user \in Users \cup {NoUser}
    /\ due \subseteq Auth!Streams
    /\ telling \in [todo : SUBSET attached, told : attached \cup {0},
                    seen : Users \cup {NoUser}, add : BOOLEAN]
    /\ attached \subseteq 1..made /\ sink \subseteq 1..made
    /\ streamOf \in [Auth!Listeners -> Auth!Streams]
    /\ listener \in [Auth!Streams -> 0..made]
    /\ listening \in [Auth!Streams -> BOOLEAN]
    /\ heard \in [Auth!Streams -> SUBSET (Users \cup {NoUser})]
    /\ platform \in [steps : Programs, stream : Auth!Streams]

\* Where the platform thread is tells what has been done to the listener of its
\* stream: that its sink is reset only after it was removed from the SDK, and
\* that it is added only with its sink.
AtItsStep ==
    /\ At("disarm") => Auth!Mine \notin attached
    /\ platform.steps \in Renewing \cup {<<"create", "arm", "add">>}
          => made < MaxListens
    /\ At("arm") \/ At("add") => Auth!Mine # 0
    /\ At("add") => Auth!Mine \in sink
    /\ platform.steps \in Cancelling => ~listening[platform.stream]

\* A stream that is listened to, and at rest, has a listener at the SDK; and it
\* has heard of the user, or will, unless the SDK is due to tell it.
UpToDate(t) ==
    /\ listener[t] # 0 => streamOf[listener[t]] = t
    /\ listening[t] /\ ~Busy(t) => listener[t] \in attached \cap sink
    /\ listening[t] /\ ~Busy(t) /\ t \notin due
          => heard[t] = {user} \/ OnItsWay(t)

AuthInv ==
    /\ AuthTypes
    /\ SinkInUseIsSet
    /\ telling.told # 0 /\ streamOf[telling.told] \notin due
          => telling.seen = user
    /\ AtItsStep
    /\ \A t \in Auth!Streams : UpToDate(t)

LEMMA AuthBegins == Init => AuthInv
  BY BoundsAssumption DEF Init, Auth!StateInit, Auth!Quiet, AuthInv, AuthTypes,
     SinkInUseIsSet, Auth!SinkInUseIsSet, AtItsStep, At, Programs, Cancelling,
     Renewing, UpToDate, Auth!Streams, Auth!Listeners

\* The steps of a program follow each other as they are written.
LEMMA ProgramGoesOn ==
    ASSUME NEW p \in Programs, p # <<>>
    PROVE  /\ Tail(p) \in Programs
           /\ Head(p) \in {"remove", "disarm", "drop", "create", "arm", "add"}
           /\ Head(p) = "remove" => Tail(p) # <<>> /\ Head(Tail(p)) = "disarm"
           /\ Head(p) = "disarm" => Tail(p) # <<>> /\ Head(Tail(p)) = "drop"
           /\ Head(p) = "drop" => Tail(p) = <<>> \/ Head(Tail(p)) = "create"
           /\ Head(p) = "create" => /\ p = <<"create", "arm", "add">>
                                    /\ Tail(p) # <<>> /\ Head(Tail(p)) = "arm"
           /\ Head(p) = "arm" => Tail(p) # <<>> /\ Head(Tail(p)) = "add"
           /\ Head(p) = "add" => Tail(p) = <<>>
           /\ Tail(p) \in Renewing \cup {<<"create", "arm", "add">>}
                 => p \in Renewing /\ Head(p) # "create"
           /\ Tail(p) \in Cancelling => p \in Cancelling
           /\ Head(p) # "add" /\ Tail(p) = <<>> => p \in Cancelling
  <1> USE DEF Programs, Cancelling, Making, Renewing
  <1>1. CASE p = <<"remove", "disarm", "drop">>
    <2>1. Head(p) = "remove" /\ Tail(p) = <<"disarm", "drop">>
      BY <1>1
    <2> QED BY <1>1, <2>1
  <1>2. CASE p = <<"disarm", "drop">>
    <2>1. Head(p) = "disarm" /\ Tail(p) = <<"drop">>
      BY <1>2
    <2> QED BY <1>2, <2>1
  <1>3. CASE p = <<"drop">>
    <2>1. Head(p) = "drop" /\ Tail(p) = <<>>
      BY <1>3
    <2> QED BY <1>3, <2>1
  <1>4. CASE p = <<"create", "arm", "add">>
    <2>1. Head(p) = "create" /\ Tail(p) = <<"arm", "add">>
      BY <1>4
    <2> QED BY <1>4, <2>1
  <1>5. CASE p = <<"arm", "add">>
    <2>1. Head(p) = "arm" /\ Tail(p) = <<"add">>
      BY <1>5
    <2> QED BY <1>5, <2>1
  <1>6. CASE p = <<"add">>
    <2>1. Head(p) = "add" /\ Tail(p) = <<>>
      BY <1>6
    <2> QED BY <1>6, <2>1
  <1>7. CASE p = <<"remove", "disarm", "drop", "create", "arm", "add">>
    <2>1. Head(p) = "remove" /\ Tail(p) = <<"disarm", "drop", "create", "arm", "add">>
      BY <1>7
    <2> QED BY <1>7, <2>1
  <1>8. CASE p = <<"disarm", "drop", "create", "arm", "add">>
    <2>1. Head(p) = "disarm" /\ Tail(p) = <<"drop", "create", "arm", "add">>
      BY <1>8
    <2> QED BY <1>8, <2>1
  <1>9. CASE p = <<"drop", "create", "arm", "add">>
    <2>1. Head(p) = "drop" /\ Tail(p) = <<"create", "arm", "add">>
      BY <1>9
    <2> QED BY <1>9, <2>1
  <1> QED BY <1>1, <1>2, <1>3, <1>4, <1>5, <1>6, <1>7, <1>8, <1>9

\* The calls and the futures leave the listeners alone; a new user is one that
\* the SDK is due to tell of.
LEMMA UserChanges ==
    ASSUME AuthInv, Auth!AuthCall \/ \E c \in AuthCalls : Auth!FutureEnds(c)
    PROVE  /\ UNCHANGED Auth!listenVars
           /\ user' \in Users \cup {NoUser}
           /\ due \subseteq due' /\ due' \subseteq Auth!Streams
           /\ user' = user \/ due' = Auth!Streams
  <1> DEFINE goal == /\ UNCHANGED Auth!listenVars
                     /\ user' \in Users \cup {NoUser}
                     /\ due \subseteq due' /\ due' \subseteq Auth!Streams
                     /\ user' = user \/ due' = Auth!Streams
  <1>0. user \in Users \cup {NoUser} /\ due \subseteq Auth!Streams
    BY DEF AuthInv, AuthTypes
  <1>1. ASSUME UNCHANGED Auth!authVars PROVE goal
    BY <1>0, <1>1 DEF Auth!authVars, Auth!listenVars
  <1>2. ASSUME NEW u \in Users \cup {NoUser}, Auth!SetUser(u),
               UNCHANGED Auth!listenVars
        PROVE  goal
    BY <1>0, <1>2 DEF Auth!SetUser
  <1>3. ASSUME NEW c \in AuthCalls, Auth!CallsOfUser(c) PROVE goal
    BY <1>1, <1>2, <1>3
       DEF Auth!CallsOfUser, Auth!CreateUserWithEmailAndPassword,
           Auth!SignInAnonymously, Auth!SignInWithCredential,
           Auth!SignInWithCustomToken, Auth!SignInWithEmailAndPassword,
           Auth!SignInWithProvider, Auth!LinkWithCredential,
           Auth!LinkWithProvider, Auth!ReauthenticateWithCredential,
           Auth!ReauthenticateWithProvider, Auth!Unlink,
           Auth!UpdatePhoneNumber, Auth!Reload, Auth!UpdateEmail,
           Auth!UpdatePassword, Auth!UpdateProfile,
           Auth!SendEmailVerification, Auth!GetIdToken, Auth!Delete,
           Auth!SignOut, Auth!ForUser
  <1>4. ASSUME NEW c \in AuthCalls, Auth!OtherCalls(c) PROVE goal
    BY <1>1, <1>4
       DEF Auth!OtherCalls, Auth!UseEmulator, Auth!SetLanguageCode,
           Auth!FetchSignInMethodsForEmail, Auth!SendPasswordResetEmail,
           Auth!ApplyActionCode, Auth!CheckActionCode,
           Auth!ConfirmPasswordReset, Auth!SignInWithEmailLink,
           Auth!SendSignInLinkToEmail, Auth!SetSettings,
           Auth!VerifyPasswordResetCode, Auth!VerifyPhoneNumber,
           Auth!VerifyBeforeUpdateEmail,
           Auth!RevokeTokenWithAuthorizationCode, Auth!Refuse, Auth!ForUser
  <1>5. ASSUME NEW c \in AuthCalls, Auth!FutureEnds(c) PROVE goal
    <2>1. CASE Auth!FutureSucceeds(c)
      <3>1. UNCHANGED Auth!listenVars
        BY <2>1 DEF Auth!FutureSucceeds
      <3>2. \/ Auth!SetUser(NoUser)
            \/ due' = due \cup {"id-token"} /\ UNCHANGED user
            \/ UNCHANGED <<user, due>>
        BY <2>1 DEF Auth!FutureSucceeds
      <3> QED BY <1>0, <1>2, <3>1, <3>2 DEF Auth!Streams
    <2>2. CASE \E u \in Users : Auth!SignInSucceeds(c, u)
      BY <1>2, <2>2 DEF Auth!SignInSucceeds
    <2> QED
      BY <1>1, <1>5, <2>1, <2>2 DEF Auth!FutureEnds, Auth!Callback
  <1> QED BY <1>3, <1>4, <1>5 DEF Auth!AuthCall

\* Telling the listeners, under their mutex.
LEMMA TellingGoesOn ==
    ASSUME AuthInv,
           \/ \E s \in Auth!Streams : Auth!Notify(s)
           \/ \E n \in telling.todo : Auth!OnChanged(n)
           \/ Auth!SendUser
    PROVE  AuthInv'
  <1> USE DEF AuthInv, AuthTypes, SinkInUseIsSet, Auth!SinkInUseIsSet
  <1>1. ASSUME NEW s \in Auth!Streams, Auth!Notify(s) PROVE AuthInv'
    <2> DEFINE hers == {n \in attached : streamOf[n] = s}
    <2>1. /\ telling.todo = {} /\ telling.told = 0
          /\ telling' = [todo |-> hers, told |-> 0, seen |-> NoUser, add |-> FALSE]
          /\ due' = due \ {s}
          /\ UNCHANGED <<user, attached, sink, streamOf, made, listener,
                         listening, platform, heard>>
      BY <1>1 DEF Auth!Notify, Auth!MutexFree, Auth!Quiet
    <2>2. /\ telling'.todo = hers /\ telling'.told = 0
          /\ AuthTypes' /\ SinkInUseIsSet'
      BY <2>1
    <2>3. AtItsStep'
      BY <2>1 DEF AtItsStep, At, Auth!Mine
    <2>4. ASSUME NEW t \in Auth!Streams PROVE UpToDate(t)'
      <3>1. ~OnItsWay(t)
        BY <2>1 DEF OnItsWay
      <3>2. CASE t = s
        <4>1. listening[t] /\ ~Busy(t) => listener[t] \in hers /\ listener[t] \in sink
          BY <3>2 DEF UpToDate
        <4>2. listening[t] /\ ~Busy(t) => OnItsWay(t)'
          BY <2>1, <2>2, <4>1, <3>2 DEF OnItsWay
        <4> QED BY <2>1, <4>2 DEF UpToDate, Busy
      <3>3. CASE t # s
        BY <2>1, <3>1, <3>3 DEF UpToDate, Busy
      <3> QED BY <3>2, <3>3
    <2> QED BY <2>2, <2>3, <2>4
  <1>2. ASSUME NEW n \in telling.todo, Auth!OnChanged(n) PROVE AuthInv'
    <2>1. /\ telling.told = 0
          /\ UNCHANGED <<user, due, attached, sink, streamOf, made, listener,
                         listening, platform, heard>>
          /\ telling'.todo = telling.todo \ {n}
          /\ n \in sink => telling'.told = n /\ telling'.seen = user
          /\ n \notin sink => telling'.told = 0
      BY <1>2 DEF Auth!OnChanged
    <2>2. AuthTypes'
      BY <1>2, <2>1 DEF Auth!OnChanged
    <2>3. SinkInUseIsSet'
          /\ (telling.told # 0 /\ streamOf[telling.told] \notin due
                 => telling.seen = user)'
      BY <2>1
    <2>4. AtItsStep'
      BY <2>1 DEF AtItsStep, At, Auth!Mine
    <2>5. ASSUME NEW t \in Auth!Streams PROVE UpToDate(t)'
      <3>1. OnItsWay(t) => OnItsWay(t)'
        BY <2>1 DEF OnItsWay
      <3> QED BY <2>1, <3>1 DEF UpToDate, Busy
    <2> QED BY <2>2, <2>3, <2>4, <2>5
  <1>3. ASSUME Auth!SendUser PROVE AuthInv'
    <2> DEFINE told == telling.told
    <2>1. /\ told # 0 /\ told \in sink
          /\ UNCHANGED <<user, due, attached, sink, streamOf, made, listener,
                         listening, platform>>
          /\ heard' = [heard EXCEPT ![streamOf[told]] = {telling.seen}]
          /\ telling'.todo = telling.todo /\ telling'.told = 0
      BY <1>3 DEF Auth!SendUser
    <2>2. AuthTypes'
      <3>1. telling' \in [todo : SUBSET attached, told : attached \cup {0},
                         seen : Users \cup {NoUser}, add : BOOLEAN]
        BY <1>3 DEF Auth!SendUser
      <3>2. {telling.seen} \in SUBSET (Users \cup {NoUser})
        OBVIOUS
      <3>3. heard' \in [Auth!Streams -> SUBSET (Users \cup {NoUser})]
        BY <2>1, <3>2
      <3> QED BY <2>1, <3>1, <3>3
    <2>3. AtItsStep'
      BY <2>1 DEF AtItsStep, At, Auth!Mine
    <2>4. ASSUME NEW t \in Auth!Streams PROVE UpToDate(t)'
      <3>1. CASE t = streamOf[told]
        <4>1. t \notin due => heard'[t] = {user}
          BY <2>1, <3>1
        <4> QED BY <2>1, <4>1 DEF UpToDate, Busy
      <3>2. CASE t # streamOf[told]
        <4>1. OnItsWay(t) => OnItsWay(t)'
          BY <2>1, <3>2 DEF OnItsWay
        <4> QED BY <2>1, <3>2, <4>1 DEF UpToDate, Busy
      <3> QED BY <3>1, <3>2
    <2> QED BY <2>1, <2>2, <2>3, <2>4
  <1> QED BY <1>1, <1>2, <1>3

\* A second listen cancels the first.
LEMMA CancelAndListen ==
    /\ <<"remove", "disarm", "drop">> \o <<"create", "arm", "add">>
          = <<"remove", "disarm", "drop", "create", "arm", "add">>
    /\ <<>> \o <<"create", "arm", "add">> = <<"create", "arm", "add">>
  <1> DEFINE S == {"remove", "disarm", "drop", "create", "arm", "add"}
             s == <<"remove", "disarm", "drop">>
             t == <<"create", "arm", "add">>
             u == <<"remove", "disarm", "drop", "create", "arm", "add">>
  <1>1. s \in Seq(S) /\ t \in Seq(S) /\ u \in Seq(S) /\ <<>> \in Seq(S)
    OBVIOUS
  <1>2. s \o t \in Seq(S) /\ Len(s \o t) = 6
    BY <1>1, ConcatProperties
  <1>3. ASSUME NEW i \in 1..6 PROVE (s \o t)[i] = u[i]
    <2>1. (s \o t)[i] = IF i <= 3 THEN s[i] ELSE t[i - 3]
      BY <1>1, ConcatProperties
    <2> QED BY <2>1
  <1>4. s \o t = u
    BY <1>1, <1>2, <1>3, SeqEqual
  <1>5. <<>> \o t = t
    BY <1>1, ConcatEmptySeq
  <1> QED BY <1>4, <1>5

\* Dart listens and cancels, or the plugin registers its listeners anew.
LEMMA ListeningGoesOn ==
    ASSUME AuthInv, NEW s \in Auth!Streams,
           Auth!Listen(s) \/ Auth!Cancel(s) \/ Auth!RegisterListener(s)
    PROVE  AuthInv'
  <1> USE BoundsAssumption
          DEF AuthInv, AuthTypes, SinkInUseIsSet, Auth!SinkInUseIsSet
  <1>1. /\ platform.steps = <<>>
        /\ UNCHANGED <<user, due, telling, attached, sink, streamOf, made>>
    BY DEF Auth!Listen, Auth!Cancel, Auth!RegisterListener, Auth!Idle
  <1>2. \A t \in Auth!Streams : /\ ~Busy(t)
                               /\ OnItsWay(t)' = OnItsWay(t)
    BY <1>1 DEF Busy, OnItsWay
  \* Every program begins with the listener's removal or its creation.
  <1>3. ASSUME NEW p \in Programs, p # <<>>,
               platform' = [steps |-> p, stream |-> s],
               p \in Renewing \cup {<<"create", "arm", "add">>} => made < MaxListens,
               Head(p) \in {"remove", "create"},
               p \in Cancelling => ~listening'[s],
               UNCHANGED listener,
               listening' \in [Auth!Streams -> BOOLEAN],
               heard' \in [Auth!Streams -> SUBSET (Users \cup {NoUser})],
               \A t \in Auth!Streams \ {s} : /\ listening'[t] = listening[t]
                                             /\ heard'[t] = heard[t]
        PROVE  AuthInv'
    <2>1. platform'.steps = p /\ platform'.stream = s
      BY <1>3
    <2>2. AtItsStep'
      BY <1>1, <1>3, <2>1 DEF AtItsStep, At
    <2>3. ASSUME NEW t \in Auth!Streams PROVE UpToDate(t)'
      <3>1. Busy(t)' <=> t = s
        BY <1>3, <2>1 DEF Busy
      <3> QED BY <1>1, <1>2, <1>3, <3>1 DEF UpToDate
    <2>4. AuthTypes'
      BY <1>1, <1>3
    <2> QED BY <1>1, <2>2, <2>3, <2>4
  <1>4. CASE Auth!Listen(s)
    <2> DEFINE p == (IF listening[s] THEN Auth!OnCancelInternal ELSE <<>>)
                       \o Auth!OnListenInternal
    <2>1. p = IF listening[s]
              THEN <<"remove", "disarm", "drop", "create", "arm", "add">>
              ELSE <<"create", "arm", "add">>
      BY CancelAndListen DEF Auth!OnCancelInternal, Auth!OnListenInternal
    <2>2. /\ platform' = [steps |-> p, stream |-> s]
          /\ made < MaxListens
          /\ listening' = [listening EXCEPT ![s] = TRUE]
          /\ heard' = [heard EXCEPT ![s] = {}]
          /\ UNCHANGED listener
      BY <1>4 DEF Auth!Listen
    <2> HIDE DEF p
    <2>3. /\ p \in Programs /\ p # <<>> /\ p \notin Cancelling
          /\ Head(p) \in {"remove", "create"}
      <3>1. CASE listening[s]
        BY <2>1, <3>1 DEF Programs, Renewing, Cancelling
      <3>2. CASE ~listening[s]
        BY <2>1, <3>2 DEF Programs, Making, Cancelling
      <3> QED BY <3>1, <3>2
    <2> QED BY <1>3, <2>2, <2>3
  <1>5. CASE Auth!Cancel(s)
    <2> DEFINE p == <<"remove", "disarm", "drop">>
    <2>1. /\ platform' = [steps |-> p, stream |-> s]
          /\ listening' = [listening EXCEPT ![s] = FALSE]
          /\ UNCHANGED <<listener, heard>>
      BY <1>5 DEF Auth!Cancel, Auth!OnCancelInternal
    <2>2. /\ p \in Programs /\ p # <<>> /\ Head(p) = "remove"
          /\ p \notin Renewing \cup {<<"create", "arm", "add">>}
      BY DEF Programs, Cancelling, Renewing
    <2> HIDE DEF p
    <2> QED BY <1>3, <2>1, <2>2
  <1>6. CASE Auth!RegisterListener(s)
    <2>1. /\ listener' = [listener EXCEPT ![s] = 0]
          /\ listening' = [listening EXCEPT ![s] = FALSE]
          /\ UNCHANGED <<platform, heard>>
      BY <1>6 DEF Auth!RegisterListener
    <2>2. AtItsStep'
      BY <1>1, <2>1 DEF AtItsStep, At, Renewing, Cancelling
    <2>3. ASSUME NEW t \in Auth!Streams PROVE UpToDate(t)'
      BY <1>1, <1>2, <2>1 DEF UpToDate, Busy
    <2>4. AuthTypes'
      BY <1>1, <2>1
    <2> QED BY <1>1, <2>1, <2>2, <2>3, <2>4
  <1> QED BY <1>4, <1>5, <1>6

\* A step of the platform thread: what the next one finds is as the invariant
\* says, and the other stream is left as it was.
LEMMA PlatformGoesOn ==
    ASSUME AuthInv,
           \/ Auth!Create \/ Auth!Drop \/ Auth!Arm \/ Auth!Disarm
           \/ Auth!Add \/ Auth!Remove
    PROVE  AuthInv'
  <1>b. MaxListens \in Nat
    BY BoundsAssumption
  <1> USE <1>b DEF AuthInv, AuthTypes, SinkInUseIsSet, Auth!SinkInUseIsSet
  <1>p. PICK p \in Programs : p = platform.steps
    OBVIOUS
  <1>s. PICK s \in Auth!Streams : s = platform.stream
    OBVIOUS
  <1>m. PICK m \in 0..made : m = listener[s]
    OBVIOUS
  <1>n. Auth!Mine = m
    BY <1>s, <1>m DEF Auth!Mine
  <1>1. PICK what : Auth!Step(what)
    BY DEF Auth!Create, Auth!Drop, Auth!Arm, Auth!Disarm, Auth!Add, Auth!Remove
  <1>2. /\ p # <<>>
        /\ platform'.steps = Tail(p) /\ platform'.stream = s
        /\ platform' \in [steps : Programs, stream : Auth!Streams]
        /\ UNCHANGED <<user, due, listening, heard>>
    BY <1>1, <1>p, <1>s, ProgramGoesOn DEF Auth!Step
  <1>3. \A t \in Auth!Streams \ {s} : ~Busy(t) /\ ~Busy(t)'
    BY <1>2, <1>p, <1>s DEF Busy
  <1>4. Busy(s) /\ (Head(p) # "add" => Busy(s)' \/ ~listening[s])
    BY <1>2, <1>p, <1>s, ProgramGoesOn DEF Busy, AtItsStep
  <1>5. m # 0 => streamOf[m] = s
    BY <1>m DEF UpToDate
  \* What is left of a program was in it before.
  <1>6. /\ platform'.steps \in Renewing \cup {<<"create", "arm", "add">>}
              => made < MaxListens /\ Head(p) # "create"
        /\ platform'.steps \in Cancelling => ~listening'[platform'.stream]
    BY <1>2, <1>p, <1>s, ProgramGoesOn DEF AtItsStep
  <1>7. CASE Auth!Remove
    <2>1. /\ Head(p) = "remove" /\ telling.todo = {} /\ telling.told = 0
          /\ attached' = attached \ {m}
          /\ UNCHANGED <<telling, sink, streamOf, made, listener>>
      BY <1>7, <1>n, <1>p DEF Auth!Remove, Auth!Step, Auth!MutexFree
    <2>2. AtItsStep'
      BY <1>2, <1>6, <2>1, ProgramGoesOn, <1>n, <1>s DEF AtItsStep, At, Auth!Mine
    <2>3. ASSUME NEW t \in Auth!Streams PROVE UpToDate(t)'
      BY <1>2, <1>3, <1>4, <1>5, <2>1 DEF UpToDate, OnItsWay
    <2> QED BY <1>2, <2>1, <2>2, <2>3
  <1>8. CASE Auth!Disarm
    <2>1. /\ Head(p) = "disarm" /\ m \notin attached
          /\ sink' = sink \ {m}
          /\ UNCHANGED <<telling, attached, streamOf, made, listener>>
      BY <1>2, <1>8, <1>n, <1>p DEF Auth!Disarm, Auth!Step, AtItsStep, At
    <2>2. AtItsStep'
      BY <1>2, <1>6, <2>1, ProgramGoesOn, <1>n, <1>s DEF AtItsStep, At, Auth!Mine
    <2>3. ASSUME NEW t \in Auth!Streams PROVE UpToDate(t)'
      <3>1. OnItsWay(t) => OnItsWay(t)'
        BY <2>1 DEF OnItsWay
      <3> QED BY <1>2, <1>3, <1>4, <1>5, <2>1, <3>1 DEF UpToDate
    <2> QED BY <1>2, <2>1, <2>2, <2>3
  <1>9. CASE Auth!Drop
    <2>1. /\ Head(p) = "drop"
          /\ listener' = [listener EXCEPT ![s] = 0]
          /\ UNCHANGED <<telling, attached, sink, streamOf, made>>
      BY <1>9, <1>s, <1>p DEF Auth!Drop, Auth!Step
    <2>2. AtItsStep'
      BY <1>2, <1>6, <2>1, ProgramGoesOn DEF AtItsStep, At
    <2>3. ASSUME NEW t \in Auth!Streams PROVE UpToDate(t)'
      <3>1. OnItsWay(t) => OnItsWay(t)'
        BY <2>1 DEF OnItsWay
      <3> QED BY <1>2, <1>3, <1>4, <1>5, <2>1, <3>1 DEF UpToDate
    <2> QED BY <1>2, <2>1, <2>2, <2>3
  <1>10. CASE Auth!Create
    <2>1. /\ Head(p) = "create" /\ made < MaxListens
          /\ made' = made + 1
          /\ listener' = [listener EXCEPT ![s] = made + 1]
          /\ streamOf' = [streamOf EXCEPT ![made + 1] = s]
          /\ UNCHANGED <<telling, attached, sink>>
      BY <1>2, <1>10, ProgramGoesOn, <1>s, <1>p DEF Auth!Create, Auth!Step, AtItsStep
    <2>2. made + 1 \in Auth!Listeners /\ made' \in 0..MaxListens
      BY <2>1 DEF Auth!Listeners
    <2>3. \A n \in 1..made : streamOf'[n] = streamOf[n]
      BY <2>1, <2>2 DEF Auth!Listeners
    <2>4. AtItsStep'
      <3>1. Auth!Mine' = made + 1
        BY <1>2, <2>1 DEF Auth!Mine
      <3>2. At("arm")' /\ ~At("disarm")' /\ ~At("add")'
        BY <1>2, <2>1, ProgramGoesOn DEF At
      <3> QED BY <1>6, <2>1, <2>2, <3>1, <3>2 DEF AtItsStep
    <2>5. ASSUME NEW t \in Auth!Streams PROVE UpToDate(t)'
      <3>1. OnItsWay(t) => OnItsWay(t)'
        BY <2>1, <2>3 DEF OnItsWay
      <3>2. CASE t = s
        BY <1>2, <1>4, <2>1, <2>2, <3>2 DEF UpToDate
      <3>3. CASE t # s
        BY <1>2, <1>3, <2>1, <2>3, <3>1, <3>3 DEF UpToDate
      <3> QED BY <3>2, <3>3
    <2>6. AuthTypes'
      BY <1>2, <2>1, <2>2
    <2>7. (telling.told # 0 /\ streamOf[telling.told] \notin due
              => telling.seen = user)'
      BY <1>2, <2>1, <2>3
    <2> QED BY <2>1, <2>4, <2>5, <2>6, <2>7
  <1>11. CASE Auth!Arm
    <2>1. /\ Head(p) = "arm" /\ m # 0
          /\ sink' = sink \cup {m}
          /\ UNCHANGED <<telling, attached, streamOf, made, listener>>
      BY <1>2, <1>11, <1>n, <1>p DEF Auth!Arm, Auth!Step, AtItsStep, At
    <2>2. AtItsStep'
      BY <1>2, <1>6, <2>1, ProgramGoesOn, <1>n, <1>s DEF AtItsStep, At, Auth!Mine
    <2>3. ASSUME NEW t \in Auth!Streams PROVE UpToDate(t)'
      <3>1. OnItsWay(t) => OnItsWay(t)'
        BY <2>1 DEF OnItsWay
      <3> QED BY <1>2, <1>3, <1>4, <1>5, <2>1, <3>1 DEF UpToDate
    <2>4. AuthTypes'
      BY <1>2, <1>5, <2>1
    <2>5. SinkInUseIsSet'
      BY <1>2, <2>1
    <2> QED BY <1>2, <2>1, <2>2, <2>3, <2>4, <2>5
  <1>12. CASE Auth!Add
    <2>1. /\ Head(p) = "add" /\ m # 0 /\ m \in sink
          /\ telling.todo = {} /\ telling.told = 0
          /\ attached' = attached \cup {m}
          /\ telling' = [todo |-> {m}, told |-> 0, seen |-> NoUser, add |-> TRUE]
          /\ UNCHANGED <<sink, streamOf, made, listener>>
      BY <1>2, <1>12, <1>n, <1>p DEF Auth!Add, Auth!Step, Auth!MutexFree, Auth!Quiet,
         AtItsStep, At
    <2>2. AtItsStep'
      BY <1>2, <1>6, <2>1, ProgramGoesOn DEF AtItsStep, At
    <2>3. ASSUME NEW t \in Auth!Streams PROVE UpToDate(t)'
      <3>1. ~OnItsWay(t) /\ OnItsWay(s)'
        BY <1>5, <2>1 DEF OnItsWay
      <3> QED BY <1>2, <1>3, <1>m, <1>5, <2>1, <3>1 DEF UpToDate
    <2>4. AuthTypes'
      BY <1>2, <1>5, <2>1
    <2> QED BY <1>2, <2>1, <2>2, <2>3, <2>4
  <1> QED BY <1>7, <1>8, <1>9, <1>10, <1>11, <1>12

LEMMA AuthGoesOn == AuthInv /\ [Next]_vars => AuthInv'
  <1> SUFFICES ASSUME AuthInv, [Next]_vars PROVE AuthInv'
    OBVIOUS
  <1>0. Auth!Next \/ UNCHANGED authVars
    BY DEF Next, vars, Step, authVars
  <1>1. ASSUME UNCHANGED <<telling, attached, sink, streamOf, made, listener,
                           listening, platform, heard>>,
               user' \in Users \cup {NoUser},
               due \subseteq due', due' \subseteq Auth!Streams,
               user' = user \/ due' = Auth!Streams
        PROVE  AuthInv'
    <2> USE <1>1 DEF AuthInv
    <2>1. AuthTypes'
      BY DEF AuthTypes
    <2>2. AtItsStep' /\ SinkInUseIsSet'
      BY DEF AtItsStep, At, Auth!Mine, SinkInUseIsSet, Auth!SinkInUseIsSet
    <2>3. (telling.told # 0 /\ streamOf[telling.told] \notin due
              => telling.seen = user)'
      <3>1. CASE telling.told # 0
        <4>1. streamOf[telling.told] \in Auth!Streams
          <5>1. telling.told \in 1..made /\ made \in 0..MaxListens
            BY <3>1 DEF AuthTypes
          <5>2. telling.told \in Auth!Listeners
            BY <5>1, BoundsAssumption DEF Auth!Listeners
          <5> QED BY <5>2 DEF AuthTypes
        <4> QED BY <4>1
      <3> QED BY <3>1
    <2>4. ASSUME NEW t \in Auth!Streams PROVE UpToDate(t)'
      <3>1. OnItsWay(t)' = OnItsWay(t) /\ Busy(t)' = Busy(t)
        BY DEF OnItsWay, Busy
      <3> QED BY <3>1 DEF UpToDate
    <2> QED BY <2>1, <2>2, <2>3, <2>4
  <1>2. CASE Auth!AuthCall \/ \E c \in AuthCalls : Auth!FutureEnds(c)
    BY <1>1, <1>2, UserChanges DEF Auth!listenVars
  <1>3. CASE UNCHANGED authVars
    BY <1>1, <1>3 DEF authVars, AuthInv, AuthTypes
  <1> QED
    BY <1>0, <1>2, <1>3, TellingGoesOn, ListeningGoesOn, PlatformGoesOn
       DEF Auth!Next, Auth!SdkStep, Auth!PlatformStep

\* However telling, listening and cancelling interleave, a listener's sink is
\* not reset between its test and its use.
THEOREM SinkInUseStaysSet == Spec => []SinkInUseIsSet
  <1>1. AuthInv => SinkInUseIsSet BY DEF AuthInv
  <1> QED BY <1>1, AuthBegins, AuthGoesOn, PTL DEF Spec

\* A subscriber for whom nothing is on its way last heard of the user who is
\* signed in, whoever signed in or out while its listener was added or told.
THEOREM StreamStaysCurrent == Spec => []StreamIsCurrent
  <1>1. AuthInv => StreamIsCurrent
    BY DEF AuthInv, AuthTypes, UpToDate, Busy, OnItsWay, StreamIsCurrent,
       Auth!StreamIsCurrent, Auth!Idle, Auth!MutexFree
  <1> QED BY <1>1, AuthBegins, AuthGoesOn, PTL DEF Spec

-----------------------------------------------------------------------------
(* The transaction of Firestore. *)

\* The lambda registers its transaction before anything else; and as long as
\* every attempt is woken by a stored result, no more than one question is on its
\* way to Dart or being handled there, and it is the one the lambda waits for.
TransactionInv ==
    /\ dart \in {"idle", "created"} => sdk = "unstarted"
    /\ Transaction!InLambda => transactions = attempt
    /\ GetReadsOwnAttempt
    /\ orderly =>
         /\ sdk # "failed"
         /\ sdk \in {"asked", "waiting"} =>
              \/ channel = <<>> /\ handlers \subseteq {attempt}
              \/ channel = <<Transaction!Ask(attempt)>> /\ handlers = {}
         /\ sdk \notin {"asked", "waiting", "completed"} =>
              channel = <<>> /\ handlers = {}
         /\ sdk = "awake" => commands = attempt
         /\ sdk \in {"applied", "committed"} => applied = attempt

LEMMA TransactionBegins == Init => TransactionInv
  BY DEF Init, Transaction!Init, TransactionInv, Transaction!InLambda,
     GetReadsOwnAttempt, Transaction!GetReadsOwnAttempt

LEMMA TransactionGoesOn == TransactionInv /\ [Next]_vars => TransactionInv'
  <1> SUFFICES ASSUME TransactionInv, [Next]_vars PROVE TransactionInv'
    OBVIOUS
  <1> USE DEF Transaction!sdkVars, Transaction!dartVars, Transaction!InLambda,
          GetReadsOwnAttempt, Transaction!GetReadsOwnAttempt, TransactionInv
  <1>0. Transaction!Next \/ UNCHANGED transactionVars
    BY DEF Next, vars, Step
  <1>1. CASE UNCHANGED transactionVars
    BY <1>1 DEF transactionVars
  <1>2. CASE Transaction!TransactionCreate
    BY <1>2 DEF Transaction!TransactionCreate
  <1>3. CASE Transaction!OnListen
    BY <1>3 DEF Transaction!OnListen
  <1>4. CASE Transaction!OnCancel
    BY <1>4 DEF Transaction!OnCancel, Transaction!NotifyOne
  <1>5. ASSUME NEW n \in Transaction!Attempts, Transaction!TransactionStoreResult(n)
        PROVE  TransactionInv'
    <2>1. /\ n \in handlers /\ handlers' = handlers \ {n} /\ commands' = n
          /\ sdk' = (IF sdk = "waiting" THEN "awake" ELSE sdk)
          /\ UNCHANGED <<attempt, transactions, applied, channel, dart, got, orderly>>
      BY <1>5 DEF Transaction!TransactionStoreResult, Transaction!NotifyOne
    <2>2. orderly /\ sdk \in {"asked", "waiting"} =>
              n = attempt /\ channel = <<>> /\ handlers' = {}
      BY <2>1
    <2>3. orderly => sdk \in {"asked", "waiting", "completed"}
      BY <2>1
    <2> QED BY <2>1, <2>2, <2>3
  <1>6. ASSUME NEW n \in Transaction!Attempts, Transaction!TransactionGet(n)
        PROVE  TransactionInv'
    BY <1>6 DEF Transaction!TransactionGet
  <1>7. CASE Transaction!RegisterTransaction
    BY <1>7 DEF Transaction!RegisterTransaction
  <1>8. CASE Transaction!AskDart
    <2>1. /\ sdk = "registered" /\ sdk' = "asked"
          /\ channel' = channel \o <<Transaction!Ask(attempt)>>
          /\ UNCHANGED <<attempt, transactions, applied, commands, handlers, dart, got,
                         orderly>>
      BY <1>8 DEF Transaction!AskDart, Transaction!Send
    <2>2. orderly => channel' = <<Transaction!Ask(attempt)>> /\ handlers = {}
      BY <2>1
    <2> QED BY <2>1, <2>2 DEF Transaction!Ask
  <1>9. CASE Transaction!Wait
    BY <1>9 DEF Transaction!Wait
  <1>10. CASE Transaction!TimeOut \/ Transaction!SpuriousWakeUp
    BY <1>10 DEF Transaction!TimeOut, Transaction!SpuriousWakeUp
  <1>11. CASE Transaction!ApplyCommands
    BY <1>11 DEF Transaction!ApplyCommands
  <1>12. CASE Transaction!Retry \/ Transaction!Commit \/ Transaction!GiveUp
    BY <1>12 DEF Transaction!Retry, Transaction!Commit, Transaction!GiveUp
  <1>13. CASE Transaction!OnCompletion
    BY <1>13 DEF Transaction!OnCompletion
  <1>14. CASE Transaction!DartHears
    <2>1. /\ channel # <<>> /\ channel' = Tail(channel)
          /\ handlers' = IF Head(channel).kind = "ask" /\ dart = "listening"
                           THEN handlers \cup {Head(channel).attempt} ELSE handlers
          /\ dart' \in {dart, "ended"}
          /\ UNCHANGED <<sdk, attempt, transactions, applied, commands, got, orderly>>
      BY <1>14 DEF Transaction!DartHears
    <2>2. CASE orderly /\ sdk # "completed"
      <3>1. sdk \in {"asked", "waiting"} /\ handlers = {}
            /\ channel = <<Transaction!Ask(attempt)>>
        BY <2>1, <2>2
      <3>2. channel' = <<>> /\ Head(channel).attempt = attempt
        BY <2>1, <3>1 DEF Transaction!Ask
      <3>3. handlers' \subseteq {attempt}
        BY <2>1, <3>1, <3>2
      <3> QED BY <2>1, <3>1, <3>2, <3>3
    <2>3. CASE ~(orderly /\ sdk # "completed")
      BY <2>1, <2>3
    <2> QED BY <2>2, <2>3
  <1> QED
    BY <1>0, <1>1, <1>2, <1>3, <1>4, <1>5, <1>6, <1>7, <1>8, <1>9, <1>10, <1>11,
       <1>12, <1>13, <1>14
    DEF Transaction!Next, Transaction!Lambda, Transaction!Sdk

\* Whatever answers, reads and retries overlap, the SDK commits in an attempt
\* what Dart answered to that attempt, as long as every attempt was woken by a
\* stored result, for any number of attempts.
THEOREM TransactionCommitsItsAnswer == Spec => []CommitsOwnAnswer
  <1>1. TransactionInv => CommitsOwnAnswer
    BY DEF TransactionInv, CommitsOwnAnswer, Transaction!CommitsOwnAnswer
  <1> QED BY <1>1, TransactionBegins, TransactionGoesOn, PTL DEF Spec

\* A read of Dart's handler, in the attempt that waits for it, is through that
\* attempt's transaction, timeouts, cancels and spurious wake-ups or not.
THEOREM TransactionReadsItsAttempt == Spec => []GetReadsOwnAttempt
  <1>1. TransactionInv => GetReadsOwnAttempt
    BY DEF TransactionInv
  <1> QED BY <1>1, TransactionBegins, TransactionGoesOn, PTL DEF Spec

\* While Dart listens to a transaction that is over, the end of its stream is on
\* its way.
EndOnItsWay ==
    dart = "listening" /\ sdk = "completed" =>
        \E i \in 1..Len(channel) : channel[i] = Transaction!End

\* A question or an answer is about an attempt that has begun.
TransactionTypes ==
    /\ Transaction!TypeOK
    /\ sdk \in {"registered", "asked", "waiting", "awake"} => attempt \in Transaction!Attempts

EndInv == TransactionTypes /\ EndOnItsWay

LEMMA TransactionTypesStep == TransactionTypes /\ [Next]_vars => TransactionTypes'
  <1> SUFFICES ASSUME TransactionTypes, [Next]_vars PROVE TransactionTypes'
    OBVIOUS
  <1> USE DEF Transaction!sdkVars, Transaction!dartVars, Transaction!TypeOK,
          Transaction!Attempts, TransactionTypes
  <1>0. Transaction!Next \/ UNCHANGED transactionVars
    BY DEF Next, vars, Step
  <1>a. MaxAttempts \in Nat \ {0}
    BY Transaction!AttemptsAssumption
  <1>b. /\ Transaction!End \in Transaction!Events /\ Transaction!Error \in Transaction!Events
        /\ Transaction!Complete \in Transaction!Events
        /\ \A n \in Transaction!Attempts : Transaction!Ask(n) \in Transaction!Events
    BY DEF Transaction!Events
  <1>c. \A e \in Seq(Transaction!Events) : channel \o e \in Seq(Transaction!Events)
    OBVIOUS
  <1>1. CASE UNCHANGED transactionVars
    BY <1>1 DEF transactionVars
  <1>2. CASE Transaction!TransactionCreate \/ Transaction!OnListen
    BY <1>2 DEF Transaction!TransactionCreate, Transaction!OnListen
  <1>3. CASE Transaction!OnCancel
    <2>1. channel' \in Seq(Transaction!Events)
      BY <1>3, <1>b, <1>c DEF Transaction!OnCancel, Transaction!Send
    <2> QED BY <1>3, <2>1 DEF Transaction!OnCancel, Transaction!NotifyOne
  <1>4. ASSUME NEW n \in Transaction!Attempts,
               Transaction!TransactionStoreResult(n) \/ Transaction!TransactionGet(n)
        PROVE  TransactionTypes'
    <2>1. CASE Transaction!TransactionStoreResult(n)
      BY <2>1, <1>a DEF Transaction!TransactionStoreResult, Transaction!NotifyOne
    <2>2. CASE Transaction!TransactionGet(n)
      <3>1. got' \in [by : 0..MaxAttempts, from : 0..MaxAttempts, during : 0..MaxAttempts]
        <4>1. n \in 0..MaxAttempts /\ 0 \in 0..MaxAttempts
          BY <1>a
        <4> QED BY <2>2, <4>1 DEF Transaction!TransactionGet
      <3> QED BY <2>2, <3>1 DEF Transaction!TransactionGet
    <2> QED BY <1>4, <2>1, <2>2
  <1>5. CASE Transaction!RegisterTransaction
    BY <1>5, <1>a DEF Transaction!RegisterTransaction
  <1>6. CASE Transaction!AskDart
    <2>1. channel' \in Seq(Transaction!Events)
      BY <1>6, <1>b, <1>c DEF Transaction!AskDart, Transaction!Send
    <2> QED BY <1>6, <2>1 DEF Transaction!AskDart
  <1>7. CASE Transaction!TimeOut
    <2>1. channel' \in Seq(Transaction!Events)
      BY <1>7, <1>b, <1>c DEF Transaction!TimeOut, Transaction!Send
    <2> QED BY <1>7, <2>1 DEF Transaction!TimeOut
  <1>8. CASE Transaction!Wait \/ Transaction!SpuriousWakeUp \/ Transaction!ApplyCommands
    BY <1>8 DEF Transaction!Wait, Transaction!SpuriousWakeUp, Transaction!ApplyCommands
  <1>9. CASE Transaction!Retry \/ Transaction!Commit \/ Transaction!GiveUp
    BY <1>9 DEF Transaction!Retry, Transaction!Commit, Transaction!GiveUp
  <1>10. CASE Transaction!OnCompletion
    <2>1. channel' \in Seq(Transaction!Events)
      BY <1>10, <1>b, <1>c DEF Transaction!OnCompletion, Transaction!Send
    <2> QED BY <1>10, <2>1 DEF Transaction!OnCompletion
  <1>11. CASE Transaction!DartHears
    <2>1. Head(channel) \in Transaction!Events /\ Tail(channel) \in Seq(Transaction!Events)
      BY <1>11 DEF Transaction!DartHears
    <2>2. Head(channel).kind = "ask" => Head(channel).attempt \in Transaction!Attempts
      BY <2>1 DEF Transaction!Events, Transaction!Ask, Transaction!Complete,
                  Transaction!Error, Transaction!End
    <2> QED BY <1>11, <2>1, <2>2 DEF Transaction!DartHears
  <1> QED
    BY <1>0, <1>1, <1>2, <1>3, <1>4, <1>5, <1>6, <1>7, <1>8, <1>9, <1>10, <1>11
    DEF Transaction!Next, Transaction!Lambda, Transaction!Sdk

LEMMA EndStep == TransactionTypes /\ EndOnItsWay /\ [Next]_vars => EndOnItsWay'
  <1> SUFFICES ASSUME TransactionTypes, EndOnItsWay, [Next]_vars,
                      dart' = "listening", sdk' = "completed"
               PROVE  \E i \in 1..Len(channel') : channel'[i] = Transaction!End
    BY DEF EndOnItsWay
  <1> USE DEF Transaction!sdkVars, Transaction!dartVars
  <1>0. Transaction!Next \/ UNCHANGED transactionVars
    BY DEF Next, vars, Step
  <1>a. channel \in Seq(Transaction!Events)
    BY DEF TransactionTypes, Transaction!TypeOK
  <1>1. ASSUME UNCHANGED <<sdk, dart, channel>>
        PROVE  \E i \in 1..Len(channel') : channel'[i] = Transaction!End
    BY <1>1 DEF EndOnItsWay
  <1>2. CASE UNCHANGED transactionVars \/ Transaction!SpuriousWakeUp
             \/ Transaction!RegisterTransaction \/ Transaction!AskDart \/ Transaction!Wait
             \/ Transaction!TimeOut \/ Transaction!ApplyCommands
    BY <1>1, <1>2 DEF transactionVars, Transaction!SpuriousWakeUp, Transaction!Wait,
           Transaction!RegisterTransaction, Transaction!AskDart, Transaction!TimeOut,
           Transaction!ApplyCommands
  <1>3. CASE Transaction!TransactionCreate \/ Transaction!OnListen \/ Transaction!OnCancel
             \/ Transaction!Retry \/ Transaction!Commit \/ Transaction!GiveUp
    BY <1>3 DEF Transaction!TransactionCreate, Transaction!OnListen, Transaction!OnCancel,
           Transaction!Retry, Transaction!Commit, Transaction!GiveUp
  <1>4. ASSUME NEW n \in Transaction!Attempts,
               Transaction!TransactionStoreResult(n) \/ Transaction!TransactionGet(n)
        PROVE  \E i \in 1..Len(channel') : channel'[i] = Transaction!End
    BY <1>1, <1>4 DEF Transaction!TransactionStoreResult, Transaction!TransactionGet,
                      Transaction!NotifyOne
  <1>5. CASE Transaction!OnCompletion
    <2>1. PICK e \in Transaction!Events : channel' = channel \o <<e, Transaction!End>>
      BY <1>5 DEF Transaction!OnCompletion, Transaction!Send, Transaction!Events
    <2>2. Transaction!End \in Transaction!Events
      BY DEF Transaction!Events
    <2>3. Len(channel') = Len(channel) + 2 /\ channel'[Len(channel) + 2] = Transaction!End
      BY <1>a, <2>1, <2>2
    <2> QED BY <1>a, <2>3
  <1>6. CASE Transaction!DartHears
    <2>1. /\ channel # <<>> /\ channel' = Tail(channel) /\ sdk = "completed"
          /\ dart = "listening" /\ Head(channel).kind # "end"
      BY <1>6 DEF Transaction!DartHears
    <2>2. PICK i \in 1..Len(channel) : channel[i] = Transaction!End
      BY <2>1 DEF EndOnItsWay
    <2>3. i # 1
      BY <1>a, <2>1, <2>2 DEF Transaction!End
    <2>4. i - 1 \in 1..Len(channel') /\ channel'[i - 1] = Transaction!End
      BY <1>a, <2>1, <2>2, <2>3
    <2> QED BY <2>4
  <1> QED
    BY <1>0, <1>2, <1>3, <1>4, <1>5, <1>6
    DEF Transaction!Next, Transaction!Lambda, Transaction!Sdk

\* No stream of a transaction is left open: while Dart listens to one that the
\* SDK has completed, the end of the stream is on its way, whatever answers,
\* timeouts and wake-ups came before (OnCompletion).  That the SDK gets there and
\* the event is delivered is TransactionEnds, under fairness.
THEOREM TransactionIsNotLeftOpen == Spec => []EndOnItsWay
  <1>1. Init => EndInv
    BY Transaction!AttemptsAssumption
    DEF Init, Transaction!Init, EndInv, TransactionTypes, EndOnItsWay, Transaction!TypeOK
  <1>2. EndInv /\ [Next]_vars => EndInv'
    BY TransactionTypesStep, EndStep DEF EndInv
  <1>3. EndInv => EndOnItsWay
    BY DEF EndInv
  <1> QED BY <1>1, <1>2, <1>3, PTL DEF Spec

-----------------------------------------------------------------------------
(* The player of audioplayers_linux. *)

\* What is left of Play, from its start to the seek of its SetPosition; and of
\* Pause, Resume, SetPosition, Stop and Play, which Dart and the bus watch
\* share.
Replaying ==
    {<<"if_initialized", "if_seek_completed", "send_seek",
       "set_playing", "if_initialized", "play_pipe">>,
     <<"if_seek_completed", "send_seek",
       "set_playing", "if_initialized", "play_pipe">>,
     <<"send_seek", "set_playing", "if_initialized", "play_pipe">>}
Resuming == <<"set_playing", "if_initialized", "play_pipe">>
Stopping == <<"clear_playing", "if_initialized", "pause_pipe",
              "if_initialized", "if_seek_completed", "send_seek">>
Control ==
    Replaying \cup
    {<<>>, Resuming, Stopping,
     <<"if_initialized", "play_pipe">>, <<"play_pipe">>,
     <<"clear_playing", "if_initialized", "pause_pipe">>,
     <<"if_initialized", "pause_pipe">>, <<"pause_pipe">>,
     <<"if_initialized", "if_seek_completed", "send_seek">>,
     <<"if_seek_completed", "send_seek">>, <<"send_seek">>,
     <<"if_initialized", "pause_pipe",
       "if_initialized", "if_seek_completed", "send_seek">>,
     <<"pause_pipe", "if_initialized", "if_seek_completed", "send_seek">>}

\* What is left of a change of source: before its first step and after each; and
\* of a release.
Changing == <<"store_url", "null_pipe", "reset_flags", "ready_pipe">>
UrlStored == <<"null_pipe", "reset_flags", "ready_pipe">>
Stopped == <<"reset_flags", "ready_pipe">>
UriSet == <<"ready_pipe">>
Releasing == <<"release", "null_pipe">>
Released == <<"null_pipe">>
Exclusive == {Changing, UrlStored, Stopped, UriSet, Releasing, Released}

ControlSteps ==
    {"clear_playing", "pause_pipe", "set_playing", "play_pipe",
     "if_initialized", "if_seek_completed", "send_seek"}

LEMMA Joined ==
    ASSUME NEW a \in Playback!Steps, NEW b \in Playback!Steps,
           NEW c \in Playback!Steps, NEW d \in Playback!Steps,
           NEW e \in Playback!Steps, NEW f \in Playback!Steps
    PROVE  <<a, b, c>> \o <<d, e, f>> = <<a, b, c, d, e, f>>
  <1> DEFINE s == <<a, b, c>> \o <<d, e, f>>
             t == <<a, b, c, d, e, f>>
  <1>1. s \in Seq(Playback!Steps) /\ t \in Seq(Playback!Steps)
    OBVIOUS
  <1>2. Len(s) = 6 /\ Len(t) = 6 /\ \A i \in 1..6 : s[i] = t[i]
    OBVIOUS
  <1> HIDE DEF s, t
  <1>3. s = t
    BY <1>1, <1>2, SeqEqual
  <1> QED BY <1>3 DEF s, t

LEMMA LastThree ==
    ASSUME NEW a \in Playback!Steps, NEW b \in Playback!Steps,
           NEW c \in Playback!Steps, NEW d \in Playback!Steps,
           NEW e \in Playback!Steps, NEW f \in Playback!Steps
    PROVE  SubSeq(<<a, b, c, d, e, f>>, 4, 6) = <<d, e, f>>
  <1> DEFINE s == SubSeq(<<a, b, c, d, e, f>>, 4, 6)
             t == <<d, e, f>>
  <1>1. s \in Seq(Playback!Steps) /\ t \in Seq(Playback!Steps)
    OBVIOUS
  <1>2. Len(s) = 3 /\ Len(t) = 3 /\ \A i \in 1..3 : s[i] = t[i]
    OBVIOUS
  <1> HIDE DEF s, t
  <1>3. s = t
    BY <1>1, <1>2, SeqEqual
  <1> QED BY <1>3 DEF s, t

LEMMA LastThreeOfFive ==
    ASSUME NEW b \in Playback!Steps, NEW c \in Playback!Steps,
           NEW d \in Playback!Steps, NEW e \in Playback!Steps,
           NEW f \in Playback!Steps
    PROVE  SubSeq(<<b, c, d, e, f>>, 3, 5) = <<d, e, f>>
  <1> DEFINE s == SubSeq(<<b, c, d, e, f>>, 3, 5)
             t == <<d, e, f>>
  <1>1. s \in Seq(Playback!Steps) /\ t \in Seq(Playback!Steps)
    OBVIOUS
  <1>2. Len(s) = 3 /\ Len(t) = 3 /\ \A i \in 1..3 : s[i] = t[i]
    OBVIOUS
  <1> HIDE DEF s, t
  <1>3. s = t
    BY <1>1, <1>2, SeqEqual
  <1> QED BY <1>3 DEF s, t

LEMMA TheFunctions ==
    /\ Playback!Pause \in Control /\ Playback!Resume = Resuming
    /\ Playback!SetPosition \in Control
    /\ Playback!Play \in Replaying /\ Playback!Stop = Stopping
    /\ Playback!SetSourceUrl = Changing
    /\ Playback!ReleaseMediaSource = Releasing
  <1>1. ControlSteps \subseteq Playback!Steps
    BY DEF ControlSteps, Playback!Steps
  <1>2. <<"if_initialized", "if_seek_completed", "send_seek">> \o
            <<"set_playing", "if_initialized", "play_pipe">>
          = <<"if_initialized", "if_seek_completed", "send_seek",
              "set_playing", "if_initialized", "play_pipe">>
    BY <1>1, Joined DEF ControlSteps
  <1>3. <<"clear_playing", "if_initialized", "pause_pipe">> \o
            <<"if_initialized", "if_seek_completed", "send_seek">> = Stopping
    BY <1>1, Joined DEF ControlSteps, Stopping
  <1> QED
    BY <1>2, <1>3 DEF Control, Replaying, Resuming, Changing, Releasing,
       Playback!SetSourceUrl, Playback!ReleaseMediaSource, Playback!Play,
       Playback!Stop, Playback!Pause, Playback!Resume, Playback!SetPosition

\* It goes on with one of its own steps.
LEMMA ControlGoesOn ==
    ASSUME NEW p \in Control, p # <<>>
    PROVE  /\ Head(p) \in ControlSteps /\ Tail(p) \in Control
           /\ p \in Replaying => Tail(p) \in Replaying \cup {Resuming}
           /\ p = Resuming => Head(p) = "set_playing"
           /\ p = Stopping => Head(p) = "clear_playing"
  <1> USE DEF Resuming, Stopping, ControlSteps
  <1>1. CASE p = <<"if_initialized", "if_seek_completed", "send_seek",
                   "set_playing", "if_initialized", "play_pipe">>
    <2>1. /\ Head(p) = "if_initialized"
          /\ Tail(p) = <<"if_seek_completed", "send_seek", "set_playing",
                          "if_initialized", "play_pipe">>
      BY <1>1
    <2> QED BY <1>1, <2>1 DEF Control, Replaying
  <1>2. CASE p = <<"if_seek_completed", "send_seek",
                   "set_playing", "if_initialized", "play_pipe">>
    <2>1. /\ Head(p) = "if_seek_completed"
          /\ Tail(p) = <<"send_seek", "set_playing",
                          "if_initialized", "play_pipe">>
      BY <1>2
    <2> QED BY <1>2, <2>1 DEF Control, Replaying
  <1>3. CASE p = <<"send_seek", "set_playing", "if_initialized", "play_pipe">>
    <2>1. /\ Head(p) = "send_seek"
          /\ Tail(p) = <<"set_playing", "if_initialized", "play_pipe">>
      BY <1>3
    <2> QED BY <1>3, <2>1 DEF Control, Replaying
  <1>4. CASE p = <<"set_playing", "if_initialized", "play_pipe">>
    <2>1. /\ Head(p) = "set_playing"
          /\ Tail(p) = <<"if_initialized", "play_pipe">>
      BY <1>4
    <2> QED BY <1>4, <2>1 DEF Control, Replaying
  <1>5. CASE p = <<"if_initialized", "play_pipe">>
    <2>1. /\ Head(p) = "if_initialized"
          /\ Tail(p) = <<"play_pipe">>
      BY <1>5
    <2> QED BY <1>5, <2>1 DEF Control, Replaying
  <1>6. CASE p = <<"play_pipe">>
    <2>1. /\ Head(p) = "play_pipe"
          /\ Tail(p) = <<>>
      BY <1>6
    <2> QED BY <1>6, <2>1 DEF Control, Replaying
  <1>7. CASE p = <<"clear_playing", "if_initialized", "pause_pipe",
                   "if_initialized", "if_seek_completed", "send_seek">>
    <2>1. /\ Head(p) = "clear_playing"
          /\ Tail(p) = <<"if_initialized", "pause_pipe", "if_initialized",
                          "if_seek_completed", "send_seek">>
      BY <1>7
    <2> QED BY <1>7, <2>1 DEF Control, Replaying
  <1>8. CASE p = <<"if_initialized", "pause_pipe",
                   "if_initialized", "if_seek_completed", "send_seek">>
    <2>1. /\ Head(p) = "if_initialized"
          /\ Tail(p) = <<"pause_pipe", "if_initialized",
                          "if_seek_completed", "send_seek">>
      BY <1>8
    <2> QED BY <1>8, <2>1 DEF Control, Replaying
  <1>9. CASE p = <<"pause_pipe", "if_initialized",
                   "if_seek_completed", "send_seek">>
    <2>1. /\ Head(p) = "pause_pipe"
          /\ Tail(p) = <<"if_initialized", "if_seek_completed", "send_seek">>
      BY <1>9
    <2> QED BY <1>9, <2>1 DEF Control, Replaying
  <1>10. CASE p = <<"clear_playing", "if_initialized", "pause_pipe">>
    <2>1. /\ Head(p) = "clear_playing"
          /\ Tail(p) = <<"if_initialized", "pause_pipe">>
      BY <1>10
    <2> QED BY <1>10, <2>1 DEF Control, Replaying
  <1>11. CASE p = <<"if_initialized", "pause_pipe">>
    <2>1. /\ Head(p) = "if_initialized"
          /\ Tail(p) = <<"pause_pipe">>
      BY <1>11
    <2> QED BY <1>11, <2>1 DEF Control, Replaying
  <1>12. CASE p = <<"pause_pipe">>
    <2>1. /\ Head(p) = "pause_pipe"
          /\ Tail(p) = <<>>
      BY <1>12
    <2> QED BY <1>12, <2>1 DEF Control, Replaying
  <1>13. CASE p = <<"if_initialized", "if_seek_completed", "send_seek">>
    <2>1. /\ Head(p) = "if_initialized"
          /\ Tail(p) = <<"if_seek_completed", "send_seek">>
      BY <1>13
    <2> QED BY <1>13, <2>1 DEF Control, Replaying
  <1>14. CASE p = <<"if_seek_completed", "send_seek">>
    <2>1. /\ Head(p) = "if_seek_completed"
          /\ Tail(p) = <<"send_seek">>
      BY <1>14
    <2> QED BY <1>14, <2>1 DEF Control, Replaying
  <1>15. CASE p = <<"send_seek">>
    <2>1. /\ Head(p) = "send_seek"
          /\ Tail(p) = <<>>
      BY <1>15
    <2> QED BY <1>15, <2>1 DEF Control, Replaying
  <1> QED
    BY <1>1, <1>2, <1>3, <1>4, <1>5, <1>6, <1>7, <1>8, <1>9, <1>10, <1>11,
       <1>12, <1>13, <1>14, <1>15 DEF Control, Replaying

LEMMA ExclusiveGoesOn ==
    /\ Head(Changing) = "store_url" /\ Tail(Changing) = UrlStored
    /\ Head(UrlStored) = "null_pipe" /\ Tail(UrlStored) = Stopped
    /\ Head(Stopped) = "reset_flags" /\ Tail(Stopped) = UriSet
    /\ Head(UriSet) = "ready_pipe" /\ Tail(UriSet) = <<>>
    /\ Head(Releasing) = "release" /\ Tail(Releasing) = Released
    /\ Head(Released) = "null_pipe" /\ Tail(Released) = <<>>
    /\ Head(<<"check_playing">>) = "check_playing"
  BY DEF Changing, UrlStored, Stopped, UriSet, Releasing, Released

\* So it is not what is left of one of the others.
LEMMA ControlIsItsOwn ==
    ASSUME NEW p \in Control
    PROVE  p \notin Exclusive /\ p # <<"check_playing">>
  <1>1. CASE p # <<>>
    <2>1. \A q \in Exclusive \cup {<<"check_playing">>} :
              Head(q) \notin ControlSteps
      BY ExclusiveGoesOn DEF Exclusive, ControlSteps
    <2> QED BY <1>1, <2>1, ControlGoesOn
  <1>2. CASE p = <<>>
    BY <1>2 DEF Exclusive, Changing, UrlStored, Stopped, UriSet, Releasing,
       Released
  <1> QED BY <1>1, <1>2

\* An early return leaves what follows the first of Ends.
Rest(p) ==
    LET last == CHOOSE i \in 1..Len(p) :
                    /\ p[i] \in Playback!Ends
                    /\ \A j \in 1..(i - 1) : p[j] \notin Playback!Ends
    IN  SubSeq(p, last + 1, Len(p))

LEMMA RestFollows ==
    ASSUME NEW p \in Seq(Playback!Steps), Len(p) > 1, p[1] \notin Playback!Ends
    PROVE  /\ p[2] \in Playback!Ends => Rest(p) = SubSeq(p, 3, Len(p))
           /\ Len(p) > 2 /\ p[2] \notin Playback!Ends /\ p[3] \in Playback!Ends
                 => Rest(p) = SubSeq(p, 4, Len(p))
  <1> DEFINE Last(i) == /\ p[i] \in Playback!Ends
                        /\ \A j \in 1..(i - 1) : p[j] \notin Playback!Ends
  <1>1. CASE p[2] \in Playback!Ends
    <2>1. 2 \in 1..Len(p) /\ Last(2) /\ \A i \in 1..Len(p) : Last(i) => i = 2
      BY <1>1
    <2>2. (CHOOSE i \in 1..Len(p) : Last(i)) = 2
      BY <2>1
    <2>3. Rest(p) = SubSeq(p, 2 + 1, Len(p))
      BY <2>2, Zenon DEF Rest
    <2> QED BY <1>1, <2>3
  <1>2. CASE Len(p) > 2 /\ p[2] \notin Playback!Ends /\ p[3] \in Playback!Ends
    <2>1. 3 \in 1..Len(p) /\ Last(3) /\ \A i \in 1..Len(p) : Last(i) => i = 3
      BY <1>2
    <2>2. (CHOOSE i \in 1..Len(p) : Last(i)) = 3
      BY <2>1
    <2>3. Rest(p) = SubSeq(p, 3 + 1, Len(p))
      BY <2>2, Zenon DEF Rest
    <2> QED BY <1>2, <2>3
  <1> QED BY <1>1, <1>2

LEMMA ControlReturns ==
    ASSUME NEW p \in Control, p # <<>>,
           Head(p) \in {"if_initialized", "if_seek_completed"}
    PROVE  /\ Rest(p) \in Control
           /\ p \in Replaying => Rest(p) = Resuming
  <1>0. ControlSteps \subseteq Playback!Steps
    BY DEF ControlSteps, Playback!Steps
  <1>1. CASE p = <<"if_initialized", "if_seek_completed", "send_seek",
                  "set_playing", "if_initialized", "play_pipe">>
    <2>1. p \in Seq(Playback!Steps) /\ Len(p) = 6 /\ Len(p) > 1 /\ Len(p) > 2
      BY <1>1 DEF Playback!Steps
    <2>2. /\ p[1] \notin Playback!Ends /\ p[2] \notin Playback!Ends
          /\ p[3] \in Playback!Ends
      BY <1>1 DEF Playback!Ends
    <2>3. Rest(p) = SubSeq(p, 4, 6)
      BY <2>1, <2>2, RestFollows
    <2>4. Rest(p) = <<"set_playing", "if_initialized", "play_pipe">>
      BY <1>1, <1>0, <2>3, LastThree DEF ControlSteps
    <2> QED BY <1>1, <2>4 DEF Control, Replaying, Resuming
  <1>2. CASE p = <<"if_seek_completed", "send_seek",
                  "set_playing", "if_initialized", "play_pipe">>
    <2>1. p \in Seq(Playback!Steps) /\ Len(p) = 5 /\ Len(p) > 1
      BY <1>2 DEF Playback!Steps
    <2>2. /\ p[1] \notin Playback!Ends /\ p[2] \in Playback!Ends
      BY <1>2 DEF Playback!Ends
    <2>3. Rest(p) = SubSeq(p, 3, 5)
      BY <2>1, <2>2, RestFollows
    <2>4. Rest(p) = <<"set_playing", "if_initialized", "play_pipe">>
      BY <1>2, <1>0, <2>3, LastThreeOfFive DEF ControlSteps
    <2> QED BY <1>2, <2>4 DEF Control, Replaying, Resuming
  <1>3. CASE p = <<"if_initialized", "play_pipe">>
    <2>1. p \in Seq(Playback!Steps) /\ Len(p) = 2 /\ Len(p) > 1
      BY <1>3 DEF Playback!Steps
    <2>2. /\ p[1] \notin Playback!Ends /\ p[2] \in Playback!Ends
      BY <1>3 DEF Playback!Ends
    <2>3. Rest(p) = SubSeq(p, 3, 2)
      BY <2>1, <2>2, RestFollows
    <2>4. Rest(p) = <<>>
      BY <2>1, <2>3
    <2> QED BY <1>3, <2>4 DEF Control, Replaying, Resuming
  <1>4. CASE p = <<"if_initialized", "pause_pipe">>
    <2>1. p \in Seq(Playback!Steps) /\ Len(p) = 2 /\ Len(p) > 1
      BY <1>4 DEF Playback!Steps
    <2>2. /\ p[1] \notin Playback!Ends /\ p[2] \in Playback!Ends
      BY <1>4 DEF Playback!Ends
    <2>3. Rest(p) = SubSeq(p, 3, 2)
      BY <2>1, <2>2, RestFollows
    <2>4. Rest(p) = <<>>
      BY <2>1, <2>3
    <2> QED BY <1>4, <2>4 DEF Control, Replaying, Resuming
  <1>5. CASE p = <<"if_seek_completed", "send_seek">>
    <2>1. p \in Seq(Playback!Steps) /\ Len(p) = 2 /\ Len(p) > 1
      BY <1>5 DEF Playback!Steps
    <2>2. /\ p[1] \notin Playback!Ends /\ p[2] \in Playback!Ends
      BY <1>5 DEF Playback!Ends
    <2>3. Rest(p) = SubSeq(p, 3, 2)
      BY <2>1, <2>2, RestFollows
    <2>4. Rest(p) = <<>>
      BY <2>1, <2>3
    <2> QED BY <1>5, <2>4 DEF Control, Replaying, Resuming
  <1>6. CASE p = <<"if_initialized", "if_seek_completed", "send_seek">>
    <2>1. p \in Seq(Playback!Steps) /\ Len(p) = 3 /\ Len(p) > 1 /\ Len(p) > 2
      BY <1>6 DEF Playback!Steps
    <2>2. /\ p[1] \notin Playback!Ends /\ p[2] \notin Playback!Ends
          /\ p[3] \in Playback!Ends
      BY <1>6 DEF Playback!Ends
    <2>3. Rest(p) = SubSeq(p, 4, 3)
      BY <2>1, <2>2, RestFollows
    <2>4. Rest(p) = <<>>
      BY <2>1, <2>3
    <2> QED BY <1>6, <2>4 DEF Control, Replaying, Resuming
  <1>7. CASE p = <<"if_initialized", "pause_pipe",
                  "if_initialized", "if_seek_completed", "send_seek">>
    <2>1. p \in Seq(Playback!Steps) /\ Len(p) = 5 /\ Len(p) > 1
      BY <1>7 DEF Playback!Steps
    <2>2. /\ p[1] \notin Playback!Ends /\ p[2] \in Playback!Ends
      BY <1>7 DEF Playback!Ends
    <2>3. Rest(p) = SubSeq(p, 3, 5)
      BY <2>1, <2>2, RestFollows
    <2>4. Rest(p) = <<"if_initialized", "if_seek_completed", "send_seek">>
      BY <1>7, <1>0, <2>3, LastThreeOfFive DEF ControlSteps
    <2> QED BY <1>7, <2>4 DEF Control, Replaying, Resuming
  <1>8. p[1] \in {"if_initialized", "if_seek_completed"}
    OBVIOUS
  <1> QED
    BY <1>1, <1>2, <1>3, <1>4, <1>5, <1>6, <1>7, <1>8
    DEF Control, Replaying, Resuming, Stopping

\* While the url is being replaced, playbin may still have the last one, and
\* then the streaming thread queues nothing but that or the new one; and an end
\* that was reported is one that the bus watch deals with, unless nothing plays.
PlaybackInv ==
    /\ todo \in [Playback!Threads ->
                    Control \cup Exclusive \cup {<<"check_playing">>}]
    /\ todo["platform"] \in Control \cup Exclusive
    /\ todo["main"] \in Control \cup {<<"check_playing">>}
    /\ todo["platform"] \in {UrlStored, Stopped, UriSet} => url = asked
    /\ todo["platform"] = Released => url = NoSource
    /\ todo["platform"] \notin {UrlStored, Released}
          => copied \in {NoSource, url}
    /\ todo["platform"] \notin {UrlStored, Stopped} /\ url # NoSource
          => uri = url
    /\ reported /\ playing
          => todo["main"] \in Replaying \cup {Stopping, Resuming}

LEMMA PlaybackBegins == Init => PlaybackInv
  <1> SUFFICES ASSUME Init PROVE PlaybackInv
    OBVIOUS
  <1>1. /\ url = NoSource /\ copied = NoSource /\ reported = FALSE
        /\ todo = [t \in Playback!Threads |-> <<>>]
    BY DEF Init, Playback!Init
  <1>2. <<>> \in Control
    BY DEF Control
  <1> QED
    BY <1>1, <1>2, ControlIsItsOwn DEF PlaybackInv, Playback!Threads, Exclusive

\* A step of one of the functions that both threads call.
LEMMA ControlStep ==
    ASSUME PlaybackInv, NEW t \in Playback!Threads,
           \/ Playback!ClearPlaying(t) \/ Playback!PausePipe(t)
           \/ Playback!SetPlaying(t) \/ Playback!PlayPipe(t)
           \/ Playback!IfInitialized(t) \/ Playback!IfSeekCompleted(t)
           \/ Playback!SendSeek(t) \/ Playback!SeekRefused(t)
    PROVE  PlaybackInv'
  <1>t. t \in {"platform", "main"}
    BY DEF Playback!Threads
  <1>p. PICK p : p = todo[t]
    OBVIOUS
  <1>1. p # <<>> /\ Head(p) \in ControlSteps
    BY <1>p DEF Playback!ClearPlaying, Playback!PausePipe, Playback!SetPlaying,
       Playback!PlayPipe, Playback!IfInitialized, Playback!IfSeekCompleted,
       Playback!SendSeek, Playback!SeekRefused, Playback!Takes, ControlSteps
  <1>2. p \in Control
    BY <1>1, <1>p, ExclusiveGoesOn DEF PlaybackInv, Exclusive, ControlSteps
  <1>3. UNCHANGED <<url, asked, copied, uri>>
    BY DEF Playback!ClearPlaying, Playback!PausePipe, Playback!SetPlaying,
       Playback!PlayPipe, Playback!IfInitialized, Playback!IfSeekCompleted,
       Playback!SendSeek, Playback!SeekRefused, Playback!dartVars,
       Playback!pipeVars, Playback!flags
  <1>4. \/ Playback!GoOn(t)
        \/ /\ Head(p) \in {"if_initialized", "if_seek_completed"}
           /\ Playback!Return(t)
    BY <1>p DEF Playback!ClearPlaying, Playback!PausePipe, Playback!SetPlaying,
       Playback!PlayPipe, Playback!IfInitialized, Playback!IfSeekCompleted,
       Playback!SendSeek, Playback!SeekRefused, Playback!Takes
  <1>5. PICK q \in Control :
            /\ todo' = [todo EXCEPT ![t] = q]
            /\ p \in Replaying => q \in Replaying \cup {Resuming}
    <2>1. CASE Playback!GoOn(t)
      <3>1. todo' = [todo EXCEPT ![t] = Tail(p)]
        BY <1>p, <2>1 DEF Playback!GoOn, PlaybackInv
      <3> QED BY <1>1, <1>2, <3>1, ControlGoesOn
    <2>2. CASE /\ Head(p) \in {"if_initialized", "if_seek_completed"}
               /\ Playback!Return(t)
      <3>1. todo' = [todo EXCEPT ![t] = Rest(p)]
        BY <1>p, <2>2 DEF Playback!Return, Rest, PlaybackInv
      <3> QED BY <1>1, <1>2, <2>2, <3>1, ControlReturns
    <2> QED BY <1>4, <2>1, <2>2
  <1>6. reported' /\ playing'
          => reported /\ playing /\ p # Resuming /\ p # Stopping
    <2>1. /\ p = Resuming => Head(p) = "set_playing"
          /\ p = Stopping => Head(p) = "clear_playing"
      BY <1>1, <1>2, ControlGoesOn
    <2> QED
      BY <1>p, <2>1 DEF Playback!ClearPlaying, Playback!PausePipe,
         Playback!SetPlaying, Playback!PlayPipe, Playback!IfInitialized,
         Playback!IfSeekCompleted, Playback!SendSeek, Playback!SeekRefused,
         Playback!Takes, Playback!flags
  <1>7. q \notin Exclusive /\ p \notin Exclusive
    BY <1>2, ControlIsItsOwn
  <1> QED
    BY <1>t, <1>p, <1>2, <1>3, <1>5, <1>6, <1>7
    DEF PlaybackInv, Exclusive, Playback!Threads

\* A step of a change of source or a release.
LEMMA ExclusiveStep ==
    ASSUME PlaybackInv, NEW t \in Playback!Threads,
           \/ Playback!StoreUrl(t) \/ Playback!NullPipe(t)
           \/ Playback!ResetFlags(t) \/ Playback!ReadyPipe(t)
           \/ Playback!Release(t)
    PROVE  PlaybackInv'
  <1>t. t \in {"platform", "main"}
    BY DEF Playback!Threads
  <1>p. PICK p : p = todo[t]
    OBVIOUS
  <1>1. /\ p # <<>> /\ Head(p) \notin ControlSteps
        /\ Head(p) # "check_playing"
        /\ todo' = [todo EXCEPT ![t] = Tail(p)]
    BY <1>p DEF Playback!StoreUrl, Playback!NullPipe, Playback!ResetFlags,
       Playback!ReadyPipe, Playback!Release, Playback!Takes, Playback!GoOn,
       ControlSteps, PlaybackInv
  <1>2. p \in Exclusive /\ t = "platform"
    BY <1>t, <1>p, <1>1, ControlGoesOn, ExclusiveGoesOn DEF PlaybackInv
  <1>3. reported' /\ playing' => reported /\ playing
    BY DEF Playback!StoreUrl, Playback!NullPipe, Playback!ResetFlags,
       Playback!ReadyPipe, Playback!Release, Playback!flags
  <1>4. <<>> \in Control /\ <<>> \notin Exclusive
    BY ControlIsItsOwn DEF Control
  <1>d. /\ Changing # UrlStored /\ Changing # Stopped /\ Changing # UriSet
        /\ Changing # Releasing /\ Changing # Released
        /\ UrlStored # Stopped /\ UrlStored # UriSet /\ UrlStored # Releasing
        /\ UrlStored # Released
        /\ Stopped # UriSet /\ Stopped # Releasing /\ Stopped # Released
        /\ UriSet # Releasing /\ UriSet # Released /\ Releasing # Released
    BY DEF Changing, UrlStored, Stopped, UriSet, Releasing, Released
  <1> USE <1>p, <1>1, <1>2, <1>3, <1>4, <1>d, ExclusiveGoesOn
      DEF PlaybackInv, Exclusive, Playback!Threads
  <1>5. CASE Playback!StoreUrl(t)
    <2>1. p = Changing /\ url' = asked /\ UNCHANGED <<asked, copied, uri>>
      BY <1>5 DEF Playback!StoreUrl, Playback!Takes, Playback!dartVars,
         Playback!pipeVars
    <2> QED BY <2>1
  <1>6. CASE Playback!NullPipe(t)
    <2>1. /\ p \in {UrlStored, Released} /\ copied = NoSource
          /\ UNCHANGED <<url, asked, copied, uri>>
      BY <1>6 DEF Playback!NullPipe, Playback!Takes, Playback!dartVars,
         Playback!pipeVars
    <2> QED BY <2>1
  <1>7. CASE Playback!ResetFlags(t)
    <2>1. p = Stopped /\ uri' = asked /\ UNCHANGED <<url, asked, copied>>
      BY <1>7 DEF Playback!ResetFlags, Playback!Takes, Playback!dartVars,
         Playback!pipeVars
    <2> QED BY <2>1
  <1>8. CASE Playback!ReadyPipe(t)
    <2>1. p = UriSet /\ UNCHANGED <<url, copied, uri>>
      BY <1>8 DEF Playback!ReadyPipe, Playback!Takes, Playback!dartVars,
         Playback!pipeVars
    <2> QED BY <2>1
  <1>9. CASE Playback!Release(t)
    <2>1. p = Releasing /\ url' = NoSource /\ UNCHANGED <<asked, copied, uri>>
      BY <1>9 DEF Playback!Release, Playback!Takes, Playback!dartVars,
         Playback!pipeVars
    <2> QED BY <2>1
  <1> QED BY <1>5, <1>6, <1>7, <1>8, <1>9

LEMMA DartStep ==
    ASSUME PlaybackInv, Playback!Dart
    PROVE  PlaybackInv'
  <1>1. PICK q \in Control \cup {Changing, Releasing} :
            /\ todo' \in {todo, [todo EXCEPT !["platform"] = q]}
            /\ todo["platform"] = <<>>
            /\ UNCHANGED <<url, copied, uri, playing, reported>>
    <2>1. CASE \E source \in Sources : Playback!CallSetSource(source)
      BY <2>1, TheFunctions DEF Playback!CallSetSource, Playback!Call,
         Playback!OneMoreCall, Playback!flags, Playback!pipeVars
    <2>2. CASE Playback!CallControl
      <3>1. \A f \in {Playback!Pause, Playback!Resume, Playback!Stop,
                      Playback!SetPosition, Playback!ReleaseMediaSource} :
                f \in Control \cup {Changing, Releasing}
        BY TheFunctions DEF Control
      <3> QED
        BY <2>2, <3>1 DEF Playback!CallControl, Playback!Call,
           Playback!OneMoreCall, Playback!flags, Playback!pipeVars
    <2>3. CASE Playback!CallSetLooping
      BY <2>3, TheFunctions DEF Playback!CallSetLooping, Playback!OneMoreCall,
         Playback!pipeVars
    <2> QED BY <2>1, <2>2, <2>3 DEF Playback!Dart
  <1>2. /\ <<>> \notin Exclusive
        /\ q \notin {UrlStored, Stopped, UriSet, Released}
    <2>1. <<>> \in Control
      BY DEF Control
    <2>2. CASE q \in Control
      BY <2>1, <2>2, ControlIsItsOwn DEF Exclusive
    <2>3. CASE q \in {Changing, Releasing}
      BY <2>1, <2>3, ControlIsItsOwn
      DEF Changing, Releasing, UrlStored, Stopped,
         UriSet, Released
    <2> QED BY <2>2, <2>3
  <1> QED
    BY <1>1, <1>2 DEF PlaybackInv, Exclusive, Playback!Threads

LEMMA BusStep ==
    ASSUME PlaybackInv, Playback!OnBusMessage
    PROVE  PlaybackInv'
  <1>1. UNCHANGED <<url, asked, copied, uri, playing>>
    BY DEF Playback!OnBusMessage, Playback!OnReady, Playback!OnPaused,
       Playback!OnEos, Playback!OnAsyncDone, Playback!OnOther,
       Playback!CheckPlaying, Playback!flags, Playback!dartVars,
       Playback!pipeVars
  <1>2. <<>> \in Control /\ Resuming \in Control /\ Stopping \in Control
        /\ Replaying \subseteq Control
    BY DEF Control
  \* The watch is idle, or about to look whether to start what it has prepared.
  <1>3. <<>> \notin Replaying \cup {Stopping, Resuming}
        /\ <<"check_playing">> \notin Replaying \cup {Stopping, Resuming}
    BY <1>2, ControlIsItsOwn DEF Replaying, Stopping, Resuming
  <1> USE <1>1, <1>2, <1>3, TheFunctions DEF PlaybackInv, Playback!Threads
  <1>4. CASE Playback!OnReady \/ Playback!OnAsyncDone \/ Playback!OnOther
    BY <1>4 DEF Playback!OnReady, Playback!OnAsyncDone, Playback!OnOther
  <1>5. CASE Playback!OnPaused
    BY <1>5 DEF Playback!OnPaused, Playback!Hears
  <1>6. CASE Playback!OnEos
    BY <1>6 DEF Playback!OnEos, Playback!Hears
  <1>7. CASE Playback!CheckPlaying
    <2>1. todo["main"] = <<"check_playing">>
      <3>1. todo["main"] # <<>> /\ Head(todo["main"]) = "check_playing"
        BY <1>7 DEF Playback!CheckPlaying, Playback!Takes
      <3> QED BY <3>1, ControlGoesOn DEF ControlSteps
    <2> QED BY <1>7, <2>1 DEF Playback!CheckPlaying
  <1> QED BY <1>4, <1>5, <1>6, <1>7 DEF Playback!OnBusMessage

LEMMA PlaybinStep ==
    ASSUME PlaybackInv, Playback!Playbin
    PROVE  PlaybackInv'
  <1>1. UNCHANGED <<url, asked, todo>>
    BY DEF Playback!Playbin, Playback!PipeMoves, Playback!PipeFails,
       Playback!SeekSettles, Playback!AboutToFinish, Playback!AboutToLoop,
       Playback!QueueAgain, Playback!Drained, Playback!dartVars
  <1>2. reported' /\ playing' => reported /\ playing
    BY DEF Playback!Playbin, Playback!PipeMoves, Playback!PipeFails,
       Playback!SeekSettles, Playback!AboutToFinish, Playback!AboutToLoop,
       Playback!QueueAgain, Playback!Drained, Playback!flags
  <1>3. \/ UNCHANGED uri /\ copied' \in {copied, url}
        \/ uri' = copied /\ copied # NoSource /\ copied' = NoSource
    BY DEF Playback!Playbin, Playback!PipeMoves, Playback!PipeFails,
       Playback!SeekSettles, Playback!AboutToFinish, Playback!AboutToLoop,
       Playback!QueueAgain, Playback!Drained
  <1>d. Stopped # Released
    BY DEF Stopped, Released
  <1>4. todo["platform"] = Released => url = NoSource
    BY DEF PlaybackInv
  <1> QED
    BY <1>1, <1>2, <1>3, <1>4 DEF PlaybackInv

LEMMA PlaybackGoesOn == PlaybackInv /\ [Next]_vars => PlaybackInv'
  <1> SUFFICES ASSUME PlaybackInv, [Next]_vars PROVE PlaybackInv'
    OBVIOUS
  <1>0. Playback!Next \/ UNCHANGED playbackVars
    BY DEF Next, vars, Step
  <1>1. CASE UNCHANGED playbackVars
    BY <1>1 DEF playbackVars, PlaybackInv
  <1>2. ASSUME NEW t \in Playback!Threads, Playback!RunStep(t)
        PROVE  PlaybackInv'
    BY <1>2, ControlStep, ExclusiveStep DEF Playback!RunStep
  <1> QED
    BY <1>0, <1>1, <1>2, DartStep, BusStep, PlaybinStep DEF Playback!Next

\* Whenever Dart changes the source, and whatever the streaming thread copies in
\* the meantime, playbin comes to play the source that was set last.
THEOREM PlayerPlaysItsSource == Spec => []PlaysSourceSetLast
  <1>1. PlaybackInv => PlaysSourceSetLast
    <2> SUFFICES ASSUME PlaybackInv, url # NoSource,
                        "ready_pipe" \notin {todo["platform"][i] :
                            i \in 1..Len(todo["platform"])}
                 PROVE  uri = url
      BY DEF PlaysSourceSetLast, Playback!PlaysSourceSetLast
    <2>1. CASE todo["platform"] = UrlStored
      <3>1. 3 \in 1..Len(UrlStored) /\ UrlStored[3] = "ready_pipe"
        BY DEF UrlStored
      <3> QED BY <2>1, <3>1
    <2>2. CASE todo["platform"] = Stopped
      <3>1. 2 \in 1..Len(Stopped) /\ Stopped[2] = "ready_pipe"
        BY DEF Stopped
      <3> QED BY <2>2, <3>1
    <2> QED BY <2>1, <2>2 DEF PlaybackInv
  <1> QED BY <1>1, PlaybackBegins, PlaybackGoesOn, PTL DEF Spec

\* However the streaming thread's AboutToFinish and the bus watch's EOS follow
\* each other, the end of a source is told once, unless the player was resumed.
THEOREM EndIsToldOnce == Spec => CompletesOnce
  <1>1. PlaybackInv
          => (Playback!OnEos /\ drain = "eos" /\ reported => todo' = todo)
    <2> SUFFICES ASSUME PlaybackInv, Playback!OnEos, reported PROVE todo' = todo
      OBVIOUS
    <2>1. <<>> \notin Replaying \cup {Stopping, Resuming}
      BY DEF Replaying, Stopping, Resuming
    <2>2. ~playing
      BY <2>1 DEF PlaybackInv, Playback!OnEos, Playback!Hears
    <2> QED BY <2>2 DEF Playback!OnEos
  <1> QED
    BY <1>1, PlaybackBegins, PlaybackGoesOn, PTL
    DEF Spec, CompletesOnce, Playback!CompletesOnce
-----------------------------------------------------------------------------
(* The codecs of the channels. *)

\* The classes with a field that the codec casts to a class of its own.
CastClasses == {"InitParams", "PlatformMediaSettings"}

\* The list of any other class is made of plain values and of lists within, and
\* is read as it is written.
Regular(c) ==
    /\ c.class \notin CastClasses
    /\ \A i \in DOMAIN c.read :
          \/ c.read[i].class = Proved!Plain /\ ~c.read[i].list
          \/ c.read[i].class \notin CastClasses /\ c.read[i].list
    /\ Proved!ReadsAsWritten(c)

\* The classes that the channels of each codec are of.
AuthHostClasses ==
    {"AuthPigeonFirebaseApp", "PigeonActionCodeInfo", "PigeonUserCredential",
     "PigeonSignInProvider", "PigeonActionCodeSettings",
     "PigeonFirebaseAuthSettings", "PigeonVerifyPhoneNumberRequest",
     "PigeonIdTokenResult", "PigeonUserDetails", "PigeonUserProfile"}

ClassesOf ==
    [Camera                    |-> {"PlatformSize"},
     FirebaseFirestoreHostApi  |->
        {"FirestorePigeonFirebaseApp", "PigeonGetOptions",
         "PigeonQuerySnapshot", "PigeonDocumentSnapshot",
         "DocumentReferenceRequest", "PigeonQueryParameters"},
     FirebaseAuthHostApi       |-> AuthHostClasses,
     FirebaseAuthUserHostApi   |-> AuthHostClasses,
     MultiFactorUserHostApi    |->
        {"AuthPigeonFirebaseApp", "PigeonPhoneMultiFactorAssertion",
         "PigeonMultiFactorSession"},
     MultiFactoResolverHostApi |->
        {"PigeonPhoneMultiFactorAssertion", "PigeonUserCredential"},
     MultiFactorTotpHostApi    |-> {"PigeonTotpSecret"},
     GenerateInterfaces        |-> {"PigeonMultiFactorInfo"},
     FirebaseCoreHostApi       |->
        {"PigeonFirebaseOptions", "PigeonInitializeResponse"},
     FirebaseStorageHostApi    |->
        {"PigeonStorageFirebaseApp", "PigeonStorageReference",
         "PigeonFullMetaData", "PigeonListOptions", "PigeonListResult",
         "PigeonSettableMetadata"},
     Flatpak                   |-> {"Remote", "Installation"},
     GoogleSignIn              |-> {"UserData"},
     WebViewHostApi            |-> {"WebViewPoint"},
     Standard                  |-> {}]

\* A channel of the classes of its codec.
OfItsCodec(ch) ==
    /\ ch.codec \in DOMAIN ClassesOf
    /\ ch.result \in ClassesOf[ch.codec] \cup {Proved!Plain, Proved!Void}
    /\ \A i \in DOMAIN ch.args :
          ch.args[i].class \in ClassesOf[ch.codec] \cup {Proved!Plain}

\* A codec knows these classes, and the bytes it writes for one are read as it.
CodecAgrees(codec) ==
    \A class \in ClassesOf[codec] :
        /\ Proved!Knows(Table!Reads[codec], class)
        /\ Proved!Knows(Table!Writes[codec], class)
        /\ \A byte \in DOMAIN Table!Writes[codec] :
              Table!Writes[codec][byte] = class
                => /\ byte \in DOMAIN Table!Reads[codec]
                   /\ Table!Reads[codec][byte] = class

-----------------------------------------------------------------------------
\* The classes of each plugin.

USE DEF CastClasses, Proved!Plain, Proved!Void

LEMMA SameList ==
    ASSUME NEW c, c.read = c.written PROVE Proved!ReadsAsWritten(c)
  BY DEF Proved!ReadsAsWritten

LEMMA CameraRegular ==
    \A c \in Table!Camera!Classes
              \ {Table!Camera!PlatformMediaSettingsClass} : Regular(c)
  <1> USE DEF Table!Camera!Classes, Table!Camera!PlatformMediaSettingsClass,
              Table!Camera!PlatformSizeClass, Table!Camera!Class
  <1>1. \A c \in Table!Camera!Classes
            \ {Table!Camera!PlatformMediaSettingsClass} :
                      Proved!ReadsAsWritten(c)
    <2>1. \A c \in Table!Camera!Classes : c.read = c.written
      OBVIOUS
    <2> QED BY <2>1, SameList
  <1>2. \A c \in Table!Camera!Classes
            \ {Table!Camera!PlatformMediaSettingsClass} :
          /\ c.class \notin CastClasses
          /\ \A i \in DOMAIN c.read :
                \/ c.read[i].class = Proved!Plain /\ ~c.read[i].list
                \/ c.read[i].class \notin CastClasses /\ c.read[i].list
    BY SMTT(60) DEF Table!Camera!Must, Table!Camera!May, Table!Camera!Part,
           Table!Camera!OptPart, Table!Camera!Req, Table!Camera!Opt,
           Table!Camera!Plain
  <1> QED BY ONLY <1>1, <1>2 DEF Regular

LEMMA FirestoreRegular == \A c \in Table!Firestore!Classes : Regular(c)
  <1> USE DEF Table!Firestore!Classes,
              Table!Firestore!PigeonFirebaseSettingsClass,
              Table!Firestore!FirestorePigeonFirebaseAppClass,
              Table!Firestore!PigeonSnapshotMetadataClass,
              Table!Firestore!PigeonDocumentSnapshotClass,
              Table!Firestore!PigeonDocumentChangeClass,
              Table!Firestore!PigeonQuerySnapshotClass,
              Table!Firestore!PigeonGetOptionsClass,
              Table!Firestore!PigeonDocumentOptionClass,
              Table!Firestore!PigeonTransactionCommandClass,
              Table!Firestore!DocumentReferenceRequestClass,
              Table!Firestore!PigeonQueryParametersClass,
              Table!Firestore!AggregateQueryClass,
              Table!Firestore!AggregateQueryResponseClass,
              Table!Firestore!Class
  <1>1. \A c \in Table!Firestore!Classes : Proved!ReadsAsWritten(c)
    <2>1. \A c \in Table!Firestore!Classes : c.read = c.written
      OBVIOUS
    <2> QED BY <2>1, SameList
  <1>2. \A c \in Table!Firestore!Classes :
          /\ c.class \notin CastClasses
          /\ \A i \in DOMAIN c.read :
                \/ c.read[i].class = Proved!Plain /\ ~c.read[i].list
                \/ c.read[i].class \notin CastClasses /\ c.read[i].list
    BY SMTT(60) DEF Table!Firestore!Must, Table!Firestore!May,
                    Table!Firestore!Part,
           Table!Firestore!OptPart, Table!Firestore!Req, Table!Firestore!Opt,
           Table!Firestore!Plain
  <1> QED BY ONLY <1>1, <1>2 DEF Regular

LEMMA AuthRegular == \A c \in Table!Auth!Classes : Regular(c)
  <1> USE DEF Table!Auth!Classes, Table!Auth!PigeonMultiFactorSessionClass,
              Table!Auth!PigeonPhoneMultiFactorAssertionClass,
              Table!Auth!PigeonMultiFactorInfoClass,
              Table!Auth!AuthPigeonFirebaseAppClass,
              Table!Auth!PigeonActionCodeInfoDataClass,
              Table!Auth!PigeonActionCodeInfoClass,
              Table!Auth!PigeonAdditionalUserInfoClass,
              Table!Auth!PigeonAuthCredentialClass,
              Table!Auth!PigeonUserInfoClass,
              Table!Auth!PigeonUserDetailsClass,
              Table!Auth!PigeonUserCredentialClass,
              Table!Auth!PigeonActionCodeSettingsClass,
              Table!Auth!PigeonFirebaseAuthSettingsClass,
              Table!Auth!PigeonSignInProviderClass,
              Table!Auth!PigeonVerifyPhoneNumberRequestClass,
              Table!Auth!PigeonIdTokenResultClass,
              Table!Auth!PigeonUserProfileClass,
              Table!Auth!PigeonTotpSecretClass, Table!Auth!Class
  <1>1. \A c \in Table!Auth!Classes : Proved!ReadsAsWritten(c)
    <2>1. \A c \in Table!Auth!Classes : c.read = c.written
      OBVIOUS
    <2> QED BY <2>1, SameList
  <1>2. \A c \in Table!Auth!Classes :
          /\ c.class \notin CastClasses
          /\ \A i \in DOMAIN c.read :
                \/ c.read[i].class = Proved!Plain /\ ~c.read[i].list
                \/ c.read[i].class \notin CastClasses /\ c.read[i].list
    BY SMTT(60) DEF Table!Auth!Must, Table!Auth!May, Table!Auth!Part,
           Table!Auth!OptPart, Table!Auth!Req, Table!Auth!Opt, Table!Auth!Plain
  <1> QED BY ONLY <1>1, <1>2 DEF Regular

LEMMA CoreRegular == \A c \in Table!Firebase!CoreClasses : Regular(c)
  <1> USE DEF Table!Firebase!CoreClasses,
              Table!Firebase!PigeonFirebaseOptionsClass,
              Table!Firebase!PigeonInitializeResponseClass,
              Table!Firebase!Class
  <1>1. \A c \in Table!Firebase!CoreClasses : Proved!ReadsAsWritten(c)
    <2> SUFFICES ASSUME NEW c \in Table!Firebase!CoreClasses
                 PROVE  Proved!ReadsAsWritten(c)
      OBVIOUS
    <2>1. DOMAIN c.read = DOMAIN c.written
      BY SMTT(30)
    <2>2. CASE c = Table!Firebase!PigeonFirebaseOptionsClass
      <3>1. \A i \in DOMAIN c.read : c.read[i] = Table!Firebase!May
        BY <2>2
      <3>2. \A i \in DOMAIN c.read :
               c.written[i] \in {Table!Firebase!Must, Table!Firebase!May}
        BY <2>2
      <3>3. \A field \in {Table!Firebase!Must, Table!Firebase!May} :
               field.class = Table!Firebase!Plain /\ field.list = FALSE
        BY DEF Table!Firebase!Must, Table!Firebase!May, Table!Firebase!Req,
               Table!Firebase!Opt
      <3>4. Table!Firebase!May.absent = "null"
        BY DEF Table!Firebase!May, Table!Firebase!Opt
      <3> QED BY ONLY <2>1, <3>1, <3>2, <3>3, <3>4 DEF Proved!ReadsAsWritten
    <2>3. CASE c = Table!Firebase!PigeonInitializeResponseClass
      <3>1. /\ c.written = <<Table!Firebase!Must,
                             Table!Firebase!Part("PigeonFirebaseOptions"),
                             Table!Firebase!May, Table!Firebase!Must>>
            /\ c.read = <<Table!Firebase!May,
                          Table!Firebase!OptPart("PigeonFirebaseOptions"),
                          Table!Firebase!May, Table!Firebase!May>>
        BY <2>3
      <3>2. \A i \in DOMAIN c.read : c.read[i].absent = "null"
        BY ONLY <3>1 DEF Table!Firebase!May, Table!Firebase!OptPart,
                         Table!Firebase!Opt
      <3>3. \A i \in DOMAIN c.read : c.read[i].class = c.written[i].class
        BY ONLY <3>1 DEF Table!Firebase!Must, Table!Firebase!May,
                Table!Firebase!Part, Table!Firebase!OptPart,
                Table!Firebase!Req, Table!Firebase!Opt
      <3>4. \A i \in DOMAIN c.read :
               \/ c.read[i].list = FALSE /\ c.written[i].list = FALSE
               \/ c.read[i].list = TRUE /\ c.written[i].list = TRUE
        BY ONLY <3>1 DEF Table!Firebase!Must, Table!Firebase!May,
                Table!Firebase!Part, Table!Firebase!OptPart,
                Table!Firebase!Req, Table!Firebase!Opt
      <3> QED BY ONLY <2>1, <3>2, <3>3, <3>4 DEF Proved!ReadsAsWritten
    <2> QED BY <2>2, <2>3
  <1>2. \A c \in Table!Firebase!CoreClasses :
          /\ c.class \notin CastClasses
          /\ \A i \in DOMAIN c.read :
                \/ c.read[i].class = Proved!Plain /\ ~c.read[i].list
                \/ c.read[i].class \notin CastClasses /\ c.read[i].list
    BY SMTT(60) DEF Table!Firebase!Must, Table!Firebase!May,
                    Table!Firebase!Part,
           Table!Firebase!OptPart, Table!Firebase!Req, Table!Firebase!Opt,
           Table!Firebase!Plain
  <1> QED BY ONLY <1>1, <1>2 DEF Regular

LEMMA StorageRegular == \A c \in Table!Firebase!StorageClasses : Regular(c)
  <1> USE DEF Table!Firebase!StorageClasses,
              Table!Firebase!PigeonStorageFirebaseAppClass,
              Table!Firebase!PigeonStorageReferenceClass,
              Table!Firebase!PigeonFullMetaDataClass,
              Table!Firebase!PigeonListOptionsClass,
              Table!Firebase!PigeonSettableMetadataClass,
              Table!Firebase!PigeonListResultClass, Table!Firebase!Class
  <1>1. \A c \in Table!Firebase!StorageClasses : Proved!ReadsAsWritten(c)
    <2>1. \A c \in Table!Firebase!StorageClasses : c.read = c.written
      OBVIOUS
    <2> QED BY <2>1, SameList
  <1>2. \A c \in Table!Firebase!StorageClasses :
          /\ c.class \notin CastClasses
          /\ \A i \in DOMAIN c.read :
                \/ c.read[i].class = Proved!Plain /\ ~c.read[i].list
                \/ c.read[i].class \notin CastClasses /\ c.read[i].list
    BY SMTT(60) DEF Table!Firebase!Must, Table!Firebase!May,
                    Table!Firebase!Part,
           Table!Firebase!OptPart, Table!Firebase!Req, Table!Firebase!Opt,
           Table!Firebase!Plain
  <1> QED BY ONLY <1>1, <1>2 DEF Regular

LEMMA FlatpakRegular == \A c \in Table!Flatpak!Classes : Regular(c)
  <1> USE DEF Table!Flatpak!Classes, Table!Flatpak!RemoteClass,
              Table!Flatpak!ApplicationClass, Table!Flatpak!InstallationClass,
              Table!Flatpak!Class
  <1>1. \A c \in Table!Flatpak!Classes : Proved!ReadsAsWritten(c)
    <2>1. \A c \in Table!Flatpak!Classes : c.read = c.written
      OBVIOUS
    <2> QED BY <2>1, SameList
  <1>2. \A c \in Table!Flatpak!Classes :
          /\ c.class \notin CastClasses
          /\ \A i \in DOMAIN c.read :
                \/ c.read[i].class = Proved!Plain /\ ~c.read[i].list
                \/ c.read[i].class \notin CastClasses /\ c.read[i].list
    BY SMTT(60) DEF Table!Flatpak!Must, Table!Flatpak!May, Table!Flatpak!Part,
           Table!Flatpak!OptPart, Table!Flatpak!Req, Table!Flatpak!Opt,
           Table!Flatpak!Plain
  <1> QED BY ONLY <1>1, <1>2 DEF Regular

LEMMA GoogleRegular ==
    \A c \in Table!Firebase!GoogleClasses
              \ {Table!Firebase!InitParamsClass} : Regular(c)
  <1> USE DEF Table!Firebase!GoogleClasses, Table!Firebase!InitParamsClass,
              Table!Firebase!UserDataClass, Table!Firebase!Class
  <1>1. \A c \in Table!Firebase!GoogleClasses
            \ {Table!Firebase!InitParamsClass} : Proved!ReadsAsWritten(c)
    <2>1. \A c \in Table!Firebase!GoogleClasses : c.read = c.written
      OBVIOUS
    <2> QED BY <2>1, SameList
  <1>2. \A c \in Table!Firebase!GoogleClasses
            \ {Table!Firebase!InitParamsClass} :
          /\ c.class \notin CastClasses
          /\ \A i \in DOMAIN c.read :
                \/ c.read[i].class = Proved!Plain /\ ~c.read[i].list
                \/ c.read[i].class \notin CastClasses /\ c.read[i].list
    BY SMTT(60) DEF Table!Firebase!Must, Table!Firebase!May,
                    Table!Firebase!Part,
           Table!Firebase!OptPart, Table!Firebase!Req, Table!Firebase!Opt,
           Table!Firebase!Plain
  <1> QED BY ONLY <1>1, <1>2 DEF Regular

LEMMA WebViewRegular == \A c \in Table!WebView!Classes : Regular(c)
  <1> USE DEF Table!WebView!Classes, Table!WebView!WebResourceRequestDataClass,
              Table!WebView!WebResourceResponseDataClass,
              Table!WebView!WebResourceErrorDataClass,
              Table!WebView!WebViewPointClass,
              Table!WebView!ConsoleMessageClass, Table!WebView!Class
  <1>1. \A c \in Table!WebView!Classes : Proved!ReadsAsWritten(c)
    <2>1. \A c \in Table!WebView!Classes : c.read = c.written
      OBVIOUS
    <2> QED BY <2>1, SameList
  <1>2. \A c \in Table!WebView!Classes :
          /\ c.class \notin CastClasses
          /\ \A i \in DOMAIN c.read :
                \/ c.read[i].class = Proved!Plain /\ ~c.read[i].list
                \/ c.read[i].class \notin CastClasses /\ c.read[i].list
    BY SMTT(60) DEF Table!WebView!Must, Table!WebView!May, Table!WebView!Part,
           Table!WebView!OptPart, Table!WebView!Req, Table!WebView!Opt,
           Table!WebView!Plain
  <1> QED BY ONLY <1>1, <1>2 DEF Regular

LEMMA ClassesRegular ==
    \A c \in Table!Classes \ {Table!Camera!PlatformMediaSettingsClass,
                              Table!Firebase!InitParamsClass} : Regular(c)
  BY CameraRegular, FirestoreRegular, AuthRegular, CoreRegular, StorageRegular,
     FlatpakRegular, GoogleRegular, WebViewRegular DEF Table!Classes

\* The two others.
LEMMA ClassesCast ==
    /\ Table!Camera!PlatformMediaSettingsClass.class = "PlatformMediaSettings"
    /\ Table!Firebase!InitParamsClass.class = "InitParams"
    /\ \A i \in DOMAIN Table!Camera!PlatformMediaSettingsClass.read :
          LET field == Table!Camera!PlatformMediaSettingsClass.read[i]
          IN  /\ ~field.list
              /\ field.class \in {Proved!Plain, "PlatformResolutionPreset"}
  BY DEF Table!Camera!PlatformMediaSettingsClass,
         Table!Firebase!InitParamsClass,
         Table!Camera!Must, Table!Camera!May, Table!Camera!Part,
         Table!Camera!OptPart, Table!Camera!Req, Table!Camera!Opt,
         Table!Camera!Plain, Table!Camera!Class,
         Table!Firebase!Must, Table!Firebase!May, Table!Firebase!Part,
         Table!Firebase!OptPart, Table!Firebase!Req, Table!Firebase!Opt,
         Table!Firebase!Plain, Table!Firebase!Class

\* Among the parts of a regular class are regular classes only.
LEMMA WithinRegular ==
    ASSUME NEW class, class \notin CastClasses
    PROVE  \A c \in Proved!Within(class) : Regular(c)
  <1>1. ASSUME NEW names, names \cap CastClasses = {}
        PROVE  Proved!WithParts(names) \cap CastClasses = {}
    <2>1. ASSUME NEW c \in Table!Classes, c.class \in names,
                 NEW i \in DOMAIN c.read, c.read[i].list
          PROVE  c.read[i].class \notin CastClasses
      BY <1>1, <2>1, ClassesRegular, ClassesCast DEF Regular
    <2> QED BY <1>1, <2>1 DEF Proved!WithParts
  <1>2. \A c \in Proved!Within(class) :
            c \in Table!Classes /\ c.class \notin CastClasses
    BY <1>1 DEF Proved!Within
  <1> QED BY <1>2, ClassesRegular, ClassesCast

\* A camera's settings are made of plain values and a resolution.
LEMMA WithinSettings ==
    \A c \in Proved!Within("PlatformMediaSettings") :
        c = Table!Camera!PlatformMediaSettingsClass
  <1> DEFINE names == {"PlatformMediaSettings"}
  <1>1. \A c \in Table!Classes : c.class \in names
            => c = Table!Camera!PlatformMediaSettingsClass
    BY ClassesRegular, ClassesCast DEF Regular
  <1>2. Proved!WithParts(names) = names
    BY <1>1, ClassesCast DEF Proved!WithParts
  <1> QED BY <1>1, <1>2 DEF Proved!Within

-----------------------------------------------------------------------------
\* The codecs.

\* A codec that writes the bytes that it reads, and knows the classes.
LEMMA SameTypes ==
    ASSUME NEW codec, NEW types,
           Table!Reads[codec] = types, Table!Writes[codec] = types,
           \A class \in ClassesOf[codec] : Proved!Knows(types, class)
    PROVE  CodecAgrees(codec)
  BY DEF CodecAgrees

LEMMA CodecsAgreeOnClasses ==
    ASSUME NEW codec \in DOMAIN ClassesOf
    PROVE  CodecAgrees(codec)

  <1>1. CodecAgrees("Camera")
    <2>1. Table!Reads["Camera"] = Table!Camera!HostReadValueOfType
      BY DEF Table!Reads
    <2>2. Table!Writes["Camera"] = Table!Camera!HostReadValueOfType
      BY DEF Table!Writes, Table!Camera!HostReadValueOfType,
             Table!Camera!HostWriteValue
    <2>3. \A class \in ClassesOf["Camera"] :
             Proved!Knows(Table!Camera!HostReadValueOfType, class)
      BY DEF Proved!Knows, ClassesOf, Table!Camera!HostReadValueOfType,
             Table!Camera!Types
    <2> QED BY <2>1, <2>2, <2>3, SameTypes
  <1>2. CodecAgrees("FirebaseFirestoreHostApi")
    <2>1. Table!Reads["FirebaseFirestoreHostApi"] = Table!Firestore!HostReadValueOfType
      BY DEF Table!Reads
    <2>2. Table!Writes["FirebaseFirestoreHostApi"] = Table!Firestore!HostReadValueOfType
      BY DEF Table!Writes, Table!Firestore!HostReadValueOfType,
             Table!Firestore!HostWriteValue
    <2>3. \A class \in ClassesOf["FirebaseFirestoreHostApi"] :
             Proved!Knows(Table!Firestore!HostReadValueOfType, class)
      BY DEF Proved!Knows, ClassesOf, Table!Firestore!HostReadValueOfType,
             Table!Firestore!Types
    <2> QED BY <2>1, <2>2, <2>3, SameTypes
  <1>3. CodecAgrees("FirebaseAuthHostApi")
    <2>1. Table!Reads["FirebaseAuthHostApi"] = Table!Auth!HostReadValueOfType
      BY DEF Table!Reads
    <2>2. Table!Writes["FirebaseAuthHostApi"] = Table!Auth!HostReadValueOfType
      BY DEF Table!Writes, Table!Auth!HostReadValueOfType,
             Table!Auth!HostWriteValue
    <2>3. \A class \in ClassesOf["FirebaseAuthHostApi"] :
             Proved!Knows(Table!Auth!HostReadValueOfType, class)
      BY DEF Proved!Knows, ClassesOf, AuthHostClasses,
             Table!Auth!HostReadValueOfType, Table!Auth!Types
    <2> QED BY <2>1, <2>2, <2>3, SameTypes
  <1>4. CodecAgrees("FirebaseAuthUserHostApi")
    <2>1. Table!Reads["FirebaseAuthUserHostApi"] = Table!Auth!UserHostReadValueOfType
      BY DEF Table!Reads
    <2>2. Table!Writes["FirebaseAuthUserHostApi"] = Table!Auth!UserHostReadValueOfType
      BY DEF Table!Writes, Table!Auth!UserHostReadValueOfType,
             Table!Auth!UserHostWriteValue
    <2>3. \A class \in ClassesOf["FirebaseAuthUserHostApi"] :
             Proved!Knows(Table!Auth!UserHostReadValueOfType, class)
      BY DEF Proved!Knows, ClassesOf, AuthHostClasses,
             Table!Auth!UserHostReadValueOfType, Table!Auth!Types
    <2> QED BY <2>1, <2>2, <2>3, SameTypes
  <1>5. CodecAgrees("MultiFactorUserHostApi")
    <2>1. Table!Reads["MultiFactorUserHostApi"] = Table!Auth!MultiFactorUserReadValueOfType
      BY DEF Table!Reads
    <2>2. Table!Writes["MultiFactorUserHostApi"] = Table!Auth!MultiFactorUserReadValueOfType
      BY DEF Table!Writes, Table!Auth!MultiFactorUserReadValueOfType,
             Table!Auth!MultiFactorUserWriteValue
    <2>3. \A class \in ClassesOf["MultiFactorUserHostApi"] :
             Proved!Knows(Table!Auth!MultiFactorUserReadValueOfType, class)
      BY DEF Proved!Knows, ClassesOf,
             Table!Auth!MultiFactorUserReadValueOfType,
             Table!Auth!Types
    <2> QED BY <2>1, <2>2, <2>3, SameTypes
  <1>6. CodecAgrees("MultiFactoResolverHostApi")
    <2>1. Table!Reads["MultiFactoResolverHostApi"] = Table!Auth!MultiFactoResolverReadValueOfType
      BY DEF Table!Reads
    <2>2. Table!Writes["MultiFactoResolverHostApi"] = Table!Auth!MultiFactoResolverReadValueOfType
      BY DEF Table!Writes, Table!Auth!MultiFactoResolverReadValueOfType,
             Table!Auth!MultiFactoResolverWriteValue
    <2>3. \A class \in ClassesOf["MultiFactoResolverHostApi"] :
             Proved!Knows(Table!Auth!MultiFactoResolverReadValueOfType, class)
      BY DEF Proved!Knows, ClassesOf,
             Table!Auth!MultiFactoResolverReadValueOfType,
             Table!Auth!Types
    <2> QED BY <2>1, <2>2, <2>3, SameTypes
  <1>7. CodecAgrees("MultiFactorTotpHostApi")
    <2>1. Table!Reads["MultiFactorTotpHostApi"] = Table!Auth!MultiFactorTotpReadValueOfType
      BY DEF Table!Reads
    <2>2. Table!Writes["MultiFactorTotpHostApi"] = Table!Auth!MultiFactorTotpReadValueOfType
      BY DEF Table!Writes, Table!Auth!MultiFactorTotpReadValueOfType,
             Table!Auth!MultiFactorTotpWriteValue
    <2>3. \A class \in ClassesOf["MultiFactorTotpHostApi"] :
             Proved!Knows(Table!Auth!MultiFactorTotpReadValueOfType, class)
      BY DEF Proved!Knows, ClassesOf,
             Table!Auth!MultiFactorTotpReadValueOfType,
             Table!Auth!Types
    <2> QED BY <2>1, <2>2, <2>3, SameTypes
  <1>8. CodecAgrees("GenerateInterfaces")
    <2>1. Table!Reads["GenerateInterfaces"] = Table!Auth!GenerateInterfacesReadValueOfType
      BY DEF Table!Reads
    <2>2. Table!Writes["GenerateInterfaces"] = Table!Auth!GenerateInterfacesReadValueOfType
      BY DEF Table!Writes, Table!Auth!GenerateInterfacesReadValueOfType,
             Table!Auth!GenerateInterfacesWriteValue
    <2>3. \A class \in ClassesOf["GenerateInterfaces"] :
             Proved!Knows(Table!Auth!GenerateInterfacesReadValueOfType, class)
      BY DEF Proved!Knows, ClassesOf,
             Table!Auth!GenerateInterfacesReadValueOfType,
             Table!Auth!Types
    <2> QED BY <2>1, <2>2, <2>3, SameTypes
  <1>9. CodecAgrees("FirebaseCoreHostApi")
    <2>1. Table!Reads["FirebaseCoreHostApi"] = Table!Firebase!CoreReadValueOfType
      BY DEF Table!Reads
    <2>2. Table!Writes["FirebaseCoreHostApi"] = Table!Firebase!CoreReadValueOfType
      BY DEF Table!Writes, Table!Firebase!CoreReadValueOfType,
             Table!Firebase!CoreWriteValue
    <2>3. \A class \in ClassesOf["FirebaseCoreHostApi"] :
             Proved!Knows(Table!Firebase!CoreReadValueOfType, class)
      BY DEF Proved!Knows, ClassesOf, Table!Firebase!CoreReadValueOfType,
             Table!Firebase!Types
    <2> QED BY <2>1, <2>2, <2>3, SameTypes
  <1>10. CodecAgrees("FirebaseStorageHostApi")
    <2>1. Table!Reads["FirebaseStorageHostApi"] = Table!Firebase!StorageReadValueOfType
      BY DEF Table!Reads
    <2>2. Table!Writes["FirebaseStorageHostApi"] = Table!Firebase!StorageReadValueOfType
      BY DEF Table!Writes, Table!Firebase!StorageReadValueOfType,
             Table!Firebase!StorageWriteValue
    <2>3. \A class \in ClassesOf["FirebaseStorageHostApi"] :
             Proved!Knows(Table!Firebase!StorageReadValueOfType, class)
      BY DEF Proved!Knows, ClassesOf, Table!Firebase!StorageReadValueOfType,
             Table!Firebase!Types
    <2> QED BY <2>1, <2>2, <2>3, SameTypes
  <1>11. CodecAgrees("Flatpak")
    <2>1. Table!Reads["Flatpak"] = Table!Flatpak!HostReadValueOfType
      BY DEF Table!Reads
    <2>2. Table!Writes["Flatpak"] = Table!Flatpak!HostReadValueOfType
      BY DEF Table!Writes, Table!Flatpak!HostReadValueOfType,
             Table!Flatpak!HostWriteValue
    <2>3. \A class \in ClassesOf["Flatpak"] :
             Proved!Knows(Table!Flatpak!HostReadValueOfType, class)
      BY DEF Proved!Knows, ClassesOf, Table!Flatpak!HostReadValueOfType,
             Table!Flatpak!Types
    <2> QED BY <2>1, <2>2, <2>3, SameTypes
  <1>12. CodecAgrees("GoogleSignIn")
    BY DEF CodecAgrees, Proved!Knows, ClassesOf, Table!Reads, Table!Writes,
           Table!Firebase!GoogleReadValueOfType,
           Table!Firebase!GoogleWriteValue, Table!Firebase!Types
  <1>13. CodecAgrees("WebViewHostApi")
    <2>1. Table!Reads["WebViewHostApi"] = Table!WebView!HostReadValueOfType
      BY DEF Table!Reads
    <2>2. Table!Writes["WebViewHostApi"] = Table!WebView!HostReadValueOfType
      BY DEF Table!Writes, Table!WebView!HostReadValueOfType,
             Table!WebView!HostWriteValue
    <2>3. \A class \in ClassesOf["WebViewHostApi"] :
             Proved!Knows(Table!WebView!HostReadValueOfType, class)
      BY DEF Proved!Knows, ClassesOf, Table!WebView!HostReadValueOfType,
             Table!WebView!Types
    <2> QED BY <2>1, <2>2, <2>3, SameTypes
  <1>14. CodecAgrees("Standard")
    BY DEF CodecAgrees, ClassesOf
  <1> QED
    BY <1>1, <1>2, <1>3, <1>4, <1>5, <1>6, <1>7, <1>8, <1>9, <1>10, <1>11,
       <1>12, <1>13, <1>14
    DEF ClassesOf

\* A channel of the classes of its codec is understood and read back.
LEMMA OfItsCodecAgrees ==
    ASSUME NEW ch, OfItsCodec(ch)
    PROVE  Proved!Understood(ch) /\ Proved!ReadBack(ch)
  <1>1. CodecAgrees(ch.codec)
    BY CodecsAgreeOnClasses DEF OfItsCodec
  <1>2. \A class \in ClassesOf[ch.codec] : class \notin CastClasses
    BY DEF OfItsCodec, ClassesOf, AuthHostClasses
  <1>3. ASSUME NEW i \in DOMAIN ch.args, ch.args[i].class # Proved!Plain
        PROVE  Proved!Decodes(ch.codec, ch.args[i].class)
    <2>1. ch.args[i].class \in ClassesOf[ch.codec]
      BY <1>3 DEF OfItsCodec
    <2>2. \A c \in Proved!Within(ch.args[i].class) : Regular(c)
      BY <2>1, <1>2, WithinRegular
    <2>3. \A c \in Proved!Within(ch.args[i].class) : Proved!CastFields(c) = {}
      BY <2>2 DEF Regular, Proved!CastFields
    <2> QED BY <1>1, <2>1, <2>3 DEF Proved!Decodes, CodecAgrees
  <1>4. ASSUME Proved!HasClass(ch) PROVE Proved!ReadBack(ch)
    <2>1. ch.result \in ClassesOf[ch.codec]
      BY <1>4 DEF OfItsCodec, Proved!HasClass
    <2>2. \A c \in Proved!Within(ch.result) : Regular(c)
      BY <2>1, <1>2, WithinRegular
    <2> QED BY <1>1, <2>1, <2>2 DEF Proved!ReadBack, CodecAgrees, Regular
  <1> QED BY <1>3, <1>4 DEF Proved!Understood, Proved!ReadBack

-----------------------------------------------------------------------------
\* The channels of each plugin.


LEMMA CameraOfItsCodec ==
    \A ch \in Table!Camera!Channels \ {Table!Camera!Create} : OfItsCodec(ch)
  BY SMTT(60) DEF OfItsCodec, ClassesOf,
         Table!Camera!Channels, Table!Camera!HostSync, Table!Camera!HostAsync,
         Table!Camera!Req, Table!Camera!Async, Table!Camera!Sync,
         Table!Camera!Plain, Table!Camera!Void,
         Table!Camera!GetAvailableCameras, Table!Camera!Initialize,
         Table!Camera!Dispose, Table!Camera!TakePicture,
         Table!Camera!StartVideoRecording, Table!Camera!StopVideoRecording,
         Table!Camera!PausePreview, Table!Camera!ResumePreview

LEMMA FirestoreOfItsCodec ==
    \A ch \in Table!Firestore!Channels : OfItsCodec(ch)
  <1> DEFINE Args ==
             {Table!Firestore!App, Table!Firestore!Req(Table!Firestore!Plain),
              Table!Firestore!Req("PigeonGetOptions"),
              Table!Firestore!Opt(Table!Firestore!Plain),
              Table!Firestore!Req("DocumentReferenceRequest"),
              Table!Firestore!Req("PigeonQueryParameters")}
  <1> USE DEF Table!Firestore!Channels, Table!Firestore!HostAsync,
              Table!Firestore!Async, Table!Firestore!Sync,
              Table!Firestore!LoadBundle, Table!Firestore!NamedQueryGet,
              Table!Firestore!ClearPersistence, Table!Firestore!DisableNetwork,
              Table!Firestore!EnableNetwork, Table!Firestore!Terminate,
              Table!Firestore!WaitForPendingWrites,
              Table!Firestore!SetIndexConfiguration,
              Table!Firestore!SetLoggingEnabled,
              Table!Firestore!SnapshotsInSyncSetup,
              Table!Firestore!TransactionCreate,
              Table!Firestore!TransactionStoreResult,
              Table!Firestore!TransactionGet,
              Table!Firestore!DocumentReferenceSet,
              Table!Firestore!DocumentReferenceUpdate,
              Table!Firestore!DocumentReferenceGet,
              Table!Firestore!DocumentReferenceDelete,
              Table!Firestore!QueryGet, Table!Firestore!AggregateQuery,
              Table!Firestore!WriteBatchCommit, Table!Firestore!QuerySnapshot,
              Table!Firestore!DocumentReferenceSnapshot
  <1> SUFFICES ASSUME NEW ch \in Table!Firestore!Channels PROVE OfItsCodec(ch)
    OBVIOUS
  <1>1. ch.codec \in {"FirebaseFirestoreHostApi"}
    BY SMTT(60)
  <1>2. ch.result \in ClassesOf[ch.codec] \cup {Proved!Plain, Proved!Void}
    BY SMTT(60) DEF ClassesOf, Table!Firestore!Plain, Table!Firestore!Void
  <1>3. \A i \in DOMAIN ch.args : ch.args[i] \in Args
    BY SMTT(60)
  <1>4. \A arg \in Args : arg.class \in ClassesOf[ch.codec] \cup {Proved!Plain}
    BY ONLY <1>1 DEF ClassesOf, Table!Firestore!App, Table!Firestore!Opt,
                     Table!Firestore!Plain, Table!Firestore!Req, Proved!Plain,
                     Args
  <1> HIDE DEF Args
  <1> QED BY ONLY <1>1, <1>2, <1>3, <1>4 DEF OfItsCodec, ClassesOf

LEMMA AuthOfItsCodec ==
    \A ch \in Table!Auth!Channels : OfItsCodec(ch)
  <1> DEFINE Args ==
             {Table!Auth!App, Table!Auth!Req(Table!Auth!Plain),
              Table!Auth!Req("PigeonSignInProvider"),
              Table!Auth!Cast("PigeonActionCodeSettings"),
              Table!Auth!Req("PigeonActionCodeSettings"),
              Table!Auth!Opt(Table!Auth!Plain),
              Table!Auth!Req("PigeonFirebaseAuthSettings"),
              Table!Auth!Req("PigeonVerifyPhoneNumberRequest"),
              Table!Auth!Req("PigeonUserProfile")}
  <1> USE DEF Table!Auth!Channels, Table!Auth!HostAsync,
              Table!Auth!UserHostAsync, Table!Auth!Async, Table!Auth!Sync,
              Table!Auth!RegisterIdTokenListener,
              Table!Auth!RegisterAuthStateListener, Table!Auth!UseEmulator,
              Table!Auth!ApplyActionCode, Table!Auth!CheckActionCode,
              Table!Auth!ConfirmPasswordReset,
              Table!Auth!CreateUserWithEmailAndPassword,
              Table!Auth!SignInAnonymously, Table!Auth!SignInWithCredential,
              Table!Auth!SignInWithCustomToken,
              Table!Auth!SignInWithEmailAndPassword,
              Table!Auth!SignInWithEmailLink, Table!Auth!SignInWithProvider,
              Table!Auth!SignOut, Table!Auth!FetchSignInMethodsForEmail,
              Table!Auth!SendPasswordResetEmail,
              Table!Auth!SendSignInLinkToEmail, Table!Auth!SetLanguageCode,
              Table!Auth!SetSettings, Table!Auth!VerifyPasswordResetCode,
              Table!Auth!VerifyPhoneNumber,
              Table!Auth!RevokeTokenWithAuthorizationCode, Table!Auth!Delete,
              Table!Auth!GetIdToken, Table!Auth!LinkWithCredential,
              Table!Auth!LinkWithProvider,
              Table!Auth!ReauthenticateWithCredential,
              Table!Auth!ReauthenticateWithProvider, Table!Auth!Reload,
              Table!Auth!SendEmailVerification, Table!Auth!Unlink,
              Table!Auth!UpdateEmail, Table!Auth!UpdatePassword,
              Table!Auth!UpdatePhoneNumber, Table!Auth!UpdateProfile,
              Table!Auth!VerifyBeforeUpdateEmail
  <1> SUFFICES ASSUME NEW ch \in Table!Auth!Channels PROVE OfItsCodec(ch)
    OBVIOUS
  <1>1. ch.codec \in {"FirebaseAuthHostApi", "FirebaseAuthUserHostApi"}
    BY SMTT(60)
  <1>2. ch.result \in ClassesOf[ch.codec] \cup {Proved!Plain, Proved!Void}
    BY SMTT(60) DEF ClassesOf, AuthHostClasses, Table!Auth!Plain,
                    Table!Auth!Void
  <1>3. \A i \in DOMAIN ch.args : ch.args[i] \in Args
    BY SMTT(60)
  <1>4. ClassesOf[ch.codec] = AuthHostClasses
    BY ONLY <1>1 DEF ClassesOf
  <1>5. \A arg \in Args : arg.class \in AuthHostClasses \cup {Proved!Plain}
    BY ONLY SMTT(60) DEF AuthHostClasses, Table!Auth!App,
                         Table!Auth!Cast, Table!Auth!Opt, Table!Auth!Plain,
                         Table!Auth!Req, Proved!Plain, Args
  <1> HIDE DEF Args
  <1>6. ch.codec \in DOMAIN ClassesOf
    BY ONLY <1>1 DEF ClassesOf
  <1> QED BY ONLY <1>1, <1>2, <1>3, <1>4, <1>5, <1>6 DEF OfItsCodec

LEMMA AuthUnheardOfItsCodec ==
    \A ch \in Table!Auth!Unheard : OfItsCodec(ch)
  <1> USE DEF OfItsCodec, ClassesOf, Table!Auth!App, Table!Auth!Req,
              Table!Auth!Opt, Table!Auth!Cast,
              Table!Auth!Async, Table!Auth!Sync, Table!Auth!Plain,
              Table!Auth!Void
  <1>1. \A ch \in {Table!Auth!EnrollPhone, Table!Auth!EnrollTotp,
             Table!Auth!GetSession, Table!Auth!Unenroll,
             Table!Auth!GetEnrolledFactors} :
          OfItsCodec(ch)
    BY SMTT(30) DEF Table!Auth!MultiFactorUserAsync, Table!Auth!EnrollPhone,
           Table!Auth!EnrollTotp, Table!Auth!GetSession, Table!Auth!Unenroll,
           Table!Auth!GetEnrolledFactors
  <1>2. \A ch \in {Table!Auth!ResolveSignIn} :
          OfItsCodec(ch)
    BY SMTT(30) DEF Table!Auth!MultiFactoResolverAsync,
                    Table!Auth!ResolveSignIn
  <1>3. \A ch \in {Table!Auth!GenerateSecret,
  Table!Auth!GetAssertionForEnrollment,
             Table!Auth!GetAssertionForSignIn} :
          OfItsCodec(ch)
    BY SMTT(30) DEF Table!Auth!MultiFactorTotpAsync, Table!Auth!GenerateSecret,
           Table!Auth!GetAssertionForEnrollment,
           Table!Auth!GetAssertionForSignIn
  <1>4. \A ch \in {Table!Auth!GenerateQrCodeUrl, Table!Auth!OpenInOtpApp} :
          OfItsCodec(ch)
    BY SMTT(30) DEF Table!Auth!StandardAsync, Table!Auth!GenerateQrCodeUrl,
           Table!Auth!OpenInOtpApp
  <1>5. \A ch \in {Table!Auth!PigeonInterface} :
          OfItsCodec(ch)
    BY SMTT(30) DEF Table!Auth!GenerateInterfacesSync,
                    Table!Auth!PigeonInterface
  <1> QED
    BY ONLY <1>1, <1>2, <1>3, <1>4, <1>5 DEF Table!Auth!Unheard

LEMMA CoreOfItsCodec ==
    \A ch \in Table!Firebase!CoreChannels : OfItsCodec(ch)
  BY SMTT(60) DEF OfItsCodec, ClassesOf,
         Table!Firebase!CoreChannels, Table!Firebase!CoreAsync,
         Table!Firebase!StandardAsync, Table!Firebase!Req,
         Table!Firebase!Async, Table!Firebase!Sync, Table!Firebase!Plain,
         Table!Firebase!Void, Table!Firebase!InitializeApp,
         Table!Firebase!InitializeCore, Table!Firebase!OptionsFromResource,
         Table!Firebase!SetAutomaticDataCollectionEnabled,
         Table!Firebase!SetAutomaticResourceManagementEnabled,
         Table!Firebase!Delete

LEMMA StorageOfItsCodec ==
    \A ch \in Table!Firebase!StorageChannels : OfItsCodec(ch)
  <1> DEFINE Args ==
             {Table!Firebase!App, Table!Firebase!Req(Table!Firebase!Plain),
              Table!Firebase!Opt(Table!Firebase!Plain),
              Table!Firebase!Reference,
              Table!Firebase!Req("PigeonListOptions"),
              Table!Firebase!Req("PigeonSettableMetadata")}
  <1> USE DEF Table!Firebase!StorageChannels, Table!Firebase!StorageAsync,
              Table!Firebase!Async, Table!Firebase!Sync,
              Table!Firebase!GetReferencebyPath,
              Table!Firebase!SetMaxOperationRetryTime,
              Table!Firebase!SetMaxUploadRetryTime,
              Table!Firebase!SetMaxDownloadRetryTime,
              Table!Firebase!UseStorageEmulator,
              Table!Firebase!ReferenceDelete,
              Table!Firebase!ReferenceGetDownloadURL,
              Table!Firebase!ReferenceGetMetaData,
              Table!Firebase!ReferenceList, Table!Firebase!ReferenceListAll,
              Table!Firebase!ReferenceGetData, Table!Firebase!ReferencePutData,
              Table!Firebase!ReferencePutString,
              Table!Firebase!ReferencePutFile,
              Table!Firebase!ReferenceDownloadFile,
              Table!Firebase!ReferenceUpdateMetadata, Table!Firebase!TaskPause,
              Table!Firebase!TaskResume, Table!Firebase!TaskCancel
  <1> SUFFICES ASSUME NEW ch \in Table!Firebase!StorageChannels PROVE OfItsCodec(ch)
    OBVIOUS
  <1>1. ch.codec \in {"FirebaseStorageHostApi"}
    BY SMTT(60)
  <1>2. ch.result \in ClassesOf[ch.codec] \cup {Proved!Plain, Proved!Void}
    BY SMTT(60) DEF ClassesOf, Table!Firebase!Plain, Table!Firebase!Void
  <1>3. \A i \in DOMAIN ch.args : ch.args[i] \in Args
    BY SMTT(60)
  <1>4. \A arg \in Args : arg.class \in ClassesOf[ch.codec] \cup {Proved!Plain}
    BY ONLY <1>1 DEF ClassesOf, Table!Firebase!App, Table!Firebase!Opt,
                     Table!Firebase!Plain, Table!Firebase!Reference,
                     Table!Firebase!Req, Proved!Plain, Args
  <1> HIDE DEF Args
  <1> QED BY ONLY <1>1, <1>2, <1>3, <1>4 DEF OfItsCodec, ClassesOf

LEMMA FlatpakOfItsCodec ==
    \A ch \in Table!Flatpak!Channels : OfItsCodec(ch)
  BY SMTT(60) DEF OfItsCodec, ClassesOf,
         Table!Flatpak!Channels, Table!Flatpak!HostSync,
         Table!Flatpak!HostAsync, Table!Flatpak!Req, Table!Flatpak!Async,
         Table!Flatpak!Sync, Table!Flatpak!Plain, Table!Flatpak!Void,
         Table!Flatpak!GetVersion, Table!Flatpak!GetDefaultArch,
         Table!Flatpak!GetSupportedArches,
         Table!Flatpak!GetSystemInstallations,
         Table!Flatpak!GetUserInstallation, Table!Flatpak!RemoteAdd,
         Table!Flatpak!RemoteRemove, Table!Flatpak!GetApplicationsInstalled,
         Table!Flatpak!GetApplicationsUpdate,
         Table!Flatpak!GetApplicationsRemote, Table!Flatpak!ApplicationInstall,
         Table!Flatpak!ApplicationUninstall, Table!Flatpak!ApplicationUpdate,
         Table!Flatpak!ApplicationStart, Table!Flatpak!ApplicationStop,
         Table!Flatpak!SetupEventChannel

LEMMA GoogleOfItsCodec ==
    \A ch \in Table!Firebase!GoogleChannels
              \ {Table!Firebase!Init} : OfItsCodec(ch)
  BY SMTT(60) DEF OfItsCodec, ClassesOf,
         Table!Firebase!GoogleChannels, Table!Firebase!GoogleSync,
         Table!Firebase!GoogleAsync, Table!Firebase!Req, Table!Firebase!Async,
         Table!Firebase!Sync, Table!Firebase!Plain, Table!Firebase!Void,
         Table!Firebase!SignInSilently, Table!Firebase!SignIn,
         Table!Firebase!GetAccessToken, Table!Firebase!SignOut,
         Table!Firebase!Disconnect, Table!Firebase!IsSignedIn,
         Table!Firebase!ClearAuthCache, Table!Firebase!RequestScopes

LEMMA VideoPlayerOfItsCodec ==
    \A ch \in Table!VideoPlayer!Channels : OfItsCodec(ch)
  BY SMTT(60) DEF OfItsCodec, ClassesOf,
         Table!VideoPlayer!Channels, Table!VideoPlayer!StandardSync,
         Table!VideoPlayer!Req, Table!VideoPlayer!Opt, Table!VideoPlayer!Async,
         Table!VideoPlayer!Sync, Table!VideoPlayer!Plain,
         Table!VideoPlayer!Void, Table!VideoPlayer!Initialize,
         Table!VideoPlayer!Create, Table!VideoPlayer!Dispose,
         Table!VideoPlayer!SetLooping, Table!VideoPlayer!SetVolume,
         Table!VideoPlayer!SetPlaybackSpeed, Table!VideoPlayer!Play,
         Table!VideoPlayer!GetPosition, Table!VideoPlayer!SeekTo,
         Table!VideoPlayer!Pause, Table!VideoPlayer!GetAudioTrackCount,
         Table!VideoPlayer!SetAudioTrack, Table!VideoPlayer!SetOutputChannels,
         Table!VideoPlayer!SetMute, Table!VideoPlayer!IsAudioOnly,
         Table!VideoPlayer!SetScaleMethod, Table!VideoPlayer!SetAVOffset,
         Table!VideoPlayer!SetSubtitlesEnabled,
         Table!VideoPlayer!GetSubtitleTrackCount,
         Table!VideoPlayer!SetSubtitleTrack, Table!VideoPlayer!SetSubtitleUri,
         Table!VideoPlayer!SetSubtitleFont,
         Table!VideoPlayer!SetChannelMixPreset, Table!VideoPlayer!SetEqualizer,
         Table!VideoPlayer!SetVideoBalance,
         Table!VideoPlayer!SetAudioPassthrough,
         Table!VideoPlayer!SetChannelMixMatrix

LEMMA WebViewOfItsCodec ==
    \A ch \in Table!WebView!Channels : OfItsCodec(ch)
  <1> DEFINE Args ==
             {Table!WebView!Req(Table!WebView!Plain),
              Table!WebView!Opt(Table!WebView!Plain)}
  <1> USE DEF Table!WebView!Channels, Table!WebView!StandardSync,
              Table!WebView!StandardAsync, Table!WebView!HostSync,
              Table!WebView!HostAsync, Table!WebView!Async, Table!WebView!Sync,
              Table!WebView!InstanceManager_Clear,
              Table!WebView!CookieManager_AttachInstance,
              Table!WebView!CookieManager_SetCookie,
              Table!WebView!CookieManager_RemoveAllCookies,
              Table!WebView!CookieManager_SetAcceptThirdPartyCookies,
              Table!WebView!WebView_Create, Table!WebView!WebView_LoadData,
              Table!WebView!WebView_LoadDataWithBaseUrl,
              Table!WebView!WebView_LoadUrl, Table!WebView!WebView_PostUrl,
              Table!WebView!WebView_GetUrl, Table!WebView!WebView_CanGoBack,
              Table!WebView!WebView_CanGoForward, Table!WebView!WebView_GoBack,
              Table!WebView!WebView_GoForward, Table!WebView!WebView_Reload,
              Table!WebView!WebView_ClearCache,
              Table!WebView!WebView_EvaluateJavascript,
              Table!WebView!WebView_GetTitle, Table!WebView!WebView_ScrollTo,
              Table!WebView!WebView_ScrollBy, Table!WebView!WebView_GetScrollX,
              Table!WebView!WebView_GetScrollY,
              Table!WebView!WebView_GetScrollPosition,
              Table!WebView!WebView_SetWebContentsDebuggingEnabled,
              Table!WebView!WebView_SetWebViewClient,
              Table!WebView!WebView_AddJavaScriptChannel,
              Table!WebView!WebView_RemoveJavaScriptChannel,
              Table!WebView!WebView_SetDownloadListener,
              Table!WebView!WebView_SetWebChromeClient,
              Table!WebView!WebView_SetBackgroundColor,
              Table!WebView!WebSettings_Create,
              Table!WebView!WebSettings_SetDomStorageEnabled,
              Table!WebView!WebSettings_SetJavaScriptCanOpenWindowsAutomatically,
              Table!WebView!WebSettings_SetSupportMultipleWindows,
              Table!WebView!WebSettings_SetJavaScriptEnabled,
              Table!WebView!WebSettings_SetUserAgentString,
              Table!WebView!WebSettings_SetMediaPlaybackRequiresUserGesture,
              Table!WebView!WebSettings_SetSupportZoom,
              Table!WebView!WebSettings_SetLoadWithOverviewMode,
              Table!WebView!WebSettings_SetUseWideViewPort,
              Table!WebView!WebSettings_SetDisplayZoomControls,
              Table!WebView!WebSettings_SetBuiltInZoomControls,
              Table!WebView!WebSettings_SetAllowFileAccess,
              Table!WebView!WebSettings_SetTextZoom,
              Table!WebView!WebSettings_GetUserAgentString,
              Table!WebView!JavaScriptChannel_Create,
              Table!WebView!WebViewClient_Create,
              Table!WebView!WebViewClient_SetSynchronousReturnValueForShouldOverrideUrlLoading,
              Table!WebView!DownloadListener_Create,
              Table!WebView!WebChromeClient_Create,
              Table!WebView!WebChromeClient_SetSynchronousReturnValueForOnShowFileChooser,
              Table!WebView!WebChromeClient_SetSynchronousReturnValueForOnConsoleMessage,
              Table!WebView!WebChromeClient_SetSynchronousReturnValueForOnJsAlert,
              Table!WebView!WebChromeClient_SetSynchronousReturnValueForOnJsConfirm,
              Table!WebView!WebChromeClient_SetSynchronousReturnValueForOnJsPrompt,
              Table!WebView!WebStorage_Create,
              Table!WebView!WebStorage_DeleteAllData
  <1> SUFFICES ASSUME NEW ch \in Table!WebView!Channels PROVE OfItsCodec(ch)
    OBVIOUS
  <1>1. ch.codec \in {"WebViewHostApi", "Standard"}
    BY SMTT(60)
  <1>2. ch.result \in ClassesOf[ch.codec] \cup {Proved!Plain, Proved!Void}
    BY SMTT(60) DEF ClassesOf, Table!WebView!Plain, Table!WebView!Void
  <1>3. \A i \in DOMAIN ch.args : ch.args[i] \in Args
    BY SMTT(60)
  <1>4. \A arg \in Args : arg.class \in ClassesOf[ch.codec] \cup {Proved!Plain}
    BY ONLY <1>1 DEF ClassesOf, Table!WebView!Opt, Table!WebView!Plain,
                     Table!WebView!Req, Proved!Plain, Args
  <1> HIDE DEF Args
  <1> QED BY ONLY <1>1, <1>2, <1>3, <1>4 DEF OfItsCodec, ClassesOf

LEMMA WebViewUnheardOfItsCodec ==
    \A ch \in Table!WebView!Unheard : OfItsCodec(ch)
  BY SMTT(60) DEF OfItsCodec, ClassesOf,
         Table!WebView!Unheard, Table!WebView!StandardSync, Table!WebView!Req,
         Table!WebView!Async, Table!WebView!Sync, Table!WebView!Plain,
         Table!WebView!Void, Table!WebView!JavaObject_Dispose,
         Table!WebView!FlutterAssetManager_List,
         Table!WebView!FlutterAssetManager_GetAssetFilePathByName,
         Table!WebView!PermissionRequest_Grant,
         Table!WebView!PermissionRequest_Deny,
         Table!WebView!CustomViewCallback_OnCustomViewHidden,
         Table!WebView!GeolocationPermissionsCallback_Invoke,
         Table!WebView!HttpAuthHandler_UseHttpAuthUsernamePassword,
         Table!WebView!HttpAuthHandler_Cancel,
         Table!WebView!HttpAuthHandler_Proceed

-----------------------------------------------------------------------------
\* The settings of a new camera are understood.
LEMMA CreateAgrees ==
    Proved!Understood(Table!Camera!Create) /\ Proved!ReadBack(Table!Camera!Create)
  <1>1. /\ Table!Camera!Create.codec = "Camera"
        /\ Table!Camera!Create.result = Proved!Plain
        /\ \A i \in DOMAIN Table!Camera!Create.args :
              Table!Camera!Create.args[i].class
                  \in {Proved!Plain, "PlatformMediaSettings"}
    BY DEF Table!Camera!Create, Table!Camera!HostAsync, Table!Camera!Async,
           Table!Camera!Sync, Table!Camera!Req, Table!Camera!Plain
  <1>2. /\ Proved!Knows(Table!Reads["Camera"], "PlatformMediaSettings")
        /\ Proved!Knows(Table!Reads["Camera"], "PlatformResolutionPreset")
    BY DEF Proved!Knows, Table!Reads, Table!Camera!HostReadValueOfType,
           Table!Camera!Types
  <1>3. Proved!Decodes("Camera", "PlatformMediaSettings")
    BY <1>2, WithinSettings, ClassesCast DEF Proved!Decodes, Proved!CastFields
  <1> QED BY <1>1, <1>3 DEF Proved!Understood, Proved!ReadBack, Proved!HasClass

\* Init of google_sign_in answers with nothing.
LEMMA GoogleInitReadBack == Proved!ReadBack(Table!Firebase!Init)
  <1>1. Table!Firebase!Init.result = Proved!Void
    BY DEF Table!Firebase!Init, Table!Firebase!GoogleSync, Table!Firebase!Sync,
           Table!Firebase!Void
  <1> QED BY <1>1 DEF Proved!ReadBack, Proved!HasClass

LEMMA ChannelsAgree ==
    \A ch \in Table!Channels \cup Table!Unheard :
        Proved!ReadBack(ch) /\ (ch # Table!Firebase!Init => Proved!Understood(ch))
  <1>1. \A ch \in Table!Channels \cup Table!Unheard :
           \/ OfItsCodec(ch)
           \/ ch = Table!Camera!Create
           \/ ch = Table!Firebase!Init
    BY CameraOfItsCodec, FirestoreOfItsCodec, AuthOfItsCodec,
       AuthUnheardOfItsCodec, CoreOfItsCodec, StorageOfItsCodec,
       FlatpakOfItsCodec, GoogleOfItsCodec, VideoPlayerOfItsCodec,
       WebViewOfItsCodec, WebViewUnheardOfItsCodec
    DEF Table!Channels, Table!Unheard
  <1> QED BY <1>1, OfItsCodecAgrees, CreateAgrees, GoogleInitReadBack

\* The two halves of each codec agree: whatever Dart sends and whenever the
\* plugins answer, no message but the one that initialises google_sign_in fails
\* to be decoded, and an object in a reply is read back as one of its class,
\* field by field.
THEOREM CodecsAreInverse == Spec => []CodecsAgree
  <1>1. Init => Proved!CodecInv
    <2>1. Init => Proved!Init
      BY DEF Init, Pigeon!Init, Proved!Init, Pigeon!Unsent, Proved!Unsent,
             Pigeon!NoChannel, Proved!NoChannel, Pigeon!Sync,
             Proved!Sync, Pigeon!Void, Proved!Void
    <2> QED BY <2>1, Proved!InitCodecInv
  <1>2. Proved!IInv /\ [Next]_vars => Proved!IInv'
    BY StepOfChannels, Proved!NextIInv
  <1>3. Proved!IInv /\ Proved!CodecInv /\ [Next]_vars => Proved!CodecInv'
    BY StepOfChannels, Proved!NextCodecInv
  <1>4. Proved!IInv /\ Proved!CodecInv => CodecsAgree
    <2> SUFFICES ASSUME Proved!IInv, Proved!CodecInv PROVE CodecsAgree
      OBVIOUS
    <2>1. Proved!ReplyReadsBack
      BY ChannelsAgree, Proved!CodecInvReadsBack
    <2>2. Pigeon!ReplyReadsBack
      BY <2>1 DEF Pigeon!ReplyReadsBack, Proved!ReplyReadsBack,
                  Pigeon!HasClass,
                  Proved!HasClass, Pigeon!Within, Proved!Within,
                  Pigeon!WithParts, Proved!WithParts, Pigeon!ReadsAsWritten,
                  Proved!ReadsAsWritten, Pigeon!Plain, Pigeon!Void
    <2>3. ASSUME NEW m \in Messages, message[m].state = "undecoded"
          PROVE  message[m].channel = Table!Firebase!Init
      <3>1. Proved!In(m, "undecoded")
        BY <2>3 DEF Proved!In
      <3>2. /\ message[m].channel \in Table!Channels
            /\ ~Proved!Understood(message[m].channel)
        BY <3>1, Proved!CodecInvDecodes
      <3> QED BY <3>2, ChannelsAgree
    <2> QED BY <2>2, <2>3 DEF CodecsAgree
  <1> QED BY <1>1, <1>2, <1>3, <1>4, ChannelsBegin, PTL DEF Spec
=============================================================================
