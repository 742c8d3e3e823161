------------------------- MODULE FirestoreChannels --------------------------
\* The channels and the codec of FirebaseFirestoreHostApi of cloud_firestore
\* (messages.g.cc).
EXTENDS PigeonChannels

PigeonFirebaseSettingsClass ==
    Class("PigeonFirebaseSettings",
          <<May, May, May, May, Must>>,
          <<May, May, May, May, Must>>)
FirestorePigeonFirebaseAppClass ==
    Class("FirestorePigeonFirebaseApp",
          <<Must, Part("PigeonFirebaseSettings"), Must>>,
          <<Must, Part("PigeonFirebaseSettings"), Must>>)
PigeonSnapshotMetadataClass ==
    Class("PigeonSnapshotMetadata",
          <<Must, Must>>,
          <<Must, Must>>)
PigeonDocumentSnapshotClass ==
    Class("PigeonDocumentSnapshot",
          <<Must, May, Part("PigeonSnapshotMetadata")>>,
          <<Must, May, Part("PigeonSnapshotMetadata")>>)
PigeonDocumentChangeClass ==
    Class("PigeonDocumentChange",
          <<Must, Part("PigeonDocumentSnapshot"), Must, Must>>,
          <<Must, Part("PigeonDocumentSnapshot"), Must, Must>>)
PigeonQuerySnapshotClass ==
    Class("PigeonQuerySnapshot",
          <<Must, Must, Part("PigeonSnapshotMetadata")>>,
          <<Must, Must, Part("PigeonSnapshotMetadata")>>)
PigeonGetOptionsClass ==
    Class("PigeonGetOptions",
          <<Must, Must>>,
          <<Must, Must>>)
PigeonDocumentOptionClass ==
    Class("PigeonDocumentOption",
          <<May, May>>,
          <<May, May>>)
PigeonTransactionCommandClass ==
    Class("PigeonTransactionCommand",
          <<Must, Must, May, OptPart("PigeonDocumentOption")>>,
          <<Must, Must, May, OptPart("PigeonDocumentOption")>>)
DocumentReferenceRequestClass ==
    Class("DocumentReferenceRequest",
          <<Must, May, OptPart("PigeonDocumentOption"), May, May>>,
          <<Must, May, OptPart("PigeonDocumentOption"), May, May>>)
PigeonQueryParametersClass ==
    Class("PigeonQueryParameters",
          <<May, May, May, May, May, May, May, May, May>>,
          <<May, May, May, May, May, May, May, May, May>>)
AggregateQueryClass ==
    Class("AggregateQuery",
          <<Must, May>>,
          <<Must, May>>)
AggregateQueryResponseClass ==
    Class("AggregateQueryResponse",
          <<Must, May, Must>>,
          <<Must, May, Must>>)

Classes ==
    {PigeonFirebaseSettingsClass, FirestorePigeonFirebaseAppClass,
     PigeonSnapshotMetadataClass, PigeonDocumentSnapshotClass,
     PigeonDocumentChangeClass, PigeonQuerySnapshotClass,
     PigeonGetOptionsClass, PigeonDocumentOptionClass,
     PigeonTransactionCommandClass, DocumentReferenceRequestClass,
     PigeonQueryParametersClass, AggregateQueryClass,
     AggregateQueryResponseClass}

HostReadValueOfType ==
    Types(128, <<"AggregateQuery", "AggregateQueryResponse",
                 "DocumentReferenceRequest", "FirestorePigeonFirebaseApp",
                 "PigeonDocumentChange", "PigeonDocumentOption",
                 "PigeonDocumentSnapshot", "PigeonFirebaseSettings",
                 "PigeonGetOptions", "PigeonQueryParameters",
                 "PigeonQuerySnapshot", "PigeonSnapshotMetadata",
                 "PigeonTransactionCommand">>)

HostWriteValue ==
    Types(128, <<"AggregateQuery", "AggregateQueryResponse",
                 "DocumentReferenceRequest", "FirestorePigeonFirebaseApp",
                 "PigeonDocumentChange", "PigeonDocumentOption",
                 "PigeonDocumentSnapshot", "PigeonFirebaseSettings",
                 "PigeonGetOptions", "PigeonQueryParameters",
                 "PigeonQuerySnapshot", "PigeonSnapshotMetadata",
                 "PigeonTransactionCommand">>)

HostAsync(name, args, result) ==
    Async("FirebaseFirestoreHostApi", name, args, result)

App == Req("FirestorePigeonFirebaseApp")

\* FirebaseFirestoreHostApi
LoadBundle == HostAsync("loadBundle", <<App, Req(Plain)>>, Plain)
NamedQueryGet ==
    HostAsync("namedQueryGet",
              <<App, Req(Plain), Req("PigeonGetOptions")>>,
                "PigeonQuerySnapshot")
ClearPersistence == HostAsync("clearPersistence", <<App>>, Void)
DisableNetwork == HostAsync("disableNetwork", <<App>>, Void)
EnableNetwork == HostAsync("enableNetwork", <<App>>, Void)
Terminate == HostAsync("terminate", <<App>>, Void)
WaitForPendingWrites == HostAsync("waitForPendingWrites", <<App>>, Void)
SetIndexConfiguration ==
    HostAsync("setIndexConfiguration", <<App, Req(Plain)>>, Void)
SetLoggingEnabled == HostAsync("setLoggingEnabled", <<Req(Plain)>>, Void)
SnapshotsInSyncSetup == HostAsync("snapshotsInSyncSetup", <<App>>, Plain)
TransactionCreate ==
    HostAsync("transactionCreate", <<App, Req(Plain), Req(Plain)>>, Plain)
TransactionStoreResult ==
    HostAsync("transactionStoreResult",
              <<Req(Plain), Req(Plain), Opt(Plain)>>, Void)
TransactionGet ==
    HostAsync("transactionGet",
              <<App, Req(Plain), Req(Plain)>>, "PigeonDocumentSnapshot")
DocumentReferenceSet ==
    HostAsync("documentReferenceSet",
              <<App, Req("DocumentReferenceRequest")>>, Void)
DocumentReferenceUpdate ==
    HostAsync("documentReferenceUpdate",
              <<App, Req("DocumentReferenceRequest")>>, Void)
DocumentReferenceGet ==
    HostAsync("documentReferenceGet",
              <<App, Req("DocumentReferenceRequest")>>,
                "PigeonDocumentSnapshot")
DocumentReferenceDelete ==
    HostAsync("documentReferenceDelete",
              <<App, Req("DocumentReferenceRequest")>>, Void)
QueryGet ==
    HostAsync("queryGet",
              <<App, Req(Plain), Req(Plain), Req("PigeonQueryParameters"),
                Req("PigeonGetOptions")>>, "PigeonQuerySnapshot")
AggregateQuery ==
    HostAsync("aggregateQuery",
              <<App, Req(Plain), Req("PigeonQueryParameters"), Req(Plain),
                Req(Plain), Req(Plain)>>, Plain)
WriteBatchCommit == HostAsync("writeBatchCommit", <<App, Req(Plain)>>, Void)
QuerySnapshot ==
    HostAsync("querySnapshot",
              <<App, Req(Plain), Req(Plain), Req("PigeonQueryParameters"),
                Req("PigeonGetOptions"), Req(Plain)>>, Plain)
DocumentReferenceSnapshot ==
    HostAsync("documentReferenceSnapshot",
              <<App, Req("DocumentReferenceRequest"), Req(Plain)>>, Plain)

\* Those that RegisterWithRegistrar sets up.
Channels ==
    {LoadBundle, NamedQueryGet, ClearPersistence, DisableNetwork,
     EnableNetwork, Terminate, WaitForPendingWrites, SetIndexConfiguration,
     SetLoggingEnabled, SnapshotsInSyncSetup, TransactionCreate,
     TransactionStoreResult, TransactionGet, DocumentReferenceSet,
     DocumentReferenceUpdate, DocumentReferenceGet, DocumentReferenceDelete,
     QueryGet, AggregateQuery, WriteBatchCommit, QuerySnapshot,
     DocumentReferenceSnapshot}
=============================================================================
