-------------------------- MODULE FirebaseChannels --------------------------
\* The channels and the codecs of the host APIs of firebase_core, firebase_storage
\* and google_sign_in (messages.g.cc of each).
EXTENDS PigeonChannels

-----------------------------------------------------------------------------
(* firebase_core *)

PigeonFirebaseOptionsClass ==
    Class("PigeonFirebaseOptions",
          <<Must, Must, Must, Must, May, May, May, May, May, May, May, May,
            May, May>>,
          <<May, May, May, May, May, May, May, May, May, May, May, May, May,
            May>>)
PigeonInitializeResponseClass ==
    Class("PigeonInitializeResponse",
          <<Must, Part("PigeonFirebaseOptions"), May, Must>>,
          <<May, OptPart("PigeonFirebaseOptions"), May, May>>)

CoreClasses ==
    {PigeonFirebaseOptionsClass, PigeonInitializeResponseClass}

CoreReadValueOfType ==
    Types(128, <<"PigeonFirebaseOptions", "PigeonInitializeResponse">>)

CoreWriteValue ==
    Types(128, <<"PigeonFirebaseOptions", "PigeonInitializeResponse">>)

CoreAsync(name, args, result) ==
    Async("FirebaseCoreHostApi", name, args, result)

StandardAsync(name, args, result) == Async("Standard", name, args, result)

\* FirebaseCoreHostApi
InitializeApp ==
    CoreAsync("initializeApp",
              <<Req(Plain), Req("PigeonFirebaseOptions")>>,
                "PigeonInitializeResponse")
InitializeCore == CoreAsync("initializeCore", <<>>, Plain)
OptionsFromResource ==
    CoreAsync("optionsFromResource", <<>>, "PigeonFirebaseOptions")

\* FirebaseAppHostApi
SetAutomaticDataCollectionEnabled ==
    StandardAsync("setAutomaticDataCollectionEnabled",
                  <<Req(Plain), Req(Plain)>>, Void)
SetAutomaticResourceManagementEnabled ==
    StandardAsync("setAutomaticResourceManagementEnabled",
                  <<Req(Plain), Req(Plain)>>, Void)
Delete == StandardAsync("delete", <<Req(Plain)>>, Void)

\* Those that RegisterWithRegistrar sets up.
CoreChannels ==
    {InitializeApp, InitializeCore, OptionsFromResource,
     SetAutomaticDataCollectionEnabled, SetAutomaticResourceManagementEnabled,
     Delete}

-----------------------------------------------------------------------------
(* firebase_storage *)

PigeonStorageFirebaseAppClass ==
    Class("PigeonStorageFirebaseApp",
          <<Must, May, Must>>,
          <<Must, May, Must>>)
PigeonStorageReferenceClass ==
    Class("PigeonStorageReference",
          <<Must, Must, Must>>,
          <<Must, Must, Must>>)
PigeonFullMetaDataClass ==
    Class("PigeonFullMetaData",
          <<May>>,
          <<May>>)
PigeonListOptionsClass ==
    Class("PigeonListOptions",
          <<Must, May>>,
          <<Must, May>>)
PigeonSettableMetadataClass ==
    Class("PigeonSettableMetadata",
          <<May, May, May, May, May, May>>,
          <<May, May, May, May, May, May>>)
PigeonListResultClass ==
    Class("PigeonListResult",
          <<Must, May, Must>>,
          <<Must, May, Must>>)

StorageClasses ==
    {PigeonStorageFirebaseAppClass, PigeonStorageReferenceClass,
     PigeonFullMetaDataClass, PigeonListOptionsClass,
     PigeonSettableMetadataClass, PigeonListResultClass}

StorageReadValueOfType ==
    Types(128, <<"PigeonFullMetaData", "PigeonListOptions",
                 "PigeonListResult", "PigeonSettableMetadata",
                 "PigeonStorageFirebaseApp", "PigeonStorageReference">>)

StorageWriteValue ==
    Types(128, <<"PigeonFullMetaData", "PigeonListOptions",
                 "PigeonListResult", "PigeonSettableMetadata",
                 "PigeonStorageFirebaseApp", "PigeonStorageReference">>)

StorageAsync(name, args, result) ==
    Async("FirebaseStorageHostApi", name, args, result)

App == Req("PigeonStorageFirebaseApp")
Reference == Req("PigeonStorageReference")

\* FirebaseStorageHostApi
GetReferencebyPath ==
    StorageAsync("getReferencebyPath",
                 <<App, Req(Plain), Opt(Plain)>>, "PigeonStorageReference")
SetMaxOperationRetryTime ==
    StorageAsync("setMaxOperationRetryTime", <<App, Req(Plain)>>, Void)
SetMaxUploadRetryTime ==
    StorageAsync("setMaxUploadRetryTime", <<App, Req(Plain)>>, Void)
SetMaxDownloadRetryTime ==
    StorageAsync("setMaxDownloadRetryTime", <<App, Req(Plain)>>, Void)
UseStorageEmulator ==
    StorageAsync("useStorageEmulator", <<App, Req(Plain), Req(Plain)>>, Void)
ReferenceDelete == StorageAsync("referenceDelete", <<App, Reference>>, Void)
ReferenceGetDownloadURL ==
    StorageAsync("referenceGetDownloadURL", <<App, Reference>>, Plain)
ReferenceGetMetaData ==
    StorageAsync("referenceGetMetaData", <<App, Reference>>, "PigeonFullMetaData")
ReferenceList ==
    StorageAsync("referenceList",
                 <<App, Reference, Req("PigeonListOptions")>>,
                   "PigeonListResult")
ReferenceListAll ==
    StorageAsync("referenceListAll", <<App, Reference>>, "PigeonListResult")
ReferenceGetData ==
    StorageAsync("referenceGetData", <<App, Reference, Req(Plain)>>, Plain)
ReferencePutData ==
    StorageAsync("referencePutData",
                 <<App, Reference, Req(Plain), Req("PigeonSettableMetadata"),
                   Req(Plain)>>, Plain)
ReferencePutString ==
    StorageAsync("referencePutString",
                 <<App, Reference, Req(Plain), Req(Plain),
                   Req("PigeonSettableMetadata"), Req(Plain)>>, Plain)
ReferencePutFile ==
    StorageAsync("referencePutFile",
                 <<App, Reference, Req(Plain), Req("PigeonSettableMetadata"),
                   Req(Plain)>>, Plain)
ReferenceDownloadFile ==
    StorageAsync("referenceDownloadFile",
                 <<App, Reference, Req(Plain), Req(Plain)>>, Plain)
ReferenceUpdateMetadata ==
    StorageAsync("referenceUpdateMetadata",
                 <<App, Reference, Req("PigeonSettableMetadata")>>,
                   "PigeonFullMetaData")
TaskPause == StorageAsync("taskPause", <<App, Req(Plain)>>, Plain)
TaskResume == StorageAsync("taskResume", <<App, Req(Plain)>>, Plain)
TaskCancel == StorageAsync("taskCancel", <<App, Req(Plain)>>, Plain)

\* Those that RegisterWithRegistrar sets up.
StorageChannels ==
    {GetReferencebyPath, SetMaxOperationRetryTime, SetMaxUploadRetryTime,
     SetMaxDownloadRetryTime, UseStorageEmulator, ReferenceDelete,
     ReferenceGetDownloadURL, ReferenceGetMetaData, ReferenceList,
     ReferenceListAll, ReferenceGetData, ReferencePutData, ReferencePutString,
     ReferencePutFile, ReferenceDownloadFile, ReferenceUpdateMetadata,
     TaskPause, TaskResume, TaskCancel}

-----------------------------------------------------------------------------
(* google_sign_in *)

InitParamsClass ==
    Class("InitParams",
          <<Must, Req("SignInType"), May, May, May, Must>>,
          <<Must, Req("SignInType"), May, May, May, Must>>)
UserDataClass ==
    Class("UserData",
          <<May, Must, Must, May, May, May>>,
          <<May, Must, Must, May, May, May>>)

GoogleClasses ==
    {InitParamsClass, UserDataClass}

GoogleReadValueOfType ==
    Types(129, <<"int64_t", "InitParams", "UserData">>)

GoogleWriteValue ==
    Types(129, <<"SignInType", "InitParams", "UserData">>)

GoogleSync(name, args, result) == Sync("GoogleSignIn", name, args, result)
GoogleAsync(name, args, result) == Async("GoogleSignIn", name, args, result)

\* GoogleSignInApi
Init == GoogleSync("init", <<Req("InitParams")>>, Void)
SignInSilently == GoogleAsync("signInSilently", <<>>, "UserData")
SignIn == GoogleAsync("signIn", <<>>, "UserData")
GetAccessToken ==
    GoogleAsync("getAccessToken", <<Req(Plain), Req(Plain)>>, Plain)
SignOut == GoogleAsync("signOut", <<>>, Void)
Disconnect == GoogleAsync("disconnect", <<>>, Void)
IsSignedIn == GoogleSync("isSignedIn", <<>>, Plain)
ClearAuthCache == GoogleAsync("clearAuthCache", <<Req(Plain)>>, Void)
RequestScopes == GoogleAsync("requestScopes", <<Req(Plain)>>, Plain)

\* Those that RegisterWithRegistrar sets up.
GoogleChannels ==
    {Init, SignInSilently, SignIn, GetAccessToken, SignOut, Disconnect,
     IsSignedIn, ClearAuthCache, RequestScopes}
=============================================================================
