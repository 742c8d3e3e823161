--------------------------- MODULE PluginChannels ---------------------------
(***************************************************************************)
(* The channels of all plugins with a host API, and what their methods do   *)
(* with the reply and with arguments that are absent.                      *)
(***************************************************************************)
EXTENDS PigeonChannels

Camera       == INSTANCE CameraChannels
Firestore    == INSTANCE FirestoreChannels
Auth         == INSTANCE AuthChannels
Firebase     == INSTANCE FirebaseChannels
Flatpak      == INSTANCE FlatpakChannels
VideoPlayer  == INSTANCE VideoPlayerChannels
WebView      == INSTANCE WebViewChannels

Channels ==
    UNION {Camera!Channels, Firestore!Channels, Auth!Channels,
           Firebase!CoreChannels, Firebase!StorageChannels, Flatpak!Channels,
           Firebase!GoogleChannels, VideoPlayer!Channels, WebView!Channels}

Unheard == Auth!Unheard \cup WebView!Unheard

Classes ==
    UNION {Camera!Classes, Firestore!Classes, Auth!Classes,
           Firebase!CoreClasses, Firebase!StorageClasses, Flatpak!Classes,
           Firebase!GoogleClasses, WebView!Classes}

Reads ==
    [Camera                         |-> Camera!HostReadValueOfType,
     FirebaseFirestoreHostApi       |-> Firestore!HostReadValueOfType,
     FirebaseAuthHostApi            |-> Auth!HostReadValueOfType,
     FirebaseAuthUserHostApi        |-> Auth!UserHostReadValueOfType,
     MultiFactorUserHostApi         |-> Auth!MultiFactorUserReadValueOfType,
     MultiFactoResolverHostApi      |-> Auth!MultiFactoResolverReadValueOfType,
     MultiFactorTotpHostApi         |-> Auth!MultiFactorTotpReadValueOfType,
     GenerateInterfaces             |-> Auth!GenerateInterfacesReadValueOfType,
     FirebaseCoreHostApi            |-> Firebase!CoreReadValueOfType,
     FirebaseStorageHostApi         |-> Firebase!StorageReadValueOfType,
     Flatpak                        |-> Flatpak!HostReadValueOfType,
     GoogleSignIn                   |-> Firebase!GoogleReadValueOfType,
     WebViewHostApi                 |-> WebView!HostReadValueOfType,
     Standard                       |-> StandardTypes]

Writes ==
    [Camera                         |-> Camera!HostWriteValue,
     FirebaseFirestoreHostApi       |-> Firestore!HostWriteValue,
     FirebaseAuthHostApi            |-> Auth!HostWriteValue,
     FirebaseAuthUserHostApi        |-> Auth!UserHostWriteValue,
     MultiFactorUserHostApi         |-> Auth!MultiFactorUserWriteValue,
     MultiFactoResolverHostApi      |-> Auth!MultiFactoResolverWriteValue,
     MultiFactorTotpHostApi         |-> Auth!MultiFactorTotpWriteValue,
     GenerateInterfaces             |-> Auth!GenerateInterfacesWriteValue,
     FirebaseCoreHostApi            |-> Firebase!CoreWriteValue,
     FirebaseStorageHostApi         |-> Firebase!StorageWriteValue,
     Flatpak                        |-> Flatpak!HostWriteValue,
     GoogleSignIn                   |-> Firebase!GoogleWriteValue,
     WebViewHostApi                 |-> WebView!HostWriteValue,
     Standard                       |-> StandardTypes]

\* The methods that lose the reply: always, or as the comment says.
Drops ==
    {Firebase!SetMaxOperationRetryTime, Firebase!SetMaxUploadRetryTime,
     Firebase!SetMaxDownloadRetryTime, Firebase!UseStorageEmulator,
     Firebase!OptionsFromResource,
     Firebase!SignInSilently, Firebase!SignIn,
     Firebase!GetAccessToken, Firebase!SignOut,
     Firebase!Disconnect, Firebase!ClearAuthCache,
     Firebase!RequestScopes,
     WebView!WebView_EvaluateJavascript,
     Camera!StopVideoRecording,
     Camera!Initialize,                 \* of a texture that does not exist
     Auth!ReauthenticateWithCredential} \* when it succeeds

\* The arguments whose null pointer the method dereferences: the pointers that
\* the web view only logs, the bucket of a storage reference, and the commands
\* of a transaction, which a failed one comes without.
Dereferences ==
    {<<WebView!WebView_LoadData, 3>>, <<WebView!WebView_LoadData, 4>>,
     <<WebView!WebView_LoadDataWithBaseUrl, 2>>,
     <<WebView!WebView_LoadDataWithBaseUrl, 4>>,
     <<WebView!WebView_LoadDataWithBaseUrl, 5>>,
     <<WebView!WebView_LoadDataWithBaseUrl, 6>>,
     <<WebView!WebSettings_SetUserAgentString, 2>>,
     <<Firebase!GetReferencebyPath, 3>>,
     <<Firestore!TransactionStoreResult, 3>>}
=============================================================================
