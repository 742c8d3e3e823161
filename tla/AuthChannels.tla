---------------------------- MODULE AuthChannels ----------------------------
\* The channels and the codec of the host APIs of firebase_auth
\* (messages.g.cc).
EXTENDS PigeonChannels

PigeonMultiFactorSessionClass ==
    Class("PigeonMultiFactorSession",
          <<Must>>,
          <<Must>>)
PigeonPhoneMultiFactorAssertionClass ==
    Class("PigeonPhoneMultiFactorAssertion",
          <<Must, Must>>,
          <<Must, Must>>)
PigeonMultiFactorInfoClass ==
    Class("PigeonMultiFactorInfo",
          <<May, Must, May, Must, May>>,
          <<May, Must, May, Must, May>>)
AuthPigeonFirebaseAppClass ==
    Class("AuthPigeonFirebaseApp",
          <<Must, May>>,
          <<Must, May>>)
PigeonActionCodeInfoDataClass ==
    Class("PigeonActionCodeInfoData",
          <<May, May>>,
          <<May, May>>)
PigeonActionCodeInfoClass ==
    Class("PigeonActionCodeInfo",
          <<Must, Part("PigeonActionCodeInfoData")>>,
          <<Must, Part("PigeonActionCodeInfoData")>>)
PigeonAdditionalUserInfoClass ==
    Class("PigeonAdditionalUserInfo",
          <<Must, May, May, May, May>>,
          <<Must, May, May, May, May>>)
PigeonAuthCredentialClass ==
    Class("PigeonAuthCredential",
          <<Must, Must, Must, May>>,
          <<Must, Must, Must, May>>)
PigeonUserInfoClass ==
    Class("PigeonUserInfo",
          <<Must, May, May, May, May, Must, Must, May, May, May, May, May>>,
          <<Must, May, May, May, May, Must, Must, May, May, May, May, May>>)
PigeonUserDetailsClass ==
    Class("PigeonUserDetails",
          <<Part("PigeonUserInfo"), Must>>,
          <<Part("PigeonUserInfo"), Must>>)
PigeonUserCredentialClass ==
    Class("PigeonUserCredential",
          <<OptPart("PigeonUserDetails"), OptPart("PigeonAdditionalUserInfo"),
            OptPart("PigeonAuthCredential")>>,
          <<OptPart("PigeonUserDetails"), OptPart("PigeonAdditionalUserInfo"),
            OptPart("PigeonAuthCredential")>>)
PigeonActionCodeSettingsClass ==
    Class("PigeonActionCodeSettings",
          <<Must, May, Must, May, May, Must, May>>,
          <<Must, May, Must, May, May, Must, May>>)
PigeonFirebaseAuthSettingsClass ==
    Class("PigeonFirebaseAuthSettings",
          <<Must, May, May, May, May>>,
          <<Must, May, May, May, May>>)
PigeonSignInProviderClass ==
    Class("PigeonSignInProvider",
          <<Must, May, May>>,
          <<Must, May, May>>)
PigeonVerifyPhoneNumberRequestClass ==
    Class("PigeonVerifyPhoneNumberRequest",
          <<May, Must, May, May, May, May>>,
          <<May, Must, May, May, May, May>>)
PigeonIdTokenResultClass ==
    Class("PigeonIdTokenResult",
          <<May, May, May, May, May, May, May>>,
          <<May, May, May, May, May, May, May>>)
PigeonUserProfileClass ==
    Class("PigeonUserProfile",
          <<May, May, Must, Must>>,
          <<May, May, Must, Must>>)
PigeonTotpSecretClass ==
    Class("PigeonTotpSecret",
          <<May, May, May, May, Must>>,
          <<May, May, May, May, Must>>)

Classes ==
    {PigeonMultiFactorSessionClass, PigeonPhoneMultiFactorAssertionClass,
     PigeonMultiFactorInfoClass, AuthPigeonFirebaseAppClass,
     PigeonActionCodeInfoDataClass, PigeonActionCodeInfoClass,
     PigeonAdditionalUserInfoClass, PigeonAuthCredentialClass,
     PigeonUserInfoClass, PigeonUserDetailsClass, PigeonUserCredentialClass,
     PigeonActionCodeSettingsClass, PigeonFirebaseAuthSettingsClass,
     PigeonSignInProviderClass, PigeonVerifyPhoneNumberRequestClass,
     PigeonIdTokenResultClass, PigeonUserProfileClass, PigeonTotpSecretClass}

HostReadValueOfType ==
    Types(128, <<"AuthPigeonFirebaseApp", "PigeonActionCodeInfo",
                 "PigeonActionCodeInfoData", "PigeonActionCodeSettings",
                 "PigeonAdditionalUserInfo", "PigeonAuthCredential",
                 "PigeonFirebaseAuthSettings", "PigeonIdTokenResult",
                 "PigeonMultiFactorInfo", "PigeonMultiFactorSession",
                 "PigeonPhoneMultiFactorAssertion", "PigeonSignInProvider",
                 "PigeonTotpSecret", "PigeonUserCredential",
                 "PigeonUserDetails", "PigeonUserInfo", "PigeonUserProfile",
                 "PigeonVerifyPhoneNumberRequest">>)

HostWriteValue ==
    Types(128, <<"AuthPigeonFirebaseApp", "PigeonActionCodeInfo",
                 "PigeonActionCodeInfoData", "PigeonActionCodeSettings",
                 "PigeonAdditionalUserInfo", "PigeonAuthCredential",
                 "PigeonFirebaseAuthSettings", "PigeonIdTokenResult",
                 "PigeonMultiFactorInfo", "PigeonMultiFactorSession",
                 "PigeonPhoneMultiFactorAssertion", "PigeonSignInProvider",
                 "PigeonTotpSecret", "PigeonUserCredential",
                 "PigeonUserDetails", "PigeonUserInfo", "PigeonUserProfile",
                 "PigeonVerifyPhoneNumberRequest">>)

HostAsync(name, args, result) ==
    Async("FirebaseAuthHostApi", name, args, result)

UserHostReadValueOfType ==
    Types(128, <<"AuthPigeonFirebaseApp", "PigeonActionCodeInfo",
                 "PigeonActionCodeInfoData", "PigeonActionCodeSettings",
                 "PigeonAdditionalUserInfo", "PigeonAuthCredential",
                 "PigeonFirebaseAuthSettings", "PigeonIdTokenResult",
                 "PigeonMultiFactorInfo", "PigeonMultiFactorSession",
                 "PigeonPhoneMultiFactorAssertion", "PigeonSignInProvider",
                 "PigeonTotpSecret", "PigeonUserCredential",
                 "PigeonUserDetails", "PigeonUserInfo", "PigeonUserProfile",
                 "PigeonVerifyPhoneNumberRequest">>)

UserHostWriteValue ==
    Types(128, <<"AuthPigeonFirebaseApp", "PigeonActionCodeInfo",
                 "PigeonActionCodeInfoData", "PigeonActionCodeSettings",
                 "PigeonAdditionalUserInfo", "PigeonAuthCredential",
                 "PigeonFirebaseAuthSettings", "PigeonIdTokenResult",
                 "PigeonMultiFactorInfo", "PigeonMultiFactorSession",
                 "PigeonPhoneMultiFactorAssertion", "PigeonSignInProvider",
                 "PigeonTotpSecret", "PigeonUserCredential",
                 "PigeonUserDetails", "PigeonUserInfo", "PigeonUserProfile",
                 "PigeonVerifyPhoneNumberRequest">>)

UserHostAsync(name, args, result) ==
    Async("FirebaseAuthUserHostApi", name, args, result)

MultiFactorUserReadValueOfType ==
    Types(128, <<"AuthPigeonFirebaseApp", "PigeonMultiFactorInfo",
                 "PigeonMultiFactorSession",
                 "PigeonPhoneMultiFactorAssertion">>)

MultiFactorUserWriteValue ==
    Types(128, <<"AuthPigeonFirebaseApp", "PigeonMultiFactorInfo",
                 "PigeonMultiFactorSession",
                 "PigeonPhoneMultiFactorAssertion">>)

MultiFactorUserAsync(name, args, result) ==
    Async("MultiFactorUserHostApi", name, args, result)

MultiFactoResolverReadValueOfType ==
    Types(128, <<"PigeonAdditionalUserInfo", "PigeonAuthCredential",
                 "PigeonPhoneMultiFactorAssertion", "PigeonUserCredential",
                 "PigeonUserDetails", "PigeonUserInfo">>)

MultiFactoResolverWriteValue ==
    Types(128, <<"PigeonAdditionalUserInfo", "PigeonAuthCredential",
                 "PigeonPhoneMultiFactorAssertion", "PigeonUserCredential",
                 "PigeonUserDetails", "PigeonUserInfo">>)

MultiFactoResolverAsync(name, args, result) ==
    Async("MultiFactoResolverHostApi", name, args, result)

MultiFactorTotpReadValueOfType ==
    Types(128, <<"PigeonTotpSecret">>)

MultiFactorTotpWriteValue ==
    Types(128, <<"PigeonTotpSecret">>)

MultiFactorTotpAsync(name, args, result) ==
    Async("MultiFactorTotpHostApi", name, args, result)

StandardAsync(name, args, result) == Async("Standard", name, args, result)

GenerateInterfacesReadValueOfType ==
    Types(128, <<"PigeonMultiFactorInfo">>)

GenerateInterfacesWriteValue ==
    Types(128, <<"PigeonMultiFactorInfo">>)

GenerateInterfacesSync(name, args, result) ==
    Sync("GenerateInterfaces", name, args, result)

App == Req("AuthPigeonFirebaseApp")

\* FirebaseAuthHostApi
RegisterIdTokenListener == HostAsync("registerIdTokenListener", <<App>>, Plain)
RegisterAuthStateListener ==
    HostAsync("registerAuthStateListener", <<App>>, Plain)
UseEmulator == HostAsync("useEmulator", <<App, Req(Plain), Req(Plain)>>, Void)
ApplyActionCode == HostAsync("applyActionCode", <<App, Req(Plain)>>, Void)
CheckActionCode ==
    HostAsync("checkActionCode", <<App, Req(Plain)>>, "PigeonActionCodeInfo")
ConfirmPasswordReset ==
    HostAsync("confirmPasswordReset", <<App, Req(Plain), Req(Plain)>>, Void)
CreateUserWithEmailAndPassword ==
    HostAsync("createUserWithEmailAndPassword",
              <<App, Req(Plain), Req(Plain)>>, "PigeonUserCredential")
SignInAnonymously ==
    HostAsync("signInAnonymously", <<App>>, "PigeonUserCredential")
SignInWithCredential ==
    HostAsync("signInWithCredential",
              <<App, Req(Plain)>>, "PigeonUserCredential")
SignInWithCustomToken ==
    HostAsync("signInWithCustomToken",
              <<App, Req(Plain)>>, "PigeonUserCredential")
SignInWithEmailAndPassword ==
    HostAsync("signInWithEmailAndPassword",
              <<App, Req(Plain), Req(Plain)>>, "PigeonUserCredential")
SignInWithEmailLink ==
    HostAsync("signInWithEmailLink",
              <<App, Req(Plain), Req(Plain)>>, "PigeonUserCredential")
SignInWithProvider ==
    HostAsync("signInWithProvider",
              <<App, Req("PigeonSignInProvider")>>, "PigeonUserCredential")
SignOut == HostAsync("signOut", <<App>>, Void)
FetchSignInMethodsForEmail ==
    HostAsync("fetchSignInMethodsForEmail", <<App, Req(Plain)>>, Plain)
SendPasswordResetEmail ==
    HostAsync("sendPasswordResetEmail",
              <<App, Req(Plain), Cast("PigeonActionCodeSettings")>>, Void)
SendSignInLinkToEmail ==
    HostAsync("sendSignInLinkToEmail",
              <<App, Req(Plain), Req("PigeonActionCodeSettings")>>, Void)
SetLanguageCode == HostAsync("setLanguageCode", <<App, Opt(Plain)>>, Plain)
SetSettings ==
    HostAsync("setSettings", <<App, Req("PigeonFirebaseAuthSettings")>>, Void)
VerifyPasswordResetCode ==
    HostAsync("verifyPasswordResetCode", <<App, Req(Plain)>>, Plain)
VerifyPhoneNumber ==
    HostAsync("verifyPhoneNumber",
              <<App, Req("PigeonVerifyPhoneNumberRequest")>>, Plain)
RevokeTokenWithAuthorizationCode ==
    HostAsync("revokeTokenWithAuthorizationCode", <<App, Req(Plain)>>, Void)

\* FirebaseAuthUserHostApi
Delete == UserHostAsync("delete", <<App>>, Void)
GetIdToken ==
    UserHostAsync("getIdToken", <<App, Req(Plain)>>, "PigeonIdTokenResult")
LinkWithCredential ==
    UserHostAsync("linkWithCredential",
                  <<App, Req(Plain)>>, "PigeonUserCredential")
LinkWithProvider ==
    UserHostAsync("linkWithProvider",
                  <<App, Req("PigeonSignInProvider")>>,
                    "PigeonUserCredential")
ReauthenticateWithCredential ==
    UserHostAsync("reauthenticateWithCredential",
                  <<App, Req(Plain)>>, "PigeonUserCredential")
ReauthenticateWithProvider ==
    UserHostAsync("reauthenticateWithProvider",
                  <<App, Req("PigeonSignInProvider")>>,
                    "PigeonUserCredential")
Reload == UserHostAsync("reload", <<App>>, "PigeonUserDetails")
SendEmailVerification ==
    UserHostAsync("sendEmailVerification",
                  <<App, Cast("PigeonActionCodeSettings")>>, Void)
Unlink == UserHostAsync("unlink", <<App, Req(Plain)>>, "PigeonUserCredential")
UpdateEmail ==
    UserHostAsync("updateEmail", <<App, Req(Plain)>>, "PigeonUserDetails")
UpdatePassword ==
    UserHostAsync("updatePassword", <<App, Req(Plain)>>, "PigeonUserDetails")
UpdatePhoneNumber ==
    UserHostAsync("updatePhoneNumber",
                  <<App, Req(Plain)>>, "PigeonUserDetails")
UpdateProfile ==
    UserHostAsync("updateProfile",
                  <<App, Req("PigeonUserProfile")>>, "PigeonUserDetails")
VerifyBeforeUpdateEmail ==
    UserHostAsync("verifyBeforeUpdateEmail",
                  <<App, Req(Plain), Cast("PigeonActionCodeSettings")>>, Void)

\* MultiFactorUserHostApi
EnrollPhone ==
    MultiFactorUserAsync("enrollPhone",
                         <<App, Req("PigeonPhoneMultiFactorAssertion"),
                           Opt(Plain)>>, Void)
EnrollTotp ==
    MultiFactorUserAsync("enrollTotp", <<App, Req(Plain), Opt(Plain)>>, Void)
GetSession ==
    MultiFactorUserAsync("getSession", <<App>>, "PigeonMultiFactorSession")
Unenroll == MultiFactorUserAsync("unenroll", <<App, Req(Plain)>>, Void)
GetEnrolledFactors ==
    MultiFactorUserAsync("getEnrolledFactors", <<App>>, Plain)

\* MultiFactoResolverHostApi
ResolveSignIn ==
    MultiFactoResolverAsync("resolveSignIn",
                            <<Req(Plain),
                              Cast("PigeonPhoneMultiFactorAssertion"),
                              Opt(Plain)>>, "PigeonUserCredential")

\* MultiFactorTotpHostApi
GenerateSecret ==
    MultiFactorTotpAsync("generateSecret", <<Req(Plain)>>, "PigeonTotpSecret")
GetAssertionForEnrollment ==
    MultiFactorTotpAsync("getAssertionForEnrollment",
                         <<Req(Plain), Req(Plain)>>, Plain)
GetAssertionForSignIn ==
    MultiFactorTotpAsync("getAssertionForSignIn",
                         <<Req(Plain), Req(Plain)>>, Plain)

\* MultiFactorTotpSecretHostApi
GenerateQrCodeUrl ==
    StandardAsync("generateQrCodeUrl",
                  <<Req(Plain), Opt(Plain), Opt(Plain)>>, Plain)
OpenInOtpApp == StandardAsync("openInOtpApp", <<Req(Plain), Req(Plain)>>, Void)

\* GenerateInterfaces
PigeonInterface ==
    GenerateInterfacesSync("pigeonInterface",
                           <<Req("PigeonMultiFactorInfo")>>, Void)

\* Those that RegisterWithRegistrar sets up.
Channels ==
    {RegisterIdTokenListener, RegisterAuthStateListener, UseEmulator,
     ApplyActionCode, CheckActionCode, ConfirmPasswordReset,
     CreateUserWithEmailAndPassword, SignInAnonymously, SignInWithCredential,
     SignInWithCustomToken, SignInWithEmailAndPassword, SignInWithEmailLink,
     SignInWithProvider, SignOut, FetchSignInMethodsForEmail,
     SendPasswordResetEmail, SendSignInLinkToEmail, SetLanguageCode,
     SetSettings, VerifyPasswordResetCode, VerifyPhoneNumber,
     RevokeTokenWithAuthorizationCode, Delete, GetIdToken, LinkWithCredential,
     LinkWithProvider, ReauthenticateWithCredential,
     ReauthenticateWithProvider, Reload, SendEmailVerification, Unlink,
     UpdateEmail, UpdatePassword, UpdatePhoneNumber, UpdateProfile,
     VerifyBeforeUpdateEmail}

\* Those of the APIs that it sets up no handler for.
Unheard ==
    {EnrollPhone, EnrollTotp, GetSession, Unenroll, GetEnrolledFactors,
     ResolveSignIn, GenerateSecret, GetAssertionForEnrollment,
     GetAssertionForSignIn, GenerateQrCodeUrl, OpenInOtpApp, PigeonInterface}
=============================================================================
