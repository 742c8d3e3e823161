-------------------------- MODULE FlatpakChannels ---------------------------
\* The channels and the codec of FlatpakApi of flatpak (messages.g.cc).
EXTENDS PigeonChannels

RemoteClass ==
    Class("Remote",
          <<Must, Must, Must, Must, Must, Must, Must, Must, Must, Must, Must,
            Must, Must, Must, Must, Must, Must, Must, Must>>,
          <<Must, Must, Must, Must, Must, Must, Must, Must, Must, Must, Must,
            Must, Must, Must, Must, Must, Must, Must, Must>>)
ApplicationClass ==
    Class("Application",
          <<Must, Must, Must, Must, Must, Must, Must, Must, Must, Must, Must,
            Must, Must, Must, Must, Must, Must>>,
          <<Must, Must, Must, Must, Must, Must, Must, Must, Must, Must, Must,
            Must, Must, Must, Must, Must, Must>>)
InstallationClass ==
    Class("Installation",
          <<Must, Must, Must, Must, Must, Must, Must, Must, Must>>,
          <<Must, Must, Must, Must, Must, Must, Must, Must, Must>>)

Classes ==
    {RemoteClass, ApplicationClass, InstallationClass}

HostReadValueOfType ==
    Types(129, <<"Remote", "Application", "Installation">>)

HostWriteValue ==
    Types(129, <<"Remote", "Application", "Installation">>)

HostSync(name, args, result) == Sync("Flatpak", name, args, result)
HostAsync(name, args, result) == Async("Flatpak", name, args, result)

\* FlatpakApi
GetVersion == HostSync("getVersion", <<>>, Plain)
GetDefaultArch == HostSync("getDefaultArch", <<>>, Plain)
GetSupportedArches == HostSync("getSupportedArches", <<>>, Plain)
GetSystemInstallations == HostSync("getSystemInstallations", <<>>, Plain)
GetUserInstallation == HostSync("getUserInstallation", <<>>, "Installation")
RemoteAdd == HostSync("remoteAdd", <<Req("Remote")>>, Plain)
RemoteRemove == HostSync("remoteRemove", <<Req(Plain)>>, Plain)
GetApplicationsInstalled == HostSync("getApplicationsInstalled", <<>>, Plain)
GetApplicationsUpdate == HostSync("getApplicationsUpdate", <<>>, Plain)
GetApplicationsRemote ==
    HostSync("getApplicationsRemote", <<Req(Plain)>>, Plain)
ApplicationInstall == HostAsync("applicationInstall", <<Req(Plain)>>, Plain)
ApplicationUninstall ==
    HostAsync("applicationUninstall", <<Req(Plain)>>, Plain)
ApplicationUpdate == HostAsync("applicationUpdate", <<Req(Plain)>>, Plain)
ApplicationStart == HostAsync("applicationStart", <<Req(Plain)>>, Plain)
ApplicationStop == HostSync("applicationStop", <<Req(Plain)>>, Plain)
SetupEventChannel == HostAsync("setupEventChannel", <<Req(Plain)>>, Void)

\* Those that RegisterWithRegistrar sets up.
Channels ==
    {GetVersion, GetDefaultArch, GetSupportedArches, GetSystemInstallations,
     GetUserInstallation, RemoteAdd, RemoteRemove, GetApplicationsInstalled,
     GetApplicationsUpdate, GetApplicationsRemote, ApplicationInstall,
     ApplicationUninstall, ApplicationUpdate, ApplicationStart,
     ApplicationStop, SetupEventChannel}
=============================================================================
