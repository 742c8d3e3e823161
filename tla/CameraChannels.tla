--------------------------- MODULE CameraChannels ---------------------------
\* The channels and the codec of CameraApi of camera_pipewire (messages.g.cc).
EXTENDS PigeonChannels

PlatformMediaSettingsClass ==
    Class("PlatformMediaSettings",
          <<Req("PlatformResolutionPreset"), May, May, May, Must>>,
          <<Req("PlatformResolutionPreset"), May, May, May, Must>>)
PlatformSizeClass ==
    Class("PlatformSize",
          <<Must, Must>>,
          <<Must, Must>>)

Classes ==
    {PlatformMediaSettingsClass, PlatformSizeClass}

\* Mutant: a resolution is left the number it was written as.
HostReadUncast ==
    Types(129, <<"PlatformMediaSettings", "PlatformSize", "int64_t">>)

HostReadValueOfType ==
    Types(129, <<"PlatformMediaSettings", "PlatformSize",
                 "PlatformResolutionPreset">>)

\* Mutant: two types have the bytes of each other.
HostWriteSwapped ==
    Types(129, <<"PlatformSize", "PlatformMediaSettings",
                 "PlatformResolutionPreset">>)

HostWriteValue ==
    Types(129, <<"PlatformMediaSettings", "PlatformSize",
                 "PlatformResolutionPreset">>)

HostSync(name, args, result) == Sync("Camera", name, args, result)
HostAsync(name, args, result) == Async("Camera", name, args, result)

\* CameraApi
GetAvailableCameras == HostSync("getAvailableCameras", <<>>, Plain)
Create ==
    HostAsync("create", <<Req(Plain), Req("PlatformMediaSettings")>>, Plain)
Initialize == HostAsync("initialize", <<Req(Plain)>>, "PlatformSize")
Dispose == HostSync("dispose", <<Req(Plain)>>, Void)
TakePicture == HostAsync("takePicture", <<Req(Plain)>>, Plain)
StartVideoRecording == HostAsync("startVideoRecording", <<Req(Plain)>>, Void)
StopVideoRecording == HostAsync("stopVideoRecording", <<Req(Plain)>>, Plain)
PausePreview == HostAsync("pausePreview", <<Req(Plain)>>, Void)
ResumePreview == HostAsync("resumePreview", <<Req(Plain)>>, Void)

\* Those that RegisterWithRegistrar sets up.
Channels ==
    {GetAvailableCameras, Create, Initialize, Dispose, TakePicture,
     StartVideoRecording, StopVideoRecording, PausePreview, ResumePreview}
=============================================================================
