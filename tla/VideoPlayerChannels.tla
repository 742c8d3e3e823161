------------------------ MODULE VideoPlayerChannels -------------------------
\* The channels and the codec of LinuxVideoPlayerApi of video_player_linux
\* (messages.g.cc).
EXTENDS PigeonChannels

StandardSync(name, args, result) == Sync("Standard", name, args, result)

\* LinuxVideoPlayerApi
Initialize == StandardSync("initialize", <<>>, Void)
Create == StandardSync("create", <<Opt(Plain), Opt(Plain), Req(Plain)>>, Plain)
Dispose == StandardSync("dispose", <<Req(Plain)>>, Void)
SetLooping == StandardSync("setLooping", <<Req(Plain), Req(Plain)>>, Void)
SetVolume == StandardSync("setVolume", <<Req(Plain), Req(Plain)>>, Void)
SetPlaybackSpeed ==
    StandardSync("setPlaybackSpeed", <<Req(Plain), Req(Plain)>>, Void)
Play == StandardSync("play", <<Req(Plain)>>, Void)
GetPosition == StandardSync("getPosition", <<Req(Plain)>>, Plain)
SeekTo == StandardSync("seekTo", <<Req(Plain), Req(Plain)>>, Void)
Pause == StandardSync("pause", <<Req(Plain)>>, Void)
GetAudioTrackCount == StandardSync("getAudioTrackCount", <<Req(Plain)>>, Plain)
SetAudioTrack ==
    StandardSync("setAudioTrack", <<Req(Plain), Req(Plain)>>, Void)
SetOutputChannels ==
    StandardSync("setOutputChannels", <<Req(Plain), Req(Plain)>>, Void)
SetMute == StandardSync("setMute", <<Req(Plain), Req(Plain)>>, Void)
IsAudioOnly == StandardSync("isAudioOnly", <<Req(Plain)>>, Plain)
SetScaleMethod ==
    StandardSync("setScaleMethod", <<Req(Plain), Req(Plain)>>, Void)
SetAVOffset == StandardSync("setAVOffset", <<Req(Plain), Req(Plain)>>, Void)
SetSubtitlesEnabled ==
    StandardSync("setSubtitlesEnabled", <<Req(Plain), Req(Plain)>>, Void)
GetSubtitleTrackCount ==
    StandardSync("getSubtitleTrackCount", <<Req(Plain)>>, Plain)
SetSubtitleTrack ==
    StandardSync("setSubtitleTrack", <<Req(Plain), Req(Plain)>>, Void)
SetSubtitleUri ==
    StandardSync("setSubtitleUri", <<Req(Plain), Req(Plain)>>, Void)
SetSubtitleFont ==
    StandardSync("setSubtitleFont", <<Req(Plain), Req(Plain)>>, Void)
SetChannelMixPreset ==
    StandardSync("setChannelMixPreset", <<Req(Plain), Req(Plain)>>, Void)
SetEqualizer == StandardSync("setEqualizer", <<Req(Plain), Req(Plain)>>, Void)
SetVideoBalance ==
    StandardSync("setVideoBalance",
                 <<Req(Plain), Req(Plain), Req(Plain), Req(Plain),
                   Req(Plain)>>, Void)
SetAudioPassthrough ==
    StandardSync("setAudioPassthrough", <<Req(Plain), Req(Plain)>>, Void)
SetChannelMixMatrix ==
    StandardSync("setChannelMixMatrix",
                 <<Req(Plain), Req(Plain), Req(Plain), Req(Plain)>>, Void)

\* Those that RegisterWithRegistrar sets up.
Channels ==
    {Initialize, Create, Dispose, SetLooping, SetVolume, SetPlaybackSpeed,
     Play, GetPosition, SeekTo, Pause, GetAudioTrackCount, SetAudioTrack,
     SetOutputChannels, SetMute, IsAudioOnly, SetScaleMethod, SetAVOffset,
     SetSubtitlesEnabled, GetSubtitleTrackCount, SetSubtitleTrack,
     SetSubtitleUri, SetSubtitleFont, SetChannelMixPreset, SetEqualizer,
     SetVideoBalance, SetAudioPassthrough, SetChannelMixMatrix}
=============================================================================
