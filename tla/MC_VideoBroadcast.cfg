\* Two watchers; PLI interval 2, keyframe interval 3, timeout 4, clock 9.
CONSTANTS
    v1 = v1
    v2 = v2
    None = None
    Clients <- MC_Clients
    PliInterval = 2
    KeyframeInterval = 3
    VideoTimeout = 4
    MaxTime = 9
    Bitrates = {1}
    MaxVideoBitrate = 1
SPECIFICATION Spec
INVARIANTS
    TypeOK
    WatchersNotified
    Vp8KeyframeDetected
PROPERTIES
    PliRequestServed
