\* Two clients, one stream, one video mode: joins, leaves, publishing,
\* replacing and stopping broadcasts against the background tasks.
CONSTANTS
    c1 = c1  c2 = c2  c3 = c3  s1 = s1  s2 = s2  screen = screen
    NoStream = NoStream  NoBroadcast = NoBroadcast  Unknown = Unknown
    Clients <- MC_Clients2
    Streams <- MC_Streams1
    VideoModes <- MC_Modes
    MaxInst = 2
    MaxOps = 5
SPECIFICATION Spec
INVARIANTS TypeOK DirectoryTaskQueued
PROPERTIES DirectoryReachesNewMember MembersEventuallySubscribed
