CONSTANTS
    c1 = c1  c2 = c2  c3 = c3  s1 = s1  s2 = s2  screen = screen
    NoStream = NoStream  NoBroadcast = NoBroadcast  Unknown = Unknown
    Clients <- MC_Clients2
    Streams <- MC_Streams1
    VideoModes <- MC_NoModes
    MaxInst = 2
    MaxOps = 5
SPECIFICATION Spec
INVARIANT AudioMapFaithful
