CONSTANTS
    w = w
    c1 = c1
    c2 = c2
    st1 = st1
    st2 = st2
    Whisperer = w
    Clients <- MC_Clients
    Known <- MC_Known
    Connected <- MC_Connected
    Streams <- MC_Streams
    MaxSessions = 2
    IdleSecs = 1
    MaxOps = 4
SPECIFICATION Spec
INVARIANTS
    TypeOK
    SinksAreTargets
PROPERTIES
    EndedSessionCleared
