CONSTANTS
    Clients = {c1, c2}
    ServerIds = {s1}
    Dirs = {"download"}
    Sizes = {1, 3}
    Names = {n1, n2}
    InitialFiles = {n1}
    RequestKeys = {k1}
    FixedKey = k1
    MaxTransfers = 2
    MaxServerCreates = 2
    MaxConcurrentClient = 1
    MaxConcurrentServer = 2
    MaxPendingClientQuota = 3
    MaxPendingServerQuota = 2
    PathNames = {"a", "b"}
    Areas = {"channel", "avatar"}
    MaxPathLen = 5
SPECIFICATION Spec
INVARIANT TypeOK
INVARIANT LimitsRespected
INVARIANT UserPathConfined
PROPERTY DroppedTransferReleased
