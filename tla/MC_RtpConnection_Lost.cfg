SPECIFICATION Spec
CONSTANTS
    MaxGets = 2
    RetCapacity = 2
    Kinds = {"audio"}
    SenderBatch = 2
    MaxSenders = 5
    MaxBorrows = 2
    MaxTerminations = 1
    MaxResets = 1
    SeqNoRange = 4
    StartSeqs = {0, 3}
    VirtualSeqNos = {0, 1, 2, 3}
    PtA = 96
    PtB = 97
    MaxCalls = 4
    MaxMediaLines = 2
INVARIANT ReceiverConserved
