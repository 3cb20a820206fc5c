CONSTANTS
    Conns = {c1, c2, c3}
    QueueCapacity = 1
    FileSizes = {0, 1, 3}
    MaxMediaBytes = 1
    RingSize = 2
    HistoryLimit = 2
    MaxLine = 2
    MaxBytes = 5
    Targets = {2, 3, 4}
    ReadSizes = {1, 2}
SPECIFICATION Spec
CHECK_DEADLOCK FALSE
INVARIANT TypeOK
INVARIANT ConnectionsTracked
INVARIANT ResponseInOrder
INVARIANT TerminalPromptFaithful
INVARIANT RecallRestoresDraft
INVARIANT StreamPreserved
PROPERTY RequestsAnswered
PROPERTY DownloadEnds
