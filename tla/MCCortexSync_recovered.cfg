SPECIFICATION FairSpec
CONSTANTS
    MaxEvent = 3
    Worlds <- InOrder
    BatchSize = 1
    MaxPage = 2
    StreamSize = 1
    HistoryLimit = 1
    BufferSize = 1
    TailBatch = 2
    Bounds <- Damaged
PROPERTY RecoveredCatchesUp
CHECK_DEADLOCK FALSE
