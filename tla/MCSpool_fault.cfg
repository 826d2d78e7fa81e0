\* Two crashes at any step, one failed file operation, three events.
SPECIFICATION Spec
CONSTANTS
    e1 = e1
    e2 = e2
    e3 = e3
    Events <- ThreeEvents
    ContentLen <- Lengths
    MultiLine <- MultiLineE2
    QueueSize = 1
    MaxQueueBytes = 3
    MaxSpoolBytes = 7
    MaxEventBytes = 4
    MaxCrashes = 2
    MaxRestarts = 0
    MaxFaults = 1
INVARIANTS TypeOK LockDiscipline NoLostWakeup HeldOnlyByUndelivered BacklogWithinLimit PipeInOrder
PROPERTY KeepsCustody
CHECK_DEADLOCK FALSE
