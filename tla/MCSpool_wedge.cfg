\* A queue of one and three concurrent handlers.
SPECIFICATION FairSpec
CONSTANTS
    e1 = e1
    e2 = e2
    e3 = e3
    Events <- ThreeEvents
    ContentLen <- Twos
    MultiLine <- NoMultiLine
    QueueSize = 1
    MaxQueueBytes = 8
    MaxSpoolBytes = 9
    MaxEventBytes = 4
    MaxCrashes = 0
    MaxRestarts = 0
    MaxFaults = 0
PROPERTIES EnqueueResumes
CHECK_DEADLOCK FALSE
