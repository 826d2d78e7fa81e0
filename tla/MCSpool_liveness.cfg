\* Fair scheduling: two handlers, a shutdown, a restart and a replay.
SPECIFICATION FairSpec
CONSTANTS
    e1 = e1
    e2 = e2
    e3 = e3
    Events <- TwoEvents
    ContentLen <- Lengths
    MultiLine <- MultiLineE2
    QueueSize = 1
    MaxQueueBytes = 3
    MaxSpoolBytes = 7
    MaxEventBytes = 4
    MaxCrashes = 0
    MaxRestarts = 1
    MaxFaults = 0
PROPERTIES ReplayEnds QueueDrains ShutdownCompletes
CHECK_DEADLOCK FALSE
