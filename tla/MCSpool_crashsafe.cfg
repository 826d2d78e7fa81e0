\* Two crashes, no fault of a file operation.
SPECIFICATION Spec
CONSTANTS
    e1 = e1
    e2 = e2
    e3 = e3
    Events <- ThreeEvents
    ContentLen <- Twos
    MultiLine <- NoMultiLine
    QueueSize = 2
    MaxQueueBytes = 8
    MaxSpoolBytes = 9
    MaxEventBytes = 4
    MaxCrashes = 2
    MaxRestarts = 0
    MaxFaults = 0
INVARIANTS CrashSafe
CHECK_DEADLOCK FALSE
