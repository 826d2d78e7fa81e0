\* DropOldest, two workers, a Flush whose context may expire; fair.
SPECIFICATION FairSpec
CONSTANTS
    i1 = i1
    i2 = i2
    i3 = i3
    w1 = w1
    w2 = w2
    s1 = s1
    fb = fb
    flush = flush
    stop = stop
    Items <- ThreeItems
    Size <- Sizes
    Debug <- NoItems
    Errors <- NoItems
    Policy = "oldest"
    QueueSize = 1
    MaxBatchBytes = 2
    Workers <- TwoWorkers
    Sinks <- NoSinks
    Fallback <- NoFallback
    Callers <- FlushOnly
    Stop = stop
    Deadlines <- FlushOnly
    MaxFaults = 0
INVARIANTS TypeOK DrainAccounting NoSleepWhenDrained
PROPERTIES FlushReturns AcceptedIsWritten
CHECK_DEADLOCK FALSE
