\* SyncFallback, failing sinks with a fallback, a Flush and a Shutdown.
SPECIFICATION Spec
CONSTANTS
    i1 = i1
    i2 = i2
    i3 = i3
    w1 = w1
    w2 = w2
    s1 = s1
    fb = fb
    flush = flush
    stop = stop
    Items <- ThreeItems
    Size <- Sizes
    Debug <- NoItems
    Errors <- NoItems
    Policy = "sync"
    QueueSize = 1
    MaxBatchBytes = 2
    Workers <- OneWorker
    Sinks <- OneSink
    Fallback <- WithFallback
    Callers <- Both
    Stop = stop
    Deadlines <- NoCallers
    MaxFaults = 1
INVARIANTS FlushMeansStored NothingVanishes NoWriteAfterClose InOrder BatchWithinLimit
SYMMETRY SameSize
CHECK_DEADLOCK FALSE
