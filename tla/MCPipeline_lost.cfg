\* An Enqueue that is under way while Shutdown runs.
SPECIFICATION FairSpec
CONSTANTS
    i1 = i1
    i2 = i2
    i3 = i3
    w1 = w1
    w2 = w2
    s1 = s1
    fb = fb
    flush = flush
    stop = stop
    Items <- TwoItems
    Size <- Sizes
    Debug <- NoItems
    Errors <- NoItems
    Policy = "block"
    QueueSize = 2
    MaxBatchBytes = 2
    Workers <- OneWorker
    Sinks <- NoSinks
    Fallback <- NoFallback
    Callers <- StopOnly
    Stop = stop
    Deadlines <- NoCallers
    MaxFaults = 0
PROPERTIES AcceptedIsDelivered
CHECK_DEADLOCK FALSE
