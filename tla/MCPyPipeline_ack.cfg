\* A queue and an offline buffer of one event, no failing write.
SPECIFICATION Spec
CONSTANTS
    a = a
    b = b
    c = c
    w = w
    s = s
    Events <- ThreeEvents
    Workers <- OneWorker
    Sinks <- OneSink
    QueueSize = 1
    MaxBatch = 1
    Capacity = 1
    Limit = 1
    MaxFaults = 0
INVARIANT AckedIsDelivered
CHECK_DEADLOCK FALSE
