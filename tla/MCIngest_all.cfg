\* Two requests, one of them bulk; a crash, a reload, a fault, a window's end.
SPECIFICATION FairSpec
CONSTANTS
    e1 = e1
    e2 = e2
    e3 = e3
    r1 = r1
    r2 = r2
    p = p
    s = s
    f = f
    Primary = p
    Secondaries <- OneSecondary
    Fallback <- WithFallback
    Events <- ThreeEvents
    Requests <- TwoRequests
    Batch <- Batches
    Bulk <- OnlyR2
    Invalid <- OnlyE3
    Quarantined <- OnlyE2
    Configs <- AllConfigs
INVARIANTS TypeOK OneDelivery NoClosedProcessor InflightCounted
PROPERTIES KeepsCustody RequestsEnd
CHECK_DEADLOCK FALSE
