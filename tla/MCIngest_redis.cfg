\* Spool mode with the processor's dedupe store in Redis, and one crash.
SPECIFICATION Spec
CONSTANTS
    e1 = e1
    e2 = e2
    e3 = e3
    r1 = r1
    r2 = r2
    p = p
    s = s
    f = f
    Primary = p
    Secondaries <- OneSecondary
    Fallback <- WithFallback
    Events <- ThreeEvents
    Requests <- TwoRequests
    Batch <- Batches
    Bulk <- OnlyR2
    Invalid <- OnlyE3
    Quarantined <- OnlyE2
    Configs <- Remembering
PROPERTY KeepsCustody
CHECK_DEADLOCK FALSE
