------------------------------ MODULE MCIngest ------------------------------
(***************************************************************************)
(* Instances of Ingest for TLC: the primary sink p and a secondary s, a    *)
(* fallback f, a client's request and its retry or a bulk one.             *)
(***************************************************************************)
EXTENDS Ingest

CONSTANTS e1, e2, e3, r1, r2, p, s, f

ThreeEvents == {e1, e2, e3}
TwoRequests == {r1, r2}
Batches == [r \in Requests |-> IF r = r1 THEN <<e1, e2>> ELSE <<e3, e1>>]
OneSecondary == {s}
WithFallback == {f}
OnlyR2 == {r2}
OnlyE3 == {e3}
OnlyE2 == {e2}

Budget(n) ==
    [d \in Disturbances |-> IF d \in DOMAIN n THEN n[d] ELSE 0]

Config(mode, policy, attempts, dlqOn, dedupe, n) ==
    [mode |-> mode, policy |-> policy, attempts |-> attempts,
     fallbackOn |-> {"policy"}, dlq |-> dlqOn # {}, dlqOn |-> dlqOn,
     dedupe |-> dedupe, budget |-> Budget(n)]

\* Every mode and policy, each with the disturbances that concern it; and Redis,
\* except where it outlives a process that had records in the spool.
AllConfigs ==
    {Config("direct", "require_all", 2, {"fallback"}, "redis",
            [reload |-> 1, fault |-> 2]),
     Config("direct", "best_effort", 1, {}, "memory",
            [fault |-> 1, expiry |-> 1, tail |-> 1]),
     Config("direct", "require_primary", 1, {"policy"}, "memory",
            [crash |-> 1, fault |-> 1]),
     Config("spool", "require_primary", 2, {"policy"}, "memory",
            [crash |-> 1, fault |-> 1]),
     Config("spool", "require_primary", 1, {"policy"}, "memory",
            [stop |-> 1, reload |-> 1]),
     Config("hybrid", "require_primary", 1, {}, "memory",
            [fault |-> 1, expiry |-> 1])}

\* There: what the processor remembers outlives the process, what it was doing
\* does not.
Remembering ==
    {Config("spool", "require_primary", 1, {}, "redis", [crash |-> 1])}

=============================================================================
