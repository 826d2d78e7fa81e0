----------------------------- MODULE Processor -----------------------------
(***************************************************************************)
(* The decisions of the event processor that deliver an event to the sinks, *)
(* collector/internal/processing/processor.go: the delivery policy, when   *)
(* the fallback sink is tried and when the event is dead-lettered.         *)
(*                                                                         *)
(* The outcome of an attempt is the set of sinks that returned an error.   *)
(***************************************************************************)
EXTENDS FiniteSets

CONSTANTS
    Primary,        \* the primary sink
    Secondaries,    \* the secondary sinks
    Fallback        \* the fallback sink, if there is one: a set

Sinks == {Primary} \cup Secondaries
Targets == Sinks \cup Fallback

\* The kinds of failure that fallback and dead letters are configured for.
Kinds == {"primary", "secondary", "fallback", "policy"}

\* Mutant: "require_all" is satisfied by the primary sink.
PolicyHolds_Primary(policy, failed) ==
    IF policy = "best_effort" THEN Sinks \ failed # {} ELSE Primary \notin failed

\* evaluatePolicy.
PolicyHolds(policy, failed) ==
    CASE policy = "best_effort" -> Sinks \ failed # {}
      [] policy = "require_all" -> Sinks \cap failed = {}
      [] OTHER -> Primary \notin failed

\* The kinds of failure of an outcome.
Failures(policy, failed) ==
    {k \in Kinds :
        \/ k = "primary" /\ Primary \in failed
        \/ k = "secondary" /\ Secondaries \cap failed # {}
        \/ k = "fallback" /\ Fallback \cap failed # {}
        \/ k = "policy" /\ ~PolicyHolds(policy, failed)}

\* shouldAttemptFallback, on an outcome of the sinks.
WantsFallback(policy, on, failed) ==
    Fallback # {} /\ Failures(policy, failed \cap Sinks) \cap on # {}

\* shouldWriteDLQ, on the outcome of the last attempt; on is empty when the
\* dead-letter file is not configured.
WantsDeadLetter(policy, on, failed) == Failures(policy, failed) \cap on # {}

\* runDeliveryAttempt: the targets that are written to and the ones of them
\* that fail.  Every sink is tried, whatever the ones before it returned.
Attempts(policy, on) ==
    {a \in [tried : {Sinks, Targets}, failed : SUBSET Targets] :
        /\ a.failed \subseteq a.tried
        /\ a.tried = IF WantsFallback(policy, on, a.failed) THEN Targets ELSE Sinks}

=============================================================================
