--------------------------- MODULE DeliveryQueue ---------------------------
(***************************************************************************)
(* collector/internal/queue/queue.go: the memory queue with retries and a  *)
(* circuit breaker, and the rotating disk sink below it.  No program of    *)
(* the repository imports the package.  The goroutine that flushes sleeps  *)
(* in cond.Wait inside the default case of its select, so it hears neither *)
(* the ticker nor Close until the next Enqueue signals it.                 *)
(***************************************************************************)
EXTENDS Integers, Sequences

CONSTANTS
    Batches,       \* a set of sequences of events, one for each call
    MaxEvents, BatchSize, MaxAttempts, Threshold, FileSize,
    Modes,         \* of RetryEnabled
    MaxFaults

VARIABLES
    retry,         \* RetryEnabled
    events,        \* of records [id, attempts]
    closed, stopCh,
    tick,          \* the ticker's channel holds a tick
    pc,            \* [Procs -> control state]
    hand,          \* [Procs -> the events of a doFlush]
    failures,      \* circuitFailures
    openTime,      \* "zero", "recent", or "past" the circuit's timeout
    state,         \* the counters and circuit_open
    asked,         \* batches that were enqueued
    accepted,      \* history: the events Enqueue took
    dropped,       \* history: events whose last attempt failed
    disk,          \* [file, current, rotated, pos]
    overwritten,   \* history: events in files that a rotation replaced
    faults

circuit == <<failures, openTime>>
history == <<asked, accepted, dropped>>
vars == <<retry, events, closed, stopCh, tick, pc, hand, circuit, state, history,
          disk, overwritten, faults>>

Flusher == "flushLoop"
Closer == "Close"
Procs == {Flusher, Closer}
ToSet(s) == {s[i] : i \in DOMAIN s}
Ids(s) == {s[i].id : i \in DOMAIN s}
Every == UNION {ToSet(b) : b \in Batches}

Init ==
    /\ retry \in Modes
    /\ events = <<>>
    /\ closed = FALSE /\ stopCh = FALSE /\ tick = FALSE
    /\ pc = [p \in Procs |-> IF p = Flusher THEN "select" ELSE "new"]
    /\ hand = [p \in Procs |-> <<>>]
    /\ failures = 0 /\ openTime = "zero"
    /\ state = [enqueued |-> 0, flushed |-> 0, failed |-> 0, inFlight |-> 0,
                circuitOpen |-> FALSE]
    /\ asked = {} /\ accepted = {} /\ dropped = {}
    /\ disk = [file |-> "open", current |-> <<>>, rotated |-> <<>>, pos |-> 0]
    /\ overwritten = {}
    /\ faults = 0

Goto(p, s) == pc' = [pc EXCEPT ![p] = s]

\* Mutant: the goroutine is not woken.
Woken_Not == pc

\* cond.Signal
Woken == IF pc[Flusher] = "wait" THEN [pc EXCEPT ![Flusher] = "select"] ELSE pc

-----------------------------------------------------------------------------
\* Enqueue and EnqueueBatch, under mu: what finds no room is refused.

isCircuitOpen == openTime = "recent"

Room == IF MaxEvents > Len(events) THEN MaxEvents - Len(events) ELSE 0
Fitting(batch) == SubSeq(batch, 1, IF Len(batch) < Room THEN Len(batch) ELSE Room)

Enqueue(batch) ==
    /\ batch \notin asked
    /\ asked' = asked \cup {batch}
    /\ IF closed \/ isCircuitOpen
       THEN UNCHANGED <<events, pc, circuit, state, accepted>>
       ELSE LET taken == Fitting(batch) IN
            /\ events' = events \o [i \in DOMAIN taken |-> [id |-> taken[i], attempts |-> 0]]
            /\ accepted' = accepted \cup ToSet(taken)
            /\ IF openTime = "past"
               THEN failures' = 0 /\ openTime' = "zero"
               ELSE UNCHANGED circuit
            /\ state' = [state EXCEPT !.enqueued = @ + Len(taken),
                                      !.inFlight = @ + Len(taken),
                                      !.circuitOpen = @ /\ openTime # "past"]
            \* A refused Enqueue returns before its Signal, an EnqueueBatch not.
            /\ pc' = IF taken # <<>> \/ Len(batch) > 1 THEN Woken ELSE pc
    /\ UNCHANGED <<retry, closed, stopCh, tick, hand, dropped, disk, overwritten, faults>>

-----------------------------------------------------------------------------
\* flushLoop

Rest == <<retry, hand, circuit, state, history, disk, overwritten, faults>>

Stopped ==
    /\ pc[Flusher] = "select" /\ stopCh
    /\ closed' = TRUE
    /\ Goto(Flusher, "gone")
    /\ UNCHANGED <<events, stopCh, tick, Rest>>

Ticked ==
    /\ pc[Flusher] = "select" /\ tick
    /\ tick' = FALSE
    /\ Goto(Flusher, IF events # <<>> THEN "flush" ELSE "select")
    /\ UNCHANGED <<events, closed, stopCh, Rest>>

\* The select finds neither, and then the goroutine takes mu.
Default ==
    /\ pc[Flusher] = "select" /\ ~ tick /\ ~ stopCh
    /\ Goto(Flusher, "check")
    /\ UNCHANGED <<events, closed, stopCh, tick, Rest>>

CheckSize ==
    /\ pc[Flusher] = "check"
    /\ Goto(Flusher, IF Len(events) >= BatchSize THEN "flush" ELSE "wait")
    /\ UNCHANGED <<events, closed, stopCh, tick, Rest>>

\* Time: a tick is sent to an empty channel only; the circuit's timeout passes.
TickerFires ==
    /\ ~ tick /\ pc[Flusher] # "gone"
    /\ tick' = TRUE
    /\ UNCHANGED <<events, closed, stopCh, pc, Rest>>

CircuitTimeout ==
    /\ openTime = "recent"
    /\ openTime' = "past"
    /\ UNCHANGED <<retry, events, closed, stopCh, tick, pc, hand, failures, state, history,
                   disk, overwritten, faults>>

-----------------------------------------------------------------------------
\* doFlush, by the goroutine and by Close.

After(p) == IF p = Flusher THEN "select" ELSE "done"
AfterError(p) == IF p = Flusher THEN "select" ELSE "failed"

Take(p) ==
    /\ pc[p] = "flush"
    /\ hand' = [hand EXCEPT ![p] = events]
    /\ events' = <<>>
    /\ Goto(p, IF events = <<>> THEN After(p) ELSE "write")
    /\ UNCHANGED <<retry, closed, stopCh, tick, circuit, state, history, disk,
                   overwritten, faults>>

\* DiskSink.WriteBatch of n of the events; with rotate, after a rotation that
\* moves the file to name.0 and the file that was there to nowhere: its loop
\* renames name.1 and up.
Rotating == disk.pos >= FileSize

\* Mutant: the file is truncated, not renamed.
Rotated_Truncates == [disk EXCEPT !.current = <<>>, !.pos = 0]

Rotated == [disk EXCEPT !.rotated = disk.current, !.current = <<>>, !.pos = 0]

OnDisk == ToSet(disk.current) \cup ToSet(disk.rotated)

Extended(d, p, n) ==
    [d EXCEPT !.current = @ \o [i \in 1 .. n |-> hand[p][i].id]]

WriteBatch(p) ==
    LET d == IF Rotating THEN Rotated ELSE disk
    IN /\ disk.file = "open"
       /\ disk' = [Extended(d, p, Len(hand[p])) EXCEPT !.pos = @ + Len(hand[p])]
       /\ overwritten' = IF Rotating THEN overwritten \cup ToSet(disk.rotated) ELSE overwritten

Fault ==
    /\ faults < MaxFaults
    /\ faults' = faults + 1

\* The write fails after some of the events.  Or the rotation fails: a rename of
\* an older file, the rename of this one, after which it is opened again with
\* pos 0, or the opening; then the sink keeps a closed file, and every later
\* write fails.
WriteBatchFails(p) ==
    \/ /\ disk.file = "open" /\ Fault
       /\ LET d == IF Rotating THEN Rotated ELSE disk
          IN \E n \in 0 .. Len(hand[p]) - 1 : disk' = Extended(d, p, n)
       /\ overwritten' = IF Rotating THEN overwritten \cup ToSet(disk.rotated) ELSE overwritten
    \/ /\ disk.file = "open" /\ Rotating /\ Fault
       /\ \/ /\ disk' \in {disk, [disk EXCEPT !.pos = 0], [disk EXCEPT !.file = "closed"]}
             /\ UNCHANGED overwritten
          \/ /\ disk' = [Rotated EXCEPT !.file = "closed", !.pos = disk.pos]
             /\ overwritten' = overwritten \cup ToSet(disk.rotated)
    \/ disk.file = "closed" /\ UNCHANGED <<disk, overwritten, faults>>

recordSuccess ==
    /\ failures' = IF failures > 0 THEN failures - 1 ELSE 0
    /\ UNCHANGED openTime

StillOpen == state.circuitOpen /\ ~ (failures = 1 /\ openTime # "recent")

recordFailure ==
    /\ failures' = failures + 1
    /\ openTime' = IF failures + 1 >= Threshold THEN "recent" ELSE openTime

\* The counters follow under their own lock.  Then the file is synced, and when
\* that fails Close returns the error.
Flushed(p) ==
    /\ pc[p] = "write"
    /\ WriteBatch(p)
    /\ recordSuccess
    /\ state' = [state EXCEPT !.flushed = @ + Len(hand[p]), !.inFlight = @ - Len(hand[p]),
                              !.circuitOpen = StillOpen]
    /\ hand' = [hand EXCEPT ![p] = <<>>]
    /\ \/ Goto(p, After(p)) /\ UNCHANGED faults
       \/ Goto(p, AfterError(p)) /\ Fault
    /\ UNCHANGED <<retry, events, closed, stopCh, tick, history>>

Again(e) == retry /\ e.attempts + 1 < MaxAttempts

\* The events of s that are tried again, in their order: the set has one member.
Retried(s) ==
    LET again == {i \in DOMAIN s : Again(s[i])}
        places == {f \in UNION {[1 .. n -> again] : n \in 0 .. Len(s)} :
                      /\ {f[k] : k \in DOMAIN f} = again
                      /\ \A j, k \in DOMAIN f : j < k => f[j] < f[k]}
    IN {[k \in DOMAIN f |-> s[f[k]]] : f \in places}

Raised(s) == [i \in DOMAIN s |-> [s[i] EXCEPT !.attempts = @ + 1]]

NotFlushed(p) ==
    /\ pc[p] = "write"
    /\ WriteBatchFails(p)
    /\ recordFailure
    /\ \E kept \in Retried(hand[p]) :
          LET lost == Len(hand[p]) - Len(kept)
          IN /\ state' = [state EXCEPT !.failed = @ + lost, !.inFlight = @ - lost,
                                       !.circuitOpen = @ \/ failures + 1 >= Threshold]
             /\ dropped' = dropped \cup (Ids(hand[p]) \ Ids(kept))
             /\ hand' = [hand EXCEPT ![p] = Raised(kept)]
             /\ Goto(p, IF kept = <<>> THEN AfterError(p) ELSE "requeue")
    /\ UNCHANGED <<retry, events, closed, stopCh, tick, asked, accepted>>

\* Mutant: the events that are tried again replace what came meanwhile.
Requeued_Replaces(p) == hand[p]

\* Behind what came meanwhile, and beyond MaxEvents.
Requeued(p) == events \o hand[p]

Requeue(p) ==
    /\ pc[p] = "requeue"
    /\ events' = Requeued(p)
    /\ hand' = [hand EXCEPT ![p] = <<>>]
    /\ pc' = [Woken EXCEPT ![p] = AfterError(p)]
    /\ UNCHANGED <<retry, closed, stopCh, tick, circuit, state, history, disk,
                   overwritten, faults>>

-----------------------------------------------------------------------------
\* Close waits for the goroutine, and nobody wakes it.

CloseStop ==
    /\ pc[Closer] = "new"
    /\ stopCh' = TRUE
    /\ Goto(Closer, "join")
    /\ UNCHANGED <<events, closed, tick, Rest>>

\* Mutant: without the final flush.
CloseJoined_Returns ==
    /\ pc[Closer] = "join" /\ pc[Flusher] = "gone"
    /\ closed' = TRUE
    /\ Goto(Closer, "done")
    /\ UNCHANGED <<events, stopCh, tick, Rest>>

CloseJoined ==
    /\ pc[Closer] = "join" /\ pc[Flusher] = "gone"
    /\ closed' = TRUE
    /\ Goto(Closer, "flush")
    /\ UNCHANGED <<events, stopCh, tick, Rest>>

FlusherStep ==
    Stopped \/ Ticked \/ Default \/ CheckSize \/ Take(Flusher)
        \/ Flushed(Flusher) \/ NotFlushed(Flusher) \/ Requeue(Flusher)

CloserStep ==
    CloseJoined \/ Take(Closer) \/ Flushed(Closer) \/ NotFlushed(Closer) \/ Requeue(Closer)

Next ==
    \/ \E b \in Batches : Enqueue(b)
    \/ FlusherStep \/ CloseStop \/ CloserStep
    \/ TickerFires \/ CircuitTimeout

Fairness == WF_vars(FlusherStep) /\ WF_vars(CloserStep)
Spec == Init /\ [][Next]_vars /\ Fairness

-----------------------------------------------------------------------------
TypeOK ==
    /\ retry \in BOOLEAN /\ closed \in BOOLEAN /\ stopCh \in BOOLEAN /\ tick \in BOOLEAN
    /\ \A i \in DOMAIN events : /\ events[i].id \in Every
                                /\ events[i].attempts \in 0 .. MaxAttempts - 1
    /\ pc[Flusher] \in {"select", "check", "wait", "flush", "write", "requeue", "gone"}
    /\ pc[Closer] \in {"new", "join", "flush", "write", "requeue", "failed", "done"}
    /\ failures \in Nat /\ openTime \in {"zero", "recent", "past"}
    /\ disk.file \in {"open", "closed"} /\ disk.pos \in Nat
    /\ accepted \cup dropped \cup overwritten \subseteq Every
    /\ faults \in 0 .. MaxFaults

InMemory == Ids(events) \cup Ids(hand[Flusher]) \cup Ids(hand[Closer])

\* What Enqueue took waits, is in a flush, is on disk, was counted as failed
\* after its last attempt, or was in a file that a rotation replaced; and the
\* counters say how many of each there are.
EnqueuedIsKept ==
    /\ accepted \subseteq InMemory \cup OnDisk \cup dropped \cup overwritten
    /\ state.enqueued = state.flushed + state.failed + state.inFlight
    /\ state.inFlight = Len(events) + Len(hand[Flusher]) + Len(hand[Closer])
    /\ openTime = "recent" => state.circuitOpen

\* When Close has returned nil, everything that was taken is on disk, failed or
\* was replaced.
CloseFlushes ==
    pc[Closer] = "done" => accepted \subseteq OnDisk \cup overwritten \cup dropped

\* The goroutine sleeps on less than a batch, or Close waits for it.
Asleep == pc[Flusher] = "wait" /\ (stopCh \/ Len(events) < BatchSize)

\* Close has failed, and what it put back stays in memory.
LeftBehind == pc[Closer] = "failed"

\* What was taken is written or fails, unless the goroutine sleeps.
Settled == Asleep \/ LeftBehind \/ (accepted \cap InMemory = {})

=============================================================================
