----------------------------- MODULE PyPipeline -----------------------------
(***************************************************************************)
(* The delivery pipeline of the Python SDK: a bounded queue, worker        *)
(* threads that batch, and an offline buffer for what did not fit or could *)
(* not be delivered.  Logger.flush drains the queue and replays the        *)
(* offline buffer in its own thread, Logger.shutdown closes the pipeline.  *)
(* Every event is emitted once, by a thread of its own.                    *)
(***************************************************************************)
EXTENDS Integers, Sequences, FiniteSets, Functions

CONSTANTS
    Events,
    Workers,
    Sinks,
    QueueSize,
    MaxBatch,       \* the events of the largest batch: max_batch_bytes
    Capacity,       \* max_events of the offline buffer
    Limit,          \* of a peek
    MaxFaults       \* writes that fail after their retries

VARIABLES
    queue,
    offline,
    emitted,        \* the events try_enqueue has returned for
    pc,             \* [Procs -> where it is]
    batch,          \* [Procs -> what its ByteBatcher holds]
    hand,           \* [Procs -> the events it writes, or has peeked]
    stop,
    offlineLock,    \* who holds _offline_lock, or "none"
    got,            \* [Sinks -> the events it took]
    evicted,        \* the events the full offline buffer dropped, and counted
    acked,          \* history: the events ack removed
    unseen,         \* history: of those, the ones its peek had not shown
    late,           \* history: emitted when Close had drained the queue
    faults

vars == <<queue, offline, emitted, pc, batch, hand, stop, offlineLock, got,
          evicted, acked, unseen, late, faults>>

Nobody == "none"
Flusher == "flusher"
Closer == "closer"
Drainers == {Flusher, Closer}
Procs == Workers \cup Drainers

Init ==
    /\ queue = <<>> /\ offline = <<>> /\ emitted = {}
    /\ pc = [p \in Procs |-> IF p \in Workers THEN "get" ELSE "idle"]
    /\ batch = [p \in Procs |-> <<>>]
    /\ hand = [p \in Procs |-> <<>>]
    /\ stop = FALSE
    /\ offlineLock = Nobody
    /\ got = [s \in Sinks |-> {}]
    /\ evicted = {} /\ acked = {} /\ unseen = {} /\ late = {}
    /\ faults = 0

Goto(p, where) == pc' = [pc EXCEPT ![p] = where]
Prefix(s, n) == SubSeq(s, 1, IF n < Len(s) THEN n ELSE Len(s))
Suffix(s, n) == SubSeq(s, n + 1, Len(s))

\* MemoryOfflineBuffer.append, for each event: the full buffer drops its head.
AppendOffline(events) ==
    LET all == offline \o events
        over == IF Len(all) > Capacity THEN Len(all) - Capacity ELSE 0
    IN  /\ offline' = Suffix(all, over)
        /\ evicted' = evicted \cup Range(Prefix(all, over))

-----------------------------------------------------------------------------
\* try_enqueue, whatever the state of the pipeline.
Emit(e) ==
    /\ e \notin emitted
    /\ emitted' = emitted \cup {e}
    /\ IF Len(queue) < QueueSize
       THEN queue' = Append(queue, e) /\ UNCHANGED <<offline, evicted>>
       ELSE AppendOffline(<<e>>) /\ UNCHANGED queue
    /\ late' = IF pc[Closer] \in {"tail", "peek", "replay", "closed"}
               THEN late \cup {e} ELSE late
    /\ UNCHANGED <<pc, batch, hand, stop, offlineLock, got, acked, unseen, faults>>

\* A worker, drain_once: the next event of the queue.  A full batcher gives its
\* batch and starts one with the event.
Get(p) ==
    /\ pc[p] \in {"get", "drain"} /\ queue # <<>>
    /\ queue' = Tail(queue)
    /\ IF Len(batch[p]) < MaxBatch
       THEN batch' = [batch EXCEPT ![p] = Append(@, Head(queue))] /\ UNCHANGED <<hand, pc>>
       ELSE /\ hand' = [hand EXCEPT ![p] = batch[p]]
            /\ batch' = [batch EXCEPT ![p] = <<Head(queue)>>]
            /\ Goto(p, IF p \in Workers THEN "write" ELSE "writeMore")
    /\ UNCHANGED <<offline, emitted, stop, offlineLock, got, evicted, acked,
                   unseen, late, faults>>

\* The batcher is emptied, for a write that goes on at "where".
DrainBatch(p, where) ==
    /\ hand' = [hand EXCEPT ![p] = batch[p]]
    /\ batch' = [batch EXCEPT ![p] = <<>>]
    /\ Goto(p, where)
    /\ UNCHANGED <<queue, offline, emitted, stop, offlineLock, got, evicted,
                   acked, unseen, late, faults>>

\* A worker waited 50 ms for an event.
Empty(w) == pc[w] = "get" /\ queue = <<>> /\ batch[w] # <<>> /\ DrainBatch(w, "write")

\* Mutant: what the batcher holds is left.
Exit_LeavesTail(w) ==
    /\ pc[w] = "get" /\ stop /\ queue = <<>>
    /\ Goto(w, "gone")
    /\ batch' = [batch EXCEPT ![w] = <<>>]
    /\ UNCHANGED <<queue, offline, emitted, hand, stop, offlineLock, got, evicted,
                   acked, unseen, late, faults>>

Exit(w) == pc[w] = "get" /\ stop /\ queue = <<>> /\ DrainBatch(w, "last")

\* The queue is empty: drain_once writes the rest.
Drained(p) == pc[p] = "drain" /\ queue = <<>> /\ DrainBatch(p, "tail")

After(p) ==
    CASE pc[p] = "write" -> "get"
      [] pc[p] = "writeMore" -> "drain"
      [] pc[p] = "last" -> "gone"
      [] pc[p] = "tail" -> "peek"

Writing == {"write", "writeMore", "last", "tail"}

\* The sinks, each with retries: all take the batch, or some do not.  The sinks
\* that failed may have it as well.
Give(sinks, events) ==
    got' = [s \in Sinks |-> IF s \in sinks THEN got[s] \cup Range(events) ELSE got[s]]

Fail == faults < MaxFaults /\ faults' = faults + 1

\* Mutant: only the sinks that took nothing matter, the batch is not kept.
WriteBatch_OneIsEnough(p) ==
    /\ pc[p] \in Writing
    /\ \/ Give(Sinks, hand[p]) /\ UNCHANGED <<offline, evicted, faults>>
       \/ /\ hand[p] # <<>> /\ Fail
          /\ \E sinks \in SUBSET Sinks :
                /\ Give(sinks, hand[p])
                /\ IF sinks = {} THEN AppendOffline(hand[p]) ELSE UNCHANGED <<offline, evicted>>
    /\ hand' = [hand EXCEPT ![p] = <<>>]
    /\ Goto(p, After(p))
    /\ UNCHANGED <<queue, emitted, batch, stop, offlineLock, acked, unseen, late>>

\* _write_batch: if one sink fails the batch goes to the offline buffer.
WriteBatch(p) ==
    /\ pc[p] \in Writing
    /\ \/ Give(Sinks, hand[p]) /\ UNCHANGED <<offline, evicted, faults>>
       \/ /\ hand[p] # <<>> /\ Fail
          /\ \E sinks \in SUBSET Sinks : Give(sinks, hand[p])
          /\ AppendOffline(hand[p])
    /\ hand' = [hand EXCEPT ![p] = <<>>]
    /\ Goto(p, After(p))
    /\ UNCHANGED <<queue, emitted, batch, stop, offlineLock, acked, unseen, late>>

-----------------------------------------------------------------------------
(* replay_offline holds _offline_lock: peek, write, ack, until it is empty. *)

Peek(p) ==
    /\ pc[p] = "peek" /\ offlineLock \in {Nobody, p}
    /\ IF offline = <<>>
       THEN /\ offlineLock' = Nobody
            /\ Goto(p, IF p = Closer THEN "closed" ELSE "idle")
            /\ UNCHANGED hand
       ELSE /\ offlineLock' = p
            /\ hand' = [hand EXCEPT ![p] = Prefix(offline, Limit)]
            /\ Goto(p, "replay")
    /\ UNCHANGED <<queue, offline, emitted, batch, stop, got, evicted, acked,
                   unseen, late, faults>>

\* Mutant: the events are acknowledged although the write failed.
Replay_AcksAnyway(p) ==
    /\ pc[p] = "replay"
    /\ \/ Give(Sinks, hand[p]) /\ UNCHANGED faults
       \/ Fail /\ (\E sinks \in SUBSET Sinks : Give(sinks, hand[p]))
    /\ Goto(p, "peek")
    /\ offline' = Suffix(offline, Len(hand[p]))
    /\ LET removed == Range(Prefix(offline, Len(hand[p])))
       IN  acked' = acked \cup removed /\ unseen' = unseen \cup (removed \ Range(hand[p]))
    /\ hand' = [hand EXCEPT ![p] = <<>>]
    /\ UNCHANGED <<queue, emitted, batch, stop, offlineLock, evicted, late>>

\* ack(len) removes that many events from the front, whichever they are now.
Replay(p) ==
    /\ pc[p] = "replay"
    /\ \/ /\ Give(Sinks, hand[p])
          /\ Goto(p, "peek")
          /\ offline' = Suffix(offline, Len(hand[p]))
          /\ LET removed == Range(Prefix(offline, Len(hand[p])))
             IN  acked' = acked \cup removed /\ unseen' = unseen \cup (removed \ Range(hand[p]))
          /\ UNCHANGED <<offlineLock, faults>>
       \/ /\ Fail
          /\ \E sinks \in SUBSET Sinks : Give(sinks, hand[p])
          /\ offlineLock' = Nobody
          /\ Goto(p, IF p = Closer THEN "closed" ELSE "idle")
          /\ UNCHANGED <<offline, acked, unseen>>
    /\ hand' = [hand EXCEPT ![p] = <<>>]
    /\ UNCHANGED <<queue, emitted, batch, stop, evicted, late>>

-----------------------------------------------------------------------------
\* Logger.flush: drain_once and replay_offline.
Flush ==
    /\ pc[Flusher] = "idle"
    /\ Goto(Flusher, "drain")
    /\ UNCHANGED <<queue, offline, emitted, batch, hand, stop, offlineLock, got,
                   evicted, acked, unseen, late, faults>>

Close ==
    /\ pc[Closer] = "idle"
    /\ stop' = TRUE
    /\ Goto(Closer, "join")
    /\ UNCHANGED <<queue, offline, emitted, batch, hand, offlineLock, got, evicted,
                   acked, unseen, late, faults>>

\* Mutant: the drain starts while workers live.
Join_NoWait ==
    /\ pc[Closer] = "join"
    /\ Goto(Closer, "drain")
    /\ UNCHANGED <<queue, offline, emitted, batch, hand, stop, offlineLock, got,
                   evicted, acked, unseen, late, faults>>

\* The workers have stopped; or one has not in time, and close may be called
\* again.
Join ==
    /\ pc[Closer] = "join"
    /\ Goto(Closer, IF \A w \in Workers : pc[w] = "gone" THEN "drain" ELSE "idle")
    /\ UNCHANGED <<queue, offline, emitted, batch, hand, stop, offlineLock, got,
                   evicted, acked, unseen, late, faults>>

Next ==
    \/ \E e \in Events : Emit(e)
    \/ \E p \in Procs : Get(p) \/ WriteBatch(p)
    \/ \E w \in Workers : Empty(w) \/ Exit(w)
    \/ \E p \in Drainers : Drained(p) \/ Peek(p) \/ Replay(p)
    \/ Flush \/ Close \/ Join

Spec == Init /\ [][Next]_vars

-----------------------------------------------------------------------------
TypeOK ==
    /\ queue \in Seq(Events) /\ Len(queue) <= QueueSize
    /\ offline \in Seq(Events) /\ Len(offline) <= Capacity
    /\ \A p \in Procs : Len(batch[p]) <= MaxBatch
    /\ \A w \in Workers : pc[w] \in {"get", "write", "last", "gone"}
    /\ \A p \in Drainers : pc[p] \in {"idle", "join", "drain", "writeMore", "tail",
                                      "peek", "replay", "closed"}
    /\ offlineLock \in Drainers \cup {Nobody}
    /\ unseen \subseteq acked /\ acked \cup evicted \cup late \subseteq emitted
    /\ faults \in 0 .. MaxFaults

Delivered(e) == \A s \in Sinks : e \in got[s]
InHand == UNION {Range(batch[p]) \cup Range(hand[p]) : p \in Procs}

\* An emitted event is on the queue, with a thread, in the offline buffer, or
\* delivered to every sink; or the full offline buffer dropped and counted it,
\* or an ack removed it unseen: while the replay wrote what it had peeked, the
\* full buffer dropped its head, and the count reached further.
EmittedIsKept ==
    \A e \in emitted :
        \/ e \in Range(queue) \cup InHand \cup Range(offline) \cup evicted \cup unseen
        \/ Delivered(e)

\* When close has returned no thread of the pipeline has events, and the queue
\* has only those that were emitted after the last drain.
ClosedIsDrained ==
    pc[Closer] = "closed" =>
        /\ \A p \in Procs \ {Flusher} : batch[p] = <<>> /\ hand[p] = <<>>
        /\ Range(queue) \subseteq late

\* What an ack removes from the offline buffer was delivered
\* (test_disk_offline_buffer_acknowledges_only_after_delivery).
AckedIsDelivered == \A e \in acked : Delivered(e)

=============================================================================
