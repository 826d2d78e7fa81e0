------------------------------ MODULE Pipeline ------------------------------
(***************************************************************************)
(* The asynchronous pipeline of the Go SDK, sdks/go/src/core/pipeline.go.  *)
(*                                                                         *)
(* Goroutines of the application put items on a bounded channel under one  *)
(* of six backpressure policies; workers collect them into batches and     *)
(* write the batches to the sinks; a ticker flushes the sinks.  Flush and  *)
(* Shutdown wait until the counter of pending items is zero, on a          *)
(* condition variable that the one who brings it to zero broadcasts.       *)
(***************************************************************************)
EXTENDS Integers, Sequences, FiniteSets

CONSTANTS
    Items,          \* the items, each one enqueued by a goroutine of its own
    Size,           \* [Items -> length of the encoded event]
    Debug,          \* the items of debug level
    Errors,         \* the items with IsError
    Policy,         \* cfg.Backpressure
    QueueSize,      \* cfg.QueueSize
    MaxBatchBytes,  \* cfg.MaxBatchBytes
    Workers,        \* the worker goroutines
    Sinks,          \* cfg.Sinks
    Fallback,       \* cfg.Fallback: a set with one sink, or empty
    Callers,        \* the goroutines that call Flush or Shutdown, once each
    Stop,           \* the one that calls Shutdown
    Deadlines,      \* the callers whose context can expire
    MaxFaults       \* bound on failed sink operations

Policies == {"block", "newest", "oldest", "debug", "sampled", "sync"}

None == "none"

ASSUME ItemsAssumption ==
    /\ None \notin Items
    /\ Size \in [Items -> Nat \ {0}]
    /\ Debug \subseteq Items /\ Errors \subseteq Items
    /\ IsFiniteSet(Items)

ASSUME ConfigAssumption ==
    /\ Policy \in Policies
    /\ QueueSize \in Nat \ {0}
    /\ MaxBatchBytes \in Nat \ {0}
    /\ Sinks \cap Fallback = {}
    /\ MaxFaults \in Nat

VARIABLES
    queue,      \* the channel
    done,       \* the channel done is closed
    pending,    \* the counter of drain accounting
    epc,        \* control state of every Enqueue
    ret,        \* what it returns
    wpc,        \* control state of every worker
    batch,      \* the batch it collects or writes
    carry,      \* the item its last batch had no room for
    tpc,        \* control state of the flusher
    cpc,        \* control state of every caller of Flush and Shutdown
    expired,    \* the callers whose context has expired
    buffered,   \* [Targets -> items a sink took and has not flushed]
    stored,     \* [Targets -> items a sink flushed]
    reported,   \* items of a batch for which OnError was called
    evicted,    \* accepted items DropOldest threw away
    sent,       \* history: the items in the order the channel took them
    written,    \* history: the items in the order they went to the sinks
    owed,       \* history: what was accepted when a caller made its call
    faults

producers == <<epc, ret>>
workers == <<wpc, batch, carry>>
callers == <<cpc, expired, owed>>
sinks == <<buffered, stored, reported, written>>
vars == <<queue, done, pending, producers, workers, tpc, callers, sinks,
          evicted, sent, faults>>

Targets == Sinks \cup Fallback

ToSet(s) == {s[i] : i \in DOMAIN s}

-----------------------------------------------------------------------------
Init ==
    /\ queue = <<>>
    /\ done = FALSE
    /\ pending = 0
    /\ epc = [i \in Items |-> "new"]
    /\ ret = [i \in Items |-> None]
    /\ wpc = [w \in Workers |-> "next"]
    /\ batch = [w \in Workers |-> <<>>]
    /\ carry = [w \in Workers |-> None]
    /\ tpc = "idle"
    /\ cpc = [c \in Callers |-> "idle"]
    /\ expired = {}
    /\ buffered = [t \in Targets |-> {}]
    /\ stored = [t \in Targets |-> {}]
    /\ reported = {}
    /\ evicted = {}
    /\ sent = <<>>
    /\ written = <<>>
    /\ owed = [c \in Callers |-> {}]
    /\ faults = 0

-----------------------------------------------------------------------------
(* Drain accounting.  reserveItem and finishItems change the counter under *)
(* drainMu; the one who brings it to zero wakes every waiter.              *)

\* Mutant: nobody is woken.
Wake_Nobody == UNCHANGED cpc

\* drainCond.Broadcast.
Wake == cpc' = [c \in Callers |-> IF cpc[c] = "asleep" THEN "check" ELSE cpc[c]]

\* finishItems(n).
FinishItems(n) ==
    /\ pending' = pending - n
    /\ IF pending' = 0 THEN Wake ELSE UNCHANGED cpc
    /\ UNCHANGED <<expired, owed>>

-----------------------------------------------------------------------------
(* Enqueue.                                                                *)

\* The first check of done.
Call(i) ==
    /\ epc[i] = "new"
    /\ IF done THEN /\ epc' = [epc EXCEPT ![i] = "returned"]
                    /\ ret' = [ret EXCEPT ![i] = "closed"]
               ELSE /\ epc' = [epc EXCEPT ![i] = "reserve"]
                    /\ UNCHANGED ret
    /\ UNCHANGED <<queue, done, pending, workers, tpc, callers, sinks, evicted,
                   sent, faults>>

\* reserveItem, before the item is published.
Reserve(i) ==
    /\ epc[i] = "reserve"
    /\ epc' = [epc EXCEPT ![i] = "offer"]
    /\ pending' = pending + 1
    /\ UNCHANGED <<queue, done, ret, workers, tpc, callers, sinks, evicted, sent,
                   faults>>

\* Mutant: the reservation is made and given back before the item is sent.
Send_GivesBack(i) ==
    /\ epc[i] \in {"offer", "reoffer"}
    /\ Len(queue) < QueueSize
    /\ queue' = Append(queue, i)
    /\ sent' = Append(sent, i)
    /\ epc' = [epc EXCEPT ![i] = "returned"]
    /\ ret' = [ret EXCEPT ![i] = "accepted"]
    /\ FinishItems(1)
    /\ UNCHANGED <<done, workers, tpc, sinks, evicted, faults>>

\* p.queue <- item.  The select picks it whenever there is room, though done
\* may be closed: of several branches that are ready it picks any.
Send(i) ==
    /\ epc[i] \in {"offer", "reoffer"}
    /\ Len(queue) < QueueSize
    /\ queue' = Append(queue, i)
    /\ sent' = Append(sent, i)
    /\ epc' = [epc EXCEPT ![i] = "returned"]
    /\ ret' = [ret EXCEPT ![i] = "accepted"]
    /\ UNCHANGED <<done, pending, workers, tpc, callers, sinks, evicted, faults>>

\* Enqueue is going to return v; the deferred finishItems(1) comes first.
Leave(i, v) ==
    /\ epc' = [epc EXCEPT ![i] = "release"]
    /\ ret' = [ret EXCEPT ![i] = v]

\* <-p.done, in any of the selects.
Closed(i) ==
    /\ epc[i] \in {"offer", "evict", "reoffer"}
    /\ done
    /\ Leave(i, "closed")
    /\ UNCHANGED <<queue, done, pending, workers, tpc, callers, sinks, evicted,
                   sent, faults>>

\* The policy waits for room: no default branch.
MayBlock(i) ==
    \/ Policy = "block"
    \/ Policy = "debug" /\ i \notin Debug
    \/ Policy = "sampled" /\ i \in Errors

\* Mutant: the default branch although done is closed.
Full_IgnoresDone(i) == Len(queue) = QueueSize /\ ~MayBlock(i)

\* The default branch: no branch of the select is ready.
Full(i) == Len(queue) = QueueSize /\ ~done /\ ~MayBlock(i)

\* notifyDrop: of the new item, under DropOldest only if the queue filled up
\* again after the eviction.
Drop(i) ==
    /\ \/ epc[i] = "offer" /\ Policy \in {"newest", "debug", "sampled"}
       \/ epc[i] = "reoffer"
    /\ Full(i)
    /\ Leave(i, "dropped")
    /\ UNCHANGED <<queue, done, pending, workers, tpc, callers, sinks, evicted,
                   sent, faults>>

\* DropOldest: go on to the select that takes the oldest item.
Overfull(i) ==
    /\ epc[i] = "offer" /\ Policy = "oldest" /\ Full(i)
    /\ epc' = [epc EXCEPT ![i] = "evict"]
    /\ UNCHANGED <<queue, done, pending, ret, workers, tpc, callers, sinks,
                   evicted, sent, faults>>

\* Mutant: the evicted item stays reserved.
Evict_KeepsPending(i) ==
    /\ epc[i] = "evict" /\ queue # <<>>
    /\ evicted' = evicted \cup {Head(queue)}
    /\ queue' = Tail(queue)
    /\ epc' = [epc EXCEPT ![i] = "reoffer"]
    /\ UNCHANGED <<done, pending, ret, workers, tpc, callers, sinks, sent, faults>>

\* <-p.queue and finishItems(1).  Nothing reports the item.
Evict(i) ==
    /\ epc[i] = "evict" /\ queue # <<>>
    /\ evicted' = evicted \cup {Head(queue)}
    /\ queue' = Tail(queue)
    /\ epc' = [epc EXCEPT ![i] = "reoffer"]
    /\ FinishItems(1)
    /\ UNCHANGED <<done, ret, workers, tpc, sinks, sent, faults>>

\* The workers have emptied the queue in the meantime.
NoVictim(i) ==
    /\ epc[i] = "evict" /\ queue = <<>> /\ ~done
    /\ epc' = [epc EXCEPT ![i] = "reoffer"]
    /\ UNCHANGED <<queue, done, pending, ret, workers, tpc, callers, sinks,
                   evicted, sent, faults>>

\* The deferred finishItems(1) of an Enqueue that did not queue its item.
Release(i) ==
    /\ epc[i] = "release"
    /\ epc' = [epc EXCEPT ![i] = "returned"]
    /\ FinishItems(1)
    /\ UNCHANGED <<queue, done, ret, workers, tpc, sinks, evicted, sent, faults>>

-----------------------------------------------------------------------------
(* writeBatch: to every sink, and to the fallback if a sink failed.        *)

\* The sinks took took[t] items of s, in order.
Deliver(s, took) ==
    /\ buffered' = [t \in Targets |->
                      buffered[t] \cup {s[i] : i \in 1 .. took[t]}]
    /\ written' = written \o s
    /\ UNCHANGED stored

WriteSucceeds(s) ==
    /\ Deliver(s, [t \in Targets |-> IF t \in Sinks THEN Len(s) ELSE 0])
    /\ UNCHANGED <<reported, faults>>

\* Mutant: the fallback is left out.
WriteFails_NoFallback(s) ==
    /\ faults < MaxFaults /\ faults' = faults + 1
    /\ \E bad \in SUBSET Sinks \ {{}}, n \in 0 .. Len(s) - 1 :
          Deliver(s, [t \in Targets |-> CASE t \in bad -> n
                                        [] t \in Sinks \ bad -> Len(s)
                                        [] OTHER -> 0])
    /\ reported' = reported \cup ToSet(s)

\* Some sinks fail after n items.  The fallback gets the whole batch and may
\* fail as well (m = n).  The error that is returned and reported is not
\* cleared by a fallback that succeeded.
WriteFails(s) ==
    /\ \E bad \in SUBSET Sinks \ {{}}, n \in 0 .. Len(s) - 1 :
          \E m \in {n, Len(s)} :
             /\ faults' = faults + (IF m = n THEN 2 ELSE 1)
             /\ Deliver(s, [t \in Targets |-> CASE t \in bad -> n
                                              [] t \in Sinks \ bad -> Len(s)
                                              [] OTHER -> m])
    /\ faults' <= MaxFaults
    /\ reported' = reported \cup ToSet(s)

\* SyncFallback with the queue full: writeDirect in the caller's goroutine.
Overflow(i) ==
    /\ epc[i] = "offer" /\ Policy = "sync" /\ Full(i)
    /\ epc' = [epc EXCEPT ![i] = "direct"]
    /\ UNCHANGED <<queue, done, pending, ret, workers, tpc, callers, sinks,
                   evicted, sent, faults>>

WriteDirect(i) ==
    /\ epc[i] = "direct"
    /\ \/ WriteSucceeds(<<i>>) /\ Leave(i, "accepted")
       \/ WriteFails(<<i>>) /\ Leave(i, "failed")
    /\ UNCHANGED <<queue, done, pending, workers, tpc, callers, evicted, sent>>

-----------------------------------------------------------------------------
(* The workers.                                                            *)

\* Mutant: the queue before the carry.
NextItem_QueueFirst(w) ==
    /\ wpc[w] = "next"
    /\ \/ /\ queue # <<>>
          /\ batch' = [batch EXCEPT ![w] = <<Head(queue)>>]
          /\ queue' = Tail(queue)
          /\ UNCHANGED carry
       \/ /\ queue = <<>> /\ carry[w] # None
          /\ batch' = [batch EXCEPT ![w] = <<carry[w]>>]
          /\ carry' = [carry EXCEPT ![w] = None]
          /\ UNCHANGED queue
    /\ wpc' = [wpc EXCEPT ![w] = "collect"]
    /\ UNCHANGED <<done, pending, producers, tpc, callers, sinks, evicted, sent,
                   faults>>

\* nextItem, and tryNextQueuedItem of the loop that drains the queue: the
\* carry, then the queue.
NextItem(w) ==
    /\ wpc[w] = "next"
    /\ \/ /\ carry[w] # None
          /\ batch' = [batch EXCEPT ![w] = <<carry[w]>>]
          /\ carry' = [carry EXCEPT ![w] = None]
          /\ UNCHANGED queue
       \/ /\ carry[w] = None /\ queue # <<>>
          /\ batch' = [batch EXCEPT ![w] = <<Head(queue)>>]
          /\ queue' = Tail(queue)
          /\ UNCHANGED carry
    /\ wpc' = [wpc EXCEPT ![w] = "collect"]
    /\ UNCHANGED <<done, pending, producers, tpc, callers, sinks, evicted, sent,
                   faults>>

\* done is closed and there is nothing left.
WorkerExit(w) ==
    /\ wpc[w] = "next" /\ done /\ carry[w] = None /\ queue = <<>>
    /\ wpc' = [wpc EXCEPT ![w] = "exited"]
    /\ UNCHANGED <<queue, done, pending, producers, batch, carry, tpc, callers,
                   sinks, evicted, sent, faults>>

\* The bytes of a batch.
Bytes(s) ==
    LET sum[n \in 0 .. Len(s)] == IF n = 0 THEN 0 ELSE sum[n - 1] + Size[s[n]]
    IN  sum[Len(s)]

\* Mutant: the limit is checked before the item is counted.
HasRoom_BeforeItem(w) == Bytes(batch[w]) <= MaxBatchBytes

\* The next item fits the batch.
HasRoom(w) == Bytes(batch[w]) + Size[Head(queue)] <= MaxBatchBytes

\* Mutant: the item that does not fit is forgotten.
Collect_ForgetsCarry(w) ==
    /\ wpc[w] = "collect" /\ queue # <<>>
    /\ queue' = Tail(queue)
    /\ IF HasRoom(w)
       THEN batch' = [batch EXCEPT ![w] = Append(@, Head(queue))] /\ UNCHANGED wpc
       ELSE wpc' = [wpc EXCEPT ![w] = "write"] /\ UNCHANGED batch
    /\ UNCHANGED <<done, pending, producers, carry, tpc, callers, sinks, evicted,
                   sent, faults>>

\* One round of collectBatch's loop: the item joins the batch, or becomes the
\* carry and ends it.
Collect(w) ==
    /\ wpc[w] = "collect" /\ queue # <<>>
    /\ queue' = Tail(queue)
    /\ \/ /\ HasRoom(w)
          /\ batch' = [batch EXCEPT ![w] = Append(@, Head(queue))]
          /\ UNCHANGED <<wpc, carry>>
       \/ /\ ~HasRoom(w)
          /\ carry' = [carry EXCEPT ![w] = Head(queue)]
          /\ wpc' = [wpc EXCEPT ![w] = "write"]
          /\ UNCHANGED batch
    /\ UNCHANGED <<done, pending, producers, tpc, callers, sinks, evicted, sent,
                   faults>>

\* The queue is empty: the batch is complete.
BatchEnds(w) ==
    /\ wpc[w] = "collect" /\ queue = <<>>
    /\ wpc' = [wpc EXCEPT ![w] = "write"]
    /\ UNCHANGED <<queue, done, pending, producers, batch, carry, tpc, callers,
                   sinks, evicted, sent, faults>>

WriteBatch(w) ==
    /\ wpc[w] = "write"
    /\ WriteSucceeds(batch[w]) \/ WriteFails(batch[w])
    /\ wpc' = [wpc EXCEPT ![w] = "finish"]
    /\ UNCHANGED <<queue, done, pending, producers, batch, carry, tpc, callers,
                   evicted, sent>>

\* Mutant: the carry is counted with the batch it did not fit.
Handled_WithCarry(w) == Len(batch[w]) + (IF carry[w] = None THEN 0 ELSE 1)

\* What finishItems counts: the batch.
Handled(w) == Len(batch[w])

FinishBatch(w) ==
    /\ wpc[w] = "finish"
    /\ FinishItems(Handled(w))
    /\ batch' = [batch EXCEPT ![w] = <<>>]
    /\ wpc' = [wpc EXCEPT ![w] = "next"]
    /\ UNCHANGED <<queue, done, producers, carry, tpc, sinks, evicted, sent,
                   faults>>

-----------------------------------------------------------------------------
(* Flush, Shutdown and the ticker.                                         *)

\* flushSinks: what the targets of ok had in their buffers is stored.
FlushSinks(ok) ==
    /\ stored' = [t \in Targets |->
                    IF t \in ok THEN stored[t] \cup buffered[t] ELSE stored[t]]
    /\ buffered' = [t \in Targets |-> IF t \in ok THEN {} ELSE buffered[t]]
    /\ UNCHANGED <<reported, written>>

\* Some flush fails: the others are still made, the error is returned.
FlushFails ==
    /\ faults < MaxFaults /\ faults' = faults + 1
    /\ \E ok \in SUBSET Targets : ok # Targets /\ FlushSinks(ok)

\* The flusher's select: a tick, picked even if done is closed too, or done.
Tick ==
    /\ tpc = "idle"
    /\ tpc' = "flush"
    /\ UNCHANGED <<queue, done, pending, producers, workers, callers, sinks,
                   evicted, sent, faults>>

FlusherFlushes ==
    /\ tpc = "flush"
    /\ tpc' = "idle"
    /\ \/ FlushSinks(Targets) /\ UNCHANGED faults
       \/ FlushFails
    /\ UNCHANGED <<queue, done, pending, producers, workers, callers, evicted,
                   sent>>

FlusherExit ==
    /\ tpc = "idle" /\ done
    /\ tpc' = "exited"
    /\ UNCHANGED <<queue, done, pending, producers, workers, callers, sinks,
                   evicted, sent, faults>>

\* Flush or Shutdown is called; Shutdown closes done.
Begin(c) ==
    /\ cpc[c] = "idle"
    /\ cpc' = [cpc EXCEPT ![c] = "check"]
    /\ owed' = [owed EXCEPT ![c] = {i \in Items : ret[i] = "accepted"}]
    /\ done' = (done \/ c = Stop)
    /\ UNCHANGED <<queue, pending, producers, workers, tpc, expired, sinks,
                   evicted, sent, faults>>

\* One round of waitForDrain's loop under drainMu: drained, expired, or Wait.
Check(c) ==
    /\ cpc[c] = "check"
    /\ cpc' = [cpc EXCEPT ![c] =
                 CASE pending = 0 -> IF c = Stop THEN "join" ELSE "drained"
                   [] pending # 0 /\ c \in expired -> "failed"
                   [] OTHER -> "asleep"]
    /\ UNCHANGED <<queue, done, pending, producers, workers, tpc, expired, owed,
                   sinks, evicted, sent, faults>>

\* The context expires: its AfterFunc broadcasts under drainMu.
Expire(c) ==
    /\ cpc[c] \in {"check", "asleep", "join"} /\ c \in Deadlines \ expired
    /\ expired' = expired \cup {c}
    /\ Wake
    /\ UNCHANGED <<queue, done, pending, producers, workers, tpc, owed, sinks,
                   evicted, sent, faults>>

\* Shutdown waits for the workers, or for its context.
Join(c) ==
    /\ cpc[c] = "join"
    /\ \/ /\ \A w \in Workers : wpc[w] = "exited"
          /\ cpc' = [cpc EXCEPT ![c] = "drained"]
       \/ /\ c \in expired
          /\ cpc' = [cpc EXCEPT ![c] = "failed"]
    /\ UNCHANGED <<queue, done, pending, producers, workers, tpc, expired, owed,
                   sinks, evicted, sent, faults>>

\* Mutant: the error of a sink's flush is lost.
LastFlush_IgnoresError(c) ==
    /\ cpc[c] = "drained"
    /\ \/ FlushSinks(Targets) /\ UNCHANGED faults
       \/ FlushFails
    /\ cpc' = [cpc EXCEPT ![c] = "ok"]
    /\ UNCHANGED <<queue, done, pending, producers, workers, tpc, expired, owed,
                   evicted, sent>>

\* The flush of the sinks that ends both.
LastFlush(c) ==
    /\ cpc[c] = "drained"
    /\ \/ /\ FlushSinks(Targets) /\ UNCHANGED faults
          /\ cpc' = [cpc EXCEPT ![c] = "ok"]
       \/ /\ FlushFails
          /\ cpc' = [cpc EXCEPT ![c] = "failed"]
    /\ UNCHANGED <<queue, done, pending, producers, workers, tpc, expired, owed,
                   evicted, sent>>

-----------------------------------------------------------------------------
Enqueue(i) ==
    \/ Reserve(i) \/ Send(i) \/ Closed(i) \/ Drop(i) \/ Overfull(i) \/ Evict(i)
    \/ NoVictim(i) \/ Overflow(i) \/ WriteDirect(i) \/ Release(i)

WorkerStep(w) ==
    \/ NextItem(w) \/ WorkerExit(w) \/ Collect(w) \/ BatchEnds(w) \/ WriteBatch(w)
    \/ FinishBatch(w)

CallerStep(c) == Check(c) \/ Join(c) \/ LastFlush(c)

Next ==
    \/ \E i \in Items : Call(i) \/ Enqueue(i)
    \/ \E w \in Workers : WorkerStep(w)
    \/ Tick \/ FlusherFlushes \/ FlusherExit
    \/ \E c \in Callers : Begin(c) \/ Expire(c) \/ CallerStep(c)

Spec == Init /\ [][Next]_vars

\* Goroutines run; a channel serves blocked senders in the order they came,
\* so one that waits for room is served if room is made again and again.
\* Nothing obliges the application to call, or a context to expire.
Fairness ==
    /\ \A i \in Items : WF_vars(Enqueue(i)) /\ SF_vars(Send(i))
    /\ \A w \in Workers : WF_vars(WorkerStep(w))
    /\ \A c \in Callers : WF_vars(CallerStep(c))
    /\ WF_vars(FlusherFlushes)

FairSpec == Spec /\ Fairness

-----------------------------------------------------------------------------
(* Properties.                                                             *)

TypeOK ==
    /\ queue \in Seq(Items) /\ Len(queue) <= QueueSize
    /\ done \in BOOLEAN
    /\ pending \in Nat
    /\ epc \in [Items -> {"new", "reserve", "offer", "evict", "reoffer",
                          "direct", "release", "returned"}]
    /\ ret \in [Items -> {None, "accepted", "closed", "dropped", "failed"}]
    /\ wpc \in [Workers -> {"next", "collect", "write", "finish", "exited"}]
    /\ batch \in [Workers -> Seq(Items)]
    /\ carry \in [Workers -> Items \cup {None}]
    /\ tpc \in {"idle", "flush", "exited"}
    /\ cpc \in [Callers -> {"idle", "check", "asleep", "join", "drained", "ok",
                            "failed"}]
    /\ expired \subseteq Callers
    /\ buffered \in [Targets -> SUBSET Items]
    /\ stored \in [Targets -> SUBSET Items]
    /\ reported \subseteq Items
    /\ evicted \subseteq Items
    /\ sent \in Seq(Items)
    /\ written \in Seq(Items)
    /\ owed \in [Callers -> SUBSET Items]
    /\ faults \in 0 .. MaxFaults

\* The items with a reservation: of an Enqueue that has not returned, on the
\* queue, or with a worker.
InEnqueue == {i \in Items :
                epc[i] \in {"offer", "evict", "reoffer", "direct", "release"}}

WithWorker(w) == ToSet(batch[w]) \cup ({carry[w]} \ {None})

Held == UNION {WithWorker(w) : w \in Workers}

InFlight == InEnqueue \cup ToSet(queue) \cup Held

\* pending is the number of items in flight: the counter never reaches zero
\* early, which would let Flush return before the item is written, and never
\* stays up after the last one, which would let it wait for ever.
DrainAccounting == pending = Cardinality(InFlight)

\* A caller sleeps on the condition variable only while something is pending:
\* the broadcast of the last finishItems is not missed.
NoSleepWhenDrained == \A c \in Callers : cpc[c] = "asleep" => pending > 0

\* Where an item whose write was attempted is, when no error was reported:
\* in every sink, flushed or not.
InSinks(i) == \A t \in Sinks : i \in stored[t] \cup buffered[t]

\* A Flush or Shutdown that returned without an error: every item accepted
\* before the call is stored in all sinks, or was thrown away by DropOldest,
\* or OnError was called for it.
FlushMeansStored ==
    \A c \in Callers : cpc[c] = "ok" =>
        \A i \in owed[c] :
            (\A t \in Sinks : i \in stored[t]) \/ i \in evicted \cup reported

InFallback(i) == \E t \in Fallback : i \in stored[t] \cup buffered[t]

\* An accepted item is in flight, or in the sinks, or was thrown away by
\* DropOldest, or its write failed: then OnError was called for it, and the
\* fallback has it unless it failed too.
NothingVanishes ==
    \A i \in Items : ret[i] = "accepted" =>
        \/ i \in InFlight \cup evicted
        \/ InSinks(i)
        \/ i \in reported /\ (Fallback # {} /\ faults = 1 => InFallback(i))

\* What a worker has not written, and the way from the queue to the sinks: what
\* was written, the batch, its carry, the queue.
Carried(w) == IF carry[w] = None THEN <<>> ELSE <<carry[w]>>
Rest(w) == (IF wpc[w] = "finish" THEN <<>> ELSE batch[w]) \o (Carried(w) \o queue)
Path(w) == written \o Rest(w)

\* With one worker the sinks get the items in the order the queue took them,
\* whatever was thrown away or written past the queue in between: an item the
\* queue took and did not throw away is on the path, once, and none overtakes
\* another by way of the batch and its carry.
InOrder ==
    \A w \in Workers : Workers = {w} =>
        /\ ToSet(Rest(w)) \subseteq ToSet(sent)
        /\ ToSet(sent) \ evicted = ToSet(Path(w)) \cap ToSet(sent)
        /\ \A i, j \in DOMAIN sent, k, l \in DOMAIN Path(w) :
              sent[i] = Path(w)[k] /\ sent[j] = Path(w)[l] => (i < j <=> k < l)

\* "MaxBatchBytes caps the byte size of each sink batch": unless a single item
\* is larger.
BatchWithinLimit ==
    \A w \in Workers : Len(batch[w]) > 1 => Bytes(batch[w]) <= MaxBatchBytes

\* When Shutdown has returned without an error, and Logger.Shutdown closes the
\* sinks, nobody is writing to them: no worker, and no goroutine that found
\* the queue full and writes by itself.
NoWriteAfterClose ==
    \A c \in Callers : c = Stop /\ cpc[c] = "ok" =>
        /\ \A w \in Workers : wpc[w] = "exited"
        /\ \A i \in Items : epc[i] # "direct"

\* A Flush returns as long as nobody shuts the pipeline down.
FlushReturns ==
    \A c \in Callers : cpc[c] = "check" ~> (cpc[c] \in {"ok", "failed"} \/ done)

\* Every accepted item is written, or thrown away by DropOldest, as long as
\* nobody shuts the pipeline down.
AcceptedIsWritten ==
    \A i \in Items : ret[i] = "accepted" ~>
        (i \in ToSet(written) \cup evicted \/ done)

\* "Block ... protects against data loss": an item Enqueue accepted is written,
\* whenever Shutdown is called.
AcceptedIsDelivered ==
    \A i \in Items : ret[i] = "accepted" ~> i \in ToSet(written)

-----------------------------------------------------------------------------
(* The inductive invariant behind DrainAccounting and NoWriteAfterClose.   *)

Unique(s) == \A j, k \in DOMAIN s : s[j] = s[k] => j = k

\* What a worker in one of its states holds.
WorkerOK ==
    \A w \in Workers :
        /\ wpc[w] \in {"next", "exited"} => batch[w] = <<>>
        /\ wpc[w] \in {"collect", "exited"} => carry[w] = None

\* An item on the queue or with a worker has left Enqueue, and is in one place.
Apart ==
    /\ Unique(queue)
    /\ \A i \in ToSet(queue) : epc[i] = "returned"
    /\ \A w \in Workers :
          /\ Unique(batch[w]) /\ carry[w] \notin ToSet(batch[w])
          /\ \A i \in WithWorker(w) : epc[i] = "returned" /\ i \notin ToSet(queue)
          /\ \A v \in Workers \ {w} : WithWorker(v) \cap WithWorker(w) = {}

\* Shutdown has closed done before it waits; past the drain nobody writes by
\* itself, past the join no worker is left.
ClosingOK ==
    Stop \in Callers =>
        /\ cpc[Stop] # "idle" => done
        /\ cpc[Stop] \in {"join", "drained", "ok"} =>
              \A i \in Items : epc[i] # "direct"
        /\ cpc[Stop] \in {"drained", "ok"} =>
              \A w \in Workers : wpc[w] = "exited"

IInv ==
    TypeOK /\ WorkerOK /\ Apart /\ DrainAccounting /\ NoSleepWhenDrained /\ ClosingOK

=============================================================================
