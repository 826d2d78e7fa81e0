----------------------------- MODULE RustLogger -----------------------------
(***************************************************************************)
(* The Rust SDK's logger with async delivery (sdks/rs/src/logger.rs,       *)
(* event.rs, sink.rs, internal/queue): clones of an event share one        *)
(* lifecycle, emit puts the encoded event on a bounded channel, one worker *)
(* thread batches what it receives and writes each batch to every sink.    *)
(* Flush and shutdown are commands on the same channel.                    *)
(***************************************************************************)
EXTENDS Integers, Sequences, FiniteSets

CONSTANTS
    Events,
    Threads,      \* application threads, each with a clone of an event
    Worlds,       \* records [event, call]: what each thread does
    Sinks,        \* a sequence, the order they are configured in
    Callers,      \* calls of flush and shutdown
    Stop,         \* the one that is shutdown
    QueueSize, BatchSize, MaxAttempts, MaxFaults

VARIABLES
    world,
    state,        \* [Events -> the shared lifecycle]
    tpc,          \* control state of every thread
    checked,      \* the lifecycle it read
    channel,      \* of records [kind, of]
    receiver,     \* the receiving end exists
    batcher,
    work,         \* the worker's hand: [events, sink, attempt, reply]
    cpc,          \* control state of every caller
    got,          \* [Sinks -> the events it took, in order]
    sent,         \* history: the events the channel took, in order
    failed,       \* history: <<event, caller or "none">> of the failed batches
    abandoned,    \* history: events in the channel when its worker left
    raced,        \* history: events whose lifecycle changed under a thread
    owed,         \* history: what was sent when a caller made its call
    faults

runtime == <<channel, receiver, batcher, work>>
sinks == <<got, failed>>
vars == <<world, state, tpc, checked, runtime, cpc, sinks, sent, abandoned, raced,
          owed, faults>>

Calls == {"emit", "invalid", "sampled", "oversize", "finish"}
Open == {"created", "finished"}     \* and active, which differs in nothing here
ToSet(s) == {s[i] : i \in DOMAIN s}
Idle == [events |-> <<>>, sink |-> 0, attempt |-> 0, reply |-> "idle"]

Init ==
    /\ world \in Worlds
    /\ state = [e \in Events |-> "created"]
    /\ tpc = [t \in Threads |-> "new"]
    /\ checked = [t \in Threads |-> "created"]
    /\ channel = <<>> /\ receiver = TRUE
    /\ batcher = <<>> /\ work = Idle
    /\ cpc = [c \in Callers |-> "new"]
    /\ got = [s \in DOMAIN Sinks |-> <<>>]
    /\ sent = <<>> /\ failed = {} /\ abandoned = {} /\ raced = {}
    /\ owed = [c \in Callers |-> {}]
    /\ faults = 0

-----------------------------------------------------------------------------
\* The threads.

Ev(t) == world.event[t]
Call(t) == world.call[t]

\* emit_inner first reads the lifecycle; finish does in ensure_mutable.
Check(t) ==
    /\ tpc[t] = "new"
    /\ checked' = [checked EXCEPT ![t] = state[Ev(t)]]
    /\ tpc' = [tpc EXCEPT ![t] =
          IF state[Ev(t)] \in Open THEN "checked"
          ELSE IF state[Ev(t)] = "emitted" /\ Call(t) # "finish" THEN "ok" ELSE "closed"]
    /\ UNCHANGED <<world, state, runtime, cpc, sinks, sent, abandoned, raced, owed, faults>>

\* set_lifecycle overwrites whatever the lifecycle has become.
SetState(t, s) ==
    /\ state' = [state EXCEPT ![Ev(t)] = s]
    /\ raced' = IF state[Ev(t)] # checked[t] THEN raced \cup {Ev(t)} ELSE raced

\* validate fails for this clone, the sampler leaves it out, or finish.
Mark(t) ==
    /\ tpc[t] = "checked"
    /\ \/ Call(t) = "invalid" /\ SetState(t, "failed_validation")
       \/ Call(t) = "sampled" /\ SetState(t, "emitted")
       \/ Call(t) = "finish" /\ SetState(t, "finished")
    /\ tpc' = [tpc EXCEPT ![t] = IF Call(t) = "invalid" THEN "error" ELSE "ok"]
    /\ UNCHANGED <<world, checked, runtime, cpc, sinks, sent, abandoned, owed, faults>>

\* Mutant: the lifecycle that was read before is trusted.
BeginEmit_Unchecked(t) ==
    /\ tpc[t] = "checked"
    /\ Call(t) \in {"emit", "oversize"}
    /\ state' = [state EXCEPT ![Ev(t)] = "emitting"]
    /\ tpc' = [tpc EXCEPT ![t] = "emitting"]
    /\ UNCHANGED <<world, checked, runtime, cpc, sinks, sent, abandoned, raced, owed, faults>>

\* begin_emit checks and sets under the lifecycle's lock.
BeginEmit(t) ==
    /\ tpc[t] = "checked"
    /\ Call(t) \in {"emit", "oversize"}
    /\ IF state[Ev(t)] \in Open
       THEN /\ state' = [state EXCEPT ![Ev(t)] = "emitting"]
            /\ tpc' = [tpc EXCEPT ![t] = "emitting"]
       ELSE /\ tpc' = [tpc EXCEPT ![t] = "closed"]
            /\ UNCHANGED state
    /\ UNCHANGED <<world, checked, runtime, cpc, sinks, sent, abandoned, raced, owed, faults>>

Oversize(t) ==
    /\ tpc[t] = "emitting" /\ Call(t) = "oversize"
    /\ state' = [state EXCEPT ![Ev(t)] = "failed_validation"]
    /\ tpc' = [tpc EXCEPT ![t] = "error"]
    /\ UNCHANGED <<world, checked, runtime, cpc, sinks, sent, abandoned, raced, owed, faults>>

\* A send blocks while the channel is full, and fails when the receiver is gone.
Put(kind, of) ==
    /\ receiver
    /\ Len(channel) < QueueSize
    /\ channel' = Append(channel, [kind |-> kind, of |-> of])
    /\ UNCHANGED <<receiver, batcher, work>>

Enqueue(t) ==
    /\ tpc[t] = "emitting" /\ Call(t) = "emit"
    /\ Put("event", Ev(t))
    /\ sent' = Append(sent, Ev(t))
    /\ tpc' = [tpc EXCEPT ![t] = "sent"]
    /\ UNCHANGED <<world, state, checked, cpc, sinks, abandoned, raced, owed, faults>>

\* The error leaves the event emitting for ever.
EnqueueFails(t) ==
    /\ tpc[t] = "emitting" /\ Call(t) = "emit"
    /\ ~ receiver
    /\ tpc' = [tpc EXCEPT ![t] = "error"]
    /\ UNCHANGED <<world, state, checked, runtime, cpc, sinks, sent, abandoned, raced,
                   owed, faults>>

\* mark_delivery_accepted
Accepted(t) ==
    /\ tpc[t] = "sent"
    /\ state' = [state EXCEPT ![Ev(t)] = "emitted"]
    /\ tpc' = [tpc EXCEPT ![t] = "ok"]
    /\ UNCHANGED <<world, checked, runtime, cpc, sinks, sent, abandoned, raced, owed, faults>>

-----------------------------------------------------------------------------
\* AsyncRuntime::flush and shutdown.

Ask(c) ==
    /\ cpc[c] = "new"
    /\ Put(IF c = Stop THEN "shutdown" ELSE "flush", c)
    /\ cpc' = [cpc EXCEPT ![c] = "wait"]
    /\ owed' = [owed EXCEPT ![c] = ToSet(sent)]
    /\ UNCHANGED <<world, state, tpc, checked, sinks, sent, abandoned, raced, faults>>

\* The send fails, or the reply's sender is dropped with the channel.
AskFails(c) ==
    /\ ~ receiver
    /\ \/ cpc[c] = "new"
       \/ cpc[c] = "wait" /\ \E i \in DOMAIN channel : channel[i].of = c
    /\ cpc' = [cpc EXCEPT ![c] = "error"]
    /\ UNCHANGED <<world, state, tpc, checked, runtime, sinks, sent, abandoned, raced,
                   owed, faults>>

-----------------------------------------------------------------------------
\* run_async_worker.

\* A flush_batch begins: nothing to do for an empty batch.
Begin(events, reply) ==
    work' = [events |-> events, sink |-> 1, attempt |-> 1, reply |-> reply]

\* Mutant: the event that does not fit is not in the next batch.
Push_DropsLast(e) ==
    IF Len(batcher) >= BatchSize
    THEN Begin(batcher, "none") /\ batcher' = <<>>
    ELSE batcher' = Append(batcher, e) /\ UNCHANGED work

\* Mutant: the event that does not fit overtakes the batch.
Push_Overtakes(e) ==
    IF Len(batcher) >= BatchSize
    THEN Begin(<<e>>, "none") /\ UNCHANGED batcher
    ELSE batcher' = Append(batcher, e) /\ UNCHANGED work

\* ByteBatcher::push
Push(e) ==
    IF Len(batcher) >= BatchSize
    THEN Begin(batcher, "none") /\ batcher' = <<e>>
    ELSE batcher' = Append(batcher, e) /\ UNCHANGED work

Recv ==
    /\ receiver /\ work = Idle
    /\ channel # <<>>
    /\ channel' = Tail(channel)
    /\ IF Head(channel).kind = "event" THEN Push(Head(channel).of)
       ELSE Begin(batcher, Head(channel).of) /\ batcher' = <<>>
    /\ UNCHANGED <<world, state, tpc, checked, receiver, cpc, sinks, sent, abandoned,
                   raced, owed, faults>>

InChannel == {channel[i].of : i \in {j \in DOMAIN channel : channel[j].kind = "event"}}
Writing == work.reply # "idle" /\ work.events # <<>> /\ work.sink <= Len(Sinks)

\* The sink takes the batch and says so.
Written ==
    /\ Writing
    /\ got' = [got EXCEPT ![work.sink] = @ \o work.events]
    /\ work' = [work EXCEPT !.sink = @ + 1, !.attempt = 1]
    /\ UNCHANGED <<world, state, tpc, checked, channel, receiver, batcher, cpc, failed,
                   sent, abandoned, raced, owed, faults>>

Fault ==
    /\ faults < MaxFaults
    /\ faults' = faults + 1

\* The first n events of the batch get there, although the sink says no.
Partly(n) ==
    got' = [got EXCEPT ![work.sink] = @ \o SubSeq(work.events, 1, n)]

\* A transport error, also after the collector took the batch, or an answer
\* that may be retried: the whole batch is sent again.
Retry(n) ==
    /\ Writing /\ Fault
    /\ work.attempt < MaxAttempts
    /\ Partly(n)
    /\ work' = [work EXCEPT !.attempt = @ + 1]
    /\ UNCHANGED <<world, state, tpc, checked, channel, receiver, batcher, cpc, failed,
                   sent, abandoned, raced, owed>>

\* Mutant: the caller hears nothing of the error.
Reply_Ok(result) ==
    cpc' = IF work.reply \in Callers THEN [cpc EXCEPT ![work.reply] = "ok"] ELSE cpc

Reply(result) ==
    cpc' = IF work.reply \in Callers THEN [cpc EXCEPT ![work.reply] = result] ELSE cpc

\* The worker's loop ends with the shutdown command, whatever its result.
Leave ==
    /\ work' = Idle
    /\ IF work.reply = Stop
       THEN receiver' = FALSE /\ abandoned' = InChannel
       ELSE UNCHANGED <<receiver, abandoned>>

\* The last attempt fails, the answer is final or the sink is paused: the sinks
\* after it do not get the batch, and when no caller waits nobody hears of it.
WriteFails(n) ==
    /\ Writing /\ Fault
    /\ Partly(n)
    /\ failed' = failed \cup (ToSet(work.events) \X {work.reply})
    /\ Reply("error") /\ Leave
    /\ UNCHANGED <<world, state, tpc, checked, channel, batcher, sent, raced, owed>>

\* flush_sinks and close_sinks do nothing for these sinks.
BatchDone ==
    /\ work.reply # "idle" /\ ~ Writing
    /\ Reply("ok") /\ Leave
    /\ UNCHANGED <<world, state, tpc, checked, channel, batcher, sinks, sent, raced,
                   owed, faults>>

Next ==
    \/ \E t \in Threads :
          \/ Check(t) \/ Mark(t) \/ BeginEmit(t) \/ Oversize(t) \/ Enqueue(t)
          \/ EnqueueFails(t) \/ Accepted(t)
    \/ \E c \in Callers : Ask(c) \/ AskFails(c)
    \/ Recv \/ Written \/ BatchDone
    \/ \E n \in 0 .. Len(work.events) : Retry(n) \/ WriteFails(n)

Spec == Init /\ [][Next]_vars

-----------------------------------------------------------------------------
TypeOK ==
    /\ world \in Worlds
    /\ state \in [Events -> {"created", "finished", "emitting", "emitted",
                             "failed_validation"}]
    /\ tpc \in [Threads -> {"new", "checked", "emitting", "sent", "ok", "error", "closed"}]
    /\ Len(channel) <= QueueSize /\ Len(batcher) <= BatchSize
    /\ receiver \in BOOLEAN
    /\ work.attempt \in 0 .. MaxAttempts /\ work.sink \in 0 .. Len(Sinks) + 1
    /\ cpc \in [Callers -> {"new", "wait", "ok", "error"}]
    /\ failed \subseteq Events \X (Callers \cup {"none"})
    /\ ToSet(sent) \cup abandoned \cup raced \subseteq Events

Everywhere(e) == \A s \in DOMAIN Sinks : e \in ToSet(got[s])
InHand == ToSet(batcher) \cup ToSet(work.events)
Queued == IF receiver THEN InChannel ELSE abandoned
Failed(e) == \E f \in failed : f[1] = e

\* What the channel took is in it, with the worker or in every sink, or its
\* batch failed; only what came after the shutdown command is left behind.
SentIsKept ==
    \A e \in ToSet(sent) : e \in Queued \cup InHand \/ Failed(e) \/ Everywhere(e)

\* When flush or shutdown has returned Ok, what was sent before it is in every
\* sink, or was in an earlier batch that failed, which another caller or
\* nobody was told.
FlushedIsWritten ==
    \A c \in Callers : cpc[c] = "ok" =>
        \A e \in owed[c] : Everywhere(e) \/ \E o \in (Callers \cup {"none"}) \ {c} : <<e, o>> \in failed

\* A sink sees the events for the first time in the order of the channel,
\* whatever is sent to it again.
First(s) ==
    SelectSeq([i \in DOMAIN s |-> IF \E j \in 1 .. i - 1 : s[j] = s[i] THEN 0 ELSE i],
              LAMBDA i : i # 0)
InOrder ==
    \A s \in DOMAIN Sinks :
        LET firsts == First(got[s])
            Place(e) == CHOOSE i \in DOMAIN sent :
                            sent[i] = e /\ \A j \in 1 .. i - 1 : sent[j] # e
        IN \A i \in 1 .. Len(firsts) - 1 :
              Place(got[s][firsts[i]]) < Place(got[s][firsts[i + 1]])

\* Of all the clones one emit sends the event, and the lifecycle ends emitted
\* when it was sent; unless another clone's finish, failed validation or
\* sampling wrote the lifecycle over what it had become since it was read.
SentOnce ==
    \A e \in Events \ raced :
        /\ Cardinality({i \in DOMAIN sent : sent[i] = e}) <= 1
        /\ e \in ToSet(sent) => state[e] = "emitted" \/ \E t \in Threads : Ev(t) = e /\ tpc[t] = "sent"

=============================================================================
