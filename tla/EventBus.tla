------------------------------ MODULE EventBus ------------------------------
(***************************************************************************)
(* Queue mode: the collector publishes events on a bus (internal/eventbus) *)
(* and loza-worker takes them from it (cmd/loza-worker).                   *)
(*                                                                         *)
(* With a bus, a goroutine of the bus hands records to a handler, which    *)
(* puts them on the channel of eventbusQueueReader; the bus acknowledges a *)
(* record as soon as the handler returns.  The loop of the worker polls    *)
(* the channel, processes each record and acknowledges it again.  Without  *)
(* a bus (kind "legacy") the loop polls Kafka itself.                      *)
(*                                                                         *)
(* Records are numbered in the order of publication.  The brokers are      *)
(* external; what is modelled is what the code asks of them: Kafka keeps   *)
(* one committed offset, which a commit may also move back; Redis hands    *)
(* out only what it never handed out (">"); NATS hands out again what is   *)
(* not acknowledged in AckWait, MaxDeliver times in all; the memory bus is *)
(* a channel of the process.                                               *)
(***************************************************************************)
EXTENDS Integers, Sequences, Functions

CONSTANTS
    Kinds,          \* the buses to consider
    MaxPublished,   \* bound on the records published
    BufferSize,     \* of the memory bus
    MaxFetch,       \* records a bus hands over at once
    Capacity,       \* of the reader's channel (1000 in the code)
    MaxDeliver,     \* of NATS (5 in the code)
    Bounds          \* the bounds to consider: [crash, stop, late, fault]

VARIABLES
    kind,
    published,      \* records published
    position,       \* the next record the broker hands out
    committed,      \* Kafka's offset for the group
    unacked,        \* Redis, NATS: handed out and not acknowledged
    deliveries,     \* NATS: how often each record was handed out
    subscribed,     \* the reader has subscribed: "no", "yes", "failed"
    subscriber,     \* the goroutine of the bus: "handle" or "ack"
    fetched,        \* records it has and has not finished
    ch,             \* the reader's channel
    worker,         \* the loop: "top", "poll", "process", "commit"
    polled,         \* records it has and has not finished
    phase,          \* "up", "stopping", "stopped", "down"
    processed,      \* records that were processed
    trace,          \* history: the records processed since the start
    dropped,        \* history: records in the memory of a process that ended
    budget

broker == <<published, position, committed, unacked, deliveries>>
vars == <<kind, broker, subscribed, subscriber, fetched, ch, worker, polled, phase,
          processed, trace, dropped, budget>>

Records == 1 .. MaxPublished
Kafka == kind \in {"kafka", "legacy"}

Init ==
    /\ kind \in Kinds
    /\ published = 0 /\ position = 1 /\ committed = 0
    /\ unacked = {} /\ deliveries = [i \in Records |-> 0]
    /\ subscribed = "no" /\ subscriber = "handle"
    /\ fetched = <<>> /\ ch = <<>>
    /\ worker = "top" /\ polled = <<>> /\ phase = "up"
    /\ processed = {} /\ trace = <<>> /\ dropped = {}
    /\ budget \in Bounds

Spend(d) == budget[d] > 0 /\ budget' = [budget EXCEPT ![d] = @ - 1]

Running == phase \in {"up", "stopping"}

\* n records from the position on.
NextRecords(n) == [i \in 1 .. n |-> position + i - 1]

\* SinkAdapter.WriteEvent.  A batch is published one by one; the memory bus
\* refuses the rest of it when its buffer is full.
Publish ==
    /\ published < MaxPublished
    /\ kind = "memory" => published + 1 - position < BufferSize /\ phase = "up"
    /\ published' = published + 1
    /\ UNCHANGED <<kind, subscribed, position, committed, unacked, deliveries,
                   subscriber, fetched, ch, worker, polled, phase, processed,
                   trace, dropped, budget>>

\* PollFetches, XREADGROUP, iter.Next, the receive of consumeLoop.
Fetch ==
    /\ Running /\ subscribed = "yes" /\ fetched = <<>>
    /\ \E n \in 1 .. (IF kind = "memory" THEN 1 ELSE MaxFetch) :
          /\ position + n - 1 <= published
          /\ fetched' = NextRecords(n)
          /\ position' = position + n
          /\ IF kind \in {"redis", "nats"}
             THEN /\ unacked' = unacked \cup Range(NextRecords(n))
                  /\ deliveries' = [i \in Records |->
                        deliveries[i] + IF i \in Range(NextRecords(n)) THEN 1 ELSE 0]
             ELSE UNCHANGED <<unacked, deliveries>>
    /\ UNCHANGED <<kind, subscribed, published, committed, subscriber, ch,
                   worker, polled, phase, processed, trace, dropped, budget>>

\* NATS: AckWait is over; it is if the process that had the record is gone.
Redeliver(i) ==
    /\ Running /\ subscribed = "yes" /\ kind = "nats"
    /\ i \in unacked /\ deliveries[i] < MaxDeliver
    /\ IF i \in Range(fetched) THEN Spend("late") ELSE UNCHANGED budget
    /\ fetched' = Append(fetched, i)
    /\ deliveries' = [deliveries EXCEPT ![i] = @ + 1]
    /\ UNCHANGED <<kind, subscribed, published, position, committed, unacked,
                   subscriber, ch, worker, polled, phase, processed, trace,
                   dropped>>

\* The acknowledgement of a record.
AckRecord(i) ==
    /\ committed' = IF Kafka THEN i ELSE committed
    /\ unacked' = unacked \ {i}
    /\ UNCHANGED <<published, position, deliveries>>

\* Mutant: a record that finds the channel full is skipped.
Handle_Skip ==
    /\ Running /\ subscriber = "handle" /\ fetched # <<>>
    /\ ch' = IF Len(ch) < Capacity THEN Append(ch, Head(fetched)) ELSE ch
    /\ subscriber' = "ack"
    /\ UNCHANGED <<kind, subscribed, broker, fetched, worker, polled, phase,
                   processed, trace, dropped, budget>>

\* Mutant: the channel has no bound.
Handle_Unbounded ==
    /\ Running /\ subscriber = "handle" /\ fetched # <<>>
    /\ ch' = Append(ch, Head(fetched))
    /\ subscriber' = "ack"
    /\ UNCHANGED <<kind, subscribed, broker, fetched, worker, polled, phase,
                   processed, trace, dropped, budget>>

\* The handler: it waits for room on the channel.
Handle ==
    /\ Running /\ subscriber = "handle" /\ fetched # <<>>
    /\ Len(ch) < Capacity
    /\ ch' = Append(ch, Head(fetched))
    /\ subscriber' = "ack"
    /\ UNCHANGED <<kind, subscribed, broker, fetched, worker, polled, phase,
                   processed, trace, dropped, budget>>

\* The bus, when the handler has returned; its error is not looked at.
Acknowledge ==
    /\ Running /\ subscriber = "ack"
    /\ \/ AckRecord(Head(fetched)) /\ UNCHANGED budget
       \/ Spend("fault") /\ UNCHANGED broker
    /\ fetched' = Tail(fetched)
    /\ subscriber' = "handle"
    /\ UNCHANGED <<kind, subscribed, ch, worker, polled, phase, processed,
                   trace, dropped>>

-----------------------------------------------------------------------------
(* The loop of the worker.                                                 *)

Loop ==
    /\ worker = "top" /\ phase = "up"
    /\ worker' = "poll"
    /\ UNCHANGED <<kind, subscribed, broker, subscriber, fetched, ch, polled,
                   phase, processed, trace, dropped, budget>>

\* The first Poll subscribes; when that fails no later one does, since
\* r.cancel is set.
Subscribe ==
    /\ Running /\ kind # "legacy" /\ worker = "poll" /\ subscribed = "no"
    /\ \/ subscribed' = "yes" /\ UNCHANGED <<worker, budget>>
       \/ kind # "memory" /\ subscribed' = "failed" /\ worker' = "top" /\ Spend("fault")
    /\ UNCHANGED <<kind, broker, subscriber, fetched, ch, polled, phase, processed,
                   trace, dropped>>

\* eventbusQueueReader.Poll: all that is on the channel.
Poll ==
    /\ Running /\ worker = "poll" /\ ch # <<>>
    /\ polled' = ch
    /\ ch' = <<>>
    /\ worker' = "process"
    /\ UNCHANGED <<kind, subscribed, broker, subscriber, fetched, phase,
                   processed, trace, dropped, budget>>

\* kafkaQueueReader.Poll.  When the deadline has passed by the time it looks,
\* it returns nothing and the records it was given are gone.
LegacyPoll ==
    /\ Running /\ kind = "legacy" /\ worker = "poll"
    /\ \E n \in 1 .. MaxFetch :
          /\ position + n - 1 <= published
          /\ position' = position + n
          /\ \/ /\ polled' = NextRecords(n)
                /\ worker' = "process"
                /\ UNCHANGED <<dropped, budget>>
             \/ /\ Spend("late")
                /\ dropped' = dropped \cup Range(NextRecords(n))
                /\ worker' = "top"
                /\ UNCHANGED polled
    /\ UNCHANGED <<kind, subscribed, published, committed, unacked, deliveries,
                   subscriber, fetched, ch, phase, processed, trace>>

\* handleRecord, whatever the result is.
Process ==
    /\ Running /\ worker = "process"
    /\ processed' = processed \cup {Head(polled)}
    /\ trace' = Append(trace, Head(polled))
    /\ worker' = "commit"
    /\ UNCHANGED <<kind, subscribed, broker, subscriber, fetched, ch, polled,
                   phase, dropped, budget>>

\* Mutant: a failed acknowledgement leaves the record to be processed again.
Commit_Retry ==
    /\ Running /\ worker = "commit"
    /\ \/ /\ AckRecord(Head(polled)) /\ polled' = Tail(polled)
          /\ worker' = IF Len(polled) = 1 THEN "top" ELSE "process"
          /\ UNCHANGED budget
       \/ /\ Spend("fault") /\ worker' = "process"
          /\ UNCHANGED <<broker, polled>>
    /\ UNCHANGED <<kind, subscribed, subscriber, fetched, ch, phase, processed,
                   trace, dropped>>

\* Its acknowledgement, which may time out.
Commit ==
    /\ Running /\ worker = "commit"
    /\ \/ AckRecord(Head(polled)) /\ UNCHANGED budget
       \/ Spend("fault") /\ UNCHANGED broker
    /\ polled' = Tail(polled)
    /\ worker' = IF Len(polled) = 1 THEN "top" ELSE "process"
    /\ UNCHANGED <<kind, subscribed, subscriber, fetched, ch, phase, processed,
                   trace, dropped>>

\* A signal cancels the context.
Stop ==
    /\ phase = "up" /\ Spend("stop")
    /\ phase' = "stopping"
    /\ UNCHANGED <<kind, subscribed, broker, subscriber, fetched, ch, worker,
                   polled, processed, trace, dropped>>

\* What the memory of the process holds: all of it on the memory bus.
InMemory ==
    Range(ch) \cup Range(polled) \cup
        CASE kind = "memory" -> Range(fetched) \cup (position .. published)
          [] kind = "redis" -> Range(fetched)
          [] kind = "nats" -> {i \in Range(fetched) : deliveries[i] = MaxDeliver}
          [] OTHER -> {}

\* Mutant: without a committed offset Kafka starts at the end.
Gone_AtEnd ==
    /\ dropped' = dropped \cup (InMemory \ processed)
    /\ position' = CASE Kafka /\ committed > 0 -> committed + 1
                     [] kind \in {"redis", "nats"} -> position
                     [] OTHER -> published + 1
    /\ fetched' = <<>> /\ ch' = <<>> /\ polled' = <<>>
    /\ subscribed' = "no" /\ subscriber' = "handle" /\ worker' = "top"
    /\ trace' = <<>>
    /\ UNCHANGED <<kind, published, committed, unacked, deliveries,
                   processed>>

\* The process ends.  On the next start Kafka resumes after the committed
\* offset, or at the first record if there is none.
Gone ==
    /\ dropped' = dropped \cup (InMemory \ processed)
    /\ position' = CASE Kafka -> committed + 1
                     [] kind = "memory" -> published + 1
                     [] OTHER -> position
    /\ fetched' = <<>> /\ ch' = <<>> /\ polled' = <<>>
    /\ subscribed' = "no" /\ subscriber' = "handle" /\ worker' = "top"
    /\ trace' = <<>>
    /\ UNCHANGED <<kind, published, committed, unacked, deliveries,
                   processed>>

\* The loop ends; reader.Close.  What is on the channel is not looked at.
Exit ==
    /\ phase = "stopping" /\ worker \in {"top", "poll"}
    /\ phase' = "stopped"
    /\ Gone
    /\ UNCHANGED budget

Crash ==
    /\ Running /\ Spend("crash")
    /\ phase' = "down"
    /\ Gone

Restart ==
    /\ phase \in {"stopped", "down"}
    /\ phase' = "up"
    /\ UNCHANGED <<kind, subscribed, broker, subscriber, fetched, ch, worker,
                   polled, processed, trace, dropped, budget>>

-----------------------------------------------------------------------------
Subscriber == Fetch \/ Handle \/ Acknowledge \/ \E i \in Records : Redeliver(i)
Worker == Loop \/ Subscribe \/ Poll \/ LegacyPoll \/ Process \/ Commit \/ Exit

Next == Publish \/ Subscriber \/ Worker \/ Stop \/ Crash \/ Restart

Spec == Init /\ [][Next]_vars

\* The two goroutines run and a process that ended is started again; nothing
\* obliges the collector to publish.
FairSpec == Spec /\ WF_vars(Subscriber) /\ WF_vars(Worker) /\ WF_vars(Restart)

-----------------------------------------------------------------------------
TypeOK ==
    /\ kind \in Kinds
    /\ published \in 0 .. MaxPublished /\ position \in 1 .. published + 1
    /\ committed \in 0 .. published
    /\ unacked \subseteq 1 .. published /\ deliveries \in [Records -> 0 .. MaxDeliver]
    /\ subscribed \in {"no", "yes", "failed"}
    /\ subscriber \in {"handle", "ack"} /\ worker \in {"top", "poll", "process", "commit"}
    /\ phase \in {"up", "stopping", "stopped", "down"}
    /\ {fetched, ch, polled, trace} \subseteq Seq(1 .. published)
    /\ Len(ch) <= Capacity
    /\ processed \cup dropped \subseteq 1 .. published

\* The records the broker will not hand out again.
Done ==
    {i \in 1 .. published :
        CASE Kafka -> i <= committed
          [] kind = "memory" -> i < position
          [] OTHER -> i < position /\ i \notin unacked}

InHand == Range(fetched) \cup Range(ch) \cup Range(polled)

\* A record that the broker considers done is lost only with the memory of a
\* process that ended, or to a poll that came too late; otherwise it has been
\* processed or the worker still has it, however full the channel is and
\* whichever acknowledgement fails or moves Kafka's offset back.
LostOnlyInMemory == Done \subseteq processed \cup InHand \cup dropped

\* As long as the process lives, records are processed in the order they were
\* published and none of them twice, although each is acknowledged twice and
\* the second acknowledgement may move Kafka's offset back.
InOrderOnce ==
    kind # "nats" => \A i, j \in DOMAIN trace : i < j => trace[i] < trace[j]

AllSettled == subscribed = "failed" \/ 1 .. published \subseteq processed \cup dropped

\* In the end (the collector publishes MaxPublished records at most) every
\* record is processed, unless it was lost in the memory of a process that
\* ended: a restart resumes where the broker has records left.  A process whose
\* one attempt to subscribe failed lives on and takes nothing.
RecordsProcessed == <>[]AllSettled

=============================================================================
