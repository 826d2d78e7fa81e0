--------------------------- MODULE EventBusProofs ---------------------------
(***************************************************************************)
(* What a bus considers done is lost only with the memory of a process     *)
(* that ended, and records are processed in order and once, for every      *)
(* bus, every size of its channels and any faults and restarts.            *)
(***************************************************************************)
EXTENDS EventBus, TLAPS

-----------------------------------------------------------------------------
(* The invariant.                                                          *)

\* What the proofs ask of the constants.
ConstantsOK ==
    /\ Kinds \subseteq {"memory", "kafka", "legacy", "redis", "nats"}
    /\ MaxPublished \in Nat /\ MaxFetch \in Nat /\ Capacity \in Nat
    /\ MaxDeliver \in Nat \ {0}

\* Records that a crash cannot take from the worker's side without a trace.
Held == processed \cup dropped \cup Range(ch) \cup Range(polled)

\* The first record the handler was not given yet: the goroutine of the bus has
\* the records before the position, in order.
Front == position - Len(fetched) + (IF subscriber = "ack" THEN 1 ELSE 0)

\* Records that were polled and are not processed.
Todo == IF worker = "commit" THEN Range(Tail(polled)) ELSE Range(polled)

Rising(s) == \A i, j \in DOMAIN s : i < j => s[i] < s[j]
Below(S, T) == \A x \in S, y \in T : x < y

\* The two goroutines and what they have.
Hands ==
    /\ worker \in {"top", "poll"} <=> polled = <<>>
    /\ worker = "commit" => Head(polled) \in processed
    /\ subscriber = "ack" => fetched # <<>> /\ Head(fetched) \in Held
    /\ kind = "legacy" =>
          subscribed = "no" /\ fetched = <<>> /\ ch = <<>> /\ subscriber = "handle"

\* A bus that hands out each record once to a process does so in order.
Consecutive ==
    kind # "nats" =>
        \A k \in DOMAIN fetched : fetched[k] = position - Len(fetched) + k - 1

\* What is behind the front is held, or not acknowledged.
Settled ==
    /\ kind \in {"memory", "kafka", "legacy"} =>
          \A i \in 1 .. published : i < Front => i \in Held
    /\ kind \in {"redis", "nats"} =>
          \A i \in 1 .. published : i < position /\ i \notin unacked => i \in Held
    /\ Kafka => committed < Front

\* Records come through the channel and the worker in order.
Queued ==
    kind # "nats" =>
        /\ Rising(trace) /\ Rising(polled) /\ Rising(ch)
        /\ Below(Range(trace), Todo)
        /\ Below(Range(trace) \cup Range(polled), Range(ch))
        /\ \A x \in Range(trace) \cup Range(polled) \cup Range(ch) : x < Front

\* A record that was not handed out has no deliveries and is not waited for.
Counted ==
    kind \in {"redis", "nats"} =>
        \A i \in Records : i >= position => deliveries[i] = 0 /\ i \notin unacked

BInv == TypeOK /\ Hands /\ Consecutive /\ Settled /\ Queued /\ Counted

-----------------------------------------------------------------------------
(* Sequences.                                                              *)

\* The set of a sequence.
LEMMA RangeFacts ==
    ASSUME NEW S, NEW s \in Seq(S)
    PROVE  /\ DOMAIN s = 1 .. Len(s) /\ Len(s) \in Nat
           /\ \A i \in DOMAIN s : s[i] \in Range(s) /\ s[i] \in S
           /\ \A x \in Range(s) : \E i \in DOMAIN s : x = s[i]
           /\ Range(s) \subseteq S
  BY DEF Range

\* The empty sequence.
LEMMA EmptyFacts == DOMAIN <<>> = {} /\ Range(<<>>) = {} /\ Len(<<>>) = 0 /\ \A S : <<>> \in Seq(S)
  BY DEF Range

\* A sequence of a set is one of any larger set.
LEMMA SeqGrows ==
    ASSUME NEW S, NEW T, S \subseteq T, NEW s \in Seq(S)
    PROVE  s \in Seq(T)
  OBVIOUS

\* A record appended.
LEMMA AppendFacts ==
    ASSUME NEW S, NEW s \in Seq(S), NEW e \in S
    PROVE  /\ Append(s, e) \in Seq(S) /\ Len(Append(s, e)) = Len(s) + 1
           /\ \A i \in 1 .. Len(s) : Append(s, e)[i] = s[i]
           /\ Append(s, e)[Len(s) + 1] = e
           /\ Range(Append(s, e)) = Range(s) \cup {e}
  <1>1. /\ Append(s, e) \in Seq(S) /\ Len(Append(s, e)) = Len(s) + 1
        /\ \A i \in 1 .. Len(s) : Append(s, e)[i] = s[i]
        /\ Append(s, e)[Len(s) + 1] = e
    OBVIOUS
  <1>2. DOMAIN Append(s, e) = 1 .. Len(s) + 1 /\ DOMAIN s = 1 .. Len(s) /\ Len(s) \in Nat
    BY <1>1
  <1>3. ASSUME NEW x \in Range(Append(s, e))
        PROVE  x \in Range(s) \cup {e}
    <2>1. PICK i \in 1 .. Len(s) + 1 : x = Append(s, e)[i]
      BY <1>2, <1>3 DEF Range
    <2>2. i \in 1 .. Len(s) \/ i = Len(s) + 1
      BY <1>2
    <2>3. QED
      BY <1>1, <1>2, <2>1, <2>2 DEF Range
  <1>4. e \in Range(Append(s, e))
    <2>1. Len(s) + 1 \in DOMAIN Append(s, e)
      BY <1>2
    <2>2. QED
      BY <1>1, <2>1 DEF Range
  <1>5. ASSUME NEW x \in Range(s)
        PROVE  x \in Range(Append(s, e))
    <2>1. PICK i \in 1 .. Len(s) : x = s[i]
      BY <1>2, <1>5 DEF Range
    <2>2. i \in DOMAIN Append(s, e) /\ Append(s, e)[i] = x
      BY <1>1, <1>2, <2>1
    <2>3. QED
      BY <2>2 DEF Range
  <1>6. QED
    BY <1>1, <1>3, <1>4, <1>5

\* A record taken off.
LEMMA TakeFacts ==
    ASSUME NEW S, NEW s \in Seq(S), s # <<>>
    PROVE  /\ Head(s) \in S /\ Head(s) = s[1] /\ 1 \in DOMAIN s
           /\ Tail(s) \in Seq(S) /\ Len(Tail(s)) = Len(s) - 1
           /\ \A i \in DOMAIN Tail(s) : Tail(s)[i] = s[i + 1] /\ i + 1 \in DOMAIN s
           /\ Range(s) = {Head(s)} \cup Range(Tail(s))
  <1>1. /\ Head(s) \in S /\ Head(s) = s[1] /\ 1 \in DOMAIN s
        /\ Tail(s) \in Seq(S) /\ Len(Tail(s)) = Len(s) - 1
        /\ \A i \in DOMAIN Tail(s) : Tail(s)[i] = s[i + 1] /\ i + 1 \in DOMAIN s
    OBVIOUS
  <1>2. ASSUME NEW i \in DOMAIN s, i # 1
        PROVE  i - 1 \in DOMAIN Tail(s) /\ Tail(s)[i - 1] = s[i]
    BY <1>1, <1>2
  <1>3. ASSUME NEW x \in Range(s)
        PROVE  x \in {Head(s)} \cup Range(Tail(s))
    <2>1. PICK i \in DOMAIN s : x = s[i]
      BY <1>3 DEF Range
    <2>2. CASE i = 1
      BY <1>1, <2>1, <2>2
    <2>3. CASE i # 1
      BY <1>2, <2>1, <2>3 DEF Range
    <2>4. QED
      BY <2>2, <2>3
  <1>4. ASSUME NEW x \in {Head(s)} \cup Range(Tail(s))
        PROVE  x \in Range(s)
    <2>1. CASE x = Head(s)
      BY <1>1, <2>1 DEF Range
    <2>2. CASE x \in Range(Tail(s))
      <3>1. PICK i \in DOMAIN Tail(s) : x = Tail(s)[i]
        BY <2>2 DEF Range
      <3>2. QED
        BY <1>1, <3>1 DEF Range
    <2>3. QED
      BY <1>4, <2>1, <2>2
  <1>5. Range(s) = {Head(s)} \cup Range(Tail(s))
    BY <1>3, <1>4
  <1>6. QED
    BY <1>1, <1>5

\* The records that a bus hands over are those from the position on, in order.
LEMMA NextFacts ==
    ASSUME NEW n \in Nat \ {0}, position \in Nat \ {0}, published \in Nat,
           position + n - 1 <= published
    PROVE  /\ NextRecords(n) \in Seq(1 .. published) /\ Len(NextRecords(n)) = n
           /\ NextRecords(n) # <<>> /\ Rising(NextRecords(n))
           /\ \A k \in DOMAIN NextRecords(n) : NextRecords(n)[k] = position + k - 1
           /\ Range(NextRecords(n)) = position .. position + n - 1
  <1>1. /\ DOMAIN NextRecords(n) = 1 .. n
        /\ \A k \in 1 .. n : NextRecords(n)[k] = position + k - 1
    BY DEF NextRecords
  <1>2. NextRecords(n) \in [1 .. n -> 1 .. published]
    <2>1. \A k \in 1 .. n : position + k - 1 \in 1 .. published
      OBVIOUS
    <2>2. QED
      BY <2>1 DEF NextRecords
  <1>3. NextRecords(n) \in Seq(1 .. published) /\ Len(NextRecords(n)) = n
    BY <1>1, <1>2
  <1>4. Rising(NextRecords(n))
    BY <1>1 DEF Rising
  <1>5. ASSUME NEW x \in position .. position + n - 1
        PROVE  x \in Range(NextRecords(n))
    <2>1. x - position + 1 \in 1 .. n
      BY <1>5
    <2>2. NextRecords(n)[x - position + 1] = x
      BY <1>1, <1>5, <2>1
    <2>3. QED
      BY <1>1, <2>1, <2>2 DEF Range
  <1>6. Range(NextRecords(n)) \subseteq position .. position + n - 1
    BY <1>1 DEF Range
  <1>7. NextRecords(n) # <<>>
    BY <1>3
  <1>8. QED
    BY <1>1, <1>3, <1>4, <1>5, <1>6, <1>7

-----------------------------------------------------------------------------
(* Types.                                                                  *)

\* The type invariant, conjunct by conjunct.
Typed ==
    /\ kind \in Kinds
    /\ published \in 0 .. MaxPublished /\ position \in 1 .. published + 1
    /\ committed \in 0 .. published
    /\ unacked \subseteq 1 .. published /\ deliveries \in [Records -> 0 .. MaxDeliver]
    /\ subscribed \in {"no", "yes", "failed"}
    /\ subscriber \in {"handle", "ack"} /\ worker \in {"top", "poll", "process", "commit"}
    /\ phase \in {"up", "stopping", "stopped", "down"}
    /\ fetched \in Seq(1 .. published) /\ ch \in Seq(1 .. published)
    /\ polled \in Seq(1 .. published) /\ trace \in Seq(1 .. published)
    /\ Len(ch) <= Capacity
    /\ processed \subseteq 1 .. published /\ dropped \subseteq 1 .. published

\* It is the same.
LEMMA TypedTypeOK == (TypeOK <=> Typed) /\ (TypeOK' <=> Typed')
  BY DEF TypeOK, Typed

\* Numbers are numbers.
LEMMA Numbers ==
    ASSUME ConstantsOK, TypeOK
    PROVE  /\ published \in Nat /\ position \in Nat \ {0} /\ committed \in Nat
           /\ kind \in {"memory", "kafka", "legacy", "redis", "nats"}
           /\ 1 .. published \subseteq Records /\ \A i \in 1 .. published : i \in Nat
           /\ Len(fetched) \in Nat /\ Len(ch) \in Nat /\ Len(polled) \in Nat
  <1>1. Typed
    BY TypedTypeOK
  <1>2. MaxPublished \in Nat /\ Kinds \subseteq {"memory", "kafka", "legacy", "redis", "nats"}
    BY DEF ConstantsOK
  <1>3. published \in Nat /\ position \in Nat \ {0} /\ committed \in Nat
    BY <1>1, <1>2 DEF Typed
  <1>4. kind \in {"memory", "kafka", "legacy", "redis", "nats"}
    BY <1>1, <1>2 DEF Typed
  <1>5. 1 .. published \subseteq Records /\ \A i \in 1 .. published : i \in Nat
    BY <1>1, <1>2, <1>3 DEF Typed, Records
  <1>6. Len(fetched) \in Nat /\ Len(ch) \in Nat /\ Len(polled) \in Nat
    BY <1>1, RangeFacts DEF Typed
  <1>7. QED
    BY <1>3, <1>4, <1>5, <1>6

\* Every acknowledgement is of a record.
LEMMA AckTyped ==
    ASSUME ConstantsOK, TypeOK, NEW i \in 1 .. published,
           AckRecord(i) \/ UNCHANGED broker
    PROVE  /\ published' = published /\ position' = position /\ deliveries' = deliveries
           /\ committed' \in 0 .. published /\ unacked' \subseteq 1 .. published
  BY Numbers, TypedTypeOK DEF Typed, AckRecord, broker

\* What the memory of the process holds are records.
LEMMA MemoryTyped ==
    ASSUME ConstantsOK, TypeOK
    PROVE  InMemory \subseteq 1 .. published
  <1>1. /\ Range(ch) \subseteq 1 .. published /\ Range(polled) \subseteq 1 .. published
        /\ Range(fetched) \subseteq 1 .. published
    BY TypedTypeOK, RangeFacts DEF Typed
  <1>2. position .. published \subseteq 1 .. published
    BY Numbers
  <1>3. QED
    BY <1>1, <1>2, Numbers DEF InMemory

\* Every action keeps the types.
LEMMA TypeStep ==
    ASSUME ConstantsOK, TypeOK, Hands, Counted, [Next]_vars
    PROVE  TypeOK'
  <1> SUFFICES Typed'
    BY TypedTypeOK
  <1>t. Typed
    BY TypedTypeOK
  <1>n. /\ published \in Nat /\ position \in Nat \ {0} /\ committed \in Nat
        /\ kind \in {"memory", "kafka", "legacy", "redis", "nats"}
        /\ 1 .. published \subseteq Records /\ \A i \in 1 .. published : i \in Nat
        /\ MaxPublished \in Nat /\ MaxFetch \in Nat /\ Capacity \in Nat
        /\ MaxDeliver \in Nat \ {0}
    BY Numbers DEF ConstantsOK
  <1>m. InMemory \subseteq 1 .. published
    BY MemoryTyped
  <1>e. <<>> \in Seq(1 .. published) /\ Len(<<>>) <= Capacity
    BY <1>n, EmptyFacts
  <1>1. CASE Publish
    <2>1. /\ published' = published + 1 /\ published < MaxPublished
          /\ UNCHANGED <<kind, subscribed, position, committed, unacked, deliveries,
                         subscriber, fetched, ch, worker, polled, phase, processed,
                         trace, dropped>>
      BY <1>1 DEF Publish
    <2>2. 1 .. published \subseteq 1 .. published' /\ published' \in 0 .. MaxPublished
          /\ position \in 1 .. published' + 1 /\ committed \in 0 .. published'
      BY <1>t, <1>n, <2>1 DEF Typed
    <2>3. /\ fetched \in Seq(1 .. published') /\ ch \in Seq(1 .. published')
          /\ polled \in Seq(1 .. published') /\ trace \in Seq(1 .. published')
      BY <1>t, <2>2, SeqGrows DEF Typed
    <2>4. /\ unacked \subseteq 1 .. published' /\ processed \subseteq 1 .. published'
          /\ dropped \subseteq 1 .. published'
      BY <1>t, <2>2 DEF Typed
    <2>5. QED
      BY <1>t, <2>1, <2>2, <2>3, <2>4 DEF Typed
  <1>2. CASE Fetch
    <2>1. PICK n \in 1 .. (IF kind = "memory" THEN 1 ELSE MaxFetch) :
             /\ position + n - 1 <= published
             /\ fetched' = NextRecords(n)
             /\ position' = position + n
             /\ IF kind \in {"redis", "nats"}
                THEN /\ unacked' = unacked \cup Range(NextRecords(n))
                     /\ deliveries' = [i \in Records |->
                           deliveries[i] + IF i \in Range(NextRecords(n)) THEN 1 ELSE 0]
                ELSE UNCHANGED <<unacked, deliveries>>
      BY <1>2 DEF Fetch
    <2>2. n \in Nat \ {0}
      BY <1>n
    <2>3. /\ NextRecords(n) \in Seq(1 .. published)
          /\ Range(NextRecords(n)) = position .. position + n - 1
      BY <1>n, <2>1, <2>2, NextFacts
    <2>4. position' \in 1 .. published + 1 /\ position .. position + n - 1 \subseteq 1 .. published
      BY <1>n, <2>1, <2>2
    <2>5. unacked' \subseteq 1 .. published
      BY <1>t, <2>1, <2>3, <2>4 DEF Typed
    <2>6. deliveries' \in [Records -> 0 .. MaxDeliver]
      <3>1. CASE kind \in {"redis", "nats"}
        <4>1. ASSUME NEW i \in Records
              PROVE  deliveries[i] + (IF i \in Range(NextRecords(n)) THEN 1 ELSE 0)
                        \in 0 .. MaxDeliver
          <5>1. deliveries[i] \in 0 .. MaxDeliver
            BY <1>t DEF Typed
          <5>2. CASE i \in Range(NextRecords(n))
            <6>1. i >= position
              BY <1>n, <2>2, <2>3, <5>2
            <6>2. deliveries[i] = 0
              BY <3>1, <6>1 DEF Counted
            <6>3. QED
              BY <1>n, <5>2, <6>2
          <5>3. CASE i \notin Range(NextRecords(n))
            BY <1>n, <5>1, <5>3
          <5>4. QED
            BY <5>2, <5>3
        <4>2. deliveries' = [i \in Records |->
                 deliveries[i] + IF i \in Range(NextRecords(n)) THEN 1 ELSE 0]
          BY <2>1, <3>1
        <4>3. QED
          BY <4>1, <4>2
      <3>2. CASE kind \notin {"redis", "nats"}
        BY <1>t, <2>1, <3>2 DEF Typed
      <3>3. QED
        BY <3>1, <3>2
    <2>7. /\ UNCHANGED <<kind, subscribed, published, committed, subscriber, ch,
                         worker, polled, phase, processed, trace, dropped>>
          /\ fetched' \in Seq(1 .. published)
      BY <1>2, <2>1, <2>3 DEF Fetch
    <2>8. QED
      BY <1>t, <2>4, <2>5, <2>6, <2>7 DEF Typed
  <1>3. ASSUME NEW i \in Records, Redeliver(i)
        PROVE  Typed'
    <2>1. i \in 1 .. published
      BY <1>t, <1>3 DEF Redeliver, Typed
    <2>2. fetched' \in Seq(1 .. published)
      BY <1>t, <1>3, <2>1, AppendFacts DEF Redeliver, Typed
    <2>3. deliveries' \in [Records -> 0 .. MaxDeliver]
      <3>1. deliveries[i] \in 0 .. MaxDeliver /\ deliveries[i] < MaxDeliver
        BY <1>t, <1>3 DEF Redeliver, Typed
      <3>2. deliveries[i] + 1 \in 0 .. MaxDeliver
        BY <1>n, <3>1
      <3>3. deliveries' = [deliveries EXCEPT ![i] = @ + 1]
        BY <1>3 DEF Redeliver
      <3>4. QED
        BY <1>t, <3>2, <3>3 DEF Typed
    <2>4. QED
      BY <1>t, <1>3, <2>2, <2>3 DEF Redeliver, Typed
  <1>4. CASE Handle
    <2>1. /\ fetched # <<>> /\ Len(ch) < Capacity /\ ch' = Append(ch, Head(fetched))
          /\ subscriber' = "ack"
          /\ UNCHANGED <<kind, subscribed, published, position, committed, unacked,
                         deliveries, fetched, worker, polled, phase, processed, trace,
                         dropped>>
      BY <1>4 DEF Handle, broker
    <2>2. Head(fetched) \in 1 .. published
      BY <1>t, <2>1, TakeFacts DEF Typed
    <2>3. ch' \in Seq(1 .. published) /\ Len(ch') = Len(ch) + 1
      BY <1>t, <2>1, <2>2, AppendFacts DEF Typed
    <2>4. Len(ch) \in Nat
      BY Numbers
    <2>5. Len(ch') <= Capacity
      BY <1>n, <2>1, <2>3, <2>4
    <2>6. QED
      BY <1>t, <2>1, <2>3, <2>5 DEF Typed
  <1>5. CASE Acknowledge
    <2>1. fetched # <<>>
      BY <1>5 DEF Acknowledge, Hands
    <2>2. Head(fetched) \in 1 .. published /\ Tail(fetched) \in Seq(1 .. published)
      BY <1>t, <2>1, TakeFacts DEF Typed
    <2>3. AckRecord(Head(fetched)) \/ UNCHANGED broker
      BY <1>5 DEF Acknowledge
    <2>4. /\ published' = published /\ position' = position /\ deliveries' = deliveries
          /\ committed' \in 0 .. published /\ unacked' \subseteq 1 .. published
      BY <2>2, <2>3, AckTyped
    <2>5. /\ fetched' = Tail(fetched) /\ subscriber' = "handle"
          /\ UNCHANGED <<kind, subscribed, ch, worker, polled, phase, processed,
                         trace, dropped>>
      BY <1>5 DEF Acknowledge
    <2>6. QED
      BY <1>t, <2>2, <2>4, <2>5 DEF Typed
  <1>6. CASE Loop \/ Subscribe \/ Stop \/ Restart
    BY <1>t, <1>6 DEF Loop, Subscribe, Stop, Restart, Typed, broker
  <1>7. CASE Poll
    BY <1>t, <1>e, <1>7 DEF Poll, Typed, broker
  <1>8. CASE LegacyPoll
    <2>1. PICK n \in 1 .. MaxFetch :
             /\ position + n - 1 <= published
             /\ position' = position + n
             /\ \/ polled' = NextRecords(n) /\ worker' = "process" /\ dropped' = dropped
                \/ /\ dropped' = dropped \cup Range(NextRecords(n))
                   /\ worker' = "top" /\ polled' = polled
      BY <1>8 DEF LegacyPoll
    <2>2. n \in Nat \ {0}
      BY <1>n
    <2>3. /\ NextRecords(n) \in Seq(1 .. published)
          /\ Range(NextRecords(n)) = position .. position + n - 1
      BY <1>n, <2>1, <2>2, NextFacts
    <2>4. position' \in 1 .. published + 1 /\ position .. position + n - 1 \subseteq 1 .. published
      BY <1>n, <2>1, <2>2
    <2>5. /\ polled' \in Seq(1 .. published) /\ dropped' \subseteq 1 .. published
          /\ worker' \in {"top", "poll", "process", "commit"}
      BY <1>t, <2>1, <2>3, <2>4 DEF Typed
    <2>6. UNCHANGED <<kind, subscribed, published, committed, unacked, deliveries,
                      subscriber, fetched, ch, phase, processed, trace>>
      BY <1>8 DEF LegacyPoll
    <2>7. QED
      BY <1>t, <2>4, <2>5, <2>6 DEF Typed
  <1>9. CASE Process
    <2>1. polled # <<>>
      BY <1>9 DEF Process, Hands
    <2>2. Head(polled) \in 1 .. published
      BY <1>t, <2>1, TakeFacts DEF Typed
    <2>3. trace' \in Seq(1 .. published)
      BY <1>t, <1>9, <2>2, AppendFacts DEF Process, Typed
    <2>4. QED
      BY <1>t, <1>9, <2>2, <2>3 DEF Process, Typed, broker
  <1>10. CASE Commit
    <2>1. polled # <<>>
      BY <1>10 DEF Commit, Hands
    <2>2. Head(polled) \in 1 .. published /\ Tail(polled) \in Seq(1 .. published)
      BY <1>t, <2>1, TakeFacts DEF Typed
    <2>3. AckRecord(Head(polled)) \/ UNCHANGED broker
      BY <1>10 DEF Commit
    <2>4. /\ published' = published /\ position' = position /\ deliveries' = deliveries
          /\ committed' \in 0 .. published /\ unacked' \subseteq 1 .. published
      BY <2>2, <2>3, AckTyped
    <2>5. /\ polled' = Tail(polled) /\ worker' \in {"top", "process"}
          /\ UNCHANGED <<kind, subscribed, subscriber, fetched, ch, phase, processed,
                         trace, dropped>>
      BY <1>10 DEF Commit
    <2>6. QED
      BY <1>t, <2>2, <2>4, <2>5 DEF Typed
  <1>11. CASE Exit \/ Crash
    <2>1. Gone /\ phase' \in {"stopped", "down"}
      BY <1>11 DEF Exit, Crash
    <2>2. /\ dropped' = dropped \cup (InMemory \ processed)
          /\ fetched' = <<>> /\ ch' = <<>> /\ polled' = <<>> /\ trace' = <<>>
          /\ subscribed' = "no" /\ subscriber' = "handle" /\ worker' = "top"
          /\ UNCHANGED <<kind, published, committed, unacked, deliveries, processed>>
          /\ position' \in {committed + 1, published + 1, position}
      BY <1>n, <2>1 DEF Gone, Kafka
    <2>3. position' \in 1 .. published + 1
      BY <1>t, <1>n, <2>2 DEF Typed
    <2>4. dropped' \subseteq 1 .. published
      BY <1>t, <1>m, <2>2 DEF Typed
    <2>5. QED
      BY <1>t, <1>e, <2>1, <2>2, <2>3, <2>4 DEF Typed
  <1>12. CASE UNCHANGED vars
    BY <1>t, <1>12 DEF vars, broker, Typed
  <1>13. QED
    BY <1>1, <1>2, <1>3, <1>4, <1>5, <1>6, <1>7, <1>8, <1>9, <1>10, <1>11, <1>12
       DEF Next, Subscriber, Worker

-----------------------------------------------------------------------------
(* The two goroutines.                                                     *)

\* Actions that touch no record.
LEMMA Quiet ==
    ASSUME Loop \/ Subscribe \/ Stop \/ Restart \/ UNCHANGED vars
    PROVE  /\ UNCHANGED <<kind, published, position, committed, unacked, deliveries,
                          subscriber, fetched, ch, polled, processed, trace, dropped>>
           /\ worker' = worker \/ (worker \in {"top", "poll"} /\ worker' \in {"top", "poll"})
           /\ kind = "legacy" => subscribed' = subscribed
  BY DEF Loop, Subscribe, Stop, Restart, vars, broker

\* What the end of the process does.
LEMMA GoneFacts ==
    ASSUME Exit \/ Crash
    PROVE  /\ dropped' = dropped \cup (InMemory \ processed)
           /\ fetched' = <<>> /\ ch' = <<>> /\ polled' = <<>> /\ trace' = <<>>
           /\ subscribed' = "no" /\ subscriber' = "handle" /\ worker' = "top"
           /\ UNCHANGED <<kind, published, committed, unacked, deliveries, processed>>
           /\ Kafka => position' = committed + 1
           /\ kind = "memory" => position' = published + 1
           /\ kind \in {"redis", "nats"} => position' = position
           /\ Range(ch) \cup Range(polled) \subseteq InMemory
           /\ kind = "memory" => Range(fetched) \cup (position .. published) \subseteq InMemory
  BY DEF Exit, Crash, Gone, Kafka, InMemory

\* A record that the worker's side holds stays held, or was processed, or is
\* known to be dropped.
LEMMA HeldGrows ==
    ASSUME ConstantsOK, TypeOK, Hands, [Next]_vars
    PROVE  Held \subseteq Held'
  <1>t. Typed
    BY TypedTypeOK
  <1>z. Range(<<>>) = {}
    BY EmptyFacts
  <1>1. CASE UNCHANGED <<processed, dropped, ch, polled>>
    BY <1>1 DEF Held
  <1>2. CASE Handle
    <2>1. fetched # <<>> /\ ch' = Append(ch, Head(fetched))
          /\ UNCHANGED <<processed, dropped, polled>>
      BY <1>2 DEF Handle
    <2>2. Head(fetched) \in 1 .. published
      BY <1>t, <2>1, TakeFacts DEF Typed
    <2>3. Range(ch) \subseteq Range(ch')
      BY <1>t, <2>1, <2>2, AppendFacts DEF Typed
    <2>4. QED
      BY <2>1, <2>3 DEF Held
  <1>3. CASE Poll
    <2>1. polled = <<>> /\ polled' = ch /\ UNCHANGED <<processed, dropped>>
      BY <1>3 DEF Poll, Hands
    <2>2. QED
      BY <1>z, <2>1 DEF Held
  <1>4. CASE LegacyPoll
    <2>1. polled = <<>> /\ dropped \subseteq dropped' /\ UNCHANGED <<processed, ch>>
      BY <1>4 DEF LegacyPoll, Hands
    <2>2. QED
      BY <1>z, <2>1 DEF Held
  <1>5. CASE Process
    BY <1>5 DEF Process, Held
  <1>6. CASE Commit
    <2>1. /\ polled # <<>> /\ polled' = Tail(polled) /\ Head(polled) \in processed
          /\ UNCHANGED <<processed, dropped, ch>>
      BY <1>6 DEF Commit, Hands
    <2>2. Range(polled) = {Head(polled)} \cup Range(Tail(polled))
      BY <1>t, <2>1, TakeFacts DEF Typed
    <2>3. QED
      BY <2>1, <2>2 DEF Held
  <1>7. CASE Exit \/ Crash
    <2>1. /\ dropped' = dropped \cup (InMemory \ processed) /\ processed' = processed
          /\ Range(ch) \cup Range(polled) \subseteq InMemory
      BY <1>7, GoneFacts
    <2>2. QED
      BY <2>1 DEF Held
  <1>8. \/ UNCHANGED <<processed, dropped, ch, polled>>
        \/ Handle \/ Poll \/ LegacyPoll \/ Process \/ Commit \/ Exit \/ Crash
    BY ZenonT(60) DEF Next, Subscriber, Worker, Publish, Fetch, Redeliver, Acknowledge,
       Loop, Subscribe, Stop, Restart, vars
  <1>9. QED
    BY <1>1, <1>2, <1>3, <1>4, <1>5, <1>6, <1>7, <1>8

\* Every action keeps what the goroutines have.
LEMMA HandsStep ==
    ASSUME ConstantsOK, TypeOK, Hands, [Next]_vars
    PROVE  Hands'
  <1>t. Typed
    BY TypedTypeOK
  <1>n. /\ published \in Nat /\ position \in Nat \ {0} /\ MaxFetch \in Nat
        /\ kind \in {"memory", "kafka", "legacy", "redis", "nats"}
        /\ Len(polled) \in Nat
    BY Numbers DEF ConstantsOK
  <1>h. Held \subseteq Held'
    BY HeldGrows
  <1>1. CASE Loop \/ Subscribe \/ Stop \/ Restart \/ UNCHANGED vars
    <2>1. /\ UNCHANGED <<kind, subscriber, fetched, ch, polled, processed>>
          /\ worker' = worker \/ (worker \in {"top", "poll"} /\ worker' \in {"top", "poll"})
          /\ kind = "legacy" => subscribed' = subscribed
      BY <1>1, Quiet
    <2>2. QED
      BY <1>h, <2>1 DEF Hands
  <1>2. CASE Publish
    BY <1>h, <1>2 DEF Publish, Hands
  <1>3. CASE Fetch
    <2>1. /\ subscriber # "ack" /\ kind # "legacy"
          /\ UNCHANGED <<kind, subscriber, worker, polled, processed>>
      BY <1>3 DEF Fetch, Hands
    <2>2. QED
      BY <2>1 DEF Hands
  <1>4. ASSUME NEW i \in Records, Redeliver(i)
        PROVE  Hands'
    <2>1. /\ kind = "nats" /\ fetched' = Append(fetched, i) /\ i \in 1 .. published
          /\ UNCHANGED <<kind, subscriber, worker, polled, processed>>
      BY <1>t, <1>4 DEF Redeliver, Typed
    <2>2. /\ Len(fetched') = Len(fetched) + 1 /\ Len(fetched) \in Nat
          /\ fetched' \in Seq(1 .. published)
          /\ \A k \in 1 .. Len(fetched) : fetched'[k] = fetched[k]
      BY <1>t, <2>1, AppendFacts, RangeFacts DEF Typed
    <2>3. ASSUME fetched # <<>>
          PROVE  fetched' # <<>> /\ Head(fetched') = Head(fetched)
      <3>1. Head(fetched) = fetched[1] /\ 1 \in 1 .. Len(fetched)
        BY <1>t, <2>3, TakeFacts, RangeFacts DEF Typed
      <3>2. fetched' # <<>>
        BY <2>2
      <3>3. Head(fetched') = fetched'[1]
        BY <2>2, <3>2, TakeFacts
      <3>4. QED
        BY <2>2, <3>1, <3>2, <3>3
    <2>4. QED
      BY <1>h, <2>1, <2>3 DEF Hands
  <1>5. CASE Handle
    <2>1. /\ fetched # <<>> /\ ch' = Append(ch, Head(fetched))
          /\ UNCHANGED <<kind, fetched, worker, polled, processed>> /\ kind # "legacy"
      BY <1>5 DEF Handle, Hands
    <2>2. Head(fetched) \in 1 .. published
      BY <1>t, <2>1, TakeFacts DEF Typed
    <2>3. Head(fetched) \in Range(ch')
      BY <1>t, <2>1, <2>2, AppendFacts DEF Typed
    <2>4. Head(fetched) \in Held'
      BY <2>3 DEF Held
    <2>5. QED
      BY <2>1, <2>4 DEF Hands
  <1>6. CASE Acknowledge
    <2>1. /\ kind # "legacy" /\ subscriber' = "handle"
          /\ UNCHANGED <<kind, worker, polled, processed>>
      BY <1>6 DEF Acknowledge, Hands
    <2>2. QED
      BY <2>1 DEF Hands
  <1>7. CASE Poll
    <2>1. /\ kind # "legacy" /\ ch # <<>> /\ polled' = ch /\ worker' = "process"
          /\ UNCHANGED <<kind, subscriber, fetched>>
      BY <1>7 DEF Poll, Hands
    <2>2. QED
      BY <1>h, <2>1 DEF Hands
  <1>8. CASE LegacyPoll
    <2>1. /\ kind = "legacy" /\ worker = "poll" /\ polled = <<>>
          /\ UNCHANGED <<kind, subscribed, subscriber, fetched, ch>>
      BY <1>8 DEF LegacyPoll, Hands
    <2>2. PICK n \in 1 .. MaxFetch :
             /\ position + n - 1 <= published
             /\ \/ polled' = NextRecords(n) /\ worker' = "process"
                \/ worker' = "top" /\ polled' = polled
      BY <1>8 DEF LegacyPoll
    <2>3. NextRecords(n) # <<>>
      <3>1. n \in Nat \ {0}
        BY <1>n
      <3>2. QED
        BY <1>n, <2>2, <3>1, NextFacts
    <2>4. QED
      BY <2>1, <2>2, <2>3 DEF Hands
  <1>9. CASE Process
    <2>1. /\ polled # <<>> /\ worker' = "commit" /\ Head(polled) \in processed'
          /\ UNCHANGED <<kind, subscribed, subscriber, fetched, ch, polled>>
      BY <1>9 DEF Process, Hands
    <2>2. QED
      BY <1>h, <2>1 DEF Hands
  <1>10. CASE Commit
    <2>1. /\ polled # <<>> /\ polled' = Tail(polled)
          /\ worker' = IF Len(polled) = 1 THEN "top" ELSE "process"
          /\ UNCHANGED <<kind, subscribed, subscriber, fetched, ch>>
      BY <1>10 DEF Commit, Hands
    <2>2. Tail(polled) \in Seq(1 .. published) /\ Len(Tail(polled)) = Len(polled) - 1
      BY <1>t, <2>1, TakeFacts DEF Typed
    <2>3. Tail(polled) = <<>> <=> Len(polled) = 1
      <3>1. \A s \in Seq(1 .. published) : s = <<>> <=> Len(s) = 0
        OBVIOUS
      <3>2. Tail(polled) = <<>> <=> Len(Tail(polled)) = 0
        BY <2>2, <3>1
      <3>3. QED
        BY <1>n, <2>2, <3>2
    <2>4. QED
      BY <1>h, <2>1, <2>3 DEF Hands
  <1>11. CASE Exit \/ Crash
    <2>1. /\ fetched' = <<>> /\ ch' = <<>> /\ polled' = <<>> /\ kind' = kind
          /\ subscribed' = "no" /\ subscriber' = "handle" /\ worker' = "top"
      BY <1>11, GoneFacts
    <2>2. QED
      BY <2>1 DEF Hands
  <1>12. QED
    BY <1>1, <1>2, <1>3, <1>4, <1>5, <1>6, <1>7, <1>8, <1>9, <1>10, <1>11
       DEF Next, Subscriber, Worker

\* Every action leaves a record that was not handed out without deliveries.
LEMMA CountedStep ==
    ASSUME ConstantsOK, TypeOK, Hands, Counted, [Next]_vars
    PROVE  Counted'
  <1>t. Typed
    BY TypedTypeOK
  <1>n. /\ published \in Nat /\ position \in Nat \ {0} /\ MaxFetch \in Nat
        /\ \A i \in Records : i \in Nat
        /\ kind \in {"memory", "kafka", "legacy", "redis", "nats"}
    BY Numbers DEF ConstantsOK, Records
  <1>1. CASE UNCHANGED <<kind, position, deliveries>> /\ unacked' \subseteq unacked
    BY <1>1 DEF Counted
  <1>2. CASE Fetch
    <2>1. PICK n \in 1 .. (IF kind = "memory" THEN 1 ELSE MaxFetch) :
             /\ position + n - 1 <= published
             /\ position' = position + n
             /\ kind \in {"redis", "nats"} =>
                   /\ unacked' = unacked \cup Range(NextRecords(n))
                   /\ deliveries' = [i \in Records |->
                           deliveries[i] + IF i \in Range(NextRecords(n)) THEN 1 ELSE 0]
      BY <1>2 DEF Fetch
    <2>2. n \in Nat \ {0}
      BY <1>n
    <2>3. Range(NextRecords(n)) = position .. position + n - 1
      BY <1>n, <2>1, <2>2, NextFacts
    <2>4. ASSUME kind \in {"redis", "nats"}, NEW i \in Records, i >= position'
          PROVE  deliveries'[i] = 0 /\ i \notin unacked'
      <3>1. i >= position /\ i \notin Range(NextRecords(n))
        BY <1>n, <2>1, <2>2, <2>3, <2>4
      <3>2. deliveries[i] = 0 /\ i \notin unacked
        BY <2>4, <3>1 DEF Counted
      <3>3. QED
        BY <2>1, <2>4, <3>1, <3>2
    <2>5. kind' = kind
      BY <1>2 DEF Fetch
    <2>6. QED
      BY <2>4, <2>5 DEF Counted
  <1>3. ASSUME NEW i \in Records, Redeliver(i)
        PROVE  Counted'
    <2>1. /\ i \in unacked /\ position' = position /\ unacked' = unacked
          /\ deliveries' = [deliveries EXCEPT ![i] = @ + 1] /\ kind = "nats" /\ kind' = kind
      BY <1>3 DEF Redeliver
    <2>2. ASSUME NEW j \in Records, j >= position
          PROVE  deliveries'[j] = 0 /\ j \notin unacked
      <3>1. deliveries[j] = 0 /\ j \notin unacked /\ j # i
        BY <2>1, <2>2 DEF Counted
      <3>2. QED
        BY <1>t, <2>1, <3>1 DEF Typed
    <2>3. QED
      BY <2>1, <2>2 DEF Counted
  <1>4. CASE LegacyPoll
    BY <1>4 DEF LegacyPoll, Counted
  <1>5. CASE Exit \/ Crash
    <2>1. UNCHANGED <<kind, unacked, deliveries>>
          /\ (kind \in {"redis", "nats"} => position' = position)
      BY <1>5, GoneFacts
    <2>2. QED
      BY <2>1 DEF Counted
  <1>6. CASE Acknowledge
    BY <1>1, <1>6 DEF Acknowledge, AckRecord, broker
  <1>7. CASE Commit
    BY <1>1, <1>7 DEF Commit, AckRecord, broker
  <1>8. CASE Loop \/ Subscribe \/ Stop \/ Restart \/ UNCHANGED vars
    BY <1>1, <1>8, Quiet
  <1>9. CASE Publish \/ Handle \/ Poll \/ Process
    BY <1>1, <1>9 DEF Publish, Handle, Poll, Process, broker
  <1>10. QED
    BY <1>2, <1>3, <1>4, <1>5, <1>6, <1>7, <1>8, <1>9 DEF Next, Subscriber, Worker

-----------------------------------------------------------------------------
(* The front.                                                              *)

\* The front is a number, not behind the position.
LEMMA FrontFacts ==
    ASSUME ConstantsOK, TypeOK, Hands
    PROVE  /\ Front \in Int /\ Front <= position
           /\ subscriber = "handle" => Front = position - Len(fetched)
           /\ subscriber = "ack" => Front = position - Len(fetched) + 1
           /\ fetched = <<>> => Front = position /\ subscriber = "handle"
  <1>t. Typed
    BY TypedTypeOK
  <1>n. position \in Nat \ {0} /\ Len(fetched) \in Nat
    BY Numbers
  <1>1. fetched # <<>> => Len(fetched) >= 1
    <2>1. \A s \in Seq(1 .. published) : s # <<>> => Len(s) # 0
      OBVIOUS
    <2>2. QED
      BY <1>t, <1>n, <2>1 DEF Typed
  <1>2. subscriber \in {"handle", "ack"} /\ (subscriber = "ack" => fetched # <<>>)
        /\ (fetched = <<>> => Len(fetched) = 0)
    BY <1>t, EmptyFacts DEF Hands, Typed
  <1>3. QED
    BY <1>n, <1>1, <1>2 DEF Front

\* The goroutine of the bus has all the records between the front and the
\* position.
LEMMA FetchedCovers ==
    ASSUME ConstantsOK, TypeOK, Hands, Consecutive, kind # "nats"
    PROVE  /\ \A i \in 1 .. published : Front <= i /\ i < position => i \in Range(fetched)
           /\ fetched # <<>> => Head(fetched) = position - Len(fetched)
  <1>t. Typed
    BY TypedTypeOK
  <1>n. position \in Nat \ {0} /\ Len(fetched) \in Nat /\ DOMAIN fetched = 1 .. Len(fetched)
    BY <1>t, Numbers, RangeFacts DEF Typed
  <1>1. ASSUME NEW i \in 1 .. published, Front <= i, i < position
        PROVE  i \in Range(fetched)
    <2>1. Front >= position - Len(fetched)
      BY <1>n DEF Front
    <2>2. i \in Nat /\ i - (position - Len(fetched)) + 1 \in 1 .. Len(fetched)
      BY <1>n, <1>1, <2>1, FrontFacts
    <2>3. fetched[i - (position - Len(fetched)) + 1] = i
      <3>1. fetched[i - (position - Len(fetched)) + 1]
               = position - Len(fetched) + (i - (position - Len(fetched)) + 1) - 1
        BY <1>n, <2>2 DEF Consecutive
      <3>2. QED
        BY <1>n, <2>2, <3>1
    <2>4. QED
      BY <1>n, <2>2, <2>3 DEF Range
  <1>2. ASSUME fetched # <<>>
        PROVE  Head(fetched) = position - Len(fetched)
    <2>1. Head(fetched) = fetched[1] /\ 1 \in DOMAIN fetched
      BY <1>t, <1>2, TakeFacts DEF Typed
    <2>2. fetched[1] = position - Len(fetched) + 1 - 1
      BY <2>1 DEF Consecutive
    <2>3. QED
      BY <1>n, <2>1, <2>2
  <1>3. QED
    BY <1>1, <1>2

\* How the front moves: forward when the handler takes a record or the worker
\* polls Kafka itself, anyhow when the process ends.
LEMMA FrontMoves ==
    ASSUME ConstantsOK, TypeOK, TypeOK', Hands, Hands', [Next]_vars
    PROVE  /\ Handle => Front' = Front + 1
           /\ LegacyPoll => Front = position /\ Front' = position'
           /\ Exit \/ Crash => Front' = position'
           /\ Fetch \/ Acknowledge => Front' = Front
           /\ Front' = Front \/ Handle \/ LegacyPoll \/ Exit \/ Crash \/ kind = "nats"
           /\ kind' = kind
  <1>t. Typed /\ Typed'
    BY TypedTypeOK
  <1>n. /\ position \in Nat \ {0} /\ Len(fetched) \in Nat /\ MaxFetch \in Nat
        /\ published \in Nat
        /\ Front \in Int
    BY Numbers, FrontFacts DEF ConstantsOK
  <1>z. Len(<<>>) = 0
    BY EmptyFacts
  <1>1. ASSUME Handle
        PROVE  Front' = Front + 1
    <2>1. subscriber = "handle" /\ subscriber' = "ack" /\ fetched' = fetched /\ position' = position
      BY <1>1 DEF Handle, broker
    <2>2. QED
      BY <1>n, <2>1 DEF Front
  <1>2. ASSUME LegacyPoll
        PROVE  Front = position /\ Front' = position'
    <2>1. fetched = <<>> /\ fetched' = <<>>
      BY <1>2 DEF LegacyPoll, Hands
    <2>s. subscriber = "handle" /\ subscriber' = "handle"
      BY <1>2 DEF LegacyPoll, Hands
    <2>2. position' \in Int
      BY <1>n, <1>2 DEF LegacyPoll
    <2>3. Len(fetched) = 0 /\ Len(fetched') = 0
      BY <1>z, <2>1
    <2>4. Front = position - Len(fetched) + 0 /\ Front' = position' - Len(fetched') + 0
      BY <2>s DEF Front
    <2>5. Front = position - 0 + 0 /\ Front' = position' - 0 + 0
      BY <2>3, <2>4
    <2>6. \A a \in Int : a - 0 + 0 = a
      OBVIOUS
    <2>7. position \in Int
      BY <1>n
    <2>8. QED
      BY <2>2, <2>5, <2>6, <2>7
  <1>3. ASSUME Exit \/ Crash
        PROVE  Front' = position'
    <2>1. fetched' = <<>>
      BY <1>3, GoneFacts
    <2>s. subscriber' = "handle"
      BY <1>3, GoneFacts
    <2>2. position' \in Int
      BY <1>n, <1>t DEF Typed
    <2>3. Len(fetched') = 0
      BY <1>z, <2>1
    <2>4. Front' = position' - Len(fetched') + 0
      BY <2>s DEF Front
    <2>5. \A a \in Int : a - 0 + 0 = a
      OBVIOUS
    <2>6. Front' = position' - 0 + 0
      BY <2>3, <2>4
    <2>7. QED
      BY <2>2, <2>5, <2>6
  <1>4. ASSUME UNCHANGED <<position, fetched, subscriber>>
        PROVE  Front' = Front
    BY <1>4 DEF Front
  <1>5. ASSUME Fetch
        PROVE  Front' = Front
    <2>1. fetched = <<>> /\ subscriber' = subscriber
      BY <1>5 DEF Fetch
    <2>2. PICK n \in 1 .. (IF kind = "memory" THEN 1 ELSE MaxFetch) :
             /\ position + n - 1 <= published
             /\ fetched' = NextRecords(n) /\ position' = position + n
      BY <1>5 DEF Fetch
    <2>3. n \in Nat \ {0}
      BY <1>n
    <2>4. Len(fetched') = n
      BY <1>n, <2>2, <2>3, NextFacts
    <2>5. subscriber = "handle"
      BY <2>1, FrontFacts
    <2>6. QED
      BY <1>n, <1>z, <2>1, <2>2, <2>3, <2>4, <2>5 DEF Front
  <1>6. ASSUME Acknowledge
        PROVE  Front' = Front
    <2>1. /\ subscriber = "ack" /\ subscriber' = "handle" /\ position' = position
          /\ fetched' = Tail(fetched) /\ fetched # <<>>
      BY <1>6 DEF Acknowledge, AckRecord, broker, Hands
    <2>2. Len(fetched') = Len(fetched) - 1
      BY <1>t, <2>1, TakeFacts DEF Typed
    <2>3. QED
      BY <1>n, <2>1, <2>2 DEF Front
  <1>7. (\E i \in Records : Redeliver(i)) => kind = "nats"
    BY DEF Redeliver
  <1>8. ASSUME Commit
        PROVE  Front' = Front
    BY <1>4, <1>8 DEF Commit, AckRecord, broker
  <1>9. ASSUME Loop \/ Subscribe \/ Stop \/ Restart \/ UNCHANGED vars
        PROVE  Front' = Front
    BY <1>4, <1>9, Quiet
  <1>10. ASSUME Publish \/ Poll \/ Process
         PROVE  Front' = Front
    BY <1>4, <1>10 DEF Publish, Poll, Process, broker
  <1>11. Front' = Front \/ Handle \/ LegacyPoll \/ Exit \/ Crash \/ kind = "nats"
    BY <1>5, <1>6, <1>7, <1>8, <1>9, <1>10, <1>4 DEF Next, Subscriber, Worker
  <1>12. kind' = kind
    BY GoneFacts, ZenonT(60) DEF Next, Subscriber, Worker, Publish, Fetch, Redeliver, Acknowledge, Handle,
       Loop, Subscribe, Poll, LegacyPoll, Process, Commit, Stop, Restart, vars
  <1>13. QED
    BY <1>1, <1>2, <1>3, <1>5, <1>6, <1>11, <1>12

\* The goroutine of the bus goes on having records in order.
LEMMA ConsecutiveStep ==
    ASSUME ConstantsOK, TypeOK, Hands, Consecutive, [Next]_vars
    PROVE  Consecutive'
  <1>t. Typed
    BY TypedTypeOK
  <1>n. /\ position \in Nat \ {0} /\ Len(fetched) \in Nat /\ MaxFetch \in Nat
        /\ published \in Nat
    BY Numbers DEF ConstantsOK
  <1>1. CASE UNCHANGED <<kind, position, fetched>>
    BY <1>1 DEF Consecutive
  <1>2. CASE Fetch
    <2>1. kind' = kind
      BY <1>2 DEF Fetch
    <2>2. PICK n \in 1 .. (IF kind = "memory" THEN 1 ELSE MaxFetch) :
             /\ position + n - 1 <= published
             /\ fetched' = NextRecords(n) /\ position' = position + n
      BY <1>2 DEF Fetch
    <2>3. n \in Nat \ {0}
      BY <1>n
    <2>4. /\ Len(fetched') = n
          /\ \A k \in DOMAIN fetched' : fetched'[k] = position + k - 1 /\ k \in Nat
      <3>1. NextRecords(n) \in Seq(1 .. published) /\ Len(NextRecords(n)) = n
        BY <1>n, <2>2, <2>3, NextFacts
      <3>2. \A k \in DOMAIN NextRecords(n) : NextRecords(n)[k] = position + k - 1
        BY <1>n, <2>2, <2>3, NextFacts
      <3>3. DOMAIN NextRecords(n) = 1 .. n
        BY <3>1
      <3>4. QED
        BY <2>2, <3>1, <3>2, <3>3
    <2>5. ASSUME NEW k \in DOMAIN fetched'
          PROVE  fetched'[k] = position' - Len(fetched') + k - 1
      BY <1>n, <2>2, <2>3, <2>4
    <2>6. QED
      BY <2>5 DEF Consecutive
  <1>3. CASE Acknowledge
    <2>1. /\ fetched' = Tail(fetched) /\ fetched # <<>> /\ position' = position /\ kind' = kind
      BY <1>3 DEF Acknowledge, AckRecord, broker, Hands
    <2>2. /\ Len(fetched') = Len(fetched) - 1
          /\ \A k \in DOMAIN fetched' : fetched'[k] = fetched[k + 1] /\ k + 1 \in DOMAIN fetched
      BY <1>t, <2>1, TakeFacts DEF Typed
    <2>3. \A k \in DOMAIN fetched' : k \in Nat
      BY <1>t, <2>1, TakeFacts DEF Typed
    <2>4. ASSUME kind # "nats", NEW k \in DOMAIN fetched'
          PROVE  fetched'[k] = position' - Len(fetched') + k - 1
      <3>1. fetched'[k] = position - Len(fetched) + (k + 1) - 1
        BY <2>2, <2>4 DEF Consecutive
      <3>2. QED
        BY <1>n, <2>1, <2>2, <2>3, <3>1
    <2>5. QED
      BY <2>1, <2>4 DEF Consecutive
  <1>4. CASE kind = "nats" /\ kind' = kind
    BY <1>4 DEF Consecutive
  <1>5. CASE Exit \/ Crash
    <2>1. fetched' = <<>>
      BY <1>5, GoneFacts
    <2>2. QED
      BY <2>1, EmptyFacts DEF Consecutive
  <1>6. CASE LegacyPoll
    <2>1. fetched' = <<>>
      BY <1>6 DEF LegacyPoll, Hands
    <2>2. QED
      BY <2>1, EmptyFacts DEF Consecutive
  <1>7. CASE Commit
    BY <1>1, <1>7 DEF Commit, AckRecord, broker
  <1>8. CASE Loop \/ Subscribe \/ Stop \/ Restart \/ UNCHANGED vars
    BY <1>1, <1>8, Quiet
  <1>9. CASE Publish \/ Poll \/ Process \/ Handle
    BY <1>1, <1>9 DEF Publish, Poll, Process, Handle, broker
  <1>10. (\E i \in Records : Redeliver(i)) => kind = "nats" /\ kind' = kind
    BY DEF Redeliver
  <1>11. QED
    BY <1>2, <1>3, <1>4, <1>5, <1>6, <1>7, <1>8, <1>9, <1>10 DEF Next, Subscriber, Worker

\* What is behind the front stays held, or not acknowledged, whoever
\* acknowledges what, and wherever a restart resumes.
LEMMA SettledStep ==
    ASSUME ConstantsOK, TypeOK, TypeOK', Hands, Hands', Consecutive, Settled, Queued, Counted,
           [Next]_vars
    PROVE  Settled'
  <1>t. Typed /\ Typed'
    BY TypedTypeOK
  <1>n. /\ position \in Nat \ {0} /\ Len(fetched) \in Nat /\ MaxFetch \in Nat
        /\ published \in Nat /\ committed \in Nat /\ Front \in Int /\ Front <= position
        /\ kind \in {"memory", "kafka", "legacy", "redis", "nats"}
        /\ position <= published + 1 /\ committed <= published
    BY <1>t, Numbers, FrontFacts DEF ConstantsOK, Typed
  <1>h. Held \subseteq Held'
    BY HeldGrows
  <1>f. /\ Handle => Front' = Front + 1
        /\ LegacyPoll => Front = position /\ Front' = position'
        /\ Exit \/ Crash => Front' = position'
        /\ Front' = Front \/ Handle \/ LegacyPoll \/ Exit \/ Crash \/ kind = "nats"
        /\ kind' = kind
    BY FrontMoves
  <1>p. published' = published \/ Publish
    BY GoneFacts, ZenonT(60) DEF Next, Subscriber, Worker, Fetch, Redeliver, Acknowledge, Handle,
       Loop, Subscribe, Poll, LegacyPoll, Process, Commit, AckRecord, broker, Stop, Restart, vars
  <1>1. ASSUME kind \in {"memory", "kafka", "legacy"}, NEW i \in 1 .. published', i < Front'
        PROVE  i \in Held'
    <2>1. CASE i \in 1 .. published /\ i < Front
      BY <1>1, <1>h, <2>1 DEF Settled
    <2>2. CASE Publish
      <3>1. published' = published + 1 /\ position' = position
        BY <2>2 DEF Publish
      <3>2. Front' = Front
        BY <2>2 DEF Publish, Front
      <3>3. i \in 1 .. published /\ i < Front
        BY <1>1, <1>n, <3>1, <3>2
      <3>4. QED
        BY <2>1, <3>3
    <2>3. CASE Handle
      <3>1. published' = published /\ fetched # <<>> /\ ch' = Append(ch, Head(fetched))
            /\ subscriber = "handle"
        BY <2>3 DEF Handle, broker
      <3>2. Head(fetched) = Front /\ Head(fetched) \in 1 .. published
        BY <1>t, <1>1, <3>1, FetchedCovers, FrontFacts, TakeFacts DEF Typed
      <3>3. Head(fetched) \in Range(ch')
        BY <1>t, <3>1, <3>2, AppendFacts DEF Typed
      <3>4. CASE i = Front
        BY <3>2, <3>3, <3>4 DEF Held
      <3>5. i \in 1 .. published /\ (i = Front \/ i < Front)
        BY <1>1, <1>n, <1>f, <2>3, <3>1
      <3>6. QED
        BY <2>1, <3>4, <3>5
    <2>4. CASE LegacyPoll
      <3>1. PICK n \in 1 .. MaxFetch :
               /\ position + n - 1 <= published
               /\ position' = position + n
               /\ polled' = NextRecords(n) \/ dropped' = dropped \cup Range(NextRecords(n))
        BY <2>4 DEF LegacyPoll
      <3>2. n \in Nat \ {0} /\ published' = published
        BY <1>n, <2>4 DEF LegacyPoll
      <3>3. Range(NextRecords(n)) = position .. position + n - 1
        BY <1>n, <3>1, <3>2, NextFacts
      <3>4. Range(NextRecords(n)) \subseteq Held'
        BY <3>1 DEF Held
      <3>5. i \in 1 .. published /\ (i < Front \/ i \in position .. position + n - 1)
        BY <1>1, <1>n, <1>f, <2>4, <3>1, <3>2
      <3>6. QED
        BY <2>1, <3>3, <3>4, <3>5
    <2>5. CASE (Exit \/ Crash) /\ kind \in {"kafka", "legacy"}
      <3>1. position' = committed + 1 /\ published' = published
        BY <2>5, GoneFacts DEF Kafka
      <3>2. committed < Front
        BY <2>5 DEF Settled, Kafka
      <3>3. i \in 1 .. published /\ i < Front
        BY <1>1, <1>n, <1>f, <2>5, <3>1, <3>2
      <3>4. QED
        BY <2>1, <3>3
    <2>6. CASE (Exit \/ Crash) /\ kind = "memory"
      <3>1. /\ dropped' = dropped \cup (InMemory \ processed) /\ processed' = processed
            /\ Range(fetched) \cup (position .. published) \subseteq InMemory
            /\ published' = published
        BY <2>6, GoneFacts
      <3>2. i \in 1 .. published /\ i \in Nat
        BY <1>1, <1>n, <3>1
      <3>3. i < Front \/ (Front <= i /\ i < position) \/ i \in position .. published
        BY <1>n, <3>2
      <3>4. CASE (Front <= i /\ i < position) \/ i \in position .. published
        <4>1. i \in InMemory
          BY <2>6, <3>1, <3>2, <3>4, FetchedCovers
        <4>2. QED
          BY <3>1, <4>1 DEF Held
      <3>5. QED
        BY <2>1, <3>2, <3>3, <3>4
    <2>7. QED
      BY <1>1, <1>f, <1>p, <2>1, <2>2, <2>3, <2>4, <2>5, <2>6
  <1>2. ASSUME kind \in {"redis", "nats"}, NEW i \in 1 .. published', i < position', i \notin unacked'
        PROVE  i \in Held'
    <2>1. CASE i \in 1 .. published /\ i < position /\ i \notin unacked
      BY <1>2, <1>h, <2>1 DEF Settled
    <2>2. CASE UNCHANGED <<position, unacked>>
      <3>1. i \in 1 .. published
        <4>1. i < published + 1 /\ i \in Nat \ {0}
          BY <1>2, <1>n, <1>t, <2>2 DEF Typed
        <4>2. QED
          BY <1>n, <4>1
      <3>2. QED
        BY <1>2, <2>1, <2>2, <3>1
    <2>3. CASE Fetch
      <3>1. PICK n \in 1 .. (IF kind = "memory" THEN 1 ELSE MaxFetch) :
               /\ position + n - 1 <= published
               /\ position' = position + n
               /\ unacked' = unacked \cup Range(NextRecords(n))
        BY <1>2, <2>3 DEF Fetch
      <3>2. n \in Nat \ {0} /\ published' = published
        BY <1>n, <2>3 DEF Fetch
      <3>3. Range(NextRecords(n)) = position .. position + n - 1
        BY <1>n, <3>1, <3>2, NextFacts
      <3>4. i \in 1 .. published /\ i \notin position .. position + n - 1 /\ i \notin unacked
        BY <1>2, <3>1, <3>2, <3>3
      <3>5. i < position
        BY <1>2, <1>n, <3>1, <3>2, <3>4
      <3>6. QED
        BY <2>1, <3>4, <3>5
    <2>4. ASSUME NEW j \in Held, AckRecord(j) \/ UNCHANGED broker
          PROVE  i \in Held'
      <3>1. position' = position /\ published' = published /\ (unacked' = unacked \/ unacked' = unacked \ {j})
        BY <2>4 DEF AckRecord, broker
      <3>2. CASE i = j
        BY <1>h, <2>4, <3>2
      <3>3. QED
        BY <1>2, <2>1, <3>1, <3>2
    <2>5. CASE Acknowledge
      <3>1. Head(fetched) \in Held /\ (AckRecord(Head(fetched)) \/ UNCHANGED broker)
        BY <2>5 DEF Acknowledge, Hands
      <3>2. QED
        BY <2>4, <3>1
    <2>6. CASE Commit
      <3>1. Head(polled) \in Held /\ (AckRecord(Head(polled)) \/ UNCHANGED broker)
        BY <2>6 DEF Commit, Hands, Held
      <3>2. QED
        BY <2>4, <3>1
    <2>7. CASE Exit \/ Crash
      BY <1>2, <2>2, <2>7, GoneFacts
    <2>8. CASE LegacyPoll
      BY <1>2, <2>8 DEF LegacyPoll
    <2>9. CASE Loop \/ Subscribe \/ Stop \/ Restart \/ UNCHANGED vars
      BY <2>2, <2>9, Quiet
    <2>10. CASE Publish \/ Poll \/ Process \/ Handle \/ \E j \in Records : Redeliver(j)
      BY <2>2, <2>10 DEF Publish, Poll, Process, Handle, Redeliver, broker
    <2>11. QED
      BY <2>3, <2>5, <2>6, <2>7, <2>8, <2>9, <2>10 DEF Next, Subscriber, Worker
  <1>3. ASSUME Kafka
        PROVE  committed' < Front'
    <2>0. committed < Front /\ kind \in {"kafka", "legacy"}
      BY <1>3 DEF Settled, Kafka
    <2>1. CASE committed' = committed /\ ~(Exit \/ Crash)
      <3>1. Front' \in Int /\ Front' >= Front
        <4>1. CASE LegacyPoll
          <5>1. position' \in Int /\ position' >= position
            BY <1>n, <4>1 DEF LegacyPoll
          <5>2. QED
            BY <1>n, <1>f, <4>1, <5>1
        <4>2. CASE Handle \/ Front' = Front
          BY <1>n, <1>f, <4>2
        <4>3. QED
          BY <1>f, <2>0, <2>1, <4>1, <4>2
      <3>2. QED
        BY <1>n, <2>0, <2>1, <3>1
    <2>2. CASE Exit \/ Crash
      <3>1. Front' = committed + 1 /\ committed' = committed
        BY <1>3, <1>f, <2>2, GoneFacts
      <3>2. QED
        BY <1>n, <3>1
    <2>3. CASE Acknowledge /\ committed' # committed
      <3>1. /\ subscriber = "ack" /\ fetched # <<>> /\ committed' = Head(fetched)
        BY <1>3, <2>3 DEF Acknowledge, AckRecord, broker, Hands
      <3>2. Head(fetched) = position - Len(fetched) /\ Front = position - Len(fetched) + 1
        BY <2>0, <3>1, FetchedCovers, FrontFacts
      <3>3. Front' = Front
        BY <2>3, FrontMoves
      <3>4. QED
        BY <1>n, <3>1, <3>2, <3>3
    <2>4. CASE Commit /\ committed' # committed
      <3>1. polled # <<>> /\ committed' = Head(polled)
        BY <1>3, <2>4 DEF Commit, AckRecord, broker, Hands
      <3>2. Head(polled) \in Range(polled)
        BY <1>t, <3>1, TakeFacts DEF Typed
      <3>3. Head(polled) < Front
        BY <2>0, <3>2 DEF Queued
      <3>4. Front' = Front
        BY <1>n, <2>4 DEF Commit, AckRecord, broker, Front
      <3>5. QED
        BY <3>1, <3>3, <3>4
    <2>5. committed' = committed \/ Acknowledge \/ Commit
      BY GoneFacts, ZenonT(60) DEF Next, Subscriber, Worker, Publish, Fetch, Redeliver, Handle,
         Loop, Subscribe, Poll, LegacyPoll, Process, broker, Stop, Restart, vars
    <2>6. QED
      BY <2>1, <2>2, <2>3, <2>4, <2>5
  <1>4. QED
    BY <1>1, <1>2, <1>3, <1>f DEF Settled, Kafka

\* A larger record at the end of a rising sequence.
LEMMA RisingAppend ==
    ASSUME NEW S, S \subseteq Nat, NEW s \in Seq(S), NEW e \in S, Rising(s), Below(Range(s), {e})
    PROVE  Rising(Append(s, e))
  <1>1. /\ Append(s, e) \in Seq(S) /\ Len(Append(s, e)) = Len(s) + 1
        /\ \A i \in 1 .. Len(s) : Append(s, e)[i] = s[i]
        /\ Append(s, e)[Len(s) + 1] = e
    BY AppendFacts
  <1>2. DOMAIN Append(s, e) = 1 .. Len(s) + 1 /\ DOMAIN s = 1 .. Len(s) /\ Len(s) \in Nat
    BY <1>1
  <1>3. \A i \in DOMAIN s : s[i] < e
    BY RangeFacts DEF Below
  <1>4. ASSUME NEW i \in DOMAIN Append(s, e), NEW j \in DOMAIN Append(s, e), i < j
        PROVE  Append(s, e)[i] < Append(s, e)[j]
    <2>1. i \in 1 .. Len(s)
      BY <1>2, <1>4
    <2>2. CASE j \in 1 .. Len(s)
      BY <1>1, <1>2, <1>4, <2>1, <2>2 DEF Rising
    <2>3. CASE j = Len(s) + 1
      BY <1>1, <1>2, <1>3, <2>1, <2>3
    <2>4. QED
      BY <1>2, <2>2, <2>3
  <1>5. QED
    BY <1>4 DEF Rising

\* The rest of a rising sequence rises, and lies above its first.
LEMMA RisingTail ==
    ASSUME NEW S, S \subseteq Nat, NEW s \in Seq(S), s # <<>>, Rising(s)
    PROVE  Rising(Tail(s)) /\ Below({Head(s)}, Range(Tail(s)))
  <1>1. /\ Head(s) = s[1] /\ 1 \in DOMAIN s /\ Tail(s) \in Seq(S)
        /\ \A i \in DOMAIN Tail(s) : Tail(s)[i] = s[i + 1] /\ i + 1 \in DOMAIN s
    BY TakeFacts
  <1>2. \A i \in DOMAIN Tail(s) : i \in Nat /\ 1 < i + 1
    BY <1>1
  <1>3. Rising(Tail(s))
    <2>1. ASSUME NEW i \in DOMAIN Tail(s), NEW j \in DOMAIN Tail(s), i < j
          PROVE  Tail(s)[i] < Tail(s)[j]
      <3>1. i + 1 < j + 1
        BY <1>2, <2>1
      <3>2. QED
        BY <1>1, <3>1 DEF Rising
    <2>2. QED
      BY <2>1 DEF Rising
  <1>4. \A x \in Range(Tail(s)) : Head(s) < x
    <2>1. ASSUME NEW x \in Range(Tail(s))
          PROVE  Head(s) < x
      <3>1. PICK i \in DOMAIN Tail(s) : x = Tail(s)[i]
        BY <1>1, RangeFacts
      <3>2. x = s[i + 1] /\ 1 < i + 1 /\ i + 1 \in DOMAIN s
        BY <1>1, <1>2, <3>1
      <3>3. QED
        BY <1>1, <3>2 DEF Rising
    <2>2. QED
      BY <2>1
  <1>5. QED
    BY <1>3, <1>4 DEF Below

\* Records go on coming through in order.
LEMMA QueuedStep ==
    ASSUME ConstantsOK, TypeOK, TypeOK', Hands, Hands', Consecutive, Queued, [Next]_vars
    PROVE  Queued'
  <1>t. Typed /\ Typed'
    BY TypedTypeOK
  <1>n. /\ position \in Nat \ {0} /\ MaxFetch \in Nat
        /\ published \in Nat /\ Front \in Int /\ Front <= position
        /\ 1 .. published \subseteq Nat
    BY Numbers, FrontFacts DEF ConstantsOK
  <1>z. Range(<<>>) = {} /\ Rising(<<>>)
    BY EmptyFacts DEF Rising
  <1>r. /\ Range(ch) \subseteq 1 .. published /\ Range(polled) \subseteq 1 .. published
        /\ Range(trace) \subseteq 1 .. published
    BY <1>t, RangeFacts DEF Typed
  <1>f. /\ Handle => Front' = Front + 1
        /\ LegacyPoll => Front = position /\ Front' = position'
        /\ Exit \/ Crash => Front' = position'
        /\ Front' = Front \/ Handle \/ LegacyPoll \/ Exit \/ Crash \/ kind = "nats"
        /\ kind' = kind
    BY FrontMoves
  <1>1. CASE kind = "nats"
    BY <1>1, <1>f DEF Queued
  <1> SUFFICES ASSUME kind # "nats"
               PROVE  Queued'
    BY <1>1
  <1>q. /\ Rising(trace) /\ Rising(polled) /\ Rising(ch)
        /\ Below(Range(trace), Todo)
        /\ Below(Range(trace) \cup Range(polled), Range(ch))
        /\ \A x \in Range(trace) \cup Range(polled) \cup Range(ch) : x < Front
    BY DEF Queued
  <1>2. CASE UNCHANGED <<trace, polled, ch>> /\ Todo' = Todo /\ Front' = Front
    BY <1>q, <1>2 DEF Queued
  <1>3. CASE Handle
    <2>1. /\ fetched # <<>> /\ ch' = Append(ch, Head(fetched)) /\ subscriber = "handle"
          /\ UNCHANGED <<trace, polled, worker>>
      BY <1>3 DEF Handle
    <2>2. Head(fetched) = Front /\ Head(fetched) \in 1 .. published
      BY <1>t, <2>1, FetchedCovers, FrontFacts, TakeFacts DEF Typed
    <2>3. Range(ch') = Range(ch) \cup {Front}
      BY <1>t, <2>1, <2>2, AppendFacts, SMTT(40) DEF Typed
    <2>4. Rising(ch')
      <3>1. Below(Range(ch), {Head(fetched)})
        BY <1>q, <2>2 DEF Below
      <3>2. QED
        BY <1>t, <1>n, <1>q, <2>1, <2>2, <3>1, RisingAppend DEF Typed
    <2>5. Todo' = Todo
      BY <2>1 DEF Todo
    <2>6. Below(Range(trace) \cup Range(polled), Range(ch'))
      BY <1>q, <2>3 DEF Below
    <2>7. \A x \in Range(trace) \cup Range(polled) \cup Range(ch') : x < Front + 1
      BY <1>n, <1>r, <1>q, <2>3
    <2>8. QED
      BY <1>f, <1>3, <1>q, <2>1, <2>4, <2>5, <2>6, <2>7 DEF Queued
  <1>4. CASE Poll
    <2>1. /\ polled = <<>> /\ polled' = ch /\ ch' = <<>> /\ trace' = trace /\ worker' = "process"
          /\ Front' = Front
      BY <1>4 DEF Poll, Hands, broker, Front
    <2>2. Todo' = Range(ch)
      BY <2>1 DEF Todo
    <2>3. /\ Below(Range(trace), Range(ch))
          /\ Below(Range(trace) \cup Range(ch), Range(<<>>))
      BY <1>q, <1>z DEF Below
    <2>4. QED
      BY <1>z, <1>q, <2>1, <2>2, <2>3 DEF Queued
  <1>5. CASE LegacyPoll
    <2>1. /\ polled = <<>> /\ ch = <<>> /\ UNCHANGED <<ch, trace>>
          /\ Front = position /\ Front' = position' /\ worker = "poll"
      BY <1>5, <1>f DEF LegacyPoll, Hands
    <2>2. PICK n \in 1 .. MaxFetch :
             /\ position + n - 1 <= published
             /\ position' = position + n
             /\ \/ polled' = NextRecords(n) /\ worker' = "process"
                \/ worker' = "top" /\ polled' = polled
      BY <1>5 DEF LegacyPoll
    <2>3. n \in Nat \ {0}
      BY <1>n
    <2>4. Rising(NextRecords(n)) /\ Range(NextRecords(n)) = position .. position + n - 1
      BY <1>n, <2>2, <2>3, NextFacts
    <2>5. \A x \in Range(trace) : x < position /\ x < position'
      BY <1>n, <1>r, <1>q, <2>1, <2>2, <2>3
    <2>6. CASE polled' = polled /\ worker' = "top"
      <3>1. Todo' = {}
        BY <1>z, <2>1, <2>6 DEF Todo
      <3>2. Range(polled') = {} /\ Range(ch') = {} /\ trace' = trace /\ Rising(polled') /\ Rising(ch')
        BY <1>z, <2>1, <2>6
      <3>3. Front' = position'
        BY <2>1
      <3>4. \A x \in Range(trace') : x < Front'
        BY <2>5, <3>2, <3>3
      <3>5. QED
        BY <1>q, <3>1, <3>2, <3>4 DEF Queued, Below
    <2>7. CASE polled' = NextRecords(n) /\ worker' = "process"
      <3>1. Todo' = Range(NextRecords(n))
        BY <2>7 DEF Todo
      <3>2. Below(Range(trace), Range(NextRecords(n)))
        BY <1>n, <1>r, <2>3, <2>4, <2>5 DEF Below
      <3>3. \A x \in Range(NextRecords(n)) : x < position'
        BY <1>n, <2>2, <2>3, <2>4
      <3>4. Range(ch') = {} /\ trace' = trace /\ Rising(ch') /\ Front' = position'
        BY <1>z, <2>1
      <3>5. \A x \in Range(trace') \cup Range(polled') : x < Front'
        BY <2>5, <2>7, <3>3, <3>4
      <3>6. QED
        BY <1>q, <2>4, <2>7, <3>1, <3>2, <3>4, <3>5 DEF Queued, Below
    <2>8. QED
      BY <2>2, <2>6, <2>7
  <1>6. CASE Process
    <2>1. /\ polled # <<>> /\ trace' = Append(trace, Head(polled)) /\ worker = "process"
          /\ worker' = "commit" /\ UNCHANGED <<polled, ch>> /\ Front' = Front
      BY <1>6 DEF Process, Hands, broker, Front
    <2>2. Head(polled) \in 1 .. published /\ Head(polled) \in Range(polled)
          /\ Range(polled) = {Head(polled)} \cup Range(Tail(polled))
      BY <1>t, <2>1, TakeFacts DEF Typed
    <2>3. Range(trace') = Range(trace) \cup {Head(polled)}
      BY <1>t, <2>1, <2>2, AppendFacts, SMTT(40) DEF Typed
    <2>4. Todo = Range(polled) /\ Todo' = Range(Tail(polled))
      BY <2>1 DEF Todo
    <2>5. Below(Range(trace), {Head(polled)})
      BY <1>q, <2>2, <2>4 DEF Below
    <2>6. Rising(trace')
      BY <1>t, <1>n, <1>q, <2>1, <2>2, <2>5, RisingAppend DEF Typed
    <2>7. Below({Head(polled)}, Range(Tail(polled)))
      BY <1>t, <1>n, <1>q, <2>1, RisingTail DEF Typed
    <2>8. Below(Range(trace'), Todo')
      BY <1>q, <2>2, <2>3, <2>4, <2>7 DEF Below
    <2>9. Below(Range(trace') \cup Range(polled), Range(ch))
      BY <1>q, <2>2, <2>3 DEF Below
    <2>10. \A x \in Range(trace') \cup Range(polled) \cup Range(ch) : x < Front
      BY <1>q, <2>2, <2>3
    <2>11. QED
      BY <1>q, <2>1, <2>6, <2>8, <2>9, <2>10 DEF Queued
  <1>7. CASE Commit
    <2>1. /\ polled # <<>> /\ polled' = Tail(polled) /\ worker = "commit"
          /\ worker' # "commit" /\ UNCHANGED <<trace, ch>> /\ Front' = Front
      BY <1>7 DEF Commit, Hands, AckRecord, broker, Front
    <2>2. Todo = Range(Tail(polled)) /\ Todo' = Range(Tail(polled))
      BY <2>1 DEF Todo
    <2>3. Range(Tail(polled)) \subseteq Range(polled)
      BY <1>t, <2>1, TakeFacts DEF Typed
    <2>4. Rising(Tail(polled))
      BY <1>t, <1>n, <1>q, <2>1, RisingTail DEF Typed
    <2>5. /\ Below(Range(trace) \cup Range(Tail(polled)), Range(ch))
          /\ \A x \in Range(trace) \cup Range(Tail(polled)) \cup Range(ch) : x < Front
      BY <1>q, <2>3 DEF Below
    <2>6. QED
      BY <1>q, <2>1, <2>2, <2>4, <2>5 DEF Queued
  <1>8. CASE Exit \/ Crash
    <2>1. ch' = <<>> /\ polled' = <<>> /\ trace' = <<>> /\ worker' = "top"
      BY <1>8, GoneFacts
    <2>2. /\ Rising(ch') /\ Rising(polled') /\ Rising(trace')
          /\ Range(ch') = {} /\ Range(polled') = {} /\ Range(trace') = {}
      BY <1>z, <2>1
    <2>3. QED
      BY <2>2 DEF Queued, Below
  <1>9. CASE Fetch \/ Acknowledge
    <2>1. UNCHANGED <<trace, polled, ch, worker>>
      BY <1>9 DEF Fetch, Acknowledge
    <2>2. Front' = Front
      BY <1>9, FrontMoves
    <2>3. QED
      BY <1>2, <1>f, <2>1, <2>2 DEF Todo
  <1>10. CASE Loop \/ Subscribe \/ Stop \/ Restart \/ UNCHANGED vars
    <2>1. /\ UNCHANGED <<trace, polled, ch, position, fetched, subscriber>>
          /\ worker' = worker \/ (worker \in {"top", "poll"} /\ worker' \in {"top", "poll"})
      BY <1>10, Quiet
    <2>2. QED
      BY <1>2, <2>1 DEF Todo, Front
  <1>11. CASE Publish
    <2>1. UNCHANGED <<trace, polled, ch, worker, position, fetched, subscriber>>
      BY <1>11 DEF Publish
    <2>2. QED
      BY <1>2, <2>1 DEF Todo, Front
  <1>12. (\E i \in Records : Redeliver(i)) => kind = "nats"
    BY DEF Redeliver
  <1>13. QED
    BY <1>3, <1>4, <1>5, <1>6, <1>7, <1>8, <1>9, <1>10, <1>11, <1>12 DEF Next, Subscriber, Worker

-----------------------------------------------------------------------------
(* The theorems.                                                           *)

\* The invariant holds at the start.
LEMMA InitBInv == ASSUME ConstantsOK, Init PROVE BInv
  <1>1. /\ DOMAIN fetched = {} /\ Len(fetched) = 0 /\ Range(ch) = {} /\ Range(polled) = {}
        /\ DOMAIN ch = {} /\ DOMAIN polled = {} /\ DOMAIN trace = {} /\ Range(trace) = {}
    BY EmptyFacts DEF Init
  <1>2. Typed
    <2>1. /\ fetched \in Seq(1 .. published) /\ ch \in Seq(1 .. published)
          /\ polled \in Seq(1 .. published) /\ trace \in Seq(1 .. published)
      BY EmptyFacts DEF Init
    <2>2. Len(ch) <= Capacity /\ 0 \in 0 .. MaxDeliver /\ 0 \in 0 .. MaxPublished
      BY EmptyFacts DEF Init, ConstantsOK
    <2>3. QED
      BY <2>1, <2>2 DEF Init, Typed
  <1>3. TypeOK
    BY <1>2, TypedTypeOK
  <1>4. Hands
    BY DEF Init, Hands
  <1>5. Front = 1
    BY <1>3, <1>4, FrontFacts DEF Init
  <1>6. Todo = {}
    BY <1>1 DEF Init, Todo
  <1>7. Consecutive /\ Settled /\ Counted
    <2>1. published = 0 /\ committed = 0 /\ 0 < 1 /\ 1 .. 0 = {}
      BY DEF Init
    <2>2. \A i \in Records : deliveries[i] = 0 /\ i \notin unacked
      BY DEF Init
    <2>3. QED
      BY <1>1, <1>5, <2>1, <2>2 DEF Consecutive, Settled, Counted
  <1>8. Queued
    BY <1>1, <1>6 DEF Queued, Rising, Below
  <1>9. QED
    BY <1>3, <1>4, <1>7, <1>8 DEF BInv

\* Every step preserves it.
LEMMA NextBInv == ASSUME ConstantsOK, BInv, [Next]_vars PROVE BInv'
  <1>1. TypeOK' /\ Hands' /\ Consecutive' /\ Counted'
    BY TypeStep, HandsStep, ConsecutiveStep, CountedStep DEF BInv
  <1>2. Settled' /\ Queued'
    BY <1>1, SettledStep, QueuedStep DEF BInv
  <1>3. QED
    BY <1>1, <1>2 DEF BInv

\* The invariant of the bus: what each goroutine has, that records come through
\* in order, and that what is behind the front is held or not acknowledged.
THEOREM Inductive == ConstantsOK => (Spec => []BInv)
  <1> SUFFICES ASSUME ConstantsOK
               PROVE  Spec => []BInv
    OBVIOUS
  <1>1. Init => BInv
    BY InitBInv
  <1>2. BInv /\ [Next]_vars => BInv'
    BY NextBInv
  <1>3. QED
    BY <1>1, <1>2, PTL DEF Spec

\* Every variable of a bus and its consumer keeps its type, the channels their
\* capacities, for every bus and any sizes.
THEOREM TypeCorrect == ConstantsOK => (Spec => []TypeOK)
  <1> SUFFICES ASSUME ConstantsOK
               PROVE  Spec => []TypeOK
    OBVIOUS
  <1>1. BInv => TypeOK
    BY DEF BInv
  <1>2. QED
    BY <1>1, Inductive, PTL

\* A record the broker will not hand out again was processed, is with the
\* worker, or was lost with the memory of a process that ended or with a poll of
\* Kafka that came too late: on every bus, for any number of records, any sizes
\* of the channels, failed and late acknowledgements, crashes and restarts.
THEOREM OnlyMemoryLost == ConstantsOK => (Spec => []LostOnlyInMemory)
  <1> SUFFICES ASSUME ConstantsOK
               PROVE  Spec => []LostOnlyInMemory
    OBVIOUS
  <1>1. BInv => LostOnlyInMemory
    <2> SUFFICES ASSUME BInv, NEW i \in Done
                 PROVE  i \in processed \cup InHand \cup dropped
      BY DEF LostOnlyInMemory
    <2>1. TypeOK /\ Hands /\ Consecutive /\ Settled
      BY DEF BInv
    <2>2. /\ kind \in {"memory", "kafka", "legacy", "redis", "nats"} /\ i \in 1 .. published
          /\ position \in Nat /\ committed \in Nat /\ Front \in Int /\ published \in Nat
      BY <2>1, Numbers, FrontFacts DEF Done
    <2>3. CASE Kafka
      <3>1. i <= committed /\ committed < Front /\ kind \in {"memory", "kafka", "legacy"}
        BY <2>1, <2>3 DEF Done, Settled, Kafka
      <3>2. i < Front
        BY <2>2, <3>1
      <3>3. i \in Held
        BY <2>1, <2>2, <3>1, <3>2 DEF Settled
      <3>4. QED
        BY <3>3 DEF Held, InHand
    <2>4. CASE kind = "memory"
      <3>1. i < position
        BY <2>4 DEF Done, Kafka
      <3>2. i < Front \/ (Front <= i /\ i < position)
        BY <2>2, <3>1
      <3>3. i \in Held \/ i \in Range(fetched)
        BY <2>1, <2>2, <2>4, <3>2, FetchedCovers DEF Settled
      <3>4. QED
        BY <3>3 DEF Held, InHand
    <2>5. CASE kind \in {"redis", "nats"}
      <3>1. i < position /\ i \notin unacked
        BY <2>5 DEF Done, Kafka
      <3>2. i \in Held
        BY <2>1, <2>2, <2>5, <3>1 DEF Settled
      <3>3. QED
        BY <3>2 DEF Held, InHand
    <2>6. QED
      BY <2>2, <2>3, <2>4, <2>5 DEF Kafka
  <1>2. QED
    BY <1>1, Inductive, PTL

\* While the process lives, records are processed in the order in which they
\* were published and none twice, on every bus but NATS, although each is
\* acknowledged twice and the second acknowledgement may move Kafka's offset back.
THEOREM ProcessedInOrder == ConstantsOK => (Spec => []InOrderOnce)
  <1> SUFFICES ASSUME ConstantsOK
               PROVE  Spec => []InOrderOnce
    OBVIOUS
  <1>1. BInv => InOrderOnce
    BY DEF BInv, Queued, Rising, InOrderOnce
  <1>2. QED
    BY <1>1, Inductive, PTL

=============================================================================
