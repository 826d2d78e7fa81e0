--------------------------- MODULE CollectorProofs ---------------------------
(***************************************************************************)
(* What four parts of the collector and two that work with it keep, each   *)
(* proved of its own specification: the promise of Custody, which Ingest   *)
(* and Spool implement; the batching sinks; the bridge to Cortex; the      *)
(* stager; the senders of the SDKs; the memory queue with its rotating     *)
(* file.  The parts share no state: a constant or a variable declared here *)
(* stands for the one of that name in each of the instances.               *)
(***************************************************************************)
EXTENDS Integers, Sequences, TLAPS

CONSTANTS
    Events, Kinds, BatchSize, MaxFaults,    \* of Custody and BatchSinks
    Requests, Size, QueueSize,              \* of Bridge, with BatchSize
    MaxMessage, Unreadable, MaxAttempts, Bounds, \* of Stager, with Kinds, BatchSize
    Worlds, Attempts, EventsLimit,          \* of Delivery, with BatchSize, MaxFaults
    Batches, MaxEvents, Threshold, FileSize, Modes
                    \* of DeliveryQueue, with BatchSize, MaxAttempts, MaxFaults

VARIABLES
    acked, held, settled,                   \* of Custody
    kind, buffer, pc, hand, line, timer, closed, sent, appended,
    before, overlapped, failed, faults,     \* of BatchSinks
    sync, queue, batch, sender, next, closer,   \* of Bridge, with pc, sent, failed
    unreadable, produced, partial, removed, committed, position, listing, yielded,
    attempts, tries, staged, letters, skipped, repeated, budget,
                                            \* of Stager, with kind, pc, hand
    world, written, attempt, request, seen, copies, quarantine, told, unread, forgotten,
                            \* of Delivery, with buffer, hand, pc, failed, faults
    retry, events, stopCh, tick, failures, openTime, state, asked, accepted, dropped, disk,
    overwritten             \* of DeliveryQueue, with closed, pc, hand, faults

Promise == INSTANCE Custody
Sinks == INSTANCE BatchSinks
Client == INSTANCE Bridge
Staging == INSTANCE Stager
Senders == INSTANCE Delivery
Memory == INSTANCE DeliveryQueue

-----------------------------------------------------------------------------
\* The promise.

\* Nothing is acknowledged at the start.
LEMMA InitKept == Promise!Init => Promise!Kept
BY DEF Promise!Init, Promise!Kept

\* An acknowledgement is only of a settled event, and nothing settled is taken back.
LEMMA NextKept == Promise!Kept /\ [Promise!Next]_Promise!vars => Promise!Kept'
<1> SUFFICES ASSUME Promise!Kept, [Promise!Next]_Promise!vars PROVE Promise!Kept'
    OBVIOUS
<1>1. ASSUME NEW S \in SUBSET Events, Promise!Take(S) PROVE Promise!Kept'
    BY <1>1 DEF Promise!Kept, Promise!Take
<1>2. ASSUME NEW S \in SUBSET Events, Promise!Settle(S) PROVE Promise!Kept'
    BY <1>2 DEF Promise!Kept, Promise!Settle
<1>3. ASSUME NEW S \in SUBSET Events, Promise!Release(S) PROVE Promise!Kept'
    BY <1>3 DEF Promise!Kept, Promise!Release
<1>4. ASSUME NEW e \in Events, Promise!Acknowledge(e) PROVE Promise!Kept'
    BY <1>4 DEF Promise!Kept, Promise!Acknowledge
<1>5. CASE UNCHANGED Promise!vars
    BY <1>5 DEF Promise!Kept, Promise!vars
<1> QED BY <1>1, <1>2, <1>3, <1>4, <1>5 DEF Promise!Next

\* An event the collector has answered "accepted" for is in durable storage or
\* has reached a sink, the dead letters or quarantine.
THEOREM PromiseKept == Promise!Spec => []Promise!Kept
BY InitKept, NextKept, PTL DEF Promise!Spec

-----------------------------------------------------------------------------
\* The batching sinks.

\* The kinds are those of newLokiSink and of the two SDKs, and the two
\* goroutines are no events.
SinkNames ==
    /\ Kinds \subseteq {"loki", "go", "js"}
    /\ Sinks!Timer \notin Events /\ Sinks!Closer \notin Events

\* i is the place where e comes first in s.
IsFirst(s, i, e) == i \in DOMAIN s /\ s[i] = e /\ \A j \in 1 .. i - 1 : s[j] # e

\* The events of a that s has come first, and each comes first in s where it is
\* due.
InTurn(a, s) ==
    /\ Sinks!Range(s) \subseteq Sinks!Range(a)
    /\ \A e \in Sinks!Range(s) : \E i \in DOMAIN s : IsFirst(s, i, e)
    /\ \A i, j \in DOMAIN a : i < j /\ a[j] \in Sinks!Range(s) => a[i] \in Sinks!Range(s)
    /\ \A i, j \in DOMAIN a, k, l \in DOMAIN s :
          i < j /\ IsFirst(s, k, a[i]) /\ IsFirst(s, l, a[j]) => k < l

\* What waits, w, is the end of a, and s has what comes before.
Waits(w, a, s) ==
    /\ Len(w) <= Len(a)
    /\ \A i \in 1 .. Len(w) : w[i] = a[(Len(a) - Len(w)) + i]
    /\ \A i \in 1 .. Len(a) - Len(w) : a[i] \in Sinks!Range(s)

\* The types.
SinkTypes ==
    /\ kind \in {"loki", "go", "js"}
    /\ buffer \in Seq(Events) /\ sent \in Seq(Events) /\ appended \in Seq(Events)
    /\ hand \in [Sinks!Procs -> Seq(Events)]
    /\ pc \in [Sinks!Procs -> {"new", "ok", "error", "refused", "flush", "send",
                         "idle", "gone", "wait", "closed", "failed"}]
    /\ \A e \in Events : pc[e] \in {"new", "ok", "error", "refused", "flush", "send"}
    /\ pc[Sinks!Timer] \in {"idle", "flush", "send", "gone"}
    /\ pc[Sinks!Closer] \in {"idle", "wait", "flush", "send", "closed", "failed"}

\* An event is buffered once; a batch is in the hands of who sends it.  Only the
\* Loki kind sends two at a time, and its Close has waited for the ticker.
SinkHands ==
    /\ \A p \in Sinks!Procs : pc[p] # "send" => hand[p] = <<>>
    /\ \A i, j \in DOMAIN appended : appended[i] = appended[j] => i = j
    /\ \A e \in Events : e \in Sinks!Range(appended) => pc[e] # "new"
    /\ kind # "loki" => \A p, q \in Sinks!Sending : p = q
    /\ kind = "loki" /\ pc[Sinks!Closer] \notin {"idle", "wait"} => pc[Sinks!Timer] = "gone"

SinkClosing ==
    /\ before \subseteq Sinks!Range(appended)
    /\ pc[Sinks!Closer] = "send" =>
          before \subseteq Sinks!Range(sent) \cup overlapped \cup Sinks!Range(hand[Sinks!Closer])

SinkOrder ==
    kind # "loki" =>
        /\ InTurn(appended, sent)
        /\ Sinks!Sending = {} => Waits(buffer, appended, sent)
        /\ \A p \in Sinks!Sending : Waits(hand[p] \o buffer, appended, sent)

SinkInv == SinkTypes /\ SinkHands /\ SinkClosing /\ Sinks!BufferedIsKept /\ Sinks!CloseSends /\
   SinkOrder

\* What Append and \o do to a sequence and to the set of what it holds.
LEMMA RangeAppend ==
    ASSUME NEW S, NEW s \in Seq(S), NEW x \in S
    PROVE  Sinks!Range(Append(s, x)) = Sinks!Range(s) \cup {x}
<1>1. \A i \in 1 .. Len(s) : Append(s, x)[i] = s[i]
    OBVIOUS
<1>2. Append(s, x)[Len(s) + 1] = x /\ Len(Append(s, x)) = Len(s) + 1
    OBVIOUS
<1>3. Len(s) \in Nat /\ DOMAIN s = 1 .. Len(s) /\ DOMAIN Append(s, x) = 1 .. Len(s) + 1
    OBVIOUS
<1> HIDE DEF Sinks!Range
<1>4. Sinks!Range(s) \cup {x} \subseteq Sinks!Range(Append(s, x))
    BY <1>1, <1>2, <1>3 DEF Sinks!Range
<1>5. Sinks!Range(Append(s, x)) \subseteq Sinks!Range(s) \cup {x}
  <2> SUFFICES ASSUME NEW i \in 1 .. Len(s) + 1 PROVE Append(s, x)[i] \in Sinks!Range(s) \cup {x}
    BY <1>3 DEF Sinks!Range
  <2>1. CASE i \in 1 .. Len(s)
    BY <2>1, <1>1, <1>3 DEF Sinks!Range
  <2>2. CASE i = Len(s) + 1
    BY <2>2, <1>2
  <2> QED BY <2>1, <2>2, <1>3
<1> QED BY <1>4, <1>5

\* What \o does to a sequence.
LEMMA Concat ==
    ASSUME NEW S, NEW s \in Seq(S), NEW t \in Seq(S)
    PROVE  /\ s \o t \in Seq(S) /\ Len(s \o t) = Len(s) + Len(t)
           /\ DOMAIN (s \o t) = 1 .. Len(s) + Len(t)
           /\ Len(s) \in Nat /\ Len(t) \in Nat
           /\ DOMAIN s = 1 .. Len(s) /\ DOMAIN t = 1 .. Len(t)
           /\ \A i \in 1 .. Len(s) : (s \o t)[i] = s[i]
           /\ \A i \in 1 .. Len(t) : (s \o t)[Len(s) + i] = t[i]
           /\ \A i \in 1 .. Len(s) + Len(t) :
                 i \in 1 .. Len(s) \/ (i - Len(s) \in 1 .. Len(t) /\ (s \o t)[i] = t[i - Len(s)])
<1>1. /\ Len(s) \in Nat /\ Len(t) \in Nat /\ DOMAIN s = 1 .. Len(s) /\ DOMAIN t = 1 .. Len(t)
      /\ s \o t \in Seq(S) /\ Len(s \o t) = Len(s) + Len(t)
    OBVIOUS
<1>2. DOMAIN (s \o t) = 1 .. Len(s) + Len(t)
    BY <1>1
<1>3. \A i \in 1 .. Len(s) : (s \o t)[i] = s[i]
    OBVIOUS
<1>4. \A i \in 1 .. Len(s) + Len(t) :
         i \in 1 .. Len(s) \/ (i - Len(s) \in 1 .. Len(t) /\ (s \o t)[i] = t[i - Len(s)])
    OBVIOUS
<1>5. \A i \in 1 .. Len(t) : (s \o t)[Len(s) + i] = t[i]
  <2> TAKE i \in 1 .. Len(t)
  <2>1. Len(s) + i \in 1 .. Len(s) + Len(t) /\ Len(s) + i \notin 1 .. Len(s) /\
           (Len(s) + i) - Len(s) = i
    BY <1>1
  <2> QED BY <2>1, <1>4
<1> QED BY <1>1, <1>2, <1>3, <1>4, <1>5

\* To append to the second of two is to append to both.
LEMMA ConcatAppend ==
    \A s, t \in Seq(Events), x \in Events :
        s \o t \in Seq(Events) /\ Append(s \o t, x) = s \o Append(t, x)
<1> TAKE s, t \in Seq(Events), x \in Events
<1>1. s \o t \in Seq(Events) /\ <<x>> \in Seq(Events)
    OBVIOUS
<1>2. \A u \in Seq(Events) : Append(u, x) = u \o <<x>>
    OBVIOUS
<1>3. \A u, v, w \in Seq(Events) : (u \o v) \o w = u \o (v \o w)
    OBVIOUS
<1>4. Append(s \o t, x) = (s \o t) \o <<x>>
    BY <1>1, <1>2, Zenon
<1>5. (s \o t) \o <<x>> = s \o (t \o <<x>>)
    BY <1>1, <1>3, Zenon
<1>6. t \o <<x>> = Append(t, x)
    BY <1>2, Zenon
<1> QED BY <1>1, <1>4, <1>5, <1>6, Zenon

\* Likewise for the buffer behind the batch in a hand.
LEMMA HandAppend ==
    ASSUME buffer \in Seq(Events), hand \in [Sinks!Procs -> Seq(Events)]
    PROVE  \A p \in Sinks!Procs, e \in Events :
               /\ hand[p] \o buffer \in Seq(Events)
               /\ Append(hand[p] \o buffer, e) = hand[p] \o Append(buffer, e)
<1> TAKE p \in Sinks!Procs, e \in Events
<1>1. hand[p] \in Seq(Events)
    OBVIOUS
<1> QED BY <1>1, ConcatAppend, Zenon

\* The values of two sequences in a row.
LEMMA RangeConcat ==
    ASSUME NEW S, NEW s \in Seq(S), NEW t \in Seq(S)
    PROVE  Sinks!Range(s \o t) = Sinks!Range(s) \cup Sinks!Range(t)
<1> DEFINE st == s \o t
<1>1. /\ DOMAIN st = 1 .. Len(s) + Len(t) /\ Len(s) \in Nat /\ Len(t) \in Nat
      /\ DOMAIN s = 1 .. Len(s) /\ DOMAIN t = 1 .. Len(t)
      /\ \A i \in 1 .. Len(s) : st[i] = s[i]
      /\ \A i \in 1 .. Len(t) : st[Len(s) + i] = t[i]
      /\ \A i \in 1 .. Len(s) + Len(t) :
            i \in 1 .. Len(s) \/ (i - Len(s) \in 1 .. Len(t) /\ st[i] = t[i - Len(s)])
    BY Concat
<1> HIDE DEF st
<1>2. \A i \in 1 .. Len(s) : s[i] \in Sinks!Range(st)
    BY <1>1 DEF Sinks!Range
<1>3. \A i \in 1 .. Len(t) : t[i] \in Sinks!Range(st)
  <2> TAKE i \in 1 .. Len(t)
  <2>1. Len(s) + i \in DOMAIN st
    BY <1>1
  <2> QED BY <1>1, <2>1 DEF Sinks!Range
<1>4. \A i \in DOMAIN st : st[i] \in Sinks!Range(s) \cup Sinks!Range(t)
    BY <1>1 DEF Sinks!Range
<1>5. Sinks!Range(s) \cup Sinks!Range(t) \subseteq Sinks!Range(st)
    BY <1>1, <1>2, <1>3 DEF Sinks!Range
<1>6. Sinks!Range(st) \subseteq Sinks!Range(s) \cup Sinks!Range(t)
    BY <1>4 DEF Sinks!Range
<1> QED BY <1>5, <1>6 DEF st

\* What was buffered and not sent changes nothing.
LEMMA InTurnBuffer ==
    ASSUME NEW S, NEW a \in Seq(S), NEW s \in Seq(S), NEW e \in S, e \notin Sinks!Range(a),
           InTurn(a, s)
    PROVE  InTurn(Append(a, e), s)
<1> DEFINE b == Append(a, e)
<1>1. /\ Len(a) \in Nat /\ DOMAIN a = 1 .. Len(a) /\ DOMAIN b = 1 .. Len(a) + 1
      /\ b[Len(a) + 1] = e
      /\ \A i \in 1 .. Len(a) : b[i] = a[i]
    OBVIOUS
<1>2. Sinks!Range(b) = Sinks!Range(a) \cup {e}
    BY RangeAppend
<1>3. e \notin Sinks!Range(s)
    BY DEF InTurn
<1> HIDE DEF b
<1>4. \A i \in DOMAIN b : b[i] \in Sinks!Range(s) => i \in DOMAIN a
    BY <1>1, <1>3
<1>5. \A i, j \in DOMAIN b : i < j /\ b[j] \in Sinks!Range(s) => b[i] \in Sinks!Range(s)
    BY <1>1, <1>4 DEF InTurn
<1>6. \A i \in DOMAIN b, k \in DOMAIN s : IsFirst(s, k, b[i]) => i \in DOMAIN a /\ b[i] = a[i]
    BY <1>1, <1>4 DEF IsFirst, Sinks!Range
<1>7. \A i, j \in DOMAIN b, k, l \in DOMAIN s :
         i < j /\ IsFirst(s, k, b[i]) /\ IsFirst(s, l, b[j]) => k < l
    BY <1>6 DEF InTurn
<1>8. InTurn(b, s)
    BY <1>2, <1>5, <1>7 DEF InTurn
<1> QED BY <1>8 DEF b

\* What is appended to the buffer is the last of what waits.
LEMMA WaitsBuffer ==
    ASSUME NEW S, NEW a \in Seq(S), NEW s \in Seq(S), NEW w \in Seq(S), NEW e \in S,
           Waits(w, a, s)
    PROVE  Waits(Append(w, e), Append(a, e), s)
<1>1. /\ Len(a) \in Nat /\ Len(Append(a, e)) = Len(a) + 1
      /\ Append(a, e)[Len(a) + 1] = e
      /\ \A i \in 1 .. Len(a) : Append(a, e)[i] = a[i]
    OBVIOUS
<1>2. /\ Len(w) \in Nat /\ Len(Append(w, e)) = Len(w) + 1
      /\ Append(w, e)[Len(w) + 1] = e
      /\ \A i \in 1 .. Len(w) : Append(w, e)[i] = w[i]
    OBVIOUS
<1>3. Len(w) <= Len(a) /\ (\A i \in 1 .. Len(w) : w[i] = a[(Len(a) - Len(w)) + i])
      /\ \A i \in 1 .. Len(a) - Len(w) : a[i] \in Sinks!Range(s)
    BY DEF Waits
<1> DEFINE b == Append(a, e)
           v == Append(w, e)
<1> HIDE DEF b, v
<1>4. /\ Len(b) = Len(a) + 1 /\ (\A i \in 1 .. Len(a) : b[i] = a[i]) /\ b[Len(a) + 1] = e
      /\ Len(v) = Len(w) + 1 /\ (\A i \in 1 .. Len(w) : v[i] = w[i]) /\ v[Len(w) + 1] = e
    BY <1>1, <1>2 DEF b, v
<1>5. \A i \in 1 .. Len(v) : v[i] = b[Len(b) - Len(v) + i]
  <2> TAKE i \in 1 .. Len(v)
  <2>1. Len(b) - Len(v) = Len(a) - Len(w)
    BY <1>1, <1>2, <1>4
  <2>2. CASE i \in 1 .. Len(w)
    <3>1. (Len(a) - Len(w)) + i \in 1 .. Len(a)
      BY <1>1, <1>2, <1>3, <2>2
    <3> QED BY <1>3, <1>4, <2>1, <2>2, <3>1
  <2>3. CASE i = Len(w) + 1
    <3>1. (Len(a) - Len(w)) + i = Len(a) + 1
      BY <1>1, <1>2, <2>3
    <3> QED BY <1>4, <2>1, <2>3, <3>1
  <2> QED BY <1>2, <1>4, <2>2, <2>3
<1>6. Len(v) <= Len(b) /\ \A i \in 1 .. Len(b) - Len(v) : b[i] \in Sinks!Range(s)
  <2>1. Len(b) - Len(v) = Len(a) - Len(w) /\ \A i \in 1 .. Len(a) - Len(w) : i \in 1 .. Len(a)
    BY <1>1, <1>2, <1>3, <1>4
  <2> QED BY <1>1, <1>2, <1>3, <1>4, <2>1
<1>7. Waits(v, b, s)
    BY <1>5, <1>6 DEF Waits
<1> QED BY <1>7 DEF b, v

\* A batch goes out: it is the first of what waits.
LEMMA InTurnSent ==
    ASSUME NEW S, NEW a \in Seq(S), NEW s \in Seq(S), NEW h \in Seq(S), NEW w \in Seq(S),
           \A i, j \in DOMAIN a : a[i] = a[j] => i = j,
           InTurn(a, s), Waits(h \o w, a, s)
    PROVE  InTurn(a, s \o h) /\ Waits(w, a, s \o h)
<1> DEFINE hw == h \o w
           t == s \o h
           m == Len(a) - Len(hw)
<1>1. /\ Len(hw) = Len(h) + Len(w) /\ Len(h) \in Nat /\ Len(w) \in Nat
      /\ DOMAIN h = 1 .. Len(h)
      /\ \A i \in 1 .. Len(h) : hw[i] = h[i]
      /\ \A i \in 1 .. Len(w) : hw[Len(h) + i] = w[i]
    BY Concat
<1>2. /\ DOMAIN t = 1 .. Len(s) + Len(h) /\ Len(s) \in Nat /\ DOMAIN s = 1 .. Len(s)
      /\ \A i \in 1 .. Len(s) : t[i] = s[i]
      /\ \A i \in 1 .. Len(h) : t[Len(s) + i] = h[i]
      /\ \A i \in 1 .. Len(s) + Len(h) :
            i \in 1 .. Len(s) \/ (i - Len(s) \in 1 .. Len(h) /\ t[i] = h[i - Len(s)])
    BY Concat
<1>3. Sinks!Range(t) = Sinks!Range(s) \cup Sinks!Range(h)
    BY RangeConcat
<1>4. Len(a) \in Nat /\ DOMAIN a = 1 .. Len(a)
    OBVIOUS
<1> HIDE DEF hw, t
<1>5. /\ m \in Nat /\ m + Len(h) + Len(w) = Len(a)
      /\ \A i \in 1 .. Len(h) + Len(w) : hw[i] = a[m + i]
      /\ \A i \in 1 .. m : a[i] \in Sinks!Range(s)
    BY <1>1, <1>4 DEF Waits, hw
<1> HIDE DEF m
<1>n. /\ m \in Nat /\ Len(h) \in Nat /\ Len(w) \in Nat /\ Len(a) \in Nat
      /\ m + Len(h) + Len(w) = Len(a)
    BY <1>1, <1>4, <1>5
<1>6. \A i \in 1 .. Len(h) : h[i] = a[m + i] /\ m + i \in DOMAIN a
  <2> TAKE i \in 1 .. Len(h)
  <2>1. i \in 1 .. Len(h) + Len(w) /\ m + i \in 1 .. Len(a)
    BY <1>n
  <2> QED BY <2>1, <1>1, <1>4, <1>5
<1>7. \A i, j \in 1 .. Len(h) : h[i] = h[j] => i = j
  <2> SUFFICES ASSUME NEW i \in 1 .. Len(h), NEW j \in 1 .. Len(h), h[i] = h[j] PROVE i = j
    OBVIOUS
  <2>1. m + i = m + j
    BY <1>6
  <2> QED BY <2>1, <1>n
<1>8. Sinks!Range(h) \subseteq Sinks!Range(a) /\ Sinks!Range(t) \subseteq Sinks!Range(a)
  <2>1. \A i \in 1 .. Len(h) : h[i] \in Sinks!Range(a)
    BY <1>6 DEF Sinks!Range
  <2>2. Sinks!Range(h) \subseteq Sinks!Range(a)
    BY <1>1, <2>1 DEF Sinks!Range
  <2> QED BY <2>2, <1>3 DEF InTurn
\* Where the events of the batch are in a.
<1>9. \A j \in DOMAIN a : a[j] \in Sinks!Range(h) => j - m \in 1 .. Len(h) /\ h[j - m] = a[j]
  <2> SUFFICES ASSUME NEW j \in DOMAIN a, NEW i \in 1 .. Len(h), a[j] = h[i]
               PROVE  j - m \in 1 .. Len(h) /\ h[j - m] = a[j]
    BY <1>1 DEF Sinks!Range
  <2>1. j = m + i
    BY <1>6
  <2> QED BY <2>1, <1>5
<1>10. \A i, j \in DOMAIN a : i < j /\ a[j] \in Sinks!Range(t) => a[i] \in Sinks!Range(t)
  <2> SUFFICES ASSUME NEW i \in DOMAIN a, NEW j \in DOMAIN a, i < j, a[j] \in Sinks!Range(t)
               PROVE  a[i] \in Sinks!Range(t)
    OBVIOUS
  <2>1. CASE a[j] \in Sinks!Range(s)
    BY <2>1, <1>3 DEF InTurn
  <2>2. CASE a[j] \in Sinks!Range(h)
    <3>1. j - m \in 1 .. Len(h)
      BY <2>2, <1>9
    <3>2. i \in 1 .. m \/ i - m \in 1 .. Len(h)
      BY <3>1, <1>4, <1>5
    <3>3. CASE i \in 1 .. m
      BY <3>3, <1>3, <1>5
    <3>4. CASE i - m \in 1 .. Len(h)
      <4>1. h[i - m] = a[i]
        BY <3>4, <1>4, <1>5, <1>6
      <4> QED BY <4>1, <3>4, <1>1, <1>3 DEF Sinks!Range
    <3> QED BY <3>2, <3>3, <3>4
  <2> QED BY <2>1, <2>2, <1>3
\* Where an event comes first.
<1>11. \A e, i : IsFirst(s, i, e) => IsFirst(t, i, e)
  <2> SUFFICES ASSUME NEW e, NEW i, IsFirst(s, i, e) PROVE IsFirst(t, i, e)
    OBVIOUS
  <2>1. i \in 1 .. Len(s) /\ \A j \in 1 .. i - 1 : j \in 1 .. Len(s)
    BY <1>2 DEF IsFirst
  <2>2. i \in 1 .. Len(s) + Len(h)
    BY <2>1, <1>1, <1>2
  <2> QED BY <2>1, <2>2, <1>2 DEF IsFirst
<1>12. \A i \in 1 .. Len(h) : h[i] \notin Sinks!Range(s) => IsFirst(t, Len(s) + i, h[i])
  <2> SUFFICES ASSUME NEW i \in 1 .. Len(h), h[i] \notin Sinks!Range(s)
               PROVE  IsFirst(t, Len(s) + i, h[i])
    OBVIOUS
  <2>1. Len(s) + i \in DOMAIN t /\ t[Len(s) + i] = h[i]
    BY <1>1, <1>2
  <2>2. ASSUME NEW j \in 1 .. Len(s) + i - 1 PROVE t[j] # h[i]
    <3>1. j \in 1 .. Len(s) + Len(h)
      BY <1>1, <1>2
    <3>2. CASE j \in 1 .. Len(s)
      <4>1. s[j] \in Sinks!Range(s)
        BY <3>2, <1>2 DEF Sinks!Range
      <4> QED BY <4>1, <3>2, <1>2
    <3>3. CASE j - Len(s) \in 1 .. Len(h) /\ t[j] = h[j - Len(s)]
      <4>1. j - Len(s) # i
        BY <1>2
      <4> QED BY <4>1, <3>3, <1>7
    <3> QED BY <3>1, <3>2, <3>3, <1>2
  <2> QED BY <2>1, <2>2 DEF IsFirst
<1>13. \A e \in Sinks!Range(t) : \E i \in DOMAIN t : IsFirst(t, i, e)
  <2> SUFFICES ASSUME NEW e \in Sinks!Range(t) PROVE \E i \in DOMAIN t : IsFirst(t, i, e)
    OBVIOUS
  <2>1. CASE e \in Sinks!Range(s)
    <3>1. PICK i \in DOMAIN s : IsFirst(s, i, e)
      BY <2>1 DEF InTurn
    <3> QED BY <3>1, <1>11 DEF IsFirst
  <2>2. CASE e \notin Sinks!Range(s)
    <3>1. PICK i \in 1 .. Len(h) : h[i] = e
      BY <2>2, <1>1, <1>3 DEF Sinks!Range
    <3> QED BY <3>1, <2>2, <1>12 DEF IsFirst
  <2> QED BY <2>1, <2>2
<1>14. \A e, i, k : IsFirst(t, i, e) /\ IsFirst(t, k, e) => i = k
  <2> SUFFICES ASSUME NEW e, NEW i, NEW k, IsFirst(t, i, e), IsFirst(t, k, e) PROVE i = k
    OBVIOUS
  <2>1. i \in Nat /\ k \in Nat /\ i >= 1 /\ k >= 1
    BY <1>2 DEF IsFirst
  <2>2. ~ (i < k) /\ ~ (k < i)
    BY <2>1 DEF IsFirst
  <2> QED BY <2>1, <2>2
<1>15. \A i, j \in DOMAIN a, k, l \in DOMAIN t :
          i < j /\ IsFirst(t, k, a[i]) /\ IsFirst(t, l, a[j]) => k < l
  <2> SUFFICES ASSUME NEW i \in DOMAIN a, NEW j \in DOMAIN a, NEW k \in DOMAIN t,
                      NEW l \in DOMAIN t,
                      i < j, IsFirst(t, k, a[i]), IsFirst(t, l, a[j])
               PROVE  k < l
    OBVIOUS
  <2>1. a[i] \in Sinks!Range(t) /\ a[j] \in Sinks!Range(t)
    BY DEF IsFirst, Sinks!Range
  <2>2. ASSUME NEW n \in DOMAIN a, NEW x \in DOMAIN t, IsFirst(t, x, a[n]), a[n] \in Sinks!Range(s)
        PROVE  x \in DOMAIN s /\ IsFirst(s, x, a[n])
    <3>1. PICK y \in DOMAIN s : IsFirst(s, y, a[n])
      BY <2>2 DEF InTurn
    <3> QED BY <3>1, <2>2, <1>11, <1>14
  <2>3. ASSUME NEW n \in DOMAIN a, NEW x \in DOMAIN t, IsFirst(t, x, a[n]),
               a[n] \notin Sinks!Range(s),
               a[n] \in Sinks!Range(t)
        PROVE  n - m \in 1 .. Len(h) /\ x = Len(s) + (n - m)
    <3>1. n - m \in 1 .. Len(h) /\ h[n - m] = a[n]
      BY <2>3, <1>3, <1>9
    <3>2. IsFirst(t, Len(s) + (n - m), a[n])
      BY <3>1, <2>3, <1>12
    <3> QED BY <3>1, <3>2, <2>3, <1>14
  <2>4. CASE a[i] \in Sinks!Range(s) /\ a[j] \in Sinks!Range(s)
    BY <2>2, <2>4 DEF InTurn
  <2>5. CASE a[i] \in Sinks!Range(s) /\ a[j] \notin Sinks!Range(s)
    <3>1. k \in 1 .. Len(s)
      BY <2>2, <2>5, <1>2
    <3>2. j - m \in 1 .. Len(h) /\ l = Len(s) + (j - m)
      BY <2>1, <2>3, <2>5
    <3> QED BY <3>1, <3>2, <1>2, <1>4, <1>5
  <2>6. CASE a[i] \notin Sinks!Range(s) /\ a[j] \in Sinks!Range(s)
    BY <2>6 DEF InTurn
  <2>7. CASE a[i] \notin Sinks!Range(s) /\ a[j] \notin Sinks!Range(s)
    <3>1. i - m \in 1 .. Len(h) /\ k = Len(s) + (i - m)
      BY <2>1, <2>3, <2>7
    <3>2. j - m \in 1 .. Len(h) /\ l = Len(s) + (j - m)
      BY <2>1, <2>3, <2>7
    <3> QED BY <3>1, <3>2, <1>2, <1>4, <1>5
  <2> QED BY <2>4, <2>5, <2>6, <2>7
<1>16. Waits(w, a, t)
  <2>1. \A i \in 1 .. Len(w) : w[i] = a[(Len(a) - Len(w)) + i]
    <3> TAKE i \in 1 .. Len(w)
    <3>1. Len(h) + i \in 1 .. Len(h) + Len(w)
      BY <1>n
    <3>4. m + (Len(h) + i) = (Len(a) - Len(w)) + i
      <4> DEFINE nh == Len(h)
                 nw == Len(w)
                 na == Len(a)
      <4>1. i \in Nat /\ m \in Nat /\ nh \in Nat /\ nw \in Nat /\ na \in Nat
            /\ m + nh + nw = na
        BY <1>n
      <4> HIDE DEF nh, nw, na
      <4>2. m + (nh + i) = (na - nw) + i
        BY <4>1
      <4> QED BY <4>2 DEF nh, nw, na
    <3>2. w[i] = hw[Len(h) + i]
      BY <1>1
    <3>3. hw[Len(h) + i] = a[m + (Len(h) + i)]
      BY <3>1, <1>5
    <3> QED BY <3>2, <3>3, <3>4
  <2>2. \A i \in 1 .. Len(a) - Len(w) : a[i] \in Sinks!Range(t)
    <3> TAKE i \in 1 .. Len(a) - Len(w)
    <3>1. i \in 1 .. m \/ (i - m \in 1 .. Len(h) /\ m + (i - m) = i)
      BY <1>1, <1>4, <1>5
    <3>2. ASSUME i - m \in 1 .. Len(h), m + (i - m) = i PROVE a[i] \in Sinks!Range(h)
      BY <3>2, <1>1, <1>6 DEF Sinks!Range
    <3> QED BY <3>1, <3>2, <1>3, <1>5
  <2> QED BY <2>1, <2>2, <1>1, <1>4, <1>5 DEF Waits
<1> QED BY <1>8, <1>10, <1>13, <1>15, <1>16 DEF InTurn, t

\* More was sent than before.
LEMMA WaitsMore ==
    ASSUME NEW w, NEW a, NEW s, NEW t, Sinks!Range(s) \subseteq Sinks!Range(t), Waits(w, a, s)
    PROVE  Waits(w, a, t)
BY DEF Waits

\* What the strengthening says holds at the start.
LEMMA SinkInit == ASSUME SinkNames, Sinks!Init PROVE SinkInv
<1>1. SinkTypes
    BY DEF SinkNames, Sinks!Init, SinkTypes, Sinks!Procs, Sinks!Timer, Sinks!Closer
<1>2. Sinks!Range(<<>>) = {} /\ DOMAIN <<>> = {}
    BY DEF Sinks!Range
<1>3. SinkHands
    BY <1>1, <1>2 DEF Sinks!Init, SinkHands, SinkTypes, Sinks!Sending, Sinks!Procs, Sinks!Timer,
       Sinks!Closer
<1>4. SinkClosing /\ Sinks!BufferedIsKept /\ Sinks!CloseSends
    BY <1>1, <1>2 DEF Sinks!Init, SinkClosing, Sinks!BufferedIsKept, Sinks!CloseSends, SinkTypes
<1>5. InTurn(<<>>, <<>>) /\ Waits(<<>>, <<>>, <<>>)
    BY <1>2 DEF InTurn, Waits
<1>6. SinkOrder
  <2>1. Sinks!Sending = {}
    BY <1>1 DEF Sinks!Init, Sinks!Sending, Sinks!Procs, Sinks!Timer, Sinks!Closer
  <2> QED BY <1>5, <2>1 DEF Sinks!Init, SinkOrder
<1> QED BY <1>1, <1>3, <1>4, <1>6 DEF SinkInv

\* The kinds of steps.
PcTypes ==
    /\ pc \in [Sinks!Procs -> {"new", "ok", "error", "refused", "flush", "send",
                         "idle", "gone", "wait", "closed", "failed"}]
    /\ \A e \in Events : pc[e] \in {"new", "ok", "error", "refused", "flush", "send"}
    /\ pc[Sinks!Timer] \in {"idle", "flush", "send", "gone"}
    /\ pc[Sinks!Closer] \in {"idle", "wait", "flush", "send", "closed", "failed"}

\* The processes are the writers, the timer and Close, and no two are the same.
LEMMA Who ==
    ASSUME SinkNames
    PROVE  /\ Sinks!Timer \in Sinks!Procs /\ Sinks!Closer \in Sinks!Procs
           /\ Sinks!Timer # Sinks!Closer
           /\ Sinks!Timer \notin Events /\ Sinks!Closer \notin Events
           /\ Events \subseteq Sinks!Procs
           /\ \A p \in Sinks!Procs : p \in Events \/ p = Sinks!Timer \/ p = Sinks!Closer
BY DEF SinkNames, Sinks!Procs, Sinks!Timer, Sinks!Closer

\* Where a step of p takes it.
LEMMA Goes ==
    ASSUME SinkNames, PcTypes, NEW p \in Sinks!Procs, NEW v, pc' = [pc EXCEPT ![p] = v],
           p \in Events => v \in {"new", "ok", "error", "refused", "flush", "send"},
           p = Sinks!Timer => v \in {"idle", "flush", "send", "gone"},
           p = Sinks!Closer => v \in {"idle", "wait", "flush", "send", "closed", "failed"}
    PROVE  PcTypes'
<1>1. v \in {"new", "ok", "error", "refused", "flush", "send",
              "idle", "gone", "wait", "closed", "failed"}
    BY Who
<1>2. pc' \in [Sinks!Procs -> {"new", "ok", "error", "refused", "flush", "send",
                         "idle", "gone", "wait", "closed", "failed"}]
    BY <1>1 DEF PcTypes
<1>3. pc'[p] = v /\ \A q \in Sinks!Procs : q # p => pc'[q] = pc[q]
    BY DEF PcTypes
<1> QED BY <1>2, <1>3, Who DEF PcTypes

\* Where a process is that has sent its batch.
LEMMA Returns ==
    ASSUME SinkNames, NEW p \in Sinks!Procs, NEW ok \in BOOLEAN
    PROVE  /\ p \in Events => Sinks!Returned(p, ok) \in {"ok", "error"}
           /\ p = Sinks!Timer => Sinks!Returned(p, ok) = "idle"
           /\ p = Sinks!Closer => Sinks!Returned(p, ok) \in {"closed", "failed"}
           /\ Sinks!Returned(p, ok) \notin {"send", "new", "wait", "gone"}
<1>1. p \in Events \/ p = Sinks!Timer \/ p = Sinks!Closer
    BY Who
<1> QED BY <1>1, Who DEF Sinks!Returned

\* Every step keeps the types.
LEMMA SinkTypeStep == ASSUME SinkNames, SinkTypes, [Sinks!Next]_Sinks!vars PROVE SinkTypes'
<1>t. PcTypes /\ buffer \in Seq(Events) /\ sent \in Seq(Events) /\ appended \in Seq(Events)
      /\ hand \in [Sinks!Procs -> Seq(Events)] /\ kind \in {"loki", "go", "js"}
    BY DEF SinkTypes, PcTypes
<1> SUFFICES /\ PcTypes' /\ buffer' \in Seq(Events) /\ sent' \in Seq(Events)
             /\ appended' \in Seq(Events)
             /\ hand' \in [Sinks!Procs -> Seq(Events)] /\ kind' \in {"loki", "go", "js"}
    BY DEF SinkTypes, PcTypes
<1>1. ASSUME NEW e \in Events, Sinks!appendEntry(e) \/ Sinks!WriteEvent(e) \/ Sinks!write(e)
      PROVE  /\ PcTypes' /\ buffer' \in Seq(Events) /\ sent' \in Seq(Events)
             /\ appended' \in Seq(Events)
             /\ hand' \in [Sinks!Procs -> Seq(Events)] /\ kind' \in {"loki", "go", "js"}
  <2>1. Append(buffer, e) \in Seq(Events) /\ Append(appended, e) \in Seq(Events) /\
           <<>> \in Seq(Events)
    BY <1>t
  <2>2. PICK v \in {"ok", "send", "flush"} : pc' = [pc EXCEPT ![e] = v]
    BY <1>1 DEF Sinks!appendEntry, Sinks!WriteEvent, Sinks!write, Sinks!Goto
  <2>3. PcTypes'
    BY <1>t, <2>2, Who, Goes
  <2>4. buffer' \in Seq(Events) /\ sent' \in Seq(Events) /\ appended' \in Seq(Events) /\
           kind' = kind
    BY <1>t, <1>1, <2>1 DEF Sinks!appendEntry, Sinks!WriteEvent, Sinks!write, Sinks!Append1
  <2>5. hand' = hand \/ hand' = [hand EXCEPT ![e] = Append(buffer, e)]
    BY <1>1 DEF Sinks!appendEntry, Sinks!WriteEvent, Sinks!write
  <2>6. hand' \in [Sinks!Procs -> Seq(Events)]
    BY <1>t, <2>1, <2>5
  <2> QED BY <1>t, <2>3, <2>4, <2>6
<1>2. ASSUME NEW p \in Sinks!Procs, Sinks!Take(p)
      PROVE  /\ PcTypes' /\ buffer' \in Seq(Events) /\ sent' \in Seq(Events)
             /\ appended' \in Seq(Events)
             /\ hand' \in [Sinks!Procs -> Seq(Events)] /\ kind' \in {"loki", "go", "js"}
  <2>1. PICK v : pc' = [pc EXCEPT ![p] = v] /\ v \in {"send", Sinks!Returned(p, TRUE)}
    BY <1>2 DEF Sinks!Take, Sinks!Goto
  <2>2. PcTypes'
    BY <1>t, <2>1, Who, Goes, Returns
  <2>3. hand' = hand \/ hand' = [hand EXCEPT ![p] = buffer]
    BY <1>2 DEF Sinks!Take
  <2>4. buffer' = <<>> /\ sent' = sent /\ appended' = appended /\ kind' = kind
    BY <1>2 DEF Sinks!Take
  <2>5. hand' \in [Sinks!Procs -> Seq(Events)]
    BY <1>t, <2>3
  <2> QED BY <1>t, <2>2, <2>4, <2>5
<1>3. ASSUME NEW p \in Sinks!Procs, Sinks!Sent(p) \/ Sinks!NotSent(p)
      PROVE  /\ PcTypes' /\ buffer' \in Seq(Events) /\ sent' \in Seq(Events)
             /\ appended' \in Seq(Events)
             /\ hand' \in [Sinks!Procs -> Seq(Events)] /\ kind' \in {"loki", "go", "js"}
  <2>1. PICK ok \in BOOLEAN : pc' = [pc EXCEPT ![p] = Sinks!Returned(p, ok)]
    BY <1>3 DEF Sinks!Sent, Sinks!NotSent, Sinks!Goto
  <2>2. PcTypes'
    BY <1>t, <2>1, Who, Goes, Returns
  <2>3. sent \o hand[p] \in Seq(Events) /\ hand[p] \o buffer \in Seq(Events) /\ <<>> \in Seq(Events)
    BY <1>t
  <2>4. hand' = [hand EXCEPT ![p] = <<>>] /\ buffer' \in {buffer, hand[p] \o buffer}
        /\ sent' \in {sent, sent \o hand[p]} /\ appended' = appended /\ kind' = kind
    BY <1>3 DEF Sinks!Sent, Sinks!NotSent
  <2> QED BY <1>t, <2>2, <2>3, <2>4
<1>4. ASSUME (\E e \in Events : Sinks!Refused(e)) \/ Sinks!Tick \/ Sinks!TimerFires \/
             Sinks!TickerExit \/ Sinks!Close \/ Sinks!Waited
      PROVE  /\ PcTypes' /\ buffer' \in Seq(Events) /\ sent' \in Seq(Events)
             /\ appended' \in Seq(Events)
             /\ hand' \in [Sinks!Procs -> Seq(Events)] /\ kind' \in {"loki", "go", "js"}
  <2>1. UNCHANGED <<buffer, sent, appended, hand, kind>>
    BY <1>4 DEF Sinks!Refused, Sinks!Tick, Sinks!TimerFires, Sinks!TickerExit, Sinks!Close,
       Sinks!Waited
  <2>2. \/ \E e \in Events : pc' = [pc EXCEPT ![e] = "refused"]
        \/ \E v \in {"flush", "gone"} : pc' = [pc EXCEPT ![Sinks!Timer] = v]
        \/ \E v \in {"flush", "wait"} : pc' = [pc EXCEPT ![Sinks!Closer] = v]
    BY <1>4 DEF Sinks!Refused, Sinks!Tick, Sinks!TimerFires, Sinks!TickerExit, Sinks!Close,
       Sinks!Waited, Sinks!Goto
  <2>3. PcTypes'
    BY <1>t, <2>2, Who, Goes
  <2> QED BY <1>t, <2>1, <2>3
<1>5. CASE UNCHANGED Sinks!vars
    BY <1>t, <1>5 DEF Sinks!vars, PcTypes
<1> QED BY <1>1, <1>2, <1>3, <1>4, <1>5 DEF Sinks!Next

\* Every step keeps who holds a batch.
LEMMA SinkHandsStep == ASSUME SinkNames, SinkTypes, SinkHands, [Sinks!Next]_Sinks!vars PROVE SinkHands'
<1> USE DEF SinkTypes
\* A write.
<1>1. ASSUME NEW e \in Events, Sinks!appendEntry(e) \/ Sinks!WriteEvent(e) \/ Sinks!write(e)
      PROVE SinkHands'
  <2>1. /\ appended' = Append(appended, e) /\ pc[e] = "new" /\ e \notin Sinks!Range(appended)
        /\ kind' = kind
    BY <1>1 DEF Sinks!appendEntry, Sinks!WriteEvent, Sinks!write, Sinks!Append1, SinkHands
  <2>2. \A i, j \in DOMAIN appended' : appended'[i] = appended'[j] => i = j
    <3>1. /\ DOMAIN appended' = 1 .. Len(appended) + 1 /\ DOMAIN appended = 1 .. Len(appended)
          /\ appended'[Len(appended) + 1] = e /\ Len(appended) \in Nat
          /\ \A i \in 1 .. Len(appended) : appended'[i] = appended[i]
      BY <2>1
    <3>2. \A i \in 1 .. Len(appended) : appended[i] \in Sinks!Range(appended)
      BY <3>1 DEF Sinks!Range
    <3>3. \A i \in DOMAIN appended' : i \in 1 .. Len(appended) \/ i = Len(appended) + 1
      BY <3>1
    <3>4. \A i \in 1 .. Len(appended) : appended'[i] # e
      BY <2>1, <3>1, <3>2
    <3>5. \A i, j \in 1 .. Len(appended) : appended[i] = appended[j] => i = j
      BY <3>1 DEF SinkHands
    <3> SUFFICES ASSUME NEW i \in DOMAIN appended', NEW j \in DOMAIN appended',
                        appended'[i] = appended'[j]
                 PROVE  i = j
      OBVIOUS
    <3>6. CASE i \in 1 .. Len(appended) /\ j \in 1 .. Len(appended)
      BY <3>1, <3>5, <3>6
    <3>7. CASE i = Len(appended) + 1 \/ j = Len(appended) + 1
      BY <3>1, <3>3, <3>4, <3>7
    <3> QED BY <3>3, <3>6, <3>7
  <2>3. Sinks!Range(appended') = Sinks!Range(appended) \cup {e}
    BY <2>1, RangeAppend
  <2>4. Sinks!Range(appended)' = Sinks!Range(appended) \cup {e}
    BY <2>3 DEF Sinks!Range
  <2>5. /\ pc'[e] \in {"ok", "send", "flush"} /\ pc' = [pc EXCEPT ![e] = pc'[e]]
        /\ (hand' = hand /\ pc'[e] # "send") \/
              (kind = "loki" /\ pc'[e] = "send" /\ hand' = [hand EXCEPT ![e] = hand'[e]])
    BY <1>1 DEF Sinks!appendEntry, Sinks!WriteEvent, Sinks!write, Sinks!Goto, Sinks!Procs
  <2>6. \A p \in Sinks!Procs : p # e => (pc'[p] = pc[p] /\ hand'[p] = hand[p])
    BY <2>5
  <2>7. \A p \in Sinks!Procs : pc'[p] # "send" => hand'[p] = <<>>
    BY <2>1, <2>5, <2>6 DEF SinkHands
  <2>8. \A d \in Events : d \in Sinks!Range(appended)' => pc'[d] # "new"
    BY Who, <2>4, <2>5, <2>6 DEF SinkHands
  <2>9. kind # "loki" => \A p, q \in Sinks!Sending' : p = q
    BY <2>5, <2>6 DEF SinkHands, Sinks!Sending
  <2>10. pc'[Sinks!Closer] = pc[Sinks!Closer] /\ pc'[Sinks!Timer] = pc[Sinks!Timer]
    BY Who, <2>6
  <2> QED BY <2>1, <2>2, <2>7, <2>8, <2>9, <2>10 DEF SinkHands
<1>2. ASSUME NEW p \in Sinks!Procs, Sinks!Take(p) PROVE SinkHands'
  <2>1. /\ UNCHANGED <<appended, kind>> /\ pc[p] = "flush"
        /\ Sinks!Range(appended)' = Sinks!Range(appended)
        /\ kind # "loki" => Sinks!Sending = {}
        /\ pc' = [pc EXCEPT ![p] = pc'[p]]
        /\ (pc'[p] = Sinks!Returned(p, TRUE) /\ hand' = hand) \/
              (pc'[p] = "send" /\ hand' = [hand EXCEPT ![p] = buffer])
    <3>1. UNCHANGED <<appended, kind>> /\ pc[p] = "flush" /\ Sinks!MayFlush(p)
      BY <1>2 DEF Sinks!Take
    <3>2. Sinks!Range(appended)' = Sinks!Range(appended)
      BY <3>1 DEF Sinks!Range
    <3>3. kind # "loki" => Sinks!Sending = {}
      BY <3>1 DEF Sinks!MayFlush
    <3>4. /\ pc' = [pc EXCEPT ![p] = pc'[p]]
          /\ (pc'[p] = Sinks!Returned(p, TRUE) /\ hand' = hand) \/
                (pc'[p] = "send" /\ hand' = [hand EXCEPT ![p] = buffer])
      <4>1. CASE buffer = <<>>
        <5>1. pc' = [pc EXCEPT ![p] = Sinks!Returned(p, TRUE)] /\ hand' = hand
          BY <1>2, <4>1 DEF Sinks!Take, Sinks!Goto
        <5>2. pc'[p] = Sinks!Returned(p, TRUE)
          BY <5>1
        <5> QED BY <5>1, <5>2
      <4>2. CASE buffer # <<>>
        <5>1. pc' = [pc EXCEPT ![p] = "send"] /\ hand' = [hand EXCEPT ![p] = buffer]
          BY <1>2, <4>2 DEF Sinks!Take, Sinks!Goto
        <5>2. pc'[p] = "send"
          BY <5>1
        <5> QED BY <5>1, <5>2
      <4> QED BY <4>1, <4>2
    <3> QED BY <3>1, <3>2, <3>3, <3>4
  <2>2. pc'[p] # "new" /\ (p = Sinks!Timer => pc'[p] # "gone" /\ pc[p] # "gone") /\
           (p = Sinks!Closer => pc[p] \notin {"idle", "wait"})
    BY Returns, <2>1, Who
  <2>3. \A q \in Sinks!Procs : q # p => (pc'[q] = pc[q] /\ hand'[q] = hand[q])
    BY <2>1
  <2>4. \A q \in Sinks!Procs : pc'[q] # "send" => hand'[q] = <<>>
    BY <2>1, <2>3 DEF SinkHands
  <2>5. kind # "loki" => \A q, r \in Sinks!Sending' : q = r
    BY <2>1, <2>3 DEF SinkHands, Sinks!Sending
  <2>6. kind = "loki" /\ pc'[Sinks!Closer] \notin {"idle", "wait"} => pc'[Sinks!Timer] = "gone"
    BY Who, <2>2, <2>3 DEF SinkHands
  <2> QED BY Who, <2>1, <2>2, <2>3, <2>4, <2>5, <2>6 DEF SinkHands
<1>3. ASSUME NEW p \in Sinks!Procs, Sinks!Sent(p) \/ Sinks!NotSent(p) PROVE SinkHands'
  <2>1. /\ UNCHANGED <<appended, kind>> /\ pc[p] = "send"
        /\ hand' = [hand EXCEPT ![p] = <<>>]
    BY <1>3 DEF Sinks!Sent, Sinks!NotSent
  <2>7. Sinks!Range(appended)' = Sinks!Range(appended)
    BY <2>1 DEF Sinks!Range
  <2>0. PICK ok \in BOOLEAN : pc' = [pc EXCEPT ![p] = Sinks!Returned(p, ok)]
    BY <1>3 DEF Sinks!Sent, Sinks!NotSent, Sinks!Goto
  <2>2. /\ pc'[p] \notin {"send", "new"} /\ pc[p] = "send"
        /\ pc'[p] # "gone"
    BY Returns, <2>0, <2>1
  <2>3. \A q \in Sinks!Procs : q # p => (pc'[q] = pc[q] /\ hand'[q] = hand[q])
    BY <2>0, <2>1
  <2>4. \A q \in Sinks!Procs : pc'[q] # "send" => hand'[q] = <<>>
    BY <2>1, <2>3 DEF SinkHands
  <2>5. kind # "loki" => \A q, r \in Sinks!Sending' : q = r
    BY <2>1, <2>2, <2>3 DEF SinkHands, Sinks!Sending
  <2>6. kind = "loki" /\ pc'[Sinks!Closer] \notin {"idle", "wait"} => pc'[Sinks!Timer] = "gone"
    BY Who, <2>2, <2>3 DEF SinkHands
  <2> QED BY Who, <2>1, <2>2, <2>3, <2>4, <2>5, <2>6, <2>7 DEF SinkHands
<1>4. ASSUME (\E e \in Events : Sinks!Refused(e)) \/ Sinks!Tick \/ Sinks!TimerFires \/
             Sinks!TickerExit \/ Sinks!Close \/ Sinks!Waited
      PROVE  SinkHands'
  <2>1. PICK q \in Sinks!Procs : /\ pc' = [pc EXCEPT ![q] = pc'[q]] /\ pc[q] # "send"
                                 /\ pc'[q] \notin {"send", "new"}
                                 /\ kind = "loki" /\ pc'[Sinks!Closer] \notin {"idle", "wait"} =>
                                       pc'[Sinks!Timer] = "gone"
                                 /\ UNCHANGED <<appended, kind, hand>>
    BY Who, <1>4 DEF Sinks!Refused, Sinks!Tick, Sinks!TimerFires, Sinks!TickerExit, Sinks!Close,
       Sinks!Waited, Sinks!Goto, SinkHands
  <2>2. Sinks!Range(appended)' = Sinks!Range(appended)
    BY <2>1 DEF Sinks!Range
  <2>3. \A p \in Sinks!Procs : p # q => pc'[p] = pc[p]
    BY <2>1
  <2> QED BY Who, <2>1, <2>2, <2>3 DEF SinkHands, Sinks!Sending
<1>5. CASE UNCHANGED Sinks!vars
    BY <1>5 DEF Sinks!vars, SinkHands, Sinks!Sending, Sinks!Range
<1> QED BY <1>1, <1>2, <1>3, <1>4, <1>5 DEF Sinks!Next

\* What was buffered is still there, and what was sent stays so.
Hands == UNION {Sinks!Range(hand[p]) : p \in Sinks!Procs}

LEMMA SinkKeptStep ==
    ASSUME SinkNames, SinkTypes, SinkHands, Sinks!BufferedIsKept, [Sinks!Next]_Sinks!vars
    PROVE  Sinks!BufferedIsKept' /\ Sinks!Range(sent) \subseteq Sinks!Range(sent')
<1> USE DEF SinkTypes
<1>h. Sinks!Range(appended) \subseteq Sinks!Range(sent) \cup Sinks!Range(buffer) \cup Hands
    BY DEF Sinks!BufferedIsKept, Hands
<1> SUFFICES Sinks!Range(appended') \subseteq Sinks!Range(sent') \cup Sinks!Range(buffer') \cup
                Hands'
             /\ Sinks!Range(sent) \subseteq Sinks!Range(sent')
    BY DEF Sinks!BufferedIsKept, Hands, Sinks!Range
<1>0. Sinks!Range(<<>>) = {}
    BY DEF Sinks!Range
<1>1. ASSUME NEW e \in Events, Sinks!appendEntry(e) \/ Sinks!WriteEvent(e) \/ Sinks!write(e)
      PROVE  Sinks!Range(appended') \subseteq Sinks!Range(sent') \cup Sinks!Range(buffer') \cup
                Hands'
             /\ Sinks!Range(sent) \subseteq Sinks!Range(sent')
  <2>1. /\ appended' = Append(appended, e) /\ sent' = sent /\ pc[e] = "new"
        /\ \/ buffer' = Append(buffer, e) /\ hand' = hand
           \/ buffer' = <<>> /\ hand' = [hand EXCEPT ![e] = Append(buffer, e)]
    BY <1>1 DEF Sinks!appendEntry, Sinks!WriteEvent, Sinks!write, Sinks!Append1
  <2>2. /\ Sinks!Range(appended') = Sinks!Range(appended) \cup {e}
        /\ Sinks!Range(Append(buffer, e)) = Sinks!Range(buffer) \cup {e}
    BY <2>1, RangeAppend
  <2>3. CASE buffer' = Append(buffer, e) /\ hand' = hand
    <3>1. Hands' = Hands
      BY <2>3 DEF Hands, Sinks!Range
    <3> QED BY <1>h, <2>1, <2>2, <2>3, <3>1
  <2>4. CASE buffer' = <<>> /\ hand' = [hand EXCEPT ![e] = Append(buffer, e)]
    <3>1. hand[e] = <<>>
      BY <2>1, Who DEF SinkHands
    <3>2. Hands' = Hands \cup Sinks!Range(Append(buffer, e))
      <4>1. \A p \in Sinks!Procs :
               Sinks!Range(hand'[p]) = IF p = e THEN Sinks!Range(Append(buffer, e)) ELSE Sinks!Range(hand[p])
        BY <2>4
      <4>2. Hands' = UNION {Sinks!Range(hand'[p]) : p \in Sinks!Procs}
        BY DEF Hands, Sinks!Range
      <4>3. e \in Sinks!Procs
        BY Who
      <4>4. Hands' \subseteq Hands \cup Sinks!Range(Append(buffer, e))
        BY <4>1, <4>2 DEF Hands
      <4>5. \A p \in Sinks!Procs : Sinks!Range(hand[p]) \subseteq Sinks!Range(hand'[p])
        BY <1>0, <3>1, <4>1
      <4>6. Hands \cup Sinks!Range(Append(buffer, e)) \subseteq Hands'
        BY <4>1, <4>2, <4>3, <4>5 DEF Hands
      <4> QED BY <4>4, <4>6
    <3> QED BY <1>0, <1>h, <2>1, <2>2, <2>4, <3>2
  <2> QED BY <2>1, <2>3, <2>4
<1>2. ASSUME NEW p \in Sinks!Procs, Sinks!Take(p)
      PROVE  Sinks!Range(appended') \subseteq Sinks!Range(sent') \cup Sinks!Range(buffer') \cup
                Hands'
             /\ Sinks!Range(sent) \subseteq Sinks!Range(sent')
  <2>1. /\ UNCHANGED <<appended, sent>> /\ pc[p] = "flush"
        /\ \/ buffer = <<>> /\ hand' = hand
           \/ hand' = [hand EXCEPT ![p] = buffer]
    BY <1>2 DEF Sinks!Take
  <2>2. hand[p] = <<>>
    BY <2>1 DEF SinkHands
  <2>3. Hands' = Hands \cup Sinks!Range(buffer)
    <3>1. \A q \in Sinks!Procs :
             Sinks!Range(hand'[q]) = IF q = p THEN Sinks!Range(buffer) ELSE Sinks!Range(hand[q])
      BY <2>1, <2>2
    <3>2. Hands' = UNION {Sinks!Range(hand'[q]) : q \in Sinks!Procs}
      BY DEF Hands, Sinks!Range
    <3> QED BY <1>0, <2>2, <3>1, <3>2 DEF Hands
  <2> QED BY <1>h, <2>1, <2>3
<1>3. ASSUME NEW p \in Sinks!Procs, Sinks!Sent(p) \/ Sinks!NotSent(p)
      PROVE  Sinks!Range(appended') \subseteq Sinks!Range(sent') \cup Sinks!Range(buffer') \cup
                Hands'
             /\ Sinks!Range(sent) \subseteq Sinks!Range(sent')
  <2>1. /\ appended' = appended /\ hand' = [hand EXCEPT ![p] = <<>>]
        /\ \/ sent' = sent \o hand[p] /\ buffer' = buffer
           \/ sent' \in {sent, sent \o hand[p]} /\ buffer' = hand[p] \o buffer
    BY <1>3 DEF Sinks!Sent, Sinks!NotSent
  <2>2. /\ Sinks!Range(sent \o hand[p]) = Sinks!Range(sent) \cup Sinks!Range(hand[p])
        /\ Sinks!Range(hand[p] \o buffer) = Sinks!Range(hand[p]) \cup Sinks!Range(buffer)
    BY RangeConcat
  <2>3. Hands \subseteq Hands' \cup Sinks!Range(hand[p])
    <3>1. \A q \in Sinks!Procs : q # p => hand'[q] = hand[q]
      BY <2>1
    <3>2. Hands' = UNION {Sinks!Range(hand'[q]) : q \in Sinks!Procs}
      BY DEF Hands, Sinks!Range
    <3> QED BY <3>1, <3>2 DEF Hands
  <2> QED BY <1>h, <2>1, <2>2, <2>3
<1>4. ASSUME (\E e \in Events : Sinks!Refused(e)) \/ Sinks!Tick \/ Sinks!TimerFires \/
             Sinks!TickerExit \/ Sinks!Close \/ Sinks!Waited
      PROVE  Sinks!Range(appended') \subseteq Sinks!Range(sent') \cup Sinks!Range(buffer') \cup
                Hands'
             /\ Sinks!Range(sent) \subseteq Sinks!Range(sent')
  <2>1. UNCHANGED <<appended, sent, buffer, hand>>
    BY <1>4 DEF Sinks!Refused, Sinks!Tick, Sinks!TimerFires, Sinks!TickerExit, Sinks!Close,
       Sinks!Waited
  <2>2. Hands' = Hands
    BY <2>1 DEF Hands, Sinks!Range
  <2> QED BY <1>h, <2>1, <2>2
<1>5. CASE UNCHANGED Sinks!vars
  <2>1. UNCHANGED <<appended, sent, buffer, hand>>
    BY <1>5 DEF Sinks!vars
  <2>2. Hands' = Hands
    BY <2>1 DEF Hands, Sinks!Range
  <2> QED BY <1>h, <2>1, <2>2
<1> QED BY <1>1, <1>2, <1>3, <1>4, <1>5 DEF Sinks!Next

\* Close waits for the ticker and takes what is left.
LEMMA SinkClosingStep ==
    ASSUME SinkNames, SinkTypes, SinkHands, Sinks!BufferedIsKept, SinkClosing, Sinks!CloseSends,
           [Sinks!Next]_Sinks!vars
    PROVE  SinkClosing' /\ Sinks!CloseSends'
<1> USE DEF SinkTypes
<1>s. Sinks!Range(sent) \subseteq Sinks!Range(sent')
    BY SinkKeptStep
<1>r. Sinks!Range(sent)' = Sinks!Range(sent') /\ Sinks!Range(appended)' = Sinks!Range(appended') /\
         Sinks!Range(hand[Sinks!Closer])' = Sinks!Range(hand'[Sinks!Closer])
    BY DEF Sinks!Range
<1>a. Sinks!Range(appended) \subseteq Sinks!Range(appended')
  <2>1. appended' = appended \/ \E e \in Events : appended' = Append(appended, e)
    BY DEF Sinks!Next, Sinks!vars, Sinks!Refused, Sinks!appendEntry, Sinks!WriteEvent,
       Sinks!write, Sinks!Append1, Sinks!Take, Sinks!Sent, Sinks!NotSent, Sinks!Tick,
           Sinks!TimerFires, Sinks!TickerExit, Sinks!Close, Sinks!Waited
  <2>2. \A e \in Events : Sinks!Range(Append(appended, e)) = Sinks!Range(appended) \cup {e}
    BY RangeAppend
  <2> QED BY <2>1, <2>2
<1>c. CASE before' = before /\ overlapped' = overlapped /\ pc'[Sinks!Closer] = pc[Sinks!Closer] /\
              hand'[Sinks!Closer] = hand[Sinks!Closer]
    BY <1>a, <1>c, <1>r, <1>s DEF SinkClosing, Sinks!CloseSends
<1>b. CASE before' = before /\ pc'[Sinks!Closer] \notin {"send", "closed"}
    BY <1>a, <1>b, <1>r DEF SinkClosing, Sinks!CloseSends
<1>1. ASSUME NEW p \in Events,
             \/ Sinks!Refused(p) \/ Sinks!appendEntry(p) \/ Sinks!WriteEvent(p) \/ Sinks!write(p)
                                \/ Sinks!Take(p) \/ Sinks!Sent(p) \/ Sinks!NotSent(p)
      PROVE  SinkClosing' /\ Sinks!CloseSends'
  <2>1. p # Sinks!Closer /\ p \in Sinks!Procs /\ Sinks!Closer \in Sinks!Procs
    BY Who
  <2>2. UNCHANGED <<before, overlapped>>
    BY <1>1, <2>1 DEF Sinks!Refused, Sinks!appendEntry, Sinks!WriteEvent, Sinks!write,
       Sinks!Take, Sinks!Sent, Sinks!NotSent
  <2>3. pc'[Sinks!Closer] = pc[Sinks!Closer] /\ hand'[Sinks!Closer] = hand[Sinks!Closer]
    BY <1>1, <2>1 DEF Sinks!Refused, Sinks!appendEntry, Sinks!WriteEvent, Sinks!write,
       Sinks!Take, Sinks!Sent, Sinks!NotSent, Sinks!Goto
  <2> QED BY <1>c, <2>2, <2>3
<1>2. ASSUME \/ Sinks!Take(Sinks!Timer) \/ Sinks!Sent(Sinks!Timer) \/ Sinks!NotSent(Sinks!Timer) \/
                Sinks!Tick \/ Sinks!TimerFires \/ Sinks!TickerExit
      PROVE  SinkClosing' /\ Sinks!CloseSends'
  <2>1. Sinks!Timer # Sinks!Closer /\ Sinks!Timer \in Sinks!Procs /\ Sinks!Closer \in Sinks!Procs
    BY Who
  <2>2. UNCHANGED <<before, overlapped>>
    BY <1>2, <2>1 DEF Sinks!Tick, Sinks!TimerFires, Sinks!TickerExit, Sinks!Take, Sinks!Sent,
       Sinks!NotSent
  <2>3. pc'[Sinks!Closer] = pc[Sinks!Closer] /\ hand'[Sinks!Closer] = hand[Sinks!Closer]
    BY <1>2, <2>1 DEF Sinks!Tick, Sinks!TimerFires, Sinks!TickerExit, Sinks!Take, Sinks!Sent,
       Sinks!NotSent, Sinks!Goto
  <2> QED BY <1>c, <2>2, <2>3
\* Close takes what is left; nobody else but the callers has anything then.
<1>3. ASSUME Sinks!Take(Sinks!Closer) PROVE SinkClosing' /\ Sinks!CloseSends'
  <2>0. Sinks!Closer \in Sinks!Procs
    BY Who
  <2>1. /\ pc[Sinks!Closer] = "flush" /\ UNCHANGED <<before, sent, kind>>
        /\ hand[Sinks!Closer] = <<>>
        /\ overlapped' = UNION {Sinks!Range(hand[e]) : e \in Events}
        /\ \/ buffer = <<>> /\ pc'[Sinks!Closer] = Sinks!Returned(Sinks!Closer, TRUE)
           \/ pc'[Sinks!Closer] = "send" /\ hand'[Sinks!Closer] = buffer
    BY <1>3, <2>0 DEF Sinks!Take, Sinks!Goto, SinkHands
  <2>2. hand[Sinks!Timer] = <<>>
    <3>1. CASE kind = "loki"
      BY <3>1, <2>1, Who DEF SinkHands
    <3>2. CASE kind # "loki"
      <4>1. Sinks!Sending = {}
        BY <3>2, <1>3 DEF Sinks!Take, Sinks!MayFlush
      <4> QED BY <4>1, Who DEF Sinks!Sending, SinkHands
    <3> QED BY <3>1, <3>2
  <2>3. Sinks!Range(<<>>) = {}
    BY DEF Sinks!Range
  <2>4. UNION {Sinks!Range(hand[p]) : p \in Sinks!Procs} \subseteq overlapped'
    BY <2>1, <2>2, <2>3, Who
  <2>5. before \subseteq Sinks!Range(sent) \cup Sinks!Range(buffer) \cup overlapped'
    BY <2>4 DEF SinkClosing, Sinks!BufferedIsKept
  <2>6. Sinks!Returned(Sinks!Closer, TRUE) = "closed"
    BY Who DEF Sinks!Returned, Sinks!Timer, Sinks!Closer
  <2> QED BY <1>a, <1>r, <2>1, <2>3, <2>5, <2>6 DEF SinkClosing, Sinks!CloseSends
<1>4. ASSUME Sinks!Sent(Sinks!Closer) PROVE SinkClosing' /\ Sinks!CloseSends'
  <2>0. Sinks!Closer \in Sinks!Procs /\ Sinks!Returned(Sinks!Closer, TRUE) = "closed"
    BY Who DEF Sinks!Returned, Sinks!Timer, Sinks!Closer
  <2>1. /\ pc[Sinks!Closer] = "send" /\ UNCHANGED <<before, overlapped>>
        /\ pc'[Sinks!Closer] = "closed"
        /\ sent' = sent \o hand[Sinks!Closer]
    BY <1>4, <2>0 DEF Sinks!Sent, Sinks!Goto
  <2>2. Sinks!Range(sent') = Sinks!Range(sent) \cup Sinks!Range(hand[Sinks!Closer])
    BY <2>0, <2>1, RangeConcat
  <2> QED BY <1>a, <1>r, <2>1, <2>2 DEF SinkClosing, Sinks!CloseSends
<1>5. ASSUME Sinks!NotSent(Sinks!Closer) PROVE SinkClosing' /\ Sinks!CloseSends'
  <2>0. Sinks!Closer \in Sinks!Procs /\ Sinks!Returned(Sinks!Closer, FALSE) = "failed"
    BY Who DEF Sinks!Returned, Sinks!Timer, Sinks!Closer
  <2>1. UNCHANGED before /\ pc'[Sinks!Closer] = "failed"
    BY <1>5, <2>0 DEF Sinks!NotSent, Sinks!Goto
  <2> QED BY <1>b, <2>1
<1>6. ASSUME Sinks!Close PROVE SinkClosing' /\ Sinks!CloseSends'
  <2>1. before' = Sinks!Range(appended) /\ appended' = appended /\
           pc'[Sinks!Closer] \in {"wait", "flush"}
    BY <1>6, Who DEF Sinks!Close, Sinks!Goto
  <2> QED BY <1>r, <2>1 DEF SinkClosing, Sinks!CloseSends
<1>7. ASSUME Sinks!Waited PROVE SinkClosing' /\ Sinks!CloseSends'
  <2>1. UNCHANGED before /\ pc'[Sinks!Closer] = "flush"
    BY <1>7, Who DEF Sinks!Waited, Sinks!Goto
  <2> QED BY <1>b, <2>1
<1>8. CASE UNCHANGED Sinks!vars
  <2>1. before' = before /\ overlapped' = overlapped /\ pc'[Sinks!Closer] = pc[Sinks!Closer] /\
           hand'[Sinks!Closer] = hand[Sinks!Closer]
    BY <1>8 DEF Sinks!vars
  <2> QED BY <1>c, <2>1
<1> QED BY <1>1, <1>2, <1>3, <1>4, <1>5, <1>6, <1>7, <1>8, Who DEF Sinks!Next

\* What is sent is a beginning of what was buffered, batch by batch.
LEMMA SinkOrderStep ==
    ASSUME SinkNames, SinkTypes, SinkTypes', SinkHands, SinkHands', SinkOrder,
           [Sinks!Next]_Sinks!vars
    PROVE  SinkOrder'
<1> USE DEF SinkTypes
<1>k. kind' = kind
    BY DEF Sinks!Next, Sinks!vars, Sinks!Refused, Sinks!appendEntry, Sinks!WriteEvent,
       Sinks!write, Sinks!Append1, Sinks!Take, Sinks!Sent, Sinks!NotSent, Sinks!Tick,
           Sinks!TimerFires, Sinks!TickerExit, Sinks!Close, Sinks!Waited
<1> SUFFICES ASSUME kind # "loki"
             PROVE  /\ InTurn(appended', sent')
                    /\ Sinks!Sending' = {} => Waits(buffer', appended', sent')
                    /\ \A p \in Sinks!Sending' : Waits(hand'[p] \o buffer', appended', sent')
    BY <1>k DEF SinkOrder, InTurn, Waits, IsFirst, Sinks!Range
<1>o. /\ InTurn(appended, sent)
      /\ Sinks!Sending = {} => Waits(buffer, appended, sent)
      /\ \A p \in Sinks!Sending : Waits(hand[p] \o buffer, appended, sent)
    BY DEF SinkOrder
<1>1. ASSUME NEW e \in Events, Sinks!WriteEvent(e) \/ Sinks!write(e)
      PROVE  /\ InTurn(appended', sent')
             /\ Sinks!Sending' = {} => Waits(buffer', appended', sent')
             /\ \A p \in Sinks!Sending' : Waits(hand'[p] \o buffer', appended', sent')
  <2>1. /\ appended' = Append(appended, e) /\ buffer' = Append(buffer, e)
        /\ e \notin Sinks!Range(appended)
        /\ UNCHANGED <<sent, hand>>
    BY <1>1 DEF Sinks!WriteEvent, Sinks!write, Sinks!Append1, SinkHands
  <2>2. Sinks!Sending' = Sinks!Sending /\ Sinks!Sending \subseteq Sinks!Procs
    <3>1. pc[e] = "new" /\ pc' = [pc EXCEPT ![e] = pc'[e]] /\ pc'[e] # "send"
      BY <1>1, Who DEF Sinks!WriteEvent, Sinks!write, Sinks!Goto
    <3> QED BY <3>1 DEF Sinks!Sending
  <2>3. InTurn(appended', sent')
    BY <1>o, <2>1, InTurnBuffer
  <2>4. \A w \in Seq(Events) : Waits(w, appended, sent) => Waits(Append(w, e), appended', sent')
    BY <2>1, WaitsBuffer
  <2>5. \A p \in Sinks!Procs : /\ hand[p] \o buffer \in Seq(Events)
                               /\ Append(hand[p] \o buffer, e) = hand[p] \o Append(buffer, e)
    <3>1. buffer \in Seq(Events) /\ hand \in [Sinks!Procs -> Seq(Events)]
      BY DEF SinkTypes
    <3> QED BY <3>1, HandAppend, Zenon
  <2>6. ASSUME Sinks!Sending = {} PROVE Waits(buffer', appended', sent')
    BY <1>o, <2>1, <2>4, <2>6
  <2>7. ASSUME NEW p \in Sinks!Sending PROVE Waits(hand[p] \o Append(buffer, e), appended', sent')
    <3>1. p \in Sinks!Procs /\ Waits(hand[p] \o buffer, appended, sent)
      BY <1>o, <2>2
    <3>2. Waits(Append(hand[p] \o buffer, e), appended', sent')
      BY <2>4, <2>5, <3>1, Zenon
    <3> QED BY <2>5, <3>1, <3>2, Zenon
  <2> QED BY <2>1, <2>2, <2>3, <2>6, <2>7
<1>2. ASSUME NEW p \in Sinks!Procs, Sinks!Take(p)
      PROVE  /\ InTurn(appended', sent')
             /\ Sinks!Sending' = {} => Waits(buffer', appended', sent')
             /\ \A q \in Sinks!Sending' : Waits(hand'[q] \o buffer', appended', sent')
  <2>1. /\ UNCHANGED <<appended, sent>> /\ buffer' = <<>> /\ Sinks!Sending = {} /\ pc[p] = "flush"
        /\ \/ buffer = <<>> /\ pc' = [pc EXCEPT ![p] = Sinks!Returned(p, TRUE)]
           \/ pc' = [pc EXCEPT ![p] = "send"] /\ hand' = [hand EXCEPT ![p] = buffer]
    BY <1>2 DEF Sinks!Take, Sinks!MayFlush, Sinks!Goto
  <2>2. CASE buffer = <<>> /\ pc' = [pc EXCEPT ![p] = Sinks!Returned(p, TRUE)]
    <3>1. Sinks!Sending' = {}
      BY <2>1, <2>2, Returns DEF Sinks!Sending
    <3> QED BY <1>o, <2>1, <2>2, <3>1
  <2>3. CASE pc' = [pc EXCEPT ![p] = "send"] /\ hand' = [hand EXCEPT ![p] = buffer]
    <3>1. Sinks!Sending' = {p} /\ hand'[p] = buffer
      BY <2>1, <2>3 DEF Sinks!Sending
    <3>2. buffer \o <<>> = buffer
      OBVIOUS
    <3> QED BY <1>o, <2>1, <3>1, <3>2
  <2> QED BY <2>1, <2>2, <2>3
<1>3. ASSUME NEW p \in Sinks!Procs, Sinks!Sent(p) \/ Sinks!NotSent(p)
      PROVE  /\ InTurn(appended', sent')
             /\ Sinks!Sending' = {} => Waits(buffer', appended', sent')
             /\ \A q \in Sinks!Sending' : Waits(hand'[q] \o buffer', appended', sent')
  <2>1. /\ appended' = appended /\ pc[p] = "send"
        /\ \/ sent' = sent \o hand[p] /\ buffer' = buffer
           \/ sent' = sent /\ buffer' = hand[p] \o buffer
           \/ sent' = sent \o hand[p] /\ buffer' = hand[p] \o buffer
    BY <1>3 DEF Sinks!Sent, Sinks!NotSent
  <2>2. Sinks!Sending' = {}
    <3>1. \A q \in Sinks!Sending : q = p
      BY <2>1 DEF SinkHands, Sinks!Sending
    <3>2. PICK ok \in BOOLEAN : pc' = [pc EXCEPT ![p] = Sinks!Returned(p, ok)]
      BY <1>3 DEF Sinks!Sent, Sinks!NotSent, Sinks!Goto
    <3> QED BY <3>1, <3>2, Returns DEF Sinks!Sending
  <2>3. Waits(hand[p] \o buffer, appended, sent) /\ hand[p] \in Seq(Events) /\
           hand[p] \o buffer \in Seq(Events)
    BY <1>o, <2>1 DEF Sinks!Sending
  <2>4. InTurn(appended, sent \o hand[p]) /\ Waits(buffer, appended, sent \o hand[p])
    BY <1>o, <2>3, InTurnSent DEF SinkHands
  <2>5. Waits(hand[p] \o buffer, appended, sent \o hand[p])
    <3>1. Sinks!Range(sent) \subseteq Sinks!Range(sent \o hand[p])
      BY <2>3, RangeConcat
    <3> QED BY <2>3, <3>1, WaitsMore
  <2> QED BY <1>o, <2>1, <2>2, <2>3, <2>4, <2>5
<1>4. ASSUME (\E e \in Events : Sinks!Refused(e)) \/ Sinks!Tick \/ Sinks!TimerFires \/
             Sinks!TickerExit \/ Sinks!Close \/ Sinks!Waited
      PROVE  /\ InTurn(appended', sent')
             /\ Sinks!Sending' = {} => Waits(buffer', appended', sent')
             /\ \A q \in Sinks!Sending' : Waits(hand'[q] \o buffer', appended', sent')
  <2>1. UNCHANGED <<appended, sent, buffer, hand>>
    BY <1>4 DEF Sinks!Refused, Sinks!Tick, Sinks!TimerFires, Sinks!TickerExit, Sinks!Close,
       Sinks!Waited
  <2>2. PICK q \in Sinks!Procs, v \in {"refused", "flush", "gone", "wait"} : pc[q] # "send" /\
           pc' = [pc EXCEPT ![q] = v]
    <3>1. CASE \E e \in Events : Sinks!Refused(e)
      BY <3>1, Who DEF Sinks!Refused, Sinks!Goto
    <3>2. CASE Sinks!Tick \/ Sinks!TimerFires \/ Sinks!TickerExit
      BY <3>2, Who DEF Sinks!Tick, Sinks!TimerFires, Sinks!TickerExit, Sinks!Goto
    <3>3. CASE Sinks!Close \/ Sinks!Waited
      <4>1. \E v \in {"wait", "flush"} : pc[Sinks!Closer] # "send" /\
               pc' = [pc EXCEPT ![Sinks!Closer] = v]
        BY <3>3 DEF Sinks!Close, Sinks!Waited, Sinks!Goto
      <4> QED BY <4>1, Who
    <3> QED BY <1>4, <3>1, <3>2, <3>3
  <2>3. Sinks!Sending' = Sinks!Sending
    BY <2>2 DEF Sinks!Sending
  <2> QED BY <1>o, <2>1, <2>3
<1>5. CASE UNCHANGED Sinks!vars
  <2>1. UNCHANGED <<appended, sent, buffer, hand, pc>>
    BY <1>5 DEF Sinks!vars
  <2> QED BY <1>o, <2>1 DEF Sinks!Sending
<1>6. ~ \E e \in Events : Sinks!appendEntry(e)
    BY DEF Sinks!appendEntry
<1> QED BY <1>1, <1>2, <1>3, <1>4, <1>5, <1>6 DEF Sinks!Next

\* Every step keeps the inductive invariant, part by part.
LEMMA SinkStep == ASSUME SinkNames, SinkInv, [Sinks!Next]_Sinks!vars PROVE SinkInv'
<1>1. SinkTypes'
    BY SinkTypeStep DEF SinkInv
<1>2. SinkHands'
    BY SinkHandsStep DEF SinkInv
<1>3. Sinks!BufferedIsKept'
    BY SinkKeptStep DEF SinkInv
<1>4. SinkClosing' /\ Sinks!CloseSends'
    BY SinkClosingStep DEF SinkInv
<1>5. SinkOrder'
    BY <1>1, <1>2, SinkOrderStep DEF SinkInv
<1> QED BY <1>1, <1>2, <1>3, <1>4, <1>5 DEF SinkInv

\* InTurn says what SendsInOrder does, in the terms of FirstIndex.
LEMMA InTurnFirst ==
    ASSUME NEW a, NEW s, InTurn(a, s), NEW i \in DOMAIN a, NEW j \in DOMAIN a, NEW E, s \in Seq(E),
           i < j, a[j] \in Sinks!Range(s)
    PROVE  a[i] \in Sinks!Range(s) /\ Sinks!FirstIndex(s, a[i]) < Sinks!FirstIndex(s, a[j])
<1>1. a[i] \in Sinks!Range(s)
    BY DEF InTurn
<1>2. \A e \in Sinks!Range(s) : IsFirst(s, Sinks!FirstIndex(s, e), e)
  <2> SUFFICES ASSUME NEW e \in Sinks!Range(s) PROVE IsFirst(s, Sinks!FirstIndex(s, e), e)
    OBVIOUS
  <2>1. \E k \in DOMAIN s : s[k] = e /\ \A l \in 1 .. k - 1 : s[l] # e
    BY DEF InTurn, IsFirst
  <2> QED BY <2>1 DEF Sinks!FirstIndex, IsFirst
<1> QED BY <1>1, <1>2 DEF InTurn, IsFirst

\* An entry that a batching sink buffered is in the buffer, in the hands of who
\* sends it, or sent; a Close that returned nil has sent what was buffered before
\* it, but for a batch a caller was sending; and the kinds that send one batch at
\* a time send the entries in the order they were buffered.  For any set of
\* entries and any batch size.
THEOREM SinksKeep == SinkNames =>
   (Sinks!Spec => [](Sinks!BufferedIsKept /\ Sinks!CloseSends /\ Sinks!SendsInOrder))
<1> SUFFICES ASSUME SinkNames
             PROVE Sinks!Spec => [](Sinks!BufferedIsKept /\ Sinks!CloseSends /\ Sinks!SendsInOrder)
    OBVIOUS
<1>1. Sinks!Init => SinkInv
    BY SinkInit
<1>2. SinkInv /\ [Sinks!Next]_Sinks!vars => SinkInv'
    BY SinkStep
<1>3. SinkInv => Sinks!BufferedIsKept /\ Sinks!CloseSends /\ Sinks!SendsInOrder
  <2> SUFFICES ASSUME SinkInv PROVE Sinks!SendsInOrder
    BY DEF SinkInv
  <2>1. sent \in Seq(Events)
    BY DEF SinkInv, SinkTypes
  <2> QED BY <2>1, InTurnFirst DEF Sinks!SendsInOrder, SinkInv, SinkOrder
<1> QED BY <1>1, <1>2, <1>3, PTL DEF Sinks!Spec

-----------------------------------------------------------------------------
\* The bridge to Cortex.

\* A call brings at least one event (Deliver returns at once without any), and
\* newCortexBridge and run make the sizes positive.
BridgeSizes ==
    /\ Size \in Nat \ {0} /\ BatchSize \in Nat \ {0} /\ QueueSize \in Nat

\* The events that are on the queue or were.
Taken == {e \in Client!Events : e[2] <= next[e[1]]}

\* What is on its way, and what was sent or failed.
Underway == Client!Range(queue) \cup Client!Range(batch)
Tried == sent \cup failed

\* Where the calls and the goroutine are.
BridgeRoom ==
    /\ \A r \in Requests : pc[r] = "new" => next[r] = 0
    /\ \A r \in Requests : pc[r] = "put" => next[r] < Size
    /\ sender = "run" => Len(batch) < BatchSize

\* In mode "sync" nothing is on the queue, and what a call has still to send
\* was not tried.
BridgeSync ==
    /\ sync => /\ queue = <<>> /\ batch = <<>> /\ sender = "gone"
               /\ \A r \in Requests : next[r] = 0
               /\ \A r \in Requests : pc[r] # "put"
               /\ \A r \in Requests : \A i \in 1 .. Size :
                     pc[r] \in {"new", "send"} => Client!Event(r, i) \notin Tried
    /\ ~ sync => \A r \in Requests : pc[r] # "send"

\* In mode "async" what was taken is in one place.
BridgePlaces ==
    /\ ~ sync => Taken = Underway \cup Tried
    /\ \A i, j \in 1 .. Len(queue) : queue[i] = queue[j] => i = j
    /\ Client!Range(queue) \cap Client!Range(batch) = {}
    /\ Underway \cap Tried = {} /\ sent \cap failed = {}

\* The goroutine leaves when the queue is closed and empty.
BridgeEnd ==
    /\ (~ sync /\ sender \in {"last", "gone"}) => (queue = <<>> /\ closer # "new")
    /\ sender = "gone" => batch = <<>>
    /\ closer = "done" => sender = "gone"

BridgeInv == Client!TypeOK /\ BridgeRoom /\ BridgeSync /\ BridgePlaces /\ BridgeEnd

\* The strengthening holds at the start.
LEMMA BridgeInit == ASSUME BridgeSizes, Client!Init PROVE BridgeInv
<1>1. Client!TypeOK
    BY DEF BridgeSizes, Client!Init, Client!TypeOK
<1>2. Client!Range(queue) = {} /\ Client!Range(batch) = {}
    BY DEF Client!Init, Client!Range
<1>3. Taken = {}
    BY DEF Client!Init, Taken, Client!Events
<1>4. BridgeRoom /\ BridgeSync /\ BridgeEnd
    BY DEF BridgeSizes, Client!Init, BridgeRoom, BridgeSync, BridgeEnd, Tried
<1>5. BridgePlaces
    BY <1>2, <1>3 DEF Client!Init, BridgePlaces, Underway, Tried
<1> QED BY <1>1, <1>4, <1>5 DEF BridgeInv

\* What Append and Tail do to what a sequence holds.
LEMMA BridgeAppend ==
    ASSUME NEW s \in Seq(Client!Events), NEW x \in Client!Events
    PROVE  Client!Range(Append(s, x)) = Client!Range(s) \cup {x}
BY RangeAppend DEF Client!Range, Sinks!Range

LEMMA RangeTail ==
    ASSUME NEW S, NEW s \in Seq(S), s # <<>>,
           \A i, j \in 1 .. Len(s) : s[i] = s[j] => i = j
    PROVE  /\ Head(s) \in S /\ Tail(s) \in Seq(S) /\ Len(Tail(s)) = Len(s) - 1
           /\ \A i, j \in 1 .. Len(Tail(s)) : Tail(s)[i] = Tail(s)[j] => i = j
           /\ Client!Range(s) = Client!Range(Tail(s)) \cup {Head(s)}
           /\ Head(s) \notin Client!Range(Tail(s))
<1>1. Len(s) \in Nat \ {0} /\ DOMAIN s = 1 .. Len(s) /\ Head(s) = s[1] /\ Head(s) \in S
    OBVIOUS
<1>2. /\ Tail(s) \in Seq(S) /\ Len(Tail(s)) = Len(s) - 1 /\ DOMAIN Tail(s) = 1 .. Len(s) - 1
      /\ \A i \in 1 .. Len(s) - 1 : Tail(s)[i] = s[i + 1]
    OBVIOUS
<1>3. \A i \in 1 .. Len(s) - 1 : i + 1 \in 1 .. Len(s) /\ i + 1 # 1
    BY <1>1
<1>4. \A i \in 2 .. Len(s) : i - 1 \in 1 .. Len(s) - 1 /\ (i - 1) + 1 = i
    BY <1>1
<1>5. \A i, j \in 1 .. Len(Tail(s)) : Tail(s)[i] = Tail(s)[j] => i = j
    BY <1>1, <1>2, <1>3
<1>6. Client!Range(Tail(s)) = {s[i] : i \in 2 .. Len(s)}
  <2>1. \A i \in 1 .. Len(s) - 1 : i + 1 \in 2 .. Len(s)
    BY <1>1
  <2>2. \A i \in 2 .. Len(s) : Tail(s)[i - 1] = s[i]
    BY <1>2, <1>4
  <2>3. Client!Range(Tail(s)) = {Tail(s)[i] : i \in 1 .. Len(s) - 1}
    BY <1>2 DEF Client!Range
  <2>4. \A i \in 1 .. Len(s) - 1 : Tail(s)[i] \in {s[j] : j \in 2 .. Len(s)}
    BY <1>2, <2>1
  <2>5. \A j \in 2 .. Len(s) : s[j] \in {Tail(s)[i] : i \in 1 .. Len(s) - 1}
    <3> SUFFICES ASSUME NEW j \in 2 .. Len(s)
                 PROVE  \E i \in 1 .. Len(s) - 1 : s[j] = Tail(s)[i]
      OBVIOUS
    <3> WITNESS j - 1 \in 1 .. Len(s) - 1
    <3> QED BY <2>2
  <2> QED BY <2>3, <2>4, <2>5
<1>7. Client!Range(s) = {s[i] : i \in 1 .. Len(s)}
    BY <1>1 DEF Client!Range
<1>8. 1 .. Len(s) = {1} \cup (2 .. Len(s)) /\ 1 \notin 2 .. Len(s)
    BY <1>1
<1>9. Client!Range(s) = Client!Range(Tail(s)) \cup {Head(s)}
    BY <1>1, <1>6, <1>7, <1>8
<1>10. Head(s) \notin Client!Range(Tail(s))
  <2>1. \A i \in 2 .. Len(s) : i # 1 /\ i \in 1 .. Len(s)
    BY <1>1
  <2>2. \A i \in 2 .. Len(s) : s[i] # s[1]
    BY <1>1, <2>1
  <2> QED BY <1>1, <1>6, <2>2
<1> QED BY <1>1, <1>2, <1>5, <1>9, <1>10

\* Every step keeps the inductive invariant.
LEMMA BridgeStep == ASSUME BridgeSizes, BridgeInv, [Client!Next]_Client!vars PROVE BridgeInv'
<1> USE DEF BridgeSizes
<1>t. Client!TypeOK /\ BridgeRoom /\ BridgeSync /\ BridgePlaces /\ BridgeEnd
    BY DEF BridgeInv
<1>q. /\ queue \in Seq(Client!Events) /\ batch \in Seq(Client!Events)
      /\ Len(queue) \in Nat /\ Len(batch) \in Nat
    BY <1>t DEF Client!TypeOK
<1>1. ASSUME NEW r \in Requests, Client!Deliver(r) PROVE BridgeInv'
  <2>1. Client!TypeOK'
    BY <1>t, <1>1 DEF Client!TypeOK, Client!Deliver
  <2>2. BridgeRoom'
    BY <1>t, <1>1 DEF BridgeRoom, BridgeSync, Client!TypeOK, Client!Deliver
  <2>3. BridgeSync'
    BY <1>t, <1>1 DEF BridgeSync, Client!TypeOK, Client!Deliver, Tried
  <2>4. BridgePlaces' /\ BridgeEnd'
    BY <1>t, <1>1 DEF BridgePlaces, BridgeEnd, Taken, Underway, Tried, Client!Deliver
  <2> QED BY <2>1, <2>2, <2>3, <2>4 DEF BridgeInv
<1>2. ASSUME NEW r \in Requests, Client!SendNow(r) PROVE BridgeInv'
  <2> DEFINE own == {Client!Event(r, i) : i \in 1 .. Size}
  <2>1. sync
    BY <1>t, <1>2 DEF BridgeSync, Client!SendNow
  <2>2. own \subseteq Client!Events /\ own \cap Tried = {}
    BY <1>t, <1>2, <2>1 DEF BridgeSync, Client!SendNow, Client!Event, Client!Events
  <2>3. /\ (sent' = sent \cup own /\ failed' = failed) \/
              (failed' = failed \cup own /\ sent' = sent)
        /\ Tried' = Tried \cup own
    BY <1>2 DEF Client!SendNow, Client!Send, Tried
  <2>4. pc'[r] \in {"ok", "error"} /\ pc' = [pc EXCEPT ![r] = pc'[r]]
    BY <1>t, <1>2 DEF Client!SendNow, Client!TypeOK
  <2>5. Client!TypeOK'
    BY <1>t, <1>2, <2>2, <2>3, <2>4 DEF Client!TypeOK, Client!SendNow, Tried
  <2>6. BridgeRoom' /\ BridgeEnd'
    BY <1>t, <1>2, <2>4 DEF BridgeRoom, BridgeEnd, Client!TypeOK, Client!SendNow
  <2>7. BridgeSync'
    <3> HIDE DEF own
    <3>1. ASSUME NEW q \in Requests, NEW i \in 1 .. Size, pc'[q] \in {"new", "send"}
          PROVE  Client!Event(q, i) \notin Tried'
      <4>1. q # r /\ pc[q] = pc'[q]
        BY <1>t, <2>4, <3>1 DEF Client!TypeOK
      <4>2. Client!Event(q, i) \notin own
        BY <4>1 DEF own, Client!Event
      <4> QED BY <1>t, <2>1, <2>3, <3>1, <4>1, <4>2 DEF BridgeSync
    <3>2. \A q \in Requests : pc'[q] # "put"
      BY <1>t, <2>1, <2>4 DEF BridgeSync, Client!TypeOK
    <3> QED BY <1>t, <1>2, <2>1, <3>1, <3>2 DEF BridgeSync, Client!SendNow
  <2>8. BridgePlaces'
    <3> HIDE DEF own
    <3> QED BY <1>t, <1>2, <2>1, <2>2, <2>3 DEF BridgePlaces, BridgeSync, Underway, Tried,
       Client!SendNow, Client!Range
  <2> QED BY <2>5, <2>6, <2>7, <2>8 DEF BridgeInv
<1>3. ASSUME NEW r \in Requests, Client!Put(r) PROVE BridgeInv'
  <2>1. ~ sync /\ next[r] < Size
    BY <1>t, <1>3 DEF BridgeSync, BridgeRoom, Client!Put
  <2>2. CASE UNCHANGED <<queue, next>> /\
                pc' \in {[pc EXCEPT ![r] = "panicked"], [pc EXCEPT ![r] = "error"]}
    <3>1. Client!TypeOK' /\ BridgeRoom' /\ BridgeSync' /\ BridgeEnd'
      BY <1>t, <1>3, <2>1, <2>2 DEF Client!TypeOK, BridgeRoom, BridgeSync, BridgeEnd, Client!Put
    <3>2. BridgePlaces'
      BY <1>t, <1>3, <2>2 DEF BridgePlaces, Taken, Underway, Tried, Client!Put
    <3> QED BY <3>1, <3>2 DEF BridgeInv
  <2>3. CASE closer = "new" /\ Len(queue) < QueueSize
    <3> DEFINE e == Client!Event(r, next[r] + 1)
    <3>1. e \in Client!Events /\ e \notin Taken /\ e = <<r, next[r] + 1>>
      BY <1>t, <2>1 DEF Client!TypeOK, Client!Event, Client!Events, Taken
    <3>2. /\ queue' = Append(queue, e) /\ next' = [next EXCEPT ![r] = next[r] + 1]
          /\ pc' = [pc EXCEPT ![r] = IF next[r] + 1 = Size THEN "ok" ELSE "put"]
          /\ UNCHANGED <<sync, batch, sender, closer, sent, failed>>
      BY <2>3, <1>3 DEF Client!Put
    <3>3. Taken' = Taken \cup {e}
      <4>1. \A q \in Requests : \A i \in 1 .. Size :
               i <= next'[q] <=> (i <= next[q] \/ <<q, i>> = e)
        BY <1>t, <3>1, <3>2 DEF Client!TypeOK
      <4> HIDE DEF e
      <4> QED BY <4>1, <3>1 DEF Taken, Client!Events
    <3> HIDE DEF e
    <3>4. Client!Range(queue') = Client!Range(queue) \cup {e}
      BY <1>q, <3>1, <3>2, BridgeAppend
    <3>5. e \notin Client!Range(queue) \cup Client!Range(batch) \cup sent \cup failed
      BY <1>t, <2>1, <3>1 DEF BridgePlaces, Underway, Tried
    <3>6. Client!TypeOK'
      BY <1>t, <1>q, <2>1, <2>3, <3>1, <3>2 DEF Client!TypeOK
    <3>7. BridgeRoom' /\ BridgeSync' /\ BridgeEnd'
      BY <1>t, <2>1, <2>3, <3>2 DEF BridgeRoom, BridgeSync, BridgeEnd, Client!TypeOK
    <3>8. \A i, j \in 1 .. Len(queue') : queue'[i] = queue'[j] => i = j
      <4>1. \A i \in 1 .. Len(queue) : queue[i] # e
        BY <1>q, <3>5 DEF Client!Range
      <4> QED BY <1>t, <1>q, <3>2, <4>1 DEF BridgePlaces
    <3>9. Underway' = Underway \cup {e} /\ Tried' = Tried
      BY <3>2, <3>4 DEF Underway, Tried, Client!Range
    <3>10. BridgePlaces'
      <4>1. Client!Range(queue)' = Client!Range(queue') /\
               Client!Range(batch)' = Client!Range(batch)
        BY <3>2 DEF Client!Range
      <4> QED BY <1>t, <3>2, <3>3, <3>4, <3>5, <3>8, <3>9, <4>1 DEF BridgePlaces, Underway, Tried
    <3> QED BY <3>6, <3>7, <3>10 DEF BridgeInv
  <2> QED BY <1>3, <2>2, <2>3 DEF Client!Put
<1>4. ASSUME Client!Take PROVE BridgeInv'
  <2>1. /\ sender = "run" /\ queue # <<>> /\ ~ sync /\ Len(batch) < BatchSize
    BY <1>t, <1>4 DEF Client!Take, BridgeSync, BridgeRoom
  <2>2. /\ Head(queue) \in Client!Events /\ Tail(queue) \in Seq(Client!Events)
        /\ Len(Tail(queue)) = Len(queue) - 1
        /\ \A i, j \in 1 .. Len(Tail(queue)) : Tail(queue)[i] = Tail(queue)[j] => i = j
        /\ Client!Range(queue) = Client!Range(Tail(queue)) \cup {Head(queue)}
        /\ Head(queue) \notin Client!Range(Tail(queue))
    BY <1>q, <1>t, <2>1, RangeTail DEF BridgePlaces
  <2>3. Client!Range(Append(batch, Head(queue))) = Client!Range(batch) \cup {Head(queue)}
    BY <1>q, <2>2, BridgeAppend
  <2>4. Append(batch, Head(queue)) \in Seq(Client!Events) /\
           Len(Append(batch, Head(queue))) = Len(batch) + 1
    BY <1>q, <2>2
  <2>5. /\ queue' = Tail(queue) /\ batch' = Append(batch, Head(queue))
        /\ sender' = IF Len(batch) + 1 >= BatchSize THEN "send" ELSE "run"
        /\ UNCHANGED <<sync, next, pc, closer, sent, failed>>
    BY <1>4 DEF Client!Take
  <2>6. Client!TypeOK'
    BY <1>t, <1>q, <2>1, <2>2, <2>4, <2>5 DEF Client!TypeOK
  <2>7. BridgeRoom' /\ BridgeSync' /\ BridgeEnd'
    BY <1>t, <1>q, <2>1, <2>4, <2>5 DEF BridgeRoom, BridgeSync, BridgeEnd
  <2>8. Client!Range(queue)' = Client!Range(Tail(queue)) /\
           Client!Range(batch)' = Client!Range(batch) \cup {Head(queue)}
    BY <2>3, <2>5 DEF Client!Range
  <2>9. BridgePlaces'
    BY <1>t, <2>1, <2>2, <2>5, <2>8 DEF BridgePlaces, Underway, Tried, Taken
  <2> QED BY <2>6, <2>7, <2>9 DEF BridgeInv
<1>5. ASSUME Client!Tick PROVE BridgeInv'
  <2>1. ~ sync
    BY <1>t, <1>5 DEF Client!Tick, BridgeSync
  <2>2. Client!TypeOK' /\ BridgeRoom' /\ BridgeSync' /\ BridgeEnd'
    BY <1>t, <1>5, <2>1 DEF Client!TypeOK, BridgeRoom, BridgeSync, BridgeEnd, Client!Tick
  <2>3. BridgePlaces'
    BY <1>t, <1>5 DEF BridgePlaces, Taken, Underway, Tried, Client!Tick
  <2> QED BY <2>2, <2>3 DEF BridgeInv
<1>6. ASSUME Client!Drained PROVE BridgeInv'
  <2>1. ~ sync
    BY <1>t, <1>6 DEF Client!Drained, BridgeSync
  <2>2. Client!TypeOK' /\ BridgeRoom' /\ BridgeSync' /\ BridgeEnd'
    BY <1>t, <1>6, <2>1 DEF Client!TypeOK, BridgeRoom, BridgeSync, BridgeEnd, Client!Drained
  <2>3. BridgePlaces'
    BY <1>t, <1>6 DEF BridgePlaces, Taken, Underway, Tried, Client!Drained
  <2> QED BY <2>2, <2>3 DEF BridgeInv
<1>7. ASSUME Client!Flush PROVE BridgeInv'
  <2>1. ~ sync
    BY <1>t, <1>7 DEF Client!Flush, BridgeSync
  <2>2. /\ (sent' = sent \cup Client!Range(batch) /\ failed' = failed) \/
              (failed' = failed \cup Client!Range(batch) /\ sent' = sent)
        /\ Tried' = Tried \cup Client!Range(batch)
    BY <1>7 DEF Client!Flush, Client!Send, Tried
  <2>3. batch' = <<>> /\ Client!Range(batch') = {} /\ Client!Range(batch) \subseteq Client!Events
    BY <1>7, <1>q DEF Client!Flush, Client!Range
  <2>4. Client!TypeOK'
    BY <1>t, <1>7, <2>2, <2>3 DEF Client!TypeOK, Client!Flush
  <2>5. BridgeRoom' /\ BridgeEnd'
    BY <1>t, <1>7, <2>1, <2>3 DEF BridgeRoom, BridgeEnd, Client!Flush, Client!TypeOK
  <2>6. BridgeSync'
    BY <1>t, <1>7, <2>1 DEF BridgeSync, Client!Flush
  <2>7. BridgePlaces'
    <3>1. Client!Range(queue)' = Client!Range(queue) /\ Client!Range(batch)' = {} /\
             Taken' = Taken /\ queue' = queue
      BY <1>7, <2>3 DEF Client!Range, Client!Flush, Taken
    <3> QED BY <1>t, <2>1, <2>2, <3>1 DEF BridgePlaces, Underway, Tried
  <2> QED BY <2>4, <2>5, <2>6, <2>7 DEF BridgeInv
<1>8. ASSUME Client!Close PROVE BridgeInv'
  <2>1. Client!TypeOK' /\ BridgeRoom' /\ BridgeSync' /\ BridgeEnd'
    BY <1>t, <1>8 DEF Client!TypeOK, BridgeRoom, BridgeSync, BridgeEnd, Tried, Client!Close
  <2>2. BridgePlaces'
    BY <1>t, <1>8 DEF BridgePlaces, Taken, Underway, Tried, Client!Close
  <2> QED BY <2>1, <2>2 DEF BridgeInv
<1>9. ASSUME Client!Closed PROVE BridgeInv'
  <2>1. Client!TypeOK' /\ BridgeRoom' /\ BridgeSync' /\ BridgeEnd'
    BY <1>t, <1>9 DEF Client!TypeOK, BridgeRoom, BridgeSync, BridgeEnd, Tried, Client!Closed
  <2>2. BridgePlaces'
    BY <1>t, <1>9 DEF BridgePlaces, Taken, Underway, Tried, Client!Closed
  <2> QED BY <2>1, <2>2 DEF BridgeInv
<1>10. CASE UNCHANGED Client!vars
  <2>1. Client!TypeOK' /\ BridgeRoom' /\ BridgeSync' /\ BridgeEnd'
    BY <1>t, <1>10 DEF Client!TypeOK, BridgeRoom, BridgeSync, BridgeEnd, Tried, Client!vars
  <2>2. BridgePlaces'
    BY <1>t, <1>10 DEF BridgePlaces, Taken, Underway, Tried, Client!vars
  <2> QED BY <2>1, <2>2 DEF BridgeInv
<1> QED BY <1>1, <1>2, <1>3, <1>4, <1>5, <1>6, <1>7, <1>8, <1>9, <1>10 DEF Client!Next

\* An event that Deliver took is on its way, was sent, or was in a batch that
\* failed; once Close has returned it is one of the last two, and no event was
\* sent in two batches; for any number of calls and any sizes.
THEOREM BridgeTries == BridgeSizes => (Client!Spec => [](Client!TypeOK /\ Client!TakenIsTried))
<1> SUFFICES ASSUME BridgeSizes PROVE Client!Spec => [](Client!TypeOK /\ Client!TakenIsTried)
    OBVIOUS
<1>1. Client!Init => BridgeInv
    BY BridgeInit
<1>2. BridgeInv /\ [Client!Next]_Client!vars => BridgeInv'
    BY BridgeStep
<1>3. BridgeInv => Client!TypeOK /\ Client!TakenIsTried
  <2> SUFFICES ASSUME BridgeInv PROVE Client!TakenIsTried
    BY DEF BridgeInv
  <2>1. Client!Range(<<>>) = {}
    BY DEF Client!Range
  <2>2. sync => Taken = {}
    BY DEF BridgeInv, BridgeSync, Taken, Client!Events
  <2> QED BY <2>1, <2>2
      DEF BridgeInv, BridgePlaces, BridgeSync, BridgeEnd, Client!TakenIsTried, Taken, Underway, Tried
<1> QED BY <1>1, <1>2, <1>3, PTL DEF Client!Spec

-----------------------------------------------------------------------------
\* The stager.

StagerConstants ==
    /\ Kinds \subseteq {"local", "kafka"} /\ Unreadable \subseteq SUBSET Staging!Messages
    /\ MaxMessage \in Nat

\* The types of what the conditions speak of.
StagerTypes ==
    /\ kind \in {"local", "kafka"} /\ unreadable \subseteq Staging!Messages
    /\ produced \in 0 .. MaxMessage /\ position \in 0 .. produced /\ committed \in 0 .. position
    /\ pc \in {"idle", "poll", "stage", "ack", "dlq", "dlqAck", "down"}
    /\ listing \subseteq Staging!Messages /\ removed \subseteq Staging!Messages
    /\ staged \in [Staging!Messages -> Nat] /\ letters \in [Staging!Messages -> Nat]

\* The message in work, which is not one the queue is done with.
StagerHand ==
    /\ pc \in {"idle", "poll", "down"} => hand = Staging!None
    /\ pc \notin {"idle", "poll", "down"} => hand \in Staging!Messages /\ ~Staging!Done(hand)
    /\ pc \in {"stage", "ack"} => hand \notin unreadable
    /\ pc = "ack" => staged[hand] > 0
    /\ pc = "dlqAck" => letters[hand] > 0
    /\ pc \notin {"idle", "poll", "down"} /\ kind = "kafka" => hand = position

\* A file that is still to be read is there, and is not the one in work.
StagerListing == kind = "local" => listing \cap removed = {} /\ hand \notin listing

\* What the consumer has passed is done with, in work or skipped, until it starts again.
StagerPassed ==
    kind = "kafka" /\ pc # "down" =>
        \A m \in Staging!Messages : m <= position /\ m # hand =>
           staged[m] + letters[m] > 0 \/ m \in skipped

\* What was not repeated is staged or a letter once, and then it is done with or in work.
StagerOnce ==
    \A m \in Staging!Messages :
        /\ m \notin repeated =>
              /\ staged[m] + letters[m] <= 1
              /\ staged[m] + letters[m] > 0 =>
                    Staging!Done(m) \/ (m = hand /\ pc \in {"ack", "dlqAck"})
        /\ staged[m] > 0 => m \notin unreadable

StagerInv == StagerTypes /\ StagerHand /\ StagerListing /\ StagerPassed /\ StagerOnce /\
   Staging!DoneIsKept

\* The invariant holds in the initial states.
LEMMA StagerInit == ASSUME StagerConstants, Staging!Init PROVE StagerInv
<1>1. StagerTypes
    BY DEF StagerConstants, Staging!Init, StagerTypes
<1>2. \A m \in Staging!Messages : ~Staging!Done(m) /\ staged[m] = 0 /\ letters[m] = 0
    BY DEF Staging!Init, Staging!Messages, Staging!Done, StagerConstants
<1>3. StagerHand /\ StagerListing /\ StagerPassed
  <2>1. \A m \in Staging!Messages : ~(m <= 0)
    BY DEF Staging!Messages, StagerConstants
  <2> QED BY <2>1 DEF Staging!Init, StagerHand, StagerListing, StagerPassed
<1>4. StagerOnce /\ Staging!DoneIsKept
    BY <1>2 DEF StagerOnce, Staging!DoneIsKept
<1> QED BY <1>1, <1>3, <1>4 DEF StagerInv

\* The members of the invariant, with what the messages and the counts are.
LEMMA StagerFacts ==
    ASSUME StagerConstants, StagerInv
    PROVE  /\ StagerTypes /\ StagerHand /\ StagerListing /\ StagerPassed /\ StagerOnce
           /\ Staging!DoneIsKept
           /\ \A m \in Staging!Messages : m \in Nat /\ m # Staging!None /\ staged[m] \in Nat /\
                 letters[m] \in Nat
           /\ produced \in Nat /\ position \in Nat /\ committed \in Nat
           /\ committed <= position /\ position <= produced /\ produced <= MaxMessage
BY DEF StagerInv, StagerTypes, StagerConstants, Staging!Messages, Staging!None

\* A step that gives no message out, and stages and acknowledges nothing.
LEMMA StagerQuiet ==
    ASSUME StagerConstants, StagerInv,
           UNCHANGED <<kind, unreadable, removed, committed, staged, letters>>,
           pc \in {"idle", "poll", "down"}, pc' \in {"idle", "poll", "down"}, hand' = Staging!None,
           skipped \subseteq skipped', repeated \subseteq repeated',
           produced' \in produced .. MaxMessage, listing' \subseteq Staging!Messages \ removed,
           \/ position' = position /\ (pc' = pc \/ pc = "poll" \/ pc' = "down" \/ pc = "idle")
           \/ position' = committed
    PROVE  StagerInv'
<1>1. /\ StagerTypes /\ StagerHand /\ StagerListing /\ StagerPassed /\ StagerOnce
      /\ Staging!DoneIsKept
      /\ \A m \in Staging!Messages : m \in Nat /\ m # Staging!None /\ staged[m] \in Nat /\
            letters[m] \in Nat
      /\ produced \in Nat /\ position \in Nat /\ committed \in Nat
      /\ committed <= position /\ position <= produced /\ produced <= MaxMessage
    BY StagerFacts
<1>2. hand = Staging!None /\ \A m \in Staging!Messages : Staging!Done(m)' <=> Staging!Done(m)
    BY <1>1 DEF StagerHand, Staging!Done
<1>3. StagerTypes'
    BY <1>1 DEF StagerTypes, StagerConstants, Staging!Messages
<1>4. StagerHand' /\ StagerListing'
    BY <1>1 DEF StagerHand, StagerListing
<1>5. StagerOnce' /\ Staging!DoneIsKept'
    BY <1>1, <1>2 DEF StagerOnce, Staging!DoneIsKept
<1>6. StagerPassed'
  <2> SUFFICES ASSUME kind = "kafka", pc' # "down", NEW m \in Staging!Messages, m <= position'
               PROVE  staged[m] + letters[m] > 0 \/ m \in skipped
    BY <1>1 DEF StagerPassed
  <2>1. CASE position' = committed
    <3>1. Staging!Done(m)
      BY <2>1 DEF Staging!Done
    <3> QED BY <1>1, <3>1 DEF Staging!DoneIsKept
  <2>2. CASE position' = position /\ pc # "down"
    BY <1>1, <1>2, <2>2 DEF StagerPassed
  <2> QED BY <2>1, <2>2
<1> QED BY <1>1, <1>3, <1>4, <1>5, <1>6 DEF StagerInv

\* A producer writes, a call begins or ends, a file is skipped, the process dies with nothing in
\* hand or starts again.
LEMMA StagerIdle ==
    ASSUME StagerConstants, StagerInv,
           Staging!Produce \/ Staging!Consume \/ Staging!PollEnds \/ Staging!Restart \/
              (Staging!ReadFile /\ hand' = Staging!None)
    PROVE  StagerInv'
<1>1. /\ StagerTypes /\ StagerHand /\ StagerListing /\ StagerPassed /\ StagerOnce
      /\ Staging!DoneIsKept
      /\ \A m \in Staging!Messages : m \in Nat /\ m # Staging!None /\ staged[m] \in Nat /\
            letters[m] \in Nat
      /\ produced \in Nat /\ position \in Nat /\ committed \in Nat
      /\ committed <= position /\ position <= produced /\ produced <= MaxMessage
    BY StagerFacts
<1>2. CASE Staging!Produce
  <2>1. /\ UNCHANGED <<kind, unreadable, removed, committed, position, pc, listing, hand, staged, letters, skipped,
                       repeated>>
        /\ produced' \in produced .. MaxMessage
    <3>1. UNCHANGED <<kind, unreadable, removed, committed, position, pc, listing, hand, staged, letters, skipped,
                      repeated>>
      BY <1>2 DEF Staging!Produce, Staging!source, Staging!queue, Staging!reading, Staging!work,
         Staging!output, Staging!history
    <3>2. produced' = produced \/ (produced < MaxMessage /\ produced' = produced + 1)
      <4>1. CASE partial = TRUE
        BY <1>2, <4>1 DEF Staging!Produce
      <4>2. CASE ~(partial = TRUE)
        BY <1>2, <4>2 DEF Staging!Produce
      <4> QED BY <4>1, <4>2
    <3>3. produced' \in produced .. MaxMessage
      BY <1>1, <3>2 DEF StagerConstants
    <3> QED BY <3>1, <3>3
  <2>2. \A m \in Staging!Messages : Staging!Done(m)' <=> Staging!Done(m)
    BY <2>1 DEF Staging!Done
  <2>3. StagerTypes'
    BY <1>1, <2>1 DEF StagerTypes
  <2>4. Staging!Done(hand)' <=> Staging!Done(hand)
    BY <2>1 DEF Staging!Done
  <2>5. StagerHand' /\ StagerListing' /\ StagerPassed'
    BY <1>1, <2>1, <2>4 DEF StagerHand, StagerListing, StagerPassed
  <2>6. StagerOnce' /\ Staging!DoneIsKept'
    BY <1>1, <2>1, <2>2 DEF StagerOnce, Staging!DoneIsKept
  <2> QED BY <2>3, <2>5, <2>6 DEF StagerInv
<1>3. CASE Staging!Consume
  <2>1. /\ UNCHANGED <<kind, unreadable, removed, committed, position, produced, hand, staged, letters, skipped,
                       repeated>>
        /\ pc = "idle" /\ pc' = "poll"
    BY <1>3 DEF Staging!Consume, Staging!source, Staging!queue, Staging!work, Staging!output,
       Staging!history
  <2>2. Staging!Oldest \subseteq Staging!Messages \ removed
    BY <1>1 DEF Staging!Oldest, Staging!Messages, StagerConstants
  <2>3. listing' \subseteq Staging!Messages \ removed
    BY <1>3, <2>2 DEF Staging!Consume
  <2> QED BY <1>1, <2>1, <2>3, StagerQuiet DEF StagerHand
<1>4. CASE Staging!PollEnds \/ Staging!Restart
  <2>1. /\ UNCHANGED <<kind, unreadable, removed, committed, produced, hand, staged, letters, skipped, repeated>>
        /\ pc \in {"poll", "down"} /\ pc' = "idle"
        /\ (position' = position /\ pc = "poll" /\ listing' = listing /\ kind = "kafka")
              \/ (position' = committed /\ listing' = {})
    BY <1>4 DEF Staging!PollEnds, Staging!Restart, Staging!source, Staging!queue,
       Staging!reading, Staging!work, Staging!output, Staging!history
  <2>2. CASE listing' = {}
    BY <1>1, <2>1, <2>2, StagerQuiet DEF StagerHand
  <2>3. CASE position' = position /\ pc = "poll" /\ listing' = listing /\ kind = "kafka"
    <3>1. StagerTypes' /\ StagerHand' /\ StagerListing'
      BY <1>1, <2>1, <2>3 DEF StagerTypes, StagerHand, StagerListing
    <3>2. \A m \in Staging!Messages : Staging!Done(m)' <=> Staging!Done(m)
      BY <2>1 DEF Staging!Done
    <3>3. StagerPassed' /\ StagerOnce' /\ Staging!DoneIsKept'
      BY <1>1, <2>1, <2>3, <3>2 DEF StagerPassed, StagerOnce, Staging!DoneIsKept
    <3> QED BY <3>1, <3>3 DEF StagerInv
  <2> QED BY <2>1, <2>2, <2>3
<1>5. CASE Staging!ReadFile /\ hand' = Staging!None
  <2>1. /\ UNCHANGED <<kind, unreadable, committed, position, produced, staged, letters, skipped, repeated>>
        /\ pc = "poll" /\ kind = "local"
    BY <1>5 DEF Staging!ReadFile, Staging!source, Staging!output, Staging!history
  <2>2. UNCHANGED removed /\ listing' \subseteq listing /\ pc' \in {"poll", "idle"}
    <3>1. CASE listing = {} /\ UNCHANGED <<removed, listing>> /\ pc' = "idle"
      BY <3>1
    <3>2. CASE \E m \in listing : /\ listing' = listing \ {m}
                                  /\ (Staging!Skip(m) /\ UNCHANGED pc) \/
                                        (hand' = m /\ UNCHANGED removed)
      <4>1. PICK m \in listing : /\ listing' = listing \ {m}
                                 /\ (Staging!Skip(m) /\ UNCHANGED pc) \/
                                       (hand' = m /\ UNCHANGED removed)
        BY <3>2
      <4>2. hand' # m
        BY <1>1, <1>5 DEF StagerTypes
      <4> QED BY <2>1, <4>1, <4>2 DEF Staging!Skip
    <3> QED BY <1>5, <3>1, <3>2 DEF Staging!ReadFile, Staging!Take, Staging!work
  <2>3. listing' \subseteq Staging!Messages \ removed
    BY <1>1, <2>1, <2>2 DEF StagerListing, StagerTypes
  <2> QED BY <1>1, <1>5, <2>1, <2>2, <2>3, StagerQuiet
<1> QED BY <1>2, <1>3, <1>4, <1>5

\* A message is taken from the queue, to be staged or as a dead letter.
LEMMA StagerTake ==
    ASSUME StagerConstants, StagerInv,
           pc = "poll", UNCHANGED <<kind, unreadable, produced, removed, committed, staged, letters, skipped, repeated>>,
           NEW m \in Staging!Messages, hand' = m, pc' \in {"stage", "dlq"},
           pc' = "stage" => m \notin unreadable,
           \/ kind = "local" /\ m \in listing /\ listing' = listing \ {m} /\ UNCHANGED position
           \/ kind = "kafka" /\ UNCHANGED listing /\ position' = position + 1 /\ m = position + 1 /\
                 m <= produced
    PROVE  StagerInv'
<1>1. /\ StagerTypes /\ StagerHand /\ StagerListing /\ StagerPassed /\ StagerOnce
      /\ Staging!DoneIsKept
      /\ \A k \in Staging!Messages : k \in Nat /\ k # Staging!None /\ staged[k] \in Nat /\
            letters[k] \in Nat
      /\ produced \in Nat /\ position \in Nat /\ committed \in Nat
      /\ committed <= position /\ position <= produced /\ produced <= MaxMessage
    BY StagerFacts
<1>2. /\ ~Staging!Done(m) /\ \A k : Staging!Done(k)' <=> Staging!Done(k)
    BY <1>1 DEF Staging!Done, StagerListing
<1>3. ~Staging!Done(hand)'
    BY <1>2
<1>4. StagerTypes'
    BY <1>1 DEF StagerTypes
<1>5. StagerHand'
    BY <1>1, <1>3 DEF StagerHand
<1>6. StagerListing' /\ hand = Staging!None
    BY <1>1 DEF StagerListing, StagerHand
<1>7. StagerPassed'
    BY <1>1, <1>6 DEF StagerPassed
<1>8. StagerOnce' /\ Staging!DoneIsKept'
    BY <1>1, <1>2, <1>6 DEF StagerOnce, Staging!DoneIsKept
<1> QED BY <1>4, <1>5, <1>6, <1>7, <1>8 DEF StagerInv

\* The reader of either queue gives a message.
LEMMA StagerReads ==
    ASSUME StagerConstants, StagerInv, (Staging!ReadFile /\ hand' # Staging!None) \/ Staging!Poll
    PROVE StagerInv'
<1>1. /\ StagerTypes /\ StagerHand /\ StagerListing /\ StagerPassed /\ StagerOnce
      /\ Staging!DoneIsKept
      /\ \A m \in Staging!Messages : m \in Nat /\ m # Staging!None /\ staged[m] \in Nat /\
            letters[m] \in Nat
      /\ produced \in Nat /\ position \in Nat /\ committed \in Nat
      /\ committed <= position /\ position <= produced /\ produced <= MaxMessage
    BY StagerFacts
<1>2. CASE Staging!ReadFile /\ hand' # Staging!None
  <2>1. /\ UNCHANGED <<kind, unreadable, committed, position, produced, staged, letters, skipped, repeated>>
        /\ pc = "poll" /\ kind = "local" /\ hand = Staging!None
    BY <1>1, <1>2 DEF Staging!ReadFile, Staging!source, Staging!output, Staging!history, StagerHand
  <2>2. PICK m \in listing : /\ listing' = listing \ {m} /\ m \notin unreadable
                             /\ Staging!Take(m) /\ UNCHANGED removed
    BY <1>2, <2>1 DEF Staging!ReadFile, Staging!work
  <2>3. m \in Staging!Messages
    BY <1>1 DEF StagerTypes
  <2> QED BY <2>1, <2>2, <2>3, StagerTake DEF Staging!Take
<1>3. CASE Staging!Poll
  <2>1. /\ UNCHANGED <<kind, unreadable, produced, removed, committed, staged, letters, skipped, repeated, listing>>
        /\ pc = "poll" /\ kind = "kafka" /\ position < produced /\ position' = position + 1
    BY <1>3 DEF Staging!Poll, Staging!source, Staging!queue, Staging!output, Staging!history
  <2>2. PICK m \in Staging!Messages : m = position + 1
    <3>1. position + 1 \in 1 .. MaxMessage
      BY <1>1, <2>1 DEF StagerConstants
    <3> QED BY <3>1 DEF Staging!Messages
  <2>3. hand' = m /\ pc' \in {"stage", "dlq"} /\ (pc' = "stage" => m \notin unreadable)
    BY <1>3, <2>1, <2>2 DEF Staging!Poll, Staging!Take
  <2>4. m <= produced
    BY <1>1, <2>1, <2>2
  <2> QED BY <2>1, <2>2, <2>3, <2>4, StagerTake
<1> QED BY <1>2, <1>3

\* A step of the message in work, which stays there.
LEMMA StagerWorks ==
    ASSUME StagerConstants, StagerInv,
           Staging!Stage \/ Staging!StageFails \/ Staging!SendToDLQ \/
              (Staging!AckFails /\ hand' # Staging!None) \/
                 (Staging!SendFails /\ hand' # Staging!None)
    PROVE  StagerInv'
<1>1. /\ StagerTypes /\ StagerHand /\ StagerListing /\ StagerPassed /\ StagerOnce
      /\ Staging!DoneIsKept
      /\ \A m \in Staging!Messages : m \in Nat /\ m # Staging!None /\ staged[m] \in Nat /\
            letters[m] \in Nat
      /\ produced \in Nat /\ position \in Nat /\ committed \in Nat
      /\ committed <= position /\ position <= produced /\ produced <= MaxMessage
    BY StagerFacts
<1>2. /\ UNCHANGED <<kind, unreadable, produced, removed, committed, position, listing, skipped>>
      /\ hand' = hand /\ hand \in Staging!Messages /\ repeated \subseteq repeated'
  <2>1. CASE Staging!Stage \/ Staging!StageFails \/ Staging!SendToDLQ
    BY <1>1, <2>1 DEF Staging!Stage, Staging!StageFails, Staging!SendToDLQ, Staging!source,
       Staging!queue, Staging!reading, Staging!work, Staging!output, Staging!history, StagerHand
  <2>2. CASE Staging!AckFails /\ hand' # Staging!None
    BY <1>1, <2>2 DEF Staging!AckFails, Staging!source, Staging!queue, Staging!reading,
       Staging!output, StagerHand
  <2>3. CASE Staging!SendFails /\ hand' # Staging!None
    BY <1>1, <2>3 DEF Staging!SendFails, Staging!GiveUp, Staging!source, Staging!queue,
       Staging!reading, StagerHand
  <2> QED BY <2>1, <2>2, <2>3
<1>3. (\A k : Staging!Done(k)' <=> Staging!Done(k)) /\ ~Staging!Done(hand)
    <2>1. pc \notin {"idle", "poll", "down"}
      BY <1>1, <1>2 DEF StagerHand
    <2> QED BY <1>1, <1>2, <2>1 DEF Staging!Done, StagerHand
<1>4. PICK ds \in {0, 1}, dl \in {0, 1} :
         /\ staged' = [staged EXCEPT ![hand] = @ + ds]
         /\ letters' = [letters EXCEPT ![hand] = @ + dl]
         /\ pc' \in {"stage", "ack", "dlq", "dlqAck"}
         /\ pc \in {"stage", "ack", "dlq", "dlqAck"}
         /\ pc' \in {"stage", "ack"} => pc \in {"stage", "ack"}
         /\ pc' = "ack" => ds = 1
         /\ pc' = "dlqAck" => dl = 1
         /\ ds = 1 => pc = "stage" /\ pc' = "ack" /\ dl = 0
         /\ dl = 1 => (pc = "dlq" /\ pc' = "dlqAck" /\ ds = 0) \/ hand \in repeated'
         /\ pc \in {"ack", "dlqAck"} => hand \in repeated'
  <2>0. /\ staged = [staged EXCEPT ![hand] = @ + 0] /\ letters = [letters EXCEPT ![hand] = @ + 0]
        /\ 0 \in {0, 1} /\ 1 \in {0, 1}
    BY <1>1, <1>2 DEF StagerTypes
  <2>1. CASE Staging!Stage
    <3>1. /\ staged' = [staged EXCEPT ![hand] = @ + 1] /\ letters' = letters /\ pc = "stage"
          /\ pc' = "ack"
      BY <2>1 DEF Staging!Stage
    <3> QED BY <2>0, <3>1
  <2>2. CASE Staging!StageFails
    <3>1. staged' = staged /\ letters' = letters /\ pc = "stage" /\ pc' \in {"stage", "dlq"}
      BY <2>2 DEF Staging!StageFails, Staging!Retried, Staging!output
    <3> QED BY <2>0, <3>1
  <2>3. CASE Staging!SendToDLQ
    <3>1. /\ letters' = [letters EXCEPT ![hand] = @ + 1] /\ staged' = staged /\ pc = "dlq"
          /\ pc' = "dlqAck"
      BY <2>3 DEF Staging!SendToDLQ
    <3> QED BY <2>0, <3>1
  <2>4. CASE Staging!AckFails /\ hand' # Staging!None
    <3>1. staged' = staged /\ letters' = letters /\ pc = "ack" /\ pc' \in {"stage", "dlq"} /\
             hand \in repeated'
      BY <2>4 DEF Staging!AckFails, Staging!Retried, Staging!output
    <3> QED BY <2>0, <3>1
  <2>5. CASE Staging!SendFails /\ hand' # Staging!None
    <3>1. staged' = staged /\ pc = "dlq" /\ pc' = "dlq"
      BY <2>5 DEF Staging!SendFails, Staging!GiveUp
    <3>2. letters' = letters \/ (letters' = [letters EXCEPT ![hand] = @ + 1] /\ hand \in repeated')
      BY <2>5 DEF Staging!SendFails
    <3> QED BY <2>0, <3>1, <3>2
  <2> QED BY <2>1, <2>2, <2>3, <2>4, <2>5
<1>5. /\ staged' \in [Staging!Messages -> Nat] /\ letters' \in [Staging!Messages -> Nat]
      /\ staged'[hand] = staged[hand] + ds /\ letters'[hand] = letters[hand] + dl
      /\ \A m \in Staging!Messages : m # hand => staged'[m] = staged[m] /\ letters'[m] = letters[m]
    BY <1>1, <1>2, <1>4 DEF StagerTypes
<1>6. \A m \in Staging!Messages : staged'[m] >= staged[m] /\ letters'[m] >= letters[m]
    BY <1>1, <1>4, <1>5
<1>7. StagerTypes'
    BY <1>1, <1>2, <1>4, <1>5 DEF StagerTypes
<1>8. StagerHand'
  <2>1. ~Staging!Done(hand)'
    BY <1>2, <1>3 DEF Staging!Done
  <2>2. pc' \in {"stage", "ack"} => hand \notin unreadable
    BY <1>1, <1>4 DEF StagerHand
  <2>3. (pc' = "ack" => staged'[hand] > 0) /\ (pc' = "dlqAck" => letters'[hand] > 0)
    BY <1>1, <1>2, <1>4, <1>5
  <2>4. kind = "kafka" => hand = position
    BY <1>1, <1>4 DEF StagerHand
  <2> QED BY <1>2, <1>4, <2>1, <2>2, <2>3, <2>4 DEF StagerHand
<1>9. StagerListing'
    BY <1>1, <1>2 DEF StagerListing
<1>10. StagerPassed'
    BY <1>1, <1>2, <1>4, <1>5 DEF StagerPassed
<1>11. StagerOnce'
  <2> SUFFICES ASSUME NEW m \in Staging!Messages
               PROVE  /\ m \notin repeated' =>
                            /\ staged'[m] + letters'[m] <= 1
                            /\ staged'[m] + letters'[m] > 0 =>
                                  Staging!Done(m) \/ (m = hand /\ pc' \in {"ack", "dlqAck"})
                      /\ staged'[m] > 0 => m \notin unreadable
    BY <1>2, <1>3 DEF StagerOnce
  <2>1. CASE m # hand
    BY <1>1, <1>2, <1>5, <2>1 DEF StagerOnce
  <2>2. CASE m = hand
    <3>1. staged'[m] > 0 => m \notin unreadable
      <4>1. CASE ds = 1
        BY <1>1, <1>4, <2>2, <4>1 DEF StagerHand
      <4>2. CASE ds = 0
        BY <1>1, <1>5, <2>2, <4>2 DEF StagerOnce
      <4> QED BY <4>1, <4>2
    <3>2. ASSUME m \notin repeated'
          PROVE  /\ staged'[m] + letters'[m] <= 1
                 /\ staged'[m] + letters'[m] > 0 => pc' \in {"ack", "dlqAck"}
      <4>1. m \notin repeated /\ pc \notin {"ack", "dlqAck"} /\ ~Staging!Done(m)
        BY <1>2, <1>3, <1>4, <2>2, <3>2
      <4>2. staged[m] + letters[m] = 0
        <5>1. ~(staged[m] + letters[m] > 0)
          BY <1>1, <4>1 DEF StagerOnce
        <5> QED BY <1>1, <5>1
      <4>3. ds + dl <= 1 /\ (ds + dl > 0 => pc' \in {"ack", "dlqAck"})
        BY <1>4, <2>2, <3>2
      <4>4. staged'[m] + letters'[m] = ds + dl
        BY <1>1, <1>5, <2>2, <4>2
      <4> QED BY <4>3, <4>4
    <3> QED BY <2>2, <3>1, <3>2
  <2> QED BY <2>1, <2>2
<1>12. Staging!DoneIsKept'
  <2> SUFFICES ASSUME NEW m \in Staging!Messages, Staging!Done(m)
               PROVE  staged'[m] + letters'[m] > 0 \/ (kind = "kafka" /\ m \in skipped)
    BY <1>2, <1>3 DEF Staging!DoneIsKept
  <2>1. staged[m] + letters[m] > 0 \/ (kind = "kafka" /\ m \in skipped)
    BY <1>1 DEF Staging!DoneIsKept
  <2> QED BY <1>1, <1>5, <1>6, <2>1
<1> QED BY <1>7, <1>8, <1>9, <1>10, <1>11, <1>12 DEF StagerInv

\* The message in work is acknowledged.
LEMMA StagerAck == ASSUME StagerConstants, StagerInv, Staging!Ack PROVE StagerInv'
<1>1. /\ StagerTypes /\ StagerHand /\ StagerListing /\ StagerPassed /\ StagerOnce
      /\ Staging!DoneIsKept
      /\ \A m \in Staging!Messages : m \in Nat /\ m # Staging!None /\ staged[m] \in Nat /\
            letters[m] \in Nat
      /\ produced \in Nat /\ position \in Nat /\ committed \in Nat
      /\ committed <= position /\ position <= produced /\ produced <= MaxMessage
    BY StagerFacts
<1>2. /\ UNCHANGED <<kind, unreadable, produced, position, listing, staged, letters, skipped, repeated>>
      /\ pc \in {"ack", "dlqAck"} /\ pc' = "poll" /\ hand' = Staging!None /\ Staging!Acked(hand)
    BY DEF Staging!Ack, Staging!source, Staging!reading, Staging!output, Staging!history
<1>3. /\ hand \in Staging!Messages /\ hand \in Nat /\ staged[hand] + letters[hand] > 0
      /\ ~Staging!Done(hand)
      /\ kind = "kafka" => hand = position
    BY <1>1, <1>2 DEF StagerHand
<1>4. \A m \in Staging!Messages : Staging!Done(m) \/ m = hand => Staging!Done(m)'
    BY <1>1, <1>2, <1>3 DEF Staging!Done, Staging!Acked
<1>5. StagerTypes'
  <2>1. removed' \subseteq Staging!Messages
    BY <1>1, <1>2, <1>3 DEF StagerTypes, Staging!Acked
  <2>2. committed' = committed \/ (kind = "kafka" /\ committed' = hand)
    BY <1>1, <1>2 DEF StagerTypes, Staging!Acked
  <2>3. committed' \in 0 .. position
    BY <1>1, <1>3, <2>2
  <2>4. produced' \in 0 .. MaxMessage /\ position' \in 0 .. produced'
    BY <1>1, <1>2 DEF StagerTypes
  <2> QED BY <1>1, <1>2, <2>1, <2>3, <2>4 DEF StagerTypes
<1>6. StagerHand' /\ StagerListing'
  <2>1. kind = "local" => removed' = removed \cup {hand} /\ hand \notin listing /\
           listing \cap removed = {}
    BY <1>1, <1>2 DEF Staging!Acked, StagerListing
  <2>2. Staging!None \notin Staging!Messages /\ listing \subseteq Staging!Messages
    BY <1>1 DEF StagerTypes
  <2> QED BY <1>2, <2>1, <2>2 DEF StagerHand, StagerListing
<1>7. StagerPassed'
    BY <1>1, <1>2, <1>3 DEF StagerPassed
<1>8. StagerOnce'
    BY <1>1, <1>2, <1>3, <1>4 DEF StagerOnce
<1>9. Staging!DoneIsKept'
  <2> SUFFICES ASSUME NEW m \in Staging!Messages, Staging!Done(m)'
               PROVE  staged[m] + letters[m] > 0 \/ (kind = "kafka" /\ m \in skipped)
    BY <1>2 DEF Staging!DoneIsKept
  <2>1. CASE m = hand
    BY <1>3, <2>1
  <2>2. CASE m # hand /\ kind = "local"
    <3>1. Staging!Done(m)
      BY <1>2, <2>2 DEF Staging!Done, Staging!Acked
    <3> QED BY <1>1, <3>1 DEF Staging!DoneIsKept
  <2>3. CASE m # hand /\ kind = "kafka"
    <3>1. m <= position
      BY <1>2, <1>3, <2>3 DEF Staging!Done, Staging!Acked
    <3> QED BY <1>1, <1>2, <2>3, <3>1 DEF StagerPassed
  <2> QED BY <1>1, <2>1, <2>2, <2>3 DEF StagerTypes
<1> QED BY <1>5, <1>6, <1>7, <1>8, <1>9 DEF StagerInv

\* The message in work is left: a failure or a crash, after which it may be repeated, or a dead
\* letter that could not be sent.
LEMMA StagerLeaves ==
    ASSUME StagerConstants, StagerInv,
           (Staging!AckFails /\ hand' = Staging!None) \/
              (Staging!SendFails /\ hand' = Staging!None) \/ Staging!Crash
    PROVE  StagerInv'
<1>1. /\ StagerTypes /\ StagerHand /\ StagerListing /\ StagerPassed /\ StagerOnce
      /\ Staging!DoneIsKept
      /\ \A m \in Staging!Messages : m \in Nat /\ m # Staging!None /\ staged[m] \in Nat /\
            letters[m] \in Nat
      /\ produced \in Nat /\ position \in Nat /\ committed \in Nat
      /\ committed <= position /\ position <= produced /\ produced <= MaxMessage
    BY StagerFacts
<1>2. /\ UNCHANGED <<kind, unreadable, produced, removed, committed, position, listing, staged>>
      /\ hand' = Staging!None /\ pc' \in {"poll", "down"}
      /\ skipped \subseteq skipped' /\ repeated \subseteq repeated'
  <2>1. CASE Staging!AckFails /\ hand' = Staging!None
    <3>1. hand # Staging!None
      BY <1>1, <2>1 DEF Staging!AckFails, StagerHand
    <3> QED BY <2>1, <3>1 DEF Staging!AckFails, Staging!source, Staging!queue, Staging!reading,
       Staging!output
  <2>2. CASE Staging!SendFails /\ hand' = Staging!None
    <3>1. hand # Staging!None
      BY <1>1, <2>2 DEF Staging!SendFails, StagerHand
    <3> QED BY <2>2, <3>1 DEF Staging!SendFails, Staging!GiveUp, Staging!source, Staging!queue,
       Staging!reading
  <2>3. CASE Staging!Crash
    BY <2>3 DEF Staging!Crash, Staging!source, Staging!queue, Staging!reading, Staging!output
  <2> QED BY <2>1, <2>2, <2>3
<1>3. /\ letters' \in [Staging!Messages -> Nat]
      /\ \A m \in Staging!Messages : letters'[m] = letters[m] \/
            (letters'[m] > letters[m] /\ m = hand /\ m \in repeated')
      /\ hand \in Staging!Messages /\ hand \notin repeated' => letters'[hand] = letters[hand]
      /\ hand \in Staging!Messages /\ hand \notin repeated' => pc = "dlq"
      /\ hand \in Staging!Messages /\ pc' = "poll" /\ kind = "kafka" =>
            hand \in skipped' \/ (pc = "dlqAck" /\ letters' = letters)
  <2>0. letters \in [Staging!Messages -> Nat]
    BY <1>1 DEF StagerTypes
  <2>1. CASE Staging!AckFails /\ hand' = Staging!None
    <3>1. /\ letters' = letters /\ hand \in repeated'
          /\ (pc' = "poll" /\ kind = "kafka" => pc = "dlqAck")
      <4>1. hand # Staging!None
        BY <1>1, <2>1 DEF Staging!AckFails, StagerHand
      <4> QED BY <2>1, <4>1 DEF Staging!AckFails, Staging!output
    <3> QED BY <2>0, <3>1
  <2>2. CASE Staging!SendFails /\ hand' = Staging!None
    <3>1. pc = "dlq" /\ hand \in Staging!Messages
      BY <1>1, <2>2 DEF Staging!SendFails, StagerHand
    <3>2. letters' = letters \/ (letters' = [letters EXCEPT ![hand] = @ + 1] /\ hand \in repeated')
      BY <2>2 DEF Staging!SendFails
    <3>3. pc' = "poll" => hand \in skipped'
      BY <1>1, <2>2, <3>1 DEF Staging!SendFails, Staging!GiveUp
    <3>4. CASE letters' = letters
      BY <2>0, <3>1, <3>3, <3>4
    <3>5. CASE letters' = [letters EXCEPT ![hand] = @ + 1] /\ hand \in repeated'
      <4>1. /\ letters' \in [Staging!Messages -> Nat] /\ letters'[hand] = letters[hand] + 1
            /\ letters[hand] \in Nat
            /\ \A m \in Staging!Messages : m # hand => letters'[m] = letters[m]
        BY <2>0, <3>1, <3>5
      <4>2. letters'[hand] > letters[hand]
        BY <4>1
      <4> QED BY <3>1, <3>3, <3>5, <4>1, <4>2
    <3> QED BY <3>2, <3>4, <3>5
  <2>3. CASE Staging!Crash
    <3>1. letters' = letters /\ pc' = "down" /\ (hand # Staging!None => hand \in repeated')
      BY <2>3 DEF Staging!Crash, Staging!output
    <3>2. hand \in Staging!Messages => hand # Staging!None
      BY <1>1
    <3> QED BY <2>0, <3>1, <3>2
  <2> QED BY <2>1, <2>2, <2>3
<1>4. \A k : Staging!Done(k)' <=> Staging!Done(k)
    BY <1>2 DEF Staging!Done
<1>5. \A m \in Staging!Messages : letters'[m] \in Nat /\ letters'[m] >= letters[m]
    BY <1>1, <1>3
<1>6. StagerTypes'
    BY <1>1, <1>2, <1>3 DEF StagerTypes
<1>7. StagerHand' /\ StagerListing'
  <2>1. Staging!None \notin listing
    BY <1>1 DEF StagerTypes
  <2> QED BY <1>1, <1>2, <2>1 DEF StagerHand, StagerListing
<1>8. StagerPassed'
  <2> SUFFICES ASSUME kind = "kafka", pc' = "poll", NEW m \in Staging!Messages, m <= position
               PROVE  staged[m] + letters'[m] > 0 \/ m \in skipped'
    BY <1>2 DEF StagerPassed
  <2>1. pc # "down"
    BY <1>2 DEF Staging!AckFails, Staging!SendFails, Staging!Crash
  <2>2. CASE m # hand
    <3>1. staged[m] + letters[m] > 0 \/ m \in skipped
      BY <1>1, <2>1, <2>2 DEF StagerPassed
    <3> QED BY <1>1, <1>2, <1>5, <3>1
  <2>3. CASE m = hand
    <3>1. m \in skipped' \/ (pc = "dlqAck" /\ letters' = letters)
      BY <1>3, <2>3
    <3>2. CASE pc = "dlqAck" /\ letters' = letters
      <4>1. letters'[m] > 0
        BY <1>1, <2>3, <3>2 DEF StagerHand
      <4> QED BY <1>1, <1>5, <4>1
    <3> QED BY <3>1, <3>2
  <2> QED BY <2>2, <2>3
<1>9. StagerOnce'
  <2> SUFFICES ASSUME NEW m \in Staging!Messages
               PROVE  /\ m \notin repeated' =>
                            /\ staged[m] + letters'[m] <= 1
                            /\ staged[m] + letters'[m] > 0 => Staging!Done(m)
                      /\ staged[m] > 0 => m \notin unreadable
    BY <1>2, <1>4 DEF StagerOnce
  <2>1. staged[m] > 0 => m \notin unreadable
    BY <1>1 DEF StagerOnce
  <2>2. ASSUME m \notin repeated'
        PROVE  staged[m] + letters'[m] <= 1 /\ (staged[m] + letters'[m] > 0 => Staging!Done(m))
    <3>1. letters'[m] = letters[m] /\ m \notin repeated
      BY <1>2, <1>3, <2>2
    <3>2. m = hand => pc = "dlq"
      BY <1>3, <2>2
    <3> QED BY <1>1, <3>1, <3>2 DEF StagerOnce
  <2> QED BY <2>1, <2>2
<1>10. Staging!DoneIsKept'
  <2> SUFFICES ASSUME NEW m \in Staging!Messages, Staging!Done(m)
               PROVE  staged[m] + letters'[m] > 0 \/ (kind = "kafka" /\ m \in skipped')
    BY <1>2, <1>4 DEF Staging!DoneIsKept
  <2>1. staged[m] + letters[m] > 0 \/ (kind = "kafka" /\ m \in skipped)
    BY <1>1 DEF Staging!DoneIsKept
  <2> QED BY <1>1, <1>2, <1>5, <2>1
<1> QED BY <1>6, <1>7, <1>8, <1>9, <1>10 DEF StagerInv

\* The invariant is inductive.
LEMMA StagerNext == ASSUME StagerConstants, StagerInv, [Staging!Next]_Staging!vars PROVE StagerInv'
<1>1. CASE UNCHANGED Staging!vars
  <2>1. UNCHANGED <<kind, unreadable, produced, removed, committed, position, pc, listing, hand, staged, letters,
                    skipped, repeated>>
    BY <1>1 DEF Staging!vars, Staging!source, Staging!queue, Staging!reading, Staging!work,
       Staging!output, Staging!history
  <2>2. \A k : Staging!Done(k)' <=> Staging!Done(k)
    BY <2>1 DEF Staging!Done
  <2>3. Staging!Done(hand)' <=> Staging!Done(hand)
    BY <2>1 DEF Staging!Done
  <2>4. StagerTypes' /\ StagerHand' /\ StagerListing' /\ StagerPassed'
    BY <2>1, <2>3 DEF StagerInv, StagerTypes, StagerHand, StagerListing, StagerPassed
  <2>5. StagerOnce' /\ Staging!DoneIsKept'
    BY <2>1, <2>2 DEF StagerInv, StagerOnce, Staging!DoneIsKept
  <2> QED BY <2>4, <2>5 DEF StagerInv
<1>2. CASE Staging!Produce \/ Staging!Consume \/ Staging!PollEnds \/ Staging!Restart
    BY <1>2, StagerIdle
<1>3. CASE Staging!ReadFile \/ Staging!Poll
    BY <1>3, StagerIdle, StagerReads
<1>4. CASE Staging!Stage \/ Staging!StageFails \/ Staging!SendToDLQ \/ Staging!Ack
    BY <1>4, StagerWorks, StagerAck
<1>5. CASE Staging!AckFails \/ Staging!SendFails \/ Staging!Crash
    BY <1>5, StagerWorks, StagerLeaves
<1> QED BY <1>1, <1>2, <1>3, <1>4, <1>5 DEF Staging!Next

\* With any messages, batches and limits, and whatever fails or dies, a message the queue will not
\* give out again is in a staging file or a dead letter, or is one whose dead letter could not be
\* sent to Kafka; and it is there once, unless a failure or a crash repeated it.
THEOREM StagerKeeps == StagerConstants =>
   (Staging!Spec => [](Staging!DoneIsKept /\ Staging!OnceUnlessRepeated))
<1> SUFFICES ASSUME StagerConstants
             PROVE Staging!Spec => [](Staging!DoneIsKept /\ Staging!OnceUnlessRepeated)
    OBVIOUS
<1>1. Staging!Init => StagerInv
    BY StagerInit
<1>2. StagerInv /\ [Staging!Next]_Staging!vars => StagerInv'
    BY StagerNext
<1>3. StagerInv => Staging!DoneIsKept /\ Staging!OnceUnlessRepeated
  <2> SUFFICES ASSUME StagerInv PROVE Staging!OnceUnlessRepeated
    BY DEF StagerInv
  <2>1. \A m \in Staging!Messages : staged[m] \in Nat /\ letters[m] \in Nat
    BY DEF StagerInv, StagerTypes
  <2> QED BY <2>1 DEF StagerInv, StagerOnce, Staging!OnceUnlessRepeated
<1> QED BY <1>1, <1>2, <1>3, PTL DEF Staging!Spec

-----------------------------------------------------------------------------
\* The senders of the SDKs.

\* What the code and the test worlds give.
DeliveryConstants ==
    /\ \A w \in Worlds : /\ w.kind \in {"go", "gobatch", "js", "python", "rust"}
                         /\ w.dedupe \in BOOLEAN
                         /\ w.fate \in Seq({"valid", "invalid", "quarantined"})
    /\ BatchSize \in Nat

DeliveryExchanges == [batch : Seq(Senders!Events), acks : Seq(Senders!Acks), at :
   {"none", "check", "store", "answered"}]
WholeRequest == {"busy", "too many"}

\* The types.
DeliveryTypes ==
    /\ world \in Worlds
    /\ written \in 0 .. Len(world.fate)
    /\ buffer \in Seq(Senders!Events) /\ hand \in Seq(Senders!Events)
    /\ pc \in {"idle", "send", "wait"}
    /\ pc = "idle" <=> hand = <<>>
    /\ request \in [Senders!Slots -> DeliveryExchanges]
    /\ copies \in [Senders!Events -> Nat]
    /\ seen \subseteq Senders!Events

\* What was written has a place.
DeliveryPlaces == 1 .. written = Senders!Range(buffer) \cup Senders!Range(hand) \cup told \cup
   failed

\* What an acknowledgement of an event says of the collector.
DeliveryMeets(ack, e) ==
    /\ ack = "accepted" => copies[e] > 0
    /\ ack = "duplicate" => e \in seen
    /\ ack = "quarantined" => e \in quarantine
    /\ ack = "invalid" => world.fate[e] = "invalid"

\* How far the collector is with a request r.
DeliveryOrder(r) ==
    /\ r.at \in {"check", "store"} => Len(r.acks) < Len(r.batch)
    /\ \/ Len(r.acks) <= Len(r.batch) /\ \A i \in 1 .. Len(r.acks) : r.acks[i] \notin WholeRequest
       \/ r.at = "answered" /\ \E why \in WholeRequest : r.acks = <<why>>
    /\ r.at = "answered" => Len(r.acks) = Len(r.batch) \/ \E why \in WholeRequest : r.acks = <<why>>
    /\ \A i \in 1 .. Len(r.acks) : i \in 1 .. Len(r.batch) => DeliveryMeets(r.acks[i], r.batch[i])

DeliveryRequests ==
    /\ \A s \in Senders!Slots : DeliveryOrder(request[s])
    /\ request["late"].at # "answered"
    /\ pc = "wait" => request["current"].batch = hand
    /\ pc # "wait" => request["current"].at = "none"

\* Request s is about to store e.
DeliveryStoring(s, e) == request[s].at = "store" /\ Senders!Ev(s) = e

\* What the dedupe store knows.
DeliverySeen ==
    /\ ~world.dedupe => seen = {}
    /\ \A e \in seen : copies[e] > 0 \/ e \in forgotten \/
          \E s \in Senders!Slots : DeliveryStoring(s, e)

DeliveryTold == \A e \in told : e \in Senders!Events /\
   (copies[e] > 0 \/ e \in seen \/ e \in quarantine \/ e \in unread)

\* An id is recorded before its event is stored, by the one request that stores it.
DeliveryOnce ==
    world.dedupe =>
        /\ \A e \in Senders!Events : copies[e] <= 1 /\ (copies[e] > 0 => e \in seen)
        /\ \A s \in Senders!Slots, e \in Senders!Events : DeliveryStoring(s, e) =>
              e \in seen /\ copies[e] = 0
        /\ \A e \in Senders!Events : ~(DeliveryStoring("current", e) /\ DeliveryStoring("late", e))

DeliveryInv ==
    /\ DeliveryTypes /\ DeliveryPlaces /\ DeliveryRequests
    /\ DeliverySeen /\ DeliveryTold /\ DeliveryOnce

\* The parts of the invariant, with what a world and an exchange are.
LEMMA DeliveryFacts ==
    ASSUME DeliveryConstants, DeliveryInv
    PROVE  /\ DeliveryTypes /\ DeliveryPlaces /\ DeliveryRequests
           /\ DeliverySeen /\ DeliveryTold /\ DeliveryOnce
           /\ Senders!kind \in {"go", "gobatch", "js", "python", "rust"}
           /\ world.fate \in Seq({"valid", "invalid", "quarantined"})
           /\ Senders!Events = 1 .. Len(world.fate) /\ Len(world.fate) \in Nat
           /\ \A s \in Senders!Slots :
                 /\ request[s].batch \in Seq(Senders!Events)
                 /\ request[s].acks \in Seq(Senders!Acks)
                 /\ request[s].at \in {"none", "check", "store", "answered"}
                 /\ request[s].at \in {"check", "store"} => Senders!Ev(s) \in Senders!Events
<1>1. /\ DeliveryTypes /\ DeliveryPlaces /\ DeliveryRequests
      /\ DeliverySeen /\ DeliveryTold /\ DeliveryOnce
    BY DEF DeliveryInv
<1>2. Senders!kind \in {"go", "gobatch", "js", "python", "rust"} /\
         world.fate \in Seq({"valid", "invalid", "quarantined"})
    BY <1>1 DEF DeliveryTypes, DeliveryConstants, Senders!kind
<1>3. Senders!Events = 1 .. Len(world.fate) /\ Len(world.fate) \in Nat
    BY <1>2 DEF Senders!Events
<1>4. ASSUME NEW s \in Senders!Slots
      PROVE  /\ request[s].batch \in Seq(Senders!Events) /\ request[s].acks \in Seq(Senders!Acks)
             /\ request[s].at \in {"none", "check", "store", "answered"}
             /\ request[s].at \in {"check", "store"} => Senders!Ev(s) \in Senders!Events
  <2>1. request[s] \in DeliveryExchanges
    BY <1>1, <1>4 DEF DeliveryTypes
  <2>2. /\ request[s].batch \in Seq(Senders!Events) /\ request[s].acks \in Seq(Senders!Acks)
        /\ request[s].at \in {"none", "check", "store", "answered"}
    BY <2>1 DEF DeliveryExchanges
  <2>3. ASSUME request[s].at \in {"check", "store"} PROVE Senders!Ev(s) \in Senders!Events
    <3>1. Len(request[s].acks) < Len(request[s].batch)
      BY <1>1, <1>4, <2>3 DEF DeliveryRequests, DeliveryOrder
    <3>2. Len(request[s].acks) + 1 \in 1 .. Len(request[s].batch)
      BY <2>2, <3>1
    <3> QED BY <2>2, <3>2 DEF Senders!Ev
  <2> QED BY <2>2, <2>3
<1> QED BY <1>1, <1>2, <1>3, <1>4

\* The invariant holds in the initial states.
LEMMA DeliveryInit == ASSUME DeliveryConstants, Senders!Init PROVE DeliveryInv
<1>0. /\ world \in Worlds /\ world.fate \in Seq({"valid", "invalid", "quarantined"})
      /\ Len(world.fate) \in Nat
    BY DEF Senders!Init, DeliveryConstants
<1>1. /\ written = 0 /\ buffer = <<>> /\ hand = <<>> /\ pc = "idle" /\ seen = {} /\ told = {}
      /\ failed = {}
      /\ \A s \in Senders!Slots : request[s] = Senders!None
      /\ \A e \in Senders!Events : copies[e] = 0
      /\ request = [s \in Senders!Slots |-> Senders!None] /\ copies = [e \in Senders!Events |-> 0]
    BY DEF Senders!Init
<1>2. Senders!None \in DeliveryExchanges /\ Senders!None.at = "none" /\ Senders!None.acks = <<>>
    BY DEF Senders!None, DeliveryExchanges
<1>3. DeliveryTypes
  <2>1. request \in [Senders!Slots -> DeliveryExchanges] /\ copies \in [Senders!Events -> Nat]
    BY <1>1, <1>2
  <2>2. 0 \in 0 .. Len(world.fate)
    BY <1>0
  <2> QED BY <1>0, <1>1, <2>1, <2>2 DEF DeliveryTypes
<1>4. DeliveryPlaces
  <2>1. 1 .. 0 = {} /\ Senders!Range(<<>>) = {}
    BY DEF Senders!Range
  <2> QED BY <1>1, <2>1 DEF DeliveryPlaces
<1>5. DeliveryRequests
  <2>1. DeliveryOrder(Senders!None)
    BY DEF DeliveryOrder, Senders!None
  <2>2. "late" \in Senders!Slots /\ "current" \in Senders!Slots
    BY DEF Senders!Slots
  <2> QED BY <1>1, <1>2, <2>1, <2>2 DEF DeliveryRequests
<1>6. DeliverySeen /\ DeliveryTold
    BY <1>1 DEF DeliverySeen, DeliveryTold
<1>7. DeliveryOnce
  <2>1. \A s \in Senders!Slots : \A e : ~DeliveryStoring(s, e)
    BY <1>1, <1>2 DEF DeliveryStoring
  <2>2. \A e \in Senders!Events : copies[e] <= 1 /\ ~(copies[e] > 0)
    BY <1>1
  <2>3. "late" \in Senders!Slots
    BY DEF Senders!Slots
  <2> QED BY <2>1, <2>2, <2>3 DEF DeliveryOnce
<1> QED BY <1>3, <1>4, <1>5, <1>6, <1>7 DEF DeliveryInv

\* What the collector has and knows only grows.
DeliveryGrows ==
    /\ world' = world /\ seen \subseteq seen' /\ quarantine \subseteq quarantine'
    /\ forgotten \subseteq forgotten'
    /\ \A e \in Senders!Events : copies[e] > 0 => copies'[e] > 0

\* What holds of a request that is left alone.
LEMMA DeliveryKept ==
    ASSUME NEW r \in DeliveryExchanges, DeliveryOrder(r), DeliveryGrows
    PROVE  DeliveryOrder(r)'
<1>1. r.batch \in Seq(Senders!Events)
    BY DEF DeliveryExchanges
<1>2. \A e \in Senders!Events : \A k : DeliveryMeets(k, e) => DeliveryMeets(k, e)'
    BY DEF DeliveryMeets, DeliveryGrows
<1>3. \A i \in 1 .. Len(r.batch) : r.batch[i] \in Senders!Events
    BY <1>1
<1>4. \A i \in 1 .. Len(r.acks) : i \in 1 .. Len(r.batch) => DeliveryMeets(r.acks[i], r.batch[i])'
    BY <1>2, <1>3 DEF DeliveryOrder
<1>5. /\ r.at \in {"check", "store"} => Len(r.acks) < Len(r.batch)
      /\ \/ Len(r.acks) <= Len(r.batch) /\ \A i \in 1 .. Len(r.acks) : r.acks[i] \notin WholeRequest
         \/ r.at = "answered" /\ \E why \in WholeRequest : r.acks = <<why>>
      /\ r.at = "answered" =>
            Len(r.acks) = Len(r.batch) \/ \E why \in WholeRequest : r.acks = <<why>>
    BY DEF DeliveryOrder
<1> QED BY <1>4, <1>5 DEF DeliveryOrder

\* An acknowledgement is added to a request, which may be the last.
LEMMA DeliveryAck ==
    ASSUME DeliveryConstants, DeliveryInv, NEW s \in Senders!Slots,
           NEW ack \in Senders!Acks \ WholeRequest,
           request[s].at \in {"check", "store"}, Senders!Acknowledge(s, ack), DeliveryGrows,
           NEW f \in Senders!Events, f = Senders!Ev(s), DeliveryMeets(ack, f)',
           UNCHANGED <<written, buffer, hand, pc>>
    PROVE  /\ DeliveryRequests' /\ request' \in [Senders!Slots -> DeliveryExchanges]
           /\ \A t \in Senders!Slots : t # s => request'[t] = request[t]
           /\ request'[s].at # "store"
<1>0. /\ DeliveryTypes /\ DeliveryRequests
      /\ request[s].batch \in Seq(Senders!Events) /\ request[s].acks \in Seq(Senders!Acks)
      /\ Senders!Ev(s) \in Senders!Events
    BY DeliveryFacts
<1>1. PICK b, a, at0 : b = request[s].batch /\ a = request[s].acks /\ at0 = request[s].at
    OBVIOUS
<1>2. /\ b \in Seq(Senders!Events) /\ a \in Seq(Senders!Acks) /\ Len(a) < Len(b)
      /\ Len(a) \in Nat /\ Len(b) \in Nat
      /\ \A i \in 1 .. Len(a) : a[i] \notin WholeRequest /\ DeliveryMeets(a[i], b[i])
    BY <1>0, <1>1 DEF DeliveryRequests, DeliveryOrder
<1>3. request[s] = [batch |-> b, acks |-> a, at |-> at0]
    BY <1>0, <1>1 DEF DeliveryTypes, DeliveryExchanges
<1>4. PICK x : x = Append(a, ack)
    OBVIOUS
<1>5. x \in Seq(Senders!Acks) /\ Len(x) = Len(a) + 1 /\ x[Len(a) + 1] = ack /\
         \A i \in 1 .. Len(a) : x[i] = a[i]
    BY <1>2, <1>4
<1>6. PICK r, z : r = [request[s] EXCEPT !.acks = Append(@, ack), !.at = "check"] /\
         z = [r EXCEPT !.at = "answered"]
    OBVIOUS
<1>7. r \in DeliveryExchanges /\ r.batch = b /\ r.acks = x /\ r.at = "check"
  <2>1. request[s] \in DeliveryExchanges
    BY <1>0 DEF DeliveryTypes
  <2> QED BY <1>1, <1>4, <1>5, <1>6, <2>1 DEF DeliveryExchanges
<1>8. z \in DeliveryExchanges /\ z.batch = b /\ z.acks = x /\ z.at = "answered"
    BY <1>6, <1>7 DEF DeliveryExchanges
<1>9. request' = [request EXCEPT ![s] = IF ~(Len(x) = Len(b)) THEN r
                                        ELSE IF s = "late" THEN Senders!None
                                        ELSE z]
    BY <1>6, <1>7 DEF Senders!Acknowledge
<1>10. PICK n : n = request'[s]
    OBVIOUS
<1>11. /\ request' = [request EXCEPT ![s] = n]
       /\ \/ n = Senders!None /\ s = "late"
          \/ n = r /\ Len(x) < Len(b)
          \/ n = z /\ Len(x) = Len(b) /\ s # "late"
  <2>1. request'[s] = IF ~(Len(x) = Len(b)) THEN r
                      ELSE IF s = "late" THEN Senders!None
                      ELSE z
    BY <1>0, <1>9 DEF DeliveryTypes
  <2>3. Len(x) < Len(b) \/ Len(x) = Len(b)
    BY <1>2, <1>5
  <2> QED BY <1>9, <1>10, <2>1, <2>3
<1>12. n \in DeliveryExchanges
  <2>1. Senders!None \in DeliveryExchanges
    BY DEF Senders!None, DeliveryExchanges
  <2> QED BY <1>7, <1>8, <1>11, <2>1
<1>13. \A e \in Senders!Events : \A k : DeliveryMeets(k, e) => DeliveryMeets(k, e)'
    BY DEF DeliveryMeets, DeliveryGrows
<1>14. DeliveryOrder(n)'
  <2>1. CASE n = Senders!None
    BY <2>1 DEF Senders!None, DeliveryOrder
  <2>2. CASE n # Senders!None
    <3>1. n.batch = b /\ n.acks = x /\ n.at \in {"check", "answered"} /\
             (n.at = "check" => Len(x) < Len(b))
          /\ (n.at = "answered" => Len(x) = Len(b)) /\ Len(x) <= Len(b)
      BY <1>2, <1>5, <1>7, <1>8, <1>11, <2>2
    <3>2. \A i \in 1 .. Len(x) : x[i] \notin WholeRequest
      BY <1>2, <1>5
    <3>3. b[Len(a) + 1] = Senders!Ev(s)
      BY <1>1 DEF Senders!Ev
    <3>4. \A i \in 1 .. Len(x) : DeliveryMeets(x[i], b[i])'
      <4> SUFFICES ASSUME NEW i \in 1 .. Len(x) PROVE DeliveryMeets(x[i], b[i])'
        OBVIOUS
      <4>1. CASE i \in 1 .. Len(a)
        <5>1. b[i] \in Senders!Events /\ x[i] = a[i] /\ DeliveryMeets(a[i], b[i])
          BY <1>2, <1>5, <4>1
        <5> QED BY <1>13, <5>1
      <4>2. CASE i = Len(a) + 1
        <5>1. x[i] = ack /\ b[i] = Senders!Ev(s)
          BY <1>5, <3>3, <4>2
        <5> QED BY <5>1
      <4> QED BY <1>2, <1>5, <4>1, <4>2
    <3> QED BY <3>1, <3>2, <3>4 DEF DeliveryOrder
  <2> QED BY <2>1, <2>2
<1>15. \A t \in Senders!Slots : t # s => request'[t] = request[t]
    BY <1>0, <1>11 DEF DeliveryTypes
<1>16. request' \in [Senders!Slots -> DeliveryExchanges]
    BY <1>0, <1>11, <1>12 DEF DeliveryTypes
<1>17. DeliveryRequests'
  <2>1. ASSUME NEW t \in Senders!Slots PROVE DeliveryOrder(request[t])'
    <3>1. PICK q : q = request'[t]
      OBVIOUS
    <3>2. DeliveryOrder(q)'
      <4>1. CASE t = s
        BY <1>10, <1>14, <3>1, <4>1
      <4>2. CASE t # s
        <5>1. q = request[t]
          BY <1>15, <3>1, <4>2
        <5>2. q \in DeliveryExchanges /\ DeliveryOrder(q)
          BY <1>0, <5>1 DEF DeliveryTypes, DeliveryRequests
        <5> QED BY <5>2, DeliveryKept
      <4> QED BY <4>1, <4>2
    <3> QED BY <3>1, <3>2 DEF DeliveryOrder
  <2>2. request'["late"].at # "answered"
    <3>1. CASE s = "late"
      BY <1>7, <1>10, <1>11, <3>1 DEF Senders!None
    <3>2. CASE s # "late"
      BY <1>0, <1>15, <3>2 DEF DeliveryRequests, Senders!Slots
    <3> QED BY <3>1, <3>2
  <2>3. /\ pc = "wait" => request'["current"].batch = hand
        /\ pc # "wait" => request'["current"].at = "none"
    <3>1. CASE s = "current"
      <4>1. pc = "wait" /\ b = hand
        BY <1>0, <1>1, <3>1 DEF DeliveryRequests
      <4> QED BY <1>7, <1>8, <1>10, <1>11, <3>1, <4>1
    <3>2. CASE s # "current"
      BY <1>0, <1>15, <3>2 DEF DeliveryRequests, Senders!Slots
    <3> QED BY <3>1, <3>2
  <2> QED BY <2>1, <2>2, <2>3 DEF DeliveryRequests
<1> QED BY <1>7, <1>8, <1>10, <1>11, <1>15, <1>16, <1>17 DEF Senders!None

\* The collector takes the next step of a request.
LEMMA DeliveryHandle ==
    ASSUME DeliveryConstants, DeliveryInv, NEW s \in Senders!Slots, Senders!Handle(s)
    PROVE  DeliveryInv'
<1>0. /\ DeliveryTypes /\ DeliveryPlaces /\ DeliveryRequests
      /\ DeliverySeen /\ DeliveryTold /\ DeliveryOnce
      /\ \A t \in Senders!Slots : /\ request[t].batch \in Seq(Senders!Events)
                                  /\ request[t].acks \in Seq(Senders!Acks)
                                  /\ request[t].at \in {"none", "check", "store", "answered"}
                                  /\ request[t].at \in {"check", "store"} =>
                                        Senders!Ev(t) \in Senders!Events
    BY DeliveryFacts
<1>1. /\ UNCHANGED <<world, written, buffer, hand, pc, told, failed, unread>>
      /\ request[s].at \in {"check", "store"}
    BY DEF Senders!Handle, Senders!Check, Senders!Store, Senders!Refuse, Senders!sender
<1>2. PICK f \in Senders!Events : f = Senders!Ev(s)
    BY <1>0, <1>1
<1>3. Senders!Range(buffer)' = Senders!Range(buffer) /\
         Senders!Range(hand)' = Senders!Range(hand) /\ Senders!Events' = Senders!Events
    BY <1>1 DEF Senders!Range, Senders!Events
<1>4. DeliveryPlaces'
    BY <1>0, <1>1, <1>3 DEF DeliveryPlaces
<1>5. ASSUME DeliveryRequests', request' \in [Senders!Slots -> DeliveryExchanges],
             copies' \in [Senders!Events -> Nat], seen' \subseteq Senders!Events,
             DeliveryGrows, DeliverySeen', DeliveryOnce'
      PROVE  DeliveryInv'
  <2>1. DeliveryTypes'
    BY <1>0, <1>1, <1>3, <1>5 DEF DeliveryTypes, DeliveryExchanges
  <2>2. DeliveryTold'
    BY <1>0, <1>1, <1>3, <1>5 DEF DeliveryTold, DeliveryGrows
  <2> QED BY <1>4, <1>5, <2>1, <2>2 DEF DeliveryInv
\* An event that is not stored and whose id is not recorded now.
<1>6. ASSUME NEW ack \in {"invalid", "quarantined", "duplicate"}, request[s].at = "check",
             Senders!Acknowledge(s, ack),
             DeliveryGrows, DeliveryMeets(ack, f)', UNCHANGED <<copies, seen, forgotten>>
      PROVE  DeliveryInv'
  <2>1. ack \in Senders!Acks \ WholeRequest
    BY DEF Senders!Acks, WholeRequest, Senders!Accepted
  <2>2. /\ DeliveryRequests' /\ request' \in [Senders!Slots -> DeliveryExchanges]
        /\ \A t \in Senders!Slots : t # s => request'[t] = request[t]
        /\ request'[s].at # "store"
    BY <1>1, <1>2, <1>6, <2>1, DeliveryAck
  <2>3. \A t \in Senders!Slots : \A e \in Senders!Events : DeliveryStoring(t, e)' <=>
           DeliveryStoring(t, e)
    BY <1>6, <2>2 DEF DeliveryStoring, Senders!Ev
  <2>4. DeliverySeen'
    BY <1>0, <1>1, <1>6, <2>3 DEF DeliverySeen, DeliveryTypes
  <2>5. DeliveryOnce'
    BY <1>0, <1>1, <1>3, <1>6, <2>3 DEF DeliveryOnce, Senders!Slots
  <2> QED BY <1>0, <1>5, <1>6, <2>2, <2>4, <2>5 DEF DeliveryTypes
\* A request that is refused as a whole.
<1>7. ASSUME NEW why \in WholeRequest, Senders!Refuse(s, why) PROVE DeliveryInv'
  <2>1. UNCHANGED <<copies, seen, quarantine, forgotten>> /\ request[s].at = "check" /\
           request[s].acks = <<>>
    BY <1>7 DEF Senders!Refuse, Senders!collector
  <2>2. DeliveryGrows
    BY <1>1, <2>1 DEF DeliveryGrows
  <2>3. PICK n : n = request'[s]
    OBVIOUS
  <2>4. PICK z : z = [request[s] EXCEPT !.acks = <<why>>, !.at = "answered"]
    OBVIOUS
  <2>5. z \in DeliveryExchanges /\ z.batch = request[s].batch /\ z.acks = <<why>> /\
           z.at = "answered"
    <3>0. why \in Senders!Acks
      BY DEF Senders!Acks, WholeRequest
    <3>1. <<why>> \in Seq(Senders!Acks)
      BY <3>0
    <3>2. request[s] \in DeliveryExchanges
      BY <1>0 DEF DeliveryTypes
    <3> QED BY <2>4, <3>1, <3>2 DEF DeliveryExchanges
  <2>6. request' = [request EXCEPT ![s] = n] /\ n = (IF s = "late" THEN Senders!None ELSE z)
    <3>1. request' = [request EXCEPT ![s] = IF s = "late" THEN Senders!None ELSE z]
      BY <1>7, <2>4 DEF Senders!Refuse
    <3>2. request'[s] = IF s = "late" THEN Senders!None ELSE z
      BY <1>0, <3>1 DEF DeliveryTypes
    <3> QED BY <2>3, <3>1, <3>2
  <2>7. n \in DeliveryExchanges /\ n.at # "store"
    <3>1. Senders!None \in DeliveryExchanges /\ Senders!None.at = "none"
      BY DEF Senders!None, DeliveryExchanges
    <3> QED BY <2>5, <2>6, <3>1
  <2>8. request' \in [Senders!Slots -> DeliveryExchanges] /\ \A t \in Senders!Slots : t # s =>
           request'[t] = request[t]
    BY <1>0, <2>6, <2>7 DEF DeliveryTypes
  <2>9. DeliveryOrder(n)'
    <3>1. CASE s = "late"
      BY <2>6, <3>1 DEF Senders!None, DeliveryOrder
    <3>2. CASE s # "late"
      <4>1. n.acks = <<why>> /\ n.at = "answered"
        BY <2>5, <2>6, <3>2
      <4>2. \A i \in 1 .. Len(<<why>>) : <<why>>[i] = why
        OBVIOUS
      <4>3. \A e : DeliveryMeets(why, e)'
        BY DEF DeliveryMeets, WholeRequest
      <4> QED BY <4>1, <4>2, <4>3 DEF DeliveryOrder
    <3> QED BY <3>1, <3>2
  <2>10. DeliveryRequests'
    <3>1. ASSUME NEW t \in Senders!Slots PROVE DeliveryOrder(request[t])'
      <4>1. PICK q : q = request'[t]
        OBVIOUS
      <4>2. DeliveryOrder(q)'
        <5>1. CASE t = s
          BY <2>3, <2>9, <4>1, <5>1
        <5>2. CASE t # s
          <6>1. q = request[t] /\ q \in DeliveryExchanges /\ DeliveryOrder(q)
            BY <1>0, <2>8, <4>1, <5>2 DEF DeliveryTypes, DeliveryRequests
          <6> QED BY <2>2, <6>1, DeliveryKept
        <5> QED BY <5>1, <5>2
      <4> QED BY <4>1, <4>2 DEF DeliveryOrder
    <3>2. request'["late"].at # "answered"
      BY <1>0, <2>3, <2>6, <2>8 DEF DeliveryRequests, Senders!Slots, Senders!None
    <3>3. /\ pc = "wait" => request'["current"].batch = hand
          /\ pc # "wait" => request'["current"].at = "none"
      <4>1. CASE s = "current"
        BY <1>0, <2>1, <2>3, <2>5, <2>6, <4>1 DEF DeliveryRequests
      <4>2. CASE s # "current"
        BY <1>0, <2>8, <4>2 DEF DeliveryRequests, Senders!Slots
      <4> QED BY <4>1, <4>2
    <3> QED BY <1>1, <3>1, <3>2, <3>3 DEF DeliveryRequests
  <2>11. \A t \in Senders!Slots : \A e \in Senders!Events : DeliveryStoring(t, e)' <=>
            DeliveryStoring(t, e)
    BY <2>1, <2>3, <2>7, <2>8 DEF DeliveryStoring, Senders!Ev
  <2>12. DeliverySeen'
    BY <1>0, <1>1, <2>1, <2>11 DEF DeliverySeen, DeliveryTypes
  <2>13. DeliveryOnce'
    BY <1>0, <1>1, <1>3, <2>1, <2>11 DEF DeliveryOnce, Senders!Slots
  <2> QED BY <1>0, <1>5, <2>1, <2>2, <2>8, <2>10, <2>12, <2>13 DEF DeliveryTypes
<1>8. CASE Senders!Check(s)
  <2>1. UNCHANGED <<copies, forgotten>> /\ request[s].at = "check"
    BY <1>8 DEF Senders!Check
  <2>2. CASE world.fate[f] = "invalid"
    <3>1. Senders!Acknowledge(s, "invalid") /\ UNCHANGED <<seen, quarantine>>
      BY <1>2, <1>8, <2>2 DEF Senders!Check
    <3>2. DeliveryGrows /\ DeliveryMeets("invalid", f)'
      BY <1>1, <2>1, <2>2, <3>1 DEF DeliveryGrows, DeliveryMeets
    <3> QED BY <1>6, <2>1, <3>1, <3>2
  <2>3. CASE world.fate[f] = "quarantined"
    <3>1. Senders!Acknowledge(s, "quarantined") /\ UNCHANGED seen /\
             quarantine' = quarantine \cup {f}
      BY <1>2, <1>8, <2>3 DEF Senders!Check
    <3>2. DeliveryGrows /\ DeliveryMeets("quarantined", f)'
      BY <1>1, <2>1, <2>3, <3>1 DEF DeliveryGrows, DeliveryMeets
    <3> QED BY <1>6, <2>1, <3>1, <3>2
  <2>4. CASE world.fate[f] = "valid" /\ f \in seen
    <3>1. Senders!Acknowledge(s, "duplicate") /\ UNCHANGED <<seen, quarantine>>
      BY <1>2, <1>8, <2>4 DEF Senders!Check
    <3>2. DeliveryGrows /\ DeliveryMeets("duplicate", f)'
      BY <1>1, <2>1, <2>4, <3>1 DEF DeliveryGrows, DeliveryMeets
    <3> QED BY <1>6, <2>1, <3>1, <3>2
  <2>5. CASE world.fate[f] = "valid" /\ f \notin seen
    <3>1. /\ request' = [request EXCEPT ![s].at = "store"] /\ UNCHANGED quarantine
          /\ seen' = IF world.dedupe THEN seen \cup {f} ELSE seen
      BY <1>2, <1>8, <2>5 DEF Senders!Check
    <3>2. DeliveryGrows
      BY <1>1, <2>1, <3>1 DEF DeliveryGrows
    <3>3. PICK n : n = [request[s] EXCEPT !.at = "store"]
      OBVIOUS
    <3>4. n \in DeliveryExchanges /\ n.batch = request[s].batch /\ n.acks = request[s].acks /\
             n.at = "store"
      <4>1. request[s] \in DeliveryExchanges
        BY <1>0 DEF DeliveryTypes
      <4> QED BY <3>3, <4>1 DEF DeliveryExchanges
    <3>5. /\ request' \in [Senders!Slots -> DeliveryExchanges] /\ request'[s] = n
          /\ \A t \in Senders!Slots : t # s => request'[t] = request[t]
      BY <1>0, <3>1, <3>3, <3>4 DEF DeliveryTypes
    <3>6. DeliveryRequests'
      <4>1. ASSUME NEW t \in Senders!Slots PROVE DeliveryOrder(request[t])'
        <5>1. PICK q : q = request[t]
          OBVIOUS
        <5>2. q \in DeliveryExchanges /\ DeliveryOrder(q) /\ DeliveryOrder(q)'
          <6>1. q \in DeliveryExchanges /\ DeliveryOrder(q)
            BY <1>0, <5>1 DEF DeliveryTypes, DeliveryRequests
          <6> QED BY <3>2, <6>1, DeliveryKept
        <5>3. CASE t # s
          BY <3>5, <5>1, <5>2, <5>3 DEF DeliveryOrder
        <5>4. CASE t = s
          <6>1. /\ request'[t].batch = q.batch /\ request'[t].acks = q.acks
                /\ request'[t].at = "store" /\ q.at = "check"
            BY <2>1, <3>4, <3>5, <5>1, <5>4
          <6> QED BY <5>2, <6>1 DEF DeliveryOrder
        <5> QED BY <5>3, <5>4
      <4>2. request'["late"].at # "answered"
        BY <1>0, <3>4, <3>5 DEF DeliveryRequests, Senders!Slots
      <4>3. /\ pc = "wait" => request'["current"].batch = hand
            /\ pc # "wait" => request'["current"].at = "none"
        <5>1. CASE s = "current"
          BY <1>0, <2>1, <3>4, <3>5, <5>1 DEF DeliveryRequests
        <5>2. CASE s # "current"
          BY <1>0, <3>5, <5>2 DEF DeliveryRequests, Senders!Slots
        <5> QED BY <5>1, <5>2
      <4> QED BY <1>1, <4>1, <4>2, <4>3 DEF DeliveryRequests
    <3>7. /\ \A t \in Senders!Slots : \A e \in Senders!Events : t # s =>
                (DeliveryStoring(t, e)' <=> DeliveryStoring(t, e))
          /\ \A e \in Senders!Events : ~DeliveryStoring(s, e) /\ (DeliveryStoring(s, e)' <=> e = f)
      BY <1>2, <2>1, <3>4, <3>5 DEF DeliveryStoring, Senders!Ev
    <3>8. seen' \subseteq Senders!Events
      BY <1>0, <3>1 DEF DeliveryTypes
    <3>9. DeliverySeen'
      <4>1. \A e \in seen' : copies'[e] > 0 \/ e \in forgotten' \/
               \E t \in Senders!Slots : DeliveryStoring(t, e)'
        <5> SUFFICES ASSUME NEW e \in seen'
                     PROVE  copies[e] > 0 \/ e \in forgotten \/
                               \E t \in Senders!Slots : DeliveryStoring(t, e)'
          BY <2>1
        <5>1. CASE e = f
          BY <3>7, <5>1
        <5>2. CASE e # f
          <6>1. e \in seen /\ e \in Senders!Events
            BY <1>0, <3>1, <3>8, <5>2
          <6> QED BY <1>0, <3>7, <6>1 DEF DeliverySeen
        <5> QED BY <5>1, <5>2
      <4>2. ~world'.dedupe => seen' = {}
        BY <1>0, <1>1, <3>1 DEF DeliverySeen
      <4> QED BY <4>1, <4>2 DEF DeliverySeen
    <3>10. DeliveryOnce'
      <4> SUFFICES ASSUME world.dedupe PROVE DeliveryOnce'
        BY <1>1 DEF DeliveryOnce
      <4>1. seen' = seen \cup {f}
        BY <3>1
      <4>2. /\ \A e \in Senders!Events : copies[e] <= 1 /\ (copies[e] > 0 => e \in seen)
            /\ \A t \in Senders!Slots, e \in Senders!Events : DeliveryStoring(t, e) =>
                  e \in seen /\ copies[e] = 0
            /\ \A e \in Senders!Events :
                  ~(DeliveryStoring("current", e) /\ DeliveryStoring("late", e))
        BY <1>0 DEF DeliveryOnce
      <4>3. copies[f] = 0
        BY <1>0, <2>5, <4>2 DEF DeliveryTypes
      <4>4. \A t \in Senders!Slots, e \in Senders!Events : DeliveryStoring(t, e)' =>
               e \in seen' /\ copies[e] = 0
        BY <3>7, <4>1, <4>2, <4>3
      <4>5. \A e \in Senders!Events :
               ~(DeliveryStoring("current", e)' /\ DeliveryStoring("late", e)')
        <5>1. \A t \in Senders!Slots : ~DeliveryStoring(t, f)
          BY <2>5, <4>2
        <5> QED BY <3>7, <4>2, <5>1 DEF Senders!Slots
      <4> QED BY <1>1, <1>3, <2>1, <4>1, <4>2, <4>4, <4>5 DEF DeliveryOnce
    <3> QED BY <1>0, <1>5, <2>1, <3>2, <3>5, <3>6, <3>8, <3>9, <3>10 DEF DeliveryTypes
  <2>6. world.fate[f] \in {"valid", "invalid", "quarantined"}
    BY DeliveryFacts
  <2> QED BY <2>2, <2>3, <2>4, <2>5, <2>6
<1>9. CASE Senders!Store(s)
  <2>1. UNCHANGED <<seen, quarantine>> /\ request[s].at = "store" /\ DeliveryStoring(s, f)
    BY <1>2, <1>9 DEF Senders!Store, DeliveryStoring
  <2>2. PICK ack \in {"accepted", "rejected"} :
           /\ Senders!Acknowledge(s, ack)
           /\ ack = "accepted" => copies' = [copies EXCEPT ![f] = @ + 1] /\ UNCHANGED forgotten
           /\ ack = "rejected" => /\ UNCHANGED copies
                                  /\ forgotten' = IF world.dedupe THEN forgotten \cup
                                        {f} ELSE forgotten
    BY <1>2, <1>9 DEF Senders!Store
  <2>3. /\ copies' \in [Senders!Events -> Nat] /\ forgotten \subseteq forgotten'
        /\ \A e \in Senders!Events : e # f => copies'[e] = copies[e]
        /\ ack = "accepted" => copies'[f] = copies[f] + 1
        /\ copies[f] \in Nat
    <3>1. copies \in [Senders!Events -> Nat] /\ copies[f] \in Nat
      BY <1>0 DEF DeliveryTypes
    <3>2. CASE ack = "accepted"
      BY <2>2, <3>1, <3>2
    <3>3. CASE ack = "rejected"
      BY <2>2, <3>1, <3>3
    <3> QED BY <3>1, <3>2, <3>3
  <2>4. DeliveryGrows /\ DeliveryMeets(ack, f)'
    <3>1. ASSUME NEW e \in Senders!Events, copies[e] > 0 PROVE copies'[e] > 0
      <4>1. CASE e # f
        BY <2>3, <3>1, <4>1
      <4>2. CASE e = f /\ ack = "accepted"
        BY <2>3, <4>2
      <4>3. CASE e = f /\ ack = "rejected"
        BY <2>2, <3>1, <4>3
      <4> QED BY <4>1, <4>2, <4>3
    <3>2. ack = "accepted" => copies'[f] > 0
      BY <2>3
    <3> QED BY <1>1, <2>1, <2>3, <3>1, <3>2 DEF DeliveryGrows, DeliveryMeets
  <2>5. ack \in Senders!Acks \ WholeRequest
    BY DEF Senders!Acks, WholeRequest, Senders!Accepted
  <2>6. /\ DeliveryRequests' /\ request' \in [Senders!Slots -> DeliveryExchanges]
        /\ \A t \in Senders!Slots : t # s => request'[t] = request[t]
        /\ request'[s].at # "store"
    BY <1>1, <1>2, <2>2, <2>4, <2>5, DeliveryAck
  <2>7. /\ \A t \in Senders!Slots : \A e \in Senders!Events : t # s =>
              (DeliveryStoring(t, e)' <=> DeliveryStoring(t, e))
        /\ \A e \in Senders!Events : ~DeliveryStoring(s, e)' /\ (DeliveryStoring(s, e) <=> e = f)
    BY <1>2, <2>1, <2>6 DEF DeliveryStoring, Senders!Ev
  <2>8. DeliverySeen'
    <3>1. \A e \in seen : copies'[e] > 0 \/ e \in forgotten' \/
             \E t \in Senders!Slots : DeliveryStoring(t, e)'
      <4> SUFFICES ASSUME NEW e \in seen
                   PROVE  copies'[e] > 0 \/ e \in forgotten' \/
                             \E t \in Senders!Slots : DeliveryStoring(t, e)'
        OBVIOUS
      <4>0. e \in Senders!Events /\ world.dedupe = TRUE
        <5>1. world.dedupe \in BOOLEAN
          BY <1>0 DEF DeliveryTypes, DeliveryConstants
        <5> QED BY <1>0, <5>1 DEF DeliveryTypes, DeliverySeen
      <4>1. CASE e = f
        BY <2>2, <2>3, <4>0, <4>1
      <4>2. CASE e # f
        BY <1>0, <2>3, <2>7, <4>0, <4>2 DEF DeliverySeen
      <4> QED BY <4>1, <4>2
    <3> QED BY <1>0, <1>1, <2>1, <3>1 DEF DeliverySeen
  <2>9. DeliveryOnce'
    <3> SUFFICES ASSUME world.dedupe PROVE DeliveryOnce'
      BY <1>1 DEF DeliveryOnce
    <3>1. /\ \A e \in Senders!Events : copies[e] <= 1 /\ (copies[e] > 0 => e \in seen)
          /\ \A t \in Senders!Slots, e \in Senders!Events : DeliveryStoring(t, e) =>
                e \in seen /\ copies[e] = 0
          /\ \A e \in Senders!Events :
                ~(DeliveryStoring("current", e) /\ DeliveryStoring("late", e))
      BY <1>0 DEF DeliveryOnce
    <3>2. copies[f] = 0 /\ f \in seen
      BY <2>1, <3>1
    <3>3. \A e \in Senders!Events : copies'[e] <= 1 /\ (copies'[e] > 0 => e \in seen)
      BY <2>2, <2>3, <3>1, <3>2
    <3>4. \A t \in Senders!Slots : t # s => ~DeliveryStoring(t, f)
      BY <2>1, <3>1 DEF Senders!Slots
    <3>5. \A t \in Senders!Slots, e \in Senders!Events : DeliveryStoring(t, e)' =>
             e \in seen /\ copies'[e] = 0
      BY <2>3, <2>7, <3>1, <3>4
    <3>6. \A e \in Senders!Events : ~(DeliveryStoring("current", e)' /\ DeliveryStoring("late", e)')
      BY <2>7 DEF Senders!Slots
    <3> QED BY <1>1, <1>3, <2>1, <3>3, <3>5, <3>6 DEF DeliveryOnce
  <2> QED BY <1>0, <1>5, <2>1, <2>3, <2>4, <2>6, <2>8, <2>9 DEF DeliveryTypes
<1> QED BY <1>7, <1>8, <1>9 DEF Senders!Handle, WholeRequest

\* What Append and \o do to what a sequence holds.
LEMMA DeliveryAppend ==
    ASSUME NEW S, NEW x \in Seq(S), NEW y \in S
    PROVE  Append(x, y) \in Seq(S) /\ Senders!Range(Append(x, y)) = Senders!Range(x) \cup {y}
<1>1. /\ Append(x, y) \in Seq(S) /\ Len(x) \in Nat /\ DOMAIN x = 1 .. Len(x)
      /\ DOMAIN Append(x, y) = 1 .. Len(x) + 1 /\ Append(x, y)[Len(x) + 1] = y
      /\ \A i \in 1 .. Len(x) : Append(x, y)[i] = x[i]
    OBVIOUS
<1>2. ASSUME NEW v \in Senders!Range(Append(x, y)) PROVE v \in Senders!Range(x) \cup {y}
  <2>1. PICK i \in 1 .. Len(x) + 1 : v = Append(x, y)[i]
    BY <1>1, <1>2 DEF Senders!Range
  <2>2. i \in 1 .. Len(x) \/ i = Len(x) + 1
    BY <1>1
  <2> QED BY <1>1, <2>1, <2>2 DEF Senders!Range
<1>3. ASSUME NEW v \in Senders!Range(x) \cup {y} PROVE v \in Senders!Range(Append(x, y))
  <2>1. PICK i \in 1 .. Len(x) + 1 : v = Append(x, y)[i]
    <3>1. CASE v = y
      BY <1>1, <3>1
    <3>2. CASE v \in Senders!Range(x)
      <4>1. PICK i \in 1 .. Len(x) : v = x[i]
        BY <1>1, <3>2 DEF Senders!Range
      <4>2. i \in 1 .. Len(x) + 1
        BY <1>1
      <4> QED BY <1>1, <4>1, <4>2
    <3> QED BY <1>3, <3>1, <3>2
  <2> QED BY <1>1, <2>1 DEF Senders!Range
<1> QED BY <1>1, <1>2, <1>3

LEMMA DeliveryJoin ==
    ASSUME NEW S, NEW x \in Seq(S), NEW y \in Seq(S)
    PROVE  x \o y \in Seq(S) /\ Senders!Range(x \o y) = Senders!Range(x) \cup Senders!Range(y)
<1>1. /\ x \o y \in Seq(S) /\ Len(x) \in Nat /\ Len(y) \in Nat
      /\ DOMAIN x = 1 .. Len(x) /\ DOMAIN y = 1 .. Len(y) /\ DOMAIN (x \o y) = 1 .. Len(x) + Len(y)
      /\ \A i \in 1 .. Len(x) : (x \o y)[i] = x[i]
      /\ \A i \in Len(x) + 1 .. Len(x) + Len(y) : (x \o y)[i] = y[i - Len(x)]
    OBVIOUS
<1>2. ASSUME NEW v \in Senders!Range(x \o y) PROVE v \in Senders!Range(x) \cup Senders!Range(y)
  <2>1. PICK i \in 1 .. Len(x) + Len(y) : v = (x \o y)[i]
    BY <1>1, <1>2 DEF Senders!Range
  <2>2. CASE i \in 1 .. Len(x)
    BY <1>1, <2>1, <2>2 DEF Senders!Range
  <2>3. CASE i \in Len(x) + 1 .. Len(x) + Len(y)
    <3>1. i - Len(x) \in 1 .. Len(y) /\ v = y[i - Len(x)]
      BY <1>1, <2>1, <2>3
    <3> QED BY <1>1, <3>1 DEF Senders!Range
  <2> QED BY <1>1, <2>2, <2>3
<1>3. ASSUME NEW v \in Senders!Range(x) PROVE v \in Senders!Range(x \o y)
  <2>1. PICK i \in 1 .. Len(x) : v = x[i]
    BY <1>1, <1>3 DEF Senders!Range
  <2>2. i \in 1 .. Len(x) + Len(y) /\ v = (x \o y)[i]
    BY <1>1, <2>1
  <2> QED BY <1>1, <2>2 DEF Senders!Range
<1>4. ASSUME NEW v \in Senders!Range(y) PROVE v \in Senders!Range(x \o y)
  <2>1. PICK i \in 1 .. Len(y) : v = y[i]
    BY <1>1, <1>4 DEF Senders!Range
  <2>2. Len(x) + i \in Len(x) + 1 .. Len(x) + Len(y) /\ (Len(x) + i) - Len(x) = i
    BY <1>1
  <2>3. Len(x) + i \in 1 .. Len(x) + Len(y) /\ v = (x \o y)[Len(x) + i]
    BY <1>1, <2>1, <2>2
  <2> QED BY <1>1, <2>3 DEF Senders!Range
<1> QED BY <1>1, <1>2, <1>3, <1>4

\* A step of the sender that leaves the collector alone.
LEMMA DeliverySender ==
    ASSUME DeliveryConstants, DeliveryInv, UNCHANGED <<world, seen, copies, quarantine, forgotten>>,
           written' \in 0 .. Len(world.fate), buffer' \in Seq(Senders!Events),
           hand' \in Seq(Senders!Events),
           pc' \in {"idle", "send", "wait"}, pc' = "idle" <=> hand' = <<>>,
           DeliveryPlaces', DeliveryTold',
           request' \in [Senders!Slots -> DeliveryExchanges],
           \A s \in Senders!Slots : DeliveryOrder(request[s])',
           request'["late"].at # "answered",
           pc' = "wait" => request'["current"].batch = hand',
           pc' # "wait" => request'["current"].at = "none",
           \A e \in Senders!Events : (\E s \in Senders!Slots : DeliveryStoring(s, e)) <=>
           (\E s \in Senders!Slots : DeliveryStoring(s, e)'),
           world.dedupe => \A e \in Senders!Events :
              ~(DeliveryStoring("current", e)' /\ DeliveryStoring("late", e)')
    PROVE  DeliveryInv'
<1>1. /\ DeliveryTypes /\ DeliverySeen /\ DeliveryOnce
    BY DeliveryFacts
<1>2. Senders!Events' = Senders!Events
    BY DEF Senders!Events
<1>3. DeliveryTypes'
    BY <1>1, <1>2 DEF DeliveryTypes, DeliveryExchanges
<1>4. DeliveryRequests'
    BY DEF DeliveryRequests
<1>5. DeliverySeen'
    BY <1>1 DEF DeliverySeen, DeliveryTypes
<1>6. DeliveryOnce'
    BY <1>1, <1>2 DEF DeliveryOnce
<1> QED BY <1>3, <1>4, <1>5, <1>6 DEF DeliveryInv

\* An attempt that does not succeed.
LEMMA DeliveryFails ==
    ASSUME DeliveryConstants, DeliveryInv, Senders!Retry \/ Senders!Fail,
           UNCHANGED <<world, written>>, pc # "idle"
    PROVE  /\ buffer' \in Seq(Senders!Events) /\ hand' \in Seq(Senders!Events)
           /\ pc' \in {"idle", "send"}
           /\ pc' = "idle" <=> hand' = <<>>
           /\ told' = told /\ DeliveryPlaces'
<1>1. DeliveryTypes /\ DeliveryPlaces
    BY DeliveryFacts
<1>2. CASE Senders!Fail
  <2>1. hand' = <<>> /\ pc' = "idle" /\ told' = told
    BY <1>2 DEF Senders!Fail, Senders!Return
  <2>2. Senders!Range(<<>>) = {}
    BY DEF Senders!Range
  <2>3. CASE Senders!kind \in Senders!Buffered
    <3>1. buffer' = hand \o buffer /\ failed' = failed
      BY <1>2, <2>3 DEF Senders!Fail
    <3>2. buffer' \in Seq(Senders!Events) /\
             Senders!Range(buffer') = Senders!Range(hand) \cup Senders!Range(buffer)
      BY <1>1, <3>1, DeliveryJoin DEF DeliveryTypes
    <3> QED BY <1>1, <2>1, <2>2, <3>1, <3>2 DEF DeliveryPlaces
  <2>4. CASE Senders!kind \notin Senders!Buffered
    <3>1. buffer' = buffer /\ failed' = failed \cup Senders!Range(hand)
      BY <1>2, <2>4 DEF Senders!Fail
    <3> QED BY <1>1, <2>1, <2>2, <3>1 DEF DeliveryPlaces, DeliveryTypes
  <2> QED BY <2>3, <2>4
<1>3. CASE Senders!Retry /\ attempt < Senders!MaxAttempts
  <2>1. pc' = "send" /\ UNCHANGED <<buffer, hand, told, failed>>
    BY <1>3 DEF Senders!Retry
  <2> QED BY <1>1, <2>1 DEF DeliveryPlaces, DeliveryTypes
<1>4. CASE Senders!Retry /\ ~(attempt < Senders!MaxAttempts)
  <2>1. Senders!Fail
    BY <1>4 DEF Senders!Retry
  <2> QED BY <1>2, <2>1
<1> QED BY <1>2, <1>3, <1>4

\* A request is left alone when nothing of the collector changes.
LEMMA DeliveryAlone ==
    ASSUME DeliveryConstants, DeliveryInv, UNCHANGED <<world, seen, copies, quarantine, forgotten>>,
           NEW s \in Senders!Slots, NEW t \in Senders!Slots, request'[t] = request[s]
    PROVE  DeliveryOrder(request[t])'
<1>1. DeliveryTypes /\ DeliveryRequests
    BY DeliveryFacts
<1>2. PICK q : q = request[s]
    OBVIOUS
<1>3. q \in DeliveryExchanges /\ DeliveryOrder(q)
    BY <1>1, <1>2 DEF DeliveryTypes, DeliveryRequests
<1>4. DeliveryOrder(q)'
    BY <1>3, DeliveryKept DEF DeliveryGrows
<1> QED BY <1>2, <1>4 DEF DeliveryOrder

\* A write, a flush, or an attempt that ends before the collector has the request.
LEMMA DeliveryWrites ==
    ASSUME DeliveryConstants, DeliveryInv,
           Senders!Write \/ Senders!Flush \/ Senders!WriteBatch \/ Senders!Unreachable \/
              Senders!ErrorPage
    PROVE  DeliveryInv'
<1>0. /\ DeliveryTypes /\ DeliveryPlaces /\ DeliveryRequests /\ DeliveryOnce /\ DeliveryTold
      /\ Senders!Events = 1 .. Len(world.fate) /\ Len(world.fate) \in Nat
      /\ world.dedupe => \A e \in Senders!Events :
            ~(DeliveryStoring("current", e) /\ DeliveryStoring("late", e))
    BY DeliveryFacts DEF DeliveryOnce
<1>1. /\ UNCHANGED <<world, seen, copies, quarantine, forgotten, request, unread>>
      /\ told' = told
      /\ (pc # "wait" /\ pc' # "wait") \/ UNCHANGED <<pc, hand>>
    BY DEF Senders!Write, Senders!Flush, Senders!WriteBatch, Senders!Unreachable,
       Senders!ErrorPage, Senders!Fail, Senders!Retry, Senders!Return, Senders!collector
<1>2. /\ \A s \in Senders!Slots : DeliveryOrder(request[s])'
      /\ \A s \in Senders!Slots : \A e \in Senders!Events : DeliveryStoring(s, e)' <=>
            DeliveryStoring(s, e)
      /\ Senders!Events' = Senders!Events
    BY <1>1, DeliveryAlone DEF DeliveryStoring, Senders!Ev, Senders!Events
<1>3. ASSUME written' \in 0 .. Len(world.fate), buffer' \in Seq(Senders!Events),
             hand' \in Seq(Senders!Events),
             pc' \in {"idle", "send", "wait"}, pc' = "idle" <=> hand' = <<>>, DeliveryPlaces'
      PROVE  DeliveryInv'
  <2>1. DeliveryTold'
    BY <1>0, <1>1, <1>2 DEF DeliveryTold
  <2>2. request' \in [Senders!Slots -> DeliveryExchanges] /\ request'["late"].at # "answered"
    BY <1>0, <1>1 DEF DeliveryTypes, DeliveryRequests
  <2>3. /\ pc' = "wait" => request'["current"].batch = hand'
        /\ pc' # "wait" => request'["current"].at = "none"
    BY <1>0, <1>1 DEF DeliveryRequests
  <2>4. /\ \A e \in Senders!Events : (\E s \in Senders!Slots : DeliveryStoring(s, e)) <=>
              (\E s \in Senders!Slots : DeliveryStoring(s, e)')
        /\ world.dedupe => \A e \in Senders!Events :
              ~(DeliveryStoring("current", e)' /\ DeliveryStoring("late", e)')
    BY <1>0, <1>2 DEF Senders!Slots
  <2> QED BY <1>1, <1>2, <1>3, <2>1, <2>2, <2>3, <2>4, DeliverySender
<1>4. CASE Senders!Unreachable \/ Senders!ErrorPage
  <2>1. (Senders!Retry \/ Senders!Fail) /\ UNCHANGED <<world, written>> /\ pc = "send"
    BY <1>4 DEF Senders!Unreachable, Senders!ErrorPage
  <2> QED BY <1>0, <1>3, <2>1, DeliveryFails DEF DeliveryTypes
<1>5. CASE Senders!Write
  <2>1. /\ written < Len(world.fate) /\ written' = written + 1 /\ buffer' = Append(buffer, written')
        /\ UNCHANGED <<hand, pc, failed>>
    BY <1>5 DEF Senders!Write
  <2>2. written + 1 \in Senders!Events /\ written' \in 0 .. Len(world.fate) /\
           1 .. written + 1 = (1 .. written) \cup {written + 1}
    BY <1>0, <2>1 DEF DeliveryTypes
  <2>3. buffer' \in Seq(Senders!Events) /\
           Senders!Range(buffer') = Senders!Range(buffer) \cup {written + 1}
    <3>1. PICK y \in Senders!Events : y = written + 1
      BY <2>2
    <3>2. buffer' = Append(buffer, y) /\ buffer \in Seq(Senders!Events)
      BY <1>0, <2>1, <3>1 DEF DeliveryTypes
    <3> QED BY <3>1, <3>2, DeliveryAppend
  <2>4. DeliveryPlaces'
    BY <1>0, <1>1, <2>1, <2>2, <2>3 DEF DeliveryPlaces
  <2> QED BY <1>0, <1>3, <2>1, <2>2, <2>3, <2>4 DEF DeliveryTypes
<1>6. CASE Senders!Flush
  <2>1. hand = <<>> /\ hand' = buffer /\ buffer # <<>> /\ buffer' = <<>> /\ pc' = "send" /\
           UNCHANGED <<written, failed>>
    BY <1>0, <1>6 DEF Senders!Flush, DeliveryTypes
  <2>2. Senders!Range(<<>>) = {}
    BY DEF Senders!Range
  <2>3. DeliveryPlaces'
    BY <1>0, <1>1, <2>1, <2>2 DEF DeliveryPlaces
  <2> QED BY <1>0, <1>3, <2>1, <2>3 DEF DeliveryTypes
<1>7. CASE Senders!WriteBatch
  <2>1. hand = <<>> /\ pc' = "send" /\ UNCHANGED <<buffer, failed>>
    BY <1>0, <1>7 DEF Senders!WriteBatch, DeliveryTypes
  <2>2. PICK n \in 1 .. IF Senders!kind = "go" THEN 1 ELSE BatchSize :
           /\ written + n <= Len(world.fate) /\ written' = written + n
           /\ hand' = [i \in 1 .. n |-> written + i]
    BY <1>7 DEF Senders!WriteBatch
  <2>3. n \in Nat
    BY <2>2 DEF DeliveryConstants
  <2>4. \A i \in 1 .. n : written + i \in Senders!Events
    BY <1>0, <2>2, <2>3 DEF DeliveryTypes
  <2>5. hand' \in Seq(Senders!Events) /\ hand' # <<>>
    <3>1. hand' \in Seq(Senders!Events) /\ Len(hand') = n
      BY <2>2, <2>3, <2>4
    <3> QED BY <2>3, <3>1
  <2>6. Senders!Range(hand') = written + 1 .. written + n
    <3>1. ASSUME NEW v \in written + 1 .. written + n PROVE v \in Senders!Range(hand')
      <4>1. v - written \in 1 .. n /\ written + (v - written) = v
        BY <1>0, <2>3, <3>1 DEF DeliveryTypes
      <4> QED BY <2>2, <4>1 DEF Senders!Range
    <3>2. ASSUME NEW v \in Senders!Range(hand') PROVE v \in written + 1 .. written + n
      <4>1. PICK i \in 1 .. n : v = written + i
        BY <2>2, <3>2 DEF Senders!Range
      <4> QED BY <1>0, <2>3, <4>1 DEF DeliveryTypes
    <3> QED BY <3>1, <3>2
  <2>7. written' \in 0 .. Len(world.fate) /\
           1 .. written' = (1 .. written) \cup (written + 1 .. written + n)
    BY <1>0, <2>2, <2>3 DEF DeliveryTypes
  <2>8. Senders!Range(<<>>) = {}
    BY DEF Senders!Range
  <2>9. DeliveryPlaces'
    BY <1>0, <1>1, <2>1, <2>6, <2>7, <2>8 DEF DeliveryPlaces
  <2> QED BY <1>0, <1>3, <2>1, <2>5, <2>7, <2>9 DEF DeliveryTypes
<1> QED BY <1>4, <1>5, <1>6, <1>7

\* The request is sent.
LEMMA DeliverySend == ASSUME DeliveryConstants, DeliveryInv, Senders!Send PROVE DeliveryInv'
<1>0. /\ DeliveryTypes /\ DeliveryPlaces /\ DeliveryRequests /\ DeliveryTold
      /\ Senders!Events' = Senders!Events
    BY DeliveryFacts DEF Senders!Send, Senders!Events
<1>1. /\ UNCHANGED <<world, seen, copies, quarantine, forgotten, written, buffer, hand, told, failed, unread>>
      /\ pc = "send" /\ pc' = "wait"
    BY DEF Senders!Send, Senders!collector
<1>2. PICK n : n = [batch |-> hand, acks |-> <<>>, at |-> "check"]
    OBVIOUS
<1>3. n \in DeliveryExchanges /\ n.batch = hand /\ n.acks = <<>> /\ n.at = "check"
    BY <1>0, <1>2 DEF DeliveryExchanges, DeliveryTypes
<1>4. /\ request' \in [Senders!Slots -> DeliveryExchanges] /\ request'["current"] = n
      /\ request'["late"] = request["late"]
    BY <1>0, <1>2, <1>3 DEF Senders!Send, DeliveryTypes, Senders!Slots
<1>5. /\ request["current"].at = "none" /\ request["late"].at # "answered"
      /\ \A e \in Senders!Events : ~DeliveryStoring("current", e)
    BY <1>0, <1>1 DEF DeliveryRequests, DeliveryStoring
<1>6. DeliveryOrder(n)'
  <2>1. Len(hand) > 0
    BY <1>0, <1>1 DEF DeliveryTypes
  <2> QED BY <1>3, <2>1 DEF DeliveryOrder
<1>7. ASSUME NEW s \in Senders!Slots PROVE DeliveryOrder(request[s])'
  <2>1. CASE s = "late"
    BY <1>1, <1>4, <2>1, DeliveryAlone
  <2>2. CASE s = "current"
    BY <1>4, <1>6, <2>2 DEF DeliveryOrder
  <2> QED BY <2>1, <2>2 DEF Senders!Slots
<1>8. \A e \in Senders!Events : ~DeliveryStoring("current", e)' /\
         (DeliveryStoring("late", e)' <=> DeliveryStoring("late", e))
  <2>1. n.at # "store"
    BY <1>3
  <2> QED BY <1>4, <2>1 DEF DeliveryStoring, Senders!Ev
<1>9. DeliveryPlaces' /\ DeliveryTold'
  <2>1. DeliveryPlaces'
    BY <1>0, <1>1 DEF DeliveryPlaces
  <2>2. DeliveryTold'
    BY <1>0, <1>1 DEF DeliveryTold
  <2> QED BY <2>1, <2>2
<1>10. \A e \in Senders!Events : (\E s \in Senders!Slots : DeliveryStoring(s, e)) <=>
          (\E s \in Senders!Slots : DeliveryStoring(s, e)')
    BY <1>5, <1>8 DEF Senders!Slots
<1>11. /\ written' \in 0 .. Len(world.fate) /\ buffer' \in Seq(Senders!Events)
       /\ hand' \in Seq(Senders!Events) /\ hand' # <<>>
    BY <1>0, <1>1 DEF DeliveryTypes
<1> QED BY <1>1, <1>3, <1>4, <1>5, <1>7, <1>8, <1>9, <1>10, <1>11, DeliverySender

\* The sender gives a request up, and the collector goes on with it.
LEMMA DeliveryTimeOut == ASSUME DeliveryConstants, DeliveryInv, Senders!TimeOut PROVE DeliveryInv'
<1>0. /\ DeliveryTypes /\ DeliveryPlaces /\ DeliveryRequests /\ DeliveryTold /\ DeliveryOnce
      /\ Senders!Events' = Senders!Events
    BY DeliveryFacts DEF Senders!TimeOut, Senders!Events
<1>1. /\ UNCHANGED <<world, seen, copies, quarantine, forgotten, written, unread>>
      /\ pc = "wait" /\ request["late"] = Senders!None /\ Senders!Retry
    BY DEF Senders!TimeOut, Senders!collector
<1>2. /\ buffer' \in Seq(Senders!Events) /\ hand' \in Seq(Senders!Events)
      /\ pc' \in {"idle", "send"}
      /\ pc' = "idle" <=> hand' = <<>>
      /\ told' = told /\ DeliveryPlaces'
    BY <1>1, DeliveryFails
<1>3. PICK n : n = IF request["current"].at = "answered" THEN Senders!None ELSE request["current"]
    OBVIOUS
<1>4. request' = [current |-> Senders!None, late |-> n]
    BY <1>3 DEF Senders!TimeOut
<1>5. Senders!None \in DeliveryExchanges /\ Senders!None.at = "none" /\ n \in DeliveryExchanges /\
         n.at # "answered"
  <2>1. Senders!None \in DeliveryExchanges /\ Senders!None.at = "none"
    BY DEF Senders!None, DeliveryExchanges
  <2>2. request["current"] \in DeliveryExchanges
    BY <1>0 DEF DeliveryTypes, Senders!Slots
  <2> QED BY <1>3, <2>1, <2>2
<1>6. request' \in [Senders!Slots -> DeliveryExchanges] /\ request'["current"] = Senders!None /\
         request'["late"] = n
    BY <1>4, <1>5 DEF Senders!Slots
<1>7. ASSUME NEW s \in Senders!Slots PROVE DeliveryOrder(request[s])'
  <2>1. DeliveryOrder(Senders!None)'
    BY DEF DeliveryOrder, Senders!None
  <2>2. CASE s = "current"
    BY <1>6, <2>1, <2>2 DEF DeliveryOrder
  <2>3. CASE s = "late" /\ n = Senders!None
    BY <1>6, <2>1, <2>3 DEF DeliveryOrder
  <2>4. CASE s = "late" /\ n = request["current"]
    <3>1. "current" \in Senders!Slots /\ request'[s] = request["current"]
      BY <1>6, <2>4 DEF Senders!Slots
    <3> QED BY <1>1, <3>1, DeliveryAlone
  <2> QED BY <1>3, <2>2, <2>3, <2>4 DEF Senders!Slots
<1>8. \A e \in Senders!Events : ~DeliveryStoring("current", e)' /\ ~DeliveryStoring("late", e)
    BY <1>1, <1>5, <1>6 DEF DeliveryStoring
<1>9. \A e \in Senders!Events : DeliveryStoring("late", e)' <=> DeliveryStoring("current", e)
  <2>1. CASE request["current"].at = "answered"
    BY <1>3, <1>5, <1>6, <2>1 DEF DeliveryStoring
  <2>2. CASE request["current"].at # "answered"
    <3>1. request'["late"] = request["current"]
      BY <1>3, <1>6, <2>2
    <3> QED BY <3>1 DEF DeliveryStoring, Senders!Ev
  <2> QED BY <2>1, <2>2
<1>10. DeliveryTold'
    BY <1>0, <1>1, <1>2 DEF DeliveryTold
<1>11. \A e \in Senders!Events : (\E s \in Senders!Slots : DeliveryStoring(s, e)) <=>
          (\E s \in Senders!Slots : DeliveryStoring(s, e)')
    BY <1>8, <1>9 DEF Senders!Slots
<1>12. written' \in 0 .. Len(world.fate)
    BY <1>0, <1>1 DEF DeliveryTypes
<1> QED BY <1>1, <1>2, <1>5, <1>6, <1>7, <1>8, <1>10, <1>11, <1>12, DeliverySender

\* An answer that a sender takes for success refuses no more than the sender overlooks.
LEMMA DeliveryOutcome ==
    ASSUME Senders!kind \in {"go", "gobatch", "js", "python", "rust"},
           NEW A \in SUBSET Senders!Acks,
           \A why \in WholeRequest : why \in A => A = {why},
           Senders!Outcome(Senders!Answer(A)) = "success"
    PROVE  /\ A \cap WholeRequest = {}
           /\ Senders!kind # "gobatch" => "rejected" \notin A
           /\ Senders!kind \notin {"gobatch", "js"} => "invalid" \notin A
<1>1. Senders!Answer(A).retryable <=> A \cap {"rejected", "busy"} # {}
    BY DEF Senders!Answer
<1>2. Senders!Answer(A).rejected <=> A \cap {"rejected", "busy", "too many"} # {}
    BY DEF Senders!Answer
<1>3. Senders!Answer(A).invalid <=> "invalid" \in A
    BY DEF Senders!Answer
<1>4. A = {"busy"} => Senders!Answer(A).code = 429
  <2> SUFFICES ASSUME A = {"busy"} PROVE Senders!Answer(A).code = 429
    OBVIOUS
  <2>1. A \cap Senders!Accepted = {} /\ "rejected" \notin A /\ A # {"too many"} /\
           A # {"invalid"} /\ A # {"quarantined"}
    BY DEF Senders!Accepted
  <2> QED BY <2>1 DEF Senders!Answer
<1>5. A = {"too many"} => Senders!Answer(A).code = 413
  <2> SUFFICES ASSUME A = {"too many"} PROVE Senders!Answer(A).code = 413
    OBVIOUS
  <2>1. A # {"busy"}
    OBVIOUS
  <2>2. A \cap Senders!Accepted = {} /\ "rejected" \notin A /\ A # {"invalid"} /\
           A # {"quarantined"}
    BY DEF Senders!Accepted
  <2> QED BY <2>1, <2>2 DEF Senders!Answer
<1>6. Senders!kind # "js" /\ Senders!kind # "gobatch" =>
         ~Senders!Answer(A).rejected /\ ~Senders!Answer(A).invalid
    BY DEF Senders!Outcome, Senders!collectorSink, Senders!PermanentFailure,
       Senders!permanent_failure, Senders!collector_response_outcome,
       Senders!classify_collector_response
<1>7. Senders!kind = "js" => ~Senders!Answer(A).retryable /\ Senders!Answer(A).code < 300
    BY DEF Senders!Outcome, Senders!classifyOutcome
<1>8. Senders!kind = "gobatch" => Senders!Answer(A).code < 300
    BY DEF Senders!Outcome, Senders!send
<1>9. Senders!Answer(A).code < 300 => A \cap WholeRequest = {}
  <2> SUFFICES ASSUME Senders!Answer(A).code < 300, NEW why \in A, why \in WholeRequest PROVE FALSE
    OBVIOUS
  <2>1. A = {why}
    OBVIOUS
  <2>2. A = {"busy"} \/ A = {"too many"}
    BY <2>1 DEF WholeRequest
  <2>3. Senders!Answer(A).code \in {429, 413}
    BY <1>4, <1>5, <2>2
  <2> QED BY <2>3
<1>10. CASE Senders!kind = "gobatch"
    BY <1>8, <1>9, <1>10
<1>11. CASE Senders!kind = "js"
    BY <1>1, <1>7, <1>9, <1>11
<1>12. CASE Senders!kind # "js" /\ Senders!kind # "gobatch"
    BY <1>2, <1>3, <1>6, <1>12 DEF WholeRequest
<1> QED BY <1>10, <1>11, <1>12

\* The sender reads the answer.
LEMMA DeliveryReceive == ASSUME DeliveryConstants, DeliveryInv, Senders!Receive PROVE DeliveryInv'
<1>0. /\ DeliveryTypes /\ DeliveryPlaces /\ DeliveryRequests /\ DeliveryTold /\ DeliveryOnce
      /\ Senders!Events' = Senders!Events
      /\ Senders!kind \in {"go", "gobatch", "js", "python", "rust"}
    BY DeliveryFacts DEF Senders!Receive, Senders!Events
<1>1. /\ UNCHANGED <<world, seen, copies, quarantine, forgotten, written>>
      /\ pc = "wait" /\ request["current"].at = "answered"
      /\ request' = [request EXCEPT !["current"] = Senders!None]
    BY DEF Senders!Receive, Senders!collector
<1>2. PICK r : r = request["current"]
    OBVIOUS
<1>3. r \in DeliveryExchanges /\ r.batch = hand /\ DeliveryOrder(r) /\ r.at = "answered"
    BY <1>0, <1>1, <1>2 DEF DeliveryTypes, DeliveryRequests, Senders!Slots
<1>4. Senders!None \in DeliveryExchanges /\ Senders!None.at = "none"
    BY DEF Senders!None, DeliveryExchanges
<1>5. request' \in [Senders!Slots -> DeliveryExchanges] /\ request'["current"] = Senders!None /\
         request'["late"] = request["late"]
    BY <1>0, <1>1, <1>4 DEF DeliveryTypes, Senders!Slots
<1>6. ASSUME NEW s \in Senders!Slots PROVE DeliveryOrder(request[s])'
  <2>1. CASE s = "late"
    BY <1>1, <1>5, <2>1, DeliveryAlone
  <2>2. CASE s = "current"
    <3>1. DeliveryOrder(Senders!None)'
      BY DEF DeliveryOrder, Senders!None
    <3> QED BY <1>5, <2>2, <3>1 DEF DeliveryOrder
  <2> QED BY <2>1, <2>2 DEF Senders!Slots
<1>7. /\ \A e \in Senders!Events : ~DeliveryStoring("current", e) /\ ~DeliveryStoring("current", e)'
      /\ \A e \in Senders!Events : DeliveryStoring("late", e)' <=> DeliveryStoring("late", e)
    BY <1>1, <1>4, <1>5 DEF DeliveryStoring, Senders!Ev
<1>8. ASSUME buffer' \in Seq(Senders!Events), hand' \in Seq(Senders!Events),
             pc' \in {"idle", "send"}, pc' = "idle" <=> hand' = <<>>,
             DeliveryPlaces', DeliveryTold'
      PROVE  DeliveryInv'
  <2>1. request'["late"].at # "answered"
    BY <1>0, <1>5 DEF DeliveryRequests
  <2>2. \A e \in Senders!Events : (\E s \in Senders!Slots : DeliveryStoring(s, e)) <=>
           (\E s \in Senders!Slots : DeliveryStoring(s, e)')
    BY <1>7 DEF Senders!Slots
  <2>3. written' \in 0 .. Len(world.fate)
    BY <1>0, <1>1 DEF DeliveryTypes
  <2> QED BY <1>1, <1>4, <1>5, <1>6, <1>7, <1>8, <2>1, <2>2, <2>3, DeliverySender
<1>9. CASE (Senders!Retry \/ Senders!Fail) /\ UNCHANGED unread
  <2>1. /\ buffer' \in Seq(Senders!Events) /\ hand' \in Seq(Senders!Events)
        /\ pc' \in {"idle", "send"}
        /\ pc' = "idle" <=> hand' = <<>>
        /\ told' = told /\ DeliveryPlaces'
    BY <1>1, <1>9, DeliveryFails
  <2>2. DeliveryTold'
    BY <1>0, <1>1, <1>9, <2>1 DEF DeliveryTold
  <2> QED BY <1>8, <2>1, <2>2
<1>10. CASE Senders!Outcome(Senders!Answer(Senders!Range(r.acks))) = "success" /\ Senders!Succeed /\
               unread' = unread \cup Senders!Unread(r)
  <2>1. /\ hand' = <<>> /\ pc' = "idle" /\ told' = told \cup Senders!Range(hand)
        /\ UNCHANGED <<buffer, failed>>
    BY <1>10 DEF Senders!Succeed, Senders!Return
  <2>2. DeliveryPlaces'
    <3>1. Senders!Range(<<>>) = {}
      BY DEF Senders!Range
    <3> QED BY <1>0, <1>1, <2>1, <3>1 DEF DeliveryPlaces
  <2>3. r.acks \in Seq(Senders!Acks) /\ r.batch \in Seq(Senders!Events) /\
           DOMAIN r.acks = 1 .. Len(r.acks)
    BY <1>3 DEF DeliveryExchanges
  <2>4. PICK A : A = Senders!Range(r.acks)
    OBVIOUS
  <2>5. A \in SUBSET Senders!Acks
    BY <2>3, <2>4 DEF Senders!Range
  <2>6. \A why \in WholeRequest : why \in A => A = {why}
    <3> SUFFICES ASSUME NEW why \in WholeRequest, why \in A PROVE A = {why}
      OBVIOUS
    <3>1. PICK i \in 1 .. Len(r.acks) : r.acks[i] = why
      BY <2>3, <2>4 DEF Senders!Range
    <3>2. PICK w \in WholeRequest : r.acks = <<w>>
      BY <1>3, <3>1 DEF DeliveryOrder
    <3>3. A = {w}
      BY <2>4, <3>2 DEF Senders!Range
    <3> QED BY <3>3
  <2>7. /\ A \cap WholeRequest = {}
        /\ Senders!kind # "gobatch" => "rejected" \notin A
        /\ Senders!kind \notin {"gobatch", "js"} => "invalid" \notin A
    BY <1>0, <1>10, <2>4, <2>5, <2>6, DeliveryOutcome
  <2>8. Len(r.acks) = Len(hand)
    <3>1. ASSUME NEW w \in WholeRequest, r.acks = <<w>> PROVE FALSE
      <4>1. w \in A
        BY <2>4, <3>1 DEF Senders!Range
      <4> QED BY <2>7, <4>1
    <3> QED BY <1>3, <3>1 DEF DeliveryOrder
  <2>9. DeliveryTold'
    <3>1. ASSUME NEW e \in Senders!Range(hand)
          PROVE  e \in Senders!Events /\
                    (copies[e] > 0 \/ e \in seen \/ e \in quarantine \/ e \in unread')
      <4>1. PICK i \in 1 .. Len(hand) : e = hand[i]
        BY <1>0, <3>1 DEF DeliveryTypes, Senders!Range
      <4>2. PICK ack : ack = r.acks[i]
        OBVIOUS
      <4>3. ack \in A /\ DeliveryMeets(ack, e) /\ e \in Senders!Events
        <5>1. i \in DOMAIN r.acks
          BY <2>3, <2>8, <4>1
        <5>2. ack \in A
          BY <2>4, <4>2, <5>1 DEF Senders!Range
        <5>3. DeliveryMeets(ack, e)
          BY <1>3, <2>8, <4>1, <4>2 DEF DeliveryOrder
        <5>4. e \in Senders!Events
          BY <1>3, <2>3, <4>1
        <5> QED BY <5>2, <5>3, <5>4
      <4>4. ack \notin Senders!Accepted => e \in Senders!Refused(r)
        <5>1. i \in DOMAIN r.acks
          BY <2>3, <2>8, <4>1
        <5> QED BY <1>3, <4>1, <4>2, <5>1 DEF Senders!Refused
      <4>5. ack \in {"accepted", "duplicate", "invalid", "quarantined", "rejected"}
        BY <2>5, <2>7, <4>3 DEF Senders!Acks, WholeRequest, Senders!Accepted
      <4>6. CASE ack \in {"accepted", "duplicate", "quarantined"}
        BY <4>3, <4>6 DEF DeliveryMeets
      <4>7. CASE ack = "invalid"
        <5>1. Senders!kind \in {"gobatch", "js"}
          BY <2>7, <4>3, <4>7
        <5>2. e \in Senders!Refused(r) /\ world.fate[e] = "invalid"
          BY <4>3, <4>4, <4>7 DEF Senders!Accepted, DeliveryMeets
        <5>3. e \in Senders!Unread(r)
          BY <5>1, <5>2 DEF Senders!Unread
        <5> QED BY <1>10, <4>3, <5>3
      <4>8. CASE ack = "rejected"
        <5>1. Senders!kind = "gobatch"
          BY <2>7, <4>3, <4>8
        <5>2. e \in Senders!Unread(r)
          BY <4>4, <4>8, <5>1 DEF Senders!Accepted, Senders!Unread
        <5> QED BY <1>10, <4>3, <5>2
      <4> QED BY <4>5, <4>6, <4>7, <4>8
    <3>2. unread \subseteq unread'
      BY <1>10
    <3> QED BY <1>0, <1>1, <2>1, <3>1, <3>2 DEF DeliveryTold
  <2> QED BY <1>0, <1>8, <2>1, <2>2, <2>9 DEF DeliveryTypes
<1> QED BY <1>2, <1>9, <1>10 DEF Senders!Receive

\* The invariant is inductive.
LEMMA DeliveryNext == ASSUME DeliveryConstants, DeliveryInv, [Senders!Next]_Senders!vars PROVE DeliveryInv'
<1>1. CASE UNCHANGED Senders!vars
  <2>1. /\ UNCHANGED <<world, written, buffer, hand, pc, request, seen, copies, quarantine, told, failed, unread,
                       forgotten>>
    BY <1>1 DEF Senders!vars
  <2>2. /\ DeliveryTypes /\ DeliveryPlaces /\ DeliveryRequests
        /\ DeliverySeen /\ DeliveryTold /\ DeliveryOnce
    BY DeliveryFacts
  <2>3. DeliveryTypes' /\ DeliveryPlaces' /\ DeliveryTold'
    BY <2>1, <2>2 DEF DeliveryTypes, DeliveryPlaces, DeliveryTold, Senders!Events,
       DeliveryExchanges, Senders!Range
  <2>4. DeliveryRequests'
    BY <2>1, <2>2 DEF DeliveryRequests, DeliveryOrder, DeliveryMeets
  <2>5. \A s \in Senders!Slots : \A e : DeliveryStoring(s, e)' <=> DeliveryStoring(s, e)
    BY <2>1 DEF DeliveryStoring, Senders!Ev
  <2>6. DeliverySeen' /\ DeliveryOnce'
    BY <2>1, <2>2, <2>5 DEF DeliverySeen, DeliveryOnce, Senders!Events, Senders!Slots
  <2> QED BY <2>3, <2>4, <2>6 DEF DeliveryInv
<1>2. CASE Senders!Write \/ Senders!Flush \/ Senders!WriteBatch \/ Senders!Unreachable \/
              Senders!ErrorPage
    BY <1>2, DeliveryWrites
<1>3. CASE Senders!Send
    BY <1>3, DeliverySend
<1>4. CASE Senders!TimeOut
    BY <1>4, DeliveryTimeOut
<1>5. CASE Senders!Receive
    BY <1>5, DeliveryReceive
<1>6. CASE \E s \in Senders!Slots : Senders!Handle(s)
    BY <1>6, DeliveryHandle
<1> QED BY <1>1, <1>2, <1>3, <1>4, <1>5, <1>6 DEF Senders!Next, Senders!Network

\* With any events, batches, retries and limits, and whatever the network does: what was written
\* to a sender is in its buffer or hand, or was reported to have failed or to have succeeded; what
\* it reported as a success the collector has, quarantined, is storing or has failed to store under
\* a recorded id, or the sender does not look for refusals; and a collector that dedupes stores an
\* event once.
THEOREM DeliveryKeeps == DeliveryConstants =>
   (Senders!Spec => [](Senders!WrittenIsKept /\ Senders!StoredOnce))
<1> SUFFICES ASSUME DeliveryConstants
             PROVE Senders!Spec => [](Senders!WrittenIsKept /\ Senders!StoredOnce)
    OBVIOUS
<1>1. Senders!Init => DeliveryInv
    BY DeliveryInit
<1>2. DeliveryInv /\ [Senders!Next]_Senders!vars => DeliveryInv'
    BY DeliveryNext
<1>3. DeliveryInv => Senders!WrittenIsKept /\ Senders!StoredOnce
  <2> SUFFICES ASSUME DeliveryInv PROVE Senders!WrittenIsKept /\ Senders!StoredOnce
    OBVIOUS
  <2>1. told \subseteq Senders!Stored \cup quarantine \cup Senders!BeingStored \cup forgotten \cup
           unread
    <3> SUFFICES ASSUME NEW e \in told
                 PROVE e \in Senders!Stored \cup quarantine \cup Senders!BeingStored \cup
                          forgotten \cup unread
      OBVIOUS
    <3>1. e \in Senders!Events /\ (copies[e] > 0 \/ e \in seen \/ e \in quarantine \/ e \in unread)
      BY DEF DeliveryInv, DeliveryTold
    <3>2. e \in seen => copies[e] > 0 \/ e \in forgotten \/ e \in Senders!BeingStored
      BY DEF DeliveryInv, DeliverySeen, DeliveryStoring, Senders!BeingStored
    <3> QED BY <3>1, <3>2 DEF Senders!Stored
  <2>2. Senders!WrittenIsKept
    BY <2>1 DEF DeliveryInv, DeliveryPlaces, Senders!WrittenIsKept
  <2>3. Senders!StoredOnce
    BY DEF DeliveryInv, DeliveryOnce, Senders!StoredOnce
  <2> QED BY <2>2, <2>3
<1> QED BY <1>1, <1>2, <1>3, PTL DEF Senders!Spec

-----------------------------------------------------------------------------
\* The memory queue and its files.

\* Each batch is a sequence of events; the limits are numbers, and NewQueue makes
\* the number of attempts positive.
QueueConstants ==
    /\ \A b \in Batches : b \in Seq(Memory!Every)
    /\ MaxEvents \in Int /\ Threshold \in Int /\ FileSize \in Int
    /\ MaxAttempts \in Nat \ {0} /\ MaxFaults \in Nat
    /\ Modes \subseteq BOOLEAN

\* What waits or is in a hand: an event and how often it was tried.
QueueEntry == [id : Memory!Every, attempts : 0 .. MaxAttempts - 1]

\* The types.
QueueTypes ==
    /\ retry \in BOOLEAN /\ closed \in BOOLEAN /\ stopCh \in BOOLEAN /\ tick \in BOOLEAN
    /\ events \in Seq(QueueEntry) /\ hand \in [Memory!Procs -> Seq(QueueEntry)]
    /\ pc \in [Memory!Procs -> {"select", "check", "wait", "flush", "write", "requeue", "gone",
                         "new", "join", "failed", "done"}]
    /\ pc[Memory!Flusher] \in {"select", "check", "wait", "flush", "write", "requeue", "gone"}
    /\ pc[Memory!Closer] \in {"new", "join", "flush", "write", "requeue", "failed", "done"}
    /\ failures \in Nat /\ openTime \in {"zero", "recent", "past"}
    /\ state \in [enqueued : Int, flushed : Int, failed : Int, inFlight : Int,
                  circuitOpen : BOOLEAN]
    /\ accepted \subseteq Memory!Every /\ dropped \subseteq Memory!Every
    /\ faults \in 0 .. MaxFaults

\* The file and the one it was renamed to.
QueueFileTypes ==
    /\ disk \in [file : {"open", "closed"}, current : Seq(Memory!Every), rotated :
       Seq(Memory!Every),
                 pos : Nat]
    /\ overwritten \subseteq Memory!Every

\* Who does not flush has nothing in hand.
QueueHands == \A p \in Memory!Procs : pc[p] \notin {"write", "requeue"} => hand[p] = <<>>

\* From the join on the goroutine has gone and Enqueue refuses, so that what
\* Close takes is the last.
QueueClosing ==
    /\ pc[Memory!Closer] \notin {"new", "join"} => closed /\ pc[Memory!Flusher] = "gone"
    /\ pc[Memory!Closer] \in {"write", "done"} => events = <<>>

QueueInv == QueueTypes /\ QueueFileTypes /\ QueueHands /\ QueueClosing /\ Memory!EnqueuedIsKept

\* The events of two sequences, one after the other.
LEMMA QueueCat ==
    ASSUME NEW S, NEW s \in Seq(S), NEW t \in Seq(S)
    PROVE  /\ s \o t \in Seq(S) /\ Len(s \o t) = Len(s) + Len(t)
           /\ Memory!ToSet(s \o t) = Memory!ToSet(s) \cup Memory!ToSet(t)
           /\ Memory!Ids(s \o t) = Memory!Ids(s) \cup Memory!Ids(t)
<1> DEFINE st == s \o t
<1>1. /\ st \in Seq(S) /\ Len(st) = Len(s) + Len(t)
      /\ DOMAIN st = 1 .. Len(s) + Len(t) /\ Len(s) \in Nat /\ Len(t) \in Nat
      /\ DOMAIN s = 1 .. Len(s) /\ DOMAIN t = 1 .. Len(t)
      /\ \A i \in 1 .. Len(s) : st[i] = s[i]
      /\ \A i \in 1 .. Len(t) : st[Len(s) + i] = t[i]
    OBVIOUS
<1> HIDE DEF st
<1>2. \A i \in 1 .. Len(s) + Len(t) :
         \/ i \in 1 .. Len(s) /\ st[i] = s[i]
         \/ i - Len(s) \in 1 .. Len(t) /\ st[i] = t[i - Len(s)]
  <2> TAKE i \in 1 .. Len(s) + Len(t)
  <2>1. CASE i \in 1 .. Len(s)
    BY <2>1, <1>1
  <2>2. CASE i \notin 1 .. Len(s)
    <3>1. i - Len(s) \in 1 .. Len(t) /\ Len(s) + (i - Len(s)) = i
      BY <2>2, <1>1
    <3> QED BY <3>1, <1>1
  <2> QED BY <2>1, <2>2
<1>3. /\ \A i \in 1 .. Len(s) : i \in DOMAIN st
      /\ \A i \in 1 .. Len(t) : Len(s) + i \in DOMAIN st
    BY <1>1
<1>4. Memory!ToSet(st) = Memory!ToSet(s) \cup Memory!ToSet(t)
  <2>1. \A i \in DOMAIN st : st[i] \in Memory!ToSet(s) \cup Memory!ToSet(t)
    BY <1>1, <1>2 DEF Memory!ToSet
  <2>2. \A i \in DOMAIN s : s[i] \in Memory!ToSet(st)
    BY <1>1, <1>3 DEF Memory!ToSet
  <2>3. \A i \in DOMAIN t : t[i] \in Memory!ToSet(st)
    BY <1>1, <1>3 DEF Memory!ToSet
  <2>4. Memory!ToSet(st) \subseteq Memory!ToSet(s) \cup Memory!ToSet(t)
    BY <2>1 DEF Memory!ToSet
  <2>5. Memory!ToSet(s) \cup Memory!ToSet(t) \subseteq Memory!ToSet(st)
    BY <2>2, <2>3 DEF Memory!ToSet
  <2> QED BY <2>4, <2>5
<1>5. Memory!Ids(st) = Memory!Ids(s) \cup Memory!Ids(t)
  <2>1. \A i \in DOMAIN st : st[i].id \in Memory!Ids(s) \cup Memory!Ids(t)
    BY <1>1, <1>2 DEF Memory!Ids
  <2>2. \A i \in DOMAIN s : s[i].id \in Memory!Ids(st)
    BY <1>1, <1>3 DEF Memory!Ids
  <2>3. \A i \in DOMAIN t : t[i].id \in Memory!Ids(st)
    BY <1>1, <1>3 DEF Memory!Ids
  <2>4. Memory!Ids(st) \subseteq Memory!Ids(s) \cup Memory!Ids(t)
    BY <2>1 DEF Memory!Ids
  <2>5. Memory!Ids(s) \cup Memory!Ids(t) \subseteq Memory!Ids(st)
    BY <2>2, <2>3 DEF Memory!Ids
  <2> QED BY <2>4, <2>5
<1> QED BY <1>1, <1>4, <1>5 DEF st

\* The empty sequence has no events.
LEMMA QueueEmpty == Memory!ToSet(<<>>) = {} /\ Memory!Ids(<<>>) = {} /\ Len(<<>>) = 0
BY DEF Memory!ToSet, Memory!Ids

\* The events in hand are events.
LEMMA QueueIdsType ==
    ASSUME NEW s \in Seq(QueueEntry)
    PROVE  Memory!Ids(s) \subseteq Memory!Every
<1>1. \A i \in DOMAIN s : s[i] \in QueueEntry
    OBVIOUS
<1>2. \A i \in DOMAIN s : s[i].id \in Memory!Every
    BY <1>1 DEF QueueEntry
<1> QED BY <1>2 DEF Memory!Ids

\* What a batch becomes in the queue.
LEMMA QueueFresh ==
    ASSUME NEW s \in Seq(Memory!Every), MaxAttempts \in Nat \ {0}
    PROVE  LET t == [i \in DOMAIN s |-> [id |-> s[i], attempts |-> 0]]
           IN t \in Seq(QueueEntry) /\ Len(t) = Len(s) /\ Memory!Ids(t) = Memory!ToSet(s)
<1> DEFINE t == [i \in DOMAIN s |-> [id |-> s[i], attempts |-> 0]]
<1>1. Len(s) \in Nat /\ DOMAIN s = 1 .. Len(s)
    OBVIOUS
<1>2. \A i \in DOMAIN s : s[i] \in Memory!Every /\ t[i] \in QueueEntry /\ t[i].id = s[i]
    BY <1>1 DEF QueueEntry
<1>3. t \in [1 .. Len(s) -> QueueEntry]
    BY <1>1, <1>2
<1>4. t \in Seq(QueueEntry) /\ Len(t) = Len(s)
    BY <1>1, <1>3
<1>5. Memory!Ids(t) = Memory!ToSet(s)
    BY <1>2, Zenon DEF Memory!Ids, Memory!ToSet
<1> QED BY <1>4, <1>5

\* EnqueueBatch takes the beginning of a batch.
LEMMA QueueFits ==
    ASSUME NEW b \in Seq(Memory!Every), events \in Seq(QueueEntry), MaxEvents \in Int
    PROVE  Memory!Fitting(b) \in Seq(Memory!Every) /\
              Memory!ToSet(Memory!Fitting(b)) \subseteq Memory!Every
<1>1. Memory!Room \in Nat
    BY DEF Memory!Room
<1>2. Len(b) \in Nat /\ (IF Len(b) < Memory!Room THEN Len(b) ELSE Memory!Room) \in 0 .. Len(b)
    BY <1>1
<1>3. Memory!Fitting(b) \in Seq(Memory!Every)
    BY <1>2 DEF Memory!Fitting
<1>4. \A i \in DOMAIN Memory!Fitting(b) : Memory!Fitting(b)[i] \in Memory!Every
    BY <1>3
<1> QED BY <1>3, <1>4 DEF Memory!ToSet

\* An entry with an attempt left stays one when it is counted.
LEMMA QueueTried ==
    ASSUME NEW e \in QueueEntry, MaxAttempts \in Nat \ {0}, e.attempts + 1 < MaxAttempts
    PROVE  /\ [e EXCEPT !.attempts = @ + 1] \in QueueEntry
           /\ [e EXCEPT !.attempts = @ + 1].id = e.id
BY DEF QueueEntry

\* The events that are tried again are of those in hand, and have an attempt left.
LEMMA QueueRetriedFacts ==
    ASSUME NEW s \in Seq(QueueEntry), NEW kept \in Memory!Retried(s), MaxAttempts \in Nat \ {0}
    PROVE  /\ kept \in Seq(QueueEntry) /\ Memory!Raised(kept) \in Seq(QueueEntry)
           /\ Len(Memory!Raised(kept)) = Len(kept)
           /\ Memory!Ids(Memory!Raised(kept)) = Memory!Ids(kept)
           /\ Memory!Ids(kept) \subseteq Memory!Ids(s)
<1> DEFINE again == {i \in DOMAIN s : Memory!Again(s[i])}
<1>1. Len(s) \in Nat /\ DOMAIN s = 1 .. Len(s)
    OBVIOUS
<1>2. PICK n \in 0 .. Len(s) : \E f \in [1 .. n -> again] : kept = [k \in DOMAIN f |-> s[f[k]]]
  <2>1. PICK f \in UNION {[1 .. n -> again] : n \in 0 .. Len(s)} :
           kept = [k \in DOMAIN f |-> s[f[k]]]
    BY Zenon DEF Memory!Retried
  <2> QED BY <2>1, Zenon
<1>3. PICK f \in [1 .. n -> again] : kept = [k \in DOMAIN f |-> s[f[k]]]
    BY <1>2, Zenon
<1>4. DOMAIN f = 1 .. n /\ \A k \in 1 .. n : /\ f[k] \in DOMAIN s /\ Memory!Again(s[f[k]])
                                            /\ kept[k] = s[f[k]] /\ s[f[k]] \in QueueEntry
  <2>1. DOMAIN f = 1 .. n /\ \A k \in 1 .. n : f[k] \in again
    BY <1>3
  <2>2. \A i \in again : i \in DOMAIN s /\ Memory!Again(s[i]) /\ s[i] \in QueueEntry
    BY <1>1
  <2>3. \A k \in 1 .. n : kept[k] = s[f[k]]
    BY <1>3, <2>1, Zenon
  <2> QED BY <2>1, <2>2, <2>3, Zenon
<1>5. kept \in [1 .. n -> QueueEntry]
    BY <1>3, <1>4, Zenon
<1>6. kept \in Seq(QueueEntry) /\ Len(kept) = n /\ DOMAIN kept = 1 .. n /\ n \in Nat
    BY <1>1, <1>5
<1>7. \A k \in 1 .. n : Memory!Raised(kept)[k] \in QueueEntry /\
         Memory!Raised(kept)[k].id = kept[k].id
  <2> TAKE k \in 1 .. n
  <2>1. Memory!Raised(kept)[k] = [kept[k] EXCEPT !.attempts = @ + 1]
    BY <1>6 DEF Memory!Raised
  <2>2. kept[k] \in QueueEntry /\ kept[k].attempts + 1 < MaxAttempts
    BY <1>4 DEF Memory!Again
  <2> QED BY <2>1, <2>2, QueueTried
<1>8. Memory!Raised(kept) \in [1 .. n -> QueueEntry] /\ DOMAIN Memory!Raised(kept) = 1 .. n
    BY <1>6, <1>7 DEF Memory!Raised
<1>9. Memory!Raised(kept) \in Seq(QueueEntry) /\ Len(Memory!Raised(kept)) = n
    BY <1>6, <1>8
<1>10. Memory!Ids(Memory!Raised(kept)) = Memory!Ids(kept)
    BY <1>6, <1>7, <1>8, Zenon DEF Memory!Ids
<1>11. Memory!Ids(kept) \subseteq Memory!Ids(s)
  <2>1. \A k \in DOMAIN kept : kept[k].id \in Memory!Ids(s)
    BY <1>4, <1>6, Zenon DEF Memory!Ids
  <2> QED BY <2>1 DEF Memory!Ids
<1> QED BY <1>6, <1>9, <1>10, <1>11

-----------------------------------------------------------------------------
\* What the file keeps, and what a rotation replaced.
QueueStored == Memory!OnDisk \cup overwritten

\* n of the events in hand are appended to a file.
LEMMA QueueExtendedFacts ==
    ASSUME NEW p \in Memory!Procs, hand \in [Memory!Procs -> Seq(QueueEntry)],
           NEW n \in 0 .. Len(hand[p]),
           NEW d \in [file : {"open", "closed"}, current : Seq(Memory!Every), rotated :
           Seq(Memory!Every),
                      pos : Nat]
    PROVE  /\ Memory!Extended(d, p, n) \in [file : {"open", "closed"}, current : Seq(Memory!Every),
                                     rotated : Seq(Memory!Every), pos : Nat]
           /\ Memory!ToSet(d.current) \subseteq Memory!ToSet(Memory!Extended(d, p, n).current)
           /\ Memory!Extended(d, p, n).rotated = d.rotated /\ Memory!Extended(d, p, n).pos = d.pos
           /\ n = Len(hand[p]) =>
                 Memory!Ids(hand[p]) \subseteq Memory!ToSet(Memory!Extended(d, p, n).current)
<1> DEFINE t == [i \in 1 .. n |-> hand[p][i].id]
<1>1. hand[p] \in Seq(QueueEntry) /\ Len(hand[p]) \in Nat /\ DOMAIN hand[p] = 1 .. Len(hand[p])
    OBVIOUS
<1>2. \A i \in 1 .. n : hand[p][i] \in QueueEntry /\ hand[p][i].id \in Memory!Every
  <2> TAKE i \in 1 .. n
  <2>1. i \in 1 .. Len(hand[p])
    BY <1>1
  <2>2. hand[p][i] \in QueueEntry
    BY <1>1, <2>1
  <2> QED BY <2>2 DEF QueueEntry
<1>3. t \in [1 .. n -> Memory!Every] /\ n \in Nat
    BY <1>1, <1>2
<1>4. t \in Seq(Memory!Every) /\ DOMAIN t = 1 .. n
    BY <1>3
<1>5. n = Len(hand[p]) => Memory!Ids(hand[p]) = Memory!ToSet(t)
    BY <1>1, <1>4 DEF Memory!Ids, Memory!ToSet
<1> HIDE DEF t
<1>6. /\ d.current \o t \in Seq(Memory!Every)
      /\ Memory!ToSet(d.current \o t) = Memory!ToSet(d.current) \cup Memory!ToSet(t)
    BY <1>4, QueueCat
<1>7. Memory!Extended(d, p, n) = [d EXCEPT !.current = d.current \o t]
    BY DEF Memory!Extended, t
<1> QED BY <1>5, <1>6, <1>7

\* After a rotation nothing is gone but what was replaced.
LEMMA QueueRotatedFacts ==
    ASSUME QueueFileTypes
    PROVE  /\ Memory!Rotated \in [file : {"open", "closed"}, current : Seq(Memory!Every),
                           rotated : Seq(Memory!Every), pos : Nat]
           /\ Memory!Rotated.current = <<>> /\ Memory!Rotated.rotated = disk.current
           /\ Memory!ToSet(disk.rotated) \subseteq Memory!Every
<1>1. \A i \in DOMAIN disk.rotated : disk.rotated[i] \in Memory!Every
    BY DEF QueueFileTypes
<1> DEFINE Files == [file : {"open", "closed"}, current : Seq(Memory!Every), rotated :
    Seq(Memory!Every),
                     pos : Nat]
           a == [disk EXCEPT !.rotated = disk.current]
           b == [a EXCEPT !.current = <<>>]
<1>2. disk \in Files /\ disk.current \in Seq(Memory!Every) /\ <<>> \in Seq(Memory!Every)
    BY DEF QueueFileTypes
<1>3. a \in Files /\ a.rotated = disk.current
    BY <1>2
<1> HIDE DEF a
<1>4. b \in Files /\ b.rotated = disk.current /\ b.current = <<>>
    BY <1>2, <1>3
<1>5. Memory!Rotated = [b EXCEPT !.pos = 0]
    BY DEF Memory!Rotated, a
<1> HIDE DEF b
<1>6. Memory!Rotated \in Files /\ Memory!Rotated.current = <<>> /\
         Memory!Rotated.rotated = disk.current
    BY <1>4, <1>5
<1> QED BY <1>1, <1>6 DEF Memory!ToSet

\* A batch that was written is stored.
LEMMA QueueWritten ==
    ASSUME QueueFileTypes, hand \in [Memory!Procs -> Seq(QueueEntry)], NEW p \in Memory!Procs,
           Memory!WriteBatch(p)
    PROVE  QueueFileTypes' /\ QueueStored \cup Memory!Ids(hand[p]) \subseteq QueueStored'
<1> DEFINE Files == [file : {"open", "closed"}, current : Seq(Memory!Every), rotated :
    Seq(Memory!Every),
                     pos : Nat]
           d == IF Memory!Rotating THEN Memory!Rotated ELSE disk
           n == Len(hand[p])
           x == Memory!Extended(d, p, n)
<1>1. d \in Files
    BY QueueRotatedFacts DEF QueueFileTypes
<1>2. n \in Nat /\ n \in 0 .. Len(hand[p]) /\ n = Len(hand[p])
    OBVIOUS
<1>3. disk' = [x EXCEPT !.pos = @ + n]
    BY DEF Memory!WriteBatch
<1> HIDE DEF d, n
<1>4. /\ x \in Files /\ Memory!ToSet(d.current) \subseteq Memory!ToSet(x.current)
      /\ x.rotated = d.rotated
      /\ Memory!Ids(hand[p]) \subseteq Memory!ToSet(x.current)
  <2>1. \A m \in 0 .. Len(hand[p]) :
           /\ Memory!Extended(d, p, m) \in Files /\ Memory!Extended(d, p, m).rotated = d.rotated
           /\ Memory!ToSet(d.current) \subseteq Memory!ToSet(Memory!Extended(d, p, m).current)
           /\ m = Len(hand[p]) =>
                 Memory!Ids(hand[p]) \subseteq Memory!ToSet(Memory!Extended(d, p, m).current)
    <3> TAKE m \in 0 .. Len(hand[p])
    <3>1. hand \in [Memory!Procs -> Seq(QueueEntry)]
      OBVIOUS
    <3> HIDE DEF Files
    <3> QED BY <1>1, <3>1, QueueExtendedFacts, Zenon DEF Files
  <2> QED BY <2>1, <1>2, Zenon
<1> HIDE DEF x
<1>5. disk' \in Files /\ disk'.current = x.current /\ disk'.rotated = x.rotated
  <2>1. x.pos + n \in Nat
    BY <1>2, <1>4
  <2> QED BY <1>3, <1>4, <2>1
<1>6. CASE Memory!Rotating
  <2>1. overwritten' = overwritten \cup Memory!ToSet(disk.rotated)
    BY <1>6 DEF Memory!WriteBatch
  <2>2. d.rotated = disk.current
    BY <1>6, QueueRotatedFacts DEF d
  <2> QED BY <1>4, <1>5, <2>1, <2>2, QueueRotatedFacts, Zenon DEF QueueFileTypes, QueueStored, Memory!OnDisk
<1>7. CASE ~ Memory!Rotating
  <2>1. overwritten' = overwritten
    BY <1>7 DEF Memory!WriteBatch
  <2>2. d = disk
    BY <1>7 DEF d
  <2> QED BY <1>4, <1>5, <2>1, <2>2, Zenon DEF QueueFileTypes, QueueStored, Memory!OnDisk
<1> QED BY <1>6, <1>7

\* A write that fails takes nothing from the files, except what a rotation replaces.
LEMMA QueueWriteFailed ==
    ASSUME QueueFileTypes, hand \in [Memory!Procs -> Seq(QueueEntry)], NEW p \in Memory!Procs,
           Memory!WriteBatchFails(p),
           faults \in 0 .. MaxFaults, MaxFaults \in Nat
    PROVE  QueueFileTypes' /\ QueueStored \subseteq QueueStored' /\ faults' \in 0 .. MaxFaults
<1> DEFINE Files == [file : {"open", "closed"}, current : Seq(Memory!Every), rotated :
    Seq(Memory!Every),
                     pos : Nat]
           d == IF Memory!Rotating THEN Memory!Rotated ELSE disk
<1>1. faults' \in 0 .. MaxFaults
    BY DEF Memory!WriteBatchFails, Memory!Fault
<1>2. ASSUME NEW n \in 0 .. Len(hand[p]) - 1, disk' = Memory!Extended(d, p, n),
             overwritten' = IF Memory!Rotating THEN overwritten \cup Memory!ToSet(disk.rotated)
                            ELSE overwritten
      PROVE  QueueFileTypes' /\ QueueStored \subseteq QueueStored'
  <2>1. d \in Files
    BY QueueRotatedFacts DEF QueueFileTypes
  <2>2. n \in 0 .. Len(hand[p])
    OBVIOUS
  <2> HIDE DEF d
  <2>3. /\ disk' \in Files /\ Memory!ToSet(d.current) \subseteq Memory!ToSet(disk'.current)
        /\ disk'.rotated = d.rotated
    BY <2>1, <2>2, <1>2, QueueExtendedFacts
  <2>4. CASE Memory!Rotating
    <3>1. overwritten' = overwritten \cup Memory!ToSet(disk.rotated)
      BY <1>2, <2>4
    <3>2. d.rotated = disk.current
      BY <2>4, QueueRotatedFacts DEF d
    <3> QED BY <2>3, <3>1, <3>2, QueueRotatedFacts, Zenon DEF QueueFileTypes, QueueStored, Memory!OnDisk
  <2>5. CASE ~ Memory!Rotating
    <3>1. overwritten' = overwritten /\ d = disk
      BY <1>2, <2>5 DEF d
    <3> QED BY <2>3, <3>1, Zenon DEF QueueFileTypes, QueueStored, Memory!OnDisk
  <2> QED BY <2>4, <2>5
<1>3. ASSUME disk' \in {disk, [disk EXCEPT !.pos = 0], [disk EXCEPT !.file = "closed"]},
             overwritten' = overwritten
      PROVE  QueueFileTypes' /\ QueueStored \subseteq QueueStored'
  <2>1. disk' \in Files /\ disk'.current = disk.current /\ disk'.rotated = disk.rotated
    BY <1>3 DEF QueueFileTypes
  <2> QED BY <1>3, <2>1, Zenon DEF QueueFileTypes, QueueStored, Memory!OnDisk
<1>4. ASSUME disk' = [Memory!Rotated EXCEPT !.file = "closed", !.pos = disk.pos],
             overwritten' = overwritten \cup Memory!ToSet(disk.rotated)
      PROVE  QueueFileTypes' /\ QueueStored \subseteq QueueStored'
  <2>1. disk' \in Files /\ disk'.rotated = disk.current
    BY <1>4, QueueRotatedFacts DEF QueueFileTypes
  <2> QED BY <1>4, <2>1, QueueRotatedFacts, Zenon DEF QueueFileTypes, QueueStored, Memory!OnDisk
<1>5. ASSUME UNCHANGED <<disk, overwritten>>
      PROVE  QueueFileTypes' /\ QueueStored \subseteq QueueStored'
    BY <1>5 DEF QueueFileTypes, QueueStored, Memory!OnDisk
<1>6. QueueFileTypes' /\ QueueStored \subseteq QueueStored'
    BY <1>2, <1>3, <1>4, <1>5 DEF Memory!WriteBatchFails
<1> QED BY <1>1, <1>6

-----------------------------------------------------------------------------
\* The steps.

\* The steps that move no event: the goroutine between two flushes, time, and
\* Close before its flush.
QueueQuiet == Memory!Stopped \/ Memory!Ticked \/ Memory!Default \/ Memory!CheckSize \/
   Memory!CloseStop \/ Memory!CloseJoined
            \/ Memory!TickerFires \/ Memory!CircuitTimeout \/ UNCHANGED Memory!vars

\* The sums of EnqueuedIsKept when k events are counted elsewhere.
LEMMA QueueCounted ==
    ASSUME NEW a \in Int, NEW b \in Int, NEW c \in Int, NEW d \in Int, NEW k \in Int,
           a = b + c + d
    PROVE  a + k = b + c + (d + k) /\ a = (b + k) + c + (d - k) /\ a = b + (c + k) + (d - k)
OBVIOUS

\* The same for what waits, w, and the two hands, of which one has held h and
\* now holds k.
LEMMA QueueMoved ==
    ASSUME NEW w \in Int, NEW f \in Int, NEW c \in Int, NEW f1 \in Int, NEW c1 \in Int,
           NEW h \in Int, NEW k \in Int, f1 + c1 + h = f + c + k
    PROVE  /\ (w + f + c) - (h - k) = w + f1 + c1
           /\ k = 0 => (w + f + c) - h = w + f1 + c1 /\ (w + h) + f1 + c1 = w + f + c
OBVIOUS

\* A quiet step leaves the events where they are, and who leaves the join finds
\* the goroutine gone.
LEMMA QueueQuietStep == ASSUME QueueConstants, QueueInv, QueueQuiet PROVE QueueInv'
<1> USE DEF QueueInv, QueueQuiet
<1>1. /\ UNCHANGED <<retry, events, hand, failures, state, accepted, dropped, disk,
                     overwritten, faults>>
      /\ openTime' = openTime \/ openTime' = "past"
    BY DEF Memory!Stopped, Memory!Ticked, Memory!Default, Memory!CheckSize, Memory!CloseStop,
    Memory!CloseJoined, Memory!TickerFires,
           Memory!CircuitTimeout, Memory!vars, Memory!Rest, Memory!circuit, Memory!history
<1>2. QueueTypes'
  <2> DEFINE Well == /\ closed' \in BOOLEAN /\ stopCh' \in BOOLEAN /\ tick' \in BOOLEAN
                     /\ pc' \in [Memory!Procs -> {"select", "check", "wait", "flush", "write",
                                           "requeue", "gone", "new", "join", "failed",
                                           "done"}]
                     /\ pc'[Memory!Flusher] \in {"select", "check", "wait", "flush", "write",
                                           "requeue", "gone"}
                     /\ pc'[Memory!Closer] \in {"new", "join", "flush", "write", "requeue",
                                          "failed", "done"}
  <2>1. Memory!Flusher \in Memory!Procs /\ Memory!Closer \in Memory!Procs /\
           Memory!Flusher # Memory!Closer
    BY DEF Memory!Procs, Memory!Flusher, Memory!Closer
  <2>2. ASSUME Memory!Stopped PROVE Well
    BY <2>1, <2>2 DEF Memory!Stopped, QueueTypes, Memory!Goto
  <2>3. ASSUME Memory!Ticked PROVE Well
    BY <2>1, <2>3 DEF Memory!Ticked, QueueTypes, Memory!Goto
  <2>4. ASSUME Memory!Default PROVE Well
    BY <2>1, <2>4 DEF Memory!Default, QueueTypes, Memory!Goto
  <2>5. ASSUME Memory!CheckSize PROVE Well
    BY <2>1, <2>5 DEF Memory!CheckSize, QueueTypes, Memory!Goto
  <2>6. ASSUME Memory!CloseStop PROVE Well
    BY <2>1, <2>6 DEF Memory!CloseStop, QueueTypes, Memory!Goto
  <2>7. ASSUME Memory!CloseJoined PROVE Well
    BY <2>1, <2>7 DEF Memory!CloseJoined, QueueTypes, Memory!Goto
  <2>8. ASSUME Memory!TickerFires \/ Memory!CircuitTimeout \/ UNCHANGED Memory!vars PROVE Well
    BY <2>8 DEF Memory!TickerFires, Memory!CircuitTimeout, Memory!vars, QueueTypes
  <2>9. Well
    BY <2>2, <2>3, <2>4, <2>5, <2>6, <2>7, <2>8
  <2> QED BY <1>1, <2>9 DEF QueueTypes
<1>3. QueueFileTypes'
    BY <1>1 DEF QueueFileTypes
<1>4. QueueHands'
    BY <1>1 DEF QueueHands, QueueTypes, Memory!Stopped, Memory!Ticked, Memory!Default,
    Memory!CheckSize, Memory!CloseStop,
                Memory!CloseJoined, Memory!TickerFires, Memory!CircuitTimeout, Memory!vars,
                Memory!Rest, Memory!Goto, Memory!Procs, Memory!Flusher,
                Memory!Closer
<1>5. QueueClosing'
    BY <1>1 DEF QueueClosing, QueueTypes, Memory!Stopped, Memory!Ticked, Memory!Default,
    Memory!CheckSize, Memory!CloseStop,
                Memory!CloseJoined, Memory!TickerFires, Memory!CircuitTimeout, Memory!vars,
                Memory!Rest, Memory!Goto, Memory!Procs, Memory!Flusher,
                Memory!Closer
<1>6. Memory!EnqueuedIsKept'
    BY <1>1 DEF Memory!EnqueuedIsKept, Memory!InMemory, Memory!OnDisk
<1> QED BY <1>2, <1>3, <1>4, <1>5, <1>6

\* What Enqueue takes waits at the end, and only while the queue is open.
LEMMA QueueEnqueueStep ==
    ASSUME QueueConstants, QueueInv, NEW b \in Batches, Memory!Enqueue(b)
    PROVE  QueueInv'
<1> DEFINE taken == Memory!Fitting(b)
           fresh == [i \in DOMAIN taken |-> [id |-> taken[i], attempts |-> 0]]
<1> USE DEF QueueInv
<1>1. UNCHANGED <<retry, closed, stopCh, tick, hand, dropped, disk, overwritten, faults>>
    BY DEF Memory!Enqueue
<1>2. QueueFileTypes'
    BY <1>1 DEF QueueFileTypes
<1>3. CASE closed \/ Memory!isCircuitOpen
  <2>1. UNCHANGED <<events, pc, failures, openTime, state, accepted>>
    BY <1>3 DEF Memory!Enqueue, Memory!circuit
  <2> QED BY <1>1, <1>2, <2>1 DEF QueueTypes, QueueHands, QueueClosing, Memory!EnqueuedIsKept,
      Memory!InMemory,
                                  Memory!OnDisk
<1>4. CASE ~ (closed \/ Memory!isCircuitOpen)
  <2>1. taken \in Seq(Memory!Every) /\ Memory!ToSet(taken) \subseteq Memory!Every
    BY QueueFits DEF QueueConstants, QueueTypes
  <2>2. fresh \in Seq(QueueEntry) /\ Len(fresh) = Len(taken) /\
           Memory!Ids(fresh) = Memory!ToSet(taken)
    BY <2>1, QueueFresh DEF QueueConstants
  <2>3. /\ events' = events \o fresh /\ accepted' = accepted \cup Memory!ToSet(taken)
        /\ state' = [state EXCEPT !.enqueued = @ + Len(taken), !.inFlight = @ + Len(taken),
                                  !.circuitOpen = @ /\ openTime # "past"]
        /\ pc' \in {pc, Memory!Woken}
        /\ IF openTime = "past" THEN failures' = 0 /\ openTime' = "zero"
           ELSE failures' = failures /\ openTime' = openTime
    BY <1>4, Zenon DEF Memory!Enqueue, Memory!circuit
  <2> HIDE DEF taken, fresh
  <2>4. /\ events' \in Seq(QueueEntry) /\ Len(events') = Len(events) + Len(taken)
        /\ Memory!Ids(events') = Memory!Ids(events) \cup Memory!ToSet(taken)
    <3>1. \A s, t \in Seq(QueueEntry) : /\ s \o t \in Seq(QueueEntry)
                                        /\ Len(s \o t) = Len(s) + Len(t)
                                         /\ Memory!Ids(s \o t) = Memory!Ids(s) \cup Memory!Ids(t)
      BY QueueCat
    <3>2. events \in Seq(QueueEntry)
      BY DEF QueueTypes
    <3> QED BY <2>2, <2>3, <3>1, <3>2, Zenon
  <2>5. \A p \in Memory!Procs : pc'[p] = pc[p] \/
           (p = Memory!Flusher /\ pc[p] = "wait" /\ pc'[p] = "select")
    BY <2>3 DEF Memory!Woken, QueueTypes, Memory!Procs
  <2>6. pc' \in [Memory!Procs -> {"select", "check", "wait", "flush", "write", "requeue", "gone",
                           "new", "join", "failed", "done"}]
    BY <2>3 DEF Memory!Woken, QueueTypes, Memory!Procs
  <2>7. Memory!Flusher \in Memory!Procs /\ Memory!Closer \in Memory!Procs /\
           Memory!Flusher # Memory!Closer
    BY DEF Memory!Procs, Memory!Flusher, Memory!Closer
  <2>8. Len(taken) \in Int
    BY <2>1
  <2>9. /\ state' \in [enqueued : Int, flushed : Int, failed : Int, inFlight : Int,
                        circuitOpen : BOOLEAN]
        /\ state'.enqueued = state.enqueued + Len(taken)
        /\ state'.inFlight = state.inFlight + Len(taken)
        /\ state'.flushed = state.flushed /\ state'.failed = state.failed
        /\ openTime' = "recent" => state'.circuitOpen
    <3>1. state \in [enqueued : Int, flushed : Int, failed : Int, inFlight : Int,
                     circuitOpen : BOOLEAN]
      BY DEF QueueTypes
    <3>2. /\ state.enqueued + Len(taken) \in Int /\ state.inFlight + Len(taken) \in Int
          /\ (state.circuitOpen /\ openTime # "past") \in BOOLEAN
      BY <2>8, <3>1
    <3>3. /\ state' \in [enqueued : Int, flushed : Int, failed : Int, inFlight : Int,
                          circuitOpen : BOOLEAN]
          /\ state'.enqueued = state.enqueued + Len(taken)
          /\ state'.inFlight = state.inFlight + Len(taken)
          /\ state'.flushed = state.flushed /\ state'.failed = state.failed
      BY <2>3, <3>1, <3>2
    <3>4. openTime' # "recent"
      BY <1>4, <2>3 DEF Memory!isCircuitOpen
    <3> QED BY <3>3, <3>4
  <2>10. QueueTypes'
    BY <1>1, <2>1, <2>3, <2>4, <2>5, <2>6, <2>7, <2>9 DEF QueueTypes
  <2>11. QueueHands'
    BY <1>1, <2>5 DEF QueueHands
  <2>12. QueueClosing'
    BY <1>1, <1>4, <2>5, <2>7 DEF QueueClosing
  <2>13. Memory!EnqueuedIsKept'
    <3>1. (accepted \subseteq Memory!InMemory \cup Memory!OnDisk \cup dropped \cup overwritten)'
      BY <1>1, <2>3, <2>4, Zenon DEF Memory!EnqueuedIsKept, Memory!InMemory, Memory!OnDisk
    <3>2. (/\ state.enqueued = state.flushed + state.failed + state.inFlight
           /\ state.inFlight = Len(events) + Len(hand[Memory!Flusher]) + Len(hand[Memory!Closer]))'
      <4>1. /\ Len(events) \in Int /\ Len(hand[Memory!Flusher]) \in Int
            /\ Len(hand[Memory!Closer]) \in Int
        BY <2>7 DEF QueueTypes
      <4>2. /\ state.enqueued \in Int /\ state.flushed \in Int /\ state.failed \in Int
            /\ state.inFlight \in Int
            /\ state.enqueued = state.flushed + state.failed + state.inFlight
        BY DEF Memory!EnqueuedIsKept, QueueTypes
      <4>7. state.inFlight = Len(events) + Len(hand[Memory!Flusher]) + Len(hand[Memory!Closer])
        BY DEF Memory!EnqueuedIsKept
      <4>3. hand' = hand /\ Len(events') = Len(events) + Len(taken)
        BY <1>1, <2>4
      <4>4. /\ Len(hand'[Memory!Flusher]) = Len(hand[Memory!Flusher])
            /\ Len(hand'[Memory!Closer]) = Len(hand[Memory!Closer])
        BY <4>3
      <4>5. state'.enqueued = state'.flushed + state'.failed + state'.inFlight
        <5>1. PICK k \in Int : k = Len(taken)
          BY <2>8, Zenon
        <5>2. state.enqueued + k = state.flushed + state.failed + (state.inFlight + k)
          BY <4>2, QueueCounted
        <5> QED BY <2>9, <5>1, <5>2, Zenon
      <4>6. state'.inFlight = Len(events') + Len(hand'[Memory!Flusher]) + Len(hand'[Memory!Closer])
        BY <1>1, <2>4, <2>7, <2>8, <2>9, <4>2, <4>3, <4>4, <4>7 DEF QueueTypes
      <4> QED BY <4>5, <4>6
    <3> QED BY <2>9, <3>1, <3>2 DEF Memory!EnqueuedIsKept
  <2> QED BY <1>2, <2>10, <2>11, <2>12, <2>13
<1> QED BY <1>3, <1>4

\* A flush takes everything that waits.
LEMMA QueueTakeStep ==
    ASSUME QueueConstants, QueueInv, NEW p \in Memory!Procs, Memory!Take(p)
    PROVE  QueueInv'
<1> USE DEF QueueInv
<1>1. /\ UNCHANGED <<retry, closed, stopCh, tick, failures, openTime, state, accepted,
                     dropped, disk, overwritten, faults>>
      /\ pc[p] = "flush" /\ hand' = [hand EXCEPT ![p] = events] /\ events' = <<>>
      /\ pc' = [pc EXCEPT ![p] = IF events = <<>> THEN Memory!After(p) ELSE "write"]
    BY DEF Memory!Take, Memory!circuit, Memory!history, Memory!Goto
<1>2. Memory!Flusher \in Memory!Procs /\ Memory!Closer \in Memory!Procs /\
         Memory!Flusher # Memory!Closer
    BY DEF Memory!Procs, Memory!Flusher, Memory!Closer
<1>3. hand[p] = <<>>
    BY <1>1 DEF QueueHands
<1>4. QueueTypes'
  <2>1. events' \in Seq(QueueEntry) /\ hand' \in [Memory!Procs -> Seq(QueueEntry)]
    BY <1>1 DEF QueueTypes
  <2> QED BY <1>1, <1>2, <2>1 DEF QueueTypes, Memory!After, Memory!Procs
<1>5. QueueFileTypes'
    BY <1>1 DEF QueueFileTypes
<1>6. QueueHands'
    BY <1>1 DEF QueueHands, QueueTypes, Memory!After
<1>7. QueueClosing'
    BY <1>1, <1>2 DEF QueueClosing, QueueTypes, Memory!After, Memory!Procs
<1>8. Memory!EnqueuedIsKept'
  <2>1. Memory!Ids(events') = {} /\ Len(events') = 0 /\ Memory!Ids(hand[p]) = {} /\ Len(hand[p]) = 0
    BY <1>1, <1>3, QueueEmpty
  <2>2. Memory!InMemory' = Memory!InMemory
    BY <1>1, <1>2, <2>1 DEF Memory!InMemory, QueueTypes, Memory!Procs
  <2>3. Len(events) \in Int /\ Len(hand[Memory!Flusher]) \in Int /\ Len(hand[Memory!Closer]) \in Int
    BY <1>2 DEF QueueTypes
  <2>4. Len(events') + Len(hand'[Memory!Flusher]) + Len(hand'[Memory!Closer])
           = Len(events) + Len(hand[Memory!Flusher]) + Len(hand[Memory!Closer])
    <3>1. CASE p = Memory!Flusher
      <4>1. hand'[Memory!Flusher] = events /\ hand'[Memory!Closer] = hand[Memory!Closer]
        BY <1>1, <1>2, <3>1 DEF QueueTypes
      <4>2. Len(hand'[Memory!Flusher]) = Len(events) /\
               Len(hand'[Memory!Closer]) = Len(hand[Memory!Closer])
        BY <4>1
      <4>3. Len(hand[Memory!Flusher]) = 0
        BY <2>1, <3>1
      <4> QED BY <2>1, <2>3, <4>2, <4>3
    <3>2. CASE p = Memory!Closer
      <4>1. hand'[Memory!Closer] = events /\ hand'[Memory!Flusher] = hand[Memory!Flusher]
        BY <1>1, <1>2, <3>2 DEF QueueTypes
      <4>2. Len(hand'[Memory!Closer]) = Len(events) /\
               Len(hand'[Memory!Flusher]) = Len(hand[Memory!Flusher])
        BY <4>1
      <4>3. Len(hand[Memory!Closer]) = 0
        BY <2>1, <3>2
      <4> QED BY <2>1, <2>3, <4>2, <4>3
    <3> QED BY <3>1, <3>2 DEF Memory!Procs
  <2> QED BY <1>1, <2>2, <2>4 DEF Memory!EnqueuedIsKept, Memory!OnDisk
<1> QED BY <1>4, <1>5, <1>6, <1>7, <1>8

\* A hand that is emptied, or changed to s, leaves the other as it is.
LEMMA QueueHandChange ==
    ASSUME QueueTypes, NEW p \in Memory!Procs, NEW s \in Seq(QueueEntry),
           hand' = [hand EXCEPT ![p] = s]
    PROVE  /\ hand' \in [Memory!Procs -> Seq(QueueEntry)] /\ hand'[p] = s
           /\ \A q \in Memory!Procs : q # p => hand'[q] = hand[q]
           /\ Len(hand'[Memory!Flusher]) + Len(hand'[Memory!Closer]) + Len(hand[p])
                 = Len(hand[Memory!Flusher]) + Len(hand[Memory!Closer]) + Len(s)
           /\ Memory!Ids(hand[Memory!Flusher]) \cup Memory!Ids(hand[Memory!Closer])
                 \subseteq Memory!Ids(hand'[Memory!Flusher]) \cup
                    Memory!Ids(hand'[Memory!Closer]) \cup Memory!Ids(hand[p])
           /\ Memory!Ids(s) \subseteq Memory!Ids(hand'[Memory!Flusher]) \cup
                 Memory!Ids(hand'[Memory!Closer])
<1>1. /\ hand' \in [Memory!Procs -> Seq(QueueEntry)] /\ hand'[p] = s
      /\ \A q \in Memory!Procs : q # p => hand'[q] = hand[q]
    BY DEF QueueTypes
<1>2. Memory!Flusher \in Memory!Procs /\ Memory!Closer \in Memory!Procs /\
         Memory!Flusher # Memory!Closer
    BY DEF Memory!Procs, Memory!Flusher, Memory!Closer
<1>3. Len(hand[Memory!Flusher]) \in Int /\ Len(hand[Memory!Closer]) \in Int /\ Len(s) \in Int
    BY <1>2 DEF QueueTypes
<1>4. CASE p = Memory!Flusher
  <2>1. hand'[Memory!Flusher] = s /\ hand'[Memory!Closer] = hand[Memory!Closer]
    BY <1>1, <1>2, <1>4
  <2>2. Len(hand'[Memory!Flusher]) = Len(s) /\ Len(hand'[Memory!Closer]) = Len(hand[Memory!Closer])
    BY <2>1
  <2>3. Len(hand'[Memory!Flusher]) + Len(hand'[Memory!Closer]) + Len(hand[p])
           = Len(hand[Memory!Flusher]) + Len(hand[Memory!Closer]) + Len(s)
    BY <1>1, <1>2, <1>4, <2>2 DEF QueueTypes
  <2> QED BY <1>1, <1>4, <2>1, <2>3
<1>5. CASE p = Memory!Closer
  <2>1. hand'[Memory!Closer] = s /\ hand'[Memory!Flusher] = hand[Memory!Flusher]
    BY <1>1, <1>2, <1>5
  <2>2. Len(hand'[Memory!Closer]) = Len(s) /\ Len(hand'[Memory!Flusher]) = Len(hand[Memory!Flusher])
    BY <2>1
  <2>3. Len(hand'[Memory!Flusher]) + Len(hand'[Memory!Closer]) + Len(hand[p])
           = Len(hand[Memory!Flusher]) + Len(hand[Memory!Closer]) + Len(s)
    BY <1>1, <1>2, <1>5, <2>2 DEF QueueTypes
  <2> QED BY <1>1, <1>5, <2>1, <2>3
<1> QED BY <1>4, <1>5 DEF Memory!Procs

\* How p leaves a flush.
LEMMA QueueLeaves ==
    ASSUME QueueTypes, NEW p \in Memory!Procs, pc[p] \in {"flush", "write", "requeue"},
           NEW s \in {Memory!After(p), Memory!AfterError(p), "requeue"}, pc' = [pc EXCEPT ![p] = s]
    PROVE  /\ pc' \in [Memory!Procs -> {"select", "check", "wait", "flush", "write", "requeue",
                                "gone", "new", "join", "failed", "done"}]
           /\ pc'[Memory!Flusher] \in {"select", "check", "wait", "flush", "write", "requeue", "gone"}
           /\ pc'[Memory!Closer] \in {"new", "join", "flush", "write", "requeue", "failed", "done"}
           /\ pc'[p] = s /\ \A q \in Memory!Procs : q # p => pc'[q] = pc[q]
BY DEF QueueTypes, Memory!Procs, Memory!After, Memory!AfterError, Memory!Flusher, Memory!Closer

\* A batch that was written leaves memory for the file.
LEMMA QueueFlushedStep ==
    ASSUME QueueConstants, QueueInv, NEW p \in Memory!Procs, Memory!Flushed(p)
    PROVE  QueueInv'
<1> USE DEF QueueInv
<1>1. /\ UNCHANGED <<retry, events, closed, stopCh, tick, accepted, dropped, openTime>>
      /\ pc[p] = "write" /\ Memory!WriteBatch(p)
      /\ failures' = IF failures > 0 THEN failures - 1 ELSE 0
      /\ hand' = [hand EXCEPT ![p] = <<>>]
      /\ state' = [state EXCEPT !.flushed = @ + Len(hand[p]), !.inFlight = @ - Len(hand[p]),
                                !.circuitOpen = Memory!StillOpen]
    BY DEF Memory!Flushed, Memory!recordSuccess, Memory!history
<1>2. PICK s \in {Memory!After(p), Memory!AfterError(p)} : pc' = [pc EXCEPT ![p] = s]
    BY DEF Memory!Flushed, Memory!Goto
<1>3. faults' \in 0 .. MaxFaults
    BY DEF Memory!Flushed, Memory!Fault, QueueTypes, QueueConstants
<1>4. QueueFileTypes' /\ QueueStored \cup Memory!Ids(hand[p]) \subseteq QueueStored'
    BY <1>1, QueueWritten DEF QueueTypes
<1>5. <<>> \in Seq(QueueEntry) /\ Len(<<>>) = 0
    OBVIOUS
<1>6. Memory!Flusher \in Memory!Procs /\ Memory!Closer \in Memory!Procs /\
         Memory!Flusher # Memory!Closer
    BY DEF Memory!Procs, Memory!Flusher, Memory!Closer
<1>7. Len(hand[p]) \in Int
    BY DEF QueueTypes
<1>8. /\ state' \in [enqueued : Int, flushed : Int, failed : Int, inFlight : Int,
                      circuitOpen : BOOLEAN]
      /\ state'.enqueued = state.enqueued /\ state'.failed = state.failed
      /\ state'.flushed = state.flushed + Len(hand[p])
      /\ state'.inFlight = state.inFlight - Len(hand[p])
      /\ state'.circuitOpen = Memory!StillOpen
  <2>1. state \in [enqueued : Int, flushed : Int, failed : Int, inFlight : Int,
                   circuitOpen : BOOLEAN]
    BY DEF QueueTypes
  <2>2. /\ state.flushed + Len(hand[p]) \in Int /\ state.inFlight - Len(hand[p]) \in Int
        /\ Memory!StillOpen \in BOOLEAN
    BY <1>7, <2>1 DEF Memory!StillOpen
  <2> QED BY <1>1, <2>1, <2>2
<1>9. QueueTypes'
  <2>1. failures' \in Nat
    BY <1>1 DEF QueueTypes
  <2>2. hand' \in [Memory!Procs -> Seq(QueueEntry)]
    BY <1>1, <1>5, QueueHandChange
  <2> QED BY <1>1, <1>2, <1>3, <1>8, <2>1, <2>2, QueueLeaves DEF QueueTypes
<1>10. QueueHands'
  <2>1. \A q \in Memory!Procs : q # p => pc'[q] = pc[q] /\ hand'[q] = hand[q]
    BY <1>1, <1>2 DEF QueueTypes
  <2>2. hand'[p] = <<>>
    BY <1>1 DEF QueueTypes
  <2> QED BY <2>1, <2>2 DEF QueueHands
<1>11. QueueClosing'
    BY <1>1, <1>2, <1>6 DEF QueueClosing, QueueTypes, Memory!After, Memory!AfterError, Memory!Procs
<1>12. Memory!EnqueuedIsKept'
  <2>1. Memory!InMemory \subseteq Memory!InMemory' \cup Memory!Ids(hand[p])
    BY <1>1, <1>5, QueueHandChange, Zenon DEF Memory!InMemory
  <2>2. (accepted \subseteq Memory!InMemory \cup Memory!OnDisk \cup dropped \cup overwritten)'
    BY <1>1, <1>4, <2>1 DEF Memory!EnqueuedIsKept, QueueStored
  <2>3. /\ Len(events) \in Int /\ Len(hand[Memory!Flusher]) \in Int
        /\ Len(hand[Memory!Closer]) \in Int
        /\ Len(hand'[Memory!Flusher]) \in Int /\ Len(hand'[Memory!Closer]) \in Int
    BY <1>6, <1>9 DEF QueueTypes
  <2>4. Len(hand'[Memory!Flusher]) + Len(hand'[Memory!Closer]) + Len(hand[p])
           = Len(hand[Memory!Flusher]) + Len(hand[Memory!Closer]) + Len(<<>>)
    BY <1>1, <1>5, QueueHandChange
  <2>5. /\ state.enqueued \in Int /\ state.flushed \in Int /\ state.failed \in Int
        /\ state.inFlight \in Int
        /\ state.enqueued = state.flushed + state.failed + state.inFlight
    BY DEF Memory!EnqueuedIsKept, QueueTypes
  <2>10. state.inFlight = Len(events) + Len(hand[Memory!Flusher]) + Len(hand[Memory!Closer])
    BY DEF Memory!EnqueuedIsKept
  <2>6. state'.enqueued = state'.flushed + state'.failed + state'.inFlight
    <3>1. PICK k \in Int : k = Len(hand[p])
      BY <1>7, Zenon
    <3>2. state.enqueued = (state.flushed + k) + state.failed + (state.inFlight - k)
      BY <2>5, QueueCounted
    <3> QED BY <1>8, <3>1, <3>2, Zenon
  <2>7. Len(events') = Len(events)
    BY <1>1
  <2>8. state'.inFlight = Len(events') + Len(hand'[Memory!Flusher]) + Len(hand'[Memory!Closer])
    <3>0. Len(<<>>) \in Int
      OBVIOUS
    <3>1. PICK w \in Int, f \in Int, c \in Int, f1 \in Int, c1 \in Int, h \in Int, k \in Int :
             /\ w = Len(events) /\ f = Len(hand[Memory!Flusher]) /\ c = Len(hand[Memory!Closer])
             /\ f1 = Len(hand'[Memory!Flusher]) /\ c1 = Len(hand'[Memory!Closer])
             /\ h = Len(hand[p]) /\ k = Len(<<>>)
      BY <3>0, <1>5, <1>7, <2>3, Zenon
    <3>2. f1 + c1 + h = f + c + k /\ k = 0
      BY <2>4, <3>1, QueueEmpty, Zenon
    <3>3. (w + f + c) - h = w + f1 + c1
      BY <3>2, QueueMoved
    <3> QED BY <1>8, <2>7, <2>10, <3>1, <3>3, Zenon
  <2>9. openTime' = "recent" => state'.circuitOpen
    BY <1>1, <1>8 DEF Memory!EnqueuedIsKept, Memory!StillOpen
  <2> QED BY <2>2, <2>6, <2>8, <2>9 DEF Memory!EnqueuedIsKept
<1> QED BY <1>4, <1>9, <1>10, <1>11, <1>12

\* A batch that failed stays in hand as far as it is tried again; the rest was dropped.
LEMMA QueueNotFlushedStep ==
    ASSUME QueueConstants, QueueInv, NEW p \in Memory!Procs, Memory!NotFlushed(p)
    PROVE  QueueInv'
<1> USE DEF QueueInv
<1>1. /\ UNCHANGED <<retry, events, closed, stopCh, tick, accepted>>
      /\ pc[p] = "write" /\ Memory!WriteBatchFails(p) /\ failures' = failures + 1
      /\ openTime' = IF failures + 1 >= Threshold THEN "recent" ELSE openTime
    BY DEF Memory!NotFlushed, Memory!recordFailure
<1>2. PICK kept \in Memory!Retried(hand[p]) :
         /\ state' = [state EXCEPT !.failed = @ + (Len(hand[p]) - Len(kept)),
                                   !.inFlight = @ - (Len(hand[p]) - Len(kept)),
                                   !.circuitOpen = @ \/ failures + 1 >= Threshold]
         /\ dropped' = dropped \cup (Memory!Ids(hand[p]) \ Memory!Ids(kept))
         /\ hand' = [hand EXCEPT ![p] = Memory!Raised(kept)]
         /\ pc' = [pc EXCEPT ![p] = IF kept = <<>> THEN Memory!AfterError(p) ELSE "requeue"]
    BY Zenon DEF Memory!NotFlushed, Memory!Goto
<1>3. hand[p] \in Seq(QueueEntry) /\ Len(hand[p]) \in Int /\ MaxAttempts \in Nat \ {0}
    BY DEF QueueTypes, QueueConstants
<1>4. /\ kept \in Seq(QueueEntry) /\ Memory!Raised(kept) \in Seq(QueueEntry)
      /\ Len(Memory!Raised(kept)) = Len(kept)
      /\ Memory!Ids(Memory!Raised(kept)) = Memory!Ids(kept)
      /\ Memory!Ids(kept) \subseteq Memory!Ids(hand[p])
  <2>1. \A s \in Seq(QueueEntry) : \A k \in Memory!Retried(s) :
           /\ k \in Seq(QueueEntry) /\ Memory!Raised(k) \in Seq(QueueEntry)
           /\ Len(Memory!Raised(k)) = Len(k)
           /\ Memory!Ids(Memory!Raised(k)) = Memory!Ids(k) /\ Memory!Ids(k) \subseteq Memory!Ids(s)
    BY <1>3, QueueRetriedFacts
  <2> QED BY <1>3, <2>1, Zenon
<1> DEFINE lost == Len(hand[p]) - Len(kept)
<1>6. lost \in Int /\ Len(kept) \in Int
    BY <1>3, <1>4
<1>7. QueueFileTypes' /\ QueueStored \subseteq QueueStored' /\ faults' \in 0 .. MaxFaults
    BY <1>1, QueueWriteFailed DEF QueueTypes, QueueConstants
<1>8. Memory!Flusher \in Memory!Procs /\ Memory!Closer \in Memory!Procs /\
         Memory!Flusher # Memory!Closer
    BY DEF Memory!Procs, Memory!Flusher, Memory!Closer
<1>9. /\ state' \in [enqueued : Int, flushed : Int, failed : Int, inFlight : Int,
                      circuitOpen : BOOLEAN]
      /\ state'.enqueued = state.enqueued /\ state'.flushed = state.flushed
      /\ state'.failed = state.failed + lost /\ state'.inFlight = state.inFlight - lost
      /\ state'.circuitOpen = (state.circuitOpen \/ failures + 1 >= Threshold)
  <2>1. state \in [enqueued : Int, flushed : Int, failed : Int, inFlight : Int,
                   circuitOpen : BOOLEAN]
    BY DEF QueueTypes
  <2>2. state' = [state EXCEPT !.failed = @ + lost, !.inFlight = @ - lost,
                               !.circuitOpen = @ \/ failures + 1 >= Threshold]
    BY <1>2
  <2> HIDE DEF lost
  <2>3. /\ state.failed + lost \in Int /\ state.inFlight - lost \in Int
        /\ (state.circuitOpen \/ failures + 1 >= Threshold) \in BOOLEAN
    BY <1>6, <2>1
  <2> QED BY <2>1, <2>2, <2>3
<1>10. QueueTypes'
  <2>1. failures' \in Nat /\ openTime' \in {"zero", "recent", "past"}
    BY <1>1 DEF QueueTypes
  <2>2. hand' \in [Memory!Procs -> Seq(QueueEntry)]
    BY <1>2, <1>4 DEF QueueTypes
  <2>3. dropped' \subseteq Memory!Every
    BY <1>2, <1>3, QueueIdsType DEF QueueTypes
  <2> QED BY <1>1, <1>2, <1>7, <1>9, <2>1, <2>2, <2>3, QueueLeaves DEF QueueTypes
<1>11. QueueHands'
  <2>1. \A q \in Memory!Procs : q # p => pc'[q] = pc[q] /\ hand'[q] = hand[q]
    BY <1>2 DEF QueueTypes
  <2>2. CASE kept = <<>>
    <3>1. Memory!Raised(kept) = <<>>
      BY <1>4, <2>2
    <3>2. hand'[p] = <<>>
      BY <1>2, <1>4, <3>1 DEF QueueTypes
    <3> QED BY <2>1, <3>2 DEF QueueHands
  <2>3. CASE kept # <<>>
    <3>1. pc'[p] = "requeue"
      BY <1>2, <2>3 DEF QueueTypes
    <3> QED BY <2>1, <3>1 DEF QueueHands
  <2> QED BY <2>2, <2>3
<1>12. QueueClosing'
    BY <1>1, <1>2, <1>8 DEF QueueClosing, QueueTypes, Memory!After, Memory!AfterError, Memory!Procs
<1>13. Memory!EnqueuedIsKept'
  <2>1. /\ Memory!InMemory \subseteq Memory!InMemory' \cup Memory!Ids(hand[p])
        /\ Memory!Ids(kept) \subseteq Memory!InMemory'
    BY <1>1, <1>2, <1>4, QueueHandChange DEF Memory!InMemory
  <2>2. (accepted \subseteq Memory!InMemory \cup Memory!OnDisk \cup dropped \cup overwritten)'
    BY <1>1, <1>2, <1>7, <2>1 DEF Memory!EnqueuedIsKept, QueueStored
  <2>3. /\ Len(events) \in Int /\ Len(hand[Memory!Flusher]) \in Int
        /\ Len(hand[Memory!Closer]) \in Int
        /\ Len(hand'[Memory!Flusher]) \in Int /\ Len(hand'[Memory!Closer]) \in Int
    BY <1>8, <1>10 DEF QueueTypes
  <2>4. Len(hand'[Memory!Flusher]) + Len(hand'[Memory!Closer]) + Len(hand[p])
           = Len(hand[Memory!Flusher]) + Len(hand[Memory!Closer]) + Len(Memory!Raised(kept))
    BY <1>2, <1>4, QueueHandChange
  <2>5. /\ state.enqueued \in Int /\ state.flushed \in Int /\ state.failed \in Int
        /\ state.inFlight \in Int
        /\ state.enqueued = state.flushed + state.failed + state.inFlight
    BY DEF Memory!EnqueuedIsKept, QueueTypes
  <2>10. state.inFlight = Len(events) + Len(hand[Memory!Flusher]) + Len(hand[Memory!Closer])
    BY DEF Memory!EnqueuedIsKept
  <2>6. state'.enqueued = state'.flushed + state'.failed + state'.inFlight
    <3> HIDE DEF lost
    <3>1. PICK k \in Int : k = lost
      BY <1>6, Zenon
    <3>2. state.enqueued = state.flushed + (state.failed + k) + (state.inFlight - k)
      BY <2>5, QueueCounted
    <3> QED BY <1>9, <3>1, <3>2, Zenon
  <2>7. Len(events') = Len(events)
    BY <1>1
  <2>8. state'.inFlight = Len(events') + Len(hand'[Memory!Flusher]) + Len(hand'[Memory!Closer])
    <3>1. PICK w \in Int, f \in Int, c \in Int, f1 \in Int, c1 \in Int, h \in Int, k \in Int :
             /\ w = Len(events) /\ f = Len(hand[Memory!Flusher]) /\ c = Len(hand[Memory!Closer])
             /\ f1 = Len(hand'[Memory!Flusher]) /\ c1 = Len(hand'[Memory!Closer])
             /\ h = Len(hand[p]) /\ k = Len(Memory!Raised(kept))
      BY <1>3, <1>4, <1>6, <2>3, Zenon
    <3>2. f1 + c1 + h = f + c + k
      BY <2>4, <3>1, Zenon
    <3>3. (w + f + c) - (h - k) = w + f1 + c1
      BY <3>2, QueueMoved
    <3>4. lost = h - k
      BY <1>4, <3>1, Zenon
    <3> HIDE DEF lost
    <3> QED BY <1>9, <2>7, <2>10, <3>1, <3>3, <3>4, Zenon
  <2>9. openTime' = "recent" => state'.circuitOpen
    BY <1>1, <1>9 DEF Memory!EnqueuedIsKept
  <2> QED BY <2>2, <2>6, <2>8, <2>9 DEF Memory!EnqueuedIsKept
<1> QED BY <1>7, <1>10, <1>11, <1>12, <1>13

\* What is tried again waits behind what came meanwhile.
LEMMA QueueRequeueStep ==
    ASSUME QueueConstants, QueueInv, NEW p \in Memory!Procs, Memory!Requeue(p)
    PROVE  QueueInv'
<1> USE DEF QueueInv
<1>1. /\ UNCHANGED <<retry, closed, stopCh, tick, failures, openTime, state, accepted,
                     dropped, disk, overwritten, faults>>
      /\ pc[p] = "requeue" /\ events' = events \o hand[p]
      /\ hand' = [hand EXCEPT ![p] = <<>>]
      /\ pc' = [Memory!Woken EXCEPT ![p] = Memory!AfterError(p)]
    BY DEF Memory!Requeue, Memory!Requeued, Memory!circuit, Memory!history
<1>2. Memory!Flusher \in Memory!Procs /\ Memory!Closer \in Memory!Procs /\
         Memory!Flusher # Memory!Closer
    BY DEF Memory!Procs, Memory!Flusher, Memory!Closer
<1>3. events \in Seq(QueueEntry) /\ hand[p] \in Seq(QueueEntry) /\ <<>> \in Seq(QueueEntry) /\
         Len(<<>>) = 0
    BY DEF QueueTypes
<1>4. /\ events' \in Seq(QueueEntry) /\ Len(events') = Len(events) + Len(hand[p])
      /\ Memory!Ids(events') = Memory!Ids(events) \cup Memory!Ids(hand[p])
  <2>1. \A s, t \in Seq(QueueEntry) : /\ s \o t \in Seq(QueueEntry) /\ Len(s \o t) = Len(s) + Len(t)
                                       /\ Memory!Ids(s \o t) = Memory!Ids(s) \cup Memory!Ids(t)
    BY QueueCat
  <2> QED BY <1>1, <1>3, <2>1, Zenon
<1>5. /\ pc' \in [Memory!Procs -> {"select", "check", "wait", "flush", "write", "requeue",
                            "gone", "new", "join", "failed", "done"}]
      /\ pc'[p] = Memory!AfterError(p)
      /\ \A q \in Memory!Procs : q # p => pc'[q] = pc[q] \/ (pc[q] = "wait" /\ pc'[q] = "select")
    BY <1>1 DEF Memory!Woken, Memory!AfterError, QueueTypes, Memory!Procs
<1>6. QueueFileTypes'
    BY <1>1 DEF QueueFileTypes
<1>7. QueueTypes'
  <2>1. hand' \in [Memory!Procs -> Seq(QueueEntry)]
    BY <1>1 DEF QueueTypes
  <2>2. /\ pc'[Memory!Flusher] \in {"select", "check", "wait", "flush", "write", "requeue", "gone"}
        /\ pc'[Memory!Closer] \in {"new", "join", "flush", "write", "requeue", "failed", "done"}
    BY <1>2, <1>5 DEF QueueTypes, Memory!AfterError, Memory!Procs
  <2> QED BY <1>1, <1>4, <1>5, <2>1, <2>2 DEF QueueTypes
<1>8. QueueHands'
  <2>1. hand'[p] = <<>> /\ \A q \in Memory!Procs : q # p => hand'[q] = hand[q]
    BY <1>1 DEF QueueTypes
  <2> QED BY <1>5, <2>1 DEF QueueHands
<1>9. QueueClosing'
    BY <1>1, <1>2, <1>5 DEF QueueClosing, QueueTypes, Memory!AfterError, Memory!Procs
<1>10. Memory!EnqueuedIsKept'
  <2>1. Memory!InMemory \subseteq Memory!InMemory'
    BY <1>1, <1>3, <1>4, QueueHandChange DEF Memory!InMemory
  <2>2. (accepted \subseteq Memory!InMemory \cup Memory!OnDisk \cup dropped \cup overwritten)'
    BY <1>1, <2>1 DEF Memory!EnqueuedIsKept, Memory!OnDisk
  <2>3. /\ Len(events) \in Int /\ Len(hand[Memory!Flusher]) \in Int
        /\ Len(hand[Memory!Closer]) \in Int
        /\ Len(hand'[Memory!Flusher]) \in Int /\ Len(hand'[Memory!Closer]) \in Int
    BY <1>2, <1>7 DEF QueueTypes
  <2>4. Len(hand'[Memory!Flusher]) + Len(hand'[Memory!Closer]) + Len(hand[p])
           = Len(hand[Memory!Flusher]) + Len(hand[Memory!Closer]) + Len(<<>>)
    BY <1>1, <1>3, QueueHandChange
  <2>5. Len(hand[p]) \in Int
    BY <1>3
  <2>6. Len(events') + Len(hand'[Memory!Flusher]) + Len(hand'[Memory!Closer])
           = Len(events) + Len(hand[Memory!Flusher]) + Len(hand[Memory!Closer])
    <3>0. Len(<<>>) \in Int
      OBVIOUS
    <3>1. PICK w \in Int, f \in Int, c \in Int, f1 \in Int, c1 \in Int, h \in Int, k \in Int :
             /\ w = Len(events) /\ f = Len(hand[Memory!Flusher]) /\ c = Len(hand[Memory!Closer])
             /\ f1 = Len(hand'[Memory!Flusher]) /\ c1 = Len(hand'[Memory!Closer])
             /\ h = Len(hand[p]) /\ k = Len(<<>>)
      BY <3>0, <1>3, <2>3, <2>5, Zenon
    <3>2. f1 + c1 + h = f + c + k /\ k = 0
      BY <2>4, <3>1, QueueEmpty, Zenon
    <3>3. (w + h) + f1 + c1 = w + f + c
      BY <3>2, QueueMoved
    <3> QED BY <1>4, <3>1, <3>3, Zenon
  <2> QED BY <1>1, <2>2, <2>6 DEF Memory!EnqueuedIsKept
<1> QED BY <1>4, <1>6, <1>7, <1>8, <1>9, <1>10

\* The queue starts empty, its files too.
LEMMA QueueInit == ASSUME QueueConstants, Memory!Init PROVE QueueInv
<1>1. <<>> \in Seq(QueueEntry) /\ <<>> \in Seq(Memory!Every) /\ Len(<<>>) = 0
    OBVIOUS
<1>2. Memory!Flusher \in Memory!Procs /\ Memory!Closer \in Memory!Procs /\
         Memory!Flusher # Memory!Closer
    BY DEF Memory!Procs, Memory!Flusher, Memory!Closer
<1>3. QueueTypes
  <2>1. retry \in BOOLEAN /\ 0 \in 0 .. MaxFaults
    BY DEF Memory!Init, QueueConstants
  <2>2. hand = [p \in Memory!Procs |-> <<>>] /\
           pc = [p \in Memory!Procs |-> IF p = Memory!Flusher THEN "select" ELSE "new"]
    BY DEF Memory!Init
  <2>3. /\ hand \in [Memory!Procs -> Seq(QueueEntry)]
        /\ pc \in [Memory!Procs -> {"select", "check", "wait", "flush", "write", "requeue", "gone",
                             "new", "join", "failed", "done"}]
        /\ pc[Memory!Flusher] = "select" /\ pc[Memory!Closer] = "new"
    BY <1>1, <1>2, <2>2
  <2>4. state \in [enqueued : Int, flushed : Int, failed : Int, inFlight : Int,
                   circuitOpen : BOOLEAN]
    BY DEF Memory!Init
  <2> QED BY <1>1, <2>1, <2>3, <2>4 DEF Memory!Init, QueueTypes
<1>4. QueueFileTypes
    BY <1>1 DEF Memory!Init, QueueFileTypes
<1>5. QueueHands /\ QueueClosing
    BY <1>2 DEF Memory!Init, QueueHands, QueueClosing, Memory!Procs
<1>6. Memory!EnqueuedIsKept
    BY <1>1, <1>2 DEF Memory!Init, Memory!EnqueuedIsKept
<1> QED BY <1>3, <1>4, <1>5, <1>6 DEF QueueInv

\* Every step keeps the invariant.
LEMMA QueueStep == ASSUME QueueConstants, QueueInv, [Memory!Next]_Memory!vars PROVE QueueInv'
<1>1. Memory!Flusher \in Memory!Procs /\ Memory!Closer \in Memory!Procs
    BY DEF Memory!Procs
<1>2. CASE QueueQuiet
    BY <1>2, QueueQuietStep
<1>3. ASSUME NEW b \in Batches, Memory!Enqueue(b) PROVE QueueInv'
    BY <1>3, QueueEnqueueStep
<1>4. ASSUME NEW p \in Memory!Procs,
             Memory!Take(p) \/ Memory!Flushed(p) \/ Memory!NotFlushed(p) \/ Memory!Requeue(p)
      PROVE  QueueInv'
    BY <1>4, QueueTakeStep, QueueFlushedStep, QueueNotFlushedStep, QueueRequeueStep
<1> QED BY <1>1, <1>2, <1>3, <1>4 DEF Memory!Next, Memory!FlusherStep, Memory!CloserStep, QueueQuiet

\* What the invariant says of types, and of a Close that has returned nil: then
\* nothing is in memory.
LEMMA QueueImplies == ASSUME QueueConstants, QueueInv PROVE Memory!TypeOK /\
   Memory!EnqueuedIsKept /\ Memory!CloseFlushes
<1> USE DEF QueueInv
<1>1. Memory!TypeOK
  <2>1. \A i \in DOMAIN events : events[i].id \in Memory!Every /\
           events[i].attempts \in 0 .. MaxAttempts - 1
    <3> TAKE i \in DOMAIN events
    <3>1. events[i] \in QueueEntry
      BY DEF QueueTypes
    <3> QED BY <3>1 DEF QueueEntry
  <2>2. disk.file \in {"open", "closed"} /\ disk.pos \in Nat /\ overwritten \subseteq Memory!Every
    BY DEF QueueFileTypes
  <2> QED BY <2>1, <2>2 DEF Memory!TypeOK, QueueTypes
<1>2. Memory!CloseFlushes
  <2> SUFFICES ASSUME pc[Memory!Closer] = "done"
               PROVE  accepted \subseteq Memory!OnDisk \cup overwritten \cup dropped
    BY DEF Memory!CloseFlushes
  <2>1. events = <<>> /\ pc[Memory!Flusher] = "gone"
    BY DEF QueueClosing
  <2>2. hand[Memory!Flusher] = <<>> /\ hand[Memory!Closer] = <<>>
    BY <2>1 DEF QueueHands, Memory!Procs
  <2>3. Memory!InMemory = {}
    BY <2>1, <2>2, QueueEmpty DEF Memory!InMemory
  <2> QED BY <2>3 DEF Memory!EnqueuedIsKept
<1> QED BY <1>1, <1>2

\* What Enqueue took waits, is in a flush, is on disk, was counted as failed
\* after its last attempt or was in a file that a rotation replaced; the counters
\* add up, and the circuit that refuses is reported as open; after a Close that
\* returned nil nothing of it is left in memory.
THEOREM QueueKeeps == QueueConstants =>
   (Memory!Spec => [](Memory!TypeOK /\ Memory!EnqueuedIsKept /\ Memory!CloseFlushes))
<1> SUFFICES ASSUME QueueConstants
             PROVE Memory!Spec => [](Memory!TypeOK /\ Memory!EnqueuedIsKept /\ Memory!CloseFlushes)
    OBVIOUS
<1>1. Memory!Init => QueueInv
    BY QueueInit
<1>2. QueueInv /\ [Memory!Next]_Memory!vars => QueueInv'
    BY QueueStep
<1>3. QueueInv => Memory!TypeOK /\ Memory!EnqueuedIsKept /\ Memory!CloseFlushes
    BY QueueImplies
<1> QED BY <1>1, <1>2, <1>3, PTL DEF Memory!Spec

=============================================================================
