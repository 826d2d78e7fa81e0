----------------------------- MODULE BatchSinks -----------------------------
(***************************************************************************)
(* A sink that collects events and sends them in batches.  Three kinds:    *)
(* "loki", the collector's sinks for Loki, S3 and GCS, which share one     *)
(* shape; "go", the Go SDK's HTTP batch sink; "js", the JavaScript SDK's.  *)
(* A batch is full, a timer ends, or the sink is closed; a batch that      *)
(* cannot be sent goes back to the front of the buffer.                    *)
(*                                                                         *)
(* The Loki kind sends batches concurrently and refuses events once it is  *)
(* closed; the Go kind sends one batch at a time (flushMu) and has no      *)
(* closed flag; the JavaScript kind chains its flushes (flushTail), and    *)
(* has a timer only while a write has set one.                             *)
(***************************************************************************)
EXTENDS Integers, Sequences, FiniteSets, Functions

CONSTANTS
    Events,         \* each is written once, by a caller of its own
    Kinds,
    BatchSize,
    MaxFaults       \* batches that cannot be sent

VARIABLES
    kind,
    buffer,
    pc,             \* [Procs -> where it is]
    hand,           \* [Procs -> the batch it is sending]
    line,           \* flushTail: the flushes in the order they were called
    timer,          \* flushTimer of the JavaScript kind
    closed,
    sent,           \* what the other side has, in the order it came
    appended,       \* history: the events in the order they were buffered
    before,         \* history: the events buffered when Close was called
    overlapped,     \* history: in a caller's batch while Close took the rest
    failed,         \* history: a batch was put back and no write came since
    faults

vars == <<kind, buffer, pc, hand, line, timer, closed, sent, appended, before,
          overlapped, failed, faults>>

Timer == "timer"
Closer == "closer"
Procs == Events \cup {Timer, Closer}

Init ==
    /\ kind \in Kinds
    /\ buffer = <<>>
    /\ pc = [p \in Procs |-> IF p \in Events THEN "new" ELSE "idle"]
    /\ hand = [p \in Procs |-> <<>>]
    /\ line = <<>>
    /\ timer = FALSE
    /\ closed = FALSE
    /\ sent = <<>> /\ appended = <<>>
    /\ before = {} /\ overlapped = {}
    /\ failed = FALSE
    /\ faults = 0

Goto(p, where) == pc' = [pc EXCEPT ![p] = where]

Append1(e) ==
    /\ appended' = Append(appended, e)
    /\ failed' = FALSE

-----------------------------------------------------------------------------
(* Writing.                                                                *)

Refused(e) ==
    /\ kind # "go"
    /\ pc[e] = "new" /\ closed
    /\ Goto(e, "refused")
    /\ UNCHANGED <<kind, buffer, hand, line, timer, closed, sent, appended,
                   before, overlapped, failed, faults>>

\* appendEntry takes the full batch in the same critical section.
appendEntry(e) ==
    /\ kind = "loki"
    /\ pc[e] = "new" /\ ~closed
    /\ LET all == Append(buffer, e)
       IN  IF Len(all) < BatchSize
           THEN buffer' = all /\ Goto(e, "ok") /\ UNCHANGED hand
           ELSE /\ buffer' = <<>>
                /\ hand' = [hand EXCEPT ![e] = all]
                /\ Goto(e, "send")
    /\ Append1(e)
    /\ UNCHANGED <<kind, line, timer, closed, sent, before, overlapped, faults>>

\* The Go SDK: append, and a Flush of its own when the batch is full.
WriteEvent(e) ==
    /\ kind = "go"
    /\ pc[e] = "new"
    /\ buffer' = Append(buffer, e)
    /\ Goto(e, IF Len(buffer') < BatchSize THEN "ok" ELSE "flush")
    /\ Append1(e)
    /\ UNCHANGED <<kind, hand, line, timer, closed, sent, before, overlapped, faults>>

\* The JavaScript SDK: a full batch is flushed, any other has a timer.
write(e) ==
    /\ kind = "js"
    /\ pc[e] = "new" /\ ~closed
    /\ buffer' = Append(buffer, e)
    /\ IF Len(buffer') < BatchSize
       THEN timer' = TRUE /\ Goto(e, "ok") /\ UNCHANGED line
       ELSE timer' = FALSE /\ Goto(e, "flush") /\ line' = Append(line, e)
    /\ Append1(e)
    /\ UNCHANGED <<kind, hand, closed, sent, before, overlapped, faults>>

-----------------------------------------------------------------------------
(* Flushing.                                                               *)

\* How a flush returns to the writer, the timer or Close.
Returned(p, ok) ==
    CASE p = Timer -> "idle"
      [] p = Closer -> IF ok THEN "closed" ELSE "failed"
      [] OTHER -> IF ok THEN "ok" ELSE "error"

Sending == {p \in Procs : pc[p] = "send"}

\* Mutant: a flush does not wait for the one under way.
MayFlush_Overlaps(p) == kind # "js" \/ (line # <<>> /\ Head(line) = p)

\* flushMu, and the chain of the JavaScript kind.
MayFlush(p) ==
    CASE kind = "loki" -> TRUE
      [] kind = "go" -> Sending = {}
      [] kind = "js" -> Sending = {} /\ line # <<>> /\ Head(line) = p

\* Flush takes all there is.
Take(p) ==
    /\ pc[p] = "flush" /\ MayFlush(p)
    /\ IF buffer = <<>>
       THEN Goto(p, Returned(p, TRUE)) /\ UNCHANGED hand
       ELSE Goto(p, "send") /\ hand' = [hand EXCEPT ![p] = buffer]
    /\ buffer' = <<>>
    /\ line' = IF kind = "js" THEN Tail(line) ELSE line
    /\ overlapped' = IF p = Closer THEN UNION {Range(hand[e]) : e \in Events} ELSE overlapped
    /\ UNCHANGED <<kind, timer, closed, sent, appended, before, failed, faults>>

Sent(p) ==
    /\ pc[p] = "send"
    /\ sent' = sent \o hand[p]
    /\ hand' = [hand EXCEPT ![p] = <<>>]
    /\ Goto(p, Returned(p, TRUE))
    /\ UNCHANGED <<kind, buffer, line, timer, closed, appended, before,
                   overlapped, failed, faults>>

\* Mutant: what was buffered meanwhile is overwritten.
NotSent_Overwrites(p) ==
    /\ pc[p] = "send"
    /\ faults < MaxFaults /\ faults' = faults + 1
    /\ sent' \in {sent, sent \o hand[p]}
    /\ buffer' = hand[p]
    /\ hand' = [hand EXCEPT ![p] = <<>>]
    /\ Goto(p, Returned(p, FALSE))
    /\ failed' = TRUE
    /\ UNCHANGED <<kind, line, timer, closed, appended, before, overlapped>>

\* Mutant: the batch goes to the end of the buffer.
NotSent_AtTheEnd(p) ==
    /\ pc[p] = "send"
    /\ faults < MaxFaults /\ faults' = faults + 1
    /\ sent' \in {sent, sent \o hand[p]}
    /\ buffer' = buffer \o hand[p]
    /\ hand' = [hand EXCEPT ![p] = <<>>]
    /\ Goto(p, Returned(p, FALSE))
    /\ failed' = TRUE
    /\ UNCHANGED <<kind, line, timer, closed, appended, before, overlapped>>

\* The last attempt fails: the batch goes back.  The other side may have it, the
\* answer being lost.
NotSent(p) ==
    /\ pc[p] = "send"
    /\ faults < MaxFaults /\ faults' = faults + 1
    /\ sent' \in {sent, sent \o hand[p]}
    /\ buffer' = hand[p] \o buffer
    /\ hand' = [hand EXCEPT ![p] = <<>>]
    /\ Goto(p, Returned(p, FALSE))
    /\ failed' = TRUE
    /\ UNCHANGED <<kind, line, timer, closed, appended, before, overlapped>>

\* The tick of flushLoop and loop; of an empty buffer it does nothing.
Tick ==
    /\ kind # "js"
    /\ pc[Timer] = "idle" /\ buffer # <<>>
    /\ Goto(Timer, "flush")
    /\ UNCHANGED <<kind, buffer, hand, line, timer, closed, sent, appended,
                   before, overlapped, failed, faults>>

\* The callback of scheduleFlush.
TimerFires ==
    /\ timer /\ pc[Timer] = "idle"
    /\ timer' = FALSE
    /\ line' = Append(line, Timer)
    /\ Goto(Timer, "flush")
    /\ UNCHANGED <<kind, buffer, hand, closed, sent, appended, before,
                   overlapped, failed, faults>>

\* The goroutine of the ticker sees the stop.
TickerExit ==
    /\ kind # "js" /\ closed /\ pc[Timer] = "idle"
    /\ Goto(Timer, "gone")
    /\ UNCHANGED <<kind, buffer, hand, line, timer, closed, sent, appended,
                   before, overlapped, failed, faults>>

-----------------------------------------------------------------------------
(* Close: loki waits for the ticker; the JavaScript kind drains.           *)

Close ==
    /\ pc[Closer] = "idle"
    /\ closed' = TRUE
    /\ before' = Range(appended)
    /\ timer' = FALSE
    /\ line' = IF kind = "js" THEN Append(line, Closer) ELSE line
    /\ Goto(Closer, IF kind = "loki" THEN "wait" ELSE "flush")
    /\ UNCHANGED <<kind, buffer, hand, sent, appended, overlapped, failed, faults>>

\* Mutant: Close does not wait for the ticker's goroutine.
Waited_Not ==
    /\ pc[Closer] = "wait"
    /\ Goto(Closer, "flush")
    /\ UNCHANGED <<kind, buffer, hand, line, timer, closed, sent, appended,
                   before, overlapped, failed, faults>>

\* s.wg.Wait().
Waited ==
    /\ pc[Closer] = "wait" /\ pc[Timer] = "gone"
    /\ Goto(Closer, "flush")
    /\ UNCHANGED <<kind, buffer, hand, line, timer, closed, sent, appended,
                   before, overlapped, failed, faults>>

Next ==
    \/ \E e \in Events : Refused(e) \/ appendEntry(e) \/ WriteEvent(e) \/ write(e)
    \/ \E p \in Procs : Take(p) \/ Sent(p) \/ NotSent(p)
    \/ Tick \/ TimerFires \/ TickerExit
    \/ Close \/ Waited

\* The goroutines, the event loop, the timers and the answers of the other side
\* go on.
Fairness ==
    /\ WF_vars(\E p \in Procs : Take(p))
    /\ WF_vars(\E p \in Procs : Sent(p) \/ NotSent(p))
    /\ WF_vars(Tick \/ TimerFires)

Spec == Init /\ [][Next]_vars /\ Fairness

-----------------------------------------------------------------------------
TypeOK ==
    /\ kind \in Kinds
    /\ buffer \in Seq(Events) /\ Len(buffer) <= Cardinality(Events)
    /\ pc \in [Procs -> {"new", "ok", "error", "refused", "flush", "send",
                         "idle", "gone", "wait", "closed", "failed"}]
    /\ \A p \in Procs : (hand[p] # <<>>) = (pc[p] = "send")
    /\ kind # "js" => line = <<>> /\ ~timer
    /\ Range(line) \subseteq {p \in Procs : pc[p] = "flush"}
    /\ closed \in BOOLEAN /\ failed \in BOOLEAN /\ faults \in 0 .. MaxFaults

\* An event that was buffered was sent, or waits, or is being sent, whatever
\* failed.
BufferedIsKept ==
    Range(appended) \subseteq
        Range(sent) \cup Range(buffer) \cup UNION {Range(hand[p]) : p \in Procs}

\* When Close has returned nil, the events that were buffered before it are sent;
\* not so those in a batch that another caller was sending at that moment.
CloseSends ==
    pc[Closer] = "closed" => before \subseteq Range(sent) \cup overlapped

\* Sinks that send one batch at a time send the events in the order they came,
\* failed batches and a lost answer included: of two events the first to arrive
\* is the first that was buffered.
FirstIndex(s, e) == CHOOSE i \in DOMAIN s : s[i] = e /\ \A j \in 1 .. i - 1 : s[j] # e
SendsInOrder ==
    kind # "loki" =>
        \A i, j \in DOMAIN appended :
            i < j /\ appended[j] \in Range(sent) =>
                /\ appended[i] \in Range(sent)
                /\ FirstIndex(sent, appended[i]) < FirstIndex(sent, appended[j])

\* The batch that came back waits for a write, an explicit Flush or Close: nothing
\* sets the timer of the JavaScript kind again.
Stalled == kind = "js" /\ failed /\ ~timer /\ line = <<>>

\* Nothing is left to send, but what no timer will send.
Settled ==
    \/ buffer = <<>> /\ Sending = {}
    \/ closed \/ Stalled

=============================================================================
