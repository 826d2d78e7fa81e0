------------------------------- MODULE Bridge -------------------------------
(***************************************************************************)
(* The collector hands what it accepted to Cortex,                         *)
(* cmd/loza-collector/cortex_bridge.go.  In mode "async" Deliver puts the  *)
(* events on a bounded queue, without waiting, and one goroutine sends     *)
(* them in batches; in mode "sync" Deliver sends them itself.  A failed    *)
(* batch is let go: the bridge is best effort and never holds up a client. *)
(* The Cortex service is external.                                         *)
(***************************************************************************)
EXTENDS Integers, Sequences, Functions

CONSTANTS
    Requests,       \* calls of Deliver
    Size,           \* events per call
    QueueSize, BatchSize

VARIABLES
    sync,           \* the mode
    queue, batch,
    sender,         \* the goroutine: "run", "send", "last", "gone"
    next,           \* [Requests -> the events of the call that are on the queue]
    pc,             \* [Requests -> "new", "put", "send", "ok", "error", "panicked"]
    closer,         \* "new", "wait", "done"
    sent, failed    \* events that reached Cortex; that were in a failed batch

vars == <<sync, queue, batch, sender, next, pc, closer, sent, failed>>

Event(r, i) == <<r, i>>
Events == Requests \X (1 .. Size)

Init ==
    /\ sync \in BOOLEAN
    /\ queue = <<>> /\ batch = <<>>
    /\ sender = IF sync THEN "gone" ELSE "run"
    /\ next = [r \in Requests |-> 0]
    /\ pc = [r \in Requests |-> "new"]
    /\ closer = "new"
    /\ sent = {} /\ failed = {}

\* sendBatch, for a batch S: it gets there as a whole or not at all.
Send(S) ==
    \/ sent' = sent \cup S /\ UNCHANGED failed
    \/ failed' = failed \cup S /\ UNCHANGED sent

-----------------------------------------------------------------------------
Deliver(r) ==
    /\ pc[r] = "new"
    /\ pc' = [pc EXCEPT ![r] = IF sync THEN "send" ELSE "put"]
    /\ UNCHANGED <<sync, queue, batch, sender, next, closer, sent, failed>>

SendNow(r) ==
    /\ pc[r] = "send"
    /\ Send({Event(r, i) : i \in 1 .. Size})
    /\ pc' = [pc EXCEPT ![r] = IF sent' = sent THEN "error" ELSE "ok"]
    /\ UNCHANGED <<sync, queue, batch, sender, next, closer>>

\* One event; when the queue is full, this one and the rest are refused, and
\* what is on the queue stays there.  A send on the closed queue panics, which
\* ends the request and not the process.
Put(r) ==
    /\ pc[r] = "put"
    /\ IF closer # "new"
       THEN pc' = [pc EXCEPT ![r] = "panicked"] /\ UNCHANGED <<queue, next>>
       ELSE IF Len(queue) < QueueSize
       THEN /\ queue' = Append(queue, Event(r, next[r] + 1))
            /\ next' = [next EXCEPT ![r] = @ + 1]
            /\ pc' = [pc EXCEPT ![r] = IF next[r] + 1 = Size THEN "ok" ELSE "put"]
       ELSE pc' = [pc EXCEPT ![r] = "error"] /\ UNCHANGED <<queue, next>>
    /\ UNCHANGED <<sync, batch, sender, closer, sent, failed>>

\* run takes an event.
Take ==
    /\ sender = "run" /\ queue # <<>>
    /\ queue' = Tail(queue)
    /\ batch' = Append(batch, Head(queue))
    /\ sender' = IF Len(batch) + 1 >= BatchSize THEN "send" ELSE "run"
    /\ UNCHANGED <<sync, next, pc, closer, sent, failed>>

Tick ==
    /\ sender = "run" /\ batch # <<>>
    /\ sender' = "send"
    /\ UNCHANGED <<sync, queue, batch, next, pc, closer, sent, failed>>

\* Mutant: the goroutine leaves when it sees that the queue is closed.
Drained_Leave ==
    /\ sender = "run" /\ closer = "wait" /\ queue = <<>>
    /\ sender' = "gone"
    /\ UNCHANGED <<sync, queue, batch, next, pc, closer, sent, failed>>

\* The queue is closed and empty: the last flush.
Drained ==
    /\ sender = "run" /\ closer = "wait" /\ queue = <<>>
    /\ sender' = IF batch = <<>> THEN "gone" ELSE "last"
    /\ UNCHANGED <<sync, queue, batch, next, pc, closer, sent, failed>>

Flush ==
    /\ sender \in {"send", "last"}
    /\ Send(Range(batch))
    /\ batch' = <<>>
    /\ sender' = IF sender = "send" THEN "run" ELSE "gone"
    /\ UNCHANGED <<sync, queue, next, pc, closer>>

\* Close closes the queue and waits for the goroutine.
Close ==
    /\ closer = "new"
    /\ closer' = "wait"
    /\ UNCHANGED <<sync, queue, batch, sender, next, pc, sent, failed>>

Closed ==
    /\ closer = "wait" /\ sender = "gone"
    /\ closer' = "done"
    /\ UNCHANGED <<sync, queue, batch, sender, next, pc, sent, failed>>

Next ==
    \/ \E r \in Requests : Deliver(r) \/ SendNow(r) \/ Put(r)
    \/ Take \/ Tick \/ Drained \/ Flush \/ Close \/ Closed

Spec == Init /\ [][Next]_vars

-----------------------------------------------------------------------------
TypeOK ==
    /\ sync \in BOOLEAN
    /\ {queue, batch} \subseteq Seq(Events)
    /\ Len(queue) <= QueueSize /\ Len(batch) <= BatchSize
    /\ sender \in {"run", "send", "last", "gone"}
    /\ next \in [Requests -> 0 .. Size]
    /\ pc \in [Requests -> {"new", "put", "send", "ok", "error", "panicked"}]
    /\ closer \in {"new", "wait", "done"}
    /\ sent \cup failed \subseteq Events

\* An event that Deliver took, of a call that was refused halfway too, is on its
\* way, was sent, or was in a batch that failed; once Close has returned it is
\* one of the last two, and no event was sent in two batches.
TakenIsTried ==
    LET taken == {e \in Events : e[2] <= next[e[1]]}
        underway == Range(queue) \cup Range(batch)
    IN  /\ taken \subseteq underway \cup sent \cup failed
        /\ underway \cap (sent \cup failed) = {} /\ sent \cap failed = {}
        /\ closer = "done" => underway = {}

=============================================================================
