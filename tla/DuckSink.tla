------------------------------ MODULE DuckSink ------------------------------
(***************************************************************************)
(* The DuckDB sink of the collector, internal/sinks/duckdb/duckdb.go.      *)
(*                                                                         *)
(* Mode "buffered": WriteEvent appends to a buffer and the caller that     *)
(* fills it writes the batch; a goroutine flushes it on a ticker.  Mode    *)
(* "writer": WriteEvent sends to a channel; a goroutine collects batches   *)
(* and writes them.  A row is one call of WriteEvent; one call of Flush    *)
(* and one of Close may come at any time.                                  *)
(*                                                                         *)
(* The database is external: a batch is written as a transaction in mode   *)
(* "buffered" and statement by statement in mode "writer".                 *)
(***************************************************************************)
EXTENDS Integers, Sequences, Functions

CONSTANTS
    Rows,           \* the calls of WriteEvent
    Modes,          \* the modes to consider
    BatchSize,
    QueueSize,      \* of writerCh
    MaxFaults       \* bound on failures of the database and expired contexts

Flusher == "flush"
Closer == "close"
Ticker == "ticker"
Writer == "writer"

Callers == Rows \cup {Flusher, Closer, Ticker}
Procs == Callers \cup {Writer}

VARIABLES
    mode,
    pc,             \* control state of every process
    hand,           \* [Procs -> the batch a process holds]
    buffer,         \* mode "buffered"
    channel,        \* writerCh
    lastErr,        \* s.lastErr # nil
    flushMu,        \* who holds it
    closed,         \* s.closed; stopCh is closed in the same step of Close
    table,          \* rows of the table, in the order they were inserted
    lost,           \* history: rows of batches that failed or were let go
    unreported,     \* history: rows lost to an error that no call has returned yet
    before,         \* history: rows whose call had returned nil when Close came
    faults

vars == <<mode, pc, hand, buffer, channel, lastErr, flushMu, closed, table, lost,
          unreported, before, faults>>

None == "none"

Init ==
    /\ mode \in Modes
    /\ pc = [p \in Procs |-> CASE p = Writer -> IF mode = "writer" THEN "prepare" ELSE "gone"
                               [] p = Ticker -> IF mode = "writer" THEN "gone" ELSE "idle"
                               [] OTHER -> "new"]
    /\ hand = [p \in Procs |-> <<>>]
    /\ buffer = <<>> /\ channel = <<>>
    /\ lastErr = FALSE /\ flushMu = None /\ closed = FALSE
    /\ table = <<>> /\ lost = {} /\ unreported = {} /\ before = {}
    /\ faults = 0

Fault == faults < MaxFaults /\ faults' = faults + 1

Returned == {r \in Rows : pc[r] = "ok"}

\* A call returns; the ticker's goroutine keeps an error for the next call.
Return(p, failed) ==
    IF p = Ticker
    THEN /\ pc' = [pc EXCEPT ![p] = "idle"]
         /\ lastErr' = (lastErr \/ failed)
         /\ unreported' = unreported \cup (IF failed THEN Range(hand[p]) ELSE {})
    ELSE /\ pc' = [pc EXCEPT ![p] = IF failed THEN "error" ELSE "ok"]
         /\ UNCHANGED <<lastErr, unreported>>

-----------------------------------------------------------------------------
(* Mode "buffered".                                                        *)

\* Mutant: off by one.
Fills_Over(batch) == Len(batch) + 1 > BatchSize

\* One more row fills the batch.
Fills(batch) == Len(batch) + 1 >= BatchSize

\* The critical section of WriteEvent.  A pending error is returned, although
\* the row is in the buffer; a batch it has just taken is let go.
Buffer(r) ==
    /\ mode = "buffered" /\ r \in Rows /\ pc[r] = "new"
    /\ IF closed
       THEN Return(r, TRUE) /\ UNCHANGED <<hand, buffer, lost>>
       ELSE LET full == Fills(buffer) IN
            /\ buffer' = IF full THEN <<>> ELSE Append(buffer, r)
            /\ hand' = [hand EXCEPT ![r] = IF full /\ ~lastErr THEN Append(buffer, r) ELSE <<>>]
            /\ lost' = lost \cup (IF full /\ lastErr THEN Range(buffer) \cup {r} ELSE {})
            /\ unreported' = {}
            /\ lastErr' = FALSE
            /\ pc' = [pc EXCEPT ![r] = CASE lastErr -> "error"
                                         [] ~lastErr /\ full -> "acquire"
                                         [] OTHER -> "ok"]
    /\ UNCHANGED <<mode, channel, flushMu, closed, table, before, faults>>

\* Mutant: there is no ticker.
Flush_NoTicker(p) ==
    /\ mode = "buffered" /\ p \in {Flusher, Closer}
    /\ pc[p] = IF p = Flusher THEN "new" ELSE "join"
    /\ p = Closer => pc[Ticker] = "gone"
    /\ pc' = [pc EXCEPT ![p] = "acquire"]
    /\ UNCHANGED <<mode, hand, buffer, channel, lastErr, flushMu, closed, table,
                   lost, unreported, before, faults>>

\* Flush, called by a client, by Close when the ticker is gone, by the ticker.
Flush(p) ==
    /\ mode = "buffered" /\ p \in {Flusher, Closer, Ticker}
    /\ pc[p] = CASE p = Flusher -> "new" [] p = Closer -> "join" [] OTHER -> "idle"
    /\ p = Closer => pc[Ticker] = "gone"
    /\ p = Ticker => ~closed /\ (buffer # <<>> \/ lastErr)
    /\ pc' = [pc EXCEPT ![p] = "acquire"]
    /\ UNCHANGED <<mode, hand, buffer, channel, lastErr, flushMu, closed, table,
                   lost, unreported, before, faults>>

\* acquireFlush.  A WriteEvent whose context ends lets its batch go.
Acquire(p) ==
    /\ pc[p] = "acquire"
    /\ \/ /\ flushMu = None
          /\ flushMu' = p
          /\ pc' = [pc EXCEPT ![p] = IF p \in Rows THEN "exec" ELSE "take"]
          /\ UNCHANGED <<hand, lastErr, lost, unreported, faults>>
       \/ /\ Fault
          /\ Return(p, TRUE)
          /\ hand' = [hand EXCEPT ![p] = <<>>]
          /\ lost' = lost \cup Range(hand[p])
          /\ UNCHANGED flushMu
    /\ UNCHANGED <<mode, buffer, channel, closed, table, before>>

\* Mutant: Flush forgets the error it is about to return.
Take_NoReport(p) ==
    /\ pc[p] = "take"
    /\ buffer' = <<>>
    /\ lastErr' = FALSE
    /\ IF lastErr
       THEN /\ pc' = [pc EXCEPT ![p] = IF p = Ticker THEN "idle" ELSE "ok"]
            /\ flushMu' = None /\ lost' = lost \cup Range(buffer)
            /\ UNCHANGED hand
       ELSE /\ hand' = [hand EXCEPT ![p] = buffer]
            /\ pc' = [pc EXCEPT ![p] = "exec"]
            /\ UNCHANGED <<lost, flushMu>>
    /\ UNCHANGED <<mode, channel, closed, table, unreported, before, faults>>

\* Mutant: the buffer is copied and not cleared.
Take_Keeps(p) ==
    /\ pc[p] = "take" /\ ~lastErr
    /\ hand' = [hand EXCEPT ![p] = buffer]
    /\ pc' = [pc EXCEPT ![p] = "exec"]
    /\ UNCHANGED <<mode, buffer, channel, closed, table, before, faults, lost,
                   flushMu, lastErr, unreported>>

\* Flush takes the buffer and the pending error; with an error it returns, and
\* what was in the buffer is gone.
Take(p) ==
    /\ pc[p] = "take"
    /\ buffer' = <<>>
    /\ IF lastErr
       THEN /\ IF p = Ticker
               THEN /\ pc' = [pc EXCEPT ![p] = "idle"]
                    /\ unreported' = unreported \cup Range(buffer)
                    /\ UNCHANGED lastErr
               ELSE /\ pc' = [pc EXCEPT ![p] = "error"]
                    /\ lastErr' = FALSE
                    /\ unreported' = {}
            /\ flushMu' = None
            /\ lost' = lost \cup Range(buffer)
            /\ UNCHANGED hand
       ELSE /\ hand' = [hand EXCEPT ![p] = buffer]
            /\ pc' = [pc EXCEPT ![p] = "exec"]
            /\ UNCHANGED <<lost, flushMu, lastErr, unreported>>
    /\ UNCHANGED <<mode, channel, closed, table, before, faults>>

\* execBatch: a transaction.
Exec(p) ==
    /\ pc[p] = "exec" /\ p # Writer
    /\ \/ /\ table' = table \o hand[p]
          /\ Return(p, FALSE)
          /\ UNCHANGED <<lost, faults>>
       \/ /\ hand[p] # <<>> /\ Fault
          /\ lost' = lost \cup Range(hand[p])
          /\ Return(p, TRUE)
          /\ UNCHANGED table
    /\ hand' = [hand EXCEPT ![p] = <<>>]
    /\ flushMu' = None
    /\ UNCHANGED <<mode, buffer, channel, closed, before>>

\* periodicFlush sees stopCh.
TickerExit ==
    /\ pc[Ticker] = "idle" /\ closed
    /\ pc' = [pc EXCEPT ![Ticker] = "gone"]
    /\ UNCHANGED <<mode, hand, buffer, channel, lastErr, flushMu, closed, table,
                   lost, unreported, before, faults>>

-----------------------------------------------------------------------------
(* Mode "writer".                                                          *)

\* WriteEvent looks whether the sink is closed and takes the pending error;
\* with an error the row is not sent.
Look(r) ==
    /\ mode = "writer" /\ r \in Rows /\ pc[r] = "new"
    /\ pc' = [pc EXCEPT ![r] = IF closed \/ lastErr THEN "error" ELSE "send"]
    /\ lastErr' = (closed /\ lastErr)
    /\ unreported' = IF closed THEN unreported ELSE {}
    /\ UNCHANGED <<mode, hand, buffer, channel, flushMu, closed, table, lost,
                   before, faults>>

\* It sends the row, unless the sink is stopped or its context ends; when both
\* are possible select takes either.
Send(r) ==
    /\ pc[r] = "send"
    /\ \/ /\ Len(channel) < QueueSize
          /\ channel' = Append(channel, r)
          /\ pc' = [pc EXCEPT ![r] = "ok"]
          /\ UNCHANGED faults
       \/ /\ (closed /\ UNCHANGED faults) \/ Fault
          /\ pc' = [pc EXCEPT ![r] = "error"]
          /\ UNCHANGED channel
    /\ UNCHANGED <<mode, hand, buffer, lastErr, flushMu, closed, table, lost,
                   unreported, before>>

\* The goroutine prepares its statement; if it cannot it is gone for good.
Prepare ==
    /\ pc[Writer] = "prepare"
    /\ \/ pc' = [pc EXCEPT ![Writer] = "collect"] /\ UNCHANGED <<lastErr, faults>>
       \/ /\ Fault
          /\ pc' = [pc EXCEPT ![Writer] = "dead"]
          /\ lastErr' = TRUE
    /\ UNCHANGED <<mode, hand, buffer, channel, flushMu, closed, table, lost,
                   unreported, before>>

Collect ==
    /\ pc[Writer] \in {"collect", "drain"} /\ channel # <<>>
    /\ hand' = [hand EXCEPT ![Writer] = Append(@, Head(channel))]
    /\ channel' = Tail(channel)
    /\ pc' = [pc EXCEPT ![Writer] =
                IF @ = "collect" /\ Fills(hand[Writer]) THEN "exec" ELSE @]
    /\ UNCHANGED <<mode, buffer, lastErr, flushMu, closed, table, lost, unreported,
                   before, faults>>

\* Mutant: the batch is emptied before it is written.
Tick_Cleared ==
    /\ pc[Writer] = "collect" /\ hand[Writer] # <<>>
    /\ pc' = [pc EXCEPT ![Writer] = "exec"]
    /\ hand' = [hand EXCEPT ![Writer] = <<>>]
    /\ UNCHANGED <<mode, buffer, channel, lastErr, flushMu, closed, table,
                   lost, unreported, before, faults>>

\* The ticker, or a Flush: the batch, but not what is on the channel.
Tick ==
    /\ pc[Writer] = "collect" /\ hand[Writer] # <<>>
    /\ pc' = [pc EXCEPT ![Writer] = "exec"]
    /\ UNCHANGED <<mode, hand, buffer, channel, lastErr, flushMu, closed, table,
                   lost, unreported, before, faults>>

RequestFlush ==
    /\ mode = "writer" /\ pc[Flusher] = "new"
    /\ \/ /\ closed
          /\ pc' = [pc EXCEPT ![Flusher] = IF lastErr THEN "error" ELSE "ok"]
          /\ lastErr' = FALSE /\ unreported' = {}
          /\ UNCHANGED faults
       \/ /\ ~closed /\ pc[Writer] = "collect"
          /\ pc' = [pc EXCEPT ![Writer] = "exec", ![Flusher] = "wait"]
          /\ UNCHANGED <<lastErr, unreported, faults>>
       \/ /\ ~closed /\ Fault
          /\ Return(Flusher, TRUE)
    /\ UNCHANGED <<mode, hand, buffer, channel, flushMu, closed, table, lost, before>>

\* The writer sees stopCh: it takes what is on the channel and writes it.
Drain ==
    /\ pc[Writer] = "collect" /\ closed
    /\ pc' = [pc EXCEPT ![Writer] = "drain"]
    /\ UNCHANGED <<mode, hand, buffer, channel, lastErr, flushMu, closed, table,
                   lost, unreported, before, faults>>

\* Mutant: the writer leaves without looking at the channel.
Drained_Early ==
    /\ pc[Writer] = "drain"
    /\ pc' = [pc EXCEPT ![Writer] = "last"]
    /\ UNCHANGED <<mode, hand, buffer, channel, lastErr, flushMu, closed, table,
                   lost, unreported, before, faults>>

Drained ==
    /\ pc[Writer] = "drain" /\ channel = <<>>
    /\ pc' = [pc EXCEPT ![Writer] = "last"]
    /\ UNCHANGED <<mode, hand, buffer, channel, lastErr, flushMu, closed, table,
                   lost, unreported, before, faults>>

\* flushBatch.  A failure leaves the statements before it in the table, and a
\* retry inserts them again; the batch is forgotten either way.
WriteBatch ==
    /\ pc[Writer] \in {"exec", "last"}
    /\ \E k \in 0 .. Len(hand[Writer]), again, failed \in BOOLEAN :
          LET part == SubSeq(hand[Writer], 1, k) IN
          /\ IF again \/ failed THEN k < Len(hand[Writer]) /\ Fault ELSE k = 0 /\ UNCHANGED faults
          /\ table' = table \o (IF again THEN part ELSE <<>>)
                            \o (IF failed THEN part ELSE hand[Writer])
          /\ lost' = lost \cup (IF failed THEN Range(hand[Writer]) \ Range(part) ELSE {})
          /\ lastErr' = (lastErr \/ failed)
          /\ pc' = [p \in Procs |->
                        CASE p = Writer -> IF pc[Writer] = "exec" THEN "collect" ELSE "gone"
                          [] p = Flusher /\ pc[p] = "wait" -> IF failed THEN "error" ELSE "ok"
                          [] OTHER -> pc[p]]
          /\ unreported' = unreported \cup
                             (IF failed THEN Range(hand[Writer]) \ Range(part) ELSE {})
    /\ hand' = [hand EXCEPT ![Writer] = <<>>]
    /\ UNCHANGED <<mode, buffer, channel, flushMu, closed, before>>

-----------------------------------------------------------------------------
\* Close marks the sink closed, waits for the goroutine and flushes.
Close ==
    /\ pc[Closer] = "new"
    /\ closed' = TRUE
    /\ before' = Returned
    /\ pc' = [pc EXCEPT ![Closer] = "join"]
    /\ UNCHANGED <<mode, hand, buffer, channel, lastErr, flushMu, table, lost,
                   unreported, faults>>

\* In mode "writer" its Flush finds the sink closed.
CloseReturns ==
    /\ mode = "writer" /\ pc[Closer] = "join" /\ pc[Writer] \in {"gone", "dead"}
    /\ pc' = [pc EXCEPT ![Closer] = IF lastErr THEN "error" ELSE "ok"]
    /\ lastErr' = FALSE /\ unreported' = {}
    /\ UNCHANGED <<mode, hand, buffer, channel, flushMu, closed, table, lost,
                   before, faults>>

Buffered(p) == Buffer(p) \/ Flush(p) \/ Acquire(p) \/ Take(p) \/ Exec(p)
WriterStep == Prepare \/ Collect \/ Tick \/ Drain \/ Drained \/ WriteBatch

Next ==
    \/ \E p \in Callers : Buffered(p)
    \/ TickerExit
    \/ \E r \in Rows : Look(r) \/ Send(r)
    \/ WriterStep \/ RequestFlush
    \/ Close \/ CloseReturns

Spec == Init /\ [][Next]_vars

\* The goroutines of the sink run, and a call that has begun goes on; the ticker,
\* which comes back again and again, does not keep the others from the lock.
FairSpec ==
    /\ Spec
    /\ WF_vars(WriterStep) /\ WF_vars(TickerExit) /\ WF_vars(CloseReturns)
    /\ \A p \in Callers : WF_vars(Take(p) \/ Exec(p))
    /\ WF_vars(Acquire(Ticker)) /\ SF_vars(\E p \in Callers \ {Ticker} : Acquire(p))
    /\ WF_vars(Flush(Ticker)) /\ WF_vars(Flush(Closer))
    /\ \A r \in Rows : WF_vars(Send(r))

-----------------------------------------------------------------------------
TypeOK ==
    /\ mode \in Modes
    /\ pc \in [Procs -> {"new", "ok", "error", "acquire", "take", "exec", "idle",
                         "gone", "send", "prepare", "collect", "drain", "last",
                         "wait", "join", "dead"}]
    /\ hand \in [Procs -> Seq(Rows)]
    /\ {buffer, channel, table} \subseteq Seq(Rows)
    /\ {lastErr, closed} \subseteq BOOLEAN
    /\ Len(buffer) < BatchSize /\ Len(channel) <= QueueSize
    /\ flushMu \in Callers \cup {None}
    /\ lost \cup unreported \cup before \subseteq Rows

Pending ==
    Range(buffer) \cup Range(channel) \cup UNION {Range(hand[p]) : p \in Procs}

\* A row whose WriteEvent returned nil is in the table or on its way to it,
\* unless its batch failed or was let go.
NothingVanishes == Returned \subseteq Range(table) \cup Pending \cup lost

\* A batch is not lost in silence: until a call has returned its error, the
\* error is kept for the next call, whoever takes the batch and whatever fails
\* in between.
LossIsReported == unreported # {} => lastErr

\* When Close has returned nil, the rows whose WriteEvent had returned before it
\* came are in the table, or their loss was reported, once the calls that
\* hold a batch are over; a writer that could not prepare writes nothing.
CloseStores ==
    pc[Closer] = "ok" /\ pc[Writer] = "gone" /\ (\A r \in Rows : hand[r] = <<>>)
    => before \subseteq Range(table) \cup lost

\* A row is in the table twice only in mode "writer" and after a failure.
OnlyWriterRepeats ==
    mode = "buffered" \/ faults = 0 => IsInjective(table)

\* The end of a row: in the table, or lost with its batch.  Only a row that is
\* sent while the writer goes stays on the channel, and the buffer stays when
\* the context of Close ends.
Settled(r) ==
    \/ r \in Range(table) \cup lost
    \/ pc[Writer] \in {"gone", "dead"} /\ r \in Range(channel)
    \/ pc[Closer] = "error"

AllSettled == \A r \in Returned : Settled(r)

\* Every row whose WriteEvent returned nil gets there, by the ticker or by Close
\* at the latest.
EventuallyStored == <>[]AllSettled

=============================================================================
