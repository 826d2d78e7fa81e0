------------------------------- MODULE Spool -------------------------------
(***************************************************************************)
(* The write-ahead spool of loza-collector (reliability.mode = "spool"),   *)
(* collector/cmd/loza-collector/spool.go.                                  *)
(*                                                                         *)
(* A handler appends an accepted event to the spool file and puts it on a  *)
(* bounded delivery queue, holding spoolMu across both; one worker takes   *)
(* the items off the queue, writes them to the sinks and moves the         *)
(* checkpoint (spoolProcessedPos, saved in <spool>.pos) over them.  A      *)
(* restart loads the position and replays the file from there.             *)
(*                                                                         *)
(* Offsets are byte offsets: the file is a sequence of bytes (cells) that  *)
(* know their event.  The last byte of a record is its newline, and a      *)
(* pretty-printed event has a newline of its own.  A crash is the death of *)
(* the process: what it wrote to a file is kept, what it held in memory is *)
(* gone.                                                                   *)
(***************************************************************************)
EXTENDS Integers, Sequences, FiniteSets

CONSTANTS
    Events,         \* the events clients submit, each one once
    ContentLen,     \* [Events -> length of the event without its newline]
    MultiLine,      \* the events whose JSON text spans two lines
    QueueSize,      \* delivery_queue_size: capacity of the channel
    MaxQueueBytes,  \* max_queue_bytes of the memory limiter
    MaxSpoolBytes,  \* max_spool_bytes
    MaxEventBytes,  \* max_event_bytes: buffer and token limit of the replay
    MaxCrashes,     \* bound on crashes
    MaxRestarts,    \* bound on orderly shutdowns
    MaxFaults       \* bound on failed file operations

Free   == "free"
Worker == "worker"
Replay == "replay"
NoEvent == "none"

\* No position file: loadSpoolPosition leaves the checkpoint at zero.
NoPos == -1

ASSUME EventsAssumption ==
    Events \cap {Free, Worker, Replay, NoEvent} = {}

ASSUME SizesAssumption ==
    /\ ContentLen \in [Events -> Nat \ {0, 1}]      \* at least "{}"
    /\ MultiLine \subseteq Events
    /\ \A e \in MultiLine : ContentLen[e] > 2        \* "{", a newline, "}"
    /\ QueueSize \in Nat \ {0}
    /\ MaxQueueBytes \in Nat \ {0}
    /\ MaxSpoolBytes \in Nat
    /\ MaxEventBytes \in Nat \ {0}

ASSUME BoundsAssumption ==
    /\ MaxCrashes \in Nat
    /\ MaxRestarts \in Nat
    /\ MaxFaults \in Nat

VARIABLES
    file,           \* the spool file: a sequence of cells
    posFile,        \* the position in <spool>.pos, or NoPos
    quarantined,    \* events with text in <spool>.bad.ndjson
    delivered,      \* events a sink write reported no error for
    deadLettered,   \* events in the dead-letter file
    phase,          \* life of the process
    processedPos,   \* spoolProcessedPos
    queue,          \* deliveryQueue
    queueBytes,     \* metrics.queueBytes
    deliverySpace,  \* the one-slot channel deliverySpace holds a token
    spoolMu,        \* holder of spoolMu
    epc,            \* control state of every enqueuer: handlers and replay
    eitem,          \* the item an enqueuer is enqueuing
    wpc,            \* control state of deliveryWorker
    witem,          \* the item it works on
    scan,           \* replaySpool's scanner and the descriptor's offset
    posAhead,       \* history: a position beyond the file was left on disk
    crashes, restarts, faults

durable == <<file, posFile, quarantined>>
outcome == <<delivered, deadLettered>>
channel == <<queue, queueBytes, deliverySpace>>
enqueuer == <<epc, eitem>>
worker == <<wpc, witem>>
bounds == <<crashes, restarts, faults>>
vars == <<durable, outcome, phase, processedPos, channel, spoolMu, enqueuer,
          worker, scan, posAhead, bounds>>

-----------------------------------------------------------------------------
(* Records, lines and items.                                               *)

Cell == [ev : Events, i : Nat, nl : BOOLEAN]

\* append(record, '\n'): the bytes appendSpoolLocked writes for an event.
Stored(e) ==
    [i \in 1 .. ContentLen[e] + 1 |->
        [ev |-> e, i |-> i,
         nl |-> i = ContentLen[e] + 1 \/ (e \in MultiLine /\ i = 2)]]

StoredLen(e) == ContentLen[e] + 1

Prefix(s, n) == SubSeq(s, 1, n)

\* The text of an event.  A line of the file is valid JSON iff it is the text
\* of one event: a fragment, or two records run together, is not.
Text(e) == Prefix(Stored(e), ContentLen[e])

Procs == Events \cup {Replay}

\* A spoolDelivery; the ones with skip set are those without an event.
Item == [ev : Events \cup {NoEvent}, start : Nat, end : Nat]

NoItem == [ev |-> NoEvent, start |-> 0, end |-> 0]

\* len(item.payload); a skipped line has no payload.
PayloadLen(item) == IF item.ev = NoEvent THEN 0 ELSE ContentLen[item.ev]

\* The state of a scanner that is not scanning.
NoScan == [buf |-> <<>>, eof |-> FALSE, next |-> 0, size |-> 0, off |-> 0]

Scan == [buf : Seq(Cell), eof : BOOLEAN, next : Nat, size : Nat, off : Nat]

Settled == {"new", "acked", "rejected", "aborted"}

\* An enqueuer with an item, a worker with an item.
Enqueuing(p) == epc[p] \in {"check", "space", "send"}
Working == wpc \in {"release", "process", "mark"}

\* The position a restart would load.
DurablePos == IF posFile = NoPos THEN 0 ELSE posFile

\* What a process that dies or exits leaves of its memory: nothing.  The
\* requests it was serving get no answer.
Forget ==
    /\ processedPos' = 0
    /\ queue' = <<>>
    /\ queueBytes' = 0
    /\ deliverySpace' = FALSE
    /\ spoolMu' = Free
    /\ epc' = [p \in Procs |->
                 CASE p = Replay -> "idle"
                   [] p # Replay /\ epc[p] \in Settled -> epc[p]
                   [] OTHER -> "aborted"]
    /\ eitem' = [p \in Procs |-> NoItem]
    /\ wpc' = "none"
    /\ witem' = NoItem
    /\ scan' = NoScan

-----------------------------------------------------------------------------
Init ==
    /\ file = <<>>
    /\ posFile = NoPos
    /\ quarantined = {}
    /\ delivered = {}
    /\ deadLettered = {}
    /\ phase = "down"
    /\ processedPos = 0
    /\ queue = <<>>
    /\ queueBytes = 0
    /\ deliverySpace = FALSE
    /\ spoolMu = Free
    /\ epc = [p \in Procs |-> IF p = Replay THEN "idle" ELSE "new"]
    /\ eitem = [p \in Procs |-> NoItem]
    /\ wpc = "none"
    /\ witem = NoItem
    /\ scan = NoScan
    /\ posAhead = FALSE
    /\ crashes = 0
    /\ restarts = 0
    /\ faults = 0

Fault == faults < MaxFaults /\ faults' = faults + 1

-----------------------------------------------------------------------------
(* Start: initReliability, up to the replay.                               *)

\* Load the position, make the queue, start the worker.  The file is open
\* with its offset at zero.
Start ==
    /\ phase = "down"
    /\ phase' = "replay"
    /\ processedPos' = DurablePos
    /\ wpc' = "recv"
    /\ UNCHANGED <<durable, outcome, channel, spoolMu, enqueuer, witem, scan,
                   posAhead, bounds>>

\* replaySpool with nothing beyond the checkpoint and an empty file: it
\* returns, and the checkpoint keeps the value that was loaded.
ReplayEmpty ==
    /\ phase = "replay" /\ epc[Replay] = "idle"
    /\ file = <<>>
    /\ phase' = "serve"
    /\ UNCHANGED <<durable, outcome, processedPos, channel, spoolMu, enqueuer,
                   worker, scan, posAhead, bounds>>

\* replaySpool with a checkpoint at or beyond the end of a file that is not
\* empty: truncate, then save position zero (ReplaySave).
ReplayTruncate ==
    /\ phase = "replay" /\ epc[Replay] = "idle"
    /\ file # <<>> /\ processedPos >= Len(file)
    /\ file' = <<>>
    /\ processedPos' = 0
    /\ epc' = [epc EXCEPT ![Replay] = "save"]
    /\ UNCHANGED <<posFile, quarantined, outcome, phase, channel, spoolMu,
                   eitem, worker, scan, posAhead, bounds>>

\* saveSpoolPosition in two steps, as in WorkerSaveRemove and -Rename; its
\* error is ignored.
ReplaySaveRemove ==
    /\ epc[Replay] = "save"
    /\ posFile' = NoPos
    /\ epc' = [epc EXCEPT ![Replay] = "rename"]
    /\ UNCHANGED <<file, quarantined, outcome, phase, processedPos, channel,
                   spoolMu, eitem, worker, scan, posAhead, bounds>>

ReplaySaveRename ==
    /\ epc[Replay] = "rename"
    /\ posFile' = processedPos
    /\ epc' = [epc EXCEPT ![Replay] = "idle"]
    /\ phase' = "serve"
    /\ UNCHANGED <<file, quarantined, outcome, processedPos, channel, spoolMu,
                   eitem, worker, scan, posAhead, bounds>>

\* Seek to the checkpoint and start scanning.
ReplayStart ==
    /\ phase = "replay" /\ epc[Replay] = "idle"
    /\ processedPos < Len(file)
    /\ scan' = [buf |-> <<>>, eof |-> FALSE, next |-> processedPos,
                size |-> Len(file), off |-> processedPos]
    /\ epc' = [epc EXCEPT ![Replay] = "scan"]
    /\ UNCHANGED <<durable, outcome, phase, processedPos, channel, spoolMu,
                   eitem, worker, posAhead, bounds>>

\* The newlines in the scanner's buffer.
Newlines == {i \in DOMAIN scan.buf : scan.buf[i].nl}

\* The scanner has no line and room in its buffer: it reads at the
\* descriptor's offset, which the worker moves too (WorkerMark).  A read may
\* return less than there is room for; one at the end of the file is EOF.
ReplayRead ==
    LET room == MaxEventBytes - Len(scan.buf)
        left == Len(file) - scan.off
    IN
    /\ epc[Replay] = "scan"
    /\ Newlines = {} /\ ~scan.eof /\ room > 0
    /\ \/ /\ left <= 0
          /\ scan' = [scan EXCEPT !.eof = TRUE]
       \/ \E n \in 1 .. room :
             /\ n <= left
             /\ scan' = [scan EXCEPT
                           !.buf = @ \o SubSeq(file, scan.off + 1, scan.off + n),
                           !.off = @ + n]
    /\ UNCHANGED <<durable, outcome, phase, processedPos, channel, spoolMu,
                   enqueuer, worker, posAhead, bounds>>

\* bufio.ErrTooLong: the buffer is full and holds no newline.  replaySpool
\* returns the error, initReliability logs it, and the collector serves.
ReplayTooLong ==
    /\ epc[Replay] = "scan"
    /\ Newlines = {} /\ ~scan.eof /\ Len(scan.buf) >= MaxEventBytes
    /\ scan' = NoScan
    /\ epc' = [epc EXCEPT ![Replay] = "idle"]
    /\ phase' = "serve"
    /\ UNCHANGED <<durable, outcome, processedPos, channel, spoolMu, eitem,
                   worker, posAhead, bounds>>

\* The next line of the buffer has len bytes.  The last one of a torn file has
\* no newline.
NextLine(len) ==
    \/ len + 1 \in Newlines /\ \A i \in Newlines : len < i
    \/ Newlines = {} /\ scan.eof /\ scan.buf # <<>> /\ len = Len(scan.buf)

\* Its item: an event goes to the queue; a blank line or one that is no event
\* goes there to be skipped, and the latter is quarantined first.  The end is
\* clipped to the size of the file.
TakeLine(len) ==
    LET line == Prefix(scan.buf, len)
        end  == IF scan.next + len + 1 > scan.size THEN scan.size
                ELSE scan.next + len + 1
        Hand(ev) == eitem' = [eitem EXCEPT ![Replay] =
                                [ev |-> ev, start |-> scan.next, end |-> end]]
    IN
    /\ scan' = [scan EXCEPT !.buf = SubSeq(@, len + 2, Len(@)), !.next = end]
    /\ \/ \E e \in Events : line = Text(e) /\ Hand(e) /\ UNCHANGED quarantined
       \/ /\ \A e \in Events : line # Text(e)
          /\ Hand(NoEvent)
          /\ quarantined' = quarantined \cup {line[i].ev : i \in DOMAIN line}

ReplayLine ==
    /\ epc[Replay] = "scan"
    /\ \E len \in 0 .. Len(scan.buf) : NextLine(len) /\ TakeLine(len)
    /\ epc' = [epc EXCEPT ![Replay] = "check"]
    /\ UNCHANGED <<file, posFile, outcome, phase, processedPos, channel,
                   spoolMu, worker, posAhead, bounds>>

\* Mutant: done only at the end of the file as it is now.
ReplayDone_AtFileEnd ==
    /\ epc[Replay] = "scan"
    /\ scan.eof /\ scan.buf = <<>> /\ scan.next = Len(file)
    /\ scan' = NoScan
    /\ epc' = [epc EXCEPT ![Replay] = "idle"]
    /\ phase' = "serve"
    /\ UNCHANGED <<durable, outcome, processedPos, channel, spoolMu, eitem,
                   worker, posAhead, bounds>>

\* The end of the replay: seek to the end of the file and serve.
ReplayDone ==
    /\ epc[Replay] = "scan"
    /\ scan.eof /\ scan.buf = <<>>
    /\ scan' = NoScan
    /\ epc' = [epc EXCEPT ![Replay] = "idle"]
    /\ phase' = "serve"
    /\ UNCHANGED <<durable, outcome, processedPos, channel, spoolMu, eitem,
                   worker, posAhead, bounds>>

-----------------------------------------------------------------------------
(* Append: handleIngest and appendAndEnqueueSpool.                         *)

\* A handler calls appendAndEnqueueSpool.  An event larger than the queue's
\* budget goes to the dead-letter file and is rejected, not spooled; the
\* write may fail.
Submit(e) ==
    /\ phase = "serve" /\ epc[e] = "new"
    /\ IF ContentLen[e] > MaxQueueBytes
       THEN /\ epc' = [epc EXCEPT ![e] = "rejected"]
            /\ deadLettered' \in {deadLettered, deadLettered \cup {e}}
       ELSE /\ epc' = [epc EXCEPT ![e] = "lock"]
            /\ UNCHANGED deadLettered
    /\ UNCHANGED <<durable, delivered, phase, processedPos, channel, spoolMu,
                   eitem, worker, scan, posAhead, bounds>>

\* startOffset - spoolProcessedPos, or startOffset when that is negative.
UnprocessedBytes ==
    IF Len(file) < processedPos THEN Len(file) ELSE Len(file) - processedPos

CanLock(e) == epc[e] = "lock" /\ spoolMu = Free

\* Mutant: the record's own length is forgotten.
Fits_WithoutRecord(e) == UnprocessedBytes <= MaxSpoolBytes

\* The record fits.
Fits(e) == UnprocessedBytes + StoredLen(e) <= MaxSpoolBytes

\* Take spoolMu and write the record.  The lock is kept for the enqueue.
AppendRecord(e) ==
    /\ CanLock(e) /\ phase # "closed" /\ Fits(e)
    /\ file' = file \o Stored(e)
    /\ eitem' = [eitem EXCEPT ![e] =
                   [ev |-> e, start |-> Len(file),
                    end |-> Len(file) + StoredLen(e)]]
    /\ epc' = [epc EXCEPT ![e] = "check"]
    /\ spoolMu' = e
    /\ UNCHANGED <<posFile, quarantined, outcome, phase, processedPos, channel,
                   worker, scan, posAhead, bounds>>

\* errSpoolCapacity, or the spool file is closed already.
AppendRejected(e) ==
    /\ CanLock(e)
    /\ phase = "closed" \/ ~Fits(e)
    /\ epc' = [epc EXCEPT ![e] = "rejected"]
    /\ UNCHANGED <<durable, outcome, phase, processedPos, channel, spoolMu,
                   eitem, worker, scan, posAhead, bounds>>

\* The write or the fsync fails.  The truncation back to startOffset may fail
\* as well (its error is ignored) and leave any part of the record.
AppendFails(e) ==
    /\ CanLock(e) /\ phase # "closed" /\ Fits(e)
    /\ Fault
    /\ \E n \in 0 .. StoredLen(e) : file' = file \o Prefix(Stored(e), n)
    /\ epc' = [epc EXCEPT ![e] = "rejected"]
    /\ UNCHANGED <<posFile, quarantined, outcome, phase, processedPos, channel,
                   spoolMu, eitem, worker, scan, posAhead, crashes, restarts>>

-----------------------------------------------------------------------------
(* enqueueDelivery: called by a handler that holds spoolMu, and by the     *)
(* replay, which holds nothing.                                            *)

QueueOpen == phase \in {"replay", "serve", "stopping"}

\* How an enqueuer ends: the replay scans on, a handler returns and its
\* deferred Unlock runs.
Return(p, outcomeOfCall) ==
    /\ epc' = [epc EXCEPT ![p] = IF p = Replay THEN "scan" ELSE outcomeOfCall]
    /\ eitem' = [eitem EXCEPT ![p] = NoItem]
    /\ spoolMu' = IF p = Replay THEN spoolMu ELSE Free

\* withinLimit || durableOversize
FitsQueueBytes(item) ==
    \/ queueBytes + PayloadLen(item) <= MaxQueueBytes
    \/ item.end > item.start /\ queueBytes = 0

\* Reserve the payload's bytes (the CompareAndSwap succeeds).
Reserve(p) ==
    /\ epc[p] = "check" /\ phase \notin {"nilqueue", "closed"}
    /\ FitsQueueBytes(eitem[p])
    /\ queueBytes' = queueBytes + PayloadLen(eitem[p])
    /\ epc' = [epc EXCEPT ![p] = "send"]
    /\ UNCHANGED <<durable, outcome, phase, processedPos, queue, deliverySpace,
                   spoolMu, eitem, worker, scan, posAhead, bounds>>

\* No room: wait for a token on deliverySpace ...
WaitForSpace(p) ==
    /\ epc[p] = "check" /\ phase \notin {"nilqueue", "closed"}
    /\ ~FitsQueueBytes(eitem[p])
    /\ epc' = [epc EXCEPT ![p] = "space"]
    /\ UNCHANGED <<durable, outcome, phase, processedPos, channel, spoolMu,
                   eitem, worker, scan, posAhead, bounds>>

\* ... take it and check again.
SpaceSignalled(p) ==
    /\ epc[p] = "space" /\ phase \notin {"nilqueue", "closed"}
    /\ deliverySpace
    /\ deliverySpace' = FALSE
    /\ epc' = [epc EXCEPT ![p] = "check"]
    /\ UNCHANGED <<durable, outcome, phase, processedPos, queue, queueBytes,
                   spoolMu, eitem, worker, scan, posAhead, bounds>>

\* Mutant: a queue that takes any number of items.
Send_Unbounded(p) ==
    /\ epc[p] = "send" /\ QueueOpen
    /\ queue' = Append(queue, eitem[p])
    /\ Return(p, "acked")
    /\ UNCHANGED <<durable, outcome, phase, processedPos, queueBytes,
                   deliverySpace, worker, scan, posAhead, bounds>>

\* Send on the channel; it blocks while the channel is full.
Send(p) ==
    /\ epc[p] = "send" /\ QueueOpen
    /\ Len(queue) < QueueSize
    /\ queue' = Append(queue, eitem[p])
    /\ Return(p, "acked")
    /\ UNCHANGED <<durable, outcome, phase, processedPos, queueBytes,
                   deliverySpace, worker, scan, posAhead, bounds>>

\* Send on the closed channel: the handler panics, net/http recovers and
\* drops the connection.  The record is in the file, the bytes stay reserved.
SendPanics(e) ==
    /\ epc[e] = "send" /\ phase = "draining"
    /\ Return(e, "aborted")
    /\ UNCHANGED <<durable, outcome, phase, processedPos, channel, worker,
                   scan, posAhead, bounds>>

\* deliveryQueue is nil: the handler reports a failure for a durable record.
NoQueue(e) ==
    /\ epc[e] = "check" /\ phase \in {"nilqueue", "closed"}
    /\ Return(e, "rejected")
    /\ UNCHANGED <<durable, outcome, phase, processedPos, channel, worker,
                   scan, posAhead, bounds>>

\* Mutant: the bytes are given back, nobody is woken.
ReleaseBytes_NoSignal(item) ==
    /\ queueBytes' = queueBytes - PayloadLen(item)
    /\ UNCHANGED deliverySpace

\* releaseDeliveryBytes: the bytes, then a token if the slot is empty and
\* closeReliability has not dropped the channel.
ReleaseBytes(item) ==
    /\ queueBytes' = queueBytes - PayloadLen(item)
    /\ deliverySpace' = IF phase \in {"nilqueue", "closed"} THEN deliverySpace
                        ELSE TRUE

\* reliabilityCtx is done: give the reserved bytes back and fail.
EnqueueCancelled(e) ==
    /\ epc[e] \in {"space", "send"} /\ phase = "closed"
    /\ IF epc[e] = "send" THEN ReleaseBytes(eitem[e])
       ELSE UNCHANGED <<queueBytes, deliverySpace>>
    /\ Return(e, "rejected")
    /\ UNCHANGED <<durable, outcome, phase, processedPos, queue, worker, scan,
                   posAhead, bounds>>

-----------------------------------------------------------------------------
(* deliveryWorker.                                                         *)

WorkerReceive ==
    /\ wpc = "recv" /\ queue # <<>>
    /\ witem' = Head(queue)
    /\ queue' = Tail(queue)
    /\ wpc' = "release"
    /\ UNCHANGED <<durable, outcome, phase, processedPos, queueBytes,
                   deliverySpace, spoolMu, enqueuer, scan, posAhead, bounds>>

\* The bytes are released before the item is processed.
WorkerRelease ==
    /\ wpc = "release"
    /\ ReleaseBytes(witem)
    /\ wpc' = IF witem.ev = NoEvent THEN "mark" ELSE "process"
    /\ UNCHANGED <<durable, outcome, phase, processedPos, queue, spoolMu,
                   enqueuer, witem, scan, posAhead, bounds>>

WorkerIdle == wpc' = "recv" /\ witem' = NoItem

\* processSpoolEvent with result.Err = nil.
WorkerDelivers ==
    /\ wpc = "process"
    /\ delivered' = delivered \cup {witem.ev}
    /\ wpc' = "mark"
    /\ UNCHANGED <<durable, deadLettered, phase, processedPos, channel, spoolMu,
                   enqueuer, witem, scan, posAhead, bounds>>

\* Mutant: a failed delivery ends the worker's loop.
WorkerFails_Returns ==
    /\ wpc = "process"
    /\ deadLettered' \in {deadLettered, deadLettered \cup {witem.ev}}
    /\ wpc' = "exited" /\ witem' = NoItem
    /\ UNCHANGED <<durable, delivered, phase, processedPos, channel, spoolMu,
                   enqueuer, scan, posAhead, bounds>>

\* processSpoolEvent with an error: the sinks, the delivery policy or the
\* schema refused the event.  The dead-letter write is best effort.  The
\* checkpoint is not moved.
WorkerFails ==
    /\ wpc = "process"
    /\ deadLettered' \in {deadLettered, deadLettered \cup {witem.ev}}
    /\ WorkerIdle
    /\ UNCHANGED <<durable, delivered, phase, processedPos, channel, spoolMu,
                   enqueuer, scan, posAhead, bounds>>

\* Mutant: a gap before the record is not noticed.
Contiguous_NoGapCheck == witem.end <= Len(file)

\* Mutant: off by one, the record that ends the file is out of bounds.
Contiguous_Strict == witem.start = processedPos /\ witem.end < Len(file)

\* The checks of markSpoolDelivered: no gap before the record, and the record
\* lies within the file.
Contiguous == witem.start = processedPos /\ witem.end <= Len(file)

\* spoolFile.Seek: the offset the replay reads at moves, if it is running.
Seek(n) ==
    scan' = IF scan = NoScan THEN scan ELSE [scan EXCEPT !.off = n]

\* spool_checkpoint_gap or spool_checkpoint_out_of_bounds: the checkpoint
\* stays.  The seek to the end of the file (past the gap check) moves the
\* offset the replay reads at.
WorkerMarkRefused ==
    /\ wpc = "mark" /\ spoolMu = Free /\ ~Contiguous
    /\ WorkerIdle
    /\ IF witem.start = processedPos THEN Seek(Len(file)) ELSE UNCHANGED scan
    /\ UNCHANGED <<durable, outcome, phase, processedPos, channel, spoolMu,
                   enqueuer, posAhead, bounds>>

\* Records are left behind this one: move the checkpoint, then save it.
WorkerMarkAdvance ==
    /\ wpc = "mark" /\ spoolMu = Free /\ Contiguous
    /\ witem.end < Len(file)
    /\ processedPos' = witem.end
    /\ Seek(Len(file))
    /\ spoolMu' = Worker
    /\ wpc' = "save"
    /\ UNCHANGED <<durable, outcome, phase, channel, enqueuer, witem, posAhead,
                   bounds>>

\* Mutant: the file is emptied, the checkpoint is not reset.
WorkerMarkTruncate_NoReset ==
    /\ wpc = "mark" /\ spoolMu = Free /\ Contiguous
    /\ witem.end = Len(file)
    /\ file' = <<>>
    /\ processedPos' = witem.end
    /\ Seek(0)
    /\ spoolMu' = Worker
    /\ wpc' = "save"
    /\ UNCHANGED <<posFile, quarantined, outcome, phase, channel, enqueuer,
                   witem, posAhead, bounds>>

\* This was the last record: empty the file, go back to zero, then save it.
WorkerMarkTruncate ==
    /\ wpc = "mark" /\ spoolMu = Free /\ Contiguous
    /\ witem.end = Len(file)
    /\ file' = <<>>
    /\ processedPos' = 0
    /\ Seek(0)
    /\ spoolMu' = Worker
    /\ wpc' = "save"
    /\ UNCHANGED <<posFile, quarantined, outcome, phase, channel, enqueuer,
                   witem, posAhead, bounds>>

\* The truncation fails: the checkpoint stays at the end, unsaved.
WorkerTruncateFails ==
    /\ wpc = "mark" /\ spoolMu = Free /\ Contiguous
    /\ witem.end = Len(file)
    /\ Fault
    /\ processedPos' = witem.end
    /\ Seek(Len(file))
    /\ WorkerIdle
    /\ UNCHANGED <<durable, outcome, phase, channel, spoolMu, enqueuer,
                   posAhead, crashes, restarts>>

-----------------------------------------------------------------------------
(* saveSpoolPosition: the new position is written to a temporary file and  *)
(* synced, the old file is removed, the temporary one renamed.             *)

\* A save given up on while the file is shorter than the position on disk.
AbandonSave == posAhead' = (posAhead \/ posFile > Len(file))

\* Mutant: a return without the Unlock.
MarkReturns_NoUnlock == WorkerIdle /\ UNCHANGED spoolMu

\* Return from markSpoolDelivered to the receive, spoolMu released.
MarkReturns == WorkerIdle /\ spoolMu' = Free

WorkerSaveRemove ==
    /\ wpc = "save"
    /\ posFile' = NoPos
    /\ wpc' = "rename"
    /\ UNCHANGED <<file, quarantined, outcome, phase, processedPos, channel,
                   spoolMu, enqueuer, witem, scan, posAhead, bounds>>

WorkerSaveRename ==
    /\ wpc = "rename"
    /\ posFile' = processedPos
    /\ MarkReturns
    /\ UNCHANGED <<file, quarantined, outcome, phase, processedPos, channel,
                   enqueuer, scan, posAhead, bounds>>

\* The temporary file cannot be written, or the rename fails; only logged.
WorkerSaveFails ==
    /\ wpc \in {"save", "rename"}
    /\ Fault
    /\ MarkReturns
    /\ AbandonSave
    /\ UNCHANGED <<durable, outcome, phase, processedPos, channel, enqueuer,
                   scan, crashes, restarts>>

-----------------------------------------------------------------------------
(* Shutdown (shutdownCollector, closeReliability), crash and restart.      *)

\* The HTTP server takes no new requests.
BeginShutdown ==
    /\ phase = "serve" /\ restarts < MaxRestarts
    /\ phase' = "stopping"
    /\ restarts' = restarts + 1
    /\ UNCHANGED <<durable, outcome, processedPos, channel, spoolMu, enqueuer,
                   worker, scan, posAhead, crashes, faults>>

\* Close the channel under spoolMu.  Handlers may still be running: Shutdown
\* waits for them no longer than shutdown_timeout.
CloseQueue ==
    /\ phase = "stopping" /\ spoolMu = Free
    /\ phase' = "draining"
    /\ UNCHANGED <<durable, outcome, processedPos, channel, spoolMu, enqueuer,
                   worker, scan, posAhead, bounds>>

\* The range over the closed channel ends once it is drained ...
WorkerExit ==
    /\ wpc = "recv" /\ queue = <<>> /\ phase = "draining"
    /\ wpc' = "exited"
    /\ UNCHANGED <<durable, outcome, phase, processedPos, channel, spoolMu,
                   enqueuer, witem, scan, posAhead, bounds>>

\* ... deliveryWG.Wait returns: deliveryQueue = nil ...
DropQueue ==
    /\ phase = "draining" /\ wpc = "exited"
    /\ phase' = "nilqueue"
    /\ UNCHANGED <<durable, outcome, processedPos, channel, spoolMu, enqueuer,
                   worker, scan, posAhead, bounds>>

\* ... reliabilityCancel, and the spool file is closed.
CloseFile ==
    /\ phase = "nilqueue"
    /\ phase' = "closed"
    /\ UNCHANGED <<durable, outcome, processedPos, channel, spoolMu, enqueuer,
                   worker, scan, posAhead, bounds>>

Exit ==
    /\ phase = "closed"
    /\ phase' = "down"
    /\ Forget
    /\ UNCHANGED <<durable, outcome, posAhead, bounds>>

Crash ==
    /\ phase # "down" /\ crashes < MaxCrashes
    /\ crashes' = crashes + 1
    /\ phase' = "down"
    /\ AbandonSave
    /\ Forget

\* The process dies between two steps, or in the middle of a write.
CrashBetween ==
    /\ Crash
    /\ UNCHANGED <<durable, outcome, restarts, faults>>

CrashInWrite(e) ==
    /\ CanLock(e) /\ phase # "closed" /\ Fits(e)
    /\ Crash
    /\ \E n \in 1 .. StoredLen(e) : file' = file \o Prefix(Stored(e), n)
    /\ UNCHANGED <<posFile, quarantined, outcome, restarts, faults>>

-----------------------------------------------------------------------------
ReplayStep ==
    \/ ReplayEmpty \/ ReplayTruncate \/ ReplaySaveRemove \/ ReplaySaveRename
    \/ ReplayStart \/ ReplayRead \/ ReplayTooLong \/ ReplayLine \/ ReplayDone

Enqueue(p) == Reserve(p) \/ WaitForSpace(p) \/ SpaceSignalled(p) \/ Send(p)

HandlerEnds(e) == SendPanics(e) \/ NoQueue(e) \/ EnqueueCancelled(e)

WorkerStep ==
    \/ WorkerReceive \/ WorkerRelease \/ WorkerDelivers \/ WorkerFails
    \/ WorkerSaveRemove \/ WorkerSaveRename \/ WorkerExit

WorkerMark == WorkerMarkRefused \/ WorkerMarkAdvance \/ WorkerMarkTruncate

CloseStep == DropQueue \/ CloseFile \/ Exit

Next ==
    \/ Start
    \/ ReplayStep
    \/ \E e \in Events :
          \/ Submit(e) \/ AppendRecord(e) \/ AppendRejected(e) \/ AppendFails(e)
          \/ HandlerEnds(e) \/ CrashInWrite(e)
    \/ \E p \in Procs : Enqueue(p)
    \/ WorkerStep
    \/ WorkerMark \/ WorkerTruncateFails \/ WorkerSaveFails
    \/ BeginShutdown \/ CloseQueue \/ CloseStep
    \/ CrashBetween

Spec == Init /\ [][Next]_vars

\* Goroutines that can run do run, and a sync.Mutex starves nobody (a waiter
\* older than 1 ms is handed the lock): strong fairness for what takes
\* spoolMu.  Nothing obliges a client, an operator or a fault to act.
Fairness ==
    /\ WF_vars(Start) /\ WF_vars(ReplayStep) /\ WF_vars(WorkerStep)
    /\ WF_vars(CloseStep)
    /\ \A p \in Procs : WF_vars(Enqueue(p))
    /\ \A e \in Events : WF_vars(HandlerEnds(e))
    /\ SF_vars(WorkerMark) /\ SF_vars(CloseQueue)
    /\ \A e \in Events : SF_vars(AppendRecord(e) \/ AppendRejected(e))

FairSpec == Spec /\ Fairness

-----------------------------------------------------------------------------
(* Properties.                                                             *)

TypeOK ==
    /\ file \in Seq(Cell)
    /\ posFile \in Nat \cup {NoPos}
    /\ quarantined \subseteq Events
    /\ delivered \subseteq Events
    /\ deadLettered \subseteq Events
    /\ phase \in {"down", "replay", "serve", "stopping", "draining",
                  "nilqueue", "closed"}
    /\ processedPos \in Nat
    /\ queue \in Seq(Item) /\ Len(queue) <= QueueSize
    /\ queueBytes \in Int
    /\ deliverySpace \in BOOLEAN
    /\ spoolMu \in Events \cup {Worker, Free}
    /\ epc \in [Procs -> Settled \cup {"idle", "lock", "check", "space", "send",
                                       "scan", "save", "rename"}]
    /\ eitem \in [Procs -> Item]
    /\ wpc \in {"none", "recv", "release", "process", "mark", "save", "rename",
                "exited"}
    /\ witem \in Item
    /\ scan \in Scan
    /\ posAhead \in BOOLEAN
    /\ crashes \in 0 .. MaxCrashes
    /\ restarts \in 0 .. MaxRestarts
    /\ faults \in 0 .. MaxFaults

\* Text of e lies in the file where a restart looks.
Retained(e) ==
    \E j \in DurablePos + 1 .. Len(file) : file[j].ev = e /\ ~file[j].nl

Promise == INSTANCE Custody WITH
    acked <- {e \in Events : epc[e] = "acked"},
    held <- {e \in Events : Retained(e)},
    settled <- delivered \cup deadLettered \cup quarantined

\* The spool keeps the promise of Custody: an event is acknowledged when a
\* restart would find its record, and no interleaving of handlers, worker,
\* checkpoint save, shutdown, crash and replay takes the record of an
\* acknowledged event out of a restart's sight before the event has reached
\* the sinks, the dead letters or quarantine; as long as no save was given up
\* on after markSpoolDelivered had emptied the file (posAhead).
KeepsCustody ==
    Promise!Init /\ [][posAhead' \/ Promise!Next]_(Promise!vars)

\* The same promise without the exception: "crash-safe buffering".
CrashSafe == Promise!Kept

\* A handler holds spoolMu from the write of its record to the end of its
\* enqueue and the worker holds it while it saves: so records are queued in
\* file order, and one handler at a time reserves bytes.
LockDiscipline ==
    /\ \A e \in Events : Enqueuing(e) <=> spoolMu = e
    /\ wpc \in {"save", "rename"} <=> spoolMu = Worker

\* An item is a stretch of the file that the checkpoint has not reached.
InFile(item) ==
    /\ processedPos <= item.start
    /\ item.start < item.end
    /\ item.end <= Len(file)

Before(x, y) == x.end <= y.start

QueueInOrder ==
    /\ \A i \in DOMAIN queue : InFile(queue[i])
    /\ \A i, j \in DOMAIN queue : i < j => Before(queue[i], queue[j])

WorkerInOrder ==
    Working => /\ InFile(witem)
               /\ \A i \in DOMAIN queue : Before(witem, queue[i])

EnqueueInOrder ==
    \A p \in Procs : Enqueuing(p) =>
        /\ InFile(eitem[p])
        /\ \A i \in DOMAIN queue : Before(queue[i], eitem[p])
        /\ Working => Before(witem, eitem[p])

\* What is on its way to the worker (being enqueued, queued, in its hands) is
\* ahead of the checkpoint, disjoint and in file order.  Offsets restart at
\* zero whenever the file is emptied, the replay enqueues without the lock
\* and late handlers append after the channel is closed: none of it lets an
\* item meet a checkpoint that is not its own, so the checkpoint never moves
\* over a record that is still on its way.
PipeInOrder ==
    ~posAhead =>
        /\ processedPos <= Len(file)
        /\ QueueInOrder /\ WorkerInOrder /\ EnqueueInOrder

\* A waiter on deliverySpace has a wake-up coming: a token, or an item whose
\* release will put one there.  The check of queueBytes and the wait are two
\* steps; a release in between must not be lost.
NoLostWakeup ==
    \A p \in Procs : epc[p] = "space" /\ QueueOpen =>
        deliverySpace \/ queue # <<>> \/ wpc = "release"

\* Nothing is on its way and nobody holds the lock.
Quiet ==
    /\ phase = "serve" /\ spoolMu = Free
    /\ queue = <<>> /\ wpc = "recv"

\* In the life of a process that started on an empty spool: when nothing is
\* on its way the spool is empty, unless the record at the checkpoint was
\* never delivered; a delivered record is held only by an undelivered one
\* before it.
HeldOnlyByUndelivered ==
    crashes = 0 /\ restarts = 0 /\ faults = 0 /\ Quiet =>
        \/ file = <<>> /\ processedPos = 0
        \/ processedPos < Len(file) /\ file[processedPos + 1].ev \notin delivered

\* The limit the append checks: what is not yet past the checkpoint stays
\* within max_spool_bytes.
BacklogWithinLimit ==
    crashes = 0 /\ faults = 0 /\ phase # "down" =>
        Len(file) - processedPos <= MaxSpoolBytes

\* The deadlock of spoolMu and the queue: a handler holds the lock and waits
\* for the worker to make room, the worker waits for the lock.
Wedged ==
    \E e \in Events :
        /\ spoolMu = e /\ wpc = "mark"
        /\ \/ epc[e] = "send" /\ Len(queue) = QueueSize
           \/ epc[e] = "space" /\ ~deliverySpace

InPipe(e) ==
    \/ \E p \in Procs : Enqueuing(p) /\ eitem[p].ev = e
    \/ \E i \in DOMAIN queue : queue[i].ev = e
    \/ Working /\ witem.ev = e

\* Every item handed to the delivery queue is processed, unless the two are
\* deadlocked.
QueueDrains == \A e \in Events : InPipe(e) ~> (~InPipe(e) \/ Wedged)

\* A shutdown comes to an end, unless the two are deadlocked.
ShutdownCompletes == phase = "stopping" ~> (phase = "down" \/ Wedged)

\* initReliability returns: no spool keeps the collector from serving.
ReplayEnds == phase = "replay" ~> (phase = "serve" \/ phase = "down")

\* A blocked enqueue resumes once the worker has made room.
EnqueueResumes ==
    \A e \in Events : epc[e] = "send" ~> epc[e] # "send"

-----------------------------------------------------------------------------
(* The inductive invariant behind PipeInOrder.                             *)

\* What the phases exclude: a process that is down has no memory, handlers
\* run only after the replay, the worker only exits from an empty queue.
PhaseOK ==
    /\ phase = "down" =>
          /\ wpc = "none" /\ queue = <<>> /\ spoolMu = Free
          /\ \A e \in Events : epc[e] \in Settled
    /\ phase \in {"down", "replay"} => \A e \in Events : epc[e] \in Settled
    /\ \A e \in Events : epc[e] \in Settled \cup {"lock", "check", "space", "send"}
    /\ epc[Replay] \in {"idle", "check", "space", "send", "scan", "save", "rename"}
    /\ phase # "replay" => epc[Replay] = "idle"
    /\ phase = "replay" /\ epc[Replay] \in {"idle", "save", "rename"} =>
          wpc = "recv" /\ queue = <<>>
    /\ epc[Replay] \in {"save", "rename"} => processedPos = 0
    /\ phase \in {"nilqueue", "closed"} => wpc = "exited"
    /\ wpc = "process" => witem.ev # NoEvent

\* The position on disk is within the file, except while the position of an
\* emptied file is being saved.
PosFileOK ==
    \/ posAhead
    \/ posFile <= Len(file)
    \/ wpc \in {"save", "rename"} \/ epc[Replay] = "save"

\* The scanner has read no further than the file it found, what it has handed
\* out ends where it stands, and a worker that seeks the shared descriptor
\* only makes it stop early.
ScanOK ==
    epc[Replay] \in {"scan", "check", "space", "send"} /\ ~posAhead =>
        /\ scan.next + Len(scan.buf) <= scan.size
        /\ scan.off = scan.next + Len(scan.buf) \/ scan.off >= Len(file)
             \/ scan.eof
        /\ processedPos <= scan.next
        /\ \A i \in DOMAIN queue : queue[i].end <= scan.next
        /\ Working => witem.end <= scan.next
        /\ Enqueuing(Replay) => eitem[Replay].end <= scan.next
        /\ \/ scan.size = Len(file)
           \/ /\ file = <<>> /\ scan.next = scan.size
              /\ queue = <<>> /\ ~Working /\ ~Enqueuing(Replay)

IInv ==
    TypeOK /\ LockDiscipline /\ PhaseOK /\ PosFileOK /\ ScanOK /\ PipeInOrder

=============================================================================
