---------------------------- MODULE SpoolProofs ----------------------------
(***************************************************************************)
(* Theorems about the spool, for every set of events, every length of a    *)
(* record and every limit: types, the lock, the order of what is on its    *)
(* way to the worker, the backlog within its limit, a waiter's wake-up.    *)
(* The spool implements Custody: an event is answered "accepted" when a    *)
(* restart would find its record, and the record leaves a restart's sight  *)
(* only when the event is settled.  And in the first life of a process the *)
(* spool holds a delivered record only behind one that was not delivered.  *)
(***************************************************************************)
EXTENDS Spool, TLAPS, SequenceTheorems

\* A record is a sequence of cells, one longer than its text.
LEMMA StoredType ==
    ASSUME NEW e \in Events
    PROVE  /\ Stored(e) \in Seq(Cell)
           /\ Len(Stored(e)) = StoredLen(e)
           /\ StoredLen(e) \in Nat /\ StoredLen(e) > 1
  <1>1. ContentLen[e] \in Nat \ {0, 1}
    BY SizesAssumption
  <1>2. Stored(e) \in [1 .. StoredLen(e) -> Cell]
    BY <1>1 DEF Stored, StoredLen, Cell
  <1>3. StoredLen(e) \in Nat /\ StoredLen(e) > 1
    BY <1>1 DEF StoredLen
  <1>4. QED
    BY <1>2, <1>3

\* Any part of a sequence of cells is one.
LEMMA SubSeqType ==
    ASSUME NEW s \in Seq(Cell), NEW m \in Nat \ {0}, NEW n \in Nat, n <= Len(s)
    PROVE  /\ SubSeq(s, m, n) \in Seq(Cell)
           /\ Len(SubSeq(s, m, n)) = IF m <= n THEN n - m + 1 ELSE 0
  OBVIOUS

\* Two sequences of cells, one after the other: a write to the file, a read
\* into the scanner's buffer.
LEMMA ConcatType ==
    ASSUME NEW s \in Seq(Cell), NEW t \in Seq(Cell)
    PROVE  s \o t \in Seq(Cell) /\ Len(s \o t) = Len(s) + Len(t)
  OBVIOUS

\* A part of a record, as a write that fails or is cut short leaves it.
LEMMA PartType ==
    ASSUME NEW e \in Events, NEW n \in 0 .. StoredLen(e), file \in Seq(Cell)
    PROVE  /\ file \o Prefix(Stored(e), n) \in Seq(Cell)
           /\ Len(file \o Prefix(Stored(e), n)) = Len(file) + n
  <1>1. Prefix(Stored(e), n) \in Seq(Cell) /\ Len(Prefix(Stored(e), n)) = n
    BY StoredType, SubSeqType DEF Prefix
  <1>2. QED
    BY <1>1

\* The channel is a sequence: a send and a receive.
LEMMA QueueOps ==
    ASSUME queue \in Seq(Item)
    PROVE  /\ \A x \in Item : /\ Append(queue, x) \in Seq(Item)
                              /\ Len(Append(queue, x)) = Len(queue) + 1
                              /\ \A i \in DOMAIN queue : Append(queue, x)[i] = queue[i]
                              /\ Append(queue, x)[Len(queue) + 1] = x
           /\ queue # <<>> => /\ Head(queue) \in Item
                              /\ Tail(queue) \in Seq(Item)
                              /\ Len(Tail(queue)) = Len(queue) - 1
                              /\ \A i \in DOMAIN Tail(queue) :
                                    Tail(queue)[i] = queue[i + 1]
                              /\ Head(queue) = queue[1]
  OBVIOUS

\* A seek moves the scanner's offset and nothing else of it.
LEMMA SeekType ==
    ASSUME scan \in Scan, NEW n \in Nat, Seek(n)
    PROVE  /\ scan' \in Scan
           /\ scan'.buf = scan.buf /\ scan'.eof = scan.eof
           /\ scan'.next = scan.next /\ scan'.size = scan.size
           /\ scan'.off = n \/ scan'.off = scan.off
  BY DEF Seek, Scan

\* The bytes a read of the scanner takes from the file.
LEMMA ReadBytes ==
    ASSUME scan \in Scan, file \in Seq(Cell),
           NEW n \in Nat \ {0}, n <= Len(file) - scan.off
    PROVE  /\ scan.buf \o SubSeq(file, scan.off + 1, scan.off + n) \in Seq(Cell)
           /\ Len(scan.buf \o SubSeq(file, scan.off + 1, scan.off + n))
                = Len(scan.buf) + n
  <1>1. scan.off \in Nat /\ scan.buf \in Seq(Cell) /\ Len(file) \in Nat
    BY DEF Scan
  <1>2. scan.off + 1 \in Nat \ {0} /\ scan.off + n \in Nat /\ scan.off + n <= Len(file)
    BY <1>1
  <1>3. SubSeq(file, scan.off + 1, scan.off + n) \in Seq(Cell)
    BY <1>2, SubSeqType
  <1>4. Len(SubSeq(file, scan.off + 1, scan.off + n)) = (scan.off + n) - (scan.off + 1) + 1
    BY <1>1, <1>2
  <1>5. (scan.off + n) - (scan.off + 1) + 1 = n
    BY <1>1
  <1>6. QED
    BY <1>1, <1>3, <1>4, <1>5, ConcatType

\* A read of the scanner: at the end of the file, or of n bytes of it.
LEMMA ReadType ==
    ASSUME scan \in Scan, file \in Seq(Cell)
    PROVE  /\ [scan EXCEPT !.eof = TRUE] \in Scan
           /\ \A n \in Nat \ {0} : n <= Len(file) - scan.off =>
                [scan EXCEPT
                   !.buf = @ \o SubSeq(file, scan.off + 1, scan.off + n),
                   !.off = @ + n] \in Scan
  <1>1. [scan EXCEPT !.eof = TRUE] \in Scan
    BY DEF Scan
  <1>2. ASSUME NEW n \in Nat \ {0}, n <= Len(file) - scan.off
        PROVE  [scan EXCEPT
                  !.buf = @ \o SubSeq(file, scan.off + 1, scan.off + n),
                  !.off = @ + n] \in Scan
    <2>1. scan.off + n \in Nat
      BY DEF Scan
    <2>2. QED
      BY <1>2, <2>1, ReadBytes DEF Scan
  <1>3. QED
    BY <1>1, <1>2

\* A line taken: the scanner, the enqueuer's item and the quarantine file.
LEMMA TakeType ==
    ASSUME scan \in Scan, eitem \in [Procs -> Item], quarantined \subseteq Events,
           NEW len \in 0 .. Len(scan.buf), TakeLine(len)
    PROVE  scan' \in Scan /\ eitem' \in [Procs -> Item] /\ quarantined' \subseteq Events
  <1>1. scan.buf \in Seq(Cell) /\ scan.next \in Nat /\ scan.size \in Nat
    BY DEF Scan
  <1>2. /\ SubSeq(scan.buf, len + 2, Len(scan.buf)) \in Seq(Cell)
        /\ Prefix(scan.buf, len) \in Seq(Cell)
    BY <1>1 DEF Prefix
  <1> DEFINE end == IF scan.next + len + 1 > scan.size THEN scan.size
                    ELSE scan.next + len + 1
  <1>3. end \in Nat
    BY <1>1
  <1>4. scan' = [scan EXCEPT !.buf = SubSeq(@, len + 2, Len(@)), !.next = end]
    BY DEF TakeLine
  <1>5. scan' \in Scan
    BY <1>2, <1>3, <1>4 DEF Scan
  <1>6. \A i \in DOMAIN Prefix(scan.buf, len) :
            Prefix(scan.buf, len)[i].ev \in Events
    <2>1. ASSUME NEW i \in DOMAIN Prefix(scan.buf, len)
          PROVE  Prefix(scan.buf, len)[i] \in Cell
      BY <1>2, <2>1
    <2>2. QED
      BY <2>1 DEF Cell
  <1>7. quarantined' \subseteq Events
    BY <1>6 DEF TakeLine
  <1>8. PICK ev \in Events \cup {NoEvent} :
            eitem' = [eitem EXCEPT ![Replay] =
                        [ev |-> ev, start |-> scan.next, end |-> end]]
    BY DEF TakeLine
  <1>9. eitem' \in [Procs -> Item]
    BY <1>1, <1>3, <1>8 DEF Item
  <1>10. QED
    BY <1>5, <1>7, <1>9

\* Offsets are numbers.
LEMMA ItemType ==
    ASSUME TypeOK
    PROVE  /\ \A p \in Procs : eitem[p].start \in Nat /\ eitem[p].end \in Nat
           /\ \A i \in DOMAIN queue : queue[i].start \in Nat /\ queue[i].end \in Nat
           /\ witem.start \in Nat /\ witem.end \in Nat
           /\ scan.next \in Nat /\ scan.size \in Nat /\ scan.off \in Nat
           /\ scan.buf \in Seq(Cell) /\ scan.eof \in BOOLEAN
           /\ Len(file) \in Nat /\ Len(scan.buf) \in Nat /\ Len(queue) \in Nat
           /\ DOMAIN queue = 1 .. Len(queue)
           /\ (file = <<>> <=> Len(file) = 0) /\ (queue = <<>> <=> Len(queue) = 0)
           /\ processedPos \in Nat
  <1>1. file \in Seq(Cell) /\ queue \in Seq(Item) /\ scan \in Scan /\ witem \in Item
        /\ eitem \in [Procs -> Item] /\ processedPos \in Nat
    BY DEF TypeOK
  <1>2. scan.buf \in Seq(Cell) /\ scan.next \in Nat /\ scan.size \in Nat
        /\ scan.off \in Nat /\ scan.eof \in BOOLEAN
    BY <1>1 DEF Scan
  <1>3. \A x \in Item : x.start \in Nat /\ x.end \in Nat
    BY DEF Item
  <1>4. /\ DOMAIN queue = 1 .. Len(queue) /\ Len(queue) \in Nat
        /\ \A i \in DOMAIN queue : queue[i] \in Item
        /\ (queue = <<>> <=> Len(queue) = 0)
    BY <1>1
  <1>5. Len(file) \in Nat /\ (file = <<>> <=> Len(file) = 0) /\ Len(scan.buf) \in Nat
    BY <1>1, <1>2
  <1>6. QED
    BY <1>1, <1>2, <1>3, <1>4, <1>5

\* A write makes the file longer by the record.
LEMMA AppendMore ==
    ASSUME file \in Seq(Cell), NEW e \in Events
    PROVE  /\ file \o Stored(e) \in Seq(Cell)
           /\ Len(file \o Stored(e)) = Len(file) + StoredLen(e)
  BY StoredType

\* A save given up on is recorded if the position on disk is beyond the file.
LEMMA AbandonType ==
    ASSUME AbandonSave, posAhead \in BOOLEAN, posFile \in Nat \cup {-1},
           file \in Seq(Cell), ~posAhead'
    PROVE  ~posAhead /\ posFile <= Len(file)
  <1>1. ~posAhead /\ ~(posFile > Len(file))
    BY Zenon DEF AbandonSave
  <1>2. QED
    BY <1>1

\* Where a line taken leaves the scanner.
LEMMA TakeFacts ==
    ASSUME scan \in Scan, eitem \in [Procs -> Item],
           scan.next + Len(scan.buf) <= scan.size,
           NEW len \in 0 .. Len(scan.buf), NextLine(len), TakeLine(len)
    PROVE  /\ scan.next < scan'.next /\ scan'.next + Len(scan'.buf) <= scan'.size
           /\ scan'.size = scan.size /\ scan'.off = scan.off /\ scan'.eof = scan.eof
           /\ scan'.next + Len(scan'.buf) = scan.next + Len(scan.buf) \/ scan.eof
           /\ eitem'[Replay].start = scan.next /\ eitem'[Replay].end = scan'.next
           /\ \A p \in Procs \ {Replay} : eitem'[p] = eitem[p]
  <1>1. scan.buf \in Seq(Cell) /\ scan.next \in Nat /\ scan.size \in Nat
    BY DEF Scan
  <1> DEFINE end == IF scan.next + len + 1 > scan.size THEN scan.size
                    ELSE scan.next + len + 1
             rest == SubSeq(scan.buf, len + 2, Len(scan.buf))
  <1>2. scan' = [scan EXCEPT !.buf = rest, !.next = end]
    BY DEF TakeLine
  <1>3. scan'.buf = rest /\ scan'.next = end /\ scan'.size = scan.size
        /\ scan'.off = scan.off /\ scan'.eof = scan.eof
    BY <1>2 DEF Scan
  <1>4. Len(rest) = IF len + 2 <= Len(scan.buf) THEN Len(scan.buf) - len - 1 ELSE 0
    BY <1>1
  <1>5. PICK ev \in Events \cup {NoEvent} :
            eitem' = [eitem EXCEPT ![Replay] =
                        [ev |-> ev, start |-> scan.next, end |-> end]]
    BY DEF TakeLine
  <1>6. /\ eitem'[Replay].start = scan.next /\ eitem'[Replay].end = end
        /\ \A p \in Procs \ {Replay} : eitem'[p] = eitem[p]
    BY <1>5 DEF Procs
  <1>7. \/ len + 1 \in DOMAIN scan.buf
        \/ scan.eof /\ len = Len(scan.buf) /\ scan.buf # <<>>
    BY DEF NextLine, Newlines
  <1>8. CASE len + 1 \in DOMAIN scan.buf
    <2>1. len + 1 <= Len(scan.buf) /\ Len(scan.buf) \in Nat /\ len \in Nat
      BY <1>1, <1>8
    <2>2. end = scan.next + len + 1
      BY <1>1, <2>1
    <2>3. Len(rest) = Len(scan.buf) - len - 1
      BY <1>4, <2>1
    <2>4. scan.next < end /\ end + Len(rest) = scan.next + Len(scan.buf)
      BY <1>1, <2>1, <2>2, <2>3
    <2> HIDE DEF end, rest
    <2>5. QED
      BY <1>3, <1>6, <2>4
  <1>9. CASE scan.eof /\ len = Len(scan.buf) /\ scan.buf # <<>>
    <2>1. Len(scan.buf) \in Nat \ {0}
      BY <1>1, <1>9
    <2>2. Len(rest) = 0
      BY <1>4, <1>9, <2>1
    <2>3. scan.next < end /\ end <= scan.size
      BY <1>1, <1>9, <2>1
    <2>4. QED
      BY <1>1, <1>3, <1>6, <1>9, <2>2, <2>3
  <1>10. QED
    BY <1>7, <1>8, <1>9

\* Nothing is left of a process that ended, and what is left is typed.
LEMMA ForgetType ==
    ASSUME Forget
    PROVE  /\ processedPos' = 0 /\ queue' = <<>> /\ queueBytes' = 0
           /\ deliverySpace' = FALSE /\ spoolMu' = Free
           /\ epc' \in [Procs -> Settled \cup {"idle"}]
           /\ eitem' \in [Procs -> Item]
           /\ wpc' = "none" /\ witem' \in Item
           /\ scan' \in Scan
  <1>1. NoItem \in Item
    BY DEF NoItem, Item
  <1>2. NoScan \in Scan
    BY DEF NoScan, Scan
  <1>3. epc' \in [Procs -> Settled \cup {"idle"}]
    BY DEF Forget, Settled
  <1>4. QED
    BY <1>1, <1>2, <1>3 DEF Forget

\* Every action keeps the variables in their types.
LEMMA TypeStep ==
    TypeOK /\ PhaseOK /\ [Next]_vars => TypeOK'
  <1> SUFFICES ASSUME TypeOK /\ PhaseOK, [Next]_vars
               PROVE  TypeOK'
    OBVIOUS
  <1> USE DEF TypeOK, PhaseOK, durable, outcome, channel, enqueuer, worker,
              bounds, Procs, Item, NoItem, Settled, NoPos, Free, Worker, Replay,
              NoEvent
  <1>1. CASE Start
    BY <1>1 DEF Start, DurablePos
  <1>2. CASE ReplayEmpty
    BY <1>2 DEF ReplayEmpty
  <1>3. CASE ReplayTruncate
    BY <1>3 DEF ReplayTruncate
  <1>4. CASE ReplaySaveRemove
    BY <1>4 DEF ReplaySaveRemove
  <1>5. CASE ReplaySaveRename
    BY <1>5 DEF ReplaySaveRename
  <1>6. CASE ReplayStart
    BY <1>6 DEF ReplayStart, Scan
  <1>7. CASE ReplayRead
    <2>1. Len(scan.buf) \in Nat
      BY DEF Scan
    <2>2. CASE scan' = [scan EXCEPT !.eof = TRUE]
      BY <1>7, <2>2, ReadType DEF ReplayRead
    <2>3. ASSUME NEW n \in 1 .. MaxEventBytes - Len(scan.buf),
                 n <= Len(file) - scan.off,
                 scan' = [scan EXCEPT
                            !.buf = @ \o SubSeq(file, scan.off + 1, scan.off + n),
                            !.off = @ + n]
          PROVE  TypeOK'
      <3>1. n \in Nat \ {0}
        BY <2>1, <2>3, SizesAssumption, SMTT(40)
      <3>2. scan' \in Scan
        BY <2>3, <3>1, ReadType
      <3>3. QED
        BY <1>7, <3>2 DEF ReplayRead
    <2>4. QED
      BY <1>7, <2>2, <2>3 DEF ReplayRead
  <1>8. CASE ReplayTooLong
    BY <1>8, SMTT(40) DEF ReplayTooLong, NoScan, Scan
  <1>9. CASE ReplayLine
    <2>1. PICK len \in 0 .. Len(scan.buf) : TakeLine(len)
      BY <1>9 DEF ReplayLine
    <2>2. scan' \in Scan /\ eitem' \in [Procs -> Item] /\ quarantined' \subseteq Events
      BY <2>1, TakeType
    <2>3. QED
      BY <1>9, <2>2 DEF ReplayLine
  <1>10. CASE ReplayDone
    BY <1>10 DEF ReplayDone, NoScan, Scan
  <1>11. CASE WorkerReceive
    <2>1. queue # <<>> /\ queue \in Seq(Item) /\ Len(queue) <= QueueSize
      BY <1>11 DEF WorkerReceive
    <2>2. Head(queue) \in Item /\ Tail(queue) \in Seq(Item)
      BY <2>1, QueueOps
    <2>3. Len(Tail(queue)) <= QueueSize
      BY <2>1, QueueOps, SizesAssumption
    <2> HIDE DEF Item
    <2>4. QED
      BY <1>11, <2>2, <2>3 DEF WorkerReceive
  <1>12. CASE WorkerRelease
    <2>1. queueBytes' \in Int
      BY <1>12, SizesAssumption DEF WorkerRelease, ReleaseBytes, PayloadLen
    <2>2. deliverySpace' \in BOOLEAN
      BY <1>12 DEF WorkerRelease, ReleaseBytes
    <2>3. QED
      BY <1>12, <2>1, <2>2 DEF WorkerRelease
  <1>13. CASE WorkerDelivers
    BY <1>13 DEF WorkerDelivers
  <1>14. CASE WorkerFails
    BY <1>14 DEF WorkerFails, WorkerIdle
  <1>15. CASE WorkerSaveRemove
    BY <1>15 DEF WorkerSaveRemove
  <1>16. CASE WorkerSaveRename
    BY <1>16 DEF WorkerSaveRename, MarkReturns, WorkerIdle
  <1>17. CASE WorkerExit
    BY <1>17 DEF WorkerExit
  <1>18. CASE WorkerMarkRefused
    BY <1>18, SeekType DEF WorkerMarkRefused, WorkerIdle
  <1>19. CASE WorkerMarkAdvance
    BY <1>19, SeekType DEF WorkerMarkAdvance, Contiguous
  <1>20. CASE WorkerMarkTruncate
    BY <1>20, SeekType DEF WorkerMarkTruncate
  <1>21. CASE WorkerTruncateFails
    BY <1>21, SeekType, BoundsAssumption
       DEF WorkerTruncateFails, Contiguous, WorkerIdle, Fault
  <1>22. CASE WorkerSaveFails
    BY <1>22, BoundsAssumption
       DEF WorkerSaveFails, MarkReturns, WorkerIdle, AbandonSave, Fault
  <1>23. CASE BeginShutdown
    BY <1>23, BoundsAssumption DEF BeginShutdown
  <1>24. CASE CloseQueue
    BY <1>24 DEF CloseQueue
  <1>25. CASE DropQueue
    BY <1>25 DEF DropQueue
  <1>26. CASE CloseFile
    BY <1>26 DEF CloseFile
  <1>27. CASE Exit
    <2>1. Forget
      BY <1>27 DEF Exit
    <2>2. QED
      BY <1>27, <2>1, ForgetType, SizesAssumption, SMTT(40) DEF Exit
  <1>28. CASE CrashBetween
    <2>1. Forget
      BY <1>28 DEF CrashBetween, Crash
    <2>2. QED
      BY <1>28, <2>1, ForgetType, SizesAssumption, BoundsAssumption
         DEF CrashBetween, Crash, AbandonSave
  <1>29. ASSUME NEW e \in Events, Submit(e) PROVE TypeOK'
    <2>1. deadLettered' \subseteq Events
      BY <1>29 DEF Submit
    <2>2. PICK v \in {"rejected", "lock"} : epc' = [epc EXCEPT ![e] = v]
      BY <1>29 DEF Submit
    <2>3. epc' \in [Procs -> Settled \cup {"idle", "lock", "check", "space",
                                           "send", "scan", "save", "rename"}]
      BY <2>2
    <2>4. UNCHANGED <<durable, delivered, phase, processedPos, channel, spoolMu,
                      eitem, worker, scan, posAhead, bounds>>
      BY <1>29 DEF Submit
    <2>5. QED
      BY <2>1, <2>3, <2>4
  <1>30. ASSUME NEW e \in Events, AppendRecord(e) PROVE TypeOK'
    BY <1>30, StoredType, SMTT(40) DEF AppendRecord, CanLock, Fits
  <1>31. ASSUME NEW e \in Events, AppendRejected(e) PROVE TypeOK'
    BY <1>31 DEF AppendRejected, CanLock
  <1>32. ASSUME NEW e \in Events, AppendFails(e) PROVE TypeOK'
    BY <1>32, PartType, BoundsAssumption DEF AppendFails, CanLock, Fits, Fault
  <1>33. ASSUME NEW e \in Events, SendPanics(e) PROVE TypeOK'
    BY <1>33 DEF SendPanics, Return
  <1>34. ASSUME NEW e \in Events, NoQueue(e) PROVE TypeOK'
    BY <1>34 DEF NoQueue, Return
  <1>35. ASSUME NEW e \in Events, EnqueueCancelled(e) PROVE TypeOK'
    <2>1. queueBytes' \in Int
      BY <1>35, SizesAssumption DEF EnqueueCancelled, ReleaseBytes, PayloadLen
    <2>2. deliverySpace' \in BOOLEAN
      BY <1>35 DEF EnqueueCancelled, ReleaseBytes
    <2>3. QED
      BY <1>35, <2>1, <2>2 DEF EnqueueCancelled, Return
  <1>36. ASSUME NEW e \in Events, CrashInWrite(e) PROVE TypeOK'
    <2>1. Forget
      BY <1>36 DEF CrashInWrite, Crash
    <2>2. file' \in Seq(Cell)
      BY <1>36, PartType DEF CrashInWrite
    <2>3. QED
      BY <1>36, <2>1, <2>2, ForgetType, SizesAssumption, BoundsAssumption, SMTT(40)
         DEF CrashInWrite, Crash, AbandonSave
  <1>37. ASSUME NEW p \in Procs, Reserve(p) PROVE TypeOK'
    BY <1>37, SizesAssumption, SMTT(40) DEF Reserve, FitsQueueBytes, PayloadLen
  <1>38. ASSUME NEW p \in Procs, WaitForSpace(p) PROVE TypeOK'
    BY <1>38 DEF WaitForSpace
  <1>39. ASSUME NEW p \in Procs, SpaceSignalled(p) PROVE TypeOK'
    BY <1>39, ZenonT(60) DEF SpaceSignalled
  <1>40. ASSUME NEW p \in Procs, Send(p) PROVE TypeOK'
    BY <1>40, QueueOps, SizesAssumption DEF Send, Return, QueueOpen
  <1>41. CASE UNCHANGED vars
    BY <1>41 DEF vars
  <1>42. QED
    BY <1>1, <1>2, <1>3, <1>4, <1>5, <1>6, <1>7, <1>8, <1>9, <1>10, <1>11,
       <1>12, <1>13, <1>14, <1>15, <1>16, <1>17, <1>18, <1>19, <1>20,
       <1>21, <1>22, <1>23, <1>24, <1>25, <1>26, <1>27, <1>28, <1>29,
       <1>30, <1>31, <1>32, <1>33, <1>34, <1>35, <1>36, <1>37, <1>38,
       <1>39, <1>40, <1>41
       DEF Next, ReplayStep, WorkerStep, WorkerMark, CloseStep, Enqueue, HandlerEnds

\* Every action keeps what the phases exclude.
LEMMA PhaseStep ==
    TypeOK /\ LockDiscipline /\ PhaseOK /\ [Next]_vars => PhaseOK'
  <1> SUFFICES ASSUME TypeOK /\ LockDiscipline /\ PhaseOK, [Next]_vars
               PROVE  PhaseOK'
    OBVIOUS
  <1> USE DEF TypeOK, PhaseOK, LockDiscipline, Enqueuing, durable, outcome,
              channel, enqueuer, worker, bounds, Procs, Settled, Free, Worker,
              Replay, NoEvent
  <1>1. CASE Start
    BY <1>1 DEF Start, DurablePos
  <1>2. CASE ReplayEmpty
    BY <1>2 DEF ReplayEmpty
  <1>3. CASE ReplayTruncate
    BY <1>3 DEF ReplayTruncate
  <1>4. CASE ReplaySaveRemove
    BY <1>4 DEF ReplaySaveRemove
  <1>5. CASE ReplaySaveRename
    BY <1>5 DEF ReplaySaveRename
  <1>6. CASE ReplayStart
    BY <1>6 DEF ReplayStart
  <1>7. CASE ReplayRead
    BY <1>7 DEF ReplayRead
  <1>8. CASE ReplayTooLong
    BY <1>8 DEF ReplayTooLong
  <1>9. CASE ReplayLine
    BY <1>9 DEF ReplayLine, TakeLine
  <1>10. CASE ReplayDone
    BY <1>10 DEF ReplayDone
  <1>11. CASE WorkerReceive
    BY <1>11 DEF WorkerReceive
  <1>12. CASE WorkerRelease
    BY <1>12 DEF WorkerRelease, ReleaseBytes
  <1>13. CASE WorkerDelivers
    BY <1>13 DEF WorkerDelivers
  <1>14. CASE WorkerFails
    BY <1>14 DEF WorkerFails, WorkerIdle
  <1>15. CASE WorkerSaveRemove
    BY <1>15 DEF WorkerSaveRemove
  <1>16. CASE WorkerSaveRename
    BY <1>16 DEF WorkerSaveRename, MarkReturns, WorkerIdle
  <1>17. CASE WorkerExit
    BY <1>17 DEF WorkerExit
  <1>18. CASE WorkerMarkRefused
    BY <1>18 DEF WorkerMarkRefused, WorkerIdle
  <1>19. CASE WorkerMarkAdvance
    BY <1>19 DEF WorkerMarkAdvance, Contiguous
  <1>20. CASE WorkerMarkTruncate
    BY <1>20 DEF WorkerMarkTruncate
  <1>21. CASE WorkerTruncateFails
    BY <1>21 DEF WorkerTruncateFails, WorkerIdle
  <1>22. CASE WorkerSaveFails
    BY <1>22 DEF WorkerSaveFails, MarkReturns, WorkerIdle
  <1>23. CASE BeginShutdown
    BY <1>23 DEF BeginShutdown
  <1>24. CASE CloseQueue
    BY <1>24 DEF CloseQueue
  <1>25. CASE DropQueue
    BY <1>25 DEF DropQueue
  <1>26. CASE CloseFile
    BY <1>26 DEF CloseFile
  <1>27. CASE Exit
    BY <1>27 DEF Exit, Forget
  <1>28. CASE CrashBetween
    BY <1>28 DEF CrashBetween, Crash, Forget
  <1>29. ASSUME NEW e \in Events, Submit(e) PROVE PhaseOK'
    BY <1>29 DEF Submit
  <1>30. ASSUME NEW e \in Events, AppendRecord(e) PROVE PhaseOK'
    BY <1>30 DEF AppendRecord, CanLock
  <1>31. ASSUME NEW e \in Events, AppendRejected(e) PROVE PhaseOK'
    BY <1>31 DEF AppendRejected, CanLock
  <1>32. ASSUME NEW e \in Events, AppendFails(e) PROVE PhaseOK'
    BY <1>32 DEF AppendFails, CanLock
  <1>33. ASSUME NEW e \in Events, SendPanics(e) PROVE PhaseOK'
    BY <1>33 DEF SendPanics, Return
  <1>34. ASSUME NEW e \in Events, NoQueue(e) PROVE PhaseOK'
    BY <1>34 DEF NoQueue, Return
  <1>35. ASSUME NEW e \in Events, EnqueueCancelled(e) PROVE PhaseOK'
    BY <1>35 DEF EnqueueCancelled, ReleaseBytes, Return
  <1>36. ASSUME NEW e \in Events, CrashInWrite(e) PROVE PhaseOK'
    BY <1>36 DEF CrashInWrite, CanLock, Crash, Forget
  <1>37. ASSUME NEW p \in Procs, Reserve(p) PROVE PhaseOK'
    BY <1>37 DEF Reserve
  <1>38. ASSUME NEW p \in Procs, WaitForSpace(p) PROVE PhaseOK'
    BY <1>38 DEF WaitForSpace
  <1>39. ASSUME NEW p \in Procs, SpaceSignalled(p) PROVE PhaseOK'
    BY <1>39 DEF SpaceSignalled
  <1>40. ASSUME NEW p \in Procs, Send(p) PROVE PhaseOK'
    BY <1>40 DEF Send, Return, QueueOpen
  <1>41. CASE UNCHANGED vars
    BY <1>41 DEF vars
  <1>42. QED
    BY <1>1, <1>2, <1>3, <1>4, <1>5, <1>6, <1>7, <1>8, <1>9, <1>10, <1>11,
       <1>12, <1>13, <1>14, <1>15, <1>16, <1>17, <1>18, <1>19, <1>20,
       <1>21, <1>22, <1>23, <1>24, <1>25, <1>26, <1>27, <1>28, <1>29,
       <1>30, <1>31, <1>32, <1>33, <1>34, <1>35, <1>36, <1>37, <1>38,
       <1>39, <1>40, <1>41
       DEF Next, ReplayStep, WorkerStep, WorkerMark, CloseStep, Enqueue, HandlerEnds

\* Every action keeps the discipline of spoolMu.
LEMMA LockStep ==
    TypeOK /\ LockDiscipline /\ PhaseOK /\ [Next]_vars => LockDiscipline'
  <1> SUFFICES ASSUME TypeOK /\ LockDiscipline /\ PhaseOK, [Next]_vars
               PROVE  LockDiscipline'
    OBVIOUS
  <1> USE DEF TypeOK, PhaseOK, LockDiscipline, Enqueuing, durable, outcome,
              channel, enqueuer, worker, bounds, Procs, Settled, Free, Worker,
              Replay
  <1>1. CASE Start
    BY <1>1 DEF Start, DurablePos
  <1>2. CASE ReplayEmpty
    BY <1>2 DEF ReplayEmpty
  <1>3. CASE ReplayTruncate
    BY <1>3 DEF ReplayTruncate
  <1>4. CASE ReplaySaveRemove
    BY <1>4 DEF ReplaySaveRemove
  <1>5. CASE ReplaySaveRename
    BY <1>5 DEF ReplaySaveRename
  <1>6. CASE ReplayStart
    BY <1>6 DEF ReplayStart
  <1>7. CASE ReplayRead
    BY <1>7 DEF ReplayRead
  <1>8. CASE ReplayTooLong
    BY <1>8 DEF ReplayTooLong
  <1>9. CASE ReplayLine
    BY <1>9 DEF ReplayLine, TakeLine
  <1>10. CASE ReplayDone
    BY <1>10 DEF ReplayDone
  <1>11. CASE WorkerReceive
    BY <1>11 DEF WorkerReceive
  <1>12. CASE WorkerRelease
    BY <1>12 DEF WorkerRelease, ReleaseBytes
  <1>13. CASE WorkerDelivers
    BY <1>13 DEF WorkerDelivers
  <1>14. CASE WorkerFails
    BY <1>14 DEF WorkerFails, WorkerIdle
  <1>15. CASE WorkerSaveRemove
    BY <1>15 DEF WorkerSaveRemove
  <1>16. CASE WorkerSaveRename
    BY <1>16, EventsAssumption DEF WorkerSaveRename, MarkReturns, WorkerIdle
  <1>17. CASE WorkerExit
    BY <1>17 DEF WorkerExit
  <1>18. CASE WorkerMarkRefused
    BY <1>18 DEF WorkerMarkRefused, WorkerIdle
  <1>19. CASE WorkerMarkAdvance
    BY <1>19, EventsAssumption DEF WorkerMarkAdvance, Contiguous
  <1>20. CASE WorkerMarkTruncate
    BY <1>20, EventsAssumption DEF WorkerMarkTruncate
  <1>21. CASE WorkerTruncateFails
    BY <1>21 DEF WorkerTruncateFails, WorkerIdle
  <1>22. CASE WorkerSaveFails
    BY <1>22, EventsAssumption DEF WorkerSaveFails, MarkReturns, WorkerIdle
  <1>23. CASE BeginShutdown
    BY <1>23 DEF BeginShutdown
  <1>24. CASE CloseQueue
    BY <1>24 DEF CloseQueue
  <1>25. CASE DropQueue
    BY <1>25 DEF DropQueue
  <1>26. CASE CloseFile
    BY <1>26 DEF CloseFile
  <1>27. CASE Exit
    BY <1>27, EventsAssumption DEF Exit, Forget
  <1>28. CASE CrashBetween
    BY <1>28, EventsAssumption DEF CrashBetween, Crash, Forget
  <1>29. ASSUME NEW e \in Events, Submit(e) PROVE LockDiscipline'
    BY <1>29 DEF Submit
  <1>30. ASSUME NEW e \in Events, AppendRecord(e) PROVE LockDiscipline'
    BY <1>30, EventsAssumption DEF AppendRecord, CanLock
  <1>31. ASSUME NEW e \in Events, AppendRejected(e) PROVE LockDiscipline'
    BY <1>31 DEF AppendRejected, CanLock
  <1>32. ASSUME NEW e \in Events, AppendFails(e) PROVE LockDiscipline'
    BY <1>32 DEF AppendFails, CanLock
  <1>33. ASSUME NEW e \in Events, SendPanics(e) PROVE LockDiscipline'
    BY <1>33, EventsAssumption DEF SendPanics, Return
  <1>34. ASSUME NEW e \in Events, NoQueue(e) PROVE LockDiscipline'
    BY <1>34, EventsAssumption DEF NoQueue, Return
  <1>35. ASSUME NEW e \in Events, EnqueueCancelled(e) PROVE LockDiscipline'
    BY <1>35, EventsAssumption DEF EnqueueCancelled, ReleaseBytes, Return
  <1>36. ASSUME NEW e \in Events, CrashInWrite(e) PROVE LockDiscipline'
    BY <1>36, EventsAssumption DEF CrashInWrite, CanLock, Crash, Forget
  <1>37. ASSUME NEW p \in Procs, Reserve(p) PROVE LockDiscipline'
    BY <1>37 DEF Reserve
  <1>38. ASSUME NEW p \in Procs, WaitForSpace(p) PROVE LockDiscipline'
    BY <1>38 DEF WaitForSpace
  <1>39. ASSUME NEW p \in Procs, SpaceSignalled(p) PROVE LockDiscipline'
    BY <1>39 DEF SpaceSignalled
  <1>40. ASSUME NEW p \in Procs, Send(p) PROVE LockDiscipline'
    BY <1>40, EventsAssumption DEF Send, Return, QueueOpen
  <1>41. CASE UNCHANGED vars
    BY <1>41 DEF vars
  <1>42. QED
    BY <1>1, <1>2, <1>3, <1>4, <1>5, <1>6, <1>7, <1>8, <1>9, <1>10, <1>11,
       <1>12, <1>13, <1>14, <1>15, <1>16, <1>17, <1>18, <1>19, <1>20,
       <1>21, <1>22, <1>23, <1>24, <1>25, <1>26, <1>27, <1>28, <1>29,
       <1>30, <1>31, <1>32, <1>33, <1>34, <1>35, <1>36, <1>37, <1>38,
       <1>39, <1>40, <1>41
       DEF Next, ReplayStep, WorkerStep, WorkerMark, CloseStep, Enqueue, HandlerEnds

\* The initial states, a collector that is down with an empty spool, satisfy
\* the invariant.
LEMMA InitInv == Init => IInv
  <1> SUFFICES ASSUME Init PROVE IInv
    OBVIOUS
  <1> USE EventsAssumption, SizesAssumption, BoundsAssumption
      DEF Init, Procs, Settled, NoPos, Free, Worker, Replay, NoEvent
  <1>1. TypeOK
    <2>1. NoItem \in Item
      BY DEF NoItem, Item
    <2>2. NoScan \in Scan
      BY DEF NoScan, Scan
    <2>3. eitem \in [Procs -> Item]
      BY <2>1
    <2>4. epc \in [Procs -> Settled \cup {"idle", "lock", "check", "space", "send",
                                          "scan", "save", "rename"}]
      BY DEF Settled
    <2>5. /\ file \in Seq(Cell) /\ queue \in Seq(Item) /\ Len(queue) <= QueueSize
          /\ crashes \in 0 .. MaxCrashes /\ restarts \in 0 .. MaxRestarts
          /\ faults \in 0 .. MaxFaults
      OBVIOUS
    <2>6. wpc = "none" /\ phase = "down" /\ witem \in Item /\ scan \in Scan
      BY <2>1, <2>2
    <2>7. /\ posFile \in Nat \cup {NoPos} /\ processedPos \in Nat /\ queueBytes \in Int
          /\ quarantined \subseteq Events /\ delivered \subseteq Events
          /\ deadLettered \subseteq Events
          /\ spoolMu \in Events \cup {Worker, Free}
      OBVIOUS
    <2>8. deliverySpace \in BOOLEAN /\ posAhead \in BOOLEAN
      OBVIOUS
    <2> HIDE DEF Init
    <2>9. QED
      BY <2>3, <2>4, <2>5, <2>6, <2>7, <2>8 DEF TypeOK
  <1>2. LockDiscipline
    BY DEF LockDiscipline, Enqueuing
  <1>3. PhaseOK
    BY DEF PhaseOK
  <1>4. PosFileOK
    BY DEF PosFileOK
  <1>5. ScanOK
    BY DEF ScanOK
  <1>6. PipeInOrder
    BY DEF PipeInOrder, QueueInOrder, WorkerInOrder, EnqueueInOrder,
           Enqueuing, Working
  <1>7. QED
    BY <1>1, <1>2, <1>3, <1>4, <1>5, <1>6 DEF IInv

\* Every action keeps the position on disk within the file, unless the save of
\* an emptied file's position is under way or was given up on.
LEMMA PosFileStep ==
    IInv /\ [Next]_vars => PosFileOK'
  <1> SUFFICES ASSUME IInv, [Next]_vars
               PROVE  PosFileOK'
    OBVIOUS
  <1> USE DEF IInv, TypeOK, PhaseOK, PipeInOrder, LockDiscipline, PosFileOK,
              Enqueuing, durable, outcome, channel, enqueuer, worker, bounds,
              Procs, Settled, Free, Worker, Replay, NoPos
  <1>1. CASE Start
    BY <1>1 DEF Start, DurablePos
  <1>2. CASE ReplayEmpty
    BY <1>2 DEF ReplayEmpty
  <1>3. CASE ReplayTruncate
    BY <1>3 DEF ReplayTruncate
  <1>4. CASE ReplaySaveRemove
    BY <1>4 DEF ReplaySaveRemove
  <1>5. CASE ReplaySaveRename
    BY <1>5 DEF ReplaySaveRename
  <1>6. CASE ReplayStart
    BY <1>6 DEF ReplayStart
  <1>7. CASE ReplayRead
    BY <1>7 DEF ReplayRead
  <1>8. CASE ReplayTooLong
    BY <1>8 DEF ReplayTooLong
  <1>9. CASE ReplayLine
    BY <1>9 DEF ReplayLine, TakeLine
  <1>10. CASE ReplayDone
    BY <1>10 DEF ReplayDone
  <1>11. CASE WorkerReceive
    BY <1>11 DEF WorkerReceive
  <1>12. CASE WorkerRelease
    BY <1>12 DEF WorkerRelease, ReleaseBytes
  <1>13. CASE WorkerDelivers
    BY <1>13 DEF WorkerDelivers
  <1>14. CASE WorkerFails
    BY <1>14 DEF WorkerFails, WorkerIdle
  <1>15. CASE WorkerSaveRemove
    BY <1>15 DEF WorkerSaveRemove
  <1>16. CASE WorkerSaveRename
    BY <1>16 DEF WorkerSaveRename, MarkReturns, WorkerIdle
  <1>17. CASE WorkerExit
    BY <1>17 DEF WorkerExit
  <1>18. CASE WorkerMarkRefused
    BY <1>18 DEF WorkerMarkRefused, WorkerIdle
  <1>19. CASE WorkerMarkAdvance
    BY <1>19 DEF WorkerMarkAdvance, Contiguous
  <1>20. CASE WorkerMarkTruncate
    BY <1>20 DEF WorkerMarkTruncate
  <1>21. CASE WorkerTruncateFails
    BY <1>21 DEF WorkerTruncateFails, WorkerIdle
  <1>22. CASE WorkerSaveFails
    <2>1. ~posAhead' => posFile <= Len(file)
      BY <1>22, AbandonType DEF WorkerSaveFails
    <2>2. QED
      BY <1>22, <2>1 DEF WorkerSaveFails
  <1>23. CASE BeginShutdown
    BY <1>23 DEF BeginShutdown
  <1>24. CASE CloseQueue
    BY <1>24 DEF CloseQueue
  <1>25. CASE DropQueue
    BY <1>25 DEF DropQueue
  <1>26. CASE CloseFile
    BY <1>26 DEF CloseFile
  <1>27. CASE Exit
    BY <1>27 DEF Exit, Forget
  <1>28. CASE CrashBetween
    <2>1. ~posAhead' => posFile <= Len(file)
      BY <1>28, AbandonType DEF CrashBetween, Crash
    <2>2. QED
      BY <1>28, <2>1 DEF CrashBetween
  <1>29. ASSUME NEW e \in Events, Submit(e) PROVE PosFileOK'
    BY <1>29 DEF Submit
  <1>30. ASSUME NEW e \in Events, AppendRecord(e) PROVE PosFileOK'
    BY <1>30, StoredType, AppendMore DEF AppendRecord, CanLock
  <1>31. ASSUME NEW e \in Events, AppendRejected(e) PROVE PosFileOK'
    BY <1>31 DEF AppendRejected, CanLock
  <1>32. ASSUME NEW e \in Events, AppendFails(e) PROVE PosFileOK'
    BY <1>32, PartType DEF AppendFails, CanLock
  <1>33. ASSUME NEW e \in Events, SendPanics(e) PROVE PosFileOK'
    BY <1>33 DEF SendPanics, Return
  <1>34. ASSUME NEW e \in Events, NoQueue(e) PROVE PosFileOK'
    BY <1>34 DEF NoQueue, Return
  <1>35. ASSUME NEW e \in Events, EnqueueCancelled(e) PROVE PosFileOK'
    BY <1>35 DEF EnqueueCancelled, ReleaseBytes, Return
  <1>36. ASSUME NEW e \in Events, CrashInWrite(e) PROVE PosFileOK'
    <2>1. ~posAhead' => posFile <= Len(file)
      BY <1>36, AbandonType DEF CrashInWrite, Crash
    <2>2. Len(file) <= Len(file')
      BY <1>36, PartType DEF CrashInWrite
    <2>3. QED
      BY <1>36, <2>1, <2>2 DEF CrashInWrite
  <1>37. ASSUME NEW p \in Procs, Reserve(p) PROVE PosFileOK'
    BY <1>37 DEF Reserve
  <1>38. ASSUME NEW p \in Procs, WaitForSpace(p) PROVE PosFileOK'
    BY <1>38 DEF WaitForSpace
  <1>39. ASSUME NEW p \in Procs, SpaceSignalled(p) PROVE PosFileOK'
    BY <1>39 DEF SpaceSignalled
  <1>40. ASSUME NEW p \in Procs, Send(p) PROVE PosFileOK'
    BY <1>40 DEF Send, Return, QueueOpen
  <1>41. CASE UNCHANGED vars
    BY <1>41 DEF vars
  <1>42. QED
    BY <1>1, <1>2, <1>3, <1>4, <1>5, <1>6, <1>7, <1>8, <1>9, <1>10, <1>11,
       <1>12, <1>13, <1>14, <1>15, <1>16, <1>17, <1>18, <1>19, <1>20,
       <1>21, <1>22, <1>23, <1>24, <1>25, <1>26, <1>27, <1>28, <1>29,
       <1>30, <1>31, <1>32, <1>33, <1>34, <1>35, <1>36, <1>37, <1>38,
       <1>39, <1>40, <1>41
       DEF Next, ReplayStep, WorkerStep, WorkerMark, CloseStep, Enqueue, HandlerEnds

\* What follows is the argument for the order of what is on its way to the
\* worker, one lemma for every action that moves an item.

\* At most one item is being enqueued.
LEMMA OneEnqueuer ==
    ASSUME LockDiscipline, PhaseOK, NEW p \in Procs, NEW q \in Procs,
           Enqueuing(p), Enqueuing(q)
    PROVE  p = q
  <1>1. \A e \in Events : Enqueuing(e) => phase # "replay" /\ spoolMu = e
    BY DEF LockDiscipline, PhaseOK, Enqueuing, Settled
  <1>2. Enqueuing(Replay) => phase = "replay"
    BY DEF PhaseOK, Enqueuing
  <1>3. QED
    BY <1>1, <1>2 DEF Procs

\* deliveryQueue <- item.
LEMMA SendOrder ==
    ASSUME TypeOK, LockDiscipline, PhaseOK, NEW p \in Procs, Send(p),
           QueueInOrder, WorkerInOrder, EnqueueInOrder
    PROVE  QueueInOrder' /\ WorkerInOrder' /\ EnqueueInOrder'
  <1>1. /\ Enqueuing(p) /\ queue' = Append(queue, eitem[p])
        /\ UNCHANGED <<file, processedPos, wpc, witem>>
        /\ eitem' = [eitem EXCEPT ![p] = NoItem]
    BY DEF Send, Return, Enqueuing, durable, worker
  <1>2. /\ DOMAIN queue = 1 .. Len(queue) /\ Len(queue) \in Nat
        /\ DOMAIN queue' = 1 .. Len(queue) + 1
        /\ \A i \in DOMAIN queue : queue'[i] = queue[i]
        /\ queue'[Len(queue) + 1] = eitem[p]
    BY <1>1, QueueOps DEF TypeOK
  <1>3. /\ InFile(eitem[p])
        /\ \A i \in DOMAIN queue : Before(queue[i], eitem[p])
        /\ Working => Before(witem, eitem[p])
    BY <1>1 DEF EnqueueInOrder
  <1>4. \A x : InFile(x)' <=> InFile(x)
    BY <1>1 DEF InFile
  <1>5. QueueInOrder'
    BY <1>2, <1>3, <1>1 DEF QueueInOrder, InFile, Before
  <1>6. WorkerInOrder'
    BY <1>1, <1>2, <1>3 DEF WorkerInOrder, InFile, Before, Working
  <1>7. \A q \in Procs : ~Enqueuing(q)'
    <2>1. ~Enqueuing(p)'
      BY DEF Send, Return, Enqueuing, TypeOK, Procs, Replay
    <2>2. ASSUME NEW q \in Procs, q # p, Enqueuing(q)' PROVE FALSE
      <3>1. Enqueuing(q)
        BY <2>2 DEF Send, Return, Enqueuing, TypeOK
      <3>2. QED
        BY <1>1, <2>2, <3>1, OneEnqueuer
    <2>3. QED
      BY <2>1, <2>2
  <1>8. QED
    BY <1>5, <1>6, <1>7 DEF EnqueueInOrder

\* item := <-deliveryQueue.
LEMMA ReceiveOrder ==
    ASSUME TypeOK, WorkerReceive, QueueInOrder, EnqueueInOrder
    PROVE  QueueInOrder' /\ WorkerInOrder' /\ EnqueueInOrder'
  <1>1. /\ queue # <<>> /\ queue' = Tail(queue) /\ witem' = queue[1]
        /\ UNCHANGED <<file, processedPos, epc, eitem>>
    BY QueueOps DEF WorkerReceive, TypeOK, durable, enqueuer
  <1>2. /\ 1 \in DOMAIN queue
        /\ \A i \in DOMAIN queue' : /\ queue'[i] = queue[i + 1]
                                    /\ i + 1 \in DOMAIN queue /\ 1 < i + 1
        /\ \A i, j \in DOMAIN queue' : i < j => i + 1 < j + 1
    BY <1>1, QueueOps DEF TypeOK
  <1>3. QueueInOrder'
    BY <1>1, <1>2 DEF QueueInOrder, InFile, Before
  <1>4. WorkerInOrder'
    BY <1>1, <1>2 DEF QueueInOrder, WorkerInOrder, InFile, Before
  <1>5. EnqueueInOrder'
    BY <1>1, <1>2 DEF EnqueueInOrder, InFile, Before, Enqueuing
  <1>6. QED
    BY <1>3, <1>4, <1>5

\* The file grows and nothing moves: what is in the file stays in it.
LEMMA GrowOrder ==
    ASSUME TypeOK, file' \in Seq(Cell), Len(file) <= Len(file'),
           UNCHANGED <<processedPos, queue, wpc, witem>>
    PROVE  /\ \A x \in Item : InFile(x) => InFile(x)'
           /\ QueueInOrder => QueueInOrder'
           /\ WorkerInOrder => WorkerInOrder'
           /\ EnqueueInOrder /\ UNCHANGED eitem
                /\ (\A p \in Procs : Enqueuing(p)' => Enqueuing(p))
                => EnqueueInOrder'
  <1>1. /\ queue \in Seq(Item) /\ witem \in Item /\ eitem \in [Procs -> Item]
        /\ Len(file) \in Nat /\ Len(file') \in Nat
        /\ \A x \in Item : x.end \in Nat
    BY DEF TypeOK, Item
  <1>2. \A x \in Item : InFile(x) => InFile(x)'
    BY <1>1 DEF InFile
  <1>3. \A i \in DOMAIN queue : queue[i] \in Item
    BY <1>1
  <1>4. QueueInOrder => QueueInOrder'
    BY <1>2, <1>3 DEF QueueInOrder, Before
  <1>5. WorkerInOrder => WorkerInOrder'
    BY <1>1, <1>2 DEF WorkerInOrder, Before, Working
  <1>6. EnqueueInOrder /\ UNCHANGED eitem
           /\ (\A p \in Procs : Enqueuing(p)' => Enqueuing(p))
           => EnqueueInOrder'
    BY <1>1, <1>2 DEF EnqueueInOrder, Before, Working
  <1>7. QED
    BY <1>2, <1>4, <1>5, <1>6

\* The record a handler writes comes after all that is on its way.
LEMMA AppendOrder ==
    ASSUME TypeOK, LockDiscipline, PhaseOK, NEW e \in Events, AppendRecord(e),
           processedPos <= Len(file), QueueInOrder, WorkerInOrder
    PROVE  QueueInOrder' /\ WorkerInOrder' /\ EnqueueInOrder'
  <1>1. /\ file' \in Seq(Cell) /\ Len(file') = Len(file) + StoredLen(e)
        /\ StoredLen(e) \in Nat \ {0} /\ Len(file) \in Nat
    BY AppendMore, StoredType DEF AppendRecord, TypeOK
  <1>2. /\ UNCHANGED <<processedPos, queue, wpc, witem>>
        /\ epc' = [epc EXCEPT ![e] = "check"]
        /\ eitem' = [eitem EXCEPT ![e] =
                       [ev |-> e, start |-> Len(file),
                        end |-> Len(file) + StoredLen(e)]]
    BY DEF AppendRecord, channel, worker
  <1>3. QueueInOrder' /\ WorkerInOrder'
    BY <1>1, <1>2, GrowOrder
  <1>4. /\ eitem'[e].start = Len(file) /\ eitem'[e].end = Len(file')
        /\ e \in Procs
    BY <1>1, <1>2 DEF TypeOK, Procs
  <1>5. \A p \in Procs : Enqueuing(p)' => p = e
    <2>1. \A p \in Procs : p # e /\ Enqueuing(p)' => Enqueuing(p)
      BY <1>2 DEF Enqueuing, TypeOK
    <2>2. \A p \in Procs : ~Enqueuing(p)
      BY EventsAssumption
         DEF AppendRecord, CanLock, LockDiscipline, PhaseOK, Enqueuing, Procs,
                              Settled, Free
    <2>3. QED
      BY <2>1, <2>2
  <1>6. InFile(eitem[e])'
    BY <1>1, <1>2, <1>4 DEF InFile
  <1>7. \A i \in DOMAIN queue : Before(queue[i], eitem'[e])
    BY <1>4, ItemType DEF QueueInOrder, InFile, Before
  <1>8. Working => Before(witem, eitem'[e])
    BY <1>4, ItemType DEF WorkerInOrder, InFile, Before
  <1>9. EnqueueInOrder'
    BY <1>2, <1>5, <1>6, <1>7, <1>8 DEF EnqueueInOrder, Before, Working
  <1>10. QED
    BY <1>3, <1>9

\* When the worker empties the file nothing else is on its way: what would be
\* comes after the item it marks, and that one ends the file.
LEMMA NothingBehind ==
    ASSUME TypeOK, WorkerMarkTruncate, QueueInOrder, WorkerInOrder, EnqueueInOrder
    PROVE  queue = <<>> /\ \A p \in Procs : ~Enqueuing(p)
  <1>1. Working /\ witem.end = Len(file)
    BY DEF WorkerMarkTruncate, Working
  <1>2. ASSUME NEW i \in DOMAIN queue PROVE FALSE
    <2>1. InFile(queue[i]) /\ Before(witem, queue[i])
      BY <1>1 DEF QueueInOrder, WorkerInOrder
    <2>2. QED
      BY <1>1, <2>1, ItemType DEF InFile, Before
  <1>3. ASSUME NEW p \in Procs, Enqueuing(p) PROVE FALSE
    <2>1. InFile(eitem[p]) /\ Before(witem, eitem[p])
      BY <1>1, <1>3 DEF EnqueueInOrder
    <2>2. QED
      BY <1>1, <2>1, ItemType DEF InFile, Before
  <1>4. Len(queue) # 0 => 1 \in DOMAIN queue
    BY ItemType
  <1>5. queue = <<>>
    BY <1>2, <1>4, ItemType
  <1>6. QED
    BY <1>3, <1>5

\* The line the replay takes comes after all that is on its way.
LEMMA TakeOrder ==
    ASSUME IInv, ReplayLine, ~posAhead
    PROVE  QueueInOrder' /\ WorkerInOrder' /\ EnqueueInOrder'
  <1> USE DEF IInv
  <1>1. PICK len \in 0 .. Len(scan.buf) : NextLine(len) /\ TakeLine(len)
    BY DEF ReplayLine
  <1>2. /\ epc[Replay] = "scan" /\ epc' = [epc EXCEPT ![Replay] = "check"]
        /\ UNCHANGED <<file, processedPos, queue, wpc, witem>>
    BY DEF ReplayLine, channel, worker
  <1>3. /\ scan.next + Len(scan.buf) <= scan.size
        /\ processedPos <= scan.next
        /\ \A i \in DOMAIN queue : queue[i].end <= scan.next
        /\ Working => witem.end <= scan.next
        /\ \/ scan.size = Len(file)
           \/ file = <<>> /\ scan.next = scan.size
    BY <1>2 DEF ScanOK, PipeInOrder
  <1>4. /\ scan.next < scan'.next /\ scan'.next + Len(scan'.buf) <= scan.size
        /\ eitem'[Replay].start = scan.next /\ eitem'[Replay].end = scan'.next
    BY <1>1, <1>3, TakeFacts DEF TypeOK
  <1>5. scan' \in Scan
    BY <1>1, TakeType DEF TypeOK
  <1>6. scan'.next \in Nat /\ Len(scan'.buf) \in Nat
    BY <1>5 DEF Scan
  <1>7. scan.size = Len(file) /\ scan'.next <= Len(file)
    BY <1>3, <1>4, <1>6, ItemType
  <1>8. InFile(eitem[Replay])'
    BY <1>2, <1>3, <1>4, <1>6, <1>7 DEF InFile
  <1>9. \A p \in Procs : Enqueuing(p)' => p = Replay
    <2>1. phase = "replay" /\ UNCHANGED phase
      BY <1>2 DEF PhaseOK, ReplayLine
    <2>2. \A e \in Events : ~Enqueuing(e)
      BY <2>1 DEF PhaseOK, Enqueuing, Settled
    <2>3. \A e \in Events : Enqueuing(e)' => Enqueuing(e)
      BY <1>2, EventsAssumption DEF Enqueuing, Procs, TypeOK
    <2>4. QED
      BY <2>2, <2>3 DEF Procs
  <1>10. EnqueueInOrder'
    BY <1>2, <1>3, <1>4, <1>8, <1>9 DEF EnqueueInOrder, Before, Working
  <1>11. QueueInOrder' /\ WorkerInOrder'
    BY <1>2
       DEF PipeInOrder, QueueInOrder, WorkerInOrder, InFile, Before, Working
  <1>12. QED
    BY <1>10, <1>11

\* The replay's scanner, one lemma for every action that ScanOK follows.

\* A read by the scanner takes the bytes that follow the ones it has, or finds
\* the end of the file.
LEMMA ReadScan ==
    ASSUME IInv, ReplayRead PROVE ScanOK'
  <1> SUFFICES ASSUME ~posAhead' PROVE ScanOK'
    BY DEF ScanOK
  <1>1. /\ UNCHANGED <<file, processedPos, queue, wpc, witem, epc, eitem, posAhead>>
        /\ epc[Replay] = "scan" /\ ~scan.eof
    BY DEF ReplayRead, durable, channel, worker, enqueuer
  <1>2. TypeOK /\ ScanOK
    BY DEF IInv
  <1>3. CASE scan' = [scan EXCEPT !.eof = TRUE]
    <2>1. scan'.eof /\ scan'.next = scan.next /\ scan'.size = scan.size
          /\ scan'.buf = scan.buf
      BY <1>2, <1>3 DEF TypeOK, Scan
    <2>2. QED
      BY <1>1, <1>2, <2>1 DEF ScanOK, Working, Enqueuing
  <1>4. ASSUME NEW n \in 1 .. MaxEventBytes - Len(scan.buf),
               n <= Len(file) - scan.off,
               scan' = [scan EXCEPT
                          !.buf = @ \o SubSeq(file, scan.off + 1, scan.off + n),
                          !.off = @ + n]
        PROVE  ScanOK'
    <2>0. n \in Nat \ {0}
      OBVIOUS
    <2>1. Len(scan'.buf) = Len(scan.buf) + n /\ scan'.off = scan.off + n
          /\ scan'.next = scan.next /\ scan'.size = scan.size
      BY <1>2, <1>4, <2>0, ReadBytes DEF TypeOK, Scan
    <2>2. /\ scan.off = scan.next + Len(scan.buf)
          /\ Len(file) <= scan.size
      BY <1>1, <1>2, <1>4, <2>0, ItemType DEF ScanOK
    <2>3. scan'.next + Len(scan'.buf) <= scan'.size
          /\ scan'.off = scan'.next + Len(scan'.buf)
      <3>1. /\ scan.next \in Nat /\ scan.size \in Nat /\ scan.off \in Nat
            /\ Len(file) \in Nat /\ Len(scan.buf) \in Nat
        BY <1>2, ItemType
      <3>2. scan.off + n <= scan.size
        BY <1>4, <2>0, <2>2, <3>1
      <3>3. scan.next + (Len(scan.buf) + n) = scan.off + n
        BY <2>0, <2>2, <3>1
      <3>4. QED
        BY <2>1, <3>2, <3>3
    <2>4. QED
      BY <1>1, <1>2, <2>1, <2>3 DEF ScanOK, Working, Enqueuing
  <1>5. QED
    BY <1>3, <1>4 DEF ReplayRead

\* The line taken moves the scanner to its end and nothing handed out lies
\* behind it.
LEMMA TakeScan ==
    ASSUME IInv, ReplayLine PROVE ScanOK'
  <1> SUFFICES ASSUME ~posAhead' PROVE ScanOK'
    BY DEF ScanOK
  <1>1. PICK len \in 0 .. Len(scan.buf) : NextLine(len) /\ TakeLine(len)
    BY DEF ReplayLine
  <1>2. /\ epc[Replay] = "scan"
        /\ UNCHANGED <<file, processedPos, queue, wpc, witem, posAhead>>
    BY DEF ReplayLine, channel, worker
  <1>3. TypeOK /\ ScanOK
    BY DEF IInv
  <1>4. /\ scan.next + Len(scan.buf) <= scan.size
        /\ scan.off = scan.next + Len(scan.buf) \/ scan.off >= Len(file) \/ scan.eof
        /\ processedPos <= scan.next
        /\ \A i \in DOMAIN queue : queue[i].end <= scan.next
        /\ Working => witem.end <= scan.next
        /\ scan.size = Len(file) \/ scan.next = scan.size
    BY <1>2, <1>3 DEF ScanOK
  <1>5. /\ scan.next < scan'.next /\ scan'.next + Len(scan'.buf) <= scan'.size
        /\ scan'.size = scan.size /\ scan'.off = scan.off /\ scan'.eof = scan.eof
        /\ scan'.next + Len(scan'.buf) = scan.next + Len(scan.buf) \/ scan.eof
        /\ eitem'[Replay].end = scan'.next
    BY <1>1, <1>3, <1>4, TakeFacts DEF TypeOK
  <1>6. scan'.next \in Nat /\ Len(scan'.buf) \in Nat
    BY <1>1, <1>3, TakeType DEF TypeOK, Scan
  <1>7. scan'.size = Len(file)
    BY <1>3, <1>4, <1>5, <1>6, ItemType
  <1>8. /\ processedPos <= scan'.next
        /\ \A i \in DOMAIN queue : queue[i].end <= scan'.next
        /\ Working => witem.end <= scan'.next
    BY <1>3, <1>4, <1>5, <1>6, ItemType
  <1>9. scan'.off = scan'.next + Len(scan'.buf) \/ scan'.off >= Len(file) \/ scan'.eof
    BY <1>4, <1>5
  <1> DEFINE stands == scan'.next + Len(scan'.buf)
  <1>10. stands <= scan'.size
    BY <1>5
  <1>11. QED
    BY <1>2, <1>5, <1>6, <1>7, <1>8, <1>9, <1>10 DEF ScanOK, Working, Enqueuing

\* The line the replay puts on the queue ends where the scanner stands.
LEMMA SendScan ==
    ASSUME IInv, NEW p \in Procs, Send(p) PROVE ScanOK'
  <1> SUFFICES ASSUME ~posAhead', epc'[Replay] \in {"scan", "check", "space", "send"}
               PROVE  ScanOK'
    BY DEF ScanOK
  <1>1. /\ queue' = Append(queue, eitem[p]) /\ epc[p] = "send"
        /\ UNCHANGED <<file, processedPos, wpc, witem, posAhead, phase, scan>>
    BY DEF Send, Return, durable, worker
  <1>2. TypeOK /\ ScanOK /\ LockDiscipline /\ PhaseOK
    BY DEF IInv
  <1>3. p = Replay
    <2>1. p # Replay => p \in Events /\ phase # "replay"
      BY <1>1, <1>2 DEF Procs, PhaseOK, Settled
    <2>2. p # Replay => epc'[Replay] = epc[Replay] /\ epc[Replay] = "idle"
      BY <1>2, <2>1 DEF Send, Return, PhaseOK, TypeOK, Procs
    <2>3. QED
      BY <2>2
  <1>4. epc'[Replay] = "scan"
    BY <1>2, <1>3 DEF Send, Return, TypeOK, Procs
  <1>5. /\ DOMAIN queue' = 1 .. Len(queue) + 1
        /\ \A i \in DOMAIN queue : queue'[i] = queue[i]
        /\ queue'[Len(queue) + 1] = eitem[p]
    BY <1>1, <1>2, QueueOps DEF TypeOK
  <1>6. eitem[Replay].end <= scan.next /\ scan.size = Len(file)
    BY <1>1, <1>2, <1>3 DEF ScanOK, Enqueuing
  <1>7. \A i \in DOMAIN queue' : queue'[i].end <= scan.next
    BY <1>1, <1>2, <1>3, <1>5, <1>6, ItemType DEF ScanOK
  <1>8. QED
    BY <1>1, <1>2, <1>3, <1>4, <1>6, <1>7 DEF ScanOK, Working, Enqueuing

\* What the worker receives was handed out by the scanner.
LEMMA ReceiveScan ==
    ASSUME IInv, WorkerReceive PROVE ScanOK'
  <1> SUFFICES ASSUME ~posAhead', epc'[Replay] \in {"scan", "check", "space", "send"}
               PROVE  ScanOK'
    BY DEF ScanOK
  <1>1. TypeOK /\ ScanOK
    BY DEF IInv
  <1>2. /\ queue # <<>> /\ queue' = Tail(queue) /\ witem' = queue[1]
        /\ UNCHANGED <<file, processedPos, epc, eitem, posAhead, scan>>
    BY <1>1, QueueOps DEF WorkerReceive, TypeOK, durable, enqueuer
  <1>3. /\ 1 \in DOMAIN queue
        /\ \A i \in DOMAIN queue' : queue'[i] = queue[i + 1] /\ i + 1 \in DOMAIN queue
    BY <1>1, <1>2, QueueOps DEF TypeOK
  <1>4. QED
    BY <1>1, <1>2, <1>3 DEF ScanOK, Enqueuing

\* The worker empties the file under the scanner only after the last line was
\* handed out.
LEMMA TruncateScan ==
    ASSUME IInv, WorkerMarkTruncate PROVE ScanOK'
  <1> SUFFICES ASSUME ~posAhead', epc'[Replay] \in {"scan", "check", "space", "send"}
               PROVE  ScanOK'
    BY DEF ScanOK
  <1>1. TypeOK /\ ScanOK /\ PipeInOrder
    BY DEF IInv
  <1>2. /\ Working /\ witem.end = Len(file) /\ file' = <<>> /\ processedPos' = 0
        /\ UNCHANGED <<queue, epc, eitem, posAhead>> /\ Seek(0) /\ wpc' = "save"
    BY DEF WorkerMarkTruncate, Working, channel, enqueuer
  <1>3. queue = <<>> /\ \A p \in Procs : ~Enqueuing(p)
    BY <1>1, <1>2, NothingBehind DEF PipeInOrder
  <1>4. /\ scan'.buf = scan.buf /\ scan'.next = scan.next /\ scan'.size = scan.size
        /\ scan'.off \in Nat /\ scan'.eof = scan.eof
    BY <1>1, <1>2, SeekType DEF TypeOK, Scan
  <1>5. /\ scan.next + Len(scan.buf) <= scan.size /\ witem.end <= scan.next
        /\ scan.size = Len(file)
    BY <1>1, <1>2 DEF ScanOK
  <1>6. scan.next = scan.size
    BY <1>1, <1>2, <1>5, ItemType
  <1>7. Len(file') = 0
    BY <1>2
  <1>8. ~Working' /\ ~Enqueuing(Replay)'
    BY <1>2, <1>3 DEF Working, Enqueuing, Procs
  <1>9. QED
    BY <1>1, <1>2, <1>3, <1>4, <1>5, <1>6, <1>7, <1>8, ItemType DEF ScanOK

\* Every action keeps what is known of the scanner.
LEMMA ScanStep ==
    IInv /\ [Next]_vars => ScanOK'
  <1> SUFFICES ASSUME IInv, [Next]_vars
               PROVE  ScanOK'
    OBVIOUS
  <1> USE DEF IInv, TypeOK, PhaseOK, LockDiscipline, PosFileOK, ScanOK,
              PipeInOrder, QueueInOrder, WorkerInOrder, EnqueueInOrder, InFile,
              Before, Enqueuing, Working, durable, outcome, channel, enqueuer,
              worker, bounds, Procs, Settled, Free, Worker, Replay, NoPos
  <1>1. CASE Start
    BY <1>1 DEF Start, DurablePos, DurablePos
  <1>2. CASE ReplayEmpty
    BY <1>2 DEF ReplayEmpty
  <1>3. CASE ReplayTruncate
    BY <1>3 DEF ReplayTruncate
  <1>4. CASE ReplaySaveRemove
    BY <1>4 DEF ReplaySaveRemove
  <1>5. CASE ReplaySaveRename
    BY <1>5 DEF ReplaySaveRename
  <1>6. CASE ReplayStart
    BY <1>6 DEF ReplayStart
  <1>7. CASE ReplayRead
    <2> HIDE DEF IInv, ScanOK
    <2>1. QED
      BY <1>7, ReadScan
  <1>8. CASE ReplayTooLong
    BY <1>8 DEF ReplayTooLong
  <1>9. CASE ReplayLine
    <2> HIDE DEF IInv, ScanOK
    <2>1. QED
      BY <1>9, TakeScan
  <1>10. CASE ReplayDone
    BY <1>10 DEF ReplayDone
  <1>11. CASE WorkerReceive
    <2> HIDE DEF IInv, ScanOK
    <2>1. QED
      BY <1>11, ReceiveScan
  <1>12. CASE WorkerRelease
    BY <1>12 DEF WorkerRelease, ReleaseBytes
  <1>13. CASE WorkerDelivers
    BY <1>13 DEF WorkerDelivers
  <1>14. CASE WorkerFails
    BY <1>14 DEF WorkerFails, WorkerIdle
  <1>15. CASE WorkerSaveRemove
    BY <1>15 DEF WorkerSaveRemove
  <1>16. CASE WorkerSaveRename
    BY <1>16 DEF WorkerSaveRename, MarkReturns, WorkerIdle
  <1>17. CASE WorkerExit
    BY <1>17 DEF WorkerExit
  <1>18. CASE WorkerMarkRefused
    BY <1>18, SeekType DEF WorkerMarkRefused, WorkerIdle, Contiguous
  <1>19. CASE WorkerMarkAdvance
    BY <1>19, SeekType DEF WorkerMarkAdvance, Contiguous
  <1>20. CASE WorkerMarkTruncate
    <2> HIDE DEF IInv, ScanOK
    <2>1. QED
      BY <1>20, TruncateScan
  <1>21. CASE WorkerTruncateFails
    BY <1>21, SeekType DEF WorkerTruncateFails, WorkerIdle, Contiguous
  <1>22. CASE WorkerSaveFails
    BY <1>22 DEF WorkerSaveFails, MarkReturns, WorkerIdle, AbandonSave
  <1>23. CASE BeginShutdown
    BY <1>23 DEF BeginShutdown
  <1>24. CASE CloseQueue
    BY <1>24 DEF CloseQueue
  <1>25. CASE DropQueue
    BY <1>25 DEF DropQueue
  <1>26. CASE CloseFile
    BY <1>26 DEF CloseFile
  <1>27. CASE Exit
    BY <1>27 DEF Exit, Forget
  <1>28. CASE CrashBetween
    BY <1>28 DEF CrashBetween, Crash, Forget, AbandonSave
  <1>29. ASSUME NEW e \in Events, Submit(e) PROVE ScanOK'
    BY <1>29 DEF Submit
  <1>30. ASSUME NEW e \in Events, AppendRecord(e) PROVE ScanOK'
    BY <1>30, StoredType, AppendMore DEF AppendRecord, CanLock
  <1>31. ASSUME NEW e \in Events, AppendRejected(e) PROVE ScanOK'
    BY <1>31 DEF AppendRejected, CanLock
  <1>32. ASSUME NEW e \in Events, AppendFails(e) PROVE ScanOK'
    BY <1>32, PartType DEF AppendFails, CanLock
  <1>33. ASSUME NEW e \in Events, SendPanics(e) PROVE ScanOK'
    BY <1>33 DEF SendPanics, Return
  <1>34. ASSUME NEW e \in Events, NoQueue(e) PROVE ScanOK'
    BY <1>34 DEF NoQueue, Return
  <1>35. ASSUME NEW e \in Events, EnqueueCancelled(e) PROVE ScanOK'
    BY <1>35 DEF EnqueueCancelled, ReleaseBytes, Return
  <1>36. ASSUME NEW e \in Events, CrashInWrite(e) PROVE ScanOK'
    BY <1>36, PartType DEF CrashInWrite, CanLock, Crash, Forget, AbandonSave
  <1>37. ASSUME NEW p \in Procs, Reserve(p) PROVE ScanOK'
    BY <1>37 DEF Reserve
  <1>38. ASSUME NEW p \in Procs, WaitForSpace(p) PROVE ScanOK'
    BY <1>38 DEF WaitForSpace
  <1>39. ASSUME NEW p \in Procs, SpaceSignalled(p) PROVE ScanOK'
    BY <1>39 DEF SpaceSignalled
  <1>40. ASSUME NEW p \in Procs, Send(p) PROVE ScanOK'
    <2> HIDE DEF IInv, ScanOK
    <2>1. QED
      BY <1>40, SendScan
  <1>41. CASE UNCHANGED vars
    BY <1>41 DEF vars
  <1>42. QED
    BY <1>1, <1>2, <1>3, <1>4, <1>5, <1>6, <1>7, <1>8, <1>9, <1>10, <1>11,
       <1>12, <1>13, <1>14, <1>15, <1>16, <1>17, <1>18, <1>19, <1>20,
       <1>21, <1>22, <1>23, <1>24, <1>25, <1>26, <1>27, <1>28, <1>29,
       <1>30, <1>31, <1>32, <1>33, <1>34, <1>35, <1>36, <1>37, <1>38,
       <1>39, <1>40, <1>41
       DEF Next, ReplayStep, WorkerStep, WorkerMark, CloseStep, Enqueue, HandlerEnds

\* Every action keeps what is on its way to the worker ahead of the checkpoint
\* and in file order.
LEMMA PipeStep ==
    IInv /\ [Next]_vars => PipeInOrder'
  <1> SUFFICES ASSUME IInv, [Next]_vars
               PROVE  PipeInOrder'
    OBVIOUS
  <1> USE DEF IInv, TypeOK, PhaseOK, LockDiscipline, PosFileOK, ScanOK,
              PipeInOrder, QueueInOrder, WorkerInOrder, EnqueueInOrder, InFile,
              Before, Enqueuing, Working, durable, outcome, channel, enqueuer,
              worker, bounds, Procs, Settled, Free, Worker, Replay, NoPos
  <1>1. CASE Start
    BY <1>1 DEF Start, DurablePos, DurablePos
  <1>2. CASE ReplayEmpty
    BY <1>2 DEF ReplayEmpty
  <1>3. CASE ReplayTruncate
    BY <1>3 DEF ReplayTruncate
  <1>4. CASE ReplaySaveRemove
    BY <1>4 DEF ReplaySaveRemove
  <1>5. CASE ReplaySaveRename
    BY <1>5 DEF ReplaySaveRename
  <1>6. CASE ReplayStart
    BY <1>6 DEF ReplayStart
  <1>7. CASE ReplayRead
    BY <1>7 DEF ReplayRead
  <1>8. CASE ReplayTooLong
    BY <1>8 DEF ReplayTooLong
  <1>9. CASE ReplayLine
    <2> HIDE DEF IInv, TypeOK, QueueInOrder, WorkerInOrder, EnqueueInOrder
    <2>1. ~posAhead' => QueueInOrder' /\ WorkerInOrder' /\ EnqueueInOrder'
      BY <1>9, TakeOrder DEF ReplayLine
    <2>2. QED
      BY <1>9, <2>1 DEF IInv, ReplayLine
  <1>10. CASE ReplayDone
    BY <1>10 DEF ReplayDone
  <1>11. CASE WorkerReceive
    <2> HIDE DEF TypeOK, LockDiscipline, PhaseOK, ScanOK, QueueInOrder,
                 WorkerInOrder, EnqueueInOrder
    <2>1. QED
      BY <1>11, ReceiveOrder DEF WorkerReceive
  <1>12. CASE WorkerRelease
    BY <1>12 DEF WorkerRelease, ReleaseBytes
  <1>13. CASE WorkerDelivers
    BY <1>13 DEF WorkerDelivers
  <1>14. CASE WorkerFails
    BY <1>14 DEF WorkerFails, WorkerIdle
  <1>15. CASE WorkerSaveRemove
    BY <1>15 DEF WorkerSaveRemove
  <1>16. CASE WorkerSaveRename
    BY <1>16 DEF WorkerSaveRename, MarkReturns, WorkerIdle
  <1>17. CASE WorkerExit
    BY <1>17 DEF WorkerExit
  <1>18. CASE WorkerMarkRefused
    BY <1>18, SeekType DEF WorkerMarkRefused, WorkerIdle, Contiguous
  <1>19. CASE WorkerMarkAdvance
    BY <1>19, SeekType DEF WorkerMarkAdvance, Contiguous
  <1>20. CASE WorkerMarkTruncate
    <2> HIDE DEF TypeOK, LockDiscipline, PhaseOK, ScanOK, QueueInOrder,
                 WorkerInOrder, EnqueueInOrder
    <2>1. ~posAhead => queue = <<>> /\ \A p \in Procs : ~Enqueuing(p)
      BY <1>20, NothingBehind
    <2>2. QED
      BY <1>20, <2>1
         DEF WorkerMarkTruncate, QueueInOrder, WorkerInOrder, EnqueueInOrder
  <1>21. CASE WorkerTruncateFails
    BY <1>21, SeekType DEF WorkerTruncateFails, WorkerIdle, Contiguous
  <1>22. CASE WorkerSaveFails
    BY <1>22 DEF WorkerSaveFails, MarkReturns, WorkerIdle, AbandonSave
  <1>23. CASE BeginShutdown
    BY <1>23 DEF BeginShutdown
  <1>24. CASE CloseQueue
    BY <1>24 DEF CloseQueue
  <1>25. CASE DropQueue
    BY <1>25 DEF DropQueue
  <1>26. CASE CloseFile
    BY <1>26 DEF CloseFile
  <1>27. CASE Exit
    BY <1>27 DEF Exit, Forget
  <1>28. CASE CrashBetween
    BY <1>28 DEF CrashBetween, Crash, Forget, AbandonSave
  <1>29. ASSUME NEW e \in Events, Submit(e) PROVE PipeInOrder'
    BY <1>29 DEF Submit
  <1>30. ASSUME NEW e \in Events, AppendRecord(e) PROVE PipeInOrder'
    <2> HIDE DEF TypeOK, LockDiscipline, PhaseOK, ScanOK, QueueInOrder,
                 WorkerInOrder, EnqueueInOrder
    <2>1. /\ UNCHANGED <<posAhead, processedPos>>
          /\ file' \in Seq(Cell) /\ Len(file) <= Len(file')
      BY <1>30, AppendMore, StoredType DEF AppendRecord, TypeOK
    <2>2. QED
      BY <1>30, <2>1, AppendOrder DEF TypeOK
  <1>31. ASSUME NEW e \in Events, AppendRejected(e) PROVE PipeInOrder'
    BY <1>31 DEF AppendRejected, CanLock
  <1>32. ASSUME NEW e \in Events, AppendFails(e) PROVE PipeInOrder'
    <2> HIDE DEF TypeOK, LockDiscipline, PhaseOK, ScanOK, QueueInOrder,
                 WorkerInOrder, EnqueueInOrder, Enqueuing
    <2>1. /\ UNCHANGED <<posAhead, processedPos, queue, wpc, witem, eitem>>
          /\ file' \in Seq(Cell) /\ Len(file) <= Len(file')
      BY <1>32, PartType DEF AppendFails, TypeOK
    <2>2. \A p \in Procs : Enqueuing(p)' => Enqueuing(p)
      BY <1>32, EventsAssumption DEF AppendFails, Enqueuing, TypeOK
    <2>3. QED
      BY <1>32, <2>1, <2>2, GrowOrder DEF TypeOK
  <1>33. ASSUME NEW e \in Events, SendPanics(e) PROVE PipeInOrder'
    BY <1>33 DEF SendPanics, Return
  <1>34. ASSUME NEW e \in Events, NoQueue(e) PROVE PipeInOrder'
    BY <1>34 DEF NoQueue, Return
  <1>35. ASSUME NEW e \in Events, EnqueueCancelled(e) PROVE PipeInOrder'
    BY <1>35 DEF EnqueueCancelled, ReleaseBytes, Return
  <1>36. ASSUME NEW e \in Events, CrashInWrite(e) PROVE PipeInOrder'
    BY <1>36, PartType DEF CrashInWrite, CanLock, Crash, Forget, AbandonSave
  <1>37. ASSUME NEW p \in Procs, Reserve(p) PROVE PipeInOrder'
    BY <1>37 DEF Reserve
  <1>38. ASSUME NEW p \in Procs, WaitForSpace(p) PROVE PipeInOrder'
    BY <1>38 DEF WaitForSpace
  <1>39. ASSUME NEW p \in Procs, SpaceSignalled(p) PROVE PipeInOrder'
    BY <1>39 DEF SpaceSignalled
  <1>40. ASSUME NEW p \in Procs, Send(p) PROVE PipeInOrder'
    <2> HIDE DEF TypeOK, LockDiscipline, PhaseOK, ScanOK, QueueInOrder,
                 WorkerInOrder, EnqueueInOrder
    <2>1. QED
      BY <1>40, SendOrder DEF Send
  <1>41. CASE UNCHANGED vars
    BY <1>41 DEF vars
  <1>42. QED
    BY <1>1, <1>2, <1>3, <1>4, <1>5, <1>6, <1>7, <1>8, <1>9, <1>10, <1>11,
       <1>12, <1>13, <1>14, <1>15, <1>16, <1>17, <1>18, <1>19, <1>20,
       <1>21, <1>22, <1>23, <1>24, <1>25, <1>26, <1>27, <1>28, <1>29,
       <1>30, <1>31, <1>32, <1>33, <1>34, <1>35, <1>36, <1>37, <1>38,
       <1>39, <1>40, <1>41
       DEF Next, ReplayStep, WorkerStep, WorkerMark, CloseStep, Enqueue, HandlerEnds

-----------------------------------------------------------------------------
\* Every step keeps IInv.
LEMMA NextInv == IInv /\ [Next]_vars => IInv'
  <1>1. IInv /\ [Next]_vars => TypeOK' /\ PhaseOK' /\ LockDiscipline'
    BY TypeStep, PhaseStep, LockStep DEF IInv
  <1>2. QED
    BY <1>1, PosFileStep, ScanStep, PipeStep DEF IInv

\* IInv, the conjunction of types, lock, phases, position, scanner and order,
\* holds in every state of the collector: it holds at the start and every
\* action of handlers, worker, replay, shutdown and crash keeps it.
THEOREM Inductive == Spec => []IInv
  BY InitInv, NextInv, PTL DEF Spec

\* Every variable keeps its type, the queue its capacity.
THEOREM TypeCorrect == Spec => []TypeOK
  <1>1. IInv => TypeOK
    BY DEF IInv
  <1>2. QED
    BY Inductive, <1>1, PTL

\* spoolMu is held by whoever is between a write and the end of its enqueue,
\* or between a checkpoint and the end of its save, and by nobody else.
THEOREM LockHeld == Spec => []LockDiscipline
  <1>1. IInv => LockDiscipline
    BY DEF IInv
  <1>2. QED
    BY Inductive, <1>1, PTL

\* The checkpoint never moves over a record that is on its way to the worker.
THEOREM PipeOrdered == Spec => []PipeInOrder
  <1>1. IInv => PipeInOrder
    BY DEF IInv
  <1>2. QED
    BY Inductive, <1>1, PTL

-----------------------------------------------------------------------------
(* The backlog.                                                            *)

Faultless == crashes = 0 /\ faults = 0

\* Somebody is saving the position.
Saving == wpc \in {"save", "rename"} \/ epc[Replay] \in {"save", "rename"}

\* Without a crash or a failed file operation the position on disk is the one
\* in memory, and a restart takes up the backlog that was left.
Saved ==
    Faultless =>
        /\ phase = "down" => Len(file) - DurablePos <= MaxSpoolBytes
        /\ phase # "down" /\ ~Saving => DurablePos = processedPos
        /\ ~posAhead

\* What moves the file, the position or the phase.
LEMMA PositionFrame ==
    ASSUME IInv, [Next]_vars
    PROVE  \/ /\ UNCHANGED <<file, posFile, processedPos, crashes, faults>>
              /\ phase' = "down" <=> phase = "down"
           \/ Start \/ ReplayTruncate \/ ReplaySaveRemove \/ ReplaySaveRename
           \/ WorkerMarkAdvance \/ WorkerMarkTruncate \/ WorkerTruncateFails
           \/ WorkerSaveRemove \/ WorkerSaveRename \/ WorkerSaveFails
           \/ Exit \/ CrashBetween
           \/ \E e \in Events : AppendRecord(e) \/ AppendFails(e) \/ CrashInWrite(e)
  BY ZenonT(60) DEF Next, vars, ReplayStep, WorkerStep, WorkerMark, CloseStep, Enqueue, HandlerEnds,
         ReplayEmpty, ReplayStart, ReplayRead, ReplayTooLong, ReplayLine, ReplayDone,
         WorkerReceive, WorkerRelease, WorkerDelivers, WorkerFails, WorkerExit,
         WorkerMarkRefused, BeginShutdown, CloseQueue, DropQueue, CloseFile, Submit,
         AppendRejected, SendPanics, NoQueue, EnqueueCancelled, Reserve, WaitForSpace,
         SpaceSignalled, Send, durable, bounds, IInv, PhaseOK

\* What begins or ends a save.
LEMMA SavingFrame ==
    ASSUME IInv, [Next]_vars
    PROVE  \/ Saving' <=> Saving
           \/ ReplayTruncate \/ ReplaySaveRename
           \/ WorkerMarkAdvance \/ WorkerMarkTruncate
           \/ WorkerSaveRename \/ WorkerSaveFails \/ Exit \/ CrashBetween
           \/ \E e \in Events : CrashInWrite(e)
  <1> USE DEF IInv, PhaseOK, TypeOK, Saving
  <1>1. CASE UNCHANGED <<wpc, epc>>
    BY <1>1
  <1>p. Events \subseteq Procs /\ Replay \in Procs /\ Replay \notin Events
    BY EventsAssumption DEF Procs
  <1>m. ASSUME NEW p \in Procs, NEW v, epc' = [epc EXCEPT ![p] = v], wpc' = wpc,
               p \in Events \/ {epc[p], v} \cap {"save", "rename"} = {}
        PROVE  Saving' <=> Saving
    BY <1>m, <1>p
  <1>2. ASSUME NEW p \in Procs, Enqueue(p)
        PROVE  Saving' <=> Saving
    <2>1. epc[p] \in {"check", "space", "send"} /\ wpc' = wpc
      BY <1>2 DEF Enqueue, Reserve, WaitForSpace, SpaceSignalled, Send, worker
    <2>2. \E v \in {"check", "space", "send", "scan", "acked"} : epc' = [epc EXCEPT ![p] = v]
      BY <1>2 DEF Enqueue, Reserve, WaitForSpace, SpaceSignalled, Send, Return
    <2>3. QED
      BY <1>m, <2>1, <2>2
  <1>3. ASSUME NEW e \in Events, \/ Submit(e) \/ AppendRecord(e) \/ AppendRejected(e)
                                 \/ AppendFails(e) \/ HandlerEnds(e)
        PROVE  Saving' <=> Saving
    <2>1. wpc' = wpc /\ \E v : epc' = [epc EXCEPT ![e] = v]
      BY <1>3 DEF Submit, AppendRecord, AppendRejected, AppendFails, HandlerEnds,
         SendPanics, NoQueue, EnqueueCancelled, Return, worker
    <2>2. QED
      BY <1>m, <1>p, <2>1
  <1>4. CASE Start \/ WorkerStep \/ WorkerMark \/ WorkerTruncateFails
    BY <1>4 DEF Start, WorkerStep, WorkerMark, WorkerReceive, WorkerRelease, WorkerDelivers,
       WorkerFails, WorkerSaveRemove, WorkerExit, WorkerMarkRefused, WorkerTruncateFails,
       WorkerIdle, enqueuer
  <1>5. CASE ReplayStep
    BY <1>5 DEF ReplayStep, ReplayEmpty, ReplaySaveRemove, ReplayStart, ReplayRead,
       ReplayTooLong, ReplayLine, ReplayDone, worker, enqueuer
  <1>6. CASE BeginShutdown \/ CloseQueue \/ CloseStep
    BY <1>6 DEF BeginShutdown, CloseQueue, CloseStep, DropQueue, CloseFile, worker, enqueuer
  <1>7. QED
    BY <1>1, <1>2, <1>3, <1>4, <1>5, <1>6, ZenonT(60) DEF Next, vars, worker, enqueuer

\* Only a failure leaves a position beyond the file.
LEMMA AheadFrame ==
    ASSUME IInv, [Next]_vars
    PROVE  posAhead' = posAhead \/ crashes' > 0 \/ faults' > 0
  <1>1. crashes \in Nat /\ faults \in Nat
    BY BoundsAssumption DEF IInv, TypeOK
  <1>2. CASE CrashBetween \/ WorkerSaveFails \/ \E e \in Events : CrashInWrite(e)
    BY <1>1, <1>2 DEF CrashBetween, CrashInWrite, Crash, WorkerSaveFails, Fault
  <1>3. CASE ~(CrashBetween \/ WorkerSaveFails \/ \E e \in Events : CrashInWrite(e))
    BY <1>3, ZenonT(60) DEF Next, vars, ReplayStep, WorkerStep, WorkerMark, CloseStep, Enqueue,
       HandlerEnds, Start, ReplayEmpty, ReplayTruncate, ReplaySaveRemove, ReplaySaveRename,
       ReplayStart, ReplayRead, ReplayTooLong, ReplayLine, ReplayDone, WorkerReceive,
       WorkerRelease, WorkerDelivers, WorkerFails, WorkerExit, WorkerSaveRemove,
       WorkerSaveRename, WorkerMarkRefused, WorkerMarkAdvance, WorkerMarkTruncate,
       WorkerTruncateFails, BeginShutdown, CloseQueue, DropQueue, CloseFile, Exit, Submit,
       AppendRecord, AppendRejected, AppendFails, SendPanics, NoQueue, EnqueueCancelled,
       Reserve, WaitForSpace, SpaceSignalled, Send
  <1>4. QED
    BY <1>2, <1>3

\* The position on disk and the limit, step by step.
LEMMA BacklogStep ==
    ASSUME IInv, Saved, BacklogWithinLimit, [Next]_vars
    PROVE  Saved' /\ BacklogWithinLimit'
  <1> DEFINE Room == Len(file) - processedPos <= MaxSpoolBytes
             Goal == Saved' /\ BacklogWithinLimit'
  <1> USE DEF Saved, BacklogWithinLimit, Faultless
  <1>t. /\ file \in Seq(Cell) /\ Len(file) \in Nat /\ processedPos \in Nat
        /\ crashes \in Nat /\ faults \in Nat /\ MaxSpoolBytes \in Nat
    BY SizesAssumption, BoundsAssumption DEF IInv, TypeOK
  <1>1. ASSUME crashes' # 0 \/ faults' # 0 PROVE Goal
    BY <1>1
  <1>a. posAhead' = posAhead \/ crashes' # 0 \/ faults' # 0
    BY AheadFrame
  <1>2. CASE CrashBetween \/ WorkerTruncateFails \/ WorkerSaveFails
             \/ \E e \in Events : CrashInWrite(e) \/ AppendFails(e)
    BY <1>1, <1>2, <1>t DEF CrashBetween, CrashInWrite, Crash, WorkerTruncateFails,
       WorkerSaveFails, AppendFails, Fault
  <1>3. CASE Start
    <2>1. /\ phase = "down" /\ phase' # "down" /\ processedPos' = DurablePos
          /\ UNCHANGED <<file, posFile, crashes, faults>>
      BY <1>3 DEF Start, durable, bounds
    <2>2. DurablePos' = DurablePos
      BY <2>1 DEF DurablePos
    <2>3. QED
      BY <1>a, <2>1, <2>2
  <1>4. CASE ReplayTruncate
    <2>1. /\ file' = <<>> /\ processedPos' = 0 /\ phase' = phase /\ phase # "down" /\ Saving'
          /\ UNCHANGED <<crashes, faults>>
      BY <1>4 DEF ReplayTruncate, bounds, Saving, IInv, TypeOK, Procs
    <2>2. QED
      BY <1>a, <1>t, <2>1
  <1>5. CASE ReplaySaveRemove \/ WorkerSaveRemove
    <2>1. UNCHANGED <<file, processedPos, phase, crashes, faults>> /\ phase # "down"
      BY <1>5 DEF ReplaySaveRemove, WorkerSaveRemove, bounds, IInv, PhaseOK
    <2>2. Saving'
      BY <1>5 DEF Saving, ReplaySaveRemove, WorkerSaveRemove, IInv, TypeOK, Procs
    <2>3. QED
      BY <1>a, <2>1, <2>2
  <1>6. CASE ReplaySaveRename \/ WorkerSaveRename
    <2>1. /\ UNCHANGED <<file, processedPos, crashes, faults>> /\ posFile' = processedPos
          /\ phase # "down" /\ phase' # "down"
      BY <1>6 DEF ReplaySaveRename, WorkerSaveRename, bounds, IInv, PhaseOK
    <2>2. DurablePos' = processedPos'
      BY <1>t, <2>1 DEF DurablePos, NoPos
    <2>3. QED
      BY <1>a, <2>1, <2>2
  <1>7. CASE WorkerMarkAdvance
    <2>1. /\ UNCHANGED <<file, phase, crashes, faults>> /\ processedPos' = witem.end
          /\ phase # "down" /\ Saving'
      BY <1>7 DEF WorkerMarkAdvance, durable, bounds, Saving, IInv, PhaseOK
    <2>2. Faultless => processedPos <= witem.end
      BY <1>7, ItemType DEF Working, IInv, PipeInOrder, WorkerInOrder, InFile, WorkerMarkAdvance, Contiguous
    <2>3. QED
      BY <1>a, <1>t, <2>1, <2>2, ItemType DEF IInv
  <1>8. CASE WorkerMarkTruncate
    <2>1. /\ file' = <<>> /\ processedPos' = 0 /\ phase' = phase /\ phase # "down" /\ Saving'
          /\ UNCHANGED <<crashes, faults>>
      BY <1>8 DEF WorkerMarkTruncate, bounds, Saving, IInv, PhaseOK
    <2>2. QED
      BY <1>a, <1>t, <2>1
  <1>9. CASE Exit
    <2>1. /\ phase = "closed" /\ phase' = "down" /\ wpc = "exited" /\ ~Saving
          /\ UNCHANGED <<file, posFile, crashes, faults>>
      BY <1>9 DEF Exit, durable, bounds, IInv, PhaseOK, Saving
    <2>2. DurablePos' = DurablePos
      BY <2>1 DEF DurablePos
    <2>3. QED
      BY <1>a, <2>1, <2>2
  <1>10. ASSUME NEW e \in Events, AppendRecord(e) PROVE Goal
    <2>1. /\ UNCHANGED <<posFile, processedPos, phase, crashes, faults>> /\ phase # "down"
          /\ file' = file \o Stored(e) /\ Fits(e)
      BY <1>10 DEF AppendRecord, CanLock, bounds, IInv, PhaseOK, Settled
    <2>2. Len(file') = Len(file) + StoredLen(e) /\ StoredLen(e) \in Nat
      BY <1>t, <2>1, AppendMore, StoredType
    <2>3. Len(file') - processedPos' <= MaxSpoolBytes
      BY <1>t, <2>1, <2>2 DEF Fits, UnprocessedBytes
    <2>4. Saving' <=> Saving
      BY <1>10, EventsAssumption DEF AppendRecord, worker, Saving, IInv, TypeOK, Procs
    <2>5. DurablePos' = DurablePos
      BY <2>1 DEF DurablePos
    <2>6. QED
      BY <1>a, <2>1, <2>3, <2>4, <2>5
  <1>11. CASE /\ UNCHANGED <<file, posFile, processedPos, crashes, faults>>
              /\ phase' = "down" <=> phase = "down"
    <2>1. DurablePos' = DurablePos
      BY <1>11 DEF DurablePos
    <2>2. CASE Saving' <=> Saving
      BY <1>11, <1>a, <2>1, <2>2
    <2>3. QED
      BY <1>2, <1>4, <1>6, <1>7, <1>8, <1>9, <2>2, SavingFrame
  <1>12. QED
    BY <1>2, <1>3, <1>4, <1>5, <1>6, <1>7, <1>8, <1>9, <1>10, <1>11, PositionFrame

\* The bytes of the spool beyond the checkpoint stay within max_spool_bytes, as
\* long as the process does not crash and no file operation fails: late
\* handlers, restarts and the emptying of the file included.
THEOREM BacklogBounded == Spec => []BacklogWithinLimit
  <1>1. Init => Saved /\ BacklogWithinLimit
    BY SizesAssumption DEF Init, Saved, BacklogWithinLimit, DurablePos, NoPos
  <1>2. IInv /\ Saved /\ BacklogWithinLimit /\ [Next]_vars => Saved' /\ BacklogWithinLimit'
    BY BacklogStep
  <1>3. QED
    BY <1>1, <1>2, Inductive, PTL DEF Spec

-----------------------------------------------------------------------------
(* The wake-up of a waiter for room.  It depends on no item being empty, and *)
(* that is so even with a position beyond the file: the scanner never reads *)
(* past the file it found.                                                 *)

\* An item that is being enqueued has bytes.
Sized == \A p \in Procs : Enqueuing(p) => eitem[p].start < eitem[p].end

Scanning == epc[Replay] \in {"scan", "check", "space", "send"}

\* What the scanner has read lies within the file as the replay found it.
ScanBound ==
    Scanning =>
        /\ scan.next + Len(scan.buf) <= scan.size
        /\ scan.off = scan.next + Len(scan.buf) \/ scan.off >= Len(file) \/ scan.eof
        /\ Len(file) <= scan.size

\* What moves the scanner, or the file under it.
LEMMA ScanFrame ==
    ASSUME IInv, [Next]_vars
    PROVE  \/ UNCHANGED <<scan, file>>
           \/ ReplayTruncate \/ ReplayStart \/ ReplayRead \/ ReplayTooLong \/ ReplayLine
           \/ ReplayDone \/ Exit \/ CrashBetween
           \/ WorkerMarkRefused \/ WorkerMarkAdvance \/ WorkerMarkTruncate
           \/ WorkerTruncateFails
           \/ \E e \in Events : AppendRecord(e) \/ AppendFails(e) \/ CrashInWrite(e)
  BY ZenonT(60) DEF Next, vars, ReplayStep, WorkerStep, WorkerMark, CloseStep, Enqueue, HandlerEnds,
         Start, ReplayEmpty, ReplaySaveRemove, ReplaySaveRename, WorkerReceive,
         WorkerRelease, WorkerDelivers, WorkerFails, WorkerExit, WorkerSaveRemove,
         WorkerSaveRename, WorkerSaveFails, BeginShutdown, CloseQueue, DropQueue, CloseFile,
         Submit, AppendRejected, SendPanics, NoQueue, EnqueueCancelled, Reserve,
         WaitForSpace, SpaceSignalled, Send, durable

\* Who begins to enqueue an item.
LEMMA EnqueueFrame ==
    ASSUME IInv, [Next]_vars, NEW p \in Procs, Enqueuing(p)'
    PROVE  \/ Enqueuing(p) /\ eitem'[p] = eitem[p]
           \/ p = Replay /\ ReplayLine
           \/ p \in Events /\ AppendRecord(p)
  <1> USE DEF IInv, PhaseOK, TypeOK, Enqueuing, Settled
  <1>p. Replay \in Procs /\ Replay \notin Events /\ Procs = Events \cup {Replay}
    BY EventsAssumption DEF Procs
  <1>1. CASE UNCHANGED <<epc, eitem>>
    BY <1>1
  <1>2. ASSUME NEW q \in Procs, NEW v, NEW x, q # p,
               epc' = [epc EXCEPT ![q] = v], eitem' = [eitem EXCEPT ![q] = x] \/ eitem' = eitem
        PROVE  Enqueuing(p) /\ eitem'[p] = eitem[p]
    BY <1>2
  <1>3. ASSUME NEW q \in Procs, Enqueue(q)
        PROVE  Enqueuing(p) /\ eitem'[p] = eitem[p]
    <2>1. CASE q # p
      BY <1>2, <1>3, <2>1 DEF Enqueue, Reserve, WaitForSpace, SpaceSignalled, Send, Return
    <2>2. CASE q = p
      BY <1>3, <2>2 DEF Enqueue, Reserve, WaitForSpace, SpaceSignalled, Send, Return
    <2>3. QED
      BY <2>1, <2>2
  <1>4. ASSUME NEW e \in Events, Submit(e) \/ AppendRejected(e) \/ AppendFails(e) \/ HandlerEnds(e)
        PROVE  Enqueuing(p) /\ eitem'[p] = eitem[p]
    <2>1. \E v : epc' = [epc EXCEPT ![e] = v] /\ v \in {"lock", "rejected", "aborted"}
      BY <1>4, <1>p DEF Submit, AppendRejected, AppendFails, HandlerEnds, SendPanics, NoQueue,
         EnqueueCancelled, Return
    <2>2. eitem' = eitem \/ eitem' = [eitem EXCEPT ![e] = NoItem]
      BY <1>4 DEF Submit, AppendRejected, AppendFails, HandlerEnds, SendPanics, NoQueue,
         EnqueueCancelled, Return, enqueuer
    <2>3. QED
      BY <1>2, <1>p, <2>1, <2>2
  <1>5. ASSUME NEW e \in Events, AppendRecord(e)
        PROVE  \/ Enqueuing(p) /\ eitem'[p] = eitem[p]
               \/ p \in Events /\ AppendRecord(p)
    <2>1. CASE e # p
      BY <1>2, <1>5, <1>p, <2>1 DEF AppendRecord
    <2>2. QED
      BY <1>5, <2>1
  <1>6. CASE ReplayTruncate \/ ReplaySaveRemove \/ ReplaySaveRename \/ ReplayStart
             \/ ReplayTooLong \/ ReplayDone
    <2>1. eitem' = eitem
             /\ \E v : epc' = [epc EXCEPT ![Replay] = v] /\ v \in {"save", "rename", "idle", "scan"}
      BY <1>6 DEF ReplayTruncate, ReplaySaveRemove, ReplaySaveRename, ReplayStart,
         ReplayTooLong, ReplayDone
    <2>2. QED
      BY <1>p, <2>1
  <1>7. CASE ReplayLine
    <2>1. CASE p # Replay
      BY <1>2, <1>7, <1>p, <2>1 DEF ReplayLine, TakeLine
    <2>2. QED
      BY <1>7, <2>1
  <1>8. CASE Exit \/ CrashBetween \/ \E e \in Events : CrashInWrite(e)
    BY <1>8, SMTT(40) DEF Exit, CrashBetween, CrashInWrite, Crash, Forget
  <1>9. CASE \/ Start \/ ReplayEmpty \/ ReplayRead \/ WorkerStep \/ WorkerMark
             \/ WorkerTruncateFails \/ WorkerSaveFails \/ BeginShutdown \/ CloseQueue
             \/ DropQueue \/ CloseFile \/ UNCHANGED vars
    <2>1. UNCHANGED <<epc, eitem>>
      BY <1>9 DEF Start, ReplayEmpty, ReplayRead, WorkerStep, WorkerMark, WorkerReceive,
         WorkerRelease, WorkerDelivers, WorkerFails, WorkerSaveRemove, WorkerSaveRename,
         WorkerExit, WorkerMarkRefused, WorkerMarkAdvance, WorkerMarkTruncate,
         WorkerTruncateFails, WorkerSaveFails, BeginShutdown, CloseQueue, DropQueue,
         CloseFile, vars, enqueuer
    <2>2. QED
      BY <1>1, <2>1
  <1>10. QED
    BY <1>3, <1>4, <1>5, <1>6, <1>7, <1>8, <1>9 DEF Next, ReplayStep, CloseStep

\* Only the replay's start begins a scan.
LEMMA ScanStarts ==
    ASSUME IInv, [Next]_vars, Scanning'
    PROVE  Scanning \/ ReplayStart
  <1> USE DEF IInv, PhaseOK, TypeOK, Scanning
  <1>p. Replay \in Procs /\ Replay \notin Events /\ Procs = Events \cup {Replay}
    BY EventsAssumption DEF Procs
  <1>1. CASE UNCHANGED epc
    BY <1>1
  <1>2. ASSUME NEW p \in Procs, Enqueue(p)
        PROVE  Scanning
    <2>1. CASE p = Replay
      BY <1>2, <2>1 DEF Enqueue, Reserve, WaitForSpace, SpaceSignalled, Send
    <2>2. CASE p # Replay
      <3>1. \E v : epc' = [epc EXCEPT ![p] = v]
        BY <1>2 DEF Enqueue, Reserve, WaitForSpace, SpaceSignalled, Send, Return
      <3>2. QED
        BY <1>p, <2>2, <3>1
    <2>3. QED
      BY <2>1, <2>2
  <1>3. ASSUME NEW e \in Events, \/ Submit(e) \/ AppendRecord(e) \/ AppendRejected(e)
                                 \/ AppendFails(e) \/ HandlerEnds(e)
        PROVE  Scanning
    <2>1. \E v : epc' = [epc EXCEPT ![e] = v]
      BY <1>3 DEF Submit, AppendRecord, AppendRejected, AppendFails, HandlerEnds,
         SendPanics, NoQueue, EnqueueCancelled, Return
    <2>2. QED
      BY <1>p, <2>1
  <1>4. CASE Exit \/ CrashBetween \/ \E e \in Events : CrashInWrite(e)
    <2>1. epc'[Replay] = "idle"
      BY <1>4, <1>p DEF Exit, CrashBetween, CrashInWrite, Crash, Forget
    <2>2. QED
      BY <2>1
  <1>5. CASE \/ Start \/ WorkerStep \/ WorkerMark \/ WorkerTruncateFails \/ WorkerSaveFails
             \/ BeginShutdown \/ CloseQueue \/ DropQueue \/ CloseFile \/ UNCHANGED vars
    <2>1. UNCHANGED epc
      BY <1>5 DEF Start, WorkerStep, WorkerMark, WorkerReceive, WorkerRelease,
         WorkerDelivers, WorkerFails, WorkerSaveRemove, WorkerSaveRename, WorkerExit,
         WorkerMarkRefused, WorkerMarkAdvance, WorkerMarkTruncate, WorkerTruncateFails,
         WorkerSaveFails, BeginShutdown, CloseQueue, DropQueue, CloseFile, vars, enqueuer
    <2>2. QED
      BY <1>1, <2>1
  <1>6. CASE ReplayStep
    BY <1>6, <1>p DEF ReplayStep, ReplayEmpty, ReplayTruncate, ReplaySaveRemove,
       ReplaySaveRename, ReplayRead, ReplayTooLong, ReplayLine, ReplayDone, enqueuer
  <1>7. QED
    BY <1>2, <1>3, <1>4, <1>5, <1>6 DEF Next, CloseStep

\* A read, a line taken, a seek: the scanner stays within the file it found.
LEMMA ScanBoundStep ==
    ASSUME IInv, ScanBound, [Next]_vars
    PROVE  ScanBound'
  <1> SUFFICES ASSUME Scanning'
               PROVE  /\ scan'.next + Len(scan'.buf) <= scan'.size
                      /\ \/ scan'.off = scan'.next + Len(scan'.buf)
                         \/ scan'.off >= Len(file') \/ scan'.eof
                      /\ Len(file') <= scan'.size
    BY DEF ScanBound
  <1>t. /\ scan \in Scan /\ file \in Seq(Cell) /\ processedPos \in Nat
        /\ scan.next \in Nat /\ scan.size \in Nat /\ scan.off \in Nat
        /\ Len(file) \in Nat /\ Len(scan.buf) \in Nat /\ scan.buf \in Seq(Cell)
    BY ItemType DEF IInv, TypeOK
  <1>1. CASE ReplayStart
    <2>1. scan' = [buf |-> <<>>, eof |-> FALSE, next |-> processedPos,
                   size |-> Len(file), off |-> processedPos]
          /\ file' = file /\ processedPos < Len(file)
      BY <1>1 DEF ReplayStart, durable
    <2>2. QED
      BY <1>t, <2>1
  <1>2. ASSUME ~ReplayStart
        PROVE  /\ Scanning
               /\ scan.next + Len(scan.buf) <= scan.size
               /\ scan.off = scan.next + Len(scan.buf) \/ scan.off >= Len(file) \/ scan.eof
               /\ Len(file) <= scan.size
    BY <1>2, ScanStarts DEF ScanBound
  <1>3. CASE UNCHANGED <<scan, file>> /\ ~ReplayStart
    BY <1>2, <1>3
  <1>4. CASE ReplayRead
    <2>1. ~ReplayStart /\ file' = file /\ ~scan.eof
      BY <1>4 DEF ReplayRead, ReplayStart, durable
    <2>2. CASE scan' = [scan EXCEPT !.eof = TRUE]
      BY <1>2, <1>t, <2>1, <2>2 DEF Scan
    <2>3. ASSUME NEW n \in 1 .. MaxEventBytes - Len(scan.buf), n <= Len(file) - scan.off,
                 scan' = [scan EXCEPT
                            !.buf = @ \o SubSeq(file, scan.off + 1, scan.off + n),
                            !.off = @ + n]
          PROVE  /\ scan'.next + Len(scan'.buf) <= scan'.size
                 /\ scan'.off = scan'.next + Len(scan'.buf)
      <3>1. n \in Nat \ {0}
        BY <1>t, SizesAssumption
      <3>2. /\ scan'.next = scan.next /\ scan'.size = scan.size /\ scan'.off = scan.off + n
            /\ scan'.buf = scan.buf \o SubSeq(file, scan.off + 1, scan.off + n)
        BY <1>t, <2>3 DEF Scan
      <3>3. Len(scan'.buf) = Len(scan.buf) + n
        BY <1>t, <2>3, <3>1, <3>2, ReadBytes
      <3>4. scan.off = scan.next + Len(scan.buf)
        BY <1>2, <1>t, <2>1, <2>3, <3>1
      <3>5. Len(file) <= scan.size /\ n <= Len(file) - scan.off /\ n \in Nat
        BY <1>2, <2>1, <2>3, <3>1
      <3>6. scan.next + (Len(scan.buf) + n) = scan.off + n
        BY <1>t, <3>4, <3>5
      <3>7. scan.off + n <= scan.size
        BY <1>t, <3>5
      <3>8. QED
        BY <3>2, <3>3, <3>6, <3>7
    <2>4. scan'.size = scan.size
      BY <1>4, <1>t DEF ReplayRead, Scan
    <2>5. QED
      BY <1>2, <1>4, <2>1, <2>2, <2>3, <2>4 DEF ReplayRead
  <1>5. CASE ReplayLine
    <2>1. ~ReplayStart /\ file' = file
      BY <1>5 DEF ReplayLine, ReplayStart
    <2>2. PICK len \in 0 .. Len(scan.buf) : NextLine(len) /\ TakeLine(len)
      BY <1>5 DEF ReplayLine
    <2>3. /\ scan'.next + Len(scan'.buf) <= scan'.size
          /\ scan'.size = scan.size /\ scan'.off = scan.off /\ scan'.eof = scan.eof
          /\ scan'.next + Len(scan'.buf) = scan.next + Len(scan.buf) \/ scan.eof
      BY <1>2, <1>t, <2>1, <2>2, TakeFacts DEF IInv, TypeOK
    <2>4. QED
      BY <1>2, <2>1, <2>3
  <1>6. CASE \/ ReplayTruncate \/ ReplayTooLong \/ ReplayDone \/ Exit \/ CrashBetween
             \/ \E e \in Events : CrashInWrite(e)
    <2>1. epc'[Replay] \in {"save", "idle"}
      BY <1>6, EventsAssumption DEF ReplayTruncate, ReplayTooLong, ReplayDone, Exit,
         CrashBetween, CrashInWrite, Crash, Forget, IInv, TypeOK, Procs
    <2>2. QED
      BY <2>1 DEF Scanning
  <1>7. CASE \E e \in Events : AppendRecord(e) \/ AppendFails(e)
    <2>1. phase # "replay" /\ ~ReplayStart
      BY <1>7 DEF AppendRecord, AppendFails, CanLock, ReplayStart, IInv, PhaseOK, Settled
    <2>2. QED
      BY <1>2, <2>1 DEF Scanning, IInv, PhaseOK
  <1>8. CASE WorkerMarkRefused \/ WorkerMarkAdvance \/ WorkerTruncateFails
    <2>1. file' = file /\ ~ReplayStart /\ (Seek(Len(file)) \/ scan' = scan)
      BY <1>8 DEF WorkerMarkRefused, WorkerMarkAdvance, WorkerTruncateFails, ReplayStart,
         durable, enqueuer, WorkerIdle, IInv, PhaseOK
    <2>2. CASE Seek(Len(file))
      BY <1>2, <1>t, <2>1, <2>2, SeekType
    <2>3. QED
      BY <1>3, <2>1, <2>2
  <1>9. CASE WorkerMarkTruncate
    <2>1. file' = <<>> /\ Len(file') = 0 /\ ~ReplayStart /\ Seek(0)
      BY <1>9 DEF WorkerMarkTruncate, ReplayStart, IInv, PhaseOK
    <2>2. QED
      BY <1>2, <1>t, <2>1, SeekType
  <1>10. QED
    BY <1>1, <1>3, <1>4, <1>5, <1>6, <1>7, <1>8, <1>9, ScanFrame

\* Records and lines are enqueued with the stretch of the file they take.
LEMMA SizedStep ==
    ASSUME IInv, ScanBound, Sized, [Next]_vars
    PROVE  Sized'
  <1> SUFFICES ASSUME NEW p \in Procs, Enqueuing(p)'
               PROVE  eitem'[p].start < eitem'[p].end
    BY DEF Sized
  <1>1. CASE Enqueuing(p) /\ eitem'[p] = eitem[p]
    BY <1>1 DEF Sized
  <1>2. CASE p = Replay /\ ReplayLine
    <2>1. PICK len \in 0 .. Len(scan.buf) : NextLine(len) /\ TakeLine(len)
      BY <1>2 DEF ReplayLine
    <2>2. scan.next + Len(scan.buf) <= scan.size
      BY <1>2 DEF ScanBound, Scanning, ReplayLine
    <2>3. QED
      BY <1>2, <2>1, <2>2, TakeFacts DEF IInv, TypeOK
  <1>3. CASE p \in Events /\ AppendRecord(p)
    <2>1. eitem'[p] = [ev |-> p, start |-> Len(file), end |-> Len(file) + StoredLen(p)]
      BY <1>3 DEF AppendRecord, IInv, TypeOK, Procs
    <2>2. Len(file) \in Nat /\ StoredLen(p) \in Nat /\ StoredLen(p) > 1
      BY <1>3, StoredType DEF IInv, TypeOK
    <2>3. QED
      BY <2>1, <2>2
  <1>4. QED
    BY <1>1, <1>2, <1>3, EnqueueFrame

\* The bytes owed by a queue q, w of them by an item already received, are n.
Owed(q, w, n) ==
    \E b \in [0 .. Len(q) -> Int] :
        /\ b[0] = w
        /\ \A i \in 1 .. Len(q) : b[i] = b[i - 1] + PayloadLen(q[i])
        /\ b[Len(q)] = n

\* The bytes of the item the worker has received and not yet released.
InRelease == IF wpc = "release" THEN PayloadLen(witem) ELSE 0

\* While the channel is open queueBytes is what the items on their way owe.
Ledger ==
    /\ phase = "down" => queueBytes = 0
    /\ QueueOpen =>
          /\ \A p \in Procs : epc[p] = "send" =>
                Owed(queue, InRelease, queueBytes - PayloadLen(eitem[p]))
          /\ (\A p \in Procs : epc[p] # "send") => Owed(queue, InRelease, queueBytes)

\* A payload has a length.
LEMMA PayloadType ==
    ASSUME NEW x \in Item
    PROVE  PayloadLen(x) \in Int
  BY SizesAssumption DEF PayloadLen, Item

\* An empty queue owes what the worker holds.
LEMMA OwedNone ==
    ASSUME NEW w \in Int
    PROVE  /\ Owed(<<>>, w, w)
           /\ \A n : Owed(<<>>, w, n) => n = w
  <1>1. Len(<<>>) = 0
    OBVIOUS
  <1>2. PICK b \in [0 .. 0 -> Int] : b[0] = w
    <2>1. [i \in 0 .. 0 |-> w] \in [0 .. 0 -> Int] /\ [i \in 0 .. 0 |-> w][0] = w
      OBVIOUS
    <2>2. QED
      BY <2>1
  <1>3. Owed(<<>>, w, w)
    <2>1. b[Len(<<>>)] = w /\ b \in [0 .. Len(<<>>) -> Int] /\ 1 .. Len(<<>>) = {}
      BY <1>1, <1>2
    <2>2. QED
      BY <1>2, <2>1 DEF Owed
  <1>4. \A n : Owed(<<>>, w, n) => n = w
    BY <1>1 DEF Owed
  <1>5. QED
    BY <1>3, <1>4

\* A send adds the item's bytes to what the queue owes.
LEMMA OwedAppend ==
    ASSUME NEW q \in Seq(Item), NEW x \in Item, NEW w, NEW n \in Int, Owed(q, w, n)
    PROVE  Owed(Append(q, x), w, n + PayloadLen(x))
  <1>1. PICK b \in [0 .. Len(q) -> Int] :
            /\ b[0] = w
            /\ \A i \in 1 .. Len(q) : b[i] = b[i - 1] + PayloadLen(q[i])
            /\ b[Len(q)] = n
    BY DEF Owed
  <1> DEFINE r == Append(q, x)
             c == [i \in 0 .. Len(q) + 1 |->
                     IF i <= Len(q) THEN b[i] ELSE n + PayloadLen(x)]
  <1>2. /\ Len(q) \in Nat /\ Len(r) = Len(q) + 1
        /\ \A i \in 1 .. Len(q) : r[i] = q[i]
        /\ r[Len(q) + 1] = x
    OBVIOUS
  <1>3. c \in [0 .. Len(r) -> Int]
    BY <1>2, PayloadType
  <1>4. c[0] = w /\ c[Len(r)] = n + PayloadLen(x)
    BY <1>1, <1>2
  <1>5. ASSUME NEW i \in 1 .. Len(r)
        PROVE  c[i] = c[i - 1] + PayloadLen(r[i])
    <2>1. CASE i \in 1 .. Len(q)
      <3>1. i \in 0 .. Len(q) /\ i - 1 \in 0 .. Len(q)
        BY <1>2, <2>1
      <3>2. c[i] = b[i] /\ c[i - 1] = b[i - 1]
        BY <1>2, <3>1
      <3>3. QED
        BY <1>1, <1>2, <2>1, <3>2
    <2>2. CASE i = Len(q) + 1
      <3>1. c[i] = n + PayloadLen(x) /\ c[i - 1] = b[Len(q)]
        BY <1>2, <2>2
      <3>2. QED
        BY <1>1, <1>2, <2>2, <3>1
    <2>3. QED
      BY <1>2, <2>1, <2>2
  <1> HIDE DEF c, r
  <1>6. Owed(r, w, n + PayloadLen(x))
    BY <1>3, <1>4, <1>5 DEF Owed
  <1>7. QED
    BY <1>6 DEF r

\* A receive moves the first item's bytes from the queue to the worker.
LEMMA OwedTail ==
    ASSUME NEW q \in Seq(Item), q # <<>>, NEW n, Owed(q, 0, n)
    PROVE  Owed(Tail(q), PayloadLen(Head(q)), n)
  <1>1. PICK b \in [0 .. Len(q) -> Int] :
            /\ b[0] = 0
            /\ \A i \in 1 .. Len(q) : b[i] = b[i - 1] + PayloadLen(q[i])
            /\ b[Len(q)] = n
    BY DEF Owed
  <1> DEFINE r == Tail(q)
             c == [i \in 0 .. Len(q) - 1 |-> b[i + 1]]
  <1>2. /\ Len(q) \in Nat \ {0} /\ Len(r) = Len(q) - 1 /\ Head(q) = q[1] /\ Head(q) \in Item
        /\ \A i \in 1 .. Len(r) : r[i] = q[i + 1]
    OBVIOUS
  <1>3. c \in [0 .. Len(r) -> Int]
    BY <1>2
  <1>4. c[0] = PayloadLen(Head(q))
    <2>1. c[0] = b[1] /\ b[1] = b[0] + PayloadLen(q[1])
      BY <1>1, <1>2
    <2>2. QED
      BY <1>1, <1>2, <2>1, PayloadType
  <1>5. c[Len(r)] = n
    BY <1>1, <1>2
  <1>6. ASSUME NEW i \in 1 .. Len(r)
        PROVE  c[i] = c[i - 1] + PayloadLen(r[i])
    <2>1. c[i] = b[i + 1] /\ c[i - 1] = b[i] /\ i + 1 \in 1 .. Len(q) /\ (i + 1) - 1 = i
      BY <1>2
    <2>2. b[i + 1] = b[i] + PayloadLen(q[i + 1])
      BY <1>1, <2>1
    <2>3. QED
      BY <1>2, <2>1, <2>2
  <1> HIDE DEF c, r
  <1>7. Owed(r, PayloadLen(Head(q)), n)
    BY <1>3, <1>4, <1>5, <1>6 DEF Owed
  <1>8. QED
    BY <1>7 DEF r

\* A release takes the bytes of the worker's item off.
LEMMA OwedRelease ==
    ASSUME NEW q \in Seq(Item), NEW w \in Int, NEW n \in Int, Owed(q, w, n)
    PROVE  Owed(q, 0, n - w)
  <1>1. PICK b \in [0 .. Len(q) -> Int] :
            /\ b[0] = w
            /\ \A i \in 1 .. Len(q) : b[i] = b[i - 1] + PayloadLen(q[i])
            /\ b[Len(q)] = n
    BY DEF Owed
  <1> DEFINE c == [i \in 0 .. Len(q) |-> b[i] - w]
  <1>2. Len(q) \in Nat /\ \A i \in 1 .. Len(q) : q[i] \in Item
    OBVIOUS
  <1>3. c \in [0 .. Len(q) -> Int]
    OBVIOUS
  <1>4. c[0] = 0 /\ c[Len(q)] = n - w
    BY <1>1, <1>2
  <1>5. ASSUME NEW i \in 1 .. Len(q)
        PROVE  c[i] = c[i - 1] + PayloadLen(q[i])
    <2>i. i \in 0 .. Len(q) /\ i - 1 \in 0 .. Len(q)
      BY <1>2
    <2>1. c[i] = b[i] - w /\ c[i - 1] = b[i - 1] - w /\ b[i] \in Int /\ b[i - 1] \in Int
      BY <2>i
    <2>2. b[i] = b[i - 1] + PayloadLen(q[i]) /\ PayloadLen(q[i]) \in Int
      BY <1>1, <1>2, PayloadType
    <2> HIDE DEF c
    <2>3. QED
      BY <2>1, <2>2
  <1> HIDE DEF c
  <1>6. QED
    BY <1>3, <1>4, <1>5 DEF Owed

\* What moves the ledger: the bytes reserved and owed, and who holds them.
LEMMA LedgerFrame ==
    ASSUME IInv, [Next]_vars, QueueOpen'
    PROVE  \/ /\ UNCHANGED <<queue, queueBytes, InRelease>> /\ QueueOpen
              /\ \A p \in Procs : /\ epc'[p] = "send" <=> epc[p] = "send"
                                  /\ epc[p] = "send" => eitem'[p] = eitem[p]
           \/ Start \/ WorkerReceive \/ WorkerRelease
           \/ \E p \in Procs : Reserve(p) \/ Send(p)
  <1> DEFINE Same == /\ UNCHANGED <<queue, queueBytes, InRelease>> /\ QueueOpen
                     /\ \A p \in Procs : /\ epc'[p] = "send" <=> epc[p] = "send"
                                         /\ epc[p] = "send" => eitem'[p] = eitem[p]
  <1> USE DEF QueueOpen
  <1> DEFINE Control == Settled \cup {"idle", "lock", "check", "space", "send",
                                     "scan", "save", "rename"}
  <1>t. epc \in [Procs -> Control] /\ eitem \in [Procs -> Item]
    BY DEF IInv, TypeOK
  <1> HIDE DEF Control
  <1>p. Replay \in Procs /\ Replay \notin Events /\ Procs = Events \cup {Replay}
    BY EventsAssumption DEF Procs
  <1>e. ASSUME NEW q \in Procs, NEW v, NEW x, epc[q] # "send", v # "send",
               epc' = [epc EXCEPT ![q] = v], eitem' = [eitem EXCEPT ![q] = x] \/ eitem' = eitem,
               UNCHANGED <<queue, queueBytes, wpc, witem>>, QueueOpen
        PROVE  Same
    BY <1>e, <1>t DEF InRelease
  <1>1. ASSUME NEW e \in Events, \/ Submit(e) \/ AppendRecord(e) \/ AppendRejected(e)
                                 \/ AppendFails(e)
        PROVE  Same
    <2>1. epc[e] # "send" /\ UNCHANGED <<queue, queueBytes, wpc, witem>> /\ QueueOpen
      BY <1>1 DEF Submit, AppendRecord, AppendRejected, AppendFails, CanLock, channel, worker
    <2>2. \E v : v # "send" /\ epc' = [epc EXCEPT ![e] = v]
      BY <1>1 DEF Submit, AppendRecord, AppendRejected, AppendFails
    <2>3. eitem' = eitem \/ \E x : eitem' = [eitem EXCEPT ![e] = x]
      BY <1>1 DEF Submit, AppendRecord, AppendRejected, AppendFails
    <2>4. QED
      BY <1>e, <1>p, <2>1, <2>2, <2>3
  <1>2. ASSUME NEW e \in Events, HandlerEnds(e)
        PROVE  FALSE
    BY <1>2 DEF HandlerEnds, SendPanics, NoQueue, EnqueueCancelled
  <1>3. ASSUME NEW p \in Procs, WaitForSpace(p) \/ SpaceSignalled(p)
        PROVE  Same
    <2>1. epc[p] # "send" /\ UNCHANGED <<queue, queueBytes, wpc, witem, eitem>> /\ QueueOpen
      BY <1>3 DEF WaitForSpace, SpaceSignalled, channel, worker
    <2>2. \E v : v # "send" /\ epc' = [epc EXCEPT ![p] = v]
      BY <1>3 DEF WaitForSpace, SpaceSignalled
    <2>3. QED
      BY <1>e, <2>1, <2>2
  <1>4. CASE ReplayStep
    <2>1. UNCHANGED <<queue, queueBytes, wpc, witem>> /\ QueueOpen
      BY <1>4 DEF ReplayStep, ReplayEmpty, ReplayTruncate, ReplaySaveRemove,
         ReplaySaveRename, ReplayStart, ReplayRead, ReplayTooLong, ReplayLine, ReplayDone,
         channel, worker, IInv, PhaseOK
    <2>2. CASE ReplayEmpty \/ ReplayRead
      BY <2>1, <2>2 DEF ReplayEmpty, ReplayRead, enqueuer, InRelease
    <2>3. CASE ~(ReplayEmpty \/ ReplayRead)
      <3>1. epc[Replay] # "send" /\ \E v : v # "send" /\ epc' = [epc EXCEPT ![Replay] = v]
        BY <1>4, <2>3 DEF ReplayStep, ReplayTruncate, ReplaySaveRemove, ReplaySaveRename,
           ReplayStart, ReplayTooLong, ReplayLine, ReplayDone
      <3>2. eitem' = eitem \/ \E x : eitem' = [eitem EXCEPT ![Replay] = x]
        BY <1>4, <2>3 DEF ReplayStep, ReplayTruncate, ReplaySaveRemove, ReplaySaveRename,
           ReplayStart, ReplayTooLong, ReplayLine, ReplayDone, TakeLine
      <3>3. QED
        BY <1>e, <1>p, <2>1, <3>1, <3>2
    <2>4. QED
      BY <2>2, <2>3
  <1>5. CASE \/ WorkerDelivers \/ WorkerFails \/ WorkerSaveRemove \/ WorkerSaveRename
             \/ WorkerExit \/ WorkerMark \/ WorkerTruncateFails \/ WorkerSaveFails
             \/ BeginShutdown \/ CloseQueue \/ DropQueue \/ CloseFile \/ UNCHANGED vars
    <2>1. UNCHANGED <<queue, queueBytes, epc, eitem>> /\ QueueOpen
      BY <1>5 DEF WorkerDelivers, WorkerFails, WorkerSaveRemove, WorkerSaveRename,
         WorkerExit, WorkerMark, WorkerMarkRefused, WorkerMarkAdvance, WorkerMarkTruncate,
         WorkerTruncateFails, WorkerSaveFails, BeginShutdown, CloseQueue, DropQueue,
         CloseFile, vars, channel, enqueuer
    <2>2. UNCHANGED InRelease
      BY <1>5 DEF WorkerDelivers, WorkerFails, WorkerSaveRemove, WorkerSaveRename,
         WorkerExit, WorkerMark, WorkerMarkRefused, WorkerMarkAdvance, WorkerMarkTruncate,
         WorkerTruncateFails, WorkerSaveFails, BeginShutdown, CloseQueue, DropQueue,
         CloseFile, vars, worker, WorkerIdle, MarkReturns, InRelease
    <2>3. QED
      BY <2>1, <2>2
  <1>6. CASE Exit \/ CrashBetween \/ \E e \in Events : CrashInWrite(e)
    BY <1>6 DEF Exit, CrashBetween, CrashInWrite, Crash
  <1>7. QED
    BY <1>1, <1>2, <1>3, <1>4, <1>5, <1>6 DEF Next, Enqueue, WorkerStep, CloseStep

\* Every action keeps the ledger.
LEMMA LedgerStep ==
    ASSUME IInv, Ledger, [Next]_vars
    PROVE  Ledger'
  <1>t. /\ queue \in Seq(Item) /\ queueBytes \in Int /\ witem \in Item
        /\ eitem \in [Procs -> Item]
        /\ PayloadLen(witem) \in Int /\ \A p \in Procs : PayloadLen(eitem[p]) \in Int
    BY PayloadType DEF IInv, TypeOK, Settled
  <1>1. phase' = "down" => queueBytes' = 0
    <2>1. CASE phase' = "down" /\ phase # "down"
      <3>1. Forget
        BY <2>1, ZenonT(60) DEF Next, vars, ReplayStep, WorkerStep, WorkerMark, CloseStep, Enqueue,
           HandlerEnds, Start, ReplayEmpty, ReplayTruncate, ReplaySaveRemove,
           ReplaySaveRename, ReplayStart, ReplayRead, ReplayTooLong, ReplayLine, ReplayDone,
           WorkerReceive, WorkerRelease, WorkerDelivers, WorkerFails, WorkerExit,
           WorkerSaveRemove, WorkerSaveRename, WorkerMarkRefused, WorkerMarkAdvance,
           WorkerMarkTruncate, WorkerTruncateFails, WorkerSaveFails, BeginShutdown,
           CloseQueue, DropQueue, CloseFile, Exit, CrashBetween, CrashInWrite, Crash, Submit,
           AppendRecord, AppendRejected, AppendFails, SendPanics, NoQueue, EnqueueCancelled,
           Reserve, WaitForSpace, SpaceSignalled, Send
      <3>2. QED
        BY <3>1 DEF Forget
    <2>2. CASE phase' = "down" /\ phase = "down"
      <3>1. \/ UNCHANGED vars \/ \E e \in Events : AppendRejected(e) \/ Submit(e)
            \/ UNCHANGED queueBytes
        BY <2>2 DEF Next, ReplayStep, WorkerStep, WorkerMark, CloseStep, Enqueue,
           HandlerEnds, Start, ReplayEmpty, ReplayTruncate, ReplaySaveRemove,
           ReplaySaveRename, ReplayStart, ReplayRead, ReplayTooLong, ReplayLine, ReplayDone,
           WorkerReceive, WorkerRelease, WorkerDelivers, WorkerFails, WorkerExit,
           WorkerSaveRemove, WorkerSaveRename, WorkerMarkRefused, WorkerMarkAdvance,
           WorkerMarkTruncate, WorkerTruncateFails, WorkerSaveFails, BeginShutdown,
           CloseQueue, DropQueue, CloseFile, Exit, CrashBetween, CrashInWrite, Crash, Submit,
           AppendRecord, AppendRejected, AppendFails, SendPanics, NoQueue, EnqueueCancelled,
           Reserve, WaitForSpace, SpaceSignalled, Send, channel, IInv, PhaseOK, Settled, Procs
      <3>2. UNCHANGED queueBytes
        BY <3>1 DEF vars, AppendRejected, Submit, channel
      <3>3. QED
        BY <2>2, <3>2 DEF Ledger
    <2>3. QED
      BY <2>1, <2>2
  <1>2. ASSUME QueueOpen'
        PROVE  /\ \A p \in Procs : epc'[p] = "send" =>
                     Owed(queue', InRelease', queueBytes' - PayloadLen(eitem'[p]))
               /\ (\A p \in Procs : epc'[p] # "send") => Owed(queue', InRelease', queueBytes')
    <2> DEFINE Goal == /\ \A p \in Procs : epc'[p] = "send" =>
                            Owed(queue', InRelease', queueBytes' - PayloadLen(eitem'[p]))
                       /\ (\A p \in Procs : epc'[p] # "send") =>
                            Owed(queue', InRelease', queueBytes')
    <2>1. CASE /\ UNCHANGED <<queue, queueBytes, InRelease>> /\ QueueOpen
               /\ \A p \in Procs : /\ epc'[p] = "send" <=> epc[p] = "send"
                                   /\ epc[p] = "send" => eitem'[p] = eitem[p]
      BY <2>1 DEF Ledger
    <2>2. CASE Start
      <3>1. /\ queue' = <<>> /\ queueBytes' = 0 /\ wpc' = "recv"
            /\ \A p \in Procs : epc'[p] # "send"
        BY <2>2 DEF Start, channel, enqueuer, IInv, PhaseOK, Ledger, Settled, Procs
      <3>2. InRelease' = 0
        BY <3>1 DEF InRelease
      <3>3. QED
        BY <3>1, <3>2, OwedNone
    <2>3. CASE WorkerReceive
      <3>1. /\ queue # <<>> /\ queue' = Tail(queue) /\ InRelease = 0 /\ QueueOpen
            /\ InRelease' = PayloadLen(Head(queue)) /\ UNCHANGED <<queueBytes, epc, eitem>>
        BY <1>2, <2>3 DEF WorkerReceive, InRelease, enqueuer, QueueOpen
      <3>2. QED
        BY <1>t, <3>1, OwedTail DEF Ledger
    <2>4. CASE WorkerRelease
      <3>1. /\ queue' = queue /\ InRelease = PayloadLen(witem) /\ InRelease' = 0 /\ QueueOpen
            /\ queueBytes' = queueBytes - PayloadLen(witem) /\ UNCHANGED <<epc, eitem>>
        BY <1>2, <2>4 DEF WorkerRelease, ReleaseBytes, InRelease, enqueuer, QueueOpen
      <3>2. ASSUME NEW n \in Int, Owed(queue, InRelease, n)
            PROVE  Owed(queue, 0, n - PayloadLen(witem))
        BY <1>t, <3>1, <3>2, OwedRelease
      <3>3. ASSUME NEW p \in Procs, epc[p] = "send"
            PROVE  Owed(queue, 0, (queueBytes - PayloadLen(witem)) - PayloadLen(eitem[p]))
        <4>1. /\ queueBytes - PayloadLen(eitem[p]) \in Int
              /\ (queueBytes - PayloadLen(eitem[p])) - PayloadLen(witem)
                   = (queueBytes - PayloadLen(witem)) - PayloadLen(eitem[p])
          BY <1>t
        <4>2. Owed(queue, InRelease, queueBytes - PayloadLen(eitem[p]))
          BY <3>1, <3>3 DEF Ledger
        <4>3. Owed(queue, 0, (queueBytes - PayloadLen(eitem[p])) - PayloadLen(witem))
          BY <3>2, <4>1, <4>2
        <4>4. QED
          BY <4>1, <4>3
      <3>4. (\A p \in Procs : epc[p] # "send") =>
                Owed(queue, 0, queueBytes - PayloadLen(witem))
        BY <1>t, <3>1, <3>2 DEF Ledger
      <3>5. QED
        BY <3>1, <3>3, <3>4
    <2>5. ASSUME NEW p \in Procs, Reserve(p)
          PROVE  Goal
      <3>1. /\ epc[p] = "check" /\ queueBytes' = queueBytes + PayloadLen(eitem[p]) /\ QueueOpen
            /\ epc' = [epc EXCEPT ![p] = "send"] /\ UNCHANGED <<queue, wpc, witem, eitem>>
        BY <1>2, <2>5 DEF Reserve, QueueOpen, worker
      <3>2. \A q \in Procs : epc[q] # "send"
        <4>1. ASSUME NEW q \in Procs, epc[q] = "send"
              PROVE  FALSE
          <5>1. Enqueuing(p)
            BY <3>1 DEF Enqueuing
          <5>2. Enqueuing(q)
            BY <4>1 DEF Enqueuing
          <5>3. p = q
            BY <5>1, <5>2, OneEnqueuer DEF IInv
          <5>4. QED
            BY <3>1, <4>1, <5>3
        <4>2. QED
          BY <4>1
      <3>3. Owed(queue, InRelease, queueBytes) /\ InRelease' = InRelease
        BY <3>1, <3>2 DEF Ledger, InRelease
      <3>4. \A q \in Procs : epc'[q] = "send" <=> q = p
        BY <3>1, <3>2 DEF IInv, TypeOK
      <3>5. queueBytes' - PayloadLen(eitem'[p]) = queueBytes
        BY <1>t, <3>1
      <3>6. QED
        BY <3>1, <3>3, <3>4, <3>5
    <2>6. ASSUME NEW p \in Procs, Send(p)
          PROVE  Goal
      <3>1. /\ epc[p] = "send" /\ queueBytes' = queueBytes /\ QueueOpen
            /\ queue' = Append(queue, eitem[p]) /\ UNCHANGED <<wpc, witem>>
        BY <2>6 DEF Send, Return, worker
      <3>2. \A q \in Procs : epc[q] = "send" => q = p
        <4>1. ASSUME NEW q \in Procs, epc[q] = "send"
              PROVE  q = p
          <5>1. Enqueuing(p)
            BY <3>1 DEF Enqueuing
          <5>2. Enqueuing(q)
            BY <4>1 DEF Enqueuing
          <5>3. p = q
            BY <5>1, <5>2, OneEnqueuer DEF IInv
          <5>4. QED
            BY <5>3
        <4>2. QED
          BY <4>1
      <3>3. /\ Owed(queue, InRelease, queueBytes - PayloadLen(eitem[p]))
            /\ InRelease' = InRelease
        BY <3>1 DEF Ledger, InRelease
      <3>4. \A q \in Procs : epc'[q] # "send"
        <4>1. PICK v \in {"scan", "acked"} : epc' = [epc EXCEPT ![p] = v]
          BY <2>6 DEF Send, Return
        <4>2. QED
          BY <3>2, <4>1 DEF IInv, TypeOK
      <3>5. /\ queueBytes - PayloadLen(eitem[p]) \in Int
            /\ (queueBytes - PayloadLen(eitem[p])) + PayloadLen(eitem[p]) = queueBytes
        BY <1>t
      <3>6. Owed(Append(queue, eitem[p]), InRelease,
                 (queueBytes - PayloadLen(eitem[p])) + PayloadLen(eitem[p]))
        BY <1>t, <3>3, <3>5, OwedAppend
      <3>7. QED
        BY <3>1, <3>3, <3>4, <3>5, <3>6
    <2>7. QED
      BY <1>2, <2>1, <2>2, <2>3, <2>4, <2>5, <2>6, LedgerFrame
  <1>3. QED
    BY <1>1, <1>2 DEF Ledger

\* A waiter found queueBytes above zero, so something is on its way.
LEMMA WaitStep ==
    ASSUME IInv, Sized, Ledger, QueueOpen, NEW p \in Procs, WaitForSpace(p)
    PROVE  queue # <<>> \/ wpc = "release"
  <1> SUFFICES ASSUME queue = <<>>, wpc # "release"
               PROVE  FALSE
    OBVIOUS
  <1>1. epc[p] = "check" /\ ~FitsQueueBytes(eitem[p])
    BY DEF WaitForSpace
  <1>2. Enqueuing(p)
    BY <1>1 DEF Enqueuing
  <1>3. eitem[p].start < eitem[p].end
    BY <1>2 DEF Sized
  <1>4. queueBytes # 0
    BY <1>1, <1>3, ItemType DEF FitsQueueBytes, IInv
  <1>5. ASSUME NEW q \in Procs, epc[q] = "send"
        PROVE  FALSE
    <2>1. Enqueuing(q)
      BY <1>5 DEF Enqueuing
    <2>2. p = q
      BY <1>2, <2>1, OneEnqueuer DEF IInv
    <2>3. QED
      BY <1>1, <1>5, <2>2
  <1>6. Owed(<<>>, 0, queueBytes)
    BY <1>5 DEF Ledger, InRelease
  <1>7. QED
    BY <1>4, <1>6, OwedNone

\* What takes a token or an item away, and who begins to wait.
LEMMA WakeFrame ==
    ASSUME IInv, [Next]_vars, QueueOpen', NEW p \in Procs, epc'[p] = "space"
    PROVE  \/ /\ epc[p] = "space" /\ QueueOpen
              /\ deliverySpace => deliverySpace'
              /\ queue # <<>> => queue' # <<>>
              /\ wpc = "release" => wpc' = "release"
           \/ epc[p] = "space" /\ WorkerReceive
           \/ epc[p] = "space" /\ WorkerRelease
           \/ WaitForSpace(p) /\ QueueOpen
  <1> DEFINE Same == /\ epc[p] = "space" /\ QueueOpen
                     /\ deliverySpace => deliverySpace'
                     /\ queue # <<>> => queue' # <<>>
                     /\ wpc = "release" => wpc' = "release"
  <1> USE DEF QueueOpen
  <1>t. epc \in [Procs -> Settled \cup {"idle", "lock", "check", "space", "send",
                                        "scan", "save", "rename"}]
    BY DEF IInv, TypeOK
  <1>p. Replay \in Procs /\ Replay \notin Events /\ Procs = Events \cup {Replay}
    BY EventsAssumption DEF Procs
  <1>q. ASSUME NEW q \in Procs, NEW v, v # "space", epc' = [epc EXCEPT ![q] = v]
        PROVE  epc[p] = "space" /\ q # p
    BY <1>q, <1>t
  <1>1. ASSUME NEW e \in Events, \/ Submit(e) \/ AppendRecord(e) \/ AppendRejected(e)
                                 \/ AppendFails(e)
        PROVE  Same
    <2>1. UNCHANGED <<queue, deliverySpace, wpc>> /\ QueueOpen
      BY <1>1 DEF Submit, AppendRecord, AppendRejected, AppendFails, channel, worker
    <2>2. \E v : v # "space" /\ epc' = [epc EXCEPT ![e] = v]
      BY <1>1 DEF Submit, AppendRecord, AppendRejected, AppendFails
    <2>3. QED
      BY <1>p, <1>q, <2>1, <2>2
  <1>2. ASSUME NEW e \in Events, HandlerEnds(e)
        PROVE  FALSE
    BY <1>2 DEF HandlerEnds, SendPanics, NoQueue, EnqueueCancelled
  <1>3. ASSUME NEW q \in Procs, WaitForSpace(q)
        PROVE  Same \/ (WaitForSpace(p) /\ QueueOpen)
    <2>1. UNCHANGED <<queue, deliverySpace, wpc>> /\ QueueOpen
      BY <1>3 DEF WaitForSpace, channel, worker
    <2>2. CASE q # p
      BY <1>3, <1>t, <2>1, <2>2 DEF WaitForSpace
    <2>3. CASE q = p
      BY <1>3, <2>1, <2>3
    <2>4. QED
      BY <2>2, <2>3
  <1>4. ASSUME NEW q \in Procs, SpaceSignalled(q)
        PROVE  FALSE
    <2>1. epc[q] = "space" /\ epc' = [epc EXCEPT ![q] = "check"]
      BY <1>4 DEF SpaceSignalled
    <2>2. epc[p] = "space" /\ q # p
      BY <1>q, <2>1
    <2>3. Enqueuing(p)
      BY <2>2 DEF Enqueuing
    <2>4. Enqueuing(q)
      BY <2>1 DEF Enqueuing
    <2>5. p = q
      BY <2>3, <2>4, OneEnqueuer DEF IInv
    <2>6. QED
      BY <2>2, <2>5
  <1>5. ASSUME NEW q \in Procs, Reserve(q) \/ Send(q)
        PROVE  Same
    <2>1. /\ UNCHANGED <<deliverySpace, wpc>> /\ QueueOpen
          /\ queue' = queue \/ queue' = Append(queue, eitem[q])
      BY <1>5 DEF Reserve, Send, worker
    <2>2. queue # <<>> => queue' # <<>>
      <3>1. queue \in Seq(Item) /\ eitem[q] \in Item
        BY DEF IInv, TypeOK
      <3>2. QED
        BY <2>1, <3>1
    <2>3. \E v : v # "space" /\ epc' = [epc EXCEPT ![q] = v]
      BY <1>5 DEF Reserve, Send, Return
    <2>4. QED
      BY <1>q, <2>1, <2>2, <2>3
  <1>6. CASE ReplayStep
    <2>1. UNCHANGED <<queue, deliverySpace, wpc>> /\ QueueOpen
      BY <1>6 DEF ReplayStep, ReplayEmpty, ReplayTruncate, ReplaySaveRemove,
         ReplaySaveRename, ReplayStart, ReplayRead, ReplayTooLong, ReplayLine, ReplayDone,
         channel, worker, IInv, PhaseOK
    <2>2. epc' = epc \/ \E v : v # "space" /\ epc' = [epc EXCEPT ![Replay] = v]
      BY <1>6 DEF ReplayStep, ReplayEmpty, ReplayTruncate, ReplaySaveRemove,
         ReplaySaveRename, ReplayStart, ReplayRead, ReplayTooLong, ReplayLine, ReplayDone,
         enqueuer
    <2>3. QED
      BY <1>p, <1>q, <2>1, <2>2
  <1>7. CASE \/ WorkerDelivers \/ WorkerFails \/ WorkerSaveRemove \/ WorkerSaveRename
             \/ WorkerExit \/ WorkerMark \/ WorkerTruncateFails \/ WorkerSaveFails
             \/ BeginShutdown \/ CloseQueue \/ DropQueue \/ CloseFile \/ UNCHANGED vars
    <2>1. UNCHANGED <<queue, deliverySpace, epc>> /\ QueueOpen
      BY <1>7 DEF WorkerDelivers, WorkerFails, WorkerSaveRemove, WorkerSaveRename,
         WorkerExit, WorkerMark, WorkerMarkRefused, WorkerMarkAdvance, WorkerMarkTruncate,
         WorkerTruncateFails, WorkerSaveFails, BeginShutdown, CloseQueue, DropQueue,
         CloseFile, vars, channel, enqueuer
    <2>2. wpc = "release" => wpc' = "release"
      BY <1>7 DEF WorkerDelivers, WorkerFails, WorkerSaveRemove, WorkerSaveRename,
         WorkerExit, WorkerMark, WorkerMarkRefused, WorkerMarkAdvance, WorkerMarkTruncate,
         WorkerTruncateFails, WorkerSaveFails, BeginShutdown, CloseQueue, DropQueue,
         CloseFile, vars, worker
    <2>3. QED
      BY <2>1, <2>2
  <1>8. CASE WorkerReceive \/ WorkerRelease
    BY <1>8 DEF WorkerReceive, WorkerRelease, enqueuer
  <1>9. CASE Exit \/ CrashBetween \/ \E e \in Events : CrashInWrite(e)
    BY <1>9 DEF Exit, CrashBetween, CrashInWrite, Crash
  <1>10. CASE Start
    <2>1. epc' = epc /\ epc[p] # "space"
      BY <1>10, <1>p DEF Start, enqueuer, IInv, PhaseOK, Settled
    <2>2. QED
      BY <2>1
  <1>11. QED
    BY <1>1, <1>2, <1>3, <1>4, <1>5, <1>6, <1>7, <1>8, <1>9, <1>10
       DEF Next, Enqueue, WorkerStep, CloseStep

\* Every action leaves a waiter its wake-up.
LEMMA WakeStep ==
    ASSUME IInv, Sized, Ledger, NoLostWakeup, [Next]_vars
    PROVE  NoLostWakeup'
  <1> SUFFICES ASSUME NEW p \in Procs, epc'[p] = "space", QueueOpen'
               PROVE  deliverySpace' \/ queue' # <<>> \/ wpc' = "release"
    BY DEF NoLostWakeup
  <1>1. CASE /\ epc[p] = "space" /\ QueueOpen
             /\ deliverySpace => deliverySpace'
             /\ queue # <<>> => queue' # <<>>
             /\ wpc = "release" => wpc' = "release"
    BY <1>1 DEF NoLostWakeup
  <1>2. CASE WorkerReceive
    BY <1>2 DEF WorkerReceive
  <1>3. CASE WorkerRelease
    BY <1>3 DEF WorkerRelease, ReleaseBytes, QueueOpen
  <1>4. CASE WaitForSpace(p) /\ QueueOpen
    BY <1>4, WaitStep DEF WaitForSpace, channel, worker
  <1>5. QED
    BY <1>1, <1>2, <1>3, <1>4, WakeFrame

\* A handler or the replay that waits for the queue to make room has a wake-up
\* coming: the token of releaseDeliveryBytes is in its channel, or an item whose
\* release will put it there is queued or received.  It holds for any payload
\* lengths, with crashes, failed file operations and restarts.
THEOREM WakeupComes == Spec => []NoLostWakeup
  <1> DEFINE Flow == ScanBound /\ Sized /\ Ledger /\ NoLostWakeup
  <1>1. Init => Flow
    <2> SUFFICES ASSUME Init PROVE Flow
      OBVIOUS
    <2>1. \A p \in Procs : epc[p] \in {"idle", "new"} /\ queueBytes = 0
      BY DEF Init
    <2>2. phase = "down" /\ epc[Replay] \in {"idle", "new"}
      BY <2>1 DEF Init, Procs
    <2>3. ScanBound
      BY <2>2 DEF ScanBound, Scanning
    <2>4. Sized /\ NoLostWakeup
      BY <2>1 DEF Sized, Enqueuing, NoLostWakeup
    <2>5. Ledger
      BY <2>2 DEF Ledger, QueueOpen, Init
    <2>6. QED
      BY <2>3, <2>4, <2>5
  <1>2. IInv /\ Flow /\ [Next]_vars => Flow'
    <2> SUFFICES ASSUME IInv, ScanBound, Sized, Ledger, NoLostWakeup, [Next]_vars
                 PROVE  Flow'
      OBVIOUS
    <2>1. ScanBound'
      BY ScanBoundStep
    <2>2. Sized'
      BY SizedStep
    <2>3. Ledger'
      BY LedgerStep
    <2>4. NoLostWakeup'
      BY WakeStep
    <2>5. QED
      BY <2>1, <2>2, <2>3, <2>4
  <1>3. Flow => NoLostWakeup
    OBVIOUS
  <1> HIDE DEF Flow
  <1>4. QED
    BY <1>1, <1>2, <1>3, Inductive, PTL DEF Spec

-----------------------------------------------------------------------------
(* Custody: the invariant.                                                 *)

\* The bytes of the file are bytes of records, and each but the first of a
\* record follows another one of it: torn records have lost their tails.
Cells ==
    \A j \in DOMAIN file :
        /\ file[j].i \in 1 .. StoredLen(file[j].ev)
        /\ file[j] = Stored(file[j].ev)[file[j].i]
        /\ file[j].i > 1 => j > 1 /\ file[j - 1].ev = file[j].ev

\* An event that has not been appended has no bytes in the file.
Fresh ==
    \A e \in Events : epc[e] \in {"new", "lock"} =>
        \A j \in DOMAIN file : file[j].ev # e

\* The record of an event that is accepted, or about to be, is whole.
Whole(e) ==
    \A j \in DOMAIN file : file[j].ev = e /\ file[j].i = 1 =>
        /\ j + ContentLen[e] <= Len(file)
        /\ \A k \in 0 .. ContentLen[e] : file[j + k] = Stored(e)[k + 1]

Intact == \A e \in Events : epc[e] = "acked" \/ Enqueuing(e) => Whole(e)

\* The scanner's buffer is the part of the file that comes next.
Buffered ==
    Scanning /\ ~posAhead =>
        \A k \in DOMAIN scan.buf : scan.buf[k] = file[scan.next + k]

\* What is on its way to the worker.
Pipe ==
    {queue[i] : i \in DOMAIN queue} \cup {x \in {witem} : Working}
        \cup {eitem[p] : p \in {q \in Procs : Enqueuing(q)}}

\* The text an item stands for is its event's, or was quarantined.  The line of
\* a torn record is counted one byte longer than it is, and that byte may be the
\* first one of the next record.
Accounted(x) ==
    \A j \in x.start + 1 .. x.end : ~file[j].nl =>
        \/ file[j].ev = x.ev
        \/ file[j].ev \in quarantined
        \/ j = x.end /\ file[j].i = 1

Covered == ~posAhead => \A x \in Pipe : Accounted(x)

\* A handler's item begins with its event's record.
Own ==
    ~posAhead => \A e \in Events : Enqueuing(e) =>
        eitem[e].ev = e /\ file[eitem[e].start + 1] = Stored(e)[1]

\* The worker marks what it delivered.
Marked == wpc = "mark" /\ witem.ev # NoEvent => witem.ev \in delivered

\* The position on disk is never ahead of the one in memory, except while that
\* of an emptied file is being saved.
Behind ==
    ~posAhead /\ phase # "down" =>
        \/ DurablePos <= processedPos
        \/ file = <<>> /\ Saving

Settlement == delivered \cup deadLettered \cup quarantined

TextBeyond(e, n) == \E j \in n + 1 .. Len(file) : file[j].ev = e /\ ~file[j].nl

KeptBeyond(n) ==
    \A e \in Events : epc[e] = "acked" => e \in Settlement \/ TextBeyond(e, n)

\* An accepted event is settled, or a restart would find it, now and after the
\* position in memory has been saved.
InCustody == ~posAhead => KeptBeyond(DurablePos) /\ KeptBeyond(processedPos)

CInv == Cells /\ Fresh /\ Intact /\ Buffered /\ Covered /\ Own /\ Marked /\ Behind /\ InCustody

-----------------------------------------------------------------------------
(* Sequences of cells.                                                     *)

\* A place in the second of two stretches.
LEMMA SecondPart ==
    ASSUME NEW a \in Nat, NEW b \in Nat, NEW j \in 1 .. a + b, j \notin 1 .. a
    PROVE  j - a \in 1 .. b /\ j = a + (j - a)
  OBVIOUS

\* The bytes of a stretch.
LEMMA SliceCells ==
    ASSUME NEW s \in Seq(Cell), NEW m \in Nat \ {0}, NEW n \in Nat,
           NEW i \in 1 .. n - m + 1
    PROVE  SubSeq(s, m, n)[i] = s[m + i - 1]
  OBVIOUS

\* The bytes of two sequences, one after the other.
LEMMA GlueCells ==
    ASSUME NEW s \in Seq(Cell), NEW t \in Seq(Cell)
    PROVE  /\ s \o t \in Seq(Cell) /\ Len(s \o t) = Len(s) + Len(t)
           /\ \A j \in 1 .. Len(s) : (s \o t)[j] = s[j]
           /\ \A k \in 1 .. Len(t) : (s \o t)[Len(s) + k] = t[k]
  OBVIOUS

-----------------------------------------------------------------------------
(* What a step does to the file, the handlers and the items.               *)

\* The bytes of a record.
LEMMA StoredCell ==
    ASSUME NEW e \in Events, NEW k \in 1 .. StoredLen(e)
    PROVE  /\ Stored(e)[k].ev = e /\ Stored(e)[k].i = k /\ Stored(e)[k] \in Cell
           /\ Stored(e)[k].nl <=> k = StoredLen(e) \/ (e \in MultiLine /\ k = 2)
  <1>1. ContentLen[e] \in Nat /\ k \in Nat
    BY SizesAssumption DEF StoredLen
  <1> DEFINE last == k = ContentLen[e] + 1 \/ (e \in MultiLine /\ k = 2)
  <1>2. Stored(e)[k] = [ev |-> e, i |-> k, nl |-> last]
    BY DEF Stored, StoredLen
  <1>3. last \in BOOLEAN
    OBVIOUS
  <1>4. last <=> k = StoredLen(e) \/ (e \in MultiLine /\ k = 2)
    BY DEF StoredLen
  <1> HIDE DEF last
  <1>5. Stored(e)[k].ev = e /\ Stored(e)[k].i = k /\ Stored(e)[k] \in Cell
    BY <1>1, <1>2, <1>3 DEF Cell
  <1>6. Stored(e)[k].nl = last
    BY <1>2
  <1>7. QED
    BY <1>4, <1>5, <1>6

\* A write adds bytes of a record and moves none.
LEMMA GrownFile ==
    ASSUME file \in Seq(Cell), NEW e \in Events, NEW n \in 0 .. StoredLen(e)
    PROVE  LET f == file \o Prefix(Stored(e), n)
           IN  /\ f \in Seq(Cell) /\ Len(f) = Len(file) + n
               /\ \A j \in 1 .. Len(file) : f[j] = file[j]
               /\ \A k \in 1 .. n : f[Len(file) + k] = Stored(e)[k]
  <1> DEFINE r == Prefix(Stored(e), n)
  <1>1. Stored(e) \in Seq(Cell) /\ Len(Stored(e)) = StoredLen(e) /\ StoredLen(e) \in Nat
    BY StoredType
  <1>2. r \in Seq(Cell) /\ Len(r) = n
    BY <1>1, SubSeqType DEF Prefix
  <1>3. \A k \in 1 .. n : r[k] = Stored(e)[k]
    BY <1>1 DEF Prefix
  <1> HIDE DEF r
  <1>4. /\ file \o r \in Seq(Cell) /\ Len(file \o r) = Len(file) + n
        /\ \A j \in 1 .. Len(file) : (file \o r)[j] = file[j]
        /\ \A k \in 1 .. n : (file \o r)[Len(file) + k] = r[k]
    BY <1>2
  <1>5. QED
    BY <1>3, <1>4 DEF r

\* A write by the handler of e adds the first n bytes of its record.
Writes(e, n) ==
    /\ CanLock(e) /\ phase \notin {"down", "replay"}
    /\ file' = file \o Prefix(Stored(e), n)
    /\ \/ AppendRecord(e) /\ n = StoredLen(e)
       \/ AppendFails(e)
       \/ CrashInWrite(e)

\* What moves the file.
LEMMA FileFrame ==
    ASSUME IInv, [Next]_vars
    PROVE  \/ file' = file
           \/ file' = <<>> /\ (ReplayTruncate \/ WorkerMarkTruncate)
           \/ \E e \in Events : \E n \in 0 .. StoredLen(e) : Writes(e, n)
  <1>p. ASSUME NEW e \in Events, CanLock(e)
        PROVE  phase \notin {"down", "replay"}
    BY <1>p DEF CanLock, IInv, PhaseOK, Settled
  <1>1. ASSUME NEW e \in Events, AppendRecord(e)
        PROVE  \E n \in 0 .. StoredLen(e) : Writes(e, n)
    <2>1. Stored(e) \in Seq(Cell) /\ Len(Stored(e)) = StoredLen(e) /\ StoredLen(e) \in Nat
      BY StoredType
    <2>2. Prefix(Stored(e), StoredLen(e)) = Stored(e)
      BY <2>1 DEF Prefix
    <2>3. Writes(e, StoredLen(e))
      BY <1>1, <1>p, <2>2 DEF Writes, AppendRecord
    <2>4. QED
      BY <2>1, <2>3
  <1>2. ASSUME NEW e \in Events, AppendFails(e)
        PROVE  \E n \in 0 .. StoredLen(e) : Writes(e, n)
    BY <1>2, <1>p DEF Writes, AppendFails
  <1>3. ASSUME NEW e \in Events, CrashInWrite(e)
        PROVE  \E n \in 0 .. StoredLen(e) : Writes(e, n)
    <2>1. StoredLen(e) \in Nat
      BY StoredType
    <2>2. CanLock(e) /\ \E n \in 1 .. StoredLen(e) : file' = file \o Prefix(Stored(e), n)
      BY <1>3 DEF CrashInWrite
    <2>3. QED
      BY <1>3, <1>p, <2>1, <2>2 DEF Writes
  <1>4. CASE ReplayTruncate \/ WorkerMarkTruncate
    BY <1>4 DEF ReplayTruncate, WorkerMarkTruncate
  <1>5. CASE UNCHANGED file
    BY <1>5
  <1>6. CASE WorkerMarkRefused \/ WorkerMarkAdvance \/ WorkerTruncateFails \/ CrashBetween
    BY <1>6 DEF WorkerMarkRefused, WorkerMarkAdvance, WorkerTruncateFails, CrashBetween, durable
  <1>7. CASE \/ Start \/ ReplayStart \/ ReplaySaveRemove \/ ReplaySaveRename \/ Exit
             \/ WorkerSaveRemove \/ WorkerSaveRename \/ WorkerSaveFails
    BY <1>7 DEF Start, ReplayStart, ReplaySaveRemove, ReplaySaveRename, Exit,
       WorkerSaveRemove, WorkerSaveRename, WorkerSaveFails, durable
  <1>8. CASE ReplayRead \/ ReplayTooLong \/ ReplayLine \/ ReplayDone
    BY <1>8 DEF ReplayRead, ReplayTooLong, ReplayLine, ReplayDone, durable
  <1>9. QED
    BY <1>1, <1>2, <1>3, <1>4, <1>5, <1>6, <1>7, <1>8, ScanFrame

\* How a handler's call proceeds.
LEMMA ControlFrame ==
    ASSUME IInv, [Next]_vars, NEW e \in Events
    PROVE  \/ epc'[e] = epc[e]
           \/ epc[e] = "new" /\ epc'[e] \in {"lock", "rejected"} /\ UNCHANGED file
           \/ epc[e] = "lock" /\ epc'[e] = "check" /\ AppendRecord(e)
           \/ Enqueuing(e) /\ epc'[e] \in {"check", "space", "send"}
           \/ epc[e] = "send" /\ epc'[e] = "acked" /\ Send(e)
           \/ epc[e] \notin Settled /\ epc'[e] \in {"rejected", "aborted"}
  <1> DEFINE Moves == \/ epc'[e] = epc[e]
                      \/ epc[e] = "new" /\ epc'[e] \in {"lock", "rejected"} /\ UNCHANGED file
                      \/ epc[e] = "lock" /\ epc'[e] = "check" /\ AppendRecord(e)
                      \/ Enqueuing(e) /\ epc'[e] \in {"check", "space", "send"}
                      \/ epc[e] = "send" /\ epc'[e] = "acked" /\ Send(e)
                      \/ epc[e] \notin Settled /\ epc'[e] \in {"rejected", "aborted"}
  <1>t. /\ epc \in [Procs -> Settled \cup {"idle", "lock", "check", "space", "send",
                                           "scan", "save", "rename"}]
        /\ e \in Procs /\ Replay \in Procs /\ e # Replay
    BY EventsAssumption DEF IInv, TypeOK, Procs
  <1>o. ASSUME NEW q \in Procs, NEW v, q # e, epc' = [epc EXCEPT ![q] = v]
        PROVE  Moves
    BY <1>o, <1>t
  <1>1. ASSUME NEW q \in Events, \/ Submit(q) \/ AppendRecord(q) \/ AppendRejected(q)
                                 \/ AppendFails(q) \/ HandlerEnds(q)
        PROVE  Moves
    <2>1. CASE q # e
      <3>1. q \in Procs /\ \E v : epc' = [epc EXCEPT ![q] = v]
        BY <1>1 DEF Submit, AppendRecord, AppendRejected, AppendFails, HandlerEnds,
           SendPanics, NoQueue, EnqueueCancelled, Return, Procs
      <3>2. QED
        BY <1>o, <2>1, <3>1
    <2>2. CASE q = e
      <3>1. CASE Submit(e)
        BY <1>t, <3>1 DEF Submit, durable
      <3>2. CASE AppendRecord(e)
        BY <1>t, <3>2 DEF AppendRecord, CanLock
      <3>3. CASE AppendRejected(e) \/ AppendFails(e)
        BY <1>t, <3>3 DEF AppendRejected, AppendFails, CanLock, Settled
      <3>4. CASE HandlerEnds(e)
        BY <1>t, <3>4 DEF HandlerEnds, SendPanics, NoQueue, EnqueueCancelled, Return, Settled
      <3>5. QED
        BY <1>1, <2>2, <3>1, <3>2, <3>3, <3>4
    <2>3. QED
      BY <2>1, <2>2
  <1>2. ASSUME NEW q \in Procs, Enqueue(q)
        PROVE  Moves
    <2>1. CASE q # e
      <3>1. \E v : epc' = [epc EXCEPT ![q] = v]
        BY <1>2 DEF Enqueue, Reserve, WaitForSpace, SpaceSignalled, Send, Return
      <3>2. QED
        BY <1>o, <2>1, <3>1
    <2>2. CASE q = e
      <3>1. CASE Send(e)
        BY <1>t, <3>1 DEF Send, Return
      <3>2. CASE Reserve(e) \/ WaitForSpace(e) \/ SpaceSignalled(e)
        BY <1>t, <3>2 DEF Reserve, WaitForSpace, SpaceSignalled, Enqueuing
      <3>3. QED
        BY <1>2, <2>2, <3>1, <3>2 DEF Enqueue
    <2>3. QED
      BY <2>1, <2>2
  <1>3. CASE Exit \/ CrashBetween \/ \E q \in Events : CrashInWrite(q)
    <2>1. Forget
      BY <1>3 DEF Exit, CrashBetween, CrashInWrite, Crash
    <2>2. epc'[e] = epc[e] \/ (epc[e] \notin Settled /\ epc'[e] = "aborted")
      BY <1>t, <2>1 DEF Forget
    <2>3. QED
      BY <2>2
  <1>4. CASE ReplayStep
    <2>1. epc' = epc \/ \E v : epc' = [epc EXCEPT ![Replay] = v]
      BY <1>4 DEF ReplayStep, ReplayEmpty, ReplayTruncate, ReplaySaveRemove,
         ReplaySaveRename, ReplayStart, ReplayRead, ReplayTooLong, ReplayLine, ReplayDone,
         enqueuer
    <2>2. QED
      BY <1>o, <1>t, <2>1
  <1>5. CASE \/ Start \/ WorkerStep \/ WorkerMark \/ WorkerTruncateFails \/ WorkerSaveFails
             \/ BeginShutdown \/ CloseQueue \/ DropQueue \/ CloseFile \/ UNCHANGED vars
    <2>1. UNCHANGED epc
      BY <1>5 DEF Start, WorkerStep, WorkerMark, WorkerReceive, WorkerRelease,
         WorkerDelivers, WorkerFails, WorkerSaveRemove, WorkerSaveRename, WorkerExit,
         WorkerMarkRefused, WorkerMarkAdvance, WorkerMarkTruncate, WorkerTruncateFails,
         WorkerSaveFails, BeginShutdown, CloseQueue, DropQueue, CloseFile, vars, enqueuer
    <2>2. QED
      BY <2>1
  <1>6. QED
    BY <1>1, <1>2, <1>3, <1>4, <1>5 DEF Next, CloseStep

\* What moves the channel.
LEMMA QueueFrame ==
    ASSUME IInv, [Next]_vars
    PROVE  \/ queue' = queue
           \/ queue' = <<>>
           \/ WorkerReceive
           \/ \E p \in Procs : Send(p)
  BY ZenonT(60) DEF Next, vars, ReplayStep, WorkerStep, WorkerMark, CloseStep, Enqueue, HandlerEnds,
         Start, ReplayEmpty, ReplayTruncate, ReplaySaveRemove, ReplaySaveRename,
         ReplayStart, ReplayRead, ReplayTooLong, ReplayLine, ReplayDone, WorkerRelease,
         WorkerDelivers, WorkerFails, WorkerExit, WorkerSaveRemove, WorkerSaveRename,
         WorkerMarkRefused, WorkerMarkAdvance, WorkerMarkTruncate, WorkerTruncateFails,
         WorkerSaveFails, BeginShutdown, CloseQueue, DropQueue, CloseFile, Exit,
         CrashBetween, CrashInWrite, Crash, Forget, Submit, AppendRecord, AppendRejected,
         AppendFails, SendPanics, NoQueue, EnqueueCancelled, Reserve, WaitForSpace,
         SpaceSignalled, channel

\* The worker's item stays the one it received.
LEMMA WorkingFrame ==
    ASSUME IInv, [Next]_vars, Working'
    PROVE  (Working /\ witem' = witem) \/ WorkerReceive
  BY DEF Working, Next, vars, ReplayStep, WorkerStep, WorkerMark, CloseStep, Enqueue,
         HandlerEnds, Start, ReplayEmpty, ReplayTruncate, ReplaySaveRemove,
         ReplaySaveRename, ReplayStart, ReplayRead, ReplayTooLong, ReplayLine, ReplayDone,
         WorkerRelease, WorkerDelivers, WorkerFails, WorkerIdle, WorkerExit,
         WorkerSaveRemove, WorkerSaveRename, MarkReturns, WorkerMarkRefused,
         WorkerMarkAdvance, WorkerMarkTruncate, WorkerTruncateFails, WorkerSaveFails,
         BeginShutdown, CloseQueue, DropQueue, CloseFile, Exit, CrashBetween, CrashInWrite,
         Crash, Forget, Submit, AppendRecord, AppendRejected, AppendFails, SendPanics,
         NoQueue, EnqueueCancelled, Reserve, WaitForSpace, SpaceSignalled, Send, worker

\* Items move from the enqueuers to the channel and from there to the worker;
\* a line taken and a record written make new ones.
LEMMA PipeFrame ==
    ASSUME IInv, [Next]_vars, NEW x \in Pipe'
    PROVE  \/ x \in Pipe
           \/ ReplayLine /\ x = eitem'[Replay]
           \/ \E e \in Events : AppendRecord(e) /\ x = eitem'[e]
  <1>t. queue \in Seq(Item) /\ eitem \in [Procs -> Item]
    BY DEF IInv, TypeOK
  <1>1. ASSUME NEW i \in DOMAIN queue', x = queue'[i]
        PROVE  x \in Pipe
    <2>1. CASE queue' = queue
      BY <1>1, <2>1 DEF Pipe
    <2>2. CASE queue' = <<>>
      BY <1>1, <2>2
    <2>3. CASE WorkerReceive
      BY <1>1, <1>t, <2>3, QueueOps DEF WorkerReceive, Pipe
    <2>4. ASSUME NEW p \in Procs, Send(p)
          PROVE  x \in Pipe
      <3>1. Enqueuing(p) /\ queue' = Append(queue, eitem[p]) /\ eitem[p] \in Item
        BY <1>t, <2>4 DEF Send, Enqueuing
      <3>2. x = eitem[p] \/ \E k \in DOMAIN queue : x = queue[k]
        BY <1>1, <1>t, <3>1
      <3>3. QED
        BY <3>1, <3>2 DEF Pipe
    <2>5. QED
      BY <2>1, <2>2, <2>3, <2>4, QueueFrame
  <1>2. ASSUME Working', x = witem'
        PROVE  x \in Pipe
    <2>1. CASE Working /\ witem' = witem
      BY <1>2, <2>1 DEF Pipe
    <2>2. CASE WorkerReceive
      <3>1. x = queue[1] /\ 1 \in DOMAIN queue
        BY <1>2, <1>t, <2>2 DEF WorkerReceive
      <3>2. QED
        BY <3>1 DEF Pipe
    <2>3. QED
      BY <1>2, <2>1, <2>2, WorkingFrame
  <1>3. ASSUME NEW p \in Procs, Enqueuing(p)', x = eitem'[p]
        PROVE  \/ x \in Pipe
               \/ ReplayLine /\ x = eitem'[Replay]
               \/ \E e \in Events : AppendRecord(e) /\ x = eitem'[e]
    <2>1. CASE Enqueuing(p) /\ eitem'[p] = eitem[p]
      BY <1>3, <2>1 DEF Pipe
    <2>2. QED
      BY <1>3, <2>1, EnqueueFrame
  <1>4. QED
    BY <1>1, <1>2, <1>3 DEF Pipe

\* An item on its way is a stretch of the file.
LEMMA PipeInFile ==
    ASSUME IInv, ~posAhead, NEW x \in Pipe
    PROVE  /\ x \in Item /\ x.start \in Nat /\ x.end \in Nat
           /\ processedPos <= x.start /\ x.start < x.end /\ x.end <= Len(file)
  <1>1. x \in Item
    BY DEF Pipe, IInv, TypeOK
  <1>2. InFile(x)
    BY DEF Pipe, IInv, PipeInOrder, QueueInOrder, WorkerInOrder, EnqueueInOrder
  <1>3. QED
    BY <1>1, <1>2 DEF InFile, Item

\* A process that went down has nothing on its way.
LEMMA DownPipe ==
    ASSUME Forget
    PROVE  Pipe' = {}
  <1>1. queue' = <<>> /\ wpc' = "none" /\ \A p \in Procs : ~Enqueuing(p)'
    BY DEF Forget, Enqueuing, Settled
  <1>2. QED
    BY <1>1 DEF Pipe, Working

\* A position left beyond the file stays recorded.
LEMMA AheadStays ==
    ASSUME IInv, [Next]_vars, ~posAhead'
    PROVE  ~posAhead
  <1>1. CASE AbandonSave
    BY <1>1, Zenon DEF AbandonSave
  <1>2. CASE UNCHANGED posAhead
    BY <1>2
  <1>3. CASE CrashBetween \/ WorkerSaveFails \/ \E e \in Events : CrashInWrite(e)
    BY <1>1, <1>3 DEF CrashBetween, CrashInWrite, Crash, WorkerSaveFails
  <1>4. CASE ~(CrashBetween \/ WorkerSaveFails \/ \E e \in Events : CrashInWrite(e))
    <2>1. UNCHANGED posAhead
      BY <1>4, ZenonT(60) DEF Next, vars, ReplayStep, WorkerStep, WorkerMark, CloseStep, Enqueue,
       HandlerEnds, Start, ReplayEmpty, ReplayTruncate, ReplaySaveRemove, ReplaySaveRename,
       ReplayStart, ReplayRead, ReplayTooLong, ReplayLine, ReplayDone, WorkerReceive,
       WorkerRelease, WorkerDelivers, WorkerFails, WorkerExit, WorkerSaveRemove,
       WorkerSaveRename, WorkerMarkRefused, WorkerMarkAdvance, WorkerMarkTruncate,
       WorkerTruncateFails, BeginShutdown, CloseQueue, DropQueue, CloseFile, Exit, Submit,
       AppendRecord, AppendRejected, AppendFails, SendPanics, NoQueue, EnqueueCancelled,
       Reserve, WaitForSpace, SpaceSignalled, Send
    <2>2. QED
      BY <1>2, <2>1
  <1>5. QED
    BY <1>3, <1>4

-----------------------------------------------------------------------------
(* The file.                                                               *)

\* A write makes the file longer; the emptied file has no bytes.
LEMMA FileMoves ==
    ASSUME IInv, [Next]_vars
    PROVE  \/ file' = <<>>
           \/ /\ file' \in Seq(Cell) /\ Len(file) <= Len(file')
              /\ \A j \in 1 .. Len(file) : file'[j] = file[j]
  <1>t. file \in Seq(Cell) /\ Len(file) \in Nat
    BY DEF IInv, TypeOK
  <1>1. ASSUME NEW e \in Events, NEW n \in 0 .. StoredLen(e), Writes(e, n)
        PROVE  /\ file' \in Seq(Cell) /\ Len(file) <= Len(file')
               /\ \A j \in 1 .. Len(file) : file'[j] = file[j]
    <2>1. n \in Nat
      BY StoredType
    <2>2. /\ file' \in Seq(Cell) /\ Len(file') = Len(file) + n
          /\ \A j \in 1 .. Len(file) : file'[j] = file[j]
      BY <1>1, <1>t, GrownFile DEF Writes
    <2>3. QED
      BY <1>t, <2>1, <2>2
  <1>2. CASE file' = file
    BY <1>2, <1>t
  <1>3. QED
    BY <1>1, <1>2, FileFrame

\* Every action leaves bytes of records in the file.
LEMMA CellsStep ==
    ASSUME IInv, Cells, [Next]_vars
    PROVE  Cells'
  <1>t. file \in Seq(Cell) /\ Len(file) \in Nat /\ DOMAIN file = 1 .. Len(file)
    BY DEF IInv, TypeOK
  <1>1. CASE file' = file
    BY <1>1 DEF Cells
  <1>2. CASE file' = <<>>
    BY <1>2 DEF Cells
  <1>3. ASSUME NEW e \in Events, NEW n \in 0 .. StoredLen(e), Writes(e, n)
        PROVE  Cells'
    <2>1. /\ file' \in Seq(Cell) /\ Len(file') = Len(file) + n
          /\ \A j \in 1 .. Len(file) : file'[j] = file[j]
          /\ \A k \in 1 .. n : file'[Len(file) + k] = Stored(e)[k]
      BY <1>3, <1>t, GrownFile DEF Writes
    <2>2. n \in Nat /\ n <= StoredLen(e) /\ StoredLen(e) \in Nat
      BY StoredType
    <2>3. ASSUME NEW j \in 1 .. Len(file)
          PROVE  /\ file'[j].i \in 1 .. StoredLen(file'[j].ev)
                 /\ file'[j] = Stored(file'[j].ev)[file'[j].i]
                 /\ file'[j].i > 1 => j > 1 /\ file'[j - 1].ev = file'[j].ev
      <3>1. file'[j] = file[j] /\ (j > 1 => file'[j - 1] = file[j - 1])
        BY <1>t, <2>1
      <3>2. QED
        BY <1>t, <3>1 DEF Cells
    <2>4. ASSUME NEW k \in 1 .. n
          PROVE  LET j == Len(file) + k
                 IN  /\ file'[j].i \in 1 .. StoredLen(file'[j].ev)
                     /\ file'[j] = Stored(file'[j].ev)[file'[j].i]
                     /\ file'[j].i > 1 => j > 1 /\ file'[j - 1].ev = file'[j].ev
      <3>1. k \in 1 .. StoredLen(e)
        BY <2>2
      <3>2. file'[Len(file) + k] = Stored(e)[k]
        BY <2>1
      <3>3. Stored(e)[k].ev = e /\ Stored(e)[k].i = k
        BY <3>1, StoredCell
      <3>4. ASSUME k > 1
            PROVE  Len(file) + k > 1 /\ file'[(Len(file) + k) - 1].ev = e
        <4>1. k - 1 \in 1 .. n /\ k - 1 \in 1 .. StoredLen(e)
                /\ (Len(file) + k) - 1 = Len(file) + (k - 1) /\ Len(file) + k > 1
          BY <1>t, <2>2, <3>1, <3>4
        <4>2. file'[Len(file) + (k - 1)] = Stored(e)[k - 1]
          BY <2>1, <4>1
        <4>3. QED
          BY <4>1, <4>2, StoredCell
      <3>5. QED
        BY <3>1, <3>2, <3>3, <3>4
    <2>5. ASSUME NEW j \in DOMAIN file', j \notin 1 .. Len(file)
          PROVE  j - Len(file) \in 1 .. n /\ j = Len(file) + (j - Len(file))
      BY <1>t, <2>1, <2>2, <2>5
    <2>6. ASSUME NEW j \in DOMAIN file'
          PROVE  /\ file'[j].i \in 1 .. StoredLen(file'[j].ev)
                 /\ file'[j] = Stored(file'[j].ev)[file'[j].i]
                 /\ file'[j].i > 1 => j > 1 /\ file'[j - 1].ev = file'[j].ev
      <3>1. CASE j \in 1 .. Len(file)
        BY <2>3, <3>1
      <3>2. CASE j \notin 1 .. Len(file)
        <4>1. PICK k \in 1 .. n : j = Len(file) + k
          BY <2>5, <3>2
        <4>2. QED
          BY <2>4, <4>1
      <3>3. QED
        BY <3>1, <3>2
    <2>7. QED
      BY <2>6 DEF Cells
  <1>4. QED
    BY <1>1, <1>2, <1>3, FileFrame

\* Every action leaves events that were not appended out of the file.
LEMMA FreshStep ==
    ASSUME IInv, Fresh, [Next]_vars
    PROVE  Fresh'
  <1> SUFFICES ASSUME NEW e \in Events, epc'[e] \in {"new", "lock"},
                      NEW j \in DOMAIN file', file'[j].ev = e
               PROVE  FALSE
    BY DEF Fresh
  <1>t. file \in Seq(Cell) /\ Len(file) \in Nat /\ DOMAIN file = 1 .. Len(file)
    BY DEF IInv, TypeOK
  <1>1. epc[e] \in {"new", "lock"} /\ ~AppendRecord(e)
    <2>1. AppendRecord(e) => epc'[e] = "check"
      BY DEF AppendRecord, IInv, TypeOK, Procs
    <2>2. QED
      BY <2>1, ControlFrame DEF Enqueuing, Settled
  <1>2. \A k \in DOMAIN file : file[k].ev # e
    BY <1>1 DEF Fresh
  <1>3. CASE file' = file
    BY <1>2, <1>3
  <1>4. CASE file' = <<>>
    BY <1>4
  <1>5. ASSUME NEW q \in Events, NEW n \in 0 .. StoredLen(q), Writes(q, n)
        PROVE  FALSE
    <2>1. /\ file' \in Seq(Cell) /\ Len(file') = Len(file) + n
          /\ \A k \in 1 .. Len(file) : file'[k] = file[k]
          /\ \A k \in 1 .. n : file'[Len(file) + k] = Stored(q)[k]
      BY <1>5, <1>t, GrownFile, ZenonT(60) DEF Writes
    <2>2. n \in Nat /\ n <= StoredLen(q) /\ StoredLen(q) \in Nat
      BY StoredType
    <2>3. q # e
      <3>1. epc'[q] \notin {"new", "lock"}
        BY <1>5, EventsAssumption DEF Writes, AppendRecord, AppendFails, CrashInWrite, Crash,
           Forget, CanLock, Settled, IInv, TypeOK, Procs
      <3>2. QED
        BY <3>1
    <2>4. CASE j \in 1 .. Len(file)
      BY <1>2, <1>t, <2>1, <2>4
    <2>5. CASE j \notin 1 .. Len(file)
      <3>1. j - Len(file) \in 1 .. n /\ j = Len(file) + (j - Len(file))
        BY <1>t, <2>1, <2>2, <2>5
      <3>2. j - Len(file) \in 1 .. StoredLen(q)
        BY <2>2, <3>1
      <3>3. file'[j].ev = q
        BY <2>1, <3>1, <3>2, StoredCell
      <3>4. QED
        BY <2>3, <3>3
    <2>6. QED
      BY <2>4, <2>5
  <1>6. QED
    BY <1>3, <1>4, <1>5, FileFrame

\* A record that is whole stays so while the file grows.
LEMMA WholeStays ==
    ASSUME IInv, NEW e \in Events, Whole(e), file' \in Seq(Cell),
           Len(file) <= Len(file'), \A j \in 1 .. Len(file) : file'[j] = file[j],
           \A j \in DOMAIN file' : j > Len(file) => file'[j].ev # e
    PROVE  Whole(e)'
  <1>t. /\ file \in Seq(Cell) /\ Len(file) \in Nat /\ DOMAIN file = 1 .. Len(file)
        /\ Len(file') \in Nat /\ DOMAIN file' = 1 .. Len(file') /\ ContentLen[e] \in Nat
    BY SizesAssumption DEF IInv, TypeOK
  <1>1. ASSUME NEW j \in DOMAIN file', file'[j].ev = e, file'[j].i = 1
        PROVE  /\ j + ContentLen[e] <= Len(file')
               /\ \A k \in 0 .. ContentLen[e] : file'[j + k] = Stored(e)[k + 1]
    <2>1. j \in DOMAIN file /\ file'[j] = file[j] /\ j \in Nat
      BY <1>1, <1>t
    <2>2. /\ j + ContentLen[e] <= Len(file)
          /\ \A k \in 0 .. ContentLen[e] : file[j + k] = Stored(e)[k + 1]
      BY <1>1, <2>1 DEF Whole
    <2>3. \A k \in 0 .. ContentLen[e] : j + k \in 1 .. Len(file)
      BY <1>t, <2>1, <2>2
    <2>4. \A k \in 0 .. ContentLen[e] : file'[j + k] = file[j + k]
      BY <2>3
    <2>5. j + ContentLen[e] <= Len(file')
      BY <1>t, <2>1, <2>2
    <2>6. QED
      BY <2>2, <2>4, <2>5
  <1>2. QED
    BY <1>1 DEF Whole

\* A write of the whole record of an event that had none.
LEMMA WholeWritten ==
    ASSUME IInv, NEW e \in Events, \A j \in DOMAIN file : file[j].ev # e,
           file' = file \o Stored(e)
    PROVE  Whole(e)'
  <1>t. /\ file \in Seq(Cell) /\ Len(file) \in Nat /\ DOMAIN file = 1 .. Len(file)
        /\ ContentLen[e] \in Nat /\ StoredLen(e) = ContentLen[e] + 1
    BY SizesAssumption DEF IInv, TypeOK, StoredLen
  <1>1. /\ file' \in Seq(Cell) /\ Len(file') = Len(file) + StoredLen(e)
        /\ \A j \in 1 .. Len(file) : file'[j] = file[j]
        /\ \A k \in 1 .. StoredLen(e) : file'[Len(file) + k] = Stored(e)[k]
    <2>1. Stored(e) \in Seq(Cell) /\ Len(Stored(e)) = StoredLen(e)
      BY StoredType
    <2> DEFINE r == Stored(e)
    <2>2. r \in Seq(Cell) /\ Len(r) = StoredLen(e)
      BY <2>1
    <2> HIDE DEF r
    <2>3. /\ file \o r \in Seq(Cell) /\ Len(file \o r) = Len(file) + Len(r)
          /\ \A j \in 1 .. Len(file) : (file \o r)[j] = file[j]
          /\ \A k \in 1 .. Len(r) : (file \o r)[Len(file) + k] = r[k]
      BY <1>t, <2>2, GlueCells
    <2>4. QED
      BY <2>2, <2>3 DEF r
  <1>2. ASSUME NEW j \in DOMAIN file', file'[j].ev = e, file'[j].i = 1
        PROVE  j = Len(file) + 1
    <2>1. j \notin 1 .. Len(file)
      BY <1>1, <1>2, <1>t
    <2>2. PICK k \in 1 .. StoredLen(e) : j = Len(file) + k
      <3>1. j \in 1 .. Len(file) + StoredLen(e)
        BY <1>1
      <3>2. j - Len(file) \in 1 .. StoredLen(e) /\ j = Len(file) + (j - Len(file))
        BY <1>t, <2>1, <3>1
      <3>3. QED
        BY <3>2
    <2>3. k = 1
      BY <1>1, <1>2, <2>2, StoredCell
    <2>4. QED
      BY <2>2, <2>3
  <1>3. Len(file) + 1 + ContentLen[e] <= Len(file')
    BY <1>t, <1>1
  <1>4. ASSUME NEW k \in 0 .. ContentLen[e]
        PROVE  file'[Len(file) + 1 + k] = Stored(e)[k + 1]
    <2>1. k + 1 \in 1 .. StoredLen(e) /\ Len(file) + 1 + k = Len(file) + (k + 1)
      BY <1>t
    <2>2. QED
      BY <1>1, <2>1
  <1>5. QED
    BY <1>2, <1>3, <1>4 DEF Whole

\* Every action leaves the records of accepted events whole.
LEMMA IntactStep ==
    ASSUME IInv, Fresh, Intact, [Next]_vars
    PROVE  Intact'
  <1> SUFFICES ASSUME NEW e \in Events, epc'[e] = "acked" \/ Enqueuing(e)'
               PROVE  Whole(e)'
    BY DEF Intact
  <1>t. file \in Seq(Cell) /\ Len(file) \in Nat /\ DOMAIN file = 1 .. Len(file)
    BY DEF IInv, TypeOK
  <1>p. epc'[e] \in {"acked", "check", "space", "send"}
    BY DEF Enqueuing
  <1>1. CASE AppendRecord(e)
    <2>1. epc[e] = "lock" /\ file' = file \o Stored(e)
      BY <1>1 DEF AppendRecord, CanLock
    <2>2. \A j \in DOMAIN file : file[j].ev # e
      BY <2>1 DEF Fresh
    <2>3. QED
      BY <2>1, <2>2, WholeWritten
  <1>2. CASE ~AppendRecord(e)
    <2>1. epc[e] \in {"acked", "check", "space", "send"}
      BY <1>2, <1>p, ControlFrame DEF Enqueuing
    <2>2. Whole(e)
      BY <2>1 DEF Intact, Enqueuing
    <2>3. CASE file' = file
      BY <2>2, <2>3 DEF Whole
    <2>4. CASE file' = <<>>
      BY <2>4 DEF Whole
    <2>5. ASSUME NEW q \in Events, NEW n \in 0 .. StoredLen(q), Writes(q, n)
          PROVE  Whole(e)'
      <3>1. /\ file' \in Seq(Cell) /\ Len(file') = Len(file) + n
            /\ \A k \in 1 .. Len(file) : file'[k] = file[k]
            /\ \A k \in 1 .. n : file'[Len(file) + k] = Stored(q)[k]
        BY <1>t, <2>5, GrownFile DEF Writes
      <3>2. n \in Nat /\ n <= StoredLen(q) /\ StoredLen(q) \in Nat
        BY StoredType
      <3>3. q # e
        BY <2>1, <2>5 DEF Writes, CanLock
      <3>4. ASSUME NEW j \in DOMAIN file', j > Len(file)
            PROVE  file'[j].ev # e
        <4>1. j - Len(file) \in 1 .. n /\ j = Len(file) + (j - Len(file))
          BY <1>t, <3>1, <3>2, <3>4
        <4>2. j - Len(file) \in 1 .. StoredLen(q)
          BY <3>2, <4>1
        <4>3. file'[j].ev = q
          BY <3>1, <4>1, <4>2, StoredCell
        <4>4. QED
          BY <3>3, <4>3
      <3>5. QED
        BY <1>t, <2>2, <3>1, <3>2, <3>4, WholeStays
    <2>6. QED
      BY <2>3, <2>4, <2>5, FileFrame
  <1>3. QED
    BY <1>1, <1>2

-----------------------------------------------------------------------------
(* The replay reads the file.                                              *)

\* What the buffer holds lies in the file: the scanner's end is the file's, or
\* the file was emptied behind a scanner that had handed out all of it.
LEMMA BufferInFile ==
    ASSUME IInv, Scanning, ~posAhead
    PROVE  /\ scan.next + Len(scan.buf) <= Len(file) \/ scan.buf = <<>>
           /\ scan.buf # <<>> => scan.size = Len(file)
  <1>1. /\ scan.next \in Nat /\ scan.size \in Nat /\ Len(scan.buf) \in Nat
        /\ scan.buf \in Seq(Cell) /\ Len(file) \in Nat
    BY ItemType DEF IInv
  <1>2. /\ scan.next + Len(scan.buf) <= scan.size
        /\ scan.size = Len(file) \/ scan.next = scan.size
    BY DEF IInv, ScanOK, Scanning
  <1>3. Len(scan.buf) = 0 => scan.buf = <<>>
    BY <1>1
  <1>4. QED
    BY <1>1, <1>2, <1>3

\* Every action leaves the buffer a part of the file.
LEMMA BufferedStep ==
    ASSUME IInv, IInv', Buffered, [Next]_vars
    PROVE  Buffered'
  <1> SUFFICES ASSUME Scanning', ~posAhead', NEW k \in DOMAIN scan'.buf
               PROVE  scan'.buf[k] = file'[scan'.next + k]
    BY DEF Buffered
  <1>a. ~posAhead
    BY AheadStays
  <1>t. /\ scan \in Scan /\ file \in Seq(Cell) /\ scan.buf \in Seq(Cell)
        /\ scan.next \in Nat /\ scan.off \in Nat
        /\ Len(file) \in Nat /\ Len(scan.buf) \in Nat /\ DOMAIN scan.buf = 1 .. Len(scan.buf)
    BY ItemType, SMTT(40) DEF IInv, TypeOK
  <1>1. CASE ReplayStart
    <2>1. scan'.buf = <<>>
      BY <1>1 DEF ReplayStart
    <2>2. QED
      BY <2>1
  <1>2. ASSUME ~ReplayStart
        PROVE  Scanning /\ \A i \in DOMAIN scan.buf : scan.buf[i] = file[scan.next + i]
    BY <1>2, <1>a, ScanStarts DEF Buffered
  <1>3. CASE UNCHANGED <<scan, file>> /\ ~ReplayStart
    BY <1>2, <1>3
  <1>4. CASE ReplayRead
    <2>1. ~ReplayStart /\ file' = file /\ ~scan.eof
      BY <1>4 DEF ReplayRead, ReplayStart, durable
    <2>2. CASE scan' = [scan EXCEPT !.eof = TRUE]
      BY <1>2, <1>t, <2>1, <2>2 DEF Scan
    <2>3. ASSUME NEW n \in 1 .. MaxEventBytes - Len(scan.buf), n <= Len(file) - scan.off,
                 scan' = [scan EXCEPT
                            !.buf = @ \o SubSeq(file, scan.off + 1, scan.off + n),
                            !.off = @ + n]
          PROVE  scan'.buf[k] = file'[scan'.next + k]
      <3>1. n \in Nat \ {0}
        BY <1>t, SizesAssumption
      <3>2. /\ scan'.next = scan.next
            /\ scan'.buf = scan.buf \o SubSeq(file, scan.off + 1, scan.off + n)
        BY <1>t, <2>3 DEF Scan
      <3>3. scan.off = scan.next + Len(scan.buf)
        <4>1. scan.off = scan.next + Len(scan.buf) \/ scan.off >= Len(file)
          BY <1>2, <1>a, <2>1 DEF IInv, ScanOK, Scanning
        <4>2. QED
          BY <1>t, <2>3, <3>1, <4>1
      <3>4. /\ SubSeq(file, scan.off + 1, scan.off + n) \in Seq(Cell)
            /\ Len(SubSeq(file, scan.off + 1, scan.off + n)) = n
            /\ \A i \in 1 .. n : SubSeq(file, scan.off + 1, scan.off + n)[i] = file[scan.off + i]
        <4>0. n \in Nat \ {0} /\ n <= Len(file) - scan.off
          BY <2>3, <3>1
        <4>1. /\ scan.off + 1 \in Nat \ {0} /\ scan.off + n \in Nat
              /\ scan.off + n <= Len(file) /\ scan.off + 1 <= scan.off + n
          BY <1>t, <4>0
        <4>2. SubSeq(file, scan.off + 1, scan.off + n) \in Seq(Cell)
          BY <1>t, <4>1, SubSeqType
        <4>3. (scan.off + n) - (scan.off + 1) + 1 = n
          BY <1>t, <3>1
        <4>4. Len(SubSeq(file, scan.off + 1, scan.off + n)) = n
          BY <1>t, <4>1, <4>3, SubSeqType
        <4>5. ASSUME NEW i \in 1 .. n
              PROVE  SubSeq(file, scan.off + 1, scan.off + n)[i] = file[scan.off + i]
          <5>1. (scan.off + 1) + i - 1 = scan.off + i
            BY <1>t
          <5>2. i \in 1 .. (scan.off + n) - (scan.off + 1) + 1
            BY <4>3
          <5>3. SubSeq(file, scan.off + 1, scan.off + n)[i] = file[(scan.off + 1) + i - 1]
            BY <1>t, <4>1, <5>2, SliceCells
          <5>4. QED
            BY <5>1, <5>3
        <4>6. QED
          BY <4>2, <4>4, <4>5
      <3> DEFINE more == SubSeq(file, scan.off + 1, scan.off + n)
      <3>5. more \in Seq(Cell) /\ Len(more) = n /\ \A i \in 1 .. n : more[i] = file[scan.off + i]
        BY <3>4
      <3>6. scan'.buf = scan.buf \o more
        BY <3>2
      <3> HIDE DEF more
      <3>7. CASE k \in 1 .. Len(scan.buf)
        <4>1. scan'.buf[k] = scan.buf[k]
          BY <1>t, <3>5, <3>6, <3>7
        <4>2. QED
          BY <1>2, <1>t, <2>1, <3>2, <3>7, <4>1
      <3>8. CASE k \notin 1 .. Len(scan.buf)
        <4>1. PICK i \in 1 .. n : k = Len(scan.buf) + i
          <5>1. k \in 1 .. Len(scan.buf) + n
            BY <1>t, <3>5, <3>6
          <5>2. k - Len(scan.buf) \in 1 .. n /\ k = Len(scan.buf) + (k - Len(scan.buf))
            BY <1>t, <3>1, <3>8, <5>1, SecondPart
          <5>3. QED
            BY <5>2
        <4>2. scan'.buf[k] = more[i]
          BY <1>t, <3>5, <3>6, <4>1
        <4>3. scan.off + i = scan.next + k
          BY <1>t, <3>3, <4>1
        <4>4. QED
          BY <2>1, <3>2, <3>5, <4>2, <4>3
      <3>9. QED
        BY <3>7, <3>8
    <2>4. QED
      BY <1>4, <2>2, <2>3 DEF ReplayRead
  <1>5. CASE ReplayLine
    <2>1. ~ReplayStart /\ file' = file
      BY <1>5 DEF ReplayLine, ReplayStart
    <2>2. PICK len \in 0 .. Len(scan.buf) : NextLine(len) /\ TakeLine(len)
      BY <1>5 DEF ReplayLine
    <2> DEFINE end == IF scan.next + len + 1 > scan.size THEN scan.size
                      ELSE scan.next + len + 1
    <2>3. scan' = [scan EXCEPT !.buf = SubSeq(@, len + 2, Len(@)), !.next = end]
      BY <2>2 DEF TakeLine
    <2>4. scan'.buf = SubSeq(scan.buf, len + 2, Len(scan.buf)) /\ scan'.next = end
      BY <1>t, <2>3 DEF Scan
    <2>5. /\ len + 2 <= Len(scan.buf) /\ k \in 1 .. Len(scan.buf) - len - 1
          /\ scan'.buf[k] = scan.buf[len + 1 + k]
      <3>1. len + 2 \in Nat \ {0} /\ len \in Nat
        BY <1>t
      <3>2. Len(scan'.buf) = IF len + 2 <= Len(scan.buf) THEN Len(scan.buf) - (len + 2) + 1 ELSE 0
        BY <1>t, <2>4, <3>1, SubSeqType
      <3>3. scan'.buf \in Seq(Cell)
        BY <1>t, <2>4, <3>1, SubSeqType
      <3>4. k \in 1 .. Len(scan'.buf)
        BY <3>3
      <3>5. len + 2 <= Len(scan.buf) /\ k \in 1 .. Len(scan.buf) - (len + 2) + 1
        BY <1>t, <3>1, <3>2, <3>4
      <3>6. scan'.buf[k] = scan.buf[(len + 2) + k - 1]
        BY <1>t, <2>4, <3>1, <3>5, SliceCells
      <3>7. (len + 2) + k - 1 = len + 1 + k /\ Len(scan.buf) - (len + 2) + 1 = Len(scan.buf) - len - 1
        <4>1. k \in Nat /\ len \in Nat /\ Len(scan.buf) \in Nat
          BY <1>t, <3>1, <3>5
        <4>2. QED
          BY <4>1
      <3>8. QED
        BY <3>5, <3>6, <3>7
    <2>6. scan'.next = scan.next + len + 1
      <3>1. scan.next + Len(scan.buf) <= scan.size /\ scan.size \in Nat
        BY <1>2, <1>a, <2>1, ItemType DEF IInv, ScanOK, Scanning
      <3>2. QED
        BY <1>t, <2>4, <2>5, <3>1, SMTT(40)
    <2>7. len + 1 + k \in DOMAIN scan.buf /\ scan'.next + k = scan.next + (len + 1 + k)
      BY <1>t, <2>5, <2>6, SMTT(40)
    <2>8. QED
      BY <1>2, <2>1, <2>5, <2>7
  <1>6. CASE \/ ReplayTruncate \/ ReplayTooLong \/ ReplayDone \/ Exit \/ CrashBetween
             \/ \E e \in Events : CrashInWrite(e)
    <2>1. epc'[Replay] \in {"save", "idle"}
      BY <1>6, EventsAssumption DEF ReplayTruncate, ReplayTooLong, ReplayDone, Exit,
         CrashBetween, CrashInWrite, Crash, Forget, IInv, TypeOK, Procs
    <2>2. QED
      BY <2>1 DEF Scanning
  <1>7. CASE \E e \in Events : AppendRecord(e) \/ AppendFails(e)
    <2>1. phase # "replay" /\ ~ReplayStart
      BY <1>7 DEF AppendRecord, AppendFails, CanLock, ReplayStart, IInv, PhaseOK, Settled
    <2>2. QED
      BY <1>2, <2>1 DEF Scanning, IInv, PhaseOK
  <1>8. CASE WorkerMarkRefused \/ WorkerMarkAdvance \/ WorkerTruncateFails
    <2>1. file' = file /\ ~ReplayStart /\ (Seek(Len(file)) \/ scan' = scan)
      BY <1>8 DEF WorkerMarkRefused, WorkerMarkAdvance, WorkerTruncateFails, ReplayStart,
         durable, enqueuer, WorkerIdle, IInv, PhaseOK
    <2>2. scan'.buf = scan.buf /\ scan'.next = scan.next
      BY <1>t, <2>1, SeekType
    <2>3. QED
      BY <1>2, <2>1, <2>2
  <1>9. CASE WorkerMarkTruncate
    <2>1. file' = <<>> /\ Len(file') = 0
      BY <1>9 DEF WorkerMarkTruncate
    <2>2. /\ scan'.next \in Nat /\ scan'.size \in Nat /\ Len(scan'.buf) \in Nat
          /\ scan'.buf \in Seq(Cell)
      <3>1. scan' \in Scan
        BY DEF IInv, TypeOK
      <3>2. QED
        BY <3>1 DEF Scan
    <2>3. /\ scan'.next + Len(scan'.buf) <= scan'.size
          /\ scan'.size = Len(file') \/ scan'.next = scan'.size
      BY DEF IInv, ScanOK, Scanning
    <2>4. Len(scan'.buf) = 0
      BY <2>1, <2>2, <2>3
    <2>5. QED
      BY <2>2, <2>4
  <1>10. QED
    BY <1>1, <1>3, <1>4, <1>5, <1>6, <1>7, <1>8, <1>9, ScanFrame

-----------------------------------------------------------------------------
(* What is on its way stands for the text of its stretch.                  *)

\* Nothing leaves the quarantine file.
LEMMA QuarantineGrows ==
    ASSUME [Next]_vars
    PROVE  quarantined \subseteq quarantined'
  <1>1. CASE ReplayLine
    BY <1>1 DEF ReplayLine, TakeLine
  <1>2. CASE UNCHANGED quarantined
    BY <1>2
  <1>3. QED
    BY <1>1, <1>2, ZenonT(60) DEF Next, vars, ReplayStep, WorkerStep, WorkerMark, CloseStep, Enqueue,
       HandlerEnds, Start, ReplayEmpty, ReplayTruncate, ReplaySaveRemove, ReplaySaveRename,
       ReplayStart, ReplayRead, ReplayTooLong, ReplayDone, WorkerReceive,
       WorkerRelease, WorkerDelivers, WorkerFails, WorkerExit, WorkerSaveRemove,
       WorkerSaveRename, WorkerSaveFails, WorkerMarkRefused, WorkerMarkAdvance,
       WorkerMarkTruncate, WorkerTruncateFails, BeginShutdown, CloseQueue, DropQueue,
       CloseFile, Exit, Submit, AppendRecord, AppendRejected, AppendFails, SendPanics,
       NoQueue, EnqueueCancelled, Reserve, WaitForSpace, SpaceSignalled, Send,
       CrashBetween, CrashInWrite, durable

\* An item on its way after a step is a stretch of the file as it is then.
LEMMA PipeInFileNext ==
    ASSUME IInv', ~posAhead', NEW x \in Pipe'
    PROVE  /\ x.start \in Nat /\ x.end \in Nat
           /\ x.start < x.end /\ x.end <= Len(file')
  <1>1. x \in Item
    BY DEF Pipe, IInv, TypeOK
  <1>2. InFile(x)'
    BY DEF Pipe, IInv, PipeInOrder, QueueInOrder, WorkerInOrder, EnqueueInOrder
  <1>3. QED
    BY <1>1, <1>2 DEF InFile, Item

\* The text of a line that was taken is its event's, or was quarantined.
LEMMA LineText ==
    ASSUME scan \in Scan, eitem \in [Procs -> Item],
           NEW len \in 0 .. Len(scan.buf), TakeLine(len), NEW k \in 1 .. len
    PROVE  scan.buf[k].ev = eitem'[Replay].ev \/ scan.buf[k].ev \in quarantined'
  <1> DEFINE line == Prefix(scan.buf, len)
             end == IF scan.next + len + 1 > scan.size THEN scan.size
                    ELSE scan.next + len + 1
  <1>1. scan.buf \in Seq(Cell) /\ Len(scan.buf) \in Nat /\ Replay \in Procs /\ len \in Nat
    BY DEF Scan, Procs
  <1>2. line \in Seq(Cell) /\ Len(line) = len
    BY <1>1, SubSeqType DEF Prefix
  <1>3. line[k] = scan.buf[k] /\ k \in DOMAIN line
    BY <1>1, <1>2, SliceCells DEF Prefix
  <1>4. CASE \E e \in Events : /\ line = Text(e)
                               /\ eitem' = [eitem EXCEPT ![Replay] =
                                    [ev |-> e, start |-> scan.next, end |-> end]]
    <2>1. PICK e \in Events : /\ line = Text(e)
                              /\ eitem' = [eitem EXCEPT ![Replay] =
                                    [ev |-> e, start |-> scan.next, end |-> end]]
      BY <1>4
    <2>2. eitem'[Replay].ev = e
      BY <1>1, <2>1
    <2>3. /\ Stored(e) \in Seq(Cell) /\ Len(Stored(e)) = StoredLen(e)
          /\ ContentLen[e] \in Nat /\ StoredLen(e) = ContentLen[e] + 1
      BY StoredType, SizesAssumption DEF StoredLen
    <2>4. Len(Text(e)) = ContentLen[e]
      BY <2>3, SubSeqType DEF Text, Prefix
    <2>5. len = ContentLen[e] /\ k \in 1 .. ContentLen[e] /\ k \in 1 .. StoredLen(e)
      BY <1>2, <2>1, <2>3, <2>4
    <2>6. Text(e)[k] = Stored(e)[k]
      BY <2>3, <2>5, SliceCells DEF Text, Prefix
    <2>7. QED
      BY <1>3, <2>1, <2>2, <2>5, <2>6, StoredCell
  <1>5. CASE quarantined' = quarantined \cup {line[i].ev : i \in DOMAIN line}
    BY <1>3, <1>5
  <1>6. QED
    BY <1>4, <1>5 DEF TakeLine

\* The line the replay takes.
LEMMA LineAccounted ==
    ASSUME IInv, Cells, Buffered, ~posAhead, ReplayLine, NEW x, x = eitem'[Replay]
    PROVE  Accounted(x)'
  <1>1. Scanning /\ UNCHANGED file
    BY DEF ReplayLine, Scanning
  <1>2. PICK len \in 0 .. Len(scan.buf) : NextLine(len) /\ TakeLine(len)
    BY DEF ReplayLine
  <1> DEFINE end == IF scan.next + len + 1 > scan.size THEN scan.size
                    ELSE scan.next + len + 1
  <1>t. /\ scan \in Scan /\ eitem \in [Procs -> Item] /\ file \in Seq(Cell)
        /\ scan.buf \in Seq(Cell) /\ scan.next \in Nat /\ scan.size \in Nat
        /\ Len(scan.buf) \in Nat /\ Len(file) \in Nat /\ DOMAIN scan.buf = 1 .. Len(scan.buf)
        /\ DOMAIN file = 1 .. Len(file) /\ len \in Nat /\ Replay \in Procs
    BY ItemType DEF IInv, TypeOK, Procs
  <1>3. x.start = scan.next /\ x.end = end
    BY <1>2, <1>t DEF TakeLine
  <1>4. end <= scan.next + len + 1 /\ end <= scan.size /\ end \in Nat
    BY <1>t
  <1> SUFFICES ASSUME NEW j \in x.start + 1 .. x.end, ~file'[j].nl
               PROVE  \/ file'[j].ev = x.ev
                      \/ file'[j].ev \in quarantined'
                      \/ j = x.end /\ file'[j].i = 1
    BY DEF Accounted
  <1>5. \A k \in 1 .. Len(scan.buf) : scan.buf[k] = file[scan.next + k]
    BY <1>1, <1>t DEF Buffered
  <1>6. ASSUME NEW k \in 1 .. len
        PROVE  file[scan.next + k].ev = x.ev \/ file[scan.next + k].ev \in quarantined'
    <2>1. k \in 1 .. Len(scan.buf)
      BY <1>t
    <2>2. scan.buf[k].ev = x.ev \/ scan.buf[k].ev \in quarantined'
      BY <1>2, <1>t, LineText
    <2>3. QED
      BY <1>5, <2>1, <2>2
  <1> DEFINE k == j - scan.next
  <1> HIDE DEF end
  <1>7. k \in 1 .. len + 1 /\ j = scan.next + k /\ j <= end /\ j \in Nat
    <2>1. j \in scan.next + 1 .. end
      BY <1>3
    <2>2. QED
      BY <1>t, <1>4, <2>1
  <1> HIDE DEF k
  <1>8. CASE k \in 1 .. len
    BY <1>1, <1>6, <1>7, <1>8
  <1>9. CASE k \notin 1 .. len
    <2>1. k = len + 1
      BY <1>t, <1>7, <1>9
    <2>2. CASE len + 1 \in Newlines
      <3>1. len + 1 \in 1 .. Len(scan.buf) /\ scan.buf[len + 1].nl
        BY <1>t, <2>2 DEF Newlines
      <3>2. scan.buf[len + 1] = file[j]
        BY <1>5, <1>7, <2>1, <3>1
      <3>3. file'[j].nl
        BY <1>1, <3>1, <3>2
      <3>4. QED
        BY <3>3
    <2>3. CASE len = Len(scan.buf) /\ scan.buf # <<>>
      <3>1. scan.size = Len(file)
        BY <1>1, <2>3, BufferInFile
      <3>2. len >= 1 /\ j = end /\ j \in 1 .. Len(file)
        BY <1>t, <1>4, <1>7, <2>1, <2>3, <3>1
      <3>3. CASE file[j].i = 1
        BY <1>1, <1>3, <3>2, <3>3
      <3>4. CASE file[j].i # 1
        <4>1. file[j].i \in 1 .. StoredLen(file[j].ev) /\ file[j].ev \in Events
          <5>1. file[j] \in Cell
            BY <1>t, <3>2
          <5>2. QED
            BY <1>t, <3>2, <5>1 DEF Cells, Cell
        <4>2. file[j].i > 1
          BY <3>4, <4>1, StoredType
        <4>3. file[j - 1].ev = file[j].ev
          BY <1>t, <3>2, <4>2 DEF Cells
        <4>4. j - 1 = scan.next + len /\ len \in 1 .. len
          <5>1. j = scan.next + (len + 1)
            BY <1>7, <2>1
          <5>2. QED
            BY <1>t, <3>2, <5>1
        <4>5. QED
          BY <1>1, <1>6, <4>3, <4>4
      <3>5. QED
        BY <3>3, <3>4
    <2>4. QED
      BY <1>2, <2>2, <2>3 DEF NextLine
  <1>10. QED
    BY <1>8, <1>9

\* Every action leaves what is on its way accounted for.
LEMMA CoveredStep ==
    ASSUME IInv, IInv', Cells, Buffered, Covered, [Next]_vars
    PROVE  Covered'
  <1> SUFFICES ASSUME ~posAhead', NEW x \in Pipe'
               PROVE  Accounted(x)'
    BY DEF Covered
  <1>a. ~posAhead
    BY AheadStays
  <1>t. file \in Seq(Cell) /\ Len(file) \in Nat /\ eitem \in [Procs -> Item]
    BY DEF IInv, TypeOK
  <1>1. CASE x \in Pipe
    <2>1. x.start \in Nat /\ x.end \in Nat /\ x.end <= Len(file)
      BY <1>1, <1>a, PipeInFile
    <2>2. x.start < x.end /\ x.end <= Len(file')
      BY PipeInFileNext
    <2>3. \A j \in 1 .. Len(file) : file'[j] = file[j]
      <3>1. CASE file' = <<>>
        <4>1. Len(file') = 0
          BY <3>1
        <4>2. QED
          BY <2>1, <2>2, <4>1
      <3>2. QED
        BY <3>1, FileMoves
    <2>4. SUFFICES ASSUME NEW j \in x.start + 1 .. x.end, ~file'[j].nl
                   PROVE  \/ file'[j].ev = x.ev
                          \/ file'[j].ev \in quarantined'
                          \/ j = x.end /\ file'[j].i = 1
      BY DEF Accounted
    <2>5. file'[j] = file[j]
      BY <1>t, <2>1, <2>3
    <2>6. \/ file[j].ev = x.ev
          \/ file[j].ev \in quarantined
          \/ j = x.end /\ file[j].i = 1
      BY <1>1, <1>a, <2>4, <2>5 DEF Covered, Accounted
    <2>7. QED
      BY <2>5, <2>6, QuarantineGrows
  <1>2. CASE ReplayLine /\ x = eitem'[Replay]
    BY <1>2, <1>a, LineAccounted
  <1>3. ASSUME NEW e \in Events, AppendRecord(e), x = eitem'[e]
        PROVE  Accounted(x)'
    <2>1. /\ e \in Procs /\ file' = file \o Stored(e)
          /\ x = [ev |-> e, start |-> Len(file), end |-> Len(file) + StoredLen(e)]
      BY <1>3, <1>t DEF AppendRecord, Procs
    <2>2. Stored(e) \in Seq(Cell) /\ Len(Stored(e)) = StoredLen(e) /\ StoredLen(e) \in Nat
      BY StoredType
    <2>3. SUFFICES ASSUME NEW j \in Len(file) + 1 .. Len(file) + StoredLen(e)
                   PROVE  file'[j].ev = e
      BY <2>1 DEF Accounted
    <2>4. /\ j - Len(file) \in 1 .. StoredLen(e) /\ j = Len(file) + (j - Len(file))
      BY <1>t, <2>2
    <2>5. file'[j] = Stored(e)[j - Len(file)]
      BY <1>t, <2>1, <2>2, <2>4, GlueCells
    <2>6. QED
      BY <2>4, <2>5, StoredCell
  <1>4. QED
    BY <1>1, <1>2, <1>3, PipeFrame

-----------------------------------------------------------------------------
(* The handlers' items, the worker's mark, the position on disk.           *)

\* Every action leaves a handler's item at its event's record.
LEMMA OwnStep ==
    ASSUME IInv, IInv', Own, [Next]_vars
    PROVE  Own'
  <1> SUFFICES ASSUME ~posAhead', NEW e \in Events, Enqueuing(e)'
               PROVE  eitem'[e].ev = e /\ file'[eitem'[e].start + 1] = Stored(e)[1]
    BY DEF Own
  <1>a. ~posAhead
    BY AheadStays
  <1>t. /\ file \in Seq(Cell) /\ Len(file) \in Nat /\ eitem \in [Procs -> Item]
        /\ e \in Procs /\ e # Replay
    BY EventsAssumption DEF IInv, TypeOK, Procs
  <1>1. CASE Enqueuing(e) /\ eitem'[e] = eitem[e]
    <2>1. eitem[e].ev = e /\ file[eitem[e].start + 1] = Stored(e)[1]
      BY <1>1, <1>a DEF Own
    <2>2. eitem[e] \in Pipe /\ eitem'[e] \in Pipe'
      BY <1>1, <1>t DEF Pipe
    <2>3. /\ eitem[e].start \in Nat /\ eitem[e].end \in Nat
          /\ eitem[e].start < eitem[e].end /\ eitem[e].end <= Len(file)
      BY <1>a, <2>2, PipeInFile
    <2>4. eitem'[e].start < eitem'[e].end /\ eitem'[e].end <= Len(file')
      <3>1. ASSUME NEW x \in Pipe'
            PROVE  x.start < x.end /\ x.end <= Len(file')
        BY PipeInFileNext
      <3>2. QED
        BY <2>2, <3>1
    <2>5. file' # <<>>
      <3>1. file' = <<>> => Len(file') = 0
        OBVIOUS
      <3>2. QED
        BY <1>1, <2>3, <2>4, <3>1
    <2>6. file'[eitem[e].start + 1] = file[eitem[e].start + 1]
      BY <1>t, <2>3, <2>5, FileMoves
    <2>7. QED
      BY <1>1, <2>1, <2>6
  <1>2. CASE AppendRecord(e)
    <2>1. /\ file' = file \o Stored(e)
          /\ eitem'[e] = [ev |-> e, start |-> Len(file), end |-> Len(file) + StoredLen(e)]
      BY <1>2, <1>t DEF AppendRecord
    <2>2. /\ Stored(e) \in Seq(Cell) /\ Len(Stored(e)) = StoredLen(e)
          /\ StoredLen(e) \in Nat /\ 1 \in 1 .. StoredLen(e)
      BY StoredType
    <2>3. file'[Len(file) + 1] = Stored(e)[1]
      BY <1>t, <2>1, <2>2, GlueCells
    <2>4. eitem'[e].ev = e /\ eitem'[e].start = Len(file)
      BY <2>1
    <2>5. QED
      BY <2>3, <2>4
  <1>3. QED
    BY <1>1, <1>2, <1>t, EnqueueFrame

\* Every action leaves the event of a marked item delivered.
LEMMA MarkedStep ==
    ASSUME IInv, Marked, [Next]_vars
    PROVE  Marked'
  <1>1. CASE WorkerRelease
    BY <1>1 DEF WorkerRelease, Marked
  <1>2. CASE WorkerDelivers
    BY <1>2 DEF WorkerDelivers, Marked
  <1>3. CASE wpc' # "mark" \/ (UNCHANGED worker /\ UNCHANGED delivered)
    BY <1>3 DEF Marked, worker
  <1>4. QED
    BY <1>1, <1>2, <1>3, ZenonT(60) DEF Next, vars, ReplayStep, WorkerStep, WorkerMark, CloseStep,
       Enqueue, HandlerEnds, Start, ReplayEmpty, ReplayTruncate, ReplaySaveRemove,
       ReplaySaveRename, ReplayStart, ReplayRead, ReplayTooLong, ReplayLine, ReplayDone,
       WorkerReceive, WorkerFails, WorkerIdle, WorkerExit, WorkerSaveRemove,
       WorkerSaveRename, MarkReturns, WorkerSaveFails, WorkerMarkRefused,
       WorkerMarkAdvance, WorkerMarkTruncate, WorkerTruncateFails, BeginShutdown,
       CloseQueue, DropQueue, CloseFile, Exit, Submit, AppendRecord, AppendRejected,
       AppendFails, SendPanics, NoQueue, EnqueueCancelled, Reserve, WaitForSpace,
       SpaceSignalled, Send, CrashBetween, CrashInWrite, Crash, Forget, outcome

\* The item the worker marks.
LEMMA MarkedItem ==
    ASSUME IInv, ~posAhead, wpc = "mark"
    PROVE  /\ witem \in Pipe /\ witem.start \in Nat /\ witem.end \in Nat
           /\ processedPos <= witem.start /\ witem.start < witem.end
           /\ witem.end <= Len(file)
  <1>1. witem \in Pipe
    BY DEF Pipe, Working
  <1>2. QED
    BY <1>1, PipeInFile

\* Every action leaves the position on disk behind the one in memory.
LEMMA BehindStep ==
    ASSUME IInv, Behind, [Next]_vars
    PROVE  Behind'
  <1> SUFFICES ASSUME ~posAhead', phase' # "down"
               PROVE  DurablePos' <= processedPos' \/ (file' = <<>> /\ Saving')
    BY DEF Behind
  <1> DEFINE Goal == DurablePos' <= processedPos' \/ (file' = <<>> /\ Saving')
  <1>a. ~posAhead
    BY AheadStays
  <1>t. /\ file \in Seq(Cell) /\ Len(file) \in Nat /\ processedPos \in Nat
        /\ posFile \in Nat \cup {NoPos} /\ DurablePos \in Nat
        /\ epc \in [Procs -> Settled \cup {"idle", "lock", "check", "space", "send",
                                           "scan", "save", "rename"}]
        /\ Replay \in Procs /\ posAhead \in BOOLEAN
    BY DEF IInv, TypeOK, DurablePos, NoPos, Procs
  <1>b. phase # "down" => DurablePos <= processedPos \/ (file = <<>> /\ Saving)
    BY <1>a DEF Behind
  <1>1. CASE Start
    <2>1. processedPos' = DurablePos /\ posFile' = posFile
      BY <1>1 DEF Start, durable
    <2>2. QED
      BY <1>t, <2>1 DEF DurablePos
  <1>2. CASE ReplayTruncate \/ WorkerMarkTruncate
    BY <1>2, <1>t DEF ReplayTruncate, WorkerMarkTruncate, Saving
  <1>3. CASE ReplaySaveRemove \/ WorkerSaveRemove
    <2>1. posFile' = NoPos /\ processedPos' = processedPos
      BY <1>3 DEF ReplaySaveRemove, WorkerSaveRemove
    <2>2. QED
      BY <1>t, <2>1 DEF DurablePos
  <1>4. CASE ReplaySaveRename \/ WorkerSaveRename
    <2>1. posFile' = processedPos /\ processedPos' = processedPos
      BY <1>4 DEF ReplaySaveRename, WorkerSaveRename
    <2>2. QED
      BY <1>t, <2>1 DEF DurablePos, NoPos
  <1>5. CASE WorkerMarkAdvance \/ WorkerTruncateFails
    <2>1. wpc = "mark" /\ posFile' = posFile /\ processedPos' = witem.end
      BY <1>5 DEF WorkerMarkAdvance, WorkerTruncateFails, durable
    <2>2. /\ witem.start \in Nat /\ witem.end \in Nat
          /\ processedPos <= witem.start /\ witem.start < witem.end /\ witem.end <= Len(file)
      BY <1>a, <2>1, MarkedItem
    <2>3. phase # "down" /\ file # <<>>
      BY <1>t, <2>1, <2>2 DEF IInv, PhaseOK
    <2>4. DurablePos <= processedPos /\ DurablePos' = DurablePos
      BY <1>b, <2>1, <2>3 DEF DurablePos
    <2>5. QED
      BY <1>t, <2>1, <2>2, <2>4
  <1>6. CASE WorkerSaveFails
    <2>1. UNCHANGED <<file, posFile, processedPos>> /\ phase # "down" /\ AbandonSave
      BY <1>6 DEF WorkerSaveFails, durable, IInv, PhaseOK
    <2>2. posFile <= Len(file)
      BY <1>t, <2>1, AbandonType DEF NoPos
    <2>3. CASE DurablePos <= processedPos
      BY <2>1, <2>3 DEF DurablePos
    <2>4. CASE file = <<>>
      <3>1. Len(file) = 0
        BY <2>4
      <3>2. DurablePos = 0
        BY <1>t, <2>2, <3>1 DEF DurablePos, NoPos
      <3>3. QED
        BY <1>t, <2>1, <3>2 DEF DurablePos
    <2>5. QED
      BY <1>b, <2>1, <2>3, <2>4
  <1>7. CASE Exit \/ CrashBetween \/ \E e \in Events : CrashInWrite(e)
    BY <1>7 DEF Exit, CrashBetween, CrashInWrite, Crash
  <1>8. ASSUME NEW e \in Events, AppendRecord(e) \/ AppendFails(e)
        PROVE  Goal
    <2>1. UNCHANGED <<posFile, processedPos>> /\ CanLock(e)
      BY <1>8 DEF AppendRecord, AppendFails
    <2>2. phase \notin {"down", "replay"} /\ ~Saving
      BY <2>1 DEF CanLock, Saving, IInv, PhaseOK, LockDiscipline, Settled, Free, Worker
    <2>3. QED
      BY <1>b, <2>1, <2>2 DEF DurablePos
  <1>9. CASE /\ UNCHANGED <<file, posFile, processedPos, crashes, faults>>
             /\ phase' = "down" <=> phase = "down"
    <2>1. DurablePos' = DurablePos
      BY <1>9 DEF DurablePos
    <2>2. CASE Saving' <=> Saving
      BY <1>9, <1>b, <2>1, <2>2
    <2>3. CASE WorkerMarkTruncate \/ ReplayTruncate
      BY <1>2, <2>3
    <2>4. QED
      BY <1>2, <1>4, <1>5, <1>6, <1>7, <2>2, SavingFrame
  <1>10. QED
    BY <1>1, <1>2, <1>3, <1>4, <1>5, <1>6, <1>7, <1>8, <1>9, PositionFrame

-----------------------------------------------------------------------------
(* Accepted events stay in custody.                                        *)

\* Nothing leaves the sinks, the dead letters or the quarantine file.
LEMMA SettlementGrows ==
    ASSUME [Next]_vars
    PROVE  Settlement \subseteq Settlement'
  <1>1. delivered \subseteq delivered' /\ deadLettered \subseteq deadLettered'
    <2>1. CASE WorkerDelivers \/ WorkerFails \/ \E e \in Events : Submit(e)
      BY <2>1 DEF WorkerDelivers, WorkerFails, Submit
    <2>2. CASE UNCHANGED outcome
      BY <2>2 DEF outcome
    <2>3. QED
      BY <2>1, <2>2, ZenonT(60) DEF Next, vars, ReplayStep, WorkerStep, WorkerMark, CloseStep, Enqueue,
       HandlerEnds, Start, ReplayEmpty, ReplayTruncate, ReplaySaveRemove, ReplaySaveRename,
       ReplayStart, ReplayRead, ReplayTooLong, ReplayLine, ReplayDone, WorkerReceive,
       WorkerRelease, WorkerExit, WorkerSaveRemove, WorkerSaveRename, WorkerSaveFails,
       WorkerMarkRefused, WorkerMarkAdvance, WorkerMarkTruncate, WorkerTruncateFails,
       BeginShutdown, CloseQueue, DropQueue, CloseFile, Exit, AppendRecord,
       AppendRejected, AppendFails, SendPanics, NoQueue, EnqueueCancelled, Reserve,
       WaitForSpace, SpaceSignalled, Send, CrashBetween, CrashInWrite
  <1>2. QED
    BY <1>1, QuarantineGrows DEF Settlement

\* The first byte of a record is text.
LEMMA FirstByte ==
    ASSUME NEW e \in Events
    PROVE  Stored(e)[1].ev = e /\ ~Stored(e)[1].nl
  <1>1. 1 \in 1 .. StoredLen(e) /\ 1 # StoredLen(e)
    BY StoredType
  <1>2. QED
    BY <1>1, StoredCell

\* One of the two bytes after the first of a record is text.
LEMMA LaterText ==
    ASSUME NEW e \in Events
    PROVE  \E k \in 1 .. ContentLen[e] : Stored(e)[k + 1].ev = e /\ ~Stored(e)[k + 1].nl
  <1>1. ContentLen[e] \in Nat \ {0, 1} /\ StoredLen(e) = ContentLen[e] + 1
    BY SizesAssumption DEF StoredLen
  <1>2. CASE e \notin MultiLine
    <2>1. 2 \in 1 .. StoredLen(e) /\ 2 # StoredLen(e) /\ 1 \in 1 .. ContentLen[e]
      BY <1>1
    <2>2. Stored(e)[2].ev = e /\ ~Stored(e)[2].nl
      BY <1>2, <2>1, StoredCell
    <2>3. 1 + 1 = 2
      OBVIOUS
    <2>4. QED
      BY <2>1, <2>2, <2>3
  <1>3. CASE e \in MultiLine
    <2>1. ContentLen[e] > 2
      BY <1>3, SizesAssumption
    <2>2. 3 \in 1 .. StoredLen(e) /\ 3 # StoredLen(e) /\ 2 \in 1 .. ContentLen[e]
      BY <1>1, <2>1
    <2>3. Stored(e)[3].ev = e /\ ~Stored(e)[3].nl
      BY <2>2, StoredCell
    <2>4. 2 + 1 = 3
      OBVIOUS
    <2>5. QED
      BY <2>2, <2>3, <2>4
  <1>4. QED
    BY <1>2, <1>3

\* When an event is acknowledged its record lies beyond both positions.
LEMMA SentText ==
    ASSUME IInv, Own, Behind, ~posAhead, NEW e \in Events, Send(e)
    PROVE  TextBeyond(e, DurablePos) /\ TextBeyond(e, processedPos)
  <1>1. Enqueuing(e) /\ QueueOpen /\ e \in Procs
    BY DEF Send, Enqueuing, Procs
  <1>2. eitem[e] \in Pipe
    BY <1>1 DEF Pipe
  <1>3. /\ eitem[e].start \in Nat /\ eitem[e].end \in Nat
        /\ processedPos <= eitem[e].start
        /\ eitem[e].start < eitem[e].end /\ eitem[e].end <= Len(file)
    BY <1>2, PipeInFile
  <1>4. file[eitem[e].start + 1].ev = e /\ ~file[eitem[e].start + 1].nl
    BY <1>1, FirstByte DEF Own
  <1>t. processedPos \in Nat /\ DurablePos \in Nat /\ Len(file) \in Nat
    BY ItemType DEF IInv, TypeOK, DurablePos, NoPos
  <1>5. DurablePos <= processedPos
    <2>1. file # <<>>
      BY <1>3, <1>t
    <2>2. QED
      BY <1>1, <2>1 DEF Behind, QueueOpen
  <1>6. /\ eitem[e].start + 1 \in processedPos + 1 .. Len(file)
        /\ eitem[e].start + 1 \in DurablePos + 1 .. Len(file)
    BY <1>3, <1>5, <1>t
  <1>7. QED
    BY <1>4, <1>6 DEF TextBeyond

\* What is in custody beyond a position stays so while the file keeps its bytes.
LEMMA KeptStays ==
    ASSUME IInv, [Next]_vars, NEW n \in Nat, KeptBeyond(n),
           file' = file \/ file' # <<>>,
           \A e \in Events : Send(e) => TextBeyond(e, n)
    PROVE  KeptBeyond(n)'
  <1> SUFFICES ASSUME NEW e \in Events, epc'[e] = "acked"
               PROVE  e \in Settlement' \/ TextBeyond(e, n)'
    BY DEF KeptBeyond
  <1>1. epc[e] = "acked" \/ Send(e)
    BY ControlFrame DEF Settled
  <1>2. e \in Settlement \/ TextBeyond(e, n)
    BY <1>1 DEF KeptBeyond
  <1>3. CASE TextBeyond(e, n)
    <2>1. PICK j \in n + 1 .. Len(file) : file[j].ev = e /\ ~file[j].nl
      BY <1>3 DEF TextBeyond
    <2>2. /\ Len(file) \in Nat /\ Len(file') \in Nat /\ Len(file) <= Len(file')
          /\ \A k \in 1 .. Len(file) : file'[k] = file[k]
      BY FileMoves DEF IInv, TypeOK
    <2>3. j \in 1 .. Len(file) /\ j \in n + 1 .. Len(file')
      BY <2>2
    <2>4. QED
      BY <2>1, <2>2, <2>3 DEF TextBeyond
  <1>4. QED
    BY <1>2, <1>3, SettlementGrows

\* What is in custody beyond a position is beyond an earlier one.
LEMMA KeptLess ==
    ASSUME NEW m \in Nat, NEW n \in Nat, m <= n, KeptBeyond(n), Len(file) \in Nat
    PROVE  KeptBeyond(m)
  <1> SUFFICES ASSUME NEW e \in Events, epc[e] = "acked", TextBeyond(e, n)
               PROVE  TextBeyond(e, m)
    BY DEF KeptBeyond
  <1>1. PICK j \in n + 1 .. Len(file) : file[j].ev = e /\ ~file[j].nl
    BY DEF TextBeyond
  <1>2. j \in m + 1 .. Len(file)
    OBVIOUS
  <1>3. QED
    BY <1>1, <1>2 DEF TextBeyond

\* An emptied file had nothing in custody beyond its end.
LEMMA KeptEmptied ==
    ASSUME IInv, [Next]_vars, file' = <<>>, KeptBeyond(Len(file)),
           \A e \in Events : ~Send(e), NEW n
    PROVE  KeptBeyond(n)'
  <1> SUFFICES ASSUME NEW e \in Events, epc'[e] = "acked"
               PROVE  e \in Settlement'
    BY DEF KeptBeyond
  <1>1. epc[e] = "acked"
    BY ControlFrame DEF Settled
  <1>2. ~TextBeyond(e, Len(file))
    BY ItemType DEF TextBeyond, IInv
  <1>3. QED
    BY <1>1, <1>2, SettlementGrows DEF KeptBeyond

\* The record that is marked is delivered: what was in custody beyond its start
\* is in custody beyond its end.
LEMMA MarkKept ==
    ASSUME IInv, Intact, Covered, Marked, InCustody, ~posAhead, wpc = "mark",
           witem.start = processedPos
    PROVE  KeptBeyond(witem.end)
  <1> SUFFICES ASSUME NEW e \in Events, epc[e] = "acked", e \notin Settlement
               PROVE  TextBeyond(e, witem.end)
    BY DEF KeptBeyond
  <1>t. /\ witem \in Pipe /\ witem.start \in Nat /\ witem.end \in Nat
        /\ witem.start < witem.end /\ witem.end <= Len(file) /\ Len(file) \in Nat
        /\ DOMAIN file = 1 .. Len(file) /\ ContentLen[e] \in Nat
    BY MarkedItem, SizesAssumption DEF IInv, TypeOK
  <1>1. PICK j \in witem.start + 1 .. Len(file) : file[j].ev = e /\ ~file[j].nl
    <2>1. TextBeyond(e, witem.start)
      BY DEF InCustody, KeptBeyond
    <2>2. QED
      BY <2>1 DEF TextBeyond
  <1>2. CASE j \in witem.end + 1 .. Len(file)
    BY <1>1, <1>2 DEF TextBeyond
  <1>3. CASE j \notin witem.end + 1 .. Len(file)
    <2>1. j \in witem.start + 1 .. witem.end /\ j \in 1 .. Len(file)
      BY <1>t, <1>3
    <2>2. \/ file[j].ev = witem.ev
          \/ file[j].ev \in quarantined
          \/ j = witem.end /\ file[j].i = 1
      BY <1>1, <1>t, <2>1 DEF Covered, Accounted
    <2>3. witem.ev # e
      <3>1. e # NoEvent
        BY EventsAssumption
      <3>2. QED
        BY <3>1 DEF Marked, Settlement
    <2>4. j = witem.end /\ file[j].i = 1
      BY <1>1, <2>2, <2>3 DEF Settlement
    <2>5. /\ j + ContentLen[e] <= Len(file)
          /\ \A k \in 0 .. ContentLen[e] : file[j + k] = Stored(e)[k + 1]
      BY <1>1, <1>t, <2>1, <2>4 DEF Intact, Whole
    <2>6. PICK k \in 1 .. ContentLen[e] : Stored(e)[k + 1].ev = e /\ ~Stored(e)[k + 1].nl
      BY LaterText
    <2>7. k \in 0 .. ContentLen[e] /\ j + k \in witem.end + 1 .. Len(file)
      BY <1>t, <2>4, <2>5
    <2>8. QED
      BY <2>5, <2>6, <2>7 DEF TextBeyond
  <1>4. QED
    BY <1>2, <1>3

\* Every action leaves accepted events in custody.
LEMMA InCustodyStep ==
    ASSUME IInv, Intact, Covered, Own, Marked, Behind, InCustody, [Next]_vars
    PROVE  InCustody'
  <1> SUFFICES ASSUME ~posAhead'
               PROVE  KeptBeyond(DurablePos)' /\ KeptBeyond(processedPos)'
    BY DEF InCustody
  <1> DEFINE Goal == KeptBeyond(DurablePos)' /\ KeptBeyond(processedPos)'
             Sends == \E e \in Events : Send(e)
  <1>a. ~posAhead
    BY AheadStays
  <1>t. /\ file \in Seq(Cell) /\ Len(file) \in Nat /\ processedPos \in Nat
        /\ posFile \in Nat \cup {NoPos} /\ DurablePos \in Nat /\ witem.end \in Nat
    BY ItemType DEF IInv, TypeOK, DurablePos, NoPos
  <1>k. KeptBeyond(DurablePos) /\ KeptBeyond(processedPos) /\ KeptBeyond(0)
    <2>1. KeptBeyond(DurablePos) /\ KeptBeyond(processedPos)
      BY <1>a DEF InCustody
    <2>2. QED
      BY <1>t, <2>1, KeptLess
  \* The file keeps its bytes.
  <1>e. ASSUME NEW n \in Nat, KeptBeyond(n), file' = file \/ file' # <<>>, ~Sends
        PROVE  KeptBeyond(n)'
    BY <1>e, KeptStays
  <1>n. ASSUME NEW m \in Nat, NEW n \in Nat, m = DurablePos', n = processedPos',
               KeptBeyond(m), KeptBeyond(n), file' = file \/ file' # <<>>, ~Sends
        PROVE  Goal
    <2>1. KeptBeyond(m)' /\ KeptBeyond(n)'
      BY <1>n, <1>e
    <2>2. QED
      BY <1>n, <2>1 DEF KeptBeyond, TextBeyond
  \* It loses them.
  <1>z. ASSUME file' = <<>>, KeptBeyond(Len(file)), ~Sends
        PROVE  Goal
    <2>1. \A n : KeptBeyond(n)'
      BY <1>z, KeptEmptied
    <2>2. PICK m, n : m = DurablePos' /\ n = processedPos'
      OBVIOUS
    <2>3. KeptBeyond(m)' /\ KeptBeyond(n)'
      BY <2>1
    <2>4. QED
      BY <2>2, <2>3 DEF KeptBeyond, TextBeyond
  <1>m. ASSUME wpc = "mark", witem.start = processedPos
        PROVE  KeptBeyond(witem.end)
    BY <1>m, <1>a, MarkKept
  <1>1. CASE Sends
    <2>1. PICK e \in Events : Send(e)
      BY <1>1
    <2>2. TextBeyond(e, DurablePos) /\ TextBeyond(e, processedPos)
      BY <1>a, <2>1, SentText
    <2>3. UNCHANGED <<file, posFile, processedPos>> /\ Enqueuing(e) /\ e \in Procs
      BY <2>1 DEF Send, durable, Enqueuing, Procs
    <2>4. \A q \in Events : Send(q) => q = e
      BY <2>3, OneEnqueuer DEF IInv, Send, Enqueuing, Procs
    <2>5. PICK m \in Nat, n \in Nat : m = DurablePos /\ n = processedPos
      BY <1>t
    <2>6. KeptBeyond(m)' /\ KeptBeyond(n)'
      BY <1>k, <2>2, <2>3, <2>4, <2>5, KeptStays
    <2>7. m = DurablePos' /\ n = processedPos'
      BY <2>3, <2>5 DEF DurablePos
    <2>8. QED
      BY <2>6, <2>7 DEF KeptBeyond, TextBeyond
  <1>2. CASE ~Sends
    <2>1. CASE UNCHANGED <<file, posFile, processedPos>>
      <3>1. DurablePos' = DurablePos
        BY <2>1 DEF DurablePos
      <3>2. QED
        BY <1>2, <1>k, <1>n, <1>t, <2>1, <3>1
    <2>2. CASE Start
      <3>1. file' = file /\ DurablePos' = DurablePos /\ processedPos' = DurablePos
        BY <2>2 DEF Start, durable, DurablePos
      <3>2. QED
        BY <1>2, <1>k, <1>n, <1>t, <3>1
    <2>3. CASE ReplayTruncate
      <3>1. file' = <<>> /\ processedPos >= Len(file)
        BY <2>3 DEF ReplayTruncate
      <3>2. KeptBeyond(Len(file))
        BY <1>k, <1>t, <3>1, KeptLess
      <3>3. QED
        BY <1>2, <1>z, <3>1, <3>2
    <2>4. CASE ReplaySaveRemove \/ WorkerSaveRemove
      <3>1. file' = file /\ DurablePos' = 0 /\ processedPos' = processedPos
        BY <2>4 DEF ReplaySaveRemove, WorkerSaveRemove, DurablePos
      <3>2. QED
        BY <1>2, <1>k, <1>n, <1>t, <3>1
    <2>5. CASE ReplaySaveRename \/ WorkerSaveRename
      <3>1. file' = file /\ posFile' = processedPos /\ processedPos' = processedPos
        BY <2>5 DEF ReplaySaveRename, WorkerSaveRename
      <3>2. DurablePos' = processedPos
        BY <1>t, <3>1 DEF DurablePos, NoPos
      <3>3. QED
        BY <1>2, <1>k, <1>n, <1>t, <3>1, <3>2
    <2>6. CASE WorkerMarkAdvance \/ WorkerTruncateFails
      <3>1. /\ wpc = "mark" /\ witem.start = processedPos /\ processedPos' = witem.end
            /\ file' = file /\ posFile' = posFile
        BY <2>6 DEF WorkerMarkAdvance, WorkerTruncateFails, Contiguous, durable
      <3>2. DurablePos' = DurablePos
        BY <3>1 DEF DurablePos
      <3>3. QED
        BY <1>2, <1>k, <1>m, <1>n, <1>t, <3>1, <3>2
    <2>7. CASE WorkerMarkTruncate
      <3>1. wpc = "mark" /\ witem.start = processedPos /\ witem.end = Len(file) /\ file' = <<>>
        BY <2>7 DEF WorkerMarkTruncate, Contiguous
      <3>2. QED
        BY <1>2, <1>m, <1>z, <3>1
    <2>8. CASE WorkerSaveFails
      BY <2>1, <2>8 DEF WorkerSaveFails, durable
    <2>9. CASE Exit \/ CrashBetween \/ \E e \in Events : CrashInWrite(e)
      <3>1. posFile' = posFile /\ processedPos' = 0
        BY <2>9 DEF Exit, CrashBetween, CrashInWrite, Crash, Forget, durable
      <3>2. file' = file \/ \E e \in Events : CrashInWrite(e)
        BY <2>9 DEF Exit, CrashBetween, durable
      <3>3. file' = file \/ file' # <<>>
        <4>1. ASSUME NEW e \in Events, CrashInWrite(e)
              PROVE  file' # <<>>
          <5>1. PICK n \in 1 .. StoredLen(e) : file' = file \o Prefix(Stored(e), n)
            BY <4>1 DEF CrashInWrite
          <5>2. Len(file') = Len(file) + n
            BY <1>t, <5>1, PartType
          <5>3. Len(file') # 0
            BY <1>t, <5>2
          <5>4. QED
            BY <5>3
        <4>2. QED
          BY <3>2, <4>1
      <3>4. DurablePos' = DurablePos
        BY <3>1 DEF DurablePos
      <3>5. QED
        BY <1>2, <1>k, <1>n, <1>t, <3>1, <3>3, <3>4
    <2>10. ASSUME NEW e \in Events, AppendRecord(e) \/ AppendFails(e)
           PROVE  Goal
      <3>1. UNCHANGED <<posFile, processedPos>>
        BY <2>10 DEF AppendRecord, AppendFails
      <3>2. DurablePos' = DurablePos
        BY <3>1 DEF DurablePos
      <3>3. Len(file) <= Len(file') /\ Len(file') \in Nat
        <4>1. CASE AppendRecord(e)
          BY <1>t, <4>1, AppendMore, StoredType DEF AppendRecord
        <4>2. CASE AppendFails(e)
          <5>1. PICK n \in 0 .. StoredLen(e) : file' = file \o Prefix(Stored(e), n)
            BY <4>2 DEF AppendFails
          <5>2. Len(file') = Len(file) + n
            BY <1>t, <5>1, PartType
          <5>3. QED
            BY <1>t, <5>2
        <4>3. QED
          BY <2>10, <4>1, <4>2
      <3>4. file' = file \/ file' # <<>>
        <4>1. CASE Len(file) = 0 /\ Len(file') = 0
          <5>1. file = <<>> /\ file' = <<>>
            BY <1>t, <2>10, <4>1, PartType, AppendMore DEF AppendRecord, AppendFails
          <5>2. QED
            BY <5>1
        <4>2. CASE Len(file') # 0
          BY <4>2
        <4>3. QED
          BY <1>t, <3>3, <4>1, <4>2
      <3>5. QED
        BY <1>2, <1>k, <1>n, <1>t, <3>1, <3>2, <3>4
    <2>11. QED
      BY <2>1, <2>2, <2>3, <2>4, <2>5, <2>6, <2>7, <2>8, <2>9, <2>10, PositionFrame
  <1>3. QED
    BY <1>1, <1>2

-----------------------------------------------------------------------------
(* The invariant holds.                                                    *)

\* Nothing is in an empty file, and no event has been submitted.
LEMMA InitCustody == Init => CInv
  <1> SUFFICES ASSUME Init PROVE CInv
    OBVIOUS
  <1>1. /\ file = <<>> /\ queue = <<>> /\ wpc = "none" /\ phase = "down"
        /\ \A e \in Events : epc[e] = "new"
        /\ epc[Replay] = "idle"
    BY EventsAssumption DEF Init, Procs
  <1>2. \A p \in Procs : ~Enqueuing(p)
    BY <1>1 DEF Enqueuing, Procs
  <1>3. Cells /\ Fresh /\ Marked /\ Behind
    BY <1>1 DEF Cells, Fresh, Marked, Behind
  <1>4. Intact /\ Own /\ Buffered /\ Covered
    <2>1. Pipe = {} /\ ~Scanning
      BY <1>1, <1>2 DEF Pipe, Working, Scanning
    <2>2. QED
      BY <1>1, <1>2, <2>1 DEF Intact, Own, Buffered, Covered, Procs
  <1>5. InCustody
    BY <1>1 DEF InCustody, KeptBeyond
  <1>6. QED
    BY <1>3, <1>4, <1>5 DEF CInv

\* Every action keeps the invariant.
LEMMA NextCustody ==
    ASSUME IInv, IInv', CInv, [Next]_vars
    PROVE  CInv'
  BY CellsStep, FreshStep, IntactStep, BufferedStep, CoveredStep, OwnStep, MarkedStep,
     BehindStep, InCustodyStep DEF CInv

\* In every state an accepted event is settled, or its text lies in the file
\* beyond the position a restart would load, unless a save was given up on.
THEOREM CustodyInvariant == Spec => []CInv
  <1>1. IInv /\ IInv' /\ CInv /\ [Next]_vars => CInv'
    BY NextCustody
  <1>2. QED
    BY <1>1, InitCustody, Inductive, PTL DEF Spec

-----------------------------------------------------------------------------
(* The spool implements Custody.                                           *)

Accepted == {e \in Events : epc[e] = "acked"}

Held == {e \in Events : Retained(e)}

\* What a step does to what is accepted, held and settled: one of them moves.
LEMMA PromiseFrame ==
    ASSUME IInv, [Next]_vars, \A e \in Events : ~Send(e)
    PROVE  /\ Accepted' = Accepted
           /\ UNCHANGED <<file, posFile>> \/ Settlement' = Settlement
  <1>1. Accepted' = Accepted
    <2>1. ASSUME NEW e \in Events
          PROVE  epc'[e] = "acked" <=> epc[e] = "acked"
      BY ControlFrame DEF Enqueuing, Settled
    <2>2. QED
      BY <2>1 DEF Accepted
  <1>2. UNCHANGED <<file, posFile>> \/ UNCHANGED <<outcome, quarantined>>
    BY ZenonT(60) DEF Next, vars, ReplayStep, WorkerStep, WorkerMark, CloseStep, Enqueue,
       HandlerEnds, Start, ReplayEmpty, ReplayTruncate, ReplaySaveRemove, ReplaySaveRename,
       ReplayStart, ReplayRead, ReplayTooLong, ReplayLine, ReplayDone, WorkerReceive,
       WorkerRelease, WorkerDelivers, WorkerFails, WorkerExit, WorkerSaveRemove,
       WorkerSaveRename, WorkerSaveFails, WorkerMarkRefused, WorkerMarkAdvance,
       WorkerMarkTruncate, WorkerTruncateFails, BeginShutdown, CloseQueue, DropQueue,
       CloseFile, Exit, Submit, AppendRecord, AppendRejected, AppendFails, SendPanics,
       NoQueue, EnqueueCancelled, Reserve, WaitForSpace, SpaceSignalled, Send,
       CrashBetween, CrashInWrite, durable
  <1>3. QED
    BY <1>1, <1>2 DEF Settlement, outcome

\* Text beyond a position is there for a restart that looks from an earlier one
\* while the file keeps its bytes.
LEMMA HeldGrows ==
    ASSUME IInv, [Next]_vars, file' # <<>>, DurablePos \in Nat, DurablePos' \in Nat,
           DurablePos' <= DurablePos
    PROVE  Held \subseteq Held'
  <1>n. PICK m \in Nat, n \in Nat : m = DurablePos' /\ n = DurablePos /\ m <= n
    OBVIOUS
  <1> SUFFICES ASSUME NEW e \in Events, Retained(e)
               PROVE  Retained(e)'
    BY DEF Held
  <1>1. PICK j \in n + 1 .. Len(file) : file[j].ev = e /\ ~file[j].nl
    BY <1>n DEF Retained
  <1>2. /\ Len(file) \in Nat /\ Len(file') \in Nat /\ Len(file) <= Len(file')
        /\ \A k \in 1 .. Len(file) : file'[k] = file[k]
    BY FileMoves DEF IInv, TypeOK
  <1>3. j \in 1 .. Len(file) /\ j \in m + 1 .. Len(file')
    <2>1. Len(file) \in Nat /\ Len(file') \in Nat /\ Len(file) <= Len(file') /\ m <= n
      BY <1>2, <1>n
    <2>2. n + 1 <= j /\ j <= Len(file) /\ j \in Int
      BY <2>1
    <2>3. QED
      BY <2>1, <2>2
  <1>4. QED
    BY <1>1, <1>2, <1>3, <1>n DEF Retained

\* A restart that looks from a later position finds no more.
LEMMA HeldShrinks ==
    ASSUME file' = file, Len(file) \in Nat, DurablePos \in Nat, DurablePos' \in Nat,
           DurablePos <= DurablePos' \/ file = <<>>
    PROVE  Held' \subseteq Held
  <1>n. PICK m \in Nat, n \in Nat : m = DurablePos' /\ n = DurablePos
    OBVIOUS
  <1> SUFFICES ASSUME NEW e \in Events, Retained(e)'
               PROVE  Retained(e)
    BY DEF Held
  <1>1. PICK j \in m + 1 .. Len(file) : file[j].ev = e /\ ~file[j].nl
    BY <1>n DEF Retained
  <1>2. CASE file = <<>>
    <2>1. Len(file) = 0
      BY <1>2
    <2>2. QED
      BY <1>1, <2>1
  <1>3. CASE DurablePos <= DurablePos'
    <2>1. m >= n
      BY <1>3, <1>n
    <2>2. j \in n + 1 .. Len(file)
      BY <2>1
    <2>3. QED
      BY <1>1, <1>n, <2>2 DEF Retained
  <1>4. QED
    BY <1>2, <1>3

\* What a restart would find grows, shrinks or stays.
LEMMA HeldStep ==
    ASSUME IInv, IInv', Behind, ~posAhead, [Next]_vars
    PROVE  Held \subseteq Held' \/ Held' \subseteq Held
  <1>t. /\ file \in Seq(Cell) /\ Len(file) \in Nat /\ processedPos \in Nat
        /\ posFile \in Nat \cup {NoPos} /\ DurablePos \in Nat
    BY DEF IInv, TypeOK, DurablePos, NoPos
  <1>1. CASE UNCHANGED <<file, posFile>>
    <2>1. DurablePos' = DurablePos
      BY <1>1 DEF DurablePos
    <2>2. QED
      BY <1>1, <1>t, <2>1, HeldShrinks
  <1>2. CASE file' = <<>>
    <2>1. Len(file') = 0
      BY <1>2
    <2>2. ASSUME NEW e \in Events
          PROVE  ~Retained(e)'
      <3>1. DurablePos' + 1 .. Len(file') = {} \/ DurablePos' \notin Nat
        BY <2>1
      <3>2. DurablePos' \in Nat
        BY DEF IInv, TypeOK, DurablePos, NoPos
      <3>3. QED
        BY <3>1, <3>2 DEF Retained
    <2>3. QED
      BY <2>2 DEF Held
  <1>3. CASE ReplaySaveRemove \/ WorkerSaveRemove
    <2>1. file' = file /\ DurablePos' = 0
      BY <1>3 DEF ReplaySaveRemove, WorkerSaveRemove, DurablePos
    <2>2. CASE file = <<>>
      BY <1>2, <2>1, <2>2
    <2>3. CASE file # <<>>
      BY <1>t, <2>1, <2>3, HeldGrows
    <2>4. QED
      BY <2>2, <2>3
  <1>4. CASE ReplaySaveRename \/ WorkerSaveRename
    <2>1. file' = file /\ posFile' = processedPos /\ phase # "down"
      BY <1>4 DEF ReplaySaveRename, WorkerSaveRename, IInv, PhaseOK
    <2>2. DurablePos' = processedPos
      BY <1>t, <2>1 DEF DurablePos, NoPos
    <2>3. DurablePos <= processedPos \/ file = <<>>
      BY <2>1 DEF Behind
    <2>4. QED
      BY <1>t, <2>1, <2>2, <2>3, HeldShrinks
  <1>5. CASE posFile' = posFile /\ file' # <<>>
    <2>1. DurablePos' = DurablePos
      BY <1>5 DEF DurablePos
    <2>2. QED
      BY <1>5, <1>t, <2>1, HeldGrows
  <1>6. QED
    <2>1. \/ posFile' = posFile
          \/ ReplaySaveRemove \/ WorkerSaveRemove \/ ReplaySaveRename \/ WorkerSaveRename
      BY ZenonT(60) DEF Next, vars, ReplayStep, WorkerStep, WorkerMark, CloseStep, Enqueue,
       HandlerEnds, Start, ReplayEmpty, ReplayTruncate, ReplayStart, ReplayRead,
       ReplayTooLong, ReplayLine, ReplayDone, WorkerReceive, WorkerRelease,
       WorkerDelivers, WorkerFails, WorkerExit, WorkerSaveFails, WorkerMarkRefused,
       WorkerMarkAdvance, WorkerMarkTruncate, WorkerTruncateFails, BeginShutdown,
       CloseQueue, DropQueue, CloseFile, Exit, Submit, AppendRecord, AppendRejected,
       AppendFails, SendPanics, NoQueue, EnqueueCancelled, Reserve, WaitForSpace,
       SpaceSignalled, Send, CrashBetween, CrashInWrite, durable
    <2>2. QED
      BY <1>2, <1>3, <1>4, <1>5, <2>1

\* At the start nothing is accepted, held or settled.
LEMMA InitPromise == Init => Promise!Init
  <1> SUFFICES ASSUME Init PROVE Promise!Init
    OBVIOUS
  <1>1. \A e \in Events : epc[e] # "acked"
    BY EventsAssumption DEF Init, Procs
  <1>2. Len(file) = 0 /\ DurablePos = 0
    BY DEF Init, DurablePos, NoPos
  <1>3. \A e \in Events : ~Retained(e)
    BY <1>2 DEF Retained
  <1>4. delivered \cup deadLettered \cup quarantined = {}
    BY DEF Init
  <1>5. QED
    BY <1>1, <1>3, <1>4 DEF Promise!Init

\* Every step that leaves no position beyond the file is one of Custody's.
LEMMA StepPromise ==
    ASSUME IInv, IInv', CInv, CInv', [Next]_vars, ~posAhead'
    PROVE  [Promise!Next]_(Promise!vars)
  <1> USE DEF Accepted, Held, Settlement
  <1>a. ~posAhead
    BY AheadStays
  <1>s. Settlement \subseteq Settlement' /\ Settlement' \subseteq Events
    BY SettlementGrows DEF IInv, TypeOK
  <1>h. Accepted' \subseteq Held' \cup Settlement'
    BY DEF CInv, InCustody, KeptBeyond, TextBeyond, Retained
  <1>1. ASSUME NEW e \in Events, Send(e)
        PROVE  Promise!Next
    <2>1. UNCHANGED <<file, posFile, quarantined, outcome>>
      BY <1>1 DEF Send, durable
    <2>2. Held' = Held
      BY <2>1 DEF Retained, DurablePos
    <2>3. Settlement' = Settlement
      BY <2>1 DEF outcome
    <2>4. Accepted' = Accepted \cup {e}
      <3>1. /\ epc' = [epc EXCEPT ![e] = "acked"] /\ e \in Procs
            /\ epc \in [Procs -> Settled \cup {"idle", "lock", "check", "space", "send",
                                                "scan", "save", "rename"}]
        BY <1>1, EventsAssumption DEF Send, Return, IInv, TypeOK, Procs
      <3>2. QED
        BY <3>1 DEF Procs
    <2>5. e \in Held
      BY <1>1, <1>a, SentText DEF CInv, TextBeyond, Retained
    <2>6. Promise!Acknowledge(e)
      BY <2>2, <2>3, <2>4, <2>5 DEF Promise!Acknowledge
    <2>7. QED
      BY <2>6 DEF Promise!Next
  <1>2. CASE \A e \in Events : ~Send(e)
    <2>1. Accepted' = Accepted /\ (UNCHANGED <<file, posFile>> \/ Settlement' = Settlement)
      BY <1>2, PromiseFrame
    <2>2. CASE UNCHANGED <<file, posFile>>
      <3>1. Held' = Held
        BY <2>2 DEF Retained, DurablePos
      <3>2. Promise!Settle(Settlement' \ Settlement)
        BY <1>s, <2>1, <3>1 DEF Promise!Settle
      <3>3. QED
        BY <1>s, <3>2 DEF Promise!Next
    <2>3. CASE Settlement' = Settlement /\ Held \subseteq Held'
      <3>1. Promise!Take(Held' \ Held)
        BY <2>1, <2>3 DEF Promise!Take
      <3>2. Held' \ Held \in SUBSET Events
        OBVIOUS
      <3>3. QED
        BY <3>1, <3>2 DEF Promise!Next
    <2>4. CASE Settlement' = Settlement /\ Held' \subseteq Held
      <3>1. (Held \ Held') \cap Accepted \subseteq Settlement
        BY <1>h, <2>1, <2>4
      <3>2. Promise!Release(Held \ Held')
        BY <2>1, <2>4, <3>1 DEF Promise!Release
      <3>3. Held \ Held' \in SUBSET Events
        OBVIOUS
      <3>4. QED
        BY <3>2, <3>3 DEF Promise!Next
    <2>5. QED
      BY <1>a, <2>1, <2>2, <2>3, <2>4, HeldStep DEF CInv
  <1>3. QED
    BY <1>1, <1>2

\* The spool keeps the promise of Custody: whatever handlers, worker, checkpoint
\* save, replay, shutdown and crash interleave, and whatever fails, an event is
\* acknowledged when a restart would find its record, and a restart loses sight
\* of an acknowledged event only when it has reached the sinks, the dead letters
\* or quarantine; until a save is given up on after the file was emptied.
THEOREM CustodyHeld == Spec => KeepsCustody
  <1>1. IInv /\ IInv' /\ CInv /\ CInv' /\ [Next]_vars
          => [posAhead' \/ Promise!Next]_(Promise!vars)
    BY StepPromise
  <1>2. QED
    BY <1>1, InitPromise, Inductive, CustodyInvariant, PTL DEF Spec, KeepsCustody

\* An accepted event is settled or a restart would find its record, unless a save
\* was given up on after markSpoolDelivered had emptied the file: that is the one
\* way the spool falls short of crash-safe buffering.
THEOREM SafeUnlessAhead == Spec => [](posAhead \/ CrashSafe)
  <1>1. IInv /\ CInv => posAhead \/ CrashSafe
    <2> SUFFICES ASSUME CInv, ~posAhead
                 PROVE  CrashSafe
      OBVIOUS
    <2>1. KeptBeyond(DurablePos)
      BY DEF CInv, InCustody
    <2>2. QED
      BY <2>1 DEF CrashSafe, Promise!Kept, KeptBeyond, TextBeyond, Settlement, Retained
  <1>2. QED
    BY <1>1, Inductive, CustodyInvariant, PTL

-----------------------------------------------------------------------------
(* A first life: the invariant behind HeldOnlyByUndelivered.               *)

\* The process has not crashed, not been stopped, and no file operation failed.
FirstLife == crashes = 0 /\ restarts = 0 /\ faults = 0

\* It started on an empty spool, and there is nothing to replay.
Began ==
    FirstLife =>
        /\ ~posAhead /\ epc[Replay] = "idle"
        /\ phase \in {"down", "replay", "serve"}
        /\ phase # "serve" => file = <<>> /\ DurablePos = 0 /\ processedPos = 0

\* The bytes of a record are in the file once.
Single ==
    \A j, k \in DOMAIN file :
        file[j].ev = file[k].ev /\ file[j].i = file[k].i => j = k

\* An item stands for the record of its event, which is not delivered before
\* the worker has come to it.
Carried ==
    FirstLife =>
        /\ \A e \in Events : epc[e] \in {"new", "lock"} => e \notin delivered
        /\ \A x \in Pipe :
              /\ x.ev \in Events /\ file[x.start + 1] = Stored(x.ev)[1]
              /\ x.ev \in delivered => wpc = "mark" /\ x = witem

\* The record at the checkpoint was not delivered and will not be.
Stuck ==
    /\ processedPos < Len(file)
    /\ LET e == file[processedPos + 1].ev
       IN  /\ e \notin delivered /\ epc[e] \notin {"new", "lock"}
           /\ \A x \in Pipe : x.ev # e

\* Every byte beyond the checkpoint is on its way to the worker.
Flowing ==
    /\ file = <<>> \/ processedPos < Len(file)
    /\ \A j \in processedPos + 1 .. Len(file) : \E x \in Pipe : x.start < j /\ j <= x.end

Moving == FirstLife => Stuck \/ Flowing

HInv == Began /\ Single /\ Carried /\ Moving

-----------------------------------------------------------------------------
(* The steps of a first life.                                              *)

\* What may happen in it.
LifeStep ==
    \/ Start \/ ReplayEmpty
    \/ \E e \in Events : Submit(e) \/ AppendRecord(e) \/ AppendRejected(e) \/ Enqueue(e)
    \/ WorkerReceive \/ WorkerRelease \/ WorkerDelivers \/ WorkerFails
    \/ WorkerMarkRefused \/ WorkerMarkAdvance \/ WorkerMarkTruncate
    \/ WorkerSaveRemove \/ WorkerSaveRename
    \/ UNCHANGED vars

\* Nothing else happens in it.
LEMMA LifeFrame ==
    ASSUME IInv, Began, [Next]_vars, FirstLife'
    PROVE  FirstLife /\ LifeStep
  <1>t. /\ crashes \in Nat /\ restarts \in Nat /\ faults \in Nat
        /\ file \in Seq(Cell) /\ processedPos \in Nat
    BY BoundsAssumption DEF IInv, TypeOK
  <1>1. FirstLife
    <2>1. CASE UNCHANGED bounds
      BY <2>1 DEF FirstLife, bounds
    <2>2. CASE \/ WorkerTruncateFails \/ WorkerSaveFails \/ BeginShutdown \/ CrashBetween
               \/ \E e \in Events : AppendFails(e) \/ CrashInWrite(e)
      BY <1>t, <2>2 DEF FirstLife, WorkerTruncateFails, WorkerSaveFails, BeginShutdown,
         CrashBetween, CrashInWrite, Crash, AppendFails, Fault
    <2>3. QED
      BY <2>1, <2>2, ZenonT(60) DEF Next, vars, ReplayStep, WorkerStep, WorkerMark, CloseStep, Enqueue,
       HandlerEnds, Start, ReplayEmpty, ReplayTruncate, ReplaySaveRemove, ReplaySaveRename,
       ReplayStart, ReplayRead, ReplayTooLong, ReplayLine, ReplayDone, WorkerReceive,
       WorkerRelease, WorkerDelivers, WorkerFails, WorkerExit, WorkerSaveRemove,
       WorkerSaveRename, WorkerMarkRefused, WorkerMarkAdvance, WorkerMarkTruncate,
       CloseQueue, DropQueue, CloseFile, Exit, Submit, AppendRecord, AppendRejected,
       SendPanics, NoQueue, EnqueueCancelled, Reserve, WaitForSpace, SpaceSignalled, Send
  <1>2. /\ epc[Replay] = "idle" /\ phase \in {"down", "replay", "serve"}
        /\ phase # "serve" => file = <<>> /\ Len(file) = 0
    BY <1>1 DEF Began
  <1>3. ~(\/ WorkerTruncateFails \/ WorkerSaveFails \/ BeginShutdown \/ CrashBetween
          \/ \E e \in Events : AppendFails(e) \/ CrashInWrite(e))
    BY <1>1, <1>t DEF FirstLife, WorkerTruncateFails, WorkerSaveFails, BeginShutdown,
       CrashBetween, CrashInWrite, Crash, AppendFails, Fault
  <1>4. ~(\/ ReplayTruncate \/ ReplaySaveRemove \/ ReplaySaveRename \/ ReplayStart
          \/ ReplayRead \/ ReplayTooLong \/ ReplayLine \/ ReplayDone)
    BY <1>2, <1>t DEF ReplayTruncate, ReplaySaveRemove, ReplaySaveRename, ReplayStart,
       ReplayRead, ReplayTooLong, ReplayLine, ReplayDone
  <1>5. ~(WorkerExit \/ CloseQueue \/ CloseStep \/ \E e \in Events : HandlerEnds(e))
    BY <1>2 DEF WorkerExit, CloseQueue, CloseStep, DropQueue, CloseFile, Exit, HandlerEnds,
       SendPanics, NoQueue, EnqueueCancelled
  <1>6. ~Enqueue(Replay)
    BY <1>2 DEF Enqueue, Reserve, WaitForSpace, SpaceSignalled, Send
  <1>7. QED
    BY <1>1, <1>3, <1>4, <1>5, <1>6
       DEF LifeStep, Next, ReplayStep, WorkerStep, WorkerMark, Procs

\* Every action leaves a first life as it began.
LEMMA BeganStep ==
    ASSUME IInv, Began, [Next]_vars
    PROVE  Began'
  <1> SUFFICES ASSUME FirstLife'
               PROVE  /\ ~posAhead' /\ epc'[Replay] = "idle"
                      /\ phase' \in {"down", "replay", "serve"}
                      /\ phase' # "serve" => file' = <<>> /\ DurablePos' = 0 /\ processedPos' = 0
    BY DEF Began
  <1>1. FirstLife /\ LifeStep
    BY LifeFrame
  <1>2. /\ ~posAhead /\ epc[Replay] = "idle"
        /\ phase \in {"down", "replay", "serve"}
        /\ phase # "serve" => file = <<>> /\ DurablePos = 0 /\ processedPos = 0
    BY <1>1 DEF Began
  <1>3. ~posAhead'
    <2>1. UNCHANGED posAhead
      BY <1>1 DEF LifeStep, vars, Enqueue, Start, ReplayEmpty, WorkerReceive, WorkerRelease,
         WorkerDelivers, WorkerFails, WorkerSaveRemove, WorkerSaveRename, WorkerMarkRefused,
         WorkerMarkAdvance, WorkerMarkTruncate, Submit, AppendRecord, AppendRejected,
         Reserve, WaitForSpace, SpaceSignalled, Send
    <2>2. QED
      BY <1>2, <2>1
  <1>4. epc'[Replay] = "idle"
    <2>1. UNCHANGED epc \/ \E e \in Events : \E v : epc' = [epc EXCEPT ![e] = v]
      BY <1>1 DEF LifeStep, vars, Enqueue, Start, ReplayEmpty, WorkerReceive, WorkerRelease,
         WorkerDelivers, WorkerFails, WorkerSaveRemove, WorkerSaveRename, WorkerMarkRefused,
         WorkerMarkAdvance, WorkerMarkTruncate, Submit, AppendRecord, AppendRejected,
         Reserve, WaitForSpace, SpaceSignalled, Send, Return, enqueuer
    <2>2. Replay \in Procs /\ Replay \notin Events /\ Events \subseteq Procs
      BY EventsAssumption DEF Procs
    <2>3. QED
      BY <1>2, <2>1, <2>2 DEF IInv, TypeOK
  <1>5. CASE Start
    BY <1>2, <1>3, <1>4, <1>5 DEF Start, durable, DurablePos
  <1>6. CASE ReplayEmpty
    BY <1>3, <1>4, <1>6 DEF ReplayEmpty
  <1>7. CASE ~(Start \/ ReplayEmpty)
    <2>1. phase' = phase
      BY <1>1, <1>7 DEF LifeStep, vars, Enqueue, WorkerReceive, WorkerRelease,
         WorkerDelivers, WorkerFails, WorkerSaveRemove, WorkerSaveRename, WorkerMarkRefused,
         WorkerMarkAdvance, WorkerMarkTruncate, Submit, AppendRecord, AppendRejected,
         Reserve, WaitForSpace, SpaceSignalled, Send
    <2>2. CASE phase = "serve"
      BY <1>3, <1>4, <2>1, <2>2
    <2>3. CASE phase # "serve"
      <3>1. /\ wpc \in {"none", "recv"} /\ queue = <<>>
            /\ \A e \in Events : epc[e] \in Settled
        BY <1>2, <2>3 DEF IInv, PhaseOK
      <3>2. UNCHANGED vars \/ \E e \in Events : Submit(e) \/ AppendRecord(e)
                                  \/ AppendRejected(e) \/ Enqueue(e)
        BY <1>1, <1>7, <3>1 DEF LifeStep, WorkerReceive, WorkerRelease, WorkerDelivers,
           WorkerFails, WorkerSaveRemove, WorkerSaveRename, WorkerMarkRefused,
           WorkerMarkAdvance, WorkerMarkTruncate
      <3>3. UNCHANGED vars
        BY <2>3, <3>1, <3>2 DEF Submit, AppendRecord, AppendRejected, CanLock, Enqueue,
           Reserve, WaitForSpace, SpaceSignalled, Send, Settled
      <3>4. UNCHANGED <<file, posFile, processedPos>>
        BY <3>3 DEF vars, durable
      <3>5. QED
        BY <1>2, <1>3, <1>4, <2>1, <2>3, <3>4 DEF DurablePos
    <2>4. QED
      BY <2>2, <2>3
  <1>8. QED
    BY <1>5, <1>6, <1>7

\* Every action leaves the bytes of records in the file once.
LEMMA SingleStep ==
    ASSUME IInv, Fresh, Single, [Next]_vars
    PROVE  Single'
  <1>t. file \in Seq(Cell) /\ Len(file) \in Nat /\ DOMAIN file = 1 .. Len(file)
    BY DEF IInv, TypeOK
  <1>1. CASE file' = file
    BY <1>1 DEF Single
  <1>2. CASE file' = <<>>
    BY <1>2 DEF Single
  <1>3. ASSUME NEW e \in Events, NEW n \in 0 .. StoredLen(e), Writes(e, n)
        PROVE  Single'
    <2>1. /\ file' \in Seq(Cell) /\ Len(file') = Len(file) + n
          /\ \A j \in 1 .. Len(file) : file'[j] = file[j]
          /\ \A k \in 1 .. n : file'[Len(file) + k] = Stored(e)[k]
      BY <1>3, <1>t, GrownFile DEF Writes
    <2>2. n \in Nat /\ n <= StoredLen(e) /\ StoredLen(e) \in Nat
      BY StoredType
    <2>3. \A j \in 1 .. Len(file) : file'[j] = file[j] /\ file'[j].ev # e
      BY <1>3, <1>t, <2>1 DEF Writes, CanLock, Fresh
    <2>4. ASSUME NEW j \in DOMAIN file', j \notin 1 .. Len(file)
          PROVE  file'[j].ev = e /\ file'[j].i = j - Len(file) /\ j \in Int
      <3>1. j \in 1 .. Len(file) + n
        BY <2>1
      <3>2. j - Len(file) \in 1 .. n /\ j = Len(file) + (j - Len(file))
        BY <1>t, <2>2, <2>4, <3>1, SecondPart
      <3>3. file'[j] = Stored(e)[j - Len(file)] /\ j - Len(file) \in 1 .. StoredLen(e)
        BY <2>1, <2>2, <3>2
      <3>4. QED
        BY <3>1, <3>3, StoredCell
    <2>5. ASSUME NEW j \in DOMAIN file', NEW k \in DOMAIN file',
                 file'[j].ev = file'[k].ev, file'[j].i = file'[k].i
          PROVE  j = k
      <3>1. CASE j \in 1 .. Len(file) /\ k \in 1 .. Len(file)
        BY <1>t, <2>3, <2>5, <3>1 DEF Single
      <3>2. CASE j \notin 1 .. Len(file) /\ k \notin 1 .. Len(file)
        <4>1. j - Len(file) = k - Len(file) /\ j \in Int /\ k \in Int
          BY <2>4, <2>5, <3>2
        <4>2. QED
          BY <1>t, <4>1
      <3>3. QED
        BY <2>3, <2>4, <2>5, <3>1, <3>2
    <2>6. QED
      BY <2>5 DEF Single
  <1>4. QED
    BY <1>1, <1>2, <1>3, FileFrame

\* In a first life items only move on, and the worker drops the one it has.
LEMMA PipeLife ==
    ASSUME IInv, Began, [Next]_vars, FirstLife', NEW x \in Pipe
    PROVE  \/ x \in Pipe'
           \/ x = witem /\ (WorkerFails \/ WorkerMark)
  <1>l. FirstLife /\ LifeStep
    BY LifeFrame
  <1>t. queue \in Seq(Item) /\ Replay \notin Events /\ Events \subseteq Procs
        /\ epc \in [Procs -> Settled \cup {"idle", "lock", "check", "space", "send",
                                           "scan", "save", "rename"}]
        /\ eitem \in [Procs -> Item]
    BY EventsAssumption DEF IInv, TypeOK, Procs
  <1>q. ASSUME NEW i \in DOMAIN queue, x = queue[i]
        PROVE  x \in Pipe'
    <2>1. CASE queue' = queue
      BY <1>q, <2>1 DEF Pipe
    <2>2. CASE WorkerReceive
      <3>1. queue' = Tail(queue) /\ witem' = queue[1] /\ Working' /\ queue # <<>>
        BY <1>t, <2>2, QueueOps DEF WorkerReceive, Working
      <3>2. CASE i = 1
        BY <1>q, <3>1, <3>2 DEF Pipe
      <3>3. CASE i # 1
        <4>1. i - 1 \in DOMAIN queue' /\ queue'[i - 1] = queue[i]
          BY <1>q, <1>t, <3>1, <3>3
        <4>2. QED
          BY <1>q, <4>1 DEF Pipe
      <3>4. QED
        BY <3>2, <3>3
    <2>3. ASSUME NEW e \in Events, Send(e)
          PROVE  x \in Pipe'
      <3>1. queue' = Append(queue, eitem[e]) /\ eitem[e] \in Item
        BY <1>t, <2>3 DEF Send
      <3>2. i \in DOMAIN queue' /\ queue'[i] = queue[i]
        BY <1>q, <1>t, <3>1
      <3>3. QED
        BY <1>q, <3>2 DEF Pipe
    <2>4. queue' = queue \/ WorkerReceive \/ \E e \in Events : Send(e)
      BY <1>l DEF LifeStep, vars, channel, Enqueue, Start, ReplayEmpty, WorkerRelease,
         WorkerDelivers, WorkerFails, WorkerSaveRemove, WorkerSaveRename, WorkerMarkRefused,
         WorkerMarkAdvance, WorkerMarkTruncate, Submit, AppendRecord, AppendRejected,
         Reserve, WaitForSpace, SpaceSignalled
    <2>5. QED
      BY <2>1, <2>2, <2>3, <2>4
  <1>s. ASSUME Start
        PROVE  ~Working
    BY <1>s DEF Start, IInv, PhaseOK, Working
  <1>w. ASSUME Working, x = witem
        PROVE  x \in Pipe' \/ WorkerFails \/ WorkerMark
    <2>1. CASE WorkerRelease \/ WorkerDelivers
      <3>1. Working' /\ witem' = witem
        BY <2>1 DEF Working, WorkerRelease, WorkerDelivers
      <3>2. QED
        BY <1>w, <3>1 DEF Pipe
    <2>3. CASE UNCHANGED worker
      BY <1>w, <2>3 DEF Pipe, Working, worker
    <2>4. ~(WorkerReceive \/ WorkerSaveRemove \/ WorkerSaveRename)
      BY <1>w DEF Working, WorkerReceive, WorkerSaveRemove, WorkerSaveRename
    <2>5. WorkerRelease \/ WorkerDelivers \/ UNCHANGED worker \/ WorkerFails \/ WorkerMark
      <3>1. CASE \/ Start \/ ReplayEmpty \/ UNCHANGED vars
                 \/ \E e \in Events : Submit(e) \/ AppendRecord(e) \/ AppendRejected(e) \/ Enqueue(e)
        <4>1. CASE Start
          BY <1>w, <4>1, <1>s
        <4>2. QED
          BY <3>1, <4>1 DEF vars, worker, Enqueue, ReplayEmpty, Submit, AppendRecord,
             AppendRejected, Reserve, WaitForSpace, SpaceSignalled, Send
      <3>2. QED
        BY <1>l, <2>4, <3>1 DEF LifeStep, WorkerMark
    <2>2. QED
      BY <2>1, <2>3, <2>5
  <1>e. ASSUME NEW p \in Procs, Enqueuing(p), x = eitem[p]
        PROVE  x \in Pipe'
    <2>1. CASE UNCHANGED enqueuer
      BY <1>e, <2>1 DEF Pipe, Enqueuing, enqueuer
    <2>2. ASSUME NEW e \in Events, Submit(e) \/ AppendRecord(e) \/ AppendRejected(e)
          PROVE  x \in Pipe'
      <3>1. p # e
        BY <1>e, <2>2 DEF Enqueuing, Submit, AppendRecord, AppendRejected, CanLock
      <3>2. epc'[p] = epc[p] /\ eitem'[p] = eitem[p]
        BY <1>t, <2>2, <3>1 DEF Submit, AppendRecord, AppendRejected
      <3>3. QED
        BY <1>e, <3>2 DEF Pipe, Enqueuing
    <2>3. ASSUME NEW e \in Events, Reserve(e) \/ WaitForSpace(e) \/ SpaceSignalled(e)
          PROVE  x \in Pipe'
      <3>1. eitem' = eitem /\ epc'[p] \in {"check", "space", "send"}
        BY <1>e, <1>t, <2>3 DEF Enqueuing, Reserve, WaitForSpace, SpaceSignalled
      <3>2. QED
        BY <1>e, <3>1 DEF Pipe, Enqueuing
    <2>4. ASSUME NEW e \in Events, Send(e)
          PROVE  x \in Pipe'
      <3>1. CASE p # e
        <4>1. epc'[p] = epc[p] /\ eitem'[p] = eitem[p]
          BY <1>t, <2>4, <3>1 DEF Send, Return
        <4>2. QED
          BY <1>e, <4>1 DEF Pipe, Enqueuing
      <3>2. CASE p = e
        <4>1. queue' = Append(queue, x) /\ x \in Item
          BY <1>e, <1>t, <2>4, <3>2 DEF Send
        <4>2. Len(queue) + 1 \in DOMAIN queue' /\ queue'[Len(queue) + 1] = x
          BY <1>t, <4>1
        <4>3. QED
          BY <4>2 DEF Pipe
      <3>3. QED
        BY <3>1, <3>2
    <2>5. UNCHANGED enqueuer
          \/ \E e \in Events : Submit(e) \/ AppendRecord(e) \/ AppendRejected(e) \/ Enqueue(e)
      BY <1>l DEF LifeStep, vars, Start, ReplayEmpty, WorkerReceive, WorkerRelease,
         WorkerDelivers, WorkerFails, WorkerSaveRemove, WorkerSaveRename, WorkerMarkRefused,
         WorkerMarkAdvance, WorkerMarkTruncate
    <2>6. QED
      BY <2>1, <2>2, <2>3, <2>4, <2>5 DEF Enqueue
  <1>1. QED
    BY <1>q, <1>w, <1>e DEF Pipe

\* The item in the worker's hands is the first on its way.
LEMMA WorkerFirst ==
    ASSUME IInv, ~posAhead, Working, NEW x \in Pipe
    PROVE  x = witem \/ witem.end <= x.start
  BY DEF Pipe, IInv, PipeInOrder, WorkerInOrder, EnqueueInOrder, Before

\* Once it is dropped it is on its way no more.
LEMMA WorkerDropped ==
    ASSUME IInv, ~posAhead, Working, WorkerFails \/ WorkerMark
    PROVE  witem \notin Pipe'
  <1>1. queue' = queue /\ epc' = epc /\ eitem' = eitem /\ ~Working'
    BY DEF Working, WorkerFails, WorkerMark, WorkerMarkRefused, WorkerMarkAdvance,
       WorkerMarkTruncate, WorkerIdle, channel, enqueuer
  <1>2. /\ witem.start \in Nat /\ witem.end \in Nat /\ witem.start < witem.end
    <2>1. witem \in Pipe
      BY DEF Pipe
    <2>2. QED
      BY <2>1, PipeInFile
  <1>3. ~(witem.end <= witem.start)
    BY <1>2
  <1>4. \A i \in DOMAIN queue : witem # queue[i]
    BY <1>3 DEF IInv, PipeInOrder, WorkerInOrder, Before
  <1>5. \A p \in Procs : Enqueuing(p) => witem # eitem[p]
    BY <1>3 DEF IInv, PipeInOrder, EnqueueInOrder, Before
  <1>6. QED
    BY <1>1, <1>4, <1>5 DEF Pipe, Enqueuing

\* Nothing else on its way stands for the event in the worker's hands.
LEMMA WorkerOnly ==
    ASSUME IInv, Began, Single, Carried, FirstLife, Working,
           NEW x \in Pipe, x.ev = witem.ev
    PROVE  x = witem
  <1>1. ~posAhead
    BY DEF Began
  <1>2. witem \in Pipe
    BY DEF Pipe
  <1>3. /\ witem.ev \in Events
        /\ file[x.start + 1] = Stored(witem.ev)[1]
        /\ file[witem.start + 1] = Stored(witem.ev)[1]
    BY <1>2 DEF Carried
  <1>4. /\ x.start \in Nat /\ x.end \in Nat /\ x.start < x.end /\ x.end <= Len(file)
        /\ witem.start \in Nat /\ witem.end \in Nat
        /\ witem.start < witem.end /\ witem.end <= Len(file)
    BY <1>1, <1>2, PipeInFile
  <1>5. file \in Seq(Cell) /\ Len(file) \in Nat /\ DOMAIN file = 1 .. Len(file)
    BY DEF IInv, TypeOK
  <1>6. x.start + 1 \in DOMAIN file /\ witem.start + 1 \in DOMAIN file
    BY <1>4, <1>5
  <1>7. x.start + 1 = witem.start + 1
    BY <1>3, <1>6 DEF Single
  <1>8. ~(witem.end <= x.start)
    BY <1>4, <1>7
  <1>9. QED
    BY <1>1, <1>8, WorkerFirst

\* The first byte of an item is its event's.
LEMMA CarriedByte ==
    ASSUME Carried, FirstLife, NEW x \in Pipe
    PROVE  x.ev \in Events /\ file[x.start + 1].ev = x.ev
  <1>1. x.ev \in Events /\ file[x.start + 1] = Stored(x.ev)[1]
    BY DEF Carried
  <1>2. 1 \in 1 .. StoredLen(x.ev)
    BY <1>1, StoredType
  <1>3. QED
    BY <1>1, <1>2, StoredCell

\* An event on its way has been appended.
LEMMA CarriedOld ==
    ASSUME IInv, Began, Fresh, Carried, FirstLife, NEW x \in Pipe
    PROVE  epc[x.ev] \notin {"new", "lock"}
  <1>1. x.ev \in Events /\ file[x.start + 1].ev = x.ev
    BY CarriedByte
  <1>2. x.start \in Nat /\ x.end \in Nat /\ x.start < x.end /\ x.end <= Len(file)
    BY PipeInFile DEF Began
  <1>3. x.start + 1 \in DOMAIN file
    <2>1. file \in Seq(Cell) /\ Len(file) \in Nat /\ DOMAIN file = 1 .. Len(file)
      BY DEF IInv, TypeOK
    <2>2. QED
      BY <1>2, <2>1
  <1>4. QED
    BY <1>1, <1>3 DEF Fresh

\* Every action leaves each item with the record of an event that is not
\* delivered before its turn.
LEMMA CarriedStep ==
    ASSUME IInv, IInv', Began, Began', Fresh, Single, Carried, [Next]_vars
    PROVE  Carried'
  <1> SUFFICES ASSUME FirstLife'
               PROVE  /\ \A e \in Events : epc'[e] \in {"new", "lock"} => e \notin delivered'
                      /\ \A x \in Pipe' :
                            /\ x.ev \in Events /\ file'[x.start + 1] = Stored(x.ev)[1]
                            /\ x.ev \in delivered' => wpc' = "mark" /\ x = witem'
    BY DEF Carried
  <1>l. FirstLife /\ LifeStep
    BY LifeFrame
  <1>p. ~posAhead /\ ~posAhead' /\ epc[Replay] = "idle"
    BY <1>l DEF Began
  <1>d. delivered' = delivered \/ WorkerDelivers
    BY <1>l DEF LifeStep, vars, outcome, Enqueue, Start, ReplayEmpty, WorkerReceive,
       WorkerRelease, WorkerFails, WorkerSaveRemove, WorkerSaveRename, WorkerMarkRefused,
       WorkerMarkAdvance, WorkerMarkTruncate, Submit, AppendRecord, AppendRejected,
       Reserve, WaitForSpace, SpaceSignalled, Send
  <1>v. ASSUME WorkerDelivers
        PROVE  /\ wpc = "process" /\ wpc' = "mark" /\ witem' = witem /\ Working
               /\ delivered' = delivered \cup {witem.ev} /\ witem \in Pipe
    BY <1>v DEF WorkerDelivers, Working, Pipe
  <1>1. ASSUME NEW e \in Events, epc'[e] \in {"new", "lock"}
        PROVE  e \notin delivered'
    <2>1. epc[e] \in {"new", "lock"}
      BY <1>1, ControlFrame DEF Enqueuing, Settled
    <2>2. e \notin delivered
      BY <1>l, <2>1 DEF Carried
    <2>3. CASE WorkerDelivers
      <3>1. epc[witem.ev] \notin {"new", "lock"}
        BY <1>l, <1>v, <2>3, CarriedOld
      <3>2. QED
        BY <1>v, <2>1, <2>2, <2>3, <3>1
    <2>4. QED
      BY <1>d, <2>2, <2>3
  <1>2. ASSUME NEW x \in Pipe, x \in Pipe'
        PROVE  /\ x.ev \in Events /\ file'[x.start + 1] = Stored(x.ev)[1]
               /\ x.ev \in delivered' => wpc' = "mark" /\ x = witem'
    <2>1. /\ x.ev \in Events /\ file[x.start + 1] = Stored(x.ev)[1]
          /\ x.ev \in delivered => wpc = "mark" /\ x = witem
      BY <1>l DEF Carried
    <2>2. file'[x.start + 1] = Stored(x.ev)[1]
      <3>1. x.start \in Nat /\ x.end \in Nat /\ x.start < x.end /\ x.end <= Len(file)
        BY <1>p, PipeInFile
      <3>2. x.end <= Len(file')
        BY <1>p, <1>2, PipeInFileNext
      <3>3. file' # <<>>
        <4>1. CASE file' = <<>>
          <5>1. Len(file') = 0
            BY <4>1
          <5>2. QED
            BY <3>1, <3>2, <5>1
        <4>2. QED
          BY <4>1
      <3>4. x.start + 1 \in 1 .. Len(file)
        <4>1. Len(file) \in Nat
          BY DEF IInv, TypeOK
        <4>2. QED
          BY <3>1, <4>1
      <3>5. QED
        BY <2>1, <3>3, <3>4, FileMoves
    <2>3. CASE WorkerDelivers
      <3>1. CASE x.ev = witem.ev
        <4>1. x = witem
          BY <1>l, <1>v, <2>3, <3>1, WorkerOnly
        <4>2. QED
          BY <1>v, <2>1, <2>2, <2>3, <4>1
      <3>2. CASE x.ev # witem.ev
        BY <1>v, <2>1, <2>2, <2>3, <3>2
      <3>3. QED
        BY <3>1, <3>2
    <2>4. CASE delivered' = delivered /\ x.ev \in delivered
      <3>1. wpc = "mark" /\ x = witem /\ Working
        BY <2>1, <2>4 DEF Working
      <3>2. CASE WorkerMark
        BY <1>p, <1>2, <3>1, <3>2, WorkerDropped
      <3>3. CASE UNCHANGED <<wpc, witem>>
        BY <2>1, <2>2, <3>1, <3>3
      <3>4. WorkerMark \/ UNCHANGED <<wpc, witem>>
        <4>1. ~(WorkerReceive \/ WorkerRelease \/ WorkerDelivers \/ WorkerFails
                \/ WorkerSaveRemove \/ WorkerSaveRename)
          BY <3>1 DEF WorkerReceive, WorkerRelease, WorkerDelivers, WorkerFails,
             WorkerSaveRemove, WorkerSaveRename
        <4>2. ~Start
          BY <3>1 DEF Start, IInv, PhaseOK
        <4>3. QED
          BY <1>l, <4>1, <4>2 DEF LifeStep, vars, worker, Enqueue, ReplayEmpty, WorkerMark,
             Submit, AppendRecord, AppendRejected, Reserve, WaitForSpace, SpaceSignalled, Send
      <3>5. QED
        BY <3>2, <3>3, <3>4
    <2>5. CASE delivered' = delivered /\ x.ev \notin delivered
      BY <2>1, <2>2, <2>5
    <2>6. QED
      BY <1>d, <2>3, <2>4, <2>5
  <1>3. ASSUME NEW e \in Events, AppendRecord(e), NEW x, x = eitem'[e]
        PROVE  /\ x.ev \in Events /\ file'[x.start + 1] = Stored(x.ev)[1]
               /\ x.ev \in delivered' => wpc' = "mark" /\ x = witem'
    <2>1. x.ev = e /\ x.start = Len(file)
      BY <1>3 DEF AppendRecord, IInv, TypeOK, Procs
    <2>2. e \notin delivered /\ delivered' = delivered
      BY <1>l, <1>3 DEF Carried, AppendRecord, CanLock, outcome
    <2>3. file'[Len(file) + 1] = Stored(e)[1]
      <3>1. Stored(e) \in Seq(Cell) /\ 1 \in 1 .. Len(Stored(e)) /\ file \in Seq(Cell)
        BY StoredType, SMTT(40) DEF IInv, TypeOK
      <3>2. QED
        BY <1>3, <3>1, GlueCells DEF AppendRecord
    <2>4. QED
      BY <2>1, <2>2, <2>3
  <1>4. ASSUME NEW x \in Pipe'
        PROVE  /\ x.ev \in Events /\ file'[x.start + 1] = Stored(x.ev)[1]
               /\ x.ev \in delivered' => wpc' = "mark" /\ x = witem'
    <2>1. ~ReplayLine
      BY <1>p DEF ReplayLine
    <2>2. x \in Pipe \/ \E e \in Events : AppendRecord(e) /\ x = eitem'[e]
      BY <1>4, <2>1, PipeFrame
    <2>3. QED
      BY <1>2, <1>3, <1>4, <2>2
  <1>5. QED
    BY <1>1, <1>4

\* While everything beyond the checkpoint is on its way, the worker's item
\* begins at the checkpoint.
LEMMA FlowingFirst ==
    ASSUME IInv, ~posAhead, Working, Flowing
    PROVE  witem.start = processedPos
  <1>1. witem \in Pipe
    BY DEF Pipe
  <1>2. /\ witem.start \in Nat /\ witem.end \in Nat /\ processedPos <= witem.start
        /\ witem.start < witem.end /\ witem.end <= Len(file)
    BY <1>1, PipeInFile
  <1>3. processedPos \in Nat /\ Len(file) \in Nat
    BY DEF IInv, TypeOK
  <1>4. processedPos + 1 \in processedPos + 1 .. Len(file)
    BY <1>2, <1>3
  <1>5. PICK x \in Pipe : x.start < processedPos + 1 /\ processedPos + 1 <= x.end
    BY <1>4 DEF Flowing
  <1>6. x.start \in Nat /\ processedPos <= x.start
    BY PipeInFile
  <1>7. x.start = processedPos
    BY <1>3, <1>5, <1>6
  <1>8. ~(witem.end <= x.start)
    BY <1>2, <1>3, <1>7
  <1>9. QED
    BY <1>7, <1>8, WorkerFirst

\* A record that will not be delivered stays at the checkpoint.
LEMMA StuckStep ==
    ASSUME IInv, Began, Carried, [Next]_vars, FirstLife', Stuck
    PROVE  Stuck'
  <1>l. FirstLife /\ LifeStep
    BY LifeFrame
  <1>p. ~posAhead
    BY <1>l DEF Began
  <1>t. /\ file \in Seq(Cell) /\ Len(file) \in Nat /\ DOMAIN file = 1 .. Len(file)
        /\ processedPos \in Nat
    BY DEF IInv, TypeOK
  <1> DEFINE e0 == file[processedPos + 1].ev
  <1>s. /\ processedPos < Len(file) /\ processedPos + 1 \in 1 .. Len(file)
        /\ e0 \notin delivered /\ epc[e0] \notin {"new", "lock"}
        /\ \A x \in Pipe : x.ev # e0
    BY <1>t DEF Stuck
  <1>e. e0 \in Events
    <2>1. file[processedPos + 1] \in Cell
      BY <1>s, <1>t
    <2>2. QED
      BY <2>1 DEF Cell
  <1>w. Working => witem \in Pipe
    BY DEF Pipe
  <1>1. ~(WorkerMarkAdvance \/ WorkerMarkTruncate)
    <2>1. ASSUME wpc = "mark", witem.start = processedPos
          PROVE  FALSE
      <3>1. witem \in Pipe
        BY <1>w, <2>1 DEF Working
      <3>2. file[witem.start + 1].ev = witem.ev
        BY <1>l, <3>1, CarriedByte
      <3>3. QED
        BY <1>s, <2>1, <3>1, <3>2
    <2>2. QED
      BY <2>1 DEF WorkerMarkAdvance, WorkerMarkTruncate, Contiguous
  <1>2. ~Start
    BY <1>l, <1>s, <1>t DEF Start, Began
  <1>3. processedPos' = processedPos
    BY <1>l, <1>1, <1>2 DEF LifeStep, vars, Enqueue, ReplayEmpty, WorkerReceive, WorkerRelease,
       WorkerDelivers, WorkerFails, WorkerSaveRemove, WorkerSaveRename, WorkerMarkRefused,
       Submit, AppendRecord, AppendRejected, Reserve, WaitForSpace, SpaceSignalled, Send
  <1>4. /\ Len(file) <= Len(file') /\ Len(file') \in Nat
        /\ file'[processedPos + 1] = file[processedPos + 1]
    <2>1. CASE file' = file
      BY <1>t, <2>1
    <2>2. ASSUME NEW e \in Events, AppendRecord(e)
          PROVE  /\ Len(file) <= Len(file') /\ Len(file') \in Nat
                 /\ file'[processedPos + 1] = file[processedPos + 1]
      <3>1. Stored(e) \in Seq(Cell) /\ Len(Stored(e)) \in Nat
        BY StoredType
      <3>2. /\ Len(file') = Len(file) + Len(Stored(e))
            /\ \A j \in 1 .. Len(file) : file'[j] = file[j]
        BY <1>t, <2>2, <3>1, GlueCells DEF AppendRecord
      <3>3. QED
        BY <1>s, <1>t, <3>1, <3>2
    <2>3. file' = file \/ \E e \in Events : AppendRecord(e)
      BY <1>l, <1>1 DEF LifeStep, vars, durable, Enqueue, Start, ReplayEmpty, WorkerReceive,
         WorkerRelease, WorkerDelivers, WorkerFails, WorkerSaveRemove, WorkerSaveRename,
         WorkerMarkRefused, Submit, AppendRejected, Reserve, WaitForSpace, SpaceSignalled, Send
    <2>4. QED
      BY <2>1, <2>2, <2>3
  <1>5. e0 \notin delivered'
    <2>1. CASE WorkerDelivers
      <3>1. witem \in Pipe /\ delivered' = delivered \cup {witem.ev}
        BY <1>w, <2>1 DEF WorkerDelivers, Working
      <3>2. QED
        BY <1>s, <3>1
    <2>2. CASE ~WorkerDelivers
      <3>1. delivered' = delivered
        BY <1>l, <2>2 DEF LifeStep, vars, outcome, Enqueue, Start, ReplayEmpty, WorkerReceive,
           WorkerRelease, WorkerFails, WorkerSaveRemove, WorkerSaveRename, WorkerMarkRefused,
           WorkerMarkAdvance, WorkerMarkTruncate, Submit, AppendRecord, AppendRejected,
           Reserve, WaitForSpace, SpaceSignalled, Send
      <3>2. QED
        BY <1>s, <3>1
    <2>3. QED
      BY <2>1, <2>2
  <1>6. epc'[e0] \notin {"new", "lock"}
    <2> HIDE DEF e0
    <2>1. QED
      BY <1>s, <1>e, ControlFrame
  <1>7. ASSUME NEW x \in Pipe'
        PROVE  x.ev # e0
    <2>1. CASE x \in Pipe
      BY <1>s, <2>1
    <2>2. ASSUME NEW e \in Events, AppendRecord(e), x = eitem'[e]
          PROVE  x.ev # e0
      <3>1. x.ev = e /\ epc[e] = "lock"
        BY <2>2 DEF AppendRecord, CanLock, IInv, TypeOK, Procs
      <3>2. QED
        BY <1>s, <3>1
    <2>3. ~ReplayLine
      BY <1>l DEF Began, ReplayLine
    <2>4. QED
      BY <1>7, <2>1, <2>2, <2>3, PipeFrame
  <1>8. processedPos' < Len(file')
    BY <1>s, <1>t, <1>3, <1>4
  <1>9. file'[processedPos' + 1].ev = e0
    BY <1>3, <1>4
  <1> HIDE DEF e0
  <1>10. QED
    BY <1>5, <1>6, <1>7, <1>8, <1>9 DEF Stuck

\* What is on its way stays so, or the worker delivers it, or it stops there.
LEMMA FlowingStep ==
    ASSUME IInv, Began, Fresh, Single, Carried, [Next]_vars, FirstLife', Flowing
    PROVE  Stuck' \/ Flowing'
  <1>l. FirstLife /\ LifeStep
    BY LifeFrame
  <1>p. ~posAhead
    BY <1>l DEF Began
  <1>t. /\ file \in Seq(Cell) /\ Len(file) \in Nat /\ DOMAIN file = 1 .. Len(file)
        /\ processedPos \in Nat /\ processedPos <= Len(file)
    BY <1>p DEF IInv, TypeOK, PipeInOrder
  <1>w. ASSUME Working
        PROVE  /\ witem \in Pipe /\ witem.start \in Nat /\ witem.end \in Nat
               /\ witem.start < witem.end /\ witem.end <= Len(file)
               /\ witem.start = processedPos
    <2>1. witem \in Pipe
      BY <1>w DEF Pipe
    <2>2. QED
      BY <1>p, <1>w, <2>1, PipeInFile, FlowingFirst
  <1>k. ASSUME NEW x \in Pipe, ~(x = witem /\ (WorkerFails \/ WorkerMark))
        PROVE  x \in Pipe'
    BY <1>k, PipeLife
  <1>1. CASE Start
    <2>1. file' = <<>> /\ processedPos' = 0
      BY <1>l, <1>1 DEF Start, Began, durable
    <2>2. Len(file') = 0 /\ processedPos' + 1 .. Len(file') = {}
      BY <2>1
    <2>3. QED
      BY <2>1, <2>2 DEF Flowing
  <1>2. CASE WorkerMarkTruncate
    <2>1. file' = <<>> /\ processedPos' = 0
      BY <1>2 DEF WorkerMarkTruncate
    <2>2. Len(file') = 0 /\ processedPos' + 1 .. Len(file') = {}
      BY <2>1
    <2>3. QED
      BY <2>1, <2>2 DEF Flowing
  <1>3. CASE WorkerMarkRefused
    <2>1. Working /\ ~Contiguous
      BY <1>3 DEF WorkerMarkRefused, Working
    <2>2. QED
      BY <1>w, <2>1 DEF Contiguous
  <1>4. CASE WorkerMarkAdvance
    <2>1. Working /\ file' = file /\ processedPos' = witem.end /\ witem.end < Len(file)
      BY <1>4 DEF WorkerMarkAdvance, Working, durable
    <2>2. ASSUME NEW j \in processedPos' + 1 .. Len(file')
          PROVE  \E x \in Pipe' : x.start < j /\ j <= x.end
      <3>1. j \in processedPos + 1 .. Len(file) /\ j \in Nat /\ ~(j <= witem.end)
        BY <1>t, <1>w, <2>1
      <3>2. PICK x \in Pipe : x.start < j /\ j <= x.end
        BY <3>1 DEF Flowing
      <3>3. x # witem
        BY <3>1, <3>2
      <3>4. QED
        BY <1>k, <3>2, <3>3
    <2>3. QED
      BY <2>1, <2>2 DEF Flowing
  <1>5. CASE WorkerFails
    <2>1. /\ Working /\ wpc = "process" /\ file' = file /\ processedPos' = processedPos
          /\ delivered' = delivered /\ epc' = epc
      BY <1>5 DEF WorkerFails, Working, durable, enqueuer
    <2>2. file[processedPos + 1].ev = witem.ev /\ witem.ev \in Events
      BY <1>l, <1>w, <2>1, CarriedByte
    <2>3. witem.ev \notin delivered
      BY <1>l, <1>w, <2>1 DEF Carried
    <2>4. epc[witem.ev] \notin {"new", "lock"}
      BY <1>l, <1>w, <2>1, CarriedOld
    <2>5. ASSUME NEW x \in Pipe'
          PROVE  x.ev # witem.ev
      <3>1. ~ReplayLine /\ \A e \in Events : ~AppendRecord(e)
        BY <1>5 DEF WorkerFails, WorkerIdle, ReplayLine, AppendRecord, worker
      <3>2. x \in Pipe
        BY <2>5, <3>1, PipeFrame
      <3>3. CASE x.ev = witem.ev
        <4>1. x = witem
          BY <1>l, <2>1, <3>2, <3>3, WorkerOnly
        <4>2. QED
          BY <1>p, <1>5, <2>1, <2>5, <4>1, WorkerDropped
      <3>4. QED
        BY <3>3
    <2>6. processedPos < Len(file)
      BY <1>t, <1>w, <2>1
    <2>7. QED
      BY <2>1, <2>2, <2>3, <2>4, <2>5, <2>6 DEF Stuck
  <1>6. ASSUME NEW e \in Events, AppendRecord(e)
        PROVE  Flowing'
    <2>1. Stored(e) \in Seq(Cell) /\ Len(Stored(e)) = StoredLen(e)
          /\ StoredLen(e) \in Nat /\ StoredLen(e) > 1
      BY StoredType
    <2>2. Len(file') = Len(file) + StoredLen(e) /\ processedPos' = processedPos
      BY <1>6, <1>t, <2>1, GlueCells DEF AppendRecord
    <2>3. processedPos' < Len(file')
      BY <1>t, <2>1, <2>2
    <2>4. eitem'[e].start = Len(file) /\ eitem'[e].end = Len(file) + StoredLen(e)
          /\ eitem'[e] \in Pipe'
      <3>1. e \in Procs /\ eitem \in [Procs -> Item] /\ DOMAIN epc = Procs
        BY DEF Procs, IInv, TypeOK
      <3>2. eitem'[e] = [ev |-> e, start |-> Len(file), end |-> Len(file) + StoredLen(e)]
            /\ epc'[e] = "check"
        BY <1>6, <3>1 DEF AppendRecord, IInv, TypeOK
      <3>3. QED
        BY <3>1, <3>2 DEF Pipe, Enqueuing
    <2>5. ASSUME NEW j \in processedPos' + 1 .. Len(file')
          PROVE  \E x \in Pipe' : x.start < j /\ j <= x.end
      <3>1. j \in Int /\ j <= Len(file) + StoredLen(e) /\ processedPos + 1 <= j
        BY <1>t, <2>1, <2>2
      <3>2. CASE j <= Len(file)
        <4>1. PICK x \in Pipe : x.start < j /\ j <= x.end
          BY <1>t, <3>1, <3>2 DEF Flowing
        <4>2. ~(WorkerFails \/ WorkerMark)
          BY <1>6 DEF AppendRecord, WorkerFails, WorkerMark, WorkerMarkRefused,
             WorkerMarkAdvance, WorkerMarkTruncate, WorkerIdle, worker
        <4>3. QED
          BY <1>k, <4>1, <4>2
      <3>3. CASE ~(j <= Len(file))
        <4>1. Len(file) < j
          BY <1>t, <3>1, <3>3
        <4>2. QED
          BY <2>4, <3>1, <4>1
      <3>4. QED
        BY <3>2, <3>3
    <2>6. QED
      BY <2>3, <2>5 DEF Flowing
  <1>7. CASE ~(Start \/ WorkerMark \/ WorkerFails \/ \E e \in Events : AppendRecord(e))
    <2>1. file' = file /\ processedPos' = processedPos
      BY <1>l, <1>7 DEF LifeStep, vars, durable, Enqueue, ReplayEmpty, WorkerReceive,
         WorkerRelease, WorkerDelivers, WorkerSaveRemove, WorkerSaveRename, WorkerMark,
         Submit, AppendRejected, Reserve, WaitForSpace, SpaceSignalled, Send
    <2>2. \A x \in Pipe : x \in Pipe'
      BY <1>k, <1>7
    <2>3. QED
      BY <2>1, <2>2 DEF Flowing
  <1>8. QED
    BY <1>1, <1>2, <1>3, <1>4, <1>5, <1>6, <1>7 DEF WorkerMark

-----------------------------------------------------------------------------
\* Nothing has happened yet.
LEMMA InitHeld == Init => HInv
  <1> SUFFICES ASSUME Init
               PROVE  HInv
    OBVIOUS
  <1>1. Pipe = {} /\ epc[Replay] = "idle"
    <2>1. \A p \in Procs : epc[p] \in {"idle", "new"}
      BY DEF Init
    <2>2. queue = <<>> /\ wpc = "none" /\ epc[Replay] = "idle"
      BY DEF Init, Procs
    <2>3. QED
      BY <2>1, <2>2 DEF Pipe, Working, Enqueuing
  <1>2. Began
    BY <1>1 DEF Init, Began, DurablePos
  <1>3. Single
    BY DEF Init, Single
  <1>4. Carried
    BY <1>1 DEF Init, Carried
  <1>5. Moving
    <2>1. file = <<>> /\ processedPos = 0 /\ Len(file) = 0
      BY DEF Init
    <2>2. processedPos + 1 .. Len(file) = {}
      BY <2>1
    <2>3. QED
      BY <2>1, <2>2 DEF Moving, Flowing
  <1>6. QED
    BY <1>2, <1>3, <1>4, <1>5 DEF HInv

\* Every action keeps the invariant.
LEMMA NextHeld == IInv /\ IInv' /\ CInv /\ HInv /\ [Next]_vars => HInv'
  <1> SUFFICES ASSUME IInv, IInv', CInv, HInv, [Next]_vars
               PROVE  HInv'
    OBVIOUS
  <1>1. Fresh
    BY DEF CInv
  <1>2. Began /\ Single /\ Carried /\ Moving
    BY DEF HInv
  <1>3. Began' /\ Single'
    BY <1>1, <1>2, BeganStep, SingleStep
  <1>4. Carried'
    BY <1>1, <1>2, <1>3, CarriedStep
  <1>5. Moving'
    <2> SUFFICES ASSUME FirstLife'
                 PROVE  Stuck' \/ Flowing'
      BY DEF Moving
    <2>1. FirstLife
      BY <1>2, LifeFrame
    <2>2. Stuck \/ Flowing
      BY <1>2, <2>1 DEF Moving
    <2>3. QED
      BY <1>1, <1>2, <2>2, StuckStep, FlowingStep
  <1>6. QED
    BY <1>3, <1>4, <1>5 DEF HInv

\* When nothing is on its way, nothing flows.
LEMMA QuietHolds ==
    ASSUME IInv, HInv
    PROVE  HeldOnlyByUndelivered
  <1> SUFFICES ASSUME FirstLife, Quiet
               PROVE  \/ file = <<>> /\ processedPos = 0
                      \/ processedPos < Len(file) /\ file[processedPos + 1].ev \notin delivered
    BY DEF HeldOnlyByUndelivered, FirstLife
  <1>1. ~posAhead /\ epc[Replay] = "idle"
    BY DEF HInv, Began
  <1>2. Pipe = {}
    <2>1. queue = <<>> /\ wpc = "recv" /\ spoolMu = Free
      BY DEF Quiet
    <2>2. \A e \in Events : ~Enqueuing(e)
      BY <2>1, EventsAssumption DEF IInv, LockDiscipline, Free
    <2>3. \A p \in Procs : ~Enqueuing(p)
      BY <1>1, <2>2 DEF Procs, Enqueuing
    <2>4. QED
      BY <2>1, <2>3 DEF Pipe, Working
  <1>3. /\ file \in Seq(Cell) /\ Len(file) \in Nat /\ processedPos \in Nat
        /\ processedPos <= Len(file)
    BY <1>1 DEF IInv, TypeOK, PipeInOrder
  <1>4. CASE Stuck
    BY <1>4 DEF Stuck
  <1>5. CASE Flowing
    <2>1. CASE file = <<>>
      BY <1>3, <2>1
    <2>2. CASE processedPos < Len(file)
      <3>1. processedPos + 1 \in processedPos + 1 .. Len(file)
        BY <1>3, <2>2
      <3>2. QED
        BY <1>2, <1>5, <3>1 DEF Flowing
    <2>3. QED
      BY <1>5, <2>1, <2>2 DEF Flowing
  <1>6. QED
    BY <1>4, <1>5 DEF HInv, Moving

\* In the life of a process that started on an empty spool, a spool with
\* nothing on its way is empty, or its first record was never delivered: what
\* markSpoolDelivered leaves in the file is held back by a failed delivery.
THEOREM HeldBehind == Spec => []HeldOnlyByUndelivered
  <1>1. Init => HInv
    BY InitHeld
  <1>2. IInv /\ IInv' /\ CInv /\ HInv /\ [Next]_vars => HInv'
    BY NextHeld
  <1>3. IInv /\ HInv => HeldOnlyByUndelivered
    BY QuietHolds
  <1>4. QED
    BY <1>1, <1>2, <1>3, Inductive, CustodyInvariant, PTL DEF Spec

=============================================================================
