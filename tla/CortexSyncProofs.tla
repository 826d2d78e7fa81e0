-------------------------- MODULE CortexSyncProofs --------------------------
(***************************************************************************)
(* No cursor of the sync passes a stored event that was not processed, the *)
(* named exceptions apart, for any events, worlds, limits and failures.    *)
(***************************************************************************)
EXTENDS CortexSync, FiniteSetTheorems, TLAPS

-----------------------------------------------------------------------------
(* The invariant.                                                          *)

\* What the proofs ask of the constants; the timestamps of events are not zero.
ConstantsOK ==
    /\ MaxEvent \in Nat
    /\ \A w \in Worlds : w.time \in [Events -> Nat \ {0}]
    /\ StreamSize \in Nat /\ HistoryLimit \in Nat /\ BufferSize \in Nat

Working == pc \in {"nodes", "link", "save"}
OfTail == from \in {"tail", "last"}

\* What the parts of a session hold while it is not open, or broken.
Session ==
    /\ tail \in {"off", "subscribed"} => history = <<>> /\ inbox = <<>> /\ batch = {}
    /\ tail \in {"off", "broken"} => stream = <<>>
    /\ tail = "broken" => history = <<>>
    /\ pc \in {"load", "poll", "backoff", "halted"} \/ (Working /\ ~OfTail) => tail = "off"

\* An event that is anywhere was stored or broadcast.
Heard ==
    processed \cup work \cup batch \cup Range(inbox) \cup Range(history) \cup Range(stream)
        \subseteq stored \cup sent

\* A cursor stands at an event that was processed, or at the beginning, and
\* passes nothing that was not.
At(c) == c = Zero \/ \E e \in processed : c = CursorOf(e)
Passes(c) == Reached(c) \subseteq processed \cup excused
Sound(c) == At(c) /\ Passes(c)

Cursors3 ==
    /\ Sound(cursor)
    /\ main \in Cursors => Sound(main)
    /\ backup \in Cursors => Sound(backup)

\* The cursor in memory is the one in the file.
Saved ==
    pc # "load" /\ main # Bad =>
        /\ main \in Cursors => cursor = main
        /\ main = Absent => cursor = Zero

\* The batch in flushBatch leaves nothing behind that comes earlier.
InHand ==
    Working =>
        /\ \A e \in work : After(e, cursor)
        /\ OfTail => \A e \in batch : After(e, cursor) => e \in work
        /\ main # Bad => \A e \in stored \ work :
              After(e, cursor) /\ Overtaken(e, work) => e \in processed \cup excused
        /\ pc = "save" => work \subseteq processed

\* Stored events behind the cursor and before x that runTailSession does not have.
Known == processed \cup excused \cup batch
Missing(x) == {e \in stored \ Known : After(e, cursor) /\ Before(e, x)}
Lead(s, i) == {s[k] : k \in 1 .. i - 1}

\* What is read from the tail comes in the order of cursors, what comes too late apart.
Ordered ==
    main # Bad =>
        /\ \A x \in batch : Missing(x) = {}
        /\ \A i \in DOMAIN inbox : Missing(inbox[i]) \subseteq Lead(inbox, i)
        /\ \A i \in DOMAIN history :
              Missing(history[i]) \subseteq Range(inbox) \cup Lead(history, i)
        /\ tail = "on" => \A i \in DOMAIN stream :
              Missing(stream[i]) \subseteq Range(inbox) \cup Range(history) \cup Lead(stream, i)

\* An open tail loses no event that was broadcast.
Tailed ==
    tail = "on" /\ main # Bad =>
        \A e \in sent \ Known : After(e, cursor) =>
            e \in Range(inbox) \cup Range(history) \cup Range(stream)

SInv == TypeOK /\ Session /\ Heard /\ Cursors3 /\ Saved /\ InHand /\ Ordered /\ Tailed

-----------------------------------------------------------------------------
(* The order of events.                                                    *)

\* Timestamp and id order the events, and a cursor stands between them.
LEMMA EventOrder ==
    ASSUME ConstantsOK, world \in Worlds, NEW e \in Events, NEW d \in Events
    PROVE  /\ CursorOf(e) \in Cursors /\ After(e, Zero)
           /\ ~Before(e, e)
           /\ Before(e, d) => ~Before(d, e)
           /\ e = d \/ Before(e, d) \/ Before(d, e)
           /\ After(e, CursorOf(d)) <=> Before(d, e)
           /\ \A c \in Cursors :
                 /\ After(d, c) /\ ~After(e, c) => Before(e, d)
                 /\ After(d, c) /\ Before(d, e) => After(e, c)
  <1>1. /\ world.time[e] \in Nat \ {0} /\ world.time[d] \in Nat \ {0}
        /\ e \in Nat \ {0} /\ d \in Nat \ {0}
    BY DEF ConstantsOK, Events
  <1>2. /\ CursorOf(e).ts = world.time[e] /\ CursorOf(e).id = e
        /\ CursorOf(d).ts = world.time[d] /\ CursorOf(d).id = d
        /\ Zero.ts = 0 /\ Zero.id = 0
    BY DEF CursorOf, Zero
  <1>3. CursorOf(e) \in Cursors
    BY <1>1 DEF CursorOf, Cursors
  <1>4. \A c \in Cursors : c.ts \in Nat /\ c.id \in Nat
    BY DEF Cursors, Events, ConstantsOK
  <1>5. QED
    BY <1>1, <1>2, <1>3, <1>4 DEF After, Before, cursorLess

\* The world does not change, nor does the order.
LEMMA WorldStays ==
    ASSUME [Next]_vars
    PROVE  /\ world' = world
           /\ \A e, d : /\ Before(e, d)' <=> Before(e, d)
                        /\ After(e, d)' <=> After(e, d)
                        /\ CursorOf(e)' = CursorOf(e)
  <1>1. world' = world
    BY ZenonT(60) DEF Next, vars, external, Store, Broadcast, Sync, Reader, History, Load, Poll, Nodes,
       Link, Save, Backoff, Receive, Break, Take, Tick, TailEnds, Crash, Corrupt
  <1>2. QED
    BY <1>1 DEF Before, After, CursorOf

\* What the cursor has not reached yet, the step apart that moves the cursor.
LEMMA AfterStays ==
    ASSUME [Next]_vars, cursor' = cursor
    PROVE  \A e : After(e, cursor)' <=> After(e, cursor)
  BY WorldStays

\* The last event of a batch.
LEMMA LatestFacts ==
    ASSUME ConstantsOK, world \in Worlds, NEW S \in SUBSET Events, NEW c \in Latest(S)
    PROVE  \E e \in S : c = CursorOf(e) /\ \A d \in S : d = e \/ Before(d, e)
  <1>1. PICK e \in S : c = CursorOf(e) /\ ~Overtaken(e, S)
    BY DEF Latest
  <1>2. QED
    BY <1>1, EventOrder DEF Overtaken

\* The set of a sequence.
LEMMA RangeFacts ==
    ASSUME NEW s \in Seq(Events)
    PROVE  /\ \A i \in DOMAIN s : s[i] \in Range(s) /\ s[i] \in Events
           /\ \A x \in Range(s) : \E i \in DOMAIN s : x = s[i]
           /\ Range(s) \subseteq Events
           /\ DOMAIN s = 1 .. Len(s) /\ Len(s) \in Nat
           /\ Range(<<>>) = {}
  BY DEF Range

\* An event appended.
LEMMA AppendFacts ==
    ASSUME NEW s \in Seq(Events), NEW e \in Events
    PROVE  /\ Append(s, e) \in Seq(Events) /\ Len(Append(s, e)) = Len(s) + 1
           /\ \A i \in 1 .. Len(s) : Append(s, e)[i] = s[i]
           /\ Append(s, e)[Len(s) + 1] = e
           /\ Range(Append(s, e)) = Range(s) \cup {e}
  <1>1. /\ Append(s, e) \in Seq(Events) /\ Len(Append(s, e)) = Len(s) + 1
        /\ \A i \in 1 .. Len(s) : Append(s, e)[i] = s[i]
        /\ Append(s, e)[Len(s) + 1] = e
    OBVIOUS
  <1>2. DOMAIN Append(s, e) = 1 .. Len(s) + 1 /\ DOMAIN s = 1 .. Len(s) /\ Len(s) \in Nat
    BY <1>1
  <1>3. Range(Append(s, e)) = Range(s) \cup {e}
    <2> DEFINE t == Append(s, e)
    <2>1. ASSUME NEW x \in Range(t)
          PROVE  x \in Range(s) \cup {e}
      <3>1. PICK i \in 1 .. Len(s) + 1 : x = t[i]
        BY <1>2, <2>1 DEF Range
      <3>2. i \in 1 .. Len(s) \/ i = Len(s) + 1
        BY <1>2
      <3>3. QED
        BY <1>1, <1>2, <3>1, <3>2 DEF Range
    <2>2. ASSUME NEW x \in Range(s) \cup {e}
          PROVE  x \in Range(t)
      <3>1. CASE x = e
        <4>1. Len(s) + 1 \in DOMAIN t /\ t[Len(s) + 1] = e
          BY <1>1, <1>2
        <4>2. QED
          BY <3>1, <4>1 DEF Range
      <3>2. CASE x \in Range(s)
        <4>1. PICK i \in 1 .. Len(s) : x = s[i]
          BY <1>2, <3>2 DEF Range
        <4>2. i \in DOMAIN t /\ t[i] = x
          BY <1>1, <1>2, <4>1
        <4>3. QED
          BY <4>2 DEF Range
      <3>3. QED
        BY <2>2, <3>1, <3>2
    <2>3. QED
      BY <2>1, <2>2
  <1>4. QED
    BY <1>1, <1>3

\* An event taken off.
LEMMA TakeFacts ==
    ASSUME NEW s \in Seq(Events), s # <<>>
    PROVE  /\ Head(s) \in Events /\ Head(s) = s[1] /\ 1 \in DOMAIN s
           /\ Tail(s) \in Seq(Events) /\ Len(Tail(s)) = Len(s) - 1
           /\ \A i \in DOMAIN Tail(s) : Tail(s)[i] = s[i + 1] /\ i + 1 \in DOMAIN s
           /\ Range(s) = {Head(s)} \cup Range(Tail(s))
  <1>1. /\ Head(s) \in Events /\ Head(s) = s[1] /\ 1 \in DOMAIN s
        /\ Tail(s) \in Seq(Events) /\ Len(Tail(s)) = Len(s) - 1
        /\ \A i \in DOMAIN Tail(s) : Tail(s)[i] = s[i + 1] /\ i + 1 \in DOMAIN s
    OBVIOUS
  <1>2. ASSUME NEW i \in DOMAIN s, i # 1
        PROVE  i - 1 \in DOMAIN Tail(s) /\ Tail(s)[i - 1] = s[i]
    BY <1>1, <1>2
  <1>3. ASSUME NEW x \in Range(s)
        PROVE  x \in {Head(s)} \cup Range(Tail(s))
    <2>1. PICK i \in DOMAIN s : x = s[i]
      BY <1>3 DEF Range
    <2>2. CASE i = 1
      BY <1>1, <2>1, <2>2
    <2>3. CASE i # 1
      BY <1>2, <2>1, <2>3 DEF Range
    <2>4. QED
      BY <2>2, <2>3
  <1>4. ASSUME NEW x \in {Head(s)} \cup Range(Tail(s))
        PROVE  x \in Range(s)
    <2>1. CASE x = Head(s)
      BY <1>1, <2>1 DEF Range
    <2>2. CASE x \in Range(Tail(s))
      <3>1. PICK i \in DOMAIN Tail(s) : x = Tail(s)[i]
        BY <2>2 DEF Range
      <3>2. QED
        BY <1>1, <3>1 DEF Range
    <2>3. QED
      BY <1>4, <2>1, <2>2
  <1>5. Range(s) = {Head(s)} \cup Range(Tail(s))
    BY <1>3, <1>4
  <1>6. QED
    BY <1>1, <1>5

\* The first row of a tail that has rows is the history's, or the stream's.
LEMMA FirstRow ==
    ASSUME history \in Seq(Events), stream \in Seq(Events), history \o stream # <<>>
    PROVE  /\ history # <<>> => Head(history \o stream) = Head(history)
           /\ history = <<>> => stream # <<>> /\ Head(history \o stream) = Head(stream)
  OBVIOUS

\* The rows of a query are a sequence of events, in the order of cursors.
LEMMA SortedSeq ==
    ASSUME ConstantsOK, NEW S \in SUBSET Events, NEW s \in Sorted(S)
    PROVE  /\ s \in Seq(Events) /\ Range(s) = S
           /\ \A i, j \in DOMAIN s : i < j => Before(s[i], s[j])
  <1>1. Cardinality(S) \in Nat
    <2>1. IsFiniteSet(Events)
      BY FS_Interval DEF Events, ConstantsOK
    <2>2. IsFiniteSet(S)
      BY <2>1, FS_Subset
    <2>3. QED
      BY <2>2, FS_CardinalityType
  <1>2. s \in [1 .. Cardinality(S) -> S]
    BY DEF Sorted
  <1>3. s \in Seq(Events)
    BY <1>1, <1>2
  <1>4. QED
    BY <1>3 DEF Sorted

-----------------------------------------------------------------------------
(* Types.                                                                  *)

\* The type invariant, conjunct by conjunct.
Typed ==
    /\ world \in Worlds
    /\ stored \subseteq Events /\ sent \subseteq Events /\ batch \subseteq Events
    /\ work \subseteq Events /\ nodes \subseteq Events
    /\ processed \subseteq Events /\ excused \subseteq Events
    /\ history \in Seq(Events) /\ stream \in Seq(Events) /\ inbox \in Seq(Events)
    /\ Len(stream) <= StreamSize /\ Len(history) <= HistoryLimit /\ Len(inbox) <= BufferSize
    /\ tail \in {"off", "subscribed", "on", "broken"}
    /\ pc \in {"load", "poll", "nodes", "link", "save", "tail", "backoff", "halted"}
    /\ from \in {"poll", "more", "tail", "last"}
    /\ cursor \in Cursors /\ recovered \in BOOLEAN
    /\ main \in Cursors \cup {Absent, Bad} /\ backup \in Cursors \cup {Absent}

\* It is the same.
LEMMA TypedTypeOK == (TypeOK <=> Typed) /\ (TypeOK' <=> Typed')
  BY DEF TypeOK, Typed

\* No cursor is a missing or a damaged file.
LEMMA NoCursor == Absent \notin Cursors /\ Bad \notin Cursors /\ Zero \in Cursors /\ Absent # Bad
  BY DEF Absent, Bad, Cursors, Zero

\* The end of a session.
LEMMA EndTyped ==
    ASSUME ConstantsOK, EndTail
    PROVE  /\ history' = <<>> /\ stream' = <<>> /\ inbox' = <<>> /\ batch' = {} /\ tail' = "off"
           /\ history' \in Seq(Events) /\ stream' \in Seq(Events) /\ inbox' \in Seq(Events)
           /\ Len(history') <= HistoryLimit /\ Len(stream') <= StreamSize
           /\ Len(inbox') <= BufferSize
  BY DEF EndTail, ConstantsOK

\* What Flush does.
LEMMA FlushTyped ==
    ASSUME ConstantsOK, Typed, NEW S \in SUBSET Events, NEW who \in {"tail", "last"},
           Flush(S, who)
    PROVE  /\ batch' \subseteq Events /\ work' \subseteq Events /\ from' = who
           /\ history' \in Seq(Events) /\ stream' \in Seq(Events) /\ inbox' \in Seq(Events)
           /\ Len(history') <= HistoryLimit /\ Len(stream') <= StreamSize
           /\ Len(inbox') <= BufferSize
           /\ tail' \in {"off", "subscribed", "on", "broken"}
           /\ pc' \in {"nodes", "backoff", "tail"}
  <1>1. CASE EndTail /\ pc' = "backoff" /\ work' = {} /\ from' = who
    BY <1>1, EndTyped
  <1>2. CASE UNCHANGED <<history, stream, tail, inbox>>
    <2>1. /\ history' \in Seq(Events) /\ stream' \in Seq(Events) /\ inbox' \in Seq(Events)
          /\ Len(history') <= HistoryLimit /\ Len(stream') <= StreamSize
          /\ Len(inbox') <= BufferSize
          /\ tail' \in {"off", "subscribed", "on", "broken"}
      BY <1>2 DEF Typed
    <2>2. /\ batch' \subseteq Events /\ work' \subseteq Events /\ from' = who
          /\ pc' \in {"nodes", "backoff", "tail"}
      BY DEF Flush, EndTail
    <2>3. QED
      BY <2>1, <2>2
  <1>3. QED
    BY <1>1, <1>2 DEF Flush

\* Every action keeps the types.
LEMMA TypeStep ==
    ASSUME ConstantsOK, TypeOK, [Next]_vars
    PROVE  TypeOK'
  <1> USE DEF external, session, files
  <1> SUFFICES Typed'
    BY TypedTypeOK
  <1>t. Typed
    BY TypedTypeOK
  <1>c. StreamSize \in Nat /\ HistoryLimit \in Nat /\ BufferSize \in Nat
    BY DEF ConstantsOK
  <1>1. ASSUME NEW e \in Events, Store(e)
        PROVE  Typed'
    BY <1>t, <1>1 DEF Store, Typed
  <1>2. ASSUME NEW e \in Events, Broadcast(e)
        PROVE  Typed'
    <2>1. stream' \in Seq(Events) /\ Len(stream') <= StreamSize
      <3>1. CASE stream' = stream
        BY <1>t, <3>1 DEF Typed
      <3>2. CASE stream' = Append(stream, e) /\ ~(Len(stream) >= StreamSize)
        <4>1. stream' \in Seq(Events) /\ Len(stream') = Len(stream) + 1 /\ Len(stream) \in Nat
          BY <1>t, <3>2, AppendFacts DEF Typed
        <4>2. QED
          BY <1>c, <3>2, <4>1
      <3>3. QED
        BY <1>2, <3>1, <3>2 DEF Broadcast
    <2>2. excused' \subseteq Events /\ sent' \subseteq Events
      BY <1>t, <1>2 DEF Broadcast, Typed
    <2>3. QED
      BY <1>t, <1>2, <2>1, <2>2 DEF Broadcast, Typed
  <1>3. CASE History
    <2>1. PICK rows \in Sorted({e \in stored : Wanted(e)}) :
             LET n == IF Len(rows) < HistoryLimit THEN Len(rows) ELSE HistoryLimit
             IN  /\ history' = SubSeq(rows, 1, n)
                 /\ excused' = excused \cup (Range(rows) \ Range(history'))
                                       \cup ((sent \ stored) \ Range(stream))
      BY <1>3 DEF History
    <2>2. rows \in Seq(Events) /\ Len(rows) \in Nat
      <3>1. {e \in stored : Wanted(e)} \in SUBSET Events
        BY <1>t DEF Typed
      <3>2. rows \in Seq(Events)
        BY <3>1, SortedSeq
      <3>3. QED
        BY <3>2
    <2>3. history' \in Seq(Events) /\ Len(history') <= HistoryLimit
      <3>1. CASE Len(rows) < HistoryLimit
        BY <1>c, <2>1, <2>2, <3>1
      <3>2. CASE ~(Len(rows) < HistoryLimit)
        BY <1>c, <2>1, <2>2, <3>2
      <3>3. QED
        BY <3>1, <3>2
    <2>4. excused' \subseteq Events
      BY <1>t, <2>1, <2>2, RangeFacts DEF Typed
    <2>5. QED
      BY <1>t, <1>3, <2>3, <2>4 DEF History, Typed
  <1>4. CASE Load
    BY <1>t, <1>4, NoCursor DEF Load, Typed
  <1>5. CASE Poll
    <2>1. work' \subseteq Events /\ excused' \subseteq Events
      BY <1>t, <1>5 DEF Poll, Pages, Typed
    <2>2. tail' \in {"off", "subscribed", "on", "broken"}
          /\ pc' \in {"nodes", "tail", "poll", "backoff"} /\ from' \in {"poll", "more", "tail", "last"}
      BY <1>t, <1>5 DEF Poll, Typed
    <2>3. QED
      BY <1>t, <1>5, <2>1, <2>2 DEF Poll, Typed
  <1>6. CASE Nodes
    <2>1. CASE Fail
      BY <1>t, <1>6, <2>1, EndTyped DEF Nodes, Fail, Typed
    <2>2. CASE UNCHANGED <<session, work>> /\ pc' = "link"
      BY <1>t, <1>6, <2>2 DEF Nodes, Typed
    <2>3. QED
      BY <1>6, <2>1, <2>2 DEF Nodes
  <1>7. CASE Link
    <2>1. CASE Fail
      BY <1>t, <1>7, <2>1, EndTyped DEF Link, Fail, Typed
    <2>2. CASE UNCHANGED <<session, work>> /\ pc' = "save"
      BY <1>t, <1>7, <2>2 DEF Link, Typed
    <2>3. QED
      BY <1>7, <2>1, <2>2 DEF Link
  <1>8. CASE Save
    <2>1. CASE /\ Fail /\ UNCHANGED <<main, cursor>>
               /\ backup' \in {backup, IF main \in Cursors THEN main ELSE backup}
      <3>1. cursor' \in Cursors /\ main' \in Cursors \cup {Absent, Bad}
            /\ backup' \in Cursors \cup {Absent}
        BY <1>t, <2>1 DEF Typed
      <3>2. QED
        BY <1>t, <1>8, <2>1, <3>1, EndTyped DEF Save, Fail, Typed
    <2>2. CASE Continue /\ cursor' \in Latest(work) /\ main' = cursor'
               /\ backup' = IF main \in Cursors THEN main ELSE backup
      <3>1. cursor' \in Cursors
        BY <1>t, <2>2, LatestFacts, EventOrder DEF Typed
      <3>2. backup' \in Cursors \cup {Absent}
        BY <1>t, <2>2 DEF Typed
      <3>3. /\ work' = {} /\ batch' \subseteq Events
            /\ history' \in Seq(Events) /\ stream' \in Seq(Events) /\ inbox' \in Seq(Events)
            /\ Len(history') <= HistoryLimit /\ Len(stream') <= StreamSize
            /\ Len(inbox') <= BufferSize
            /\ tail' \in {"off", "subscribed", "on", "broken"}
            /\ pc' \in {"tail", "poll", "backoff"}
        <4>1. CASE from \in {"poll", "more", "tail"}
          BY <1>t, <2>2, <4>1 DEF Continue, Typed
        <4>2. CASE from = "last"
          BY <1>t, <2>2, <4>2, EndTyped DEF Continue, Typed
        <4>3. QED
          BY <1>t, <4>1, <4>2 DEF Typed
      <3>4. QED
        BY <1>t, <1>8, <2>2, <3>1, <3>2, <3>3 DEF Save, Typed
    <2>3. QED
      BY <1>8, <2>1, <2>2 DEF Save
  <1>9. CASE Backoff
    BY <1>t, <1>9 DEF Backoff, Typed
  <1>10. CASE Take
    <2>1. /\ Head(inbox) \in Events /\ inbox' \in Seq(Events) /\ Len(inbox') <= BufferSize
      <3>1. inbox # <<>> /\ inbox' = Tail(inbox) /\ inbox \in Seq(Events) /\ Len(inbox) <= BufferSize
        BY <1>t, <1>10 DEF Take, Typed
      <3>2. Len(inbox) \in Nat
        BY <3>1
      <3>3. QED
        BY <1>c, <3>1, <3>2, TakeFacts
    <2>2. batch' \subseteq Events /\ work' \subseteq Events /\ pc' \in {"tail", "nodes"}
          /\ from' \in {"poll", "more", "tail", "last"}
      BY <1>t, <1>10, <2>1 DEF Take, Typed
    <2>3. QED
      BY <1>t, <1>10, <2>1, <2>2 DEF Take, Typed
  <1>11. CASE Tick
    BY <1>t, <1>11, FlushTyped DEF Tick, Typed
  <1>12. CASE TailEnds
    BY <1>t, <1>12, FlushTyped DEF TailEnds, Typed
  <1>13. CASE Receive
    <2>1. /\ history' \in Seq(Events) /\ stream' \in Seq(Events)
          /\ Len(history') <= HistoryLimit /\ Len(stream') <= StreamSize
      <3>1. /\ history \in Seq(Events) /\ stream \in Seq(Events)
            /\ Len(history) \in Nat /\ Len(stream) \in Nat
            /\ Len(history) <= HistoryLimit /\ Len(stream) <= StreamSize
            /\ history \o stream # <<>>
        BY <1>t, <1>13 DEF Typed, Receive
      <3>2. CASE history # <<>> /\ history' = Tail(history) /\ stream' = stream
        BY <1>c, <3>1, <3>2, TakeFacts
      <3>3. CASE history = <<>> /\ stream' = Tail(stream) /\ history' = history
        BY <1>c, <3>1, <3>3, TakeFacts, FirstRow
      <3>4. QED
        BY <1>13, <3>2, <3>3 DEF Receive
    <2>2. inbox' \in Seq(Events) /\ Len(inbox') <= BufferSize
      <3>1. CASE inbox' = inbox
        BY <1>t, <3>1 DEF Typed
      <3>2. CASE inbox' = Append(inbox, Head(history \o stream)) /\ Len(inbox) < BufferSize
        <4>1. Head(history \o stream) \in Events
          BY <1>t, <1>13, FirstRow, TakeFacts DEF Typed, Receive
        <4>2. inbox \in Seq(Events) /\ Len(inbox) \in Nat
          BY <1>t DEF Typed
        <4>3. inbox' \in Seq(Events) /\ Len(inbox') = Len(inbox) + 1
          BY <3>2, <4>1, <4>2, AppendFacts
        <4>4. Len(inbox) < BufferSize
          BY <3>2
        <4>5. QED
          BY <1>c, <4>2, <4>3, <4>4
      <3>3. QED
        BY <1>13, <3>1, <3>2 DEF Receive
    <2>3. QED
      BY <1>t, <1>13, <2>1, <2>2 DEF Receive, Typed
  <1>14. CASE Break
    BY <1>t, <1>c, <1>14 DEF Break, Typed
  <1>15. CASE Crash
    BY <1>t, <1>15, EndTyped, NoCursor DEF Crash, Typed
  <1>16. CASE Corrupt
    BY <1>t, <1>16 DEF Corrupt, Typed
  <1>17. CASE UNCHANGED vars
    BY <1>t, <1>17 DEF vars, Typed
  <1>18. QED
    BY <1>1, <1>2, <1>3, <1>4, <1>5, <1>6, <1>7, <1>8, <1>9, <1>10, <1>11, <1>12, <1>13,
       <1>14, <1>15, <1>16, <1>17 DEF Next, Sync, Reader

-----------------------------------------------------------------------------
(* The session.                                                            *)

\* The end of a session leaves nothing of it.
LEMMA EndSession == EndTail => Session'
  BY DEF EndTail, Session

\* Every action keeps the parts of a session to its state.
LEMMA SessionStep ==
    ASSUME TypeOK, Session, [Next]_vars
    PROVE  Session'
  <1>t. Typed
    BY TypedTypeOK
  <1>e. CASE EndTail
    BY <1>e, EndSession
  <1>1. CASE UNCHANGED <<session, pc, from>>
    BY <1>1 DEF session, Session, Working, OfTail
  <1>2. ASSUME NEW e \in Events, Broadcast(e)
        PROVE  Session'
    BY <1>2 DEF Broadcast, Session, Working, OfTail
  <1>3. CASE History
    BY <1>3 DEF History, Session, Working, OfTail
  <1>4. CASE Load \/ Backoff
    BY <1>4 DEF Load, Backoff, session, Session, Working, OfTail
  <1>5. CASE Poll
    <2>1. tail = "off" /\ history = <<>> /\ inbox = <<>> /\ batch = {} /\ stream = <<>>
      BY <1>5 DEF Poll, Session
    <2>2. UNCHANGED <<history, stream, inbox, batch>> /\ from' \in {"poll", "more", from}
          /\ \/ tail' = "off"
             \/ tail' = "subscribed" /\ pc' = "tail"
      BY <1>5, <2>1 DEF Poll
    <2>3. QED
      BY <2>1, <2>2 DEF Session, Working, OfTail
  <1>6. CASE Nodes \/ Link
    <2>1. CASE Fail
      BY <1>e, <2>1 DEF Fail
    <2>2. CASE UNCHANGED <<session, from>> /\ Working /\ Working'
      BY <2>2 DEF session, Session, OfTail, Working
    <2>3. QED
      BY <1>6, <2>1, <2>2 DEF Nodes, Link, Working
  <1>7. CASE Save
    <2>1. CASE Fail
      BY <1>e, <2>1 DEF Fail
    <2>2. CASE Continue /\ from' = from
      <3>1. CASE from = "poll" \/ from = "more"
        <4>1. tail = "off" /\ history = <<>> /\ inbox = <<>> /\ batch = {} /\ stream = <<>>
          BY <1>7, <3>1 DEF Save, Session, Working, OfTail
        <4>2. QED
          BY <2>2, <3>1, <4>1 DEF Continue, session, Session, Working, OfTail
      <3>2. CASE from = "tail"
        BY <2>2, <3>2 DEF Continue, Session, Working, OfTail
      <3>3. CASE from = "last"
        BY <1>e, <2>2, <3>3 DEF Continue
      <3>4. QED
        BY <1>t, <3>1, <3>2, <3>3 DEF Typed
    <2>3. QED
      BY <1>7, <2>1, <2>2 DEF Save
  <1>8. CASE Take
    BY <1>8 DEF Take, Session, Working, OfTail
  <1>9. ASSUME NEW who \in {"tail", "last"}, Flush(batch, who), pc = "tail"
        PROVE  Session'
    <2>1. CASE UNCHANGED <<history, stream, tail, inbox>>
      <3>1. from' = who /\ pc' \in {"nodes", "backoff", "tail"} /\ batch' \in {batch, {}}
        BY <1>9 DEF Flush, EndTail
      <3>2. CASE pc' = "backoff"
        BY <1>9, <1>e, <3>2 DEF Flush
      <3>3. QED
        BY <2>1, <3>1, <3>2 DEF Session, Working, OfTail
    <2>2. QED
      BY <1>9, <1>e, <2>1 DEF Flush
  <1>10. CASE Receive
    BY <1>10 DEF Receive, Session, Working, OfTail
  <1>11. CASE Break
    BY <1>11 DEF Break, Session, Working, OfTail
  <1>12. QED
    BY <1>1, <1>2, <1>3, <1>4, <1>5, <1>6, <1>7, <1>8, <1>9, <1>10, <1>11, <1>e
       DEF Next, Sync, Reader, Store, Tick, TailEnds, Crash, Corrupt, vars, session

\* The first rows of a query.
LEMMA PrefixFacts ==
    ASSUME NEW s \in Seq(Events), NEW n \in Nat, n <= Len(s)
    PROVE  /\ SubSeq(s, 1, n) \in Seq(Events) /\ Len(SubSeq(s, 1, n)) = n
           /\ \A i \in 1 .. n : SubSeq(s, 1, n)[i] = s[i] /\ i \in DOMAIN s
           /\ Range(SubSeq(s, 1, n)) \subseteq Range(s)
  <1>1. /\ SubSeq(s, 1, n) \in Seq(Events) /\ Len(SubSeq(s, 1, n)) = n
        /\ \A i \in 1 .. n : SubSeq(s, 1, n)[i] = s[i] /\ i \in DOMAIN s
    OBVIOUS
  <1>2. DOMAIN SubSeq(s, 1, n) = 1 .. n
    BY <1>1
  <1>3. QED
    BY <1>1, <1>2 DEF Range

-----------------------------------------------------------------------------
(* What a step changes.                                                    *)

\* Nothing is taken back.
LEMMA Grows ==
    ASSUME [Next]_vars
    PROVE  /\ stored \subseteq stored' /\ sent \subseteq sent'
           /\ processed \subseteq processed' /\ excused \subseteq excused'
  <1>1. (stored' = stored /\ sent' = sent) \/ \E e \in Events : Store(e) \/ Broadcast(e)
    BY ZenonT(60) DEF Next, vars, external, Sync, Reader, History, Load, Poll, Nodes,
       Link, Save, Backoff, Receive, Break, Take, Tick, TailEnds, Crash, Corrupt
  <1>2. processed' = processed \/ Link
    BY ZenonT(60) DEF Next, vars, Store, Broadcast, Sync, Reader, History, Load, Poll, Nodes,
       Save, Backoff, Receive, Break, Take, Tick, TailEnds, Crash, Corrupt
  <1>3. excused' = excused \/ Poll \/ History \/ \E e \in Events : Store(e) \/ Broadcast(e)
    BY ZenonT(60) DEF Next, vars, Sync, Reader, Load, Nodes, Link,
       Save, Backoff, Receive, Break, Take, Tick, TailEnds, Crash, Corrupt
  <1>4. processed \subseteq processed'
    BY <1>2 DEF Link
  <1>5. excused \subseteq excused'
    BY <1>3 DEF Poll, History, Store, Broadcast
  <1>6. stored \subseteq stored' /\ sent \subseteq sent'
    BY <1>1 DEF Store, Broadcast
  <1>7. QED
    BY <1>4, <1>5, <1>6

\* Who brings events, who processes them and who moves the cursor.
LEMMA Movers ==
    ASSUME [Next]_vars
    PROVE  /\ stored' = stored \/ \E e \in Events : Store(e)
           /\ processed' = processed \/ (Link /\ processed' = processed \cup work)
           /\ cursor' = cursor \/ Load \/ Save \/ Crash
           /\ main' = main \/ Save \/ Corrupt
           /\ backup' = backup \/ Save
  <1>1. stored' = stored \/ \E e \in Events : Store(e)
    BY ZenonT(60) DEF Next, vars, external, Broadcast, Sync, Reader, History, Load, Poll, Nodes,
       Link, Save, Backoff, Receive, Break, Take, Tick, TailEnds, Crash, Corrupt
  <1>2. processed' = processed \/ (Link /\ processed' = processed \cup work)
    BY ZenonT(60) DEF Next, vars, Store, Broadcast, Sync, Reader, History, Load, Poll, Nodes,
       Link, Save, Backoff, Receive, Break, Take, Tick, TailEnds, Crash, Corrupt
  <1>3. cursor' = cursor \/ Load \/ Save \/ Crash
    BY ZenonT(60) DEF Next, vars, Store, Broadcast, Sync, Reader, History, Poll, Nodes,
       Link, Backoff, Receive, Break, Take, Tick, TailEnds, Corrupt
  <1>4. main' = main \/ Save \/ Corrupt
    BY ZenonT(60) DEF Next, vars, files, Store, Broadcast, Sync, Reader, History, Load, Poll, Nodes,
       Link, Backoff, Receive, Break, Take, Tick, TailEnds, Crash
  <1>5. backup' = backup \/ Save
    BY ZenonT(60) DEF Next, vars, files, Store, Broadcast, Sync, Reader, History, Load, Poll, Nodes,
       Link, Backoff, Receive, Break, Take, Tick, TailEnds, Crash, Corrupt
  <1>6. QED
    BY <1>1, <1>2, <1>3, <1>4, <1>5

\* What a Save that goes through does.
LEMMA SaveMoves ==
    ASSUME ConstantsOK, TypeOK, Save, cursor' # cursor \/ main' # main
    PROVE  /\ Continue /\ main # Bad /\ main' = cursor' /\ from' = from
           /\ \E e \in work : cursor' = CursorOf(e) /\ \A d \in work : d = e \/ Before(d, e)
  <1>t. Typed
    BY TypedTypeOK
  <1>0. \/ main # Bad /\ cursor' \in Latest(work) /\ main' = cursor' /\ Continue
        \/ UNCHANGED <<main, cursor>>
    BY DEF Save, files
  <1>1. Continue /\ main # Bad /\ main' = cursor' /\ cursor' \in Latest(work) /\ from' = from
    BY <1>0 DEF Save
  <1>2. QED
    BY <1>1, <1>t, LatestFacts DEF Typed

\* Every action leaves events that were stored or broadcast.
LEMMA HeardStep ==
    ASSUME ConstantsOK, TypeOK, Heard, [Next]_vars
    PROVE  Heard'
  <1>t. Typed
    BY TypedTypeOK
  <1>g. stored \subseteq stored' /\ sent \subseteq sent'
    BY Grows
  <1>h. /\ processed \subseteq stored \cup sent /\ work \subseteq stored \cup sent
        /\ batch \subseteq stored \cup sent /\ Range(inbox) \subseteq stored \cup sent
        /\ Range(history) \subseteq stored \cup sent /\ Range(stream) \subseteq stored \cup sent
    BY DEF Heard
  <1>r. Range(<<>>) = {}
    <2>1. <<>> \in Seq(Events)
      OBVIOUS
    <2>2. QED
      BY <2>1, RangeFacts
  <1>p. processed' \subseteq stored' \cup sent'
    BY <1>g, <1>h, Movers
  <1>w. work' \subseteq stored' \cup sent' /\ batch' \subseteq stored' \cup sent'
    <2>1. CASE Poll
      <3>1. work' \subseteq stored \cup work /\ batch' = batch
        BY <2>1 DEF Poll, Pages
      <3>2. QED
        BY <1>g, <1>h, <3>1
    <2>2. CASE Take
      <3>1. Head(inbox) \in Range(inbox)
        BY <1>t, <2>2, TakeFacts DEF Take, Typed
      <3>2. work' \subseteq work \cup batch \cup {Head(inbox)}
            /\ batch' \subseteq batch \cup {Head(inbox)}
        BY <2>2 DEF Take
      <3>3. QED
        BY <1>g, <1>h, <3>1, <3>2
    <2>3. CASE Tick \/ TailEnds
      <3>1. work' \subseteq batch /\ batch' \subseteq batch
        BY <2>3 DEF Tick, TailEnds, Flush, EndTail
      <3>2. QED
        BY <1>g, <1>h, <3>1
    <2>4. CASE Save
      <3>1. work' = {} /\ (batch' = {} \/ batch' = batch)
        BY <2>4 DEF Save, Fail, Continue, EndTail, session
      <3>2. QED
        BY <1>g, <1>h, <3>1
    <2>5. (work' \subseteq work /\ batch' \subseteq batch) \/ Poll \/ Take \/ Tick \/ TailEnds \/ Save
      <3>1. CASE UNCHANGED <<work, batch>>
        BY <3>1
      <3>2. CASE Nodes \/ Link
        BY <3>2 DEF Nodes, Link, Fail, EndTail, session
      <3>3. CASE Crash
        BY <3>3 DEF Crash, EndTail
      <3>4. QED
        BY <3>1, <3>2, <3>3, ZenonT(60) DEF Next, vars, session, Store, Broadcast, Sync, Reader,
           History, Load, Backoff, Receive, Break, Corrupt
    <2>6. QED
      BY <1>g, <1>h, <2>1, <2>2, <2>3, <2>4, <2>5
  <1>s. /\ Range(inbox') \subseteq stored' \cup sent' /\ Range(history') \subseteq stored' \cup sent'
        /\ Range(stream') \subseteq stored' \cup sent'
    <2>1. CASE UNCHANGED <<inbox, history, stream>>
      BY <1>g, <1>h, <2>1
    <2>2. CASE EndTail
      BY <1>r, <2>2 DEF EndTail
    <2>3. ASSUME NEW e \in Events, Broadcast(e)
          PROVE  /\ Range(inbox') \subseteq stored' \cup sent'
                 /\ Range(history') \subseteq stored' \cup sent'
                 /\ Range(stream') \subseteq stored' \cup sent'
      <3>1. inbox' = inbox /\ history' = history /\ sent' = sent \cup {e}
            /\ (stream' = stream \/ stream' = Append(stream, e))
        BY <2>3 DEF Broadcast
      <3>2. Range(stream') \subseteq Range(stream) \cup {e}
        BY <1>t, <3>1, AppendFacts, ZenonT(60) DEF Typed
      <3>3. QED
        BY <1>g, <1>h, <3>1, <3>2
    <2>4. CASE History
      <3>1. PICK rows \in Sorted({e \in stored : Wanted(e)}) : \E n : history' = SubSeq(rows, 1, n)
                                                                      /\ n \in {Len(rows), HistoryLimit}
                                                                      /\ n <= Len(rows)
        <4>1. PICK rows \in Sorted({e \in stored : Wanted(e)}) :
                 LET n == IF Len(rows) < HistoryLimit THEN Len(rows) ELSE HistoryLimit
                 IN  history' = SubSeq(rows, 1, n)
          BY <2>4 DEF History
        <4>2. rows \in Seq(Events)
          BY <1>t, SortedSeq DEF Typed
        <4>3. Len(rows) \in Nat /\ HistoryLimit \in Nat
          BY <4>2 DEF ConstantsOK
        <4>4. CASE Len(rows) < HistoryLimit
          <5>1. history' = SubSeq(rows, 1, Len(rows)) /\ Len(rows) <= Len(rows)
            BY <4>1, <4>3, <4>4
          <5>2. QED
            BY <5>1
        <4>5. CASE ~(Len(rows) < HistoryLimit)
          <5>1. history' = SubSeq(rows, 1, HistoryLimit) /\ HistoryLimit <= Len(rows)
            BY <4>1, <4>3, <4>5
          <5>2. QED
            BY <5>1
        <4>6. QED
          BY <4>4, <4>5
      <3>2. rows \in Seq(Events) /\ Range(rows) \subseteq stored
        BY <1>t, SortedSeq DEF Typed
      <3>3. Range(history') \subseteq Range(rows)
        BY <3>1, <3>2, PrefixFacts DEF ConstantsOK
      <3>4. inbox' = inbox /\ stream' = stream
        BY <2>4 DEF History
      <3>5. QED
        BY <1>g, <1>h, <3>2, <3>3, <3>4
    <2>5. CASE Receive
      <3>1. history \o stream # <<>> /\ history \in Seq(Events) /\ stream \in Seq(Events)
            /\ inbox \in Seq(Events)
        BY <1>t, <2>5 DEF Receive, Typed
      <3> DEFINE e == Head(history \o stream)
      <3>2. e \in Events /\ e \in Range(history) \cup Range(stream)
            /\ Range(history') \subseteq Range(history) /\ Range(stream') \subseteq Range(stream)
        <4>1. CASE history # <<>>
          BY <2>5, <3>1, <4>1, FirstRow, TakeFacts DEF Receive
        <4>2. CASE history = <<>>
          BY <2>5, <3>1, <4>2, FirstRow, TakeFacts DEF Receive
        <4>3. QED
          BY <4>1, <4>2
      <3>3. inbox' = inbox \/ inbox' = Append(inbox, e)
        BY <2>5 DEF Receive
      <3> HIDE DEF e
      <3>4. Range(inbox') \subseteq Range(inbox) \cup {e}
        BY <3>1, <3>2, <3>3, AppendFacts
      <3>5. QED
        BY <1>g, <1>h, <3>2, <3>4
    <2>6. CASE Take
      <3>1. inbox' = Tail(inbox) /\ inbox # <<>> /\ history' = history /\ stream' = stream
        BY <2>6 DEF Take
      <3>2. Range(inbox') \subseteq Range(inbox)
        BY <1>t, <3>1, TakeFacts DEF Typed
      <3>3. QED
        BY <1>g, <1>h, <3>1, <3>2
    <2>7. CASE Break
      BY <1>g, <1>h, <1>r, <2>7 DEF Break
    <2>8. UNCHANGED <<inbox, history, stream>> \/ EndTail \/ History \/ Receive \/ Take \/ Break
          \/ \E e \in Events : Broadcast(e)
      BY ZenonT(60) DEF Next, vars, session, Store, Sync, Reader, Load, Poll, Nodes, Link, Save,
         Backoff, Tick, TailEnds, Flush, Crash, Corrupt, Fail, Continue
    <2>9. QED
      BY <2>1, <2>2, <2>3, <2>4, <2>5, <2>6, <2>7, <2>8
  <1>1. QED
    BY <1>p, <1>w, <1>s DEF Heard

-----------------------------------------------------------------------------
(* The cursors.                                                            *)

\* Nothing lies at or behind the beginning.
LEMMA ZeroSound ==
    ASSUME ConstantsOK, TypeOK
    PROVE  Sound(Zero)
  <1>1. \A e \in Events : After(e, Zero)
    BY TypedTypeOK, EventOrder DEF Typed
  <1>2. QED
    BY <1>1, TypedTypeOK DEF Sound, At, Passes, Reached, Typed

\* A cursor that passes nothing keeps passing nothing: what is stored behind it
\* comes out of order.
LEMMA SoundStays ==
    ASSUME ConstantsOK, TypeOK, Heard, [Next]_vars
    PROVE  \A c \in Cursors : Sound(c) => Sound(c)'
  <1> SUFFICES ASSUME NEW c \in Cursors, Sound(c)
               PROVE  Sound(c)'
    OBVIOUS
  <1>t. Typed
    BY TypedTypeOK
  <1>1. /\ processed \subseteq processed' /\ excused \subseteq excused'
        /\ \A e : (After(e, c)' <=> After(e, c)) /\ CursorOf(e)' = CursorOf(e)
    BY Grows, WorldStays
  <1>2. At(c)'
    BY <1>1 DEF Sound, At
  <1>3. ASSUME NEW e \in stored', ~After(e, c)
        PROVE  e \in processed' \cup excused'
    <2>1. CASE e \in stored
      BY <1>1, <1>3, <2>1 DEF Sound, Passes, Reached
    <2>2. CASE e \notin stored
      <3>1. e \in Events /\ Store(e)
        BY <1>3, <2>2, Movers DEF Store
      <3>2. c # Zero
        BY <1>t, <1>3, <3>1, EventOrder DEF Typed
      <3>3. PICK d \in processed : c = CursorOf(d)
        BY <3>2 DEF Sound, At
      <3>4. d \in Events /\ d \in stored \cup sent
        BY <1>t, <3>3 DEF Heard, Typed
      <3>5. e = d \/ Before(e, d)
        BY <1>t, <1>3, <3>1, <3>3, <3>4, EventOrder DEF Typed
      <3>6. CASE e = d
        BY <1>1, <3>3, <3>6
      <3>7. CASE Before(e, d)
        BY <3>1, <3>4, <3>7 DEF Store, Overtaken
      <3>8. QED
        BY <3>5, <3>6, <3>7
    <2>3. QED
      BY <2>1, <2>2
  <1>4. Passes(c)'
    BY <1>1, <1>3 DEF Passes, Reached
  <1>5. QED
    BY <1>2, <1>4 DEF Sound

\* The cursor that is saved passes nothing: the batch left nothing behind.
LEMMA SavedSound ==
    ASSUME ConstantsOK, TypeOK, Cursors3, InHand, Save, cursor' # cursor \/ main' # main
    PROVE  \E c \in Cursors : c = cursor' /\ c = main' /\ Sound(c)
  <1>t. Typed
    BY TypedTypeOK
  <1>1. PICK l \in work : cursor' = CursorOf(l) /\ \A d \in work : d = l \/ Before(d, l)
    BY SaveMoves
  <1>2. pc = "save" /\ main # Bad /\ main' = cursor' /\ l \in Events
    BY <1>t, SaveMoves DEF Save, Typed
  <1>3. /\ work \subseteq processed
        /\ \A e \in stored \ work :
              After(e, cursor) /\ Overtaken(e, work) => e \in processed \cup excused
    BY <1>2 DEF InHand, Working
  <1>4. At(CursorOf(l))
    BY <1>3 DEF At
  <1>5. ASSUME NEW e \in stored, ~After(e, CursorOf(l))
        PROVE  e \in processed \cup excused
    <2>1. e \in Events
      BY <1>t DEF Typed
    <2>2. e = l \/ Before(e, l)
      BY <1>t, <1>2, <1>5, <2>1, EventOrder DEF Typed
    <2>3. CASE e \in work
      BY <1>3, <2>3
    <2>4. CASE e \notin work /\ After(e, cursor)
      <3>1. Overtaken(e, work)
        BY <1>1, <2>2, <2>4 DEF Overtaken
      <3>2. QED
        BY <1>3, <2>4, <3>1
    <2>5. CASE ~After(e, cursor)
      BY <2>5 DEF Cursors3, Sound, Passes, Reached
    <2>6. QED
      BY <2>3, <2>4, <2>5
  <1>6. Sound(CursorOf(l))
    BY <1>4, <1>5 DEF Sound, Passes, Reached
  <1>7. CursorOf(l) \in Cursors
    BY <1>t, <1>2, EventOrder DEF Typed
  <1>8. QED
    BY <1>1, <1>2, <1>6, <1>7

\* No action makes a cursor pass an event that was not processed.
LEMMA CursorsStep ==
    ASSUME ConstantsOK, TypeOK, Heard, Cursors3, InHand, [Next]_vars
    PROVE  Cursors3'
  <1>t. Typed
    BY TypedTypeOK
  <1>s. \A c \in Cursors : Sound(c) => Sound(c)'
    BY SoundStays
  <1>z. Zero \in Cursors /\ Absent \notin Cursors /\ Bad \notin Cursors /\ Sound(Zero)
    BY NoCursor, ZeroSound
  <1>1. \E c \in Cursors : c = cursor' /\ Sound(c)
    <2>1. CASE cursor' = cursor
      BY <1>t, <2>1 DEF Cursors3, Typed
    <2>2. CASE Load
      <3>1. cursor' \in {Zero, main, backup} /\ cursor' \in Cursors
        BY <1>z, <2>2 DEF Load
      <3>2. QED
        BY <1>z, <3>1 DEF Cursors3
    <2>3. CASE Crash
      BY <1>z, <2>3 DEF Crash
    <2>4. CASE Save /\ cursor' # cursor
      BY <2>4, SavedSound
    <2>5. QED
      BY <2>1, <2>2, <2>3, <2>4, Movers
  <1>2. main' \in Cursors => \E c \in Cursors : c = main' /\ Sound(c)
    <2>1. CASE main' = main
      BY <2>1 DEF Cursors3
    <2>2. CASE Corrupt
      BY <1>z, <2>2 DEF Corrupt
    <2>3. CASE Save /\ main' # main
      BY <2>3, SavedSound
    <2>4. QED
      BY <2>1, <2>2, <2>3, Movers
  <1>3. backup' \in Cursors => \E c \in Cursors : c = backup' /\ Sound(c)
    <2>1. backup' = backup \/ (main \in Cursors /\ backup' = main)
      BY Movers DEF Save, files
    <2>2. QED
      BY <2>1 DEF Cursors3
  <1>4. Sound(cursor)'
    <2>1. PICK c \in Cursors : c = cursor' /\ Sound(c)'
      BY <1>s, <1>1
    <2>2. QED
      BY <2>1 DEF Sound, At, Passes, Reached, After
  <1>5. main' \in Cursors => Sound(main)'
    <2> SUFFICES ASSUME main' \in Cursors
                 PROVE  Sound(main)'
      OBVIOUS
    <2>1. PICK c \in Cursors : c = main' /\ Sound(c)'
      BY <1>s, <1>2
    <2>2. QED
      BY <2>1 DEF Sound, At, Passes, Reached, After
  <1>6. backup' \in Cursors => Sound(backup)'
    <2> SUFFICES ASSUME backup' \in Cursors
                 PROVE  Sound(backup)'
      OBVIOUS
    <2>1. PICK c \in Cursors : c = backup' /\ Sound(c)'
      BY <1>s, <1>3
    <2>2. QED
      BY <2>1 DEF Sound, At, Passes, Reached, After
  <1>7. QED
    BY <1>4, <1>5, <1>6 DEF Cursors3

\* The cursor in memory stays the one in the file.
LEMMA SavedStep ==
    ASSUME ConstantsOK, TypeOK, Saved, [Next]_vars
    PROVE  Saved'
  <1>z. Absent \notin Cursors /\ Bad \notin Cursors /\ Absent # Bad
    BY NoCursor
  <1>1. CASE Load
    BY <1>z, <1>1 DEF Load, files, Saved
  <1>2. CASE Save
    <2>1. CASE cursor' = cursor /\ main' = main
      BY <1>2, <2>1 DEF Save, Saved
    <2>2. CASE cursor' # cursor \/ main' # main
      <3>1. main' = cursor' /\ main' \in Cursors
        <4>1. PICK l \in work : cursor' = CursorOf(l) /\ main' = cursor'
          BY <1>2, <2>2, SaveMoves
        <4>2. QED
          BY <4>1, TypedTypeOK, EventOrder DEF Typed
      <3>2. QED
        BY <1>z, <3>1 DEF Saved
    <2>3. QED
      BY <2>1, <2>2
  <1>3. CASE Crash
    BY <1>3 DEF Crash, Saved
  <1>4. CASE Corrupt
    BY <1>4 DEF Corrupt, Saved
  <1>5. CASE UNCHANGED <<cursor, main>> /\ (pc = "load" => pc' = "load")
    BY <1>5 DEF Saved
  <1>6. pc = "load" => pc' = "load" \/ Load \/ Crash
    BY ZenonT(60) DEF Next, vars, Store, Broadcast, Sync, Reader, History, Poll, Nodes,
       Link, Save, Backoff, Receive, Break, Take, Tick, TailEnds, Corrupt
  <1>7. QED
    BY <1>1, <1>2, <1>3, <1>4, <1>5, <1>6, Movers

-----------------------------------------------------------------------------
(* The batch in hand.                                                      *)

\* A batch of the tail that is flushed leaves nothing behind that comes earlier.
LEMMA FlushedWhole ==
    ASSUME ConstantsOK, TypeOK, main # Bad,
           NEW S \in SUBSET Events, batch \subseteq S,
           \A x \in S : Missing(x) = {},
           NEW e \in stored, After(e, cursor), e \notin S,
           NEW d \in S, Before(e, d)
    PROVE  e \in processed \cup excused
  <1>1. e \notin Missing(d)
    OBVIOUS
  <1>2. QED
    BY <1>1 DEF Missing, Known

\* What runTailSession has taken from the tail: nothing before it is missing.
LEMMA TakenFirst ==
    ASSUME ConstantsOK, TypeOK, Ordered, main # Bad
    PROVE  /\ \A x \in batch : Missing(x) = {}
           /\ inbox # <<>> => Missing(Head(inbox)) = {}
  <1>t. Typed
    BY TypedTypeOK
  <1>1. \A x \in batch : Missing(x) = {}
    BY DEF Ordered
  <1>2. ASSUME inbox # <<>>
        PROVE  Missing(Head(inbox)) = {}
    <2>1. Head(inbox) = inbox[1] /\ 1 \in DOMAIN inbox
      BY <1>t, <1>2, TakeFacts DEF Typed
    <2>2. Missing(inbox[1]) \subseteq Lead(inbox, 1)
      BY <2>1 DEF Ordered
    <2>3. Lead(inbox, 1) = {}
      BY DEF Lead
    <2>4. QED
      BY <2>1, <2>2, <2>3
  <1>3. QED
    BY <1>1, <1>2

\* Every action leaves the batch in hand whole.
LEMMA InHandStep ==
    ASSUME ConstantsOK, TypeOK, Heard, InHand, Ordered, [Next]_vars
    PROVE  InHand'
  <1>t. Typed
    BY TypedTypeOK
  <1>a. /\ processed \subseteq processed' /\ excused \subseteq excused'
        /\ \A e, d : Before(e, d)' <=> Before(e, d)
        /\ \A e : cursor' = cursor => (After(e, cursor)' <=> After(e, cursor))
    BY Grows, WorldStays, AfterStays
  <1>m. main = Bad => main' = Bad
    BY Movers DEF Save, Corrupt, Fail, files
  <1>1. CASE ~Working'
    BY <1>1 DEF InHand
  <1>2. CASE Poll /\ Working'
    <2>1. PICK S \in SUBSET {e \in stored : After(e, cursor)} :
             /\ work' = S /\ S # {}
             /\ excused' = excused \cup {e \in stored \ S :
                                    After(e, cursor) /\ Overtaken(e, S)}
             /\ from' \in {"poll", "more"} /\ pc' = "nodes"
      BY <1>2 DEF Poll, Pages, Working
    <2>2. cursor' = cursor /\ stored' = stored
      BY <1>2 DEF Poll, external
    <2>3. QED
      BY <1>a, <2>1, <2>2 DEF InHand, OfTail, Overtaken
  <1>3. CASE Nodes /\ Working'
    <2>1. pc = "nodes" /\ pc' = "link" /\ UNCHANGED <<work, batch, from, stored, cursor, main>>
      BY <1>3 DEF Nodes, Working, Fail, session, external, files
    <2>2. QED
      BY <1>a, <2>1 DEF InHand, Working, OfTail, Overtaken
  <1>4. CASE Link /\ Working'
    <2>1. /\ pc = "link" /\ UNCHANGED <<work, batch, from, stored, cursor, main>>
          /\ processed' = processed \cup work
      BY <1>4 DEF Link, Working, Fail, session, external, files
    <2>2. QED
      BY <1>a, <2>1 DEF InHand, Working, OfTail, Overtaken
  <1>5. ASSUME NEW S \in SUBSET Events, batch \subseteq S,
               main # Bad => \A x \in S : Missing(x) = {},
               UNCHANGED <<stored, cursor, main>>,
               batch' = S, work' = {e \in S : After(e, cursor)}, pc' = "nodes"
        PROVE  InHand'
    <2>1. ASSUME main # Bad, NEW e \in stored, e \notin work', After(e, cursor), Overtaken(e, work')
          PROVE  e \in processed \cup excused
      <3>1. PICK d \in S : Before(e, d)
        BY <1>5, <2>1 DEF Overtaken
      <3>2. e \notin S
        BY <1>5, <2>1
      <3>3. QED
        BY <1>5, <2>1, <3>1, <3>2, FlushedWhole
    <2>2. \A e : Overtaken(e, work)' <=> Overtaken(e, work')
      BY <1>a DEF Overtaken
    <2>3. QED
      BY <1>5, <1>a, <2>1, <2>2 DEF InHand, Working
  <1>6. CASE Take /\ Working'
    <2>1. /\ inbox # <<>> /\ UNCHANGED <<stored, cursor, main>>
          /\ batch' = batch \cup {Head(inbox)} /\ pc' = "nodes"
          /\ work' = {e \in batch \cup {Head(inbox)} : After(e, cursor)}
      BY <1>6 DEF Take, Working, external, files
    <2>2. batch \cup {Head(inbox)} \in SUBSET Events
      BY <1>t, <2>1, TakeFacts DEF Typed
    <2>3. main # Bad => \A x \in batch \cup {Head(inbox)} : Missing(x) = {}
      BY <2>1, TakenFirst
    <2>4. QED
      BY <1>5, <2>1, <2>2, <2>3
  <1>7. CASE (Tick \/ TailEnds) /\ Working'
    <2>1. /\ UNCHANGED <<stored, cursor, main>> /\ batch' = batch /\ pc' = "nodes"
          /\ work' = {e \in batch : After(e, cursor)}
      BY <1>7 DEF Tick, TailEnds, Flush, Working, external, files
    <2>2. batch \in SUBSET Events
      BY <1>t DEF Typed
    <2>3. main # Bad => \A x \in batch : Missing(x) = {}
      BY TakenFirst
    <2>4. QED
      BY <1>5, <2>1, <2>2, <2>3
  <1>8. CASE UNCHANGED <<pc, work, batch, from, cursor>> /\ Working
    <2>1. ASSUME main' # Bad, NEW e \in stored' \ work, After(e, cursor), Overtaken(e, work)
          PROVE  e \in processed' \cup excused'
      <3>1. CASE e \in stored
        BY <1>8, <1>a, <1>m, <2>1, <3>1 DEF InHand
      <3>2. CASE e \notin stored
        <4>1. Store(e)
          BY <2>1, <3>2, Movers DEF Store
        <4>2. Overtaken(e, stored \cup sent)
          BY <2>1 DEF Heard, Overtaken
        <4>3. QED
          BY <4>1, <4>2 DEF Store
      <3>3. QED
        BY <3>1, <3>2
    <2>2. \A e : Overtaken(e, work)' <=> Overtaken(e, work)
      BY <1>8, <1>a DEF Overtaken
    <2>3. QED
      BY <1>8, <1>a, <2>1, <2>2 DEF InHand, Working, OfTail
  <1>9. Working' => \/ Poll \/ Nodes \/ Link \/ Take \/ Tick \/ TailEnds
                    \/ UNCHANGED <<pc, work, batch, from, cursor>>
    <2>1. CASE Save
      BY <2>1 DEF Save, Fail, Continue, Working
    <2>2. CASE Load \/ Backoff \/ Crash
      BY <2>2 DEF Load, Backoff, Crash, Working
    <2>3. QED
      BY <2>1, <2>2, ZenonT(60) DEF Next, vars, session, Store, Broadcast, Sync, Reader,
         History, Receive, Break, Corrupt
  <1>10. QED
    BY <1>1, <1>2, <1>3, <1>4, <1>6, <1>7, <1>8, <1>9 DEF Working

-----------------------------------------------------------------------------
(* The tail.                                                               *)

\* An event that is behind the cursor was behind it before, and what was known
\* of it is known.
LEMMA KnownStays ==
    ASSUME ConstantsOK, TypeOK, Session, Saved, InHand, [Next]_vars,
           tail # "off", tail' # "off", main' # Bad
    PROVE  /\ main # Bad
           /\ \A e \in Events : After(e, cursor)' => After(e, cursor)
           /\ \A e \in Known : After(e, cursor)' => e \in Known'
  <1>t. Typed
    BY TypedTypeOK
  <1>g. processed \subseteq processed' /\ excused \subseteq excused'
    BY Grows
  <1>m. main # Bad
    BY Movers DEF Save, Corrupt, Fail, files
  <1>p. pc \in {"nodes", "link", "save", "tail"} /\ (Working => OfTail)
    BY <1>t DEF Session, Typed
  <1>1. ASSUME NEW e \in Events, After(e, cursor)'
        PROVE  After(e, cursor)
    <2>1. CASE cursor' = cursor
      BY <1>1, <2>1, AfterStays
    <2>2. CASE cursor' # cursor
      <3>1. Save
        BY <1>p, <2>2, Movers DEF Load, Crash, EndTail
      <3>2. PICK l \in work : cursor' = CursorOf(l)
        BY <2>2, <3>1, SaveMoves
      <3>3. l \in Events /\ After(l, cursor)
        BY <1>t, <3>1, <3>2 DEF Save, InHand, Working, Typed
      <3>4. After(e, CursorOf(l))
        <4>1. world' = world
          BY WorldStays
        <4>2. QED
          BY <1>1, <3>2, <4>1 DEF After, CursorOf
      <3>5. Before(l, e)
        BY <1>t, <3>3, <3>4, EventOrder DEF Typed
      <3>6. QED
        BY <1>t, <3>3, <3>5, EventOrder DEF Typed
    <2>3. QED
      BY <2>1, <2>2
  <1>2. ASSUME NEW e \in batch, After(e, cursor)'
        PROVE  e \in Known'
    <2>e. e \in Events /\ After(e, cursor)
      BY <1>t, <1>1, <1>2 DEF Typed
    <2>1. CASE e \in batch'
      BY <2>1 DEF Known
    <2>2. CASE Save
      <3>1. e \in work /\ work \subseteq processed
        BY <1>2, <1>p, <2>2, <2>e DEF Save, InHand, Working
      <3>2. QED
        BY <1>g, <3>1 DEF Known
    <2>3. CASE Take
      <3>1. \/ batch \subseteq batch'
            \/ {x \in batch \cup {Head(inbox)} : After(x, cursor)} = {}
        BY <2>3 DEF Take
      <3>2. QED
        BY <2>1, <2>e, <3>1
    <2>4. CASE Tick \/ TailEnds
      <3>1. \/ batch' = batch
            \/ {x \in batch : After(x, cursor)} = {}
        BY <2>4 DEF Tick, TailEnds, Flush
      <3>2. QED
        BY <2>1, <2>e, <3>1
    <2>5. batch' = batch \/ Save \/ Take \/ Tick \/ TailEnds
      <3>1. CASE Nodes \/ Link
        BY <3>1 DEF Nodes, Link, Fail, EndTail, session
      <3>2. CASE Crash
        BY <3>2 DEF Crash, EndTail
      <3>3. QED
        BY <3>1, <3>2, ZenonT(60) DEF Next, vars, session, Store, Broadcast, Sync, Reader,
           Load, Poll, History, Backoff, Receive, Break, Corrupt
    <2>6. QED
      BY <2>1, <2>2, <2>3, <2>4, <2>5
  <1>3. \A e \in Known : After(e, cursor)' => e \in Known'
    BY <1>2, <1>g DEF Known
  <1>4. QED
    BY <1>m, <1>1, <1>3

\* Nothing becomes missing before an event that is there.
LEMMA MissingStep ==
    ASSUME ConstantsOK, TypeOK, Session, Saved, InHand, [Next]_vars,
           tail # "off", tail' # "off", main' # Bad,
           NEW x \in stored \cup sent
    PROVE  Missing(x)' \subseteq Missing(x)
  <1>t. Typed
    BY TypedTypeOK
  <1>1. /\ \A e \in Events : After(e, cursor)' => After(e, cursor)
        /\ \A e \in Known : After(e, cursor)' => e \in Known'
        /\ \A e : Before(e, x)' <=> Before(e, x)
    BY KnownStays, WorldStays
  <1>2. ASSUME NEW e \in Missing(x)'
        PROVE  e \in Missing(x)
    <2>1. e \in stored' /\ e \notin Known' /\ After(e, cursor)' /\ Before(e, x)
      BY <1>1, <1>2 DEF Missing
    <2>2. e \in stored
      <3>1. ASSUME e \notin stored
            PROVE  FALSE
        <4>1. Store(e)
          BY <2>1, <3>1, Movers DEF Store
        <4>2. e \in excused'
          BY <2>1, <4>1 DEF Store, Overtaken
        <4>3. QED
          BY <2>1, <4>2 DEF Known
      <3>2. QED
        BY <3>1
    <2>3. After(e, cursor) /\ e \notin Known
      BY <1>t, <1>1, <2>1, <2>2 DEF Typed
    <2>4. QED
      BY <2>1, <2>2, <2>3 DEF Missing
  <1>3. QED
    BY <1>2

\* What comes before a place of a sequence, when the first is taken off or one
\* is appended.
LEMMA LeadFacts ==
    ASSUME NEW s \in Seq(Events), NEW e \in Events
    PROVE  /\ Lead(s, 1) = {}
           /\ \A i \in DOMAIN s : Lead(s, i) \subseteq Range(s)
           /\ \A i \in DOMAIN s : Lead(Append(s, e), i) = Lead(s, i)
           /\ Lead(Append(s, e), Len(s) + 1) = Range(s)
           /\ s # <<>> => \A i \in DOMAIN Tail(s) :
                             Lead(s, i + 1) \subseteq {Head(s)} \cup Lead(Tail(s), i)
  <1>1. DOMAIN s = 1 .. Len(s) /\ Len(s) \in Nat
    OBVIOUS
  <1>2. Lead(s, 1) = {}
    BY DEF Lead
  <1>3. \A i \in DOMAIN s : Lead(s, i) \subseteq Range(s)
    BY <1>1 DEF Lead, Range
  <1>4. ASSUME NEW i \in DOMAIN s
        PROVE  Lead(Append(s, e), i) = Lead(s, i)
    <2>1. \A k \in 1 .. i - 1 : Append(s, e)[k] = s[k]
      BY <1>1, AppendFacts
    <2>2. QED
      BY <2>1 DEF Lead
  <1>5. Lead(Append(s, e), Len(s) + 1) = Range(s)
    <2>1. \A k \in 1 .. Len(s) : Append(s, e)[k] = s[k]
      BY AppendFacts
    <2>2. 1 .. (Len(s) + 1) - 1 = DOMAIN s
      BY <1>1
    <2>3. QED
      BY <1>1, <2>1, <2>2 DEF Lead, Range
  <1>6. ASSUME s # <<>>, NEW i \in DOMAIN Tail(s), NEW x \in Lead(s, i + 1)
        PROVE  x \in {Head(s)} \cup Lead(Tail(s), i)
    <2>1. PICK k \in 1 .. (i + 1) - 1 : x = s[k]
      BY <1>6 DEF Lead
    <2>2. /\ i \in 1 .. Len(s) - 1 /\ Head(s) = s[1]
          /\ \A j \in 1 .. Len(s) - 1 : Tail(s)[j] = s[j + 1]
      BY <1>1, <1>6
    <2>3. CASE k = 1
      BY <2>1, <2>2, <2>3
    <2>4. CASE k # 1
      <3>1. k - 1 \in 1 .. i - 1 /\ k - 1 \in 1 .. Len(s) - 1 /\ (k - 1) + 1 = k
        BY <1>1, <2>1, <2>2, <2>4
      <3>2. Tail(s)[k - 1] = x
        BY <2>1, <2>2, <3>1
      <3>3. QED
        BY <3>1, <3>2 DEF Lead
    <2>5. QED
      BY <2>3, <2>4
  <1>7. QED
    BY <1>2, <1>3, <1>4, <1>5, <1>6

\* Who opens the tail and who touches what is read from it.
LEMMA Readers ==
    ASSUME TypeOK, Session, [Next]_vars, tail' \in {"on", "broken"}
    PROVE  /\ tail # "off"
           /\ (tail = "on" /\ tail' = "on") \/ History \/ tail' = "broken"
           /\ \/ UNCHANGED <<inbox, history, stream, sent>>
              \/ Receive \/ Take \/ Break \/ History
              \/ \E e \in Events : Broadcast(e)
           /\ batch' \subseteq batch \/ Take
  <1>t. Typed
    BY TypedTypeOK
  <1>1. CASE UNCHANGED tail
    <2>1. \/ UNCHANGED <<inbox, history, stream, sent>>
          \/ Receive \/ Take \/ Break \/ History
          \/ \E e \in Events : Broadcast(e)
      <3>1. CASE Nodes \/ Link
        BY <1>1, <3>1 DEF Nodes, Link, Fail, EndTail, session, external
      <3>2. CASE Save
        BY <1>1, <3>2 DEF Save, Continue, Fail, EndTail, session, external
      <3>3. CASE Tick \/ TailEnds
        BY <1>1, <3>3 DEF Tick, TailEnds, Flush, EndTail, external
      <3>4. CASE Crash
        BY <1>1, <3>4 DEF Crash, EndTail
      <3>5. QED
        BY <3>1, <3>2, <3>3, <3>4, ZenonT(60) DEF Next, vars, session, external, Store, Sync,
           Reader, Load, Poll, Backoff, Corrupt
    <2>2. batch' \subseteq batch \/ Take
      <3>1. CASE Nodes \/ Link
        BY <3>1 DEF Nodes, Link, Fail, EndTail, session
      <3>2. CASE Save
        BY <3>2 DEF Save, Continue, Fail, EndTail, session
      <3>3. CASE Tick \/ TailEnds
        BY <3>3 DEF Tick, TailEnds, Flush, EndTail
      <3>4. CASE Crash
        BY <3>4 DEF Crash, EndTail
      <3>5. batch' = batch \/ Take \/ Nodes \/ Link \/ Save \/ Tick \/ TailEnds \/ Crash
        BY ZenonT(60) DEF Next, vars, session, Store, Broadcast, Sync, Reader, Load, Poll,
           History, Backoff, Receive, Break, Corrupt
      <3>6. QED
        BY <3>1, <3>2, <3>3, <3>4, <3>5
    <2>3. tail # "off" /\ ((tail = "on" /\ tail' = "on") \/ tail' = "broken")
      BY <1>1
    <2>4. QED
      BY <2>1, <2>2, <2>3
  <1>2. CASE History
    BY <1>2 DEF History
  <1>3. CASE Break
    BY <1>3 DEF Break
  <1>4. tail' = tail \/ History \/ Break
    <2>1. CASE Nodes \/ Link
      BY <2>1 DEF Nodes, Link, Fail, EndTail, session
    <2>2. CASE Save
      BY <2>2 DEF Save, Continue, Fail, EndTail, session
    <2>3. CASE Tick \/ TailEnds
      BY <2>3 DEF Tick, TailEnds, Flush, EndTail
    <2>4. CASE Crash
      BY <2>4 DEF Crash, EndTail
    <2>5. CASE Poll
      BY <2>5 DEF Poll
    <2>6. QED
      BY <2>1, <2>2, <2>3, <2>4, <2>5, ZenonT(60) DEF Next, vars, session, Store, Broadcast,
         Sync, Reader, Load, Backoff, Receive, Take, Corrupt
  <1>5. QED
    BY <1>1, <1>2, <1>3, <1>4

\* An event that leaves the tail or eventsCh is not missing afterwards, or it is
\* in eventsCh.
LEMMA Passed ==
    ASSUME ConstantsOK, TypeOK, [Next]_vars, NEW x
    PROVE  /\ Take => Head(inbox) \notin Missing(x)'
           /\ Receive => Head(history \o stream) \notin Missing(x)' \ Range(inbox')
  <1>t. Typed
    BY TypedTypeOK
  <1>1. ASSUME Take
        PROVE  Head(inbox) \notin Missing(x)'
    <2>1. cursor' = cursor
      BY <1>1 DEF Take
    <2>2. \/ Head(inbox) \in batch'
          \/ {e \in batch \cup {Head(inbox)} : After(e, cursor)} = {}
      BY <1>1 DEF Take
    <2>3. Head(inbox) \in Known' \/ ~After(Head(inbox), cursor)
      BY <2>2 DEF Known
    <2>4. \A e : After(e, cursor)' <=> After(e, cursor)
      BY <2>1, AfterStays
    <2>5. \A e \in Missing(x)' : e \notin Known' /\ After(e, cursor)
      BY <2>4 DEF Missing
    <2>6. QED
      BY <2>3, <2>5
  <1>2. ASSUME Receive
        PROVE  Head(history \o stream) \notin Missing(x)' \ Range(inbox')
    <2> DEFINE e == Head(history \o stream)
    <2>1. cursor' = cursor
      BY <1>2 DEF Receive
    <2>2. e \in Events
      BY <1>t, <1>2, FirstRow, TakeFacts DEF Receive, Typed
    <2>3. After(e, cursor) => inbox' = Append(inbox, e)
      BY <1>2 DEF Receive
    <2> HIDE DEF e
    <2>4. After(e, cursor) => e \in Range(inbox')
      <3>1. Range(Append(inbox, e)) = Range(inbox) \cup {e}
        BY <1>t, <2>2, AppendFacts DEF Typed
      <3>2. e \in Range(Append(inbox, e))
        BY <3>1
      <3>3. QED
        BY <2>3, <3>2
    <2>5. \A d : After(d, cursor)' <=> After(d, cursor)
      BY <2>1, AfterStays
    <2>6. \A d \in Missing(x)' : After(d, cursor)
      BY <2>5 DEF Missing
    <2>7. e \notin Missing(x)' \ Range(inbox')
      BY <2>4, <2>6
    <2>8. QED
      BY <2>7 DEF e
  <1>3. QED
    BY <1>1, <1>2

\* The rows of the history are the stored events behind the cursor, in order.
LEMMA Rows ==
    ASSUME ConstantsOK, TypeOK, Session, Saved, History, main # Bad
    PROVE  \E rows \in Seq(Events), n \in Nat :
              /\ n <= Len(rows) /\ history' = SubSeq(rows, 1, n)
              /\ Range(rows) \subseteq stored
              /\ \A e \in stored : After(e, cursor) => e \in Range(rows)
              /\ \A i, j \in DOMAIN rows : i < j => Before(rows[i], rows[j])
              /\ excused' = excused \cup (Range(rows) \ Range(history'))
                                    \cup ((sent \ stored) \ Range(stream))
  <1>t. Typed
    BY TypedTypeOK
  <1>1. PICK rows \in Sorted({e \in stored : Wanted(e)}) :
           LET n == IF Len(rows) < HistoryLimit THEN Len(rows) ELSE HistoryLimit
           IN  /\ history' = SubSeq(rows, 1, n)
               /\ excused' = excused \cup (Range(rows) \ Range(history'))
                                     \cup ((sent \ stored) \ Range(stream))
    BY DEF History
  <1>2. /\ rows \in Seq(Events) /\ Range(rows) = {e \in stored : Wanted(e)}
        /\ \A i, j \in DOMAIN rows : i < j => Before(rows[i], rows[j])
    <2>1. {e \in stored : Wanted(e)} \in SUBSET Events
      BY <1>t DEF Typed
    <2>2. QED
      BY <2>1, SortedSeq
  <1>3. Len(rows) \in Nat /\ HistoryLimit \in Nat
    BY <1>2 DEF ConstantsOK
  <1>4. \E n \in Nat : n <= Len(rows) /\ history' = SubSeq(rows, 1, n)
    <2>1. CASE Len(rows) < HistoryLimit
      <3>1. history' = SubSeq(rows, 1, Len(rows)) /\ Len(rows) <= Len(rows)
        BY <1>1, <1>3, <2>1
      <3>2. QED
        BY <1>3, <3>1
    <2>2. CASE ~(Len(rows) < HistoryLimit)
      <3>1. history' = SubSeq(rows, 1, HistoryLimit) /\ HistoryLimit <= Len(rows)
        BY <1>1, <1>3, <2>2
      <3>2. QED
        BY <1>3, <3>1
    <2>3. QED
      BY <2>1, <2>2
  <1>5. \A e \in stored : After(e, cursor) => Wanted(e)
    <2>1. pc # "load"
      BY DEF Session, History
    <2>2. main \in Cursors => cursor = main
      BY <2>1 DEF Saved
    <2>3. QED
      BY <2>2 DEF Wanted
  <1>6. excused' = excused \cup (Range(rows) \ Range(history'))
                           \cup ((sent \ stored) \ Range(stream))
    BY <1>1
  <1>7. QED
    BY <1>2, <1>4, <1>5, <1>6

\* The order that the next state is to have, event by event.
LEMMA OrderedNext ==
    ASSUME TypeOK',
           main' # Bad =>
              /\ \A x \in batch' : Missing(x)' = {}
              /\ \A i \in DOMAIN inbox', x \in Events :
                    x = inbox'[i] => Missing(x)' \subseteq Lead(inbox', i)
              /\ \A i \in DOMAIN history', x \in Events :
                    x = history'[i] => Missing(x)' \subseteq Range(inbox') \cup Lead(history', i)
              /\ tail' = "on" => \A i \in DOMAIN stream', x \in Events :
                    x = stream'[i] =>
                       Missing(x)' \subseteq Range(inbox') \cup Range(history') \cup Lead(stream', i)
    PROVE  Ordered'
  <1>1. /\ \A i \in DOMAIN inbox' : inbox'[i] \in Events
        /\ \A i \in DOMAIN history' : history'[i] \in Events
        /\ \A i \in DOMAIN stream' : stream'[i] \in Events
    BY TypedTypeOK, RangeFacts DEF Typed
  <1>2. ASSUME NEW i \in DOMAIN inbox', main' # Bad
        PROVE  (Missing(inbox[i]) \subseteq Lead(inbox, i))'
    <2>1. PICK x \in Events : x = inbox'[i]
      BY <1>1
    <2>2. Missing(x)' \subseteq Lead(inbox', i)
      BY <1>2, <2>1
    <2>3. QED
      BY <2>1, <2>2 DEF Missing, Before, CursorOf, Lead
  <1>3. ASSUME NEW i \in DOMAIN history', main' # Bad
        PROVE  (Missing(history[i]) \subseteq Range(inbox) \cup Lead(history, i))'
    <2>1. PICK x \in Events : x = history'[i]
      BY <1>1
    <2>2. Missing(x)' \subseteq Range(inbox') \cup Lead(history', i)
      BY <1>3, <2>1
    <2>3. QED
      BY <2>1, <2>2 DEF Missing, Before, CursorOf, Lead
  <1>4. ASSUME NEW i \in DOMAIN stream', main' # Bad, tail' = "on"
        PROVE  (Missing(stream[i]) \subseteq Range(inbox) \cup Range(history) \cup Lead(stream, i))'
    <2>1. PICK x \in Events : x = stream'[i]
      BY <1>1
    <2>2. Missing(x)' \subseteq Range(inbox') \cup Range(history') \cup Lead(stream', i)
      BY <1>4, <2>1
    <2>3. QED
      BY <2>1, <2>2 DEF Missing, Before, CursorOf, Lead
  <1>5. QED
    BY <1>2, <1>3, <1>4 DEF Ordered

\* Every action keeps what is read from the tail in order.
LEMMA OrderedStep ==
    ASSUME ConstantsOK, TypeOK, Session, Heard, Saved, InHand, Ordered, Tailed, [Next]_vars
    PROVE  Ordered'
  <1>t. Typed
    BY TypedTypeOK
  <1>y. TypeOK' /\ Session'
    BY TypeStep, SessionStep
  <1>1. CASE tail' \in {"off", "subscribed"}
    <2>1. batch' = {} /\ inbox' = <<>> /\ history' = <<>> /\ tail' # "on"
      BY <1>y, <1>1 DEF Session
    <2>2. DOMAIN inbox' = {} /\ DOMAIN history' = {}
      BY <2>1
    <2>3. QED
      BY <1>y, <2>1, <2>2, OrderedNext
  <1>2. CASE main' = Bad
    BY <1>2 DEF Ordered
  <1>3. CASE tail' \in {"on", "broken"} /\ main' # Bad
    <2>r. /\ tail # "off"
          /\ (tail = "on" /\ tail' = "on") \/ History \/ tail' = "broken"
          /\ \/ UNCHANGED <<inbox, history, stream, sent>>
             \/ Receive \/ Take \/ Break \/ History
             \/ \E e \in Events : Broadcast(e)
          /\ batch' \subseteq batch \/ Take
      BY <1>3, Readers
    <2>m. main # Bad
      BY <1>3, <2>r, KnownStays
    <2>s. \A x \in stored \cup sent : Missing(x)' \subseteq Missing(x)
      BY <1>3, <2>r, MissingStep
    <2>h. /\ batch \subseteq stored \cup sent /\ Range(inbox) \subseteq stored \cup sent
          /\ Range(history) \subseteq stored \cup sent /\ Range(stream) \subseteq stored \cup sent
      BY DEF Heard
    <2>d. /\ \A i \in DOMAIN inbox : inbox[i] \in Range(inbox)
          /\ \A i \in DOMAIN history : history[i] \in Range(history)
          /\ \A i \in DOMAIN stream : stream[i] \in Range(stream)
      BY <1>t, RangeFacts DEF Typed
    <2>g. \A x \in Events, y \in Range(inbox) : y \in Missing(x)' => y \in Range(inbox')
      <3>1. CASE inbox' = inbox
        BY <3>1
      <3>2. CASE Take
        <4>1. inbox' = Tail(inbox) /\ Range(inbox) = {Head(inbox)} \cup Range(Tail(inbox))
          BY <1>t, <3>2, TakeFacts DEF Take, Typed
        <4>2. QED
          BY <3>2, <4>1, Passed
      <3>3. CASE inbox' = Append(inbox, Head(history \o stream)) /\ Receive
        <4>1. Head(history \o stream) \in Events
          BY <1>t, <3>3, FirstRow, TakeFacts DEF Receive, Typed
        <4>2. Range(inbox) \subseteq Range(Append(inbox, Head(history \o stream)))
          BY <1>t, <4>1, AppendFacts, ZenonT(60) DEF Typed
        <4>3. QED
          BY <3>3, <4>2
      <3>4. QED
        BY <2>r, <3>1, <3>2, <3>3 DEF Receive, Break, History, Broadcast
    <2>b. \A x \in batch' : Missing(x)' = {}
      <3>1. \A x \in batch : Missing(x) = {} /\ x \in stored \cup sent
        BY <2>m, <2>h, TakenFirst
      <3>2. CASE Take
        <4>1. Head(inbox) \in Range(inbox) /\ inbox # <<>>
          BY <1>t, <3>2, TakeFacts DEF Take, Typed
        <4>2. Missing(Head(inbox)) = {}
          BY <2>m, <4>1, TakenFirst
        <4>3. batch' \subseteq batch \cup {Head(inbox)}
          BY <3>2 DEF Take
        <4>4. QED
          BY <2>s, <2>h, <3>1, <4>1, <4>2, <4>3
      <3>3. QED
        BY <2>r, <2>s, <3>1, <3>2
    <2>i. ASSUME NEW i \in DOMAIN inbox', NEW x \in Events, x = inbox'[i]
          PROVE  Missing(x)' \subseteq Lead(inbox', i)
      <3>1. CASE inbox' = inbox
        <4>1. x \in stored \cup sent /\ Missing(x) \subseteq Lead(inbox, i)
          BY <2>m, <2>h, <2>d, <2>i, <3>1 DEF Ordered
        <4>2. QED
          BY <2>s, <3>1, <4>1
      <3>2. CASE Take
        <4>1. inbox' = Tail(inbox) /\ inbox # <<>> /\ inbox \in Seq(Events)
          BY <1>t, <3>2 DEF Take, Typed
        <4>2. i + 1 \in DOMAIN inbox /\ x = inbox[i + 1]
          BY <2>i, <4>1, TakeFacts
        <4>3. x \in stored \cup sent /\ Missing(x) \subseteq Lead(inbox, i + 1)
          BY <2>m, <2>h, <2>d, <4>2 DEF Ordered
        <4>4. Lead(inbox, i + 1) \subseteq {Head(inbox)} \cup Lead(inbox', i)
          BY <2>i, <4>1, TakeFacts, LeadFacts
        <4>5. Head(inbox) \notin Missing(x)'
          BY <3>2, Passed
        <4>6. QED
          BY <2>s, <4>3, <4>4, <4>5
      <3>3. CASE inbox' = Append(inbox, Head(history \o stream)) /\ Receive
        <4> DEFINE e == Head(history \o stream)
        <4>1. e \in Events /\ inbox \in Seq(Events) /\ inbox' = Append(inbox, e)
          BY <1>t, <3>3, FirstRow, TakeFacts DEF Receive, Typed
        <4>2. e \in stored \cup sent /\ Missing(e) \subseteq Range(inbox)
          <5>1. CASE history # <<>>
            <6>1. e = history[1] /\ 1 \in DOMAIN history /\ Lead(history, 1) = {}
              BY <1>t, <3>3, <5>1, FirstRow, TakeFacts, LeadFacts DEF Receive, Typed
            <6>2. Missing(history[1]) \subseteq Range(inbox) \cup Lead(history, 1)
              BY <2>m, <6>1 DEF Ordered
            <6>3. QED
              BY <2>h, <2>d, <6>1, <6>2
          <5>2. CASE history = <<>>
            <6>1. e = stream[1] /\ 1 \in DOMAIN stream /\ Lead(stream, 1) = {}
              BY <1>t, <3>3, <5>2, FirstRow, TakeFacts, LeadFacts DEF Receive, Typed
            <6>2. Missing(stream[1]) \subseteq
                     Range(inbox) \cup Range(history) \cup Lead(stream, 1)
              BY <2>m, <3>3, <6>1 DEF Ordered, Receive
            <6>3. Range(history) = {}
              BY <5>2 DEF Range
            <6>4. QED
              BY <2>h, <2>d, <6>1, <6>2, <6>3
          <5>3. QED
            BY <5>1, <5>2
        <4> HIDE DEF e
        <4>3. /\ DOMAIN inbox' = 1 .. Len(inbox) + 1 /\ DOMAIN inbox = 1 .. Len(inbox)
              /\ Len(inbox) \in Nat
          <5>1. inbox' \in Seq(Events) /\ Len(inbox') = Len(inbox) + 1
            BY <4>1, AppendFacts
          <5>2. QED
            BY <4>1, <5>1, RangeFacts
        <4>4. CASE i \in DOMAIN inbox
          <5>1. x = inbox[i] /\ Lead(inbox', i) = Lead(inbox, i)
            BY <2>i, <4>1, <4>3, <4>4, AppendFacts, LeadFacts
          <5>2. x \in stored \cup sent /\ Missing(x) \subseteq Lead(inbox, i)
            BY <2>m, <2>h, <2>d, <4>4, <5>1 DEF Ordered
          <5>3. QED
            BY <2>s, <5>1, <5>2
        <4>5. CASE i = Len(inbox) + 1
          <5>1. x = e /\ Lead(inbox', i) = Range(inbox)
            BY <2>i, <4>1, <4>5, AppendFacts, LeadFacts
          <5>2. QED
            BY <2>s, <4>2, <5>1
        <4>6. QED
          BY <2>i, <4>3, <4>4, <4>5
      <3>4. QED
        BY <2>r, <3>1, <3>2, <3>3 DEF Receive, Break, History, Broadcast
    <2>j. ASSUME NEW i \in DOMAIN history', NEW x \in Events, x = history'[i]
          PROVE  Missing(x)' \subseteq Range(inbox') \cup Lead(history', i)
      <3>1. CASE history' = history
        <4>1. x \in stored \cup sent /\ Missing(x) \subseteq Range(inbox) \cup Lead(history, i)
          BY <2>m, <2>h, <2>d, <2>j, <3>1 DEF Ordered
        <4>2. QED
          BY <2>s, <2>g, <3>1, <4>1
      <3>2. CASE Break
        BY <2>j, <3>2 DEF Break
      <3>3. CASE Receive /\ history # <<>>
        <4>1. history' = Tail(history) /\ history \in Seq(Events)
              /\ Head(history \o stream) = Head(history)
          BY <1>t, <3>3, FirstRow DEF Receive, Typed
        <4>2. i + 1 \in DOMAIN history /\ x = history[i + 1]
          BY <2>j, <3>3, <4>1, TakeFacts
        <4>3. /\ x \in stored \cup sent
              /\ Missing(x) \subseteq Range(inbox) \cup Lead(history, i + 1)
          BY <2>m, <2>h, <2>d, <4>2 DEF Ordered
        <4>4. Lead(history, i + 1) \subseteq {Head(history)} \cup Lead(history', i)
          BY <2>j, <3>3, <4>1, TakeFacts, LeadFacts
        <4>5. Head(history) \notin Missing(x)' \ Range(inbox')
          BY <3>3, <4>1, Passed
        <4>6. QED
          BY <2>s, <2>g, <4>3, <4>4, <4>5
      <3>4. CASE History
        <4>1. PICK rows \in Seq(Events), n \in Nat :
                 /\ n <= Len(rows) /\ history' = SubSeq(rows, 1, n)
                 /\ Range(rows) \subseteq stored
                 /\ \A e \in stored : After(e, cursor) => e \in Range(rows)
                 /\ \A k, l \in DOMAIN rows : k < l => Before(rows[k], rows[l])
          BY <2>m, <3>4, Rows
        <4>2. i \in 1 .. n /\ i \in DOMAIN rows /\ x = rows[i]
          BY <2>j, <4>1, PrefixFacts
        <4>3. x \in stored \cup sent
          BY <4>1, <4>2, RangeFacts
        <4>4. ASSUME NEW y \in Missing(x)
              PROVE  y \in Lead(history', i)
          <5>1. y \in stored /\ After(y, cursor) /\ Before(y, x)
            BY <4>4 DEF Missing
          <5>2. PICK k \in DOMAIN rows : y = rows[k]
            BY <4>1, <5>1, RangeFacts
          <5>3. y \in Events
            BY <1>t, <5>1 DEF Typed
          <5>4. ~Before(x, y) /\ x # y
            BY <1>t, <5>1, <5>3, EventOrder DEF Typed
          <5>5. k \in Nat /\ i \in Nat /\ ~(i < k) /\ i # k
            BY <4>1, <4>2, <5>2, <5>4, RangeFacts
          <5>6. k \in 1 .. i - 1 /\ k \in 1 .. n
            BY <4>1, <4>2, <5>2, <5>5, RangeFacts
          <5>7. history'[k] = y
            BY <4>1, <5>2, <5>6, PrefixFacts
          <5>8. QED
            BY <5>6, <5>7 DEF Lead
        <4>5. QED
          BY <2>s, <4>3, <4>4
      <3>5. QED
        BY <2>r, <3>1, <3>2, <3>3, <3>4 DEF Receive, Take, Broadcast
    <2>k. ASSUME tail' = "on", NEW i \in DOMAIN stream', NEW x \in Events, x = stream'[i]
          PROVE  Missing(x)' \subseteq Range(inbox') \cup Range(history') \cup Lead(stream', i)
      <3>1. CASE tail = "on" /\ stream' = stream /\ ~History
        <4>1. /\ x \in stored \cup sent
              /\ Missing(x) \subseteq Range(inbox) \cup Range(history) \cup Lead(stream, i)
          BY <2>m, <2>h, <2>d, <2>k, <3>1 DEF Ordered
        <4>2. \A y \in Range(history) : y \in Missing(x)' => y \in Range(inbox') \cup Range(history')
          <5>1. CASE history' = history
            BY <5>1
          <5>2. CASE Receive /\ history # <<>>
            <6>1. /\ Range(history) = {Head(history)} \cup Range(history')
                  /\ Head(history \o stream) = Head(history)
              BY <1>t, <5>2, FirstRow, TakeFacts DEF Receive, Typed
            <6>2. QED
              BY <5>2, <6>1, Passed
          <5>3. QED
            BY <2>r, <2>k, <3>1, <5>1, <5>2 DEF Receive, Take, Broadcast, Break
        <4>3. QED
          BY <2>s, <2>g, <3>1, <4>1, <4>2
      <3>2. CASE History
        <4>1. PICK rows \in Seq(Events), n \in Nat :
                 /\ \A e \in stored : After(e, cursor) => e \in Range(rows)
                 /\ excused' = excused \cup (Range(rows) \ Range(history'))
                                       \cup ((sent \ stored) \ Range(stream))
          BY <2>m, <3>2, Rows
        <4>2. stream' = stream /\ x \in stored \cup sent
          BY <2>h, <2>d, <2>k, <3>2 DEF History
        <4>3. ASSUME NEW y \in Missing(x)'
              PROVE  y \in Range(history')
          <5>1. y \in Missing(x) /\ y \notin excused'
            BY <2>s, <4>2, <4>3 DEF Missing, Known
          <5>2. y \in Range(rows)
            BY <4>1, <5>1 DEF Missing
          <5>3. QED
            BY <4>1, <5>1, <5>2
        <4>4. QED
          BY <4>3
      <3>3. CASE Receive /\ history = <<>>
        <4>1. /\ stream' = Tail(stream) /\ stream # <<>> /\ stream \in Seq(Events)
              /\ Head(history \o stream) = Head(stream) /\ tail = "on"
          BY <1>t, <3>3, FirstRow DEF Receive, Typed
        <4>2. i + 1 \in DOMAIN stream /\ x = stream[i + 1]
          BY <2>k, <4>1, TakeFacts
        <4>3. Range(history) = {}
          BY <3>3 DEF Range
        <4>4. /\ x \in stored \cup sent
              /\ Missing(x) \subseteq Range(inbox) \cup Lead(stream, i + 1)
          BY <2>m, <2>h, <2>d, <4>1, <4>2, <4>3 DEF Ordered
        <4>5. Lead(stream, i + 1) \subseteq {Head(stream)} \cup Lead(stream', i)
          BY <2>k, <4>1, TakeFacts, LeadFacts
        <4>6. Head(stream) \notin Missing(x)' \ Range(inbox')
          BY <3>3, <4>1, Passed
        <4>7. QED
          BY <2>s, <2>g, <4>4, <4>5, <4>6
      <3>4. ASSUME NEW e \in Events, Broadcast(e), tail = "on", stream' = Append(stream, e)
            PROVE  Missing(x)' \subseteq Range(inbox') \cup Range(history') \cup Lead(stream', i)
        <4>1. /\ inbox' = inbox /\ history' = history /\ stored' = stored /\ cursor' = cursor
              /\ batch' = batch /\ processed' = processed /\ excused \subseteq excused'
              /\ {d \in stored \ sent : Overtaken(d, {e})} \subseteq excused'
          BY <3>4 DEF Broadcast
        <4>2. /\ DOMAIN stream' = 1 .. Len(stream) + 1 /\ DOMAIN stream = 1 .. Len(stream)
              /\ Len(stream) \in Nat /\ stream \in Seq(Events)
          <5>1. stream \in Seq(Events)
            BY <1>t DEF Typed
          <5>2. stream' \in Seq(Events) /\ Len(stream') = Len(stream) + 1
            BY <3>4, <5>1, AppendFacts
          <5>3. QED
            BY <5>1, <5>2, RangeFacts
        <4>3. CASE i \in DOMAIN stream
          <5>1. x = stream[i] /\ Lead(stream', i) = Lead(stream, i)
            BY <2>k, <3>4, <4>2, <4>3, AppendFacts, LeadFacts
          <5>2. /\ x \in stored \cup sent
                /\ Missing(x) \subseteq Range(inbox) \cup Range(history) \cup Lead(stream, i)
            BY <2>m, <2>h, <2>d, <3>4, <4>3, <5>1 DEF Ordered
          <5>3. QED
            BY <2>s, <4>1, <5>1, <5>2
        <4>4. CASE i = Len(stream) + 1
          <5>1. x = e /\ Lead(stream', i) = Range(stream)
            BY <2>k, <3>4, <4>2, <4>4, AppendFacts, LeadFacts
          <5>2. ASSUME NEW y \in Missing(x)'
                PROVE  y \in Range(inbox) \cup Range(history) \cup Range(stream)
            <6>1. /\ y \in stored /\ y \notin Known /\ y \notin excused'
                  /\ After(y, cursor)' /\ Before(y, x)'
              BY <4>1, <5>2 DEF Missing, Known
            <6>2. After(y, cursor) /\ Before(y, e)
              BY <4>1, <5>1, <6>1, AfterStays, WorldStays
            <6>3. y \in sent
              BY <4>1, <6>1, <6>2 DEF Overtaken
            <6>4. QED
              BY <2>m, <3>4, <6>1, <6>2, <6>3 DEF Tailed
          <5>3. QED
            BY <4>1, <5>1, <5>2
        <4>5. QED
          BY <2>k, <4>2, <4>3, <4>4
      <3>5. tail = "on" \/ History
        BY <2>r, <2>k
      <3>6. stream' = stream \/ History \/ (Receive /\ history = <<>>)
            \/ \E e \in Events : Broadcast(e) /\ stream' = Append(stream, e)
        BY <2>r, <2>k DEF Receive, Take, Break, Broadcast
      <3>7. QED
        BY <3>1, <3>2, <3>3, <3>4, <3>5, <3>6
    <2>q. QED
      BY <1>y, <2>b, <2>i, <2>j, <2>k, OrderedNext
  <1>4. tail' \in {"off", "subscribed", "on", "broken"}
    BY <1>y, TypedTypeOK DEF Typed
  <1>5. QED
    BY <1>1, <1>2, <1>3, <1>4

\* Every action keeps what an open tail holds of the events that were broadcast.
LEMMA TailedStep ==
    ASSUME ConstantsOK, TypeOK, Session, Heard, Saved, InHand, Tailed, [Next]_vars
    PROVE  Tailed'
  <1>t. Typed
    BY TypedTypeOK
  <1> SUFFICES ASSUME tail' = "on", main' # Bad, NEW e \in sent' \ Known', After(e, cursor)'
               PROVE  e \in Range(inbox') \cup Range(history') \cup Range(stream')
    BY DEF Tailed
  <1>r. /\ tail # "off" /\ (tail = "on" \/ History)
        /\ \/ UNCHANGED <<inbox, history, stream, sent>>
           \/ Receive \/ Take \/ Break \/ History
           \/ \E d \in Events : Broadcast(d)
    BY Readers
  <1>m. main # Bad
    BY <1>r, KnownStays
  <1>e. e \in Events
    <2>1. TypeOK'
      BY TypeStep
    <2>2. QED
      BY <2>1, TypedTypeOK DEF Typed
  <1>k. After(e, cursor) /\ e \notin Known
    BY <1>r, <1>e, KnownStays
  <1>1. CASE History
    <2>1. PICK rows \in Seq(Events), n \in Nat :
             /\ \A d \in stored : After(d, cursor) => d \in Range(rows)
             /\ excused' = excused \cup (Range(rows) \ Range(history'))
                                   \cup ((sent \ stored) \ Range(stream))
      BY <1>1, <1>m, Rows
    <2>2. e \in sent /\ stream' = stream /\ e \notin excused'
      BY <1>1 DEF History, external, Known
    <2>3. QED
      BY <1>k, <2>1, <2>2
  <1>2. ASSUME tail = "on", e \in sent
        PROVE  e \in Range(inbox) \cup Range(history) \cup Range(stream)
    BY <1>2, <1>m, <1>k DEF Tailed
  <1>3. ASSUME NEW d \in Events, Broadcast(d), tail = "on"
        PROVE  e \in Range(inbox') \cup Range(history') \cup Range(stream')
    <2>1. /\ sent' = sent \cup {d} /\ inbox' = inbox /\ history' = history
          /\ stream' = stream \/ stream' = Append(stream, d)
          /\ d \in excused' \/ stream' = Append(stream, d)
      BY <1>3 DEF Broadcast
    <2>2. Range(Append(stream, d)) = Range(stream) \cup {d}
      BY <1>t, AppendFacts DEF Typed
    <2>3. e \notin excused'
      BY DEF Known
    <2>4. CASE e = d
      BY <2>1, <2>2, <2>3, <2>4
    <2>5. CASE e \in sent
      BY <1>2, <1>3, <2>1, <2>2, <2>5
    <2>6. QED
      BY <2>1, <2>4, <2>5
  <1>4. CASE Receive
    <2>1. tail = "on" /\ e \in sent /\ cursor' = cursor
      BY <1>4 DEF Receive, external
    <2>2. e \in Range(inbox) \cup Range(history) \cup Range(stream)
      BY <1>2, <2>1
    <2> DEFINE f == Head(history \o stream)
    <2>3. /\ f \in Events /\ After(f, cursor) => inbox' = Append(inbox, f)
          /\ ~After(f, cursor) => inbox' = inbox
      BY <1>t, <1>4, FirstRow, TakeFacts DEF Receive, Typed
    <2>4. Range(history) \cup Range(stream) = {f} \cup Range(history') \cup Range(stream')
      <3>1. CASE history # <<>>
        BY <1>t, <1>4, <3>1, FirstRow, TakeFacts DEF Receive, Typed
      <3>2. CASE history = <<>>
        BY <1>t, <1>4, <3>2, FirstRow, TakeFacts DEF Receive, Typed
      <3>3. QED
        BY <3>1, <3>2
    <2>5. f \in Events
      BY <1>t, <1>4, FirstRow, TakeFacts DEF Receive, Typed
    <2> HIDE DEF f
    <2>6. Range(Append(inbox, f)) = Range(inbox) \cup {f}
      BY <1>t, <2>5, AppendFacts DEF Typed
    <2>7. QED
      BY <1>k, <2>2, <2>3, <2>4, <2>5, <2>6
  <1>5. CASE Take
    <2>1. /\ e \in sent /\ inbox' = Tail(inbox) /\ history' = history /\ stream' = stream
          /\ Range(inbox) = {Head(inbox)} \cup Range(Tail(inbox))
          /\ cursor' = cursor /\ tail = "on"
      BY <1>t, <1>5, <1>r, TakeFacts DEF Take, Typed, external, History
    <2>2. \/ Head(inbox) \in batch'
          \/ {d \in batch \cup {Head(inbox)} : After(d, cursor)} = {}
      BY <1>5 DEF Take
    <2>3. e # Head(inbox)
      BY <1>k, <2>2 DEF Known
    <2>4. QED
      BY <1>2, <2>1, <2>3
  <1>6. CASE UNCHANGED <<inbox, history, stream, sent>> /\ tail = "on"
    BY <1>2, <1>6
  <1>7. ~Break
    BY DEF Break
  <1>8. QED
    BY <1>r, <1>1, <1>3, <1>4, <1>5, <1>6, <1>7

-----------------------------------------------------------------------------
(* The theorems.                                                           *)

\* The invariant holds at the start.
LEMMA InitSInv == ASSUME ConstantsOK, Init PROVE SInv
  <1>1. DOMAIN history = {} /\ DOMAIN inbox = {} /\ DOMAIN stream = {}
    BY DEF Init
  <1>2. Range(history) = {} /\ Range(inbox) = {} /\ Range(stream) = {}
    BY <1>1 DEF Range
  <1>3. Typed
    <2>1. <<>> \in Seq(Events) /\ Len(<<>>) = 0
      OBVIOUS
    <2>2. 0 <= StreamSize /\ 0 <= HistoryLimit /\ 0 <= BufferSize
      BY DEF ConstantsOK
    <2>3. QED
      BY <2>1, <2>2, NoCursor DEF Init, Typed
  <1>4. TypeOK
    BY <1>3, TypedTypeOK
  <1>5. Cursors3
    BY <1>4, ZeroSound, NoCursor DEF Init, Cursors3
  <1>6. Session /\ Heard /\ Saved /\ InHand /\ Ordered /\ Tailed
    BY <1>1, <1>2 DEF Init, Session, Working, OfTail, Heard, Saved, InHand, Ordered, Tailed
  <1>7. QED
    BY <1>4, <1>5, <1>6 DEF SInv

\* Every step preserves it.
LEMMA NextSInv == ASSUME ConstantsOK, SInv, [Next]_vars PROVE SInv'
  <1>1. TypeOK' /\ Session' /\ Heard'
    BY TypeStep, SessionStep, HeardStep DEF SInv
  <1>2. Cursors3' /\ Saved' /\ InHand'
    BY CursorsStep, SavedStep, InHandStep DEF SInv
  <1>3. Ordered' /\ Tailed'
    BY OrderedStep, TailedStep DEF SInv
  <1>4. QED
    BY <1>1, <1>2, <1>3 DEF SInv

\* The invariant of the sync: the parts of its session, where the events are,
\* what the cursors have passed, and that the tail brings the events in order.
THEOREM Inductive == ConstantsOK => (Spec => []SInv)
  <1> SUFFICES ASSUME ConstantsOK
               PROVE  Spec => []SInv
    OBVIOUS
  <1>1. Init => SInv
    BY InitSInv
  <1>2. SInv /\ [Next]_vars => SInv'
    BY NextSInv
  <1>3. QED
    BY <1>1, <1>2, PTL DEF Spec

\* The types, the limits of the channels among them.
THEOREM TypeCorrect == ConstantsOK => (Spec => []TypeOK)
  <1> SUFFICES ASSUME ConstantsOK
               PROVE  Spec => []TypeOK
    OBVIOUS
  <1>1. SInv => TypeOK
    BY DEF SInv
  <1>2. QED
    BY <1>1, Inductive, PTL

\* No cursor, in memory, in the file or in its backup, passes a stored event
\* that was not processed, whatever the page limits, the sizes of the channels,
\* the order of the timestamps, the faults and the restarts; but for an event
\* that was stored behind a later one, was cut from a page within its timestamp,
\* or did not reach the tail.
THEOREM CursorHolds == ConstantsOK => (Spec => []CursorCovers)
  <1> SUFFICES ASSUME ConstantsOK
               PROVE  Spec => []CursorCovers
    OBVIOUS
  <1>1. SInv => CursorCovers
    BY DEF SInv, Cursors3, Sound, Passes, CursorCovers, OnDisk
  <1>2. QED
    BY <1>1, Inductive, PTL

=============================================================================
