--------------------------- MODULE DuckSinkProofs ---------------------------
(***************************************************************************)
(* A row whose WriteEvent returned nil is stored, on its way, or lost with *)
(* a batch whose error is reported, and it is stored once, in both modes   *)
(* of the DuckDB sink, for any callers, sizes and failures.                *)
(***************************************************************************)
EXTENDS DuckSink, TLAPS

-----------------------------------------------------------------------------
(* The invariant.                                                          *)

\* What the proofs ask of the constants.
ConstantsOK ==
    /\ Modes \subseteq {"buffered", "writer"}
    /\ BatchSize \in Nat \ {0} /\ QueueSize \in Nat
    /\ Rows \cap {Flusher, Closer, Ticker, Writer, None} = {}

\* Where each goroutine can be in a mode.
Places ==
    IF mode = "buffered"
    THEN /\ \A r \in Rows : pc[r] \in {"new", "acquire", "exec", "ok", "error"}
         /\ pc[Flusher] \in {"new", "acquire", "take", "exec", "ok", "error"}
         /\ pc[Closer] \in {"new", "join", "acquire", "take", "exec", "ok", "error"}
         /\ pc[Ticker] \in {"idle", "acquire", "take", "exec", "gone"}
         /\ pc[Writer] = "gone"
    ELSE /\ \A r \in Rows : pc[r] \in {"new", "send", "ok", "error"}
         /\ pc[Flusher] \in {"new", "wait", "ok", "error"}
         /\ pc[Closer] \in {"new", "join", "ok", "error"}
         /\ pc[Ticker] = "gone"
         /\ pc[Writer] \in {"prepare", "collect", "exec", "drain", "last", "gone", "dead"}

\* Who can have rows in hand, and a WriteEvent has its own.
Holding ==
    /\ mode = "buffered" => channel = <<>>
    /\ mode = "writer" => buffer = <<>>
    /\ \A p \in Procs : hand[p] # <<>> =>
          IF p = Writer THEN pc[p] \in {"collect", "exec", "drain", "last"}
          ELSE mode = "buffered" /\ pc[p] \in IF p \in Rows THEN {"acquire", "exec"} ELSE {"exec"}
    /\ \A r \in Rows : pc[r] \in {"acquire", "exec"} => r \in Range(hand[r])

\* flushMu has one holder.
Locked == \A p \in Callers : flushMu = p <=> pc[p] \in {"take", "exec"}

\* What Close has done.
Closing ==
    /\ closed <=> pc[Closer] # "new"
    /\ before \subseteq Returned
    /\ mode = "buffered" /\ pc[Closer] \in {"acquire", "take", "exec", "ok"} => pc[Ticker] = "gone"
    /\ mode = "buffered" /\ pc[Closer] \in {"exec", "ok"} => buffer = <<>> /\ hand[Flusher] = <<>>
    /\ mode = "writer" /\ pc[Writer] \in {"drain", "last", "gone"} => closed
    /\ mode = "writer" /\ pc[Writer] \in {"last", "gone"} => Range(channel) \cap before = {}

\* A row that waits for a batch; a row that is in the table or on its way there.
Waiting == Range(buffer) \cup Range(channel)
Present(x) == x \in Range(table) \cup Waiting \/ \E p \in Procs : x \in Range(hand[p])

\* No row is anywhere twice.
Apart ==
    /\ IsInjective(table) /\ IsInjective(buffer) /\ IsInjective(channel)
    /\ \A p \in Procs : IsInjective(hand[p])
    /\ Range(table) \cap Waiting = {} /\ Range(buffer) \cap Range(channel) = {}
    /\ \A p \in Procs : Range(hand[p]) \cap (Range(table) \cup Waiting) = {}
    /\ \A p, q \in Procs : p # q => Range(hand[p]) \cap Range(hand[q]) = {}
    /\ \A r \in Rows : pc[r] \in {"new", "send"} => ~Present(r)

\* A failure can write the statements of a batch again in mode "writer".
Exact == mode = "buffered" \/ faults = 0

Unique == faults \in Nat /\ (Exact => Apart)

DInv ==
    /\ TypeOK /\ Places /\ Holding /\ Locked /\ Closing
    /\ NothingVanishes /\ LossIsReported /\ Unique

-----------------------------------------------------------------------------
(* Sequences.                                                              *)

\* The set of a sequence.
LEMMA RangeFacts ==
    ASSUME NEW S, NEW s \in Seq(S)
    PROVE  /\ DOMAIN s = 1 .. Len(s) /\ Len(s) \in Nat
           /\ \A i \in DOMAIN s : s[i] \in Range(s) /\ s[i] \in S
           /\ \A x \in Range(s) : \E i \in DOMAIN s : x = s[i]
           /\ Range(s) \subseteq S
  BY DEF Range

\* The empty sequence.
LEMMA EmptyFacts == DOMAIN <<>> = {} /\ Range(<<>>) = {} /\ Len(<<>>) = 0 /\ \A S : <<>> \in Seq(S)
  BY DEF Range

\* A row appended.
LEMMA AppendFacts ==
    ASSUME NEW S, NEW s \in Seq(S), NEW e \in S
    PROVE  /\ Append(s, e) \in Seq(S) /\ Len(Append(s, e)) = Len(s) + 1
           /\ \A i \in 1 .. Len(s) : Append(s, e)[i] = s[i]
           /\ Append(s, e)[Len(s) + 1] = e
           /\ Range(Append(s, e)) = Range(s) \cup {e}
  <1>1. /\ Append(s, e) \in Seq(S) /\ Len(Append(s, e)) = Len(s) + 1
        /\ \A i \in 1 .. Len(s) : Append(s, e)[i] = s[i]
        /\ Append(s, e)[Len(s) + 1] = e
    OBVIOUS
  <1>2. DOMAIN Append(s, e) = 1 .. Len(s) + 1 /\ DOMAIN s = 1 .. Len(s) /\ Len(s) \in Nat
    BY <1>1
  <1>3. ASSUME NEW x \in Range(Append(s, e))
        PROVE  x \in Range(s) \cup {e}
    <2>1. PICK i \in 1 .. Len(s) + 1 : x = Append(s, e)[i]
      BY <1>2, <1>3 DEF Range
    <2>2. i \in 1 .. Len(s) \/ i = Len(s) + 1
      BY <1>2
    <2>3. QED
      BY <1>1, <1>2, <2>1, <2>2 DEF Range
  <1>4. e \in Range(Append(s, e))
    <2>1. Len(s) + 1 \in DOMAIN Append(s, e)
      BY <1>2
    <2>2. QED
      BY <1>1, <2>1 DEF Range
  <1>5. ASSUME NEW x \in Range(s)
        PROVE  x \in Range(Append(s, e))
    <2>1. PICK i \in 1 .. Len(s) : x = s[i]
      BY <1>2, <1>5 DEF Range
    <2>2. i \in DOMAIN Append(s, e) /\ Append(s, e)[i] = x
      BY <1>1, <1>2, <2>1
    <2>3. QED
      BY <2>2 DEF Range
  <1>6. QED
    BY <1>1, <1>3, <1>4, <1>5

\* A row taken off.
LEMMA TakeFacts ==
    ASSUME NEW S, NEW s \in Seq(S), s # <<>>
    PROVE  /\ Head(s) \in S /\ Head(s) = s[1] /\ 1 \in DOMAIN s
           /\ Tail(s) \in Seq(S) /\ Len(Tail(s)) = Len(s) - 1
           /\ \A i \in DOMAIN Tail(s) : Tail(s)[i] = s[i + 1] /\ i + 1 \in DOMAIN s
           /\ Range(s) = {Head(s)} \cup Range(Tail(s))
  <1>1. /\ Head(s) \in S /\ Head(s) = s[1] /\ 1 \in DOMAIN s
        /\ Tail(s) \in Seq(S) /\ Len(Tail(s)) = Len(s) - 1
        /\ \A i \in DOMAIN Tail(s) : Tail(s)[i] = s[i + 1] /\ i + 1 \in DOMAIN s
    OBVIOUS
  <1>2. ASSUME NEW i \in DOMAIN s, i # 1
        PROVE  i - 1 \in DOMAIN Tail(s) /\ Tail(s)[i - 1] = s[i]
    BY <1>1, <1>2
  <1>3. ASSUME NEW x \in Range(s)
        PROVE  x \in {Head(s)} \cup Range(Tail(s))
    <2>1. PICK i \in DOMAIN s : x = s[i]
      BY <1>3 DEF Range
    <2>2. CASE i = 1
      BY <1>1, <2>1, <2>2
    <2>3. CASE i # 1
      BY <1>2, <2>1, <2>3 DEF Range
    <2>4. QED
      BY <2>2, <2>3
  <1>4. ASSUME NEW x \in {Head(s)} \cup Range(Tail(s))
        PROVE  x \in Range(s)
    <2>1. CASE x = Head(s)
      BY <1>1, <2>1 DEF Range
    <2>2. CASE x \in Range(Tail(s))
      <3>1. PICK i \in DOMAIN Tail(s) : x = Tail(s)[i]
        BY <2>2 DEF Range
      <3>2. QED
        BY <1>1, <3>1 DEF Range
    <2>3. QED
      BY <1>4, <2>1, <2>2
  <1>5. Range(s) = {Head(s)} \cup Range(Tail(s))
    BY <1>3, <1>4
  <1>6. QED
    BY <1>1, <1>5

\* One sequence after another.
LEMMA ConcatFacts ==
    ASSUME NEW S, NEW s \in Seq(S), NEW t \in Seq(S)
    PROVE  /\ s \o t \in Seq(S)
           /\ Range(s \o t) = Range(s) \cup Range(t)
           /\ IsInjective(s) /\ IsInjective(t) /\ Range(s) \cap Range(t) = {} => IsInjective(s \o t)
  <1>1. /\ s \o t \in Seq(S) /\ Len(s \o t) = Len(s) + Len(t)
        /\ Len(s) \in Nat /\ Len(t) \in Nat
        /\ \A i \in 1 .. Len(s) : (s \o t)[i] = s[i]
        /\ \A i \in 1 .. Len(t) : (s \o t)[Len(s) + i] = t[i]
    OBVIOUS
  <1>2. DOMAIN (s \o t) = 1 .. Len(s) + Len(t) /\ DOMAIN s = 1 .. Len(s) /\ DOMAIN t = 1 .. Len(t)
    BY <1>1
  <1>3. ASSUME NEW i \in DOMAIN (s \o t)
        PROVE  \/ i \in DOMAIN s /\ (s \o t)[i] = s[i]
               \/ i - Len(s) \in DOMAIN t /\ (s \o t)[i] = t[i - Len(s)]
    <2>1. i \in 1 .. Len(s) \/ (i - Len(s) \in 1 .. Len(t) /\ i = Len(s) + (i - Len(s)))
      BY <1>1, <1>2
    <2>2. QED
      BY <1>1, <1>2, <2>1
  <1>4. Range(s \o t) \subseteq Range(s) \cup Range(t)
    BY <1>3 DEF Range
  <1>5. Range(s) \subseteq Range(s \o t)
    BY <1>1, <1>2 DEF Range
  <1>6. ASSUME NEW i \in DOMAIN t
        PROVE  Len(s) + i \in DOMAIN (s \o t) /\ (s \o t)[Len(s) + i] = t[i]
    BY <1>1, <1>2
  <1>7. Range(t) \subseteq Range(s \o t)
    BY <1>6 DEF Range
  <1>8. ASSUME IsInjective(s), IsInjective(t), Range(s) \cap Range(t) = {},
               NEW i \in DOMAIN (s \o t), NEW j \in DOMAIN (s \o t), (s \o t)[i] = (s \o t)[j]
        PROVE  i = j
    <2>0. i \in Int /\ j \in Int /\ Len(s) \in Int
      BY <1>1, <1>2
    <2>1. CASE i \in DOMAIN s /\ (s \o t)[i] = s[i] /\ j \in DOMAIN s /\ (s \o t)[j] = s[j]
      BY <1>8, <2>1 DEF IsInjective
    <2>2. CASE /\ i - Len(s) \in DOMAIN t /\ (s \o t)[i] = t[i - Len(s)]
               /\ j - Len(s) \in DOMAIN t /\ (s \o t)[j] = t[j - Len(s)]
      <3>1. i - Len(s) = j - Len(s)
        BY <1>8, <2>2 DEF IsInjective
      <3>2. QED
        BY <2>0, <3>1
    <2>3. ~(s[i] = t[j - Len(s)] /\ i \in DOMAIN s /\ j - Len(s) \in DOMAIN t)
      BY <1>8 DEF Range
    <2>4. ~(s[j] = t[i - Len(s)] /\ j \in DOMAIN s /\ i - Len(s) \in DOMAIN t)
      BY <1>8 DEF Range
    <2>5. QED
      BY <1>3, <1>8, <2>1, <2>2, <2>3, <2>4
  <1>9. QED
    BY <1>1, <1>4, <1>5, <1>7, <1>8 DEF IsInjective

\* A new row keeps a sequence without repetitions.
LEMMA AppendInjective ==
    ASSUME NEW S, NEW s \in Seq(S), NEW e \in S, IsInjective(s), e \notin Range(s)
    PROVE  IsInjective(Append(s, e))
  <1>1. DOMAIN Append(s, e) = 1 .. Len(s) + 1 /\ DOMAIN s = 1 .. Len(s) /\ Len(s) \in Nat
    BY AppendFacts
  <1>2. ASSUME NEW i \in DOMAIN Append(s, e), i \notin DOMAIN s
        PROVE  i = Len(s) + 1
    BY <1>1, <1>2
  <1>3. /\ \A i \in DOMAIN s : Append(s, e)[i] = s[i]
        /\ Append(s, e)[Len(s) + 1] = e
    BY <1>1, AppendFacts
  <1>4. QED
    BY <1>2, <1>3 DEF IsInjective, Range

\* So does taking one off.
LEMMA TailInjective ==
    ASSUME NEW S, NEW s \in Seq(S), s # <<>>, IsInjective(s)
    PROVE  IsInjective(Tail(s)) /\ Head(s) \notin Range(Tail(s))
  <1>1. DOMAIN Tail(s) \subseteq Int /\ \A i \in DOMAIN Tail(s) : i # 0 /\ i \in Nat
    BY TakeFacts
  <1>2. ASSUME NEW i \in DOMAIN Tail(s), NEW j \in DOMAIN Tail(s), Tail(s)[i] = Tail(s)[j]
        PROVE  i = j
    <2>1. i + 1 = j + 1
      BY <1>2, TakeFacts DEF IsInjective
    <2>2. QED
      BY <1>1, <2>1
  <1>3. ASSUME NEW i \in DOMAIN Tail(s), Head(s) = Tail(s)[i]
        PROVE  FALSE
    <2>1. i + 1 = 1
      BY <1>3, TakeFacts DEF IsInjective
    <2>2. QED
      BY <1>1, <2>1
  <1>4. QED
    BY <1>2, <1>3 DEF IsInjective, Range

\* The part of a batch that was written before a failure.
LEMMA PartFacts ==
    ASSUME NEW S, NEW s \in Seq(S), NEW k \in 0 .. Len(s)
    PROVE  SubSeq(s, 1, k) \in Seq(S)
  OBVIOUS

-----------------------------------------------------------------------------
(* Types.                                                                  *)

States == {"new", "ok", "error", "acquire", "take", "exec", "idle", "gone", "send",
           "prepare", "collect", "drain", "last", "wait", "join", "dead"}

\* The type invariant, taken apart.
Typed ==
    /\ mode \in Modes /\ pc \in [Procs -> States] /\ hand \in [Procs -> Seq(Rows)]
    /\ buffer \in Seq(Rows) /\ channel \in Seq(Rows) /\ table \in Seq(Rows)
    /\ lastErr \in BOOLEAN /\ closed \in BOOLEAN
    /\ Len(buffer) < BatchSize /\ Len(channel) <= QueueSize
    /\ flushMu \in Callers \cup {None}
    /\ lost \subseteq Rows /\ unreported \subseteq Rows /\ before \subseteq Rows

\* It is the type invariant.
LEMMA TypedTypeOK == (TypeOK <=> Typed) /\ (TypeOK' <=> Typed')
  BY DEF TypeOK, Typed, States

\* The goroutines are apart, and so are the modes.
LEMMA Names ==
    ASSUME ConstantsOK
    PROVE  /\ Flusher \notin Rows /\ Closer \notin Rows /\ Ticker \notin Rows
           /\ Writer \notin Rows /\ Writer \notin Callers
           /\ Flusher # Closer /\ Flusher # Ticker /\ Closer # Ticker
           /\ Writer # Flusher /\ Writer # Closer /\ Writer # Ticker
           /\ Callers = Rows \cup {Flusher, Closer, Ticker}
           /\ Procs = Rows \cup {Flusher, Closer, Ticker, Writer}
           /\ Callers \subseteq Procs /\ Rows \subseteq Callers
           /\ None \notin Procs /\ None \notin Callers
  BY DEF ConstantsOK, Flusher, Closer, Ticker, Writer, None, Callers, Procs

\* What stays of a batch that was partly written.
LEMMA WriteFacts ==
    ASSUME Typed, NEW k \in 0 .. Len(hand[Writer]), NEW again \in BOOLEAN, NEW failed \in BOOLEAN,
           NEW new, new = table \o (IF again THEN SubSeq(hand[Writer], 1, k) ELSE <<>>)
                                \o (IF failed THEN SubSeq(hand[Writer], 1, k) ELSE hand[Writer])
    PROVE  /\ new \in Seq(Rows)
           /\ hand[Writer] \in Seq(Rows)
           /\ Range(table) \subseteq Range(new)
           /\ failed => Range(SubSeq(hand[Writer], 1, k)) \subseteq Range(new)
           /\ ~failed => Range(hand[Writer]) \subseteq Range(new)
           /\ ~again /\ ~failed => new = table \o hand[Writer]
  <1>1. hand[Writer] \in Seq(Rows) /\ table \in Seq(Rows)
    BY DEF Typed, Procs
  <1> DEFINE part == SubSeq(hand[Writer], 1, k)
             x == IF again THEN part ELSE <<>>
             y == IF failed THEN part ELSE hand[Writer]
  <1>2. part \in Seq(Rows)
    BY <1>1, PartFacts
  <1>3. x \in Seq(Rows) /\ y \in Seq(Rows)
    BY <1>1, <1>2, EmptyFacts
  <1>4. new = (table \o x) \o y
    OBVIOUS
  <1>5. ~again => table \o x = table
    BY <1>1
  <1>6. failed => y = part
    OBVIOUS
  <1>7. ~failed => y = hand[Writer]
    OBVIOUS
  <1> HIDE DEF part, x, y
  <1>8. table \o x \in Seq(Rows) /\ Range(table \o x) = Range(table) \cup Range(x)
    BY <1>1, <1>3, ConcatFacts
  <1>9. new \in Seq(Rows) /\ Range(new) = Range(table \o x) \cup Range(y)
    <2> DEFINE u == table \o x
    <2>1. u \in Seq(Rows) /\ y \in Seq(Rows) /\ new = u \o y
      BY <1>3, <1>4, <1>8
    <2> HIDE DEF u
    <2>2. u \o y \in Seq(Rows) /\ Range(u \o y) = Range(u) \cup Range(y)
      BY <2>1, ConcatFacts
    <2>3. QED
      BY <2>1, <2>2 DEF u
  <1>10. failed => Range(part) \subseteq Range(new)
    BY <1>6, <1>9
  <1>11. QED
    BY <1>1, <1>4, <1>5, <1>7, <1>8, <1>9, <1>10 DEF part

\* Types and capacities.
LEMMA TypeStep ==
    ASSUME ConstantsOK, TypeOK, [Next]_vars
    PROVE  TypeOK'
  <1> SUFFICES Typed'
    BY TypedTypeOK
  <1>t. Typed
    BY TypedTypeOK
  <1>n. Callers \subseteq Procs /\ Rows \subseteq Callers /\ Writer \in Procs /\ Flusher \in Procs
        /\ Closer \in Procs /\ Ticker \in Procs /\ BatchSize \in Nat \ {0} /\ QueueSize \in Nat
    BY Names DEF ConstantsOK
  <1>h. \A p \in Procs : hand[p] \in Seq(Rows) /\ Range(hand[p]) \subseteq Rows
    BY <1>t, RangeFacts DEF Typed
  <1>b. Range(buffer) \subseteq Rows /\ <<>> \in Seq(Rows) /\ Len(<<>>) = 0
    BY <1>t, RangeFacts, EmptyFacts DEF Typed
  <1>1. ASSUME NEW r \in Callers, Buffer(r) PROVE Typed'
    <2>1. r \in Rows /\ r \in Procs
      BY <1>1, <1>n DEF Buffer
    <2>2. Append(buffer, r) \in Seq(Rows) /\ Len(Append(buffer, r)) = Len(buffer) + 1
      BY <1>t, <2>1, AppendFacts DEF Typed
    <2>3. CASE closed
      BY <1>1, <1>t, <1>n, <1>h, <2>1, <2>3 DEF Typed, Buffer, Return, States
    <2>4. CASE ~closed
      <3>1. UNCHANGED <<mode, channel, flushMu, closed, table, before>>
            /\ unreported' = {} /\ lastErr' = FALSE
        BY <1>1, <2>4 DEF Buffer
      <3>2. pc' \in [Procs -> States]
        BY <1>1, <1>t, <2>1, <2>4 DEF Typed, Buffer, States
      <3>3. hand' \in [Procs -> Seq(Rows)]
        BY <1>1, <1>t, <1>b, <2>1, <2>2, <2>4 DEF Typed, Buffer
      <3>4. lost' \subseteq Rows
        BY <1>1, <1>t, <1>b, <2>1, <2>4 DEF Typed, Buffer
      <3>5. buffer' \in Seq(Rows) /\ Len(buffer') < BatchSize
        <4>1. CASE Fills(buffer)
          <5>1. buffer' = <<>>
            BY <1>1, <2>4, <4>1 DEF Buffer
          <5>2. Len(buffer') = 0
            BY <5>1
          <5>3. QED
            BY <1>b, <1>n, <5>1, <5>2
        <4>2. CASE ~Fills(buffer)
          <5>1. buffer' = Append(buffer, r)
            BY <1>1, <2>4, <4>2 DEF Buffer
          <5>2. Len(buffer) \in Nat
            BY <1>t, RangeFacts DEF Typed
          <5>3. QED
            BY <1>n, <2>2, <4>2, <5>1, <5>2 DEF Fills
        <4>3. QED
          BY <4>1, <4>2
      <3>6. QED
        BY <1>t, <3>1, <3>2, <3>3, <3>4, <3>5 DEF Typed
    <2>5. QED
      BY <2>3, <2>4
  <1>2. ASSUME NEW p \in Callers, Flush(p) PROVE Typed'
    BY <1>2, <1>t, <1>n DEF Typed, Flush, States
  <1>3. ASSUME NEW p \in Callers, Acquire(p) PROVE Typed'
    BY <1>3, <1>t, <1>n, <1>h, <1>b, ZenonT(60) DEF Typed, Acquire, Return, States
  <1>4. ASSUME NEW p \in Callers, Take(p) PROVE Typed'
    <2>1. p \in Procs
      BY <1>n
    <2>2. pc' \in [Procs -> States]
      BY <1>4, <1>t, <2>1 DEF Typed, Take, States
    <2>3. hand' \in [Procs -> Seq(Rows)]
      BY <1>4, <1>t, <2>1 DEF Typed, Take
    <2>4. buffer' = <<>> /\ UNCHANGED <<mode, channel, closed, table, before>>
      BY <1>4 DEF Take
    <2>5. lastErr' \in BOOLEAN /\ flushMu' \in Callers \cup {None}
          /\ lost' \subseteq Rows /\ unreported' \subseteq Rows
      BY <1>4, <1>t, <1>b DEF Typed, Take
    <2>6. buffer' \in Seq(Rows) /\ Len(buffer') < BatchSize
      <3>1. Len(buffer') = 0
        BY <2>4
      <3>2. QED
        BY <1>b, <1>n, <2>4, <3>1
    <2>7. QED
      BY <1>t, <2>2, <2>3, <2>4, <2>5, <2>6 DEF Typed
  <1>5. ASSUME NEW p \in Callers, Exec(p) PROVE Typed'
    <2>1. p \in Procs
      BY <1>n
    <2>2. pc' \in [Procs -> States]
      BY <1>5, <1>t, <2>1 DEF Typed, Exec, Return, States
    <2>3. hand' \in [Procs -> Seq(Rows)]
      BY <1>5, <1>t, <1>b, <2>1 DEF Typed, Exec
    <2>4. flushMu' = None /\ UNCHANGED <<mode, buffer, channel, closed, before>>
      BY <1>5 DEF Exec
    <2>5. lastErr' \in BOOLEAN /\ lost' \subseteq Rows /\ unreported' \subseteq Rows
      BY <1>5, <1>t, <1>h, <2>1 DEF Typed, Exec, Return
    <2>6. table \o hand[p] \in Seq(Rows)
      BY <1>t, <1>h, <2>1, ConcatFacts DEF Typed
    <2>7. table' \in Seq(Rows)
      BY <1>5, <1>t, <2>6 DEF Typed, Exec
    <2>8. QED
      BY <1>t, <2>2, <2>3, <2>4, <2>5, <2>7 DEF Typed
  <1>6. CASE TickerExit
    BY <1>6, <1>t, <1>n DEF Typed, TickerExit, States
  <1>7. ASSUME NEW r \in Rows, Look(r) PROVE Typed'
    BY <1>7, <1>t, <1>n DEF Typed, Look, States
  <1>8. ASSUME NEW r \in Rows, Send(r) PROVE Typed'
    <2>1. Append(channel, r) \in Seq(Rows) /\ Len(Append(channel, r)) = Len(channel) + 1
          /\ Len(channel) \in Nat
      BY <1>t, AppendFacts, RangeFacts DEF Typed
    <2>2. channel' \in Seq(Rows) /\ Len(channel') <= QueueSize
      <3>1. CASE Len(channel) < QueueSize /\ channel' = Append(channel, r)
        BY <1>n, <2>1, <3>1
      <3>2. CASE channel' = channel
        BY <1>t, <3>2 DEF Typed
      <3>3. QED
        BY <1>8, <3>1, <3>2 DEF Send
    <2>3. pc' \in [Procs -> States]
      BY <1>8, <1>t, <1>n DEF Typed, Send, States
    <2>4. QED
      BY <1>8, <1>t, <2>2, <2>3 DEF Typed, Send
  <1>9. CASE Prepare
    BY <1>9, <1>t, <1>n DEF Typed, Prepare, States
  <1>10. CASE Collect
    <2>1. channel # <<>> /\ channel \in Seq(Rows)
      BY <1>10, <1>t DEF Typed, Collect
    <2>2. Head(channel) \in Rows /\ Tail(channel) \in Seq(Rows)
          /\ Len(Tail(channel)) = Len(channel) - 1 /\ Len(channel) \in Nat
      BY <2>1, TakeFacts, RangeFacts
    <2>3. Append(hand[Writer], Head(channel)) \in Seq(Rows)
      BY <1>h, <1>n, <2>2, AppendFacts
    <2>4. hand' \in [Procs -> Seq(Rows)] /\ pc' \in [Procs -> States]
      BY <1>10, <1>t, <1>n, <2>3 DEF Typed, Collect, States
    <2>5. QED
      BY <1>10, <1>t, <1>n, <2>2, <2>4 DEF Typed, Collect
  <1>11. CASE Tick \/ Drain \/ Drained
    BY <1>11, <1>t, <1>n DEF Typed, Tick, Drain, Drained, States
  <1>12. CASE WriteBatch
    <2>1. PICK k \in 0 .. Len(hand[Writer]), again \in BOOLEAN, failed \in BOOLEAN :
             /\ table' = table \o (IF again THEN SubSeq(hand[Writer], 1, k) ELSE <<>>)
                               \o (IF failed THEN SubSeq(hand[Writer], 1, k) ELSE hand[Writer])
             /\ lost' \subseteq lost \cup Range(hand[Writer])
             /\ lastErr' = (lastErr \/ failed)
             /\ unreported' \subseteq unreported \cup Range(hand[Writer])
             /\ pc' = [p \in Procs |->
                          CASE p = Writer -> IF pc[Writer] = "exec" THEN "collect" ELSE "gone"
                            [] p = Flusher /\ pc[p] = "wait" -> IF failed THEN "error" ELSE "ok"
                            [] OTHER -> pc[p]]
      BY <1>12, ZenonT(60) DEF WriteBatch
    <2>2. table' \in Seq(Rows)
      BY <1>t, <2>1, WriteFacts
    <2>3. pc' \in [Procs -> States]
      BY <1>t, <1>n, <2>1 DEF Typed, States
    <2>4. hand' \in [Procs -> Seq(Rows)]
          /\ UNCHANGED <<mode, buffer, channel, flushMu, closed, before>>
      BY <1>12, <1>t, <1>b DEF Typed, WriteBatch
    <2>5. lost' \subseteq Rows /\ unreported' \subseteq Rows /\ lastErr' \in BOOLEAN
      BY <1>t, <1>h, <1>n, <2>1 DEF Typed
    <2>6. QED
      BY <1>t, <2>2, <2>3, <2>4, <2>5 DEF Typed
  <1>13. CASE RequestFlush
    BY <1>13, <1>t, <1>n, <1>h DEF Typed, RequestFlush, Return, States
  <1>14. CASE Close
    BY <1>14, <1>t, <1>n DEF Typed, Close, Returned, States
  <1>15. CASE CloseReturns
    BY <1>15, <1>t, <1>n DEF Typed, CloseReturns, States
  <1>16. CASE UNCHANGED vars
    BY <1>16, <1>t DEF Typed, vars
  <1>17. QED
    BY <1>1, <1>2, <1>3, <1>4, <1>5, <1>6, <1>7, <1>8, <1>9, <1>10, <1>11, <1>12, <1>13, <1>14,
       <1>15, <1>16 DEF Next, Buffered, WriterStep

-----------------------------------------------------------------------------
(* Where the goroutines are.                                               *)

\* The mode stays.
LEMMA ModeStays == ASSUME [Next]_vars PROVE mode' = mode
  BY ZenonT(60) DEF Next, vars, Buffered, WriterStep, Buffer, Flush, Acquire, Take, Exec, TickerExit,
     Look, Send, Prepare, Collect, Tick, Drain, Drained, WriteBatch, RequestFlush, Close, CloseReturns

\* Each goroutine keeps to its places.
LEMMA PlacesStep ==
    ASSUME ConstantsOK, TypeOK, Places, [Next]_vars
    PROVE  Places'
  <1>t. pc \in [Procs -> States] /\ mode \in {"buffered", "writer"} /\ mode' = mode
    BY TypedTypeOK, ModeStays DEF Typed, ConstantsOK
  <1>1. ASSUME NEW r \in Callers, Buffer(r) PROVE Places'
    BY <1>1, <1>t, Names DEF Places, Buffer, Return
  <1>2. ASSUME NEW p \in Callers, Flush(p) PROVE Places'
    BY <1>2, <1>t, Names DEF Places, Flush
  <1>3. ASSUME NEW p \in Callers, Acquire(p) PROVE Places'
    BY <1>3, <1>t, Names DEF Places, Acquire, Return
  <1>4. ASSUME NEW p \in Callers, Take(p) PROVE Places'
    BY <1>4, <1>t, Names DEF Places, Take
  <1>5. ASSUME NEW p \in Callers, Exec(p) PROVE Places'
    BY <1>5, <1>t, Names DEF Places, Exec, Return
  <1>6. CASE TickerExit
    BY <1>6, <1>t, Names DEF Places, TickerExit
  <1>7. ASSUME NEW r \in Rows, Look(r) \/ Send(r) PROVE Places'
    BY <1>7, <1>t, Names DEF Places, Look, Send
  <1>8. CASE Prepare \/ Collect \/ Tick
    BY <1>8, <1>t, Names DEF Places, Prepare, Collect, Tick
  <1>9. CASE Drain \/ Drained
    BY <1>9, <1>t, Names DEF Places, Drain, Drained
  <1>10. CASE WriteBatch
    BY <1>10, <1>t, Names DEF Places, WriteBatch
  <1>11. CASE RequestFlush
    BY <1>11, <1>t, Names DEF Places, RequestFlush, Return
  <1>12. CASE Close \/ CloseReturns
    BY <1>12, <1>t, Names DEF Places, Close, CloseReturns
  <1>13. CASE UNCHANGED vars
    BY <1>13, <1>t DEF Places, vars
  <1>14. QED
    BY <1>1, <1>2, <1>3, <1>4, <1>5, <1>6, <1>7, <1>8, <1>9, <1>10, <1>11, <1>12, <1>13
       DEF Next, Buffered, WriterStep

\* flushMu has one holder.
LEMMA LockedStep ==
    ASSUME ConstantsOK, TypeOK, Places, Locked, [Next]_vars
    PROVE  Locked'
  <1>t. pc \in [Procs -> States] /\ mode \in {"buffered", "writer"} /\ mode' = mode
    BY TypedTypeOK, ModeStays DEF Typed, ConstantsOK
  <1>1. ASSUME NEW r \in Callers, Buffer(r) PROVE Locked'
    BY <1>1, <1>t, Names DEF Locked, Buffer, Return
  <1>2. ASSUME NEW p \in Callers, Flush(p) PROVE Locked'
    BY <1>2, <1>t, Names DEF Locked, Flush
  <1>3. ASSUME NEW p \in Callers, Acquire(p) PROVE Locked'
    BY <1>3, <1>t, Names DEF Locked, Acquire, Return
  <1>4. ASSUME NEW p \in Callers, Take(p) PROVE Locked'
    BY <1>4, <1>t, Names DEF Locked, Take
  <1>5. ASSUME NEW p \in Callers, Exec(p) PROVE Locked'
    BY <1>5, <1>t, Names DEF Locked, Exec, Return
  <1>6. CASE TickerExit
    BY <1>6, <1>t, Names DEF Locked, TickerExit
  <1>7. ASSUME NEW r \in Rows, Look(r) \/ Send(r) PROVE Locked'
    BY <1>7, <1>t, Names DEF Locked, Look, Send
  <1>8. CASE Prepare \/ Collect \/ Tick
    BY <1>8, <1>t, Names DEF Locked, Prepare, Collect, Tick
  <1>9. CASE Drain \/ Drained
    BY <1>9, <1>t, Names DEF Locked, Drain, Drained
  <1>10. CASE WriteBatch
    BY <1>10, <1>t, Names DEF Locked, WriteBatch
  <1>11. CASE RequestFlush
    BY <1>11, <1>t, Names DEF Locked, RequestFlush, Return
  <1>12. CASE Close \/ CloseReturns
    BY <1>12, <1>t, Names DEF Locked, Close, CloseReturns
  <1>13. CASE UNCHANGED vars
    BY <1>13, <1>t DEF Locked, vars
  <1>14. QED
    BY <1>1, <1>2, <1>3, <1>4, <1>5, <1>6, <1>7, <1>8, <1>9, <1>10, <1>11, <1>12, <1>13
       DEF Next, Buffered, WriterStep

\* Rows are held where a batch is collected or written.
LEMMA HoldingStep ==
    ASSUME ConstantsOK, TypeOK, Places, Holding, [Next]_vars
    PROVE  Holding'
  <1>t. /\ Typed /\ pc \in [Procs -> States] /\ hand \in [Procs -> Seq(Rows)]
        /\ mode \in {"buffered", "writer"} /\ mode' = mode
    BY TypedTypeOK, ModeStays DEF Typed, ConstantsOK
  <1>1. ASSUME NEW r \in Callers, Buffer(r) PROVE Holding'
    <2>1. r \in Rows /\ r \in Procs /\ r # Writer /\ mode = "buffered"
      BY <1>1, Names DEF Buffer
    <2>2. r \in Range(Append(buffer, r))
      BY <1>t, <2>1, AppendFacts DEF Typed
    <2>3. CASE closed
      BY <1>1, <1>t, <2>1, <2>3, Names DEF Holding, Buffer, Return
    <2>4. CASE ~closed /\ Fills(buffer) /\ ~lastErr
      <3>1. /\ hand' = [hand EXCEPT ![r] = Append(buffer, r)] /\ pc' = [pc EXCEPT ![r] = "acquire"]
            /\ channel' = channel
        BY <1>1, <2>4 DEF Buffer
      <3>2. QED
        BY <1>t, <2>1, <2>2, <3>1, Names DEF Holding
    <2>5. CASE ~closed /\ ~(Fills(buffer) /\ ~lastErr)
      <3>1. /\ hand' = [hand EXCEPT ![r] = <<>>] /\ channel' = channel
            /\ pc' = [pc EXCEPT ![r] = "error"] \/ pc' = [pc EXCEPT ![r] = "ok"]
        BY <1>1, <2>5 DEF Buffer
      <3>2. QED
        BY <1>t, <2>1, <3>1, Names DEF Holding
    <2>6. QED
      BY <2>3, <2>4, <2>5
  <1>2. ASSUME NEW p \in Callers, Flush(p) PROVE Holding'
    BY <1>2, <1>t, Names DEF Holding, Flush
  <1>3. ASSUME NEW p \in Callers, Acquire(p) PROVE Holding'
    <2>1. p \in Procs /\ p # Writer
      BY Names
    <2>2. UNCHANGED <<buffer, channel>> /\ pc[p] = "acquire"
      BY <1>3 DEF Acquire
    <2>3. CASE hand' = hand
      <3>1. pc' = [pc EXCEPT ![p] = IF p \in Rows THEN "exec" ELSE "take"]
            \/ (hand[p] = <<>> /\ (Return(p, TRUE)))
        BY <1>3, <1>t, <2>1, <2>3 DEF Acquire
      <3>2. QED
        BY <1>t, <2>1, <2>2, <2>3, <3>1, Names, EmptyFacts DEF Holding, Return
    <2>4. CASE Return(p, TRUE) /\ hand' = [hand EXCEPT ![p] = <<>>]
      BY <1>t, <2>1, <2>2, <2>4, Names DEF Holding, Return
    <2>5. QED
      BY <1>3, <2>3, <2>4 DEF Acquire
  <1>4. ASSUME NEW p \in Callers, Take(p) PROVE Holding'
    BY <1>4, <1>t, Names DEF Holding, Places, Take
  <1>5. ASSUME NEW p \in Callers, Exec(p) PROVE Holding'
    <2>1. p \in Procs /\ p # Writer
      BY Names
    <2>2. hand' = [hand EXCEPT ![p] = <<>>] /\ UNCHANGED <<buffer, channel>>
      BY <1>5 DEF Exec
    <2>3. PICK s \in {"idle", "ok", "error"} : pc' = [pc EXCEPT ![p] = s]
      BY <1>5 DEF Exec, Return
    <2>4. QED
      BY <1>t, <2>1, <2>2, <2>3, Names DEF Holding
  <1>6. CASE TickerExit
    BY <1>6, <1>t, Names DEF Holding, TickerExit
  <1>7. ASSUME NEW r \in Rows, Look(r) \/ Send(r) PROVE Holding'
    BY <1>7, <1>t, Names DEF Holding, Places, Look, Send
  <1>8. CASE Prepare \/ Tick
    BY <1>8, <1>t, Names DEF Holding, Prepare, Tick
  <1>9. CASE Collect
    <2>1. /\ pc[Writer] \in {"collect", "drain"} /\ mode = "writer"
          /\ pc' = [pc EXCEPT ![Writer] = "exec"] \/ pc' = pc
          /\ \E s : hand' = [hand EXCEPT ![Writer] = s]
          /\ buffer' = buffer
      BY <1>9, <1>t DEF Collect, Places
    <2>2. QED
      BY <1>t, <2>1, Names DEF Holding
  <1>10. CASE Drain \/ Drained
    BY <1>10, <1>t, Names DEF Holding, Drain, Drained
  <1>11. CASE WriteBatch
    <2>1. /\ hand' = [hand EXCEPT ![Writer] = <<>>] /\ UNCHANGED <<buffer, channel>>
          /\ mode = "writer"
          /\ \A p \in Procs \ {Writer, Flusher} : pc'[p] = pc[p]
          /\ pc'[Flusher] # pc[Flusher] => pc[Flusher] = "wait"
      BY <1>11, <1>t, Names DEF WriteBatch, Places
    <2>2. \A p \in Procs : hand'[p] = <<>> \/ (p # Writer /\ hand'[p] = hand[p])
      BY <1>t, <2>1
    <2>3. QED
      BY <1>t, <2>1, <2>2, Names DEF Holding
  <1>12. CASE RequestFlush
    BY <1>12, <1>t, Names DEF Holding, RequestFlush, Return
  <1>13. CASE Close \/ CloseReturns
    BY <1>13, <1>t, Names DEF Holding, Close, CloseReturns
  <1>14. CASE UNCHANGED vars
    BY <1>14, <1>t DEF Holding, vars
  <1>15. QED
    BY <1>1, <1>2, <1>3, <1>4, <1>5, <1>6, <1>7, <1>8, <1>9, <1>10, <1>11, <1>12, <1>13, <1>14
       DEF Next, Buffered, WriterStep

\* A loss is not forgotten.
LEMMA LossStep ==
    ASSUME ConstantsOK, TypeOK, LossIsReported, [Next]_vars
    PROVE  LossIsReported'
  <1>t. lastErr \in BOOLEAN
    BY TypedTypeOK DEF Typed
  <1>1. ASSUME NEW p \in Callers, Buffered(p) PROVE LossIsReported'
    BY <1>1, <1>t DEF LossIsReported, Buffered, Buffer, Flush, Acquire, Take, Exec, Return
  <1>2. ASSUME NEW r \in Rows, Look(r) \/ Send(r) PROVE LossIsReported'
    BY <1>2, <1>t DEF LossIsReported, Look, Send
  <1>3. CASE WriteBatch
    BY <1>3, <1>t DEF LossIsReported, WriteBatch
  <1>4. CASE RequestFlush
    BY <1>4, <1>t DEF LossIsReported, RequestFlush, Return
  <1>5. CASE Prepare \/ Collect \/ Tick \/ Drain \/ Drained \/ TickerExit \/ Close
    BY <1>5, <1>t DEF LossIsReported, Prepare, Collect, Tick, Drain, Drained, TickerExit, Close
  <1>6. CASE CloseReturns
    BY <1>6 DEF LossIsReported, CloseReturns
  <1>7. CASE UNCHANGED vars
    BY <1>7 DEF LossIsReported, vars
  <1>8. QED
    BY <1>1, <1>2, <1>3, <1>4, <1>5, <1>6, <1>7 DEF Next, WriterStep

-----------------------------------------------------------------------------
(* Close.                                                                  *)

\* A call that returned nil has returned for good.
LEMMA ReturnedStays ==
    ASSUME ConstantsOK, TypeOK, Places, [Next]_vars
    PROVE  Returned \subseteq Returned'
  <1>t. /\ pc \in [Procs -> States] /\ mode \in {"buffered", "writer"} /\ mode' = mode
        /\ Rows \subseteq Procs
    BY TypedTypeOK, ModeStays, Names DEF Typed, ConstantsOK
  <1> SUFFICES ASSUME NEW r \in Rows, pc[r] = "ok"
               PROVE  pc'[r] = "ok"
    BY DEF Returned
  <1>1. ASSUME NEW p \in Callers, Buffered(p) PROVE pc'[r] = "ok"
    <2>1. p # r
      BY <1>1, Names DEF Buffered, Buffer, Flush, Acquire, Take, Exec
    <2>2. \E s : pc' = [pc EXCEPT ![p] = s]
      BY <1>1 DEF Buffered, Buffer, Flush, Acquire, Take, Exec, Return
    <2>3. QED
      BY <1>t, <2>1, <2>2
  <1>2. ASSUME NEW q \in Rows, Look(q) \/ Send(q) PROVE pc'[r] = "ok"
    BY <1>2, <1>t DEF Look, Send
  <1>3. CASE WriteBatch
    BY <1>3, <1>t, Names DEF WriteBatch
  <1>4. CASE RequestFlush
    BY <1>4, <1>t, Names DEF RequestFlush, Return
  <1>5. CASE Prepare \/ Collect \/ Tick \/ Drain \/ Drained \/ TickerExit \/ Close \/ CloseReturns
    BY <1>5, <1>t, Names DEF Prepare, Collect, Tick, Drain, Drained, TickerExit, Close, CloseReturns
  <1>6. CASE UNCHANGED vars
    BY <1>6 DEF vars
  <1>7. QED
    BY <1>1, <1>2, <1>3, <1>4, <1>5, <1>6 DEF Next, WriterStep

\* What Close has done stays done.
LEMMA ClosingStep ==
    ASSUME ConstantsOK, TypeOK, Places, Holding, Locked, Closing, [Next]_vars
    PROVE  Closing'
  <1>t. /\ Typed /\ pc \in [Procs -> States] /\ hand \in [Procs -> Seq(Rows)]
        /\ mode \in {"buffered", "writer"} /\ mode' = mode /\ Rows \subseteq Procs
    BY TypedTypeOK, ModeStays, Names DEF Typed, ConstantsOK
  <1>r. Returned \subseteq Returned'
    BY ReturnedStays
  <1>0. (closed <=> pc[Closer] # "new") /\ before \subseteq Returned
    BY DEF Closing
  <1>1. ASSUME NEW r \in Callers, Buffer(r) PROVE Closing'
    <2>1. r \in Rows /\ mode = "buffered" /\ pc[r] = "new" /\ UNCHANGED <<channel, closed, before>>
      BY <1>1 DEF Buffer
    <2>2. \E s : pc' = [pc EXCEPT ![r] = s]
      BY <1>1 DEF Buffer, Return
    <2>3. pc'[Closer] = pc[Closer] /\ pc'[Ticker] = pc[Ticker] /\ pc'[Writer] = pc[Writer]
      BY <1>t, <2>1, <2>2, Names
    <2>4. closed => UNCHANGED <<buffer, hand>>
      BY <1>1 DEF Buffer
    <2>5. QED
      BY <1>t, <1>r, <1>0, <2>1, <2>3, <2>4 DEF Closing
  <1>2. ASSUME NEW p \in Callers, Flush(p) PROVE Closing'
    BY <1>2, <1>t, <1>r, <1>0, Names DEF Closing, Flush
  <1>3. ASSUME NEW p \in Callers, Acquire(p) PROVE Closing'
    <2>1. /\ pc[p] = "acquire" /\ UNCHANGED <<buffer, channel, closed, before>>
          /\ hand' = hand \/ hand' = [hand EXCEPT ![p] = <<>>]
      BY <1>3 DEF Acquire
    <2>2. PICK s \in {"exec", "take", "idle", "error"} : pc' = [pc EXCEPT ![p] = s]
      BY <1>3 DEF Acquire, Return
    <2>3. p \notin Rows => s # "exec"
      BY <1>3, <1>t, <2>2, Names DEF Acquire, Return
    <2>4. QED
      BY <1>t, <1>r, <1>0, <2>1, <2>2, <2>3, Names DEF Closing, Places
  <1>4. ASSUME NEW p \in Callers, Take(p) PROVE Closing'
    <2>1. /\ pc[p] = "take" /\ buffer' = <<>> /\ UNCHANGED <<channel, closed, before>>
          /\ mode = "buffered" /\ p \notin Rows
          /\ hand' = hand \/ hand' = [hand EXCEPT ![p] = buffer]
      BY <1>4, <1>t, Names DEF Take, Places
    <2>2. PICK s \in {"exec", "idle", "error"} : pc' = [pc EXCEPT ![p] = s]
      BY <1>4 DEF Take
    <2>3. CASE p = Closer
      <3>1. flushMu = Closer /\ flushMu # Flusher
        BY <2>1, <2>3, Names DEF Locked
      <3>2. hand[Flusher] = <<>>
        BY <3>1, Names DEF Locked, Holding
      <3>3. QED
        BY <1>t, <1>r, <1>0, <2>1, <2>2, <2>3, <3>2, Names DEF Closing
    <2>4. CASE p # Closer
      BY <1>t, <1>r, <1>0, <2>1, <2>2, <2>4, Names DEF Closing
    <2>5. QED
      BY <2>3, <2>4
  <1>5. ASSUME NEW p \in Callers, Exec(p) PROVE Closing'
    <2>1. /\ pc[p] = "exec" /\ UNCHANGED <<buffer, channel, closed, before>>
          /\ hand' = [hand EXCEPT ![p] = <<>>]
      BY <1>5 DEF Exec
    <2>2. PICK s \in {"ok", "idle", "error"} : pc' = [pc EXCEPT ![p] = s]
      BY <1>5 DEF Exec, Return
    <2>3. QED
      BY <1>t, <1>r, <1>0, <2>1, <2>2, Names DEF Closing
  <1>6. CASE TickerExit
    BY <1>6, <1>t, <1>r, <1>0, Names DEF Closing, TickerExit
  <1>7. ASSUME NEW r \in Rows, Look(r) PROVE Closing'
    BY <1>7, <1>t, <1>r, <1>0, Names DEF Closing, Look
  <1>8. ASSUME NEW r \in Rows, Send(r) PROVE Closing'
    <2>1. r \notin before
      BY <1>8, <1>0 DEF Send, Returned
    <2>2. Range(Append(channel, r)) = Range(channel) \cup {r}
      BY <1>t, AppendFacts DEF Typed
    <2>3. /\ Range(channel') \subseteq Range(channel) \cup {r}
          /\ UNCHANGED <<buffer, hand, closed, before>>
          /\ \E s : pc' = [pc EXCEPT ![r] = s]
      BY <1>8, <2>2 DEF Send
    <2>4. pc'[Closer] = pc[Closer] /\ pc'[Ticker] = pc[Ticker] /\ pc'[Writer] = pc[Writer]
      BY <1>t, <2>3, Names
    <2>5. QED
      BY <1>t, <1>r, <1>0, <2>1, <2>3, <2>4 DEF Closing
  <1>9. CASE Prepare \/ Tick \/ Drain
    BY <1>9, <1>t, <1>r, <1>0, Names DEF Closing, Prepare, Tick, Drain
  <1>10. CASE Collect
    <2>1. /\ pc[Writer] \in {"collect", "drain"} /\ mode = "writer"
          /\ pc' = [pc EXCEPT ![Writer] = "exec"] \/ pc' = pc
          /\ pc[Writer] = "drain" => pc' = pc
          /\ UNCHANGED <<closed, before>>
      BY <1>10, <1>t, Names DEF Collect, Places
    <2>2. QED
      BY <1>t, <1>r, <1>0, <2>1, Names DEF Closing
  <1>11. CASE Drained
    <2>1. Range(channel) = {}
      BY <1>11, EmptyFacts DEF Drained
    <2>2. QED
      BY <1>11, <1>t, <1>r, <1>0, <2>1, Names DEF Closing, Drained
  <1>12. CASE WriteBatch
    <2>1. /\ UNCHANGED <<channel, closed, before>> /\ mode = "writer"
          /\ pc'[Closer] = pc[Closer]
          /\ pc'[Writer] = "collect" \/ (pc[Writer] = "last" /\ pc'[Writer] = "gone")
      BY <1>12, <1>t, Names DEF WriteBatch, Places
    <2>2. QED
      BY <1>t, <1>r, <1>0, <2>1 DEF Closing
  <1>13. CASE RequestFlush
    BY <1>13, <1>t, <1>r, <1>0, Names DEF Closing, RequestFlush, Return
  <1>14. CASE Close
    <2>1. /\ pc[Closer] = "new" /\ pc' = [pc EXCEPT ![Closer] = "join"]
          /\ closed' = TRUE /\ before' = Returned /\ channel' = channel
      BY <1>14 DEF Close
    <2>2. ~closed /\ ~(mode = "writer" /\ pc[Writer] \in {"last", "gone"})
      BY <1>0, <2>1 DEF Closing
    <2>3. QED
      BY <1>t, <1>r, <2>1, <2>2, Names DEF Closing
  <1>15. CASE CloseReturns
    BY <1>15, <1>t, <1>r, <1>0, Names DEF Closing, CloseReturns
  <1>16. CASE UNCHANGED vars
    BY <1>16, <1>t, <1>r DEF Closing, vars, Returned
  <1>17. QED
    BY <1>1, <1>2, <1>3, <1>4, <1>5, <1>6, <1>7, <1>8, <1>9, <1>10, <1>11, <1>12, <1>13, <1>14,
       <1>15, <1>16 DEF Next, Buffered, WriterStep

-----------------------------------------------------------------------------
(* Where rows are.                                                         *)

\* A row is in the table, on its way, or lost.
Around(x) ==
    \/ x \in Range(table) \/ x \in Range(buffer) \/ x \in Range(channel) \/ x \in lost
    \/ \E p \in Procs : x \in Range(hand[p])

\* NothingVanishes, row by row.
LEMMA VanishAround ==
    /\ NothingVanishes <=> \A r \in Rows : pc[r] = "ok" => Around(r)
    /\ NothingVanishes' <=> \A r \in Rows : pc'[r] = "ok" => Around(r)'
  BY DEF NothingVanishes, Returned, Pending, Around

\* A batch that moves from one place to another.
LEMMA AroundMoves ==
    ASSUME Typed, NEW p \in Procs, NEW h \in Seq(Rows), hand' = [hand EXCEPT ![p] = h],
           NEW x, Around(x),
           x \in Range(table) => x \in Range(table'),
           x \in lost => x \in lost',
           x \in Range(buffer) => Around(x)',
           x \in Range(channel) => Around(x)',
           x \in Range(hand[p]) => Around(x)'
    PROVE  Around(x)'
  <1>1. hand \in [Procs -> Seq(Rows)]
    BY DEF Typed
  <1>2. ASSUME NEW q \in Procs, q # p, x \in Range(hand[q])
        PROVE  Around(x)'
    <2>1. hand'[q] = hand[q]
      BY <1>1, <1>2
    <2>2. QED
      BY <1>2, <2>1 DEF Around
  <1>3. QED
    BY <1>2 DEF Around

\* No row is taken out of sight, and one that returns nil is in sight.
LEMMA VanishStep ==
    ASSUME ConstantsOK, TypeOK, Places, Holding, NothingVanishes, [Next]_vars
    PROVE  NothingVanishes'
  <1>t. /\ Typed /\ pc \in [Procs -> States] /\ hand \in [Procs -> Seq(Rows)]
        /\ mode \in {"buffered", "writer"} /\ mode' = mode
        /\ Rows \subseteq Procs /\ Callers \subseteq Procs /\ Writer \in Procs
        /\ buffer \in Seq(Rows) /\ channel \in Seq(Rows) /\ table \in Seq(Rows)
        /\ <<>> \in Seq(Rows) /\ Range(<<>>) = {}
        /\ \A p \in Procs : hand[p] \in Seq(Rows)
    BY TypedTypeOK, ModeStays, Names, EmptyFacts DEF Typed, ConstantsOK
  <1>0. \A r \in Rows : pc[r] = "ok" => Around(r)
    BY VanishAround
  <1> SUFFICES ASSUME NEW x \in Rows, pc'[x] = "ok"
               PROVE  Around(x)'
    BY VanishAround
  <1>1. ASSUME NEW r \in Callers, Buffer(r) PROVE Around(x)'
    <2>1. r \in Rows /\ pc[r] = "new" /\ hand[r] = <<>> /\ UNCHANGED <<channel, table>>
      BY <1>1, <1>t, Names DEF Buffer, Holding
    <2>2. \E s : pc' = [pc EXCEPT ![r] = s]
      BY <1>1 DEF Buffer, Return
    <2>3. Append(buffer, r) \in Seq(Rows) /\ Range(Append(buffer, r)) = Range(buffer) \cup {r}
      BY <1>t, <2>1, AppendFacts
    <2>4. CASE closed
      <3>1. pc'[r] # "ok" /\ UNCHANGED <<hand, buffer, lost>>
        BY <1>1, <1>t, <2>1, <2>4, Names DEF Buffer, Return
      <3>2. x # r /\ Around(x)
        BY <1>0, <1>t, <2>2, <3>1
      <3>3. QED
        BY <2>1, <3>1, <3>2 DEF Around
    <2>5. CASE ~closed /\ Fills(buffer) /\ ~lastErr
      <3>1. /\ hand' = [hand EXCEPT ![r] = Append(buffer, r)] /\ pc' = [pc EXCEPT ![r] = "acquire"]
            /\ lost' = lost \cup {}
        BY <1>1, <2>5 DEF Buffer
      <3>2. x # r /\ Around(x)
        BY <1>0, <1>t, <2>1, <3>1
      <3>3. hand'[r] = Append(buffer, r)
        BY <1>t, <2>1, <3>1
      <3>4. x \in Range(buffer) => Around(x)'
        BY <1>t, <2>1, <2>3, <3>3 DEF Around
      <3>5. x \in Range(channel) => Around(x)'
        BY <2>1 DEF Around
      <3>6. QED
        BY <1>t, <2>1, <2>3, <3>1, <3>2, <3>4, <3>5, AroundMoves
    <2>6. CASE ~closed /\ ~(Fills(buffer) /\ ~lastErr)
      <3>1. /\ hand' = [hand EXCEPT ![r] = <<>>]
            /\ lost \subseteq lost'
            /\ Range(buffer) \cup {r} \subseteq lost' \/ buffer' = Append(buffer, r)
        BY <1>1, <2>6 DEF Buffer
      <3>2. \A y : y \in Range(buffer) \cup {r} => Around(y)'
        BY <2>3, <3>1 DEF Around
      <3>3. x # r => Around(x)
        BY <1>0, <1>t, <2>2
      <3>4. x \in Range(channel) => Around(x)'
        BY <2>1 DEF Around
      <3>5. CASE x # r
        BY <1>t, <2>1, <3>1, <3>2, <3>3, <3>4, <3>5, AroundMoves
      <3>6. QED
        BY <3>2, <3>5
    <2>7. QED
      BY <2>4, <2>5, <2>6
  <1>2. ASSUME NEW p \in Callers, Flush(p) PROVE Around(x)'
    <2>1. pc[x] = "ok"
      BY <1>2, <1>t DEF Flush
    <2>2. QED
      BY <1>0, <1>2, <2>1 DEF Flush, Around
  <1>3. ASSUME NEW p \in Callers, Acquire(p) PROVE Around(x)'
    <2>1. pc[x] = "ok"
      BY <1>3, <1>t, Names DEF Acquire, Return
    <2>2. Around(x) /\ UNCHANGED <<buffer, channel, table>>
      BY <1>0, <1>3, <2>1 DEF Acquire
    <2>3. CASE UNCHANGED <<hand, lost>>
      BY <2>2, <2>3 DEF Around
    <2>4. CASE hand' = [hand EXCEPT ![p] = <<>>] /\ lost' = lost \cup Range(hand[p])
      <3>1. /\ x \in Range(buffer) => Around(x)'
            /\ x \in Range(channel) => Around(x)'
            /\ x \in Range(hand[p]) => Around(x)'
        BY <2>2, <2>4 DEF Around
      <3>2. QED
        BY <1>t, <2>2, <2>4, <3>1, AroundMoves
    <2>5. QED
      BY <1>3, <2>3, <2>4 DEF Acquire
  <1>4. ASSUME NEW p \in Callers, Take(p) PROVE Around(x)'
    <2>1. pc[x] = "ok"
      BY <1>4, <1>t, Names DEF Take
    <2>2. Around(x) /\ UNCHANGED <<channel, table>>
      BY <1>0, <1>4, <2>1 DEF Take
    <2>3. CASE hand' = hand /\ lost' = lost \cup Range(buffer)
      BY <2>2, <2>3 DEF Around
    <2>4. CASE hand' = [hand EXCEPT ![p] = buffer] /\ lost' = lost
      <3>1. hand[p] = <<>> /\ hand'[p] = buffer
        BY <1>4, <1>t, <2>4, Names DEF Take, Holding
      <3>2. /\ x \in Range(buffer) => Around(x)'
            /\ x \in Range(channel) => Around(x)'
        BY <1>t, <2>2, <3>1 DEF Around
      <3>3. QED
        BY <1>t, <2>2, <2>4, <3>1, <3>2, AroundMoves
    <2>5. QED
      BY <1>4, <2>3, <2>4 DEF Take
  <1>5. ASSUME NEW p \in Callers, Exec(p) PROVE Around(x)'
    <2>1. /\ pc[p] = "exec" /\ hand' = [hand EXCEPT ![p] = <<>>] /\ UNCHANGED <<buffer, channel>>
          /\ \E s : pc' = [pc EXCEPT ![p] = s]
      BY <1>5 DEF Exec, Return
    <2>2. /\ table \o hand[p] \in Seq(Rows)
          /\ Range(table \o hand[p]) = Range(table) \cup Range(hand[p])
      BY <1>t, ConcatFacts
    <2>3. /\ Range(table) \subseteq Range(table') /\ lost \subseteq lost'
          /\ Range(hand[p]) \subseteq Range(table') \cup lost'
      BY <1>5, <2>2 DEF Exec
    <2>4. \A y \in Range(hand[p]) : Around(y)'
      BY <2>3 DEF Around
    <2>5. CASE x = p
      <3>1. x \in Range(hand[p])
        BY <2>1, <2>5 DEF Holding
      <3>2. QED
        BY <2>4, <3>1
    <2>6. CASE x # p
      <3>1. Around(x)
        BY <1>0, <1>t, <2>1, <2>6
      <3>2. x \in Range(buffer) \/ x \in Range(channel) => Around(x)'
        BY <2>1 DEF Around
      <3>3. QED
        BY <1>t, <2>1, <2>3, <2>4, <3>1, <3>2, AroundMoves
    <2>7. QED
      BY <2>5, <2>6
  <1>6. ASSUME NEW r \in Rows, Look(r) PROVE Around(x)'
    <2>1. pc[x] = "ok"
      BY <1>6, <1>t DEF Look
    <2>2. QED
      BY <1>0, <1>6, <2>1 DEF Look, Around
  <1>7. ASSUME NEW r \in Rows, Send(r) PROVE Around(x)'
    <2>1. Range(Append(channel, r)) = Range(channel) \cup {r}
      BY <1>t, AppendFacts
    <2>2. UNCHANGED <<hand, buffer, table, lost>>
      BY <1>7 DEF Send
    <2>3. CASE channel' = Append(channel, r) /\ pc' = [pc EXCEPT ![r] = "ok"]
      <3>1. x = r \/ Around(x)
        BY <1>0, <1>t, <2>3
      <3>2. Range(channel) \cup {r} \subseteq Range(channel')
        BY <2>1, <2>3
      <3>3. QED
        BY <2>2, <3>1, <3>2 DEF Around
    <2>4. CASE channel' = channel /\ pc' = [pc EXCEPT ![r] = "error"]
      <3>1. pc[x] = "ok"
        BY <1>t, <2>4
      <3>2. QED
        BY <1>0, <2>2, <2>4, <3>1 DEF Around
    <2>5. QED
      BY <1>7, <2>3, <2>4 DEF Send
  <1>8. CASE Prepare \/ Tick \/ Drain \/ Drained \/ TickerExit \/ Close \/ CloseReturns
    <2>1. pc[x] = "ok"
      BY <1>8, <1>t, Names DEF Prepare, Tick, Drain, Drained, TickerExit, Close, CloseReturns
    <2>2. UNCHANGED <<hand, buffer, channel, table, lost>>
      BY <1>8 DEF Prepare, Tick, Drain, Drained, TickerExit, Close, CloseReturns
    <2>3. QED
      BY <1>0, <2>1, <2>2 DEF Around
  <1>9. CASE Collect
    <2>1. /\ channel # <<>> /\ channel' = Tail(channel) /\ UNCHANGED <<buffer, table, lost>>
          /\ hand' = [hand EXCEPT ![Writer] = Append(hand[Writer], Head(channel))]
      BY <1>9 DEF Collect
    <2>2. Around(x)
      BY <1>0, <1>9, <1>t, Names DEF Collect
    <2>3. Head(channel) \in Rows /\ Range(channel) = {Head(channel)} \cup Range(Tail(channel))
      BY <1>t, <2>1, TakeFacts
    <2>4. /\ Append(hand[Writer], Head(channel)) \in Seq(Rows)
          /\ Range(Append(hand[Writer], Head(channel))) = Range(hand[Writer]) \cup {Head(channel)}
      BY <1>t, <2>3, AppendFacts
    <2>5. hand'[Writer] = Append(hand[Writer], Head(channel))
      BY <1>t, <2>1
    <2>6. /\ x \in Range(channel) => Around(x)'
          /\ x \in Range(hand[Writer]) => Around(x)'
          /\ x \in Range(buffer) => Around(x)'
      BY <1>t, <2>1, <2>3, <2>4, <2>5 DEF Around
    <2>7. QED
      BY <1>t, <2>1, <2>2, <2>4, <2>6, AroundMoves
  <1>10. CASE WriteBatch
    <2>1. PICK k \in 0 .. Len(hand[Writer]), again \in BOOLEAN, failed \in BOOLEAN :
             /\ table' = table \o (IF again THEN SubSeq(hand[Writer], 1, k) ELSE <<>>)
                               \o (IF failed THEN SubSeq(hand[Writer], 1, k) ELSE hand[Writer])
             /\ lost' = lost \cup (IF failed THEN Range(hand[Writer]) \ Range(SubSeq(hand[Writer], 1, k))
                                             ELSE {})
      BY <1>10 DEF WriteBatch
    <2>2. /\ Range(table) \subseteq Range(table')
          /\ failed => Range(SubSeq(hand[Writer], 1, k)) \subseteq Range(table')
          /\ ~failed => Range(hand[Writer]) \subseteq Range(table')
      BY <1>t, <2>1, WriteFacts
    <2>3. lost \subseteq lost' /\ Range(hand[Writer]) \subseteq Range(table') \cup lost'
      BY <2>1, <2>2
    <2>4. hand' = [hand EXCEPT ![Writer] = <<>>] /\ UNCHANGED <<buffer, channel>>
      BY <1>10 DEF WriteBatch
    <2>5. Around(x)
      BY <1>0, <1>10, <1>t, Names DEF WriteBatch
    <2>6. /\ x \in Range(channel) => Around(x)'
          /\ x \in Range(hand[Writer]) => Around(x)'
          /\ x \in Range(buffer) => Around(x)'
      BY <2>3, <2>4 DEF Around
    <2>7. QED
      BY <1>t, <2>2, <2>3, <2>4, <2>5, <2>6, AroundMoves
  <1>11. CASE RequestFlush
    <2>1. pc[x] = "ok"
      BY <1>11, <1>t, Names DEF RequestFlush, Return
    <2>2. QED
      BY <1>0, <1>11, <2>1 DEF RequestFlush, Around
  <1>12. CASE UNCHANGED vars
    BY <1>0, <1>12 DEF vars, Around
  <1>13. QED
    BY <1>1, <1>2, <1>3, <1>4, <1>5, <1>6, <1>7, <1>8, <1>9, <1>10, <1>11, <1>12
       DEF Next, Buffered, WriterStep

-----------------------------------------------------------------------------
(* Each row once.                                                          *)

\* The empty sequence has no repetitions.
LEMMA EmptyInjective == IsInjective(<<>>)
  BY DEF IsInjective

\* Failures are counted.
LEMMA FaultsStep ==
    ASSUME faults \in Nat, [Next]_vars
    PROVE  faults' = faults \/ faults' = faults + 1
  BY ZenonT(60) DEF Next, vars, Fault, Buffered, WriterStep, Buffer, Flush, Acquire, Take, Exec,
     TickerExit, Look, Send, Prepare, Collect, Tick, Drain, Drained, WriteBatch, RequestFlush,
     Close, CloseReturns

\* Rows that go nowhere but out of hand, or out of the buffer.
LEMMA ApartLess ==
    ASSUME Apart, UNCHANGED <<table, channel>>, buffer' \in {buffer, <<>>},
           \A p \in Procs : hand'[p] \in {hand[p], <<>>},
           \A r \in Rows : pc'[r] \in {"new", "send"} => pc[r] \in {"new", "send"}
    PROVE  Apart'
  <1>1. IsInjective(<<>>) /\ Range(<<>>) = {}
    BY EmptyInjective, EmptyFacts
  <1>2. Range(buffer') \subseteq Range(buffer) /\ IsInjective(buffer')
    BY <1>1 DEF Apart
  <1>3. \A p \in Procs : Range(hand'[p]) \subseteq Range(hand[p]) /\ IsInjective(hand'[p])
    BY <1>1 DEF Apart
  <1>4. \A x : Present(x)' => Present(x)
    BY <1>2, <1>3 DEF Present, Waiting
  <1>5. QED
    BY <1>2, <1>3, <1>4 DEF Apart, Waiting

\* A batch that is stored.
LEMMA ApartStored ==
    ASSUME Typed, Apart, NEW p \in Procs, table' = table \o hand[p],
           hand' = [hand EXCEPT ![p] = <<>>], UNCHANGED <<buffer, channel>>,
           \A r \in Rows : pc'[r] \in {"new", "send"} => pc[r] \in {"new", "send"}
    PROVE  Apart'
  <1>1. table \in Seq(Rows) /\ hand[p] \in Seq(Rows) /\ hand \in [Procs -> Seq(Rows)]
    BY DEF Typed
  <1>2. Range(table') = Range(table) \cup Range(hand[p]) /\ IsInjective(table')
    <2>1. IsInjective(table) /\ IsInjective(hand[p]) /\ Range(table) \cap Range(hand[p]) = {}
      BY DEF Apart
    <2>2. QED
      BY <1>1, <2>1, ConcatFacts
  <1>3. hand'[p] = <<>> /\ \A q \in Procs : q # p => hand'[q] = hand[q]
    BY <1>1
  <1>4. Range(hand'[p]) = {} /\ IsInjective(hand'[p])
    BY <1>3, EmptyInjective, EmptyFacts
  <1>5. \A q \in Procs : Range(hand'[q]) \subseteq Range(hand[q]) /\ IsInjective(hand'[q])
    BY <1>3, <1>4 DEF Apart
  <1>6. \A q \in Procs : Range(hand'[q]) \cap Range(hand[p]) = {}
    BY <1>3, <1>4 DEF Apart
  <1>7. \A x : Present(x)' => Present(x)
    BY <1>2, <1>5 DEF Present, Waiting
  <1>8. QED
    BY <1>2, <1>5, <1>6, <1>7 DEF Apart, Waiting

\* A batch that is taken in hand: the buffer, and perhaps a new row.
LEMMA ApartTaken ==
    ASSUME Typed, Apart, NEW p \in Procs, hand[p] = <<>>, NEW h \in Seq(Rows), IsInjective(h),
           hand' = [hand EXCEPT ![p] = h], buffer' = <<>>, UNCHANGED <<table, channel>>,
           \A x \in Range(h) : x \in Range(buffer) \/ ~Present(x),
           \A r \in Rows : pc'[r] \in {"new", "send"} => pc[r] \in {"new", "send"} /\ r \notin Range(h)
    PROVE  Apart'
  <1>1. hand \in [Procs -> Seq(Rows)]
    BY DEF Typed
  <1>2. hand'[p] = h /\ \A q \in Procs : q # p => hand'[q] = hand[q]
    BY <1>1
  <1>3. Range(buffer') = {} /\ IsInjective(buffer')
    BY EmptyInjective, EmptyFacts
  <1>4. \A q \in Procs : IsInjective(hand'[q])
    BY <1>2 DEF Apart
  <1>5. Range(h) \cap (Range(table) \cup Range(channel)) = {}
    BY DEF Apart, Present, Waiting
  <1>6. \A q \in Procs : q # p => Range(h) \cap Range(hand[q]) = {}
    BY DEF Apart, Present, Waiting
  <1>7. \A x : Present(x)' => Present(x) \/ x \in Range(h)
    BY <1>2, <1>3 DEF Present, Waiting
  <1>8. \A q \in Procs : Range(hand'[q]) \cap (Range(table) \cup Range(channel)) = {}
    BY <1>2, <1>5 DEF Apart, Waiting
  <1>9. \A q, o \in Procs : q # o => Range(hand'[q]) \cap Range(hand'[o]) = {}
    BY <1>2, <1>6 DEF Apart
  <1>10. \A r \in Rows : pc'[r] \in {"new", "send"} => ~Present(r)'
    BY <1>7 DEF Apart
  <1>11. QED
    BY <1>3, <1>4, <1>8, <1>9, <1>10 DEF Apart, Waiting

\* A new row on the buffer or on the channel.
LEMMA ApartWaits ==
    ASSUME Typed, Apart, NEW r \in Rows, pc[r] \in {"new", "send"},
           UNCHANGED <<hand, table>>,
           \/ buffer' = Append(buffer, r) /\ channel' = channel
           \/ channel' = Append(channel, r) /\ buffer' = buffer,
           \A q \in Rows : pc'[q] \in {"new", "send"} => pc[q] \in {"new", "send"} /\ q # r
    PROVE  Apart'
  <1>1. ~Present(r) /\ buffer \in Seq(Rows) /\ channel \in Seq(Rows)
    BY DEF Apart, Typed
  <1>2. r \notin Range(buffer) /\ r \notin Range(channel) /\ r \notin Range(table)
        /\ \A p \in Procs : r \notin Range(hand[p])
    BY <1>1 DEF Present, Waiting
  <1>3. /\ Range(Append(buffer, r)) = Range(buffer) \cup {r}
        /\ Range(Append(channel, r)) = Range(channel) \cup {r}
    BY <1>1, AppendFacts
  <1>4. IsInjective(Append(buffer, r)) /\ IsInjective(Append(channel, r))
    BY <1>1, <1>2, AppendInjective DEF Apart
  <1>5. /\ IsInjective(buffer') /\ IsInjective(channel')
        /\ \/ Range(buffer') = Range(buffer) \cup {r} /\ Range(channel') = Range(channel)
           \/ Range(channel') = Range(channel) \cup {r} /\ Range(buffer') = Range(buffer)
    BY <1>3, <1>4 DEF Apart
  <1>6. \A x : Present(x)' => Present(x) \/ x = r
    BY <1>5 DEF Present, Waiting
  <1>7. \A q \in Rows : pc'[q] \in {"new", "send"} => ~Present(q)'
    BY <1>6 DEF Apart
  <1>8. Range(buffer') \cap Range(channel') = {} /\ Range(table) \cap Waiting' = {}
    BY <1>2, <1>5 DEF Apart, Waiting
  <1>9. \A p \in Procs : Range(hand[p]) \cap (Range(table) \cup Waiting') = {}
    BY <1>2, <1>5 DEF Apart, Waiting
  <1>10. QED
    BY <1>5, <1>7, <1>8, <1>9 DEF Apart

\* A row that goes from the channel to the writer's batch.
LEMMA ApartCollect ==
    ASSUME Typed, Apart, Writer \in Procs, Collect,
           \A r \in Rows : pc'[r] \in {"new", "send"} => pc[r] \in {"new", "send"}
    PROVE  Apart'
  <1> DEFINE x == Head(channel)
             h == Append(hand[Writer], x)
  <1>1. /\ channel # <<>> /\ channel \in Seq(Rows) /\ hand[Writer] \in Seq(Rows)
        /\ hand \in [Procs -> Seq(Rows)]
        /\ channel' = Tail(channel) /\ UNCHANGED <<buffer, table>>
        /\ hand' = [hand EXCEPT ![Writer] = h]
    BY DEF Typed, Collect
  <1>2. x \in Rows /\ Range(channel) = {x} \cup Range(Tail(channel))
    BY <1>1, TakeFacts
  <1>3. IsInjective(Tail(channel)) /\ x \notin Range(Tail(channel))
    BY <1>1, TailInjective DEF Apart
  <1>4. /\ x \notin Range(table) /\ x \notin Range(buffer)
        /\ \A p \in Procs : x \notin Range(hand[p])
    BY <1>2 DEF Apart, Waiting
  <1>5. h \in Seq(Rows) /\ Range(h) = Range(hand[Writer]) \cup {x}
    BY <1>1, <1>2, AppendFacts
  <1>6. IsInjective(h)
    BY <1>1, <1>2, <1>4, AppendInjective DEF Apart
  <1> HIDE DEF x, h
  <1>7. hand'[Writer] = h /\ \A q \in Procs : q # Writer => hand'[q] = hand[q]
    BY <1>1
  <1>8. \A y : Present(y)' => Present(y)
    BY <1>1, <1>2, <1>5, <1>7 DEF Present, Waiting
  <1>9. \A q \in Procs : IsInjective(hand'[q])
    BY <1>6, <1>7 DEF Apart
  <1>10. Range(channel') \subseteq Range(channel) /\ IsInjective(channel') /\ x \notin Range(channel')
    BY <1>1, <1>2, <1>3
  <1>11. \A q \in Procs : Range(hand'[q]) \cap (Range(table) \cup Waiting') = {}
    BY <1>1, <1>4, <1>5, <1>7, <1>10 DEF Apart, Waiting
  <1>12. \A q, o \in Procs : q # o => Range(hand'[q]) \cap Range(hand'[o]) = {}
    BY <1>4, <1>5, <1>7 DEF Apart
  <1>13. QED
    BY <1>1, <1>8, <1>9, <1>10, <1>11, <1>12 DEF Apart, Waiting

\* Every step keeps each row in one place.
LEMMA UniqueStep ==
    ASSUME ConstantsOK, TypeOK, Places, Holding, Unique, [Next]_vars
    PROVE  Unique'
  <1>t. /\ Typed /\ pc \in [Procs -> States] /\ hand \in [Procs -> Seq(Rows)]
        /\ mode \in {"buffered", "writer"} /\ mode' = mode
        /\ Rows \subseteq Procs /\ Callers \subseteq Procs /\ Writer \in Procs
        /\ buffer \in Seq(Rows) /\ channel \in Seq(Rows) /\ table \in Seq(Rows)
        /\ <<>> \in Seq(Rows) /\ Range(<<>>) = {}
        /\ \A p \in Procs : hand[p] \in Seq(Rows)
    BY TypedTypeOK, ModeStays, Names, EmptyFacts DEF Typed, ConstantsOK
  <1>f. faults' \in Nat /\ (faults' = 0 => faults = 0)
    BY FaultsStep DEF Unique
  <1> SUFFICES ASSUME Exact' PROVE Apart'
    BY <1>f DEF Unique
  <1>a. Apart
    BY <1>f, <1>t DEF Unique, Exact
  <1>1. ASSUME NEW r \in Callers, Buffer(r) PROVE Apart'
    <2>1. /\ r \in Rows /\ pc[r] = "new" /\ hand[r] = <<>> /\ UNCHANGED <<channel, table>>
      BY <1>1, <1>t, Names DEF Buffer, Holding
    <2>2. PICK s \in {"error", "acquire", "ok"} : pc' = [pc EXCEPT ![r] = s]
      BY <1>1, <2>1, Names DEF Buffer, Return
    <2>3. \A q \in Rows : pc'[q] \in {"new", "send"} => pc[q] \in {"new", "send"} /\ q # r
      BY <1>t, <2>1, <2>2
    <2>4. ~Present(r)
      BY <1>a, <2>1 DEF Apart
    <2>5. CASE closed
      BY <1>1, <1>a, <2>1, <2>3, <2>5, ApartLess DEF Buffer
    <2>6. CASE ~closed /\ Fills(buffer) /\ ~lastErr
      <3>1. hand' = [hand EXCEPT ![r] = Append(buffer, r)] /\ buffer' = <<>>
        BY <1>1, <2>6 DEF Buffer
      <3>2. Append(buffer, r) \in Seq(Rows) /\ Range(Append(buffer, r)) = Range(buffer) \cup {r}
        BY <1>t, <2>1, AppendFacts
      <3>3. IsInjective(Append(buffer, r))
        BY <1>a, <1>t, <2>1, <2>4, AppendInjective DEF Apart, Present, Waiting
      <3>4. \A q \in Range(buffer) : pc[q] \notin {"new", "send"}
        BY <1>a, <1>t, RangeFacts DEF Apart, Present, Waiting
      <3>5. \A q \in Rows : pc'[q] \in {"new", "send"} =>
               pc[q] \in {"new", "send"} /\ q \notin Range(Append(buffer, r))
        BY <2>3, <3>2, <3>4
      <3>6. \A x \in Range(Append(buffer, r)) : x \in Range(buffer) \/ ~Present(x)
        BY <2>4, <3>2
      <3>7. QED
        BY <1>a, <1>t, <2>1, <3>1, <3>2, <3>3, <3>5, <3>6, ApartTaken
    <2>7. CASE ~closed /\ ~(Fills(buffer) /\ ~lastErr)
      <3>1. /\ hand' = [hand EXCEPT ![r] = <<>>]
            /\ buffer' = <<>> \/ buffer' = Append(buffer, r)
        BY <1>1, <2>7 DEF Buffer
      <3>2. hand' = hand
        BY <1>t, <2>1, <3>1
      <3>3. CASE buffer' = <<>>
        BY <1>a, <2>1, <2>3, <3>2, <3>3, ApartLess
      <3>4. CASE buffer' = Append(buffer, r)
        BY <1>a, <1>t, <2>1, <2>3, <3>2, <3>4, ApartWaits
      <3>5. QED
        BY <3>1, <3>3, <3>4
    <2>8. QED
      BY <2>5, <2>6, <2>7
  <1>2. ASSUME NEW p \in Callers, Flush(p) PROVE Apart'
    <2>1. \A q \in Rows : pc'[q] \in {"new", "send"} => pc[q] \in {"new", "send"}
      BY <1>2, <1>t DEF Flush
    <2>2. QED
      BY <1>2, <1>a, <2>1, ApartLess DEF Flush
  <1>3. ASSUME NEW p \in Callers, Acquire(p) PROVE Apart'
    <2>1. \A q \in Rows : pc'[q] \in {"new", "send"} => pc[q] \in {"new", "send"}
      BY <1>3, <1>t DEF Acquire, Return
    <2>2. \A q \in Procs : hand'[q] \in {hand[q], <<>>}
      BY <1>3, <1>t DEF Acquire
    <2>3. UNCHANGED <<table, channel, buffer>>
      BY <1>3 DEF Acquire
    <2>4. QED
      BY <1>a, <2>1, <2>2, <2>3, ApartLess
  <1>4. ASSUME NEW p \in Callers, Take(p) PROVE Apart'
    <2>1. \A q \in Rows : pc'[q] \in {"new", "send"} => pc[q] \in {"new", "send"}
      BY <1>4, <1>t DEF Take
    <2>2. p \in Procs /\ hand[p] = <<>> /\ buffer' = <<>> /\ UNCHANGED <<table, channel>>
      BY <1>4, <1>t, Names DEF Take, Holding
    <2>3. CASE hand' = hand
      BY <1>a, <2>1, <2>2, <2>3, ApartLess
    <2>4. CASE hand' = [hand EXCEPT ![p] = buffer]
      <3>1. \A q \in Range(buffer) \cap Rows : pc[q] \notin {"new", "send"}
        BY <1>a DEF Apart, Present, Waiting
      <3>2. IsInjective(buffer)
        BY <1>a DEF Apart
      <3>3. \A q \in Rows : pc'[q] \in {"new", "send"} =>
               pc[q] \in {"new", "send"} /\ q \notin Range(buffer)
        BY <2>1, <3>1
      <3>4. QED
        BY <1>a, <1>t, <2>2, <2>4, <3>2, <3>3, ApartTaken
    <2>5. QED
      BY <1>4, <2>3, <2>4 DEF Take
  <1>5. ASSUME NEW p \in Callers, Exec(p) PROVE Apart'
    <2>1. \A q \in Rows : pc'[q] \in {"new", "send"} => pc[q] \in {"new", "send"}
      BY <1>5, <1>t DEF Exec, Return
    <2>2. p \in Procs /\ hand' = [hand EXCEPT ![p] = <<>>] /\ UNCHANGED <<buffer, channel>>
      BY <1>5, <1>t DEF Exec
    <2>3. CASE table' = table \o hand[p]
      BY <1>a, <1>t, <2>1, <2>2, <2>3, ApartStored
    <2>4. CASE table' = table
      <3>1. \A q \in Procs : hand'[q] \in {hand[q], <<>>}
        BY <1>t, <2>2
      <3>2. QED
        BY <1>a, <2>1, <2>2, <2>4, <3>1, ApartLess
    <2>5. QED
      BY <1>5, <2>3, <2>4 DEF Exec
  <1>6. ASSUME NEW r \in Rows, Look(r) PROVE Apart'
    <2>1. \A q \in Rows : pc'[q] \in {"new", "send"} => pc[q] \in {"new", "send"}
      BY <1>6, <1>t DEF Look
    <2>2. QED
      BY <1>6, <1>a, <2>1, ApartLess DEF Look
  <1>7. ASSUME NEW r \in Rows, Send(r) PROVE Apart'
    <2>1. UNCHANGED <<hand, buffer, table>> /\ pc[r] = "send"
      BY <1>7 DEF Send
    <2>2. CASE channel' = Append(channel, r) /\ pc' = [pc EXCEPT ![r] = "ok"]
      <3>1. \A q \in Rows : pc'[q] \in {"new", "send"} => pc[q] \in {"new", "send"} /\ q # r
        BY <1>t, <2>2
      <3>2. QED
        BY <1>a, <1>t, <2>1, <2>2, <3>1, ApartWaits
    <2>3. CASE channel' = channel /\ pc' = [pc EXCEPT ![r] = "error"]
      <3>1. \A q \in Rows : pc'[q] \in {"new", "send"} => pc[q] \in {"new", "send"}
        BY <1>t, <2>3
      <3>2. QED
        BY <1>a, <2>1, <2>3, <3>1, ApartLess
    <2>4. QED
      BY <1>7, <2>2, <2>3 DEF Send
  <1>8. CASE Prepare \/ Tick \/ Drain \/ Drained \/ TickerExit \/ Close \/ CloseReturns
    <2>1. \A q \in Rows : pc'[q] \in {"new", "send"} => pc[q] \in {"new", "send"}
      BY <1>8, <1>t, Names DEF Prepare, Tick, Drain, Drained, TickerExit, Close, CloseReturns
    <2>2. UNCHANGED <<hand, buffer, channel, table>>
      BY <1>8 DEF Prepare, Tick, Drain, Drained, TickerExit, Close, CloseReturns
    <2>3. QED
      BY <1>a, <2>1, <2>2, ApartLess
  <1>9. CASE Collect
    <2>1. \A q \in Rows : pc'[q] \in {"new", "send"} => pc[q] \in {"new", "send"}
      BY <1>9, <1>t, Names DEF Collect
    <2>2. QED
      BY <1>9, <1>a, <1>t, <2>1, ApartCollect
  <1>10. CASE WriteBatch
    <2>1. mode = "writer" /\ faults' = 0 /\ faults = 0
      BY <1>10, <1>t, <1>f DEF WriteBatch, Places, Exact
    <2>2. ~Fault
      BY <2>1 DEF Fault
    <2>3. PICK k \in 0 .. Len(hand[Writer]), again \in BOOLEAN, failed \in BOOLEAN :
             /\ ~again /\ ~failed
             /\ table' = table \o (IF again THEN SubSeq(hand[Writer], 1, k) ELSE <<>>)
                               \o (IF failed THEN SubSeq(hand[Writer], 1, k) ELSE hand[Writer])
      BY <1>10, <2>2 DEF WriteBatch
    <2>4. table' = table \o hand[Writer]
      BY <1>t, <2>3, WriteFacts
    <2>5. hand' = [hand EXCEPT ![Writer] = <<>>] /\ UNCHANGED <<buffer, channel>>
      BY <1>10 DEF WriteBatch
    <2>6. \A q \in Rows : pc'[q] \in {"new", "send"} => pc[q] \in {"new", "send"}
      BY <1>10, <1>t, Names DEF WriteBatch
    <2>7. QED
      BY <1>a, <1>t, <2>4, <2>5, <2>6, ApartStored
  <1>11. CASE RequestFlush
    <2>1. \A q \in Rows : pc'[q] \in {"new", "send"} => pc[q] \in {"new", "send"}
      BY <1>11, <1>t, Names DEF RequestFlush, Return
    <2>2. UNCHANGED <<hand, buffer, channel, table>>
      BY <1>11 DEF RequestFlush
    <2>3. QED
      BY <1>a, <2>1, <2>2, ApartLess
  <1>12. CASE UNCHANGED vars
    BY <1>12, <1>a, ApartLess DEF vars
  <1>13. QED
    BY <1>1, <1>2, <1>3, <1>4, <1>5, <1>6, <1>7, <1>8, <1>9, <1>10, <1>11, <1>12
       DEF Next, Buffered, WriterStep

-----------------------------------------------------------------------------
(* The theorems.                                                           *)

\* The invariant holds at the start.
LEMMA InitDInv == ASSUME ConstantsOK, Init PROVE DInv
  <1>n. /\ mode \in {"buffered", "writer"} /\ BatchSize \in Nat \ {0} /\ QueueSize \in Nat
        /\ <<>> \in Seq(Rows) /\ Range(<<>>) = {} /\ Len(<<>>) = 0 /\ IsInjective(<<>>)
    BY EmptyFacts, EmptyInjective DEF ConstantsOK, Init
  <1>p. /\ \A r \in Rows : pc[r] = "new"
        /\ pc[Flusher] = "new" /\ pc[Closer] = "new"
        /\ pc[Ticker] = IF mode = "writer" THEN "gone" ELSE "idle"
        /\ pc[Writer] = IF mode = "writer" THEN "prepare" ELSE "gone"
        /\ pc \in [Procs -> States]
    BY <1>n, Names DEF Init, States
  <1>h. /\ \A p \in Procs : hand[p] = <<>>
        /\ buffer = <<>> /\ channel = <<>> /\ table = <<>>
        /\ lost = {} /\ unreported = {} /\ before = {} /\ faults = 0
    BY DEF Init
  <1>1. TypeOK
    <2>1. Len(buffer) = 0 /\ Len(channel) = 0
      BY <1>h
    <2>2. hand \in [Procs -> Seq(Rows)] /\ mode \in Modes
      BY <1>n DEF Init
    <2>3. Len(buffer) < BatchSize /\ Len(channel) <= QueueSize
      BY <1>n, <2>1
    <2>4. buffer \in Seq(Rows) /\ channel \in Seq(Rows) /\ table \in Seq(Rows)
      BY <1>n, <1>h
    <2>5. flushMu = None /\ lastErr = FALSE /\ closed = FALSE
      BY DEF Init
    <2>6. Typed
      BY <1>p, <1>h, <2>2, <2>3, <2>4, <2>5 DEF Typed
    <2>7. QED
      BY <2>6, TypedTypeOK
  <1>2. Places
    BY <1>n, <1>p DEF Places
  <1>3. Holding
    BY <1>p, <1>h DEF Holding
  <1>4. Locked
    BY <1>p, <1>n, Names DEF Locked, Init
  <1>5. Closing
    BY <1>n, <1>p, <1>h DEF Closing, Init
  <1>6. NothingVanishes
    BY <1>p DEF NothingVanishes, Returned
  <1>7. LossIsReported
    BY <1>h DEF LossIsReported
  <1>8. Unique
    <2>1. \A p \in Procs : Range(hand[p]) = {} /\ IsInjective(hand[p])
      BY <1>n, <1>h
    <2>2. \A x : ~Present(x)
      BY <1>n, <1>h, <2>1 DEF Present, Waiting
    <2>3. Apart
      BY <1>n, <1>h, <2>1, <2>2 DEF Apart, Waiting
    <2>4. QED
      BY <1>h, <2>3 DEF Unique
  <1>9. QED
    BY <1>1, <1>2, <1>3, <1>4, <1>5, <1>6, <1>7, <1>8 DEF DInv

\* Every step keeps it.
LEMMA NextDInv == ASSUME ConstantsOK, DInv, [Next]_vars PROVE DInv'
  <1>1. TypeOK' /\ Places' /\ Holding' /\ Locked' /\ Closing'
    BY TypeStep, PlacesStep, HoldingStep, LockedStep, ClosingStep DEF DInv
  <1>2. NothingVanishes' /\ LossIsReported' /\ Unique'
    BY VanishStep, LossStep, UniqueStep DEF DInv
  <1>3. QED
    BY <1>1, <1>2 DEF DInv

\* The invariant of the sink: where the callers and goroutines are and what they
\* hold, who has flushMu, what Close has done, and where each row is.
THEOREM Inductive == ConstantsOK => (Spec => []DInv)
  <1> SUFFICES ASSUME ConstantsOK
               PROVE  Spec => []DInv
    OBVIOUS
  <1>1. Init => DInv
    BY InitDInv
  <1>2. DInv /\ [Next]_vars => DInv'
    BY NextDInv
  <1>3. QED
    BY <1>1, <1>2, PTL DEF Spec

\* Every variable of the sink keeps its type; buffer and channel stay within
\* their limits, for any callers.
THEOREM TypeCorrect == ConstantsOK => (Spec => []TypeOK)
  <1> SUFFICES ASSUME ConstantsOK
               PROVE  Spec => []TypeOK
    OBVIOUS
  <1>1. DInv => TypeOK
    BY DEF DInv
  <1>2. QED
    BY <1>1, Inductive, PTL

\* A row whose WriteEvent returned nil is in the table, on its way, or was lost
\* with a batch, and as long as the error of a loss has not been returned by a
\* call, the sink keeps it for the next one.
THEOREM RowsKept == ConstantsOK => (Spec => [](NothingVanishes /\ LossIsReported))
  <1> SUFFICES ASSUME ConstantsOK
               PROVE  Spec => [](NothingVanishes /\ LossIsReported)
    OBVIOUS
  <1>1. DInv => NothingVanishes /\ LossIsReported
    BY DEF DInv
  <1>2. QED
    BY <1>1, Inductive, PTL

\* When Close has returned nil and no call has a batch in hand, each row whose
\* WriteEvent had returned nil before Close came is in the table or was lost,
\* in both modes, whatever Flush, the ticker and other calls do meanwhile.
THEOREM ClosedStores == ConstantsOK => (Spec => []CloseStores)
  <1> SUFFICES ASSUME ConstantsOK
               PROVE  Spec => []CloseStores
    OBVIOUS
  <1>1. DInv => CloseStores
    <2> SUFFICES ASSUME DInv, pc[Closer] = "ok", pc[Writer] = "gone",
                        \A r \in Rows : hand[r] = <<>>, NEW x \in before
                 PROVE  x \in Range(table) \cup lost
      BY DEF CloseStores
    <2>1. TypeOK /\ Places /\ Holding /\ Closing /\ NothingVanishes
      BY DEF DInv
    <2>2. mode \in {"buffered", "writer"} /\ x \in Rows /\ pc[x] = "ok"
      BY <2>1, TypedTypeOK DEF Typed, ConstantsOK, Closing, Returned
    <2>3. Around(x)
      BY <2>1, <2>2, VanishAround
    <2>4. x \notin Range(buffer) /\ x \notin Range(channel)
      BY <2>1, <2>2, EmptyFacts DEF Closing, Holding
    <2>5. \A p \in Procs : hand[p] = <<>>
      BY <2>1, <2>2, Names DEF Closing, Holding
    <2>6. QED
      BY <2>3, <2>4, <2>5, EmptyFacts DEF Around
  <1>2. QED
    BY <1>1, Inductive, PTL

\* A row is in the table twice only in mode "writer" and after a failure, when
\* the statements of a batch are executed again.
THEOREM StoredOnce == ConstantsOK => (Spec => []OnlyWriterRepeats)
  <1> SUFFICES ASSUME ConstantsOK
               PROVE  Spec => []OnlyWriterRepeats
    OBVIOUS
  <1>1. DInv => OnlyWriterRepeats
    BY DEF DInv, Unique, Exact, Apart, OnlyWriterRepeats
  <1>2. QED
    BY <1>1, Inductive, PTL

=============================================================================
