----------------------------- MODULE SdkProofs ------------------------------
(***************************************************************************)
(* What the SDKs do with one event, each proved of its own specification:  *)
(* the Go SDK (EventLifecycle), the JavaScript SDK (JsEvent) and the       *)
(* Python SDK (PyEvent); and what the pipeline of the Python SDK keeps     *)
(* (PyPipeline), the logger of the Rust SDK (RustLogger) and the loggers   *)
(* of a Go program (Loggers).  They share no state: a constant or a        *)
(* variable declared here stands for the one of that name in each of the   *)
(* instances.                                                              *)
(***************************************************************************)
EXTENDS Integers, Sequences, FiniteSets, FiniteSetTheorems, TLAPS

CONSTANTS
    Emitters, Attributes, Refused, Outcomes, Context, Handles,  \* of EventLifecycle
    Keys, MaxFaults,                                \* of JsEvent, with Handles
    Canonical, Sinks, Policies,                     \* of PyEvent, with Emitters, Attributes
    Events, Workers, QueueSize, MaxBatch, Capacity, Limit,  \* of PyPipeline, with Sinks, MaxFaults
    Threads, Worlds, Callers, Stop, BatchSize, MaxAttempts, \* of RustLogger, with those it shares
    Batch, Files, First, Spare, MaxOps              \* of Loggers, with Events

VARIABLES
    policy, state, finished, attrs, pc, call, handle, delivered,
    sampledOut, raced,                              \* of EventLifecycle
    emitted, outcome, error, dropped, entries, open, payload, sink,
    accepted, refused, late, faults,                \* of JsEvent, with state, attrs, pc
    setter, next, failed, got, passed, unsent,      \* of PyEvent, with those it shares
    queue, offline, batch, hand, stop, offlineLock,
    evicted, acked, unseen,                         \* of PyPipeline, with those it shares
    world, tpc, checked, channel, receiver, batcher,
    work, cpc, sent, abandoned, owed,               \* of RustLogger, with those it shares
    async, arrays, loggers, default, written, held,
    result, program, ops, wanted, shut, retired,
    displaced, closers                              \* of Loggers, with those it shares

Go == INSTANCE EventLifecycle
Js == INSTANCE JsEvent
Py == INSTANCE PyEvent
Pipe == INSTANCE PyPipeline
Rust == INSTANCE RustLogger
Log == INSTANCE Loggers

-----------------------------------------------------------------------------
(* The Go SDK.  GoInv is inductive: an emission in progress excludes another *)
(* one and every change, and what the sinks have follows from what the       *)
(* emissions have done.                                                      *)

Named == Attributes \cup Outcomes \cup {Context}
Busy(e) == pc[e] \in {"encode", "mark"}
Out == delivered # <<>> \/ sampledOut

\* As much of the types as the proof needs.
Shape ==
    /\ pc = [e \in Emitters |-> pc[e]]
    /\ call = [a \in Attributes |-> call[a]]
    /\ sampledOut \in BOOLEAN /\ raced \in BOOLEAN
    /\ attrs \subseteq Named
    /\ delivered \in Seq(SUBSET Named)

\* One emission at a time, and while it lasts the event is closed.
Exclusive ==
    /\ \A e \in Emitters : Busy(e) => state \notin Go!Mutable
    /\ \A e, f \in Emitters : Busy(e) /\ Busy(f) => e = f

\* What an emission has done when it is there.
Progress ==
    /\ \A e \in Emitters : pc[e] = "encode" => ~ Out
    /\ \A e \in Emitters : pc[e] = "mark" => Out
    /\ Out => state \notin Go!Mutable
    /\ Len(delivered) <= IF sampledOut THEN 0 ELSE 1

\* The state, and who has still to write it.
Told ==
    /\ state = "emitted" => Out
    /\ Out => state = "emitted" \/ raced \/ \E e \in Emitters : pc[e] = "mark"

\* The attributes whose call was told they are on the event.
Whole ==
    /\ \A a \in Attributes \ Refused : call[a] = "ok" => a \in attrs
    /\ delivered # <<>> =>
          \A a \in Attributes \ Refused : call[a] = "ok" => a \in delivered[1]

GoInv == Shape /\ Exclusive /\ Progress /\ Told /\ Whole

\* An event that is not yet emitted.
LEMMA GoInit == Go!Init => GoInv
<1> SUFFICES ASSUME Go!Init PROVE GoInv
    OBVIOUS
<1>1. ~ Out /\ state \in Go!Mutable /\ state = "created"
    BY DEF Go!Init, Out, Go!Mutable
<1>2. Len(delivered) = 0 /\ delivered = <<>> /\ delivered \in Seq(SUBSET Named)
    BY DEF Go!Init
<1>3. \A e \in Emitters : pc[e] = "new"
    BY DEF Go!Init
<1>4. Shape
    BY <1>2 DEF Go!Init, Shape
<1>5. Exclusive /\ Progress /\ Told
    BY <1>1, <1>2, <1>3 DEF Exclusive, Progress, Told, Busy
<1>6. Whole
    BY <1>2 DEF Go!Init, Whole
<1> QED BY <1>4, <1>5, <1>6 DEF GoInv

-----------------------------------------------------------------------------
\* A method of Event changes the event only while it may still be changed, and
\* leaves the emissions alone.
LEMMA GoMethod == GoInv /\ Go!Method => GoInv'
<1> SUFFICES ASSUME GoInv, Go!Method PROVE GoInv'
    OBVIOUS
<1> USE DEF GoInv
<1>1. UNCHANGED <<pc, delivered, sampledOut, raced>>
    BY DEF Go!Method, Go!Add, Go!Merge, Go!Delete, Go!Finish, Go!FinishAttrs, Go!Start, Go!End
<1>2. /\ call' = [a \in Attributes |-> call'[a]]
      /\ attrs' \subseteq Named
    BY DEF Go!Method, Go!Add, Go!Merge, Go!Delete, Go!Finish, Go!FinishAttrs, Go!Start, Go!End,
       Go!AddAttr, Shape, Named
<1>3. Shape'
    BY <1>1, <1>2 DEF Shape
<1>4. /\ state \notin Go!Mutable => state' = state
      /\ state \in Go!Mutable => state' \in Go!Mutable
    BY DEF Go!Method, Go!Add, Go!Merge, Go!Delete, Go!Finish, Go!FinishAttrs, Go!Start, Go!End,
       Go!AddAttr,
           Go!ensureMutable, Go!Mutable
<1>5. Exclusive' /\ Progress'
    BY <1>1, <1>4 DEF Exclusive, Progress, Busy, Out
<1>6. Told'
    BY <1>1, <1>4 DEF Told, Out, Go!Mutable
<1>7. \A a \in Attributes : call'[a] = "ok" => call[a] = "ok" \/ state \in Go!Mutable
    BY DEF Go!Method, Go!Add, Go!Merge, Go!Delete, Go!Finish, Go!FinishAttrs, Go!Start, Go!End,
       Go!AddAttr,
           Go!ensureMutable, Shape
<1>8. \A a \in Attributes \ Refused : call'[a] = "ok" => a \in attrs'
    BY DEF Go!Method, Go!Add, Go!Merge, Go!Delete, Go!Finish, Go!FinishAttrs, Go!Start, Go!End,
       Go!AddAttr,
           Go!ensureMutable, Shape, Whole
<1>9. Whole'
    BY <1>1, <1>7, <1>8 DEF Whole, Progress, Out
<1> QED BY <1>3, <1>5, <1>6, <1>9

\* The steps of an emission.
LEMMA GoEmission == ASSUME GoInv, NEW e \in Emitters, Go!Emit(e) PROVE GoInv'
<1> USE DEF GoInv
<1>1. CASE Go!Enrich(e)
    <2>1. pc'[e] \in {"look", "error"} /\ \A f \in Emitters \ {e} : pc'[f] = pc[f]
        BY <1>1 DEF Go!Enrich, Go!Goto, Shape
    <2>2. /\ state \notin Go!Mutable => state' = state
          /\ state \in Go!Mutable => state' \in Go!Mutable
        BY <1>1 DEF Go!Enrich, Go!AddAttr, Go!ensureMutable, Go!Mutable
    <2>3. UNCHANGED <<delivered, sampledOut, raced>> /\ pc[e] = "new"
        BY <1>1 DEF Go!Enrich
    <2>4. Shape'
        BY <1>1 DEF Go!Enrich, Go!AddAttr, Go!Goto, Shape, Named
    <2>5. Exclusive' /\ Progress' /\ Told'
        BY <2>1, <2>2, <2>3 DEF Exclusive, Progress, Told, Busy, Out, Go!Mutable
    <2>6. Whole'
        BY <1>1, <2>3 DEF Go!Enrich, Go!AddAttr, Go!ensureMutable, Whole, Shape, Progress, Out
    <2> QED BY <2>4, <2>5, <2>6
<1>2. CASE Go!Look(e)
    <2>1. pc'[e] \in {"ok", "sample", "error"} /\ \A f \in Emitters \ {e} : pc'[f] = pc[f]
        BY <1>2 DEF Go!Look, Go!Goto, Shape
    <2>2. UNCHANGED <<state, attrs, call, delivered, sampledOut, raced>> /\ ~ Busy(e)
        BY <1>2 DEF Go!Look, Busy
    <2>3. Shape'
        BY <1>2 DEF Go!Look, Go!Goto, Shape
    <2> QED BY <2>1, <2>2, <2>3 DEF Exclusive, Progress, Told, Whole, Busy, Out
<1>3. CASE Go!Sample(e)
    <2>1. Shape'
        BY <1>3 DEF Go!Sample, Go!Goto, Shape
    <2>2. UNCHANGED <<attrs, call, delivered, raced>> /\ pc[e] = "sample"
        BY <1>3 DEF Go!Sample
    <2>3. CASE pc'[e] = "mark"
        <3>1. state \in Go!Mutable /\ state' = "emitting" /\ sampledOut'
              /\ \A f \in Emitters \ {e} : pc'[f] = pc[f]
            BY <1>3, <2>3 DEF Go!Sample, Go!Goto, Go!beginEmit, Shape
        <3>2. delivered = <<>> /\ \A f \in Emitters : ~ Busy(f)
            BY <3>1 DEF Progress, Exclusive, Out
        <3>3. Len(delivered) = 0
            BY <3>2
        <3> QED BY <2>1, <2>2, <2>3, <3>1, <3>2, <3>3
                DEF Exclusive, Progress, Told, Whole, Busy, Out, Go!Mutable
    <2>4. CASE pc'[e] # "mark"
        <3>1. pc'[e] \in {"validate", "error"} /\ UNCHANGED <<state, sampledOut>>
              /\ \A f \in Emitters \ {e} : pc'[f] = pc[f]
            BY <1>3, <2>4 DEF Go!Sample, Go!Goto, Shape
        <3> QED BY <2>1, <2>2, <3>1 DEF Exclusive, Progress, Told, Whole, Busy, Out
    <2> QED BY <2>3, <2>4
<1>4. CASE Go!Validate(e)
    <2>1. pc'[e] \in {"refuse", "begin"} /\ \A f \in Emitters \ {e} : pc'[f] = pc[f]
        BY <1>4 DEF Go!Validate, Go!Goto, Shape
    <2>2. UNCHANGED <<state, call, delivered, sampledOut, raced>> /\ pc[e] = "validate"
        BY <1>4 DEF Go!Validate
    <2>3. attrs \ Refused \subseteq attrs' /\ attrs' \subseteq attrs
        BY <1>4 DEF Go!Validate
    <2>4. Shape'
        BY <1>4, <2>3 DEF Go!Validate, Go!Goto, Shape
    <2>5. Whole'
        BY <2>2, <2>3 DEF Whole
    <2> QED BY <2>1, <2>2, <2>4, <2>5 DEF Exclusive, Progress, Told, Busy, Out
<1>5. CASE Go!Refuse(e)
    <2>1. pc'[e] = "error" /\ \A f \in Emitters \ {e} : pc'[f] = pc[f]
        BY <1>5 DEF Go!Refuse, Go!Goto, Shape
    <2>2. UNCHANGED <<attrs, call, delivered, sampledOut>> /\ pc[e] = "refuse"
          /\ state' = "failed_validation"
          /\ raced' = (raced \/ state \notin Go!Mutable \cup {"failed_validation"})
        BY <1>5 DEF Go!Refuse
    <2>3. Shape'
        BY <1>5 DEF Go!Refuse, Go!Goto, Shape
    <2>4. Exclusive' /\ Progress' /\ Whole'
        BY <2>1, <2>2 DEF Exclusive, Progress, Whole, Busy, Out, Go!Mutable
    <2>5. Told'
        BY <2>1, <2>2 DEF Told, Progress, Out, Go!Mutable
    <2> QED BY <2>3, <2>4, <2>5
<1>6. CASE Go!Begin(e)
    <2>1. UNCHANGED <<attrs, call, delivered, sampledOut, raced>> /\ pc[e] = "begin"
          /\ \A f \in Emitters \ {e} : pc'[f] = pc[f]
        BY <1>6 DEF Go!Begin, Go!Goto, Shape
    <2>2. Shape'
        BY <1>6 DEF Go!Begin, Go!Goto, Shape
    <2>3. CASE state \in Go!Mutable
        <3>1. pc'[e] = "encode" /\ state' = "emitting"
            BY <1>6, <2>3 DEF Go!Begin, Go!Goto, Go!beginEmit, Shape
        <3>2. ~ Out /\ \A f \in Emitters : ~ Busy(f)
            BY <2>3 DEF Progress, Exclusive
        <3> QED BY <2>1, <2>2, <3>1, <3>2
                DEF Exclusive, Progress, Told, Whole, Busy, Out, Go!Mutable
    <2>4. CASE state \notin Go!Mutable
        <3>1. pc'[e] = "error" /\ state' = state
            BY <1>6, <2>4 DEF Go!Begin, Go!Goto, Go!beginEmit, Shape
        <3> QED BY <2>1, <2>2, <3>1 DEF Exclusive, Progress, Told, Whole, Busy, Out
    <2> QED BY <2>3, <2>4
<1>7. CASE Go!Deliver(e)
    <2>1. UNCHANGED <<attrs, call, sampledOut, raced>> /\ pc[e] = "encode"
          /\ \A f \in Emitters \ {e} : pc'[f] = pc[f]
        BY <1>7 DEF Go!Deliver, Go!Goto, Shape
    <2>2. delivered = <<>> /\ ~ sampledOut /\ state \notin Go!Mutable
          /\ \A f \in Emitters \ {e} : ~ Busy(f)
        BY <2>1 DEF Progress, Exclusive, Out, Busy
    <2>3. CASE pc'[e] = "mark"
        <3>1. delivered' = Append(delivered, attrs) /\ state' = state
            BY <1>7, <2>3 DEF Go!Deliver, Go!Goto, Shape
        <3>2. delivered' = <<attrs>> /\ Len(delivered') = 1 /\ delivered'[1] = attrs
              /\ delivered' # <<>>
            BY <3>1, <2>2 DEF Shape
        <3>3. Shape'
            BY <1>7, <3>2 DEF Go!Deliver, Go!Goto, Shape
        <3> QED BY <2>1, <2>2, <2>3, <3>1, <3>2, <3>3
                DEF Exclusive, Progress, Told, Whole, Busy, Out, Go!Mutable
    <2>4. CASE pc'[e] # "mark"
        <3>1. delivered' = delivered /\ state' \in {"failed_validation", "delivery_failed"}
              /\ pc'[e] \in {"error", "ok"}
            BY <1>7, <2>4 DEF Go!Deliver, Go!Goto, Shape
        <3>2. Shape'
            BY <1>7, <3>1 DEF Go!Deliver, Go!Goto, Shape
        <3> QED BY <2>1, <2>2, <3>1, <3>2
                DEF Exclusive, Progress, Told, Whole, Busy, Out, Go!Mutable
    <2> QED BY <2>3, <2>4
<1>8. CASE Go!Mark(e)
    <2>1. UNCHANGED <<attrs, call, delivered, sampledOut, raced>> /\ pc[e] = "mark"
          /\ state' = "emitted" /\ pc'[e] \in {"ok", "error"}
          /\ \A f \in Emitters \ {e} : pc'[f] = pc[f]
        BY <1>8 DEF Go!Mark, Go!Goto, Shape
    <2>2. Shape'
        BY <1>8 DEF Go!Mark, Go!Goto, Shape
    <2> QED BY <2>1, <2>2 DEF Exclusive, Progress, Told, Whole, Busy, Out, Go!Mutable
<1> QED BY <1>1, <1>2, <1>3, <1>4, <1>5, <1>6, <1>7, <1>8 DEF Go!Emit

\* Every step keeps the invariant.
LEMMA GoNext == GoInv /\ [Go!Next]_Go!vars => GoInv'
<1> SUFFICES ASSUME GoInv, [Go!Next]_Go!vars PROVE GoInv'
    OBVIOUS
<1>1. CASE Go!Method
    BY <1>1, GoMethod
<1>2. CASE \E e \in Emitters : Go!Emit(e)
    BY <1>2, GoEmission
<1>3. CASE UNCHANGED Go!vars
    BY <1>3 DEF Go!vars, GoInv, Shape, Exclusive, Progress, Told, Whole, Busy, Out
<1> QED BY <1>1, <1>2, <1>3 DEF Go!Next

\* It is what the property says of the emissions.
LEMMA GoImplies == GoInv => Go!EmittedOnceAndWhole
<1> SUFFICES ASSUME GoInv PROVE Go!EmittedOnceAndWhole
    OBVIOUS
<1>1. Go!OneEmission
    BY DEF GoInv, Go!OneEmission, Exclusive, Progress, Busy
<1>2. Go!AcceptedIsDelivered
    BY DEF GoInv, Go!AcceptedIsDelivered, Whole
<1>3. Go!StateTells
    BY DEF GoInv, Go!StateTells, Told, Out
<1> QED BY <1>1, <1>2, <1>3 DEF Go!EmittedOnceAndWhole

-----------------------------------------------------------------------------
\* An event goes out once, with everything it was told to carry, and its state
\* says so, in any interleaving of any number of calls that share it
\* (core/event.go and core/logger.go of the Go SDK).
THEOREM GoEmits == Go!Spec => []Go!EmittedOnceAndWhole
BY GoInit, GoNext, GoImplies, PTL DEF Go!Spec

-----------------------------------------------------------------------------
(* The JavaScript SDK.  JsInv is inductive: once the event is marked, one      *)
(* emitter has it, on its way or at the sink.                                *)

\* What an emitter can have encoded.
Payloads == [attrs : SUBSET Keys, entries : SUBSET Handles,
             outcome : Js!Outcomes \cup {"unset"}, error : BOOLEAN]

\* An emitter that has the event, on its way or at the sink.
Has(t) == pc[t] \in {"writing", "delivered"}

JsTypes ==
    /\ Js!TypeOK
    /\ pc \in [Js!Emitters -> {"fn", "idle", "writing", "delivered", "null", "rejected", "thrown"}]
    /\ payload \in [Js!Emitters -> Payloads]
    /\ accepted = attrs
    /\ sampledOut \in BOOLEAN /\ refused \in BOOLEAN /\ late \subseteq Handles

\* One emitter has the event, once it is marked, and the sink has what that one
\* encoded.
JsSent ==
    /\ ~emitted => state \in {"created", "active", "finished"}
    /\ ~emitted => \A t \in Js!Emitters : ~Has(t)
    /\ \A t, u \in Js!Emitters : Has(t) /\ Has(u) => t = u
    /\ (\A t \in Js!Emitters : pc[t] # "delivered") => sink = <<>>
    /\ \A t \in Js!Emitters : pc[t] = "delivered" => sink = <<payload[t]>>

\* What was encoded is what the event has, but for what ended since.
JsWhole ==
    \A t \in Js!Emitters : Has(t) =>
        /\ payload[t].attrs = attrs \ dropped
        /\ entries \ late \subseteq payload[t].entries
        /\ payload[t].error = TRUE => payload[t].outcome = "error" \/ refused
        /\ payload[t].outcome = "unset" => t = Js!Explicit

JsState ==
    /\ state = "emitted" => sampledOut \/ \E t \in Js!Emitters : pc[t] = "delivered"
    /\ state = "delivery_failed" => \A t \in Js!Emitters : ~Has(t)

\* The outcome and the error, up to the emit.
JsOutcome ==
    /\ error => refused \/ (outcome = "error" /\ (emitted \/ state = "finished"))
    /\ state = "finished" => outcome # "unset"
    /\ late # {} => emitted

JsInv == JsTypes /\ JsSent /\ JsWhole /\ JsState /\ JsOutcome /\ Js!RunEmits

\* The function runs and nobody has emitted.
LEMMA JsInit == ASSUME MaxFaults \in Nat, Js!Init PROVE JsInv
<1>1. Js!Run \in Js!Emitters /\ Js!Run # Js!Explicit /\ Js!Nothing \in Payloads
    BY DEF Js!Emitters, Js!Run, Js!Explicit, Js!Nothing, Payloads
<1>2. pc \in [Js!Emitters -> {"fn", "idle", "writing", "delivered", "null", "rejected", "thrown"}]
    BY DEF Js!Init
<1>5. payload \in [Js!Emitters -> Payloads]
    BY <1>1 DEF Js!Init
<1>6. JsTypes
  <2>1. /\ emitted \in BOOLEAN /\ error \in BOOLEAN /\ sampledOut \in BOOLEAN /\ refused \in BOOLEAN
        /\ state = "created" /\ outcome = "unset" /\ accepted = attrs
        /\ attrs = {} /\ dropped = {} /\ entries = {} /\ open = {} /\ late = {}
    BY DEF Js!Init
  <2>2. faults = 0
    BY DEF Js!Init
  <2>3. 0 \in 0 .. MaxFaults
    OBVIOUS
  <2> QED BY <1>2, <1>5, <2>1, <2>2, <2>3 DEF JsTypes, Js!TypeOK
<1>3. \A t \in Js!Emitters : ~Has(t) /\ pc[t] # "delivered"
    BY DEF Js!Init, Has
<1>4. pc[Js!Run] = "fn"
    BY <1>1 DEF Js!Init
<1> QED BY <1>6, <1>3, <1>4 DEF Js!Init, JsInv, JsSent, JsWhole, JsState, JsOutcome, Js!RunEmits

\* emit, by whoever calls it, with the outcome and the error the event is left with.
LEMMA JsEmit ==
    ASSUME MaxFaults \in Nat, JsInv, NEW t \in Js!Emitters, NEW o \in Js!Outcomes \cup {"unset"},
           NEW e \in BOOLEAN,
           Js!emit(t, o, e),
           UNCHANGED <<attrs, dropped, entries, open, sink, accepted, refused, late>>,
           outcome' = o, error' = e, pc[t] \in {"fn", "idle"},
           e = TRUE => refused \/ o = "error",
           o = "unset" => outcome = "unset" /\ t = Js!Explicit,
           o # outcome => ~emitted
    PROVE  JsInv'
<1> USE DEF JsInv
<1>t. JsTypes'
  <2>1. Js!Encoded(o, e) \in Payloads
    BY DEF JsTypes, Js!TypeOK, Js!Encoded, Payloads
  <2>2. /\ pc' \in [Js!Emitters -> {"fn", "idle", "writing", "delivered", "null", "rejected", "thrown"}]
        /\ payload' \in [Js!Emitters -> Payloads]
    BY <2>1 DEF Js!emit, JsTypes
  <2>3. /\ state' \in {state, "emitting", "emitted"} /\ emitted' \in BOOLEAN
        /\ sampledOut' \in BOOLEAN /\ faults' \in 0 .. MaxFaults
    <3>1. state' \in {state, "emitting", "emitted"}
      BY DEF Js!emit, Js!markEmitted
    <3>2. faults' \in 0 .. MaxFaults
      <4>1. faults' = faults \/ (faults < MaxFaults /\ faults' = faults + 1)
        BY DEF Js!emit, Js!Fault
      <4>2. faults \in 0 .. MaxFaults
        BY DEF JsTypes, Js!TypeOK
      <4> QED BY <4>1, <4>2
    <3>3. emitted' \in BOOLEAN
      BY DEF Js!emit, Js!markEmitted, JsTypes, Js!TypeOK
    <3>4. sampledOut' \in BOOLEAN
      BY DEF Js!emit, JsTypes
    <3> QED BY <3>1, <3>2, <3>3, <3>4
  <2> QED BY <2>2, <2>3 DEF JsTypes, Js!TypeOK
<1>1. CASE emitted
  <2>1. /\ UNCHANGED <<state, emitted, payload, sampledOut>> /\ outcome' = outcome
        /\ pc' = [pc EXCEPT ![t] = "null"]
    BY <1>1 DEF Js!emit, Js!markEmitted
  <2>2. \A u \in Js!Emitters : (Has(u)' <=> Has(u)) /\ (pc'[u] = "delivered" <=>
            pc[u] = "delivered")
    BY <2>1 DEF JsTypes, Has
  <2>3. JsSent' /\ JsState'
    BY <1>1, <2>1, <2>2 DEF JsSent, JsState
  <2>4. JsWhole'
    BY <2>1, <2>2 DEF JsWhole
  <2>5. JsOutcome' /\ Js!RunEmits'
    BY <1>1, <2>1 DEF JsOutcome, Js!RunEmits
  <2> QED BY <1>t, <2>3, <2>4, <2>5
<1>2. CASE ~emitted
  <2>1. emitted' /\ state' \in {"emitting", "emitted"} /\ sink = <<>>
    BY <1>2 DEF Js!emit, Js!markEmitted, JsSent, Has
  <2>2. \A u \in Js!Emitters : u # t => ~Has(u) /\ pc'[u] = pc[u]
    BY <1>2 DEF Js!emit, JsSent, JsTypes
  <2>3. /\ pc'[t] \in {"writing", "null", "rejected"}
        /\ pc'[t] = "writing" => payload'[t] = Js!Encoded(o, e)
        /\ state' = "emitted" => sampledOut'
    BY <1>2 DEF Js!emit, JsTypes, Js!markEmitted
  <2>4. JsSent' /\ JsState'
    BY <2>1, <2>2, <2>3 DEF JsSent, JsState, Has
  <2>5. JsWhole'
    <3> SUFFICES ASSUME NEW u \in Js!Emitters, Has(u)'
                 PROVE  /\ payload'[u].attrs = attrs' \ dropped'
                        /\ entries' \ late' \subseteq payload'[u].entries
                        /\ payload'[u].error = TRUE => payload'[u].outcome = "error" \/ refused'
                        /\ payload'[u].outcome = "unset" => u = Js!Explicit
      BY DEF JsWhole
    <3>1. u = t /\ payload'[u] = Js!Encoded(o, e)
      BY <2>2, <2>3 DEF Has
    <3>2. /\ payload'[u].attrs = attrs \ dropped /\ payload'[u].entries = entries
          /\ payload'[u].outcome = o
      BY <3>1 DEF Js!Encoded
    <3>3. payload'[u].error = e
      BY <3>1 DEF Js!Encoded
    <3> QED BY <3>1, <3>2, <3>3
  <2>6. JsOutcome' /\ Js!RunEmits'
    BY <2>1, <1>2 DEF JsOutcome, Js!RunEmits
  <2> QED BY <1>t, <2>4, <2>5, <2>6
<1> QED BY <1>1, <1>2

\* Every step keeps the invariant; the cases of emit rest on JsEmit.
LEMMA JsStep == ASSUME MaxFaults \in Nat, JsInv, [Js!Next]_Js!vars PROVE JsInv'
<1> USE DEF JsInv
<1>1. ASSUME NEW k \in Keys, Js!enrich(k) \/ Js!drop(k) \/ Js!delete(k) PROVE JsInv'
  <2>1. ~emitted /\ \A t \in Js!Emitters : ~Has(t)
    BY <1>1 DEF Js!enrich, Js!drop, Js!delete, Js!ensureMutable, JsSent
  <2>2. /\ state' \in {state, "active"} /\ (state' # state => state = "created")
        /\ UNCHANGED <<emitted, outcome, error, entries, open, pc, payload, sink, sampledOut, refused, late, faults>>
    BY <1>1 DEF Js!enrich, Js!drop, Js!delete, Js!markActive
  <2>3. JsTypes'
    BY <1>1, <2>2 DEF Js!enrich, Js!drop, Js!delete, JsTypes, Js!TypeOK
  <2> QED BY <2>1, <2>2, <2>3 DEF JsSent, JsWhole, JsState, JsOutcome, Js!RunEmits, Has
<1>2. ASSUME NEW h \in Handles, Js!start(h) \/ Js!stop(h) PROVE JsInv'
  <2>1. JsTypes'
    BY <1>2 DEF Js!start, Js!stop, Js!event, Js!history, JsTypes, Js!TypeOK
  <2>2. /\ UNCHANGED <<state, emitted, outcome, error, attrs, dropped, pc, payload, sink,
                       accepted, sampledOut, refused>>
        /\ entries' \ late' \subseteq entries \ late \/ ~emitted
        /\ late' = late \/ emitted
    BY <1>2 DEF Js!start, Js!stop, Js!event, Js!history
  <2>3. JsWhole'
    BY <2>2 DEF JsWhole, JsSent, Has
  <2> QED BY <2>1, <2>2, <2>3 DEF JsSent, JsState, JsOutcome, Js!RunEmits, Has
<1>3. ASSUME NEW o \in Js!Outcomes, Js!finish(o), o = "success" PROVE JsInv'
  <2>1. JsTypes'
    BY <1>3 DEF Js!finish, Js!CanFinish, Js!Finished, Js!history, JsTypes, Js!TypeOK
  <2> QED BY <1>3, <2>1 DEF Js!finish, Js!CanFinish, Js!ensureMutable, Js!Finished, Js!history,
                            JsSent, JsWhole, JsState, JsOutcome, Js!RunEmits, Has
<1>4. CASE Js!finishError
  <2>1. JsTypes'
    BY <1>4 DEF Js!finishError, Js!CanFinish, Js!Finished, JsTypes, Js!TypeOK, Js!Outcomes
  <2> QED BY <1>4, <2>1 DEF Js!finishError, Js!CanFinish, Js!ensureMutable, Js!Finished,
                            JsSent, JsWhole, JsState, JsOutcome, Js!RunEmits, Has
<1>5. CASE Js!emitExplicit
    BY <1>5, JsEmit DEF Js!emitExplicit, JsTypes, Js!TypeOK, JsOutcome, Js!Emitters
<1>6. ASSUME Js!finishAndEmit("cancelled") PROVE JsInv'
    BY <1>6, JsEmit DEF Js!finishAndEmit, Js!CanFinish, Js!ensureMutable, JsTypes, Js!TypeOK,
       JsOutcome, Js!Emitters, Js!Outcomes
<1>7. ASSUME NEW how \in {"rejected", "thrown"}, pc[Js!Run] = "fn", Js!Rejects(how),
             emitted \/ (how = "thrown" /\ outcome # "unset")
      PROVE  JsInv'
  <2>1. JsTypes'
    BY <1>7 DEF Js!Rejects, JsTypes, Js!TypeOK
  <2>2. \A t \in Js!Emitters : Has(t)' = Has(t) /\ (pc'[t] = "delivered" <=> pc[t] = "delivered")
    <3>1. pc' = [pc EXCEPT ![Js!Run] = how] /\ how \notin {"writing", "delivered"}
      BY <1>7 DEF Js!Rejects
    <3>2. pc[Js!Run] = "fn" /\ Js!Run \in Js!Emitters
      BY <1>7 DEF Js!Emitters
    <3>3. \A t \in Js!Emitters : (t = Js!Run /\ pc'[t] = how) \/ pc'[t] = pc[t]
      BY <3>1 DEF JsTypes
    <3> QED BY <3>1, <3>2, <3>3 DEF Has
  <2>3. pc'[Js!Run] = how
    BY <1>7 DEF Js!Rejects, JsTypes, Js!Emitters
  <2> QED BY <1>7, <2>1, <2>2, <2>3 DEF Js!Rejects, JsSent, JsWhole, JsState, JsOutcome, Js!RunEmits
<1>8. CASE Js!Returns
  <2>1. CASE Js!Unfinished /\ Js!CanFinish /\ outcome' = "success" /\
                Js!emit(Js!Run, "success", error)
    BY <1>8, <2>1, JsEmit DEF Js!Returns, Js!CanFinish, Js!ensureMutable, JsTypes, Js!TypeOK,
       JsOutcome, Js!Emitters, Js!Outcomes
  <2>2. CASE ~Js!Unfinished /\ Js!emit(Js!Run, outcome, error)
    BY <1>8, <2>2, JsEmit DEF Js!Returns, Js!Unfinished, JsTypes, Js!TypeOK, JsOutcome,
       Js!Emitters, Js!Outcomes
  <2>3. CASE Js!Unfinished /\ ~Js!CanFinish /\ Js!Rejects("rejected")
    BY <1>8, <2>3, <1>7 DEF Js!Returns, Js!Unfinished, Js!CanFinish, Js!ensureMutable, JsSent
  <2> QED BY <1>8, <2>1, <2>2, <2>3 DEF Js!Returns
<1>9. CASE Js!Throws
  <2>1. CASE Js!CanFinish /\ outcome' = "error" /\ error' = TRUE /\ Js!emit(Js!Run, "error", TRUE)
    BY <1>9, <2>1, JsEmit DEF Js!Throws, Js!CanFinish, Js!ensureMutable, JsTypes, Js!TypeOK,
       Js!Emitters, Js!Outcomes
  <2>2. CASE ~Js!CanFinish /\ Js!Rejects("thrown")
    BY <1>9, <2>2, <1>7 DEF Js!Throws, Js!CanFinish, Js!ensureMutable, JsSent, JsOutcome
  <2> QED BY <1>9, <2>1, <2>2 DEF Js!Throws
<1>10. ASSUME NEW t \in Js!Emitters, Js!Written(t) PROVE JsInv'
  <2>1. JsTypes'
    BY <1>10 DEF Js!Written, Js!history, JsTypes, Js!TypeOK
  <2>2. emitted /\ sink' = <<payload[t]>> /\ pc'[t] = "delivered" /\ \A u \in Js!Emitters : u # t =>
           ~Has(u) /\ pc'[u] = pc[u]
    <3>1. Has(t) /\ \A u \in Js!Emitters : pc[u] # "delivered"
      BY <1>10 DEF Js!Written, JsSent, Has
    <3>2. emitted /\ sink = <<>> /\ \A u \in Js!Emitters : u # t => ~Has(u)
      BY <3>1 DEF JsSent
    <3> QED BY <1>10, <3>2 DEF Js!Written, JsTypes
  <2> QED BY <1>10, <2>1, <2>2 DEF Js!Written, Js!history, JsSent, JsWhole, JsState, JsOutcome,
     Js!RunEmits, Has, JsTypes
<1>11. ASSUME NEW t \in Js!Emitters, Js!NotWritten(t) PROVE JsInv'
  <2>1. JsTypes'
    <3>1. /\ faults < MaxFaults /\ faults' = faults + 1 /\ faults \in 0 .. MaxFaults
      BY <1>11 DEF Js!NotWritten, Js!Fault, JsTypes, Js!TypeOK
    <3>2. faults' \in 0 .. MaxFaults
      BY <3>1
    <3>3. pc' \in [Js!Emitters -> {"fn", "idle", "writing", "delivered", "null", "rejected", "thrown"}]
      BY <1>11 DEF Js!NotWritten, JsTypes
    <3> QED BY <1>11, <3>2, <3>3 DEF Js!NotWritten, Js!history, JsTypes, Js!TypeOK
  <2>2. emitted /\ pc'[t] = "null" /\ \A u \in Js!Emitters : u # t => ~Has(u) /\ pc'[u] = pc[u]
    <3>1. Has(t)
      BY <1>11 DEF Js!NotWritten, Has
    <3>2. emitted /\ \A u \in Js!Emitters : u # t => ~Has(u)
      BY <3>1 DEF JsSent
    <3> QED BY <1>11, <3>2 DEF Js!NotWritten, JsTypes
  <2> QED BY <1>11, <2>1, <2>2 DEF Js!NotWritten, Js!history, JsSent, JsWhole, JsState,
     JsOutcome, Js!RunEmits, Has, JsTypes
<1>12. CASE UNCHANGED Js!vars
    BY <1>12 DEF Js!vars, Js!event, Js!history, JsTypes, Js!TypeOK, JsSent, JsWhole, JsState,
       JsOutcome, Js!RunEmits, Has
<1> QED
    BY <1>1, <1>2, <1>3, <1>4, <1>5, <1>6, <1>8, <1>9, <1>10, <1>11, <1>12 DEF Js!Next,
       Js!Calls, Js!Outcomes

\* Whatever callbacks run between the awaits of Logger.run and of emit, the sink has
\* the event at most once and with all that was accepted before the encoding, the
\* state and the outcome say what happened, and run emits the event in its own call
\* or rejects (logger.ts, event.ts).
THEOREM JsEmits ==
    MaxFaults \in Nat =>
        (Js!Spec => [](Js!TypeOK /\ Js!OnceAndWhole /\ Js!StateTells /\ Js!OutcomeFits /\ Js!RunEmits))
<1> SUFFICES ASSUME MaxFaults \in Nat
             PROVE  Js!Spec => [](Js!TypeOK /\ Js!OnceAndWhole /\ Js!StateTells /\ Js!OutcomeFits /\
                       Js!RunEmits)
    OBVIOUS
<1>1. Js!Init => JsInv
    BY JsInit
<1>2. JsInv /\ [Js!Next]_Js!vars => JsInv'
    BY JsStep
<1>3. JsInv => Js!TypeOK /\ Js!OnceAndWhole /\ Js!StateTells /\ Js!OutcomeFits /\ Js!RunEmits
  <2> SUFFICES ASSUME JsInv PROVE Js!OnceAndWhole /\ Js!StateTells /\ Js!OutcomeFits
    BY DEF JsInv, JsTypes
  <2>1. CASE \A t \in Js!Emitters : pc[t] # "delivered"
    <3>1. sink = <<>> /\ Len(sink) = 0 /\ DOMAIN sink = {}
      BY <2>1 DEF JsInv, JsSent
    <3> QED BY <2>1, <3>1 DEF JsInv, JsState, Js!OnceAndWhole, Js!StateTells, Js!OutcomeFits
  <2>2. ASSUME NEW t \in Js!Emitters, pc[t] = "delivered"
        PROVE  Js!OnceAndWhole /\ Js!StateTells /\ Js!OutcomeFits
    <3>1. sink = <<payload[t]>> /\ Len(sink) = 1 /\ DOMAIN sink = {1} /\ sink[1] = payload[t] /\
             Has(t)
      BY <2>2 DEF JsInv, JsSent, Has
    <3>2. accepted \ dropped = attrs \ dropped /\ state # "delivery_failed"
      BY <2>2, <3>1 DEF JsInv, JsTypes, JsState
    <3>3. /\ payload[t].attrs = attrs \ dropped
          /\ entries \ late \subseteq payload[t].entries
          /\ payload[t].error = TRUE => payload[t].outcome = "error" \/ refused
          /\ payload[t].outcome = "unset" => t = Js!Explicit
      BY <3>1 DEF JsInv, JsWhole
    <3>4. Js!OnceAndWhole
      BY <3>1, <3>2, <3>3 DEF Js!OnceAndWhole
    <3>5. Js!StateTells
      BY <3>1, <3>2 DEF Js!StateTells
    <3>6. Js!OutcomeFits
      BY <2>2, <3>1, <3>3 DEF Js!OutcomeFits
    <3> QED BY <3>4, <3>5, <3>6
  <2> QED BY <2>1, <2>2
<1> QED BY <1>1, <1>2, <1>3, PTL DEF Js!Spec

-----------------------------------------------------------------------------
(* The Python SDK, which locks nothing.  PyInv is inductive: it counts the     *)
(* emitters that are past a place, and says of the one emitter there is        *)
(* without a race what the event and the places have.                          *)

\* Finitely many threads; at least one sink, and each is configured once.
PyConstants ==
    /\ IsFiniteSet(Emitters) /\ MaxFaults \in Nat
    /\ Policies \subseteq [duplicate : STRING, strict : BOOLEAN, recovery : BOOLEAN, pipeline :
          BOOLEAN]
    /\ Sinks \in Seq(STRING \ {Py!Queue}) /\ Sinks # <<>>
    /\ \A i, j \in DOMAIN Sinks : Sinks[i] = Sinks[j] => i = j

\* The control states of an emitter, and what it can have encoded.
Pcs == {"idle", "returned", "raised", "check", "mark", "encode", "deliver", "end", "tell", "recover"}
Encodings == [attrs : SUBSET Attributes, outcome : {"unset", "success", "abandoned"}]

\* The types, and where an emitter can be.
PyTypes ==
    /\ Py!TypeOK
    /\ policy.pipeline \in BOOLEAN /\ policy.strict \in BOOLEAN /\ policy.recovery \in BOOLEAN
    /\ outcome \in {"unset", "success", "abandoned"}
    /\ pc \in [Emitters -> Pcs]
    /\ payload \in [Emitters -> Encodings]
    /\ next \in [Emitters -> 1 .. Len(Sinks) + 1]
    /\ failed \in [Emitters -> BOOLEAN]
    /\ got \in [Py!Places -> Seq(Encodings)]
    /\ passed \subseteq Emitters /\ unsent \in BOOLEAN
    /\ \A t \in Emitters : pc[t] \in {"check", "mark", "encode", "deliver", "end", "tell"} =>
           t \in passed
    /\ \A t \in passed : pc[t] # "idle"

\* An emitter that has still to give the event to a place, and those that have
\* not.
Awaits(t, p) ==
    \/ pc[t] \in {"check", "mark", "encode"}
    \/ pc[t] = "deliver" /\
          (policy.pipeline \/ \E i \in DOMAIN Sinks : i >= next[t] /\ Sinks[i] = p)
Past(p) == {t \in passed : ~Awaits(t, p)}

\* A place has a copy at most of each emitter that is past it.
PyCount == \A p \in Py!Places : Len(got[p]) <= Cardinality(Past(p))

\* The states of an event that no emitter takes up.
Ended == {"emitted", "delivery_failed", "failed_validation"}

\* Nobody has passed the check.
Untouched ==
    /\ state \in {"created", "active", "finished", "emitted"}
    /\ emitted = (state = "emitted")
    /\ state = "emitted" => unsent
    /\ attrs = accepted
    /\ \A p \in Py!Places : got[p] = <<>>

\* What the state and the attributes are when the one emitter is there.
OneAt(t) ==
    /\ setter = "none"
    /\ pc[t] \in {"check", "mark"} => state \in {"created", "active", "finished"} /\ ~emitted
    /\ pc[t] \in {"encode", "deliver", "end", "tell"} => state = "emitting"
    /\ pc[t] \in {"encode", "deliver", "end"} => ~emitted
    /\ pc[t] = "tell" => emitted
    /\ pc[t] \in {"returned", "raised", "recover"} =>
          state \in Ended /\ emitted = (state = "emitted")
    /\ pc[t] \in {"check", "mark", "encode"} =>
          attrs = accepted /\ \A p \in Py!Places : got[p] = <<>>
    /\ pc[t] = "deliver" => payload[t].attrs = Py!Wanted

\* Every copy has the attributes whose calls had returned.
Same == \A p \in Py!Places : \A i \in DOMAIN got[p] : got[p][i].attrs = Py!Wanted

\* Without a race one emitter passes the check.
PyOne ==
    ~raced => /\ \A t, u \in passed : t = u
              /\ passed = {} => Untouched
              /\ \A t \in passed : OneAt(t)
              /\ Same

\* The places an event should reach.
Due == IF policy.pipeline THEN {Py!Queue} ELSE Py!Places \ {Py!Queue}

\* What the places have when the one emitter is there.
ToldAt(t) ==
    /\ pc[t] = "deliver" /\ policy.pipeline => got[Py!Queue] = <<>>
    /\ pc[t] = "deliver" => \A i \in DOMAIN Sinks : i >= next[t] => got[Sinks[i]] = <<>>
    /\ pc[t] = "deliver" /\ ~failed[t] => \A i \in DOMAIN Sinks : i < next[t] =>
           got[Sinks[i]] # <<>>
    /\ pc[t] \in {"deliver", "end"} /\ failed[t]
          => \E i \in DOMAIN Sinks : i < next[t] /\ got[Sinks[i]] = <<>>
    /\ pc[t] \in {"end", "tell"} /\ ~failed[t] => \A p \in Due : got[p] # <<>>
    /\ pc[t] = "tell" => ~failed[t]
    /\ pc[t] = "recover" => state # "emitted"
    /\ pc[t] \in {"returned", "raised", "recover"} =>
          /\ state = "emitted" => unsent \/ \A p \in Due : got[p] # <<>>
          /\ state # "emitted" => \E p \in Due : got[p] = <<>>

\* An emitter that has not begun with the sinks, or never will.
Fresh(t) == policy.pipeline \/ t \notin passed \/ pc[t] \in {"check", "mark", "encode"}

\* What the emitters have done, when they are there.
PyTold ==
    /\ \A t \in Emitters : Fresh(t) => next[t] = 1 /\ ~failed[t]
    /\ ~raced => \A t \in passed : ToldAt(t)

PyInv == PyTypes /\ PyCount /\ PyOne /\ PyTold

\* The sinks and the queue, as places.
LEMMA PyParts ==
    ASSUME PyConstants
    PROVE  /\ Len(Sinks) \in Nat \ {0} /\ DOMAIN Sinks = 1 .. Len(Sinks)
           /\ \A i \in DOMAIN Sinks : Sinks[i] \in Py!Places /\ Sinks[i] # Py!Queue
           /\ Py!Queue \in Py!Places
           /\ \A p \in Py!Places : p = Py!Queue \/ \E i \in DOMAIN Sinks : p = Sinks[i]
<1>1. Len(Sinks) \in Nat \ {0} /\ DOMAIN Sinks = 1 .. Len(Sinks)
    BY DEF PyConstants
<1>2. \A i \in DOMAIN Sinks : Sinks[i] # Py!Queue
    BY DEF PyConstants
<1> QED BY <1>1, <1>2 DEF Py!Places

\* The fields of a policy that the steps branch on.
LEMMA PyPolicy ==
    ASSUME PyConstants, policy \in Policies
    PROVE  policy.pipeline \in BOOLEAN /\ policy.strict \in BOOLEAN /\ policy.recovery \in BOOLEAN
BY DEF PyConstants

\* A failure that is used up.
LEMMA PyFault ==
    ASSUME PyConstants, faults \in 0 .. MaxFaults, Py!Fault PROVE faults' \in 0 .. MaxFaults
BY DEF PyConstants, Py!Fault

\* Nobody has called anything.
LEMMA PyInit == ASSUME PyConstants, Py!Init PROVE PyInv
<1>1. policy \in Policies /\ faults \in 0 .. MaxFaults
    BY DEF Py!Init, PyConstants
<1>2. Py!Nothing \in Encodings
    BY DEF Py!Nothing, Encodings
<1>3. 1 \in 1 .. Len(Sinks) + 1
    BY PyParts
<1>4. /\ pc \in [Emitters -> Pcs] /\ payload \in [Emitters -> Encodings]
      /\ next \in [Emitters -> 1 .. Len(Sinks) + 1] /\ failed \in [Emitters -> BOOLEAN]
      /\ \A t \in Emitters : pc[t] = "idle" /\ next[t] = 1 /\ ~failed[t]
    BY <1>2, <1>3 DEF Py!Init, Pcs
<1>5. got \in [Py!Places -> Seq(Encodings)] /\ \A p \in Py!Places : got[p] = <<>>
  <2>1. <<>> \in Seq(Encodings)
    OBVIOUS
  <2> QED BY <2>1 DEF Py!Init
<1>6. Py!TypeOK
  <2>1. attrs \subseteq Attributes /\ accepted \subseteq Attributes /\ state = "created" /\
           setter = "none"
    BY DEF Py!Init
  <2>2. emitted \in BOOLEAN /\ finished \in BOOLEAN /\ raced \in BOOLEAN
    BY DEF Py!Init
  <2> QED BY <1>1, <1>4, <2>1, <2>2 DEF Py!TypeOK
<1>7. PyTypes
  <2>1. passed = {} /\ unsent \in BOOLEAN /\ outcome = "unset"
    BY DEF Py!Init
  <2> QED BY <1>1, <1>4, <1>5, <1>6, <2>1, PyPolicy DEF PyTypes
<1>8. PyCount
  <2>1. \A p \in Py!Places : Past(p) = {}
    BY DEF Past, Py!Init
  <2>2. \A p \in Py!Places : got[p] = <<>> /\ Len(got[p]) = 0
    BY <1>5
  <2>3. Cardinality({}) = 0
    BY FS_EmptySet
  <2> SUFFICES ASSUME NEW p \in Py!Places PROVE Len(got[p]) <= Cardinality(Past(p))
    BY DEF PyCount
  <2>4. Len(got[p]) = 0 /\ Past(p) = {}
    BY <2>1, <2>2
  <2> QED BY <2>3, <2>4
<1>9. PyOne /\ PyTold
  <2>1. /\ passed = {} /\ state = "created" /\ emitted = FALSE /\ attrs = {} /\ accepted = {}
        /\ setter = "none"
        /\ \A p \in Py!Places : got[p] = <<>>
    BY <1>5 DEF Py!Init
  <2>2. \A p \in Py!Places : DOMAIN got[p] = {}
    BY <1>5
  <2>3. PyOne
    BY <2>1, <2>2 DEF PyOne, Untouched, Same
  <2> QED BY <1>4, <2>1, <2>3 DEF PyTold
<1> QED BY <1>7, <1>8, <1>9 DEF PyInv

\* A call of the application changes neither what the emitters do nor what the
\* places have.
Called == UNCHANGED <<policy, Py!emitting, got, passed, faults>>

\* Of such a call the types need what it assigns.
LEMMA PyTypesOfCalls ==
    ASSUME PyConstants, PyTypes, Called, attrs' \subseteq Attributes,
           accepted' \subseteq Attributes,
           state' \in Py!Closed \cup {"created", "active", "finished"},
           emitted' \in BOOLEAN, finished' \in BOOLEAN, raced' \in BOOLEAN, unsent' \in BOOLEAN,
           setter' \in Attributes \cup {"none"}, outcome' \in {"unset", "success", "abandoned"}
    PROVE  PyTypes'
<1>1. UNCHANGED <<policy, pc, payload, next, failed, got, passed, faults>>
    BY DEF Called, Py!emitting
<1>2. Py!TypeOK'
    BY <1>1 DEF PyTypes, Py!TypeOK, Py!Inside
<1> QED BY <1>1, <1>2 DEF PyTypes

\* A step of an emitter: its control state, and what it leaves alone.
LEMMA PyTypesOfEmit ==
    ASSUME PyConstants, PyTypes, NEW t \in Emitters, NEW to \in Pcs, Py!Go(t, to),
           to \in {"check", "mark", "encode", "deliver", "end", "tell"} => t \in passed',
           t \in passed' => to # "idle", passed \subseteq passed',
           passed' \subseteq passed \cup {t},
           UNCHANGED <<policy, finished, outcome, setter, accepted>>, attrs' \subseteq Attributes,
           state' \in Py!Closed \cup {"created", "active", "finished"},
           emitted' \in BOOLEAN, raced' \in BOOLEAN, unsent' \in BOOLEAN,
           payload' \in [Emitters -> Encodings], next' \in [Emitters -> 1 .. Len(Sinks) + 1],
           failed' \in [Emitters -> BOOLEAN], got' \in [Py!Places -> Seq(Encodings)],
           faults' = faults \/ Py!Fault
    PROVE  PyTypes'
<1>1. pc' \in [Emitters -> Pcs] /\ pc'[t] = to /\ \A u \in Emitters : u # t => pc'[u] = pc[u]
    BY DEF Py!Go, PyTypes
<1>2. faults' \in 0 .. MaxFaults
    BY PyFault DEF PyTypes, Py!TypeOK
<1>3. \A u \in Emitters : pc'[u] \in {"idle", "returned", "raised"} \/ Py!Inside(u)'
    BY <1>1 DEF Pcs, Py!Inside
<1>4. Py!TypeOK'
    BY <1>2, <1>3 DEF PyTypes, Py!TypeOK
<1>5. /\ \A u \in Emitters : pc'[u] \in {"check", "mark", "encode", "deliver", "end", "tell"} =>
             u \in passed'
      /\ \A u \in passed' : pc'[u] # "idle"
      /\ passed' \subseteq Emitters
    BY <1>1 DEF PyTypes
<1> QED BY <1>1, <1>4, <1>5 DEF PyTypes

\* Every step of the event keeps the types.
LEMMA PyTypesStep == ASSUME PyConstants, PyTypes, [Py!Next]_Py!vars PROVE PyTypes'
<1> DEFINE States == Py!Closed \cup {"created", "active", "finished"}
<1>0. /\ state \in States /\ emitted \in BOOLEAN /\ finished \in BOOLEAN /\ raced \in BOOLEAN
      /\ attrs \subseteq Attributes /\ accepted \subseteq Attributes
      /\ setter \in Attributes \cup {"none"} /\ unsent \in BOOLEAN
      /\ outcome \in {"unset", "success", "abandoned"}
      /\ pc \in [Emitters -> Pcs]
      /\ payload \in [Emitters -> Encodings]
      /\ next \in [Emitters -> 1 .. Len(Sinks) + 1]
      /\ failed \in [Emitters -> BOOLEAN]
      /\ got \in [Py!Places -> Seq(Encodings)]
      /\ passed \subseteq Emitters
      /\ \A t \in Emitters : pc[t] \in {"check", "mark", "encode", "deliver", "end", "tell"} =>
             t \in passed
      /\ policy.recovery \in BOOLEAN
    BY DEF PyTypes, Py!TypeOK
<1>1. ASSUME NEW k \in Attributes, Py!Enrich(k) PROVE PyTypes'
  <2>1. Called /\ UNCHANGED <<emitted, finished, outcome, attrs, accepted, unsent>> /\ setter' = k
    BY <1>1 DEF Py!Enrich, Called
  <2>2. state' \in States /\ raced' \in BOOLEAN
    BY <1>0, <1>1 DEF Py!Enrich, Py!mark_active, Py!InGap
  <2> QED BY <1>0, <2>1, <2>2, PyTypesOfCalls
<1>2. CASE Py!Apply
    BY <1>0, <1>2, PyTypesOfCalls DEF Py!Apply, Called
<1>3. CASE Py!Stop
    BY <1>0, <1>3, PyTypesOfCalls DEF Py!Stop, Called, Py!history
<1>4. CASE Py!finish("success")
    BY <1>0, <1>4, PyTypesOfCalls DEF Py!finish, Called, Py!InGap
<1>5. CASE Py!mark_partial
    BY <1>0, <1>5, PyTypesOfCalls DEF Py!mark_partial, Called, Py!InGap
<1>6. CASE Py!drop
    BY <1>0, <1>6, PyTypesOfCalls DEF Py!drop, Called, Py!InGap, Py!Closed
<1>7. ASSUME NEW t \in Emitters, Py!Begin(t) PROVE PyTypes'
  <2>1. UNCHANGED <<policy, finished, outcome, setter, accepted, attrs, state, emitted, unsent,
                    payload, next, failed, got, faults>>
    BY <1>7 DEF Py!Begin, Py!event
  <2>2. PICK to \in {"returned", "recover", "raised", "check"} :
           /\ Py!Go(t, to) /\ raced' \in BOOLEAN
           /\ (to # "check" /\ passed' = passed) \/ (to = "check" /\ passed' = passed \cup {t})
    BY <1>0, <1>7 DEF Py!Begin, Py!Raise
  <2> QED BY <1>0, <2>1, <2>2, PyTypesOfEmit DEF Pcs
<1>8. ASSUME NEW t \in Emitters, Py!Validate(t) \/ Py!Mark(t) PROVE PyTypes'
  <2>1. UNCHANGED <<policy, finished, outcome, setter, accepted, attrs, raced, passed,
                    payload, next, failed, got>>
    BY <1>8 DEF Py!Validate, Py!Mark, Py!history
  <2>2. /\ state' \in States /\ emitted' \in BOOLEAN /\ unsent' \in BOOLEAN
        /\ (faults' = faults \/ Py!Fault) /\ t \in passed
    BY <1>0, <1>8 DEF Py!Validate, Py!Mark, Py!Fails, Py!Discard, Py!history, Py!Closed
  <2>3. PICK to \in {"mark", "returned", "recover", "raised", "encode"} : Py!Go(t, to)
    BY <1>8 DEF Py!Validate, Py!Mark, Py!Fails, Py!Discard, Py!Raise
  <2> QED BY <1>0, <2>1, <2>2, <2>3, PyTypesOfEmit DEF Pcs
<1>9. ASSUME NEW t \in Emitters, Py!Encode(t) PROVE PyTypes'
  <2>1. UNCHANGED <<policy, finished, outcome, setter, accepted, raced, passed, next, failed, got>>
    BY <1>9 DEF Py!Encode
  <2>2. /\ state' \in States /\ emitted' \in BOOLEAN /\ unsent' \in BOOLEAN
        /\ (faults' = faults \/ Py!Fault) /\ t \in passed
    BY <1>0, <1>9 DEF Py!Encode, Py!Fails, Py!Discard, Py!Closed
  <2>3. PICK to \in {"deliver", "returned", "recover", "raised"} : Py!Go(t, to)
    BY <1>9 DEF Py!Encode, Py!Fails, Py!Discard, Py!Raise
  <2>4. attrs' \subseteq Attributes /\ payload' \in [Emitters -> Encodings]
    <3>1. Py!Kept \subseteq Attributes
      BY <1>0 DEF Py!Kept
    <3>2. [attrs |-> Py!Kept, outcome |-> outcome] \in Encodings
      BY <1>0, <3>1 DEF Encodings
    <3> QED BY <1>0, <1>9, <3>1, <3>2 DEF Py!Encode
  <2> QED BY <1>0, <2>1, <2>2, <2>3, <2>4, PyTypesOfEmit DEF Pcs
<1>10. ASSUME NEW t \in Emitters, NEW p \in Py!Places, Py!Give(t, p)
       PROVE  got' \in [Py!Places -> Seq(Encodings)]
    BY <1>0, <1>10 DEF Py!Give
<1>11. ASSUME NEW t \in Emitters, Py!Enqueue(t) PROVE PyTypes'
  <2>1. /\ UNCHANGED <<policy, Py!event, setter, payload, next, failed, Py!history, faults>>
        /\ Py!Go(t, "end") /\ t \in passed
    BY <1>0, <1>11 DEF Py!Enqueue
  <2>2. got' \in [Py!Places -> Seq(Encodings)]
    BY <1>10, <1>11, PyParts DEF Py!Enqueue
  <2> QED BY <1>0, <2>1, <2>2, PyTypesOfEmit DEF Pcs, Py!event, Py!history
<1>12. ASSUME NEW t \in Emitters, Py!WriteSink(t) PROVE PyTypes'
  <2>1. UNCHANGED <<policy, Py!event, setter, payload, Py!history>> /\ t \in passed /\
           pc[t] = "deliver"
    BY <1>0, <1>12 DEF Py!WriteSink
  <2>2. faults' = faults \/ Py!Fault
    BY <1>12 DEF Py!WriteSink
  <2>3. PICK to \in {"end", "deliver"} : Py!Go(t, to)
    <3>1. UNCHANGED pc => Py!Go(t, "deliver")
      BY <1>0, <2>1 DEF Py!Go
    <3> QED BY <1>12, <3>1 DEF Py!WriteSink
  <2>4. next' \in [Emitters -> 1 .. Len(Sinks) + 1]
    <3>1. next[t] \in 1 .. Len(Sinks) + 1
      BY <1>0
    <3>2. next[t] <= Len(Sinks) => next[t] + 1 \in 1 .. Len(Sinks) + 1
      BY <3>1, PyParts
    <3>3. next' = next \/ (next[t] <= Len(Sinks) /\ next' = [next EXCEPT ![t] = @ + 1])
      BY <1>12, <3>1, PyParts DEF Py!WriteSink
    <3> QED BY <1>0, <3>2, <3>3
  <2>5. failed' \in [Emitters -> BOOLEAN]
    BY <1>0, <1>12 DEF Py!WriteSink
  <2>6. got' \in [Py!Places -> Seq(Encodings)]
    <3>1. got' = got \/ (next[t] <= Len(Sinks) /\ Py!Give(t, Sinks[next[t]]))
      <4>1. next[t] \in 1 .. Len(Sinks) + 1
        BY <1>0
      <4> QED BY <1>12, <4>1, PyParts DEF Py!WriteSink
    <3>2. next[t] <= Len(Sinks) => Sinks[next[t]] \in Py!Places
      BY <1>0, PyParts
    <3> QED BY <1>0, <1>10, <3>1, <3>2
  <2> QED BY <1>0, <2>1, <2>2, <2>3, <2>4, <2>5, <2>6, PyTypesOfEmit DEF Pcs, Py!event, Py!history
<1>13. ASSUME NEW t \in Emitters, Py!End(t) \/ Py!Tell(t) \/ Py!Recover(t) PROVE PyTypes'
  <2>1. UNCHANGED <<policy, finished, outcome, setter, accepted, attrs, passed, unsent,
                    payload, next, failed, got, faults>>
    BY <1>13 DEF Py!End, Py!Tell, Py!Recover, Py!history
  <2>2. state' \in States /\ emitted' \in BOOLEAN /\ raced' \in BOOLEAN
    BY <1>0, <1>13 DEF Py!End, Py!Tell, Py!Recover, Py!history, Py!Closed
  <2>3. PICK to \in {"returned", "tell", "raised"} : Py!Go(t, to) /\ (to = "tell" => t \in passed)
    BY <1>0, <1>13 DEF Py!End, Py!Tell, Py!Recover
  <2> QED BY <1>0, <2>1, <2>2, <2>3, PyTypesOfEmit DEF Pcs
<1>14. CASE UNCHANGED Py!vars
    BY <1>14 DEF Py!vars, Py!event, Py!emitting, Py!history, PyTypes, Py!TypeOK, Py!Inside
<1> QED
    BY <1>1, <1>2, <1>3, <1>4, <1>5, <1>6, <1>7, <1>8, <1>9, <1>11, <1>12, <1>13, <1>14 DEF
       Py!Next, Py!Emit

\* Nobody has the event given to them and nobody is less far: the count stands.
LEMMA PyCountSame ==
    ASSUME PyConstants, PyTypes, PyTypes', PyCount, UNCHANGED got,
           \A p \in Py!Places : Past(p) \subseteq Past(p)'
    PROVE  PyCount'
<1> SUFFICES ASSUME NEW p \in Py!Places PROVE Len(got[p]) <= Cardinality(Past(p)')
    BY DEF PyCount, Py!Places
<1>1. IsFiniteSet(Past(p)')
  <2>1. IsFiniteSet(Emitters) /\ passed' \subseteq Emitters
    BY DEF PyConstants, PyTypes
  <2>2. Past(p)' \in SUBSET Emitters
    BY <2>1 DEF Past
  <2> QED BY <2>1, <2>2, FS_Subset
<1>2. Past(p) \in SUBSET (Past(p)')
    OBVIOUS
<1>3. IsFiniteSet(Past(p)) /\ Cardinality(Past(p)) <= Cardinality(Past(p)')
    BY <1>1, <1>2, FS_Subset
<1>4. Cardinality(Past(p)) \in Nat /\ Cardinality(Past(p)') \in Nat
    BY <1>1, <1>3, FS_CardinalityType
<1>5. Len(got[p]) \in Nat /\ Len(got[p]) <= Cardinality(Past(p))
    BY DEF PyTypes, PyCount
<1> QED BY <1>3, <1>4, <1>5

\* The emitter that gives the event to a place is one more that is past it.
LEMMA PyCountGive ==
    ASSUME PyConstants, PyTypes, PyTypes', PyCount, NEW t \in Emitters, NEW q \in Py!Places,
           Py!Give(t, q),
           t \notin Past(q), t \in Past(q)', \A p \in Py!Places : Past(p) \subseteq Past(p)'
    PROVE  PyCount'
<1> SUFFICES ASSUME NEW p \in Py!Places PROVE Len(got'[p]) <= Cardinality(Past(p)')
    BY DEF PyCount, Py!Places
<1> DEFINE Old == Past(p)
           New == Past(p)'
<1>1. IsFiniteSet(New)
  <2>1. IsFiniteSet(Emitters) /\ passed' \subseteq Emitters
    BY DEF PyConstants, PyTypes
  <2>2. New \in SUBSET Emitters
    BY <2>1 DEF Past
  <2> QED BY <2>1, <2>2, FS_Subset
<1>2. Old \in SUBSET New
    OBVIOUS
<1>3. IsFiniteSet(Old) /\ Cardinality(Old) <= Cardinality(New)
    BY <1>1, <1>2, FS_Subset
<1>4. Cardinality(Old) \in Nat /\ Cardinality(New) \in Nat
    BY <1>1, <1>3, FS_CardinalityType
<1>5. Len(got[p]) \in Nat /\ Len(got[p]) <= Cardinality(Old)
    BY DEF PyTypes, PyCount
<1>6. got'[p] = IF p = q THEN Append(got[p], payload[t]) ELSE got[p]
    BY DEF Py!Give, PyTypes
<1>7. p = q => Cardinality(Old) + 1 <= Cardinality(New)
  <2> SUFFICES ASSUME p = q PROVE Cardinality(Old) + 1 <= Cardinality(New)
    OBVIOUS
  <2>1. IsFiniteSet(Old \cup {t}) /\ Cardinality(Old \cup {t}) = Cardinality(Old) + 1
    BY <1>3, FS_AddElement
  <2>2. Old \cup {t} \in SUBSET New
    BY <1>2
  <2>3. Cardinality(Old \cup {t}) <= Cardinality(New)
    BY <1>1, <2>2, FS_Subset
  <2> QED BY <1>4, <2>1, <2>3
<1>8. Len(got'[p]) = IF p = q THEN Len(got[p]) + 1 ELSE Len(got[p])
  <2>1. got[p] \in Seq(Encodings) /\ payload[t] \in Encodings
    BY DEF PyTypes
  <2> QED BY <1>6, <2>1
<1> QED BY <1>3, <1>4, <1>5, <1>7, <1>8

\* A place never has more copies than emitters that are past it.
LEMMA PyCountStep == ASSUME PyConstants, PyTypes, PyCount, [Py!Next]_Py!vars PROVE PyCount'
<1>0. PyTypes'
    BY PyTypesStep
<1>1. /\ pc \in [Emitters -> Pcs] /\ passed \subseteq Emitters
      /\ next \in [Emitters -> 1 .. Len(Sinks) + 1]
    BY DEF PyTypes
<1>2. ASSUME UNCHANGED <<policy, Py!emitting, got, passed>> PROVE PyCount'
    BY <1>0, <1>2, PyCountSame DEF Py!emitting, Past, Awaits
<1>3. ASSUME NEW t \in Emitters, NEW to \in Pcs, Py!Go(t, to),
             passed \subseteq passed', UNCHANGED <<policy, next, got>>,
             t \in passed /\ pc[t] \notin {"check", "mark", "encode"} =>
                 \A p \in Py!Places : ~Awaits(t, p)',
             (t \in passed /\ to = "deliver") => pc[t] = "encode"
      PROVE  PyCount'
  <2>1. \A u \in Emitters : u # t => pc'[u] = pc[u]
    BY <1>1, <1>3 DEF Py!Go
  <2>2. pc'[t] = to
    BY <1>1, <1>3 DEF Py!Go
  <2>3. \A p \in Py!Places : Past(p) \subseteq Past(p)'
    <3> SUFFICES ASSUME NEW p \in Py!Places, NEW u \in Past(p) PROVE u \in Past(p)'
      OBVIOUS
    <3>1. u \in Emitters /\ u \in passed /\ u \in passed' /\ ~Awaits(u, p)
      BY <1>1, <1>3 DEF Past
    <3>2. u # t => ~Awaits(u, p)'
      BY <1>3, <2>1, <3>1 DEF Awaits
    <3>3. u = t => ~Awaits(u, p)'
      BY <1>3, <3>1 DEF Awaits
    <3> QED BY <3>1, <3>2, <3>3 DEF Past
  <2> QED BY <1>0, <1>3, <2>3, PyCountSame
<1>4. ASSUME NEW t \in Emitters, NEW to \in Pcs, Py!Go(t, to),
             to \notin {"check", "mark", "encode", "deliver"},
             passed' = passed, UNCHANGED <<policy, next, got>>
      PROVE  PyCount'
  <2>1. pc'[t] = to
    BY <1>1, <1>4 DEF Py!Go
  <2>2. \A p \in Py!Places : ~Awaits(t, p)'
    BY <1>4, <2>1 DEF Awaits
  <2> QED BY <1>3, <1>4, <2>2
<1>5. ASSUME NEW t \in Emitters, Py!Begin(t) PROVE PyCount'
  <2>1. pc[t] = "idle" /\ t \notin passed /\ UNCHANGED <<policy, next, got>>
    BY <1>5 DEF Py!Begin, PyTypes
  <2>2. \/ Py!Go(t, "check") /\ passed' = passed \cup {t}
        \/ passed' = passed /\ \E to \in {"returned", "recover", "raised"} : Py!Go(t, to)
    BY <1>5 DEF Py!Begin, Py!Raise
  <2> QED BY <1>3, <1>4, <2>1, <2>2 DEF Pcs
<1>6. ASSUME NEW t \in Emitters, Py!Validate(t) \/ Py!Mark(t) \/ Py!Encode(t) PROVE PyCount'
  <2>1. pc[t] \in {"check", "mark", "encode"} /\ UNCHANGED <<policy, next, got, passed>>
    BY <1>6 DEF Py!Validate, Py!Mark, Py!Encode, Py!history
  <2>2. \E to \in {"mark", "encode", "deliver", "returned", "recover", "raised"} :
           Py!Go(t, to) /\ (to = "deliver" => pc[t] = "encode")
    BY <1>6 DEF Py!Validate, Py!Mark, Py!Encode, Py!Fails, Py!Discard, Py!Raise
  <2> QED BY <1>3, <2>1, <2>2 DEF Pcs
<1>7. ASSUME NEW t \in Emitters, Py!End(t) \/ Py!Tell(t) \/ Py!Recover(t) PROVE PyCount'
  <2>1. UNCHANGED <<policy, next, got, passed>>
    BY <1>7 DEF Py!End, Py!Tell, Py!Recover, Py!history
  <2>2. \E to \in {"tell", "returned", "raised"} : Py!Go(t, to)
    BY <1>7 DEF Py!End, Py!Tell, Py!Recover
  <2> QED BY <1>4, <2>1, <2>2 DEF Pcs
<1>8. ASSUME NEW t \in Emitters, Py!Enqueue(t) PROVE PyCount'
  <2>1. /\ pc[t] = "deliver" /\ policy.pipeline /\ Py!Give(t, Py!Queue) /\ Py!Go(t, "end")
        /\ UNCHANGED <<policy, next, passed>> /\ t \in passed
    BY <1>8 DEF Py!Enqueue, Py!history, PyTypes
  <2>2. pc'[t] = "end" /\ \A u \in Emitters : u # t => pc'[u] = pc[u]
    BY <1>1, <2>1 DEF Py!Go
  <2>3. t \notin Past(Py!Queue) /\ t \in Past(Py!Queue)'
    BY <2>1, <2>2 DEF Past, Awaits
  <2>4. \A p \in Py!Places : Past(p) \subseteq Past(p)'
    BY <1>1, <2>1, <2>2 DEF Past, Awaits
  <2> QED BY <1>0, <2>1, <2>3, <2>4, PyParts, PyCountGive
<1>9. ASSUME NEW t \in Emitters, Py!WriteSink(t) PROVE PyCount'
  <2>1. pc[t] = "deliver" /\ ~policy.pipeline /\ UNCHANGED <<policy, passed>> /\ t \in passed
    BY <1>9 DEF Py!WriteSink, Py!history, PyTypes
  <2>2. next[t] \in 1 .. Len(Sinks) + 1 /\ Len(Sinks) \in Nat
    BY <1>1, PyParts
  <2>3. CASE next[t] > Len(Sinks)
    BY <1>4, <1>9, <2>1, <2>3 DEF Py!WriteSink, Pcs
  <2>4. CASE ~(next[t] > Len(Sinks))
    <3>1. next' = [next EXCEPT ![t] = @ + 1] /\ UNCHANGED pc /\ next[t] \in DOMAIN Sinks
      BY <1>9, <2>2, <2>4, PyParts DEF Py!WriteSink
    <3>2. next'[t] = next[t] + 1 /\ \A u \in Emitters : u # t => next'[u] = next[u]
      BY <1>1, <3>1
    <3>3. \A p \in Py!Places : Past(p) \subseteq Past(p)'
      <4> SUFFICES ASSUME NEW p \in Py!Places, NEW u \in Past(p) PROVE u \in Past(p)'
        OBVIOUS
      <4>1. u \in Emitters /\ u \in passed' /\ ~Awaits(u, p)
        BY <1>1, <2>1 DEF Past
      <4>2. u # t => ~Awaits(u, p)'
        BY <2>1, <3>1, <3>2, <4>1 DEF Awaits
      <4>3. u = t => ~Awaits(u, p)'
        <5>1. \A i \in DOMAIN Sinks : i >= next[t] + 1 => i >= next[t]
          BY <2>2, PyParts
        <5> QED BY <2>1, <3>1, <3>2, <4>1, <5>1 DEF Awaits
      <4> QED BY <4>1, <4>2, <4>3 DEF Past
    <3>4. CASE UNCHANGED got
      BY <1>0, <3>3, <3>4, PyCountSame
    <3>5. CASE Py!Give(t, Sinks[next[t]])
      <4>1. PICK q \in Py!Places : q = Sinks[next[t]]
        BY <3>1, PyParts
      <4>2. Awaits(t, q)
        <5>1. next[t] >= next[t]
          BY <2>2
        <5> QED BY <2>1, <3>1, <4>1, <5>1 DEF Awaits
      <4>3. ~Awaits(t, q)'
        <5>1. \A i \in DOMAIN Sinks : i >= next[t] + 1 => i # next[t]
          BY <2>2, PyParts
        <5>2. \A i \in DOMAIN Sinks : i >= next[t] + 1 => Sinks[i] # q
          BY <3>1, <4>1, <5>1 DEF PyConstants
        <5>3. ~(\E i \in DOMAIN Sinks : i >= next'[t] /\ Sinks[i] = q)
          BY <3>2, <5>2
        <5>4. pc'[t] = "deliver" /\ ~policy'.pipeline
          BY <2>1, <3>1
        <5> QED BY <5>3, <5>4 DEF Awaits
      <4>4. Py!Give(t, q) /\ t \notin Past(q) /\ t \in Past(q)'
        BY <2>1, <3>5, <4>1, <4>2, <4>3 DEF Past
      <4> QED BY <1>0, <3>3, <4>4, PyCountGive
    <3> QED BY <1>9, <2>4, <3>4, <3>5 DEF Py!WriteSink
  <2> QED BY <2>3, <2>4
<1>10. ASSUME NEW k \in Attributes, Py!Enrich(k) PROVE PyCount'
    BY <1>2, <1>10 DEF Py!Enrich
<1>11. CASE Py!Apply \/ Py!Stop \/ Py!finish("success") \/ Py!mark_partial \/ Py!drop
  <2>1. UNCHANGED <<policy, Py!emitting, got, passed>>
    BY <1>11 DEF Py!Apply, Py!Stop, Py!finish, Py!mark_partial, Py!drop, Py!history
  <2> QED BY <1>2, <2>1
<1>12. CASE UNCHANGED Py!vars
  <2>1. UNCHANGED <<policy, Py!emitting, got, passed>>
    BY <1>12 DEF Py!vars, Py!history
  <2> QED BY <1>2, <2>1
<1> QED BY <1>5, <1>6, <1>7, <1>8, <1>9, <1>10, <1>11, <1>12 DEF Py!Next, Py!Emit

\* Without a race an event that takes changes is one that nobody emits.
LEMMA PyMutable ==
    ASSUME PyTypes, PyOne, ~raced, ~Py!InGap, Py!ensure_mutable PROVE passed = {}
<1> SUFFICES ASSUME NEW t \in passed PROVE FALSE
    OBVIOUS
<1>1. t \in Emitters /\ pc[t] \in Pcs /\ pc[t] # "idle" /\ pc[t] \notin {"check", "mark"}
    BY DEF PyTypes, Py!InGap
<1>2. OneAt(t)
    BY DEF PyOne
<1> QED BY <1>1, <1>2 DEF OneAt, Pcs, Py!ensure_mutable, Py!Closed, Ended

\* The step of the one emitter.
LEMMA PyOneEmit ==
    ASSUME PyTypes, PyOne, ~raced, NEW t \in passed, UNCHANGED passed, OneAt(t)', Same' PROVE PyOne'
BY DEF PyOne

\* Without a race there is one emitter, and the event is what it left it.
LEMMA PyOneStep == ASSUME PyConstants, PyTypes, PyOne, [Py!Next]_Py!vars PROVE PyOne'
<1> SUFFICES ASSUME ~raced' PROVE PyOne'
    BY DEF PyOne
<1>0. /\ pc \in [Emitters -> Pcs] /\ passed \subseteq Emitters
      /\ payload \in [Emitters -> Encodings]
      /\ emitted \in BOOLEAN /\ got \in [Py!Places -> Seq(Encodings)]
      /\ \A t \in Emitters : pc[t] \in {"check", "mark", "encode", "deliver", "end", "tell"} =>
             t \in passed
    BY DEF PyTypes, Py!TypeOK
<1>1. ASSUME ~raced, passed = {}, UNCHANGED passed, Untouched', Same' PROVE PyOne'
    BY <1>1 DEF PyOne
<1>2. ASSUME NEW k \in Attributes, Py!Enrich(k) PROVE PyOne'
  <2>1. ~raced /\ passed = {} /\ UNCHANGED <<passed, got, policy, accepted>>
    BY <1>2, PyMutable DEF Py!Enrich
  <2>2. Untouched /\ Same /\ state \notin Py!Closed
    BY <1>2, <2>1 DEF PyOne, Py!Enrich, Py!ensure_mutable
  <2>3. Untouched'
    BY <1>2, <2>1, <2>2 DEF Untouched, Py!Enrich, Py!mark_active, Py!Closed
  <2>4. Same'
    BY <2>1, <2>2 DEF Same, Py!Wanted, Py!Places
  <2> QED BY <1>1, <2>1, <2>3, <2>4
<1>3. CASE Py!Apply
  <2>1. ~raced /\ UNCHANGED <<passed, got, policy>> /\ setter # "none"
    BY <1>3 DEF Py!Apply
  <2>2. passed = {}
    BY <2>1 DEF PyOne, OneAt
  <2>3. Untouched /\ Untouched'
    BY <1>3, <2>1, <2>2 DEF PyOne, Untouched, Py!Apply, Py!Places
  <2>4. Same'
    BY <2>1, <2>3 DEF Untouched, Same, Py!Places
  <2> QED BY <1>1, <2>1, <2>2, <2>3, <2>4
<1>4. CASE Py!Stop \/ UNCHANGED Py!vars
  <2>1. UNCHANGED <<policy, state, emitted, attrs, setter, pc, payload, got, accepted, passed, raced, unsent>>
    BY <1>4 DEF Py!Stop, Py!vars, Py!event, Py!emitting, Py!history
  <2> QED BY <2>1 DEF PyOne, Untouched, OneAt, Same, Py!Wanted, Py!Places
<1>5. CASE Py!finish("success") \/ Py!mark_partial \/ Py!drop
  <2>1. ~raced /\ passed = {} /\ UNCHANGED <<passed, got, policy, accepted, attrs>>
    BY <1>5, PyMutable DEF Py!finish, Py!mark_partial, Py!drop
  <2>2. Untouched /\ Same /\ state \notin Py!Closed
    BY <1>5, <2>1 DEF PyOne, Py!finish, Py!mark_partial, Py!drop, Py!ensure_mutable
  <2>3. Untouched'
    BY <1>5, <2>1, <2>2 DEF Untouched, Py!finish, Py!mark_partial, Py!drop, Py!Closed, Py!Places
  <2>4. Same'
    BY <2>1, <2>2 DEF Same, Py!Wanted, Py!Places
  <2> QED BY <1>1, <2>1, <2>3, <2>4
<1>6. ASSUME NEW t \in Emitters, Py!Begin(t) PROVE PyOne'
  <2>1. UNCHANGED <<policy, state, emitted, attrs, setter, payload, got, accepted, unsent>> /\
           pc[t] = "idle" /\ t \notin passed
    BY <1>6 DEF Py!Begin, Py!event, PyTypes
  <2>2. CASE passed' = passed /\ raced' = raced /\
                \E to \in {"returned", "recover", "raised"} : Py!Go(t, to)
    <3>1. \A u \in passed : pc'[u] = pc[u]
      BY <1>0, <2>1, <2>2 DEF Py!Go
    <3>2. ~raced /\ passed' = passed
      BY <2>2
    <3>3. Same /\ Same'
      BY <2>1, <3>2 DEF PyOne, Same, Py!Wanted, Py!Places
    <3>4. passed = {} => Untouched'
      BY <2>1, <3>2 DEF PyOne, Untouched, Py!Places
    <3>5. ASSUME NEW u \in passed PROVE OneAt(u)'
      <4>1. OneAt(u) /\ pc'[u] = pc[u]
        BY <3>1, <3>2 DEF PyOne
      <4> QED BY <2>1, <4>1 DEF OneAt, Py!Wanted, Py!Places
    <3>6. \A u, v \in passed : u = v
      BY <3>2 DEF PyOne
    <3> QED BY <3>2, <3>3, <3>4, <3>5, <3>6 DEF PyOne
  <2>3. CASE /\ ~(state = "emitted" \/ emitted) /\ Py!MayEmit /\ Py!Go(t, "check")
             /\ passed' = passed \cup {t}
             /\ raced' = (raced \/ setter # "none" \/ \E u \in Emitters : Py!Inside(u))
    <3>1. ~raced /\ setter = "none" /\ \A u \in Emitters : ~Py!Inside(u)
      BY <2>3
    <3>2. passed = {}
      <4> SUFFICES ASSUME NEW u \in passed PROVE FALSE
        OBVIOUS
      <4>1. u \in Emitters /\ pc[u] \in {"returned", "raised"}
        BY <1>0, <3>1 DEF Py!Inside, Pcs, PyTypes
      <4>2. state \in Ended
        BY <3>1, <4>1 DEF PyOne, OneAt
      <4> QED BY <2>3, <4>2 DEF Py!MayEmit, Ended
    <3>3. Untouched /\ Same
      BY <3>1, <3>2 DEF PyOne
    <3>4. pc'[t] = "check" /\ passed' = {t}
      BY <1>0, <2>3, <3>2 DEF Py!Go
    <3>5. Same'
      BY <2>1, <3>3 DEF Same, Py!Wanted, Py!Places
    <3>6. OneAt(t)'
      BY <2>1, <2>3, <3>1, <3>3, <3>4 DEF Untouched, OneAt, Py!Places
    <3> QED BY <3>4, <3>5, <3>6 DEF PyOne
  <2> QED BY <1>6, <2>2, <2>3 DEF Py!Begin, Py!Raise
<1>7. ASSUME NEW t \in Emitters, Py!Validate(t) \/ Py!Mark(t) PROVE PyOne'
  <2>1. /\ ~raced /\ t \in passed /\ pc[t] \in {"check", "mark"}
        /\ UNCHANGED <<policy, attrs, setter, payload, got, accepted, passed>>
    BY <1>0, <1>7 DEF Py!Validate, Py!Mark, Py!history
  <2>2. OneAt(t) /\ Same
    BY <2>1 DEF PyOne
  <2>3. Same'
    BY <2>1, <2>2 DEF Same, Py!Wanted, Py!Places
  <2>4. /\ pc'[t] = "mark" => pc[t] = "check" /\ UNCHANGED <<state, emitted>>
        /\ pc'[t] \in {"mark", "encode", "returned", "raised", "recover"}
        /\ pc'[t] = "encode" => state' = "emitting" /\ emitted' = emitted
        /\ pc'[t] \in {"returned", "raised", "recover"} =>
              state' \in Ended /\ emitted' = (state' = "emitted")
    BY <1>0, <1>7 DEF Py!Validate, Py!Mark, Py!Go, Py!Fails, Py!Raise, Py!Discard, Ended
  <2>5. OneAt(t)'
    BY <2>1, <2>2, <2>4 DEF OneAt, Py!Places
  <2> QED BY <2>1, <2>3, <2>5, PyOneEmit
<1>8. ASSUME NEW t \in Emitters, Py!Encode(t) PROVE PyOne'
  <2>1. /\ ~raced /\ t \in passed /\ pc[t] = "encode"
        /\ UNCHANGED <<policy, setter, got, accepted, passed>>
    BY <1>0, <1>8 DEF Py!Encode
  <2>2. OneAt(t) /\ Same
    BY <2>1 DEF PyOne
  <2>3. Same'
    BY <2>1, <2>2 DEF Same, Py!Wanted, Py!Places
  <2>4. Py!Kept = Py!Wanted
    BY <2>1, <2>2 DEF OneAt, Py!Kept, Py!Wanted
  <2>5. /\ pc'[t] \in {"deliver", "returned", "raised", "recover"}
        /\ pc'[t] = "deliver" =>
              state' = state /\ emitted' = emitted /\
                 payload'[t] = [attrs |-> Py!Kept, outcome |-> outcome]
        /\ pc'[t] \in {"returned", "raised", "recover"} =>
              state' \in Ended /\ emitted' = (state' = "emitted")
    BY <1>0, <1>8 DEF Py!Encode, Py!Go, Py!Fails, Py!Raise, Py!Discard, Ended
  <2>6. pc'[t] = "deliver" => payload'[t].attrs = Py!Wanted'
    BY <2>1, <2>4, <2>5 DEF Py!Wanted
  <2>7. OneAt(t)'
    BY <2>1, <2>2, <2>5, <2>6 DEF OneAt
  <2> QED BY <2>1, <2>3, <2>7, PyOneEmit
<1>9. ASSUME NEW t \in passed, NEW q \in Py!Places, Py!Give(t, q), payload[t].attrs = Py!Wanted,
             Same,
             UNCHANGED <<policy, accepted>>
      PROVE  Same'
  <2>1. got[q] \in Seq(Encodings) /\ payload[t] \in Encodings
    BY <1>0
  <2>2. \A p \in Py!Places : got'[p] = IF p = q THEN Append(got[q], payload[t]) ELSE got[p]
    BY <1>0, <1>9 DEF Py!Give
  <2>3. \A i \in DOMAIN Append(got[q], payload[t]) : Append(got[q], payload[t])[i].attrs = Py!Wanted
    <3> SUFFICES ASSUME NEW i \in DOMAIN Append(got[q], payload[t])
                 PROVE  Append(got[q], payload[t])[i].attrs = Py!Wanted
      OBVIOUS
    <3>1. \/ i \in DOMAIN got[q] /\ Append(got[q], payload[t])[i] = got[q][i]
          \/ Append(got[q], payload[t])[i] = payload[t]
      BY <2>1
    <3> QED BY <1>9, <3>1 DEF Same
  <2>4. Py!Wanted' = Py!Wanted
    BY <1>9 DEF Py!Wanted
  <2>5. \A p \in Py!Places : \A i \in DOMAIN got'[p] : got'[p][i].attrs = Py!Wanted
    BY <1>9, <2>2, <2>3 DEF Same
  <2> QED BY <2>4, <2>5 DEF Same, Py!Places
<1>10. ASSUME NEW t \in Emitters, Py!Enqueue(t) \/ Py!WriteSink(t) PROVE PyOne'
  <2>1. /\ ~raced /\ t \in passed /\ pc[t] = "deliver"
        /\ UNCHANGED <<policy, state, emitted, attrs, setter, payload, accepted, passed>>
    BY <1>0, <1>10 DEF Py!Enqueue, Py!WriteSink, Py!event, Py!history
  <2>2. OneAt(t) /\ Same /\ payload[t].attrs = Py!Wanted
    BY <2>1 DEF PyOne, OneAt
  <2>3. pc'[t] \in {"deliver", "end"}
    BY <1>0, <1>10, <2>1 DEF Py!Enqueue, Py!WriteSink, Py!Go
  <2>4. UNCHANGED got \/ \E q \in Py!Places : Py!Give(t, q)
    <3>1. CASE Py!Enqueue(t)
      BY <3>1, PyParts DEF Py!Enqueue
    <3>2. CASE Py!WriteSink(t)
      <4>1. next[t] \in 1 .. Len(Sinks) + 1
        BY DEF PyTypes
      <4>2. next[t] > Len(Sinks) \/ Sinks[next[t]] \in Py!Places
        BY <4>1, PyParts
      <4> QED BY <3>2, <4>2 DEF Py!WriteSink
    <3> QED BY <1>10, <3>1, <3>2
  <2>5. Same'
    <3>1. UNCHANGED got => Same'
      BY <2>1, <2>2 DEF Same, Py!Wanted, Py!Places
    <3> QED BY <1>9, <2>1, <2>2, <2>4, <3>1
  <2>6. Py!Wanted' = Py!Wanted
    BY <2>1 DEF Py!Wanted
  <2>7. OneAt(t)'
    BY <2>1, <2>2, <2>3, <2>6 DEF OneAt
  <2> QED BY <2>1, <2>5, <2>7, PyOneEmit
<1>11. ASSUME NEW t \in Emitters, Py!End(t) \/ Py!Tell(t) \/ (Py!Recover(t) /\ t \in passed)
       PROVE  PyOne'
  <2>1. /\ ~raced /\ t \in passed /\ pc[t] \in {"end", "tell", "recover"}
        /\ UNCHANGED <<policy, attrs, setter, payload, got, accepted, passed>>
    <3>1. CASE Py!End(t) \/ Py!Tell(t)
      BY <1>0, <3>1 DEF Py!End, Py!Tell, Py!history
    <3>2. CASE Py!Recover(t) /\ t \in passed
      BY <3>2 DEF Py!Recover
    <3> QED BY <1>11, <3>1, <3>2
  <2>2. OneAt(t) /\ Same
    BY <2>1 DEF PyOne
  <2>3. Same'
    BY <2>1, <2>2 DEF Same, Py!Wanted, Py!Places
  <2>4. /\ pc'[t] \in {"tell", "returned", "raised"}
        /\ pc'[t] = "tell" => pc[t] = "end" /\ state' = state /\ emitted' = TRUE
        /\ pc[t] = "end" /\ pc'[t] # "tell" => state' = "delivery_failed" /\ emitted' = FALSE
        /\ pc[t] = "tell" => state' = "emitted" /\ emitted' = emitted
        /\ pc[t] = "recover" => state' = "delivery_failed" /\ emitted' = FALSE
    BY <1>0, <1>11 DEF Py!End, Py!Tell, Py!Recover, Py!Go
  <2>5. pc[t] = "tell" => emitted' = TRUE
    BY <1>0, <2>2, <2>4 DEF OneAt
  <2>6. OneAt(t)'
    BY <2>1, <2>2, <2>4, <2>5 DEF OneAt, Ended
  <2> QED BY <2>1, <2>3, <2>6, PyOneEmit
<1>12. ASSUME NEW t \in Emitters, Py!Recover(t), t \notin passed PROVE FALSE
    BY <1>12 DEF Py!Recover
<1> QED BY <1>2, <1>3, <1>4, <1>5, <1>6, <1>7, <1>8, <1>10, <1>11, <1>12 DEF Py!Next, Py!Emit

\* The places that count are the queue, or the sinks.
LEMMA PyDue ==
    ASSUME PyConstants, policy \in Policies
    PROVE  /\ Due \subseteq Py!Places /\ Due # {}
           /\ policy.pipeline => Due = {Py!Queue}
           /\ ~policy.pipeline => Due = {Sinks[i] : i \in DOMAIN Sinks}
<1>1. 1 \in DOMAIN Sinks
    BY PyParts
<1>2. \A i \in DOMAIN Sinks : Sinks[i] # Py!Queue
    BY PyParts
<1> QED BY <1>1, <1>2 DEF Due, Py!Places

\* next and failed change when an emitter gives the event to a sink.
LEMMA PyFreshStep ==
    ASSUME PyConstants, PyTypes, PyTold, [Py!Next]_Py!vars
    PROVE  \A t \in Emitters : Fresh(t)' => next'[t] = 1 /\ ~failed'[t]
<1>0. /\ pc \in [Emitters -> Pcs] /\ passed \subseteq Emitters
      /\ \A t \in Emitters : pc[t] \in {"check", "mark", "encode", "deliver", "end", "tell"} =>
             t \in passed
    BY DEF PyTypes
<1>1. ASSUME UNCHANGED <<policy, Py!emitting, passed>>
      PROVE  \A t \in Emitters : Fresh(t)' => next'[t] = 1 /\ ~failed'[t]
    BY <1>1 DEF PyTold, Fresh, Py!emitting
<1>2. ASSUME NEW t \in Emitters,
             Py!Begin(t) \/ Py!Validate(t) \/ Py!Mark(t) \/ Py!Encode(t) \/ Py!Enqueue(t) \/
                Py!End(t) \/ Py!Tell(t) \/ Py!Recover(t)
      PROVE  \A u \in Emitters : Fresh(u)' => next'[u] = 1 /\ ~failed'[u]
  <2>1. UNCHANGED <<policy, next, failed>> /\ passed \subseteq passed'
    BY <1>2 DEF Py!Begin, Py!Validate, Py!Mark, Py!Encode, Py!Enqueue, Py!End, Py!Tell,
       Py!Recover, Py!history
  <2>2. \A u \in Emitters : u # t => pc'[u] = pc[u]
    BY <1>0, <1>2 DEF Py!Begin, Py!Validate, Py!Mark, Py!Encode, Py!Enqueue, Py!End, Py!Tell,
       Py!Recover, Py!Fails, Py!Discard, Py!Raise, Py!Go
  <2>3. /\ pc'[t] \in {"check", "mark", "encode"} => pc[t] \in {"idle", "check", "mark"}
    BY <1>0, <1>2 DEF Py!Begin, Py!Validate, Py!Mark, Py!Encode, Py!Enqueue, Py!End, Py!Tell,
       Py!Recover, Py!Fails, Py!Discard, Py!Raise, Py!Go
  <2>4. pc[t] = "idle" => t \notin passed
    BY DEF PyTypes
  <2> QED BY <2>1, <2>2, <2>3, <2>4 DEF PyTold, Fresh
<1>3. ASSUME NEW t \in Emitters, Py!WriteSink(t)
      PROVE  \A u \in Emitters : Fresh(u)' => next'[u] = 1 /\ ~failed'[u]
  <2>1. UNCHANGED <<policy, passed>> /\ t \in passed /\ pc[t] = "deliver" /\ ~policy.pipeline
    BY <1>0, <1>3 DEF Py!WriteSink, Py!history
  <2>2. \A u \in Emitters : u # t => pc'[u] = pc[u] /\ next'[u] = next[u] /\ failed'[u] = failed[u]
    BY <1>0, <1>3 DEF Py!WriteSink, Py!Go, PyTypes
  <2>3. pc'[t] \in {"deliver", "end"}
    BY <1>0, <1>3, <2>1 DEF Py!WriteSink, Py!Go
  <2> QED BY <2>1, <2>2, <2>3 DEF PyTold, Fresh
<1>4. ASSUME NEW k \in Attributes, Py!Enrich(k) PROVE UNCHANGED <<policy, Py!emitting, passed>>
    BY <1>4 DEF Py!Enrich
<1>5. CASE Py!Apply \/ Py!Stop \/ Py!finish("success") \/ Py!mark_partial \/ Py!drop
  <2>1. UNCHANGED <<policy, Py!emitting, passed>>
    BY <1>5 DEF Py!Apply, Py!Stop, Py!finish, Py!mark_partial, Py!drop, Py!history
  <2> QED BY <1>1, <2>1
<1>6. CASE UNCHANGED Py!vars
    BY <1>1, <1>6 DEF Py!vars, Py!history
<1> QED BY <1>1, <1>2, <1>3, <1>4, <1>5, <1>6 DEF Py!Next, Py!Emit

\* Without a race the places have what the emitter has given them.
LEMMA PyToldStep == ASSUME PyConstants, PyTypes, PyOne, PyTold, [Py!Next]_Py!vars PROVE PyTold'
<1>a. \A t \in Emitters : Fresh(t)' => next'[t] = 1 /\ ~failed'[t]
    BY PyFreshStep
<1> SUFFICES ASSUME ~raced' PROVE \A t \in passed' : ToldAt(t)'
    BY <1>a DEF PyTold
<1>0. /\ pc \in [Emitters -> Pcs] /\ passed \subseteq Emitters
      /\ payload \in [Emitters -> Encodings]
      /\ next \in [Emitters -> 1 .. Len(Sinks) + 1] /\ failed \in [Emitters -> BOOLEAN]
      /\ emitted \in BOOLEAN /\ got \in [Py!Places -> Seq(Encodings)]
      /\ \A t \in Emitters : pc[t] \in {"check", "mark", "encode", "deliver", "end", "tell"} =>
             t \in passed
      /\ policy.pipeline \in BOOLEAN
    BY DEF PyTypes, Py!TypeOK
<1>b. /\ Due \subseteq Py!Places /\ Due # {}
      /\ policy.pipeline => Due = {Py!Queue}
      /\ ~policy.pipeline => Due = {Sinks[i] : i \in DOMAIN Sinks}
    BY PyDue DEF PyTypes, Py!TypeOK
<1>c. PyOne'
    BY PyOneStep
<1>1. CASE (\E k \in Attributes : Py!Enrich(k)) \/ Py!finish("success") \/ Py!mark_partial \/
              Py!drop
  <2>1. ~raced /\ ~Py!InGap /\ Py!ensure_mutable /\ passed' = passed
    BY <1>1 DEF Py!Enrich, Py!finish, Py!mark_partial, Py!drop
  <2> QED BY <2>1, PyMutable
<1>2. CASE Py!Apply
  <2>1. ~raced /\ setter # "none" /\ passed' = passed
    BY <1>2 DEF Py!Apply
  <2>2. passed = {}
    BY <2>1 DEF PyOne, OneAt
  <2> QED BY <2>1, <2>2
<1>3. CASE Py!Stop \/ UNCHANGED Py!vars
  <2>1. UNCHANGED <<policy, state, pc, next, failed, got, passed, raced, unsent>>
    BY <1>3 DEF Py!Stop, Py!vars, Py!event, Py!emitting, Py!history
  <2>2. Due' = Due
    BY <2>1 DEF Due, Py!Places
  <2> QED BY <2>1, <2>2 DEF PyTold, ToldAt
<1>4. ASSUME NEW t \in Emitters, Py!Begin(t) PROVE \A u \in passed' : ToldAt(u)'
  <2>1. /\ UNCHANGED <<policy, state, next, failed, got, unsent>> /\ t \notin passed
        /\ \A u \in Emitters : u # t => pc'[u] = pc[u]
    BY <1>0, <1>4 DEF Py!Begin, Py!event, PyTypes, Py!Raise, Py!Go
  <2>2. CASE passed' = passed /\ raced' = raced
    <3>1. Due' = Due
      BY <2>1 DEF Due, Py!Places
    <3> QED BY <1>0, <2>1, <2>2, <3>1 DEF PyTold, ToldAt
  <2>3. CASE Py!Go(t, "check") /\ passed' = passed \cup {t}
    <3>1. pc'[t] = "check" /\ \A u \in passed' : u = t
      BY <1>0, <1>c, <2>3 DEF Py!Go, PyOne
    <3> QED BY <3>1 DEF ToldAt
  <2> QED BY <1>4, <2>2, <2>3 DEF Py!Begin
<1>5. ASSUME NEW t \in Emitters, ~raced, t \in passed, passed' = passed, ToldAt(t)'
      PROVE  \A u \in passed' : ToldAt(u)'
    BY <1>5 DEF PyOne
<1>6. ASSUME NEW t \in Emitters, Py!Validate(t) \/ Py!Mark(t) \/ Py!Encode(t)
      PROVE  \A u \in passed' : ToldAt(u)'
  <2>1. /\ ~raced /\ t \in passed /\ pc[t] \in {"check", "mark", "encode"}
        /\ UNCHANGED <<policy, got, passed, next, failed>>
    BY <1>0, <1>6 DEF Py!Validate, Py!Mark, Py!Encode, Py!history
  <2>2. \A p \in Py!Places : got[p] = <<>>
    BY <2>1 DEF PyOne, OneAt
  <2>3. next[t] = 1 /\ ~failed[t]
    BY <1>0, <2>1 DEF PyTold, Fresh
  <2>4. /\ pc'[t] \in {"mark", "encode", "deliver", "returned", "raised", "recover"}
        /\ pc'[t] \in {"returned", "raised", "recover"} =>
              (state' = "emitted" /\ unsent') \/ state' # "emitted"
        /\ pc'[t] = "recover" => state' # "emitted"
    BY <1>0, <1>6 DEF Py!Validate, Py!Mark, Py!Encode, Py!Fails, Py!Discard, Py!Raise, Py!Go
  <2>5. Due' = Due
    BY <2>1 DEF Due, Py!Places
  <2>6. \A i \in DOMAIN Sinks : ~(i < 1)
    BY PyParts
  <2>7. \E p \in Due : got[p] = <<>>
    BY <1>b, <2>2
  <2>8. ToldAt(t)'
    BY <2>1, <2>2, <2>3, <2>4, <2>5, <2>6, <2>7, PyParts DEF ToldAt
  <2> QED BY <1>5, <2>1, <2>8
<1>7. ASSUME NEW t \in Emitters, Py!Enqueue(t) PROVE \A u \in passed' : ToldAt(u)'
  <2>1. /\ ~raced /\ t \in passed /\ pc[t] = "deliver" /\ policy.pipeline
        /\ UNCHANGED <<policy, passed, next, failed>> /\ pc'[t] = "end"
    BY <1>0, <1>7 DEF Py!Enqueue, Py!history, Py!Go
  <2>2. ~failed[t] /\ Due' = {Py!Queue}
    BY <1>0, <2>1 DEF PyTold, Fresh, Due
  <2>3. got'[Py!Queue] # <<>>
    <3>1. got'[Py!Queue] = Append(got[Py!Queue], payload[t]) /\ got[Py!Queue] \in Seq(Encodings) /\
             payload[t] \in Encodings
      BY <1>0, <1>7, PyParts DEF Py!Enqueue, Py!Give
    <3> QED BY <3>1
  <2>4. ToldAt(t)'
    BY <2>1, <2>2, <2>3 DEF ToldAt
  <2> QED BY <1>5, <2>1, <2>4
<1>8. ASSUME NEW t \in Emitters, Py!WriteSink(t) PROVE \A u \in passed' : ToldAt(u)'
  <2>1. /\ ~raced /\ t \in passed /\ pc[t] = "deliver" /\ ~policy.pipeline
        /\ UNCHANGED <<policy, passed>>
    BY <1>0, <1>8 DEF Py!WriteSink, Py!history
  <2>2. ToldAt(t)
    BY <2>1 DEF PyTold
  <2>3. next[t] \in 1 .. Len(Sinks) + 1 /\ Len(Sinks) \in Nat /\ DOMAIN Sinks = 1 .. Len(Sinks)
    BY <1>0, PyParts
  <2>4. Due' = {Sinks[i] : i \in DOMAIN Sinks}
    BY <1>b, <2>1 DEF Due, Py!Places
  <2>5. CASE next[t] > Len(Sinks)
    <3>1. pc'[t] = "end" /\ UNCHANGED <<next, failed, got>>
      BY <1>0, <1>8, <2>5 DEF Py!WriteSink, Py!Go
    <3>2. \A i \in DOMAIN Sinks : i < next[t]
      BY <2>3, <2>5
    <3>3. ToldAt(t)'
      BY <2>1, <2>2, <2>4, <3>1, <3>2 DEF ToldAt
    <3> QED BY <1>5, <2>1, <3>3
  <2>6. CASE ~(next[t] > Len(Sinks))
    <3>1. /\ pc' = pc /\ next'[t] = next[t] + 1 /\ next[t] \in DOMAIN Sinks
          /\ (Py!Give(t, Sinks[next[t]]) /\ failed' = failed) \/ (got' = got /\ failed'[t])
      BY <1>0, <1>8, <2>3, <2>6 DEF Py!WriteSink
    <3>2. \A i \in DOMAIN Sinks : /\ i < next[t] + 1 => i < next[t] \/ i = next[t]
                                  /\ i >= next[t] + 1 => i >= next[t] /\ i # next[t]
                                  /\ i < next[t] => i < next[t] + 1 /\ i # next[t]
      BY <2>3
    <3>3. next[t] < next[t] + 1 /\ next[t] >= next[t]
      BY <2>3
    <3>4. CASE got' = got /\ failed'[t]
      <4>1. got[Sinks[next[t]]] = <<>>
        BY <2>1, <2>2, <3>1, <3>3 DEF ToldAt
      <4>2. ToldAt(t)'
        BY <2>1, <2>2, <3>1, <3>2, <3>3, <3>4, <4>1 DEF ToldAt
      <4> QED BY <1>5, <2>1, <4>2
    <3>5. CASE Py!Give(t, Sinks[next[t]]) /\ failed' = failed
      <4>1. /\ \A i \in DOMAIN Sinks : i # next[t] => got'[Sinks[i]] = got[Sinks[i]]
            /\ got'[Sinks[next[t]]] # <<>>
        <5>1. \A i \in DOMAIN Sinks : Sinks[i] \in Py!Places /\ (i # next[t] =>
                  Sinks[i] # Sinks[next[t]])
          BY <3>1, PyParts DEF PyConstants
        <5>2. got[Sinks[next[t]]] \in Seq(Encodings) /\ payload[t] \in Encodings
          BY <1>0, <3>1, <5>1
        <5>3. Append(got[Sinks[next[t]]], payload[t]) # <<>>
          BY <5>2
        <5> QED BY <1>0, <3>1, <3>5, <5>1, <5>3 DEF Py!Give
      <4>2. /\ \A i \in DOMAIN Sinks : i >= next[t] + 1 => got'[Sinks[i]] = <<>>
            /\ ~failed[t] => \A i \in DOMAIN Sinks : i < next[t] + 1 => got'[Sinks[i]] # <<>>
            /\ failed[t] => \E i \in DOMAIN Sinks : i < next[t] + 1 /\ got'[Sinks[i]] = <<>>
        BY <2>1, <2>2, <3>2, <4>1 DEF ToldAt
      <4>3. ToldAt(t)'
        BY <2>1, <3>1, <3>5, <4>2 DEF ToldAt
      <4> QED BY <1>5, <2>1, <4>3
    <3> QED BY <3>1, <3>4, <3>5
  <2> QED BY <2>5, <2>6
<1>9. ASSUME NEW t \in Emitters, Py!End(t) \/ Py!Tell(t) \/ (Py!Recover(t) /\ t \in passed)
      PROVE  \A u \in passed' : ToldAt(u)'
  <2>1. /\ t \in passed /\ UNCHANGED <<policy, next, failed, got, unsent, passed>>
    BY <1>0, <1>9 DEF Py!End, Py!Tell, Py!Recover, Py!history
  <2>2. ~raced
    BY <1>9 DEF Py!End, Py!Tell, Py!Recover, Py!history
  <2>3. ToldAt(t) /\ Due' = Due
    BY <2>1, <2>2 DEF PyTold, Due, Py!Places
  <2>4. CASE Py!End(t)
    <3>1. failed[t] => \E p \in Due : got[p] = <<>>
      <4> SUFFICES ASSUME failed[t] PROVE \E p \in Due : got[p] = <<>>
        OBVIOUS
      <4>1. ~policy.pipeline
        BY <1>0 DEF PyTold, Fresh
      <4>2. \E i \in DOMAIN Sinks : got[Sinks[i]] = <<>>
        BY <2>3, <2>4 DEF ToldAt, Py!End
      <4> QED BY <1>b, <4>1, <4>2
    <3>2. /\ pc[t] = "end"
          /\ (failed[t] /\ pc'[t] = "returned" /\ state' = "delivery_failed") \/
                (~failed[t] /\ pc'[t] = "tell")
      BY <1>0, <2>4 DEF Py!End, Py!Failed, Py!Go
    <3>3. ToldAt(t)'
      BY <2>1, <2>3, <3>1, <3>2 DEF ToldAt
    <3> QED BY <1>5, <2>1, <2>2, <3>3
  <2>5. CASE Py!Tell(t)
    <3>1. pc[t] = "tell" /\ pc'[t] = "returned" /\ state' = "emitted"
      BY <1>0, <2>5 DEF Py!Tell, Py!Go
    <3>2. ToldAt(t)'
      BY <2>1, <2>3, <3>1 DEF ToldAt
    <3> QED BY <1>5, <2>1, <2>2, <3>2
  <2>6. CASE Py!Recover(t)
    <3>1. pc[t] = "recover" /\ pc'[t] = "raised" /\ state' = "delivery_failed"
      BY <1>0, <2>6 DEF Py!Recover, Py!Go
    <3>2. ToldAt(t)'
      BY <2>1, <2>3, <3>1 DEF ToldAt
    <3> QED BY <1>5, <2>1, <2>2, <3>2
  <2> QED BY <1>9, <2>4, <2>5, <2>6
<1>10. ASSUME NEW t \in Emitters, Py!Recover(t), t \notin passed PROVE FALSE
    BY <1>10 DEF Py!Recover
<1> QED BY <1>1, <1>2, <1>3, <1>4, <1>6, <1>7, <1>8, <1>9, <1>10 DEF Py!Next, Py!Emit

\* The size of a set is the same in the instance.
LEMMA PySize == ASSUME NEW S PROVE Py!Cardinality(S) = Cardinality(S)
BY DEF Cardinality, Py!Cardinality, IsFiniteSet, Py!IsFiniteSet

\* However many threads emit an event of the Python SDK, a sink has no more copies
\* than emitters that passed the check; unless two of them were between a check
\* and what relies on it, the sinks have it once, with the attributes whose calls
\* had returned, and the state says what became of it (logger.py, _emit_inner).
THEOREM PyEmits == PyConstants => (Py!Spec => [](Py!TypeOK /\ Py!OnceAndWhole /\ Py!StateTells))
<1> SUFFICES ASSUME PyConstants PROVE Py!Spec => [](Py!TypeOK /\ Py!OnceAndWhole /\ Py!StateTells)
    OBVIOUS
<1>1. Py!Init => PyInv
    BY PyInit
<1>2. PyInv /\ [Py!Next]_Py!vars => PyInv'
    BY PyTypesStep, PyCountStep, PyOneStep, PyToldStep DEF PyInv
<1>3. PyInv => Py!TypeOK /\ Py!OnceAndWhole /\ Py!StateTells
  <2> SUFFICES ASSUME PyInv PROVE Py!OnceAndWhole /\ Py!StateTells
    BY DEF PyInv, PyTypes
  <2>1. IsFiniteSet(passed) /\ Cardinality(passed) \in Nat
    <3>1. IsFiniteSet(Emitters) /\ passed \in SUBSET Emitters
      BY DEF PyConstants, PyInv, PyTypes
    <3>2. IsFiniteSet(passed)
      BY <3>1, FS_Subset
    <3> QED BY <3>2, FS_CardinalityType
  <2>2. \A p \in Py!Places : Len(got[p]) \in Nat /\ Len(got[p]) <= Cardinality(passed)
    <3> SUFFICES ASSUME NEW p \in Py!Places
                 PROVE  Len(got[p]) \in Nat /\ Len(got[p]) <= Cardinality(passed)
      OBVIOUS
    <3>1. Past(p) \in SUBSET passed
      BY DEF Past
    <3>2. IsFiniteSet(Past(p)) /\ Cardinality(Past(p)) <= Cardinality(passed)
      BY <2>1, <3>1, FS_Subset
    <3>3. Cardinality(Past(p)) \in Nat
      BY <3>2, FS_CardinalityType
    <3>4. Len(got[p]) \in Nat /\ Len(got[p]) <= Cardinality(Past(p))
      BY DEF PyInv, PyTypes, PyCount
    <3> QED BY <2>1, <3>2, <3>3, <3>4
  <2>3. ~raced => Cardinality(passed) <= 1
    <3> SUFFICES ASSUME ~raced PROVE Cardinality(passed) <= 1
      OBVIOUS
    <3>1. passed = {} => Cardinality(passed) = 0
      BY FS_EmptySet
    <3>2. ASSUME NEW t \in passed PROVE Cardinality(passed) = 1
      <4>1. passed = {t}
        BY DEF PyInv, PyOne
      <4> QED BY <4>1, FS_Singleton
    <3> QED BY <3>1, <3>2
  <2>4. Py!OnceAndWhole
    <3>1. \A p \in Py!Places : Len(got[p]) <= Cardinality(passed) /\ (~raced => Len(got[p]) <= 1)
      BY <2>1, <2>2, <2>3
    <3>2. ~raced => Same
      BY DEF PyInv, PyOne
    <3> SUFFICES ASSUME NEW p \in Py!Places
                 PROVE  /\ Len(got[p]) <= Cardinality(passed)
                        /\ ~raced => /\ Len(got[p]) <= 1
                                     /\ \A i \in DOMAIN got[p] : got[p][i].attrs = Py!Wanted
      BY PySize DEF Py!OnceAndWhole
    <3> QED BY <3>1, <3>2 DEF Same
  <2>5. Py!StateTells
    <3> SUFFICES ASSUME ~raced, \A t \in Emitters : ~Py!Inside(t)
                 PROVE  /\ emitted = (state = "emitted")
                        /\ state = "emitted" => (\A p \in Due : got[p] # <<>>) \/ unsent
                        /\ state \in {"delivery_failed", "failed_validation"} =>
                               ~(\A p \in Due : got[p] # <<>>)
      BY DEF Py!StateTells, Due
    <3>1. CASE passed = {}
      BY <3>1 DEF PyInv, PyOne, Untouched
    <3>2. ASSUME NEW t \in passed PROVE /\ OneAt(t) /\ ToldAt(t) /\ pc[t] \in {"returned", "raised"}
      <4>1. pc[t] \in Pcs /\ pc[t] # "idle" /\ ~Py!Inside(t)
        BY DEF PyInv, PyTypes
      <4>2. pc[t] \in {"returned", "raised"}
        BY <4>1 DEF Pcs, Py!Inside
      <4> QED BY <4>2 DEF PyInv, PyOne, PyTold
    <3> QED BY <3>1, <3>2 DEF OneAt, ToldAt
  <2> QED BY <2>4, <2>5
<1> QED BY <1>1, <1>2, <1>3, PTL DEF Py!Spec

-----------------------------------------------------------------------------
(* The pipeline of the Python SDK.  PipeInv is inductive: what each thread    *)
(* holds where it is, that a replay has the lock and what it holds is still  *)
(* in the buffer or counted, and where each emitted event can be.            *)

\* The names of the two threads that drain are not those of workers.
PipeConstants ==
    /\ MaxBatch \in Nat /\ Capacity \in Nat /\ Limit \in Nat
    /\ Pipe!Flusher \notin Workers /\ Pipe!Closer \notin Workers

\* The types of what holds events, and where a thread can be.
PipeTypes ==
    /\ queue \in Seq(Events) /\ offline \in Seq(Events)
    /\ batch \in [Pipe!Procs -> Seq(Events)] /\ hand \in [Pipe!Procs -> Seq(Events)]
    /\ pc \in [Pipe!Procs -> {"get", "write", "last", "gone", "idle", "join", "drain", "writeMore",
                         "tail", "peek", "replay", "closed"}]
    /\ \A w \in Workers : pc[w] \in {"get", "write", "last", "gone"}
    /\ \A p \in Pipe!Drainers : pc[p] \notin {"get", "write", "last", "gone"}
    /\ got \in [Sinks -> SUBSET Events]

\* What a thread holds where it is; what it replays is still in the buffer, or was
\* dropped and counted, because it has the lock.
PipeHands ==
    \A p \in Pipe!Procs :
        /\ pc[p] \notin {"write", "writeMore", "last", "tail", "replay"} => hand[p] = <<>>
        /\ pc[p] \notin {"get", "write", "drain", "writeMore"} => batch[p] = <<>>
        /\ pc[p] = "replay" =>
              offlineLock = p /\ Pipe!Range(hand[p]) \subseteq Pipe!Range(offline) \cup evicted

\* How far close is.
PipeClosing ==
    /\ pc[Pipe!Closer] \notin {"idle", "join"} => \A w \in Workers : pc[w] = "gone"
    /\ pc[Pipe!Closer] \in {"tail", "peek", "replay", "closed"} => Pipe!Range(queue) \subseteq late

\* Where an emitted event can be.
PipeKept(e) ==
    \/ e \in Pipe!Range(queue) \/ e \in Pipe!Range(offline) \/ e \in evicted \/ e \in unseen
    \/ \E p \in Pipe!Procs : e \in Pipe!Range(batch[p]) \/ e \in Pipe!Range(hand[p])
    \/ Pipe!Delivered(e)

PipeInv == PipeTypes /\ PipeHands /\ PipeClosing /\ \A e \in emitted : PipeKept(e)

\* What the sequence operators do to what a sequence holds.
LEMMA PipeSeqs ==
    ASSUME NEW s \in Seq(Events)
    PROVE  /\ \A x \in Events : Pipe!Range(Append(s, x)) = Pipe!Range(s) \cup {x}
           /\ s # <<>> => /\ Tail(s) \in Seq(Events) /\ Head(s) \in Events
                          /\ Pipe!Range(s) = {Head(s)} \cup Pipe!Range(Tail(s))
           /\ Pipe!Range(<<>>) = {}
<1>1. \A x \in Events : Pipe!Range(Append(s, x)) = Pipe!Range(s) \cup {x}
  <2> TAKE x \in Events
  <2>1. /\ DOMAIN s = 1 .. Len(s) /\ DOMAIN Append(s, x) = 1 .. Len(s) + 1 /\ Len(s) \in Nat
        /\ \A i \in 1 .. Len(s) : Append(s, x)[i] = s[i]
        /\ Append(s, x)[Len(s) + 1] = x
    OBVIOUS
  <2>2. \A i \in 1 .. Len(s) + 1 : i \in 1 .. Len(s) \/ i = Len(s) + 1
    BY <2>1
  <2>3. 1 .. Len(s) \subseteq 1 .. Len(s) + 1 /\ Len(s) + 1 \in 1 .. Len(s) + 1
    BY <2>1
  <2>4. Pipe!Range(Append(s, x)) \subseteq Pipe!Range(s) \cup {x}
    BY <2>1, <2>2 DEF Pipe!Range
  <2>5. Pipe!Range(s) \cup {x} \subseteq Pipe!Range(Append(s, x))
    BY <2>1, <2>3 DEF Pipe!Range
  <2> QED BY <2>4, <2>5
<1>2. s # <<>> => /\ Tail(s) \in Seq(Events) /\ Head(s) \in Events
                  /\ Pipe!Range(s) = {Head(s)} \cup Pipe!Range(Tail(s))
  <2> HAVE s # <<>>
  <2>1. /\ DOMAIN s = 1 .. Len(s) /\ Len(s) \in Nat \ {0}
        /\ Tail(s) \in Seq(Events) /\ Head(s) = s[1] /\ Head(s) \in Events
        /\ DOMAIN Tail(s) = 1 .. Len(s) - 1
        /\ \A i \in 1 .. Len(s) - 1 : Tail(s)[i] = s[i + 1]
    OBVIOUS
  <2>2. Pipe!Range(s) \subseteq {Head(s)} \cup Pipe!Range(Tail(s))
    <3> SUFFICES ASSUME NEW i \in 1 .. Len(s) PROVE s[i] \in {Head(s)} \cup Pipe!Range(Tail(s))
      BY <2>1 DEF Pipe!Range
    <3>1. i = 1 \/ (i - 1 \in 1 .. Len(s) - 1 /\ (i - 1) + 1 = i)
      BY <2>1
    <3> QED BY <2>1, <3>1 DEF Pipe!Range
  <2>3. {Head(s)} \cup Pipe!Range(Tail(s)) \subseteq Pipe!Range(s)
    <3>1. 1 \in 1 .. Len(s) /\ \A i \in 1 .. Len(s) - 1 : i + 1 \in 1 .. Len(s)
      BY <2>1
    <3> QED BY <2>1, <3>1 DEF Pipe!Range
  <2> QED BY <2>1, <2>2, <2>3
<1>3. Pipe!Range(<<>>) = {}
    BY DEF Pipe!Range
<1> QED BY <1>1, <1>2, <1>3

\* A sequence is cut into a prefix and a suffix.
LEMMA PipeCut ==
    ASSUME NEW s \in Seq(Events), NEW n \in Nat
    PROVE  /\ Pipe!Prefix(s, n) \in Seq(Events) /\ Pipe!Suffix(s, n) \in Seq(Events)
           /\ Pipe!Range(s) = Pipe!Range(Pipe!Prefix(s, n)) \cup Pipe!Range(Pipe!Suffix(s, n))
<1> DEFINE m == IF n < Len(s) THEN n ELSE Len(s)
<1>1. Len(s) \in Nat /\ m \in 0 .. Len(s) /\ DOMAIN s = 1 .. Len(s) /\ m \in Nat
    OBVIOUS
<1>2. /\ Pipe!Prefix(s, n) \in Seq(Events) /\ Len(Pipe!Prefix(s, n)) = m
      /\ \A i \in 1 .. m : Pipe!Prefix(s, n)[i] = s[i]
  <2>1. SubSeq(s, 1, m) \in Seq(Events) /\ Len(SubSeq(s, 1, m)) = m
        /\ \A i \in 1 .. m : SubSeq(s, 1, m)[i] = s[i]
    BY <1>1
  <2> QED BY <2>1 DEF Pipe!Prefix
<1>3. /\ Pipe!Suffix(s, n) \in Seq(Events) /\ Len(Pipe!Suffix(s, n)) = Len(s) - m
      /\ \A i \in 1 .. Len(s) - m : Pipe!Suffix(s, n)[i] = s[i + m]
  <2>1. CASE n < Len(s)
    <3>1. /\ SubSeq(s, n + 1, Len(s)) \in Seq(Events) /\ Len(SubSeq(s, n + 1, Len(s))) = Len(s) - n
          /\ \A i \in 1 .. Len(s) - n : SubSeq(s, n + 1, Len(s))[i] = s[i + n]
      BY <1>1, <2>1
    <3> QED BY <2>1, <3>1 DEF Pipe!Suffix
  <2>2. CASE ~(n < Len(s))
    <3>1. SubSeq(s, n + 1, Len(s)) = <<>>
      BY <1>1, <2>2
    <3> QED BY <1>1, <2>2, <3>1 DEF Pipe!Suffix
  <2> QED BY <2>1, <2>2
<1> HIDE DEF m
<1>4. DOMAIN Pipe!Prefix(s, n) = 1 .. m /\ DOMAIN Pipe!Suffix(s, n) = 1 .. Len(s) - m
    BY <1>2, <1>3
<1>5. Pipe!Range(s) \subseteq Pipe!Range(Pipe!Prefix(s, n)) \cup Pipe!Range(Pipe!Suffix(s, n))
  <2> SUFFICES ASSUME NEW i \in 1 .. Len(s)
               PROVE  s[i] \in Pipe!Range(Pipe!Prefix(s, n)) \cup Pipe!Range(Pipe!Suffix(s, n))
    BY <1>1 DEF Pipe!Range
  <2>1. i \in 1 .. m \/ (i - m \in 1 .. Len(s) - m /\ (i - m) + m = i)
    BY <1>1
  <2>2. CASE i \in 1 .. m
    <3>1. s[i] = Pipe!Prefix(s, n)[i] /\ i \in DOMAIN Pipe!Prefix(s, n)
      BY <1>2, <1>4, <2>2
    <3> QED BY <3>1 DEF Pipe!Range
  <2>3. CASE i - m \in 1 .. Len(s) - m /\ (i - m) + m = i
    <3>1. s[i] = Pipe!Suffix(s, n)[i - m] /\ i - m \in DOMAIN Pipe!Suffix(s, n)
      BY <1>3, <1>4, <2>3
    <3> QED BY <3>1 DEF Pipe!Range
  <2> QED BY <2>1, <2>2, <2>3
<1>6. Pipe!Range(Pipe!Prefix(s, n)) \cup Pipe!Range(Pipe!Suffix(s, n)) \subseteq Pipe!Range(s)
  <2>1. /\ \A i \in 1 .. m : i \in 1 .. Len(s)
        /\ \A i \in 1 .. Len(s) - m : i + m \in 1 .. Len(s)
    BY <1>1
  <2>2. Pipe!Range(Pipe!Prefix(s, n)) \subseteq Pipe!Range(s)
    BY <1>1, <1>2, <1>4, <2>1 DEF Pipe!Range
  <2>3. Pipe!Range(Pipe!Suffix(s, n)) \subseteq Pipe!Range(s)
    BY <1>1, <1>3, <1>4, <2>1 DEF Pipe!Range
  <2> QED BY <2>2, <2>3
<1> QED BY <1>2, <1>3, <1>5, <1>6

\* What goes to the offline buffer is there afterwards, or dropped and counted.
LEMMA PipeOffline ==
    ASSUME PipeConstants, offline \in Seq(Events), NEW new \in Seq(Events), Pipe!AppendOffline(new)
    PROVE  /\ offline' \in Seq(Events) /\ evicted \subseteq evicted'
           /\ Pipe!Range(offline) \cup Pipe!Range(new) \subseteq Pipe!Range(offline') \cup evicted'
<1> DEFINE all == offline \o new
           over == IF Len(all) > Capacity THEN Len(all) - Capacity ELSE 0
<1>1. all \in Seq(Events) /\ over \in Nat
    BY DEF PipeConstants
<1>2. offline' = Pipe!Suffix(all, over) /\
         evicted' = evicted \cup Pipe!Range(Pipe!Prefix(all, over))
    BY DEF Pipe!AppendOffline
<1>3. Pipe!Range(offline) \cup Pipe!Range(new) \subseteq Pipe!Range(all)
  <2>1. /\ DOMAIN offline = 1 .. Len(offline) /\ DOMAIN new = 1 .. Len(new)
        /\ DOMAIN all = 1 .. Len(offline) + Len(new) /\ Len(offline) \in Nat /\ Len(new) \in Nat
        /\ \A i \in 1 .. Len(offline) : all[i] = offline[i]
        /\ \A i \in 1 .. Len(new) : all[Len(offline) + i] = new[i]
    OBVIOUS
  <2> HIDE DEF all
  <2>2. /\ \A i \in 1 .. Len(offline) : i \in 1 .. Len(offline) + Len(new)
        /\ \A i \in 1 .. Len(new) : Len(offline) + i \in 1 .. Len(offline) + Len(new)
    BY <2>1
  <2> QED BY <2>1, <2>2 DEF Pipe!Range
<1> HIDE DEF all, over
<1>4. /\ Pipe!Suffix(all, over) \in Seq(Events)
      /\ Pipe!Range(all) = Pipe!Range(Pipe!Prefix(all, over)) \cup
            Pipe!Range(Pipe!Suffix(all, over))
    BY <1>1, PipeCut
<1> QED BY <1>2, <1>3, <1>4

-----------------------------------------------------------------------------
\* The threads.

PipePosts == {"get", "write", "last", "gone", "idle", "join", "drain", "writeMore",
          "tail", "peek", "replay", "closed"}

\* Who is a worker can be seen from where it is.
LEMMA PipeKinds ==
    ASSUME PipeConstants, PipeTypes, NEW p \in Pipe!Procs
    PROVE  /\ p \in Workers <=> pc[p] \in {"get", "write", "last", "gone"}
           /\ p \notin Workers <=> p \in Pipe!Drainers
           /\ Pipe!Flusher \in Pipe!Procs /\ Pipe!Closer \in Pipe!Procs
           /\ Pipe!Flusher # Pipe!Closer
           /\ p \in Pipe!Drainers => p # Pipe!Nobody
BY DEF PipeConstants, PipeTypes, Pipe!Procs, Pipe!Drainers, Pipe!Flusher, Pipe!Closer, Pipe!Nobody

\* A thread goes to where its kind can be.
LEMMA PipeGoto ==
    ASSUME PipeConstants, PipeTypes, NEW p \in Pipe!Procs, NEW to \in PipePosts, Pipe!Goto(p, to),
           to \in {"get", "write", "last", "gone"} <=> pc[p] \in {"get", "write", "last", "gone"}
    PROVE  /\ pc' \in [Pipe!Procs -> PipePosts]
           /\ \A w \in Workers : pc'[w] \in {"get", "write", "last", "gone"}
           /\ \A q \in Pipe!Drainers : pc'[q] \notin {"get", "write", "last", "gone"}
           /\ pc'[p] = to /\ \A q \in Pipe!Procs : q # p => pc'[q] = pc[q]
<1>1. pc \in [Pipe!Procs -> PipePosts]
    BY DEF PipeTypes, PipePosts
<1>2. pc'[p] = to /\ (\A q \in Pipe!Procs : q # p => pc'[q] = pc[q]) /\
         pc' \in [Pipe!Procs -> PipePosts]
    BY <1>1 DEF Pipe!Goto
<1>3. ASSUME NEW q \in Pipe!Procs
      PROVE  q \in Workers <=> pc'[q] \in {"get", "write", "last", "gone"}
    BY <1>2, PipeKinds
<1>4. Workers \subseteq Pipe!Procs /\ Pipe!Drainers \subseteq Pipe!Procs /\
         \A q \in Pipe!Drainers : q \notin Workers
    BY DEF Pipe!Procs, Pipe!Drainers, PipeConstants
<1> QED BY <1>2, <1>3, <1>4

\* The types after a step of a thread.
LEMMA PipeTypesMove ==
    ASSUME PipeConstants, PipeTypes, NEW p \in Pipe!Procs, NEW to \in PipePosts, Pipe!Goto(p, to),
           to \in {"get", "write", "last", "gone"} <=> pc[p] \in {"get", "write", "last", "gone"},
           queue' \in Seq(Events), offline' \in Seq(Events), got' \in [Sinks -> SUBSET Events],
           batch' \in [Pipe!Procs -> Seq(Events)], hand' \in [Pipe!Procs -> Seq(Events)]
    PROVE  PipeTypes'
BY PipeGoto DEF PipeTypes, PipePosts

\* What the other threads hold, after a step of one.
LEMMA PipeHandsMove ==
    ASSUME PipeConstants, PipeTypes, PipeHands, NEW p \in Pipe!Procs,
           \A q \in Pipe!Procs : q # p =>
           pc'[q] = pc[q] /\ batch'[q] = batch[q] /\ hand'[q] = hand[q],
           pc'[p] \notin {"write", "writeMore", "last", "tail", "replay"} => hand'[p] = <<>>,
           pc'[p] \notin {"get", "write", "drain", "writeMore"} => batch'[p] = <<>>,
           pc'[p] = "replay" =>
           offlineLock' = p /\ Pipe!Range(hand'[p]) \subseteq Pipe!Range(offline') \cup evicted',
           \/ \A q \in Pipe!Procs : q # p => pc[q] # "replay"
           \/ /\ offlineLock' = offlineLock
              /\ Pipe!Range(offline) \cup evicted \subseteq Pipe!Range(offline') \cup evicted'
    PROVE  PipeHands'
<1> SUFFICES ASSUME NEW q \in Pipe!Procs
             PROVE  /\ pc'[q] \notin {"write", "writeMore", "last", "tail", "replay"} =>
                       hand'[q] = <<>>
                    /\ pc'[q] \notin {"get", "write", "drain", "writeMore"} => batch'[q] = <<>>
                    /\ pc'[q] = "replay" =>
                          offlineLock' = q /\
                             Pipe!Range(hand'[q]) \subseteq Pipe!Range(offline') \cup evicted'
    BY DEF PipeHands, Pipe!Procs, Pipe!Drainers, Pipe!Range
<1>1. CASE q = p
    BY <1>1
<1>2. CASE q # p
  <2>1. pc'[q] = pc[q] /\ batch'[q] = batch[q] /\ hand'[q] = hand[q]
    BY <1>2
  <2>2. pc[q] = "replay" =>
           offlineLock = q /\ Pipe!Range(hand[q]) \subseteq Pipe!Range(offline) \cup evicted
    BY DEF PipeHands
  <2>3. pc[q] = "replay" =>
           offlineLock' = q /\ Pipe!Range(hand[q]) \subseteq Pipe!Range(offline') \cup evicted'
    BY <1>2, <2>2
  <2> QED BY <2>1, <2>3 DEF PipeHands
<1> QED BY <1>1, <1>2

\* What is kept, after a step of one thread: what it held and what was shared is
\* still somewhere, or delivered.
LEMMA PipeKeptMove ==
    ASSUME PipeTypes, \A e \in emitted : PipeKept(e), NEW p \in Pipe!Procs, emitted' = emitted,
           \A q \in Pipe!Procs : q # p => batch'[q] = batch[q] /\ hand'[q] = hand[q],
           \A s \in Sinks : got[s] \subseteq got'[s],
           \A e \in Pipe!Range(queue) \cup Pipe!Range(offline) \cup evicted \cup unseen
                    \cup Pipe!Range(batch[p]) \cup Pipe!Range(hand[p]) :
              \/ e \in Pipe!Range(queue') \cup Pipe!Range(offline') \cup evicted' \cup unseen'
                       \cup Pipe!Range(batch'[p]) \cup Pipe!Range(hand'[p])
              \/ Pipe!Delivered(e)'
    PROVE  \A e \in emitted' : PipeKept(e)'
<1> SUFFICES ASSUME NEW e \in emitted PROVE PipeKept(e)'
    OBVIOUS
<1>1. Pipe!Delivered(e) => Pipe!Delivered(e)'
    BY DEF Pipe!Delivered
<1>2. ASSUME NEW q \in Pipe!Procs, q # p, e \in Pipe!Range(batch[q]) \/ e \in Pipe!Range(hand[q])
      PROVE  PipeKept(e)'
  <2>1. e \in Pipe!Range(batch'[q]) \/ e \in Pipe!Range(hand'[q])
    BY <1>2
  <2> QED BY <2>1 DEF PipeKept, Pipe!Procs, Pipe!Drainers, Pipe!Range
<1>3. ASSUME e \in Pipe!Range(queue') \cup Pipe!Range(offline') \cup evicted' \cup unseen'
                       \cup Pipe!Range(batch'[p]) \cup Pipe!Range(hand'[p]) \/ Pipe!Delivered(e)'
      PROVE  PipeKept(e)'
    BY <1>3 DEF PipeKept, Pipe!Procs, Pipe!Drainers, Pipe!Range
<1>4. \/ e \in Pipe!Range(queue) \cup Pipe!Range(offline) \cup evicted \cup unseen
                 \cup Pipe!Range(batch[p]) \cup Pipe!Range(hand[p])
      \/ \E q \in Pipe!Procs : q # p /\ (e \in Pipe!Range(batch[q]) \/ e \in Pipe!Range(hand[q]))
      \/ Pipe!Delivered(e)
    BY DEF PipeKept
<1> QED BY <1>1, <1>2, <1>3, <1>4

\* Nobody has emitted anything.
LEMMA PipeInit == ASSUME PipeConstants, Pipe!Init PROVE PipeInv
<1>1. <<>> \in Seq(Events)
    OBVIOUS
<1>2. \A p \in Pipe!Procs : /\ batch[p] = <<>> /\ hand[p] = <<>>
                            /\ p \in Workers => pc[p] = "get"
                            /\ p \notin Workers => pc[p] = "idle"
    BY DEF Pipe!Init
<1>3. PipeTypes
  <2>1. /\ queue \in Seq(Events) /\ offline \in Seq(Events)
        /\ batch \in [Pipe!Procs -> Seq(Events)] /\ hand \in [Pipe!Procs -> Seq(Events)]
        /\ got \in [Sinks -> SUBSET Events]
    BY <1>1 DEF Pipe!Init
  <2>2. pc \in [Pipe!Procs -> PipePosts]
    BY DEF Pipe!Init, PipePosts
  <2>3. Workers \subseteq Pipe!Procs /\ Pipe!Drainers \subseteq Pipe!Procs /\
           \A q \in Pipe!Drainers : q \notin Workers
    BY DEF Pipe!Procs, Pipe!Drainers, PipeConstants
  <2> QED BY <1>2, <2>1, <2>2, <2>3 DEF PipeTypes, PipePosts
<1>4. PipeHands
    BY <1>2 DEF PipeHands
<1>5. PipeClosing
    BY <1>2, <1>3, PipeKinds DEF PipeClosing, PipeConstants, Pipe!Procs, Pipe!Drainers
<1> QED BY <1>3, <1>4, <1>5 DEF PipeInv, Pipe!Init

\* A step of the application: it emits an event.
LEMMA PipeEmit == ASSUME PipeConstants, PipeInv, NEW e \in Events, Pipe!Emit(e) PROVE PipeInv'
<1>1. PipeTypes /\ PipeHands /\ PipeClosing /\ \A x \in emitted : PipeKept(x)
    BY DEF PipeInv
<1>2. UNCHANGED <<pc, batch, hand, offlineLock, got, unseen>> /\ emitted' = emitted \cup {e}
    BY DEF Pipe!Emit
<1>3. /\ queue' \in Seq(Events) /\ offline' \in Seq(Events) /\ evicted \subseteq evicted'
      /\ Pipe!Range(queue) \subseteq Pipe!Range(queue')
      /\ Pipe!Range(queue') \subseteq Pipe!Range(queue) \cup {e}
      /\ Pipe!Range(offline) \cup evicted \subseteq Pipe!Range(offline') \cup evicted'
      /\ e \in Pipe!Range(queue') \cup Pipe!Range(offline') \cup evicted'
  <2>1. queue \in Seq(Events) /\ offline \in Seq(Events) /\ <<e>> \in Seq(Events)
    BY <1>1 DEF PipeTypes
  <2>2. CASE queue' = Append(queue, e) /\ UNCHANGED <<offline, evicted>>
    <3>1. Pipe!Range(queue') = Pipe!Range(queue) \cup {e} /\ queue' \in Seq(Events)
      BY <2>1, <2>2, PipeSeqs
    <3> QED BY <2>1, <2>2, <3>1
  <2>3. CASE Pipe!AppendOffline(<<e>>) /\ UNCHANGED queue
    <3>1. e \in Pipe!Range(<<e>>)
      BY DEF Pipe!Range
    <3>2. /\ offline' \in Seq(Events) /\ evicted \subseteq evicted'
          /\ Pipe!Range(offline) \cup Pipe!Range(<<e>>) \subseteq Pipe!Range(offline') \cup evicted'
      BY <2>1, <2>3, PipeOffline
    <3> QED BY <2>1, <2>3, <3>1, <3>2
  <2> QED BY <2>2, <2>3 DEF Pipe!Emit
<1>4. PipeTypes'
    BY <1>1, <1>2, <1>3 DEF PipeTypes
<1>5. PipeHands'
  <2> SUFFICES ASSUME NEW p \in Pipe!Procs
               PROVE  /\ pc[p] \notin {"write", "writeMore", "last", "tail", "replay"} =>
                         hand[p] = <<>>
                      /\ pc[p] \notin {"get", "write", "drain", "writeMore"} => batch[p] = <<>>
                      /\ pc[p] = "replay" =>
                            offlineLock = p /\ Pipe!Range(hand[p]) \subseteq Pipe!Range(offline') \cup evicted'
    BY <1>2 DEF PipeHands, Pipe!Procs, Pipe!Drainers, Pipe!Range
  <2> QED BY <1>1, <1>3 DEF PipeHands
<1>6. PipeClosing'
  <2>1. pc[Pipe!Closer] \in {"tail", "peek", "replay", "closed"} =>
           e \in late' /\ late \subseteq late'
    BY DEF Pipe!Emit
  <2> QED BY <1>1, <1>2, <1>3, <2>1 DEF PipeClosing
<1>7. \A x \in emitted' : PipeKept(x)'
  <2> SUFFICES ASSUME NEW x \in emitted' PROVE PipeKept(x)'
    OBVIOUS
  <2>1. CASE x = e
    BY <1>3, <2>1 DEF PipeKept
  <2>2. CASE x \in emitted
    <3>1. Pipe!Delivered(x) => Pipe!Delivered(x)'
      BY <1>2 DEF Pipe!Delivered
    <3>2. \/ x \in Pipe!Range(queue') \/ x \in Pipe!Range(offline') \/ x \in evicted' \/
                x \in unseen'
          \/ \E p \in Pipe!Procs : x \in Pipe!Range(batch'[p]) \/ x \in Pipe!Range(hand'[p])
          \/ Pipe!Delivered(x)'
      BY <1>1, <1>2, <1>3, <2>2, <3>1 DEF PipeKept
    <3> QED BY <3>2 DEF PipeKept, Pipe!Procs, Pipe!Drainers, Pipe!Range
  <2> QED BY <1>2, <2>1, <2>2
<1> QED BY <1>4, <1>5, <1>6, <1>7 DEF PipeInv

\* How far close is, after a step of a thread.
LEMMA PipeClosingMove ==
    ASSUME PipeConstants, PipeTypes, PipeClosing, NEW p \in Pipe!Procs, NEW to \in PipePosts,
           Pipe!Goto(p, to),
           to \in {"get", "write", "last", "gone"} <=> pc[p] \in {"get", "write", "last", "gone"},
           late' = late, Pipe!Range(queue') \subseteq Pipe!Range(queue), pc[p] # "gone",
           to \notin {"get", "write", "last", "gone", "idle", "join"} =>
              \/ p # Pipe!Closer \/ pc[p] \notin {"idle", "join"} \/
                 \A w \in Workers : pc[w] = "gone",
           to \in {"tail", "peek", "replay", "closed"} =>
              \/ p # Pipe!Closer \/ pc[p] \in {"tail", "peek", "replay", "closed"} \/
                    Pipe!Range(queue') \subseteq late
    PROVE  PipeClosing'
<1>1. pc'[p] = to /\ \A q \in Pipe!Procs : q # p => pc'[q] = pc[q]
    BY PipeGoto
<1>2. Pipe!Closer \in Pipe!Procs /\ Pipe!Closer \notin Workers /\ Workers \subseteq Pipe!Procs /\
         Pipe!Closer \in Pipe!Drainers
    BY DEF Pipe!Procs, Pipe!Drainers, PipeConstants
<1>3. \A w \in Workers : pc[w] = "gone" => pc'[w] = "gone"
    BY <1>1, <1>2
<1>4. pc'[Pipe!Closer] \notin {"idle", "join"} => \A w \in Workers : pc[w] = "gone"
  <2>1. p = Pipe!Closer => to \notin {"get", "write", "last", "gone"}
    BY <1>2, PipeKinds
  <2> QED BY <1>1, <1>2, <2>1 DEF PipeClosing
<1>5. pc'[Pipe!Closer] \in {"tail", "peek", "replay", "closed"} =>
          Pipe!Range(queue') \subseteq late'
    BY <1>1, <1>2 DEF PipeClosing
<1> QED BY <1>3, <1>4, <1>5 DEF PipeClosing, Pipe!Closer

\* A thread takes an event of the queue.
LEMMA PipeGet == ASSUME PipeConstants, PipeInv, NEW p \in Pipe!Procs, Pipe!Get(p) PROVE PipeInv'
<1>1. PipeTypes /\ PipeHands /\ PipeClosing /\ \A x \in emitted : PipeKept(x)
    BY DEF PipeInv
<1>2. /\ UNCHANGED <<offline, emitted, offlineLock, got, evicted, unseen, late>>
      /\ pc[p] \in {"get", "drain"} /\ queue # <<>> /\ queue' = Tail(queue)
    BY DEF Pipe!Get
<1>3. /\ queue \in Seq(Events) /\ Tail(queue) \in Seq(Events) /\ Head(queue) \in Events
      /\ Pipe!Range(queue) = {Head(queue)} \cup Pipe!Range(Tail(queue))
      /\ batch \in [Pipe!Procs -> Seq(Events)] /\ hand \in [Pipe!Procs -> Seq(Events)]
      /\ hand[p] = <<>>
      /\ pc \in [Pipe!Procs -> PipePosts] /\ batch[p] \in Seq(Events)
    BY <1>1, <1>2, PipeSeqs DEF PipeTypes, PipeHands, PipePosts
<1>4. PICK to \in {pc[p], "write", "writeMore"} :
         /\ Pipe!Goto(p, to)
         /\ to \in {"get", "write", "last", "gone"} <=> pc[p] \in {"get", "write", "last", "gone"}
         /\ to \in {"get", "drain", "write", "writeMore"}
         /\ batch' \in [Pipe!Procs -> Seq(Events)] /\ hand' \in [Pipe!Procs -> Seq(Events)]
         /\ \A q \in Pipe!Procs : q # p => batch'[q] = batch[q] /\ hand'[q] = hand[q]
         /\ to \in {"get", "drain"} => hand'[p] = <<>>
         /\ Pipe!Range(batch[p]) \cup {Head(queue)} \subseteq Pipe!Range(batch'[p]) \cup
               Pipe!Range(hand'[p])
  <2>1. CASE batch' = [batch EXCEPT ![p] = Append(@, Head(queue))] /\ UNCHANGED <<hand, pc>>
    <3>1. Pipe!Goto(p, pc[p])
      BY <1>3, <2>1 DEF Pipe!Goto
    <3>2. Append(batch[p], Head(queue)) \in Seq(Events)
      BY <1>3
    <3>3. Pipe!Range(Append(batch[p], Head(queue))) = Pipe!Range(batch[p]) \cup {Head(queue)}
      BY <1>3, PipeSeqs
    <3>4. batch' \in [Pipe!Procs -> Seq(Events)] /\ batch'[p] = Append(batch[p], Head(queue))
          /\ \A q \in Pipe!Procs : q # p => batch'[q] = batch[q]
      BY <1>3, <2>1, <3>2
    <3> QED BY <1>2, <1>3, <2>1, <3>1, <3>3, <3>4
  <2>2. CASE /\ hand' = [hand EXCEPT ![p] = batch[p]]
             /\ batch' = [batch EXCEPT ![p] = <<Head(queue)>>]
             /\ Pipe!Goto(p, IF p \in Workers THEN "write" ELSE "writeMore")
    <3>1. Head(queue) \in Pipe!Range(<<Head(queue)>>) /\ <<Head(queue)>> \in Seq(Events)
      BY <1>3 DEF Pipe!Range
    <3>2. /\ batch' \in [Pipe!Procs -> Seq(Events)] /\ hand' \in [Pipe!Procs -> Seq(Events)]
          /\ batch'[p] = <<Head(queue)>> /\ hand'[p] = batch[p]
          /\ \A q \in Pipe!Procs : q # p => batch'[q] = batch[q] /\ hand'[q] = hand[q]
      BY <1>3, <2>2, <3>1
    <3>3. Pipe!Range(batch[p]) \cup {Head(queue)} \subseteq Pipe!Range(batch'[p]) \cup
             Pipe!Range(hand'[p])
      BY <3>1, <3>2
    <3>4. p \in Workers <=> pc[p] \in {"get", "write", "last", "gone"}
      BY <1>1, PipeKinds
    <3> QED BY <2>2, <3>2, <3>3, <3>4
  <2> QED BY <2>1, <2>2 DEF Pipe!Get
<1>5. to \in PipePosts
    BY <1>4 DEF PipePosts
<1>6. pc'[p] = to /\ \A q \in Pipe!Procs : q # p => pc'[q] = pc[q]
    BY <1>1, <1>4, <1>5, PipeGoto
<1>7. PipeTypes'
  <2>1. queue' \in Seq(Events) /\ offline' \in Seq(Events) /\ got' \in [Sinks -> SUBSET Events]
    BY <1>1, <1>2, <1>3 DEF PipeTypes
  <2> QED BY <1>1, <1>4, <1>5, <2>1, PipeTypesMove
<1>8. PipeHands'
    BY <1>1, <1>2, <1>4, <1>6, PipeHandsMove
<1>9. PipeClosing'
  <2>1. Pipe!Range(queue') \subseteq Pipe!Range(queue)
    BY <1>2, <1>3
  <2> QED BY <1>1, <1>2, <1>4, <1>5, <2>1, PipeClosingMove
<1>10. \A x \in emitted' : PipeKept(x)'
  <2>1. Pipe!Range(hand[p]) = {}
    BY <1>3, PipeSeqs
  <2>2. \A x \in Pipe!Range(queue) \cup Pipe!Range(offline) \cup evicted \cup unseen
                   \cup Pipe!Range(batch[p]) \cup Pipe!Range(hand[p]) :
           x \in Pipe!Range(queue') \cup Pipe!Range(offline') \cup evicted' \cup unseen'
                    \cup Pipe!Range(batch'[p]) \cup Pipe!Range(hand'[p])
    BY <1>2, <1>3, <1>4, <2>1
  <2> QED BY <1>1, <1>2, <1>4, <2>2, PipeKeptMove
<1> QED BY <1>7, <1>8, <1>9, <1>10 DEF PipeInv

\* The batcher is emptied.
LEMMA PipeDrainBatch ==
    ASSUME PipeConstants, PipeInv, NEW p \in Pipe!Procs, NEW to \in {"write", "last", "tail"},
           Pipe!DrainBatch(p, to),
           \/ pc[p] = "get" /\ to # "tail"
           \/ pc[p] = "drain" /\ to = "tail" /\ queue = <<>>
    PROVE  PipeInv'
<1>1. PipeTypes /\ PipeHands /\ PipeClosing /\ \A x \in emitted : PipeKept(x)
    BY DEF PipeInv
<1>2. /\ UNCHANGED <<queue, offline, emitted, offlineLock, got, evicted, unseen, late>>
      /\ hand' = [hand EXCEPT ![p] = batch[p]] /\ batch' = [batch EXCEPT ![p] = <<>>]
      /\ Pipe!Goto(p, to) /\ to \in PipePosts
    BY DEF Pipe!DrainBatch, PipePosts
<1>3. /\ batch \in [Pipe!Procs -> Seq(Events)] /\ hand \in [Pipe!Procs -> Seq(Events)]
      /\ hand[p] = <<>>
    BY <1>1 DEF PipeTypes, PipeHands
<1>4. /\ hand'[p] = batch[p] /\ batch'[p] = <<>> /\ batch' \in [Pipe!Procs -> Seq(Events)]
      /\ hand' \in [Pipe!Procs -> Seq(Events)]
      /\ \A q \in Pipe!Procs : q # p => batch'[q] = batch[q] /\ hand'[q] = hand[q]
  <2>1. <<>> \in Seq(Events) /\ batch[p] \in Seq(Events)
    BY <1>3
  <2> QED BY <1>2, <1>3, <2>1
<1>5. pc'[p] = to /\ \A q \in Pipe!Procs : q # p => pc'[q] = pc[q]
    BY <1>1, <1>2, PipeGoto
<1>6. PipeTypes'
  <2>1. queue' \in Seq(Events) /\ offline' \in Seq(Events) /\ got' \in [Sinks -> SUBSET Events]
    BY <1>1, <1>2 DEF PipeTypes
  <2> QED BY <1>1, <1>2, <1>4, <2>1, PipeTypesMove
<1>7. PipeHands'
    BY <1>1, <1>2, <1>4, <1>5, PipeHandsMove
<1>8. PipeClosing'
  <2>1. queue = <<>> => Pipe!Range(queue') \subseteq late
    BY <1>2 DEF Pipe!Range
  <2> QED BY <1>1, <1>2, <2>1, PipeClosingMove
<1>9. \A x \in emitted' : PipeKept(x)'
  <2>1. Pipe!Range(hand[p]) = {}
    BY <1>3, PipeSeqs
  <2>2. \A x \in Pipe!Range(queue) \cup Pipe!Range(offline) \cup evicted \cup unseen
                   \cup Pipe!Range(batch[p]) \cup Pipe!Range(hand[p]) :
           x \in Pipe!Range(queue') \cup Pipe!Range(offline') \cup evicted' \cup unseen'
                    \cup Pipe!Range(batch'[p]) \cup Pipe!Range(hand'[p])
    BY <1>2, <1>4, <2>1
  <2> QED BY <1>1, <1>2, <1>4, <2>2, PipeKeptMove
<1> QED BY <1>6, <1>7, <1>8, <1>9 DEF PipeInv

\* What the sinks have only grows, and what every sink is given is delivered.
LEMMA PipeGive ==
    ASSUME got \in [Sinks -> SUBSET Events], NEW sinks \in SUBSET Sinks, NEW new \in Seq(Events),
           Pipe!Give(sinks, new)
    PROVE  /\ got' \in [Sinks -> SUBSET Events] /\ \A s \in Sinks : got[s] \subseteq got'[s]
           /\ sinks = Sinks => \A e \in Pipe!Range(new) : Pipe!Delivered(e)'
<1>1. Pipe!Range(new) \subseteq Events
    BY DEF Pipe!Range
<1>2. \A s \in Sinks : got'[s] = IF s \in sinks THEN got[s] \cup Pipe!Range(new) ELSE got[s]
    BY DEF Pipe!Give
<1>3. got' \in [Sinks -> SUBSET Events]
    BY <1>1 DEF Pipe!Give
<1>4. sinks = Sinks => \A e \in Pipe!Range(new) : Pipe!Delivered(e)'
    BY <1>2 DEF Pipe!Delivered
<1> QED BY <1>2, <1>3, <1>4

\* A thread writes its batch, or gives it to the offline buffer.
LEMMA PipeWrite == ASSUME PipeConstants, PipeInv, NEW p \in Pipe!Procs, Pipe!WriteBatch(p) PROVE PipeInv'
<1>1. PipeTypes /\ PipeHands /\ PipeClosing /\ \A x \in emitted : PipeKept(x)
    BY DEF PipeInv
<1>2. /\ UNCHANGED <<queue, emitted, batch, offlineLock, unseen, late>>
      /\ hand' = [hand EXCEPT ![p] = <<>>] /\ pc[p] \in Pipe!Writing
    BY DEF Pipe!WriteBatch
<1>3. PICK to \in {"get", "drain", "gone", "peek"} :
         /\ Pipe!Goto(p, to) /\ to \in PipePosts
         /\ to \in {"get", "write", "last", "gone"} <=> pc[p] \in {"get", "write", "last", "gone"}
         /\ to \in {"gone", "peek"} => pc[p] \in {"last", "tail"}
         /\ to = "peek" => pc[p] = "tail"
    BY <1>2 DEF Pipe!WriteBatch, Pipe!After, Pipe!Writing, PipePosts
<1>4. /\ queue \in Seq(Events) /\ offline \in Seq(Events) /\ got \in [Sinks -> SUBSET Events]
      /\ batch \in [Pipe!Procs -> Seq(Events)] /\ hand \in [Pipe!Procs -> Seq(Events)]
      /\ hand[p] \in Seq(Events)
    BY <1>1 DEF PipeTypes
<1>5. /\ hand'[p] = <<>> /\ hand' \in [Pipe!Procs -> Seq(Events)]
      /\ \A q \in Pipe!Procs : q # p => hand'[q] = hand[q]
  <2>1. <<>> \in Seq(Events)
    OBVIOUS
  <2> QED BY <1>2, <1>4, <2>1
<1>6. /\ offline' \in Seq(Events) /\ got' \in [Sinks -> SUBSET Events] /\ evicted \subseteq evicted'
      /\ \A s \in Sinks : got[s] \subseteq got'[s]
      /\ Pipe!Range(offline) \cup evicted \subseteq Pipe!Range(offline') \cup evicted'
      /\ \A e \in Pipe!Range(hand[p]) : e \in Pipe!Range(offline') \cup evicted' \/
            Pipe!Delivered(e)'
  <2>1. CASE Pipe!Give(Sinks, hand[p]) /\ UNCHANGED <<offline, evicted>>
    <3>1. Sinks \in SUBSET Sinks
      OBVIOUS
    <3>2. /\ got' \in [Sinks -> SUBSET Events] /\ \A s \in Sinks : got[s] \subseteq got'[s]
          /\ \A e \in Pipe!Range(hand[p]) : Pipe!Delivered(e)'
      BY <1>4, <2>1, <3>1, PipeGive
    <3> QED BY <1>4, <2>1, <3>2
  <2>2. ASSUME NEW sinks \in SUBSET Sinks, Pipe!Give(sinks, hand[p]), Pipe!AppendOffline(hand[p])
        PROVE  /\ offline' \in Seq(Events) /\ got' \in [Sinks -> SUBSET Events]
               /\ evicted \subseteq evicted'
               /\ \A s \in Sinks : got[s] \subseteq got'[s]
               /\ Pipe!Range(offline) \cup evicted \subseteq Pipe!Range(offline') \cup evicted'
               /\ \A e \in Pipe!Range(hand[p]) : e \in Pipe!Range(offline') \cup evicted' \/
                     Pipe!Delivered(e)'
    <3>1. got' \in [Sinks -> SUBSET Events] /\ \A s \in Sinks : got[s] \subseteq got'[s]
      BY <1>4, <2>2, PipeGive
    <3>2. /\ offline' \in Seq(Events) /\ evicted \subseteq evicted'
          /\ Pipe!Range(offline) \cup Pipe!Range(hand[p]) \subseteq Pipe!Range(offline') \cup
                evicted'
      BY <1>4, <2>2, PipeOffline
    <3> QED BY <3>1, <3>2
  <2> QED BY <2>1, <2>2 DEF Pipe!WriteBatch
<1>7. pc'[p] = to /\ \A q \in Pipe!Procs : q # p => pc'[q] = pc[q]
    BY <1>1, <1>3, PipeGoto
<1>8. PipeTypes'
  <2>1. queue' \in Seq(Events) /\ batch' \in [Pipe!Procs -> Seq(Events)]
    BY <1>2, <1>4
  <2> QED BY <1>1, <1>3, <1>5, <1>6, <2>1, PipeTypesMove
<1>9. PipeHands'
  <2>1. to \in {"gone", "peek"} => batch[p] = <<>>
    BY <1>1, <1>3 DEF PipeHands
  <2>2. /\ to \notin {"write", "writeMore", "last", "tail", "replay"} => hand'[p] = <<>>
        /\ to \notin {"get", "write", "drain", "writeMore"} => batch'[p] = <<>>
        /\ to # "replay"
    BY <1>2, <1>3, <1>5, <2>1
  <2> QED BY <1>1, <1>2, <1>5, <1>6, <1>7, <2>2, PipeHandsMove
<1>10. PipeClosing'
  <2>1. pc[p] # "gone" /\ pc[p] \notin {"idle", "join"}
    BY <1>2 DEF Pipe!Writing
  <2>2. Pipe!Range(queue') \subseteq Pipe!Range(queue)
    BY <1>2
  <2> QED BY <1>1, <1>2, <1>3, <2>1, <2>2, PipeClosingMove
<1>11. \A x \in emitted' : PipeKept(x)'
    BY <1>1, <1>2, <1>5, <1>6, PipeKeptMove
<1> QED BY <1>8, <1>9, <1>10, <1>11 DEF PipeInv

\* A thread looks at the offline buffer, and takes the lock or leaves it.
LEMMA PipePeek == ASSUME PipeConstants, PipeInv, NEW p \in Pipe!Drainers, Pipe!Peek(p) PROVE PipeInv'
<1>1. PipeTypes /\ PipeHands /\ PipeClosing /\ \A x \in emitted : PipeKept(x)
    BY DEF PipeInv
<1>2. /\ UNCHANGED <<queue, offline, emitted, batch, got, evicted, unseen, late>>
      /\ pc[p] = "peek" /\ offlineLock \in {Pipe!Nobody, p} /\ p \in Pipe!Procs
    BY DEF Pipe!Peek, Pipe!Procs
<1>3. /\ queue \in Seq(Events) /\ offline \in Seq(Events) /\ got \in [Sinks -> SUBSET Events]
      /\ batch \in [Pipe!Procs -> Seq(Events)] /\ hand \in [Pipe!Procs -> Seq(Events)]
      /\ hand[p] = <<>>
      /\ batch[p] = <<>>
    BY <1>1, <1>2 DEF PipeTypes, PipeHands
<1>4. PICK to \in {"closed", "idle", "replay"} :
         /\ Pipe!Goto(p, to) /\ to \in PipePosts
         /\ p = Pipe!Closer => to # "idle"
         /\ hand' \in [Pipe!Procs -> Seq(Events)]
         /\ \A q \in Pipe!Procs : q # p => hand'[q] = hand[q]
         /\ to # "replay" => hand'[p] = <<>>
         /\ to = "replay" => offlineLock' = p /\ Pipe!Range(hand'[p]) \subseteq Pipe!Range(offline)
  <2>1. CASE /\ hand' = hand /\ Pipe!Goto(p, IF p = Pipe!Closer THEN "closed" ELSE "idle")
    BY <1>3, <2>1 DEF PipePosts
  <2>2. CASE /\ offlineLock' = p /\ hand' = [hand EXCEPT ![p] = Pipe!Prefix(offline, Limit)]
             /\ Pipe!Goto(p, "replay")
    <3>1. /\ Pipe!Prefix(offline, Limit) \in Seq(Events)
          /\ Pipe!Range(Pipe!Prefix(offline, Limit)) \subseteq Pipe!Range(offline)
      <4>1. Limit \in Nat /\ offline \in Seq(Events)
        BY <1>3 DEF PipeConstants
      <4>2. /\ Pipe!Prefix(offline, Limit) \in Seq(Events)
            /\ Pipe!Range(offline) = Pipe!Range(Pipe!Prefix(offline, Limit)) \cup
                  Pipe!Range(Pipe!Suffix(offline, Limit))
        BY <4>1, PipeCut
      <4> QED BY <4>2
    <3>2. /\ hand'[p] = Pipe!Prefix(offline, Limit) /\ hand' \in [Pipe!Procs -> Seq(Events)]
          /\ \A q \in Pipe!Procs : q # p => hand'[q] = hand[q]
      BY <1>2, <1>3, <2>2, <3>1
    <3> QED BY <2>2, <3>1, <3>2 DEF PipePosts
  <2> QED BY <2>1, <2>2 DEF Pipe!Peek
<1>5. pc'[p] = to /\ \A q \in Pipe!Procs : q # p => pc'[q] = pc[q]
    BY <1>1, <1>2, <1>4, PipeGoto
<1>6. PipeTypes'
  <2>1. /\ queue' \in Seq(Events) /\ offline' \in Seq(Events) /\ got' \in [Sinks -> SUBSET Events]
        /\ batch' \in [Pipe!Procs -> Seq(Events)]
    BY <1>2, <1>3
  <2> QED BY <1>1, <1>2, <1>4, <2>1, PipeTypesMove
<1>7. PipeHands'
  <2>1. ASSUME NEW q \in Pipe!Procs, q # p PROVE pc[q] # "replay"
    <3>1. pc[q] = "replay" => offlineLock = q /\ q \in Pipe!Drainers /\ q # Pipe!Nobody
      BY <1>1, PipeKinds DEF PipeHands
    <3> QED BY <1>2, <2>1, <3>1
  <2>2. /\ to \notin {"write", "writeMore", "last", "tail", "replay"} => hand'[p] = <<>>
        /\ to \notin {"get", "write", "drain", "writeMore"} => batch'[p] = <<>>
        /\ to = "replay" => offlineLock' = p /\
              Pipe!Range(hand'[p]) \subseteq Pipe!Range(offline') \cup evicted'
    BY <1>2, <1>3, <1>4
  <2>3. \A q \in Pipe!Procs : q # p => pc'[q] = pc[q] /\ batch'[q] = batch[q] /\ hand'[q] = hand[q]
    BY <1>2, <1>4, <1>5
  <2> QED BY <1>1, <1>2, <1>5, <2>1, <2>2, <2>3, PipeHandsMove
<1>8. PipeClosing'
  <2>1. Pipe!Range(queue') \subseteq Pipe!Range(queue)
    BY <1>2
  <2> QED BY <1>1, <1>2, <1>4, <2>1, PipeClosingMove
<1>9. \A x \in emitted' : PipeKept(x)'
  <2>1. Pipe!Range(hand[p]) = {}
    BY <1>3, PipeSeqs
  <2>2. \A q \in Pipe!Procs : q # p => batch'[q] = batch[q] /\ hand'[q] = hand[q]
    BY <1>2, <1>4
  <2>3. \A x \in Pipe!Range(queue) \cup Pipe!Range(offline) \cup evicted \cup unseen
                   \cup Pipe!Range(batch[p]) \cup Pipe!Range(hand[p]) :
           x \in Pipe!Range(queue') \cup Pipe!Range(offline') \cup evicted' \cup unseen'
                    \cup Pipe!Range(batch'[p]) \cup Pipe!Range(hand'[p])
    BY <1>2, <2>1
  <2>4. \A s \in Sinks : got[s] \subseteq got'[s]
    BY <1>2
  <2> QED BY <1>1, <1>2, <2>2, <2>3, <2>4, PipeKeptMove
<1> QED BY <1>6, <1>7, <1>8, <1>9 DEF PipeInv

\* A thread replays what it has peeked: what the acknowledgement removes was
\* written, or was not seen.
LEMMA PipeReplay == ASSUME PipeConstants, PipeInv, NEW p \in Pipe!Drainers, Pipe!Replay(p) PROVE PipeInv'
<1>1. PipeTypes /\ PipeHands /\ PipeClosing /\ \A x \in emitted : PipeKept(x)
    BY DEF PipeInv
<1>2. /\ UNCHANGED <<queue, emitted, batch, evicted, late>>
      /\ hand' = [hand EXCEPT ![p] = <<>>] /\ pc[p] = "replay" /\ p \in Pipe!Procs
    BY DEF Pipe!Replay, Pipe!Procs
<1>3. /\ queue \in Seq(Events) /\ offline \in Seq(Events) /\ got \in [Sinks -> SUBSET Events]
      /\ batch \in [Pipe!Procs -> Seq(Events)] /\ hand \in [Pipe!Procs -> Seq(Events)]
      /\ hand[p] \in Seq(Events)
      /\ batch[p] = <<>> /\ offlineLock = p
      /\ Pipe!Range(hand[p]) \subseteq Pipe!Range(offline) \cup evicted
    BY <1>1, <1>2 DEF PipeTypes, PipeHands
<1>4. /\ hand'[p] = <<>> /\ hand' \in [Pipe!Procs -> Seq(Events)]
      /\ \A q \in Pipe!Procs : q # p => hand'[q] = hand[q]
  <2>1. <<>> \in Seq(Events)
    OBVIOUS
  <2> QED BY <1>2, <1>3, <2>1
<1>5. PICK to \in {"peek", "closed", "idle"} : Pipe!Goto(p, to) /\ (p = Pipe!Closer => to # "idle")
    BY DEF Pipe!Replay
<1>6. to \in PipePosts
    BY DEF PipePosts
<1>7. /\ offline' \in Seq(Events) /\ got' \in [Sinks -> SUBSET Events]
      /\ \A s \in Sinks : got[s] \subseteq got'[s]
      /\ \A e \in Pipe!Range(offline) \cup unseen : e \in Pipe!Range(offline') \cup unseen' \/
            Pipe!Delivered(e)'
  <2>1. ASSUME Pipe!Give(Sinks, hand[p]), offline' = Pipe!Suffix(offline, Len(hand[p])),
               unseen' = unseen \cup
                  (Pipe!Range(Pipe!Prefix(offline, Len(hand[p]))) \ Pipe!Range(hand[p]))
        PROVE  /\ offline' \in Seq(Events) /\ got' \in [Sinks -> SUBSET Events]
               /\ \A s \in Sinks : got[s] \subseteq got'[s]
               /\ \A e \in Pipe!Range(offline) \cup unseen : e \in Pipe!Range(offline') \cup
                     unseen' \/ Pipe!Delivered(e)'
    <3>1. Sinks \in SUBSET Sinks /\ Len(hand[p]) \in Nat
      BY <1>3
    <3>2. /\ got' \in [Sinks -> SUBSET Events] /\ \A s \in Sinks : got[s] \subseteq got'[s]
      BY <1>3, <2>1, <3>1, PipeGive
    <3>3. \A e \in Pipe!Range(hand[p]) : Pipe!Delivered(e)'
      BY <1>3, <2>1, <3>1, PipeGive
    <3>4. /\ Pipe!Suffix(offline, Len(hand[p])) \in Seq(Events)
          /\ Pipe!Range(offline) = Pipe!Range(Pipe!Prefix(offline, Len(hand[p]))) \cup
                Pipe!Range(Pipe!Suffix(offline, Len(hand[p])))
      BY <1>3, <3>1, PipeCut
    <3>5. \A e \in Pipe!Range(offline) \cup unseen : e \in Pipe!Range(offline') \cup unseen' \/
             e \in Pipe!Range(hand[p])
      BY <2>1, <3>4
    <3> QED BY <2>1, <3>2, <3>3, <3>4, <3>5
  <2>2. ASSUME NEW sinks \in SUBSET Sinks, Pipe!Give(sinks, hand[p]), UNCHANGED <<offline, unseen>>
        PROVE  /\ offline' \in Seq(Events) /\ got' \in [Sinks -> SUBSET Events]
               /\ \A s \in Sinks : got[s] \subseteq got'[s]
               /\ \A e \in Pipe!Range(offline) \cup unseen : e \in Pipe!Range(offline') \cup
                     unseen' \/ Pipe!Delivered(e)'
    <3>1. got' \in [Sinks -> SUBSET Events] /\ \A s \in Sinks : got[s] \subseteq got'[s]
      BY <1>3, <2>2, PipeGive
    <3> QED BY <1>3, <2>2, <3>1
  <2> QED BY <2>1, <2>2 DEF Pipe!Replay
<1>8. pc'[p] = to /\ \A q \in Pipe!Procs : q # p => pc'[q] = pc[q]
    BY <1>1, <1>2, <1>5, <1>6, PipeGoto
<1>9. PipeTypes'
  <2>1. queue' \in Seq(Events) /\ batch' \in [Pipe!Procs -> Seq(Events)]
    BY <1>2, <1>3
  <2> QED BY <1>1, <1>2, <1>4, <1>5, <1>6, <1>7, <2>1, PipeTypesMove
<1>10. PipeHands'
  <2>1. ASSUME NEW q \in Pipe!Procs, q # p PROVE pc[q] # "replay"
    BY <1>1, <1>3, <2>1 DEF PipeHands
  <2>2. \A q \in Pipe!Procs : q # p => pc'[q] = pc[q] /\ batch'[q] = batch[q] /\ hand'[q] = hand[q]
    BY <1>2, <1>4, <1>8
  <2>3. hand'[p] = <<>> /\ batch'[p] = <<>> /\ pc'[p] # "replay"
    BY <1>2, <1>3, <1>4, <1>8
  <2> QED BY <1>1, <1>2, <2>1, <2>2, <2>3, PipeHandsMove
<1>11. PipeClosing'
  <2>1. Pipe!Range(queue') \subseteq Pipe!Range(queue)
    BY <1>2
  <2> QED BY <1>1, <1>2, <1>5, <1>6, <2>1, PipeClosingMove
<1>12. \A x \in emitted' : PipeKept(x)'
  <2>1. \A q \in Pipe!Procs : q # p => batch'[q] = batch[q] /\ hand'[q] = hand[q]
    BY <1>2, <1>4
  <2>2. \A x \in Pipe!Range(queue) \cup Pipe!Range(offline) \cup evicted \cup unseen
                   \cup Pipe!Range(batch[p]) \cup Pipe!Range(hand[p]) :
           \/ x \in Pipe!Range(queue') \cup Pipe!Range(offline') \cup evicted' \cup unseen'
                    \cup Pipe!Range(batch'[p]) \cup Pipe!Range(hand'[p])
           \/ Pipe!Delivered(x)'
    BY <1>2, <1>3, <1>7
  <2> QED BY <1>1, <1>2, <1>7, <2>1, <2>2, PipeKeptMove
<1> QED BY <1>9, <1>10, <1>11, <1>12 DEF PipeInv

\* Flush and close begin, and close waits for the workers.
LEMMA PipeBegin == ASSUME PipeConstants, PipeInv, Pipe!Flush \/ Pipe!Close \/
   Pipe!Join PROVE PipeInv'
<1>1. PipeTypes /\ PipeHands /\ PipeClosing /\ \A x \in emitted : PipeKept(x)
    BY DEF PipeInv
<1>2. UNCHANGED <<queue, offline, emitted, batch, hand, offlineLock, got, evicted, unseen, late>>
    BY DEF Pipe!Flush, Pipe!Close, Pipe!Join
<1>3. PICK p \in {Pipe!Flusher, Pipe!Closer}, to \in {"drain", "join", "idle"} :
         /\ Pipe!Goto(p, to) /\ pc[p] \in {"idle", "join"}
         /\ to = "drain" => p # Pipe!Closer \/ \A w \in Workers : pc[w] = "gone"
  <2>1. CASE Pipe!Flush
    BY <2>1 DEF Pipe!Flush, Pipe!Flusher, Pipe!Closer
  <2>2. CASE Pipe!Close
    BY <2>2 DEF Pipe!Close
  <2>3. CASE Pipe!Join
    <3>1. pc[Pipe!Closer] = "join"
      BY <2>3 DEF Pipe!Join
    <3>2. CASE \A w \in Workers : pc[w] = "gone"
      BY <2>3, <3>1, <3>2 DEF Pipe!Join
    <3>3. CASE ~(\A w \in Workers : pc[w] = "gone")
      BY <2>3, <3>1, <3>3 DEF Pipe!Join
    <3> QED BY <3>2, <3>3
  <2> QED BY <2>1, <2>2, <2>3
<1>4. p \in Pipe!Procs /\ to \in PipePosts
    BY DEF Pipe!Procs, Pipe!Drainers, PipePosts
<1>5. pc'[p] = to /\ \A q \in Pipe!Procs : q # p => pc'[q] = pc[q]
    BY <1>1, <1>3, <1>4, PipeGoto
<1>6. batch[p] = <<>> /\ hand[p] = <<>>
    BY <1>1, <1>3, <1>4 DEF PipeHands
<1>7. PipeTypes'
  <2>1. /\ queue' \in Seq(Events) /\ offline' \in Seq(Events) /\ got' \in [Sinks -> SUBSET Events]
        /\ batch' \in [Pipe!Procs -> Seq(Events)] /\ hand' \in [Pipe!Procs -> Seq(Events)]
    BY <1>1, <1>2 DEF PipeTypes
  <2> QED BY <1>1, <1>3, <1>4, <2>1, PipeTypesMove
<1>8. PipeHands'
  <2>1. \A q \in Pipe!Procs : q # p => pc'[q] = pc[q] /\ batch'[q] = batch[q] /\ hand'[q] = hand[q]
    BY <1>2, <1>5
  <2>2. hand'[p] = <<>> /\ batch'[p] = <<>> /\ pc'[p] # "replay"
    BY <1>2, <1>5, <1>6
  <2>3. offlineLock' = offlineLock /\
           Pipe!Range(offline) \cup evicted \subseteq Pipe!Range(offline') \cup evicted'
    BY <1>2
  <2> QED BY <1>1, <1>4, <2>1, <2>2, <2>3, PipeHandsMove
<1>9. PipeClosing'
  <2>1. Pipe!Range(queue') \subseteq Pipe!Range(queue)
    BY <1>2
  <2> QED BY <1>1, <1>2, <1>3, <1>4, <2>1, PipeClosingMove
<1>10. \A x \in emitted' : PipeKept(x)'
    BY <1>1, <1>2 DEF PipeKept, Pipe!Delivered
<1> QED BY <1>7, <1>8, <1>9, <1>10 DEF PipeInv

\* Every step of the pipeline keeps the invariant.
LEMMA PipeNext == ASSUME PipeConstants, PipeInv, [Pipe!Next]_Pipe!vars PROVE PipeInv'
<1>1. ASSUME NEW e \in Events, Pipe!Emit(e) PROVE PipeInv'
    BY <1>1, PipeEmit
<1>2. ASSUME NEW p \in Pipe!Procs, Pipe!Get(p) \/ Pipe!WriteBatch(p) PROVE PipeInv'
    BY <1>2, PipeGet, PipeWrite
<1>3. ASSUME NEW w \in Workers, Pipe!Empty(w) \/ Pipe!Exit(w) PROVE PipeInv'
    BY <1>3, PipeDrainBatch DEF Pipe!Empty, Pipe!Exit, Pipe!Procs
<1>4. ASSUME NEW p \in Pipe!Drainers, Pipe!Drained(p) PROVE PipeInv'
    BY <1>4, PipeDrainBatch DEF Pipe!Drained, Pipe!Procs
<1>5. ASSUME NEW p \in Pipe!Drainers, Pipe!Peek(p) \/ Pipe!Replay(p) PROVE PipeInv'
    BY <1>5, PipePeek, PipeReplay
<1>6. CASE UNCHANGED Pipe!vars
  <2>1. UNCHANGED <<queue, offline, emitted, pc, batch, hand, offlineLock, got, evicted, unseen, late>>
    BY <1>6 DEF Pipe!vars
  <2> QED BY <2>1 DEF PipeInv, PipeTypes, PipeHands, PipeClosing, PipeKept, Pipe!Delivered
<1> QED BY <1>1, <1>2, <1>3, <1>4, <1>5, <1>6, PipeBegin DEF Pipe!Next

\* An event that the Python SDK's pipeline was given is on its queue, with a thread,
\* in the offline buffer or with every sink, or it was dropped or acknowledged as
\* one of those that are counted; and when close has returned, no worker has an
\* event and the queue has only what was emitted after the last drain (pipeline.py).
THEOREM PipeKeeps == PipeConstants => (Pipe!Spec => [](Pipe!EmittedIsKept /\ Pipe!ClosedIsDrained))
<1> SUFFICES ASSUME PipeConstants PROVE Pipe!Spec => [](Pipe!EmittedIsKept /\ Pipe!ClosedIsDrained)
    OBVIOUS
<1>1. Pipe!Init => PipeInv
    BY PipeInit
<1>2. PipeInv /\ [Pipe!Next]_Pipe!vars => PipeInv'
    BY PipeNext
<1>3. PipeInv => Pipe!EmittedIsKept /\ Pipe!ClosedIsDrained
  <2> SUFFICES ASSUME PipeInv PROVE Pipe!EmittedIsKept /\ Pipe!ClosedIsDrained
    OBVIOUS
  <2>1. Pipe!EmittedIsKept
    <3> SUFFICES ASSUME NEW e \in emitted
                 PROVE  e \in Pipe!Range(queue) \cup Pipe!InHand \cup Pipe!Range(offline) \cup
                           evicted \cup unseen \/ Pipe!Delivered(e)
      BY DEF Pipe!EmittedIsKept
    <3>1. ASSUME NEW p \in Pipe!Procs, e \in Pipe!Range(batch[p]) \/ e \in Pipe!Range(hand[p])
          PROVE  e \in Pipe!InHand
      BY <3>1 DEF Pipe!InHand
    <3>2. PipeKept(e)
      BY DEF PipeInv
    <3> QED BY <3>1, <3>2 DEF PipeKept
  <2>2. Pipe!ClosedIsDrained
    <3> SUFFICES ASSUME pc[Pipe!Closer] = "closed"
                 PROVE  /\ \A p \in Pipe!Procs \ {Pipe!Flusher} : batch[p] = <<>> /\ hand[p] = <<>>
                        /\ Pipe!Range(queue) \subseteq late
      BY DEF Pipe!ClosedIsDrained
    <3>1. (\A w \in Workers : pc[w] = "gone") /\ Pipe!Range(queue) \subseteq late
      BY DEF PipeInv, PipeClosing
    <3>2. ASSUME NEW p \in Pipe!Procs \ {Pipe!Flusher} PROVE batch[p] = <<>> /\ hand[p] = <<>>
      <4>1. pc[p] \in {"gone", "closed"}
        BY <3>1 DEF Pipe!Procs, Pipe!Drainers
      <4> QED BY <4>1 DEF PipeInv, PipeHands
    <3> QED BY <3>1, <3>2
  <2> QED BY <2>1, <2>2
<1> QED BY <1>1, <1>2, <1>3, PTL DEF Pipe!Spec

-----------------------------------------------------------------------------
(* The logger of the Rust SDK.  RustInv is inductive: what was sent before a  *)
(* command is in front of it, with the worker or done, and without a race    *)
(* one thread is past the check that begins an emit.                         *)

\* What each thread does is given, and the names the worker has for nobody are not callers.
RustConstants ==
    /\ Worlds \subseteq [event : [Threads -> Events], call : [Threads -> Rust!Calls]]
    /\ Len(Sinks) \in Nat /\ DOMAIN Sinks = 1 .. Len(Sinks)
    /\ "none" \notin Callers /\ "idle" \notin Callers

RustStates == {"created", "finished", "emitting", "emitted", "failed_validation"}
RustCommands == [kind : {"event"}, of : Events] \cup [kind : {"flush", "shutdown"}, of : Callers]

\* The types of the variables.
RustTypes ==
    /\ world \in [event : [Threads -> Events], call : [Threads -> Rust!Calls]]
    /\ state \in [Events -> RustStates]
    /\ tpc \in [Threads -> {"new", "checked", "emitting", "sent", "ok", "error", "closed"}]
    /\ checked \in [Threads -> RustStates]
    /\ channel \in Seq(RustCommands) /\ receiver \in BOOLEAN
    /\ batcher \in Seq(Events)
    /\ work \in [events : Seq(Events), sink : Nat, attempt : Nat, reply : Callers \cup
          {"none", "idle"}]
    /\ cpc \in [Callers -> {"new", "wait", "ok", "error"}]
    /\ got \in [DOMAIN Sinks -> Seq(Events)]
    /\ sent \in Seq(Events)
    /\ failed \subseteq Events \X (Callers \cup {"none"})
    /\ owed \in [Callers -> SUBSET Events]

\* The worker has nothing, or is there and the sinks before its own have the batch.
RustWork ==
    /\ work.reply = "idle" => work.events = <<>>
    /\ work.reply # "idle" =>
          /\ receiver = TRUE /\ work.sink # 0
          /\ \A s \in DOMAIN Sinks : s < work.sink =>
                 Rust!ToSet(work.events) \subseteq Rust!ToSet(got[s])

\* An event is in every sink, or in a batch of somebody else that failed.
RustDone(e, c) ==
    Rust!Everywhere(e) \/ \E o \in (Callers \cup {"none"}) \ {c} : <<e, o>> \in failed

\* The caller of a batch that failed was told.
RustFailed == \A e \in Events, c \in Callers : <<e, c>> \in failed => cpc[c] = "error"

RustCommand(i, c) == channel[i].kind # "event" /\ channel[i].of = c

\* What was sent before a call is in front of its command, with the worker, or done.
RustAskedAt(c) ==
    /\ \A i \in DOMAIN channel : RustCommand(i, c) =>
          /\ cpc[c] = "wait" /\ work.reply # c
          /\ \A j \in DOMAIN channel : RustCommand(j, c) => j = i
          /\ \A e \in owed[c] :
                \/ RustDone(e, c) \/ e \in Rust!InHand
                \/ \E j \in DOMAIN channel : j < i /\ channel[j].kind = "event" /\ channel[j].of = e
    /\ work.reply = c =>
          cpc[c] = "wait" /\ \A e \in owed[c] : RustDone(e, c) \/ e \in Rust!ToSet(work.events)

RustAsked == receiver = TRUE => \A c \in Callers : RustAskedAt(c)

\* A thread that is past begin_emit and has not come back.
RustInside(t, e) == Rust!Ev(t) = e /\ tpc[t] \in {"emitting", "sent"}

\* Without a race one thread gets past begin_emit, and the lifecycle says so.
RustOneAt(e) ==
    /\ \A i, j \in DOMAIN sent : sent[i] = e /\ sent[j] = e => i = j
    /\ \A t, u \in Threads : RustInside(t, e) /\ RustInside(u, e) => t = u
    /\ \A t \in Threads : RustInside(t, e) => state[e] = "emitting"
    /\ \A t \in Threads : RustInside(t, e) /\ tpc[t] = "emitting" => e \notin Rust!ToSet(sent)
    /\ e \in Rust!ToSet(sent) =>
          state[e] = "emitted" \/ \E t \in Threads : Rust!Ev(t) = e /\ tpc[t] = "sent"

RustOnce ==
    /\ \A t \in Threads : tpc[t] = "checked" => checked[t] \in Rust!Open
    /\ \A e \in Events \ raced : RustOneAt(e)

RustInv ==
    /\ RustTypes /\ RustWork /\ RustFailed /\ RustAsked /\ RustOnce
    /\ Rust!SentIsKept /\ Rust!FlushedIsWritten

\* What the sequence operators do to what a sequence holds.
LEMMA RustSeqs ==
    ASSUME NEW s \in Seq(Events)
    PROVE  /\ Rust!ToSet(s) \subseteq Events
           /\ \A x \in Events : Append(s, x) \in Seq(Events) /\
                 Rust!ToSet(Append(s, x)) = Rust!ToSet(s) \cup {x}
<1>1. Rust!ToSet(s) \subseteq Events
    BY DEF Rust!ToSet
<1>2. ASSUME NEW x \in Events
      PROVE  Append(s, x) \in Seq(Events) /\ Rust!ToSet(Append(s, x)) = Rust!ToSet(s) \cup {x}
  <2>1. /\ DOMAIN s = 1 .. Len(s) /\ DOMAIN Append(s, x) = 1 .. Len(s) + 1 /\ Len(s) \in Nat
        /\ \A i \in 1 .. Len(s) : Append(s, x)[i] = s[i]
        /\ Append(s, x)[Len(s) + 1] = x /\ Append(s, x) \in Seq(Events)
    OBVIOUS
  <2>2. \A i \in 1 .. Len(s) + 1 : i \in 1 .. Len(s) \/ i = Len(s) + 1
    BY <2>1
  <2>3. 1 .. Len(s) \subseteq 1 .. Len(s) + 1 /\ Len(s) + 1 \in 1 .. Len(s) + 1
    BY <2>1
  <2>4. Rust!ToSet(Append(s, x)) \subseteq Rust!ToSet(s) \cup {x}
    BY <2>1, <2>2 DEF Rust!ToSet
  <2>5. Rust!ToSet(s) \cup {x} \subseteq Rust!ToSet(Append(s, x))
    BY <2>1, <2>3 DEF Rust!ToSet
  <2> QED BY <2>1, <2>4, <2>5
<1> QED BY <1>1, <1>2

\* The empty sequence holds nothing, and one of one event that.
LEMMA RustSmall ==
    /\ <<>> \in Seq(Events) /\ Rust!ToSet(<<>>) = {}
    /\ \A e \in Events : <<e>> \in Seq(Events) /\ Rust!ToSet(<<e>>) = {e}
<1>1. <<>> \in Seq(Events) /\ Rust!ToSet(<<>>) = {}
    BY DEF Rust!ToSet
<1>2. ASSUME NEW e \in Events PROVE <<e>> \in Seq(Events) /\ Rust!ToSet(<<e>>) = {e}
  <2>1. <<e>> \in Seq(Events) /\ DOMAIN <<e>> = {1} /\ <<e>>[1] = e
    OBVIOUS
  <2> QED BY <2>1 DEF Rust!ToSet
<1> QED BY <1>1, <1>2

\* What two sequences hold is in the one after the other.
LEMMA RustConcat ==
    ASSUME NEW s \in Seq(Events), NEW u \in Seq(Events)
    PROVE  /\ s \o u \in Seq(Events)
           /\ Rust!ToSet(s) \subseteq Rust!ToSet(s \o u)
           /\ Rust!ToSet(u) \subseteq Rust!ToSet(s \o u)
<1>1. /\ DOMAIN s = 1 .. Len(s) /\ Len(s) \in Nat /\ DOMAIN u = 1 .. Len(u) /\ Len(u) \in Nat
      /\ DOMAIN (s \o u) = 1 .. Len(s) + Len(u) /\ s \o u \in Seq(Events)
      /\ \A i \in 1 .. Len(s) : (s \o u)[i] = s[i]
      /\ \A i \in 1 .. Len(u) : (s \o u)[Len(s) + i] = u[i]
    OBVIOUS
<1>2. Rust!ToSet(s) \subseteq Rust!ToSet(s \o u)
  <2>1. \A i \in 1 .. Len(s) : i \in 1 .. Len(s) + Len(u)
    BY <1>1
  <2> QED BY <1>1, <2>1 DEF Rust!ToSet
<1>3. Rust!ToSet(u) \subseteq Rust!ToSet(s \o u)
  <2>1. \A i \in 1 .. Len(u) : Len(s) + i \in 1 .. Len(s) + Len(u)
    BY <1>1
  <2> QED BY <1>1, <2>1 DEF Rust!ToSet
<1> QED BY <1>1, <1>2, <1>3

\* The size of a set is the same in the instance.
LEMMA RustSize == ASSUME NEW S PROVE Rust!Cardinality(S) = Cardinality(S)
BY DEF Cardinality, Rust!Cardinality, IsFiniteSet, Rust!IsFiniteSet

\* A set of which any two members are the same has at most one.
LEMMA RustAtMostOne ==
    ASSUME NEW S, \A x, y \in S : x = y PROVE Cardinality(S) <= 1
<1>1. CASE S = {}
    BY <1>1, FS_EmptySet
<1>2. CASE S # {}
  <2>1. PICK x \in S : TRUE
    BY <1>2
  <2>2. S = {x}
    BY <2>1
  <2> QED BY <2>2, FS_Singleton
<1> QED BY <1>1, <1>2

\* The worker writes to a sink: the sinks have what they had, and that one more.
LEMMA RustGot ==
    ASSUME RustConstants, RustTypes, RustWork, Rust!Writing, NEW x \in Seq(Events),
           got' = [got EXCEPT ![work.sink] = @ \o x]
    PROVE  /\ work.sink \in DOMAIN Sinks /\ got' \in [DOMAIN Sinks -> Seq(Events)]
           /\ \A s \in DOMAIN Sinks : Rust!ToSet(got[s]) \subseteq Rust!ToSet(got'[s])
           /\ Rust!ToSet(x) \subseteq Rust!ToSet(got'[work.sink])
           /\ \A e \in Events : Rust!Everywhere(e) => Rust!Everywhere(e)'
<1>1. work.sink \in DOMAIN Sinks
    BY DEF RustConstants, RustTypes, RustWork, Rust!Writing
<1>2. got \in [DOMAIN Sinks -> Seq(Events)] /\ got[work.sink] \in Seq(Events)
    BY <1>1 DEF RustTypes
<1>3. /\ got[work.sink] \o x \in Seq(Events)
      /\ Rust!ToSet(got[work.sink]) \subseteq Rust!ToSet(got[work.sink] \o x)
      /\ Rust!ToSet(x) \subseteq Rust!ToSet(got[work.sink] \o x)
    BY <1>2, RustConcat
<1>4. /\ got' \in [DOMAIN Sinks -> Seq(Events)] /\ got'[work.sink] = got[work.sink] \o x
      /\ \A s \in DOMAIN Sinks : s # work.sink => got'[s] = got[s]
    BY <1>1, <1>2, <1>3
<1>5. ASSUME NEW s \in DOMAIN Sinks PROVE Rust!ToSet(got[s]) \subseteq Rust!ToSet(got'[s])
  <2>1. CASE s = work.sink
    BY <1>3, <1>4, <2>1
  <2>2. CASE s # work.sink
    <3>1. got'[s] = got[s]
      BY <1>4, <2>2
    <3> QED BY <3>1
  <2> QED BY <2>1, <2>2
<1>6. ASSUME NEW e \in Events, Rust!Everywhere(e) PROVE Rust!Everywhere(e)'
  <2> SUFFICES ASSUME NEW s \in DOMAIN Sinks PROVE e \in Rust!ToSet(got'[s])
    BY DEF Rust!Everywhere, Rust!ToSet
  <2>1. e \in Rust!ToSet(got[s])
    BY <1>6 DEF Rust!Everywhere
  <2> QED BY <2>1, <1>5
<1>7. Rust!ToSet(x) \subseteq Rust!ToSet(got'[work.sink])
    BY <1>3, <1>4
<1> QED BY <1>1, <1>4, <1>5, <1>6, <1>7

\* What is done stays so.
LEMMA RustMore ==
    ASSUME \A e \in Events : Rust!Everywhere(e) => Rust!Everywhere(e)', failed \subseteq failed'
    PROVE  /\ \A e \in Events, c \in Callers : RustDone(e, c) => RustDone(e, c)'
           /\ \A e \in Events : Rust!Failed(e) => Rust!Failed(e)'
<1>1. ASSUME NEW e \in Events, NEW c \in Callers, RustDone(e, c) PROVE RustDone(e, c)'
    BY <1>1 DEF RustDone
<1>2. ASSUME NEW e \in Events, Rust!Failed(e) PROVE Rust!Failed(e)'
    BY <1>2 DEF Rust!Failed
<1> QED BY <1>1, <1>2

\* The invariant holds in the initial states.
LEMMA RustInit == ASSUME RustConstants, Rust!Init PROVE RustInv
<1>1. RustTypes
  <2>1. world \in [event : [Threads -> Events], call : [Threads -> Rust!Calls]]
    BY DEF Rust!Init, RustConstants
  <2>2. <<>> \in Seq(RustCommands) /\ <<>> \in Seq(Events)
    OBVIOUS
  <2>3. work \in [events : Seq(Events), sink : Nat, attempt : Nat, reply : Callers \cup
           {"none", "idle"}]
    BY <2>2 DEF Rust!Init, Rust!Idle
  <2> QED BY <2>1, <2>2, <2>3 DEF Rust!Init, RustTypes, RustStates
<1>2. work.reply = "idle" /\ work.events = <<>> /\ channel = <<>> /\ sent = <<>> /\ failed = {}
    BY DEF Rust!Init, Rust!Idle
<1>3. Rust!ToSet(sent) = {} /\ DOMAIN channel = {} /\ DOMAIN sent = {}
    BY <1>2, RustSmall
<1>4. RustWork /\ RustFailed
    BY <1>2 DEF RustWork, RustFailed
<1>5. RustAsked
    BY <1>2, <1>3 DEF RustAsked, RustAskedAt, RustConstants
<1>6. RustOnce
  <2>1. \A t \in Threads : tpc[t] = "new"
    BY DEF Rust!Init
  <2> QED BY <1>3, <2>1 DEF RustOnce, RustOneAt, RustInside
<1>7. Rust!SentIsKept /\ Rust!FlushedIsWritten
  <2>1. \A c \in Callers : cpc[c] = "new"
    BY DEF Rust!Init
  <2> QED BY <1>3, <2>1 DEF Rust!SentIsKept, Rust!FlushedIsWritten
<1> QED BY <1>1, <1>4, <1>5, <1>6, <1>7 DEF RustInv

\* What the worker has of the sinks does not change when it does nothing.
LEMMA RustIdles == ASSUME RustWork, UNCHANGED <<work, receiver, got>> PROVE RustWork'
<1>1. work' = work /\ receiver' = receiver /\ got' = got
    OBVIOUS
<1>2. Rust!ToSet(work.events)' = Rust!ToSet(work.events) /\
         \A s : Rust!ToSet(got[s])' = Rust!ToSet(got[s])
    BY <1>1 DEF Rust!ToSet
<1> QED BY <1>1, <1>2 DEF RustWork

\* Nor does what a caller was told.
LEMMA RustTold == ASSUME Rust!FlushedIsWritten, UNCHANGED <<cpc, owed, got, failed>> PROVE Rust!FlushedIsWritten'
BY DEF Rust!FlushedIsWritten, Rust!Everywhere, Rust!ToSet

\* The parts about the channel and the worker say nothing of the threads.
LEMMA RustQuiet ==
    ASSUME RustInv, UNCHANGED <<channel, receiver, batcher, work, cpc, got, failed, sent, abandoned, owed>>
    PROVE  RustWork' /\ RustFailed' /\ RustAsked' /\ Rust!SentIsKept' /\ Rust!FlushedIsWritten'
<1>1. RustWork' /\ RustFailed'
    BY RustIdles DEF RustInv, RustFailed
<1>2. RustAsked'
    BY DEF RustInv, RustAsked, RustAskedAt, RustCommand, RustDone, Rust!Everywhere, Rust!InHand,
       Rust!ToSet
<1>3. Rust!SentIsKept' /\ Rust!FlushedIsWritten'
    BY DEF RustInv, Rust!SentIsKept, Rust!FlushedIsWritten, Rust!Everywhere, Rust!InHand,
       Rust!Queued, Rust!InChannel, Rust!Failed, Rust!ToSet
<1> QED BY <1>1, <1>2, <1>3

\* And the part about the threads nothing of the channel and the worker.
LEMMA RustCalm ==
    ASSUME RustOnce, UNCHANGED <<world, state, tpc, checked, sent, raced>> PROVE RustOnce'
BY DEF RustOnce, RustOneAt, RustInside, Rust!Ev, Rust!ToSet

\* A step of one thread: its other conditions hold for the events it does not touch.
LEMMA RustOther ==
    ASSUME RustOnce, NEW t \in Threads, UNCHANGED world, raced \subseteq raced',
           \A u \in Threads : u # t => tpc'[u] = tpc[u],
           \A e \in Events : e # Rust!Ev(t) => state'[e] = state[e],
           UNCHANGED sent,
           NEW e \in Events \ raced', e # Rust!Ev(t)
    PROVE  RustOneAt(e)'
<1>1. RustOneAt(e)
    BY DEF RustOnce
<1>2. \A u \in Threads : Rust!Ev(u)' = Rust!Ev(u)
    BY DEF Rust!Ev
<1>3. \A u \in Threads : RustInside(u, e)' <=> RustInside(u, e)
    BY <1>2 DEF RustInside
<1>4. \A u \in Threads : Rust!Ev(u) = e => tpc'[u] = tpc[u]
    OBVIOUS
<1>5. state'[e] = state[e] /\ sent' = sent
    OBVIOUS
<1>6. \A u \in Threads : RustInside(u, e) => tpc'[u] = tpc[u]
    BY <1>4 DEF RustInside
<1>7. \A u \in Threads : Rust!Ev(u) = e /\ tpc[u] = "sent" => Rust!Ev(u)' = e /\ tpc'[u] = "sent"
    BY <1>2, <1>4
<1>8. Rust!ToSet(sent)' = Rust!ToSet(sent)
    BY <1>5 DEF Rust!ToSet
<1> QED BY <1>1, <1>3, <1>5, <1>6, <1>7, <1>8 DEF RustOneAt

\* An event whose lifecycle is open was not sent, and nobody sends it.
LEMMA RustNobody ==
    ASSUME RustOnce, NEW e \in Events \ raced, state[e] \in Rust!Open
    PROVE  e \notin Rust!ToSet(sent) /\ \A u \in Threads : ~RustInside(u, e)
<1>1. RustOneAt(e)
    BY DEF RustOnce
<1>2. \A u \in Threads : ~RustInside(u, e)
    BY <1>1 DEF RustOneAt, Rust!Open
<1>3. \A u \in Threads : ~(Rust!Ev(u) = e /\ tpc[u] = "sent")
    BY <1>2 DEF RustInside
<1>4. e \notin Rust!ToSet(sent)
    BY <1>1, <1>3 DEF RustOneAt, Rust!Open
<1> QED BY <1>2, <1>4

\* Nobody sends the event after the step.
LEMMA RustNoneAfter ==
    ASSUME NEW e, RustOneAt(e), UNCHANGED sent, \A u \in Threads : ~RustInside(u, e)',
           e \in Rust!ToSet(sent) => state'[e] = "emitted"
    PROVE  RustOneAt(e)'
<1>1. Rust!ToSet(sent)' = Rust!ToSet(sent)
    BY DEF Rust!ToSet
<1> QED BY <1>1 DEF RustOneAt

\* A step of one thread: the event it has.
LEMMA RustItsEvent ==
    ASSUME RustTypes, RustOnce, NEW t \in Threads, NEW e \in Events \ raced', e = Rust!Ev(t),
           Rust!Check(t) \/ Rust!Mark(t) \/ Rust!BeginEmit(t) \/ Rust!Oversize(t) \/
              Rust!EnqueueFails(t) \/ Rust!Accepted(t)
    PROVE  RustOneAt(e)'
<1>1. UNCHANGED <<world, sent>> /\ raced \subseteq raced'
    BY DEF Rust!Check, Rust!Mark, Rust!BeginEmit, Rust!Oversize, Rust!EnqueueFails,
       Rust!Accepted, Rust!SetState
<1>2. e \in Events \ raced
    BY <1>1
<1>3. RustOneAt(e)
    BY <1>2 DEF RustOnce
<1>4. \A u \in Threads : Rust!Ev(u)' = Rust!Ev(u)
    BY <1>1 DEF Rust!Ev
<1>5. /\ tpc \in [Threads -> {"new", "checked", "emitting", "sent", "ok", "error", "closed"}]
      /\ state \in [Events -> RustStates]
    BY DEF RustTypes
<1>6. \A u \in Threads : u # t => tpc'[u] = tpc[u]
    BY <1>5 DEF Rust!Check, Rust!Mark, Rust!BeginEmit, Rust!Oversize, Rust!EnqueueFails,
       Rust!Accepted
<1>7. \A u \in Threads : u # t => (RustInside(u, e)' <=> RustInside(u, e))
    BY <1>4, <1>6 DEF RustInside
<1>8. CASE Rust!Check(t) \/ (Rust!BeginEmit(t) /\ state[e] \notin Rust!Open)
  <2>1. state' = state /\ tpc[t] \notin {"emitting", "sent"} /\ tpc'[t] \notin {"emitting", "sent"}
    BY <1>5, <1>8 DEF Rust!Check, Rust!BeginEmit
  <2>2. \A u \in Threads : RustInside(u, e)' <=> RustInside(u, e)
    BY <1>7, <2>1 DEF RustInside
  <2>3. \A u \in Threads : Rust!Ev(u) = e /\ tpc[u] = "sent" => Rust!Ev(u)' = e /\ tpc'[u] = "sent"
    BY <1>4, <1>6, <2>1
  <2>4. \A u \in Threads : RustInside(u, e) => tpc'[u] = tpc[u]
    BY <1>6, <2>1 DEF RustInside
  <2>5. Rust!ToSet(sent)' = Rust!ToSet(sent) /\ sent' = sent /\ state'[e] = state[e]
    BY <1>1, <2>1 DEF Rust!ToSet
  <2> QED BY <1>3, <2>2, <2>3, <2>4, <2>5 DEF RustOneAt
<1>9. CASE Rust!Mark(t)
  <2>1. checked[t] \in Rust!Open /\ state[e] = checked[t]
    BY <1>9 DEF RustOnce, Rust!Mark, Rust!SetState
  <2>2. e \notin Rust!ToSet(sent) /\ \A u \in Threads : ~RustInside(u, e)
    BY <1>2, <2>1, RustNobody
  <2>3. tpc'[t] \notin {"emitting", "sent"}
    BY <1>5, <1>9 DEF Rust!Mark
  <2>4. \A u \in Threads : ~RustInside(u, e)'
    BY <1>7, <2>2, <2>3 DEF RustInside
  <2> QED BY <1>1, <1>3, <2>2, <2>4, RustNoneAfter
<1>10. CASE Rust!BeginEmit(t) /\ state[e] \in Rust!Open
  <2>1. e \notin Rust!ToSet(sent) /\ \A u \in Threads : ~RustInside(u, e)
    BY <1>2, <1>10, RustNobody
  <2>2. tpc'[t] = "emitting" /\ state'[e] = "emitting"
    BY <1>5, <1>10 DEF Rust!BeginEmit
  <2>3. \A u \in Threads : RustInside(u, e)' => u = t
    BY <1>7, <2>1
  <2>4. Rust!ToSet(sent)' = Rust!ToSet(sent)
    BY <1>1 DEF Rust!ToSet
  <2> QED BY <1>1, <1>3, <2>1, <2>2, <2>3, <2>4 DEF RustOneAt
<1>11. CASE Rust!Oversize(t) \/ Rust!EnqueueFails(t)
  <2>1. tpc[t] = "emitting" /\ tpc'[t] = "error"
    BY <1>5, <1>11 DEF Rust!Oversize, Rust!EnqueueFails
  <2>2. RustInside(t, e)
    BY <2>1 DEF RustInside
  <2>3. e \notin Rust!ToSet(sent) /\ \A u \in Threads : RustInside(u, e) => u = t
    BY <1>3, <2>1, <2>2 DEF RustOneAt
  <2>4. \A u \in Threads : ~RustInside(u, e)'
    BY <1>7, <2>1, <2>3 DEF RustInside
  <2> QED BY <1>1, <1>3, <2>3, <2>4, RustNoneAfter
<1>12. CASE Rust!Accepted(t)
  <2>1. tpc[t] = "sent" /\ tpc'[t] = "ok" /\ state'[e] = "emitted"
    BY <1>5, <1>12 DEF Rust!Accepted
  <2>2. \A u \in Threads : RustInside(u, e) => u = t
    BY <1>3, <2>1 DEF RustOneAt, RustInside
  <2>3. \A u \in Threads : ~RustInside(u, e)'
    BY <1>7, <2>1, <2>2 DEF RustInside
  <2> QED BY <1>1, <1>3, <2>1, <2>3, RustNoneAfter
<1> QED BY <1>8, <1>9, <1>10, <1>11, <1>12

\* A thread checks, marks or begins, or comes back.
LEMMA RustThread ==
    ASSUME RustInv, NEW t \in Threads,
           Rust!Check(t) \/ Rust!Mark(t) \/ Rust!BeginEmit(t) \/ Rust!Oversize(t) \/
              Rust!EnqueueFails(t) \/ Rust!Accepted(t)
    PROVE  RustInv'
<1>1. RustTypes /\ RustOnce
    BY DEF RustInv
<1>2. /\ UNCHANGED <<world, channel, receiver, batcher, work, cpc, got, failed, sent, abandoned, owed>>
      /\ raced \subseteq raced'
    BY DEF Rust!Check, Rust!Mark, Rust!BeginEmit, Rust!Oversize, Rust!EnqueueFails,
       Rust!Accepted, Rust!SetState, Rust!runtime, Rust!sinks
<1>3. /\ tpc \in [Threads -> {"new", "checked", "emitting", "sent", "ok", "error", "closed"}]
      /\ state \in [Events -> RustStates] /\ checked \in [Threads -> RustStates]
      /\ Rust!Ev(t) \in Events
    BY <1>1 DEF RustTypes, Rust!Ev
<1>4. /\ tpc' \in [Threads -> {"new", "checked", "emitting", "sent", "ok", "error", "closed"}]
      /\ \A u \in Threads : u # t => tpc'[u] = tpc[u]
    BY <1>3 DEF Rust!Check, Rust!Mark, Rust!BeginEmit, Rust!Oversize, Rust!EnqueueFails,
       Rust!Accepted
<1>5. /\ state' \in [Events -> RustStates]
      /\ \A e \in Events : e # Rust!Ev(t) => state'[e] = state[e]
    BY <1>3 DEF Rust!Check, Rust!Mark, Rust!BeginEmit, Rust!Oversize, Rust!EnqueueFails,
       Rust!Accepted, Rust!SetState, RustStates
<1>6. /\ checked' \in [Threads -> RustStates]
      /\ \A u \in Threads : u # t => checked'[u] = checked[u]
      /\ tpc'[t] = "checked" => checked'[t] \in Rust!Open
    BY <1>3 DEF Rust!Check, Rust!Mark, Rust!BeginEmit, Rust!Oversize, Rust!EnqueueFails,
       Rust!Accepted
<1>7. RustTypes'
    BY <1>1, <1>2, <1>4, <1>5, <1>6 DEF RustTypes
<1>8. RustWork' /\ RustFailed' /\ RustAsked' /\ Rust!SentIsKept' /\ Rust!FlushedIsWritten'
    BY <1>2, RustQuiet
<1>9. RustOnce'
  <2>1. ASSUME NEW u \in Threads, tpc'[u] = "checked" PROVE checked'[u] \in Rust!Open
    <3>1. CASE u = t
      BY <1>6, <2>1, <3>1
    <3>2. CASE u # t
      BY <1>1, <1>4, <1>6, <2>1, <3>2 DEF RustOnce
    <3> QED BY <3>1, <3>2
  <2>2. ASSUME NEW e \in Events \ raced' PROVE RustOneAt(e)'
    <3>1. CASE e = Rust!Ev(t)
      BY <1>1, <3>1, RustItsEvent
    <3>2. CASE e # Rust!Ev(t)
      BY <1>1, <1>2, <1>4, <1>5, <3>2, RustOther
    <3> QED BY <3>1, <3>2
  <2> QED BY <2>1, <2>2 DEF RustOnce
<1> QED BY <1>7, <1>8, <1>9 DEF RustInv

\* A command goes to the end of the channel.
LEMMA RustPut ==
    ASSUME channel \in Seq(RustCommands), NEW k \in RustCommands, channel' = Append(channel, k)
    PROVE  /\ channel' \in Seq(RustCommands) /\ Len(channel) \in Nat
           /\ DOMAIN channel = 1 .. Len(channel) /\ DOMAIN channel' = 1 .. Len(channel) + 1
           /\ \A i \in DOMAIN channel : i \in DOMAIN channel' /\ channel'[i] = channel[i]
           /\ \A i \in DOMAIN channel' : i \in DOMAIN channel \/ i = Len(channel) + 1
           /\ Len(channel) + 1 \in DOMAIN channel' /\ channel'[Len(channel) + 1] = k
           /\ Rust!InChannel \subseteq Rust!InChannel'
<1>1. /\ channel' \in Seq(RustCommands) /\ Len(channel) \in Nat
      /\ DOMAIN channel = 1 .. Len(channel) /\ DOMAIN channel' = 1 .. Len(channel) + 1
      /\ \A i \in 1 .. Len(channel) : channel'[i] = channel[i]
      /\ channel'[Len(channel) + 1] = k
    OBVIOUS
<1>2. /\ \A i \in 1 .. Len(channel) : i \in 1 .. Len(channel) + 1
      /\ \A i \in 1 .. Len(channel) + 1 : i \in 1 .. Len(channel) \/ i = Len(channel) + 1
      /\ Len(channel) + 1 \in 1 .. Len(channel) + 1
    BY <1>1
<1>3. Rust!InChannel \subseteq Rust!InChannel'
    BY <1>1, <1>2 DEF Rust!InChannel
<1> QED BY <1>1, <1>2, <1>3

\* A thread sends its event.
LEMMA RustEnqueue ==
    ASSUME RustInv, NEW t \in Threads, Rust!Enqueue(t) PROVE RustInv'
<1>1. RustTypes /\ RustWork /\ RustFailed /\ RustAsked /\ RustOnce /\ Rust!SentIsKept /\
         Rust!FlushedIsWritten
    BY DEF RustInv
<1>2. /\ UNCHANGED <<world, state, checked, receiver, batcher, work, cpc, got, failed, abandoned, raced, owed>>
      /\ tpc[t] = "emitting" /\ tpc' = [tpc EXCEPT ![t] = "sent"]
      /\ sent' = Append(sent, Rust!Ev(t))
      /\ channel' = Append(channel, [kind |-> "event", of |-> Rust!Ev(t)])
    BY DEF Rust!Enqueue, Rust!Put, Rust!sinks
<1>3. receiver = TRUE
    BY <1>1 DEF Rust!Enqueue, Rust!Put, RustTypes
<1>4. PICK e \in Events : e = Rust!Ev(t)
    BY <1>1 DEF RustTypes, Rust!Ev
<1>5. /\ channel \in Seq(RustCommands) /\ sent \in Seq(Events)
      /\ tpc \in [Threads -> {"new", "checked", "emitting", "sent", "ok", "error", "closed"}]
    BY <1>1 DEF RustTypes
<1>6. PICK k \in RustCommands : k = [kind |-> "event", of |-> e]
    BY <1>4 DEF RustCommands
<1>7. /\ channel' \in Seq(RustCommands) /\ Len(channel) \in Nat
      /\ DOMAIN channel = 1 .. Len(channel) /\ DOMAIN channel' = 1 .. Len(channel) + 1
      /\ \A i \in DOMAIN channel : i \in DOMAIN channel' /\ channel'[i] = channel[i]
      /\ \A i \in DOMAIN channel' : i \in DOMAIN channel \/ i = Len(channel) + 1
      /\ Len(channel) + 1 \in DOMAIN channel' /\ channel'[Len(channel) + 1] = k
      /\ Rust!InChannel \subseteq Rust!InChannel'
    BY <1>2, <1>4, <1>5, <1>6, RustPut
<1>8. sent' \in Seq(Events) /\ Rust!ToSet(sent)' = Rust!ToSet(sent) \cup {e}
  <2>1. Append(sent, e) \in Seq(Events) /\ Rust!ToSet(Append(sent, e)) = Rust!ToSet(sent) \cup {e}
    BY <1>5, RustSeqs
  <2>2. Rust!ToSet(sent)' = Rust!ToSet(sent')
    BY DEF Rust!ToSet
  <2> QED BY <1>2, <1>4, <2>1, <2>2
<1>9. RustTypes'
    BY <1>1, <1>2, <1>5, <1>7, <1>8 DEF RustTypes
<1>10. RustWork' /\ RustFailed' /\ Rust!FlushedIsWritten'
  <2>1. RustWork' /\ RustFailed'
    BY <1>1, <1>2, RustIdles DEF RustFailed
  <2>2. Rust!FlushedIsWritten'
    BY <1>1, <1>2, RustTold
  <2> QED BY <2>1, <2>2
<1>11. Rust!InHand' = Rust!InHand /\ (\A x : Rust!Everywhere(x)' <=> Rust!Everywhere(x)) /\
          (\A x : Rust!Failed(x)' <=> Rust!Failed(x))
    BY <1>2 DEF Rust!InHand, Rust!Everywhere, Rust!Failed, Rust!ToSet
<1>12. RustAsked'
  <2> SUFFICES ASSUME NEW c \in Callers PROVE RustAskedAt(c)'
    BY DEF RustAsked
  <2>1. RustAskedAt(c)
    BY <1>1, <1>3 DEF RustAsked
  <2>2. ASSUME NEW i \in DOMAIN channel', RustCommand(i, c)'
        PROVE  i \in DOMAIN channel /\ RustCommand(i, c)
    <3>1. k.kind = "event"
      BY <1>6
    <3> QED BY <1>7, <2>2, <3>1 DEF RustCommand
  <2>3. \A x : RustDone(x, c) => RustDone(x, c)'
    BY <1>2, <1>11 DEF RustDone
  <2>4. ASSUME NEW i \in DOMAIN channel', RustCommand(i, c)'
        PROVE  /\ cpc'[c] = "wait" /\ work'.reply # c
               /\ \A j \in DOMAIN channel' : RustCommand(j, c)' => j = i
               /\ \A x \in owed'[c] :
                     \/ RustDone(x, c)' \/ x \in Rust!InHand'
                     \/ \E j \in DOMAIN channel' : j < i /\ channel'[j].kind = "event" /\
                           channel'[j].of = x
    <3>1. i \in DOMAIN channel /\ RustCommand(i, c)
      BY <2>2, <2>4
    <3>2. /\ cpc[c] = "wait" /\ work.reply # c
          /\ \A j \in DOMAIN channel : RustCommand(j, c) => j = i
      BY <2>1, <3>1 DEF RustAskedAt
    <3>3. ASSUME NEW x \in owed[c], ~RustDone(x, c)', x \notin Rust!InHand'
          PROVE  \E j \in DOMAIN channel' : j < i /\ channel'[j].kind = "event" /\
                    channel'[j].of = x
      <4>1. PICK j \in DOMAIN channel : j < i /\ channel[j].kind = "event" /\ channel[j].of = x
        BY <1>11, <2>1, <2>3, <3>1, <3>3 DEF RustAskedAt
      <4> QED BY <1>7, <4>1
    <3> QED BY <1>2, <2>2, <3>2, <3>3
  <2>5. work'.reply = c => cpc'[c] = "wait" /\ \A x \in owed'[c] : RustDone(x, c)' \/
           x \in Rust!ToSet(work'.events)
    BY <1>2, <2>1, <2>3 DEF RustAskedAt, Rust!ToSet
  <2>6. Rust!ToSet(work'.events) = Rust!ToSet(work.events)'
    BY DEF Rust!ToSet
  <2> QED BY <2>4, <2>5, <2>6 DEF RustAskedAt
<1>13. Rust!SentIsKept'
  <2> SUFFICES ASSUME NEW x \in Rust!ToSet(sent)'
               PROVE  x \in Rust!Queued' \cup Rust!InHand' \/ Rust!Failed(x)' \/ Rust!Everywhere(x)'
    BY DEF Rust!SentIsKept
  <2>1. Rust!Queued = Rust!InChannel /\ Rust!Queued' = Rust!InChannel'
    BY <1>2, <1>3 DEF Rust!Queued
  <2>2. e \in Rust!InChannel'
    BY <1>6, <1>7 DEF Rust!InChannel
  <2>3. x = e \/ x \in Rust!Queued \cup Rust!InHand \/ Rust!Failed(x) \/ Rust!Everywhere(x)
    BY <1>1, <1>8 DEF Rust!SentIsKept
  <2> QED BY <1>7, <1>11, <2>1, <2>2, <2>3
<1>14. RustOnce'
  <2>1. \A u \in Threads : Rust!Ev(u)' = Rust!Ev(u)
    BY <1>2 DEF Rust!Ev
  <2>2. tpc'[t] = "sent" /\ \A u \in Threads : u # t => tpc'[u] = tpc[u]
    BY <1>2, <1>5
  <2>3. ASSUME NEW u \in Threads, tpc'[u] = "checked" PROVE checked'[u] \in Rust!Open
    BY <1>1, <1>2, <2>2, <2>3 DEF RustOnce
  <2>4. /\ DOMAIN sent = 1 .. Len(sent) /\ DOMAIN sent' = 1 .. Len(sent) + 1 /\ Len(sent) \in Nat
        /\ \A i \in 1 .. Len(sent) : sent'[i] = sent[i]
        /\ sent'[Len(sent) + 1] = e
    BY <1>2, <1>4, <1>5
  <2>5. \A i \in DOMAIN sent' : (i \in DOMAIN sent /\ sent'[i] = sent[i]) \/
           (i = Len(sent) + 1 /\ sent'[i] = e)
    BY <2>4
  <2>6. ASSUME NEW x \in Events \ raced' PROVE RustOneAt(x)'
    <3>1. RustOneAt(x)
      BY <1>1, <1>2, <2>6 DEF RustOnce
    <3>2. \A u \in Threads : RustInside(u, x)' <=> RustInside(u, x)
      BY <1>2, <2>1, <2>2 DEF RustInside
    <3>3. \A u \in Threads : RustInside(u, x)' /\ tpc'[u] = "emitting" =>
             RustInside(u, x) /\ tpc[u] = "emitting" /\ u # t
      BY <2>2, <3>2
    <3>4. CASE x = e
      <4>1. RustInside(t, x)
        BY <1>2, <1>4, <3>4 DEF RustInside
      <4>2. e \notin Rust!ToSet(sent)
        BY <1>2, <3>1, <3>4, <4>1 DEF RustOneAt
      <4>3. \A i \in DOMAIN sent' : sent'[i] = x => i = Len(sent) + 1
        BY <2>5, <3>4, <4>2 DEF Rust!ToSet
      <4>4. \A u \in Threads : RustInside(u, x) => u = t
        BY <3>1, <4>1 DEF RustOneAt
      <4>5. Rust!Ev(t)' = x /\ tpc'[t] = "sent"
        BY <1>4, <2>1, <2>2, <3>4
      <4> QED BY <1>2, <3>1, <3>2, <3>3, <4>3, <4>4, <4>5 DEF RustOneAt
    <3>5. CASE x # e
      <4>1. \A i \in DOMAIN sent' : sent'[i] = x => i \in DOMAIN sent /\ sent[i] = x
        BY <2>5, <3>5
      <4>2. x \in Rust!ToSet(sent)' <=> x \in Rust!ToSet(sent)
        BY <1>8, <3>5
      <4>3. \A u \in Threads : Rust!Ev(u) = x => tpc'[u] = tpc[u]
        BY <1>4, <2>2, <3>5
      <4> QED BY <1>2, <2>1, <3>1, <3>2, <3>3, <4>1, <4>2, <4>3 DEF RustOneAt
    <3> QED BY <3>4, <3>5
  <2> QED BY <2>3, <2>6 DEF RustOnce
<1> QED BY <1>9, <1>10, <1>12, <1>13, <1>14 DEF RustInv

\* Flush or shutdown sends its command.
LEMMA RustAsk == ASSUME RustConstants, RustInv, NEW c \in Callers, Rust!Ask(c) PROVE RustInv'
<1>1. RustTypes /\ RustWork /\ RustFailed /\ RustAsked /\ RustOnce /\ Rust!SentIsKept /\
         Rust!FlushedIsWritten
    BY DEF RustInv
<1>2. /\ UNCHANGED <<world, state, tpc, checked, receiver, batcher, work, got, failed, sent, abandoned, raced>>
      /\ cpc[c] = "new" /\ cpc' = [cpc EXCEPT ![c] = "wait"]
      /\ owed' = [owed EXCEPT ![c] = Rust!ToSet(sent)]
      /\ channel' = Append(channel, [kind |-> IF c = Stop THEN "shutdown" ELSE "flush", of |-> c])
    BY DEF Rust!Ask, Rust!Put, Rust!sinks
<1>3. receiver = TRUE
    BY <1>1 DEF Rust!Ask, Rust!Put, RustTypes
<1>4. /\ channel \in Seq(RustCommands) /\ sent \in Seq(Events)
      /\ cpc \in [Callers -> {"new", "wait", "ok", "error"}] /\ owed \in [Callers -> SUBSET Events]
    BY <1>1 DEF RustTypes
<1>5. PICK k \in RustCommands : /\ k = [kind |-> IF c = Stop THEN "shutdown" ELSE "flush", of |-> c]
                                /\ k.kind # "event" /\ k.of = c
  <2>1. CASE c = Stop
    <3>1. [kind |-> "shutdown", of |-> c] \in RustCommands
      BY DEF RustCommands
    <3> QED BY <2>1, <3>1
  <2>2. CASE c # Stop
    <3>1. [kind |-> "flush", of |-> c] \in RustCommands
      BY DEF RustCommands
    <3> QED BY <2>2, <3>1
  <2> QED BY <2>1, <2>2
<1>6. /\ channel' \in Seq(RustCommands) /\ Len(channel) \in Nat
      /\ DOMAIN channel = 1 .. Len(channel) /\ DOMAIN channel' = 1 .. Len(channel) + 1
      /\ \A i \in DOMAIN channel : i \in DOMAIN channel' /\ channel'[i] = channel[i]
      /\ \A i \in DOMAIN channel' : i \in DOMAIN channel \/ i = Len(channel) + 1
      /\ Len(channel) + 1 \in DOMAIN channel' /\ channel'[Len(channel) + 1] = k
      /\ Rust!InChannel \subseteq Rust!InChannel'
    BY <1>2, <1>4, <1>5, RustPut
<1>7. Rust!ToSet(sent) \subseteq Events
    BY <1>4, RustSeqs
<1>8. /\ cpc'[c] = "wait" /\ \A d \in Callers : d # c => cpc'[d] = cpc[d] /\ owed'[d] = owed[d]
      /\ owed'[c] = Rust!ToSet(sent)
      /\ cpc' \in [Callers -> {"new", "wait", "ok", "error"}]
      /\ owed' \in [Callers -> SUBSET Events]
    BY <1>2, <1>4, <1>7
<1>9. RustTypes'
    BY <1>1, <1>2, <1>6, <1>8 DEF RustTypes
<1>10. RustWork' /\ RustOnce'
    BY <1>1, <1>2, RustCalm, RustIdles
<1>11. RustFailed'
    BY <1>1, <1>2, <1>8 DEF RustFailed
<1>12. Rust!InHand' = Rust!InHand /\ (\A x : Rust!Everywhere(x)' <=> Rust!Everywhere(x)) /\
          (\A x : Rust!Failed(x)' <=> Rust!Failed(x))
    BY <1>2 DEF Rust!InHand, Rust!Everywhere, Rust!Failed, Rust!ToSet
<1>13. \A x, d : RustDone(x, d) => RustDone(x, d)'
    BY <1>2, <1>12 DEF RustDone
<1>14. Rust!FlushedIsWritten'
  <2> SUFFICES ASSUME NEW d \in Callers, cpc'[d] = "ok", NEW x \in owed'[d] PROVE RustDone(x, d)'
    BY DEF Rust!FlushedIsWritten, RustDone
  <2>1. d # c
    BY <1>8
  <2>2. RustDone(x, d)
    BY <1>1, <1>8, <2>1 DEF Rust!FlushedIsWritten, RustDone
  <2> QED BY <1>13, <2>2
<1>15. Rust!SentIsKept'
  <2> SUFFICES ASSUME NEW x \in Rust!ToSet(sent)
               PROVE  x \in Rust!Queued' \cup Rust!InHand' \/ Rust!Failed(x)' \/ Rust!Everywhere(x)'
    BY <1>2 DEF Rust!SentIsKept, Rust!ToSet
  <2>1. Rust!Queued = Rust!InChannel /\ Rust!Queued' = Rust!InChannel'
    BY <1>2, <1>3 DEF Rust!Queued
  <2>2. x \in Rust!Queued \cup Rust!InHand \/ Rust!Failed(x) \/ Rust!Everywhere(x)
    BY <1>1 DEF Rust!SentIsKept
  <2> QED BY <1>6, <1>12, <2>1, <2>2
<1>16. RustAskedAt(c)
    BY <1>1, <1>3 DEF RustAsked
<1>17. work.reply # c /\ \A i \in DOMAIN channel : ~RustCommand(i, c)
    BY <1>2, <1>16 DEF RustAskedAt
<1>18. RustAskedAt(c)'
  <2>1. ASSUME NEW i \in DOMAIN channel', RustCommand(i, c)' PROVE i = Len(channel) + 1
    BY <1>6, <1>17, <2>1 DEF RustCommand
  <2>2. ASSUME NEW x \in Rust!ToSet(sent), ~RustDone(x, c)', x \notin Rust!InHand'
        PROVE  \E j \in DOMAIN channel' : j < Len(channel) + 1 /\ channel'[j].kind = "event" /\
                  channel'[j].of = x
    <3>1. ~Rust!Everywhere(x)
      BY <1>12, <2>2 DEF RustDone
    <3>2. ~Rust!Failed(x)
      <4> SUFFICES ASSUME Rust!Failed(x) PROVE FALSE
        OBVIOUS
      <4>1. PICK f \in failed : f[1] = x
        BY DEF Rust!Failed
      <4>2. PICK o \in Callers \cup {"none"} : <<x, o>> \in failed
        <5>1. f \in Events \X (Callers \cup {"none"})
          BY <1>1 DEF RustTypes
        <5>2. f = <<f[1], f[2]>> /\ f[2] \in Callers \cup {"none"}
          BY <5>1
        <5> QED BY <4>1, <5>2
      <4>3. o # c
        BY <1>1, <1>2, <1>7, <4>2 DEF RustFailed
      <4> QED BY <1>2, <2>2, <4>2, <4>3 DEF RustDone
    <3>3. x \in Rust!InChannel
      BY <1>1, <1>3, <1>12, <2>2, <3>1, <3>2 DEF Rust!SentIsKept, Rust!Queued
    <3>4. PICK j \in DOMAIN channel : channel[j].kind = "event" /\ channel[j].of = x
      BY <3>3 DEF Rust!InChannel
    <3>5. j < Len(channel) + 1
      BY <1>6
    <3> QED BY <1>6, <3>4, <3>5
  <2>3. ASSUME NEW i \in DOMAIN channel', RustCommand(i, c)'
        PROVE  /\ cpc'[c] = "wait" /\ work'.reply # c
               /\ \A j \in DOMAIN channel' : RustCommand(j, c)' => j = i
               /\ \A x \in owed'[c] :
                     \/ RustDone(x, c)' \/ x \in Rust!InHand'
                     \/ \E j \in DOMAIN channel' : j < i /\ channel'[j].kind = "event" /\
                           channel'[j].of = x
    BY <1>2, <1>8, <1>17, <2>1, <2>2, <2>3
  <2>4. work'.reply # c
    BY <1>2, <1>17
  <2> QED BY <2>3, <2>4 DEF RustAskedAt
<1>19. ASSUME NEW d \in Callers, d # c PROVE RustAskedAt(d)'
  <2>1. RustAskedAt(d)
    BY <1>1, <1>3 DEF RustAsked
  <2>2. ASSUME NEW i \in DOMAIN channel', RustCommand(i, d)'
        PROVE  i \in DOMAIN channel /\ RustCommand(i, d)
    BY <1>5, <1>6, <1>19, <2>2 DEF RustCommand
  <2>3. ASSUME NEW i \in DOMAIN channel', RustCommand(i, d)'
        PROVE  /\ cpc'[d] = "wait" /\ work'.reply # d
               /\ \A j \in DOMAIN channel' : RustCommand(j, d)' => j = i
               /\ \A x \in owed'[d] :
                     \/ RustDone(x, d)' \/ x \in Rust!InHand'
                     \/ \E j \in DOMAIN channel' : j < i /\ channel'[j].kind = "event" /\
                           channel'[j].of = x
    <3>1. i \in DOMAIN channel /\ RustCommand(i, d)
      BY <2>2, <2>3
    <3>2. /\ cpc[d] = "wait" /\ work.reply # d
          /\ \A j \in DOMAIN channel : RustCommand(j, d) => j = i
      BY <2>1, <3>1 DEF RustAskedAt
    <3>3. ASSUME NEW x \in owed[d], ~RustDone(x, d)', x \notin Rust!InHand'
          PROVE  \E j \in DOMAIN channel' : j < i /\ channel'[j].kind = "event" /\
                    channel'[j].of = x
      <4>1. PICK j \in DOMAIN channel : j < i /\ channel[j].kind = "event" /\ channel[j].of = x
        BY <1>12, <1>13, <2>1, <3>1, <3>3 DEF RustAskedAt
      <4> QED BY <1>6, <4>1
    <3> QED BY <1>2, <1>8, <1>19, <2>2, <3>2, <3>3
  <2>4. work'.reply = d => cpc'[d] = "wait" /\ \A x \in owed'[d] : RustDone(x, d)' \/
           x \in Rust!ToSet(work'.events)
    BY <1>2, <1>8, <1>13, <1>19, <2>1 DEF RustAskedAt, Rust!ToSet
  <2>5. Rust!ToSet(work'.events) = Rust!ToSet(work.events)'
    BY DEF Rust!ToSet
  <2> QED BY <2>3, <2>4, <2>5 DEF RustAskedAt
<1>20. RustAsked'
    BY <1>18, <1>19 DEF RustAsked
<1> QED BY <1>9, <1>10, <1>11, <1>14, <1>15, <1>20 DEF RustInv

\* The worker is gone: a call fails.
LEMMA RustAskFails == ASSUME RustInv, NEW c \in Callers, Rust!AskFails(c) PROVE RustInv'
<1>1. RustTypes /\ RustWork /\ RustFailed /\ RustOnce /\ Rust!SentIsKept /\ Rust!FlushedIsWritten
    BY DEF RustInv
<1>2. /\ UNCHANGED <<world, state, tpc, checked, channel, receiver, batcher, work, got, failed, sent, abandoned,
                     raced, owed>>
      /\ receiver = FALSE /\ cpc' = [cpc EXCEPT ![c] = "error"]
    BY <1>1 DEF Rust!AskFails, RustTypes, Rust!runtime, Rust!sinks
<1>3. /\ cpc' \in [Callers -> {"new", "wait", "ok", "error"}] /\ cpc'[c] = "error"
      /\ \A d \in Callers : d # c => cpc'[d] = cpc[d]
    BY <1>1, <1>2 DEF RustTypes
<1>4. RustTypes'
    BY <1>1, <1>2, <1>3 DEF RustTypes
<1>5. RustWork' /\ RustOnce'
    BY <1>1, <1>2, RustCalm, RustIdles
<1>6. RustFailed' /\ RustAsked'
    BY <1>1, <1>2, <1>3 DEF RustFailed, RustAsked
<1>7. Rust!SentIsKept'
    BY <1>1, <1>2 DEF Rust!SentIsKept, Rust!Everywhere, Rust!InHand, Rust!Queued,
       Rust!InChannel, Rust!Failed, Rust!ToSet
<1>8. Rust!FlushedIsWritten'
  <2> SUFFICES ASSUME NEW d \in Callers, cpc'[d] = "ok", NEW x \in owed[d] PROVE RustDone(x, d)'
    BY <1>2 DEF Rust!FlushedIsWritten, RustDone
  <2>1. RustDone(x, d)
    BY <1>1, <1>3 DEF Rust!FlushedIsWritten, RustDone
  <2> QED BY <1>2, <2>1 DEF RustDone, Rust!Everywhere, Rust!ToSet
<1> QED BY <1>4, <1>5, <1>6, <1>7, <1>8 DEF RustInv

\* The head of the channel.
LEMMA RustTake ==
    ASSUME channel \in Seq(RustCommands), channel # <<>>, channel' = Tail(channel)
    PROVE  /\ channel' \in Seq(RustCommands) /\ Head(channel) = channel[1] /\ 1 \in DOMAIN channel
           /\ Head(channel) \in RustCommands /\ DOMAIN channel \subseteq Nat
           /\ \A i \in DOMAIN channel' : i + 1 \in DOMAIN channel /\ channel'[i] = channel[i + 1]
           /\ \A i \in DOMAIN channel : i = 1 \/
                 (i - 1 \in DOMAIN channel' /\ channel'[i - 1] = channel[i])
<1>1. /\ Len(channel) \in Nat \ {0} /\ DOMAIN channel = 1 .. Len(channel)
      /\ DOMAIN channel' = 1 .. Len(channel) - 1 /\ channel' \in Seq(RustCommands)
      /\ \A i \in 1 .. Len(channel) - 1 : channel'[i] = channel[i + 1]
      /\ Head(channel) = channel[1] /\ Head(channel) \in RustCommands
    OBVIOUS
<1>2. /\ \A i \in 1 .. Len(channel) - 1 : i + 1 \in 1 .. Len(channel)
      /\ \A i \in 1 .. Len(channel) : i = 1 \/ (i - 1 \in 1 .. Len(channel) - 1 /\ (i - 1) + 1 = i)
      /\ 1 \in 1 .. Len(channel)
    BY <1>1
<1>3. ASSUME NEW i \in DOMAIN channel, i # 1
      PROVE  i - 1 \in DOMAIN channel' /\ channel'[i - 1] = channel[i]
  <2>1. i - 1 \in 1 .. Len(channel) - 1 /\ (i - 1) + 1 = i
    BY <1>1, <1>2, <1>3
  <2>2. channel'[i - 1] = channel[(i - 1) + 1]
    BY <1>1, <2>1
  <2> QED BY <1>1, <2>1, <2>2
<1> QED BY <1>1, <1>2, <1>3

\* What the worker holds when it has received.
LEMMA RustHolds ==
    ASSUME RustConstants, RustTypes, work = Rust!Idle, channel # <<>>, Rust!Recv
    PROVE  /\ batcher' \in Seq(Events)
           /\ work' \in [events : Seq(Events), sink : Nat, attempt : Nat, reply : Callers \cup
                 {"none", "idle"}]
           /\ work'.reply = "idle" => work'.events = <<>>
           /\ work'.reply # "idle" => work'.sink = 1
           /\ Rust!InHand \subseteq Rust!InHand'
           /\ Head(channel).kind = "event" =>
                 work'.reply \in {"none", "idle"} /\ Head(channel).of \in Events /\
                    Head(channel).of \in Rust!InHand'
           /\ Head(channel).kind # "event" =>
                 /\ Head(channel).of \in Callers /\ work'.reply = Head(channel).of
                 /\ Rust!InHand \subseteq Rust!ToSet(work'.events)
<1>1. batcher \in Seq(Events) /\ Head(channel) \in RustCommands /\ work.events = <<>>
    BY DEF RustTypes, Rust!Idle
<1>2. /\ <<>> \in Seq(Events) /\ Rust!ToSet(<<>>) = {}
      /\ \A e \in Events : <<e>> \in Seq(Events) /\ Rust!ToSet(<<e>>) = {e}
    BY RustSmall
<1>3. Rust!InHand = Rust!ToSet(batcher)
    BY <1>1, <1>2 DEF Rust!InHand
<1>4. Rust!InHand' = Rust!ToSet(batcher') \cup Rust!ToSet(work'.events)
    BY DEF Rust!InHand, Rust!ToSet
<1>5. CASE Head(channel).kind = "event"
  <2>1. PICK e \in Events : e = Head(channel).of
    BY <1>1, <1>5 DEF RustCommands
  <2>2. Rust!Push(e)
    BY <1>5, <2>1 DEF Rust!Recv
  <2>3. CASE Len(batcher) >= BatchSize
    <3>1. /\ work' = [events |-> batcher, sink |-> 1, attempt |-> 1, reply |-> "none"]
          /\ batcher' = <<e>>
      BY <2>2, <2>3 DEF Rust!Push, Rust!Begin
    <3>2. work'.events = batcher /\ work'.sink = 1 /\ work'.reply = "none"
      BY <3>1
    <3>3. work' \in [events : Seq(Events), sink : Nat, attempt : Nat, reply : Callers \cup
             {"none", "idle"}]
      BY <1>1, <3>1
    <3> QED BY <1>2, <1>3, <1>4, <1>5, <2>1, <3>1, <3>2, <3>3
  <2>4. CASE ~(Len(batcher) >= BatchSize)
    <3>1. batcher' = Append(batcher, e) /\ work' = work
      BY <2>2, <2>4 DEF Rust!Push
    <3>2. Append(batcher, e) \in Seq(Events) /\
             Rust!ToSet(Append(batcher, e)) = Rust!ToSet(batcher) \cup {e}
      BY <1>1, RustSeqs
    <3>3. work'.events = <<>> /\ work'.reply = "idle"
      BY <3>1 DEF Rust!Idle
    <3>4. work' \in [events : Seq(Events), sink : Nat, attempt : Nat, reply : Callers \cup
             {"none", "idle"}]
      BY <3>1 DEF RustTypes
    <3> QED BY <1>3, <1>4, <1>5, <2>1, <3>1, <3>2, <3>3, <3>4
  <2> QED BY <2>3, <2>4
<1>6. CASE Head(channel).kind # "event"
  <2>1. PICK c \in Callers : c = Head(channel).of
    BY <1>1, <1>6 DEF RustCommands
  <2>2. /\ work' = [events |-> batcher, sink |-> 1, attempt |-> 1, reply |-> c] /\ batcher' = <<>>
    BY <1>6, <2>1 DEF Rust!Recv, Rust!Begin
  <2>3. work'.events = batcher /\ work'.sink = 1 /\ work'.reply = c /\ c # "idle"
    BY <2>2 DEF RustConstants
  <2>4. work' \in [events : Seq(Events), sink : Nat, attempt : Nat, reply : Callers \cup
           {"none", "idle"}]
    BY <1>1, <2>2
  <2> QED BY <1>2, <1>3, <1>4, <1>6, <2>1, <2>2, <2>3, <2>4
<1> QED BY <1>5, <1>6

\* The worker receives.
LEMMA RustRecv == ASSUME RustConstants, RustInv, Rust!Recv PROVE RustInv'
<1>1. RustTypes /\ RustWork /\ RustFailed /\ RustAsked /\ RustOnce /\ Rust!SentIsKept /\
         Rust!FlushedIsWritten
    BY DEF RustInv
<1>2. /\ UNCHANGED <<world, state, tpc, checked, receiver, cpc, got, failed, sent, abandoned, raced, owed>>
      /\ work = Rust!Idle /\ channel # <<>> /\ channel' = Tail(channel)
    BY DEF Rust!Recv, Rust!sinks
<1>3. receiver = TRUE /\ work.reply = "idle"
    BY <1>1, <1>2 DEF Rust!Recv, RustTypes, Rust!Idle
<1>4. channel \in Seq(RustCommands)
    BY <1>1 DEF RustTypes
<1>5. PICK h \in RustCommands : h = Head(channel)
    BY <1>2, <1>4, RustTake
<1>6. /\ channel' \in Seq(RustCommands) /\ h = channel[1] /\ 1 \in DOMAIN channel
      /\ DOMAIN channel \subseteq Nat
      /\ \A i \in DOMAIN channel' : i + 1 \in DOMAIN channel /\ channel'[i] = channel[i + 1]
      /\ \A i \in DOMAIN channel : i = 1 \/
            (i - 1 \in DOMAIN channel' /\ channel'[i - 1] = channel[i])
    BY <1>2, <1>4, <1>5, RustTake
<1>7. /\ batcher' \in Seq(Events)
      /\ work' \in [events : Seq(Events), sink : Nat, attempt : Nat, reply : Callers \cup
            {"none", "idle"}]
      /\ work'.reply = "idle" => work'.events = <<>>
      /\ work'.reply # "idle" => work'.sink = 1
      /\ Rust!InHand \subseteq Rust!InHand'
      /\ h.kind = "event" =>
            work'.reply \in {"none", "idle"} /\ h.of \in Events /\ h.of \in Rust!InHand'
      /\ h.kind # "event" =>
            h.of \in Callers /\ work'.reply = h.of /\ Rust!InHand \subseteq Rust!ToSet(work'.events)
    BY <1>1, <1>2, <1>5, RustHolds
<1>8. RustTypes'
    BY <1>1, <1>2, <1>6, <1>7 DEF RustTypes
<1>9. RustWork'
  <2>1. \A s \in DOMAIN Sinks : ~(s < 1)
    BY DEF RustConstants
  <2> QED BY <1>2, <1>3, <1>7, <2>1 DEF RustWork
<1>10. RustFailed' /\ Rust!FlushedIsWritten' /\ RustOnce'
  <2>1. RustFailed' /\ RustOnce'
    BY <1>1, <1>2, RustCalm DEF RustFailed
  <2>2. Rust!FlushedIsWritten'
    BY <1>1, <1>2, RustTold
  <2> QED BY <2>1, <2>2
<1>11. (\A x : Rust!Everywhere(x)' <=> Rust!Everywhere(x)) /\ (\A x : Rust!Failed(x)' <=>
           Rust!Failed(x))
    BY <1>2 DEF Rust!Everywhere, Rust!Failed, Rust!ToSet
<1>12. \A x, d : RustDone(x, d) => RustDone(x, d)'
    BY <1>2, <1>11 DEF RustDone
<1>13. Rust!SentIsKept'
  <2> SUFFICES ASSUME NEW x \in Rust!ToSet(sent)
               PROVE  x \in Rust!Queued' \cup Rust!InHand' \/ Rust!Failed(x)' \/ Rust!Everywhere(x)'
    BY <1>2 DEF Rust!SentIsKept, Rust!ToSet
  <2>1. Rust!Queued = Rust!InChannel /\ Rust!Queued' = Rust!InChannel'
    BY <1>2, <1>3 DEF Rust!Queued
  <2>2. x \in Rust!Queued \cup Rust!InHand \/ Rust!Failed(x) \/ Rust!Everywhere(x)
    BY <1>1 DEF Rust!SentIsKept
  <2>3. ASSUME x \in Rust!InChannel PROVE x \in Rust!InChannel' \cup Rust!InHand'
    <3>1. PICK j \in DOMAIN channel : channel[j].kind = "event" /\ channel[j].of = x
      BY <2>3 DEF Rust!InChannel
    <3>2. CASE j = 1
      BY <1>6, <1>7, <3>1, <3>2
    <3>3. CASE j # 1
      <4>1. j - 1 \in DOMAIN channel' /\ channel'[j - 1] = channel[j]
        BY <1>6, <3>3
      <4> QED BY <3>1, <4>1 DEF Rust!InChannel
    <3> QED BY <3>2, <3>3
  <2> QED BY <1>7, <1>11, <2>1, <2>2, <2>3
<1>14. RustAsked'
  <2> SUFFICES ASSUME NEW c \in Callers PROVE RustAskedAt(c)'
    BY DEF RustAsked
  <2>1. RustAskedAt(c)
    BY <1>1, <1>3 DEF RustAsked
  <2>2. ASSUME NEW i \in DOMAIN channel', RustCommand(i, c)'
        PROVE  /\ cpc'[c] = "wait" /\ work'.reply # c
               /\ \A j \in DOMAIN channel' : RustCommand(j, c)' => j = i
               /\ \A x \in owed'[c] :
                     \/ RustDone(x, c)' \/ x \in Rust!InHand'
                     \/ \E j \in DOMAIN channel' : j < i /\ channel'[j].kind = "event" /\
                           channel'[j].of = x
    <3>1. i + 1 \in DOMAIN channel /\ RustCommand(i + 1, c)
      BY <1>6, <2>2 DEF RustCommand
    <3>2. /\ cpc[c] = "wait"
          /\ \A j \in DOMAIN channel : RustCommand(j, c) => j = i + 1
      BY <2>1, <3>1 DEF RustAskedAt
    <3>3. i \in Nat \ {0}
      <4>1. DOMAIN channel' = 1 .. Len(channel') /\ Len(channel') \in Nat
        BY <1>6
      <4> QED BY <2>2, <4>1
    <3>4. ~RustCommand(1, c)
      BY <1>6, <3>2, <3>3
    <3>5. work'.reply # c
      BY <1>6, <1>7, <3>4 DEF RustCommand, RustConstants
    <3>6. ASSUME NEW j \in DOMAIN channel', RustCommand(j, c)' PROVE j = i
      <4>1. j + 1 \in DOMAIN channel /\ RustCommand(j + 1, c)
        BY <1>6, <3>6 DEF RustCommand
      <4>2. j \in Nat
        <5>1. DOMAIN channel' = 1 .. Len(channel') /\ Len(channel') \in Nat
          BY <1>6
        <5> QED BY <5>1
      <4> QED BY <3>2, <3>3, <4>1, <4>2
    <3>7. ASSUME NEW x \in owed[c], ~RustDone(x, c)', x \notin Rust!InHand'
          PROVE  \E j \in DOMAIN channel' : j < i /\ channel'[j].kind = "event" /\
                    channel'[j].of = x
      <4>1. ~RustDone(x, c) /\ x \notin Rust!InHand
        BY <1>7, <1>12, <3>7
      <4>2. PICK j \in DOMAIN channel : j < i + 1 /\ channel[j].kind = "event" /\ channel[j].of = x
        BY <2>1, <3>1, <4>1 DEF RustAskedAt
      <4>3. j # 1
        BY <1>6, <1>7, <3>7, <4>2
      <4>4. j - 1 \in DOMAIN channel' /\ channel'[j - 1] = channel[j]
        BY <1>6, <4>3
      <4>5. j \in Nat
        BY <1>6
      <4>6. j - 1 < i
        BY <3>3, <4>2, <4>5
      <4> QED BY <4>2, <4>4, <4>6
    <3> QED BY <1>2, <3>2, <3>5, <3>6, <3>7
  <2>3. ASSUME work'.reply = c
        PROVE  cpc'[c] = "wait" /\ \A x \in owed'[c] : RustDone(x, c)' \/
                  x \in Rust!ToSet(work'.events)
    <3>1. h.kind # "event" /\ h.of = c
      BY <1>7, <2>3 DEF RustConstants
    <3>2. RustCommand(1, c)
      BY <1>6, <3>1 DEF RustCommand
    <3>3. /\ cpc[c] = "wait"
          /\ \A x \in owed[c] :
                \/ RustDone(x, c) \/ x \in Rust!InHand
                \/ \E j \in DOMAIN channel : j < 1 /\ channel[j].kind = "event" /\ channel[j].of = x
      BY <1>6, <2>1, <3>2 DEF RustAskedAt
    <3>4. \A j \in DOMAIN channel : ~(j < 1)
      <4>1. DOMAIN channel = 1 .. Len(channel) /\ Len(channel) \in Nat
        BY <1>4
      <4> QED BY <4>1
    <3>5. Rust!InHand \subseteq Rust!ToSet(work'.events)
      BY <1>7, <3>1
    <3> QED BY <1>2, <1>12, <3>3, <3>4, <3>5
  <2>4. Rust!ToSet(work'.events) = Rust!ToSet(work.events)'
    BY DEF Rust!ToSet
  <2> QED BY <2>2, <2>3, <2>4 DEF RustAskedAt
<1> QED BY <1>8, <1>9, <1>10, <1>13, <1>14 DEF RustInv

\* The conditions on the commands, when the sinks have more and the worker has what it had.
LEMMA RustAskedMore ==
    ASSUME RustAsked, UNCHANGED <<channel, receiver, cpc, owed>>,
           Rust!InHand' = Rust!InHand, work'.events = work.events, work'.reply = work.reply,
           owed \in [Callers -> SUBSET Events],
           \A e \in Events, c \in Callers : RustDone(e, c) => RustDone(e, c)'
    PROVE  RustAsked'
<1> SUFFICES ASSUME receiver = TRUE, NEW c \in Callers PROVE RustAskedAt(c)'
    BY DEF RustAsked
<1>1. RustAskedAt(c)
    BY DEF RustAsked
<1>2. owed[c] \subseteq Events /\ owed' = owed /\ channel' = channel /\ cpc' = cpc
    OBVIOUS
<1>3. \A x \in owed[c] : RustDone(x, c) => RustDone(x, c)'
    BY <1>2
<1>4. Rust!ToSet(work.events)' = Rust!ToSet(work.events)
    BY DEF Rust!ToSet
<1>5. \A i : RustCommand(i, c)' <=> RustCommand(i, c)
    BY <1>2 DEF RustCommand
<1> QED BY <1>1, <1>2, <1>3, <1>4, <1>5 DEF RustAskedAt

\* The worker writes to a sink, which may keep a part only.
LEMMA RustWrites ==
    ASSUME RustConstants, RustInv, Rust!Written \/ \E n \in 0 .. Len(work.events) : Rust!Retry(n)
    PROVE  RustInv'
<1>1. RustTypes /\ RustWork /\ RustFailed /\ RustAsked /\ RustOnce /\ Rust!SentIsKept /\
         Rust!FlushedIsWritten
    BY DEF RustInv
<1>2. /\ UNCHANGED <<world, state, tpc, checked, channel, receiver, batcher, cpc, failed, sent, abandoned, raced, owed>>
      /\ Rust!Writing
    BY DEF Rust!Written, Rust!Retry
<1>3. /\ work \in [events : Seq(Events), sink : Nat, attempt : Nat, reply : Callers \cup
            {"none", "idle"}]
      /\ work.events \in Seq(Events) /\ work.sink \in Nat /\ work.attempt \in Nat
    BY <1>1 DEF RustTypes
<1>4. PICK x \in Seq(Events) :
         /\ got' = [got EXCEPT ![work.sink] = @ \o x]
         /\ \/ x = work.events /\ work' = [work EXCEPT !.sink = @ + 1, !.attempt = 1]
            \/ work' = [work EXCEPT !.attempt = @ + 1]
  <2>1. CASE Rust!Written
    BY <1>3, <2>1 DEF Rust!Written
  <2>2. CASE \E n \in 0 .. Len(work.events) : Rust!Retry(n)
    <3>1. PICK n \in 0 .. Len(work.events) : Rust!Retry(n)
      BY <2>2
    <3>2. SubSeq(work.events, 1, n) \in Seq(Events)
      BY <1>3
    <3> QED BY <3>1, <3>2 DEF Rust!Retry, Rust!Partly
  <2> QED BY <2>1, <2>2
<1>5. /\ work.sink \in DOMAIN Sinks /\ got' \in [DOMAIN Sinks -> Seq(Events)]
      /\ \A s \in DOMAIN Sinks : Rust!ToSet(got[s]) \subseteq Rust!ToSet(got'[s])
      /\ Rust!ToSet(x) \subseteq Rust!ToSet(got'[work.sink])
      /\ \A e \in Events : Rust!Everywhere(e) => Rust!Everywhere(e)'
    BY <1>1, <1>2, <1>4, RustGot
<1>6. /\ work' \in [events : Seq(Events), sink : Nat, attempt : Nat, reply : Callers \cup
            {"none", "idle"}]
      /\ work'.events = work.events /\ work'.reply = work.reply
      /\ work'.sink = work.sink \/ (x = work.events /\ work'.sink = work.sink + 1)
  <2>1. CASE x = work.events /\ work' = [work EXCEPT !.sink = @ + 1, !.attempt = 1]
    <3>1. work' = [events |-> work.events, sink |-> work.sink + 1, attempt |-> 1, reply |-> work.reply]
      BY <1>3, <2>1
    <3>2. work.reply \in Callers \cup {"none", "idle"}
      BY <1>3
    <3> QED BY <1>3, <2>1, <3>1, <3>2
  <2>2. CASE work' = [work EXCEPT !.attempt = @ + 1]
    BY <1>3, <2>2
  <2> QED BY <1>4, <2>1, <2>2
<1>7. RustTypes'
    BY <1>1, <1>2, <1>5, <1>6 DEF RustTypes
<1>8. RustFailed' /\ RustOnce'
    BY <1>1, <1>2, RustCalm DEF RustFailed
<1>9. RustWork'
  <2>1. /\ work.reply # "idle" /\ receiver = TRUE /\ work.sink # 0
        /\ \A s \in DOMAIN Sinks : s < work.sink =>
               Rust!ToSet(work.events) \subseteq Rust!ToSet(got[s])
    BY <1>1, <1>2 DEF RustWork, Rust!Writing
  <2>2. ASSUME NEW s \in DOMAIN Sinks, s < work'.sink
        PROVE  Rust!ToSet(work.events) \subseteq Rust!ToSet(got'[s])
    <3>1. s \in Nat
      BY DEF RustConstants
    <3>2. CASE s < work.sink
      BY <1>5, <2>1, <3>2
    <3>3. CASE ~(s < work.sink)
      <4>1. s = work.sink /\ x = work.events
        BY <1>3, <1>6, <2>2, <3>1, <3>3
      <4> QED BY <1>5, <4>1
    <3> QED BY <3>2, <3>3
  <2>3. work'.sink # 0 /\ receiver' = TRUE
    BY <1>2, <1>3, <1>6, <2>1
  <2> QED BY <1>6, <2>1, <2>2, <2>3 DEF RustWork, Rust!ToSet
<1>10. Rust!InHand' = Rust!InHand
    BY <1>2, <1>6 DEF Rust!InHand, Rust!ToSet
<1>11. /\ \A e \in Events, c \in Callers : RustDone(e, c) => RustDone(e, c)'
       /\ \A e \in Events : Rust!Failed(e) => Rust!Failed(e)'
    BY <1>2, <1>5, RustMore
<1>12. owed \in [Callers -> SUBSET Events] /\ Rust!ToSet(sent) \subseteq Events
    BY <1>1, RustSeqs DEF RustTypes
<1>13. RustAsked'
    BY <1>1, <1>2, <1>6, <1>10, <1>11, <1>12, RustAskedMore
<1>14. Rust!SentIsKept'
  <2> SUFFICES ASSUME NEW e \in Rust!ToSet(sent)
               PROVE  e \in Rust!Queued' \cup Rust!InHand' \/ Rust!Failed(e)' \/ Rust!Everywhere(e)'
    BY <1>2 DEF Rust!SentIsKept, Rust!ToSet
  <2>1. Rust!Queued' = Rust!Queued
    BY <1>2 DEF Rust!Queued, Rust!InChannel
  <2>2. e \in Rust!Queued \cup Rust!InHand \/ Rust!Failed(e) \/ Rust!Everywhere(e)
    BY <1>1 DEF Rust!SentIsKept
  <2> QED BY <1>5, <1>10, <1>11, <1>12, <2>1, <2>2
<1>15. Rust!FlushedIsWritten'
  <2> SUFFICES ASSUME NEW c \in Callers, cpc[c] = "ok", NEW e \in owed[c] PROVE RustDone(e, c)'
    BY <1>2 DEF Rust!FlushedIsWritten, RustDone
  <2>1. RustDone(e, c) /\ e \in Events
    BY <1>1, <1>12 DEF Rust!FlushedIsWritten, RustDone
  <2> QED BY <1>11, <2>1
<1> QED BY <1>7, <1>8, <1>9, <1>13, <1>14, <1>15 DEF RustInv

\* A batch is done: in every sink, or counted as failed for the caller that waits.
LEMMA RustEnd ==
    ASSUME RustConstants, RustInv,
           Rust!BatchDone \/ \E n \in 0 .. Len(work.events) : Rust!WriteFails(n)
    PROVE  RustInv'
<1>1. RustTypes /\ RustWork /\ RustFailed /\ RustAsked /\ RustOnce /\ Rust!SentIsKept /\
         Rust!FlushedIsWritten
    BY DEF RustInv
<1>2. /\ UNCHANGED <<world, state, tpc, checked, channel, batcher, sent, raced, owed>>
      /\ work.reply # "idle" /\ Rust!Leave
    BY DEF Rust!BatchDone, Rust!WriteFails, Rust!sinks, Rust!Writing
<1>3. /\ work.events \in Seq(Events) /\ work.sink \in Nat /\ work.reply \in Callers \cup {"none"}
      /\ channel \in Seq(RustCommands) /\ sent \in Seq(Events)
      /\ owed \in [Callers -> SUBSET Events]
      /\ cpc \in [Callers -> {"new", "wait", "ok", "error"}]
      /\ got \in [DOMAIN Sinks -> Seq(Events)]
      /\ failed \subseteq Events \X (Callers \cup {"none"})
    BY <1>1, <1>2 DEF RustTypes
<1>4. Rust!ToSet(work.events) \subseteq Events /\ Rust!ToSet(sent) \subseteq Events
    BY <1>3, RustSeqs
<1>5. receiver = TRUE
    BY <1>1, <1>2 DEF RustWork
<1>6. PICK answer \in {"ok", "error"} :
         /\ Rust!Reply(answer) /\ got' \in [DOMAIN Sinks -> Seq(Events)]
         /\ \A e \in Events : Rust!Everywhere(e) => Rust!Everywhere(e)'
         /\ answer = "ok" => failed' = failed /\
               \A e \in Rust!ToSet(work.events) : Rust!Everywhere(e)'
         /\ answer = "error" => failed' = failed \cup (Rust!ToSet(work.events) \X {work.reply})
  <2>1. CASE Rust!BatchDone
    <3>1. Rust!Reply("ok") /\ UNCHANGED <<got, failed>> /\ ~Rust!Writing
      BY <2>1 DEF Rust!BatchDone, Rust!sinks
    <3>2. \A e \in Events : Rust!Everywhere(e) => Rust!Everywhere(e)'
      BY <3>1 DEF Rust!Everywhere, Rust!ToSet
    <3>3. ASSUME NEW e \in Rust!ToSet(work.events) PROVE Rust!Everywhere(e)
      <4> SUFFICES ASSUME NEW s \in DOMAIN Sinks PROVE e \in Rust!ToSet(got[s])
        BY DEF Rust!Everywhere
      <4>1. work.events # <<>>
        BY <3>3, RustSmall
      <4>2. ~(work.sink <= Len(Sinks))
        BY <1>2, <3>1, <4>1 DEF Rust!Writing
      <4>3. s < work.sink
        BY <1>3, <4>2 DEF RustConstants
      <4> QED BY <1>1, <1>2, <4>3 DEF RustWork
    <3> QED BY <1>3, <1>4, <3>1, <3>2, <3>3
  <2>2. CASE \E n \in 0 .. Len(work.events) : Rust!WriteFails(n)
    <3>1. PICK n \in 0 .. Len(work.events) : Rust!WriteFails(n)
      BY <2>2
    <3>2. PICK x \in Seq(Events) : x = SubSeq(work.events, 1, n)
      <4>1. SubSeq(work.events, 1, n) \in Seq(Events)
        BY <1>3
      <4> QED BY <4>1
    <3>3. got' = [got EXCEPT ![work.sink] = @ \o x] /\ Rust!Writing
      BY <3>1, <3>2 DEF Rust!WriteFails, Rust!Partly
    <3>4. got' \in [DOMAIN Sinks -> Seq(Events)] /\ \A e \in Events : Rust!Everywhere(e) =>
              Rust!Everywhere(e)'
      BY <1>1, <3>3, RustGot
    <3> QED BY <3>1, <3>4 DEF Rust!WriteFails
  <2> QED BY <2>1, <2>2
<1>7. work' = Rust!Idle /\ work'.events = <<>> /\ work'.reply = "idle"
    BY <1>2 DEF Rust!Leave, Rust!Idle
<1>8. /\ receiver' \in BOOLEAN
      /\ receiver' = FALSE => abandoned' = Rust!InChannel
    BY <1>2, <1>5 DEF Rust!Leave
<1>9. failed \subseteq failed' /\ failed' \subseteq Events \X (Callers \cup {"none"})
    BY <1>3, <1>4, <1>6
<1>10. /\ cpc' \in [Callers -> {"new", "wait", "ok", "error"}]
       /\ \A c \in Callers : c # work.reply => cpc'[c] = cpc[c]
       /\ \A c \in Callers : c = work.reply => cpc'[c] = answer
    BY <1>3, <1>6 DEF Rust!Reply
<1>11. RustTypes'
  <2>1. work' \in [events : Seq(Events), sink : Nat, attempt : Nat, reply : Callers \cup
           {"none", "idle"}]
    BY <1>7, RustSmall DEF Rust!Idle
  <2> QED BY <1>1, <1>2, <1>6, <1>8, <1>9, <1>10, <2>1 DEF RustTypes
<1>12. RustWork' /\ RustOnce'
    BY <1>1, <1>2, <1>7, RustCalm DEF RustWork
<1>13. ASSUME NEW c \in Callers, c = work.reply
       PROVE  cpc[c] = "wait" /\ \A e \in owed[c] : RustDone(e, c) \/ e \in Rust!ToSet(work.events)
    BY <1>1, <1>5, <1>13 DEF RustAsked, RustAskedAt
<1>14. /\ \A e \in Events, c \in Callers : RustDone(e, c) => RustDone(e, c)'
       /\ \A e \in Events : Rust!Failed(e) => Rust!Failed(e)'
    BY <1>6, <1>9, RustMore
<1>15. RustFailed'
  <2> SUFFICES ASSUME NEW e \in Events, NEW c \in Callers, <<e, c>> \in failed'
               PROVE  cpc'[c] = "error"
    BY DEF RustFailed
  <2>1. CASE <<e, c>> \in failed
    <3>1. cpc[c] = "error"
      BY <1>1, <2>1 DEF RustFailed
    <3>2. c # work.reply
      BY <1>13, <3>1
    <3> QED BY <1>10, <3>1, <3>2
  <2>2. CASE <<e, c>> \notin failed
    <3>1. answer = "error" /\ c = work.reply
      BY <1>6, <2>2
    <3> QED BY <1>10, <3>1
  <2> QED BY <2>1, <2>2
<1>16. ASSUME NEW e \in Rust!ToSet(work.events), NEW c \in Callers, c # work.reply \/ answer = "ok"
       PROVE  RustDone(e, c)'
  <2>1. CASE answer = "ok"
    BY <1>6, <2>1 DEF RustDone
  <2>2. CASE answer = "error"
    <3>1. <<e, work.reply>> \in failed' /\ c # work.reply
      BY <1>6, <1>16, <2>2
    <3> QED BY <1>3, <3>1 DEF RustDone
  <2> QED BY <2>1, <2>2
<1>17. Rust!FlushedIsWritten'
  <2> SUFFICES ASSUME NEW c \in Callers, cpc'[c] = "ok", NEW e \in owed[c] PROVE RustDone(e, c)'
    BY <1>2 DEF Rust!FlushedIsWritten, RustDone
  <2>1. e \in Events
    BY <1>3
  <2>2. CASE c = work.reply
    <3>1. answer = "ok"
      BY <1>10, <2>2
    <3>2. RustDone(e, c) \/ e \in Rust!ToSet(work.events)
      BY <1>13, <2>2
    <3> QED BY <1>14, <1>16, <2>1, <3>1, <3>2
  <2>3. CASE c # work.reply
    <3>1. RustDone(e, c)
      BY <1>1, <1>10, <2>3 DEF Rust!FlushedIsWritten, RustDone
    <3> QED BY <1>14, <2>1, <3>1
  <2> QED BY <2>2, <2>3
<1>18. Rust!InHand \subseteq Rust!InHand' \cup Rust!ToSet(work.events)
    BY <1>2 DEF Rust!InHand, Rust!ToSet
<1>19. Rust!SentIsKept'
  <2> SUFFICES ASSUME NEW e \in Rust!ToSet(sent)
               PROVE  e \in Rust!Queued' \cup Rust!InHand' \/ Rust!Failed(e)' \/ Rust!Everywhere(e)'
    BY <1>2 DEF Rust!SentIsKept, Rust!ToSet
  <2>1. Rust!InChannel' = Rust!InChannel
    BY <1>2 DEF Rust!InChannel
  <2>2. Rust!Queued = Rust!InChannel /\ Rust!Queued' = Rust!InChannel
    BY <1>5, <1>8, <2>1 DEF Rust!Queued
  <2>3. e \in Rust!Queued \cup Rust!InHand \/ Rust!Failed(e) \/ Rust!Everywhere(e)
    BY <1>1 DEF Rust!SentIsKept
  <2>4. ASSUME e \in Rust!ToSet(work.events) PROVE Rust!Failed(e)' \/ Rust!Everywhere(e)'
    <3>1. CASE answer = "ok"
      BY <1>6, <2>4, <3>1
    <3>2. CASE answer = "error"
      <4>1. <<e, work.reply>> \in failed' /\ <<e, work.reply>>[1] = e
        BY <1>6, <2>4, <3>2
      <4> QED BY <4>1 DEF Rust!Failed
    <3> QED BY <3>1, <3>2
  <2> QED BY <1>4, <1>6, <1>14, <1>18, <2>2, <2>3, <2>4
<1>20. RustAsked'
  <2> SUFFICES ASSUME NEW c \in Callers PROVE RustAskedAt(c)'
    BY DEF RustAsked
  <2>1. RustAskedAt(c)
    BY <1>1, <1>5 DEF RustAsked
  <2>2. work'.reply # c
    BY <1>7 DEF RustConstants
  <2>3. ASSUME NEW i \in DOMAIN channel', RustCommand(i, c)'
        PROVE  /\ cpc'[c] = "wait" /\ work'.reply # c
               /\ \A j \in DOMAIN channel' : RustCommand(j, c)' => j = i
               /\ \A x \in owed'[c] :
                     \/ RustDone(x, c)' \/ x \in Rust!InHand'
                     \/ \E j \in DOMAIN channel' : j < i /\ channel'[j].kind = "event" /\
                           channel'[j].of = x
    <3>1. i \in DOMAIN channel /\ RustCommand(i, c)
      BY <1>2, <2>3 DEF RustCommand
    <3>2. /\ cpc[c] = "wait" /\ work.reply # c
          /\ \A j \in DOMAIN channel : RustCommand(j, c) => j = i
      BY <2>1, <3>1 DEF RustAskedAt
    <3>3. ASSUME NEW x \in owed[c], ~RustDone(x, c)', x \notin Rust!InHand'
          PROVE  \E j \in DOMAIN channel : j < i /\ channel[j].kind = "event" /\ channel[j].of = x
      <4>1. x \in Events
        BY <1>3
      <4>2. ~RustDone(x, c)
        BY <1>14, <3>3, <4>1
      <4>3. x \notin Rust!InHand
        BY <1>16, <1>18, <3>2, <3>3
      <4> QED BY <2>1, <3>1, <4>2, <4>3 DEF RustAskedAt
    <3>4. cpc'[c] = "wait"
      BY <1>10, <3>2
    <3>5. \A j \in DOMAIN channel' : RustCommand(j, c)' => j = i
      BY <1>2, <3>2 DEF RustCommand
    <3> QED BY <1>2, <2>2, <3>3, <3>4, <3>5
  <2> QED BY <2>2, <2>3 DEF RustAskedAt
<1> QED BY <1>11, <1>12, <1>15, <1>17, <1>19, <1>20 DEF RustInv

\* The invariant is inductive.
LEMMA RustNext == ASSUME RustConstants, RustInv, [Rust!Next]_Rust!vars PROVE RustInv'
<1>1. CASE UNCHANGED Rust!vars
  <2>1. UNCHANGED <<world, state, tpc, checked, channel, receiver, batcher, work, cpc, got, failed, sent, abandoned,
                    raced, owed>>
    BY <1>1 DEF Rust!vars, Rust!runtime, Rust!sinks
  <2>2. RustTypes' /\ RustOnce'
    BY <2>1, RustCalm DEF RustInv, RustTypes
  <2>3. RustWork' /\ RustFailed' /\ RustAsked' /\ Rust!SentIsKept' /\ Rust!FlushedIsWritten'
    BY <2>1, RustQuiet
  <2> QED BY <2>2, <2>3 DEF RustInv
<1>2. ASSUME NEW t \in Threads,
             Rust!Check(t) \/ Rust!Mark(t) \/ Rust!BeginEmit(t) \/ Rust!Oversize(t) \/
                Rust!Enqueue(t) \/ Rust!EnqueueFails(t) \/ Rust!Accepted(t)
      PROVE  RustInv'
    BY <1>2, RustThread, RustEnqueue
<1>3. ASSUME NEW c \in Callers, Rust!Ask(c) \/ Rust!AskFails(c) PROVE RustInv'
    BY <1>3, RustAsk, RustAskFails
<1>4. CASE Rust!Recv \/ Rust!Written \/ Rust!BatchDone
    BY <1>4, RustRecv, RustWrites, RustEnd
<1>5. ASSUME NEW n \in 0 .. Len(work.events), Rust!Retry(n) \/ Rust!WriteFails(n) PROVE RustInv'
    BY <1>5, RustWrites, RustEnd
<1> QED BY <1>1, <1>2, <1>3, <1>4, <1>5 DEF Rust!Next

\* However many threads emit and finish clones, and whatever writes fail, what the channel took is
\* in it, with the worker, in every sink or in a batch that failed, or came after the shutdown
\* command; a flush or a shutdown that returns Ok speaks of everything that was sent before it;
\* and of the clones of an event one sends it, unless a thread wrote over the lifecycle.
THEOREM RustKeeps == RustConstants =>
   (Rust!Spec => [](Rust!SentIsKept /\ Rust!FlushedIsWritten /\ Rust!SentOnce))
<1> SUFFICES ASSUME RustConstants
             PROVE  Rust!Spec => [](Rust!SentIsKept /\ Rust!FlushedIsWritten /\ Rust!SentOnce)
    OBVIOUS
<1>1. Rust!Init => RustInv
    BY RustInit
<1>2. RustInv /\ [Rust!Next]_Rust!vars => RustInv'
    BY RustNext
<1>3. RustInv => Rust!SentIsKept /\ Rust!FlushedIsWritten /\ Rust!SentOnce
  <2> SUFFICES ASSUME RustInv PROVE Rust!SentOnce
    BY DEF RustInv
  <2> SUFFICES ASSUME NEW e \in Events \ raced
               PROVE  /\ Cardinality({i \in DOMAIN sent : sent[i] = e}) <= 1
                      /\ e \in Rust!ToSet(sent) =>
                            state[e] = "emitted" \/ \E t \in Threads : Rust!Ev(t) = e /\
                               tpc[t] = "sent"
      BY RustSize DEF Rust!SentOnce
  <2>1. RustOneAt(e)
    BY DEF RustInv, RustOnce
  <2>2. \A i, j \in {i \in DOMAIN sent : sent[i] = e} : i = j
    BY <2>1 DEF RustOneAt
  <2>3. Cardinality({i \in DOMAIN sent : sent[i] = e}) <= 1
    BY <2>2, RustAtMostOne
  <2> QED BY <2>1, <2>3 DEF RustOneAt
<1> QED BY <1>1, <1>2, <1>3, PTL DEF Rust!Spec

-----------------------------------------------------------------------------
(* The loggers of a Go program.  LogInv is inductive: a list lacks a sink of  *)
(* its logger only where a sibling's append displaced it, who is not late has *)
(* a logger that is not shut down, and a sink is closed only by loggers whose *)
(* pipelines are empty for good.                                              *)

\* The first logger's array is a sequence of sinks.
LogConstants == First \in Seq(Log!Range(First)) /\ MaxOps \in Nat

LogSlices == [array : Nat, len : Nat]
LogRecords == [sinks : LogSlices, copy : Seq(Log!AllSinks), up : BOOLEAN, queue : SUBSET Events]

\* As much of the types as the proof needs.
LogKinds ==
    /\ async \in BOOLEAN
    /\ arrays \in Seq(Seq(Log!AllSinks \cup {"none"}))
    /\ loggers \in Seq(LogRecords)
    /\ default \in Log!Loggers
    /\ open \in [Log!AllSinks -> BOOLEAN]
    /\ written \in [Log!AllSinks -> SUBSET Events] /\ held \in [Log!AllSinks -> SUBSET Events]
    /\ pc \in [Events -> {"new", "picked", "done"}]
    /\ hand \in [Events -> Nat] /\ result \in [Events -> {"none", "ok", "error"}]
    /\ program \in [at : {"idle", "put", "stop", "drain", "close"}, logger : Nat,
                    rest : Seq(Log!AllSinks)]
    /\ ops \in 0 .. MaxOps
    /\ wanted \in Seq(SUBSET Log!AllSinks) /\ Len(wanted) = Len(loggers)
    /\ shut \subseteq Log!Loggers /\ retired \subseteq Log!Loggers /\ late \subseteq Events
    /\ displaced \subseteq Log!AllSinks
    /\ closers \in [Log!AllSinks -> SUBSET Nat]
    /\ refused \in [Events -> SUBSET Log!AllSinks]

\* The lists: each in its array, and without a sink only where a sibling's is.
LogValid(slice) ==
    /\ slice.array \in DOMAIN arrays /\ slice.len <= Len(arrays[slice.array])
    /\ \A i \in 1 .. slice.len : arrays[slice.array][i] # "none"

LogLists ==
    \A l \in Log!Loggers :
        /\ LogValid(loggers[l].sinks)
        /\ wanted[l] \ displaced \subseteq Log!Range(Log!Listed(loggers[l].sinks))
        /\ wanted[l] \ displaced \subseteq Log!Range(loggers[l].copy)

\* Who may still get to an event, and to which logger.
LogHands ==
    /\ \A e \in Events :
          /\ result[e] # "none" => pc[e] = "done"
          /\ pc[e] # "new" => hand[e] \in Log!Loggers
          /\ pc[e] = "picked" /\ e \notin late => hand[e] \notin shut
    /\ \A l \in Log!Loggers :
          /\ loggers[l].up <=> l \notin shut
          /\ loggers[l].queue # {} => async

\* The default is shut down only by a program that asked for just that.
LogReplaced ==
    /\ default \in shut => default \in retired
    /\ program.at = "put" => program.logger \in Log!Loggers \ (shut \cup {default})
    /\ program.at = "stop" /\ program.logger = default => default \in retired
    /\ program.at \in {"stop", "drain", "close"} => program.logger \in Log!Loggers
    /\ program.at \in {"drain", "close"} => program.logger \in shut

\* A closed sink has somebody who closed it, whose pipeline is empty for good.
LogClosed ==
    /\ \A s \in Log!AllSinks :
          /\ ~ open[s] => closers[s] # {}
          /\ closers[s] \subseteq {l \in shut : loggers[l].queue = {}}
    /\ program.at = "close" =>
          \A s \in Log!Range(program.rest) : program.logger \in closers[s]

\* Where an event is that a logger took for a sink.
LogReached(e, l, s) ==
    \/ e \in written[s] \cup loggers[l].queue
    \/ e \in held[s] /\ open[s]

\* The properties, of one event.
LogSecure(e) ==
    /\ result[e] = "ok" /\ e \notin late =>
          \A s \in wanted[hand[e]] :
              LogReached(e, hand[e], s) \/ Log!SharedAndClosed(hand[e], s) \/
                 Log!Overwritten(hand[e], s)
    /\ result[e] = "error" /\ e \notin late =>
          \E s \in refused[e] : Log!SharedAndClosed(hand[e], s)

LogKept == \A e \in Events : LogSecure(e)

LogInv == LogKinds /\ LogLists /\ LogHands /\ LogReplaced /\ LogClosed /\ LogKept

\* A logger, and what it was made with.
LEMMA LogTypes ==
    ASSUME LogKinds, NEW l \in Log!Loggers
    PROVE  /\ l \in Nat
           /\ loggers[l] \in LogRecords
           /\ loggers[l].sinks \in LogSlices /\ loggers[l].copy \in Seq(Log!AllSinks)
           /\ loggers[l].queue \subseteq Events
           /\ wanted[l] \subseteq Log!AllSinks
<1>1. loggers \in Seq(LogRecords) /\ l \in DOMAIN loggers
  BY DEF LogKinds, Log!Loggers
<1>2. l \in Nat /\ loggers[l] \in LogRecords
  BY <1>1
<1>3. l \in DOMAIN wanted /\ wanted \in Seq(SUBSET Log!AllSinks)
  BY <1>1 DEF LogKinds
<1> QED BY <1>2, <1>3 DEF LogRecords

\* The list of a slice: what its array has up to its length.
LEMMA LogListed ==
    ASSUME LogKinds, NEW slice \in LogSlices, LogValid(slice)
    PROVE  /\ Log!Listed(slice) \in Seq(Log!AllSinks)
           /\ Len(Log!Listed(slice)) = slice.len
           /\ \A i \in 1 .. slice.len : Log!Listed(slice)[i] = arrays[slice.array][i]
           /\ Log!Range(Log!Listed(slice)) = {arrays[slice.array][i] : i \in 1 .. slice.len}
           /\ Log!Range(Log!Listed(slice)) \subseteq Log!AllSinks
<1> DEFINE array == arrays[slice.array]
<1>1. array \in Seq(Log!AllSinks \cup {"none"})
  BY DEF LogKinds, LogValid
<1>2. slice.len \in Nat /\ slice.len <= Len(array)
  BY DEF LogValid, LogSlices
<1>3. \A i \in 1 .. slice.len : array[i] \in Log!AllSinks
  BY <1>1, <1>2 DEF LogValid
<1>4. /\ Log!Listed(slice) \in Seq(Log!AllSinks)
      /\ Len(Log!Listed(slice)) = slice.len
      /\ \A i \in 1 .. slice.len : Log!Listed(slice)[i] = array[i]
  <2> HIDE DEF array
  <2>1. Log!Listed(slice) = SubSeq(array, 1, slice.len)
    BY DEF Log!Listed, array
  <2> QED BY <1>1, <1>2, <1>3, <2>1
<1>5. DOMAIN Log!Listed(slice) = 1 .. slice.len
  BY <1>4
<1>6. Log!Range(Log!Listed(slice)) = {array[i] : i \in 1 .. slice.len}
  <2> HIDE DEF array
  <2> QED BY <1>4, <1>5, Zenon DEF Log!Range
<1> QED BY <1>3, <1>4, <1>6

\* An append leaves the lists it does not write over as they were, and adds the sink.
LEMMA LogAppend ==
    ASSUME LogKinds, NEW slice \in LogSlices, LogValid(slice), NEW s \in Log!AllSinks,
           NEW new, new = Log!AppendedSlice(slice, s), arrays' = Log!Appended(slice, s)
    PROVE  /\ arrays' \in Seq(Seq(Log!AllSinks \cup {"none"}))
           /\ new \in LogSlices
           /\ LogValid(new)'
           /\ \A i \in 1 .. slice.len : arrays'[new.array][i] = arrays[slice.array][i]
           /\ new.len = slice.len + 1 /\ arrays'[new.array][slice.len + 1] = s
           /\ \A a \in DOMAIN arrays :
                 /\ a \in DOMAIN arrays' /\ Len(arrays'[a]) = Len(arrays[a])
                 /\ \A i \in DOMAIN arrays[a] :
                       \/ arrays'[a][i] = arrays[a][i]
                       \/ arrays'[a][i] = s /\ arrays[a][i] \in Log!Under(slice) \cup {"none"}
<1> DEFINE Cell == Log!AllSinks \cup {"none"}
           array == arrays[slice.array]
<1>1. arrays \in Seq(Seq(Cell)) /\ slice.array \in DOMAIN arrays /\ array \in Seq(Cell)
  BY DEF LogKinds, LogValid
<1>2. slice.len \in Nat /\ slice.array \in Nat /\ slice.len <= Len(array) /\ Len(array) \in Nat
  BY <1>1 DEF LogValid, LogSlices
<1>3. slice = [array |-> slice.array, len |-> slice.len]
  BY DEF LogSlices
<1>4. \A i \in 1 .. slice.len : array[i] \in Log!AllSinks
  BY <1>1, <1>2 DEF LogValid
<1>5. s \in Cell /\ s # "none"
  BY DEF Log!AllSinks
<1>6. CASE Log!Room(slice) > 0
  <2>1. slice.len + 1 \in 1 .. Len(array)
    BY <1>2, <1>6 DEF Log!Room
  <2>2. arrays' = [arrays EXCEPT ![slice.array] = [array EXCEPT ![slice.len + 1] = s]]
    BY <1>6 DEF Log!Appended
  <2>3. new = [array |-> slice.array, len |-> slice.len + 1]
    BY <1>3, <1>6 DEF Log!AppendedSlice
  <2>4. [array EXCEPT ![slice.len + 1] = s] \in Seq(Cell)
    <3> HIDE DEF array, Cell
    <3> QED BY <1>1, <1>5, <2>1
  <2>5. arrays' \in Seq(Seq(Cell)) /\ Len(arrays') = Len(arrays) /\ DOMAIN arrays' = DOMAIN arrays
    <3> HIDE DEF array, Cell
    <3> QED BY <1>1, <2>2, <2>4
  <2>6. arrays'[slice.array] = [array EXCEPT ![slice.len + 1] = s]
    BY <1>1, <2>2
  <2>7. /\ \A i \in 1 .. slice.len : arrays'[new.array][i] = array[i]
        /\ arrays'[new.array][slice.len + 1] = s
        /\ Len(arrays'[new.array]) = Len(array)
    <3> HIDE DEF array, Cell
    <3> QED BY <1>1, <1>2, <2>1, <2>3, <2>6
  <2>8. new \in LogSlices /\ new.len = slice.len + 1
    BY <1>2, <2>3 DEF LogSlices
  <2>9. LogValid(new)'
    <3>1. new.array \in DOMAIN arrays' /\ new.len <= Len(arrays'[new.array])
      BY <1>1, <2>1, <2>3, <2>5, <2>7
    <3>2. ASSUME NEW i \in 1 .. new.len PROVE arrays'[new.array][i] # "none"
      <4>1. i \in 1 .. slice.len \/ i = slice.len + 1
        BY <1>2, <2>8
      <4> QED BY <1>4, <1>5, <2>7, <4>1 DEF Log!AllSinks
    <3> QED BY <3>1, <3>2 DEF LogValid
  <2>10. Log!Under(slice) = {array[slice.len + 1]} \ {"none"}
    BY <1>6 DEF Log!Under
  <2>11. ASSUME NEW a \in DOMAIN arrays
         PROVE  /\ a \in DOMAIN arrays' /\ Len(arrays'[a]) = Len(arrays[a])
                /\ \A i \in DOMAIN arrays[a] :
                      \/ arrays'[a][i] = arrays[a][i]
                      \/ arrays'[a][i] = s /\ arrays[a][i] \in Log!Under(slice) \cup {"none"}
    <3>1. CASE a = slice.array
      <4>1. ASSUME NEW i \in DOMAIN array
            PROVE  \/ arrays'[a][i] = array[i]
                   \/ arrays'[a][i] = s /\ array[i] \in Log!Under(slice) \cup {"none"}
        <5>1. CASE i = slice.len + 1
          BY <2>6, <2>10, <3>1, <5>1
        <5>2. CASE i # slice.len + 1
          BY <2>6, <3>1, <5>2
        <5> QED BY <5>1, <5>2
      <4> QED BY <2>3, <2>5, <2>7, <3>1, <4>1
    <3>2. CASE a # slice.array
      <4>1. arrays'[a] = arrays[a]
        BY <1>1, <2>2, <3>2
      <4> QED BY <2>5, <4>1
    <3> QED BY <3>1, <3>2
  <2> QED BY <2>3, <2>5, <2>7, <2>8, <2>9, <2>11
<1>7. CASE ~ (Log!Room(slice) > 0)
  <2> DEFINE room == [i \in 1 .. slice.len - 1 |-> "none"]
             fresh == Log!Listed(slice) \o <<s>> \o room
  <2>1. arrays' = Append(arrays, fresh)
    BY <1>7 DEF Log!Appended
  <2>2. new = [array |-> Len(arrays) + 1, len |-> slice.len + 1]
    BY <1>7 DEF Log!AppendedSlice
  <2>3. /\ Log!Listed(slice) \in Seq(Cell) /\ Len(Log!Listed(slice)) = slice.len
        /\ \A i \in 1 .. slice.len : Log!Listed(slice)[i] = array[i]
    <3>1. Log!Listed(slice) \in Seq(Log!AllSinks)
      BY LogListed
    <3>2. Log!Listed(slice) \in Seq(Cell)
      BY <3>1
    <3> QED BY <3>2, LogListed
  <2>4. /\ room \in Seq(Cell)
        /\ <<s>> \o room \in Seq(Cell)
    <3>1. room \in Seq(Cell)
      <4>1. CASE slice.len = 0
        <5>1. 1 .. slice.len - 1 = 1 .. 0
          BY <4>1
        <5>2. room \in [1 .. 0 -> Cell]
          BY <5>1
        <5>3. [1 .. 0 -> Cell] \subseteq Seq(Cell)
          OBVIOUS
        <5> QED BY <5>2, <5>3
      <4>2. CASE slice.len # 0
        <5>1. slice.len - 1 \in Nat
          BY <1>2, <4>2
        <5> QED BY <5>1
      <4> QED BY <4>1, <4>2
    <3> HIDE DEF room
    <3> QED BY <1>5, <3>1
  <2>5. /\ fresh \in Seq(Cell) /\ Len(fresh) >= slice.len + 1
        /\ \A i \in 1 .. slice.len : fresh[i] = array[i]
        /\ fresh[slice.len + 1] = s
    <3> HIDE DEF room, array, Cell
    <3>1. Log!Listed(slice) \o <<s>> \in Seq(Cell) /\
             Len(Log!Listed(slice) \o <<s>>) = slice.len + 1
      BY <1>2, <1>5, <2>3
    <3>2. /\ \A i \in 1 .. slice.len : (Log!Listed(slice) \o <<s>>)[i] = array[i]
          /\ (Log!Listed(slice) \o <<s>>)[slice.len + 1] = s
      BY <1>2, <1>5, <2>3
    <3>3. room \in Seq(Cell)
      BY <2>4
    <3> QED BY <1>2, <3>1, <3>2, <3>3
  <2> HIDE DEF fresh, room
  <2>6. arrays' \in Seq(Seq(Cell)) /\ Len(arrays') = Len(arrays) + 1
    <3> HIDE DEF array, Cell
    <3> QED BY <1>1, <2>1, <2>5
  <2>7. arrays'[new.array] = fresh
    BY <1>1, <2>1, <2>2
  <2>8. new \in LogSlices /\ new.len = slice.len + 1
    BY <1>1, <1>2, <2>2 DEF LogSlices
  <2>9. LogValid(new)'
    <3>1. new.array \in DOMAIN arrays' /\ new.len <= Len(arrays'[new.array])
      BY <1>1, <1>2, <2>2, <2>5, <2>6, <2>7
    <3>2. ASSUME NEW i \in 1 .. new.len PROVE arrays'[new.array][i] # "none"
      <4>1. i \in 1 .. slice.len \/ i = slice.len + 1
        BY <1>2, <2>8
      <4> QED BY <1>4, <1>5, <2>5, <2>7, <4>1 DEF Log!AllSinks
    <3> QED BY <3>1, <3>2 DEF LogValid
  <2>10. ASSUME NEW a \in DOMAIN arrays
         PROVE  a \in DOMAIN arrays' /\ arrays'[a] = arrays[a]
    BY <1>1, <2>1, <2>6
  <2> QED BY <2>5, <2>6, <2>7, <2>8, <2>9, <2>10
<1> QED BY <1>6, <1>7

\* What an append does to the other loggers' lists.
LEMMA LogAppendOthers ==
    ASSUME LogKinds, NEW slice \in LogSlices, LogValid(slice), NEW s \in Log!AllSinks,
           arrays' = Log!Appended(slice, s), NEW other \in LogSlices, LogValid(other)
    PROVE  /\ LogValid(other)'
           /\ Log!Range(Log!Listed(other)) \ Log!Under(slice)
                 \subseteq Log!Range(Log!Listed(other)')
           /\ Log!Range(Log!Listed(other)') \subseteq Log!Range(Log!Listed(other)) \cup {s}
<1> DEFINE a == other.array
<1>1. a \in DOMAIN arrays /\ other.len \in Nat /\ other.len <= Len(arrays[a])
  BY DEF LogValid, LogSlices
<1>2. arrays[a] \in Seq(Log!AllSinks \cup {"none"})
  BY <1>1 DEF LogKinds
<1>3. /\ arrays' \in Seq(Seq(Log!AllSinks \cup {"none"}))
      /\ a \in DOMAIN arrays' /\ Len(arrays'[a]) = Len(arrays[a])
      /\ \A i \in DOMAIN arrays[a] :
            \/ arrays'[a][i] = arrays[a][i]
            \/ arrays'[a][i] = s /\ arrays[a][i] \in Log!Under(slice) \cup {"none"}
  <2>1. PICK new : new = Log!AppendedSlice(slice, s)
    OBVIOUS
  <2> QED BY <1>1, <2>1, LogAppend
<1>4. /\ 1 .. other.len \subseteq DOMAIN arrays[a]
      /\ \A i \in 1 .. other.len : arrays[a][i] \in Log!AllSinks
  BY <1>1, <1>2 DEF LogValid
<1>5. s # "none"
  BY DEF Log!AllSinks
<1>6. LogValid(other)'
  <2>1. \A i \in 1 .. other.len : arrays'[a][i] # "none"
    BY <1>3, <1>4, <1>5 DEF Log!AllSinks
  <2> QED BY <1>1, <1>3, <2>1 DEF LogValid
<1>7. Log!Range(Log!Listed(other)) = {arrays[a][i] : i \in 1 .. other.len}
  BY LogListed
<1>8. Log!Range(Log!Listed(other)') = {arrays'[a][i] : i \in 1 .. other.len}
  <2> DEFINE array == arrays'[a]
  <2>1. array \in Seq(Log!AllSinks \cup {"none"}) /\ other.len <= Len(array)
    BY <1>1, <1>3
  <2>2. Log!Listed(other)' = SubSeq(array, 1, other.len)
    BY DEF Log!Listed
  <2> HIDE DEF array
  <2>3. /\ DOMAIN SubSeq(array, 1, other.len) = 1 .. other.len
        /\ \A i \in 1 .. other.len : SubSeq(array, 1, other.len)[i] = array[i]
    BY <1>1, <2>1
  <2>4. Log!Range(Log!Listed(other)') = {array[i] : i \in 1 .. other.len}
    BY <2>2, <2>3, Zenon DEF Log!Range
  <2> QED BY <2>4 DEF array
<1>9. \A i \in 1 .. other.len :
         \/ arrays'[a][i] = arrays[a][i]
         \/ arrays'[a][i] = s /\ arrays[a][i] \in Log!Under(slice)
  BY <1>3, <1>4 DEF Log!AllSinks
<1>10. Log!Range(Log!Listed(other)) \ Log!Under(slice) \subseteq Log!Range(Log!Listed(other)')
  <2> SUFFICES ASSUME NEW t \in Log!Range(Log!Listed(other)), t \notin Log!Under(slice)
               PROVE  t \in Log!Range(Log!Listed(other)')
    OBVIOUS
  <2>1. PICK i \in 1 .. other.len : t = arrays[a][i]
    BY <1>7
  <2>2. t = arrays'[a][i]
    BY <1>9, <2>1
  <2> QED BY <1>8, <2>2
<1>11. Log!Range(Log!Listed(other)') \subseteq Log!Range(Log!Listed(other)) \cup {s}
  <2> SUFFICES ASSUME NEW t \in Log!Range(Log!Listed(other)'), t # s
               PROVE  t \in Log!Range(Log!Listed(other))
    OBVIOUS
  <2>1. PICK i \in 1 .. other.len : t = arrays'[a][i]
    BY <1>8
  <2>2. t = arrays[a][i]
    BY <1>9, <2>1
  <2> QED BY <1>7, <2>2
<1> QED BY <1>6, <1>10, <1>11

\* And the list of a child: its logger's, and its sink.
LEMMA LogChildList ==
    ASSUME LogKinds, NEW slice \in LogSlices, LogValid(slice), NEW s \in Log!AllSinks,
           NEW new, new = Log!AppendedSlice(slice, s), arrays' = Log!Appended(slice, s)
    PROVE  /\ new \in LogSlices /\ LogValid(new)'
           /\ Log!Listed(new)' \in Seq(Log!AllSinks)
           /\ Log!Range(Log!Listed(new)') = Log!Range(Log!Listed(slice)) \cup {s}
<1> DEFINE array == arrays'[new.array]
<1>1. /\ arrays' \in Seq(Seq(Log!AllSinks \cup {"none"}))
      /\ new \in LogSlices
      /\ LogValid(new)'
      /\ \A i \in 1 .. slice.len : array[i] = arrays[slice.array][i]
      /\ new.len = slice.len + 1 /\ array[slice.len + 1] = s
  BY LogAppend
<1>2. slice.len \in Nat /\ new.len \in Nat
  BY <1>1 DEF LogSlices
<1>3. new.array \in DOMAIN arrays' /\ new.len <= Len(array)
  BY <1>1 DEF LogValid
<1>4. array \in Seq(Log!AllSinks \cup {"none"})
  BY <1>1, <1>3
<1>5. \A i \in 1 .. new.len : array[i] \in Log!AllSinks
  BY <1>1, <1>2, <1>3, <1>4 DEF LogValid
<1>6. Log!Listed(new)' = SubSeq(array, 1, new.len)
  BY DEF Log!Listed
<1> HIDE DEF array
<1>7. /\ SubSeq(array, 1, new.len) \in Seq(Log!AllSinks)
      /\ DOMAIN SubSeq(array, 1, new.len) = 1 .. new.len
      /\ \A i \in 1 .. new.len : SubSeq(array, 1, new.len)[i] = array[i]
  BY <1>2, <1>3, <1>4, <1>5
<1>8. Log!Range(Log!Listed(new)') = {array[i] : i \in 1 .. new.len}
  BY <1>6, <1>7, Zenon DEF Log!Range
<1>9. Log!Range(Log!Listed(slice)) = {arrays[slice.array][i] : i \in 1 .. slice.len}
  BY LogListed
<1>10. 1 .. new.len = (1 .. slice.len) \cup {slice.len + 1}
  BY <1>1, <1>2
<1>11. {array[i] : i \in 1 .. new.len} = {arrays[slice.array][i] : i \in 1 .. slice.len} \cup {s}
  BY <1>1, <1>10
<1> QED BY <1>1, <1>6, <1>7, <1>8, <1>9, <1>11

\* The first logger, with the sinks of its array.
LEMMA LogStart ==
    ASSUME LogConstants, Log!Init
    PROVE  LogInv
<1> USE DEF Log!Init
<1>1. PICK n \in 0 .. Len(First) :
         /\ \A i \in DOMAIN First : First[i] # "none" <=> i <= n
         /\ loggers = <<Log!Made([array |-> 1, len |-> n], SubSeq(First, 1, n))>>
         /\ wanted = <<Log!Range(SubSeq(First, 1, n))>>
  OBVIOUS
<1>2. First \in Seq(Log!AllSinks \cup {"none"}) /\ Len(First) \in Nat /\ n \in Nat
  <2>1. Log!Range(First) \subseteq Log!AllSinks \cup {"none"}
    BY DEF Log!AllSinks
  <2>2. First \in Seq(Log!Range(First))
    BY DEF LogConstants
  <2> QED BY <2>1, <2>2
<1>3. arrays = <<First>> /\ Len(arrays) = 1 /\ arrays[1] = First
  OBVIOUS
<1>4. arrays \in Seq(Seq(Log!AllSinks \cup {"none"}))
  BY <1>2, <1>3
<1>5. \A i \in 1 .. n : First[i] \in Log!AllSinks /\ First[i] # "none"
  <2> TAKE i \in 1 .. n
  <2>1. i \in DOMAIN First
    BY <1>2
  <2>2. First[i] # "none"
    BY <1>1, <2>1
  <2>3. First[i] \in Log!AllSinks \cup {"none"}
    BY <1>2, <2>1
  <2> QED BY <2>2, <2>3
<1> DEFINE listed == SubSeq(First, 1, n)
<1>6. listed \in Seq(Log!AllSinks)
  BY <1>2, <1>5
<1> HIDE DEF listed
<1>7. /\ Log!Loggers = {1} /\ Len(loggers) = 1 /\ Len(wanted) = 1
      /\ loggers[1] = [sinks |-> [array |-> 1, len |-> n], copy |-> listed, up |-> TRUE,
                       queue |-> {}]
      /\ wanted[1] = Log!Range(listed)
  <2> DEFINE first == [sinks |-> [array |-> 1, len |-> n], copy |-> listed, up |-> TRUE,
                       queue |-> {}]
  <2>1. loggers = <<first>> /\ wanted = <<Log!Range(listed)>>
    BY <1>1 DEF Log!Made, listed
  <2> HIDE DEF first
  <2>2. Len(loggers) = 1 /\ DOMAIN loggers = {1} /\ loggers[1] = first
    BY <2>1
  <2>3. Len(wanted) = 1 /\ wanted[1] = Log!Range(listed)
    BY <2>1
  <2> QED BY <2>2, <2>3 DEF Log!Loggers, first
<1>8. Log!Range(listed) \subseteq Log!AllSinks
  BY <1>6 DEF Log!Range
<1>9. LogKinds
  <2>1. loggers[1] \in LogRecords
    <3>1. [array |-> 1, len |-> n] \in LogSlices
      BY <1>2 DEF LogSlices
    <3>2. loggers[1] = [sinks |-> [array |-> 1, len |-> n], copy |-> listed, up |-> TRUE,
                        queue |-> {}]
      BY <1>7
    <3> HIDE DEF Log!Init
    <3> QED BY <1>6, <3>1, <3>2 DEF LogRecords
  <2>2. loggers \in Seq(LogRecords)
    BY <1>1, <1>7, <2>1
  <2>3. wanted \in Seq(SUBSET Log!AllSinks) /\ Len(wanted) = Len(loggers)
    BY <1>1, <1>7, <1>8 DEF listed
  <2>4. default \in Log!Loggers
    BY <1>7
  <2>5. program \in [at : {"idle", "put", "stop", "drain", "close"}, logger : Nat,
                     rest : Seq(Log!AllSinks)]
    BY DEF Log!Idle
  <2>6. ops \in 0 .. MaxOps
    BY DEF LogConstants
  <2>7. async \in BOOLEAN
    OBVIOUS
  <2>8. /\ open \in [Log!AllSinks -> BOOLEAN]
        /\ written \in [Log!AllSinks -> SUBSET Events] /\ held \in [Log!AllSinks -> SUBSET Events]
        /\ pc \in [Events -> {"new", "picked", "done"}]
        /\ hand \in [Events -> Nat] /\ result \in [Events -> {"none", "ok", "error"}]
        /\ shut \subseteq Log!Loggers /\ retired \subseteq Log!Loggers /\ late \subseteq Events
        /\ displaced \subseteq Log!AllSinks
        /\ closers \in [Log!AllSinks -> SUBSET Nat]
        /\ refused \in [Events -> SUBSET Log!AllSinks]
    OBVIOUS
  <2> QED BY <1>4, <2>2, <2>3, <2>4, <2>5, <2>6, <2>7, <2>8 DEF LogKinds
<1>10. LogLists
  <2>1. LogValid(loggers[1].sinks)
    BY <1>2, <1>3, <1>5, <1>7 DEF LogValid
  <2>2. Log!Listed(loggers[1].sinks) = listed
    BY <1>3, <1>7 DEF Log!Listed, listed
  <2> QED BY <1>7, <2>1, <2>2 DEF LogLists
<1>11. LogHands
  BY <1>7 DEF LogHands
<1>12. LogReplaced
  BY DEF LogReplaced, Log!Idle
<1>13. LogClosed
  BY DEF LogClosed, Log!Idle
<1>14. LogKept
  BY DEF LogKept, LogSecure
<1> QED BY <1>9, <1>10, <1>11, <1>12, <1>13, <1>14 DEF LogInv

\* As long as no list of sinks is touched.
LEMMA LogSameLists ==
    ASSUME LogLists, UNCHANGED <<arrays, wanted, displaced>>, Log!Loggers' = Log!Loggers,
           \A l \in Log!Loggers : loggers'[l].sinks = loggers[l].sinks
                              /\ loggers'[l].copy = loggers[l].copy
    PROVE  LogLists'
<1>1. \A slice : LogValid(slice) => LogValid(slice)'
  BY DEF LogValid
<1>2. \A slice : Log!Listed(slice)' = Log!Listed(slice)
  BY DEF Log!Listed
<1>3. ASSUME NEW l \in Log!Loggers'
      PROVE  /\ LogValid(loggers[l].sinks)'
             /\ wanted'[l] \ displaced' \subseteq Log!Range(Log!Listed(loggers[l].sinks)')
             /\ wanted'[l] \ displaced' \subseteq Log!Range(loggers'[l].copy)
  <2>1. PICK slice : slice = loggers[l].sinks
    OBVIOUS
  <2>2. slice = loggers'[l].sinks
    BY <1>3, <2>1
  <2>3. LogValid(slice) /\ wanted[l] \ displaced \subseteq Log!Range(Log!Listed(slice))
        /\ wanted[l] \ displaced \subseteq Log!Range(loggers[l].copy)
    BY <1>3, <2>1 DEF LogLists
  <2>4. LogValid(slice)' /\ Log!Listed(slice)' = Log!Listed(slice)
    BY <1>1, <1>2, <2>3
  <2>5. LogValid(loggers[l].sinks)' /\ Log!Listed(loggers[l].sinks)' = Log!Listed(slice)'
    BY <2>2, <2>4 DEF LogValid, Log!Listed
  <2> QED BY <1>3, <2>3, <2>4, <2>5
<1> QED BY <1>3 DEF LogLists

\* What excuses an event's not being in a sink goes on to excuse it.
LEMMA LogExcuses ==
    ASSUME UNCHANGED async, NEW l \in Log!Loggers, NEW s \in Log!AllSinks,
           closers[s] \subseteq closers'[s], displaced \subseteq displaced',
           loggers'[l].copy = loggers[l].copy,
           s \in Log!Range(Log!Listed(loggers[l].sinks))' =>
           s \in Log!Range(Log!Listed(loggers[l].sinks)),
           Log!SharedAndClosed(l, s) \/ Log!Overwritten(l, s)
    PROVE  Log!SharedAndClosed(l, s)' \/ Log!Overwritten(l, s)'
<1>1. CASE Log!SharedAndClosed(l, s)
  BY <1>1 DEF Log!SharedAndClosed
<1>2. CASE Log!Overwritten(l, s)
  <2>1. s \in displaced /\ s \in displaced'
    BY <1>2 DEF Log!Overwritten
  <2>2. CASE async
    <3>1. s \notin Log!Range(loggers[l].copy) /\ async'
      BY <1>2, <2>2 DEF Log!Overwritten
    <3>2. Log!Range(loggers[l].copy)' = Log!Range(loggers[l].copy)
      BY DEF Log!Range
    <3>3. s \notin Log!Range(loggers[l].copy)'
      BY <3>1, <3>2
    <3> QED BY <2>1, <3>1, <3>3 DEF Log!Overwritten
  <2>3. CASE ~ async
    <3>1. s \notin Log!Range(Log!Listed(loggers[l].sinks)) /\ ~ async'
      BY <1>2, <2>3 DEF Log!Overwritten
    <3>2. s \notin Log!Range(Log!Listed(loggers[l].sinks))'
      BY <3>1
    <3> QED BY <2>1, <3>1, <3>2 DEF Log!Overwritten
  <2> QED BY <2>2, <2>3
<1> QED BY <1>1, <1>2

\* What a step has to show of one event.
LEMMA LogSecureAt ==
    ASSUME NEW e \in Events, NEW l, hand'[e] = l,
           ASSUME result'[e] = "ok", e \notin late', NEW s \in wanted'[l]
           PROVE  LogReached(e, l, s)' \/ Log!SharedAndClosed(l, s)' \/ Log!Overwritten(l, s)',
           ASSUME result'[e] = "error", e \notin late'
           PROVE  \E s \in refused'[e] : Log!SharedAndClosed(l, s)'
    PROVE  LogSecure(e)'
BY DEF LogSecure, LogReached, Log!SharedAndClosed, Log!Overwritten, Log!Listed

\* An event that was emitted before a step, and that the step leaves in its place.
LEMMA LogPastSecure ==
    ASSUME LogKinds, LogHands, LogKept, UNCHANGED <<async, wanted>>, NEW e \in Events,
           result'[e] = result[e], refused'[e] = refused[e],
           result[e] # "none" => hand'[e] = hand[e], e \in late => e \in late',
           \A s \in Log!AllSinks : closers[s] \subseteq closers'[s],
           displaced \subseteq displaced',
           \A l \in Log!Loggers : loggers'[l].copy = loggers[l].copy,
           \A l \in Log!Loggers : Log!Listed(loggers[l].sinks)' = Log!Listed(loggers[l].sinks),
           \A l \in Log!Loggers : \A s \in wanted[l] :
               LogReached(e, l, s) =>
                   LogReached(e, l, s)' \/ Log!SharedAndClosed(l, s)' \/ Log!Overwritten(l, s)'
    PROVE  LogSecure(e)'
<1>1. CASE result[e] = "none"
  BY <1>1 DEF LogSecure
<1>2. CASE result[e] # "none"
  <2>1. hand[e] \in Log!Loggers /\ hand'[e] = hand[e]
    BY <1>2 DEF LogHands
  <2>2. PICK l \in Log!Loggers : l = hand[e]
    BY <2>1
  <2>3. wanted[l] \subseteq Log!AllSinks /\ refused[e] \subseteq Log!AllSinks
    <3>1. l \in DOMAIN wanted
      BY DEF LogKinds, Log!Loggers
    <3> QED BY <3>1 DEF LogKinds
  <2>4. Log!Range(Log!Listed(loggers[l].sinks))' = Log!Range(Log!Listed(loggers[l].sinks))
    <3>1. Log!Listed(loggers[l].sinks)' = Log!Listed(loggers[l].sinks)
      OBVIOUS
    <3> QED BY <3>1 DEF Log!Range
  <2>5. ASSUME result[e] = "ok", e \notin late, NEW s \in wanted[l]
        PROVE  LogReached(e, l, s)' \/ Log!SharedAndClosed(l, s)' \/ Log!Overwritten(l, s)'
    <3>1. LogReached(e, l, s) \/ Log!SharedAndClosed(l, s) \/ Log!Overwritten(l, s)
      BY <2>2, <2>5 DEF LogKept, LogSecure
    <3>2. CASE LogReached(e, l, s)
      BY <3>2
    <3>3. CASE Log!SharedAndClosed(l, s) \/ Log!Overwritten(l, s)
      BY <2>3, <2>4, <3>3, LogExcuses
    <3> QED BY <3>1, <3>2, <3>3
  <2>6. ASSUME result[e] = "error", e \notin late
        PROVE  \E s \in refused[e] : Log!SharedAndClosed(l, s)'
    <3>1. PICK s \in refused[e] : Log!SharedAndClosed(l, s)
      BY <2>2, <2>6 DEF LogKept, LogSecure
    <3>2. Log!SharedAndClosed(l, s)'
      BY <2>3, <3>1 DEF Log!SharedAndClosed
    <3> QED BY <3>2
  <2> QED BY <2>1, <2>2, <2>5, <2>6, LogSecureAt
<1> QED BY <1>1, <1>2

\* A step that leaves lists and events where they are.
LEMMA LogNoneMoved ==
    ASSUME LogKinds, LogHands, LogKept,
           UNCHANGED <<async, arrays, wanted, displaced, written, held, open, result, refused>>,
           late \subseteq late',
           \A e \in Events : result[e] # "none" => hand'[e] = hand[e],
           \A s \in Log!AllSinks : closers[s] \subseteq closers'[s],
           \A l \in Log!Loggers : /\ loggers'[l].sinks = loggers[l].sinks
                                  /\ loggers'[l].copy = loggers[l].copy
                                  /\ loggers'[l].queue = loggers[l].queue
    PROVE  LogKept'
<1>1. ASSUME NEW l \in Log!Loggers
      PROVE Log!Listed(loggers[l].sinks)' = Log!Listed(loggers[l].sinks)
  BY DEF Log!Listed
<1>2. ASSUME NEW e \in Events, NEW l \in Log!Loggers, NEW s \in wanted[l], LogReached(e, l, s)
      PROVE  LogReached(e, l, s)'
  BY <1>2 DEF LogReached
<1>3. ASSUME NEW e \in Events PROVE LogSecure(e)'
  BY <1>1, <1>2, LogPastSecure
<1> QED BY <1>3 DEF LogKept

\* A step that empties buffers, and may close the sinks whose buffers it empties.
LEMMA LogFlushes ==
    ASSUME LogKinds, LogHands, LogKept, NEW sinks \in SUBSET Log!AllSinks, Log!Flushed(sinks),
           \A s \in Log!AllSinks \ sinks : open'[s] = open[s],
           UNCHANGED <<async, arrays, loggers, wanted, displaced, closers, hand, result,
                       refused, late>>
    PROVE  LogKept'
<1>1. ASSUME NEW l \in Log!Loggers
      PROVE Log!Listed(loggers[l].sinks)' = Log!Listed(loggers[l].sinks)
  BY DEF Log!Listed
<1>2. ASSUME NEW e \in Events, NEW l \in Log!Loggers, NEW s \in wanted[l], LogReached(e, l, s)
      PROVE  LogReached(e, l, s)'
  <2>1. s \in Log!AllSinks
    <3>1. l \in DOMAIN wanted
      BY DEF LogKinds, Log!Loggers
    <3> QED BY <3>1 DEF LogKinds
  <2>2. written[s] \subseteq written'[s]
    BY <2>1 DEF Log!Flushed
  <2>3. CASE e \in written[s] \cup loggers[l].queue
    BY <2>2, <2>3 DEF LogReached
  <2>4. CASE e \in held[s] /\ open[s]
    <3>1. CASE s \in sinks
      BY <2>1, <2>4, <3>1 DEF Log!Flushed, LogReached
    <3>2. CASE s \notin sinks
      BY <2>1, <2>4, <3>2 DEF Log!Flushed, LogReached
    <3> QED BY <3>1, <3>2
  <2> QED BY <1>2, <2>3, <2>4 DEF LogReached
<1>3. ASSUME NEW e \in Events PROVE LogSecure(e)'
  BY <1>1, <1>2, LogPastSecure
<1> QED BY <1>3 DEF LogKept

\* What is in files and buffers are events.
LEMMA LogFlushKinds ==
    ASSUME LogKinds, NEW sinks, Log!Flushed(sinks)
    PROVE  written' \in [Log!AllSinks -> SUBSET Events] /\ held' \in [Log!AllSinks -> SUBSET Events]
BY DEF LogKinds, Log!Flushed

LEMMA LogWriteKinds ==
    ASSUME LogKinds, NEW e \in Events, NEW sinks, NEW sending, Log!Written(e, sinks, sending)
    PROVE  written' \in [Log!AllSinks -> SUBSET Events] /\ held' \in [Log!AllSinks -> SUBSET Events]
BY DEF LogKinds, Log!Written

\* A goroutine that gets to a logger shut down before, by itself, is late.
LEMMA LogPickStep ==
    ASSUME LogInv, NEW e \in Events, Log!Pick(e)
    PROVE  LogInv'
<1> USE DEF LogInv
<1>1. PICK l \in {default} \cup (Log!Loggers \ shut) : hand' = [hand EXCEPT ![e] = l]
  BY DEF Log!Pick
<1>2. l \in Log!Loggers /\ l \in Nat
  BY DEF LogKinds, Log!Loggers
<1>3. /\ pc[e] = "new" /\ pc' = [pc EXCEPT ![e] = "picked"]
      /\ late' = IF hand'[e] \in retired THEN late \cup {e} ELSE late
      /\ UNCHANGED <<async, arrays, loggers, default, Log!sinkVars, result, refused, program,
                     ops, wanted, shut, retired, displaced, closers>>
  BY DEF Log!Pick
<1>4. hand'[e] = l
  BY <1>1, <1>2 DEF LogKinds
<1>5. LogKinds'
  BY <1>1, <1>2, <1>3 DEF LogKinds, Log!Loggers, Log!sinkVars
<1>6. LogLists'
  BY <1>3, LogSameLists DEF Log!Loggers
<1>7. LogHands'
  <2>1. l \in shut => e \in late'
    BY <1>3, <1>4 DEF LogReplaced
  <2>2. ASSUME NEW f \in Events
        PROVE  /\ result'[f] # "none" => pc'[f] = "done"
               /\ pc'[f] # "new" => hand'[f] \in Log!Loggers'
               /\ pc'[f] = "picked" /\ f \notin late' => hand'[f] \notin shut'
    <3>1. CASE f = e
      BY <1>2, <1>3, <1>4, <2>1, <3>1 DEF LogHands, Log!Loggers, LogKinds
    <3>2. CASE f # e
      BY <1>1, <1>3, <3>2 DEF LogHands, Log!Loggers, LogKinds
    <3> QED BY <3>1, <3>2
  <2> QED BY <1>3, <2>2 DEF LogHands, Log!Loggers
<1>8. LogReplaced'
  BY <1>3 DEF LogReplaced, Log!Loggers
<1>9. LogClosed'
  BY <1>3 DEF LogClosed, Log!sinkVars
<1>10. LogKept'
  <2>1. \A f \in Events : result[f] # "none" => hand'[f] = hand[f]
    BY <1>1, <1>3 DEF LogHands, LogKinds
  <2> QED BY <1>3, <2>1, LogNoneMoved DEF Log!sinkVars
<1> QED BY <1>5, <1>6, <1>7, <1>8, <1>9, <1>10

\* A step of the program that only says what it does next.
LEMMA LogProgramStep ==
    ASSUME LogConstants, LogInv, Log!Put \/ Log!Shutdown \/ Log!SetDefault \/ Log!Expire
    PROVE  LogInv'
<1> USE DEF LogInv
<1>1. UNCHANGED <<async, arrays, loggers, Log!sinkVars, Log!emitVars, wanted, shut,
                  displaced, closers>>
  BY DEF Log!Put, Log!Shutdown, Log!SetDefault, Log!Expire
<1>2. LogLists'
  BY <1>1, LogSameLists DEF Log!Loggers
<1>3. LogHands'
  BY <1>1 DEF LogHands, Log!Loggers, Log!emitVars
<1>4. LogKept'
  BY <1>1, LogNoneMoved DEF Log!sinkVars, Log!emitVars
<1>5. LogKinds'
  <2>1. /\ default' \in Log!Loggers /\ retired' \subseteq Log!Loggers
        /\ program' \in [at : {"idle", "put", "stop", "drain", "close"}, logger : Nat,
                         rest : Seq(Log!AllSinks)]
        /\ ops' \in 0 .. MaxOps
    <3>1. CASE Log!Put
      <4>1. program' = [program EXCEPT !.at = "stop", !.logger = default]
            /\ default' = program.logger /\ retired' = retired /\ ops' = ops
        BY <3>1 DEF Log!Put
      <4>2. program.logger \in Log!Loggers /\ default \in Nat
        BY <3>1 DEF Log!Put, LogReplaced, LogKinds, Log!Loggers
      <4> QED BY <4>1, <4>2 DEF LogKinds
    <3>2. CASE Log!Shutdown
      <4>1. PICK l \in Log!Loggers \ shut :
               /\ program' = [at |-> "stop", logger |-> l, rest |-> <<>>]
               /\ retired' = retired \cup {l}
        BY <3>2 DEF Log!Shutdown
      <4>2. ops < MaxOps /\ ops' = ops + 1 /\ default' = default
        BY <3>2 DEF Log!Shutdown
      <4>3. l \in Nat
        BY DEF LogKinds, Log!Loggers
      <4>4. ops' \in 0 .. MaxOps
        BY <4>2 DEF LogKinds, LogConstants
      <4> QED BY <4>1, <4>2, <4>3, <4>4 DEF LogKinds
    <3>3. CASE Log!SetDefault
      <4>1. ops < MaxOps /\ ops' = ops + 1 /\ default' \in Log!Loggers
            /\ program' = program /\ retired' = retired
        BY <3>3 DEF Log!SetDefault
      <4>2. ops' \in 0 .. MaxOps
        BY <4>1 DEF LogKinds, LogConstants
      <4> QED BY <4>1, <4>2 DEF LogKinds
    <3>4. CASE Log!Expire
      BY <3>4 DEF Log!Expire, LogKinds, Log!Idle
    <3> QED BY <3>1, <3>2, <3>3, <3>4
  <2> QED BY <1>1, <2>1 DEF LogKinds, Log!Loggers, Log!sinkVars, Log!emitVars
<1>6. LogReplaced'
  <2>1. CASE Log!Put
    <3>1. /\ program.at = "put" /\ program'.at = "stop" /\ program'.logger = default
          /\ default' = program.logger /\ retired' = retired /\ shut' = shut
          /\ loggers' = loggers
      BY <2>1 DEF Log!Put, LogKinds
    <3> QED BY <3>1 DEF LogReplaced, LogKinds, Log!Loggers
  <2>2. CASE Log!Shutdown
    <3>1. PICK l \in Log!Loggers \ shut :
             /\ program' = [at |-> "stop", logger |-> l, rest |-> <<>>]
             /\ retired' = retired \cup {l}
      BY <2>2 DEF Log!Shutdown
    <3> QED BY <1>1, <2>2, <3>1 DEF LogReplaced, Log!Shutdown, Log!Loggers
  <2>3. CASE Log!SetDefault
    BY <1>1, <2>3 DEF LogReplaced, Log!SetDefault, Log!Loggers
  <2>4. CASE Log!Expire
    BY <1>1, <2>4 DEF LogReplaced, Log!Expire, Log!Idle, Log!Loggers
  <2> QED BY <2>1, <2>2, <2>3, <2>4
<1>7. LogClosed'
  <2>1. program'.at # "close"
    <3>1. CASE Log!Put
      BY <3>1 DEF Log!Put, LogKinds
    <3>2. CASE Log!Shutdown
      BY <3>2 DEF Log!Shutdown
    <3>3. CASE Log!SetDefault
      BY <3>3 DEF Log!SetDefault
    <3>4. CASE Log!Expire
      BY <3>4 DEF Log!Expire, Log!Idle
    <3> QED BY <3>1, <3>2, <3>3, <3>4
  <2> QED BY <1>1, <2>1 DEF LogClosed, Log!sinkVars
<1> QED BY <1>2, <1>3, <1>4, <1>5, <1>6, <1>7

\* Who holds a logger that is shut down is late from now on.
LEMMA LogStopStep ==
    ASSUME LogInv, Log!Stop
    PROVE  LogInv'
<1> USE DEF LogInv
<1>1. PICK l \in Log!Loggers : l = program.logger
  BY DEF Log!Stop, LogReplaced
<1>2. /\ program.at = "stop"
      /\ program' = [program EXCEPT !.at = "drain"]
      /\ loggers' = [loggers EXCEPT ![l].up = FALSE]
      /\ shut' = shut \cup {l}
      /\ late' = late \cup {e \in Events : pc[e] = "picked" /\ hand[e] = l}
      /\ UNCHANGED <<async, arrays, default, Log!sinkVars, pc, hand, result, refused, ops,
                     wanted, retired, displaced, closers>>
  BY <1>1 DEF Log!Stop
<1>3. /\ Log!Loggers' = Log!Loggers /\ Len(loggers') = Len(loggers)
      /\ loggers' \in Seq(LogRecords)
      /\ \A k \in Log!Loggers :
            /\ loggers'[k].sinks = loggers[k].sinks /\ loggers'[k].copy = loggers[k].copy
            /\ loggers'[k].queue = loggers[k].queue
            /\ loggers'[k].up <=> loggers[k].up /\ k # l
  <2>1. loggers \in Seq(LogRecords)
    BY DEF LogKinds
  <2>2. PICK down : down = [loggers[l] EXCEPT !.up = FALSE]
    OBVIOUS
  <2>3. /\ down \in LogRecords /\ ~ down.up /\ down.sinks = loggers[l].sinks
        /\ down.copy = loggers[l].copy /\ down.queue = loggers[l].queue
    BY <2>2, LogTypes DEF LogRecords
  <2>4. loggers' = [loggers EXCEPT ![l] = down]
    BY <1>2, <2>2
  <2>5. /\ loggers' \in Seq(LogRecords) /\ Len(loggers') = Len(loggers)
        /\ DOMAIN loggers' = DOMAIN loggers
        /\ \A k \in DOMAIN loggers : loggers'[k] = IF k = l THEN down ELSE loggers[k]
    BY <2>1, <2>3, <2>4 DEF Log!Loggers
  <2> QED BY <2>3, <2>5 DEF Log!Loggers
<1>4. LogKinds'
  BY <1>2, <1>3 DEF LogKinds, Log!sinkVars
<1>5. LogLists'
  BY <1>2, <1>3, LogSameLists
<1>6. LogHands'
  BY <1>2, <1>3 DEF LogHands
<1>7. LogReplaced'
  <2>1. program'.at = "drain" /\ program'.logger = l
    BY <1>1, <1>2 DEF LogKinds
  <2>2. default' \in shut' => default' \in retired'
    BY <1>1, <1>2 DEF LogReplaced
  <2> QED BY <1>2, <1>3, <2>1, <2>2 DEF LogReplaced
<1>8. LogClosed'
  <2>1. program'.at = "drain"
    BY <1>2 DEF LogKinds
  <2>2. ASSUME NEW s \in Log!AllSinks
        PROVE  /\ ~ open'[s] => closers'[s] # {}
               /\ closers'[s] \subseteq {k \in shut' : loggers'[k].queue = {}}
    <3>1. \A k \in shut : k \in Log!Loggers
      BY DEF LogKinds
    <3> QED BY <1>2, <1>3, <3>1 DEF LogClosed, Log!sinkVars
  <2> QED BY <2>1, <2>2 DEF LogClosed
<1>9. LogKept'
  BY <1>2, <1>3, LogNoneMoved DEF Log!sinkVars
<1> QED BY <1>4, <1>5, <1>6, <1>7, <1>8, <1>9

\* The sinks of a list get a closer, whose pipeline is empty.
LEMMA LogDrainStep ==
    ASSUME LogInv, Log!Drain
    PROVE  LogInv'
<1> USE DEF LogInv
<1>1. PICK l \in Log!Loggers : l = program.logger /\ l \in shut
  BY DEF Log!Drain, LogReplaced
<1>2. PICK listed : listed = Log!Listed(loggers[l].sinks)
  OBVIOUS
<1>3. /\ program.at = "drain" /\ loggers[l].queue = {}
      /\ program' = [program EXCEPT !.at = "close", !.rest = listed]
      /\ closers' = [s \in Log!AllSinks |->
            IF s \in Log!Range(listed) THEN closers[s] \cup {l} ELSE closers[s]]
      /\ UNCHANGED <<async, arrays, loggers, default, Log!sinkVars, Log!emitVars, ops, wanted,
                     shut, retired, displaced>>
  BY <1>1, <1>2 DEF Log!Drain, Log!Drained
<1>4. listed \in Seq(Log!AllSinks) /\ Log!Range(listed) \subseteq Log!AllSinks /\ l \in Nat
  <2>1. loggers[l].sinks \in LogSlices
    BY LogTypes
  <2>2. LogValid(loggers[l].sinks)
    BY DEF LogLists
  <2> QED BY <1>2, <2>1, <2>2, LogListed DEF LogKinds, Log!Loggers
<1>5. program'.at = "close" /\ program'.logger = l /\ program'.rest = listed
  BY <1>1, <1>3 DEF LogKinds
<1>6. LogKinds'
  <2>1. program' \in [at : {"idle", "put", "stop", "drain", "close"}, logger : Nat,
                      rest : Seq(Log!AllSinks)]
    BY <1>3, <1>4 DEF LogKinds
  <2>2. closers' \in [Log!AllSinks -> SUBSET Nat]
    BY <1>3, <1>4 DEF LogKinds
  <2> QED BY <1>3, <2>1, <2>2 DEF LogKinds, Log!Loggers, Log!sinkVars, Log!emitVars
<1>7. LogLists'
  BY <1>3, LogSameLists DEF Log!Loggers
<1>8. LogHands'
  BY <1>3 DEF LogHands, Log!Loggers, Log!emitVars
<1>9. LogReplaced'
  BY <1>1, <1>3, <1>5 DEF LogReplaced, Log!Loggers
<1>10. LogClosed'
  BY <1>1, <1>3, <1>4, <1>5 DEF LogClosed, Log!sinkVars
<1>11. LogKept'
  BY <1>3, LogNoneMoved DEF Log!sinkVars, Log!emitVars
<1> QED BY <1>6, <1>7, <1>8, <1>9, <1>10, <1>11

\* A step that empties buffers.
LEMMA LogFlushStep ==
    ASSUME LogInv, (\E s \in Log!AllSinks : Log!Tick(s)) \/ (\E l \in Log!Loggers : Log!Flush(l)) \/
           Log!Close
    PROVE  LogInv'
<1> USE DEF LogInv
<1>1. UNCHANGED <<async, arrays, loggers, default, Log!emitVars, ops, wanted, shut, retired,
                  displaced, closers>>
  BY DEF Log!Tick, Log!Flush, Log!Close
<1>2. /\ program' = program \/ (program.at = "close" /\ program' = Log!Idle)
                 \/ (program.at = "close" /\ program.rest # <<>>
                     /\ program' = [program EXCEPT !.rest = Tail(@)])
  BY DEF Log!Tick, Log!Flush, Log!Close
<1>3. CASE program' = Log!Idle /\ UNCHANGED Log!sinkVars
  <2>1. LogKinds'
    BY <1>1, <1>3 DEF LogKinds, Log!Loggers, Log!Idle, Log!emitVars, Log!sinkVars
  <2>2. LogLists'
    BY <1>1, LogSameLists DEF Log!Loggers
  <2>3. LogHands'
    BY <1>1 DEF LogHands, Log!Loggers, Log!emitVars
  <2>4. LogReplaced'
    BY <1>1, <1>3 DEF LogReplaced, Log!Loggers, Log!Idle
  <2>5. LogClosed'
    BY <1>1, <1>3 DEF LogClosed, Log!Idle, Log!sinkVars
  <2>6. LogKept'
    BY <1>1, <1>3, LogNoneMoved DEF Log!sinkVars, Log!emitVars
  <2> QED BY <2>1, <2>2, <2>3, <2>4, <2>5, <2>6
<1>4. CASE /\ program' = program \/ (program.at = "close" /\ program.rest # <<>>
                     /\ program' = [program EXCEPT !.rest = Tail(@)])
           /\ \E sinks \in SUBSET Log!AllSinks :
                 /\ Log!Flushed(sinks)
                 /\ open' = open
                    \/ \E s \in sinks : /\ open' = [open EXCEPT ![s] = FALSE]
                                        /\ program.at = "close" /\ s \in Log!Range(program.rest)
  <2>1. PICK sinks \in SUBSET Log!AllSinks :
                 /\ Log!Flushed(sinks)
                 /\ open' = open
                    \/ \E s \in sinks : /\ open' = [open EXCEPT ![s] = FALSE]
                                        /\ program.at = "close" /\ s \in Log!Range(program.rest)
    BY <1>4
  <2>2. /\ open' \in [Log!AllSinks -> BOOLEAN]
        /\ \A s \in Log!AllSinks : open'[s] # open[s] =>
              s \in sinks /\ program.at = "close" /\ s \in Log!Range(program.rest)
    BY <2>1 DEF LogKinds
  <2>3. /\ program'.at = program.at /\ program'.logger = program.logger
        /\ program'.rest \in Seq(Log!AllSinks)
        /\ Log!Range(program'.rest) \subseteq Log!Range(program.rest)
        /\ program' \in [at : {"idle", "put", "stop", "drain", "close"}, logger : Nat,
                         rest : Seq(Log!AllSinks)]
    <3>1. CASE program' = program
      BY <3>1 DEF LogKinds, Log!Range
    <3>2. CASE program.rest # <<>> /\ program' = [program EXCEPT !.rest = Tail(@)]
      <4>1. PICK rest \in Seq(Log!AllSinks) : rest = program.rest
        BY DEF LogKinds
      <4>2. Tail(rest) \in Seq(Log!AllSinks) /\ Log!Range(Tail(rest)) \subseteq Log!Range(rest)
        BY <3>2, <4>1 DEF Log!Range
      <4> QED BY <3>2, <4>1, <4>2 DEF LogKinds
    <3> QED BY <1>4, <3>1, <3>2
  <2>4. LogKinds'
    <3>1. written' \in [Log!AllSinks -> SUBSET Events] /\ held' \in [Log!AllSinks -> SUBSET Events]
      BY <2>1, LogFlushKinds
    <3> QED BY <1>1, <2>2, <2>3, <3>1 DEF LogKinds, Log!Loggers, Log!emitVars
  <2>5. LogLists'
    BY <1>1, LogSameLists DEF Log!Loggers
  <2>6. LogHands'
    BY <1>1 DEF LogHands, Log!Loggers, Log!emitVars
  <2>7. LogReplaced'
    BY <1>1, <2>3 DEF LogReplaced, Log!Loggers
  <2>8. LogClosed'
    BY <1>1, <2>2, <2>3 DEF LogClosed
  <2>9. LogKept'
    BY <1>1, <2>1, <2>2, LogFlushes DEF Log!emitVars
  <2> QED BY <2>4, <2>5, <2>6, <2>7, <2>8, <2>9
<1>5. CASE \E s \in Log!AllSinks : Log!Tick(s)
  <2>1. PICK s \in Log!AllSinks : Log!Tick(s)
    BY <1>5
  <2>2. Log!Flushed({s}) /\ open' = open /\ program' = program
    BY <2>1 DEF Log!Tick
  <2> QED BY <1>4, <2>2
<1>6. CASE \E l \in Log!Loggers : Log!Flush(l)
  <2>1. PICK l \in Log!Loggers : Log!Flush(l)
    BY <1>6
  <2>2. Log!Flushed(Log!Range(Log!Listed(loggers[l].sinks))) /\ open' = open /\ program' = program
    BY <2>1 DEF Log!Flush
  <2>3. Log!Range(Log!Listed(loggers[l].sinks)) \in SUBSET Log!AllSinks
    <3>1. loggers[l].sinks \in LogSlices
      BY LogTypes
    <3>2. LogValid(loggers[l].sinks)
      BY DEF LogLists
    <3> QED BY <3>1, <3>2, LogListed
  <2> QED BY <1>4, <2>2, <2>3
<1>7. CASE Log!Close
  <2>1. CASE program.rest = <<>>
    BY <1>3, <1>7, <2>1 DEF Log!Close
  <2>2. CASE program.rest # <<>>
    <3>1. PICK s : s = Head(program.rest)
      OBVIOUS
    <3>2. /\ program.at = "close" /\ open' = [open EXCEPT ![s] = FALSE] /\ Log!Flushed({s})
          /\ program' = [program EXCEPT !.rest = Tail(@)]
      BY <1>7, <2>2, <3>1 DEF Log!Close
    <3>3. s \in Log!Range(program.rest) /\ s \in Log!AllSinks
      <4>1. PICK rest \in Seq(Log!AllSinks) : rest = program.rest
        BY DEF LogKinds
      <4>2. 1 \in DOMAIN rest /\ Head(rest) = rest[1] /\ rest[1] \in Log!AllSinks
        BY <2>2, <4>1
      <4> QED BY <3>1, <4>1, <4>2 DEF Log!Range
    <3> QED BY <1>4, <2>2, <3>2, <3>3
  <2> QED BY <2>1, <2>2
<1> QED BY <1>5, <1>6, <1>7

\* A step that changes a pipeline.
LEMMA LogQueueFacts ==
    ASSUME LogKinds, NEW l \in Log!Loggers, NEW items \in SUBSET Events,
           loggers' = [loggers EXCEPT ![l].queue = items]
    PROVE  /\ Log!Loggers' = Log!Loggers /\ Len(loggers') = Len(loggers)
           /\ loggers' \in Seq(LogRecords)
           /\ \A k \in Log!Loggers :
                 /\ loggers'[k].sinks = loggers[k].sinks /\ loggers'[k].copy = loggers[k].copy
                 /\ loggers'[k].up = loggers[k].up
                 /\ loggers'[k].queue = IF k = l THEN items ELSE loggers[k].queue
<1>1. loggers \in Seq(LogRecords)
  BY DEF LogKinds
<1>2. PICK after : after = [loggers[l] EXCEPT !.queue = items]
  OBVIOUS
<1>3. /\ after \in LogRecords /\ after.up = loggers[l].up /\ after.sinks = loggers[l].sinks
      /\ after.copy = loggers[l].copy /\ after.queue = items
  BY <1>2, LogTypes DEF LogRecords
<1>4. loggers' = [loggers EXCEPT ![l] = after]
  BY <1>2
<1>5. /\ loggers' \in Seq(LogRecords) /\ Len(loggers') = Len(loggers)
      /\ DOMAIN loggers' = DOMAIN loggers
      /\ \A k \in DOMAIN loggers : loggers'[k] = IF k = l THEN after ELSE loggers[k]
  BY <1>1, <1>3, <1>4 DEF Log!Loggers
<1> QED BY <1>3, <1>5 DEF Log!Loggers

\* A sink that is closed while a logger's pipeline is open, or not yet empty, was closed
\* by another.
LEMMA LogClosedByAnother ==
    ASSUME LogHands, LogClosed, NEW l \in Log!Loggers, NEW s \in Log!AllSinks, ~ open[s],
           l \notin shut \/ loggers[l].queue # {}
    PROVE  Log!SharedAndClosed(l, s)
BY DEF LogClosed, Log!SharedAndClosed

\* An event is put in the pipeline, or written, or refused by a sink that another closed.
LEMMA LogEmitStep ==
    ASSUME LogInv, NEW e \in Events, Log!Emit(e)
    PROVE  LogInv'
<1> USE DEF LogInv
<1>1. PICK l \in Log!Loggers : l = hand[e]
  BY DEF Log!Emit, LogHands
<1>2. PICK sinks : sinks = Log!Range(Log!Listed(loggers[l].sinks))
  OBVIOUS
<1>3. /\ pc[e] = "picked" /\ pc' = [pc EXCEPT ![e] = "done"]
      /\ UNCHANGED <<async, arrays, default, open, hand, program, ops, wanted, shut,
                     retired, late, displaced, closers>>
  BY DEF Log!Emit
<1>4. e \notin late => l \notin shut /\ loggers[l].up
  BY <1>1, <1>3 DEF LogHands
<1>5. sinks \subseteq Log!AllSinks /\ (wanted[l] \ displaced) \subseteq sinks
  <2>1. loggers[l].sinks \in LogSlices /\ LogValid(loggers[l].sinks)
    BY LogTypes DEF LogLists
  <2> QED BY <1>2, <2>1, LogListed DEF LogLists
<1>6. result[e] = "none"
  BY <1>3 DEF LogHands
<1>7. LogReplaced' /\ (loggers' = loggers => LogClosed')
  <2>1. Log!Loggers' = Log!Loggers => LogReplaced'
    BY <1>3 DEF LogReplaced
  <2>2. Log!Loggers' = Log!Loggers
    <3>1. CASE async /\ loggers[l].up
      <4>1. loggers' = [loggers EXCEPT ![l].queue = loggers[l].queue \cup {e}]
        BY <1>1, <3>1 DEF Log!Emit
      <4>2. loggers[l].queue \cup {e} \in SUBSET Events
        BY LogTypes
      <4> QED BY <4>1, <4>2, LogQueueFacts
    <3>2. CASE ~ (async /\ loggers[l].up)
      BY <1>1, <3>2 DEF Log!Emit, Log!Loggers
    <3> QED BY <3>1, <3>2
  <2> QED BY <1>3, <2>1, <2>2 DEF LogClosed
<1>8. CASE async
  <2>1. /\ loggers' = IF loggers[l].up
                      THEN [loggers EXCEPT ![l].queue = loggers[l].queue \cup {e}] ELSE loggers
        /\ result' = [result EXCEPT ![e] = IF loggers[l].up THEN "ok" ELSE "error"]
        /\ UNCHANGED <<written, held, refused>>
    BY <1>1, <1>8 DEF Log!Emit
  <2>2. /\ Log!Loggers' = Log!Loggers /\ Len(loggers') = Len(loggers)
        /\ loggers' \in Seq(LogRecords)
        /\ \A k \in Log!Loggers :
              /\ loggers'[k].sinks = loggers[k].sinks /\ loggers'[k].copy = loggers[k].copy
              /\ loggers'[k].up = loggers[k].up
              /\ loggers'[k].queue = IF k = l /\ loggers[l].up THEN loggers[l].queue \cup {e}
                                     ELSE loggers[k].queue
    <3>1. CASE loggers[l].up
      <4>1. PICK items \in SUBSET Events : items = loggers[l].queue \cup {e}
        BY LogTypes
      <4>2. loggers' = [loggers EXCEPT ![l].queue = items]
        BY <2>1, <3>1, <4>1
      <4>3. /\ Log!Loggers' = Log!Loggers /\ Len(loggers') = Len(loggers)
            /\ loggers' \in Seq(LogRecords)
            /\ \A k \in Log!Loggers :
                  /\ loggers'[k].sinks = loggers[k].sinks
                  /\ loggers'[k].copy = loggers[k].copy
                  /\ loggers'[k].up = loggers[k].up
                  /\ loggers'[k].queue = IF k = l THEN items ELSE loggers[k].queue
        BY <4>2, LogQueueFacts
      <4> QED BY <3>1, <4>1, <4>3
    <3>2. CASE ~ loggers[l].up
      BY <2>1, <3>2 DEF LogKinds, Log!Loggers
    <3> QED BY <3>1, <3>2
  <2>3. LogKinds'
    BY <1>3, <2>1, <2>2 DEF LogKinds
  <2>4. LogLists'
    BY <1>3, <2>2, LogSameLists
  <2>5. LogHands'
    <3>1. ASSUME NEW f \in Events
          PROVE  /\ result'[f] # "none" => pc'[f] = "done"
                 /\ pc'[f] # "new" => hand'[f] \in Log!Loggers'
                 /\ pc'[f] = "picked" /\ f \notin late' => hand'[f] \notin shut'
      <4>1. CASE f = e
        BY <1>1, <1>3, <2>1, <2>2, <4>1 DEF LogKinds
      <4>2. CASE f # e
        BY <1>3, <2>1, <2>2, <4>2 DEF LogHands, LogKinds
      <4> QED BY <4>1, <4>2
    <3> QED BY <1>3, <1>8, <2>2, <3>1 DEF LogHands
  <2>6. LogClosed'
    <3>1. \A k \in shut : k \in Log!Loggers /\ loggers'[k].queue = loggers[k].queue
      BY <2>2 DEF LogKinds, LogHands
    <3> QED BY <1>3, <3>1 DEF LogClosed
  <2>7. ASSUME NEW k \in Log!Loggers
        PROVE Log!Listed(loggers[k].sinks)' = Log!Listed(loggers[k].sinks)
    BY <1>3, <2>2 DEF Log!Listed
  <2>8. ASSUME NEW f \in Events, NEW k \in Log!Loggers, NEW s \in wanted[k], LogReached(f, k, s)
        PROVE  LogReached(f, k, s)'
    BY <1>3, <2>1, <2>2, <2>8 DEF LogReached
  <2>9. ASSUME NEW f \in Events PROVE LogSecure(f)'
    <3>1. CASE f = e
      <4>1. ASSUME result'[e] = "ok" PROVE \A s \in wanted'[l] : LogReached(e, l, s)'
        <5>1. loggers[l].up
          BY <2>1, <4>1 DEF LogKinds
        <5> QED BY <2>2, <5>1 DEF LogReached
      <4>2. ~ (result'[e] = "error" /\ e \notin late')
        BY <1>3, <1>4, <2>1 DEF LogKinds
      <4> QED BY <1>1, <1>3, <3>1, <4>1, <4>2, LogSecureAt
    <3>2. CASE f # e
      <4>1. result'[f] = result[f] /\ refused'[f] = refused[f]
        BY <2>1, <3>2 DEF LogKinds
      <4> QED BY <1>3, <2>2, <2>7, <2>8, <4>1, LogPastSecure
    <3> QED BY <3>1, <3>2
  <2> QED BY <1>7, <2>3, <2>4, <2>5, <2>6, <2>9 DEF LogKept
<1>9. CASE ~ async
  <2>1. /\ Log!Written(e, sinks, {})
        /\ refused' = [refused EXCEPT ![e] = {s \in sinks \ Log!Buffering : ~ open[s]}]
        /\ result' = [result EXCEPT ![e] = IF refused'[e] = {} THEN "ok" ELSE "error"]
        /\ loggers' = loggers
    BY <1>1, <1>2, <1>9 DEF Log!Emit
  <2>2. LogKinds'
    <3>1. written' \in [Log!AllSinks -> SUBSET Events] /\ held' \in [Log!AllSinks -> SUBSET Events]
      BY <2>1, LogWriteKinds
    <3> QED BY <1>3, <1>5, <2>1, <3>1 DEF LogKinds, Log!Loggers
  <2>3. LogLists'
    BY <1>3, <2>1, LogSameLists DEF Log!Loggers
  <2>4. LogHands'
    <3>1. ASSUME NEW f \in Events
          PROVE  /\ result'[f] # "none" => pc'[f] = "done"
                 /\ pc'[f] # "new" => hand'[f] \in Log!Loggers'
                 /\ pc'[f] = "picked" /\ f \notin late' => hand'[f] \notin shut'
      <4>1. CASE f = e
        BY <1>1, <1>3, <2>1, <4>1 DEF LogKinds, Log!Loggers
      <4>2. CASE f # e
        BY <1>3, <2>1, <4>2 DEF LogHands, LogKinds, Log!Loggers
      <4> QED BY <4>1, <4>2
    <3> QED BY <1>3, <2>1, <3>1 DEF LogHands, Log!Loggers
  <2>5. refused'[e] = {s \in sinks \ Log!Buffering : ~ open[s]}
    BY <2>1 DEF LogKinds
  <2>6. result'[e] = IF refused'[e] = {} THEN "ok" ELSE "error"
    BY <2>1 DEF LogKinds
  <2>7. ASSUME NEW k \in Log!Loggers
        PROVE Log!Listed(loggers[k].sinks)' = Log!Listed(loggers[k].sinks)
    BY <1>3, <2>1 DEF Log!Listed
  <2>8. ASSUME NEW f \in Events, NEW k \in Log!Loggers, NEW s \in wanted[k], LogReached(f, k, s)
        PROVE  LogReached(f, k, s)'
    <3>1. s \in Log!AllSinks
      BY LogTypes
    <3>2. written[s] \subseteq written'[s] /\ held[s] \subseteq held'[s]
      BY <2>1, <3>1 DEF Log!Written
    <3> QED BY <1>3, <2>1, <2>8, <3>2 DEF LogReached
  <2>9. ASSUME NEW f \in Events PROVE LogSecure(f)'
    <3>1. CASE f = e
      <4>1. ASSUME result'[e] = "ok", e \notin late', NEW s \in wanted'[l]
            PROVE  LogReached(e, l, s)' \/ Log!SharedAndClosed(l, s)' \/ Log!Overwritten(l, s)'
        <5>1. s \in Log!AllSinks
          BY <1>3, LogTypes
        <5>2. CASE s \notin sinks
          <6>1. s \in displaced
            BY <1>3, <1>5, <5>2
          <6>2. Log!Range(Log!Listed(loggers[l].sinks))' = sinks
            BY <1>2, <2>7 DEF Log!Range
          <6> QED BY <1>3, <1>9, <5>2, <6>1, <6>2 DEF Log!Overwritten
        <5>3. CASE s \in sinks /\ ~ open[s]
          <6>1. Log!SharedAndClosed(l, s)
            BY <1>3, <1>4, <4>1, <5>1, <5>3, LogClosedByAnother
          <6> QED BY <1>3, <6>1 DEF Log!SharedAndClosed
        <5>4. CASE s \in sinks /\ open[s]
          BY <1>3, <2>1, <5>1, <5>4 DEF Log!Written, LogReached
        <5> QED BY <5>2, <5>3, <5>4
      <4>2. ASSUME result'[e] = "error", e \notin late'
            PROVE  \E s \in refused'[e] : Log!SharedAndClosed(l, s)'
        <5>1. PICK s \in sinks : s \in refused'[e] /\ ~ open[s]
          BY <2>5, <2>6, <4>2
        <5>2. Log!SharedAndClosed(l, s)
          BY <1>3, <1>4, <1>5, <4>2, <5>1, LogClosedByAnother
        <5> QED BY <1>3, <5>1, <5>2 DEF Log!SharedAndClosed
      <4> QED BY <1>1, <1>3, <3>1, <4>1, <4>2, LogSecureAt
    <3>2. CASE f # e
      <4>1. result'[f] = result[f] /\ refused'[f] = refused[f]
        BY <2>1, <3>2 DEF LogKinds
      <4> QED BY <1>3, <2>1, <2>7, <2>8, <4>1, LogPastSecure
    <3> QED BY <3>1, <3>2
  <2> QED BY <1>7, <2>1, <2>2, <2>3, <2>4, <2>9 DEF LogKept
<1> QED BY <1>8, <1>9 DEF LogKinds

\* An event goes from the pipeline to the sinks of its list that are not closed.
LEMMA LogWorkStep ==
    ASSUME LogInv, NEW l \in Log!Loggers, Log!Work(l)
    PROVE  LogInv'
<1> USE DEF LogInv
<1>1. PICK e \in loggers[l].queue :
         /\ loggers' = [loggers EXCEPT ![l].queue = loggers[l].queue \ {e}]
         /\ Log!Written(e, Log!Range(loggers[l].copy), Batch)
  BY DEF Log!Work
<1>2. UNCHANGED <<async, arrays, default, open, Log!emitVars, program, ops, wanted, shut,
                  retired, displaced, closers>>
  BY DEF Log!Work
<1>3. e \in Events /\ loggers[l].queue \ {e} \in SUBSET Events /\ async
  BY LogTypes DEF LogHands
<1>4. /\ Log!Loggers' = Log!Loggers /\ Len(loggers') = Len(loggers)
      /\ loggers' \in Seq(LogRecords)
      /\ \A k \in Log!Loggers :
            /\ loggers'[k].sinks = loggers[k].sinks /\ loggers'[k].copy = loggers[k].copy
            /\ loggers'[k].up = loggers[k].up
            /\ loggers'[k].queue = IF k = l THEN loggers[l].queue \ {e} ELSE loggers[k].queue
  BY <1>1, <1>3, LogQueueFacts
<1>5. LogKinds'
  <2>1. written' \in [Log!AllSinks -> SUBSET Events] /\ held' \in [Log!AllSinks -> SUBSET Events]
    BY <1>1, <1>3, LogWriteKinds
  <2> QED BY <1>2, <1>4, <2>1 DEF LogKinds, Log!emitVars
<1>6. LogLists'
  BY <1>2, <1>4, LogSameLists
<1>7. LogHands'
  BY <1>2, <1>3, <1>4 DEF LogHands, Log!emitVars
<1>8. LogReplaced'
  BY <1>2, <1>4 DEF LogReplaced
<1>9. LogClosed'
  <2>1. \A k \in shut : k \in Log!Loggers
    BY DEF LogKinds
  <2> QED BY <1>2, <1>4, <2>1 DEF LogClosed
<1>10. ASSUME NEW k \in Log!Loggers
       PROVE Log!Listed(loggers[k].sinks)' = Log!Listed(loggers[k].sinks)
  BY <1>2, <1>4 DEF Log!Listed
<1>11. ASSUME NEW f \in Events, NEW k \in Log!Loggers, NEW s \in wanted[k], LogReached(f, k, s)
       PROVE  LogReached(f, k, s)' \/ Log!SharedAndClosed(k, s)' \/ Log!Overwritten(k, s)'
  <2>1. s \in Log!AllSinks
    BY LogTypes
  <2>2. written[s] \subseteq written'[s] /\ held[s] \subseteq held'[s]
    BY <1>1, <2>1 DEF Log!Written
  <2>3. CASE f # e \/ k # l \/ f \notin loggers[l].queue
    BY <1>2, <1>4, <1>11, <2>2, <2>3 DEF LogReached
  <2>4. CASE f = e /\ k = l
    <3>1. CASE s \notin Log!Range(loggers[l].copy)
      <4>1. s \in displaced
        BY <2>4, <3>1 DEF LogLists
      <4>2. Log!Range(loggers[l].copy)' = Log!Range(loggers[l].copy)
        BY <1>4 DEF Log!Range
      <4>3. Log!Overwritten(l, s)'
        BY <1>2, <1>3, <3>1, <4>1, <4>2 DEF Log!Overwritten
      <4> QED BY <2>4, <4>3
    <3>2. CASE s \in Log!Range(loggers[l].copy) /\ ~ open[s]
      <4>1. Log!SharedAndClosed(l, s)
        BY <1>1, <2>1, <3>2, LogClosedByAnother
      <4> QED BY <1>2, <2>4, <4>1 DEF Log!SharedAndClosed
    <3>3. CASE s \in Log!Range(loggers[l].copy) /\ open[s]
      BY <1>1, <1>2, <2>1, <2>4, <3>3 DEF Log!Written, LogReached
    <3> QED BY <3>1, <3>2, <3>3
  <2> QED BY <2>3, <2>4
<1>12. ASSUME NEW f \in Events PROVE LogSecure(f)'
  BY <1>2, <1>4, <1>10, <1>11, LogPastSecure DEF Log!emitVars
<1> QED BY <1>5, <1>6, <1>7, <1>8, <1>9, <1>12 DEF LogKept

\* A step that adds a logger.
LEMMA LogAddedFacts ==
    ASSUME LogKinds, NEW made, made \in LogRecords,
           NEW sinks \in SUBSET Log!AllSinks,
           loggers' = Append(loggers, made), wanted' = Append(wanted, sinks)
    PROVE  /\ loggers' \in Seq(LogRecords)
           /\ Log!Loggers' = Log!Loggers \cup {Len(loggers) + 1}
           /\ Len(loggers) + 1 \notin Log!Loggers
           /\ Log!Loggers \subseteq Nat /\ Len(loggers) + 1 \in Nat
           /\ wanted' \in Seq(SUBSET Log!AllSinks) /\ Len(wanted') = Len(loggers')
           /\ loggers'[Len(loggers) + 1] = made /\ wanted'[Len(loggers) + 1] = sinks
           /\ \A k \in Log!Loggers : loggers'[k] = loggers[k] /\ wanted'[k] = wanted[k]
<1>1. loggers \in Seq(LogRecords) /\ made \in LogRecords
  BY DEF LogKinds
<1>2. /\ loggers' \in Seq(LogRecords) /\ Len(loggers') = Len(loggers) + 1 /\ Len(loggers) \in Nat
      /\ DOMAIN loggers = 1 .. Len(loggers)
      /\ DOMAIN loggers' = 1 .. Len(loggers) + 1
      /\ loggers'[Len(loggers) + 1] = made
      /\ \A k \in DOMAIN loggers : loggers'[k] = loggers[k]
  BY <1>1
<1>3. wanted \in Seq(SUBSET Log!AllSinks) /\ Len(wanted) = Len(loggers)
  BY DEF LogKinds
<1>4. /\ wanted' \in Seq(SUBSET Log!AllSinks) /\ Len(wanted') = Len(wanted) + 1
      /\ wanted'[Len(wanted) + 1] = sinks
      /\ \A k \in 1 .. Len(wanted) : wanted'[k] = wanted[k]
  BY <1>3
<1> QED BY <1>2, <1>3, <1>4 DEF Log!Loggers

\* What every step that adds a logger keeps, given what it does to the lists.
LEMMA LogAddedStep ==
    ASSUME LogInv, NEW made, NEW sinks, NEW slice \in LogSlices, NEW copy \in Seq(Log!AllSinks),
           made = Log!Made(slice, copy), sinks \in SUBSET Log!AllSinks,
           loggers' = Append(loggers, made), wanted' = Append(wanted, sinks),
           UNCHANGED <<async, default, Log!sinkVars, Log!emitVars, shut, retired, closers>>,
           arrays' \in Seq(Seq(Log!AllSinks \cup {"none"})), displaced' \subseteq Log!AllSinks,
           displaced \subseteq displaced', program.at = "idle",
           ops < MaxOps, ops' = ops + 1, LogConstants,
           program' = program \/ program' = [at |-> "put", logger |-> Len(loggers) + 1,
                                             rest |-> <<>>],
           LogValid(slice)', sinks \ displaced' \subseteq Log!Range(Log!Listed(slice))',
           sinks \ displaced' \subseteq Log!Range(copy),
           \A other \in LogSlices : LogValid(other) =>
               /\ LogValid(other)'
               /\ Log!Range(Log!Listed(other)) \ displaced' \subseteq Log!Range(Log!Listed(other))',
           \A l \in Log!Loggers : \A s \in wanted[l] :
               s \in Log!Range(Log!Listed(loggers[l].sinks))' =>
                  s \in Log!Range(Log!Listed(loggers[l].sinks))
    PROVE  LogInv'
<1> USE DEF LogInv
<1> DEFINE new == Len(loggers) + 1
<1>1. made = [sinks |-> slice, copy |-> copy, up |-> TRUE, queue |-> {}]
  BY DEF Log!Made
<1>2. /\ made.sinks = slice /\ made.copy = copy /\ made.up /\ made.queue = {}
      /\ made \in LogRecords
  BY <1>1 DEF LogRecords
<1>3. /\ loggers' \in Seq(LogRecords)
      /\ Log!Loggers' = Log!Loggers \cup {new} /\ new \notin Log!Loggers
      /\ Log!Loggers \subseteq Nat /\ new \in Nat
      /\ wanted' \in Seq(SUBSET Log!AllSinks) /\ Len(wanted') = Len(loggers')
      /\ loggers'[new] = made /\ wanted'[new] = sinks
      /\ \A k \in Log!Loggers : loggers'[k] = loggers[k] /\ wanted'[k] = wanted[k]
  BY <1>2, LogAddedFacts
<1> HIDE DEF new
<1>4. program' = program \/ program' = [at |-> "put", logger |-> new, rest |-> <<>>]
  BY DEF new
<1>5. LogKinds'
  <2>1. ops' \in 0 .. MaxOps
    BY DEF LogKinds, LogConstants
  <2>2. program' \in [at : {"idle", "put", "stop", "drain", "close"}, logger : Nat,
                      rest : Seq(Log!AllSinks)]
    <3>1. CASE program' = program
      BY <3>1 DEF LogKinds
    <3>2. CASE program' = [at |-> "put", logger |-> new, rest |-> <<>>]
      BY <1>3, <3>2
    <3> QED BY <1>4, <3>1, <3>2
  <2> QED BY <1>3, <2>1, <2>2 DEF LogKinds, Log!sinkVars, Log!emitVars
<1>6. LogLists'
  <2>1. ASSUME NEW k \in Log!Loggers'
        PROVE  /\ LogValid(loggers[k].sinks)'
               /\ wanted'[k] \ displaced' \subseteq Log!Range(Log!Listed(loggers[k].sinks))'
               /\ wanted'[k] \ displaced' \subseteq Log!Range(loggers[k].copy)'
    <3>1. CASE k = new
      <4>1. loggers'[k].sinks = slice /\ loggers'[k].copy = copy /\ wanted'[k] = sinks
        BY <1>2, <1>3, <3>1
      <4>2. LogValid(loggers[k].sinks)' /\ Log!Listed(loggers[k].sinks)' = Log!Listed(slice)'
        BY <4>1 DEF LogValid, Log!Listed
      <4>3. Log!Range(Log!Listed(loggers[k].sinks))' = Log!Range(Log!Listed(slice))'
            /\ Log!Range(loggers[k].copy)' = Log!Range(copy)
        BY <4>1, <4>2 DEF Log!Range
      <4> QED BY <4>1, <4>2, <4>3
    <3>2. CASE k \in Log!Loggers
      <4>1. PICK other \in LogSlices : other = loggers[k].sinks
        BY <3>2, LogTypes
      <4>2. loggers'[k].sinks = other /\ loggers'[k].copy = loggers[k].copy
            /\ wanted'[k] = wanted[k]
        BY <1>3, <3>2, <4>1
      <4>3. LogValid(other) /\ wanted[k] \ displaced \subseteq Log!Range(Log!Listed(other))
            /\ wanted[k] \ displaced \subseteq Log!Range(loggers[k].copy)
        BY <3>2, <4>1 DEF LogLists
      <4>4. LogValid(other)' /\
               Log!Range(Log!Listed(other)) \ displaced' \subseteq Log!Range(Log!Listed(other))'
        BY <4>3
      <4>5. LogValid(loggers[k].sinks)' /\ Log!Listed(loggers[k].sinks)' = Log!Listed(other)'
        BY <4>2, <4>4 DEF LogValid, Log!Listed
      <4>6. Log!Range(Log!Listed(loggers[k].sinks))' = Log!Range(Log!Listed(other))'
            /\ Log!Range(loggers[k].copy)' = Log!Range(loggers[k].copy)
        BY <4>2, <4>5 DEF Log!Range
      <4> QED BY <4>2, <4>3, <4>4, <4>5, <4>6
    <3> QED BY <1>3, <3>1, <3>2
  <2> QED BY <2>1 DEF LogLists
<1>7. LogHands'
  <2>1. ASSUME NEW k \in Log!Loggers'
        PROVE  /\ loggers'[k].up <=> k \notin shut'
               /\ loggers'[k].queue # {} => async'
    <3>1. CASE k = new
      <4>1. k \notin shut'
        BY <1>3, <3>1 DEF LogKinds
      <4> QED BY <1>2, <1>3, <3>1, <4>1
    <3>2. CASE k \in Log!Loggers
      BY <1>3, <3>2 DEF LogHands
    <3> QED BY <1>3, <3>1, <3>2
  <2> QED BY <1>3, <2>1 DEF LogHands, Log!emitVars
<1>8. LogReplaced'
  <2>1. new \notin shut' \cup {default'} /\ new \in Log!Loggers'
    BY <1>3 DEF LogKinds
  <2> QED BY <1>3, <1>4, <2>1 DEF LogReplaced
<1>9. LogClosed'
  <2>1. program'.at # "close"
    BY <1>4
  <2>2. \A k \in shut : loggers'[k] = loggers[k]
    BY <1>3 DEF LogKinds
  <2> QED BY <2>1, <2>2 DEF LogClosed, Log!sinkVars
<1>10. ASSUME NEW e \in Events PROVE LogSecure(e)'
  <2>1. CASE result[e] = "none"
    BY <2>1 DEF LogSecure, Log!emitVars
  <2>2. CASE result[e] # "none"
    <3>1. PICK l \in Log!Loggers : l = hand[e]
      BY <2>2 DEF LogHands
    <3>2. wanted'[l] = wanted[l] /\ loggers'[l] = loggers[l] /\ hand'[e] = l
          /\ wanted[l] \subseteq Log!AllSinks /\ refused[e] \subseteq Log!AllSinks
      BY <1>3, <3>1, LogTypes DEF Log!emitVars, LogKinds
    <3>3. ASSUME result'[e] = "ok", e \notin late', NEW s \in wanted'[l]
          PROVE  LogReached(e, l, s)' \/ Log!SharedAndClosed(l, s)' \/ Log!Overwritten(l, s)'
      <4>1. s \in wanted[l] /\ s \in Log!AllSinks
        BY <3>2
      <4>2. LogReached(e, l, s) \/ Log!SharedAndClosed(l, s) \/ Log!Overwritten(l, s)
        BY <3>1, <3>3, <4>1 DEF LogKept, LogSecure, Log!emitVars
      <4>3. CASE LogReached(e, l, s)
        BY <3>2, <4>3 DEF LogReached, Log!sinkVars
      <4>4. CASE Log!SharedAndClosed(l, s) \/ Log!Overwritten(l, s)
        BY <3>2, <4>1, <4>4, LogExcuses
      <4> QED BY <4>2, <4>3, <4>4
    <3>4. ASSUME result'[e] = "error", e \notin late'
          PROVE  \E s \in refused'[e] : Log!SharedAndClosed(l, s)'
      BY <3>1, <3>2, <3>4 DEF LogKept, LogSecure, Log!SharedAndClosed, Log!emitVars
    <3> QED BY <3>2, <3>3, <3>4, LogSecureAt
  <2> QED BY <2>1, <2>2
<1> QED BY <1>5, <1>6, <1>7, <1>8, <1>9, <1>10 DEF LogKept

\* A child: an append may write over a sibling's sink, which is displaced.
LEMMA LogChildStep ==
    ASSUME LogConstants, LogInv, Log!Child
    PROVE  LogInv'
<1> USE DEF LogInv
<1>1. PICK l \in Log!Loggers, s \in Log!Free :
         LET slice == Log!AppendedSlice(loggers[l].sinks, s) IN
         /\ arrays' = Log!Appended(loggers[l].sinks, s)
         /\ loggers' = Append(loggers, Log!Made(slice, SubSeq(arrays'[slice.array], 1, slice.len)))
         /\ wanted' = Append(wanted, wanted[l] \cup {s})
         /\ displaced' = displaced \cup Log!Under(loggers[l].sinks)
  BY DEF Log!Child
<1>2. PICK slice \in LogSlices : slice = loggers[l].sinks
  BY LogTypes
<1>3. PICK new : new = Log!AppendedSlice(slice, s)
  OBVIOUS
<1>4. s \in Log!AllSinks /\ \A k \in Log!Loggers : s \notin wanted[k]
  BY DEF Log!Free
<1>5. /\ LogValid(slice) /\ wanted[l] \ displaced \subseteq Log!Range(Log!Listed(slice))
      /\ wanted[l] \subseteq Log!AllSinks
  BY <1>2, LogTypes DEF LogLists
<1>6. arrays' = Log!Appended(slice, s) /\ displaced' = displaced \cup Log!Under(slice)
  BY <1>1, <1>2
<1>7. /\ new \in LogSlices /\ LogValid(new)'
      /\ Log!Listed(new)' \in Seq(Log!AllSinks)
      /\ Log!Range(Log!Listed(new)') = Log!Range(Log!Listed(slice)) \cup {s}
  BY <1>3, <1>4, <1>5, <1>6, LogChildList
<1>8. PICK copy \in Seq(Log!AllSinks) : copy = Log!Listed(new)'
  BY <1>7
<1>9. loggers' = Append(loggers, Log!Made(new, copy))
  <2>1. copy = SubSeq(arrays'[new.array], 1, new.len)
    BY <1>8 DEF Log!Listed
  <2> QED BY <1>1, <1>2, <1>3, <2>1
<1>10. /\ arrays' \in Seq(Seq(Log!AllSinks \cup {"none"}))
       /\ Log!Under(slice) \subseteq Log!AllSinks
  <2>1. arrays' \in Seq(Seq(Log!AllSinks \cup {"none"}))
    BY <1>3, <1>4, <1>5, <1>6, LogAppend
  <2>2. ASSUME Log!Room(slice) > 0
        PROVE arrays[slice.array][slice.len + 1] \in Log!AllSinks \cup {"none"}
    <3>1. PICK array \in Seq(Log!AllSinks \cup {"none"}) : array = arrays[slice.array]
      BY <1>5 DEF LogKinds, LogValid
    <3>2. slice.len + 1 \in DOMAIN array
      BY <2>2, <3>1 DEF Log!Room, LogSlices
    <3>3. array[slice.len + 1] \in Log!AllSinks \cup {"none"}
      BY <3>2
    <3> QED BY <3>1, <3>3
  <2> QED BY <2>1, <2>2 DEF Log!Under
<1>11. ASSUME NEW other \in LogSlices, LogValid(other)
       PROVE  /\ LogValid(other)'
              /\ Log!Range(Log!Listed(other)) \ Log!Under(slice)
                    \subseteq Log!Range(Log!Listed(other))'
              /\ Log!Range(Log!Listed(other))' \subseteq Log!Range(Log!Listed(other)) \cup {s}
  <2>1. /\ LogValid(other)'
        /\ Log!Range(Log!Listed(other)) \ Log!Under(slice) \subseteq Log!Range(Log!Listed(other)')
        /\ Log!Range(Log!Listed(other)') \subseteq Log!Range(Log!Listed(other)) \cup {s}
    BY <1>4, <1>5, <1>6, <1>11, LogAppendOthers
  <2>2. Log!Range(Log!Listed(other))' = Log!Range(Log!Listed(other)')
    BY DEF Log!Range
  <2> QED BY <2>1, <2>2
<1>12. ASSUME NEW k \in Log!Loggers, NEW t \in wanted[k],
              t \in Log!Range(Log!Listed(loggers[k].sinks))'
       PROVE  t \in Log!Range(Log!Listed(loggers[k].sinks))
  <2>1. PICK other \in LogSlices : other = loggers[k].sinks
    BY LogTypes
  <2>2. other = loggers'[k].sinks
    <3>1. loggers \in Seq(LogRecords) /\ k \in DOMAIN loggers
      BY DEF LogKinds, Log!Loggers
    <3>2. loggers'[k] = loggers[k]
      BY <1>9, <3>1
    <3> QED BY <2>1, <3>2
  <2>3. LogValid(other)
    BY <2>1 DEF LogLists
  <2>4. Log!Listed(loggers[k].sinks)' = Log!Listed(other)'
    BY <2>2 DEF Log!Listed
  <2>5. t \in Log!Range(Log!Listed(other))'
    BY <1>12, <2>4 DEF Log!Range
  <2>6. t # s
    BY <1>4, <1>12
  <2> QED BY <1>11, <2>1, <2>3, <2>5, <2>6
<1>13. /\ (wanted[l] \cup {s}) \ displaced' \subseteq Log!Range(Log!Listed(new))'
       /\ (wanted[l] \cup {s}) \ displaced' \subseteq Log!Range(copy)
       /\ wanted[l] \cup {s} \in SUBSET Log!AllSinks
  <2>1. Log!Range(Log!Listed(new))' = Log!Range(Log!Listed(slice)) \cup {s}
    BY <1>7 DEF Log!Range
  <2>2. Log!Range(copy) = Log!Range(Log!Listed(slice)) \cup {s}
    BY <1>7, <1>8
  <2> QED BY <1>4, <1>5, <1>6, <2>1, <2>2
<1>14. /\ UNCHANGED <<async, default, Log!sinkVars, Log!emitVars, shut, retired, closers, program>>
       /\ program.at = "idle" /\ ops < MaxOps /\ ops' = ops + 1
  BY DEF Log!Child
<1>15. displaced' \subseteq Log!AllSinks /\ displaced \subseteq displaced'
  BY <1>6, <1>10 DEF LogKinds
<1>16. \A other \in LogSlices : LogValid(other) =>
          /\ LogValid(other)'
          /\ Log!Range(Log!Listed(other)) \ displaced' \subseteq Log!Range(Log!Listed(other))'
  BY <1>6, <1>11
<1>17. \A k \in Log!Loggers : \A t \in wanted[k] :
          t \in Log!Range(Log!Listed(loggers[k].sinks))' =>
             t \in Log!Range(Log!Listed(loggers[k].sinks))
  BY <1>12
<1>18. PICK made, sinks : made = Log!Made(new, copy) /\ sinks = wanted[l] \cup {s}
  OBVIOUS
<1> QED BY <1>1, <1>7, <1>9, <1>10, <1>13, <1>14, <1>15, <1>16, <1>17, <1>18, LogAddedStep

\* A new configuration has a list of its own.
LEMMA LogConfigureStep ==
    ASSUME LogConstants, LogInv, Log!Configure
    PROVE  LogInv'
<1> USE DEF LogInv
<1>1. PICK s \in Log!Free :
         /\ arrays' = Append(arrays, <<s>>)
         /\ loggers' = Append(loggers, Log!Made([array |-> Len(arrays) + 1, len |-> 1], <<s>>))
         /\ wanted' = Append(wanted, {s})
  BY DEF Log!Configure
<1>2. s \in Log!AllSinks /\ s # "none"
  BY DEF Log!Free, Log!AllSinks
<1>3. PICK slice : slice = [array |-> Len(arrays) + 1, len |-> 1]
  OBVIOUS
<1>4. PICK copy : copy = <<s>>
  OBVIOUS
<1>5. /\ copy \in Seq(Log!AllSinks) /\ copy \in Seq(Log!AllSinks \cup {"none"})
      /\ Len(copy) = 1 /\ DOMAIN copy = {1} /\ copy[1] = s
      /\ SubSeq(copy, 1, 1) = copy /\ Log!Range(copy) = {s}
  <2>1. Len(copy) = 1 /\ DOMAIN copy = {1} /\ copy[1] = s
    BY <1>4
  <2>2. copy \in Seq(Log!AllSinks) /\ copy \in Seq(Log!AllSinks \cup {"none"})
    BY <1>2, <1>4
  <2>3. SubSeq(copy, 1, 1) = copy
    BY <2>1, <2>2
  <2>4. Log!Range(copy) = {s}
    BY <2>1 DEF Log!Range
  <2> QED BY <2>1, <2>2, <2>3, <2>4
<1>6. /\ arrays' \in Seq(Seq(Log!AllSinks \cup {"none"})) /\ Len(arrays') = Len(arrays) + 1
      /\ Len(arrays) \in Nat /\ arrays'[Len(arrays) + 1] = copy
      /\ \A a \in DOMAIN arrays : a \in DOMAIN arrays' /\ arrays'[a] = arrays[a]
  BY <1>1, <1>4, <1>5 DEF LogKinds
<1>7. slice \in LogSlices
  BY <1>3, <1>6 DEF LogSlices
<1>8. slice.array = Len(arrays) + 1 /\ slice.len = 1 /\ arrays'[slice.array] = copy
      /\ slice.array \in DOMAIN arrays'
  BY <1>3, <1>6
<1>9. LogValid(slice)'
  <2>1. \A i \in 1 .. 1 : copy[i] # "none"
    BY <1>2, <1>5
  <2>2. 1 <= Len(copy)
    BY <1>5
  <2> QED BY <1>8, <2>1, <2>2 DEF LogValid
<1>10. Log!Listed(slice)' = copy
  BY <1>5, <1>8 DEF Log!Listed
<1>11. {s} \ displaced \subseteq Log!Range(Log!Listed(slice))' /\
          {s} \ displaced \subseteq Log!Range(copy)
  <2>1. Log!Range(Log!Listed(slice))' = Log!Range(copy)
    BY <1>10 DEF Log!Range
  <2> QED BY <1>5, <2>1
<1>12. ASSUME NEW other \in LogSlices, LogValid(other)
       PROVE  LogValid(other)' /\ Log!Listed(other)' = Log!Listed(other)
  <2>1. arrays'[other.array] = arrays[other.array] /\ other.array \in DOMAIN arrays'
    BY <1>6, <1>12 DEF LogValid
  <2> QED BY <1>12, <2>1 DEF LogValid, Log!Listed
<1>13. \A other \in LogSlices : LogValid(other) =>
          /\ LogValid(other)'
          /\ Log!Range(Log!Listed(other)) \ displaced \subseteq Log!Range(Log!Listed(other))'
  <2> SUFFICES ASSUME NEW other \in LogSlices, LogValid(other)
               PROVE  LogValid(other)' /\
                         Log!Range(Log!Listed(other))' = Log!Range(Log!Listed(other))
    OBVIOUS
  <2> QED BY <1>12 DEF Log!Range
<1>14. ASSUME NEW k \in Log!Loggers
       PROVE  Log!Range(Log!Listed(loggers[k].sinks))' = Log!Range(Log!Listed(loggers[k].sinks))
  <2>1. PICK other \in LogSlices : other = loggers[k].sinks /\ LogValid(other)
    BY LogTypes DEF LogLists
  <2>2. other = loggers'[k].sinks
    <3>1. loggers \in Seq(LogRecords) /\ k \in DOMAIN loggers
      BY DEF LogKinds, Log!Loggers
    <3>2. loggers'[k] = loggers[k]
      BY <1>1, <3>1
    <3> QED BY <2>1, <3>2
  <2>3. Log!Listed(loggers[k].sinks)' = Log!Listed(other)'
    BY <2>2 DEF Log!Listed
  <2>4. Log!Listed(loggers[k].sinks)' = Log!Listed(loggers[k].sinks)
    BY <1>12, <2>1, <2>3
  <2> QED BY <2>4 DEF Log!Range
<1>15. /\ UNCHANGED <<async, default, Log!sinkVars, Log!emitVars, shut, retired, closers>>
       /\ displaced' = displaced
       /\ program.at = "idle" /\ ops < MaxOps /\ ops' = ops + 1
       /\ program' = [at |-> "put", logger |-> Len(loggers) + 1, rest |-> <<>>]
  BY DEF Log!Configure
<1>16. PICK made, sinks : made = Log!Made(slice, copy) /\ sinks = {s}
  OBVIOUS
<1>17. loggers' = Append(loggers, made) /\ wanted' = Append(wanted, sinks)
  BY <1>1, <1>3, <1>4, <1>16
<1>18. /\ sinks \in SUBSET Log!AllSinks /\ displaced' \subseteq Log!AllSinks
       /\ displaced \subseteq displaced'
       /\ sinks \ displaced' \subseteq Log!Range(Log!Listed(slice))'
       /\ sinks \ displaced' \subseteq Log!Range(copy)
  BY <1>2, <1>11, <1>15, <1>16 DEF LogKinds
<1>19. \A other \in LogSlices : LogValid(other) =>
          /\ LogValid(other)'
          /\ Log!Range(Log!Listed(other)) \ displaced' \subseteq Log!Range(Log!Listed(other))'
  BY <1>13, <1>15
<1>20. \A l \in Log!Loggers : \A t \in wanted[l] :
          t \in Log!Range(Log!Listed(loggers[l].sinks))' =>
             t \in Log!Range(Log!Listed(loggers[l].sinks))
  BY <1>14
<1>21. arrays' \in Seq(Seq(Log!AllSinks \cup {"none"})) /\ copy \in Seq(Log!AllSinks)
  BY <1>5, <1>6
<1>22. program' = program \/ program' = [at |-> "put", logger |-> Len(loggers) + 1,
                                         rest |-> <<>>]
  BY <1>15
<1> QED BY <1>7, <1>9, <1>15, <1>16, <1>17, <1>18, <1>19, <1>20, <1>21, <1>22, LogAddedStep

\* Nothing happens.
LEMMA LogStays ==
    ASSUME LogInv, UNCHANGED Log!vars
    PROVE  LogInv'
<1> USE DEF LogInv, Log!vars
<1>1. LogKinds'
  BY DEF LogKinds, Log!Loggers
<1>2. LogLists'
  BY LogSameLists DEF Log!Loggers
<1>3. LogHands' /\ LogReplaced' /\ LogClosed'
  BY DEF LogHands, LogReplaced, LogClosed, Log!Loggers
<1>4. LogKept'
  BY LogNoneMoved
<1> QED BY <1>1, <1>2, <1>3, <1>4

\* An event that a logger took is in the sinks it was made with, or on its way there, and a
\* logger refuses nobody but who is late, or for a sink that another closed
\* (EmitEventWithContext, Configure and Shutdown of logger.go).
THEOREM LogsKeep == LogConstants =>
   (Log!Spec => [](Log!TypeOK /\ Log!EmittedIsKept /\ Log!NoneRefused))
<1> SUFFICES ASSUME LogConstants
             PROVE  Log!Spec => [](Log!TypeOK /\ Log!EmittedIsKept /\ Log!NoneRefused)
  OBVIOUS
<1>1. Log!Init => LogInv
  BY LogStart
<1>2. LogInv /\ [Log!Next]_Log!vars => LogInv'
  <2> SUFFICES ASSUME LogInv, [Log!Next]_Log!vars PROVE LogInv'
    OBVIOUS
  <2>1. CASE \E e \in Events : Log!Pick(e)
    BY <2>1, LogPickStep
  <2>2. CASE \E e \in Events : Log!Emit(e)
    BY <2>2, LogEmitStep
  <2>3. CASE \E l \in Log!Loggers : Log!Work(l)
    BY <2>3, LogWorkStep
  <2>4. CASE (\E s \in Log!AllSinks : Log!Tick(s)) \/ (\E l \in Log!Loggers : Log!Flush(l)) \/
                Log!Close
    BY <2>4, LogFlushStep
  <2>5. CASE Log!Child
    BY <2>5, LogChildStep
  <2>6. CASE Log!Configure
    BY <2>6, LogConfigureStep
  <2>7. CASE Log!Put \/ Log!Shutdown \/ Log!SetDefault \/ Log!Expire
    BY <2>7, LogProgramStep
  <2>8. CASE Log!Stop
    BY <2>8, LogStopStep
  <2>9. CASE Log!Drain
    BY <2>9, LogDrainStep
  <2>10. CASE UNCHANGED Log!vars
    BY <2>10, LogStays
  <2> QED BY <2>1, <2>2, <2>3, <2>4, <2>5, <2>6, <2>7, <2>8, <2>9, <2>10 DEF Log!Next
<1>3. LogInv => Log!TypeOK /\ Log!EmittedIsKept /\ Log!NoneRefused
  <2> SUFFICES ASSUME LogInv PROVE Log!TypeOK /\ Log!EmittedIsKept /\ Log!NoneRefused
    OBVIOUS
  <2>1. Log!TypeOK
    BY DEF LogInv, LogKinds, LogLists, LogValid, Log!TypeOK
  <2>2. Log!EmittedIsKept /\ Log!NoneRefused
    BY DEF LogInv, LogKept, LogSecure, LogReached, Log!EmittedIsKept, Log!NoneRefused
  <2> QED BY <2>1, <2>2
<1> QED BY <1>1, <1>2, <1>3, PTL DEF Log!Spec

=============================================================================
