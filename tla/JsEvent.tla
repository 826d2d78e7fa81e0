------------------------------ MODULE JsEvent ------------------------------
(***************************************************************************)
(* An event of the JavaScript SDK (sdks/js/src/core/event.ts, logger.ts,   *)
(* timing.ts, sanitize.ts): Logger.run awaits the application's function   *)
(* and then finishes and emits the event, while other callbacks set        *)
(* attributes, finish it, or emit it themselves.  JavaScript runs one      *)
(* callback at a time: a step goes from one await to the next.             *)
(***************************************************************************)
EXTENDS Integers, Sequences, FiniteSets

CONSTANTS
    Keys,       \* attributes
    Handles,    \* processes, groups and timers
    MaxFaults   \* failures: the sampler says no, the encoder throws, the
                \* sink rejects

Run == "run"            \* the call of Logger.run
Explicit == "explicit"  \* a call of Logger.emit
Emitters == {Run, Explicit}
Outcomes == {"success", "error", "cancelled"}

VARIABLES
    state, emitted,    \* _state, _emitted
    outcome, error,    \* the event's; error is TRUE when there is one
    attrs, dropped,    \* attributes it has, _droppedKeys
    entries,           \* handles with an entry in processes, groups or timers
    open,              \* handles that were started
    pc,                \* of the two emitters
    payload,           \* what an emitter has encoded
    sink,              \* what the sink took, in order
    accepted,          \* history: attributes whose call returned
    sampledOut,        \* history: the sampler said no
    refused,           \* history: a finishError came after a finish
    late,              \* history: handles that ended after the encoding
    faults

event == <<state, emitted, outcome, error, attrs, dropped, entries>>
history == <<accepted, sampledOut, refused, late>>
vars == <<event, open, pc, payload, sink, history, faults>>

Nothing == [attrs |-> {}, entries |-> {}, outcome |-> "unset", error |-> FALSE]

Init ==
    /\ state = "created" /\ emitted = FALSE
    /\ outcome = "unset" /\ error = FALSE
    /\ attrs = {} /\ dropped = {} /\ entries = {} /\ open = {}
    /\ pc = [t \in Emitters |-> IF t = Run THEN "fn" ELSE "idle"]
    /\ payload = [t \in Emitters |-> Nothing]
    /\ sink = <<>>
    /\ accepted = {} /\ sampledOut = FALSE /\ refused = FALSE /\ late = {}
    /\ faults = 0

Fault == faults < MaxFaults /\ faults' = faults + 1

-----------------------------------------------------------------------------
\* The calls of the application.

\* Mutant: an event on its way to the sink still takes attributes.
ensureMutable_ByState == state \notin {"emitted", "failed_validation"}

ensureMutable == ~emitted /\ state \notin {"emitted", "failed_validation"}

markActive == state' = IF state = "created" THEN "active" ELSE state

\* enrich, append, set and merge.
enrich(k) ==
    /\ ensureMutable
    /\ markActive
    /\ attrs' = attrs \cup {k}
    /\ accepted' = accepted \cup {k}
    /\ UNCHANGED <<emitted, outcome, error, dropped, entries, open, pc,
                   payload, sink, sampledOut, refused, late, faults>>

\* enrich with an attribute that says drop: the key is never sent again.
drop(k) ==
    /\ ensureMutable
    /\ markActive
    /\ dropped' = dropped \cup {k}
    /\ attrs' = attrs \ {k}
    /\ accepted' = accepted \ {k}
    /\ UNCHANGED <<emitted, outcome, error, entries, open, pc, payload, sink,
                   sampledOut, refused, late, faults>>

delete(k) ==
    /\ ensureMutable
    /\ attrs' = attrs \ {k}
    /\ accepted' = accepted \ {k}
    /\ UNCHANGED <<state, emitted, outcome, error, dropped, entries, open, pc,
                   payload, sink, sampledOut, refused, late, faults>>

start(h) ==
    /\ h \notin open \cup entries
    /\ ensureMutable
    /\ open' = open \cup {h}
    /\ UNCHANGED <<event, pc, payload, sink, history, faults>>

\* A handle adds its entry whatever the state of the event.
stop(h) ==
    /\ h \in open
    /\ open' = open \ {h}
    /\ entries' = entries \cup {h}
    /\ late' = IF emitted THEN late \cup {h} ELSE late
    /\ UNCHANGED <<state, emitted, outcome, error, attrs, dropped, pc, payload,
                   sink, accepted, sampledOut, refused, faults>>

CanFinish == ensureMutable /\ state # "finished"

Finished(o) == outcome' = o /\ state' = "finished"

finish(o) ==
    /\ CanFinish
    /\ Finished(o)
    /\ UNCHANGED <<emitted, error, attrs, dropped, entries, open, pc, payload,
                   sink, history, faults>>

\* The error is on the event before finish says whether it may be.
finishError ==
    /\ error' = TRUE
    /\ IF CanFinish THEN Finished("error") /\ UNCHANGED refused
       ELSE refused' = TRUE /\ UNCHANGED <<outcome, state>>
    /\ UNCHANGED <<emitted, attrs, dropped, entries, open, pc, payload, sink,
                   accepted, sampledOut, late, faults>>

-----------------------------------------------------------------------------
\* Logger.emit, up to its await.  The event's finish may come before it in the
\* same step: the event is the one finish leaves.

\* What the clone holds after the attributes to drop are gone.
Encoded(o, e) ==
    [attrs |-> attrs \ dropped, entries |-> entries, outcome |-> o, error |-> e]

\* Mutant: only the state says that the event is on its way.
markEmitted_State(s) == state' = s /\ UNCHANGED emitted

markEmitted(s) == state' = s /\ emitted' = TRUE

\* Its callers say when it runs.
emit(t, o, e) ==
    \/ /\ emitted
       /\ pc' = [pc EXCEPT ![t] = "null"]
       /\ UNCHANGED <<state, emitted, payload, sampledOut, faults>>
    \/ /\ ~emitted
       /\ markEmitted("emitting")
       /\ pc' = [pc EXCEPT ![t] = "writing"]
       /\ payload' = [payload EXCEPT ![t] = Encoded(o, e)]
       /\ UNCHANGED <<sampledOut, faults>>
    \/ /\ ~emitted
       /\ Fault
       /\ markEmitted("emitted")
       /\ sampledOut' = TRUE
       /\ pc' = [pc EXCEPT ![t] = "null"]
       /\ UNCHANGED payload
    \/ /\ ~emitted  \* the sampler, the schema or the redactor throws
       /\ Fault
       /\ markEmitted("emitting")
       /\ pc' = [pc EXCEPT ![t] = "rejected"]
       /\ UNCHANGED <<payload, sampledOut>>

emitExplicit ==
    /\ pc[Explicit] = "idle"
    /\ emit(Explicit, outcome, error)
    /\ UNCHANGED <<outcome, error, attrs, dropped, entries, open, sink,
                   accepted, refused, late>>

\* drop, cancel, abandon, retry and partial of the logger: finish and emit in
\* one step.
finishAndEmit(o) ==
    /\ pc[Explicit] = "idle"
    /\ CanFinish
    /\ outcome' = o
    /\ emit(Explicit, o, error)
    /\ UNCHANGED <<error, attrs, dropped, entries, open, sink, accepted,
                   refused, late>>

\* The sink has taken the text, or rejects.
Written(t) ==
    /\ pc[t] = "writing"
    /\ sink' = Append(sink, payload[t])
    /\ state' = "emitted"
    /\ pc' = [pc EXCEPT ![t] = "delivered"]
    /\ UNCHANGED <<emitted, outcome, error, attrs, dropped, entries, open, payload,
                   history, faults>>

NotWritten(t) ==
    /\ pc[t] = "writing"
    /\ Fault
    /\ state' = "delivery_failed"
    /\ pc' = [pc EXCEPT ![t] = "null"]
    /\ UNCHANGED <<emitted, outcome, error, attrs, dropped, entries, open,
                   payload, sink, history>>

-----------------------------------------------------------------------------
\* Logger.run: the function has returned or thrown.

\* The finish of the run throws: so does the finishError of its catch, which
\* leaves its error, and the run rejects without emitting.
Rejects(how) ==
    /\ error' = TRUE
    /\ refused' = TRUE
    /\ pc' = [pc EXCEPT ![Run] = how]
    /\ UNCHANGED <<state, emitted, outcome, attrs, dropped, entries, open,
                   payload, sink, accepted, sampledOut, late, faults>>

\* Mutant: the run finishes the event that the function has finished.
Unfinished_Any == TRUE

Unfinished == state # "finished"

Returns ==
    /\ pc[Run] = "fn"
    /\ \/ /\ Unfinished /\ CanFinish
          /\ outcome' = "success"
          /\ emit(Run, "success", error)
          /\ UNCHANGED <<error, attrs, dropped, entries, open, sink, accepted,
                         refused, late>>
       \/ /\ ~Unfinished
          /\ emit(Run, outcome, error)
          /\ UNCHANGED <<outcome, error, attrs, dropped, entries, open, sink,
                         accepted, refused, late>>
       \/ Unfinished /\ ~CanFinish /\ Rejects("rejected")

Throws ==
    /\ pc[Run] = "fn"
    /\ \/ /\ CanFinish
          /\ outcome' = "error" /\ error' = TRUE
          /\ emit(Run, "error", TRUE)
          /\ UNCHANGED <<attrs, dropped, entries, open, sink, accepted,
                         refused, late>>
       \/ ~CanFinish /\ Rejects("thrown")

Calls ==
    \/ \E k \in Keys : enrich(k) \/ drop(k) \/ delete(k)
    \/ \E h \in Handles : start(h) \/ stop(h)
    \/ finish("success") \/ finishError
    \/ emitExplicit \/ finishAndEmit("cancelled")

Next == Calls \/ Returns \/ Throws \/ \E t \in Emitters : Written(t) \/ NotWritten(t)

Spec == Init /\ [][Next]_vars

-----------------------------------------------------------------------------
TypeOK ==
    /\ state \in {"created", "active", "finished", "emitting", "emitted",
                  "delivery_failed"}
    /\ emitted \in BOOLEAN /\ error \in BOOLEAN
    /\ outcome \in Outcomes \cup {"unset"}
    /\ attrs \subseteq Keys /\ dropped \subseteq Keys
    /\ entries \subseteq Handles /\ open \subseteq Handles
    /\ \A t \in Emitters :
          pc[t] \in {"fn", "idle", "writing", "delivered", "null", "rejected", "thrown"}
    /\ faults \in 0 .. MaxFaults

\* The sink takes the event once (logger.ts, emit), with every attribute a call
\* accepted and did not remove again (event.ts, enrich, set, merge; a key that
\* was dropped once stays out) and every handle that had ended.
OnceAndWhole ==
    /\ Len(sink) <= 1
    /\ \A i \in DOMAIN sink :
          /\ sink[i].attrs = accepted \ dropped
          /\ entries \ late \subseteq sink[i].entries

\* The state tells what happened: emitted when the sink took the event or the
\* sampler said no, delivery_failed only when the sink did not take it.
StateTells ==
    /\ state = "emitted" => Len(sink) = 1 \/ sampledOut
    /\ state = "delivery_failed" => sink = <<>>

\* What is sent agrees with itself: an error with the outcome of an error, a
\* finished event with an outcome.  The exceptions: a finishError that was
\* refused has left its error, and emit does not ask for a finish.
OutcomeFits ==
    \A i \in DOMAIN sink :
        /\ sink[i].error => sink[i].outcome = "error" \/ refused
        /\ sink[i].outcome = "unset" => pc[Explicit] = "delivered"

\* A run that has ended has emitted the event, or found it emitted, unless the
\* function had finished the event and then threw: the run rejects and nothing
\* is sent (logger.ts, run).
RunEmits ==
    pc[Run] # "fn" => emitted \/ (pc[Run] = "thrown" /\ outcome # "unset")
=============================================================================
