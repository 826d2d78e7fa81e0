------------------------------ MODULE PyEvent ------------------------------
(***************************************************************************)
(* An event of the Python SDK (sdks/py/src/loza/core/event.py, logger.py,  *)
(* timing.py).  Nothing in it is locked: a thread may stop between the     *)
(* check of the state and what relies on it, while other threads set       *)
(* attributes, finish the event or emit it too.                            *)
(***************************************************************************)
EXTENDS Integers, Sequences, FiniteSets

CONSTANTS
    Emitters,    \* threads that call emit
    Attributes,  \* keys; Canonical of them are names of the event's own fields
    Canonical,
    Sinks,       \* in the order of the configuration
    Policies,    \* records [duplicate, strict, recovery, pipeline]
    MaxFaults    \* failures: validation, sampler, size, encoder, sink, queue

Closed == {"emitted", "emitting", "delivery_failed", "failed_validation"}

VARIABLES
    policy,
    state, emitted,     \* event_state, emitted
    finished, outcome,  \* finished_at is set, the outcome
    attrs, entries,     \* the event's attributes and timing entries
    setter,             \* the attribute a thread is about to set, or "none"
    pc,                 \* of the emitters
    payload,            \* what each has encoded
    next, failed,       \* of each: the next sink, whether one has failed
    got,                \* the payloads each sink has, the pipeline's in "queue"
    accepted,           \* history: attributes whose call has returned
    passed,             \* history: emitters that passed the check
    raced,              \* history: two threads were where one should be
    unsent,             \* history: dropped by intent, or before it was sent
    faults

event == <<state, emitted, finished, outcome, attrs, entries>>
emitting == <<pc, payload, next, failed>>
history == <<accepted, passed, raced, unsent>>
vars == <<policy, event, setter, emitting, got, history, faults>>

Queue == "queue"
Places == {Sinks[i] : i \in DOMAIN Sinks} \cup {Queue}
Nothing == [attrs |-> {}, outcome |-> "unset"]

Init ==
    /\ policy \in Policies
    /\ state = "created" /\ emitted = FALSE
    /\ finished = FALSE /\ outcome = "unset"
    /\ attrs = {} /\ entries = 0 /\ setter = "none"
    /\ pc = [t \in Emitters |-> "idle"]
    /\ payload = [t \in Emitters |-> Nothing]
    /\ next = [t \in Emitters |-> 1]
    /\ failed = [t \in Emitters |-> FALSE]
    /\ got = [p \in Places |-> <<>>]
    /\ accepted = {} /\ passed = {} /\ raced = FALSE /\ unsent = FALSE
    /\ faults = 0

Fault == faults < MaxFaults /\ faults' = faults + 1
Go(t, to) == pc' = [pc EXCEPT ![t] = to]

\* An emitter has passed the check and has not left emit.
Inside(t) == pc[t] \in {"check", "mark", "encode", "deliver", "end", "tell", "recover"}

\* An emitter has passed the check and the state does not say so yet.
InGap == \E t \in Emitters : pc[t] \in {"check", "mark"}

-----------------------------------------------------------------------------
\* The calls of the application.

\* Mutant: an event that is being sent still takes attributes.
ensure_mutable_Emitting == state \notin Closed \ {"emitting"}

ensure_mutable == state \notin Closed

mark_active == state' = IF state = "created" THEN "active" ELSE state

\* enrich, set, merge: the check, and then the attribute.
Enrich(k) ==
    /\ setter = "none"
    /\ ensure_mutable
    /\ mark_active
    /\ setter' = k
    /\ raced' = (raced \/ InGap)
    /\ UNCHANGED <<policy, emitted, finished, outcome, attrs, entries, emitting,
                   got, accepted, passed, unsent, faults>>

Apply ==
    /\ setter # "none"
    /\ setter' = "none"
    /\ attrs' = attrs \cup {setter}
    /\ accepted' = accepted \cup {setter}
    /\ UNCHANGED <<policy, state, emitted, finished, outcome, entries, emitting,
                   got, passed, raced, unsent, faults>>

\* A process, group or timer ends: its entry is added without a check.
Stop ==
    /\ entries = 0
    /\ entries' = 1
    /\ UNCHANGED <<policy, state, emitted, finished, outcome, attrs, setter,
                   emitting, got, history, faults>>

finish(o) ==
    /\ ensure_mutable /\ ~finished
    /\ finished' = TRUE /\ outcome' = o
    /\ state' = "finished"
    /\ raced' = (raced \/ InGap)
    /\ UNCHANGED <<policy, emitted, attrs, entries, setter, emitting, got,
                   accepted, passed, unsent, faults>>

mark_partial ==
    /\ ensure_mutable
    /\ state' = "finished"
    /\ raced' = (raced \/ InGap)
    /\ UNCHANGED <<policy, emitted, finished, outcome, attrs, entries, setter,
                   emitting, got, accepted, passed, unsent, faults>>

\* drop and cancel of the logger: finished, and marked as emitted unsent.
drop ==
    /\ ensure_mutable /\ ~finished
    /\ finished' = TRUE /\ outcome' = "abandoned"
    /\ state' = "emitted" /\ emitted' = TRUE
    /\ unsent' = TRUE
    /\ raced' = (raced \/ InGap)
    /\ UNCHANGED <<policy, attrs, entries, setter, emitting, got, accepted,
                   passed, faults>>

-----------------------------------------------------------------------------
\* Logger.emit.

\* With panic_recovery every exception comes by here, also the one that says
\* that the event is closed.
Raise(t) == Go(t, IF policy.recovery THEN "recover" ELSE "raised")

\* Mutant: an event whose delivery failed may be emitted again.
MayEmit_Retries == state \notin {"emitting", "failed_validation"}

MayEmit == state \notin {"emitting", "delivery_failed", "failed_validation"}

Begin(t) ==
    /\ pc[t] = "idle"
    /\ IF state = "emitted" \/ emitted THEN Go(t, "returned") /\ UNCHANGED <<passed, raced>>
       ELSE IF ~MayEmit THEN Raise(t) /\ UNCHANGED <<passed, raced>>
       ELSE /\ Go(t, "check")
            /\ passed' = passed \cup {t}
            /\ raced' = (raced \/ setter # "none" \/ \E u \in Emitters : Inside(u))
    /\ UNCHANGED <<policy, event, setter, payload, next, failed, got, accepted,
                   unsent, faults>>

Fails(t, s) ==
    /\ state' = s /\ emitted' = FALSE
    /\ Raise(t)

\* In strict mode the event is checked against the contract.
Validate(t) ==
    /\ pc[t] = "check"
    /\ \/ /\ Go(t, "mark")
          /\ UNCHANGED <<state, emitted, faults>>
       \/ /\ policy.strict /\ Fault
          /\ Fails(t, "failed_validation")
    /\ UNCHANGED <<policy, finished, outcome, attrs, entries, setter, payload,
                   next, failed, got, history>>

\* Marked as emitted without being sent: the sampler said no, or it is too large.
Discard(t) ==
    /\ state' = "emitted" /\ emitted' = TRUE
    /\ unsent' = TRUE
    /\ Go(t, "returned")

Mark(t) ==
    /\ pc[t] = "mark"
    /\ \/ /\ state' = "emitting"
          /\ Go(t, "encode")
          /\ UNCHANGED <<emitted, unsent, faults>>
       \/ Fault /\ Discard(t)
    /\ UNCHANGED <<policy, finished, outcome, attrs, entries, setter, payload,
                   next, failed, got, accepted, passed, raced>>

\* Attributes named like fields of the event are removed, renamed or refused.
Kept == IF policy.duplicate \in {"canonical", "first"} THEN attrs \ Canonical ELSE attrs
DuplicateError == policy.duplicate = "error" /\ attrs \cap Canonical # {}

Encode(t) ==
    /\ pc[t] = "encode"
    /\ \/ /\ DuplicateError
          /\ Fails(t, "failed_validation")
          /\ UNCHANGED <<attrs, payload, unsent, faults>>
       \/ /\ ~DuplicateError
          /\ attrs' = Kept
          /\ \/ /\ payload' = [payload EXCEPT ![t] = [attrs |-> Kept, outcome |-> outcome]]
                /\ Go(t, "deliver")
                /\ UNCHANGED <<state, emitted, unsent, faults>>
             \/ /\ Fault
                /\ Discard(t)
                /\ UNCHANGED payload
             \/ /\ Fault
                /\ \E s \in {"failed_validation", "delivery_failed"} : Fails(t, s)
                /\ UNCHANGED <<payload, unsent>>
    /\ UNCHANGED <<policy, finished, outcome, entries, setter, next, failed, got,
                   accepted, passed, raced>>

Give(t, place) == got' = [got EXCEPT ![place] = Append(@, payload[t])]

\* The pipeline has a buffer for what its queue refuses: it takes everything.
Enqueue(t) ==
    /\ pc[t] = "deliver" /\ policy.pipeline
    /\ Give(t, Queue)
    /\ Go(t, "end")
    /\ UNCHANGED <<policy, event, setter, payload, next, failed, history, faults>>

\* Without it, one sink after the other; an error does not stop the loop.
WriteSink(t) ==
    /\ pc[t] = "deliver" /\ ~policy.pipeline
    /\ IF next[t] > Len(Sinks)
       THEN /\ Go(t, "end")
            /\ UNCHANGED <<next, failed, got, faults>>
       ELSE /\ next' = [next EXCEPT ![t] = @ + 1]
            /\ UNCHANGED pc
            /\ \/ Give(t, Sinks[next[t]]) /\ UNCHANGED <<failed, faults>>
               \/ Fault /\ failed' = [failed EXCEPT ![t] = TRUE] /\ UNCHANGED got
    /\ UNCHANGED <<policy, event, setter, payload, history>>

\* Mutant: an event that one sink took counts as emitted.
Failed_All(t) == failed[t] /\ \A p \in Places : got[p] = <<>>

Failed(t) == failed[t]

\* The result: emitted first, the state in a step of its own.
End(t) ==
    /\ pc[t] = "end"
    /\ IF Failed(t)
       THEN /\ state' = "delivery_failed" /\ emitted' = FALSE
            /\ Go(t, "returned")
       ELSE /\ emitted' = TRUE
            /\ Go(t, "tell")
            /\ UNCHANGED state
    /\ UNCHANGED <<policy, finished, outcome, attrs, entries, setter, payload,
                   next, failed, got, history, faults>>

Tell(t) ==
    /\ pc[t] = "tell"
    /\ state' = "emitted"
    /\ Go(t, "returned")
    /\ UNCHANGED <<policy, emitted, finished, outcome, attrs, entries, setter,
                   payload, next, failed, got, history, faults>>

\* The exception handler of panic_recovery overwrites what the state says, also
\* when it was another thread that had the event.
Recover(t) ==
    /\ pc[t] = "recover"
    /\ state' = "delivery_failed" /\ emitted' = FALSE
    /\ raced' = (raced \/ t \notin passed)
    /\ Go(t, "raised")
    /\ UNCHANGED <<policy, finished, outcome, attrs, entries, setter, payload,
                   next, failed, got, accepted, passed, unsent, faults>>

Emit(t) ==
    \/ Begin(t) \/ Validate(t) \/ Mark(t) \/ Encode(t) \/ Enqueue(t)
    \/ WriteSink(t) \/ End(t) \/ Tell(t) \/ Recover(t)

Next ==
    \/ \E k \in Attributes : Enrich(k)
    \/ Apply \/ Stop \/ finish("success") \/ mark_partial \/ drop
    \/ \E t \in Emitters : Emit(t)

Spec == Init /\ [][Next]_vars

-----------------------------------------------------------------------------
TypeOK ==
    /\ policy \in Policies
    /\ state \in Closed \cup {"created", "active", "finished"}
    /\ emitted \in BOOLEAN /\ finished \in BOOLEAN /\ raced \in BOOLEAN
    /\ attrs \subseteq Attributes /\ accepted \subseteq Attributes
    /\ setter \in Attributes \cup {"none"}
    /\ \A t \in Emitters :
          /\ pc[t] \in {"idle", "returned", "raised"} \/ Inside(t)
          /\ next[t] \in 1 .. Len(Sinks) + 1
    /\ faults \in 0 .. MaxFaults

Wanted == IF policy.duplicate \in {"canonical", "first"} THEN accepted \ Canonical
          ELSE accepted

\* The threads that emit an event send it to a sink once, with the attributes
\* whose calls had returned, unless two threads were between a check and what
\* relies on it (logger.py, _emit_inner; event.py, _ensure_mutable).  Even then
\* a sink has no more copies than emitters that passed the check.
OnceAndWhole ==
    \A p \in Places :
        /\ Len(got[p]) <= Cardinality(passed)
        /\ ~raced => /\ Len(got[p]) <= 1
                     /\ \A i \in DOMAIN got[p] : got[p][i].attrs = Wanted

\* When no thread is inside, the state says what happened: emitted when every
\* sink or the pipeline has the event or it was discarded; a failed event is
\* not in all of them.
StateTells ==
    ~raced /\ (\A t \in Emitters : ~Inside(t)) =>
        LET due == IF policy.pipeline THEN {Queue} ELSE Places \ {Queue}
            sent == \A p \in due : got[p] # <<>>
        IN /\ emitted = (state = "emitted")
           /\ state = "emitted" => sent \/ unsent
           /\ state \in {"delivery_failed", "failed_validation"} => ~sent
=============================================================================
