--------------------------- MODULE EventLifecycle ---------------------------
(***************************************************************************)
(* One event of the Go SDK, sdks/go/src/core/event.go, and its emission,   *)
(* core/logger.go.  The request that owns the event, its helpers and a     *)
(* deferred Emit share it: attributes are added while another goroutine    *)
(* finishes or emits it.                                                   *)
(*                                                                         *)
(* e.mu makes each method of Event one step.  EmitEventWithContext takes   *)
(* it several times: it looks at the state, validates, begins, encodes,    *)
(* writes to the sinks and marks, each on its own.  An attribute is its    *)
(* name; the ones in Refused do not pass the strict or the duplicate-field *)
(* check.  Encoder, sinks and sampler are external.                        *)
(***************************************************************************)
EXTENDS Integers, Sequences

CONSTANTS
    Emitters,       \* calls of Emit
    Attributes,     \* attributes, each added by a call of its own
    Refused,        \* the ones that validation refuses or drops
    Outcomes,       \* the attributes that calls of Finish add
    Context,        \* the one that the enricher adds
    Handles         \* processes, timers and groups

VARIABLES
    policy,         \* "strict" fails an event with a refused attribute, "drop" removes it
    state,          \* Event.state
    finished,       \* FinishedAt is set
    attrs,          \* Attrs
    pc,             \* of every emitter
    call,           \* [Attributes -> what came of the call that adds it]
    handle,         \* [Handles -> "new", "open", "closed"]
    delivered,      \* the attributes of what the sinks were given, each time
    sampledOut,     \* history: the sampler let the event go
    raced           \* history: a validation failed when the emission had begun

vars == <<policy, state, finished, attrs, pc, call, handle, delivered,
          sampledOut, raced>>

Mutable == {"created", "active", "finished"}

Init ==
    /\ policy \in {"strict", "drop"}
    /\ state = "created" /\ finished = FALSE
    /\ attrs = {}
    /\ pc = [e \in Emitters |-> "new"]
    /\ call = [a \in Attributes |-> "new"]
    /\ handle = [h \in Handles |-> "new"]
    /\ delivered = <<>> /\ sampledOut = FALSE /\ raced = FALSE

-----------------------------------------------------------------------------
(* The methods of Event.                                                   *)

\* Mutant: an event that is being emitted still takes attributes.
ensureMutable_Emitting == state \in Mutable \cup {"emitting"}

ensureMutable == state \in Mutable

\* AddAttrs.
AddAttr(a) ==
    IF ensureMutable
    THEN /\ attrs' = attrs \cup {a}
         /\ state' = IF state = "created" THEN "active" ELSE state
         /\ call' = [call EXCEPT ![a] = "ok"]
    ELSE /\ call' = [call EXCEPT ![a] = "error"]
         /\ UNCHANGED <<attrs, state>>

\* Enrich, Append, Add, Set.
Add(a) ==
    /\ call[a] = "new" /\ a \notin Outcomes \cup {Context}
    /\ AddAttr(a)
    /\ UNCHANGED <<policy, finished, pc, handle, delivered, sampledOut, raced>>

\* Merge, Checkpoint: the event does not become active.
Merge(a) ==
    /\ call[a] = "new" /\ a \notin Outcomes \cup {Context}
    /\ attrs' = IF ensureMutable THEN attrs \cup {a} ELSE attrs
    /\ call' = [call EXCEPT ![a] = IF ensureMutable THEN "ok" ELSE "error"]
    /\ UNCHANGED <<policy, state, finished, pc, handle, delivered, sampledOut, raced>>

Delete(a) ==
    /\ call[a] = "ok" /\ a \notin Outcomes \cup {Context} /\ ensureMutable
    /\ attrs' = attrs \ {a}
    /\ call' = [call EXCEPT ![a] = "deleted"]
    /\ UNCHANGED <<policy, state, finished, pc, handle, delivered,
                   sampledOut, raced>>

\* finish, finishWithError: the outcome first, once.
Finish(a) ==
    /\ call[a] = "new" /\ a \in Outcomes
    /\ IF ensureMutable /\ ~finished
       THEN /\ finished' = TRUE
            /\ state' = "finished"
            /\ call' = [call EXCEPT ![a] = "finishing"]
       ELSE /\ call' = [call EXCEPT ![a] = "error"]
            /\ UNCHANGED <<finished, state>>
    /\ UNCHANGED <<policy, attrs, pc, handle, delivered, sampledOut, raced>>

\* And then, with e.mu released in between, the attributes.
FinishAttrs(a) ==
    /\ call[a] = "finishing"
    /\ AddAttr(a)
    /\ UNCHANGED <<policy, finished, pc, handle, delivered, sampledOut, raced>>

\* StartProcess, StartTimer, StartGroup: the event is active again.
Start(h) ==
    /\ handle[h] = "new" /\ ensureMutable
    /\ handle' = [handle EXCEPT ![h] = "open"]
    /\ state' = "active"
    /\ UNCHANGED <<policy, finished, attrs, pc, call, delivered, sampledOut,
                   raced>>

\* finishInternal, Stop: the entry is appended whatever the event's state is.
End(h) ==
    /\ handle[h] = "open"
    /\ handle' = [handle EXCEPT ![h] = "closed"]
    /\ UNCHANGED <<policy, state, finished, attrs, pc, call, delivered, sampledOut,
                   raced>>

-----------------------------------------------------------------------------
(* EmitEventWithContext.                                                   *)

Goto(e, where) == pc' = [pc EXCEPT ![e] = where]

\* Emit asks the enricher, if there is one; what it returns may be empty.
Enrich(e) ==
    /\ pc[e] = "new"
    /\ IF ensureMutable
       THEN AddAttr(Context) /\ Goto(e, "look")
       ELSE Goto(e, "error") /\ UNCHANGED <<attrs, state, call>>
    /\ UNCHANGED <<policy, finished, handle, delivered, sampledOut, raced>>

Look(e) ==
    /\ pc[e] \in {"new", "look"}
    /\ Goto(e, CASE state = "emitted" -> "ok"
                 [] state \in Mutable -> "sample"
                 [] OTHER -> "error")
    /\ UNCHANGED <<policy, state, finished, attrs, call, handle, delivered,
                   sampledOut, raced>>

\* Mutant: an emission that has begun does not keep another from beginning.
beginEmit_Again == state # "emitted"

beginEmit == state \in Mutable

\* An event that is not sampled is emitted to nobody.
Sample(e) ==
    /\ pc[e] = "sample"
    /\ \/ Goto(e, "validate") /\ UNCHANGED <<state, sampledOut>>
       \/ /\ beginEmit
          /\ state' = "emitting"
          /\ sampledOut' = TRUE
          /\ Goto(e, "mark")
       \/ ~beginEmit /\ Goto(e, "error") /\ UNCHANGED <<state, sampledOut>>
    /\ UNCHANGED <<policy, finished, attrs, call, handle, delivered, raced>>

\* validateStrictEvent, applyDuplicateFieldPolicy.
Validate(e) ==
    /\ pc[e] = "validate"
    /\ Goto(e, IF policy = "strict" /\ attrs \cap Refused # {} THEN "refuse" ELSE "begin")
    /\ attrs' = IF policy = "drop" THEN attrs \ Refused ELSE attrs
    /\ UNCHANGED <<policy, state, finished, call, handle, delivered,
                   sampledOut, raced>>

\* markValidationFailed does not look at the state.
Refuse(e) ==
    /\ pc[e] = "refuse"
    /\ raced' = (raced \/ state \notin Mutable \cup {"failed_validation"})
    /\ state' = "failed_validation"
    /\ Goto(e, "error")
    /\ UNCHANGED <<policy, finished, attrs, call, handle, delivered, sampledOut>>

Begin(e) ==
    /\ pc[e] = "begin"
    /\ IF beginEmit THEN state' = "emitting" /\ Goto(e, "encode")
                    ELSE UNCHANGED state /\ Goto(e, "error")
    /\ UNCHANGED <<policy, finished, attrs, call, handle, delivered,
                   sampledOut, raced>>

\* Clone or not, and the encoding; an oversized event is let go without an
\* error.  Then the sinks, or the queue of the pipeline.
Deliver(e) ==
    /\ pc[e] = "encode"
    /\ \/ /\ Goto(e, "mark")
          /\ delivered' = Append(delivered, attrs)
          /\ UNCHANGED state
       \/ /\ \E failure \in {"failed_validation", "delivery_failed"} : state' = failure
          /\ \/ Goto(e, "error")
             \/ state' = "delivery_failed" /\ Goto(e, "ok")
          /\ UNCHANGED delivered
    /\ UNCHANGED <<policy, finished, attrs, call, handle, sampledOut, raced>>

\* markEmitted; the error of one of several sinks is returned all the same.
Mark(e) ==
    /\ pc[e] = "mark"
    /\ state' = "emitted"
    /\ \/ Goto(e, "ok")
       \/ ~sampledOut /\ Goto(e, "error")
    /\ UNCHANGED <<policy, finished, attrs, call, handle, delivered,
                   sampledOut, raced>>

-----------------------------------------------------------------------------
Method ==
    \/ \E a \in Attributes : Add(a) \/ Merge(a) \/ Delete(a)
    \/ \E a \in Outcomes : Finish(a) \/ FinishAttrs(a)
    \/ \E h \in Handles : Start(h) \/ End(h)

Emit(e) ==
    \/ Enrich(e) \/ Look(e) \/ Sample(e) \/ Validate(e) \/ Refuse(e)
    \/ Begin(e) \/ Deliver(e) \/ Mark(e)

Next == Method \/ \E e \in Emitters : Emit(e)

Spec == Init /\ [][Next]_vars

-----------------------------------------------------------------------------
TypeOK ==
    /\ policy \in {"strict", "drop"}
    /\ state \in Mutable \cup {"emitting", "emitted", "failed_validation", "delivery_failed"}
    /\ {finished, sampledOut, raced} \subseteq BOOLEAN
    /\ attrs \subseteq Attributes
    /\ pc \in [Emitters -> {"new", "look", "sample", "validate", "refuse", "begin", "encode",
                            "mark", "ok", "error"}]
    /\ call \in [Attributes -> {"new", "finishing", "ok", "error", "deleted"}]
    /\ handle \in [Handles -> {"new", "open", "closed"}]
    /\ delivered \in Seq(SUBSET Attributes)

\* However often Emit is called, one emission at most gets past beginEmit.
OneEmission ==
    /\ Len(delivered) <= IF sampledOut THEN 0 ELSE 1
    /\ \A e, f \in Emitters : {pc[e], pc[f]} \subseteq {"encode", "mark"} => e = f

\* What a call was told is on the event is in what the sinks get, unless it was
\* deleted or validation drops it.
AcceptedIsDelivered ==
    delivered # <<>> =>
        {a \in Attributes \ Refused : call[a] = "ok"} \subseteq delivered[1]

\* When nobody is emitting, the state tells whether a sink or the sampler had
\* the event, as long as no validation failed behind the back of an emission.
StateTells ==
    (\A e \in Emitters : pc[e] \in {"new", "ok", "error"}) /\ ~raced =>
        (state = "emitted" <=> delivered # <<>> \/ sampledOut)

\* An event goes out once, with everything it was told to carry, and its state
\* says so, in any interleaving of the calls that share it.
EmittedOnceAndWhole == OneEmission /\ AcceptedIsDelivered /\ StateTells

=============================================================================
