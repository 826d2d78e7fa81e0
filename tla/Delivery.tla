------------------------------ MODULE Delivery ------------------------------
(***************************************************************************)
(* The senders of the SDKs and the collector they send to: requests with   *)
(* a batch of events, answers with an acknowledgement for each event, and  *)
(* a network that loses either or delivers a request after its sender has  *)
(* given it up.  Five kinds of sender: "go", the Go SDK's collector sink   *)
(* over HTTPTransport, one event a request; "gobatch", its HTTP batch      *)
(* sink; "js", "python" and "rust", those of the other SDKs.  They differ  *)
(* in what they retry and in what of an answer they read.  The batch sinks *)
(* "gobatch" and "js" keep a failed batch and send it again with all that  *)
(* has come since; the others report the error to the pipeline above.      *)
(*                                                                         *)
(* The collector is what Ingest models in full: here an event is refused,  *)
(* quarantined, or has its id recorded and is then stored or not.          *)
(***************************************************************************)
EXTENDS Integers, Sequences, Functions

CONSTANTS
    Worlds,         \* [kind, dedupe, fate: <<what the collector makes of each event>>]
    BatchSize,      \* events in a batch of the unbuffered kinds
    Attempts,       \* retries + 1, of the kinds that retry
    EventsLimit,    \* maxEventsPerRequest of the collector
    MaxFaults

VARIABLES
    world,
    written,        \* events 1 .. written were given to the sender
    buffer,         \* the batch sinks
    hand,           \* the batch that is being sent
    attempt,
    pc,             \* "idle", "send", "wait"
    request,        \* [of -> the request of the sender, and one it gave up]
    seen,           \* ids in the dedupe store
    copies,         \* times each event is stored
    quarantine,
    told,           \* events of a write that returned without an error
    failed,         \* events whose error was reported
    unread,         \* history: refused in an answer taken for success, by a
                    \* kind that does not look
    forgotten,      \* history: id recorded, event not stored
    faults

vars == <<world, written, buffer, hand, attempt, pc, request, seen, copies,
          quarantine, told, failed, unread, forgotten, faults>>

kind == world.kind
Events == 1 .. Len(world.fate)
Slots == {"current", "late"}
Buffered == {"gobatch", "js"}

None == [batch |-> <<>>, acks |-> <<>>, at |-> "none"]

Init ==
    /\ world \in Worlds
    /\ written = 0
    /\ buffer = <<>> /\ hand = <<>>
    /\ attempt = 0
    /\ pc = "idle"
    /\ request = [s \in Slots |-> None]
    /\ seen = {} /\ quarantine = {}
    /\ copies = [e \in Events |-> 0]
    /\ told = {} /\ failed = {} /\ unread = {} /\ forgotten = {}
    /\ faults = 0

Fault == faults < MaxFaults /\ faults' = faults + 1

sender == <<written, buffer, hand, attempt, pc, told, failed, unread>>
collector == <<seen, copies, quarantine, forgotten>>

-----------------------------------------------------------------------------
(* Writing.                                                                *)

\* WriteEvent of the batch sinks; when they flush is the matter of BatchSinks.
Write ==
    /\ kind \in Buffered /\ written < Len(world.fate)
    /\ written' = written + 1
    /\ buffer' = Append(buffer, written')
    /\ UNCHANGED <<world, hand, attempt, pc, request, collector, told, failed,
                   unread, faults>>

\* A flush takes all there is.
Flush ==
    /\ kind \in Buffered /\ pc = "idle" /\ buffer # <<>>
    /\ hand' = buffer /\ buffer' = <<>>
    /\ attempt' = 1 /\ pc' = "send"
    /\ UNCHANGED <<world, written, request, collector, told, failed, unread, faults>>

\* WriteEvent, write_batch: the caller waits for the outcome.
WriteBatch ==
    /\ kind \notin Buffered /\ pc = "idle"
    /\ \E n \in 1 .. IF kind = "go" THEN 1 ELSE BatchSize :
          /\ written + n <= Len(world.fate)
          /\ written' = written + n
          /\ hand' = [i \in 1 .. n |-> written + i]
    /\ attempt' = 1 /\ pc' = "send"
    /\ UNCHANGED <<world, buffer, request, collector, told, failed, unread, faults>>

-----------------------------------------------------------------------------
(* The end of an attempt.                                                  *)

Return == hand' = <<>> /\ attempt' = 0 /\ pc' = "idle"

Succeed ==
    /\ Return
    /\ told' = told \cup Range(hand)
    /\ UNCHANGED <<buffer, failed>>

\* The batch sinks put the batch back in front; the others return the error.
Fail ==
    /\ Return
    /\ IF kind \in Buffered
       THEN buffer' = hand \o buffer /\ UNCHANGED failed
       ELSE failed' = failed \cup Range(hand) /\ UNCHANGED buffer
    /\ UNCHANGED told

MaxAttempts == IF kind = "gobatch" THEN 1 ELSE Attempts

Retry ==
    IF attempt < MaxAttempts
    THEN attempt' = attempt + 1 /\ pc' = "send" /\ UNCHANGED <<buffer, hand, told, failed>>
    ELSE Fail

-----------------------------------------------------------------------------
(* The network.                                                            *)

Send ==
    /\ pc = "send"
    /\ request' = [request EXCEPT !["current"] =
                       [batch |-> hand, acks |-> <<>>, at |-> "check"]]
    /\ pc' = "wait"
    /\ UNCHANGED <<world, written, buffer, hand, attempt, collector, told, failed,
                   unread, faults>>

\* The connection is refused or breaks before the collector has the request.
Unreachable ==
    /\ pc = "send" /\ Fault
    /\ Retry
    /\ UNCHANGED <<world, written, request, collector, unread>>

\* Something on the way answers with an error page: its status is not one that is
\* retried, and it is no answer of a collector to the kinds that read it first.
ErrorPage ==
    /\ pc = "send" /\ Fault
    /\ Fail
    /\ UNCHANGED <<world, written, request, collector, unread>>

\* The answer is lost, or does not come in time: the collector goes on with the
\* request.  One such request at a time.
TimeOut ==
    /\ pc = "wait" /\ request["late"] = None /\ Fault
    /\ request' = [current |-> None,
                   late |-> IF request["current"].at = "answered" THEN None
                            ELSE request["current"]]
    /\ Retry
    /\ UNCHANGED <<world, written, collector, unread>>

-----------------------------------------------------------------------------
(* The collector: handleIngest.                                            *)

\* The event of request s that comes next.
Ev(s) == request[s].batch[Len(request[s].acks) + 1]

\* A request that nobody waits for is answered to nobody.
Acknowledge(s, ack) ==
    LET r == [request[s] EXCEPT !.acks = Append(@, ack), !.at = "check"]
        done == Len(r.acks) = Len(r.batch)
    IN  request' = [request EXCEPT ![s] = IF ~done THEN r
                                          ELSE IF s = "late" THEN None
                                          ELSE [r EXCEPT !.at = "answered"]]

\* The request as a whole: too many requests, too many events.
Refuse(s, why) ==
    /\ request[s].at = "check" /\ request[s].acks = <<>>
    /\ \/ why = "busy" /\ Fault
       \/ why = "too many" /\ Len(request[s].batch) > EventsLimit /\ UNCHANGED faults
    /\ request' = [request EXCEPT ![s] = IF s = "late" THEN None
                                         ELSE [@ EXCEPT !.acks = <<why>>, !.at = "answered"]]
    /\ UNCHANGED <<world, sender, collector>>

\* Mutant: an id is looked up, and not recorded with it.
Check_Later(s) ==
    /\ request[s].at = "check" /\ Len(request[s].batch) <= EventsLimit
    /\ IF world.fate[Ev(s)] # "valid" \/ copies[Ev(s)] > 0
       THEN Acknowledge(s, IF copies[Ev(s)] > 0 THEN "duplicate" ELSE world.fate[Ev(s)])
       ELSE request' = [request EXCEPT ![s].at = "store"]
    /\ quarantine' = quarantine \cup {e \in {Ev(s)} : world.fate[e] = "quarantined"}
    /\ UNCHANGED <<world, sender, seen, copies, forgotten, faults>>

\* The contract, the quarantine, and isDuplicate, which records what it does not
\* know.
Check(s) ==
    /\ request[s].at = "check" /\ Len(request[s].batch) <= EventsLimit
    /\ LET e == Ev(s)
       IN  \/ /\ world.fate[e] = "invalid"
              /\ Acknowledge(s, "invalid") /\ UNCHANGED <<seen, quarantine>>
           \/ /\ world.fate[e] = "quarantined"
              /\ Acknowledge(s, "quarantined")
              /\ quarantine' = quarantine \cup {e}
              /\ UNCHANGED seen
           \/ /\ world.fate[e] = "valid" /\ e \in seen
              /\ Acknowledge(s, "duplicate") /\ UNCHANGED <<seen, quarantine>>
           \/ /\ world.fate[e] = "valid" /\ e \notin seen
              /\ request' = [request EXCEPT ![s].at = "store"]
              /\ seen' = IF world.dedupe THEN seen \cup {e} ELSE seen
              /\ UNCHANGED quarantine
    /\ UNCHANGED <<world, sender, copies, forgotten, faults>>

\* The spool or the sinks take the event, or do not.
Store(s) ==
    /\ request[s].at = "store"
    /\ \/ /\ copies' = [copies EXCEPT ![Ev(s)] = @ + 1]
          /\ Acknowledge(s, "accepted")
          /\ UNCHANGED <<forgotten, faults>>
       \/ /\ Fault
          /\ forgotten' = IF world.dedupe THEN forgotten \cup {Ev(s)} ELSE forgotten
          /\ Acknowledge(s, "rejected")
          /\ UNCHANGED copies
    /\ UNCHANGED <<world, sender, seen, quarantine>>

-----------------------------------------------------------------------------
(* The answer, and what each kind makes of it.                             *)

Accepted == {"accepted", "duplicate"}

\* Response.Finalize, and the "rejected" of ingestRejectResponse.
Status(acks) ==
    LET accepted == acks \cap Accepted # {}
    IN  CASE accepted /\ ~(acks \subseteq Accepted) -> "partial"
          [] accepted /\ acks \subseteq Accepted -> "accepted"
          [] ~accepted /\ "quarantined" \in acks -> "quarantined"
          [] ~accepted /\ "quarantined" \notin acks /\ "invalid" \in acks -> "invalid"
          [] OTHER -> "rejected"

\* The answer to a set of acknowledgements.  A batch with invalid and with
\* quarantined events and no other is answered 202.
Answer(acks) ==
    LET accepted == acks \cap Accepted # {}
    IN  [retryable |-> acks \cap {"rejected", "busy"} # {},
         rejected |-> acks \cap {"rejected", "busy", "too many"} # {},
         invalid |-> "invalid" \in acks,
         accepted |-> accepted,
         status |-> Status(acks),
         code |-> CASE acks = {"busy"} -> 429
                    [] acks = {"too many"} -> 413
                    [] accepted /\ ~(acks \subseteq Accepted) -> 207
                    [] ~accepted /\ "rejected" \in acks -> 503
                    [] acks = {"invalid"} -> 400
                    [] acks = {"quarantined"} -> 422
                    [] OTHER -> 202]

\* The contract that is generated for Go, and for Python, which takes every status
\* but "accepted" for a failure.
PermanentFailure(a) ==
    a.rejected \/ a.invalid \/ a.status \in {"partial", "rejected", "invalid"}
permanent_failure(a) == a.rejected \/ a.invalid \/ a.status # "accepted"

Later(a) == a.code \in {429, 503}

\* The Go batch sink reads no answer; HTTPTransport retries by the code and the
\* collector sink then reads what it returns.
send(a) == IF a.code < 300 THEN "success" ELSE "fail"

collectorSink(a) ==
    IF Later(a) THEN "retry"
    ELSE IF a.code >= 300 \/ a.retryable \/ PermanentFailure(a) THEN "fail"
    ELSE "success"

classifyOutcome(a) ==
    IF a.retryable \/ Later(a) THEN "retry"
    ELSE IF a.code < 300 /\ a.status \notin {"rejected", "invalid"} THEN "success"
    ELSE IF a.code < 300 /\ a.accepted THEN "retry"
    ELSE "fail"

\* Mutant: what is not retryable and has a good code is a success.
collector_response_outcome_ByCode(a) ==
    IF a.retryable \/ Later(a) THEN "retry"
    ELSE IF a.code >= 300 THEN "fail" ELSE "success"

collector_response_outcome(a) ==
    IF a.retryable \/ Later(a) THEN "retry"
    ELSE IF permanent_failure(a) \/ a.code >= 300 THEN "fail" ELSE "success"

classify_collector_response(a) ==
    IF a.retryable \/ Later(a) THEN "retry"
    ELSE IF a.code >= 300 \/ a.rejected \/ a.invalid THEN "fail" ELSE "success"

Outcome(a) ==
    CASE kind = "gobatch" -> send(a)
      [] kind = "go" -> collectorSink(a)
      [] kind = "js" -> classifyOutcome(a)
      [] kind = "python" -> collector_response_outcome(a)
      [] kind = "rust" -> classify_collector_response(a)

\* What an answer taken for success refuses: the JavaScript kind takes a partial
\* answer for one unless it can be retried, the Go batch sink reads no answer.
Refused(r) == {r.batch[i] : i \in {j \in DOMAIN r.acks : r.acks[j] \notin Accepted}}
Unread(r) ==
    CASE kind = "gobatch" -> Refused(r)
      [] kind = "js" -> {e \in Refused(r) : world.fate[e] = "invalid"}
      [] OTHER -> {}

Receive ==
    /\ pc = "wait" /\ request["current"].at = "answered"
    /\ LET r == request["current"]
           outcome == Outcome(Answer(Range(r.acks)))
       IN  \/ outcome = "success" /\ Succeed /\ unread' = unread \cup Unread(r)
           \/ outcome = "retry" /\ Retry /\ UNCHANGED unread
           \/ outcome = "fail" /\ Fail /\ UNCHANGED unread
    /\ request' = [request EXCEPT !["current"] = None]
    /\ UNCHANGED <<world, written, collector, faults>>

-----------------------------------------------------------------------------
Handle(s) == Check(s) \/ Store(s) \/ \E why \in {"busy", "too many"} : Refuse(s, why)

Network == Unreachable \/ ErrorPage \/ TimeOut

Next ==
    \/ Write \/ Flush \/ WriteBatch
    \/ Send \/ Network \/ Receive
    \/ \E s \in Slots : Handle(s)

\* The ticker of the Go batch sink flushes, requests are sent, handled and
\* answered.
Fairness ==
    /\ WF_vars(kind = "gobatch" /\ Flush)
    /\ WF_vars(Send) /\ WF_vars(Receive)
    /\ \A s \in Slots : WF_vars(Handle(s))

Spec == Init /\ [][Next]_vars /\ Fairness

-----------------------------------------------------------------------------
Acks == Accepted \cup {"invalid", "quarantined", "rejected", "busy", "too many"}

TypeOK ==
    /\ world \in Worlds
    /\ written \in 0 .. Len(world.fate)
    /\ pc \in {"idle", "send", "wait"} /\ attempt \in 0 .. MaxAttempts
    /\ (hand = <<>>) = (pc = "idle")
    /\ Range(buffer) \cap Range(hand) = {}
    /\ \A s \in Slots :
          /\ request[s].at \in {"none", "check", "store", "answered"}
          /\ request[s].acks \in Seq(Acks) /\ request[s].batch \in Seq(Events)
    /\ (request["current"] # None) = (pc = "wait")
    /\ copies \in [Events -> Nat]
    /\ UNION {seen, quarantine, forgotten, unread} \subseteq Events
    /\ faults \in 0 .. MaxFaults

Stored == {e \in Events : copies[e] > 0}
BeingStored == {Ev(s) : s \in {t \in Slots : request[t].at = "store"}}

\* What was written is in the sender's buffer or hand, or its write has returned,
\* with an error or without one.  If without one, the collector has the event or
\* has put it in quarantine; or a request that was given up has recorded its id
\* and has not stored it, not yet or not ever; or the sender does not look for
\* refusals.
WrittenIsKept ==
    /\ 1 .. written = Range(buffer) \cup Range(hand) \cup told \cup failed
    /\ told \subseteq Stored \cup quarantine \cup BeingStored \cup forgotten \cup unread

\* With the dedupe store an event is stored once, whatever is sent again and while
\* a request that was given up is still handled.
StoredOnce == world.dedupe => \A e \in Events : copies[e] <= 1

\* A batch the collector will never take: too long, or refused as a whole.  Each
\* flush sends all there is, so it can only grow.
Hopeless(batch) ==
    \/ Len(batch) > EventsLimit
    \/ \E fate \in {"invalid", "quarantined"} : \A e \in Range(batch) : world.fate[e] = fate

\* The buffer of the Go batch sink is sent, or hopeless.
Settled == kind = "gobatch" => buffer \o hand = <<>> \/ Hopeless(hand \o buffer)

=============================================================================
