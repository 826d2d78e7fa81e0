------------------------------- MODULE Ingest -------------------------------
(***************************************************************************)
(* Ingestion in loza-collector: the request handlers (handlers.go), the    *)
(* dedupe store (state.go, dedupe_store.go), the event processor that      *)
(* delivers to the sinks (internal/processing/processor.go) and the        *)
(* operations that replace it: schema publish, hot reload, shutdown.       *)
(*                                                                         *)
(* A request carries a batch.  Each event is checked, deduplicated and     *)
(* then delivered while the request waits ("direct") or appended to the    *)
(* spool, from which a worker delivers it ("spool", "hybrid").  The spool  *)
(* is the one module Custody promises and module Spool details: a durable  *)
(* sequence and a position; its offsets, limits and locks are left out.    *)
(*                                                                         *)
(* A configuration is chosen at the start, with what may disturb it:       *)
(* [mode, policy, attempts, fallbackOn, dlq, dlqOn, dedupe, budget].       *)
(***************************************************************************)
EXTENDS Integers, Sequences, Processor

CONSTANTS
    Events,         \* the events clients send; the same one may be sent again
    Requests,       \* requests: of clients, a DLQ replay, a gRPC call
    Batch,          \* [Requests -> sequence of events]
    Bulk,           \* the requests served by handleIngestBatch
    Invalid,        \* events that fail the contract, limits or governance
    Quarantined,    \* events the processor's schema mode quarantines
    Configs         \* the configurations

Worker == "worker"
NoEvent == "no event"

ASSUME IngestAssumption ==
    /\ Worker \notin Requests
    /\ NoEvent \notin Events
    /\ Batch \in [Requests -> Seq(Events)]
    /\ Bulk \subseteq Requests
    /\ IsFiniteSet(Requests)

Procs == Requests \cup {Worker}

\* What is bounded, by cfg.budget.
Disturbances == {"crash", "stop", "reload", "fault", "expiry", "tail"}

VARIABLES
    cfg,
    phase,          \* "down", "replay", "serve", "stopping", "closed"
    pc,             \* control state of every request and of the worker
    idx,            \* [Requests -> index of the event being handled]
    attempt,        \* [Procs -> attempts made for it]
    failed,         \* [Procs -> targets that failed in the last attempt]
    answer,         \* [Requests -> sequence of answers]
    processor,      \* the generation of s.processor, 0 for nil
    generation,     \* the last generation made
    proc,           \* [Procs -> the generation a process works with]
    leaked,         \* a read lock of processorMu that no one will release
    inflight,       \* metrics.inflightRequests
    closed,         \* the generations that were closed
    seenState,      \* ids the state's dedupe store remembers
    seenProc,       \* ids in the memory of the processor
    seenRedis,      \* ids the processor has put in Redis
    redis,          \* the processor's dedupe store is the one in Redis
    file, pos,      \* the spool: records and the number before the checkpoint
    next,           \* the record the delivery queue hands out next
    rows,           \* [Targets -> events the target has taken]
    deadLetters, quarantine, queueSink,
    tail,           \* a tail subscriber: "away", "open", "closed"
    copy,           \* [Requests -> broadcastTail's copy has the subscriber]
    tailed,         \* events the subscriber was sent
    runs,           \* history: [Events -> deliveries begun]
    forgotten,      \* history: events whose id was forgotten
    budget          \* [Disturbances -> how many more of them may come]

request == <<pc, idx, attempt, failed, answer>>
locks == <<processor, generation, proc, leaked, closed>>
seen == <<seenState, seenProc, seenRedis, redis, forgotten>>
spool == <<file, pos, next>>
stores == <<rows, deadLetters, quarantine, queueSink>>
tails == <<tail, copy, tailed>>
vars == <<cfg, phase, request, locks, inflight, seen, spool, stores, tails,
          runs, budget>>

Spooled == cfg.mode \in {"spool", "hybrid"}

Init ==
    /\ cfg \in Configs
    /\ phase = "down"
    /\ pc = [p \in Procs |-> IF p = Worker THEN "off" ELSE "new"]
    /\ idx = [r \in Requests |-> 1]
    /\ attempt = [p \in Procs |-> 0]
    /\ failed = [p \in Procs |-> {}]
    /\ answer = [r \in Requests |-> <<>>]
    /\ processor = 0 /\ generation = 0
    /\ proc = [p \in Procs |-> 0]
    /\ leaked = FALSE
    /\ closed = {}
    /\ inflight = 0
    /\ seenState = {} /\ seenProc = {} /\ seenRedis = {} /\ redis = FALSE
    /\ file = <<>> /\ pos = 0 /\ next = 1
    /\ rows = [t \in Targets |-> {}]
    /\ deadLetters = {} /\ quarantine = {} /\ queueSink = {}
    /\ tail = "away" /\ copy = [r \in Requests |-> FALSE] /\ tailed = {}
    /\ runs = [e \in Events |-> 0]
    /\ forgotten = {}
    /\ budget = cfg.budget

\* The event a process is working on.
Ev(p) == IF p = Worker THEN file[next] ELSE Batch[p][idx[p]]

Spend(d) == budget[d] > 0 /\ budget' = [budget EXCEPT ![d] = @ - 1]

Fault == Spend("fault")

\* The holders of processorMu as readers: those inside Process.
Inside == {"check", "attempt", "deadletter"}
Readers == {p \in Procs : pc[p] \in Inside}
\* Mutant: the processor is replaced without the lock.
WriteLock_None == ~leaked

WriteLock == Readers = {} /\ ~leaked

-----------------------------------------------------------------------------
(* The life of the process.                                                *)

\* initReliability: the worker starts with the records after the checkpoint.
\* It makes a processor of its own if it needs one.
Start ==
    /\ phase = "down"
    /\ phase' = "replay"
    /\ next' = pos + 1
    /\ pc' = [pc EXCEPT ![Worker] = "recv"]
    /\ UNCHANGED <<cfg, idx, attempt, failed, answer, locks, inflight, seen,
                   file, pos, stores, tails, runs, budget>>

\* The ids the processor would recognise.
Remembered == IF redis THEN seenRedis ELSE seenProc

\* A new processor with an empty memory.
NewProcessor(withRedis) ==
    /\ generation' = generation + 1
    /\ processor' = generation + 1
    /\ redis' = withRedis
    /\ seenProc' = {}
    /\ forgotten' = forgotten \cup (Remembered \ (IF withRedis THEN seenRedis ELSE {}))
    /\ UNCHANGED <<proc, leaked, closed, seenState, seenRedis>>

\* The server assigns its processor without processorMu and listens.
Serve ==
    /\ phase = "replay"
    /\ phase' = "serve"
    /\ NewProcessor(cfg.dedupe = "redis")
    /\ UNCHANGED <<cfg, request, inflight, spool, stores, tails, runs, budget>>

\* Schema publish, and SIGHUP: close the processor under the write lock.
Reload ==
    /\ phase = "serve" /\ Spend("reload")
    /\ WriteLock
    /\ processor' = 0
    /\ closed' = closed \cup {processor}
    /\ UNCHANGED <<cfg, phase, request, generation, proc, leaked, inflight, seen,
                   spool, stores, tails, runs>>

\* shutdownCollector: no new requests.
Stop ==
    /\ phase = "serve" /\ Spend("stop")
    /\ phase' = "stopping"
    /\ UNCHANGED <<cfg, request, locks, inflight, seen, spool, stores, tails,
                   runs>>

Settled == {"new", "done", "aborted"}
Pending(r) == pc[r] \notin Settled

\* closeReliability, when the requests are done or shutdown_timeout is over:
\* the worker has drained the queue; the processor is closed without a lock.
Close ==
    /\ phase = "stopping"
    /\ pc[Worker] = "recv" /\ next > Len(file)
    /\ phase' = "closed"
    /\ pc' = [pc EXCEPT ![Worker] = "off"]
    /\ processor' = 0
    /\ closed' = closed \cup {processor}
    /\ UNCHANGED <<cfg, idx, attempt, failed, answer, generation, proc, leaked,
                   inflight, seen, spool, stores, tails, runs, budget>>

\* The process ends: memory is gone, requests in progress get no answer.
Vanish ==
    /\ phase' = "down"
    /\ pc' = [p \in Procs |-> CASE p = Worker -> "off"
                                [] p # Worker /\ pc[p] \in Settled -> pc[p]
                                [] OTHER -> "aborted"]
    /\ processor' = 0 /\ generation' = 0 /\ closed' = {}
    /\ leaked' = FALSE /\ inflight' = 0
    /\ proc' = [p \in Procs |-> 0]
    /\ seenState' = IF cfg.dedupe = "redis" THEN seenState ELSE {}
    /\ seenProc' = {}
    /\ forgotten' = forgotten \cup (seenState \ seenState') \cup seenProc
    /\ tail' = "away" /\ copy' = [r \in Requests |-> FALSE]
    /\ UNCHANGED <<cfg, idx, attempt, failed, answer, seenRedis, redis, spool,
                   stores, tailed, runs>>

Exit == phase = "closed" /\ Vanish /\ UNCHANGED budget

Crash ==
    /\ phase # "down" /\ Spend("crash")
    /\ Vanish

-----------------------------------------------------------------------------
(* A request.                                                              *)

\* The answer for the current event; the request goes on with the next one.
Answer(r, a, to) ==
    /\ answer' = [answer EXCEPT ![r] = Append(@, a)]
    /\ idx' = [idx EXCEPT ![r] = @ + 1]
    /\ pc' = [pc EXCEPT ![r] = to]

Goto(p, to) ==
    /\ pc' = [pc EXCEPT ![p] = to]
    /\ UNCHANGED <<idx, answer>>

\* Rate limits, parsing, acquireIngestCapacity: the request is refused, or it
\* is admitted and counted; the count is released by a deferred call.
Refuse(r) ==
    /\ phase = "serve" /\ pc[r] = "new"
    /\ Goto(r, "done")
    /\ UNCHANGED <<cfg, phase, attempt, failed, locks, inflight, seen, spool,
                   stores, tails, runs, budget>>

Admit(r) ==
    /\ phase = "serve" /\ pc[r] = "new"
    /\ inflight' = inflight + 1
    /\ Goto(r, "next")
    /\ UNCHANGED <<cfg, phase, attempt, failed, locks, seen, spool, stores,
                   tails, runs, budget>>

\* The end of the batch.
Finish(r) ==
    /\ pc[r] = "next" /\ idx[r] > Len(Batch[r])
    /\ inflight' = inflight - 1
    /\ Goto(r, "done")
    /\ UNCHANGED <<cfg, phase, attempt, failed, locks, seen, spool, stores,
                   tails, runs, budget>>

\* A panic: net/http recovers it and runs what was deferred.
Panic(r) ==
    /\ inflight' = inflight - 1
    /\ Goto(r, "aborted")

\* handleIngest deduplicates here only what it spools, handleIngestBatch all.
DedupesHere(r) == cfg.dedupe # "off" /\ (Spooled \/ r \in Bulk)

NextEvent(r) ==
    /\ pc[r] = "next" /\ idx[r] <= Len(Batch[r])
    /\ \/ /\ Ev(r) \in Invalid
          /\ Answer(r, "invalid", "next")
       \/ /\ Ev(r) \notin Invalid
          /\ Goto(r, CASE DedupesHere(r) -> "dedupe"
                       [] ~DedupesHere(r) /\ Spooled -> "append"
                       [] OTHER -> "ensure")
    /\ UNCHANGED <<cfg, phase, attempt, failed, locks, inflight, seen, spool,
                   stores, tails, runs, budget>>

\* Mutant: the early return forgets the release.
Abandon_NoRelease(r) ==
    /\ inflight' = inflight
    /\ Goto(r, "aborted")

\* handleIngestBatch returns an error.
Abandon(r) ==
    /\ inflight' = inflight - 1
    /\ Goto(r, "aborted")

\* isDuplicate: SETNX, or the map under dedupeMu.
Dedupe(r) ==
    /\ pc[r] = "dedupe"
    /\ \/ /\ Ev(r) \in seenState
          /\ Answer(r, "duplicate", "next")
          /\ UNCHANGED <<inflight, seenState, budget>>
       \/ /\ Ev(r) \notin seenState
          /\ seenState' = seenState \cup {Ev(r)}
          /\ Goto(r, IF Spooled THEN "append" ELSE "ensure")
          /\ UNCHANGED <<inflight, budget>>
       \/ /\ cfg.dedupe = "redis" /\ Fault
          /\ IF r \in Bulk THEN Abandon(r)
             ELSE Answer(r, "rejected", "next") /\ UNCHANGED inflight
          /\ UNCHANGED seenState
    /\ UNCHANGED <<cfg, phase, attempt, failed, locks, seenProc, seenRedis, redis,
                   forgotten, spool, stores, tails, runs>>

\* appendAndEnqueueSpool.
SpoolAppend(r) ==
    /\ pc[r] = "append" /\ phase # "closed"
    /\ file' = Append(file, Ev(r))
    /\ Goto(r, IF cfg.mode = "hybrid" THEN "queue" ELSE "accept")
    /\ UNCHANGED <<cfg, phase, attempt, failed, locks, inflight, seen, pos, next,
                   stores, tails, runs, budget>>

\* Mutant: an append after the spool is closed waits for it.
SpoolRefuses_NoClosed(r) ==
    /\ pc[r] = "append"
    /\ phase # "closed" /\ Fault
    /\ Answer(r, "rejected", "next")
    /\ UNCHANGED <<cfg, phase, attempt, failed, locks, inflight, seen, spool,
                   stores, tails, runs>>

SpoolRefuses(r) ==
    /\ pc[r] = "append"
    /\ \/ phase = "closed" /\ UNCHANGED budget
       \/ phase # "closed" /\ Fault
    /\ Answer(r, "rejected", "next")
    /\ UNCHANGED <<cfg, phase, attempt, failed, locks, inflight, seen, spool,
                   stores, tails, runs>>

\* The second write of hybrid mode.
HybridQueue(r) ==
    /\ pc[r] = "queue"
    /\ \/ /\ queueSink' = queueSink \cup {Ev(r)}
          /\ Goto(r, "accept")
          /\ UNCHANGED <<inflight, budget>>
       \/ /\ Fault
          /\ IF r \in Bulk THEN Abandon(r)
             ELSE Answer(r, "rejected", "next") /\ UNCHANGED inflight
          /\ UNCHANGED queueSink
    /\ UNCHANGED <<cfg, phase, attempt, failed, locks, seen, spool, rows,
                   deadLetters, quarantine, tails, runs>>

\* The event is accepted: answer, and copy the list of tail subscribers.
Accept(r) ==
    /\ pc[r] = "accept"
    /\ answer' = [answer EXCEPT ![r] = Append(@, "accepted")]
    /\ copy' = [copy EXCEPT ![r] = tail = "open"]
    /\ pc' = [pc EXCEPT ![r] = "broadcast"]
    /\ UNCHANGED <<cfg, phase, idx, attempt, failed, locks, inflight, seen, spool,
                   stores, tail, tailed, runs, budget>>

\* broadcastTail, without the lock: sent, or dropped when the buffer is full.
\* A subscriber that has left has closed its channel: the send panics.
Broadcast(r) ==
    /\ pc[r] = "broadcast"
    /\ \/ /\ copy[r] /\ tail = "closed"
          /\ Panic(r)
          /\ UNCHANGED tailed
       \/ /\ ~copy[r] \/ tail = "open"
          /\ \/ copy[r] /\ tailed' = tailed \cup {Ev(r)}
             \/ UNCHANGED tailed
          /\ idx' = [idx EXCEPT ![r] = @ + 1]
          /\ pc' = [pc EXCEPT ![r] = "next"]
          /\ UNCHANGED <<answer, inflight>>
    /\ UNCHANGED <<cfg, phase, attempt, failed, locks, seen, spool, stores, tail,
                   copy, runs, budget>>

Subscribe ==
    /\ tail = "away" /\ phase = "serve" /\ Spend("tail")
    /\ tail' = "open"
    /\ UNCHANGED <<cfg, phase, request, locks, inflight, seen, spool, stores,
                   copy, tailed, runs>>

\* removeTailSubscriber closes the channel under tailMu.
Unsubscribe ==
    /\ tail = "open"
    /\ tail' = "closed"
    /\ UNCHANGED <<cfg, phase, request, locks, inflight, seen, spool, stores,
                   copy, tailed, runs, budget>>

-----------------------------------------------------------------------------
(* The processor, used by requests and by the worker.                      *)

\* ensureProcessor, under the write lock.  The one it makes keeps its ids in
\* memory whatever the configuration says.
Ensure(p) ==
    /\ pc[p] \in {"ensure", "ensure again"} /\ WriteLock
    /\ Goto(p, IF pc[p] = "ensure" THEN "enter" ELSE "reread")
    /\ IF processor = 0 THEN NewProcessor(FALSE)
       ELSE UNCHANGED <<locks, seen>>
    /\ UNCHANGED <<cfg, phase, attempt, failed, inflight, spool, stores, tails,
                   runs, budget>>

\* RLock; Process.  If the processor is gone again Process panics and the
\* RUnlock after it is not run.
Enter(p) ==
    /\ pc[p] = "enter" /\ processor # 0
    /\ proc' = [proc EXCEPT ![p] = processor]
    /\ Goto(p, "check")
    /\ UNCHANGED <<cfg, phase, attempt, failed, processor, generation, leaked,
                   closed, inflight, seen, spool, stores, tails, runs, budget>>

EnterPanics(r) ==
    /\ r # Worker /\ pc[r] = "enter" /\ processor = 0
    /\ leaked' = TRUE
    /\ Panic(r)
    /\ UNCHANGED <<cfg, phase, attempt, failed, processor, generation, proc,
                   closed, seen, spool, stores, tails, runs, budget>>

\* In the worker nobody recovers the panic.
WorkerPanics ==
    /\ pc[Worker] \in {"enter", "reread"} /\ processor = 0
    /\ Vanish
    /\ UNCHANGED budget

\* The files of the processor p works with are open.
FileOpen(p) == proc[p] \notin closed

\* An append to the file of a processor: done, or given up after three
\* attempts, which is what a closed file comes to.
Appended(p, f, f2) ==
    \/ FileOpen(p) /\ f2 = f \cup {Ev(p)} /\ UNCHANGED budget
    \/ ~FileOpen(p) /\ f2 = f /\ UNCHANGED budget
    \/ FileOpen(p) /\ f2 = f /\ Fault

\* What the caller makes of the result.
Return(p, result) ==
    CASE p = Worker ->
           Goto(p, IF result \in {"accepted", "duplicate"} THEN "mark" ELSE "giveup")
      [] p # Worker /\ result = "accepted" -> Goto(p, "accept")
      [] p \in Bulk /\ result = "duplicate" -> Answer(p, "skipped", "next")
      [] OTHER -> Answer(p, result, "next")

\* Mutant: an id is recorded once its event is in the primary sink.
Remember_Delivered(e) ==
    /\ seenProc' = IF e \in rows[Primary] THEN seenProc \cup {e} ELSE seenProc
    /\ seenRedis' = seenRedis

\* The processor's isDuplicate records an id it has not seen.
Remember(e) ==
    /\ seenProc' = IF cfg.dedupe = "off" \/ redis THEN seenProc ELSE seenProc \cup {e}
    /\ seenRedis' = IF redis THEN seenRedis \cup {e} ELSE seenRedis

\* The schema check and the processor's own dedupe.
Process(p) ==
    /\ pc[p] = "check"
    /\ \/ /\ Ev(p) \in Quarantined
          /\ Appended(p, quarantine, quarantine')
          /\ Return(p, "quarantined")
          /\ UNCHANGED <<attempt, seenProc, seenRedis, runs>>
       \/ /\ Ev(p) \notin Quarantined /\ Ev(p) \in Remembered
          /\ Return(p, "duplicate")
          /\ UNCHANGED <<attempt, seenProc, seenRedis, quarantine, runs, budget>>
       \/ /\ Ev(p) \notin Quarantined /\ Ev(p) \notin Remembered
          /\ Remember(Ev(p))
          /\ runs' = [runs EXCEPT ![Ev(p)] = @ + 1]
          /\ attempt' = [attempt EXCEPT ![p] = 0]
          /\ Goto(p, "attempt")
          /\ UNCHANGED <<quarantine, budget>>
       \/ /\ Ev(p) \notin Quarantined /\ redis /\ Fault
          /\ Return(p, "rejected")
          /\ UNCHANGED <<attempt, seenProc, seenRedis, quarantine, runs>>
    /\ UNCHANGED <<cfg, phase, failed, locks, inflight, seenState, redis, forgotten,
                   spool, rows, deadLetters, queueSink, tails>>

\* One attempt of deliverWithRetry and, when it is not the last, the decision
\* to make another; the request's context may end while it waits.
Attempt(p) ==
    /\ pc[p] = "attempt"
    /\ \E a \in Attempts(cfg.policy, cfg.fallbackOn) :
          /\ IF a.failed = {} THEN UNCHANGED budget ELSE Fault
          /\ rows' = [t \in Targets |-> IF t \in a.tried \ a.failed
                                        THEN rows[t] \cup {Ev(p)} ELSE rows[t]]
          /\ failed' = [failed EXCEPT ![p] = a.failed]
          /\ attempt' = [attempt EXCEPT ![p] = @ + 1]
          /\ LET again == /\ ~PolicyHolds(cfg.policy, a.failed)
                          /\ attempt'[p] < cfg.attempts
             IN  \/ again /\ UNCHANGED <<pc, idx, answer>>
                 \/ (~again \/ p # Worker) /\ Goto(p, "deadletter")
    /\ UNCHANGED <<cfg, phase, locks, inflight, seen, spool, deadLetters,
                   quarantine, queueSink, tails, runs>>

\* The end of Process: dead-letter the event if the last outcome asks for it.
DeadLetter(p) ==
    /\ pc[p] = "deadletter"
    /\ IF cfg.dlq /\ WantsDeadLetter(cfg.policy, cfg.dlqOn, failed[p])
       THEN Appended(p, deadLetters, deadLetters')
       ELSE UNCHANGED <<deadLetters, budget>>
    /\ Return(p, IF PolicyHolds(cfg.policy, failed[p]) THEN "accepted" ELSE "rejected")
    /\ UNCHANGED <<cfg, phase, attempt, failed, locks, inflight, seen, spool, rows,
                   quarantine, queueSink, tails, runs>>

-----------------------------------------------------------------------------
(* The worker.                                                             *)

Receive ==
    /\ pc[Worker] = "recv" /\ next <= Len(file)
    /\ Goto(Worker, "ensure")
    /\ UNCHANGED <<cfg, phase, attempt, failed, locks, inflight, seen, spool,
                   stores, tails, runs, budget>>

\* Mutant: the checkpoint moves over a record that was given up.
Mark_NoGap ==
    /\ pc[Worker] = "mark"
    /\ pos' = next
    /\ next' = next + 1
    /\ Goto(Worker, "recv")
    /\ UNCHANGED <<cfg, phase, attempt, failed, locks, inflight, seen, file,
                   stores, tails, runs, budget>>

\* Mutant: the checkpoint is the record after the one that was delivered.
Mark_Next ==
    /\ pc[Worker] = "mark"
    /\ pos' = IF next = pos + 1 THEN next + 1 ELSE pos
    /\ next' = next + 1
    /\ Goto(Worker, "recv")
    /\ UNCHANGED <<cfg, phase, attempt, failed, locks, inflight, seen, file,
                   stores, tails, runs, budget>>

\* markSpoolDelivered: the checkpoint moves over the record if it is there.
Mark ==
    /\ pc[Worker] = "mark"
    /\ pos' = IF next = pos + 1 THEN next ELSE pos
    /\ next' = next + 1
    /\ Goto(Worker, "recv")
    /\ UNCHANGED <<cfg, phase, attempt, failed, locks, inflight, seen, file,
                   stores, tails, runs, budget>>

\* maybeWriteDLQ takes the processor there is, or makes one ...
TakeProcessor ==
    /\ pc[Worker] \in {"giveup", "reread"}
    /\ \/ /\ processor # 0
          /\ proc' = [proc EXCEPT ![Worker] = processor]
          /\ Goto(Worker, "write")
       \/ /\ processor = 0 /\ pc[Worker] = "giveup"
          /\ Goto(Worker, "ensure again")
          /\ UNCHANGED proc
    /\ UNCHANGED <<cfg, phase, attempt, failed, processor, generation, leaked,
                   closed, inflight, seen, spool, stores, tails, runs, budget>>

\* ... and writes with no lock, when it may have been closed.  The record
\* stays before the checkpoint until the next restart.
GiveUp ==
    /\ pc[Worker] = "write"
    /\ IF cfg.dlq THEN Appended(Worker, deadLetters, deadLetters')
                  ELSE UNCHANGED <<deadLetters, budget>>
    /\ next' = next + 1
    /\ Goto(Worker, "recv")
    /\ UNCHANGED <<cfg, phase, attempt, failed, locks, inflight, seen, file, pos,
                   rows, quarantine, queueSink, tails, runs>>

\* The dedupe window of an id ends.
Expire(e) ==
    /\ Spend("expiry")
    /\ \/ /\ e \in seenState
          /\ seenState' = seenState \ {e}
          /\ UNCHANGED <<seenProc, seenRedis>>
       \/ /\ e \in Remembered
          /\ seenProc' = seenProc \ {e} /\ seenRedis' = seenRedis \ {e}
          /\ UNCHANGED seenState
    /\ forgotten' = forgotten \cup {e}
    /\ UNCHANGED <<cfg, phase, request, locks, inflight, redis, spool, stores,
                   tails, runs>>

-----------------------------------------------------------------------------
Processing(p) == Ensure(p) \/ Enter(p) \/ Process(p) \/ Attempt(p) \/ DeadLetter(p)

Handler(r) ==
    \/ NextEvent(r) \/ Finish(r) \/ Dedupe(r) \/ SpoolAppend(r) \/ SpoolRefuses(r)
    \/ HybridQueue(r) \/ Accept(r) \/ Broadcast(r) \/ Processing(r) \/ EnterPanics(r)

WorkerStep ==
    Receive \/ Processing(Worker) \/ WorkerPanics \/ Mark \/ TakeProcessor \/ GiveUp

Next ==
    \/ Start \/ Serve \/ Reload \/ Stop \/ Close \/ Exit \/ Crash
    \/ \E r \in Requests : Refuse(r) \/ Admit(r) \/ Handler(r)
    \/ WorkerStep
    \/ Subscribe \/ Unsubscribe
    \/ \E e \in Events : Expire(e)

Spec == Init /\ [][Next]_vars

\* Goroutines run, and a lock is granted in the order it was asked for.
\* Nothing obliges a client, an operator, a timer or a fault to act.
Fairness ==
    /\ WF_vars(Start) /\ WF_vars(Serve) /\ WF_vars(WorkerStep)
    /\ SF_vars(Ensure(Worker))
    /\ \A r \in Requests : WF_vars(Handler(r)) /\ SF_vars(Ensure(r))

FairSpec == Spec /\ Fairness

-----------------------------------------------------------------------------
(* Properties.                                                             *)

Answers == {"accepted", "duplicate", "quarantined", "invalid", "rejected", "skipped"}

TypeOK ==
    /\ cfg \in Configs
    /\ phase \in {"down", "replay", "serve", "stopping", "closed"}
    /\ pc \in [Procs -> Settled \cup Inside \cup
                {"off", "recv", "mark", "giveup", "next", "dedupe", "append",
                 "queue", "accept", "broadcast", "ensure", "ensure again", "enter",
                 "reread", "write"}]
    /\ idx \in [Requests -> Nat] /\ attempt \in [Procs -> Nat]
    /\ failed \in [Procs -> SUBSET Targets]
    /\ answer \in [Requests -> Seq(Answers)]
    /\ processor \in 0 .. generation /\ proc \in [Procs -> 0 .. generation]
    /\ generation \in Nat /\ closed \subseteq 0 .. generation
    /\ leaked \in BOOLEAN /\ inflight \in Int
    /\ UNION {seenState, seenProc, seenRedis, forgotten} \subseteq Events
    /\ redis \in BOOLEAN
    /\ file \in Seq(Events) /\ pos \in 0 .. Len(file) /\ next \in Nat
    /\ rows \in [Targets -> SUBSET Events]
    /\ UNION {deadLetters, quarantine, queueSink, tailed} \subseteq Events
    /\ tail \in {"away", "open", "closed"} /\ copy \in [Requests -> BOOLEAN]
    /\ runs \in [Events -> Nat]

Answered(a) ==
    {e \in Events : \E r \in Requests : \E i \in DOMAIN answer[r] :
                        Batch[r][i] = e /\ answer[r][i] \in a}

Held == {file[i] : i \in pos + 1 .. Len(file)}

\* An event has reached the sinks as the policy asks, the fallback, the
\* dead-letter file or quarantine.
Reached(e) ==
    \/ CASE cfg.policy = "require_all" -> \A t \in Sinks : e \in rows[t]
         [] cfg.policy = "best_effort" -> \E t \in Sinks : e \in rows[t]
         [] OTHER -> e \in rows[Primary]
    \/ \E t \in Fallback : e \in rows[t]
    \/ e \in deadLetters \cup quarantine

Promise == INSTANCE Custody WITH
    acked <- Answered({"accepted"}), held <- Held,
    settled <- {e \in Events : Reached(e)}

\* Ingestion keeps the promise of Custody: whatever fails, is retried, is
\* replaced or crashes in between, an event that is answered "accepted" has
\* reached the sinks as the policy asks, or is in the spool and stays there
\* until it has.
KeepsCustody == Promise!Spec

\* An id is delivered by one run of the processor however often it is sent,
\* in parallel or again, by whichever handler, as long as no store forgets it:
\* at the end of its window, with the memory of a process, or because the
\* processor was replaced.
OneDelivery ==
    cfg.dedupe # "off" => \A e \in Events \ forgotten : runs[e] <= 1

\* The processor is not closed under a request or the worker that uses it,
\* unless the shutdown timed out.
NoClosedProcessor ==
    \A p \in Procs : pc[p] \in Inside => proc[p] \notin closed \/ phase = "closed"

\* The count that admits requests is that of the requests in progress: every
\* return, early or not, and every panic gives back what was taken, once.
InflightCounted == inflight = Cardinality({r \in Requests : Pending(r)})

\* A request comes to an end, unless a panic has left processorMu locked.
RequestsEnd == \A r \in Requests : Pending(r) ~> (~Pending(r) \/ leaked)

=============================================================================
