---------------------------- MODULE IngestProofs ----------------------------
(***************************************************************************)
(* Theorems about ingestion, for any requests, batches, sinks, policies,   *)
(* bounds and modes: its types, the count of requests in progress, the     *)
(* lock of the processor, deduplication, and that it keeps the promise of  *)
(* Custody.                                                                *)
(***************************************************************************)
EXTENDS Ingest, FiniteSetTheorems, TLAPS

-----------------------------------------------------------------------------
(* The invariant.                                                          *)

RequestStates ==
    Settled \cup Inside \cup
    {"next", "dedupe", "append", "queue", "accept", "broadcast", "ensure", "enter"}

WorkerStates ==
    Inside \cup {"off", "recv", "mark", "giveup", "ensure", "ensure again", "enter",
                 "reread", "write"}

\* Where the requests and the worker can be.
StatesOK ==
    /\ \A r \in Requests : pc[r] \in RequestStates
    /\ pc[Worker] \in WorkerStates

\* A process that has ended has left nothing in memory.
DownOK ==
    phase = "down" =>
        /\ pc[Worker] = "off" /\ seenProc = {}
        /\ \A r \in Requests : pc[r] \in Settled

\* What the worker has in hand is in the spool, after the checkpoint.
WorkerHand ==
    /\ next >= pos + 1
    /\ pc[Worker] \notin {"off", "recv"} => next <= Len(file)

\* A request has answered the events before the one in hand.
RequestHand ==
    \A r \in Requests :
        /\ idx[r] >= 1
        /\ pc[r] \notin Settled \cup {"next"} => idx[r] <= Len(Batch[r])
        /\ pc[r] = "new" \/ Pending(r) =>
              Len(answer[r]) = idx[r] - (IF pc[r] = "broadcast" THEN 0 ELSE 1)

Places == StatesOK /\ DownOK /\ WorkerHand /\ RequestHand

\* What is spooled is delivered by the worker alone, and without a spool the
\* requests deliver.
Modes ==
    /\ Spooled => \A r \in Requests : pc[r] \notin Inside \cup {"ensure", "enter"}
    /\ ~Spooled => /\ file = <<>>
                   /\ \A r \in Requests : pc[r] \notin {"append", "queue"}

\* The processor there is has not been closed, nor the one in use.
ProcessorOK ==
    /\ processor # 0 => processor \notin closed \/ phase = "closed"
    /\ \A p \in Procs : pc[p] \in Inside => proc[p] # 0
    /\ NoClosedProcessor

\* An id that was delivered is remembered, or was forgotten.
Remembering ==
    cfg.dedupe # "off" =>
        \A e \in Events \ forgotten :
            runs[e] = 0 \/ (runs[e] = 1 /\ e \in Remembered)

-----------------------------------------------------------------------------
(* Frames: which steps touch which part of the state.                      *)

\* The configuration of a run is fixed.
LEMMA CfgFrame ==
    ASSUME [Next]_vars
    PROVE  cfg' = cfg
  BY ZenonT(60) DEF Next, vars, Handler, Processing, WorkerStep, Start, Serve, Reload, Stop,
         Close, Exit, Crash, Vanish, Refuse, Admit, NextEvent, Finish, Dedupe,
         SpoolAppend, SpoolRefuses, HybridQueue, Accept, Broadcast, Ensure, Enter,
         EnterPanics, WorkerPanics, Process, Attempt, DeadLetter, Receive, Mark,
         TakeProcessor, GiveUp, Subscribe, Unsubscribe, Expire

\* The processor is replaced, closed or taken.
LEMMA LocksFrame ==
    ASSUME [Next]_vars
    PROVE  \/ UNCHANGED <<processor, generation, proc, leaked, closed>>
           \/ Serve \/ Reload \/ Close \/ Exit \/ Crash \/ WorkerPanics
           \/ TakeProcessor
           \/ \E p \in Procs : Ensure(p) \/ Enter(p)
           \/ \E r \in Requests : EnterPanics(r)
  BY ZenonT(60) DEF Next, vars, Handler, Processing, WorkerStep, Procs, Start, Stop, Refuse,
         Admit, NextEvent, Finish, Dedupe, SpoolAppend, SpoolRefuses, HybridQueue,
         Accept, Broadcast, Process, Attempt, DeadLetter, Receive, Mark, GiveUp,
         Subscribe, Unsubscribe, Expire, locks

\* An id is recorded, or the memory of a process is lost.
LEMMA SeenFrame ==
    ASSUME [Next]_vars
    PROVE  \/ UNCHANGED <<seenState, seenProc, seenRedis, redis, forgotten, runs>>
           \/ Serve \/ Exit \/ Crash \/ WorkerPanics
           \/ \E p \in Procs : Ensure(p) \/ Process(p)
           \/ \E r \in Requests : Dedupe(r)
           \/ \E e \in Events : Expire(e)
  BY ZenonT(60) DEF Next, vars, Handler, Processing, WorkerStep, Procs, Start, Stop, Close,
         Reload, Refuse, Admit, NextEvent, Finish, SpoolAppend, SpoolRefuses,
         HybridQueue, Accept, Broadcast, Attempt, DeadLetter, EnterPanics, Enter,
         TakeProcessor, Receive, Mark, GiveUp, Subscribe, Unsubscribe, seen

\* The spool and its positions.
LEMMA SpoolFrame ==
    ASSUME [Next]_vars
    PROVE  \/ UNCHANGED <<file, pos, next>>
           \/ Start \/ Mark \/ GiveUp
           \/ \E r \in Requests : SpoolAppend(r)
  BY ZenonT(60) DEF Next, vars, Handler, Processing, WorkerStep, Procs, Serve, Stop, Close,
         Reload, Exit, Crash, Vanish, Refuse, Admit, NextEvent, Finish, Dedupe,
         SpoolRefuses, HybridQueue, Accept, Broadcast, Ensure, Enter, EnterPanics,
         WorkerPanics, Process, Attempt, DeadLetter, Receive, TakeProcessor,
         Subscribe, Unsubscribe, Expire, spool

\* An event reaches a sink, the dead letters or quarantine.
LEMMA StoresFrame ==
    ASSUME [Next]_vars
    PROVE  \/ UNCHANGED <<rows, deadLetters, quarantine>>
           \/ \E p \in Procs : Process(p) \/ Attempt(p) \/ DeadLetter(p)
           \/ GiveUp
  BY ZenonT(60) DEF Next, vars, Handler, Processing, WorkerStep, Procs, Start, Serve, Stop,
         Close, Reload, Exit, Crash, Vanish, Refuse, Admit, NextEvent, Finish,
         Dedupe, SpoolAppend, SpoolRefuses, HybridQueue, Accept, Broadcast, Ensure,
         Enter, EnterPanics, WorkerPanics, Receive, Mark, TakeProcessor, Subscribe,
         Unsubscribe, Expire, stores

\* The tail subscriber and the second queue.
LEMMA TailFrame ==
    ASSUME [Next]_vars
    PROVE  \/ UNCHANGED <<queueSink, tail, copy, tailed>>
           \/ Exit \/ Crash \/ WorkerPanics \/ Subscribe \/ Unsubscribe
           \/ \E r \in Requests : HybridQueue(r) \/ Accept(r) \/ Broadcast(r)
  BY ZenonT(60) DEF Next, vars, Handler, Processing, WorkerStep, Procs, Start, Serve, Stop,
         Close, Reload, Refuse, Admit, NextEvent, Finish, Dedupe, SpoolAppend,
         SpoolRefuses, Ensure, Enter, EnterPanics, Receive, Mark, TakeProcessor,
         Process, Attempt, DeadLetter, GiveUp, Expire, stores, tails

\* What a step does to the count of requests in progress.
LEMMA InflightFrame ==
    ASSUME [Next]_vars
    PROVE  \/ UNCHANGED inflight
           \/ Exit \/ Crash \/ WorkerPanics
           \/ \E r \in Requests : Admit(r)
           \/ \E r \in Requests : Finish(r)
           \/ \E r \in Requests :
                 Dedupe(r) \/ HybridQueue(r) \/ Broadcast(r) \/ EnterPanics(r)
  BY ZenonT(60) DEF Next, vars, Handler, Processing, WorkerStep, Procs, Start, Serve, Reload,
         Stop, Close, Refuse, NextEvent, SpoolAppend, SpoolRefuses, Accept, Ensure,
         Enter, Process, Attempt, DeadLetter, Receive, Mark, TakeProcessor, GiveUp,
         Subscribe, Unsubscribe, Expire

\* The phases of the process.
LEMMA PhaseFrame ==
    ASSUME [Next]_vars
    PROVE  \/ UNCHANGED phase
           \/ Start \/ Serve \/ Stop \/ Close \/ Exit \/ Crash \/ WorkerPanics
  BY ZenonT(60) DEF Next, vars, Handler, Processing, WorkerStep, Procs, Reload, Refuse, Admit,
         NextEvent, Finish, Dedupe, SpoolAppend, SpoolRefuses, HybridQueue, Accept,
         Broadcast, Ensure, Enter, EnterPanics, Process, Attempt, DeadLetter, Receive,
         Mark, TakeProcessor, GiveUp, Subscribe, Unsubscribe, Expire

-----------------------------------------------------------------------------
(* Types.                                                                  *)

States ==
    Settled \cup Inside \cup
    {"off", "recv", "mark", "giveup", "next", "dedupe", "append", "queue", "accept",
     "broadcast", "ensure", "ensure again", "enter", "reread", "write"}

RequestTypes ==
    /\ pc \in [Procs -> States]
    /\ idx \in [Requests -> Nat] /\ answer \in [Requests -> Seq(Answers)]

AttemptTypes ==
    attempt \in [Procs -> Nat] /\ failed \in [Procs -> SUBSET Targets]

LockTypes ==
    /\ processor \in 0 .. generation /\ proc \in [Procs -> 0 .. generation]
    /\ generation \in Nat /\ closed \subseteq 0 .. generation
    /\ leaked \in BOOLEAN

SeenTypes ==
    /\ seenState \subseteq Events /\ seenProc \subseteq Events
    /\ seenRedis \subseteq Events /\ forgotten \subseteq Events
    /\ redis \in BOOLEAN
    /\ runs \in [Events -> Nat]

SpoolTypes == file \in Seq(Events) /\ pos \in 0 .. Len(file) /\ next \in Nat

StoreTypes ==
    /\ rows \in [Targets -> SUBSET Events]
    /\ deadLetters \subseteq Events /\ quarantine \subseteq Events

TailTypes ==
    /\ queueSink \subseteq Events /\ tailed \subseteq Events
    /\ tail \in {"away", "open", "closed"} /\ copy \in [Requests -> BOOLEAN]

Types ==
    /\ cfg \in Configs
    /\ phase \in {"down", "replay", "serve", "stopping", "closed"}
    /\ inflight \in Int
    /\ RequestTypes /\ AttemptTypes /\ LockTypes /\ SeenTypes /\ SpoolTypes
    /\ StoreTypes /\ TailTypes

\* TypeOK by groups of variables, so that a step is followed in the groups it touches.
LEMMA TypeParts == TypeOK <=> Types
  BY DEF TypeOK, Types, RequestTypes, AttemptTypes, LockTypes, SeenTypes, SpoolTypes,
         StoreTypes, TailTypes, States

\* What Return does with a result, in the worker and in a request.
LEMMA ReturnMoves ==
    ASSUME NEW p \in Procs,
           NEW result \in {"accepted", "duplicate", "quarantined", "rejected"},
           Return(p, result)
    PROVE  \/ /\ p = Worker
              /\ Goto(p, IF result \in {"accepted", "duplicate"} THEN "mark"
                                                               ELSE "giveup")
           \/ p \in Requests /\ result = "accepted" /\ Goto(p, "accept")
           \/ /\ p \in Requests /\ result # "accepted"
              /\ \E a \in Answers \ {"accepted"} : Answer(p, a, "next")
  <1>1. CASE p = Worker
    BY <1>1, IngestAssumption DEF Return
  <1>2. CASE p \in Requests /\ result = "accepted"
    BY <1>2, IngestAssumption DEF Return
  <1>3. CASE p \in Requests /\ result # "accepted" /\ p \in Bulk /\ result = "duplicate"
    BY <1>3, IngestAssumption DEF Return, Answers
  <1>4. CASE p \in Requests /\ result # "accepted" /\ ~(p \in Bulk /\ result = "duplicate")
    BY <1>4, IngestAssumption DEF Return, Answers
  <1> QED
    BY <1>1, <1>2, <1>3, <1>4 DEF Procs

\* How a step moves the requests and the worker: one of them goes on, one
\* request is answered, or all of them end with the process.
Moves ==
    \/ UNCHANGED <<pc, idx, answer>>
    \/ \E to \in WorkerStates : Goto(Worker, to)
    \/ \E r \in Requests, to \in RequestStates : Goto(r, to)
    \/ \E r \in Requests : \E a \in Answers \ {"accepted"} : Answer(r, a, "next")
    \/ \E r \in Requests : Accept(r) \/ Broadcast(r)
    \/ Vanish

\* Every step moves control as one of these.
LEMMA StepMoves ==
    ASSUME StatesOK, [Next]_vars
    PROVE  Moves
  <1> USE DEF Moves, RequestStates, WorkerStates, Settled, Inside
  <1>1. CASE \/ Serve \/ Reload \/ Stop \/ Subscribe \/ Unsubscribe
             \/ (\E e \in Events : Expire(e)) \/ UNCHANGED vars
    BY <1>1 DEF Serve, Reload, Stop, Subscribe, Unsubscribe, Expire, vars, request
  <1>2. CASE Start \/ Close
    BY <1>2 DEF Start, Close, Goto
  <1>3. CASE Exit \/ Crash \/ WorkerPanics
    BY <1>3 DEF Exit, Crash, WorkerPanics
  <1>4. ASSUME NEW r \in Requests,
               \/ Refuse(r) \/ Admit(r) \/ Finish(r) \/ SpoolAppend(r)
               \/ EnterPanics(r) \/ Accept(r) \/ Broadcast(r)
        PROVE  Moves
    BY <1>4 DEF Refuse, Admit, Finish, SpoolAppend, EnterPanics, Panic
  <1>5. ASSUME NEW r \in Requests,
               NextEvent(r) \/ SpoolRefuses(r) \/ Dedupe(r) \/ HybridQueue(r)
        PROVE  Moves
    BY <1>5 DEF NextEvent, SpoolRefuses, Dedupe, HybridQueue, Abandon, Answers
  <1>6. CASE Receive \/ Mark \/ TakeProcessor \/ GiveUp
    BY <1>6 DEF Receive, Mark, TakeProcessor, GiveUp
  <1>7. ASSUME NEW p \in Procs, Ensure(p) \/ Enter(p) \/ Attempt(p)
        PROVE  Moves
    <2>1. CASE p = Worker
      BY <1>7, <2>1 DEF Ensure, Enter, Attempt
    <2>2. CASE p \in Requests
      BY <1>7, <2>2 DEF Ensure, Enter, Attempt, StatesOK
    <2> QED
      BY <2>1, <2>2 DEF Procs
  <1>8. ASSUME NEW p \in Procs, Process(p) \/ DeadLetter(p)
        PROVE  Moves
    <2>1. \/ \E result \in {"accepted", "duplicate", "quarantined", "rejected"} :
                Return(p, result)
          \/ Goto(p, "attempt")
      BY <1>8 DEF Process, DeadLetter
    <2>2. QED
      BY <2>1, ReturnMoves DEF Procs
  <1> QED
    BY <1>1, <1>2, <1>3, <1>4, <1>5, <1>6, <1>7, <1>8
       DEF Next, Handler, Processing, WorkerStep, Procs

\* The attempts of a delivery and their outcome.
LEMMA AttemptFrame ==
    ASSUME [Next]_vars
    PROVE  \/ UNCHANGED <<attempt, failed>>
           \/ \E p \in Procs : Process(p) \/ Attempt(p)
  BY ZenonT(60) DEF Next, vars, Handler, Processing, WorkerStep, Procs, Start, Serve, Stop,
         Close, Reload, Exit, Crash, Vanish, Refuse, Admit, NextEvent, Finish,
         Dedupe, SpoolAppend, SpoolRefuses, HybridQueue, Accept, Broadcast, Ensure,
         Enter, EnterPanics, WorkerPanics, DeadLetter, Receive, Mark, TakeProcessor,
         GiveUp, Subscribe, Unsubscribe, Expire, request

\* Control, position and answer of the requests.
LEMMA RequestTypesKept ==
    ASSUME RequestTypes, StatesOK, [Next]_vars
    PROVE  RequestTypes'
  <1> USE DEF RequestTypes
  <1>1. CASE UNCHANGED <<pc, idx, answer>>
    BY <1>1
  <1>2. ASSUME NEW p \in Procs, NEW to \in States, Goto(p, to)
        PROVE  RequestTypes'
    BY <1>2 DEF Goto
  <1>d. WorkerStates \subseteq States /\ RequestStates \subseteq States
    BY DEF States, WorkerStates, RequestStates
  <1>a. ASSUME NEW r \in Requests, NEW a \in Answers
        PROVE  [answer EXCEPT ![r] = Append(@, a)] \in [Requests -> Seq(Answers)]
    <2>1. Append(answer[r], a) \in Seq(Answers)
      OBVIOUS
    <2>2. QED
      BY <2>1
  <1>b. ASSUME NEW r \in Requests, NEW to \in States
        PROVE  [pc EXCEPT ![r] = to] \in [Procs -> States]
    BY DEF Procs
  <1>c. {"next", "aborted", "broadcast"} \subseteq States /\ "accepted" \in Answers
    BY DEF States, Settled, Answers
  <1>3. ASSUME NEW r \in Requests, NEW a \in Answers, Answer(r, a, "next")
        PROVE  RequestTypes'
    BY <1>3, <1>a, <1>b, <1>c DEF Answer
  <1>4. ASSUME NEW r \in Requests, Accept(r)
        PROVE  RequestTypes'
    <2>1. /\ pc' = [pc EXCEPT ![r] = "broadcast"] /\ idx' = idx
          /\ answer' = [answer EXCEPT ![r] = Append(@, "accepted")]
      BY <1>4, Zenon DEF Accept
    <2>2. QED
      BY <2>1, <1>a, <1>b, <1>c
  <1>5. ASSUME NEW r \in Requests, Broadcast(r)
        PROVE  RequestTypes'
    <2>1. /\ answer' = answer
          /\ \/ idx' = idx /\ pc' = [pc EXCEPT ![r] = "aborted"]
             \/ idx' = [idx EXCEPT ![r] = @ + 1] /\ pc' = [pc EXCEPT ![r] = "next"]
      BY <1>5, Zenon DEF Broadcast, Panic, Goto
    <2>2. QED
      BY <2>1, <1>b, <1>c
  <1>6. CASE Vanish
    BY <1>6 DEF Vanish, States, Settled
  <1> QED
    BY <1>1, <1>2, <1>3, <1>4, <1>5, <1>6, <1>d, StepMoves DEF Moves, Procs

\* What an attempt has in hand.
LEMMA AttemptTypesKept ==
    ASSUME AttemptTypes, [Next]_vars
    PROVE  AttemptTypes'
  <1> USE DEF AttemptTypes
  <1>1. ASSUME NEW p \in Procs, Process(p)
        PROVE  AttemptTypes'
    BY <1>1 DEF Process
  <1>2. ASSUME NEW p \in Procs, Attempt(p)
        PROVE  AttemptTypes'
    BY <1>2 DEF Attempt, Attempts
  <1> QED
    BY <1>1, <1>2, AttemptFrame

\* The processor, its readers and writer.
LEMMA LockTypesKept ==
    ASSUME LockTypes, [Next]_vars
    PROVE  LockTypes'
  <1> USE DEF LockTypes
  <1>1. CASE Serve \/ \E p \in Procs : Ensure(p)
    <2>1. \/ \E w \in BOOLEAN : NewProcessor(w)
          \/ UNCHANGED <<processor, generation, proc, leaked, closed>>
      BY <1>1 DEF Serve, Ensure, locks
    <2>2. CASE \E w \in BOOLEAN : NewProcessor(w)
      <3>1. /\ processor' = generation + 1 /\ generation' = generation + 1
            /\ UNCHANGED <<proc, leaked, closed>>
        BY <2>2 DEF NewProcessor
      <3>2. 0 .. generation \subseteq 0 .. generation'
        BY <3>1
      <3>3. QED
        BY <3>1, <3>2
    <2>3. QED
      BY <2>1, <2>2
  <1>2. CASE Reload \/ Close
    <2>1. /\ processor' = 0 /\ closed' = closed \cup {processor}
          /\ UNCHANGED <<generation, proc, leaked>>
      BY <1>2 DEF Reload, Close
    <2>2. QED
      BY <2>1
  <1>3. CASE Exit \/ Crash \/ WorkerPanics
    <2>1. /\ processor' = 0 /\ generation' = 0 /\ closed' = {} /\ leaked' = FALSE
          /\ proc' = [p \in Procs |-> 0]
      BY <1>3 DEF Exit, Crash, WorkerPanics, Vanish
    <2>2. 0 \in 0 .. generation' /\ proc' \in [Procs -> 0 .. generation']
      BY <2>1
    <2>3. QED
      BY <2>1, <2>2
  <1>4. CASE TakeProcessor \/ \E p \in Procs : Enter(p)
    <2>1. /\ UNCHANGED <<processor, generation, leaked, closed>>
          /\ \/ UNCHANGED proc
             \/ \E p \in Procs : proc' = [proc EXCEPT ![p] = processor]
      BY <1>4 DEF TakeProcessor, Enter, Procs
    <2>2. ASSUME NEW p \in Procs
          PROVE  [proc EXCEPT ![p] = processor] \in [Procs -> 0 .. generation]
      OBVIOUS
    <2>3. QED
      BY <2>1, <2>2
  <1>5. CASE \E r \in Requests : EnterPanics(r)
    BY <1>5 DEF EnterPanics
  <1> QED
    BY <1>1, <1>2, <1>3, <1>4, <1>5, LocksFrame

\* The event in hand.
LEMMA EvType ==
    ASSUME Types, Places, NEW p \in Procs,
           pc[p] \notin Settled \cup {"next", "off", "recv"}
    PROVE  Ev(p) \in Events
  <1>1. CASE p = Worker
    <2>1. next \in 1 .. Len(file) /\ file \in Seq(Events)
      BY <1>1 DEF Types, SpoolTypes, Places, WorkerHand
    <2>2. QED
      BY <1>1, <2>1 DEF Ev
  <1>2. CASE p \in Requests
    <2>1. idx[p] \in 1 .. Len(Batch[p]) /\ Batch[p] \in Seq(Events)
      BY <1>2, IngestAssumption DEF Types, RequestTypes, Places, RequestHand
    <2>2. QED
      BY <1>2, <2>1, IngestAssumption DEF Ev
  <1> QED
    BY <1>1, <1>2 DEF Procs

\* What the dedupe tables hold.
LEMMA SeenTypesKept ==
    ASSUME Types, Places, [Next]_vars
    PROVE  SeenTypes'
  <1> USE DEF SeenTypes, Types
  <1>1. ASSUME NEW w \in BOOLEAN, NewProcessor(w), UNCHANGED runs
        PROVE  SeenTypes'
    BY <1>1 DEF NewProcessor, Remembered
  <1>2. CASE Serve
    BY <1>1, <1>2 DEF Serve
  <1>3. CASE Exit \/ Crash \/ WorkerPanics
    BY <1>3 DEF Exit, Crash, WorkerPanics, Vanish
  <1>4. ASSUME NEW p \in Procs, Ensure(p)
        PROVE  SeenTypes'
    BY <1>1, <1>4 DEF Ensure, seen
  <1>5. ASSUME NEW p \in Procs, Process(p)
        PROVE  SeenTypes'
    <2>1. Ev(p) \in Events
      BY <1>5, EvType DEF Process, Settled
    <2>2. QED
      BY <1>5, <2>1 DEF Process, Remember
  <1>6. ASSUME NEW r \in Requests, Dedupe(r)
        PROVE  SeenTypes'
    <2>1. Ev(r) \in Events
      BY <1>6, EvType DEF Dedupe, Settled, Procs
    <2>2. QED
      BY <1>6, <2>1 DEF Dedupe
  <1>7. ASSUME NEW e \in Events, Expire(e)
        PROVE  SeenTypes'
    BY <1>7 DEF Expire
  <1> QED
    BY <1>2, <1>3, <1>4, <1>5, <1>6, <1>7, SeenFrame

\* The records and positions of the spool.
LEMMA SpoolTypesKept ==
    ASSUME Types, Places, [Next]_vars
    PROVE  SpoolTypes'
  <1> USE DEF SpoolTypes, Types
  <1>1. CASE Start
    BY <1>1 DEF Start
  <1>2. CASE Mark
    BY <1>2 DEF Mark, Places, WorkerHand
  <1>3. CASE GiveUp
    BY <1>3 DEF GiveUp
  <1>4. ASSUME NEW r \in Requests, SpoolAppend(r)
        PROVE  SpoolTypes'
    <2>1. Ev(r) \in Events
      BY <1>4, EvType DEF SpoolAppend, Settled, Procs
    <2>2. file' = Append(file, Ev(r)) /\ pos' = pos /\ next' = next
      BY <1>4 DEF SpoolAppend
    <2>3. file' \in Seq(Events) /\ Len(file') = Len(file) + 1
      BY <2>1, <2>2
    <2>4. QED
      BY <2>2, <2>3
  <1> QED
    BY <1>1, <1>2, <1>3, <1>4, SpoolFrame

\* Sinks, dead letters and quarantine.
LEMMA StoreTypesKept ==
    ASSUME Types, Places, [Next]_vars
    PROVE  StoreTypes'
  <1> USE DEF StoreTypes, Types
  <1>1. ASSUME NEW p \in Procs, Process(p) \/ Attempt(p) \/ DeadLetter(p) \/ (p = Worker /\ GiveUp)
        PROVE  StoreTypes'
    <2>1. Ev(p) \in Events
      BY <1>1, EvType DEF Process, Attempt, DeadLetter, GiveUp, Settled
    <2>2. CASE Process(p)
      BY <2>1, <2>2 DEF Process, Appended
    <2>3. CASE Attempt(p)
      <3>1. PICK S :
               rows' = [t \in Targets |-> IF t \in S THEN rows[t] \cup {Ev(p)} ELSE rows[t]]
        <4>1. PICK a \in Attempts(cfg.policy, cfg.fallbackOn) :
                 rows' = [t \in Targets |-> IF t \in a.tried \ a.failed
                                            THEN rows[t] \cup {Ev(p)} ELSE rows[t]]
          BY <2>3 DEF Attempt
        <4>2. QED
          BY <4>1
      <3>2. UNCHANGED <<deadLetters, quarantine>>
        BY <2>3 DEF Attempt
      <3>3. QED
        BY <2>1, <3>1, <3>2
    <2>4. CASE DeadLetter(p)
      BY <2>1, <2>4 DEF DeadLetter, Appended
    <2>5. CASE p = Worker /\ GiveUp
      BY <2>1, <2>5 DEF GiveUp, Appended
    <2>6. QED
      BY <1>1, <2>2, <2>3, <2>4, <2>5
  <1> QED
    BY <1>1, StoresFrame DEF Procs

\* The tail subscription.
LEMMA TailTypesKept ==
    ASSUME Types, Places, [Next]_vars
    PROVE  TailTypes'
  <1> USE DEF TailTypes, Types
  <1>1. CASE Exit \/ Crash \/ WorkerPanics
    <2>1. /\ tail' = "away" /\ copy' = [r \in Requests |-> FALSE]
          /\ UNCHANGED <<queueSink, tailed>>
      BY <1>1 DEF Exit, Crash, WorkerPanics, Vanish, stores
    <2>2. QED
      BY <2>1
  <1>2. CASE Subscribe \/ Unsubscribe
    <2>1. tail' \in {"open", "closed"} /\ UNCHANGED <<queueSink, copy, tailed>>
      BY <1>2 DEF Subscribe, Unsubscribe, stores
    <2>2. QED
      BY <2>1
  <1>3. ASSUME NEW r \in Requests, HybridQueue(r) \/ Broadcast(r)
        PROVE  TailTypes'
    <2>1. Ev(r) \in Events
      BY <1>3, EvType DEF HybridQueue, Broadcast, Settled, Procs
    <2>2. /\ UNCHANGED <<tail, copy>>
          /\ queueSink' \in {queueSink, queueSink \cup {Ev(r)}}
          /\ tailed' \in {tailed, tailed \cup {Ev(r)}}
      BY <1>3 DEF HybridQueue, Broadcast, tails, stores
    <2>3. QED
      BY <2>1, <2>2
  <1>4. ASSUME NEW r \in Requests, Accept(r)
        PROVE  TailTypes'
    <2>1. /\ copy' = [copy EXCEPT ![r] = (tail = "open")]
          /\ UNCHANGED <<tail, queueSink, tailed>>
      BY <1>4 DEF Accept, stores
    <2>2. QED
      BY <2>1
  <1> QED
    BY <1>1, <1>2, <1>3, <1>4, TailFrame

\* All variables.
LEMMA TypesKept ==
    ASSUME Types, Places, [Next]_vars
    PROVE  Types'
  <1>1. cfg' \in Configs
    BY CfgFrame DEF Types
  <1>2. phase' \in {"down", "replay", "serve", "stopping", "closed"}
    BY PhaseFrame DEF Types, Start, Serve, Stop, Close, Exit, Crash, WorkerPanics, Vanish
  <1>3. inflight' \in Int
    <2>1. inflight' \in {inflight, inflight + 1, inflight - 1, 0}
      <3>1. CASE Exit \/ Crash \/ WorkerPanics
        BY <3>1 DEF Exit, Crash, WorkerPanics, Vanish
      <3>2. ASSUME NEW r \in Requests, Admit(r) \/ Finish(r) \/ EnterPanics(r)
            PROVE  inflight' \in {inflight, inflight + 1, inflight - 1, 0}
        BY <3>2 DEF Admit, Finish, EnterPanics, Panic
      <3>3. ASSUME NEW r \in Requests, Dedupe(r) \/ HybridQueue(r)
            PROVE  inflight' \in {inflight, inflight + 1, inflight - 1, 0}
        BY <3>3 DEF Dedupe, HybridQueue, Abandon
      <3>4. ASSUME NEW r \in Requests, Broadcast(r)
            PROVE  inflight' \in {inflight, inflight + 1, inflight - 1, 0}
        BY <3>4 DEF Broadcast, Panic
      <3>5. QED
        BY <3>1, <3>2, <3>3, <3>4, InflightFrame
    <2>2. QED
      BY <2>1 DEF Types
  <1> QED
    BY <1>1, <1>2, <1>3, RequestTypesKept, AttemptTypesKept, LockTypesKept,
       SeenTypesKept, SpoolTypesKept, StoreTypesKept, TailTypesKept DEF Types, Places

-----------------------------------------------------------------------------
(* Places.                                                                 *)

\* No process gets to a state of another kind.
LEMMA StatesKept ==
    ASSUME RequestTypes, StatesOK, [Next]_vars
    PROVE  StatesOK'
  <1> USE DEF RequestTypes, StatesOK, Procs
  <1>w. Worker \notin Requests
    BY IngestAssumption
  <1>1. CASE UNCHANGED pc
    BY <1>1
  <1>2. CASE Vanish
    BY <1>2, <1>w DEF Vanish, RequestStates, WorkerStates, Settled
  <1>3. ASSUME NEW to \in WorkerStates, Goto(Worker, to)
        PROVE  StatesOK'
    BY <1>3, <1>w DEF Goto
  <1>4. ASSUME NEW r \in Requests, NEW to \in RequestStates,
               pc' = [pc EXCEPT ![r] = to]
        PROVE  StatesOK'
    BY <1>4, <1>w
  <1>5. {"next", "aborted", "broadcast"} \subseteq RequestStates
    BY DEF RequestStates, Settled
  <1>6. ASSUME NEW r \in Requests, Broadcast(r)
        PROVE  StatesOK'
    <2>1. \E to \in RequestStates : pc' = [pc EXCEPT ![r] = to]
      BY <1>5, <1>6 DEF Broadcast, Panic, Goto
    <2>2. QED
      BY <1>4, <2>1
  <1>7. ASSUME NEW r \in Requests, Accept(r)
        PROVE  StatesOK'
    <2>1. pc' = [pc EXCEPT ![r] = "broadcast"]
      BY <1>7, Zenon DEF Accept
    <2>2. QED
      BY <1>4, <1>5, <2>1
  <1>8. ASSUME NEW r \in Requests, NEW a, Answer(r, a, "next")
        PROVE  StatesOK'
    BY <1>4, <1>5, <1>8 DEF Answer
  <1>9. ASSUME NEW r \in Requests, NEW to \in RequestStates, Goto(r, to)
        PROVE  StatesOK'
    BY <1>4, <1>9 DEF Goto
  <1> QED
    BY <1>1, <1>2, <1>3, <1>6, <1>7, <1>8, <1>9, StepMoves DEF Moves

\* Nothing runs while the collector is down.
LEMMA DownKept ==
    ASSUME Types, Places, [Next]_vars
    PROVE  DownOK'
  <1> USE DEF Types, RequestTypes, Places, DownOK
  <1>1. CASE Exit \/ Crash \/ WorkerPanics
    <2>1. Vanish
      BY <1>1 DEF Exit, Crash, WorkerPanics
    <2>2. QED
      BY <2>1, IngestAssumption DEF Vanish, Procs, Settled
  <1>2. CASE phase' # "down"
    BY <1>2
  <1>3. CASE phase = "down" /\ phase' = "down" /\ ~(Exit \/ Crash \/ WorkerPanics)
    <2>1. \A r \in Requests : ~Handler(r) /\ ~Refuse(r) /\ ~Admit(r)
      BY <1>3, ZenonT(60) DEF Handler, Settled, Refuse, Admit, NextEvent, Finish, Dedupe,
         SpoolAppend, SpoolRefuses, HybridQueue, Accept, Broadcast, Processing, Ensure,
         Enter, Process, Attempt, DeadLetter, EnterPanics, Inside
    <2>2. ~WorkerStep
      BY <1>3 DEF WorkerStep, Receive, Processing, Ensure, Enter, Process, Attempt,
         DeadLetter, Mark, TakeProcessor, GiveUp
    <2>3. UNCHANGED pc /\ seenProc' \subseteq seenProc
      BY <1>3, <2>1, <2>2 DEF Next, Start, Serve, Reload, Stop, Close, Subscribe,
         Unsubscribe, Expire, vars, request, seen
    <2>4. QED
      BY <1>3, <2>3
  <1>4. CASE phase # "down" /\ phase' = "down"
    BY <1>1, <1>4, PhaseFrame DEF Start, Serve, Stop, Close
  <1> QED
    BY <1>1, <1>2, <1>3, <1>4

\* The rest of the system, seen from a request.
LEMMA RequestMoves ==
    ASSUME RequestTypes, NEW r \in Requests, Refuse(r) \/ Admit(r) \/ Handler(r)
    PROVE  /\ \A p \in Procs \ {r} : pc'[p] = pc[p]
           /\ \A q \in Requests \ {r} : idx'[q] = idx[q] /\ answer'[q] = answer[q]
  <1> DEFINE Others == /\ \A p \in Procs \ {r} : pc'[p] = pc[p]
                       /\ \A q \in Requests \ {r} :
                             idx'[q] = idx[q] /\ answer'[q] = answer[q]
  <1>w. r \in Procs /\ r # Worker
    BY IngestAssumption DEF Procs
  <1>1. ASSUME NEW to, Goto(r, to) PROVE Others
    BY <1>1, <1>w DEF Goto, RequestTypes
  <1>2. ASSUME NEW a, NEW to, Answer(r, a, to) PROVE Others
    BY <1>2, <1>w DEF Answer, RequestTypes
  <1>3. CASE Accept(r)
    <2>1. /\ pc' = [pc EXCEPT ![r] = "broadcast"] /\ idx' = idx
          /\ answer' = [answer EXCEPT ![r] = Append(@, "accepted")]
      BY <1>3, Zenon DEF Accept
    <2>2. QED
      BY <1>w, <2>1 DEF RequestTypes
  <1>4. CASE Broadcast(r)
    <2>1. /\ \E to : pc' = [pc EXCEPT ![r] = to]
          /\ idx' = idx \/ idx' = [idx EXCEPT ![r] = @ + 1]
          /\ answer' = answer
      BY <1>4, Zenon DEF Broadcast, Panic, Goto
    <2>2. QED
      BY <1>w, <2>1 DEF RequestTypes
  <1>5. CASE Process(r) \/ DeadLetter(r)
    <2>1. \/ \E result \in {"accepted", "duplicate", "quarantined", "rejected"} :
                Return(r, result)
          \/ Goto(r, "attempt")
      BY <1>5 DEF Process, DeadLetter
    <2>2. QED
      BY <1>1, <1>2, <1>w, <2>1, ReturnMoves
  <1>6. CASE Refuse(r) \/ Admit(r) \/ Finish(r) \/ SpoolAppend(r) \/ EnterPanics(r)
    BY <1>1, <1>6 DEF Refuse, Admit, Finish, SpoolAppend, EnterPanics, Panic
  <1>7. CASE NextEvent(r) \/ SpoolRefuses(r) \/ Dedupe(r) \/ HybridQueue(r)
    BY <1>1, <1>2, <1>7 DEF NextEvent, SpoolRefuses, Dedupe, HybridQueue, Abandon
  <1>8. CASE Ensure(r) \/ Enter(r) \/ Attempt(r)
    BY <1>1, <1>8 DEF Ensure, Enter, Attempt
  <1> QED
    BY <1>3, <1>4, <1>5, <1>6, <1>7, <1>8 DEF Handler, Processing

\* The worker answers nobody.
LEMMA WorkerMoves ==
    ASSUME RequestTypes, StatesOK, WorkerStep
    PROVE  \/ Vanish
           \/ /\ UNCHANGED <<idx, answer>>
              /\ \A r \in Requests : pc'[r] = pc[r]
  <1>w. Worker \in Procs /\ Worker \notin Requests
    BY IngestAssumption DEF Procs
  <1>1. ASSUME NEW to, Goto(Worker, to)
        PROVE  UNCHANGED <<idx, answer>> /\ \A r \in Requests : pc'[r] = pc[r]
    BY <1>1, <1>w DEF Goto, RequestTypes, Procs
  <1>2. CASE Process(Worker) \/ DeadLetter(Worker)
    <2>1. \/ \E result \in {"accepted", "duplicate", "quarantined", "rejected"} :
                Return(Worker, result)
          \/ Goto(Worker, "attempt")
      BY <1>2 DEF Process, DeadLetter
    <2>2. QED
      BY <1>1, <1>w, <2>1, ReturnMoves
  <1>3. CASE Ensure(Worker) \/ Enter(Worker) \/ Attempt(Worker)
    BY <1>1, <1>3 DEF Ensure, Enter, Attempt
  <1>4. CASE Receive \/ Mark \/ TakeProcessor \/ GiveUp
    BY <1>1, <1>4 DEF Receive, Mark, TakeProcessor, GiveUp, Goto
  <1> QED
    BY <1>2, <1>3, <1>4 DEF WorkerStep, Processing, WorkerPanics

\* The steps that are no request's and not the worker's.
LEMMA ProcessMoves ==
    ASSUME RequestTypes,
           \/ Start \/ Serve \/ Reload \/ Stop \/ Close \/ Subscribe \/ Unsubscribe
           \/ (\E e \in Events : Expire(e)) \/ UNCHANGED vars
    PROVE  UNCHANGED <<idx, answer>> /\ \A r \in Requests : pc'[r] = pc[r]
  <1>w. Worker \in Procs /\ Worker \notin Requests
    BY IngestAssumption DEF Procs
  <1> QED
    BY <1>w DEF Start, Serve, Reload, Stop, Close, Subscribe, Unsubscribe, Expire,
       vars, request, RequestTypes, Procs

\* A request changes by a step of its own, or ends with the process.
LEMMA RequestStep ==
    ASSUME RequestTypes, StatesOK, [Next]_vars, NEW r \in Requests
    PROVE  \/ pc'[r] = pc[r] /\ idx'[r] = idx[r] /\ answer'[r] = answer[r]
           \/ Vanish
           \/ Refuse(r) \/ Admit(r) \/ Handler(r)
  <1>1. ASSUME NEW q \in Requests \ {r}, Refuse(q) \/ Admit(q) \/ Handler(q)
        PROVE  pc'[r] = pc[r] /\ idx'[r] = idx[r] /\ answer'[r] = answer[r]
    BY <1>1, RequestMoves DEF Procs
  <1>2. CASE Exit \/ Crash \/ WorkerStep
    BY <1>2, WorkerMoves DEF Exit, Crash
  <1> QED
    BY <1>1, <1>2, ProcessMoves DEF Next

\* The worker begins with a record when it receives it.
LEMMA WorkerBusy ==
    ASSUME RequestTypes, StatesOK, [Next]_vars, pc[Worker] \in {"off", "recv"}
    PROVE  pc'[Worker] \in {"off", "recv"} \/ Receive
  <1> USE DEF RequestTypes
  <1>w. Worker \notin Requests /\ Worker \in Procs
    BY IngestAssumption DEF Procs
  <1>1. ASSUME WorkerStep, ~WorkerPanics, ~Receive PROVE FALSE
    BY <1>1 DEF WorkerStep, Processing, Ensure, Enter, Process, Attempt, Inside,
         DeadLetter, Mark, TakeProcessor, GiveUp
  <1>2. CASE Start \/ Close
    BY <1>2, <1>w DEF Start, Close
  <1>3. CASE Exit \/ Crash \/ WorkerPanics
    BY <1>3, <1>w DEF Exit, Crash, WorkerPanics, Vanish
  <1>4. CASE \/ Serve \/ Reload \/ Stop \/ Subscribe \/ Unsubscribe
             \/ (\E e \in Events : Expire(e)) \/ UNCHANGED vars
    BY <1>4 DEF Serve, Reload, Stop, Subscribe, Unsubscribe, Expire, vars, request
  <1>5. ASSUME NEW r \in Requests, Refuse(r) \/ Admit(r) \/ Handler(r)
        PROVE  pc'[Worker] = pc[Worker]
    BY <1>5, <1>w, RequestMoves
  <1> QED
    BY <1>1, <1>2, <1>3, <1>4, <1>5 DEF Next

\* The worker processes a record that is on file.
LEMMA WorkerHandKept ==
    ASSUME Types, Places, [Next]_vars
    PROVE  WorkerHand'
  <1> USE DEF Types, RequestTypes, SpoolTypes, Places, WorkerHand
  <1>w. Worker \notin Requests /\ Worker \in Procs
    BY IngestAssumption DEF Procs
  <1>1. CASE Start
    BY <1>1, <1>w DEF Start
  <1>2. CASE Mark \/ GiveUp
    BY <1>2, <1>w DEF Mark, GiveUp, Goto
  <1>3. ASSUME NEW r \in Requests, SpoolAppend(r)
        PROVE  WorkerHand'
    <2>1. file' = Append(file, Ev(r)) /\ pos' = pos /\ next' = next
          /\ pc'[Worker] = pc[Worker]
      BY <1>3, <1>w DEF SpoolAppend, Goto
    <2>2. Len(file') >= Len(file)
      BY <2>1
    <2>3. QED
      BY <2>1, <2>2
  <1>4. CASE UNCHANGED <<file, pos, next>>
    <2>1. CASE Receive
      BY <1>4, <2>1 DEF Receive
    <2>2. CASE ~Receive
      <3>1. pc'[Worker] \in {"off", "recv"} \/ pc[Worker] \notin {"off", "recv"}
        BY <2>2, <1>w, WorkerBusy
      <3>2. QED
        BY <1>4, <3>1
    <2>3. QED
      BY <2>1, <2>2
  <1> QED
    BY <1>1, <1>2, <1>3, <1>4, SpoolFrame

\* A handler processes an event of its own request.
LEMMA RequestHandKept ==
    ASSUME Types, Places, [Next]_vars
    PROVE  RequestHand'
  <1> DEFINE InHand(r) ==
                 /\ idx[r] >= 1
                 /\ pc[r] \notin Settled \cup {"next"} => idx[r] <= Len(Batch[r])
                 /\ pc[r] = "new" \/ Pending(r) =>
                       Len(answer[r]) = idx[r] - (IF pc[r] = "broadcast" THEN 0 ELSE 1)
  <1> SUFFICES ASSUME NEW r \in Requests PROVE InHand(r)'
    BY DEF RequestHand
  <1>w. r \in Procs /\ r # Worker /\ Batch[r] \in Seq(Events)
    BY IngestAssumption DEF Procs
  <1>h. InHand(r) /\ pc[r] \in RequestStates
    BY DEF Places, RequestHand, StatesOK
  <1>t. /\ pc \in [Procs -> States] /\ idx \in [Requests -> Nat]
        /\ answer \in [Requests -> Seq(Answers)]
    BY DEF Types, RequestTypes
  <1> USE DEF Pending, Settled
  <1>1. CASE pc'[r] = pc[r] /\ idx'[r] = idx[r] /\ answer'[r] = answer[r]
    BY <1>1, <1>h
  <1>2. CASE Vanish
    BY <1>2, <1>h, <1>w DEF Vanish
  <1>3. ASSUME NEW to \in RequestStates \ {"new", "broadcast"}, Goto(r, to),
               \/ to \in Settled \cup {"next"}
               \/ pc[r] \notin Settled \cup {"next"} \/ idx[r] <= Len(Batch[r]),
               pc[r] = "new" \/ Pending(r), pc[r] # "broadcast"
        PROVE  InHand(r)'
    BY <1>3, <1>h, <1>t, <1>w DEF Goto
  <1>4. ASSUME NEW a \in Answers, Answer(r, a, "next"), Pending(r), pc[r] # "broadcast"
        PROVE  InHand(r)'
    <2>1. /\ idx'[r] = idx[r] + 1 /\ pc'[r] = "next"
          /\ Len(answer'[r]) = Len(answer[r]) + 1
      BY <1>4, <1>t, <1>w DEF Answer
    <2>2. QED
      BY <1>4, <1>h, <1>t, <2>1
  <1>5. CASE Refuse(r) \/ Admit(r) \/ Finish(r)
    BY <1>3, <1>5 DEF Refuse, Admit, Finish, RequestStates
  <1>6. CASE SpoolAppend(r) \/ EnterPanics(r)
    BY <1>3, <1>6 DEF SpoolAppend, EnterPanics, Panic, RequestStates
  <1>7. CASE NextEvent(r)
    BY <1>3, <1>4, <1>7 DEF NextEvent, RequestStates, Answers
  <1>8. CASE SpoolRefuses(r) \/ Dedupe(r) \/ HybridQueue(r)
    BY <1>3, <1>4, <1>8 DEF SpoolRefuses, Dedupe, HybridQueue, Abandon, RequestStates,
       Answers
  <1>9. CASE Accept(r)
    <2>1. /\ pc'[r] = "broadcast" /\ idx'[r] = idx[r] /\ pc[r] = "accept"
          /\ Len(answer'[r]) = Len(answer[r]) + 1
      <3>1. /\ pc' = [pc EXCEPT ![r] = "broadcast"] /\ idx' = idx /\ pc[r] = "accept"
            /\ answer' = [answer EXCEPT ![r] = Append(@, "accepted")]
        BY <1>9, Zenon DEF Accept
      <3>2. QED
        BY <3>1, <1>t, <1>w DEF Answers
    <2>2. QED
      BY <1>h, <1>t, <2>1
  <1>10. CASE Broadcast(r)
    <2>1. /\ pc[r] = "broadcast" /\ answer' = answer
          /\ \/ idx'[r] = idx[r] /\ pc'[r] = "aborted"
             \/ idx'[r] = idx[r] + 1 /\ pc'[r] = "next"
      <3>1. /\ pc[r] = "broadcast" /\ answer' = answer
            /\ \/ idx' = idx /\ pc' = [pc EXCEPT ![r] = "aborted"]
               \/ idx' = [idx EXCEPT ![r] = @ + 1] /\ pc' = [pc EXCEPT ![r] = "next"]
        BY <1>10, Zenon DEF Broadcast, Panic, Goto
      <3>2. QED
        BY <3>1, <1>t, <1>w
    <2>2. QED
      BY <1>h, <1>t, <2>1
  <1>11. CASE Process(r) \/ DeadLetter(r)
    <2>1. \/ \E result \in {"accepted", "duplicate", "quarantined", "rejected"} :
                Return(r, result)
          \/ Goto(r, "attempt")
      BY <1>11 DEF Process, DeadLetter
    <2>2. pc[r] \in {"check", "deadletter"}
      BY <1>11 DEF Process, DeadLetter
    <2>3. QED
      BY <1>3, <1>4, <1>w, <2>1, <2>2, ReturnMoves DEF RequestStates, Inside
  <1>12. CASE Ensure(r) \/ Enter(r)
    BY <1>3, <1>12, <1>h DEF Ensure, Enter, RequestStates, Inside
  <1>13. CASE Attempt(r)
    BY <1>1, <1>3, <1>13 DEF Attempt, RequestStates, Inside
  <1> QED
    BY <1>1, <1>2, <1>5, <1>6, <1>7, <1>8, <1>9, <1>10, <1>11, <1>12, <1>13,
       RequestStep DEF Handler, Processing, Types, Places

\* The processes are where the types alone do not say.
LEMMA PlacesKept ==
    ASSUME Types, Places, [Next]_vars
    PROVE  Places'
  BY StatesKept, DownKept, WorkerHandKept, RequestHandKept DEF Places, Types

-----------------------------------------------------------------------------
(* The processor and its lock.                                             *)

\* Nobody is inside Process who was not, or has just taken the processor.
LEMMA InsideStep ==
    ASSUME Types, Places, [Next]_vars, NEW p \in Procs, pc'[p] \in Inside
    PROVE  Enter(p) \/ pc[p] \in Inside
  <1> USE DEF Types, RequestTypes, Places, Inside
  <1>w. Worker \notin Requests /\ Worker \in Procs
    BY IngestAssumption DEF Procs
  <1>1. CASE pc'[p] = pc[p]
    BY <1>1
  <1>2. CASE Vanish
    BY <1>2 DEF Vanish, Settled
  <1>3. ASSUME NEW to, Goto(p, to)
        PROVE  pc'[p] = to
    BY <1>3 DEF Goto
  <1>4. CASE Process(p) \/ Attempt(p) \/ DeadLetter(p)
    BY <1>4 DEF Process, Attempt, DeadLetter
  <1>5. CASE Ensure(p)
    BY <1>3, <1>5 DEF Ensure
  <1>6. CASE p = Worker
    <2>1. CASE Receive \/ Mark \/ TakeProcessor \/ GiveUp
      BY <1>3, <1>6, <2>1 DEF Receive, Mark, TakeProcessor, GiveUp
    <2>2. CASE Start \/ Close
      BY <1>6, <2>2, <1>w DEF Start, Close
    <2>3. CASE \/ Serve \/ Reload \/ Stop \/ Subscribe \/ Unsubscribe
               \/ (\E e \in Events : Expire(e)) \/ UNCHANGED vars
      BY <1>1, <2>3 DEF Serve, Reload, Stop, Subscribe, Unsubscribe, Expire, vars, request
    <2>4. ASSUME NEW r \in Requests, Refuse(r) \/ Admit(r) \/ Handler(r)
          PROVE  pc'[Worker] = pc[Worker]
      BY <1>w, <2>4, RequestMoves
    <2>5. CASE Exit \/ Crash \/ WorkerPanics
      BY <1>2, <2>5 DEF Exit, Crash, WorkerPanics
    <2>6. QED
      BY <1>1, <1>4, <1>5, <1>6, <2>1, <2>2, <2>3, <2>4, <2>5
         DEF Next, WorkerStep, Processing
  <1>7. CASE p \in Requests
    <2> USE <1>7
    <2>1. CASE NextEvent(p) \/ Finish(p) \/ Dedupe(p) \/ SpoolAppend(p)
      BY <1>3, <2>1 DEF NextEvent, Finish, Dedupe, SpoolAppend, Answer, Abandon
    <2>2. CASE SpoolRefuses(p) \/ HybridQueue(p) \/ EnterPanics(p)
      BY <1>3, <2>2 DEF SpoolRefuses, HybridQueue, EnterPanics, Answer, Abandon, Panic
    <2>3. CASE Accept(p)
      BY <2>3 DEF Accept
    <2>4. CASE Broadcast(p)
      <3>1. pc' = [pc EXCEPT ![p] = "aborted"] \/ pc' = [pc EXCEPT ![p] = "next"]
        BY <2>4, Zenon DEF Broadcast, Panic, Goto
      <3>2. QED
        BY <3>1
    <2>5. CASE Refuse(p) \/ Admit(p)
      BY <1>3, <2>5 DEF Refuse, Admit
    <2>6. QED
      BY <1>1, <1>2, <1>4, <1>5, <2>1, <2>2, <2>3, <2>4, <2>5, RequestStep
         DEF Handler, Processing
  <1> QED
    BY <1>6, <1>7 DEF Procs

\* A processor that is in use is not closed.
LEMMA ProcessorKept ==
    ASSUME Types, Places, ProcessorOK, [Next]_vars
    PROVE  ProcessorOK'
  <1> USE DEF Types, LockTypes, RequestTypes
  <1>1. CASE Exit \/ Crash \/ WorkerPanics
    <2>1. Vanish
      BY <1>1 DEF Exit, Crash, WorkerPanics
    <2>2. processor' = 0 /\ \A p \in Procs : pc'[p] \notin Inside
      BY <2>1, InsideStep DEF Vanish, Inside, Settled
    <2>3. QED
      BY <2>2 DEF ProcessorOK, NoClosedProcessor
  <1>2. CASE ~(Exit \/ Crash \/ WorkerPanics)
    <2>1. phase = "closed" => phase' = "closed"
      BY <1>2, PhaseFrame DEF Start, Serve, Stop, Close
    <2>2. processor' # 0 => processor' \notin closed' \/ phase' = "closed"
      <3>1. CASE NewProcessor(TRUE) \/ NewProcessor(FALSE)
        BY <3>1 DEF NewProcessor
      <3>2. CASE UNCHANGED <<processor, closed>>
        BY <2>1, <3>2 DEF ProcessorOK
      <3>3. CASE Reload \/ Close
        BY <3>3 DEF Reload, Close
      <3>4. Serve => NewProcessor(TRUE) \/ NewProcessor(FALSE)
        BY DEF Serve
      <3>5. ASSUME NEW p \in Procs, Ensure(p)
            PROVE  NewProcessor(FALSE) \/ UNCHANGED <<processor, closed>>
        BY <3>5 DEF Ensure, locks
      <3>6. QED
        BY <1>2, <3>1, <3>2, <3>3, <3>4, <3>5, LocksFrame
           DEF TakeProcessor, Enter, EnterPanics
    <2>3. ASSUME NEW p \in Procs, pc'[p] \in Inside
          PROVE  proc'[p] # 0 /\ (proc'[p] \notin closed' \/ phase' = "closed")
      <3>1. CASE Enter(p)
        BY <2>1, <3>1 DEF Enter, ProcessorOK
      <3>2. CASE pc[p] \in Inside /\ ~Enter(p)
        <4>1. proc[p] # 0 /\ (proc[p] \notin closed \/ phase = "closed")
          BY <3>2 DEF ProcessorOK, NoClosedProcessor
        <4>2. CASE Reload
          BY <3>2, <4>2 DEF Reload, WriteLock, Readers
        <4>3. CASE Close
          BY <4>1, <4>3 DEF Close
        <4>4. CASE TakeProcessor
          <5>1. p # Worker
            BY <3>2, <4>4 DEF TakeProcessor, Inside
          <5>2. QED
            BY <2>1, <4>1, <4>4, <5>1 DEF TakeProcessor
        <4>5. CASE \E q \in Procs : Enter(q)
          BY <2>1, <3>2, <4>1, <4>5 DEF Enter
        <4>6. CASE UNCHANGED <<proc, closed>>
          BY <2>1, <4>1, <4>6
        <4>7. QED
          BY <1>2, <4>2, <4>3, <4>4, <4>5, <4>6, LocksFrame
             DEF Serve, NewProcessor, Ensure, EnterPanics, locks
      <3>3. QED
        BY <2>3, <3>1, <3>2, InsideStep
    <2>4. QED
      BY <2>2, <2>3 DEF ProcessorOK, NoClosedProcessor
  <1> QED
    BY <1>1, <1>2

-----------------------------------------------------------------------------
(* The count of requests in progress.                                      *)

\* What a request gives and takes.
LEMMA CountStep ==
    ASSUME Types, Places, NEW r \in Requests, Refuse(r) \/ Admit(r) \/ Handler(r)
    PROVE  \/ inflight' = inflight /\ (Pending(r)' <=> Pending(r))
           \/ inflight' = inflight + 1 /\ ~Pending(r) /\ Pending(r)'
           \/ inflight' = inflight - 1 /\ Pending(r) /\ ~Pending(r)'
  <1> USE DEF Types, RequestTypes, Pending, Settled
  <1>w. r # Worker /\ r \in Procs
    BY IngestAssumption DEF Procs
  <1>1. ASSUME NEW to, Goto(r, to)
        PROVE  pc'[r] = to
    BY <1>1, <1>w DEF Goto
  <1>2. ASSUME NEW a, NEW to, Answer(r, a, to)
        PROVE  pc'[r] = to
    BY <1>2, <1>w DEF Answer
  <1>3. CASE Refuse(r) \/ Admit(r) \/ Finish(r)
    BY <1>1, <1>3 DEF Refuse, Admit, Finish
  <1>4. CASE NextEvent(r) \/ SpoolAppend(r) \/ SpoolRefuses(r)
    BY <1>1, <1>2, <1>4 DEF NextEvent, SpoolAppend, SpoolRefuses
  <1>5. CASE Dedupe(r) \/ HybridQueue(r)
    BY <1>1, <1>2, <1>5 DEF Dedupe, HybridQueue, Abandon
  <1>6. CASE Accept(r)
    <2>1. pc[r] = "accept" /\ pc' = [pc EXCEPT ![r] = "broadcast"] /\ inflight' = inflight
      BY <1>6, Zenon DEF Accept
    <2>2. QED
      BY <1>w, <2>1
  <1>7. CASE Broadcast(r)
    <2>1. /\ pc[r] = "broadcast"
          /\ \/ pc' = [pc EXCEPT ![r] = "aborted"] /\ inflight' = inflight - 1
             \/ pc' = [pc EXCEPT ![r] = "next"] /\ inflight' = inflight
      BY <1>7, Zenon DEF Broadcast, Panic, Goto
    <2>2. QED
      BY <1>w, <2>1
  <1>8. CASE EnterPanics(r)
    BY <1>1, <1>8 DEF EnterPanics, Panic
  <1>9. CASE Ensure(r) \/ Enter(r) \/ Attempt(r)
    BY <1>1, <1>9 DEF Ensure, Enter, Attempt
  <1>10. CASE Process(r) \/ DeadLetter(r)
    <2>1. \/ \E result \in {"accepted", "duplicate", "quarantined", "rejected"} :
                Return(r, result)
          \/ Goto(r, "attempt")
      BY <1>10 DEF Process, DeadLetter
    <2>2. pc[r] \in {"check", "deadletter"} /\ inflight' = inflight
      BY <1>10 DEF Process, DeadLetter
    <2>3. pc'[r] \in {"accept", "next", "attempt"}
      BY <1>1, <1>2, <1>w, <2>1, ReturnMoves
    <2>4. QED
      BY <2>2, <2>3
  <1> QED
    BY <1>3, <1>4, <1>5, <1>6, <1>7, <1>8, <1>9, <1>10 DEF Handler, Processing

\* The counter follows the requests that are pending.
LEMMA CountKept ==
    ASSUME Types, Places, InflightCounted, [Next]_vars
    PROVE  InflightCounted'
  <1> DEFINE P == {r \in Requests : Pending(r)}
  <1> SUFFICES inflight' = Cardinality(P')
    BY DEF InflightCounted
  <1>f. IsFiniteSet(P) /\ IsFiniteSet(P')
    BY IngestAssumption, FS_Subset
  <1>c. inflight = Cardinality(P) /\ Cardinality(P) \in Nat
    BY <1>f, FS_CardinalityType DEF InflightCounted
  <1>1. ASSUME NEW r \in Requests, Refuse(r) \/ Admit(r) \/ Handler(r)
        PROVE  inflight' = Cardinality(P')
    <2>1. \A q \in Requests \ {r} : Pending(q)' <=> Pending(q)
      BY <1>1, RequestMoves DEF Pending, Procs, Types
    <2>2. CASE inflight' = inflight /\ (Pending(r)' <=> Pending(r))
      <3>1. P' = P
        BY <2>1, <2>2
      <3>2. QED
        BY <1>c, <2>2, <3>1
    <2>3. CASE inflight' = inflight + 1 /\ ~Pending(r) /\ Pending(r)'
      <3>1. P' = P \cup {r} /\ r \notin P
        BY <2>1, <2>3
      <3>2. QED
        BY <1>c, <1>f, <2>3, <3>1, FS_AddElement
    <2>4. CASE inflight' = inflight - 1 /\ Pending(r) /\ ~Pending(r)'
      <3>1. P' = P \ {r} /\ r \in P
        BY <2>1, <2>4
      <3>2. QED
        BY <1>c, <1>f, <2>4, <3>1, FS_RemoveElement
    <2>5. QED
      BY <1>1, <2>2, <2>3, <2>4, CountStep
  <1>2. CASE Vanish
    <2>1. P' = {}
      BY <1>2, IngestAssumption DEF Vanish, Pending, Settled, Procs
    <2>2. QED
      BY <1>2, <2>1, FS_EmptySet DEF Vanish
  <1>3. ASSUME inflight' = inflight, \A r \in Requests : pc'[r] = pc[r]
        PROVE  inflight' = Cardinality(P')
    <2>1. P' = P
      BY <1>3 DEF Pending
    <2>2. QED
      BY <1>3, <1>c, <2>1
  <1>4. CASE WorkerStep
    <2>1. Vanish \/ inflight' = inflight
      BY <1>4 DEF WorkerStep, Receive, Processing, Ensure, Enter, Process, Attempt,
         DeadLetter, WorkerPanics, Mark, TakeProcessor, GiveUp
    <2>2. QED
      BY <1>2, <1>3, <1>4, <2>1, WorkerMoves DEF Types, Places
  <1>5. CASE \/ Start \/ Serve \/ Reload \/ Stop \/ Close \/ Subscribe \/ Unsubscribe
             \/ (\E e \in Events : Expire(e)) \/ UNCHANGED vars
    <2>1. inflight' = inflight
      BY <1>5 DEF Start, Serve, Reload, Stop, Close, Subscribe, Unsubscribe, Expire, vars
    <2>2. QED
      BY <1>3, <1>5, <2>1, ProcessMoves DEF Types
  <1> QED
    BY <1>1, <1>2, <1>4, <1>5 DEF Next, Exit, Crash

-----------------------------------------------------------------------------
(* Deduplication.                                                          *)

\* An event that ran is remembered until its entry expires.
LEMMA RememberingKept ==
    ASSUME Types, Places, Remembering, [Next]_vars
    PROVE  Remembering'
  <1> USE DEF Types, SeenTypes
  <1> SUFFICES ASSUME cfg.dedupe # "off", NEW e \in Events, e \notin forgotten'
               PROVE  runs'[e] = 0 \/ (runs'[e] = 1 /\ (e \in Remembered)')
    BY CfgFrame DEF Remembering
  <1>r. e \notin forgotten => runs[e] = 0 \/ (runs[e] = 1 /\ e \in Remembered)
    BY DEF Remembering
  <1>n. ASSUME NEW w \in BOOLEAN, NewProcessor(w), runs' = runs
        PROVE  runs'[e] = 0 \/ (runs'[e] = 1 /\ (e \in Remembered)')
    <2>1. /\ forgotten' = forgotten \cup (Remembered \ (IF w THEN seenRedis ELSE {}))
          /\ redis' = w /\ seenRedis' = seenRedis
      BY <1>n DEF NewProcessor
    <2>2. e \notin forgotten /\ (e \in Remembered => w /\ e \in seenRedis)
      BY <2>1
    <2>3. QED
      BY <1>n, <1>r, <2>1, <2>2 DEF Remembered
  <1>1. CASE UNCHANGED <<seenState, seenProc, seenRedis, redis, forgotten, runs>>
    BY <1>1, <1>r DEF Remembered
  <1>2. CASE Serve
    BY <1>2, <1>n DEF Serve
  <1>3. CASE Exit \/ Crash \/ WorkerPanics
    <2>1. /\ runs' = runs /\ redis' = redis /\ seenRedis' = seenRedis
          /\ forgotten \cup seenProc \subseteq forgotten'
      BY <1>3 DEF Exit, Crash, WorkerPanics, Vanish
    <2>2. QED
      BY <1>r, <2>1 DEF Remembered
  <1>4. ASSUME NEW p \in Procs, Ensure(p)
        PROVE  runs'[e] = 0 \/ (runs'[e] = 1 /\ (e \in Remembered)')
    <2>1. CASE processor = 0
      BY <1>4, <1>n, <2>1 DEF Ensure
    <2>2. CASE processor # 0
      BY <1>1, <1>4, <2>2 DEF Ensure, seen
    <2> QED
      BY <2>1, <2>2
  <1>5. ASSUME NEW p \in Procs, Process(p)
        PROVE  runs'[e] = 0 \/ (runs'[e] = 1 /\ (e \in Remembered)')
    <2>1. forgotten' = forgotten /\ redis' = redis
      BY <1>5 DEF Process
    <2>2. CASE runs' = runs /\ seenProc' = seenProc /\ seenRedis' = seenRedis
      BY <1>r, <2>1, <2>2 DEF Remembered
    <2>3. CASE /\ Ev(p) \notin Remembered /\ Remember(Ev(p))
               /\ runs' = [runs EXCEPT ![Ev(p)] = @ + 1]
      <3>1. /\ Remembered \subseteq Remembered'
            /\ Ev(p) \in Remembered'
        BY <2>1, <2>3 DEF Remember, Remembered
      <3>2. CASE e = Ev(p)
        BY <1>r, <2>1, <2>3, <3>1, <3>2
      <3>3. CASE e # Ev(p)
        BY <1>r, <2>1, <2>3, <3>1, <3>3
      <3> QED
        BY <3>2, <3>3
    <2>4. QED
      BY <1>5, <2>2, <2>3 DEF Process
  <1>6. ASSUME NEW r \in Requests, Dedupe(r)
        PROVE  runs'[e] = 0 \/ (runs'[e] = 1 /\ (e \in Remembered)')
    BY <1>6, <1>r DEF Dedupe, Remembered
  <1>7. ASSUME NEW x \in Events, Expire(x)
        PROVE  runs'[e] = 0 \/ (runs'[e] = 1 /\ (e \in Remembered)')
    <2>1. /\ forgotten' = forgotten \cup {x} /\ runs' = runs /\ redis' = redis
          /\ seenProc \ {x} \subseteq seenProc' /\ seenRedis \ {x} \subseteq seenRedis'
      BY <1>7 DEF Expire
    <2>2. QED
      BY <1>r, <2>1 DEF Remembered
  <1> QED
    BY <1>1, <1>2, <1>3, <1>4, <1>5, <1>6, <1>7, SeenFrame

-----------------------------------------------------------------------------
(* Modes.                                                                  *)

\* Each mode of the spool uses its own steps.
LEMMA ModesKept ==
    ASSUME Types, Places, Modes, [Next]_vars
    PROVE  Modes'
  <1> USE DEF Types, RequestTypes, Places
  <1>c. cfg' = cfg /\ (Spooled' <=> Spooled)
    BY CfgFrame DEF Spooled
  <1>f. ~Spooled => file' = <<>>
    <2>1. ASSUME NEW r \in Requests, SpoolAppend(r)
          PROVE  Spooled
      BY <2>1 DEF SpoolAppend, Modes
    <2>2. QED
      BY <2>1, SpoolFrame DEF Modes, Start, Mark, GiveUp
  <1>1. ASSUME NEW r \in Requests
        PROVE  /\ Spooled => pc'[r] \notin Inside \cup {"ensure", "enter"}
               /\ ~Spooled => pc'[r] \notin {"append", "queue"}
    <2> DEFINE Fits(s) == /\ Spooled => s \notin Inside \cup {"ensure", "enter"}
                          /\ ~Spooled => s \notin {"append", "queue"}
    <2> SUFFICES Fits(pc'[r])
      OBVIOUS
    <2>h. Fits(pc[r])
      BY DEF Modes
    <2>w. r # Worker /\ r \in Procs
      BY IngestAssumption DEF Procs
    <2>1. CASE pc'[r] = pc[r]
      BY <2>1, <2>h
    <2>2. CASE Vanish
      BY <2>2, <2>w DEF Vanish, Settled, Inside
    <2>3. ASSUME NEW to, Goto(r, to), Fits(to)
          PROVE  Fits(pc'[r])
      BY <2>3, <2>w DEF Goto
    <2>4. ASSUME NEW a, Answer(r, a, "next")
          PROVE  Fits(pc'[r])
      BY <2>4, <2>w DEF Answer, Inside
    <2>5. CASE Refuse(r) \/ Admit(r) \/ Finish(r) \/ EnterPanics(r)
      BY <2>3, <2>5 DEF Refuse, Admit, Finish, EnterPanics, Panic, Inside
    <2>6. CASE NextEvent(r)
      BY <2>3, <2>4, <2>6 DEF NextEvent, DedupesHere, Inside
    <2>7. CASE Dedupe(r) \/ HybridQueue(r)
      BY <2>3, <2>4, <2>7 DEF Dedupe, HybridQueue, Abandon, Inside
    <2>8. CASE SpoolAppend(r) \/ SpoolRefuses(r)
      BY <2>3, <2>4, <2>8, <2>h DEF SpoolAppend, SpoolRefuses, Inside
    <2>9. CASE Accept(r) \/ Broadcast(r)
      <3>1. \E to \in {"broadcast", "next", "aborted"} : pc' = [pc EXCEPT ![r] = to]
        BY <2>9, Zenon DEF Accept, Broadcast, Panic, Goto
      <3>2. pc'[r] \in {"broadcast", "next", "aborted"}
        BY <2>w, <3>1
      <3>3. QED
        BY <3>2 DEF Inside
    <2>10. CASE Ensure(r) \/ Enter(r) \/ Process(r) \/ Attempt(r) \/ DeadLetter(r)
      <3>1. ~Spooled
        BY <2>10, <2>h DEF Ensure, Enter, Process, Attempt, DeadLetter, Inside, StatesOK,
           RequestStates, Settled
      <3>2. pc'[r] \notin {"append", "queue"}
        <4>1. CASE Ensure(r) \/ Enter(r) \/ Attempt(r)
          BY <2>10, <2>3, <2>h, <3>1, <4>1 DEF Ensure, Enter, Attempt
        <4>2. CASE Process(r) \/ DeadLetter(r)
          <5>1. \/ \E result \in {"accepted", "duplicate", "quarantined", "rejected"} :
                      Return(r, result)
                \/ Goto(r, "attempt")
            BY <4>2 DEF Process, DeadLetter
          <5>2. QED
            BY <2>3, <2>4, <2>w, <3>1, <5>1, ReturnMoves
        <4> QED
          BY <2>10, <4>1, <4>2
      <3>3. QED
        BY <3>1, <3>2
    <2> QED
      BY <2>1, <2>2, <2>5, <2>6, <2>7, <2>8, <2>9, <2>10, RequestStep
         DEF Handler, Processing
  <1> QED
    BY <1>1, <1>c, <1>f DEF Modes

-----------------------------------------------------------------------------
(* The theorems.                                                           *)

Inv ==
    /\ Types /\ Places /\ Modes /\ ProcessorOK /\ Remembering /\ InflightCounted

\* The types at the start.
LEMMA InitTypes == Init => Types
  <1> SUFFICES ASSUME Init PROVE Types
    OBVIOUS
  <1> USE DEF Init
  <1>1. RequestTypes
    BY DEF RequestTypes, States, Settled
  <1>2. AttemptTypes /\ LockTypes
    <2>1. processor \in 0 .. generation /\ closed \subseteq 0 .. generation
      OBVIOUS
    <2>2. leaked \in BOOLEAN
      BY Zenon
    <2>3. proc \in [Procs -> 0 .. generation]
      OBVIOUS
    <2>4. QED
      BY <2>1, <2>2, <2>3 DEF AttemptTypes, LockTypes
  <1>3. SeenTypes /\ SpoolTypes
    <2>1. redis \in BOOLEAN
      BY Zenon
    <2>2. QED
      BY <2>1 DEF SeenTypes, SpoolTypes
  <1>4. StoreTypes /\ TailTypes
    <2>1. copy \in [Requests -> BOOLEAN]
      BY Zenon
    <2>2. QED
      BY <2>1 DEF StoreTypes, TailTypes
  <1> QED
    BY <1>1, <1>2, <1>3, <1>4 DEF Types

\* The invariant at the start.
LEMMA InitInv == Init => Inv
  <1> SUFFICES ASSUME Init PROVE Inv
    OBVIOUS
  <1>w. Worker \in Procs /\ Worker \notin Requests
    BY IngestAssumption DEF Procs
  <1>p. /\ pc[Worker] = "off" /\ \A r \in Requests : pc[r] = "new"
        /\ \A p \in Procs : pc[p] \in {"off", "new"}
    BY <1>w DEF Init, Procs
  <1>1. Types
    BY InitTypes
  <1>2. Places
    <2>1. StatesOK
      BY <1>p DEF StatesOK, RequestStates, WorkerStates, Settled
    <2>2. DownOK
      <3>1. seenProc = {}
        BY DEF Init
      <3>2. QED
        BY <1>p, <3>1 DEF DownOK, Settled
    <2>3. WorkerHand
      <3>1. pos = 0 /\ next = 1
        BY DEF Init
      <3>2. QED
        BY <1>p, <3>1 DEF WorkerHand
    <2>4. RequestHand
      <3>1. /\ idx = [r \in Requests |-> 1]
            /\ answer = [r \in Requests |-> <<>>]
        BY DEF Init
      <3>2. QED
        BY <1>p, <3>1 DEF RequestHand, Settled
    <2>5. QED
      BY <2>1, <2>2, <2>3, <2>4 DEF Places
  <1>3. Modes /\ ProcessorOK
    BY <1>p DEF Init, Modes, ProcessorOK, NoClosedProcessor, Inside
  <1>4. Remembering
    BY DEF Init, Remembering
  <1>5. InflightCounted
    <2>1. {r \in Requests : Pending(r)} = {}
      BY <1>p DEF Pending, Settled
    <2>2. QED
      BY <2>1, FS_EmptySet DEF Init, InflightCounted
  <1> QED
    BY <1>1, <1>2, <1>3, <1>4, <1>5 DEF Inv

\* The parts are inductive together.
LEMMA NextInv == Inv /\ [Next]_vars => Inv'
  BY TypesKept, PlacesKept, ModesKept, ProcessorKept, RememberingKept, CountKept DEF Inv

\* So they hold in every state.
LEMMA Invariance == Spec => []Inv
  BY InitInv, NextInv, PTL DEF Spec

\* Every variable has its type, for any number of requests and of events: what
\* a request holds is an event of its batch, what the worker holds a record of
\* the spool.
THEOREM TypeCorrect == Spec => []TypeOK
  BY Invariance, TypeParts, PTL DEF Inv

\* The count that acquireIngestCapacity compares with its limit is the number
\* of requests in progress, whatever returns early, panics or crashes.
THEOREM InflightExact == Spec => []InflightCounted
  BY Invariance, PTL DEF Inv

\* No schema publish, reload or restart closes the processor under a request or
\* the worker that is inside Process.
THEOREM ProcessorInUse == Spec => []NoClosedProcessor
  <1>1. Inv => NoClosedProcessor
    BY DEF Inv, ProcessorOK
  <1> QED
    BY <1>1, Invariance, PTL

\* An id is delivered by at most one run of the processor, however many requests
\* carry it and whichever handlers serve them, until a store forgets it.
THEOREM DeliveredOnce == Spec => []OneDelivery
  <1>1. Inv => OneDelivery
    BY DEF Inv, Remembering, OneDelivery
  <1> QED
    BY <1>1, Invariance, PTL

\* Where the processor's ids are in Redis they outlive the process while what it
\* was doing does not, and a record of the spool may be taken for delivered.
NoRedisSpool == \A c \in Configs : c.mode \in {"spool", "hybrid"} => c.dedupe # "redis"

-----------------------------------------------------------------------------
(* The invariant.                                                          *)

\* What did not fail in the last attempt has taken the event.
Taken ==
    \A p \in Procs : pc[p] = "deadletter" =>
        \A t \in Sinks \ failed[p] : Ev(p) \in rows[t]

\* An event about to be accepted is in custody.
InCustody ==
    \A r \in Requests : pc[r] \in {"queue", "accept"} =>
        Ev(r) \in Held \/ Reached(Ev(r))

\* A record about to be marked has reached the sinks, or is not the first after
\* the checkpoint.
Markable ==
    pc[Worker] = "mark" => Reached(Ev(Worker)) \/ next > pos + 1

\* The states of the worker in which the id of its record is remembered and the
\* record not settled.
Working == {"attempt", "deadletter", "giveup", "ensure again", "reread", "write"}

\* What the processor of the worker remembers has reached the sinks, is being
\* delivered, or comes after a record that was given up: the checkpoint does not
\* move over it.
Recorded ==
    Spooled =>
        /\ ~redis
        /\ \A e \in seenProc : \/ Reached(e) \/ next > pos + 1
                               \/ pc[Worker] \in Working /\ Ev(Worker) = e

Safe == Taken /\ InCustody /\ Markable /\ Recorded

-----------------------------------------------------------------------------
(* What a step does to the parts of the promise.                           *)

\* No sink, dead letter or quarantine file loses an event.
LEMMA StoresGrow ==
    ASSUME Types, [Next]_vars
    PROVE  /\ \A t \in Targets : rows[t] \subseteq rows'[t]
           /\ deadLetters \subseteq deadLetters' /\ quarantine \subseteq quarantine'
  <1>1. ASSUME NEW p \in Procs, Process(p)
        PROVE  rows' = rows /\ deadLetters' = deadLetters /\ quarantine \subseteq quarantine'
    BY <1>1 DEF Process, Appended
  <1>2. ASSUME NEW p \in Procs, DeadLetter(p)
        PROVE  rows' = rows /\ deadLetters \subseteq deadLetters' /\ quarantine' = quarantine
    BY <1>2 DEF DeadLetter, Appended
  <1>3. ASSUME NEW p \in Procs, Attempt(p)
        PROVE  /\ \A t \in Targets : rows[t] \subseteq rows'[t]
               /\ deadLetters' = deadLetters /\ quarantine' = quarantine
    <2>1. PICK a \in Attempts(cfg.policy, cfg.fallbackOn) :
             rows' = [t \in Targets |-> IF t \in a.tried \ a.failed
                                        THEN rows[t] \cup {Ev(p)} ELSE rows[t]]
      BY <1>3 DEF Attempt
    <2>2. UNCHANGED <<deadLetters, quarantine>>
      BY <1>3 DEF Attempt
    <2>3. QED
      BY <2>1, <2>2
  <1>4. CASE GiveUp
    BY <1>4 DEF GiveUp, Appended
  <1> QED
    BY <1>1, <1>2, <1>3, <1>4, StoresFrame

\* What has reached the sinks stays there.
LEMMA ReachedStays ==
    ASSUME Types, [Next]_vars, NEW e, Reached(e)
    PROVE  Reached(e)'
  <1>1. cfg' = cfg
    BY CfgFrame
  <1>2. /\ \A t \in Sinks : e \in rows[t] => e \in rows'[t]
        /\ \A t \in Fallback : e \in rows[t] => e \in rows'[t]
        /\ e \in rows[Primary] => e \in rows'[Primary]
        /\ e \in deadLetters \cup quarantine => e \in deadLetters' \cup quarantine'
    BY StoresGrow DEF Sinks, Targets
  <1>3. QED
    BY <1>1, <1>2 DEF Reached

\* The policy holds of an outcome when the sinks that took the event satisfy it.
LEMMA PolicyReaches ==
    ASSUME NEW e, NEW F, PolicyHolds(cfg.policy, F),
           \A t \in Sinks \ F : e \in rows[t]
    PROVE  Reached(e)
  <1>1. CASE cfg.policy = "best_effort"
    BY <1>1 DEF PolicyHolds, Reached
  <1>2. CASE cfg.policy = "require_all"
    BY <1>2 DEF PolicyHolds, Reached
  <1>3. CASE cfg.policy \notin {"best_effort", "require_all"}
    BY <1>3 DEF PolicyHolds, Reached, Sinks
  <1> QED
    BY <1>1, <1>2, <1>3

\* The spool holds an event more, or the first record after the checkpoint is
\* marked and the others stay.
LEMMA HeldStep ==
    ASSUME Types, Places, [Next]_vars
    PROVE  \/ Held' = Held
           \/ \E r \in Requests : SpoolAppend(r) /\ Held' = Held \cup {Ev(r)}
           \/ Mark /\ next = pos + 1 /\ Held = Held' \cup {Ev(Worker)}
  <1> USE DEF Types, SpoolTypes
  <1>1. CASE UNCHANGED <<file, pos>>
    BY <1>1 DEF Held
  <1>2. ASSUME NEW r \in Requests, SpoolAppend(r)
        PROVE  Held' = Held \cup {Ev(r)}
    <2>1. file' = Append(file, Ev(r)) /\ pos' = pos
      BY <1>2 DEF SpoolAppend
    <2>2. Len(file') = Len(file) + 1 /\ pos <= Len(file) /\ pos \in Nat /\ Len(file) \in Nat
      BY <2>1
    <2>3. /\ \A i \in pos + 1 .. Len(file) : file'[i] = file[i]
          /\ file'[Len(file) + 1] = Ev(r)
      BY <2>1
    <2>4. pos + 1 .. Len(file') = (pos + 1 .. Len(file)) \cup {Len(file) + 1}
      BY <2>2
    <2>5. QED
      BY <2>1, <2>3, <2>4 DEF Held
  <1>3. CASE Mark
    <2>1. CASE next # pos + 1
      BY <1>1, <1>3, <2>1 DEF Mark
    <2>2. CASE next = pos + 1
      <3>1. file' = file /\ pos' = pos + 1
        BY <1>3, <2>2 DEF Mark
      <3>2. pos + 1 <= Len(file)
        BY <1>3, <2>2 DEF Mark, Places, WorkerHand
      <3>3. pos + 1 .. Len(file) = {pos + 1} \cup (pos' + 1 .. Len(file'))
        BY <3>1, <3>2
      <3>4. QED
        BY <1>3, <2>2, <3>1, <3>3 DEF Held, Ev
    <2> QED
      BY <1>3, <2>1, <2>2
  <1> QED
    BY <1>1, <1>2, <1>3, SpoolFrame DEF Start, GiveUp

\* An answer is added to the last one of a request, for the event in hand.
LEMMA AnsweredStep ==
    ASSUME Types, Places, [Next]_vars
    PROVE  \/ Answered({"accepted"})' = Answered({"accepted"})
           \/ \E r \in Requests :
                 Accept(r) /\ Answered({"accepted"})' = Answered({"accepted"}) \cup {Ev(r)}
  <1> USE DEF Types, RequestTypes
  <1> DEFINE At(r) == {i \in DOMAIN answer[r] : answer[r][i] = "accepted"}
  <1>a. Answered({"accepted"}) = {e \in Events : \E r \in Requests : \E i \in At(r) :
                                                     Batch[r][i] = e}
    BY DEF Answered
  <1>b. Answered({"accepted"})' = {e \in Events : \E r \in Requests : \E i \in At(r)' :
                                                     Batch[r][i] = e}
    BY DEF Answered
  <1> HIDE DEF At
  <1>1. ASSUME \A r \in Requests : At(r)' = At(r)
        PROVE  Answered({"accepted"})' = Answered({"accepted"})
    BY <1>1, <1>a, <1>b, ZenonT(60)
  <1>2. CASE UNCHANGED answer
    BY <1>1, <1>2 DEF At
  <1>3. ASSUME NEW r \in Requests, NEW a \in Answers,
               answer' = [answer EXCEPT ![r] = Append(@, a)]
        PROVE  /\ \A q \in Requests \ {r} : At(q)' = At(q)
               /\ At(r)' = IF a = "accepted" THEN At(r) \cup {Len(answer[r]) + 1}
                                             ELSE At(r)
    <2>1. \A q \in Requests \ {r} : answer'[q] = answer[q]
      BY <1>3
    <2>2. answer'[r] = Append(answer[r], a) /\ answer[r] \in Seq(Answers)
      BY <1>3
    <2>3. /\ DOMAIN answer[r] = 1 .. Len(answer[r])
          /\ DOMAIN answer'[r] = (1 .. Len(answer[r])) \cup {Len(answer[r]) + 1}
          /\ \A i \in 1 .. Len(answer[r]) : answer'[r][i] = answer[r][i]
          /\ answer'[r][Len(answer[r]) + 1] = a
      BY <2>2
    <2>4. QED
      BY <2>1, <2>3 DEF At
  <1>4. ASSUME NEW r \in Requests, NEW a \in Answers \ {"accepted"}, Answer(r, a, "next")
        PROVE  Answered({"accepted"})' = Answered({"accepted"})
    BY <1>1, <1>3, <1>4 DEF Answer
  <1>5. ASSUME NEW r \in Requests, Accept(r)
        PROVE  Answered({"accepted"})' = Answered({"accepted"}) \cup {Ev(r)}
    <2>1. answer' = [answer EXCEPT ![r] = Append(@, "accepted")] /\ pc[r] = "accept"
      BY <1>5, Zenon DEF Accept
    <2>2. Ev(r) \in Events
      BY <2>1, EvType DEF Settled, Procs
    <2>3. Len(answer[r]) + 1 = idx[r]
      BY <2>1, SMTT(40) DEF Places, RequestHand, Pending, Settled
    <2>4. Ev(r) = Batch[r][idx[r]]
      BY IngestAssumption DEF Ev
    <2>5. /\ \A q \in Requests \ {r} : At(q)' = At(q)
          /\ At(r)' = At(r) \cup {idx[r]}
      BY <1>3, <2>1, <2>3 DEF Answers
    <2>6. QED
      BY <1>a, <1>b, <2>2, <2>4, <2>5, ZenonT(60)
  <1>6. ASSUME NEW r \in Requests, Broadcast(r)
        PROVE  UNCHANGED answer
    BY <1>6, Zenon DEF Broadcast, Panic, Goto
  <1> QED
    BY <1>2, <1>4, <1>5, <1>6, StepMoves DEF Moves, Goto, Vanish, Places

\* The event in hand is that of the step before, until the process goes on.
LEMMA EvSteady ==
    ASSUME Types, Places, [Next]_vars, NEW p \in Procs,
           pc'[p] \notin Settled \cup {"next", "off", "recv"}
    PROVE  Ev(p)' = Ev(p)
  <1> USE DEF Types, RequestTypes
  <1>w. Worker \in Procs /\ Worker \notin Requests
    BY IngestAssumption DEF Procs
  <1>1. CASE p \in Requests
    <2>1. idx'[p] = idx[p]
      <3>1. CASE UNCHANGED idx
        BY <3>1
      <3>2. ASSUME NEW r \in Requests, NEW a, Answer(r, a, "next")
            PROVE  idx'[p] = idx[p]
        BY <1>1, <3>2 DEF Answer
      <3>3. ASSUME NEW r \in Requests, Broadcast(r)
            PROVE  idx'[p] = idx[p]
        <4>1. \/ idx' = idx
              \/ idx' = [idx EXCEPT ![r] = @ + 1] /\ pc' = [pc EXCEPT ![r] = "next"]
          BY <3>3, Zenon DEF Broadcast, Panic, Goto
        <4>2. QED
          BY <1>1, <4>1
      <3>4. ASSUME NEW r \in Requests, Accept(r)
            PROVE  UNCHANGED idx
        BY <3>4, Zenon DEF Accept
      <3>5. QED
        BY <3>1, <3>2, <3>3, <3>4, StepMoves DEF Moves, Goto, Vanish, Places
    <2>2. QED
      BY <1>1, <1>w, <2>1 DEF Ev
  <1>2. CASE p = Worker
    <2>1. CASE UNCHANGED <<file, next>>
      BY <1>2, <2>1 DEF Ev
    <2>2. CASE Start
      BY <1>2, <1>w, <2>2 DEF Start
    <2>3. CASE Mark \/ GiveUp
      BY <1>2, <1>w, <2>3 DEF Mark, GiveUp, Goto
    <2>4. ASSUME NEW r \in Requests, SpoolAppend(r)
          PROVE  Ev(Worker)' = Ev(Worker)
      <3>1. /\ file' = Append(file, Ev(r)) /\ next' = next
            /\ pc'[Worker] = pc[Worker]
        BY <1>w, <2>4 DEF SpoolAppend, Goto
      <3>2. next \in 1 .. Len(file) /\ file \in Seq(Events)
        BY <1>2, <3>1 DEF SpoolTypes, Places, WorkerHand
      <3>3. QED
        BY <3>1, <3>2 DEF Ev
    <2>5. QED
      BY <1>2, <2>1, <2>2, <2>3, <2>4, SpoolFrame
  <1> QED
    BY <1>1, <1>2 DEF Procs

\* The worker moves by a step of its own, or begins or ends with the process.
LEMMA WorkerOwn ==
    ASSUME Types, Places, [Next]_vars
    PROVE  \/ pc'[Worker] = pc[Worker]
           \/ pc'[Worker] \in {"off", "recv"} /\ pc[Worker] \in {"off", "recv"}
           \/ Vanish
           \/ WorkerStep
  <1> USE DEF Types, RequestTypes
  <1>w. Worker \notin Requests /\ Worker \in Procs
    BY IngestAssumption DEF Procs
  <1>1. ASSUME NEW r \in Requests, Refuse(r) \/ Admit(r) \/ Handler(r)
        PROVE  pc'[Worker] = pc[Worker]
    BY <1>1, <1>w, RequestMoves
  <1>2. CASE Start \/ Close
    <2>1. pc[Worker] \in {"off", "recv"}
      BY <1>2 DEF Start, Close, Places, DownOK
    <2>2. QED
      BY <1>2, <1>w, <2>1 DEF Start, Close
  <1>3. CASE \/ Serve \/ Reload \/ Stop \/ Subscribe \/ Unsubscribe
             \/ (\E e \in Events : Expire(e)) \/ UNCHANGED vars
    BY <1>3 DEF Serve, Reload, Stop, Subscribe, Unsubscribe, Expire, vars, request
  <1> QED
    BY <1>1, <1>2, <1>3 DEF Next, Exit, Crash

-----------------------------------------------------------------------------
(* Deliveries.                                                             *)

\* What is inside Process goes on there by a step of its own.
LEMMA InsideOwn ==
    ASSUME Types, Places, [Next]_vars, NEW p \in Procs, pc[p] \in Inside
    PROVE  \/ pc'[p] = pc[p] \/ Vanish
           \/ Process(p) \/ Attempt(p) \/ DeadLetter(p)
  <1> USE DEF Inside
  <1>1. CASE p \in Requests
    <2>1. ~Refuse(p) /\ ~Admit(p)
      BY DEF Refuse, Admit
    <2>2. ASSUME Handler(p)
          PROVE  Process(p) \/ Attempt(p) \/ DeadLetter(p)
      BY <2>2 DEF Handler, Processing, NextEvent, Finish, Dedupe, SpoolAppend,
         SpoolRefuses, HybridQueue, Accept, Broadcast, Ensure, Enter, EnterPanics
    <2>3. QED
      BY <1>1, <2>1, <2>2, RequestStep DEF Types, Places
  <1>2. CASE p = Worker
    <2>1. ASSUME WorkerStep
          PROVE  Vanish \/ Process(p) \/ Attempt(p) \/ DeadLetter(p)
      BY <1>2, <2>1 DEF WorkerStep, Processing, Receive, WorkerPanics, Mark,
         TakeProcessor, GiveUp, Ensure, Enter
    <2>2. QED
      BY <1>2, <2>1, WorkerOwn
  <1> QED
    BY <1>1, <1>2 DEF Procs

\* Process delivers the event, or returns with a result that is not "accepted".
LEMMA ProcessLeads ==
    ASSUME Types, Places, NEW p \in Procs, Process(p)
    PROVE  /\ pc'[p] \in {"attempt", "mark", "giveup", "next"}
           /\ pc'[p] = "mark" => p = Worker /\ Ev(p) \in Remembered
           /\ p = Worker => pc'[p] # "next"
           /\ pc'[p] = "attempt" => Remember(Ev(p))
           /\ pc'[p] # "attempt" => UNCHANGED <<seenProc, seenRedis>>
  <1> USE DEF Types, RequestTypes
  <1>w. Worker \notin Requests
    BY IngestAssumption
  <1>1. ASSUME NEW to, Goto(p, to)
        PROVE  pc'[p] = to
    BY <1>1 DEF Goto
  <1>2. ASSUME NEW a, p \in Requests, Answer(p, a, "next")
        PROVE  pc'[p] = "next"
    BY <1>2 DEF Answer
  <1>3. ASSUME NEW result \in {"quarantined", "rejected"}, Return(p, result)
        PROVE  IF p = Worker THEN pc'[p] = "giveup" ELSE pc'[p] = "next"
    BY <1>1, <1>2, <1>3, <1>w, ReturnMoves
  <1>4. ASSUME Return(p, "duplicate")
        PROVE  IF p = Worker THEN pc'[p] = "mark" ELSE pc'[p] = "next"
    BY <1>1, <1>2, <1>4, <1>w, ReturnMoves
  <1>5. \/ /\ \E result \in {"quarantined", "rejected"} : Return(p, result)
           /\ UNCHANGED <<seenProc, seenRedis>>
        \/ /\ Ev(p) \in Remembered /\ Return(p, "duplicate")
           /\ UNCHANGED <<seenProc, seenRedis>>
        \/ Goto(p, "attempt") /\ Remember(Ev(p))
    BY DEF Process
  <1> QED
    BY <1>1, <1>3, <1>4, <1>5

\* An attempt writes to every sink: the event is in those that did not fail.
LEMMA AttemptLeads ==
    ASSUME Types, Places, NEW p \in Procs, Attempt(p)
    PROVE  /\ pc'[p] \in {"attempt", "deadletter"}
           /\ \A t \in Sinks \ failed'[p] : Ev(p) \in rows'[t]
  <1> USE DEF Types, RequestTypes, AttemptTypes, StoreTypes
  <1>1. PICK a \in Attempts(cfg.policy, cfg.fallbackOn) :
           /\ rows' = [t \in Targets |-> IF t \in a.tried \ a.failed
                                         THEN rows[t] \cup {Ev(p)} ELSE rows[t]]
           /\ failed' = [failed EXCEPT ![p] = a.failed]
    BY DEF Attempt
  <1>2. Sinks \subseteq a.tried /\ Sinks \subseteq Targets
    BY DEF Attempts, Targets
  <1>3. failed'[p] = a.failed
    BY <1>1
  <1>4. \A t \in Sinks \ failed'[p] : Ev(p) \in rows'[t]
    BY <1>1, <1>2, <1>3
  <1>5. pc'[p] \in {"attempt", "deadletter"}
    BY DEF Attempt, Goto
  <1> QED
    BY <1>4, <1>5

\* A delivery is a success when the policy holds of its last attempt.
LEMMA DeadLetterLeads ==
    ASSUME Types, Places, NEW p \in Procs, DeadLetter(p)
    PROVE  /\ pc[p] = "deadletter"
           /\ pc'[p] \in {"mark", "accept"} => PolicyHolds(cfg.policy, failed[p])
           /\ pc'[p] \in IF p = Worker THEN {"mark", "giveup"} ELSE {"accept", "next"}
  <1> USE DEF Types, RequestTypes
  <1>w. Worker \notin Requests
    BY IngestAssumption
  <1>1. ASSUME NEW to, Goto(p, to)
        PROVE  pc'[p] = to
    BY <1>1 DEF Goto
  <1>2. ASSUME NEW a, p \in Requests, Answer(p, a, "next")
        PROVE  pc'[p] = "next"
    BY <1>2 DEF Answer
  <1>3. CASE PolicyHolds(cfg.policy, failed[p])
    <2>1. Return(p, "accepted") /\ pc[p] = "deadletter"
      BY <1>3 DEF DeadLetter
    <2>2. QED
      BY <1>1, <1>2, <1>3, <1>w, <2>1, ReturnMoves
  <1>4. CASE ~PolicyHolds(cfg.policy, failed[p])
    <2>1. Return(p, "rejected") /\ pc[p] = "deadletter"
      BY <1>4 DEF DeadLetter
    <2>2. QED
      BY <1>1, <1>2, <1>4, <1>w, <2>1, ReturnMoves
  <1> QED
    BY <1>3, <1>4

\* What the stores have of the event of an attempt.
LEMMA TakenKept ==
    ASSUME Types, Places, Taken, [Next]_vars
    PROVE  Taken'
  <1> USE DEF Types, AttemptTypes
  <1> SUFFICES ASSUME NEW p \in Procs, pc'[p] = "deadletter"
               PROVE  \A t \in Sinks \ failed'[p] : Ev(p)' \in rows'[t]
    BY DEF Taken
  <1>1. Ev(p)' = Ev(p)
    BY EvSteady DEF Settled
  <1>2. CASE Attempt(p)
    BY <1>1, <1>2, AttemptLeads
  <1>3. CASE ~Attempt(p)
    <2>1. pc[p] \in Inside
      <3>1. ~Enter(p)
        BY DEF Enter, Goto, RequestTypes
      <3>2. QED
        BY <3>1, InsideStep DEF Inside
    <2>2. pc[p] = "deadletter"
      <3>1. ~Process(p) /\ ~DeadLetter(p)
        BY ProcessLeads, DeadLetterLeads
      <3>2. ~Vanish
        BY DEF Vanish, Settled
      <3>3. QED
        BY <1>3, <2>1, <3>1, <3>2, InsideOwn
    <2>3. failed'[p] = failed[p]
      <3>1. ASSUME NEW q \in Procs, Attempt(q)
            PROVE  failed'[p] = failed[p]
        <4>1. q # p /\ \E F : failed' = [failed EXCEPT ![q] = F]
          BY <1>3, <3>1, ZenonT(60) DEF Attempt
        <4>2. QED
          BY <4>1
      <3>2. QED
        BY <3>1, AttemptFrame DEF Process
    <2>4. \A t \in Sinks : rows[t] \subseteq rows'[t]
      BY StoresGrow DEF Targets
    <2>5. QED
      BY <1>1, <2>2, <2>3, <2>4 DEF Taken
  <1> QED
    BY <1>2, <1>3

\* A record is marked when its delivery succeeded, or its id was recognised.
LEMMA MarkedFrom ==
    ASSUME Types, Places, [Next]_vars, pc'[Worker] = "mark"
    PROVE  \/ pc[Worker] = "mark" \/ DeadLetter(Worker)
           \/ Process(Worker) /\ Ev(Worker) \in Remembered
  <1> USE DEF Types, RequestTypes
  <1>w. Worker \in Procs
    BY DEF Procs
  <1>1. ~Vanish
    BY <1>w DEF Vanish, Settled
  <1>2. ASSUME NEW to, Goto(Worker, to)
        PROVE  to = "mark"
    BY <1>2, <1>w DEF Goto
  <1>3. ~Receive /\ ~Mark /\ ~TakeProcessor /\ ~GiveUp
    BY <1>2 DEF Receive, Mark, TakeProcessor, GiveUp
  <1>4. ~Ensure(Worker) /\ ~Enter(Worker) /\ ~WorkerPanics
    BY <1>1, <1>2 DEF Ensure, Enter, WorkerPanics
  <1>5. ~Attempt(Worker)
    BY <1>w, AttemptLeads
  <1>6. Process(Worker) => Ev(Worker) \in Remembered
    BY <1>w, ProcessLeads
  <1> QED
    BY <1>1, <1>3, <1>4, <1>5, <1>6, WorkerOwn DEF WorkerStep, Processing

\* The worker marks a record only when its event has reached a store.
LEMMA MarkableKept ==
    ASSUME Types, Places, Modes, Taken, Markable, Recorded, [Next]_vars
    PROVE  Markable'
  <1> USE DEF Types, SpoolTypes
  <1> SUFFICES ASSUME pc'[Worker] = "mark"
               PROVE  Reached(Ev(Worker))' \/ next' > pos' + 1
    BY DEF Markable
  <1>w. Worker \in Procs
    BY DEF Procs
  <1>1. Ev(Worker)' = Ev(Worker)
    BY <1>w, EvSteady DEF Settled
  <1>2. Reached(Ev(Worker)) => Reached(Ev(Worker))'
    <2>1. ASSUME NEW e, Reached(e), e = Ev(Worker)'
          PROVE  Reached(Ev(Worker))'
      BY <2>1, ReachedStays DEF Reached
    <2>2. QED
      BY <1>1, <2>1
  <1>3. UNCHANGED <<pos, next>>
    <2>1. ~Start /\ ~Mark /\ ~GiveUp
      BY <1>w DEF Start, Mark, GiveUp, Goto, RequestTypes
    <2>2. QED
      BY <2>1, SpoolFrame DEF SpoolAppend
  <1>4. CASE pc[Worker] = "mark"
    BY <1>2, <1>3, <1>4 DEF Markable
  <1>5. CASE DeadLetter(Worker)
    <2>1. pc[Worker] = "deadletter" /\ PolicyHolds(cfg.policy, failed[Worker])
      BY <1>5, <1>w, DeadLetterLeads
    <2>2. Reached(Ev(Worker))
      BY <1>w, <2>1, PolicyReaches DEF Taken
    <2>3. QED
      BY <1>2, <2>2
  <1>6. CASE Process(Worker) /\ Ev(Worker) \in Remembered
    <2>1. pc[Worker] = "check"
      BY <1>6 DEF Process
    <2>2. Spooled
      <3>1. next <= Len(file) /\ next >= 1
        BY <2>1 DEF Places, WorkerHand
      <3>2. QED
        BY <3>1 DEF Modes
    <2>3. Ev(Worker) \in seenProc
      BY <1>6, <2>2 DEF Recorded, Remembered
    <2>4. Reached(Ev(Worker)) \/ next > pos + 1
      BY <2>1, <2>2, <2>3 DEF Recorded, Working
    <2>5. QED
      BY <1>2, <1>3, <2>4
  <1> QED
    BY <1>4, <1>5, <1>6, MarkedFrom

\* A delivery of the worker that has begun is settled, given up or lost with the
\* process.
LEMMA WorkingStep ==
    ASSUME Types, Places, [Next]_vars, pc[Worker] \in Working
    PROVE  \/ pc'[Worker] \in Working \/ Vanish \/ GiveUp
           \/ DeadLetter(Worker) /\ PolicyHolds(cfg.policy, failed[Worker])
  <1> USE DEF Types, RequestTypes, Working
  <1>w. Worker \in Procs
    BY DEF Procs
  <1>1. ASSUME NEW to, Goto(Worker, to)
        PROVE  pc'[Worker] = to
    BY <1>1, <1>w DEF Goto
  <1>2. ~Receive /\ ~Mark /\ ~Enter(Worker) /\ ~Process(Worker)
    BY DEF Receive, Mark, Enter, Process
  <1>3. Ensure(Worker) \/ TakeProcessor => pc'[Worker] \in Working
    BY <1>1 DEF Ensure, TakeProcessor
  <1>4. Attempt(Worker) => pc'[Worker] \in Working
    BY <1>w, AttemptLeads
  <1>5. DeadLetter(Worker) =>
           pc'[Worker] \in Working \/ PolicyHolds(cfg.policy, failed[Worker])
    BY <1>w, DeadLetterLeads
  <1> QED
    BY <1>2, <1>3, <1>4, <1>5, WorkerOwn DEF WorkerStep, Processing, WorkerPanics

\* What the spool was given is on file or settled.
LEMMA RecordedKept ==
    ASSUME NoRedisSpool, Types, Places, Modes, Taken, Markable, Recorded, [Next]_vars
    PROVE  Recorded'
  <1> USE DEF Types, SpoolTypes
  <1>c. cfg' = cfg /\ (Spooled' <=> Spooled)
    BY CfgFrame DEF Spooled
  <1> SUFFICES ASSUME Spooled
               PROVE  /\ ~redis'
                      /\ \A e \in seenProc' : \/ Reached(e)' \/ next' > pos' + 1
                                              \/ pc'[Worker] \in Working /\ Ev(Worker)' = e
    BY <1>c DEF Recorded
  <1>w. Worker \in Procs
    BY DEF Procs
  <1>h. /\ ~redis
        /\ \A e \in seenProc : \/ Reached(e) \/ next > pos + 1
                               \/ pc[Worker] \in Working /\ Ev(Worker) = e
    BY DEF Recorded
  <1>r. \A r \in Requests : ~Process(r)
    BY DEF Process, Modes, Inside
  <1>1. ~redis'
    <2>1. Serve => ~redis'
      BY DEF Serve, NewProcessor, NoRedisSpool, Spooled
    <2>2. ASSUME NEW p \in Procs, Ensure(p)
          PROVE  ~redis'
      BY <1>h, <2>2 DEF Ensure, NewProcessor, seen
    <2>3. QED
      BY <1>h, <2>1, <2>2, SeenFrame DEF Exit, Crash, WorkerPanics, Vanish, Process,
         Dedupe, Expire
  <1>2. ASSUME NEW e \in seenProc'
        PROVE  \/ Reached(e)' \/ next' > pos' + 1
               \/ pc'[Worker] \in Working /\ Ev(Worker)' = e
    <2>1. CASE Process(Worker) /\ e = Ev(Worker) /\ pc'[Worker] = "attempt"
      BY <1>w, <2>1, EvSteady DEF Settled, Working
    <2>2. CASE Process(Worker) /\ pc'[Worker] # "attempt"
      <3>1. e \in seenProc /\ pc[Worker] = "check"
        BY <1>2, <1>w, <2>2, ProcessLeads DEF Process
      <3>2. Reached(e) \/ next > pos + 1
        BY <1>h, <3>1 DEF Working
      <3>3. UNCHANGED <<pos, next>>
        BY <2>2 DEF Process, spool
      <3>4. QED
        BY <3>2, <3>3, ReachedStays
    <2>3. CASE ~Process(Worker) /\ e \notin seenProc
      <3>1. ~NewProcessor(TRUE) /\ ~NewProcessor(FALSE) /\ ~Vanish
        BY <1>2 DEF NewProcessor, Vanish
      <3>2. ASSUME NEW p \in Procs, Ensure(p)
            PROVE  seenProc' = seenProc
        BY <3>1, <3>2 DEF Ensure, seen
      <3>3. ~Serve
        BY <3>1 DEF Serve
      <3>4. seenProc' \subseteq seenProc
        BY <1>r, <2>3, <3>1, <3>2, <3>3, SeenFrame DEF Exit, Crash, WorkerPanics,
           Dedupe, Expire, Procs
      <3>5. QED
        BY <1>2, <2>3, <3>4
    <2>4. CASE e \in seenProc /\ ~(Process(Worker) /\ pc'[Worker] # "attempt")
      <3>v. ~Vanish
        BY <1>2 DEF Vanish
      <3>1. CASE Reached(e)
        BY <3>1, ReachedStays
      <3>2. CASE GiveUp
        BY <3>2 DEF GiveUp, Places, WorkerHand
      <3>3. CASE Mark
        <4>1. pc[Worker] = "mark" /\ next' = next + 1
              /\ pos' = IF next = pos + 1 THEN next ELSE pos
          BY <3>3 DEF Mark
        <4>2. Reached(e) \/ next > pos + 1
          BY <1>h, <2>4, <4>1 DEF Working
        <4>3. QED
          BY <3>1, <4>1, <4>2
      <3>4. ~Start
        BY <2>4 DEF Start, Places, DownOK
      <3>5. CASE UNCHANGED <<pos, next>> /\ ~Reached(e) /\ ~GiveUp
        <4>1. CASE next > pos + 1
          BY <3>5, <4>1
        <4>2. CASE pc[Worker] \in Working /\ Ev(Worker) = e
          <5>1. pc'[Worker] \in Working
            BY <3>5, <3>v, <4>2, <1>w, WorkingStep, PolicyReaches, DeadLetterLeads DEF Taken
          <5>2. QED
            BY <1>w, <4>2, <5>1, EvSteady DEF Settled, Working
        <4> QED
          BY <1>h, <2>4, <3>5, <4>1, <4>2
      <3>6. QED
        BY <3>1, <3>2, <3>3, <3>4, <3>5, SpoolFrame DEF SpoolAppend
    <2>5. CASE Process(Worker) /\ e \notin seenProc /\ pc'[Worker] = "attempt"
      <3>1. e = Ev(Worker)
        BY <1>2, <1>w, <2>5, ProcessLeads DEF Remember
      <3>2. QED
        BY <2>1, <2>5, <3>1
    <2> QED
      BY <2>2, <2>3, <2>4, <2>5
  <1> QED
    BY <1>1, <1>2

\* A request is about to accept what it has put in the spool, or what was
\* delivered while it waited.
LEMMA CustodyFrom ==
    ASSUME Types, Places, [Next]_vars, NEW r \in Requests, pc'[r] \in {"queue", "accept"}
    PROVE  pc[r] \in {"queue", "accept"} \/ SpoolAppend(r) \/ DeadLetter(r)
  <1> USE DEF Types, RequestTypes
  <1>w. r \in Procs /\ r # Worker
    BY IngestAssumption DEF Procs
  <1>1. ~Vanish
    BY <1>w DEF Vanish, Settled
  <1>2. ASSUME NEW to, Goto(r, to)
        PROVE  pc'[r] = to
    BY <1>2, <1>w DEF Goto
  <1>3. ASSUME NEW a, Answer(r, a, "next")
        PROVE  FALSE
    BY <1>3, <1>w DEF Answer
  <1>4. ~Refuse(r) /\ ~Admit(r) /\ ~Finish(r) /\ ~EnterPanics(r)
    BY <1>2 DEF Refuse, Admit, Finish, EnterPanics, Panic
  <1>5. ~NextEvent(r) /\ ~SpoolRefuses(r)
    BY <1>2, <1>3 DEF NextEvent, SpoolRefuses
  <1>6. ~Dedupe(r)
    BY <1>2, <1>3 DEF Dedupe, Abandon
  <1>7. ~Broadcast(r)
    <2>1. ASSUME Broadcast(r)
          PROVE  \E to \in {"aborted", "next"} : pc' = [pc EXCEPT ![r] = to]
      BY <2>1, Zenon DEF Broadcast, Panic, Goto
    <2>2. QED
      BY <1>w, <2>1
  <1>8. ~Ensure(r) /\ ~Enter(r) /\ ~Process(r) /\ ~Attempt(r)
    <2>1. ~Ensure(r) /\ ~Enter(r)
      BY <1>2 DEF Ensure, Enter
    <2>2. QED
      BY <1>w, <2>1, ProcessLeads, AttemptLeads
  <1>9. HybridQueue(r) \/ Accept(r) => pc[r] \in {"queue", "accept"}
    BY Zenon DEF HybridQueue, Accept
  <1> QED
    BY <1>1, <1>4, <1>5, <1>6, <1>7, <1>8, <1>9, RequestStep
       DEF Handler, Processing, Places

\* What is in custody stays there.
LEMMA CustodyStays ==
    ASSUME Types, Places, Markable, [Next]_vars, NEW e, e \in Held \/ Reached(e)
    PROVE  (e \in Held)' \/ Reached(e)'
  <1>1. CASE Reached(e)
    BY <1>1, ReachedStays
  <1>2. CASE e \in Held
    <2>1. CASE Mark /\ next = pos + 1 /\ Held = Held' \cup {Ev(Worker)}
      <3>1. Reached(Ev(Worker))
        BY <2>1 DEF Mark, Markable, Types, SpoolTypes
      <3>2. QED
        BY <1>2, <2>1, <3>1, ReachedStays
    <2>2. QED
      BY <1>2, <2>1, HeldStep
  <1> QED
    BY <1>1, <1>2

\* A handler about to answer "accepted" has left its event in custody.
LEMMA InCustodyKept ==
    ASSUME Types, Places, Taken, Markable, InCustody, [Next]_vars
    PROVE  InCustody'
  <1> SUFFICES ASSUME NEW r \in Requests, pc'[r] \in {"queue", "accept"}
               PROVE  (Ev(r) \in Held)' \/ Reached(Ev(r))'
    BY DEF InCustody
  <1>w. r \in Procs
    BY DEF Procs
  <1>1. Ev(r)' = Ev(r)
    BY <1>w, EvSteady DEF Settled
  <1>2. ASSUME NEW e, e = Ev(r)', (e \in Held)' \/ Reached(e)'
        PROVE  (Ev(r) \in Held)' \/ Reached(Ev(r))'
    BY <1>2 DEF Reached
  <1>3. CASE SpoolAppend(r)
    <2>1. ~Mark
      BY <1>3, IngestAssumption DEF SpoolAppend, Mark, Goto, Types, RequestTypes, Procs
    <2>2. file'= Append(file, Ev(r)) /\ pos' = pos
      BY <1>3 DEF SpoolAppend
    <2>3. Len(file') \in pos' + 1 .. Len(file') /\ file'[Len(file')] = Ev(r)
      BY <2>2 DEF Types, SpoolTypes
    <2>4. (Ev(r) \in Held)'
      BY <1>1, <2>3 DEF Held
    <2>5. QED
      BY <2>4
  <1>4. CASE DeadLetter(r)
    <2>1. PolicyHolds(cfg.policy, failed[r]) /\ pc[r] = "deadletter"
      BY <1>4, <1>w, DeadLetterLeads
    <2>2. Reached(Ev(r))
      BY <1>w, <2>1, PolicyReaches DEF Taken
    <2>3. QED
      BY <1>1, <1>2, <2>2, ReachedStays
  <1>5. CASE pc[r] \in {"queue", "accept"}
    BY <1>1, <1>2, <1>5, CustodyStays DEF InCustody
  <1> QED
    BY <1>3, <1>4, <1>5, CustodyFrom

-----------------------------------------------------------------------------
(* The theorem.                                                            *)

\* No attempt, no record, no answer.
LEMMA InitSafe == Init => Safe
  <1> SUFFICES ASSUME Init PROVE Safe
    OBVIOUS
  <1>1. \A p \in Procs : pc[p] \in {"off", "new"}
    BY DEF Init
  <1>2. seenProc = {} /\ ~redis /\ Worker \in Procs /\ Requests \subseteq Procs
    BY DEF Init, Procs
  <1>3. Taken
    BY <1>1 DEF Taken
  <1>4. InCustody /\ Markable
    BY <1>1, <1>2 DEF InCustody, Markable
  <1>5. Recorded
    BY <1>2 DEF Recorded
  <1> QED
    BY <1>3, <1>4, <1>5 DEF Safe

\* The parts are inductive together, with the invariant of IngestProofs.
LEMMA NextSafe ==
    ASSUME NoRedisSpool
    PROVE  Inv /\ Safe /\ [Next]_vars => Safe'
  BY TakenKept, MarkableKept, RecordedKept, InCustodyKept DEF Inv, Safe

\* Nobody has been answered, nothing is held.
LEMMA InitPromise == Init => Promise!Init
  <1> SUFFICES ASSUME Init PROVE Promise!Init
    OBVIOUS
  <1>1. Answered({"accepted"}) = {}
    BY DEF Init, Answered
  <1>2. Held = {}
    BY DEF Init, Held
  <1>3. \A e : ~Reached(e)
    <2>1. /\ \A t \in Targets : rows[t] = {}
          /\ deadLetters = {} /\ quarantine = {}
      BY DEF Init
    <2>2. Primary \in Targets /\ Sinks \subseteq Targets /\ Fallback \subseteq Targets
      BY DEF Targets, Sinks
    <2>3. QED
      BY <2>1, <2>2 DEF Reached, Sinks
  <1> QED
    BY <1>1, <1>2, <1>3 DEF Promise!Init

\* Accepting acknowledges what is in custody, an append takes an event, marking
\* a record releases what is settled; every other step settles events or does
\* not concern the promise.
LEMMA StepPromise ==
    ASSUME Inv, Safe, [Next]_vars
    PROVE  [Promise!Next]_(Promise!vars)
  <1> USE DEF Inv
  <1> DEFINE Ack == Answered({"accepted"})
             Sett == {e \in Events : Reached(e)}
  <1>s. Sett \subseteq Sett'
    BY ReachedStays
  <1>1. ASSUME NEW r \in Requests, Accept(r), Ack' = Ack \cup {Ev(r)}
        PROVE  Promise!Next
    <2>1. pc[r] = "accept" /\ Held' = Held /\ UNCHANGED <<cfg, rows, deadLetters, quarantine>>
      BY <1>1, Zenon DEF Accept, Held, spool, stores
    <2>2. Ev(r) \in Events
      BY <2>1, EvType DEF Settled, Procs
    <2>3. Ev(r) \in Held \cup Sett
      BY <2>1, <2>2 DEF Safe, InCustody
    <2>4. Sett' = Sett
      BY <2>1 DEF Reached
    <2>5. Promise!Acknowledge(Ev(r))
      BY <1>1, <2>1, <2>3, <2>4 DEF Promise!Acknowledge
    <2>6. QED
      BY <2>2, <2>5 DEF Promise!Next
  <1>2. ASSUME NEW r \in Requests, SpoolAppend(r), Held' = Held \cup {Ev(r)}
        PROVE  Promise!Next
    <2>1. pc[r] = "append" /\ answer' = answer
          /\ UNCHANGED <<cfg, rows, deadLetters, quarantine>>
      BY <1>2 DEF SpoolAppend, Goto, stores
    <2>2. Ev(r) \in Events
      BY <2>1, EvType DEF Settled, Procs
    <2>3. Sett' = Sett /\ Ack' = Ack
      BY <2>1 DEF Reached, Answered
    <2>4. Promise!Take({Ev(r)})
      BY <1>2, <2>3 DEF Promise!Take
    <2>5. QED
      BY <2>2, <2>4 DEF Promise!Next
  <1>3. CASE Mark /\ next = pos + 1 /\ Held = Held' \cup {Ev(Worker)}
    <2>1. pc[Worker] = "mark" /\ answer' = answer
          /\ UNCHANGED <<cfg, rows, deadLetters, quarantine>>
      BY <1>3 DEF Mark, Goto, stores
    <2>2. Ev(Worker) \in Events
      BY <2>1, EvType DEF Settled, Procs
    <2>3. Reached(Ev(Worker))
      BY <1>3, <2>1 DEF Safe, Markable, Types, SpoolTypes
    <2>4. Sett' = Sett /\ Ack' = Ack
      BY <2>1 DEF Reached, Answered
    <2>5. Promise!Release(Held \ Held')
      BY <1>3, <2>2, <2>3, <2>4 DEF Promise!Release
    <2>6. Held \ Held' \in SUBSET Events
      BY <1>3, <2>2
    <2>7. QED
      BY <2>5, <2>6 DEF Promise!Next
  <1>4. CASE Held' = Held /\ Ack' = Ack
    <2>1. Promise!Settle(Sett' \ Sett)
      BY <1>4, <1>s DEF Promise!Settle
    <2>2. QED
      BY <2>1 DEF Promise!Next
  <1>5. CASE Held' = Held
    BY <1>1, <1>4, <1>5, AnsweredStep
  <1> QED
    BY <1>2, <1>3, <1>5, HeldStep

\* Whatever fails, is retried, is replaced or crashes in between, an event that
\* is answered "accepted" has reached the sinks as the policy asks, or is in the
\* spool and stays there until it has.
THEOREM CustodyKept == NoRedisSpool => (Spec => KeepsCustody)
  <1> SUFFICES ASSUME NoRedisSpool PROVE Spec => KeepsCustody
    OBVIOUS
  <1>1. Inv /\ Safe /\ [Next]_vars => Safe'
    BY NextSafe
  <1>2. Inv /\ Safe /\ [Next]_vars => [Promise!Next]_(Promise!vars)
    BY StepPromise
  <1> QED
    BY <1>1, <1>2, InitSafe, InitPromise, Invariance, PTL
       DEF Spec, KeepsCustody, Promise!Spec

=============================================================================
