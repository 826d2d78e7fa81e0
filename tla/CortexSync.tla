----------------------------- MODULE CortexSync -----------------------------
(***************************************************************************)
(* Cortex follows the collector (cortex/internal/collectorsync): it polls  *)
(* the stored events behind its cursor, page by page, and when it has      *)
(* caught up it reads the collector's tail.  Every batch is processed into *)
(* the graph store, the cursor is saved to a file, and only then it moves. *)
(*                                                                         *)
(* An event is its id; world gives each one its timestamp and its trace.   *)
(* The connection is a sequence (the rows of the history and what is       *)
(* broadcast after them); of the collector's side the module has what the  *)
(* tail handler and the query do.  The graph store refuses an edge to a    *)
(* node it does not have.                                                  *)
(***************************************************************************)
EXTENDS Integers, Sequences, FiniteSets, Functions

CONSTANTS
    MaxEvent,       \* events are 1 .. MaxEvent, ordered as their ids are
    Worlds,         \* the worlds to consider: [time, trace, invalid, tail]
    BatchSize,      \* collector.batch_size
    MaxPage,        \* maxCollectorQueryLimit (1000 in the code)
    StreamSize,     \* the buffer of a tail subscriber (128 in the code)
    HistoryLimit,   \* of the tail's history (1000 in the code)
    BufferSize,     \* collector.tail_buffer_size
    TailBatch,      \* collector.tail_batch_size
    Bounds          \* the bounds to consider: [crash, fault, corrupt]

VARIABLES
    world,
    stored,         \* events a query of the collector returns
    sent,           \* events that were broadcast to the tail
    history,        \* of the open tail: rows still to be read
    stream,         \* the subscriber's channel
    tail,           \* "off", "subscribed", "on", "broken"
    inbox,          \* eventsCh
    batch,          \* of runTailSession
    pc,             \* "load", "poll", "nodes", "link", "save", "tail", "backoff", "halted"
    from,           \* who flushes: "poll", "more" (a full page), "tail", "last"
    work,           \* the batch in flushBatch
    cursor,         \* cursorState
    recovered,      \* it was loaded from the backup
    main,           \* the cursor file
    backup,         \* its backup
    nodes,          \* event nodes of the graph
    processed,      \* events whose batch was processed
    excused,        \* history: events that came out of order or were cut off
    budget

external == <<world, stored, sent>>
session == <<history, stream, tail, inbox, batch>>
files == <<main, backup>>
vars == <<external, session, pc, from, work, cursor, recovered, files, nodes,
          processed, excused, budget>>

Events == 1 .. MaxEvent
Untraced == "untraced"
Zero == [ts |-> 0, id |-> 0]
Cursors == [ts : Nat, id : Events \cup {0}]

\* A cursor file that is not there, and one that does not decode.
Absent == [ts |-> -1, id |-> 0]
Bad == [ts |-> -1, id |-> -1]

CursorOf(e) == [ts |-> world.time[e], id |-> e]

\* Mutant: the id does not count.
cursorLess_ById(a, b) == a.ts < b.ts

\* Events are after a cursor by timestamp, then by id.
cursorLess(a, b) == a.ts < b.ts \/ (a.ts = b.ts /\ a.id < b.id)

After(e, c) == cursorLess(c, CursorOf(e))

Before(e, d) == cursorLess(CursorOf(e), CursorOf(d))

\* Something of S comes after e.
Overtaken(e, S) == \E d \in S : Before(e, d)

\* The rows of a sorted query: the one sequence in that order.
Sorted(S) ==
    {s \in [1 .. Cardinality(S) -> S] :
        Range(s) = S /\ \A i, j \in DOMAIN s : i < j => Before(s[i], s[j])}

\* The cursor of the last event of a batch, if there is one.
Latest(S) == {CursorOf(e) : e \in {d \in S : ~Overtaken(d, S)}}

Init ==
    /\ world \in Worlds
    /\ stored = {} /\ sent = {}
    /\ history = <<>> /\ stream = <<>> /\ tail = "off" /\ inbox = <<>> /\ batch = {}
    /\ pc = "load" /\ from = "poll" /\ work = {}
    /\ cursor = Zero /\ recovered = FALSE
    /\ main = Absent /\ backup = Absent
    /\ nodes = {} /\ processed = {} /\ excused = {}
    /\ budget \in Bounds

Spend(d) == budget[d] > 0 /\ budget' = [budget EXCEPT ![d] = @ - 1]

-----------------------------------------------------------------------------
(* The collector.  A direct event is stored and then broadcast, a spooled  *)
(* one is broadcast and stored by the worker.                              *)

Store(e) ==
    /\ e \notin stored
    /\ stored' = stored \cup {e}
    /\ excused' = IF Overtaken(e, stored \cup sent) THEN excused \cup {e} ELSE excused
    /\ UNCHANGED <<world, sent, session, pc, from, work, cursor, recovered, files,
                   nodes, processed, budget>>

\* broadcastTail: a subscriber whose channel is full does not get the event.
\* Without the tail nobody listens.
Broadcast(e) ==
    /\ world.tail /\ e \notin sent
    /\ sent' = sent \cup {e}
    /\ LET open == tail \in {"subscribed", "on"}
           full == Len(stream) >= StreamSize
       IN  /\ stream' = IF open /\ ~full THEN Append(stream, e) ELSE stream
           /\ excused' = excused
                 \cup (IF (open /\ full) \/ Overtaken(e, sent) THEN {e} ELSE {})
                 \cup {d \in stored \ sent : Overtaken(d, {e})}
    /\ UNCHANGED <<world, stored, history, tail, inbox, batch, pc, from, work,
                   cursor, recovered, files, nodes, processed, budget>>

\* tailURL: of a cursor that was loaded from the backup only the id is sent.
Wanted(e) == IF main = Bad THEN backup \in Cursors => e > backup.id
                           ELSE main \in Cursors => After(e, main)

\* handleTail, queryTailHistory: the subscriber is there before the query.
History ==
    /\ tail = "subscribed"
    /\ tail' = "on"
    /\ \E rows \in Sorted({e \in stored : Wanted(e)}) :
       LET n == IF Len(rows) < HistoryLimit THEN Len(rows) ELSE HistoryLimit
       IN  /\ history' = SubSeq(rows, 1, n)
           /\ excused' = excused \cup (Range(rows) \ Range(history'))
                                \cup ((sent \ stored) \ Range(stream))
    /\ UNCHANGED <<external, stream, inbox, batch, pc, from, work, cursor,
                   recovered, files, nodes, processed, budget>>

-----------------------------------------------------------------------------
(* The sync.                                                               *)

\* LoadCursor; without a readable backup the sync halts.
Load ==
    /\ pc = "load"
    /\ cursor' = CASE main \in Cursors -> main
                   [] main = Bad /\ backup \in Cursors -> backup
                   [] OTHER -> Zero
    /\ recovered' = (main = Bad /\ backup \in Cursors)
    /\ pc' = IF main = Bad /\ backup \notin Cursors THEN "halted" ELSE "poll"
    /\ UNCHANGED <<external, session, from, work, files, nodes, processed, excused,
                   budget>>

\* The rows of a query: sorted by timestamp only, so that the limit may cut
\* events of one timestamp in any way.
Pages(limit) ==
    LET ready == {e \in stored : After(e, cursor)} IN
    {S \in SUBSET ready :
        /\ Cardinality(S) = IF Cardinality(ready) < limit THEN Cardinality(ready) ELSE limit
        /\ \A e \in S, d \in ready \ S : world.time[e] <= world.time[d]}

\* runPollCatchup, FetchEventsSince.
Poll ==
    /\ pc = "poll"
    /\ \/ \E S \in Pages(IF BatchSize < MaxPage THEN BatchSize ELSE MaxPage) :
             /\ work' = S
             /\ pc' = CASE S # {} -> "nodes" [] S = {} /\ world.tail -> "tail"
                        [] OTHER -> "poll"
             /\ from' = IF Cardinality(S) < BatchSize THEN "poll" ELSE "more"
             /\ tail' = IF S = {} /\ world.tail THEN "subscribed" ELSE tail
             /\ excused' = IF S = {} THEN excused
                           ELSE excused \cup {e \in stored \ S :
                                    After(e, cursor) /\ Overtaken(e, S)}
             /\ UNCHANGED budget
       \/ /\ Spend("fault")
          /\ pc' = "backoff"
          /\ UNCHANGED <<work, from, excused, tail>>
    /\ UNCHANGED <<external, history, stream, inbox, batch, cursor, recovered, files,
                   nodes, processed>>

EndTail ==
    /\ tail' = "off" /\ history' = <<>> /\ stream' = <<>>
    /\ inbox' = <<>> /\ batch' = {}

\* The end of flushBatch with an error: the session, if there is one, is over.
Fail ==
    /\ pc' = "backoff" /\ work' = {}
    /\ EndTail

\* And without: what came of the cursor, whoever called.
Continue ==
    /\ work' = {}
    /\ CASE from = "poll" -> /\ pc' = IF world.tail THEN "tail" ELSE "poll"
                             /\ tail' = IF world.tail THEN "subscribed" ELSE "off"
                             /\ UNCHANGED <<history, stream, inbox, batch>>
         [] from = "more" -> pc' = "poll" /\ UNCHANGED session
         [] from = "tail" -> /\ pc' = "tail" /\ batch' = {}
                             /\ UNCHANGED <<history, stream, tail, inbox>>
         [] OTHER -> pc' = "backoff" /\ EndTail

\* ProcessBatch up to the event nodes.  The event store is the collector and
\* saves nothing; an invalid event fails the whole batch.
Nodes ==
    /\ pc = "nodes"
    /\ \/ /\ work \cap world.invalid = {}
          /\ nodes' = nodes \cup work
          /\ pc' = "link"
          /\ UNCHANGED <<session, work, budget>>
       \/ /\ (work \cap world.invalid # {} /\ UNCHANGED budget) \/ Spend("fault")
          /\ Fail
          /\ UNCHANGED nodes
    /\ UNCHANGED <<external, from, cursor, recovered, files, processed, excused>>

\* linkGroupedEvents, linkExternalEvents: an event that is alone with its trace
\* in the batch is linked to all the events the collector has of that trace.
Linkable(e) ==
    \/ world.trace[e] = Untraced
    \/ \E d \in work \ {e} : world.trace[d] = world.trace[e]
    \/ \A d \in stored : world.trace[d] = world.trace[e] => d \in nodes

\* A lookup that fails links nothing and fails nothing; an edge that is not saved does.
Link ==
    /\ pc = "link"
    /\ LET linkable == \A e \in work : Linkable(e) IN
       \/ /\ (linkable /\ UNCHANGED budget) \/ (~linkable /\ Spend("fault"))
          /\ processed' = processed \cup work
          /\ pc' = "save"
          /\ UNCHANGED <<session, work>>
       \/ /\ (~linkable /\ UNCHANGED budget) \/ (linkable /\ Spend("fault"))
          /\ Fail
          /\ UNCHANGED processed
    /\ UNCHANGED <<external, from, cursor, recovered, files, nodes, excused>>

\* Mutant: the cursor moves to the last event received, not the last processed.
Save_MovesAnyway ==
    /\ pc = "save"
    /\ backup' = IF main \in Cursors THEN main ELSE backup
    /\ \E c \in Latest(work) : main' = IF main = Bad THEN Bad ELSE c
    /\ cursor' \in Latest(work \cup Range(inbox))
    /\ Continue
    /\ UNCHANGED <<external, from, recovered, nodes, processed, excused, budget>>

\* SaveCursor keeps the file it replaces as the backup, and does not replace a
\* file it cannot read.
Save ==
    /\ pc = "save"
    /\ \/ /\ main # Bad
          /\ backup' = IF main \in Cursors THEN main ELSE backup
          /\ cursor' \in Latest(work)
          /\ main' = cursor'
          /\ Continue
          /\ UNCHANGED budget
       \/ /\ main = Bad
          /\ Fail
          /\ UNCHANGED <<files, cursor, budget>>
       \/ /\ Spend("fault") /\ main # Bad
          /\ backup' \in {backup, IF main \in Cursors THEN main ELSE backup}
          /\ Fail
          /\ UNCHANGED <<main, cursor>>
    /\ UNCHANGED <<external, from, recovered, nodes, processed, excused>>

Backoff ==
    /\ pc = "backoff"
    /\ pc' = "poll"
    /\ UNCHANGED <<external, session, from, work, cursor, recovered, files, nodes,
                   processed, excused, budget>>

-----------------------------------------------------------------------------
(* runTailSession and the goroutine of StreamTail.                         *)

\* The callback: an event that is not after the cursor is let go; for room in
\* eventsCh it waits.
Receive ==
    /\ tail = "on" /\ history \o stream # <<>>
    /\ LET e == Head(history \o stream) IN
       /\ After(e, cursor) => Len(inbox) < BufferSize
       /\ inbox' = IF After(e, cursor) THEN Append(inbox, e) ELSE inbox
    /\ IF history # <<>> THEN history' = Tail(history) /\ UNCHANGED stream
                         ELSE stream' = Tail(stream) /\ UNCHANGED history
    /\ UNCHANGED <<external, tail, batch, pc, from, work, cursor, recovered, files,
                   nodes, processed, excused, budget>>

\* The connection breaks, or the handler refuses it.
Break ==
    /\ tail \in {"subscribed", "on"} /\ Spend("fault")
    /\ tail' = "broken" /\ history' = <<>> /\ stream' = <<>>
    /\ UNCHANGED <<external, inbox, batch, pc, from, work, cursor, recovered, files,
                   nodes, processed, excused>>

\* flushBatch for S: sortAndDedupeEvents lets go what is not after the cursor.
Flush(S, who) ==
    LET ordered == {e \in S : After(e, cursor)} IN
    /\ from' = who
    /\ IF ordered # {} THEN /\ pc' = "nodes" /\ work' = ordered
                            /\ batch' = S
                            /\ UNCHANGED <<history, stream, tail, inbox>>
       ELSE IF who = "last" THEN pc' = "backoff" /\ work' = {} /\ EndTail
       ELSE pc' = "tail" /\ work' = {} /\ batch' = {}
            /\ UNCHANGED <<history, stream, tail, inbox>>

Take ==
    /\ pc = "tail" /\ inbox # <<>>
    /\ inbox' = Tail(inbox)
    /\ LET S == batch \cup {Head(inbox)} IN
       IF Cardinality(S) < TailBatch
       THEN batch' = S /\ UNCHANGED <<pc, from, work>>
       ELSE /\ from' = "tail"
            /\ work' = {e \in S : After(e, cursor)}
            /\ pc' = IF work' # {} THEN "nodes" ELSE "tail"
            /\ batch' = IF work' # {} THEN S ELSE {}
    /\ UNCHANGED <<external, history, stream, tail, cursor, recovered, files, nodes,
                   processed, excused, budget>>

\* Mutant: the ticker waits for a full batch.
Tick_WhenFull ==
    /\ pc = "tail" /\ Cardinality(batch) >= TailBatch
    /\ Flush(batch, "tail")
    /\ UNCHANGED <<external, cursor, recovered, files, nodes, processed, excused,
                   budget>>

\* The ticker.
Tick ==
    /\ pc = "tail" /\ batch # {}
    /\ Flush(batch, "tail")
    /\ UNCHANGED <<external, cursor, recovered, files, nodes, processed, excused,
                   budget>>

\* The error of the stream: the batch is flushed, eventsCh is not looked at.
TailEnds ==
    /\ pc = "tail" /\ tail = "broken"
    /\ Flush(batch, "last")
    /\ UNCHANGED <<external, cursor, recovered, files, nodes, processed, excused,
                   budget>>

-----------------------------------------------------------------------------
\* The process ends, by a signal or not, and starts again.
Crash ==
    /\ Spend("crash")
    /\ EndTail
    /\ pc' = "load" /\ from' = "poll" /\ work' = {}
    /\ cursor' = Zero /\ recovered' = FALSE
    /\ UNCHANGED <<external, files, nodes, processed, excused>>

\* Something else damages the file.
Corrupt ==
    /\ main \in Cursors /\ Spend("corrupt")
    /\ main' = Bad
    /\ UNCHANGED <<external, session, pc, from, work, cursor, recovered, backup,
                   nodes, processed, excused>>

Sync == Load \/ Poll \/ Nodes \/ Link \/ Save \/ Backoff \/ Take \/ Tick \/ TailEnds
Reader == History \/ Receive

Next ==
    \/ \E e \in Events : Store(e) \/ Broadcast(e)
    \/ Sync \/ Reader \/ Break \/ Crash \/ Corrupt

Spec == Init /\ [][Next]_vars

\* The two goroutines run, and so does the handler; an event that was accepted
\* is broadcast.
FairSpec ==
    /\ Spec /\ WF_vars(Sync) /\ WF_vars(Reader)
    /\ \A e \in Events : WF_vars(e \in stored /\ Broadcast(e))

-----------------------------------------------------------------------------
TypeOK ==
    /\ world \in Worlds
    /\ {stored, sent, batch, work, nodes, processed, excused} \subseteq SUBSET Events
    /\ {history, stream, inbox} \subseteq Seq(Events)
    /\ Len(stream) <= StreamSize /\ Len(history) <= HistoryLimit /\ Len(inbox) <= BufferSize
    /\ tail \in {"off", "subscribed", "on", "broken"}
    /\ pc \in {"load", "poll", "nodes", "link", "save", "tail", "backoff", "halted"}
    /\ from \in {"poll", "more", "tail", "last"}
    /\ cursor \in Cursors /\ recovered \in BOOLEAN
    /\ main \in Cursors \cup {Absent, Bad} /\ backup \in Cursors \cup {Absent}

Reached(c) == {e \in stored : ~After(e, c)}
OnDisk == (IF main \in Cursors THEN Reached(main) ELSE {})
          \cup (IF backup \in Cursors THEN Reached(backup) ELSE {})

\* The cursor, in memory or in either file, does not pass a stored event that
\* was not processed, except one that came after a later one, was cut from a
\* page within its timestamp, did not fit in the tail, or was broadcast before
\* the tail was open and stored after its history was read; whatever fails,
\* breaks or restarts in between.
CursorCovers == Reached(cursor) \cup OnDisk \subseteq processed \cup excused

\* What stops the sync for good: a cursor file it cannot read, an invalid
\* event, or an event whose trace has events behind it.
Stuck ==
    \/ main = Bad
    \/ stored \cap world.invalid # {}
    \/ \E e, d \in stored :
          /\ world.trace[e] = world.trace[d] /\ world.trace[e] # Untraced
          /\ d \notin nodes /\ e \notin processed

CaughtUp == stored \subseteq processed \cup excused

\* Unless it is stuck for good, Cortex ends with every stored event processed
\* that does not fall under the exceptions of CursorCovers, over the poll or the
\* tail.
CatchesUp == <>[]Stuck \/ <>[]CaughtUp

\* After "Collector cursor was corrupt; recovered from backup" the events
\* behind the cursor are processed.
RecoveredCatchesUp ==
    \A e \in Events : (recovered /\ e \in stored) ~> (e \in processed \cup excused)

=============================================================================
