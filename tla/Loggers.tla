------------------------------- MODULE Loggers -------------------------------
(***************************************************************************)
(* The loggers of a Go program: src/core/logger.go with the sinks of       *)
(* standard_sinks.go.  Goroutines emit events through the default logger   *)
(* or one they hold, while the program derives children, replaces the      *)
(* default and shuts loggers down.  Loggers share sinks, and with them the *)
(* arrays behind their lists of sinks: WithSink appends in place when the  *)
(* array has room.                                                         *)
(*                                                                         *)
(* A pipeline is a set of events here (its queue and workers are those of  *)
(* module Pipeline).  A rotating file takes an event at once, and refuses  *)
(* it once it is closed.  A file sink writes to a buffer that only a flush *)
(* empties.  A batch sink buffers what a goroutine writes, sends at once   *)
(* what a worker writes, and when closed stops its ticker only.  Failures  *)
(* of an open sink and the fallback sink are left out.                     *)
(***************************************************************************)
EXTENDS Integers, Sequences, FiniteSets, SequencesExt

CONSTANTS
    Events,         \* one goroutine each
    Batch,          \* the sinks that batch
    Files,          \* the sinks with a buffer; the others are rotating files
    First,          \* array of the first logger's sinks, "none" where it has room
    Spare,          \* sinks for children and new configurations
    MaxOps          \* how often the program changes something

VARIABLES
    async,          \* whether loggers have a pipeline
    arrays,         \* backing arrays of the lists of sinks
    loggers,        \* sequence of loggers
    default,        \* defaultLog
    open, written, held,        \* per sink
    pc, hand, result,           \* per event: its step, its logger, what Emit said
    program,        \* what the program does: its step, the logger, the sinks to close
    ops,
    wanted,         \* history: the sinks each logger was made with
    shut,           \* history: the loggers shut down, or being shut down
    retired,        \* history: those the program shut down by itself
    late,           \* history: events whose logger was shut down before they got to it
    displaced,      \* history: sinks a WithSink of a sibling wrote over
    closers,        \* history: the loggers that closed a sink, or are about to
    refused         \* history: the closed sinks that refused an event of an Emit

vars == <<async, arrays, loggers, default, open, written, held, pc, hand, result,
          program, ops, wanted, shut, retired, late, displaced, closers, refused>>
sinkVars == <<open, written, held>>
emitVars == <<pc, hand, result, late, refused>>

AllSinks == {s \in Range(First) \cup Spare : s # "none"}
Buffering == Batch \cup Files
Loggers == DOMAIN loggers
Idle == [at |-> "idle", logger |-> 0, rest |-> <<>>]

-----------------------------------------------------------------------------
(* Lists of sinks.                                                         *)

Listed(slice) == SubSeq(arrays[slice.array], 1, slice.len)
Room(slice) == Len(arrays[slice.array]) - slice.len

\* append: in place, or in a new array of twice the size.
Appended(slice, s) ==
    IF Room(slice) > 0 THEN [arrays EXCEPT ![slice.array][slice.len + 1] = s]
    ELSE Append(arrays, Listed(slice) \o <<s>> \o [i \in 1 .. slice.len - 1 |-> "none"])

AppendedSlice(slice, s) ==
    IF Room(slice) > 0 THEN [slice EXCEPT !.len = @ + 1]
    ELSE [array |-> Len(arrays) + 1, len |-> slice.len + 1]

\* What append writes over.
Under(slice) == IF Room(slice) > 0 THEN {arrays[slice.array][slice.len + 1]} \ {"none"} ELSE {}

\* New: a pipeline copies the list when it is made.
Made(slice, listed) == [sinks |-> slice, copy |-> listed, up |-> TRUE, queue |-> {}]

Init ==
    /\ async \in BOOLEAN
    /\ arrays = <<First>>
    /\ \E n \in 0 .. Len(First) :
          /\ \A i \in DOMAIN First : First[i] # "none" <=> i <= n
          /\ loggers = <<Made([array |-> 1, len |-> n], SubSeq(First, 1, n))>>
          /\ wanted = <<Range(SubSeq(First, 1, n))>>
    /\ default = 1
    /\ open = [s \in AllSinks |-> TRUE]
    /\ written = [s \in AllSinks |-> {}] /\ held = [s \in AllSinks |-> {}]
    /\ pc = [e \in Events |-> "new"] /\ hand = [e \in Events |-> 0]
    /\ result = [e \in Events |-> "none"]
    /\ program = Idle /\ ops = 0 /\ shut = {} /\ retired = {} /\ late = {}
    /\ displaced = {} /\ closers = [s \in AllSinks |-> {}] /\ refused = [e \in Events |-> {}]

-----------------------------------------------------------------------------
(* Emitting.                                                               *)

\* Default(), or a logger the goroutine was given.
Pick(e) ==
    /\ pc[e] = "new"
    /\ \E l \in {default} \cup (Loggers \ shut) :
          hand' = [hand EXCEPT ![e] = l]
    /\ pc' = [pc EXCEPT ![e] = "picked"]
    /\ late' = IF hand'[e] \in retired THEN late \cup {e} ELSE late
    /\ UNCHANGED <<async, arrays, loggers, default, sinkVars, result, refused, program,
                   ops, wanted, shut, retired, displaced, closers>>

\* WriteEvent of every sink on the list, closed or not, in one step; those that send
\* do not keep the event.
Written(e, sinks, sending) ==
    /\ written' = [s \in AllSinks |->
          IF s \in sinks /\ (s \in sending \/ (s \notin Buffering /\ open[s]))
          THEN written[s] \cup {e} ELSE written[s]]
    /\ held' = [s \in AllSinks |->
          IF s \in (sinks \cap Buffering) \ sending THEN held[s] \cup {e} ELSE held[s]]

\* Flush of some sinks; the file of a closed one takes nothing.
Flushed(sinks) ==
    LET able == {s \in sinks : open[s] \/ s \in Batch} IN
    /\ written' = [s \in AllSinks |->
          IF s \in able THEN written[s] \cup held[s] ELSE written[s]]
    /\ held' = [s \in AllSinks |-> IF s \in able THEN {} ELSE held[s]]

Emit(e) ==
    LET l == hand[e]
        sinks == Range(Listed(loggers[l].sinks)) IN
    /\ pc[e] = "picked"
    /\ pc' = [pc EXCEPT ![e] = "done"]
    /\ IF async
       THEN /\ loggers' = IF loggers[l].up THEN [loggers EXCEPT ![l].queue = @ \cup {e}] ELSE loggers
            /\ result' = [result EXCEPT ![e] = IF loggers[l].up THEN "ok" ELSE "error"]
            /\ UNCHANGED <<written, held, refused>>
       ELSE /\ Written(e, sinks, {})
            /\ refused' = [refused EXCEPT ![e] = {s \in sinks \ Buffering : ~ open[s]}]
            /\ result' = [result EXCEPT ![e] = IF refused'[e] = {} THEN "ok" ELSE "error"]
            /\ UNCHANGED loggers
    /\ UNCHANGED <<async, arrays, default, open, hand, program, ops, wanted, shut,
                   retired, late, displaced, closers>>

\* A worker: WriteBatch of a batch sink sends, closed or not.
Work(l) ==
    /\ \E e \in loggers[l].queue :
          /\ loggers' = [loggers EXCEPT ![l].queue = @ \ {e}]
          /\ Written(e, Range(loggers[l].copy), Batch)
    /\ UNCHANGED <<async, arrays, default, open, emitVars, program, ops, wanted, shut,
                   retired, displaced, closers>>

\* The ticker of a batch sink.
Tick(s) ==
    /\ s \in Batch /\ open[s] /\ held[s] # {}
    /\ Flushed({s})
    /\ UNCHANGED <<async, arrays, loggers, default, open, emitVars, program, ops, wanted,
                   shut, retired, displaced, closers>>

-----------------------------------------------------------------------------
(* The program.                                                            *)

Free == AllSinks \ UNION {wanted[l] : l \in Loggers}

\* Child(WithSink(s)) of a logger.
Child ==
    /\ program.at = "idle" /\ ops < MaxOps
    /\ ops' = ops + 1
    /\ \E l \in Loggers, s \in Free :
          LET slice == AppendedSlice(loggers[l].sinks, s) IN
          /\ arrays' = Appended(loggers[l].sinks, s)
          /\ loggers' = Append(loggers, Made(slice, SubSeq(arrays'[slice.array], 1, slice.len)))
          /\ wanted' = Append(wanted, wanted[l] \cup {s})
          /\ displaced' = displaced \cup Under(loggers[l].sinks)
    /\ UNCHANGED <<async, default, sinkVars, emitVars, program, shut, retired, closers>>

\* Configure with a sink of its own: New, the new logger in the place of the old one,
\* and the old one shut down.
Configure ==
    /\ program.at = "idle" /\ ops < MaxOps
    /\ ops' = ops + 1
    /\ \E s \in Free :
          /\ arrays' = Append(arrays, <<s>>)
          /\ loggers' = Append(loggers, Made([array |-> Len(arrays) + 1, len |-> 1], <<s>>))
          /\ wanted' = Append(wanted, {s})
    /\ program' = [at |-> "put", logger |-> Len(loggers) + 1, rest |-> <<>>]
    /\ UNCHANGED <<async, default, sinkVars, emitVars, shut, retired, displaced, closers>>

\* Mutant: the old logger stays the default.
Put_Not ==
    /\ program.at = "put"
    /\ program' = [program EXCEPT !.at = "stop", !.logger = default]
    /\ UNCHANGED <<async, arrays, loggers, default, sinkVars, emitVars, ops, wanted, shut,
                   retired, displaced, closers>>

Put ==
    /\ program.at = "put"
    /\ default' = program.logger
    /\ program' = [program EXCEPT !.at = "stop", !.logger = default]
    /\ UNCHANGED <<async, arrays, loggers, sinkVars, emitVars, ops, wanted, shut, retired,
                   displaced, closers>>

Shutdown ==
    /\ program.at = "idle" /\ ops < MaxOps
    /\ ops' = ops + 1
    /\ \E l \in Loggers \ shut :
          /\ program' = [at |-> "stop", logger |-> l, rest |-> <<>>]
          /\ retired' = retired \cup {l}
    /\ UNCHANGED <<async, arrays, loggers, default, sinkVars, emitVars, wanted, shut,
                   displaced, closers>>

SetDefault ==
    /\ program.at = "idle" /\ ops < MaxOps
    /\ ops' = ops + 1
    /\ default' \in Loggers \ (shut \cup {default})
    /\ UNCHANGED <<async, arrays, loggers, sinkVars, emitVars, program, wanted, shut,
                   retired, displaced, closers>>

\* Flush of a logger, when its pipeline is empty: the sinks of its list.
Flush(l) ==
    /\ program.at = "idle" /\ loggers[l].queue = {}
    /\ Flushed(Range(Listed(loggers[l].sinks)))
    /\ UNCHANGED <<async, arrays, loggers, default, open, emitVars, program, ops, wanted,
                   shut, retired, displaced, closers>>

\* Shutdown: the pipeline takes no more.
Stop ==
    LET l == program.logger IN
    /\ program.at = "stop"
    /\ program' = [program EXCEPT !.at = "drain"]
    /\ loggers' = [loggers EXCEPT ![l].up = FALSE]
    /\ shut' = shut \cup {l}
    /\ late' = late \cup {e \in Events : pc[e] = "picked" /\ hand[e] = l}
    /\ UNCHANGED <<async, arrays, default, sinkVars, pc, hand, result, refused, ops, wanted,
                   retired, displaced, closers>>

\* Mutant: nobody waits.
Drained_Early(l) == TRUE

\* What a Shutdown waits for before it closes the sinks.
Drained(l) == loggers[l].queue = {}

\* The sinks that are closed, one after the other: as the list has them by now.
Drain ==
    /\ program.at = "drain" /\ Drained(program.logger)
    /\ LET l == program.logger
           listed == Listed(loggers[l].sinks) IN
          /\ program' = [program EXCEPT !.at = "close", !.rest = listed]
          /\ closers' = [s \in AllSinks |->
                IF s \in Range(listed) THEN closers[s] \cup {l} ELSE closers[s]]
    /\ UNCHANGED <<async, arrays, loggers, default, sinkVars, emitVars, ops, wanted, shut,
                   retired, displaced>>

\* The five seconds of Configure, or the caller's deadline: the sinks stay open.
Expire ==
    /\ program.at = "drain" /\ ~Drained(program.logger)
    /\ program' = Idle
    /\ UNCHANGED <<async, arrays, loggers, default, sinkVars, emitVars, ops, wanted, shut,
                   retired, displaced, closers>>

Close ==
    /\ program.at = "close"
    /\ IF program.rest = <<>>
       THEN program' = Idle /\ UNCHANGED sinkVars
       ELSE LET s == Head(program.rest) IN
            /\ open' = [open EXCEPT ![s] = FALSE]
            /\ Flushed({s})
            /\ program' = [program EXCEPT !.rest = Tail(@)]
    /\ UNCHANGED <<async, arrays, loggers, default, emitVars, ops, wanted, shut, retired,
                   displaced, closers>>

Next ==
    \/ \E e \in Events : Pick(e) \/ Emit(e)
    \/ \E l \in Loggers : Work(l) \/ Flush(l)
    \/ \E s \in AllSinks : Tick(s)
    \/ Child \/ Configure \/ Put \/ Shutdown \/ SetDefault \/ Stop \/ Drain \/ Expire \/ Close

\* Configure and Shutdown have a deadline.
Replacing == Put \/ Stop \/ Drain \/ Expire \/ Close

\* Workers and tickers run, and an Emit and a Configure go on.
Spec ==
    /\ Init /\ [][Next]_vars
    /\ \A l \in 1 .. MaxOps + 1 : WF_vars(l \in Loggers /\ Work(l))
    /\ \A s \in AllSinks : WF_vars(Tick(s))
    /\ \A e \in Events : WF_vars(Emit(e))
    /\ WF_vars(Replacing)

-----------------------------------------------------------------------------
TypeOK ==
    /\ default \in Loggers /\ ops \in 0 .. MaxOps
    /\ \A l \in Loggers : loggers[l].sinks.len <= Len(arrays[loggers[l].sinks.array])
    /\ \A s \in AllSinks : written[s] \subseteq Events /\ held[s] \subseteq Events
    /\ program.at \in {"idle", "put", "stop", "drain", "close"}

\* A sink that the shutdown of another logger closed, or is about to.
SharedAndClosed(l, s) == closers[s] \ {l} # {}

\* A sink of a logger that a sibling's took the place of, in its list or in the one it
\* was derived from.  A pipeline has the list of the time it was made.
Overwritten(l, s) ==
    s \in displaced \ Range(IF async THEN loggers[l].copy ELSE Listed(loggers[l].sinks))

\* An event whose Emit returned nil is, in every sink its logger was made with,
\* written, in an open sink's buffer, or in the pipeline: whichever logger was the
\* default in between, and whoever replaced it.  Excepted are the events of a logger
\* that was shut down when they got to it, sinks another logger closed, and sinks a
\* sibling's WithSink wrote over.
EmittedIsKept ==
    \A e \in Events : result[e] = "ok" /\ e \notin late =>
        LET l == hand[e] IN
        \A s \in wanted[l] :
            \/ e \in written[s] \cup loggers[l].queue
            \/ e \in held[s] /\ open[s]
            \/ SharedAndClosed(l, s)
            \/ Overwritten(l, s)

\* And Emit returns an error only to a goroutine that had its logger before it was
\* shut down, or for a sink another logger closed: Configure refuses nobody.
NoneRefused ==
    \A e \in Events : result[e] = "error" /\ e \notin late =>
        \E s \in refused[e] : SharedAndClosed(hand[e], s)

\* Every event a logger took gets out of its pipeline, also while it is shut down, and
\* out of the buffer of a batch sink that nobody closed.
Settled ==
    /\ \A l \in Loggers : loggers[l].queue = {}
    /\ \A s \in Batch : open[s] => held[s] = {}

=============================================================================
