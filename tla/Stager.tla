------------------------------- MODULE Stager -------------------------------
(***************************************************************************)
(* The stager (spec/services/stager.py, kafka_adapter.py,                  *)
(* queue_prototype.py): it takes messages from a queue, writes each to a   *)
(* staging file of its own and acknowledges it; what it cannot stage or    *)
(* read goes to a dead-letter queue.  The queue is a directory with one    *)
(* file per message or one partition of a Kafka topic.                     *)
(***************************************************************************)
EXTENDS Integers, FiniteSets

CONSTANTS
    Kinds,        \* "local", "kafka"
    MaxMessage,   \* messages 1 .. MaxMessage are produced, in this order
    Unreadable,   \* sets of messages that are not JSON: one is chosen
    BatchSize,
    MaxAttempts,  \* max_attempts of the retry policy, at least 1
    Bounds        \* records [fault, crash]: how often each happens

Messages == 1 .. MaxMessage
None == 0

VARIABLES
    kind, unreadable,
    produced,    \* the last message that was produced
    partial,     \* the last file is not written to its end yet
    removed,     \* local: messages whose file is gone
    committed,   \* kafka: the last message the group has committed
    position,    \* kafka: the last message the consumer has polled
    pc,
    listing,     \* local: the files this batch has still to read
    yielded,     \* kafka: messages this batch has given to the loop
    hand,        \* the message in work
    attempts,    \* attempts to stage it
    tries,       \* attempts to send it to the dead letters
    staged,      \* [Messages -> number of its staging files]
    letters,     \* [Messages -> number of its dead letters]
    skipped,     \* history: messages whose dead letter could not be sent
    repeated,    \* history: messages a failure or a crash may repeat
    budget

source == <<kind, unreadable>>
queue == <<removed, committed>>
reading == <<position, listing, yielded>>
work == <<hand, attempts, tries>>
output == <<staged, letters>>
history == <<skipped, repeated>>
vars == <<source, produced, partial, queue, pc, reading, work, output, history,
          budget>>

Init ==
    /\ kind \in Kinds
    /\ unreadable \in Unreadable
    /\ produced = 0 /\ partial = FALSE
    /\ removed = {} /\ committed = 0 /\ position = 0
    /\ pc = "idle"
    /\ listing = {} /\ yielded = 0
    /\ hand = None /\ attempts = 0 /\ tries = 0
    /\ staged = [m \in Messages |-> 0]
    /\ letters = [m \in Messages |-> 0]
    /\ skipped = {} /\ repeated = {}
    /\ budget \in Bounds

Fault ==
    /\ budget.fault > 0
    /\ budget' = [budget EXCEPT !.fault = @ - 1]

\* The queue will not give the message out again.
Done(m) == IF kind = "local" THEN m \in removed ELSE m <= committed

-----------------------------------------------------------------------------
\* A producer writes the file of a message in place, in two steps; a record of
\* Kafka is there or not.
Produce ==
    /\ IF partial THEN /\ partial' = FALSE
                       /\ UNCHANGED produced
       ELSE /\ produced < MaxMessage
            /\ produced' = produced + 1
            /\ partial' = (kind = "local")
    /\ UNCHANGED <<source, queue, pc, reading, work, output, history, budget>>

-----------------------------------------------------------------------------
\* Reading a batch.

\* The names begin with the time: the oldest files come first, whatever they
\* hold.
Oldest ==
    LET files == (1 .. produced) \ removed
    IN {m \in files : Cardinality({k \in files : k < m}) < BatchSize}

\* Begin a call of stage_events.
Consume ==
    /\ pc = "idle"
    /\ pc' = "poll"
    /\ listing' = IF kind = "local" THEN Oldest ELSE {}
    /\ yielded' = 0
    /\ UNCHANGED <<source, produced, partial, queue, position, work, output,
                   history, budget>>

Take(m) ==
    /\ hand' = m
    /\ attempts' = 1
    /\ tries' = 0
    /\ pc' = "stage"

\* Mutant: a file that cannot be read is removed, although its writer may not
\* have finished.
Skip_Removes(m) == removed' = removed \cup {m}

\* A file that is not JSON, not JSON yet, or gone, is skipped and stays.
Skip(m) == UNCHANGED removed

ReadFile ==
    /\ pc = "poll" /\ kind = "local"
    /\ \/ /\ listing = {}
          /\ pc' = "idle"
          /\ UNCHANGED <<removed, listing, work>>
       \/ \E m \in listing :
             /\ \A k \in listing : m <= k
             /\ listing' = listing \ {m}
             /\ IF m \in unreadable \/ (partial /\ m = produced)
                THEN /\ Skip(m)
                     /\ UNCHANGED <<pc, work>>
                ELSE /\ Take(m)
                     /\ UNCHANGED removed
    /\ UNCHANGED <<source, produced, partial, committed, position, yielded,
                   output, history, budget>>

\* A poll gives the next record.  One that is not JSON is a dead letter, from
\* within the reader.
Poll ==
    /\ pc = "poll" /\ kind = "kafka"
    /\ yielded < BatchSize /\ position < produced
    /\ position' = position + 1
    /\ IF position' \in unreadable
       THEN /\ hand' = position'
            /\ attempts' = 0 /\ tries' = 1
            /\ pc' = "dlq"
            /\ UNCHANGED yielded
       ELSE /\ Take(position')
            /\ yielded' = yielded + 1
    /\ UNCHANGED <<source, produced, partial, queue, listing, output, history,
                   budget>>

\* The batch is full, or the poll has waited long enough.
PollEnds ==
    /\ pc = "poll" /\ kind = "kafka"
    /\ pc' = "idle"
    /\ UNCHANGED <<source, produced, partial, queue, reading, work, output,
                   history, budget>>

-----------------------------------------------------------------------------
\* Staging a message.

\* The next attempt, or the dead letters when there was none left.
Retried ==
    IF attempts < MaxAttempts
    THEN /\ attempts' = attempts + 1
         /\ pc' = "stage"
         /\ UNCHANGED tries
    ELSE /\ tries' = 1
         /\ pc' = "dlq"
         /\ UNCHANGED attempts

\* A new file, under a name no other has, appears whole.
Stage ==
    /\ pc = "stage"
    /\ staged' = [staged EXCEPT ![hand] = @ + 1]
    /\ pc' = "ack"
    /\ UNCHANGED <<source, produced, partial, queue, reading, work, letters,
                   history, budget>>

StageFails ==
    /\ pc = "stage"
    /\ Fault
    /\ Retried
    /\ UNCHANGED <<source, produced, partial, queue, reading, hand, output,
                   history>>

\* Mutant: whatever has been polled is committed.
Acked_Position(m) ==
    IF kind = "local" THEN removed' = removed \cup {m} /\ UNCHANGED committed
    ELSE committed' = position + 1 /\ UNCHANGED removed

\* The file is removed, or the offset after the record is committed.
Acked(m) ==
    IF kind = "local" THEN removed' = removed \cup {m} /\ UNCHANGED committed
    ELSE committed' = m /\ UNCHANGED removed

\* The message leaves the queue: staged, or as a dead letter.
Ack ==
    /\ pc \in {"ack", "dlqAck"}
    /\ Acked(hand)
    /\ pc' = "poll"
    /\ hand' = None /\ attempts' = 0 /\ tries' = 0
    /\ UNCHANGED <<source, produced, partial, reading, output, history, budget>>

\* A file that cannot be removed is passed over in silence.  A commit that fails
\* is an attempt that failed: the message is staged again.  After a dead letter
\* it ends the message, or, from within the reader, the process.
AckFails ==
    /\ pc \in {"ack", "dlqAck"}
    /\ Fault
    /\ repeated' = repeated \cup {hand}
    /\ \/ /\ kind = "kafka" /\ pc = "ack"
          /\ Retried
          /\ UNCHANGED hand
       \/ /\ kind = "kafka" => pc = "dlqAck"
          /\ pc' = IF kind = "kafka" /\ attempts = 0 THEN "down" ELSE "poll"
          /\ hand' = None /\ attempts' = 0 /\ tries' = 0
    /\ UNCHANGED <<source, produced, partial, queue, reading, output, skipped>>

-----------------------------------------------------------------------------
\* The dead letters.

SendToDLQ ==
    /\ pc = "dlq"
    /\ letters' = [letters EXCEPT ![hand] = @ + 1]
    /\ pc' = "dlqAck"
    /\ UNCHANGED <<source, produced, partial, queue, reading, work, staged,
                   history, budget>>

\* Mutant: a letter that could not be sent does not keep the message from being
\* acknowledged.
GiveUp_Acks ==
    /\ pc' = "dlqAck"
    /\ UNCHANGED <<work, skipped>>

\* The exception ends the message, which is left behind; from within the reader
\* it ends the process.
GiveUp ==
    /\ pc' = IF attempts = 0 THEN "down" ELSE "poll"
    /\ skipped' = IF attempts = 0 THEN skipped ELSE skipped \cup {hand}
    /\ hand' = None /\ attempts' = 0 /\ tries' = 0

\* The write to Kafka fails, or is not confirmed in time although the letter may
\* arrive; it is tried MaxAttempts times, and the file of a letter once.
SendFails ==
    /\ pc = "dlq"
    /\ Fault
    /\ \/ UNCHANGED <<letters, repeated>>
       \/ /\ kind = "kafka"
          /\ letters' = [letters EXCEPT ![hand] = @ + 1]
          /\ repeated' = repeated \cup {hand}
    /\ IF kind = "kafka" /\ tries < MaxAttempts
       THEN /\ tries' = tries + 1
            /\ UNCHANGED <<pc, hand, attempts, skipped>>
       ELSE GiveUp
    /\ UNCHANGED <<source, produced, partial, queue, reading, staged>>

-----------------------------------------------------------------------------
\* The process is killed; a poll that reports an error ends it too.
Crash ==
    /\ pc # "down"
    /\ budget.crash > 0
    /\ budget' = [budget EXCEPT !.crash = @ - 1]
    /\ pc' = "down"
    /\ repeated' = repeated \cup ({hand} \ {None})
    /\ hand' = None /\ attempts' = 0 /\ tries' = 0
    /\ UNCHANGED <<source, produced, partial, queue, reading, output, skipped>>

\* Mutant: the consumer begins at the first record again.
Restart_Earliest ==
    /\ pc = "down"
    /\ pc' = "idle"
    /\ position' = 0
    /\ listing' = {} /\ yielded' = 0
    /\ UNCHANGED <<source, produced, partial, queue, work, output, history,
                   budget>>

\* It is started again, from the committed offset.
Restart ==
    /\ pc = "down"
    /\ pc' = "idle"
    /\ position' = committed
    /\ listing' = {} /\ yielded' = 0
    /\ UNCHANGED <<source, produced, partial, queue, work, output, history,
                   budget>>

Worker ==
    \/ Consume \/ ReadFile \/ Poll
    \/ (position = produced \/ yielded = BatchSize) /\ PollEnds
    \/ Stage \/ Ack \/ SendToDLQ \/ Restart

Next ==
    \/ Produce \/ Consume \/ ReadFile \/ Poll \/ PollEnds \/ Stage \/ StageFails
    \/ Ack \/ AckFails \/ SendToDLQ \/ SendFails \/ Crash \/ Restart

\* The process runs and is restarted, polls that keep coming give the record that
\* is there, and producers finish the file they began.
Spec ==
    Init /\ [][Next]_vars /\ WF_vars(Worker) /\ SF_vars(Poll) /\ WF_vars(Produce)

-----------------------------------------------------------------------------
TypeOK ==
    /\ kind \in Kinds /\ unreadable \subseteq Messages
    /\ produced \in 0 .. MaxMessage /\ partial \in BOOLEAN
    /\ removed \subseteq Messages
    /\ committed \in 0 .. MaxMessage /\ position \in 0 .. MaxMessage
    /\ pc \in {"idle", "poll", "stage", "ack", "dlq", "dlqAck", "down"}
    /\ listing \subseteq Messages
    /\ yielded \in 0 .. BatchSize
    /\ hand \in Messages \cup {None}
    /\ attempts \in 0 .. MaxAttempts /\ tries \in 0 .. MaxAttempts
    /\ \A m \in Messages : staged[m] \in Nat /\ letters[m] \in Nat
    /\ skipped \subseteq Messages /\ repeated \subseteq Messages

\* A message the queue will not give out again is in a staging file or a dead
\* letter (stager.py, stage_events; kafka_adapter.py, consume).  The exception:
\* when the dead letter of a Kafka message cannot be sent, the loop goes on to
\* the next message, whose commit covers it.
DoneIsKept ==
    \A m \in Messages :
        Done(m) => \/ staged[m] + letters[m] > 0
                   \/ kind = "kafka" /\ m \in skipped

\* A message has one staging file or one dead letter, unless an acknowledgement
\* or the confirmation of a letter failed or the process died with it in hand:
\* the retry of a failed acknowledgement stages it again.  An unreadable message
\* is never staged.
OnceUnlessRepeated ==
    \A m \in Messages :
        /\ staged[m] + letters[m] > 1 => m \in repeated
        /\ staged[m] > 0 => m \notin unreadable

\* Every message leaves the queue, apart from files that are not JSON, from the
\* files behind BatchSize of those, and from the Kafka messages that were skipped
\* and have no commit after them.
Settled ==
    \A m \in 1 .. produced :
        \/ Done(m)
        \/ kind = "kafka" /\ m \in skipped
        \/ kind = "local" /\ m \in unreadable
        \/ kind = "local" /\ Cardinality(unreadable \cap (1 .. m)) >= BatchSize

EverythingLeaves == <>[]Settled
=============================================================================
