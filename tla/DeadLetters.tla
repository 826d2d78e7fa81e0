---------------------------- MODULE DeadLetters ----------------------------
(***************************************************************************)
(* The collector's dead-letter file (internal/processing/processor.go and  *)
(* cmd/loza-collector/control_handlers.go): the processor appends to a     *)
(* descriptor it opened once, while a DELETE request reads the file, writes *)
(* what is left to a temporary file and renames that over it.  Files are   *)
(* inodes with names; a record takes one cell, and a write past the end    *)
(* leaves holes.  Crashes are of the process, not of the machine.          *)
(***************************************************************************)
EXTENDS Integers, Sequences, FiniteSets

CONSTANTS
    MaxEvents,   \* events whose delivery fails, in this order
    Requests,    \* DELETE requests
    Inodes,      \* at least 3 more than Requests: names and open descriptors
    Bounds       \* records [crash, reload, replay, fault]: how often each happens

NoId == -1
Hole == [event |-> -1, id |-> NoId]
Garbled == 0
Free == 0
Events == 1 .. MaxEvents

VARIABLES
    content,     \* [Inodes -> cells]
    dlq, tmp,    \* the inodes under the two names, Free when there is none
    out,         \* the inode the processor has open
    pc, want,    \* of a request: its control state, the record it was shown
    rest, fd,    \* the records it keeps, the temporary file it has open
    at,          \* its offset in that file
    written,     \* history: the events the processor wrote
    deleted,     \* history: events whose own record a request matched
    gone,        \* history: of these, those it answered 200 for, alone
    excused,     \* history: events that may be missing, see Kept
    late,        \* history: events with a record written after a delete
    budget

files == <<content, dlq, tmp>>
requests == <<pc, want, rest, fd, at>>
history == <<written, deleted, gone, excused, late>>
vars == <<files, out, requests, history, budget>>

\* What readDLQRecords makes of the cells: a hole has no newline, so it spoils
\* the line after it; a record without dlq_id is named by its position.
Shown(cells) ==
    LET lines == {i \in DOMAIN cells : cells[i] # Hole}
        Nth(n) == CHOOSE i \in lines : Cardinality({j \in lines : j < i}) = n - 1
        Record(n) ==
            LET i == Nth(n)
            IN [event |-> IF i > 1 /\ cells[i - 1] = Hole THEN Garbled ELSE cells[i].event,
                id    |-> IF cells[i].id = NoId THEN n - 1 ELSE cells[i].id]
    IN [n \in 1 .. Cardinality(lines) |-> Record(n)]

EventsIn(records) == {records[n].event : n \in DOMAIN records}
InFile == EventsIn(Shown(content[dlq]))

Matches(records, id) == SelectSeq(records, LAMBDA r : r.id = id)

\* Mutant: the records that stay are written as they were read, without ids.
Remaining_NoIds(records, id) ==
    LET kept == SelectSeq(records, LAMBDA r : r.id # id)
    IN [n \in DOMAIN kept |-> [kept[n] EXCEPT !.id = NoId]]

Remaining(records, id) == SelectSeq(records, LAMBDA r : r.id # id)

\* A request has read the file and has not finished to replace it.
Rewriting(r) == pc[r] \in {"open", "write"}

Init ==
    /\ content = [i \in Inodes |-> <<>>]
    /\ dlq = CHOOSE i \in Inodes : TRUE
    /\ out = dlq
    /\ tmp = Free
    /\ pc = [r \in Requests |-> "new"]
    /\ want = [r \in Requests |-> Hole]
    /\ rest = [r \in Requests |-> <<>>]
    /\ fd = [r \in Requests |-> Free]
    /\ at = [r \in Requests |-> 0]
    /\ written = {} /\ deleted = {} /\ gone = {} /\ excused = {}
    /\ late = {}
    /\ budget \in Bounds

-----------------------------------------------------------------------------
\* The processor.

\* A line goes to the end of the file the processor has open, whatever its
\* name.  It may never be found when that file is no longer the named one, or
\* when a request has already read it.
Missed == out # dlq \/ \E r \in Requests : Rewriting(r)

Line(e) ==
    /\ content' = [content EXCEPT ![out] = Append(@, [event |-> e, id |-> NoId])]
    /\ late' = IF deleted # {} THEN late \cup {e} ELSE late
    /\ gone' = gone \ {e}

WriteDLQ(e) ==
    /\ e = Cardinality(written) + 1
    /\ Line(e)
    /\ written' = written \cup {e}
    /\ excused' = IF Missed THEN excused \cup {e} ELSE excused
    /\ UNCHANGED <<dlq, tmp, out, requests, deleted, budget>>

\* The write and its retries fail: it is counted and printed.
WriteFails(e) ==
    /\ e = Cardinality(written) + 1
    /\ budget.fault > 0
    /\ budget' = [budget EXCEPT !.fault = @ - 1]
    /\ written' = written \cup {e}
    /\ excused' = excused \cup {e}
    /\ UNCHANGED <<files, out, requests, deleted, gone, late>>

\* A replay gives the record's event to the ingest path and leaves the record;
\* when the delivery fails again there is one record more.
ReplayFails(e) ==
    /\ e \in Events \cap InFile
    /\ budget.replay > 0
    /\ budget' = [budget EXCEPT !.replay = @ - 1]
    /\ Line(e)
    /\ UNCHANGED <<dlq, tmp, out, requests, written, deleted, excused>>

\* New opens the name, and never empties it.
Opened == out' = dlq

\* After a reload the next event makes a new processor; the old one is closed.
Reload ==
    /\ budget.reload > 0
    /\ budget' = [budget EXCEPT !.reload = @ - 1]
    /\ Opened
    /\ UNCHANGED <<files, requests, history>>

\* A crash and the restart: the requests are gone, the temporary file is not.
Crash ==
    /\ budget.crash > 0
    /\ budget' = [budget EXCEPT !.crash = @ - 1]
    /\ Opened
    /\ pc' = [r \in Requests |-> IF pc[r] = "new" THEN "new" ELSE "done"]
    /\ want' = [r \in Requests |-> Hole]
    /\ rest' = [r \in Requests |-> <<>>]
    /\ fd' = [r \in Requests |-> Free]
    /\ at' = [r \in Requests |-> 0]
    /\ UNCHANGED <<files, history>>

-----------------------------------------------------------------------------
\* handleDLQList and handleDLQDelete.

\* Someone lists the file and asks for one of the records.
Ask(r) ==
    /\ pc[r] = "new"
    /\ \E n \in DOMAIN Shown(content[dlq]) :
          want' = [want EXCEPT ![r] = Shown(content[dlq])[n]]
    /\ pc' = [pc EXCEPT ![r] = "asked"]
    /\ UNCHANGED <<files, out, rest, fd, at, history, budget>>

\* Every record with the id is left out.  A record that was written since a
\* delete takes the id of its position, which another may have or have had.
Read(r) ==
    LET records == Shown(content[dlq])
        matched == EventsIn(Matches(records, want[r].id))
    IN /\ pc[r] = "asked"
       /\ matched # {}
       /\ pc' = [pc EXCEPT ![r] = "open"]
       /\ rest' = [rest EXCEPT ![r] = Remaining(records, want[r].id)]
       /\ deleted' = deleted \cup (matched \cap {want[r].event})
       /\ excused' = IF matched \cap late # {} THEN excused \cup matched ELSE excused
       /\ UNCHANGED <<files, out, want, fd, at, written, gone, late, budget>>

NotFound(r) ==
    /\ pc[r] = "asked"
    /\ Matches(Shown(content[dlq]), want[r].id) = <<>>
    /\ pc' = [pc EXCEPT ![r] = "done"]
    /\ want' = [want EXCEPT ![r] = Hole]
    /\ UNCHANGED <<files, out, rest, fd, at, history, budget>>

\* O_CREATE and O_TRUNC: a temporary file that is there already, of another
\* request or from before a crash, is emptied.  Two requests that share one
\* write over each other's records, also when one of them has renamed it.
Unused == Inodes \ ({dlq, tmp, out} \cup {fd[r] : r \in Requests})

\* Mutant: the file is rewritten in place.
TmpFile_InPlace == dlq

TmpFile == IF tmp # Free THEN tmp ELSE CHOOSE u \in Unused : TRUE

\* Mutant: without O_TRUNC.
Emptied_Not(i) == content

Emptied(i) == [content EXCEPT ![i] = <<>>]

OpenTmp(r) ==
    LET i == TmpFile
    IN /\ pc[r] = "open"
       /\ tmp' = i
       /\ content' = Emptied(i)
       /\ fd' = [fd EXCEPT ![r] = i]
       /\ at' = [at EXCEPT ![r] = 0]
       /\ pc' = [pc EXCEPT ![r] = "write"]
       /\ excused' = IF \E o \in Requests : fd[o] = i THEN excused \cup written ELSE excused
       /\ UNCHANGED <<dlq, out, want, rest, written, deleted, gone, late, budget>>

\* One record at the descriptor's own offset.
PutAt(cells, n, record) ==
    [i \in 1 .. (IF n > Len(cells) THEN n ELSE Len(cells)) |->
        IF i = n THEN record ELSE IF i <= Len(cells) THEN cells[i] ELSE Hole]

WriteRecord(r) ==
    /\ pc[r] = "write"
    /\ at[r] < Len(rest[r])
    /\ content' = [content EXCEPT ![fd[r]] = PutAt(@, at[r] + 1, rest[r][at[r] + 1])]
    /\ at' = [at EXCEPT ![r] = @ + 1]
    /\ UNCHANGED <<dlq, tmp, out, pc, want, rest, fd, history, budget>>

Finish(r) ==
    /\ pc' = [pc EXCEPT ![r] = "done"]
    /\ want' = [want EXCEPT ![r] = Hole]
    /\ rest' = [rest EXCEPT ![r] = <<>>]
    /\ fd' = [fd EXCEPT ![r] = Free]
    /\ at' = [at EXCEPT ![r] = 0]

\* A write fails: the temporary file stays where it is, and so does the other.
RewriteFails(r) ==
    /\ pc[r] = "write" /\ at[r] < Len(rest[r])
    /\ budget.fault > 0
    /\ budget' = [budget EXCEPT !.fault = @ - 1]
    /\ Finish(r)
    /\ UNCHANGED <<files, out, history>>

\* The processor goes on with the file that has lost its name.
Rename(r) ==
    /\ pc[r] = "write"
    /\ at[r] = Len(rest[r])
    /\ tmp # Free
    /\ dlq' = tmp
    /\ tmp' = Free
    /\ gone' = IF \E o \in Requests \ {r} : Rewriting(o) THEN gone
               ELSE gone \cup ({want[r].event} \ EventsIn(rest[r]))
    /\ Finish(r)
    /\ UNCHANGED <<content, out, written, deleted, excused, late, budget>>

\* Another request has renamed the file they share: 500, although what this
\* one wrote is in place.
RenameFails(r) ==
    /\ pc[r] = "write"
    /\ at[r] = Len(rest[r])
    /\ tmp = Free
    /\ Finish(r)
    /\ UNCHANGED <<files, out, history, budget>>

Next ==
    \/ \E e \in Events : WriteDLQ(e) \/ WriteFails(e) \/ ReplayFails(e)
    \/ \E r \in Requests :
          \/ Ask(r) \/ Read(r) \/ NotFound(r) \/ OpenTmp(r) \/ WriteRecord(r)
          \/ Rename(r) \/ RenameFails(r) \/ RewriteFails(r)
    \/ Reload \/ Crash

Spec == Init /\ [][Next]_vars

-----------------------------------------------------------------------------
TypeOK ==
    /\ dlq \in Inodes /\ tmp \in Inodes \cup {Free} /\ out \in Inodes
    /\ \A i \in Inodes : \A c \in DOMAIN content[i] :
          content[i][c].event \in Events \cup {Garbled, Hole.event}
    /\ \A r \in Requests :
          /\ pc[r] \in {"new", "asked", "open", "write", "done"}
          /\ fd[r] \in Inodes \cup {Free}
          /\ (pc[r] = "write") = (fd[r] # Free)
          /\ at[r] <= Len(rest[r])
    /\ deleted \cup gone \cup excused \cup late \subseteq written \cup {Garbled}

\* A dead letter stays under the name until its own record is deleted, through
\* crashes, reloads, failed replays and deletes that run at the same time.
\* Excused is what was written while a request was about to replace the file,
\* what was written after that to the file without a name (until the next
\* reload), what a later delete took for another record, and the whole file
\* when two requests share the temporary file.
Kept == \A e \in written \ (excused \cup deleted) : e \in InFile

\* A record whose delete was answered 200, with no other delete under way, does
\* not come back, unless its event fails again.
DeletedIsGone == \A e \in gone \ excused : e \notin InFile

=============================================================================
