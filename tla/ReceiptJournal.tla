--------------------------- MODULE ReceiptJournal ---------------------------
(***************************************************************************)
(* The receipt journal of one assignment (worker/journal.rs): an append-   *)
(* only file of operation records, one <operation>.result file for each    *)
(* finished operation, and the copy of the records that the process keeps  *)
(* in memory under a mutex.                                                *)
(*                                                                         *)
(* The file is read last-writer-wins, so it is represented by what reading *)
(* it returns (log, cursor) and by the two ways it can be damaged: torn (an*)
(* unterminated last line, which open() cuts off) and corrupt (a complete  *)
(* line that does not parse, which open() refuses). The process can die in *)
(* the middle of every call and every write can fail; Faults says which    *)
(* failed writes the process outlives.                                     *)
(***************************************************************************)
EXTENDS Naturals, FiniteSets

CONSTANTS
    Ops,            \* operation ids of the assignment
    Effect,         \* what kind of operation each one is
    Fences,         \* fence tokens the server may issue
    Results,        \* what an execution may return
    NoResult,       \* the absence of a result
    MaxCursor,      \* bound on the operation sequence
    MaxRecords,     \* 4096 in the code
    CompactEvery,   \* 1024 in the code
    Faults          \* failed writes that do not end the process

ASSUME JournalAssumption ==
    /\ Effect \in [Ops -> {"read", "idempotent", "mutation"}]
    /\ Fences \subseteq Nat
    /\ NoResult \notin Results
    /\ MaxCursor \in Nat /\ MaxRecords \in Nat /\ CompactEvery \in Nat \ {0}
    /\ Faults \subseteq {"append", "torn", "unlink", "swap", "result"}

VARIABLES
    file,     \* journal.jsonl as the next reader finds it
    results,  \* the content of each <operation>.result, NoResult if absent
    isOpen,   \* a process holds the journal
    mem,      \* the fields of ReceiptJournal in that process
    stopped,  \* operations whose last call returned an error in that process
    halted    \* a call returned an error, no delivery is taken any more

vars == <<file, results, isOpen, mem, stopped, halted>>

-----------------------------------------------------------------------------
States == {"absent", "received", "started", "terminal", "acknowledged"}
Record == [state : States, fence : Fences \cup {0}, digest : Results \cup {NoResult}]
Absent == [state |-> "absent", fence |-> 0, digest |-> NoResult]
Nothing == [o \in Ops |-> Absent]

\* detached: the open handle is no longer the file named journal.jsonl.
File == [log : [Ops -> Record], cursor : 0..MaxCursor, torn : BOOLEAN, corrupt : BOOLEAN]
Memory == [records : [Ops -> Record], cursor : 0..MaxCursor,
           appended : 0..CompactEvery, detached : BOOLEAN]

NewFile == [log |-> Nothing, cursor |-> 0, torn |-> FALSE, corrupt |-> FALSE]
Closed == [records |-> Nothing, cursor |-> 0, appended |-> 0, detached |-> FALSE]

Known(recs) == {o \in Ops : recs[o].state # "absent"}
Acked(recs) == {o \in Ops : recs[o].state = "acknowledged"}
Live(recs) == [o \in Ops |-> IF o \in Acked(recs) THEN Absent ELSE recs[o]]
Without(rs, gone) == [o \in Ops |-> IF o \in gone THEN NoResult ELSE rs[o]]

\* Mutant: every kind of operation may run again.
ReplayableAlways(o) == TRUE
Replayable(o) == Effect[o] \in {"read", "idempotent"}

\* The lifecycle transition() allows.
Allowed(from, to) ==
    \/ from = "received" /\ to = "started"
    \/ from = "started" /\ to = "terminal"
    \/ from \in {"received", "started", "terminal"} /\ to = "acknowledged"

Init ==
    /\ file = NewFile
    /\ results = [o \in Ops |-> NoResult]
    /\ isOpen = FALSE /\ mem = Closed /\ stopped = {} /\ halted = FALSE

-----------------------------------------------------------------------------
(***************************************************************************)
(* A call ends "ok", "failed" (it returns an error and the process goes    *)
(* on) or "crashed" (the process ended in the middle of it).               *)
(***************************************************************************)
Returns(m) == mem' = m /\ UNCHANGED <<isOpen, stopped, halted>>

Dies == isOpen' = FALSE /\ mem' = Closed /\ stopped' = {} /\ halted' = FALSE

Breaks(end, fault, stopping, m) ==
    \/ end = "crashed" /\ Dies
    \/ /\ end = "failed" /\ fault \in Faults
       /\ mem' = m /\ stopped' = stopped \cup stopping /\ halted' = TRUE
       /\ UNCHANGED isOpen

\* One write to the file f that would make it next. A line that follows a
\* torn one merges with it.
Written(f, next, reach) ==
    CASE reach = "nothing" -> f
      [] reach = "part" -> [f EXCEPT !.torn = TRUE]
      [] reach = "line" -> IF f.torn THEN [f EXCEPT !.torn = FALSE, !.corrupt = TRUE]
                                     ELSE next

\* The write goes through the handle of m, which may have lost the name.
Appended(m, f, next, reach) == IF m.detached THEN f ELSE Written(f, next, reach)

\* append() is write_all, then sync_data; memory changes only if both succeed.
AppendBreaks(end, stopping, m, f, next) ==
    \E reach \in {"nothing", "part", "line"} :
        /\ file' = Appended(m, f, next, reach)
        /\ Breaks(end, IF reach = "part" THEN "torn" ELSE "append", stopping, m)

Counted(m) == [m EXCEPT !.appended = IF @ < CompactEvery THEN @ + 1 ELSE @]

(***************************************************************************)
(* compact(): unlink the results of acknowledged records, replace the file *)
(* by the live records and the cursor, reopen it, forget the acknowledged. *)
(***************************************************************************)
\* Mutant: compaction keeps only the finished records.
RewrittenFinished(m) ==
    [log |-> [o \in Ops |-> IF m.records[o].state = "terminal" THEN m.records[o] ELSE Absent],
     cursor |-> m.cursor, torn |-> FALSE, corrupt |-> FALSE]
Rewritten(m) == [log |-> Live(m.records), cursor |-> m.cursor, torn |-> FALSE, corrupt |-> FALSE]
Shrunk(m) == [records |-> Live(m.records), cursor |-> m.cursor, appended |-> 0, detached |-> FALSE]

CompactBreaks(end, stopping, m, f, rs) ==
    \/ /\ file' = f
       /\ \E gone \in SUBSET Acked(m.records) : results' = Without(rs, gone)
       /\ Breaks(end, "unlink", stopping, m)
    \/ /\ file' = Rewritten(m)
       /\ results' = Without(rs, Acked(m.records))
       /\ Breaks(end, "swap", stopping, [m EXCEPT !.detached = TRUE])

-----------------------------------------------------------------------------
(***************************************************************************)
(* transition(): append the record, remember it, compact when due. Done is *)
(* what a successful transition leaves behind.                             *)
(***************************************************************************)
Remembered(o, record) == [Counted(mem) EXCEPT !.records[o] = record]
Logged(o, record) == [file EXCEPT !.log[o] = record]
CompactionDue == Counted(mem).appended >= CompactEvery

Done(o, record) ==
    LET m == Remembered(o, record) IN
    IF CompactionDue
      THEN [file |-> Rewritten(m), mem |-> Shrunk(m), gone |-> Acked(m.records)]
      ELSE [file |-> Appended(mem, file, Logged(o, record), "line"), mem |-> m, gone |-> {}]

TransitionBreaks(o, record, rs, end) ==
    \/ /\ AppendBreaks(end, {o}, Counted(mem), file, Logged(o, record))
       /\ results' = rs
    \/ /\ CompactionDue
       /\ CompactBreaks(end, {o}, Remembered(o, record),
                        Appended(mem, file, Logged(o, record), "line"), rs)

Transition(o, record, rs, end) ==
    /\ Allowed(mem.records[o].state, record.state)
    /\ \/ /\ end = "ok"
          /\ file' = Done(o, record).file
          /\ results' = Without(rs, Done(o, record).gone)
          /\ Returns(Done(o, record).mem)
       \/ end # "ok" /\ TransitionBreaks(o, record, rs, end)

Callable(o) == isOpen /\ o \notin stopped

-----------------------------------------------------------------------------
(***************************************************************************)
(* received(): a delivery of operation o at fence f. A known operation     *)
(* keeps its record, unless the fence moved: then a replayable one starts  *)
(* again and a mutation is refused. The session stops taking deliveries    *)
(* after the first error.                                                  *)
(***************************************************************************)
Delivered(f) == [state |-> "received", fence |-> f, digest |-> NoResult]
Moved(o, f) == /\ mem.records[o].state \notin {"absent", "acknowledged"}
               /\ mem.records[o].fence # f

\* compact() makes room before a new operation is appended to a full journal.
Full == Cardinality(Known(mem.records)) >= MaxRecords
Room == IF Full THEN [file |-> Rewritten(mem), mem |-> Shrunk(mem), gone |-> Acked(mem.records)]
                ELSE [file |-> file, mem |-> mem, gone |-> {}]
NoRoom == Full /\ Cardinality(Known(Live(mem.records))) >= MaxRecords

Admit(o, f, end) ==
    LET room == IF mem.records[o].state = "absent" THEN Room
                ELSE [file |-> file, mem |-> mem, gone |-> {}]
        m == Counted(room.mem)
        next == [room.file EXCEPT !.log[o] = Delivered(f)] IN
    /\ results' = Without(results, room.gone)
    /\ \/ /\ end = "ok"
          /\ file' = Appended(m, room.file, next, "line")
          /\ Returns([m EXCEPT !.records[o] = Delivered(f)])
       \/ end # "ok" /\ AppendBreaks(end, {o}, m, room.file, next)

Received(o, f, end) ==
    /\ isOpen /\ ~halted
    /\ \/ Moved(o, f) /\ Replayable(o) /\ Admit(o, f, end)
       \/ mem.records[o].state = "absent" /\ ~NoRoom /\ Admit(o, f, end)
       \/ /\ mem.records[o].state = "absent" /\ Full /\ end # "ok"
          /\ CompactBreaks(end, {o}, mem, file, results)

\* The deliveries received() refuses: a mutation at another fence, an
\* operation for which compact() made no room.
Refused(o, f) ==
    /\ isOpen /\ ~halted /\ halted' = TRUE /\ stopped' = {o} /\ UNCHANGED isOpen
    /\ \/ Moved(o, f) /\ ~Replayable(o) /\ UNCHANGED <<file, results, mem>>
       \/ /\ mem.records[o].state = "absent" /\ NoRoom
          /\ file' = Room.file /\ mem' = Room.mem
          /\ results' = Without(results, Room.gone)

AdvanceCursor(c, end) ==
    LET next == [file EXCEPT !.cursor = c] IN
    /\ isOpen /\ ~halted /\ c > mem.cursor
    /\ UNCHANGED results
    /\ \/ /\ end = "ok"
          /\ file' = Appended(mem, file, next, "line")
          /\ Returns([Counted(mem) EXCEPT !.cursor = c])
       \/ end # "ok" /\ AppendBreaks(end, {}, Counted(mem), file, next)

Started(o, end) ==
    /\ Callable(o) /\ mem.records[o].state = "received"
    /\ Transition(o, [mem.records[o] EXCEPT !.state = "started"], results, end)

\* Mutant: the record is written before the result file.
TerminalRecordFirst(o, r, end) ==
    LET record == [mem.records[o] EXCEPT !.state = "terminal", !.digest = r] IN
    /\ Callable(o) /\ mem.records[o].state = "started"
    /\ \/ end = "ok" /\ Transition(o, record, [results EXCEPT ![o] = r], end)
       \/ end # "ok" /\ Transition(o, record, results, end)

\* terminal(): the result file first, then the record that names it.
Terminal(o, r, end) ==
    LET stored == [results EXCEPT ![o] = r] IN
    /\ Callable(o) /\ mem.records[o].state = "started"
    /\ \/ Transition(o, [mem.records[o] EXCEPT !.state = "terminal", !.digest = r], stored, end)
       \/ /\ end # "ok" /\ results' \in {results, stored}
          /\ Breaks(end, "result", {o}, mem) /\ UNCHANGED file

\* acknowledge(): the record first, then the result file goes. Only
\* recovery acknowledges an unfinished operation, and it stops at an error.
Acknowledge(o, end) ==
    LET record == [mem.records[o] EXCEPT !.state = "acknowledged"]
        gone == Done(o, record).gone IN
    /\ Callable(o) /\ Allowed(mem.records[o].state, "acknowledged")
    /\ halted => mem.records[o].state = "terminal"
    /\ \/ /\ end = "ok"
          /\ file' = Done(o, record).file
          /\ results' = Without(results, gone \cup {o})
          /\ Returns(Done(o, record).mem)
       \/ end # "ok" /\ TransitionBreaks(o, record, results, end)
       \/ /\ end # "ok"
          /\ file' = Done(o, record).file
          /\ results' \in {Without(results, gone), Without(results, gone \cup {o})}
          /\ Breaks(end, "unlink", {o}, Done(o, record).mem)

-----------------------------------------------------------------------------
(***************************************************************************)
(* open(): unlink the result of every acknowledged record, cut a torn last *)
(* line, keep the live records, compact. It refuses a corrupt file.        *)
(***************************************************************************)
Recovered == [records |-> Live(file.log), cursor |-> file.cursor, appended |-> 0, detached |-> FALSE]

\* Mutant: a torn last line is neither cut nor compacted away.
OpenAppendsToTornLine ==
    /\ ~isOpen /\ ~file.corrupt
    /\ results' = Without(results, Acked(file.log))
    /\ file' = [Rewritten(Recovered) EXCEPT !.torn = file.torn]
    /\ mem' = Recovered /\ isOpen' = TRUE /\ UNCHANGED <<stopped, halted>>

Open ==
    /\ ~isOpen /\ ~file.corrupt
    /\ results' = Without(results, Acked(file.log))
    /\ file' = Rewritten(Recovered)
    /\ mem' = Recovered /\ isOpen' = TRUE /\ UNCHANGED <<stopped, halted>>

\* Every error and every crash of open() leaves the journal closed.
OpenBreaks ==
    /\ ~isOpen
    /\ \E gone \in SUBSET Acked(file.log) : results' = Without(results, gone)
    /\ file' \in {file} \cup IF file.corrupt \/ Acked(file.log) \cap {o \in Ops : results'[o] # NoResult} # {}
                             THEN {}
                             ELSE {[file EXCEPT !.torn = FALSE], Rewritten(Recovered)}
    /\ UNCHANGED <<isOpen, mem, stopped, halted>>

\* The session ends or the process dies between two calls.
Close == isOpen /\ Dies /\ UNCHANGED <<file, results>>

\* retire(): compact once every record is acknowledged, and remove the
\* directory if the journal is the only file left in it.
Retire ==
    /\ isOpen /\ Live(mem.records) = Nothing /\ Dies
    /\ \E gone \in SUBSET Acked(mem.records) : results' = Without(results, gone)
    /\ file' \in {file} \cup
         (IF Without(results, Acked(mem.records)) = results' THEN {Rewritten(mem)} ELSE {}) \cup
         (IF \A o \in Ops : results'[o] = NoResult THEN {NewFile} ELSE {})

Ends == {"ok", "failed", "crashed"}

Next ==
    \/ \E o \in Ops, end \in Ends :
         \/ \E f \in Fences : Received(o, f, end)
         \/ Started(o, end)
         \/ \E r \in Results : Terminal(o, r, end)
         \/ Acknowledge(o, end)
    \/ \E o \in Ops, f \in Fences : Refused(o, f)
    \/ \E c \in 1..MaxCursor, end \in Ends : AdvanceCursor(c, end)
    \/ Open \/ OpenBreaks \/ Close \/ Retire

Spec == Init /\ [][Next]_vars

-----------------------------------------------------------------------------
\* Every variable keeps its type.
TypeOK ==
    /\ file \in File /\ results \in [Ops -> Results \cup {NoResult}]
    /\ isOpen \in BOOLEAN /\ mem \in Memory
    /\ stopped \in SUBSET Ops /\ halted \in BOOLEAN

\* What a restart would find of operation o, while a process holds the
\* journal and after it is gone.
Believed(o) == IF isOpen THEN mem.records[o] ELSE file.log[o]

\* A crash loses nothing a call reported as done: the file holds the record
\* in memory, or the one an unfinished last call was about to write.
Succeeds(o, from, to) ==
    \/ Allowed(from.state, to.state) /\ to.fence = from.fence
    \/ from.state = "absent" /\ to.state = "received"
    \/ /\ from.state \notin {"absent", "acknowledged"} /\ Replayable(o)
       /\ to.state = "received" /\ to.fence # from.fence

Durable == isOpen => \A o \in Ops :
    \/ file.log[o] = mem.records[o]
    \/ o \in stopped /\ Succeeds(o, mem.records[o], file.log[o])

\* Whoever reads a finished operation finds the result it names, whatever
\* was cut short between the result file and the record.
ResultKept == \A o \in Ops : \A r \in {file.log[o], Believed(o)} :
    r.state = "terminal" => r.digest # NoResult /\ results[o] = r.digest

\* No result file outlives the record that explains it.
NoOrphan == \A o \in Ops : results[o] # NoResult => file.log[o].state # "absent"

\* open() never meets a line it cannot parse.
Reopens == ~file.corrupt

\* The journal implements the ledger: entries are what a process believes
\* while it holds the journal and what the files say otherwise, and the
\* result of an entry is the content of its result file.
Entry(o) ==
    LET r == Believed(o) IN
    IF r.state \in {"absent", "acknowledged"}
      THEN [state |-> "none", fence |-> 0, result |-> NoResult]
      ELSE [state |-> r.state, fence |-> r.fence,
            result |-> IF r.state = "terminal" THEN results[o] ELSE NoResult]

Ledger == INSTANCE ReceiptLedger WITH ledger <- [o \in Ops |-> Entry(o)]
LedgerSpec == Ledger!Spec
=============================================================================
