------------------------ MODULE ReceiptJournalProofs ------------------------
(***************************************************************************)
(* What holds of the receipt journal for every set of operations, fences,  *)
(* results and bounds, as long as the process does not outlive a torn      *)
(* append or a compaction that replaced the file without reopening it; and *)
(* at the end, what the cleanup of old journals keeps of them.             *)
(***************************************************************************)
EXTENDS ReceiptJournal, JournalRetention, TLAPS

SafeFaults == Faults \cap {"torn", "swap"} = {}

(***************************************************************************)
(* The inductive invariant, one operation at a time: l is its record in    *)
(* the file, r the one in memory, res its result file.                     *)
(***************************************************************************)
Kept(l, res) ==
    /\ l.state = "terminal" => l.digest # NoResult /\ res = l.digest
    /\ res # NoResult => l.state # "absent"

InStep(o, l, r, res, broken) ==
    /\ l = r \/ (broken /\ Succeeds(o, r, l))
    /\ Kept(l, res) /\ Kept(r, res)

OnDisk(f, rs) ==
    /\ f \in File /\ rs \in [Ops -> Results \cup {NoResult}] /\ ~f.corrupt
    /\ \A o \in Ops : Kept(f.log[o], rs[o])

Held(f, rs, m, st, h) ==
    /\ f \in File /\ rs \in [Ops -> Results \cup {NoResult}] /\ m \in Memory
    /\ st \in SUBSET Ops /\ h \in BOOLEAN
    /\ ~f.corrupt /\ ~f.torn /\ ~m.detached /\ (~h => st = {})
    /\ \A o \in Ops : InStep(o, f.log[o], m.records[o], rs[o], o \in st)

IInv ==
    \/ isOpen = TRUE /\ Held(file, results, mem, stopped, halted)
    \/ /\ isOpen = FALSE /\ mem = Closed /\ stopped = {} /\ halted = FALSE
       /\ OnDisk(file, results)

-----------------------------------------------------------------------------
(***************************************************************************)
(* The operators the actions are built from.                               *)
(***************************************************************************)
LEMMA ClosedType == Closed \in Memory /\ NewFile \in File /\ Nothing \in [Ops -> Record]
  BY JournalAssumption DEF Closed, NewFile, Memory, File, Nothing, Absent, Record, States

LEMMA LiveType ==
    ASSUME NEW recs \in [Ops -> Record]
    PROVE  /\ Live(recs) \in [Ops -> Record]
           /\ \A o \in Ops : Live(recs)[o] = IF recs[o].state = "acknowledged" THEN Absent ELSE recs[o]
  BY DEF Live, Acked, Absent, Record, States

LEMMA WithoutType ==
    ASSUME NEW rs \in [Ops -> Results \cup {NoResult}], NEW gone
    PROVE  /\ Without(rs, gone) \in [Ops -> Results \cup {NoResult}]
           /\ \A o \in Ops : Without(rs, gone)[o] = IF o \in gone THEN NoResult ELSE rs[o]
  BY DEF Without

LEMMA CountedType ==
    ASSUME NEW m \in Memory
    PROVE  /\ Counted(m) \in Memory
           /\ Counted(m).records = m.records /\ Counted(m).cursor = m.cursor
           /\ Counted(m).detached = m.detached
  BY JournalAssumption DEF Counted, Memory

\* A crash at any moment leaves a directory a restart can read.
LEMMA HeldOnDisk ==
    ASSUME NEW f, NEW rs, NEW m, NEW st, NEW h, Held(f, rs, m, st, h)
    PROVE  OnDisk(f, rs)
  BY DEF Held, OnDisk, InStep

\* Unlinking results of acknowledged records disturbs nothing.
LEMMA UnlinkHeld ==
    ASSUME NEW f, NEW rs, NEW m, NEW st, NEW h, Held(f, rs, m, st, h),
           NEW gone \in SUBSET Acked(m.records)
    PROVE  Held(f, Without(rs, gone), m, st, h)
<1>1. Without(rs, gone) \in [Ops -> Results \cup {NoResult}]
  BY WithoutType DEF Held
<1>2. ASSUME NEW o \in Ops
      PROVE  InStep(o, f.log[o], m.records[o], Without(rs, gone)[o], o \in st)
  <2>1. CASE o \in gone
    <3>1. m.records[o].state = "acknowledged"
      BY <2>1 DEF Acked
    <3>2. f.log[o] = m.records[o]
      BY <3>1 DEF Held, InStep, Succeeds, Allowed
    <3>3. QED
      BY <2>1, <3>1, <3>2, WithoutType DEF Held, InStep, Kept
  <2>2. CASE o \notin gone
    BY <2>2, WithoutType DEF Held
  <2>3. QED
    BY <2>1, <2>2
<1>3. QED
  BY <1>1, <1>2 DEF Held

\* A completed compaction.
LEMMA CompactHeld ==
    ASSUME NEW f, NEW rs, NEW m, NEW st, NEW h, Held(f, rs, m, st, h)
    PROVE  Held(Rewritten(m), Without(rs, Acked(m.records)), Shrunk(m), st, h)
<1> DEFINE live == Live(m.records)  left == Without(rs, Acked(m.records))
<1>1. m \in Memory /\ m.records \in [Ops -> Record]
  BY DEF Held, Memory
<1>2. live \in [Ops -> Record] /\ left \in [Ops -> Results \cup {NoResult}]
  BY <1>1, LiveType, WithoutType DEF Held
<1>3. /\ Rewritten(m) \in File /\ Rewritten(m).log = live
      /\ ~Rewritten(m).torn /\ ~Rewritten(m).corrupt
  BY <1>1, <1>2 DEF Rewritten, File, Memory
<1>4. Shrunk(m) \in Memory /\ Shrunk(m).records = live /\ ~Shrunk(m).detached
  BY <1>1, <1>2, JournalAssumption DEF Shrunk, Memory
<1>5. ASSUME NEW o \in Ops
      PROVE  InStep(o, live[o], live[o], left[o], o \in st)
  <2>1. CASE m.records[o].state = "acknowledged"
    <3>1. live[o] = Absent /\ left[o] = NoResult
      BY <1>1, <2>1, LiveType, WithoutType DEF Held, Acked
    <3>2. QED
      BY <3>1 DEF InStep, Kept, Absent
  <2>2. CASE m.records[o].state # "acknowledged"
    <3>1. live[o] = m.records[o] /\ left[o] = rs[o]
      BY <1>1, <2>2, LiveType, WithoutType DEF Held, Acked
    <3>2. QED
      BY <3>1 DEF Held, InStep
  <2>3. QED
    BY <2>1, <2>2
<1>6. QED
  BY <1>2, <1>3, <1>4, <1>5 DEF Held

\* A record of o that is appended and remembered.
LEMMA AppendHeld ==
    ASSUME NEW f, NEW rs, NEW m, NEW st, NEW h, Held(f, rs, m, st, h),
           NEW o \in Ops, NEW record \in Record, Kept(record, rs[o]),
           NEW n \in Memory, n.records = [m.records EXCEPT ![o] = record], ~n.detached
    PROVE  Held([f EXCEPT !.log[o] = record], rs, n, st, h)
<1> DEFINE g == [f EXCEPT !.log[o] = record]
<1>1. f.log \in [Ops -> Record] /\ m.records \in [Ops -> Record]
  BY DEF Held, File, Memory
<1>2. /\ g \in File /\ g.log = [f.log EXCEPT ![o] = record]
      /\ ~g.torn /\ ~g.corrupt
  BY <1>1 DEF Held, File
<1>3. ASSUME NEW p \in Ops
      PROVE  InStep(p, g.log[p], n.records[p], rs[p], p \in st)
  BY <1>1, <1>2 DEF Held, InStep
<1>4. QED
  BY <1>2, <1>3 DEF Held

\* A record of o whose append failed: the line may have reached the file,
\* and o is not called again.
LEMMA HalfAppendHeld ==
    ASSUME NEW f, NEW rs, NEW m, NEW st, NEW h, Held(f, rs, m, st, h),
           NEW o \in Ops, NEW record \in Record, Kept(record, rs[o]),
           Succeeds(o, m.records[o], record)
    PROVE  Held([f EXCEPT !.log[o] = record], rs, m, st \cup {o}, TRUE)
<1> DEFINE g == [f EXCEPT !.log[o] = record]
<1>1. f.log \in [Ops -> Record] /\ m.records \in [Ops -> Record]
  BY DEF Held, File, Memory
<1>2. /\ g \in File /\ g.log = [f.log EXCEPT ![o] = record]
      /\ ~g.torn /\ ~g.corrupt
  BY <1>1 DEF Held, File
<1>3. ASSUME NEW p \in Ops
      PROVE  InStep(p, g.log[p], m.records[p], rs[p], p \in st \cup {o})
  BY <1>1, <1>2 DEF Held, InStep
<1>4. QED
  BY <1>2, <1>3 DEF Held

\* More operations are stopped.
LEMMA StopHeld ==
    ASSUME NEW f, NEW rs, NEW m, NEW st, NEW h, Held(f, rs, m, st, h),
           NEW more \in SUBSET Ops
    PROVE  Held(f, rs, m, st \cup more, TRUE)
  BY DEF Held, InStep

-----------------------------------------------------------------------------
(***************************************************************************)
(* The three ways a call ends.                                             *)
(***************************************************************************)
LEMMA ReturnsInv ==
    ASSUME isOpen = TRUE, NEW m, Returns(m), Held(file', results', m, stopped, halted)
    PROVE  IInv'
  BY DEF Returns, IInv

LEMMA DiesInv ==
    ASSUME Dies, OnDisk(file', results')
    PROVE  IInv'
  BY DEF Dies, IInv

LEMMA BreaksInv ==
    ASSUME SafeFaults, isOpen = TRUE, NEW end, NEW fault, NEW stopping, NEW m,
           Breaks(end, fault, stopping, m), OnDisk(file', results'),
           fault \notin {"torn", "swap"}
               => Held(file', results', m, stopped \cup stopping, TRUE)
    PROVE  IInv'
<1>1. CASE Dies
  BY <1>1, DiesInv
<1>2. CASE /\ fault \in Faults /\ mem' = m /\ isOpen' = isOpen
           /\ stopped' = stopped \cup stopping /\ halted' = TRUE
  <2>1. fault \notin {"torn", "swap"}
    BY <1>2 DEF SafeFaults
  <2>2. QED
    BY <1>2, <2>1 DEF IInv
<1>3. QED
  BY <1>1, <1>2 DEF Breaks

-----------------------------------------------------------------------------
(***************************************************************************)
(* append() and compact() when they do not complete, transition().         *)
(***************************************************************************)
LEMMA HeldType ==
    ASSUME NEW f, NEW rs, NEW m, NEW st, NEW h, Held(f, rs, m, st, h)
    PROVE  /\ f \in File /\ m \in Memory
           /\ f.log \in [Ops -> Record] /\ m.records \in [Ops -> Record]
           /\ rs \in [Ops -> Results \cup {NoResult}]
           /\ ~f.torn /\ ~m.detached
  BY DEF Held, File, Memory

\* An append of o that breaks; m is the memory the call leaves behind.
LEMMA AppendBreaksInv ==
    ASSUME SafeFaults, isOpen = TRUE, NEW end, NEW m, NEW f,
           Held(f, results', m, stopped, halted),
           NEW o \in Ops, NEW record \in Record, Kept(record, results'[o]),
           Succeeds(o, m.records[o], record),
           AppendBreaks(end, {o}, m, f, [f EXCEPT !.log[o] = record])
    PROVE  IInv'
<1> DEFINE g == [f EXCEPT !.log[o] = record]
<1>1. PICK reach \in {"nothing", "part", "line"} :
          /\ file' = Appended(m, f, g, reach)
          /\ Breaks(end, IF reach = "part" THEN "torn" ELSE "append", {o}, m)
  BY DEF AppendBreaks
<1>2. CASE reach = "nothing"
  <2>1. file' = f
    BY <1>1, <1>2, HeldType DEF Appended, Written
  <2>2. Held(file', results', m, stopped \cup {o}, TRUE)
    BY <2>1, StopHeld
  <2>3. QED
    BY <1>1, <2>2, HeldOnDisk, BreaksInv
<1>3. CASE reach = "part"
  <2>1. file' = [f EXCEPT !.torn = TRUE]
    BY <1>1, <1>3, HeldType DEF Appended, Written
  <2>2. OnDisk(file', results')
    BY <2>1, HeldType, HeldOnDisk DEF OnDisk, File
  <2>3. Breaks(end, "torn", {o}, m)
    BY <1>1, <1>3
  <2>4. QED
    BY <2>2, <2>3, BreaksInv
<1>4. CASE reach = "line"
  <2>1. file' = g
    BY <1>1, <1>4, HeldType DEF Appended, Written
  <2>2. Held(file', results', m, stopped \cup {o}, TRUE)
    BY <2>1, HalfAppendHeld
  <2>3. QED
    BY <1>1, <2>2, HeldOnDisk, BreaksInv
<1>5. QED
  BY <1>1, <1>2, <1>3, <1>4

\* A compaction that breaks.
LEMMA CompactBreaksInv ==
    ASSUME SafeFaults, isOpen = TRUE, NEW end, NEW stopping \in SUBSET Ops, NEW m, NEW f, NEW rs,
           Held(f, rs, m, stopped, halted), CompactBreaks(end, stopping, m, f, rs)
    PROVE  IInv'
<1>1. ASSUME file' = f, NEW gone \in SUBSET Acked(m.records), results' = Without(rs, gone),
             Breaks(end, "unlink", stopping, m)
      PROVE  IInv'
  <2>1. Held(file', results', m, stopped \cup stopping, TRUE)
    BY <1>1, UnlinkHeld, StopHeld
  <2>2. QED
    BY <1>1, <2>1, HeldOnDisk, BreaksInv
<1>2. ASSUME file' = Rewritten(m), results' = Without(rs, Acked(m.records)),
             Breaks(end, "swap", stopping, [m EXCEPT !.detached = TRUE])
      PROVE  IInv'
  <2>1. OnDisk(file', results')
    BY <1>2, CompactHeld, HeldOnDisk
  <2>2. QED
    BY <1>2, <2>1, BreaksInv
<1>3. QED
  BY <1>1, <1>2 DEF CompactBreaks

\* What a completed transition leaves behind.
LEMMA DoneHeld ==
    ASSUME NEW rs, Held(file, rs, mem, stopped, halted),
           NEW o \in Ops, NEW record \in Record, Kept(record, rs[o])
    PROVE  LET d == Done(o, record) IN
           /\ Held(d.file, Without(rs, d.gone), d.mem, stopped, halted)
           /\ Held(Appended(mem, file, Logged(o, record), "line"), rs, Remembered(o, record), stopped, halted)
<1> DEFINE m == Remembered(o, record)  g == [file EXCEPT !.log[o] = record]
<1>1. /\ m \in Memory /\ m.records = [mem.records EXCEPT ![o] = record] /\ ~m.detached
  BY HeldType, CountedType DEF Remembered, Memory
<1>2. Appended(mem, file, Logged(o, record), "line") = g
  BY HeldType DEF Appended, Written, Logged
<1>3. Held(g, rs, m, stopped, halted)
  BY <1>1, AppendHeld
<1>4. CASE CompactionDue
  <2>1. Done(o, record) = [file |-> Rewritten(m), mem |-> Shrunk(m), gone |-> Acked(m.records)]
    BY <1>4 DEF Done
  <2>2. Held(Rewritten(m), Without(rs, Acked(m.records)), Shrunk(m), stopped, halted)
    BY <1>3, CompactHeld
  <2>3. QED
    BY <1>2, <1>3, <1>4, <2>1, <2>2
<1>5. CASE ~CompactionDue
  <2>1. Done(o, record) = [file |-> g, mem |-> m, gone |-> {}]
    BY <1>2, <1>5 DEF Done
  <2>2. Without(rs, {}) = rs
    BY HeldType DEF Without
  <2>3. QED
    BY <1>2, <1>3, <2>1, <2>2
<1>6. QED
  BY <1>4, <1>5

LEMMA TransitionBreaksInv ==
    ASSUME SafeFaults, isOpen = TRUE, NEW end, NEW rs,
           Held(file, rs, mem, stopped, halted),
           NEW o \in Ops, NEW record \in Record, Kept(record, rs[o]),
           Succeeds(o, mem.records[o], record),
           TransitionBreaks(o, record, rs, end)
    PROVE  IInv'
<1>1. ASSUME AppendBreaks(end, {o}, Counted(mem), file, Logged(o, record)), results' = rs
      PROVE  IInv'
  <2>1. /\ Counted(mem) \in Memory /\ Counted(mem).records = mem.records
        /\ Counted(mem).detached = mem.detached
    BY HeldType, CountedType
  <2>2. Held(file, results', Counted(mem), stopped, halted)
    BY <1>1, <2>1 DEF Held
  <2>3. QED
    BY <1>1, <2>1, <2>2, AppendBreaksInv DEF Logged
<1>2. ASSUME CompactBreaks(end, {o}, Remembered(o, record),
                           Appended(mem, file, Logged(o, record), "line"), rs)
      PROVE  IInv'
  BY <1>2, DoneHeld, CompactBreaksInv
<1>3. QED
  BY <1>1, <1>2 DEF TransitionBreaks

LEMMA TransitionInv ==
    ASSUME SafeFaults, isOpen = TRUE, NEW end, NEW rs,
           Held(file, rs, mem, stopped, halted),
           NEW o \in Ops, NEW record \in Record, Kept(record, rs[o]),
           Succeeds(o, mem.records[o], record),
           Transition(o, record, rs, end)
    PROVE  IInv'
<1>1. CASE /\ file' = Done(o, record).file
           /\ results' = Without(rs, Done(o, record).gone)
           /\ Returns(Done(o, record).mem)
  BY <1>1, DoneHeld, ReturnsInv
<1>2. CASE TransitionBreaks(o, record, rs, end)
  BY <1>2, TransitionBreaksInv
<1>3. QED
  BY <1>1, <1>2 DEF Transition

-----------------------------------------------------------------------------
(***************************************************************************)
(* One lemma for each action.                                              *)
(***************************************************************************)
LEMMA OpenHeld ==
    ASSUME IInv, isOpen
    PROVE  isOpen = TRUE /\ Held(file, results, mem, stopped, halted)
  BY DEF IInv

LEMMA ShutOnDisk ==
    ASSUME IInv
    PROVE  OnDisk(file, results)
  BY HeldOnDisk DEF IInv

LEMMA StateType ==
    ASSUME NEW record \in Record, NEW s \in States
    PROVE  /\ [record EXCEPT !.state = s] \in Record
           /\ [record EXCEPT !.state = s].state = s
           /\ [record EXCEPT !.state = s].fence = record.fence
           /\ [record EXCEPT !.state = s].digest = record.digest
  BY DEF Record

LEMMA StartedInv ==
    ASSUME SafeFaults, IInv, NEW o \in Ops, NEW end, Started(o, end)
    PROVE  IInv'
<1> DEFINE record == [mem.records[o] EXCEPT !.state = "started"]
<1>1. isOpen = TRUE /\ Held(file, results, mem, stopped, halted)
  BY OpenHeld DEF Started, Callable
<1>2. mem.records[o] \in Record /\ mem.records[o].state = "received"
  BY <1>1, HeldType DEF Started
<1>3. record \in Record /\ record.state = "started" /\ record.fence = mem.records[o].fence
  BY <1>2, StateType DEF States
<1>4. Kept(record, results[o]) /\ Succeeds(o, mem.records[o], record)
  BY <1>2, <1>3 DEF Kept, Succeeds, Allowed
<1>5. QED
  BY <1>1, <1>3, <1>4, TransitionInv DEF Started

LEMMA TerminalInv ==
    ASSUME SafeFaults, IInv, NEW o \in Ops, NEW r \in Results, NEW end, Terminal(o, r, end)
    PROVE  IInv'
<1> DEFINE stored == [results EXCEPT ![o] = r]
           record == [mem.records[o] EXCEPT !.state = "terminal", !.digest = r]
<1>1. isOpen = TRUE /\ Held(file, results, mem, stopped, halted)
  BY OpenHeld DEF Terminal, Callable
<1>2. mem.records[o] \in Record /\ mem.records[o].state = "started" /\ o \notin stopped
  BY <1>1, HeldType DEF Terminal, Callable
<1>3. /\ record \in Record /\ record.state = "terminal" /\ record.digest = r
      /\ record.fence = mem.records[o].fence
  BY <1>2 DEF Record, States
<1>4. Held(file, stored, mem, stopped, halted)
  <2>1. stored \in [Ops -> Results \cup {NoResult}] /\ stored[o] = r
    BY <1>1, HeldType
  <2>2. \A p \in Ops : InStep(p, file.log[p], mem.records[p], stored[p], p \in stopped)
    BY <1>1, <1>2, <2>1, HeldType DEF Held, InStep, Kept
  <2>3. QED
    BY <1>1, <2>1, <2>2 DEF Held
<1>5. Kept(record, stored[o]) /\ Succeeds(o, mem.records[o], record)
  BY <1>1, <1>2, <1>3, HeldType, JournalAssumption DEF Kept, Succeeds, Allowed
<1>6. CASE Transition(o, record, stored, end)
  BY <1>1, <1>3, <1>4, <1>5, <1>6, TransitionInv
<1>7. CASE results' \in {results, stored} /\ Breaks(end, "result", {o}, mem) /\ file' = file
  <2>1. Held(file', results', mem, stopped \cup {o}, TRUE)
    BY ZenonT(120), <1>1, <1>4, <1>7, StopHeld
  <2>2. QED
    BY <1>1, <1>7, <2>1, HeldOnDisk, BreaksInv
<1>8. QED
  BY <1>6, <1>7 DEF Terminal

LEMMA AcknowledgeInv ==
    ASSUME SafeFaults, IInv, NEW o \in Ops, NEW end, Acknowledge(o, end)
    PROVE  IInv'
<1> DEFINE record == [mem.records[o] EXCEPT !.state = "acknowledged"]
           d == Done(o, record)
<1>1. isOpen = TRUE /\ Held(file, results, mem, stopped, halted)
  BY OpenHeld DEF Acknowledge, Callable
<1>2. mem.records[o] \in Record /\ mem.records[o].state \in {"received", "started", "terminal"}
  BY <1>1, HeldType DEF Acknowledge, Allowed, Callable
<1>3. record \in Record /\ record.state = "acknowledged" /\ record.fence = mem.records[o].fence
  BY <1>2, StateType DEF States
<1>4. Kept(record, results[o]) /\ Succeeds(o, mem.records[o], record)
  BY <1>2, <1>3 DEF Kept, Succeeds, Allowed
<1>5. Held(d.file, Without(results, d.gone), d.mem, stopped, halted)
  BY <1>1, <1>3, <1>4, DoneHeld
<1>6. Held(d.file, Without(results, d.gone \cup {o}), d.mem, stopped, halted)
  <2>1. CASE CompactionDue
    <3>1. d = [file |-> Rewritten(Remembered(o, record)), mem |-> Shrunk(Remembered(o, record)),
               gone |-> Acked(Remembered(o, record).records)]
      BY <2>1 DEF Done
    <3>2. Remembered(o, record).records = [mem.records EXCEPT ![o] = record]
      BY <1>1, HeldType, CountedType DEF Remembered, Memory
    <3>3. o \in Acked(Remembered(o, record).records)
      BY <1>1, <1>3, <3>2, HeldType DEF Acked
    <3>4. d.gone \cup {o} = d.gone
      BY <3>1, <3>3
    <3>5. QED
      BY <1>5, <3>4
  <2>2. CASE ~CompactionDue
    <3>1. d.gone = {} /\ d.mem = Remembered(o, record)
      BY <2>2 DEF Done
    <3>2. Remembered(o, record).records = [mem.records EXCEPT ![o] = record]
      BY <1>1, HeldType, CountedType DEF Remembered, Memory
    <3>3. Without(results, d.gone) = results /\ d.gone \cup {o} = {o}
      BY <1>1, <3>1, HeldType DEF Without
    <3>4. {o} \in SUBSET Acked(d.mem.records)
      BY ZenonT(120), <1>1, <1>3, <3>1, <3>2, HeldType DEF Acked
    <3>5. QED
      BY <1>5, <3>3, <3>4, UnlinkHeld
  <2>3. QED
    BY <2>1, <2>2
<1>7. CASE /\ file' = d.file /\ results' = Without(results, d.gone \cup {o})
           /\ Returns(d.mem)
  BY <1>1, <1>6, <1>7, ReturnsInv
<1>8. CASE TransitionBreaks(o, record, results, end)
  BY <1>1, <1>3, <1>4, <1>8, TransitionBreaksInv
<1>9. CASE /\ file' = d.file
           /\ results' \in {Without(results, d.gone), Without(results, d.gone \cup {o})}
           /\ Breaks(end, "unlink", {o}, d.mem)
  <2>1. Held(file', results', d.mem, stopped \cup {o}, TRUE)
    BY <1>5, <1>6, <1>9, StopHeld
  <2>2. QED
    BY <1>1, <1>9, <2>1, HeldOnDisk, BreaksInv
<1>10. QED
  BY <1>7, <1>8, <1>9 DEF Acknowledge

LEMMA DeliveredType ==
    ASSUME NEW f \in Fences
    PROVE  /\ Delivered(f) \in Record /\ Delivered(f).state = "received"
           /\ Delivered(f).fence = f
  BY DEF Delivered, Record, States

\* A compaction that made room leaves the live records.
LEMMA RoomHeld ==
    ASSUME Held(file, results, mem, stopped, halted)
    PROVE  /\ Held(Room.file, Without(results, Room.gone), Room.mem, stopped, halted)
           /\ \A o \in Ops : mem.records[o].state = "absent" => Room.mem.records[o].state = "absent"
<1>1. CASE Full
  <2>1. Room = [file |-> Rewritten(mem), mem |-> Shrunk(mem), gone |-> Acked(mem.records)]
    BY <1>1 DEF Room
  <2>2. Held(Rewritten(mem), Without(results, Acked(mem.records)), Shrunk(mem), stopped, halted)
    BY CompactHeld
  <2>3. \A o \in Ops : mem.records[o].state = "absent" => Shrunk(mem).records[o].state = "absent"
    BY HeldType, LiveType DEF Shrunk
  <2>4. QED
    BY <2>1, <2>2, <2>3
<1>2. CASE ~Full
  <2>1. Room = [file |-> file, mem |-> mem, gone |-> {}]
    BY <1>2 DEF Room
  <2>2. Without(results, {}) = results
    BY HeldType DEF Without
  <2>3. QED
    BY <2>1, <2>2
<1>3. QED
  BY <1>1, <1>2

LEMMA AdmitInv ==
    ASSUME SafeFaults, isOpen = TRUE, Held(file, results, mem, stopped, halted),
           NEW o \in Ops, NEW f \in Fences, NEW end, Admit(o, f, end),
           mem.records[o].state = "absent" \/ (Moved(o, f) /\ Replayable(o))
    PROVE  IInv'
<1> DEFINE room == IF mem.records[o].state = "absent" THEN Room
                   ELSE [file |-> file, mem |-> mem, gone |-> {}]
           m == Counted(room.mem)
           next == [room.file EXCEPT !.log[o] = Delivered(f)]
           rs == Without(results, room.gone)
<1>1. /\ Held(room.file, rs, room.mem, stopped, halted)
      /\ Succeeds(o, room.mem.records[o], Delivered(f))
  <2>1. CASE mem.records[o].state = "absent"
    BY <2>1, RoomHeld, DeliveredType DEF Succeeds
  <2>2. CASE mem.records[o].state # "absent"
    <3>1. Without(results, {}) = results
      BY HeldType DEF Without
    <3>2. QED
      BY <2>2, <3>1, DeliveredType DEF Succeeds, Moved
  <2>3. QED
    BY <2>1, <2>2
<1>2. /\ m \in Memory /\ m.records = room.mem.records /\ m.detached = room.mem.detached
  BY <1>1, HeldType, CountedType
<1>3. Held(room.file, rs, m, stopped, halted)
  BY <1>1, <1>2 DEF Held
<1>4. Kept(Delivered(f), rs[o])
  BY DeliveredType DEF Kept
<1>5. ASSUME results' = rs, file' = Appended(m, room.file, next, "line"),
             Returns([m EXCEPT !.records[o] = Delivered(f)])
      PROVE  IInv'
  <2> DEFINE n == [m EXCEPT !.records[o] = Delivered(f)]
  <2>1. /\ n \in Memory /\ n.records = [m.records EXCEPT ![o] = Delivered(f)] /\ ~n.detached
    BY <1>2, <1>3, HeldType, DeliveredType DEF Memory
  <2>2. file' = next
    BY <1>3, <1>5, HeldType DEF Appended, Written
  <2>3. Held(next, rs, n, stopped, halted)
    <3> HIDE DEF room, m, rs, n
    <3> QED
      BY <1>3, <1>4, <2>1, DeliveredType, AppendHeld
  <2>4. QED
    BY <1>5, <2>2, <2>3, ReturnsInv
<1>6. ASSUME results' = rs, AppendBreaks(end, {o}, m, room.file, next)
      PROVE  IInv'
  BY <1>1, <1>2, <1>3, <1>4, <1>6, DeliveredType, AppendBreaksInv
<1>7. QED
  BY <1>5, <1>6 DEF Admit

LEMMA ReceivedInv ==
    ASSUME SafeFaults, IInv, NEW o \in Ops, NEW f \in Fences, NEW end, Received(o, f, end)
    PROVE  IInv'
<1>1. isOpen = TRUE /\ Held(file, results, mem, stopped, halted)
  BY OpenHeld DEF Received
<1>2. CASE Moved(o, f) /\ Replayable(o) /\ Admit(o, f, end)
  BY <1>1, <1>2, AdmitInv
<1>3. CASE mem.records[o].state = "absent" /\ Admit(o, f, end)
  BY <1>1, <1>3, AdmitInv
<1>4. CASE CompactBreaks(end, {o}, mem, file, results)
  BY <1>1, <1>4, CompactBreaksInv
<1>5. QED
  BY <1>2, <1>3, <1>4 DEF Received

LEMMA RefusedInv ==
    ASSUME IInv, NEW o \in Ops, NEW f \in Fences, Refused(o, f)
    PROVE  IInv'
<1>1. isOpen = TRUE /\ Held(file, results, mem, stopped, halted)
  BY OpenHeld DEF Refused
<1>2. isOpen' = TRUE /\ stopped' = stopped \cup {o} /\ halted' = TRUE
  BY <1>1 DEF Refused, Held
<1>3. Held(file', results', mem', stopped, halted)
  BY <1>1, RoomHeld DEF Refused
<1>4. Held(file', results', mem', stopped \cup {o}, TRUE)
  BY <1>3, StopHeld
<1>5. QED
  BY <1>2, <1>4 DEF IInv

LEMMA AdvanceCursorInv ==
    ASSUME SafeFaults, IInv, NEW c \in 1..MaxCursor, NEW end, AdvanceCursor(c, end)
    PROVE  IInv'
<1> DEFINE next == [file EXCEPT !.cursor = c]  m == Counted(mem)
<1>1. /\ isOpen = TRUE /\ Held(file, results, mem, stopped, halted) /\ results' = results
  BY OpenHeld DEF AdvanceCursor
<1>2. c \in 0..MaxCursor
  BY JournalAssumption
<1>3. /\ m \in Memory /\ m.records = mem.records /\ ~m.detached
      /\ Held(file, results, m, stopped, halted)
  BY <1>1, HeldType, CountedType DEF Held
<1>4. /\ next \in File /\ next.log = file.log /\ ~next.torn /\ ~next.corrupt
  BY <1>1, <1>2, HeldType DEF File, Held
<1>5. Held(next, results, m, stopped, halted)
  BY <1>3, <1>4 DEF Held
<1>6. CASE file' = Appended(mem, file, next, "line") /\ Returns([Counted(mem) EXCEPT !.cursor = c])
  <2> DEFINE n == [m EXCEPT !.cursor = c]
  <2>1. n \in Memory /\ n.records = m.records /\ ~n.detached
    BY <1>2, <1>3 DEF Memory
  <2>2. Held(next, results, n, stopped, halted)
    BY <1>5, <2>1 DEF Held
  <2>3. file' = next
    BY <1>1, <1>6, HeldType DEF Appended, Written
  <2>4. QED
    BY <1>1, <1>6, <2>2, <2>3, ReturnsInv
<1>7. CASE AppendBreaks(end, {}, Counted(mem), file, next)
  <2>1. PICK reach \in {"nothing", "part", "line"} :
            /\ file' = Appended(m, file, next, reach)
            /\ Breaks(end, IF reach = "part" THEN "torn" ELSE "append", {}, m)
    BY <1>7 DEF AppendBreaks
  <2>2. CASE reach = "part"
    <3>1. file' = [file EXCEPT !.torn = TRUE]
      BY <1>3, <2>1, <2>2, HeldType DEF Appended, Written
    <3>2. OnDisk(file', results')
      BY <1>1, <3>1, HeldType, HeldOnDisk DEF OnDisk, File
    <3>3. Breaks(end, "torn", {}, m)
      BY <2>1, <2>2
    <3>4. QED
      BY <1>1, <3>2, <3>3, BreaksInv
  <2>3. CASE reach # "part"
    <3>1. file' \in {file, next}
      BY <1>1, <1>3, <2>1, <2>3, HeldType DEF Appended, Written
    <3>2. Held(file', results', m, stopped \cup {}, TRUE)
      BY <1>1, <1>3, <1>5, <3>1, StopHeld
    <3>3. QED
      BY <1>1, <2>1, <2>3, <3>2, HeldOnDisk, BreaksInv
  <2>4. QED
    BY <2>2, <2>3
<1>8. QED
  BY <1>6, <1>7 DEF AdvanceCursor

\* Opening what a crash left behind.
LEMMA RecoveredHeld ==
    ASSUME OnDisk(file, results)
    PROVE  /\ Held(Rewritten(Recovered), Without(results, Acked(file.log)), Recovered, {}, FALSE)
           /\ \A gone \in SUBSET Acked(file.log) : OnDisk(file, Without(results, gone))
<1> DEFINE live == Live(file.log)  left == Without(results, Acked(file.log))
<1>1. file.log \in [Ops -> Record] /\ file.cursor \in 0..MaxCursor
      /\ results \in [Ops -> Results \cup {NoResult}]
  BY DEF OnDisk, File
<1>2. live \in [Ops -> Record] /\ left \in [Ops -> Results \cup {NoResult}]
  BY <1>1, LiveType, WithoutType
<1>3. Recovered = [records |-> live, cursor |-> file.cursor, appended |-> 0, detached |-> FALSE]
  BY DEF Recovered
<1>4. Recovered \in Memory
  BY <1>1, <1>2, <1>3, JournalAssumption DEF Memory
<1>5. Live(live) = live
  BY <1>1, LiveType DEF Live, Acked, Absent
<1>6. Rewritten(Recovered) = [log |-> live, cursor |-> file.cursor, torn |-> FALSE, corrupt |-> FALSE]
  BY <1>3, <1>5 DEF Rewritten
<1>7. Rewritten(Recovered) \in File
  BY <1>1, <1>2, <1>6 DEF File
<1>8. ASSUME NEW o \in Ops
      PROVE  InStep(o, live[o], live[o], left[o], o \in {})
  BY <1>1, LiveType, WithoutType DEF OnDisk, InStep, Kept, Acked, Absent
<1>9. Held(Rewritten(Recovered), left, Recovered, {}, FALSE)
  <2>1. Recovered.records = live /\ Recovered.detached = FALSE
    BY <1>3
  <2>2. /\ Rewritten(Recovered).log = live
        /\ Rewritten(Recovered).torn = FALSE /\ Rewritten(Recovered).corrupt = FALSE
    BY <1>6
  <2> HIDE DEF live, left
  <2>3. QED
    BY <1>2, <1>4, <1>7, <1>8, <2>1, <2>2 DEF Held
<1>10. ASSUME NEW gone \in SUBSET Acked(file.log)
       PROVE  OnDisk(file, Without(results, gone))
  BY <1>1, <1>10, WithoutType DEF OnDisk, Kept, Acked
<1>11. QED
  BY <1>9, <1>10

LEMMA OpenInv ==
    ASSUME IInv, Open
    PROVE  IInv'
<1>1. mem = Closed /\ stopped = {} /\ halted = FALSE /\ OnDisk(file, results)
  BY DEF IInv, Open
<1>2. QED
  BY <1>1, RecoveredHeld DEF Open, IInv

LEMMA OpenBreaksInv ==
    ASSUME IInv, OpenBreaks
    PROVE  IInv'
<1>1. /\ isOpen = FALSE /\ mem = Closed /\ stopped = {} /\ halted = FALSE
      /\ OnDisk(file, results)
  BY DEF IInv, OpenBreaks
<1>2. PICK gone \in SUBSET Acked(file.log) : results' = Without(results, gone)
  BY DEF OpenBreaks
<1>3. OnDisk(file, results')
  BY <1>1, <1>2, RecoveredHeld
<1>4. CASE file' = file
  BY <1>1, <1>3, <1>4 DEF OpenBreaks, IInv
<1>5. CASE file' = [file EXCEPT !.torn = FALSE]
  <2>1. OnDisk(file', results')
    BY <1>3, <1>5 DEF OnDisk, File
  <2>2. QED
    BY <1>1, <2>1 DEF OpenBreaks, IInv
<1>6. CASE /\ file' = Rewritten(Recovered)
           /\ Acked(file.log) \cap {o \in Ops : results'[o] # NoResult} = {}
  <2>1. results' = Without(results, Acked(file.log))
    BY <1>1, <1>2, <1>6 DEF Without, Acked, OnDisk
  <2>2. OnDisk(file', results')
    BY <1>1, <1>6, <2>1, RecoveredHeld, HeldOnDisk
  <2>3. QED
    BY <1>1, <2>2 DEF OpenBreaks, IInv
<1>7. QED
  BY <1>4, <1>5, <1>6 DEF OpenBreaks

LEMMA CloseInv ==
    ASSUME IInv, Close
    PROVE  IInv'
  BY ShutOnDisk, DiesInv DEF Close, OnDisk

LEMMA RetireInv ==
    ASSUME IInv, Retire
    PROVE  IInv'
<1>1. isOpen = TRUE /\ Held(file, results, mem, stopped, halted)
  BY OpenHeld DEF Retire
<1>2. PICK gone \in SUBSET Acked(mem.records) : results' = Without(results, gone)
  BY DEF Retire
<1>3. CASE file' = file
  BY <1>1, <1>2, <1>3, UnlinkHeld, HeldOnDisk, DiesInv DEF Retire
<1>4. CASE file' = Rewritten(mem) /\ Without(results, Acked(mem.records)) = results'
  BY <1>1, <1>4, CompactHeld, HeldOnDisk, DiesInv DEF Retire
<1>5. CASE file' = NewFile /\ \A o \in Ops : results'[o] = NoResult
  <2>1. results' \in [Ops -> Results \cup {NoResult}]
    BY <1>1, <1>2, HeldType, WithoutType
  <2>2. OnDisk(file', results')
    BY <1>5, <2>1, ClosedType DEF OnDisk, NewFile, Nothing, Absent, Kept
  <2>3. QED
    BY <2>2, DiesInv DEF Retire
<1>6. QED
  BY <1>3, <1>4, <1>5 DEF Retire

-----------------------------------------------------------------------------
LEMMA InitInv == Init => IInv
<1> SUFFICES ASSUME Init PROVE IInv
  OBVIOUS
<1>1. results \in [Ops -> Results \cup {NoResult}]
  BY DEF Init
<1>2. OnDisk(file, results)
  BY <1>1, ClosedType DEF Init, OnDisk, NewFile, Nothing, Absent, Kept
<1>3. QED
  BY <1>2 DEF Init, IInv

LEMMA StutterInv == IInv /\ UNCHANGED vars => IInv'
  BY DEF IInv, vars

LEMMA NextInv ==
    ASSUME SafeFaults, IInv, [Next]_vars
    PROVE  IInv'
<1>1. ASSUME NEW o \in Ops, NEW end \in Ends,
             \/ \E f \in Fences : Received(o, f, end)
             \/ Started(o, end)
             \/ \E r \in Results : Terminal(o, r, end)
             \/ Acknowledge(o, end)
      PROVE  IInv'
  BY <1>1, ReceivedInv, StartedInv, TerminalInv, AcknowledgeInv
<1>2. ASSUME NEW o \in Ops, NEW f \in Fences, Refused(o, f)
      PROVE  IInv'
  BY <1>2, RefusedInv
<1>3. ASSUME NEW c \in 1..MaxCursor, NEW end \in Ends, AdvanceCursor(c, end)
      PROVE  IInv'
  BY <1>3, AdvanceCursorInv
<1>4. CASE Open \/ OpenBreaks \/ Close \/ Retire
  BY <1>4, OpenInv, OpenBreaksInv, CloseInv, RetireInv
<1>5. CASE UNCHANGED vars
  BY <1>5, StutterInv
<1>6. QED
  BY <1>1, <1>2, <1>3, <1>4, <1>5 DEF Next

LEMMA Invariance == ASSUME SafeFaults PROVE Spec => []IInv
<1>1. IInv /\ [Next]_vars => IInv'
  BY NextInv
<1>2. QED
  BY <1>1, InitInv, PTL DEF Spec

(***************************************************************************)
(* The theorems. IInv is stronger than the invariants the runs check: it   *)
(* adds that the handle of an open journal is the file, and the file clean.*)
(***************************************************************************)
LEMMA IInvImplies ==
    ASSUME IInv
    PROVE  TypeOK /\ Durable /\ ResultKept /\ NoOrphan /\ Reopens
<1>1. CASE isOpen = TRUE /\ Held(file, results, mem, stopped, halted)
  <2>1. \A o \in Ops : Believed(o) = mem.records[o]
    BY <1>1 DEF Believed
  <2>2. QED
    BY <1>1, <2>1 DEF Held, InStep, Kept, TypeOK, Durable, ResultKept, NoOrphan, Reopens
<1>2. CASE /\ isOpen = FALSE /\ mem = Closed /\ stopped = {} /\ halted = FALSE
           /\ OnDisk(file, results)
  <2>1. \A o \in Ops : Believed(o) = file.log[o]
    BY <1>2 DEF Believed
  <2>2. QED
    BY <1>2, <2>1, ClosedType DEF OnDisk, Kept, TypeOK, Durable, ResultKept, NoOrphan, Reopens
<1>3. QED
  BY <1>1, <1>2 DEF IInv

\* The state of the journal, its files and its memory has its type.
THEOREM TypeCorrect == ASSUME SafeFaults PROVE Spec => []TypeOK
  BY Invariance, IInvImplies, PTL

\* A crash at any moment loses no record that a call of the journal
\* reported as written (append, transition and compact in journal.rs).
THEOREM RecordsAreDurable == ASSUME SafeFaults PROVE Spec => []Durable
  BY Invariance, IInvImplies, PTL

\* A finished operation always has the result file its record names: the
\* order terminal(), acknowledge() and compact() write in is right.
THEOREM ResultsAreKept == ASSUME SafeFaults PROVE Spec => []ResultKept
  BY Invariance, IInvImplies, PTL

\* No result file outlives the record that explains it.
THEOREM NoResultIsOrphaned == ASSUME SafeFaults PROVE Spec => []NoOrphan
  BY Invariance, IInvImplies, PTL

\* open() never refuses a journal this code wrote.
THEOREM JournalReopens == ASSUME SafeFaults PROVE Spec => []Reopens
  BY Invariance, IInvImplies, PTL

-----------------------------------------------------------------------------
(***************************************************************************)
(* The journal implements the ledger. Under the invariant the entry of an  *)
(* operation is a function of the record a process believes in, so it is   *)
(* enough to follow that record through every action.                      *)
(***************************************************************************)
Shown(r) ==
    IF r.state \in {"absent", "acknowledged"}
      THEN [state |-> "none", fence |-> 0, result |-> NoResult]
      ELSE [state |-> r.state, fence |-> r.fence,
            result |-> IF r.state = "terminal" THEN r.digest ELSE NoResult]

Tracks(o, from, to) == to = from \/ to = Absent \/ Succeeds(o, from, to)

AllTrack == \A p \in Ops : Tracks(p, Believed(p), Believed(p)')

LEMMA BelievedType ==
    ASSUME IInv, NEW o \in Ops
    PROVE  Believed(o) \in Record /\ Kept(Believed(o), results[o])
  BY ZenonT(120), HeldType DEF IInv, Believed, Held, InStep, OnDisk, File

LEMMA EntryShown ==
    ASSUME IInv, NEW o \in Ops
    PROVE  Entry(o) = Shown(Believed(o)) /\ Entry(o) \in Ledger!Entry
<1>1. Believed(o) \in Record /\ Kept(Believed(o), results[o])
  BY BelievedType
<1>2. Entry(o) = Shown(Believed(o))
  BY <1>1 DEF Entry, Shown, Kept
<1>3. Shown(Believed(o)) \in Ledger!Entry
  BY <1>1 DEF Shown, Ledger!Entry, Record, States
<1>4. QED
  BY <1>2, <1>3

\* A record that is followed is a step of the ledger.
LEMMA ShownStep ==
    ASSUME NEW o \in Ops, NEW from \in Record, NEW to \in Record, Tracks(o, from, to),
           to.state = "terminal" => to.digest # NoResult
    PROVE  Shown(to) = Shown(from) \/ Ledger!Step(o, Shown(from), Shown(to))
<1>1. CASE to = from
  BY <1>1
<1>2. CASE to = Absent
  BY <1>2 DEF Shown, Absent, Record, States, Ledger!Step, Ledger!Resolve, Ledger!None
<1>3. CASE Allowed(from.state, to.state) /\ to.fence = from.fence
  <2>1. CASE from.state = "received" /\ to.state = "started"
    <3>1. Shown(to) = [Shown(from) EXCEPT !.state = "started"]
      BY <1>3, <2>1 DEF Shown
    <3>2. QED
      BY <2>1, <3>1 DEF Shown, Ledger!Step, Ledger!Start
  <2>2. CASE from.state = "started" /\ to.state = "terminal"
    <3>1. to.digest \in Results
      BY <2>2 DEF Record
    <3>2. Shown(from) = [state |-> "started", fence |-> from.fence, result |-> NoResult]
      BY <2>2 DEF Shown
    <3>3. Shown(to) = [state |-> "terminal", fence |-> from.fence, result |-> to.digest]
      BY <1>3, <2>2 DEF Shown
    <3>4. QED
      BY <3>1, <3>2, <3>3 DEF Ledger!Step, Ledger!Finish
  <2>3. CASE to.state = "acknowledged"
    BY <1>3, <2>3 DEF Shown, Allowed, Ledger!Step, Ledger!Resolve, Ledger!None
  <2>4. QED
    BY <1>3, <2>1, <2>2, <2>3 DEF Allowed
<1>4. CASE from.state = "absent" /\ to.state = "received"
  BY <1>4 DEF Shown, Ledger!Step, Ledger!Deliver
<1>5. CASE /\ from.state \notin {"absent", "acknowledged"} /\ Replayable(o)
           /\ to.state = "received" /\ to.fence # from.fence
  BY <1>5 DEF Shown, Replayable, Ledger!Step, Ledger!Deliver
<1>6. QED
  BY <1>1, <1>2, <1>3, <1>4, <1>5 DEF Tracks, Succeeds

LEMMA AllShown ==
    IInv => \A o \in Ops : /\ Entry(o) = Shown(Believed(o)) /\ Entry(o) \in Ledger!Entry
                           /\ Believed(o) \in Record /\ Kept(Believed(o), results[o])
  BY EntryShown, BelievedType

LEMMA LedgerStep ==
    ASSUME IInv, IInv', AllTrack
    PROVE  [Ledger!Next]_([o \in Ops |-> Entry(o)])
<1>1. (\A o \in Ops : /\ Entry(o) = Shown(Believed(o)) /\ Entry(o) \in Ledger!Entry
                      /\ Believed(o) \in Record /\ Kept(Believed(o), results[o]))'
  BY AllShown, PTL
<1>2. ASSUME NEW o \in Ops
      PROVE  /\ Entry(o)' = Entry(o) \/ Ledger!Step(o, Entry(o), Entry(o)')
             /\ Entry(o)' \in Ledger!Entry
  <2>1. Entry(o) = Shown(Believed(o)) /\ Believed(o) \in Record
    BY AllShown
  <2>2. /\ Entry(o)' = Shown(Believed(o)') /\ Entry(o)' \in Ledger!Entry
        /\ Believed(o)' \in Record /\ Kept(Believed(o)', results'[o])
    BY <1>1 DEF Shown, Kept
  <2>3. QED
    BY <2>1, <2>2, ShownStep DEF AllTrack, Kept
<1>3. QED
  BY <1>2 DEF Ledger!Next

-----------------------------------------------------------------------------
(***************************************************************************)
(* Following the record through the ends of a call.                        *)
(***************************************************************************)
LEMMA ReturnsTrack ==
    ASSUME isOpen = TRUE, NEW m, Returns(m),
           \A p \in Ops : Tracks(p, mem.records[p], m.records[p])
    PROVE  AllTrack
  BY DEF Returns, AllTrack, Believed

LEMMA DiesTrack ==
    ASSUME isOpen = TRUE, Dies, \A p \in Ops : Tracks(p, mem.records[p], file'.log[p])
    PROVE  AllTrack
  BY DEF Dies, AllTrack, Believed

LEMMA BreaksTrack ==
    ASSUME isOpen = TRUE, NEW end, NEW fault, NEW stopping, NEW m, Breaks(end, fault, stopping, m),
           \A p \in Ops : Tracks(p, mem.records[p], m.records[p]),
           \A p \in Ops : Tracks(p, mem.records[p], file'.log[p])
    PROVE  AllTrack
  BY DiesTrack DEF Breaks, AllTrack, Believed

\* Live records are followed by forgetting the acknowledged ones.
LEMMA LiveTrack ==
    ASSUME NEW recs \in [Ops -> Record], NEW p \in Ops, NEW from, Tracks(p, from, recs[p])
    PROVE  Tracks(p, from, Live(recs)[p])
  BY LiveType DEF Tracks

\* A write that does not complete; next is f or f with one more record.
LEMMA AppendBreaksTrack ==
    ASSUME isOpen = TRUE, NEW end, NEW stopping, NEW m, NEW f \in File, NEW next \in File,
           ~f.torn, ~m.detached, AppendBreaks(end, stopping, m, f, next),
           \A p \in Ops : /\ Tracks(p, mem.records[p], m.records[p])
                          /\ Tracks(p, mem.records[p], f.log[p])
                          /\ Tracks(p, mem.records[p], next.log[p])
    PROVE  AllTrack
<1>1. PICK reach \in {"nothing", "part", "line"} :
          /\ file' = Appended(m, f, next, reach)
          /\ Breaks(end, IF reach = "part" THEN "torn" ELSE "append", stopping, m)
  BY DEF AppendBreaks
<1>2. file' \in {f, next, [f EXCEPT !.torn = TRUE]}
  BY <1>1 DEF Appended, Written
<1>3. file'.log = f.log \/ file'.log = next.log
  BY <1>2 DEF File
<1>4. QED
  BY <1>1, <1>3, BreaksTrack

LEMMA CompactBreaksTrack ==
    ASSUME isOpen = TRUE, NEW end, NEW stopping, NEW m \in Memory, NEW f \in File, NEW rs,
           CompactBreaks(end, stopping, m, f, rs),
           \A p \in Ops : /\ Tracks(p, mem.records[p], m.records[p])
                          /\ Tracks(p, mem.records[p], f.log[p])
    PROVE  AllTrack
<1>1. m.records \in [Ops -> Record]
  BY DEF Memory
<1>2. CASE file' = f /\ Breaks(end, "unlink", stopping, m)
  BY <1>2, BreaksTrack
<1>3. CASE file' = Rewritten(m) /\ Breaks(end, "swap", stopping, [m EXCEPT !.detached = TRUE])
  <2>1. file'.log = Live(m.records)
    BY <1>3 DEF Rewritten
  <2>2. [m EXCEPT !.detached = TRUE].records = m.records
    BY DEF Memory
  <2>3. QED
    BY <1>1, <1>3, <2>1, <2>2, LiveTrack, BreaksTrack
<1>4. QED
  BY <1>2, <1>3 DEF CompactBreaks

\* While the journal is open and no call failed, the file says what the
\* memory says; later it may be one step ahead.
LEMMA FileTracks ==
    ASSUME Held(file, results, mem, stopped, halted), NEW p \in Ops
    PROVE  Tracks(p, mem.records[p], file.log[p])
  BY DEF Held, InStep, Tracks

\* The effect of a transition of o to record on the records.
LEMMA RecordTrack ==
    ASSUME Held(file, results, mem, stopped, halted), NEW o \in Ops, NEW record \in Record,
           Succeeds(o, mem.records[o], record)
    PROVE  /\ Counted(mem) \in Memory /\ Counted(mem).records = mem.records
           /\ ~Counted(mem).detached
           /\ Remembered(o, record) \in Memory
           /\ Logged(o, record) \in File
           /\ Appended(mem, file, Logged(o, record), "line") = Logged(o, record)
           /\ \A p \in Ops : /\ Tracks(p, mem.records[p], mem.records[p])
                             /\ Tracks(p, mem.records[p], Remembered(o, record).records[p])
                             /\ Tracks(p, mem.records[p], Logged(o, record).log[p])
<1>1. /\ Counted(mem) \in Memory /\ Counted(mem).records = mem.records
      /\ ~Counted(mem).detached /\ mem.records \in [Ops -> Record] /\ file.log \in [Ops -> Record]
  BY HeldType, CountedType
<1>2. /\ Remembered(o, record) \in Memory
      /\ Remembered(o, record).records = [mem.records EXCEPT ![o] = record]
  BY <1>1 DEF Remembered, Memory
<1>3. Logged(o, record) \in File /\ Logged(o, record).log = [file.log EXCEPT ![o] = record]
  BY <1>1, HeldType DEF Logged, File
<1>4. Appended(mem, file, Logged(o, record), "line") = Logged(o, record)
  BY HeldType DEF Appended, Written
<1>5. ASSUME NEW p \in Ops
      PROVE  /\ Tracks(p, mem.records[p], mem.records[p])
             /\ Tracks(p, mem.records[p], [mem.records EXCEPT ![o] = record][p])
             /\ Tracks(p, mem.records[p], [file.log EXCEPT ![o] = record][p])
  BY <1>1, FileTracks DEF Tracks
<1>6. QED
  BY <1>1, <1>2, <1>3, <1>4, <1>5

LEMMA DoneTrack ==
    ASSUME Held(file, results, mem, stopped, halted), NEW o \in Ops, NEW record \in Record,
           Succeeds(o, mem.records[o], record)
    PROVE  \A p \in Ops : /\ Tracks(p, mem.records[p], Done(o, record).mem.records[p])
                          /\ Tracks(p, mem.records[p], Done(o, record).file.log[p])
<1> DEFINE m == Remembered(o, record)
<1>1. m.records \in [Ops -> Record]
  BY RecordTrack DEF Memory
<1>2. CASE CompactionDue
  <2>1. /\ Done(o, record).mem.records = Live(m.records)
        /\ Done(o, record).file.log = Live(m.records)
    BY <1>2 DEF Done, Shrunk, Rewritten
  <2>2. QED
    BY <1>1, <2>1, RecordTrack, LiveTrack
<1>3. CASE ~CompactionDue
  <2>1. Done(o, record).mem = m /\ Done(o, record).file = Logged(o, record)
    BY <1>3, RecordTrack DEF Done
  <2>2. QED
    BY <2>1, RecordTrack
<1>4. QED
  BY <1>2, <1>3

LEMMA TransitionBreaksTrack ==
    ASSUME isOpen = TRUE, Held(file, results, mem, stopped, halted), NEW end, NEW rs,
           NEW o \in Ops, NEW record \in Record, Succeeds(o, mem.records[o], record),
           TransitionBreaks(o, record, rs, end)
    PROVE  AllTrack
<1>1. CASE AppendBreaks(end, {o}, Counted(mem), file, Logged(o, record))
  <2>1. \A p \in Ops : /\ Tracks(p, mem.records[p], Counted(mem).records[p])
                       /\ Tracks(p, mem.records[p], file.log[p])
                       /\ Tracks(p, mem.records[p], Logged(o, record).log[p])
    BY RecordTrack, FileTracks
  <2>2. QED
    BY <1>1, <2>1, RecordTrack, HeldType, AppendBreaksTrack
<1>2. CASE CompactBreaks(end, {o}, Remembered(o, record),
                         Appended(mem, file, Logged(o, record), "line"), rs)
  BY <1>2, RecordTrack, CompactBreaksTrack
<1>3. QED
  BY <1>1, <1>2 DEF TransitionBreaks

LEMMA TransitionTrack ==
    ASSUME isOpen = TRUE, Held(file, results, mem, stopped, halted), NEW end, NEW rs,
           NEW o \in Ops, NEW record \in Record, Succeeds(o, mem.records[o], record),
           Transition(o, record, rs, end)
    PROVE  AllTrack
  BY DoneTrack, ReturnsTrack, TransitionBreaksTrack DEF Transition

-----------------------------------------------------------------------------
(***************************************************************************)
(* Following the record through every action.                              *)
(***************************************************************************)
LEMMA StartedTrack ==
    ASSUME IInv, NEW o \in Ops, NEW end, Started(o, end)
    PROVE  AllTrack
<1> DEFINE record == [mem.records[o] EXCEPT !.state = "started"]
<1>1. isOpen = TRUE /\ Held(file, results, mem, stopped, halted)
  BY OpenHeld DEF Started, Callable
<1>2. mem.records[o] \in Record /\ mem.records[o].state = "received"
  BY <1>1, HeldType DEF Started
<1>3. record \in Record /\ Succeeds(o, mem.records[o], record)
  BY <1>2, StateType DEF States, Succeeds, Allowed
<1>4. QED
  BY <1>1, <1>3, TransitionTrack DEF Started

LEMMA TerminalTrack ==
    ASSUME IInv, NEW o \in Ops, NEW r \in Results, NEW end, Terminal(o, r, end)
    PROVE  AllTrack
<1> DEFINE record == [mem.records[o] EXCEPT !.state = "terminal", !.digest = r]
<1>1. isOpen = TRUE /\ Held(file, results, mem, stopped, halted)
  BY OpenHeld DEF Terminal, Callable
<1>2. mem.records[o] \in Record /\ mem.records[o].state = "started"
  BY <1>1, HeldType DEF Terminal
<1>3. record \in Record /\ record.state = "terminal" /\ record.fence = mem.records[o].fence
  BY <1>2 DEF Record, States
<1>4. Succeeds(o, mem.records[o], record)
  BY <1>2, <1>3 DEF Succeeds, Allowed
<1>5. CASE Transition(o, record, [results EXCEPT ![o] = r], end)
  BY <1>1, <1>3, <1>4, <1>5, TransitionTrack
<1>6. CASE Breaks(end, "result", {o}, mem) /\ file' = file
  <2>1. \A p \in Ops : /\ Tracks(p, mem.records[p], mem.records[p])
                       /\ Tracks(p, mem.records[p], file'.log[p])
    BY <1>1, <1>6, FileTracks DEF Tracks
  <2>2. QED
    BY <1>1, <1>6, <2>1, BreaksTrack
<1>7. QED
  BY <1>5, <1>6 DEF Terminal

LEMMA AcknowledgeTrack ==
    ASSUME IInv, NEW o \in Ops, NEW end, Acknowledge(o, end)
    PROVE  AllTrack
<1> DEFINE record == [mem.records[o] EXCEPT !.state = "acknowledged"]
<1>1. isOpen = TRUE /\ Held(file, results, mem, stopped, halted)
  BY OpenHeld DEF Acknowledge, Callable
<1>2. mem.records[o] \in Record /\ mem.records[o].state \in {"received", "started", "terminal"}
  BY <1>1, HeldType DEF Acknowledge, Allowed, Callable
<1>3. record \in Record /\ Succeeds(o, mem.records[o], record)
  BY <1>2, StateType DEF States, Succeeds, Allowed
<1>4. CASE file' = Done(o, record).file /\ Returns(Done(o, record).mem)
  BY <1>1, <1>3, <1>4, DoneTrack, ReturnsTrack
<1>5. CASE TransitionBreaks(o, record, results, end)
  BY <1>1, <1>3, <1>5, TransitionBreaksTrack
<1>6. CASE file' = Done(o, record).file /\ Breaks(end, "unlink", {o}, Done(o, record).mem)
  BY <1>1, <1>3, <1>6, DoneTrack, BreaksTrack
<1>7. QED
  BY <1>4, <1>5, <1>6 DEF Acknowledge

\* Room only forgets acknowledged records.
LEMMA RoomTrack ==
    ASSUME Held(file, results, mem, stopped, halted), stopped = {}
    PROVE  /\ Room.file \in File /\ Room.mem \in Memory
           /\ \A p \in Ops : /\ Tracks(p, mem.records[p], Room.mem.records[p])
                             /\ Tracks(p, mem.records[p], Room.file.log[p])
<1>1. Room.file \in File /\ Room.mem \in Memory
  BY RoomHeld, HeldType
<1>2. CASE Full
  <2>1. /\ Room.mem.records = Live(mem.records) /\ Room.file.log = Live(mem.records)
    BY <1>2 DEF Room, Shrunk, Rewritten
  <2>2. QED
    BY <1>1, <2>1, HeldType, LiveTrack DEF Tracks
<1>3. CASE ~Full
  BY <1>1, <1>3, FileTracks DEF Room, Tracks
<1>4. QED
  BY <1>2, <1>3

LEMMA AdmitTrack ==
    ASSUME isOpen = TRUE, Held(file, results, mem, stopped, halted), stopped = {},
           NEW o \in Ops, NEW f \in Fences, NEW end, Admit(o, f, end),
           mem.records[o].state = "absent" \/ (Moved(o, f) /\ Replayable(o))
    PROVE  AllTrack
<1> DEFINE room == IF mem.records[o].state = "absent" THEN Room
                   ELSE [file |-> file, mem |-> mem, gone |-> {}]
           m == Counted(room.mem)
           n == [m EXCEPT !.records[o] = Delivered(f)]
           next == [room.file EXCEPT !.log[o] = Delivered(f)]
<1>1. /\ Held(room.file, Without(results, room.gone), room.mem, stopped, halted)
      /\ \A p \in Ops : /\ Tracks(p, mem.records[p], room.mem.records[p])
                        /\ Tracks(p, mem.records[p], room.file.log[p])
  <2>1. CASE mem.records[o].state = "absent"
    BY <2>1, RoomHeld, RoomTrack
  <2>2. CASE mem.records[o].state # "absent"
    <3>1. Without(results, {}) = results
      BY HeldType DEF Without
    <3>2. QED
      BY <2>2, <3>1, FileTracks DEF Tracks
  <2>3. QED
    BY <2>1, <2>2
<1>2. Tracks(o, mem.records[o], Delivered(f))
  BY DeliveredType DEF Tracks, Succeeds, Moved
<1>3. /\ room.file \in File /\ room.mem \in Memory /\ ~room.file.torn /\ ~room.mem.detached
      /\ room.file.log \in [Ops -> Record] /\ room.mem.records \in [Ops -> Record]
  BY <1>1, HeldType
<1> HIDE DEF room
<1>4. m \in Memory /\ m.records = room.mem.records /\ ~m.detached
  BY <1>3, CountedType
<1>5. n.records = [room.mem.records EXCEPT ![o] = Delivered(f)]
  BY <1>4 DEF Memory
<1>6. next \in File /\ next.log = [room.file.log EXCEPT ![o] = Delivered(f)]
  BY <1>3, DeliveredType DEF File
<1>7. \A p \in Ops : /\ Tracks(p, mem.records[p], m.records[p])
                     /\ Tracks(p, mem.records[p], n.records[p])
                     /\ Tracks(p, mem.records[p], next.log[p])
  BY <1>1, <1>2, <1>3, <1>4, <1>5, <1>6
<1>8. \/ Returns(n)
      \/ AppendBreaks(end, {o}, m, room.file, next)
  BY DEF Admit, room
<1> HIDE DEF m, n, next
<1>9. CASE Returns(n)
  BY <1>7, <1>9, ReturnsTrack
<1>10. CASE AppendBreaks(end, {o}, m, room.file, next)
  BY <1>1, <1>3, <1>4, <1>6, <1>7, <1>10, AppendBreaksTrack
<1>11. QED
  BY <1>8, <1>9, <1>10

LEMMA ReceivedTrack ==
    ASSUME IInv, NEW o \in Ops, NEW f \in Fences, NEW end, Received(o, f, end)
    PROVE  AllTrack
<1>1. isOpen = TRUE /\ Held(file, results, mem, stopped, halted) /\ stopped = {}
  BY OpenHeld DEF Received, Held
<1>2. CASE Admit(o, f, end) /\ (mem.records[o].state = "absent" \/ (Moved(o, f) /\ Replayable(o)))
  BY <1>1, <1>2, AdmitTrack
<1>3. CASE CompactBreaks(end, {o}, mem, file, results)
  <2>1. \A p \in Ops : /\ Tracks(p, mem.records[p], mem.records[p])
                       /\ Tracks(p, mem.records[p], file.log[p])
    BY <1>1, FileTracks DEF Tracks
  <2>2. QED
    BY <1>1, <1>3, <2>1, HeldType, CompactBreaksTrack
<1>4. QED
  BY <1>2, <1>3 DEF Received

LEMMA RefusedTrack ==
    ASSUME IInv, NEW o \in Ops, NEW f \in Fences, Refused(o, f)
    PROVE  AllTrack
<1>1. isOpen = TRUE /\ Held(file, results, mem, stopped, halted) /\ stopped = {}
  BY OpenHeld DEF Refused, Held
<1>2. isOpen' = TRUE /\ mem' \in {mem, Room.mem}
  BY <1>1 DEF Refused
<1>3. \A p \in Ops : Tracks(p, mem.records[p], mem'.records[p])
  BY <1>1, <1>2, RoomTrack DEF Tracks
<1>4. QED
  BY <1>1, <1>2, <1>3 DEF AllTrack, Believed

LEMMA AdvanceCursorTrack ==
    ASSUME IInv, NEW c \in 1..MaxCursor, NEW end, AdvanceCursor(c, end)
    PROVE  AllTrack
<1> DEFINE next == [file EXCEPT !.cursor = c]  m == Counted(mem)
<1>1. isOpen = TRUE /\ Held(file, results, mem, stopped, halted)
  BY OpenHeld DEF AdvanceCursor
<1>2. m \in Memory /\ m.records = mem.records /\ ~m.detached
  BY <1>1, HeldType, CountedType
<1>3. next \in File /\ next.log = file.log
  BY <1>1, HeldType, JournalAssumption DEF File
<1>4. \A p \in Ops : /\ Tracks(p, mem.records[p], m.records[p])
                     /\ Tracks(p, mem.records[p], file.log[p])
                     /\ Tracks(p, mem.records[p], next.log[p])
  BY <1>1, <1>2, <1>3, FileTracks DEF Tracks
<1>5. CASE Returns([Counted(mem) EXCEPT !.cursor = c])
  <2>1. [m EXCEPT !.cursor = c].records = mem.records
    BY <1>2 DEF Memory
  <2>2. QED
    BY <1>1, <1>2, <1>4, <1>5, <2>1, ReturnsTrack
<1>6. CASE AppendBreaks(end, {}, Counted(mem), file, next)
  BY <1>1, <1>2, <1>3, <1>4, <1>6, HeldType, AppendBreaksTrack
<1>7. QED
  BY <1>5, <1>6 DEF AdvanceCursor

LEMMA ShutTrack ==
    ASSUME IInv, Open \/ OpenBreaks \/ Close \/ Retire
    PROVE  AllTrack
<1>1. CASE Open \/ OpenBreaks
  <2>1. isOpen = FALSE /\ file.log \in [Ops -> Record]
    BY <1>1 DEF Open, OpenBreaks, IInv, OnDisk, File
  <2>2. \A p \in Ops : Tracks(p, file.log[p], Live(file.log)[p]) /\ Tracks(p, file.log[p], file.log[p])
    BY <2>1, LiveTrack DEF Tracks
  <2>3. /\ Recovered.records = Live(file.log)
        /\ Rewritten(Recovered).log = Live(Live(file.log))
        /\ Live(Live(file.log)) = Live(file.log)
    BY <2>1, LiveType DEF Recovered, Rewritten, Live, Acked, Absent
  <2>4. CASE Open
    BY <2>1, <2>2, <2>3, <2>4 DEF Open, AllTrack, Believed
  <2>5. CASE OpenBreaks
    <3>1. file' \in {file, [file EXCEPT !.torn = FALSE], Rewritten(Recovered)} /\ isOpen' = FALSE
      BY <2>1, <2>5 DEF OpenBreaks
    <3>2. [file EXCEPT !.torn = FALSE].log = file.log
      BY <1>1 DEF Open, OpenBreaks, IInv, OnDisk, File
    <3>3. file'.log = file.log \/ file'.log = Live(file.log)
      BY <2>3, <3>1, <3>2
    <3>4. QED
      BY <2>1, <2>2, <3>1, <3>3 DEF AllTrack, Believed
  <2>6. QED
    BY <1>1, <2>4, <2>5
<1>2. CASE Close \/ Retire
  <2>1. isOpen = TRUE /\ Held(file, results, mem, stopped, halted)
    BY <1>2, OpenHeld DEF Close, Retire
  <2>2. CASE Close
    BY <2>1, <2>2, FileTracks, DiesTrack DEF Close
  <2>3. CASE Retire
    <3>1. file'.log \in {file.log, Live(mem.records), Nothing}
      BY <2>3 DEF Retire, Rewritten, NewFile
    <3>2. \A p \in Ops : /\ Tracks(p, mem.records[p], file.log[p])
                         /\ Tracks(p, mem.records[p], Live(mem.records)[p])
                         /\ Tracks(p, mem.records[p], Nothing[p])
      BY <2>1, FileTracks, HeldType, LiveTrack DEF Tracks, Nothing
    <3>3. QED
      BY <2>1, <2>3, <3>1, <3>2, DiesTrack DEF Retire
  <2>4. QED
    BY <1>2, <2>2, <2>3
<1>3. QED
  BY <1>1, <1>2

LEMMA NextTrack ==
    ASSUME IInv, Next
    PROVE  AllTrack
<1>1. ASSUME NEW o \in Ops, NEW end \in Ends,
             \/ \E f \in Fences : Received(o, f, end)
             \/ Started(o, end)
             \/ \E r \in Results : Terminal(o, r, end)
             \/ Acknowledge(o, end)
      PROVE  AllTrack
  BY <1>1, ReceivedTrack, StartedTrack, TerminalTrack, AcknowledgeTrack
<1>2. ASSUME NEW o \in Ops, NEW f \in Fences, Refused(o, f)
      PROVE  AllTrack
  BY <1>2, RefusedTrack
<1>3. ASSUME NEW c \in 1..MaxCursor, NEW end \in Ends, AdvanceCursor(c, end)
      PROVE  AllTrack
  BY <1>3, AdvanceCursorTrack
<1>4. QED
  BY <1>1, <1>2, <1>3, ShutTrack DEF Next

\* The journal implements the ledger: across crashes, failed writes and
\* restarts every operation's entry takes only the steps of its life, and a
\* finished one keeps its result (received, started, terminal, acknowledge,
\* open, compact and retire in journal.rs).
THEOREM JournalImplementsLedger == ASSUME SafeFaults PROVE Spec => LedgerSpec
<1>1. Init => Ledger!Init
  BY DEF Init, Ledger!Init, Ledger!None, Entry, Believed, NewFile, Nothing, Absent
<1>2. ASSUME IInv, IInv', [Next]_vars
      PROVE  [Ledger!Next]_([o \in Ops |-> Entry(o)])
  <2>1. CASE Next
    BY <1>2, <2>1, NextTrack, LedgerStep
  <2>2. CASE UNCHANGED vars
    BY <2>2 DEF vars, Entry, Believed
  <2>3. QED
    BY <1>2, <2>1, <2>2
<1>3. QED
  BY <1>1, <1>2, Invariance, PTL DEF Spec, LedgerSpec, Ledger!Spec

-----------------------------------------------------------------------------
(***************************************************************************)
(* The journals of past assignments: what the cleanup keeps of them, for   *)
(* any journals and any limits.                                            *)
(***************************************************************************)
\* The journal file is never older than an unsent result in it.
Younger(j) == dir[j].saved => dir[j].age <= dir[j].since

\* A journal that a cleanup is about to remove was past its limit when it was
\* examined, and still is unless it was used since.
Justified(c, j) ==
    j \in doomed[c] /\ c \notin touched /\ dir[j].saved /\ dir[j].damage # "line" =>
        dir[j].age >= SavedAge

RetentionIInv ==
    /\ RetentionTypeOK
    /\ \A j \in Journals : Younger(j) /\ \A c \in Cleanups : Justified(c, j)

LEMMA NextDayType ==
    ASSUME NEW m \in Days, NEW n \in Days, m <= n
    PROVE  /\ NextDay(m) \in Days /\ NextDay(m) >= m /\ NextDay(m) <= NextDay(n)
  BY RetentionAssumption DEF NextDay, Days

LEMMA DirectoriesType ==
    /\ 0 \in Days
    /\ Missing \in Directory /\ ~Missing.saved
    /\ Emptied \in Directory /\ ~Emptied.saved
<1>1. 0 \in Days
  BY RetentionAssumption DEF Days
<1>2. QED
  BY <1>1 DEF Missing, Emptied, Directory, Damage

LEMMA RetentionInitInv == RetentionInit => RetentionIInv
<1> SUFFICES ASSUME RetentionInit PROVE RetentionIInv
  OBVIOUS
<1>1. RetentionTypeOK
  BY DirectoriesType DEF RetentionInit, RetentionTypeOK
<1>2. \A j \in Journals : ~dir[j].saved
  BY DirectoriesType DEF RetentionInit
<1>3. QED
  BY <1>1, <1>2 DEF RetentionIInv, Younger, Justified

\* Days pass for every journal at once.
LEMMA DayKeeps == ASSUME RetentionIInv, Day PROVE RetentionIInv'
<1> USE RetentionAssumption
<1> DEFINE next(j) == [dir[j] EXCEPT !.age = IF Present(j) THEN NextDay(@) ELSE @,
                                     !.since = IF dir[j].saved THEN NextDay(@) ELSE @]
<1>1. dir' = [j \in Journals |-> next(j)] /\ UNCHANGED <<stuck, serving, ahead, doomed, touched>>
  BY DEF Day, cleanup
<1>2. ASSUME NEW j \in Journals
      PROVE  /\ next(j) \in Directory
             /\ next(j).saved = dir[j].saved /\ next(j).damage = dir[j].damage
             /\ next(j).age >= dir[j].age
             /\ next(j).saved => next(j).age <= next(j).since
  <2>1. dir[j] \in Directory /\ Younger(j)
    BY DEF RetentionIInv, RetentionTypeOK
  <2>2. /\ dir[j].age \in Days /\ dir[j].since \in Days
        /\ NextDay(dir[j].age) \in Days /\ NextDay(dir[j].age) >= dir[j].age
        /\ NextDay(dir[j].since) \in Days /\ NextDay(dir[j].since) >= dir[j].since
        /\ dir[j].saved => NextDay(dir[j].age) <= NextDay(dir[j].since)
    BY <2>1 DEF Directory, Younger, NextDay, Days
  <2>3. /\ (IF Present(j) THEN NextDay(dir[j].age) ELSE dir[j].age) \in Days
        /\ (IF dir[j].saved THEN NextDay(dir[j].since) ELSE dir[j].since) \in Days
    BY <2>2
  <2>4. /\ next(j) \in Directory
        /\ next(j).saved = dir[j].saved /\ next(j).damage = dir[j].damage
        /\ next(j).age = IF Present(j) THEN NextDay(dir[j].age) ELSE dir[j].age
        /\ next(j).since = IF dir[j].saved THEN NextDay(dir[j].since) ELSE dir[j].since
    BY <2>1, <2>3 DEF Directory
  <2>5. next(j).age >= dir[j].age /\ (next(j).saved => next(j).age <= next(j).since)
    BY <2>1, <2>2, <2>4 DEF Younger, Days
  <2>6. QED
    BY <2>4, <2>5
<1> HIDE DEF next
<1>3. QED
  BY <1>1, <1>2 DEF RetentionIInv, RetentionTypeOK, Younger, Justified, Directory, Days

\* Whoever writes to a journal makes it new, and the cleanups that doomed it
\* are marked.
LEMMA UsesKeeps ==
    ASSUME RetentionIInv, NEW j \in Journals, NEW saved \in BOOLEAN, NEW since \in Days,
           Uses(j, saved, since), serving' \subseteq Journals
    PROVE  RetentionIInv'
<1> USE RetentionAssumption
<1>1. dir[j] \in Directory /\ dir \in [Journals -> Directory]
  BY DEF RetentionIInv, RetentionTypeOK
<1>2. dir' = [dir EXCEPT ![j] = [dir[j] EXCEPT !.present = TRUE, !.saved = saved, !.age = 0,
                                               !.since = since]]
  BY <1>1 DEF Uses
<1>3. /\ dir'[j] \in Directory /\ dir'[j].age = 0 /\ dir'[j].since \in Days
      /\ \A i \in Journals \ {j} : dir'[i] = dir[i]
      /\ dir' \in [Journals -> Directory]
  <2>1. [dir[j] EXCEPT !.present = TRUE, !.saved = saved, !.age = 0, !.since = since] \in Directory
    BY <1>1, DirectoriesType DEF Directory
  <2>2. QED
    BY <1>1, <1>2, <2>1
<1>4. RetentionTypeOK'
  BY <1>3 DEF Uses, RetentionIInv, RetentionTypeOK
<1>5. ASSUME NEW i \in Journals
      PROVE  Younger(i)' /\ \A c \in Cleanups : Justified(c, i)'
  <2>1. CASE i = j
    BY <1>3, <2>1 DEF Uses, RetentionIInv, RetentionTypeOK, Younger, Justified, Days
  <2>2. CASE i # j
    BY <1>3, <2>2 DEF Uses, RetentionIInv, RetentionTypeOK, Younger, Justified
  <2>3. QED
    BY <2>1, <2>2
<1>6. QED
  BY <1>4, <1>5 DEF RetentionIInv

\* A result that stays unsent has an age of the model.
LEMMA OlderType ==
    ASSUME RetentionIInv, NEW j \in Journals, NEW saved \in BOOLEAN, NEW since \in Older(j, saved)
    PROVE  since \in Days
<1>1. dir[j].since \in Days
  BY DEF RetentionIInv, RetentionTypeOK, Directory
<1>2. QED
  BY <1>1, RetentionAssumption DEF Older, Days

\* A directory that is gone or emptied holds no result, and one that is left as
\* it was is as it was.
LEMMA RemovalKeeps ==
    ASSUME RetentionIInv, NEW j \in Journals,
           dir' \in {dir, [dir EXCEPT ![j] = Missing], [dir EXCEPT ![j] = Emptied]},
           stuck' \subseteq Journals, serving' \subseteq Journals,
           ahead' \in [Cleanups -> SUBSET Journals], doomed' \in [Cleanups -> SUBSET Journals],
           touched' \subseteq Cleanups,
           \A c \in Cleanups : doomed'[c] = {} \/ (doomed'[c] = doomed[c] /\ (c \in touched => c \in touched'))
    PROVE  RetentionIInv'
<1>1. dir' \in [Journals -> Directory]
  BY DirectoriesType DEF RetentionIInv, RetentionTypeOK
<1>2. \A i \in Journals : dir'[i] = dir[i] \/ ~dir'[i].saved
  BY DirectoriesType DEF RetentionIInv, RetentionTypeOK
<1>3. QED
  BY <1>1, <1>2 DEF RetentionIInv, RetentionTypeOK, Younger, Justified

LEMMA RetentionNextInv ==
    ASSUME RetentionIInv, [RetentionNext]_retained
    PROVE  RetentionIInv'
<1>1. /\ dir \in [Journals -> Directory] /\ stuck \subseteq Journals /\ serving \subseteq Journals
      /\ ahead \in [Cleanups -> SUBSET Journals] /\ doomed \in [Cleanups -> SUBSET Journals]
      /\ touched \subseteq Cleanups
      /\ \A j \in Journals : Younger(j) /\ \A c \in Cleanups : Justified(c, j)
  BY DEF RetentionIInv, RetentionTypeOK
<1>2. CASE Day
  BY <1>2, DayKeeps
<1>3. ASSUME NEW j \in Journals, Serve(j)
      PROVE  RetentionIInv'
  <2>1. dir[j].saved \in BOOLEAN /\ dir[j].since \in Days /\ serving' \subseteq Journals
    BY <1>1, <1>3 DEF Serve, Directory
  <2>2. QED
    BY <1>3, <2>1, UsesKeeps DEF Serve
<1>4. ASSUME NEW j \in Journals, Append(j) \/ Deliver(j)
      PROVE  RetentionIInv'
  <2>1. PICK saved \in BOOLEAN : \E since \in Older(j, saved) : Uses(j, saved, since)
    BY <1>4 DEF Append, Deliver
  <2>2. PICK since \in Older(j, saved) : Uses(j, saved, since)
    BY <2>1
  <2>3. serving' \subseteq Journals
    BY <1>1, <1>4 DEF Append, Deliver
  <2>4. QED
    BY <2>2, <2>3, OlderType, UsesKeeps
<1>5. ASSUME NEW j \in Journals, Leave(j)
      PROVE  RetentionIInv'
  <2>1. dir' = dir \/ dir' = [dir EXCEPT ![j] = Missing]
    BY <1>5 DEF Leave
  <2>2. serving' \subseteq Journals /\ UNCHANGED <<stuck, ahead, doomed, touched>>
    BY <1>1, <1>5 DEF Leave, cleanup
  <2>3. QED
    BY <1>1, <2>1, <2>2, RemovalKeeps
<1>6. ASSUME NEW j \in Journals, Break(j)
      PROVE  RetentionIInv'
  <2>1. PICK damage \in Damage \ {"none"} : dir' = [dir EXCEPT ![j].damage = damage]
    BY <1>6 DEF Break
  <2>2. /\ dir'[j] = [dir[j] EXCEPT !.damage = damage]
        /\ \A i \in Journals \ {j} : dir'[i] = dir[i]
        /\ dir' = [i \in Journals |-> IF i = j THEN dir'[j] ELSE dir[i]]
    BY <1>1, <2>1
  <2>3. /\ dir'[j] \in Directory /\ dir[j].damage = "none" /\ dir'[j].saved = dir[j].saved
        /\ dir'[j].age = dir[j].age /\ dir'[j].since = dir[j].since
    BY <1>1, <1>6, <2>2 DEF Directory, Break
  <2>4. UNCHANGED <<stuck, serving, ahead, doomed, touched>>
    BY <1>6 DEF Break, cleanup
  <2>5. QED
    BY <1>1, <2>2, <2>3, <2>4 DEF RetentionIInv, RetentionTypeOK, Younger, Justified
<1>7. ASSUME NEW j \in Journals, Stick(j)
      PROVE  RetentionIInv'
  BY <1>1, <1>7 DEF Stick, cleanup, RetentionIInv, RetentionTypeOK, Younger, Justified
<1>8. ASSUME NEW c \in Cleanups, List(c)
      PROVE  RetentionIInv'
  BY <1>1, <1>8 DEF List, RetentionIInv, RetentionTypeOK, Younger, Justified
<1>9. ASSUME NEW c \in Cleanups, NEW j \in Journals, Examine(c, j)
      PROVE  RetentionIInv'
  <2>1. UNCHANGED <<dir, stuck, serving>> /\ ahead' \in [Cleanups -> SUBSET Journals]
        /\ touched' = touched \ {c}
    BY <1>1, <1>9 DEF Examine
  <2>2. /\ doomed' \in [Cleanups -> SUBSET Journals]
        /\ \A d \in Cleanups \ {c} : doomed'[d] = doomed[d]
        /\ \A i \in doomed'[c] : Abandoned(i)
    BY <1>1, <1>9 DEF Examine
  <2>3. \A i \in Journals : Justified(c, i)'
    BY <1>1, <2>1, <2>2 DEF Justified, Abandoned, HoldsSavedResult, Directory
  <2>4. \A d \in Cleanups \ {c}, i \in Journals : Justified(d, i)'
    BY <1>1, <2>1, <2>2 DEF Justified
  <2>5. QED
    BY <1>1, <2>1, <2>2, <2>3, <2>4 DEF RetentionIInv, RetentionTypeOK, Younger
<1>10. ASSUME NEW c \in Cleanups, NEW j \in Journals, Remove(c, j) \/ RemoveFails(c, j)
       PROVE  RetentionIInv'
  <2>1. dir' \in {dir, [dir EXCEPT ![j] = Missing], [dir EXCEPT ![j] = Emptied]}
    BY <1>10 DEF Remove, RemoveFails
  <2>2. /\ UNCHANGED <<stuck, serving, ahead>> /\ touched' = touched \ {c}
        /\ doomed' = [doomed EXCEPT ![c] = {}]
    BY <1>10 DEF Remove, RemoveFails
  <2>3. /\ doomed' \in [Cleanups -> SUBSET Journals]
        /\ \A d \in Cleanups : doomed'[d] = {} \/ (doomed'[d] = doomed[d] /\ (d \in touched => d \in touched'))
    BY <1>1, <2>2
  <2>4. QED
    BY <1>1, <2>1, <2>2, <2>3, RemovalKeeps
<1>11. CASE UNCHANGED retained
  BY <1>1, <1>11 DEF retained, cleanup, RetentionIInv, RetentionTypeOK, Younger, Justified
<1>12. QED
  BY <1>2, <1>3, <1>4, <1>5, <1>6, <1>7, <1>8, <1>9, <1>10, <1>11 DEF RetentionNext, Cleans

\* Every variable keeps its type.
THEOREM RetentionTypeCorrect == RetentionSpec => []RetentionTypeOK
<1>1. RetentionIInv => RetentionTypeOK
  BY DEF RetentionIInv
<1>2. QED
  BY RetentionInitInv, RetentionNextInv, <1>1, PTL DEF RetentionSpec

\* What a cleanup has in hand holds no readable result that is due to be kept,
\* unless the journal was used since.
LEMMA SparedUnlessPast ==
    ASSUME RetentionIInv, NEW c \in Cleanups, NEW j \in Journals,
           j \in doomed[c], dir[j].saved, dir[j].damage # "line"
    PROVE  dir[j].since >= SavedAge \/ c \in touched
<1>1. dir[j] \in Directory /\ Younger(j) /\ Justified(c, j)
  BY DEF RetentionIInv, RetentionTypeOK
<1>2. QED
  BY <1>1, RetentionAssumption DEF Younger, Justified, Directory, Days

\* remove_abandoned() spares a readable journal with an unsent result for the
\* longer limit, whatever the sweeps, the assignments, other cleanups and the
\* damage done to other journals, unless the journal was used after this
\* cleanup examined it.
THEOREM CleanupSparesUnsent == RetentionSpec => UnsentOutlivesCleanup
<1>1. RetentionIInv /\ [RetentionNext]_retained =>
        [\A c \in Cleanups, j \in Journals :
            /\ j \in doomed[c] /\ j \notin doomed'[c]
            /\ dir[j].saved /\ dir[j].damage # "line" /\ ~dir'[j].saved
            => dir[j].since >= SavedAge \/ c \in touched]_retained
  BY SparedUnlessPast
<1>2. QED
  BY RetentionInitInv, RetentionNextInv, <1>1, PTL DEF RetentionSpec, UnsentOutlivesCleanup
=============================================================================
