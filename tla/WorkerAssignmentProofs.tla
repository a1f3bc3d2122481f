----------------------- MODULE WorkerAssignmentProofs -----------------------
(***************************************************************************)
(* Proofs about WorkerAssignment for any operations and any number of      *)
(* leases. The inductive invariant Inv says how the history of runs, the   *)
(* journal, the tasks and the server's receipts fit together: a record is  *)
(* at the last fence at which its operation may have run, what is handed   *)
(* out without a record never ran, and a receipt that recovery has read    *)
(* holds at least as much when recovery acts on it.                        *)
(***************************************************************************)
EXTENDS WorkerAssignment, TLAPS

\* The phases of a session that has the lease, and those with tasks or records
\* in hand.
Leased == {"reconcile", "serving", "joining"}
Serving == {"serving", "joining"}
Recovering == {"sweep", "reconcile"}
Over == {"closed", "gone"}
Blank == {"none", "acknowledged"}

\* Operations run, and are delivered, only while the assignment is served, and
\* records are recovered only before that.
Phased ==
    /\ lease \in {0, issued}
    /\ phase \in Leased => fence = issued /\ fence > 0
    /\ phase \notin Serving => batch = {} /\ Idle
    /\ phase \notin Recovering => todo = {} /\ asked = 0
    /\ asked # 0 => asked \in todo
\* What a reply brings is past the cursor, and what has a task is not.
Cursor ==
    /\ \A o \in batch : o > after
    /\ \A o \in Ops : task[o] # "none" => o <= after
\* The record of an operation is where its task is, at the fence of the lease.
InStepAt(o) ==
    /\ task[o] = "queued" => journal[o].state \in {"received", "started", "terminal"}
    /\ task[o] \in {"begun", "running", "ran"} => journal[o].state = "started"
    /\ task[o] \in {"saved", "confirmed"} => journal[o].state = "terminal"
    /\ task[o] \notin {"none", "failed"} => journal[o].fence = fence
    /\ task[o] = "confirmed" => receipt[o] \in Over
InStep == \A o \in Ops : InStepAt(o)
\* The operation has not run: at no fence from its record's on, and a mutation
\* at none at all.
Unrun(o) == \A f \in Fences : f >= journal[o].fence \/ ~Replayable(o) => ran[o][f] = 0
NeverRan(o) == \A f \in Fences : ran[o][f] = 0
\* A record is at the last fence at which its operation may have run.
RecordedAt(o) ==
    /\ journal[o].fence <= issued
    /\ journal[o].state \notin Blank =>
        /\ journal[o].fence > 0
        /\ \A f \in Fences : f > journal[o].fence => ran[o][f] = 0
    /\ journal[o].state = "received" \/ task[o] \in {"begun", "running"} => Unrun(o)
Recorded == \A o \in Ops : RecordedAt(o)
\* What is handed out without a record has never run.
Offered == \A o \in batch : journal[o].state \in Blank => NeverRan(o)
\* A receipt that was read holds at least as much by now.
Seen == asked # 0 =>
    /\ saw \in {"taken", "closed"} => receipt[asked] \in Over
    /\ saw \in {"unknown", "refused"} => receipt[asked] \in Over \cup {"unknown"}

Inv ==
    /\ TypeOK /\ Phased /\ Cursor /\ InStep /\ Recorded /\ Offered /\ Seen
    /\ MutationRunsOnce /\ RunsOncePerFence /\ RememberedWhileOpen

-----------------------------------------------------------------------------
(* Types. *)

LEMMA InitTyped == Init => TypeOK
<1> SUFFICES ASSUME Init PROVE TypeOK
  OBVIOUS
<1>1. deferred \in BOOLEAN /\ cancel \in BOOLEAN
  BY Zenon DEF Init
<1>2. ran \in [Ops -> [Fences -> 0..2]]
  BY DEF Init
<1> QED
  BY <1>1, <1>2, AssignmentAssumption
  DEF Init, TypeOK, None, Record, Receipts, Open, Phases, Tasks

\* A marked journal differs in one state.
LEMMA MarkedType ==
    ASSUME TypeOK, NEW o \in Ops,
           NEW s \in {"none", "received", "started", "terminal", "acknowledged"}
    PROVE  /\ Marked(o, s) \in [Ops -> Record]
           /\ Marked(o, s)[o].state = s
           /\ \A p \in Ops : /\ Marked(o, s)[p].fence = journal[p].fence
                             /\ p # o => Marked(o, s)[p] = journal[p]
<1>1. journal \in [Ops -> Record]
  BY DEF TypeOK
<1>2. /\ journal[o] \in Record
      /\ [journal[o] EXCEPT !.state = s] \in Record
      /\ [journal[o] EXCEPT !.state = s].state = s
      /\ [journal[o] EXCEPT !.state = s].fence = journal[o].fence
  BY <1>1 DEF Record
<1>3. Marked(o, s) = [journal EXCEPT ![o] = [journal[o] EXCEPT !.state = s]]
  BY Zenon DEF Marked
<1> QED
  BY <1>1, <1>2, <1>3

LEMMA ShutType ==
    ASSUME NEW j \in [Ops -> Record]
    PROVE  /\ Shut(j) \in [Ops -> Record]
           /\ \A o \in Ops : Shut(j)[o] = IF j[o].state = "acknowledged" THEN None ELSE j[o]
<1>1. None \in Record
  BY AssignmentAssumption DEF None, Record
<1> QED
  BY <1>1 DEF Shut

LEMMA FlagsStep ==
    ASSUME TypeOK, [Next]_vars
    PROVE  deferred' \in BOOLEAN /\ cancel' \in BOOLEAN
<1> USE DEF TypeOK
<1>1. ASSUME NEW o \in Ops, Read(o) \/ ReadFails(o) \/ Resend(o) \/ ResendFails(o) \/ Settle(o)
      PROVE  deferred' \in BOOLEAN /\ cancel' \in BOOLEAN
  BY <1>1, Zenon
  DEF Read, ReadFails, Resend, ResendFails, Settle, Fails, Abandon, Returns, Dropped, control
<1>2. ASSUME NEW o \in Ops, Execute(o)
      PROVE  deferred' \in BOOLEAN /\ cancel' \in BOOLEAN
  BY <1>2, Zenon
  DEF Execute, Decline, Redeliver, Begin, Start, Run, Save, Complete, Acknowledge,
      JournalFails, Quiet, control, recovery
<1>3. ASSUME NEW o \in Ops, \/ GiveUp(o) \/ CloseReceipt(o) \/ Forget(o)
                            \/ Deliver(o) \/ RefuseDelivery(o) \/ Collect(o)
      PROVE  deferred' \in BOOLEAN /\ cancel' \in BOOLEAN
  BY <1>3, Zenon
  DEF GiveUp, CloseReceipt, Forget, Deliver, RefuseDelivery, Collect, worker, control, recovery
<1>4. ASSUME \/ Expire \/ Sweep \/ SweepStops \/ SessionEnds \/ ReconcileFails
             \/ ReconcileDrained \/ Serve \/ Mislaid \/ Cancel \/ Finish \/ Crash
             \/ \E heard \in BOOLEAN : Claim(heard)
             \/ \E ops \in SUBSET Ops : Poll(ops)
             \/ UNCHANGED vars
      PROVE  deferred' \in BOOLEAN /\ cancel' \in BOOLEAN
  BY <1>4, Zenon
  DEF Expire, Sweep, SweepStops, SessionEnds, ReconcileFails, ReconcileDrained, Serve,
      Mislaid, Cancel, Finish, Crash, Claim, Poll, Abandon, Returns, worker, control,
      recovery, vars
<1>5. CASE SweepEnds
  BY <1>5, Zenon DEF SweepEnds
<1>6. CASE LeaveLoop
  BY <1>6, Zenon DEF LeaveLoop, recovery
<1> QED
  BY <1>1, <1>2, <1>3, <1>4, <1>5, <1>6, Zenon DEF Next

\* What a serve task leaves behind as it returns.
LEMMA ReturnsType ==
    ASSUME TypeOK, Returns
    PROVE  /\ phase' \in Phases /\ journal' \in [Ops -> Record]
           /\ fence' \in 0..MaxFence /\ after' = 0 /\ batch' = {} /\ drain' = "no"
BY AssignmentAssumption, ShutType DEF TypeOK, Returns, Phases

LEMMA RanType ==
    ASSUME TypeOK, NEW o \in Ops, Ran(o)
    PROVE  ran' \in [Ops -> [Fences -> 0..2]]
<1>1. ran[o] \in [Fences -> 0..2]
  BY DEF TypeOK
<1>2. [ran[o] EXCEPT ![fence] = IF @ < 2 THEN @ + 1 ELSE @] \in [Fences -> 0..2]
  <2>1. \A n \in 0..2 : (IF n < 2 THEN n + 1 ELSE n) \in 0..2
    OBVIOUS
  <2> DEFINE r == ran[o]
             m == IF r[fence] < 2 THEN r[fence] + 1 ELSE r[fence]
  <2>2. fence \in Fences => m \in 0..2
    BY <1>1, <2>1
  <2> HIDE DEF m
  <2>3. [r EXCEPT ![fence] = m] \in [Fences -> 0..2]
    BY <1>1, <2>2
  <2> QED
    BY <2>3 DEF m
<1>3. ran' = [ran EXCEPT ![o] = [ran[o] EXCEPT ![fence] = IF @ < 2 THEN @ + 1 ELSE @]]
  BY Zenon DEF Ran
<1> QED
  BY <1>2, <1>3 DEF TypeOK

LEMMA TypeStep ==
    ASSUME TypeOK, [Next]_vars
    PROVE  TypeOK'
<1> DEFINE Flags == deferred' \in BOOLEAN /\ cancel' \in BOOLEAN
<1>0. Flags
  BY FlagsStep
<1> HIDE DEF Flags
<1> USE AssignmentAssumption DEF TypeOK, Receipts, Open
<1>1. CASE \E heard \in BOOLEAN : Claim(heard)
  <2>1. issued' \in 0..MaxFence /\ lease' = issued'
    BY <1>1 DEF Claim
  <2>2. phase' \in Phases /\ fence' \in 0..MaxFence /\ todo' \subseteq Ops
    BY <1>1, <2>1 DEF Claim, Phases
  <2> QED
    BY <1>0, <1>1, <2>1, <2>2 DEF Claim, Flags
<1>2. CASE Expire
  BY <1>0, <1>2 DEF Flags, Expire, worker, control, recovery
<1>3. CASE Sweep
  BY <1>0, <1>3 DEF Flags, Sweep, server, Phases
<1>4. CASE SweepEnds
  BY <1>0, <1>4, ShutType DEF Flags, SweepEnds, server, Phases
<1>5. CASE SweepStops
  BY <1>0, <1>5, ShutType DEF Flags, SweepStops, server, Phases
<1>6. CASE SessionEnds
  BY <1>0, <1>6 DEF Flags, SessionEnds, server, recovery, Phases
<1>7. CASE Serve
  BY <1>0, <1>7 DEF Flags, Serve, server, recovery, Phases
<1>8. CASE Mislaid
  BY <1>0, <1>8 DEF Flags, Mislaid, server, recovery
<1>9. CASE Cancel
  BY <1>0, <1>9 DEF Flags, Cancel, server, recovery
<1>10. CASE LeaveLoop
  BY <1>0, <1>10 DEF Flags, LeaveLoop, server, recovery, Phases
<1>11. CASE ReconcileFails
  BY <1>0, <1>11, ReturnsType DEF Flags, ReconcileFails, server, Abandon
<1>12. CASE ReconcileDrained
  BY <1>0, <1>12, ReturnsType DEF Flags, ReconcileDrained, Abandon, Released
<1>13. CASE Finish
  BY <1>0, <1>13, ReturnsType DEF Flags, Finish, recovery, Released
<1>14. CASE Crash
  BY <1>0, <1>14, ShutType DEF Flags, Crash, server, Phases, Tasks
<1>15. ASSUME NEW ops \in SUBSET Ops, Poll(ops)
      PROVE  TypeOK'
  BY <1>15 DEF Poll, recovery
<1>16. ASSUME NEW o \in Ops, GiveUp(o) \/ CloseReceipt(o) \/ Forget(o)
      PROVE  TypeOK'
  BY ZenonT(60), <1>16 DEF GiveUp, CloseReceipt, Forget, worker, control, recovery
<1>17. ASSUME NEW o \in Ops, Deliver(o)
      PROVE  TypeOK'
  BY <1>0, <1>17 DEF Flags, Deliver, Admitted, Admission, server, recovery, Tasks, Record
<1>18. ASSUME NEW o \in Ops, RefuseDelivery(o)
      PROVE  TypeOK'
  BY <1>0, <1>18 DEF Flags, RefuseDelivery, server, recovery, Phases
<1>19. ASSUME NEW o \in Ops, Collect(o)
      PROVE  TypeOK'
  BY <1>0, <1>19 DEF Flags, Collect, server, recovery, Tasks, Phases
<1>20. ASSUME NEW o \in Ops, Read(o) \/ ReadFails(o) \/ Resend(o) \/ ResendFails(o) \/ Settle(o)
      PROVE  TypeOK'
  <2>1. receipt' \in [Ops -> Receipts] /\ UNCHANGED <<lease, issued, task, ran>>
    BY <1>20 DEF Read, ReadFails, Resend, ResendFails, Settle, Takes, Refuses, Unheard, server
  <2>2. todo' \subseteq Ops /\ asked' \in Ops \cup {0}
    BY <1>20 DEF Read, ReadFails, Resend, ResendFails, Settle, Dropped, Fails, Abandon
  <2>3. saw' \in Receipts \cup {"none", "taken", "refused"}
    BY <1>20 DEF Read, ReadFails, Resend, ResendFails, Settle, Dropped, Fails, Abandon
  <2>4. CASE Returns
    BY <1>0, <2>1, <2>2, <2>3, <2>4, ReturnsType DEF Flags
  <2>5. CASE ~Returns
    <3>1. UNCHANGED control /\ (journal' = journal \/ journal' = Marked(o, "acknowledged"))
      BY <1>20, <2>5 DEF Read, ReadFails, Resend, ResendFails, Settle, Fails, Abandon
    <3> QED
      BY <1>0, <2>1, <2>2, <2>3, <3>1, MarkedType DEF Flags, control
  <2> QED
    BY <2>4, <2>5
<1>21. ASSUME NEW o \in Ops, Execute(o)
      PROVE  TypeOK'
  <2>1. task' \in [Ops -> Tasks]
    BY <1>21
    DEF Execute, Decline, Redeliver, Begin, Start, Run, Save, Complete, Acknowledge,
        JournalFails, Moves, Tasks
  <2>2. receipt' \in [Ops -> Receipts]
    BY <1>21
    DEF Execute, Decline, Redeliver, Begin, Start, Run, Save, Complete, Acknowledge,
        JournalFails, Takes, Unheard, server
  <2>3. ran' \in [Ops -> [Fences -> 0..2]]
    BY <1>21, RanType
    DEF Execute, Decline, Redeliver, Begin, Start, Run, Save, Complete, Acknowledge, JournalFails
  <2>4. journal' \in [Ops -> Record]
    BY <1>21, MarkedType, ShutType
    DEF Execute, Decline, Redeliver, Begin, Start, Run, Save, Complete, Acknowledge,
        JournalFails, Becomes
  <2>5. /\ UNCHANGED <<lease, issued, phase, fence, after, batch, todo, asked, saw>>
        /\ drain' \in {"no", "assignment", "session"}
    BY <1>21
    DEF Execute, Decline, Redeliver, Begin, Start, Run, Save, Complete, Acknowledge,
        JournalFails, Quiet, server, control, recovery
  <2> QED
    BY <1>0, <2>1, <2>2, <2>3, <2>4, <2>5 DEF Flags
<1>22. CASE UNCHANGED vars
  BY <1>22 DEF vars
<1> QED
  BY <1>1, <1>2, <1>3, <1>4, <1>5, <1>6, <1>7, <1>8, <1>9, <1>10, <1>11, <1>12, <1>13,
     <1>14, <1>15, <1>16, <1>17, <1>18, <1>19, <1>20, <1>21, <1>22 DEF Next

-----------------------------------------------------------------------------
(* The inductive invariant. *)

LEMMA InitInv == Init => Inv
<1> SUFFICES ASSUME Init PROVE Inv
  OBVIOUS
<1>1. TypeOK
  BY InitTyped
<1>2. \A o \in Ops : NeverRan(o)
  BY DEF Init, NeverRan
<1>3. Phased /\ Cursor /\ InStep /\ Seen /\ Offered
  BY DEF Init, Phased, Cursor, InStep, InStepAt, Seen, Offered, Idle, Leased, Recovering
<1>4. Recorded
  BY DEF Init, Recorded, RecordedAt, None, Blank
<1>5. MutationRunsOnce /\ RunsOncePerFence /\ RememberedWhileOpen
  BY <1>2 DEF NeverRan, MutationRunsOnce, RunsOncePerFence, RememberedWhileOpen
<1> QED
  BY <1>1, <1>3, <1>4, <1>5 DEF Inv

\* The parts of the invariant that are not about the history of runs.
Held == Phased /\ Cursor /\ InStep /\ Recorded /\ Offered /\ Seen /\ RememberedWhileOpen
History == MutationRunsOnce /\ RunsOncePerFence

\* The server only ever settles receipts, and takes leases away.
LEMMA ServerHolds ==
    ASSUME Inv,
           \/ Expire
           \/ \E o \in Ops : GiveUp(o) \/ CloseReceipt(o) \/ Forget(o)
    PROVE  Held'
<1> USE AssignmentAssumption
    DEF Inv, Held, TypeOK, Phased, Cursor, InStep, InStepAt, Recorded, RecordedAt, Offered, Seen,
        RememberedWhileOpen, Idle, Leased, Serving, Recovering, Open, Over, Blank, Unrun,
        NeverRan, Replayable, Record, None, Fences
<1>1. CASE Expire
  BY <1>1 DEF Expire, worker, control, recovery
<1>2. ASSUME NEW o \in Ops, GiveUp(o)
      PROVE  Held'
  BY <1>2 DEF GiveUp, worker, control, recovery
<1>3. ASSUME NEW o \in Ops, CloseReceipt(o)
      PROVE  Held'
  BY <1>3 DEF CloseReceipt, worker, control, recovery
<1>4. ASSUME NEW o \in Ops, Forget(o)
      PROVE  Held'
  BY <1>4 DEF Forget, worker, control, recovery
<1> QED
  BY <1>1, <1>2, <1>3, <1>4

\* The session that sweeps, serves, ends or dies.
LEMMA SessionHolds ==
    ASSUME Inv,
           \/ Sweep \/ SweepEnds \/ SweepStops \/ SessionEnds \/ Serve \/ Crash
    PROVE  Held'
<1> USE AssignmentAssumption
    DEF Inv, Held, TypeOK, Phased, Cursor, InStep, InStepAt, Recorded, RecordedAt, Offered, Seen,
        RememberedWhileOpen, Idle, Leased, Serving, Recovering, Open, Over, Blank, Unrun,
        NeverRan, Replayable, Record, None, Fences
<1>1. CASE Sweep
  BY <1>1 DEF Sweep, Sweepable, server, Saved
<1>2. CASE SweepEnds
  BY <1>2 DEF SweepEnds, server, Shut
<1>3. CASE SweepStops
  BY <1>3 DEF SweepStops, server, Shut
<1>4. CASE SessionEnds
  BY <1>4 DEF SessionEnds, server, recovery
<1>5. CASE Serve
  BY <1>5 DEF Serve, server, recovery
<1>6. CASE Crash
  BY <1>6 DEF Crash, server, Shut
<1> QED
  BY <1>1, <1>2, <1>3, <1>4, <1>5, <1>6

\* The loop of serve(): what is handed out is past the cursor, and has a record of
\* its own, or never ran.
LEMMA LoopHolds ==
    ASSUME Inv,
           \/ Mislaid \/ Cancel \/ LeaveLoop
           \/ \E ops \in SUBSET Ops : Poll(ops)
           \/ \E o \in Ops : Deliver(o) \/ RefuseDelivery(o) \/ Collect(o)
    PROVE  Held'
<1> USE AssignmentAssumption
    DEF Inv, Held, TypeOK, Phased, Cursor, InStep, InStepAt, Recorded, RecordedAt, Offered, Seen,
        RememberedWhileOpen, Idle, Leased, Serving, Recovering, Open, Over, Blank, Unrun,
        NeverRan, Replayable, Record, None, Fences
<1>1. CASE Mislaid
  BY <1>1 DEF Mislaid, server, recovery
<1>2. CASE Cancel
  BY <1>2 DEF Cancel, server, recovery
<1>3. CASE LeaveLoop
  BY <1>3 DEF LeaveLoop, server, recovery
<1>4. ASSUME NEW ops \in SUBSET Ops, Poll(ops)
      PROVE  Held'
  BY <1>4 DEF Poll, recovery
<1>5. ASSUME NEW o \in Ops, Deliver(o)
      PROVE  Held'
  BY SMTT(60), <1>5 DEF Deliver, First, Moved, Admitted, Admission, server, recovery
<1>6. ASSUME NEW o \in Ops, RefuseDelivery(o)
      PROVE  Held'
  BY <1>6 DEF RefuseDelivery, server, recovery
<1>7. ASSUME NEW o \in Ops, Collect(o)
      PROVE  Held'
  BY <1>7 DEF Collect, server, recovery
<1> QED
  BY <1>1, <1>2, <1>3, <1>4, <1>5, <1>6, <1>7

\* A claim gives a fence at which nothing has run, or the one there was.
LEMMA ClaimHolds ==
    ASSUME Inv, NEW heard \in BOOLEAN, Claim(heard)
    PROVE  Held'
<1>1. /\ issued' \in Nat /\ issued <= issued' /\ issued' > 0 /\ lease' = issued'
      /\ phase = "idle"
      /\ UNCHANGED <<receipt, journal, batch, after, task, asked, saw, ran>>
  BY AssignmentAssumption DEF Inv, TypeOK, Phased, Claim
<1>2. \/ phase' = "reconcile" /\ fence' = lease'
      \/ UNCHANGED <<phase, fence, todo>>
  BY DEF Claim
<1>3. Phased'
  BY <1>1, <1>2 DEF Inv, Phased, Idle, Leased, Serving, Recovering
<1>4. InStep'
  BY <1>1 DEF Inv, Phased, InStep, InStepAt, Idle, Serving, Over
<1>5. Cursor' /\ Offered' /\ Seen' /\ RememberedWhileOpen'
  BY <1>1 DEF Inv, Cursor, Offered, NeverRan, Seen, RememberedWhileOpen
<1>6. Recorded'
  BY <1>1, AssignmentAssumption
  DEF Inv, TypeOK, Record, Recorded, RecordedAt, Unrun, Replayable, Fences
<1> QED
  BY <1>3, <1>4, <1>5, <1>6 DEF Held

\* Receipts change only to closed.
OnlyCloses == \A p \in Ops : receipt'[p] = receipt[p] \/ receipt'[p] = "closed"

\* A serve task that returns leaves nothing behind: the journal forgets what it
\* acknowledged, and no other record changes.
LEMMA ReturnsHolds ==
    ASSUME Inv, Returns, Idle, OnlyCloses, UNCHANGED <<issued, task, ran>>,
           lease' \in {0, lease}, todo' = {}, asked' = 0
    PROVE  Held'
<1>1. \A o \in Ops : \/ journal'[o] = journal[o]
                     \/ journal[o].state = "acknowledged" /\ journal'[o] = None
  BY ShutType DEF Inv, TypeOK, Returns
<1>2. \A o \in Ops : receipt'[o] \in Open => receipt[o] \in Open
  BY DEF OnlyCloses, Open
<1>3. Phased' /\ Cursor' /\ InStep' /\ Offered' /\ Seen'
  BY DEF Inv, Phased, Cursor, InStep, InStepAt, Offered, Seen, Returns, Idle, Leased, Serving, Recovering
<1>4. Recorded'
  <2> SUFFICES ASSUME NEW o \in Ops
               PROVE  /\ journal'[o].fence <= issued
                      /\ journal'[o].state \notin Blank =>
                           /\ journal'[o].fence > 0
                           /\ \A f \in Fences : f > journal'[o].fence => ran[o][f] = 0
                      /\ journal'[o].state = "received" => Unrun(o)'
    BY DEF Recorded, RecordedAt, Idle
  <2>1. CASE journal'[o] = journal[o]
    BY <2>1 DEF Inv, Recorded, RecordedAt, Unrun
  <2>2. CASE journal'[o] = None
    BY <2>2, AssignmentAssumption DEF Inv, TypeOK, None, Blank
  <2> QED
    BY <1>1, <2>1, <2>2
<1>5. RememberedWhileOpen'
  BY <1>1, <1>2 DEF Inv, RememberedWhileOpen, None
<1> QED
  BY <1>3, <1>4, <1>5 DEF Held

\* A record that recovery leaves as it is.
LEMMA DroppedHolds ==
    ASSUME Inv, NEW o \in Ops, phase \in Recovering, Dropped(o), OnlyCloses,
           UNCHANGED <<lease, issued, control, journal, task, ran>>
    PROVE  Held'
<1>1. \A p \in Ops : receipt'[p] \in Open => receipt[p] \in Open
  BY DEF OnlyCloses, Open
<1>2. Phased' /\ Cursor' /\ InStep' /\ Offered' /\ Seen'
  BY DEF Inv, Phased, Cursor, InStep, InStepAt, Offered, Seen, Dropped, control, Idle, Leased, Serving,
         Recovering
<1>3. Recorded' /\ RememberedWhileOpen'
  BY <1>1 DEF Inv, Recorded, RecordedAt, RememberedWhileOpen, Unrun, control
<1> QED
  BY <1>2, <1>3 DEF Held

\* A record that recovery acknowledges is one whose receipt was read as settled.
LEMMA ForgottenHolds ==
    ASSUME Inv, NEW o \in Ops, phase \in Recovering, receipt[o] \notin Open,
           journal' = Marked(o, "acknowledged"), Dropped(o),
           UNCHANGED <<server, control, task, ran>>
    PROVE  Held'
<1>1. /\ journal'[o].state = "acknowledged"
      /\ \A p \in Ops : /\ journal'[p].fence = journal[p].fence
                        /\ p # o => journal'[p] = journal[p]
  BY MarkedType DEF Inv
<1>2. batch = {} /\ \A p \in Ops : task[p] = "none"
  BY DEF Inv, Phased, Recovering, Serving, Idle
<1>3. Phased'
  BY DEF Inv, Phased, Dropped, server, control, Idle, Leased, Serving, Recovering
<1>4. Cursor' /\ InStep' /\ Offered' /\ Seen'
  BY <1>2 DEF Cursor, InStep, InStepAt, Offered, Seen, Dropped, server, control
<1>5. Recorded'
  BY <1>1, <1>2 DEF Inv, Recorded, RecordedAt, Blank, Unrun, server
<1>6. RememberedWhileOpen'
  BY <1>1 DEF Inv, RememberedWhileOpen, server
<1> QED
  BY <1>3, <1>4, <1>5, <1>6 DEF Held

LEMMA FailsHolds ==
    ASSUME Inv, NEW o \in Ops, phase \in Recovering, Fails(o), OnlyCloses,
           UNCHANGED <<lease, issued, task, ran>>
    PROVE  Held'
<1>1. Idle
  BY DEF Inv, Phased, Recovering, Serving
<1>2. CASE phase = "sweep"
  BY <1>2, DroppedHolds DEF Fails
<1>3. CASE phase # "sweep"
  BY <1>1, <1>3, ReturnsHolds DEF Fails, Abandon
<1> QED
  BY <1>2, <1>3

\* Recovery acts on what it read, which the server may have left behind by then.
LEMMA RecoveryHolds ==
    ASSUME Inv, NEW o \in Ops,
           Read(o) \/ ReadFails(o) \/ Resend(o) \/ ResendFails(o) \/ Settle(o)
    PROVE  Held'
<1>1. ASSUME phase \in Recovering, o \in todo, asked' = o, OnlyCloses,
             saw' \in {"taken", "closed"} => receipt'[o] \in Over,
             saw' \in {"unknown", "refused"} => receipt'[o] \in Over \cup {"unknown"},
             UNCHANGED <<lease, issued, control, journal, todo, task, ran>>
      PROVE  Held'
  <2>1. \A p \in Ops : receipt'[p] \in Open => receipt[p] \in Open
    BY <1>1 DEF OnlyCloses, Open
  <2>2. Phased' /\ Cursor' /\ InStep' /\ Offered' /\ Seen'
    BY <1>1
    DEF Inv, Phased, Cursor, InStep, InStepAt, Offered, Seen, control, Idle, Leased, Serving, Recovering
  <2>3. Recorded' /\ RememberedWhileOpen'
    BY <1>1, <2>1 DEF Inv, Recorded, RecordedAt, RememberedWhileOpen, Unrun, control
  <2> QED
    BY <2>2, <2>3 DEF Held
<1>2. asked = o => o \in todo /\ phase \in Recovering
  BY AssignmentAssumption DEF Inv, Phased
<1>3. CASE Read(o)
  <2>1. CASE receipt[o] # "gone"
    <3>1. /\ phase \in Recovering /\ o \in todo /\ asked' = o /\ saw' = receipt[o]
          /\ UNCHANGED <<receipt, lease, issued, control, journal, todo, task, ran>>
      BY <1>3, <2>1 DEF Read, Recovering, server
    <3>2. OnlyCloses
      BY <3>1 DEF OnlyCloses
    <3> QED
      BY <1>1, <2>1, <3>1, <3>2 DEF Over, Inv, TypeOK, Receipts, Open
  <2>2. CASE receipt[o] = "gone"
    BY <1>3, <2>2, ForgottenHolds DEF Read, Recovering, Open, server, control
  <2> QED
    BY <2>1, <2>2
<1>4. CASE ReadFails(o)
  BY <1>4, FailsHolds DEF ReadFails, Recovering, OnlyCloses, server
<1>5. CASE Resend(o)
  <2>1. OnlyCloses /\ receipt'[o] = "closed"
    BY <1>5 DEF Resend, Takes, OnlyCloses, Inv, TypeOK
  <2> QED
    BY <1>1, <1>2, <1>5, <2>1 DEF Resend, Over
<1>6. CASE ResendFails(o)
  <2>1. OnlyCloses
    BY <1>6 DEF ResendFails, Refuses, Unheard, Takes, OnlyCloses, Inv, TypeOK
  <2>2. CASE saw = "unknown" /\ saw' = "refused"
             /\ UNCHANGED <<receipt, control, journal, todo, asked, deferred>>
    <3>1. receipt[o] \in Over \cup {"unknown"}
      BY <1>6, <2>2, AssignmentAssumption DEF ResendFails, Inv, Seen
    <3> QED
      BY <1>1, <1>2, <1>6, <2>1, <2>2, <3>1 DEF ResendFails
  <2>3. CASE Dropped(o) /\ UNCHANGED <<control, journal>>
    BY <1>2, <1>6, <2>1, <2>3, DroppedHolds DEF ResendFails
  <2>4. CASE Fails(o)
    BY <1>2, <1>6, <2>1, <2>4, FailsHolds DEF ResendFails
  <2> QED
    BY <1>6, <2>2, <2>3, <2>4 DEF ResendFails, Refuses
<1>7. CASE Settle(o)
  <2>1. CASE journal' = journal
    BY <1>2, <1>7, <2>1, DroppedHolds DEF Settle, OnlyCloses, server
  <2>2. CASE saw \in {"taken", "refused", "closed", "unknown"} /\ journal' = Marked(o, "acknowledged")
    <3>1. receipt[o] \notin Open
      BY <1>7, <2>2, AssignmentAssumption DEF Settle, Inv, Seen, Over, Open
    <3> QED
      BY <1>2, <1>7, <2>2, <3>1, ForgottenHolds DEF Settle
  <2> QED
    BY <1>7, <2>1, <2>2 DEF Settle
<1> QED
  BY <1>3, <1>4, <1>5, <1>6, <1>7

-----------------------------------------------------------------------------
(* The task of an operation. *)

\* What a step of the task of o leaves alone. Whatever it does to the record of
\* o, it may have the journal forget what is acknowledged.
Frame(o) ==
    /\ task[o] # "none"
    /\ UNCHANGED <<lease, issued, phase, fence, after, batch, todo, asked, saw>>
    /\ \A p \in Ops :
        /\ receipt'[p] \in Open => receipt[p] \in Open
        /\ receipt[p] \in Over => receipt'[p] \in Over
        /\ p # o => /\ task'[p] = task[p] /\ ran'[p] = ran[p]
                    /\ \/ journal'[p] = journal[p]
                       \/ journal[p].state = "acknowledged" /\ journal'[p] = None
RememberedAt(o) == receipt[o] \in Open /\ journal[o].state \in Blank => NeverRan(o)

LEMMA FrameHolds ==
    ASSUME Inv, NEW o \in Ops, Frame(o), InStepAt(o)', RecordedAt(o)', RememberedAt(o)'
    PROVE  Held'
<1>1. phase \in Serving /\ asked = 0
  BY DEF Inv, Phased, Idle, Frame, Serving, Recovering
<1>2. Phased' /\ Cursor' /\ Seen'
  BY <1>1, AssignmentAssumption DEF Inv, TypeOK, Phased, Cursor, Seen, Frame, Serving, Idle
<1>3. Offered'
  <2> SUFFICES ASSUME NEW p \in batch, journal'[p].state \in Blank
               PROVE  NeverRan(p)'
    BY DEF Offered, Frame
  <2>1. p # o /\ p \in Ops
    BY AssignmentAssumption DEF Inv, TypeOK, Cursor, Frame
  <2> QED
    BY <2>1 DEF Inv, Offered, Frame, NeverRan, Blank
<1>4. ASSUME NEW p \in Ops, p # o
      PROVE  InStepAt(p)' /\ RecordedAt(p)' /\ RememberedAt(p)'
  <2>1. CASE journal'[p] = journal[p]
    BY <1>4, <2>1
    DEF Inv, InStep, InStepAt, Recorded, RecordedAt, RememberedWhileOpen, RememberedAt, Frame,
        Unrun, NeverRan, Blank
  <2>2. CASE journal[p].state = "acknowledged" /\ journal'[p] = None
    <3>1. task[p] \in {"none", "failed"} /\ task'[p] = task[p]
      BY <1>4, <2>2 DEF Inv, TypeOK, Tasks, InStep, InStepAt, Frame
    <3>2. NeverRan(p) \/ receipt[p] \notin Open
      BY <2>2 DEF Inv, RememberedWhileOpen, NeverRan
    <3>3. issued' >= 0 /\ journal'[p].fence = 0 /\ journal'[p].state = "none"
      BY <2>2, AssignmentAssumption DEF Inv, TypeOK, Frame, None
    <3>4. InStepAt(p)' /\ RecordedAt(p)'
      BY <3>1, <3>3 DEF InStepAt, RecordedAt, Blank
    <3>5. RememberedAt(p)'
      BY <1>4, <3>2 DEF RememberedAt, NeverRan, Frame
    <3> QED
      BY <3>4, <3>5
  <2> QED
    BY <1>4, <2>1, <2>2 DEF Frame
<1>5. InStep' /\ Recorded' /\ RememberedWhileOpen'
  BY <1>4 DEF InStep, Recorded, RememberedWhileOpen, RememberedAt, NeverRan, Blank
<1> QED
  BY <1>2, <1>3, <1>5 DEF Held

LEMMA StepFrame ==
    ASSUME Inv, NEW o \in Ops, Execute(o)
    PROVE  Frame(o)
<1>1. /\ task[o] # "none"
      /\ UNCHANGED <<lease, issued, phase, fence, after, batch, todo, asked, saw>>
  BY DEF Execute, Decline, Redeliver, Begin, Start, Run, Save, Complete, Acknowledge,
         JournalFails, Moves, Quiet, server, control, recovery
<1>2. \A p \in Ops : /\ receipt'[p] \in Open => receipt[p] \in Open
                     /\ receipt[p] \in Over => receipt'[p] \in Over
  BY DEF Execute, Decline, Redeliver, Begin, Start, Run, Save, Complete, Acknowledge,
         JournalFails, Takes, Unheard, server, Open, Over, Inv, TypeOK
<1>3. \A p \in Ops : p # o => task'[p] = task[p] /\ ran'[p] = ran[p]
  BY DEF Execute, Decline, Redeliver, Begin, Start, Run, Save, Complete, Acknowledge,
         JournalFails, Moves, Ran, Inv, TypeOK
<1>4. \A p \in Ops : p # o => \/ journal'[p] = journal[p]
                              \/ journal[p].state = "acknowledged" /\ journal'[p] = None
  <2>1. CASE journal' = journal
    BY <2>1
  <2>2. ASSUME NEW s \in {"started", "terminal", "acknowledged"}, journal' = Marked(o, s)
        PROVE  \A p \in Ops : p # o => journal'[p] = journal[p]
    BY <2>2, MarkedType DEF Inv
  <2>3. CASE journal' = Shut(Marked(o, "acknowledged"))
    <3>1. /\ Marked(o, "acknowledged") \in [Ops -> Record]
          /\ \A p \in Ops : p # o => Marked(o, "acknowledged")[p] = journal[p]
      BY MarkedType DEF Inv
    <3> QED
      BY <2>3, <3>1, ShutType
  <2> QED
    BY <2>1, <2>2, <2>3
    DEF Execute, Decline, Redeliver, Begin, Start, Run, Save, Complete, Acknowledge,
        JournalFails, Becomes
<1> QED
  BY <1>1, <1>2, <1>3, <1>4 DEF Frame

\* A step from "queued" to "begun" is the only one that makes a run possible.
LEMMA TaskHolds ==
    ASSUME Inv, NEW o \in Ops,
           Decline(o) \/ Redeliver(o) \/ Start(o) \/ Complete(o)
    PROVE  InStepAt(o)' /\ RecordedAt(o)' /\ RememberedAt(o)'
<1>1. /\ journal' = journal /\ UNCHANGED <<issued, fence, ran>>
      /\ receipt'[o] \in Open => receipt[o] \in Open
      /\ task'[o] \in {"begun", "running"} => task[o] \in {"begun", "running"}
  BY AssignmentAssumption
  DEF Decline, Redeliver, Start, Complete, Moves, Takes, Unheard, Quiet, server, control, Open,
      Inv, TypeOK
<1>2. RecordedAt(o)' /\ RememberedAt(o)'
  BY <1>1 DEF Inv, Recorded, RecordedAt, RememberedWhileOpen, RememberedAt, NeverRan, Unrun, Blank
<1>3. InStepAt(o)'
  BY <1>1
  DEF Decline, Redeliver, Start, Complete, Moves, Takes, Unheard, Saved, Inv, TypeOK, InStep,
      InStepAt, Over, server
<1> QED
  BY <1>2, <1>3

LEMMA RunHolds ==
    ASSUME Inv, NEW o \in Ops, Run(o)
    PROVE  /\ InStepAt(o)' /\ RecordedAt(o)' /\ RememberedAt(o)'
           /\ History'
<1>1. /\ task[o] = "running" /\ task'[o] \in {"ran", "failed"}
      /\ UNCHANGED <<receipt, journal, issued, fence>>
  BY DEF Run, Moves, Quiet, server, control, Inv, TypeOK
<1>2. journal[o].state = "started" /\ journal[o].fence = fence /\ fence \in Fences /\ Unrun(o)
  BY <1>1, AssignmentAssumption
  DEF Inv, TypeOK, Phased, Idle, Serving, Leased, InStep, InStepAt, Recorded, RecordedAt, Fences
<1>3. /\ \A p \in Ops : p # o => ran'[p] = ran[p]
      /\ \A f \in Fences : f # fence => ran'[o][f] = ran[o][f]
      /\ ran'[o][fence] \in {0, 1}
  BY <1>2, AssignmentAssumption DEF Run, Ran, Inv, TypeOK, Unrun, Fences
<1>4. InStepAt(o)' /\ RememberedAt(o)'
  BY <1>1, <1>2 DEF InStepAt, RememberedAt, Blank
<1>5. RecordedAt(o)'
  <2>1. journal'[o].fence <= issued' /\ journal'[o].fence = fence /\ fence > 0
    BY <1>1, <1>2, AssignmentAssumption DEF Inv, Recorded, RecordedAt, Fences
  <2>2. \A f \in Fences : f > fence => ran'[o][f] = 0
    BY <1>2, <1>3, AssignmentAssumption DEF Unrun, Fences
  <2> QED
    BY <1>1, <1>2, <2>1, <2>2 DEF RecordedAt
<1>6. RunsOncePerFence'
  BY <1>3 DEF Inv, RunsOncePerFence
<1>7. MutationRunsOnce'
  BY <1>2, <1>3 DEF Inv, MutationRunsOnce, Unrun, Replayable
<1> QED
  BY <1>4, <1>5, <1>6, <1>7 DEF History

LEMMA RecordHolds ==
    ASSUME Inv, NEW o \in Ops, Begin(o) \/ Save(o) \/ Acknowledge(o) \/ JournalFails(o)
    PROVE  InStepAt(o)' /\ RecordedAt(o)' /\ RememberedAt(o)'
<1>1. /\ UNCHANGED <<receipt, ran, issued, fence>>
      /\ task[o] \in {"queued", "ran", "confirmed"}
  BY DEF Begin, Save, Acknowledge, JournalFails, Moves, Quiet, server, control
<1>2. /\ journal[o].fence = fence
      /\ task[o] = "confirmed" => receipt[o] \in Over
  BY <1>1 DEF Inv, InStep, InStepAt
<1>3. ASSUME NEW s \in {"started", "terminal", "acknowledged"}, journal' = Marked(o, s)
      PROVE  journal'[o].state = s /\ journal'[o].fence = fence
  BY <1>2, <1>3, MarkedType DEF Inv
<1>4. CASE Begin(o)
  BY <1>1, <1>2, <1>3, <1>4
  DEF Begin, Moves, Becomes, Inv, TypeOK, InStepAt, Recorded, RecordedAt, RememberedAt, Unrun, Blank
<1>5. CASE Save(o)
  BY <1>1, <1>2, <1>3, <1>5
  DEF Save, Moves, Becomes, Inv, TypeOK, InStep, InStepAt, Recorded, RecordedAt, RememberedAt,
      Unrun, Blank
<1>6. CASE Acknowledge(o)
  <2>1. task'[o] = "none" /\ receipt[o] \notin Open
    BY <1>1, <1>2, <1>6 DEF Acknowledge, Moves, Inv, TypeOK, InStep, InStepAt, Over, Open
  <2>2. journal'[o].state \in Blank /\ journal'[o].fence \in {0, fence}
    <3>1. /\ Marked(o, "acknowledged") \in [Ops -> Record]
          /\ Marked(o, "acknowledged")[o].state = "acknowledged"
          /\ Marked(o, "acknowledged")[o].fence = fence
      BY <1>2, MarkedType DEF Inv
    <3> QED
      BY <1>6, <3>1, ShutType DEF Acknowledge, Becomes, Blank, None
  <2> QED
    BY <1>1, <1>2, <2>1, <2>2, AssignmentAssumption
    DEF Inv, TypeOK, Recorded, RecordedAt, InStepAt, RememberedAt, Blank
<1>7. CASE JournalFails(o)
  <2>1. task'[o] = "failed"
    BY <1>7 DEF JournalFails, Moves, Inv, TypeOK
  <2>2. \/ journal' = journal
        \/ /\ journal'[o].state \notin {"received"} \cup Blank /\ journal[o].state \notin Blank
           /\ journal'[o].fence = fence
        \/ /\ journal'[o].state = "acknowledged" /\ receipt[o] \notin Open
           /\ journal'[o].fence = fence
    BY <1>2, <1>3, <1>7
    DEF JournalFails, Moves, Inv, TypeOK, InStep, InStepAt, Blank, Over, Open
  <2> QED
    BY <1>1, <1>2, <2>1, <2>2
    DEF Inv, Recorded, RecordedAt, InStepAt, RememberedWhileOpen, RememberedAt, NeverRan, Unrun,
        Blank
<1> QED
  BY <1>4, <1>5, <1>6, <1>7

-----------------------------------------------------------------------------
\* Only a run changes the history of runs.
LEMMA HistoryKept ==
    ASSUME Inv, UNCHANGED ran
    PROVE  History'
BY DEF Inv, History, MutationRunsOnce, RunsOncePerFence

LEMMA ExecuteStep ==
    ASSUME Inv, NEW o \in Ops, Execute(o)
    PROVE  Held' /\ History'
<1>1. InStepAt(o)' /\ RecordedAt(o)' /\ RememberedAt(o)'
  BY TaskHolds, RunHolds, RecordHolds DEF Execute
<1>2. Held'
  BY <1>1, StepFrame, FrameHolds
<1>3. CASE Run(o)
  BY <1>2, <1>3, RunHolds
<1>4. CASE ~Run(o)
  <2>1. UNCHANGED ran
    BY <1>4 DEF Execute, Decline, Redeliver, Begin, Start, Save, Complete, Acknowledge, JournalFails
  <2> QED
    BY <1>2, <2>1, HistoryKept
<1> QED
  BY <1>3, <1>4

LEMMA ServeReturns ==
    ASSUME Inv, ReconcileFails \/ ReconcileDrained \/ Finish
    PROVE  Held'
<1>1. Idle
  BY DEF Inv, Phased, ReconcileFails, ReconcileDrained, Finish, Serving
<1>2. todo' = {} /\ asked' = 0
  BY DEF Inv, Phased, ReconcileFails, ReconcileDrained, Finish, Abandon, Recovering, recovery
<1> QED
  BY <1>1, <1>2, ReturnsHolds
  DEF ReconcileFails, ReconcileDrained, Finish, Abandon, Released, OnlyCloses, server

LEMMA NextInv ==
    ASSUME Inv, [Next]_vars
    PROVE  Inv'
<1>1. TypeOK'
  BY TypeStep DEF Inv
<1> SUFFICES Held' /\ History'
  BY <1>1 DEF Inv, Held, History
<1>2. CASE \E o \in Ops : Execute(o)
  BY <1>2, ExecuteStep
<1>3. CASE \/ Expire \/ Sweep \/ SweepEnds \/ SweepStops \/ SessionEnds
           \/ ReconcileFails \/ ReconcileDrained \/ Serve \/ Mislaid \/ Cancel
           \/ LeaveLoop \/ Finish \/ Crash
           \/ \E heard \in BOOLEAN : Claim(heard)
           \/ \E ops \in SUBSET Ops : Poll(ops)
           \/ \E o \in Ops :
                \/ GiveUp(o) \/ CloseReceipt(o) \/ Forget(o)
                \/ Read(o) \/ ReadFails(o) \/ Resend(o) \/ ResendFails(o) \/ Settle(o)
                \/ Deliver(o) \/ RefuseDelivery(o) \/ Collect(o)
  <2>1. Held'
    BY <1>3, ServerHolds, SessionHolds, LoopHolds, ClaimHolds, ServeReturns, RecoveryHolds
  <2>2. UNCHANGED ran
    BY <1>3
    DEF Expire, Sweep, SweepEnds, SweepStops, SessionEnds, ReconcileFails, ReconcileDrained,
        Serve, Mislaid, Cancel, LeaveLoop, Finish, Crash, Claim, Poll, GiveUp, CloseReceipt,
        Forget, Read, ReadFails, Resend, ResendFails, Settle, Deliver, RefuseDelivery, Collect,
        worker
  <2> QED
    BY <2>1, <2>2, HistoryKept
<1>4. CASE UNCHANGED vars
  <2>1. Held'
    BY <1>4
    DEF vars, Inv, Held, Phased, Cursor, InStep, InStepAt, Recorded, RecordedAt, Offered, Seen,
        RememberedWhileOpen, Idle, Unrun, NeverRan
  <2> QED
    BY <1>4, <2>1, HistoryKept DEF vars
<1> QED
  BY <1>2, <1>3, <1>4 DEF Next

\* Inv holds in every state: the history of runs, the journal, the tasks and the
\* receipts agree (runtime.rs).
THEOREM Invariance == Spec => []Inv
BY InitInv, NextInv, PTL DEF Spec

\* Every variable of the session, its tasks, the journal and the server's
\* receipts keeps its type (runtime.rs).
THEOREM TypeCorrect == Spec => []TypeOK
BY Invariance, PTL DEF Inv

\* A mutation runs at most once, however often it is leased, delivered, cancelled
\* or interrupted (received() and execute() in runtime.rs).
THEOREM NoMutationTwice == Spec => []MutationRunsOnce
BY Invariance, PTL DEF Inv

\* No operation runs twice under one lease, also after a restart.
THEOREM NoRunTwicePerFence == Spec => []RunsOncePerFence
BY Invariance, PTL DEF Inv

\* An operation that ran is in the journal as long as the server may hand it out
\* (acknowledge() and recover() in runtime.rs).
THEOREM NothingOpenForgotten == Spec => []RememberedWhileOpen
BY Invariance, PTL DEF Inv

-----------------------------------------------------------------------------
(* What a step does to the record of an operation. *)

\* The record of p is forgotten, or acknowledged and about to be.
Forgets(p) == journal'[p].state \in Blank
Restarts(p) == journal'[p] = [state |-> "received", fence |-> fence]
Advances(p, from, to) ==
    journal[p].state = from /\ journal'[p].state = to /\ journal'[p].fence = journal[p].fence
\* The server is done with p, or has refused its result.
Done(p) == receipt[p] \in Over \/ (asked = p /\ saw = "refused")
Lives(p) ==
    \/ journal'[p] = journal[p]
    \/ Forgets(p) /\ (journal[p].state = "terminal" => Done(p))
    \/ Restarts(p) /\ fence \in Fences /\ journal[p].state \in Blank
    \/ Restarts(p) /\ fence \in Fences /\ Replayable(p) /\ journal[p].fence # fence
    \/ Advances(p, "received", "started")
    \/ Advances(p, "started", "terminal")

\* Where a step that is no task's shuts the journal.
LEMMA ShutLives ==
    ASSUME Inv, journal' = Shut(journal), NEW p \in Ops
    PROVE  Lives(p)
BY ShutType DEF Inv, TypeOK, Lives, Forgets, None, Blank

LEMMA MarkedLives ==
    ASSUME Inv, NEW o \in Ops, NEW p \in Ops,
           NEW s \in {"started", "terminal", "acknowledged"}, journal' = Marked(o, s),
           \/ s = "started" /\ journal[o].state = "received"
           \/ s = "terminal" /\ journal[o].state = "started"
           \/ s = "acknowledged" /\ (journal[o].state = "terminal" => Done(o))
    PROVE  Lives(p)
<1>1. /\ journal'[o].state = s /\ journal'[o].fence = journal[o].fence
      /\ p # o => journal'[p] = journal[p]
  BY MarkedType DEF Inv
<1>2. CASE p = o
  BY <1>1, <1>2 DEF Lives, Forgets, Advances, Blank
<1>3. CASE p # o
  BY <1>1, <1>3 DEF Lives
<1> QED
  BY <1>2, <1>3

LEMMA ExecuteLives ==
    ASSUME Inv, NEW o \in Ops, Execute(o), NEW p \in Ops
    PROVE  Lives(p)
<1>1. task[o] = "confirmed" => Done(o)
  BY DEF Inv, InStep, InStepAt, Done
<1>2. CASE journal' = journal
  BY <1>2 DEF Lives
<1>3. CASE journal' = Marked(o, "started") /\ journal[o].state = "received"
  BY <1>3, MarkedLives
<1>4. CASE journal' = Marked(o, "terminal") /\ task[o] = "ran"
  BY <1>4, MarkedLives DEF Inv, InStep, InStepAt
<1>5. CASE journal' = Marked(o, "acknowledged") /\ task[o] = "confirmed"
  BY <1>1, <1>5, MarkedLives
<1>6. CASE journal' = Shut(Marked(o, "acknowledged")) /\ task[o] = "confirmed"
  <2>1. /\ Marked(o, "acknowledged") \in [Ops -> Record]
        /\ Marked(o, "acknowledged")[o].state = "acknowledged"
        /\ \A q \in Ops : q # o => Marked(o, "acknowledged")[q] = journal[q]
    BY MarkedType DEF Inv
  <2> QED
    BY <1>1, <1>6, <2>1, ShutType DEF Lives, Forgets, None, Blank
<1> QED
  BY <1>2, <1>3, <1>4, <1>5, <1>6
  DEF Execute, Decline, Redeliver, Begin, Start, Run, Save, Complete, Acknowledge, JournalFails,
      Moves, Becomes

LEMMA RecoveryLives ==
    ASSUME Inv, NEW o \in Ops,
           Read(o) \/ ReadFails(o) \/ Resend(o) \/ ResendFails(o) \/ Settle(o),
           NEW p \in Ops
    PROVE  Lives(p)
<1>1. CASE journal' = journal
  BY <1>1 DEF Lives
<1>2. CASE journal' = Shut(journal)
  BY <1>2, ShutLives
<1>3. CASE Read(o) /\ journal' = Marked(o, "acknowledged") /\ receipt[o] = "gone"
  BY <1>3, MarkedLives DEF Done, Over
<1>4. CASE Settle(o) /\ journal' = Marked(o, "acknowledged")
  <2>1. journal[o].state = "terminal" => saw \in {"taken", "refused", "closed"} \/ journal' = journal
    BY <1>4 DEF Settle, Saved
  <2>2. CASE journal[o].state = "terminal" => saw \in {"taken", "refused", "closed"}
    <3>1. journal[o].state = "terminal" => Done(o)
      BY <1>4, <2>2, AssignmentAssumption DEF Settle, Inv, Seen, Done
    <3> QED
      BY <1>4, <3>1, MarkedLives
  <2> QED
    BY <1>1, <2>1, <2>2
<1> QED
  BY <1>1, <1>2, <1>3, <1>4
  DEF Read, ReadFails, Resend, ResendFails, Settle, Fails, Abandon, Returns

LEMMA DeliverLives ==
    ASSUME Inv, NEW o \in Ops, Deliver(o), NEW p \in Ops
    PROVE  Lives(p)
<1>1. fence \in Fences
  BY AssignmentAssumption DEF Deliver, Inv, TypeOK, Phased, Leased, Fences
<1>2. CASE journal' = journal
  BY <1>2 DEF Lives
<1>3. CASE journal' = [journal EXCEPT ![o] = [state |-> "received", fence |-> fence]]
           /\ (journal[o].state = "none" \/ Moved(o))
  BY <1>1, <1>3 DEF Deliver, Moved, Lives, Restarts, Blank, Inv, TypeOK
<1> QED
  BY <1>2, <1>3 DEF Deliver, Admitted

LEMMA StepLives ==
    ASSUME Inv, [Next]_vars, NEW p \in Ops
    PROVE  Lives(p)
<1>1. CASE \E o \in Ops : \/ Execute(o) \/ Deliver(o)
                          \/ Read(o) \/ ReadFails(o) \/ Resend(o) \/ ResendFails(o) \/ Settle(o)
  BY <1>1, ExecuteLives, RecoveryLives, DeliverLives
<1>2. CASE journal' = journal
  BY <1>2 DEF Lives
<1>3. CASE journal' = Shut(journal)
  BY <1>3, ShutLives
<1> QED
  BY <1>1, <1>2, <1>3
  DEF Next, vars, Expire, Sweep, SweepEnds, SweepStops, SessionEnds, ReconcileFails,
      ReconcileDrained, Serve, Mislaid, Cancel, LeaveLoop, Finish, Crash, Claim, Poll, GiveUp,
      CloseReceipt, Forget, RefuseDelivery, Collect, Abandon, Returns, worker

\* A saved result leaves the journal only when the server is done with it or has
\* refused it, or when a replayable operation starts again at another fence
\* (recover() and acknowledge() in runtime.rs).
THEOREM ResultsAreKept == Spec => SavedUntilSettled
<1>1. Inv /\ [Next]_vars =>
        [\A o \in Ops : Saved(o) /\ ~Saved(o)' =>
           \/ receipt[o] \in {"closed", "gone"}
           \/ asked = o /\ saw = "refused"
           \/ Replayable(o) /\ journal'[o].state = "received"
                /\ journal'[o].fence # journal[o].fence]_vars
  BY StepLives DEF Lives, Forgets, Restarts, Advances, Done, Over, Blank, Saved
<1> QED
  BY <1>1, Invariance, PTL DEF Spec, SavedUntilSettled

LEMMA LedgerStep ==
    ASSUME Inv, Inv', NEW p \in Ops, Lives(p)
    PROVE  Entry(p)' = Entry(p) \/ Ledger!Step(p, Entry(p), Entry(p)')
<1> USE DEF Entry, Saved, Ledger!Step, Ledger!None, Blank
<1>1. journal[p] \in Record /\ journal'[p] \in Record
  BY DEF Inv, TypeOK
<1>2. CASE journal'[p] = journal[p]
  BY <1>2
<1>3. CASE Forgets(p)
  <2>1. Entry(p)' = Ledger!None
    BY <1>3 DEF Forgets
  <2>2. Entry(p) = Ledger!None \/ Entry(p).state # "none"
    OBVIOUS
  <2> QED
    BY <2>1, <2>2 DEF Ledger!Resolve
<1>4. CASE Restarts(p) /\ journal[p].state \in Blank
  BY <1>4 DEF Restarts, Ledger!Deliver
<1>5. CASE Restarts(p) /\ Replayable(p) /\ journal[p].fence # fence
  <2>1. Entry(p)' = [state |-> "received", fence |-> fence, result |-> "none"]
    BY <1>5 DEF Restarts
  <2>2. Entry(p).state = "none" \/ Entry(p).fence # fence
    BY <1>5
  <2> QED
    BY <1>5, <2>1, <2>2 DEF Ledger!Deliver, Replayable
<1>6. CASE Advances(p, "received", "started")
  BY <1>1, <1>6 DEF Advances, Ledger!Start
<1>7. CASE Advances(p, "started", "terminal")
  BY <1>1, <1>7 DEF Advances, Ledger!Finish
<1> QED
  BY <1>2, <1>3, <1>4, <1>5, <1>6, <1>7 DEF Lives

\* The records of an assignment keep to the ledger that the receipt journal
\* implements.
THEOREM AssignmentKeepsLedger == Spec => LedgerSpec
<1>1. Init => Ledger!Init
  BY DEF Init, Ledger!Init, Ledger!None, Entry, None
<1>2. Inv /\ Inv' /\ [Next]_vars => [Ledger!Next]_([o \in Ops |-> Entry(o)])
  <2> SUFFICES ASSUME Inv, Inv', [Next]_vars PROVE Ledger!Next
    OBVIOUS
  <2>1. \A o \in Ops : Entry(o)' \in Ledger!Entry
    BY AssignmentAssumption DEF Inv, TypeOK, Record, Entry, Ledger!Entry, Saved, Fences
  <2> QED
    BY <2>1, StepLives, LedgerStep DEF Ledger!Next
<1> QED
  BY <1>1, <1>2, Invariance, PTL DEF Spec, LedgerSpec, Ledger!Spec
=============================================================================
