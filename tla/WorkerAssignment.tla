-------------------------- MODULE WorkerAssignment --------------------------
(***************************************************************************)
(* One assignment served by one Worker (worker/runtime.rs): the session    *)
(* that connects, sends saved results and claims the assignment, the serve *)
(* task that reconciles the receipt journal with the server, polls for     *)
(* operations and runs each in a task of its own, and the server, which    *)
(* leases the assignment under a fence token and keeps a receipt for each  *)
(* operation. The server is external: its actions are what the client code *)
(* relies on or defends against. Any call may lose its reply, the process  *)
(* may die between two steps, and the journal is the ledger that           *)
(* ReceiptJournal is shown to implement.                                   *)
(***************************************************************************)
EXTENDS Naturals, FiniteSets

CONSTANTS
    Ops,        \* operations of the assignment, by operation_sequence
    Effect,     \* "read", "idempotent" or "mutation"
    MaxFence    \* bound on the leases the server grants

ASSUME AssignmentAssumption ==
    /\ Ops \subseteq Nat \ {0}
    /\ Effect \in [Ops -> {"read", "idempotent", "mutation"}]
    /\ MaxFence \in Nat \ {0}

VARIABLES
    receipt,  \* server: the receipt of each operation
    lease,    \* server: the fence the assignment is leased at, 0 for no lease
    issued,   \* server: the last fence it issued
    journal,  \* disk: the record of each operation
    phase,    \* where the session is with this assignment
    fence,    \* the lease that serve() was given
    after,    \* the cursor of the operations poll
    batch,    \* operations in a reply to the poll, on its way
    task,     \* where the task of each operation is
    todo,     \* records recovery still has to settle
    asked,    \* the record being recovered, 0 for none
    saw,      \* the receipt that recover() read for it
    deferred, \* the sweep left a result for another sweep
    cancel,   \* the cancellation token of the assignment
    drain,    \* the drain token of the assignment
    ran       \* history: how often each operation ran at each fence

server == <<receipt, lease, issued>>
recovery == <<todo, asked, saw, deferred>>
control == <<phase, fence, after, batch, cancel, drain>>
vars == <<receipt, lease, issued, journal, phase, fence, after, batch, task,
          todo, asked, saw, deferred, cancel, drain, ran>>

-----------------------------------------------------------------------------
Fences == 1..MaxFence
Open == {"prepared", "delivered", "running"}
Receipts == Open \cup {"unknown", "closed", "gone"}
Phases == {"down", "ended", "sweep", "idle", "reconcile", "serving", "joining"}
Tasks == {"none", "queued", "begun", "running", "ran", "saved", "confirmed", "failed"}
Record == [state : {"none", "received", "started", "terminal", "acknowledged"}, fence : 0..MaxFence]
None == [state |-> "none", fence |-> 0]

Saved(o) == journal[o].state = "terminal"
Idle == \A o \in Ops : task[o] = "none"
\* Mutant: every kind of operation may run again.
ReplayableAlways(o) == TRUE
Replayable(o) == Effect[o] \in {"read", "idempotent"}

\* A journal that no process holds: the next open() drops acknowledged records.
Shut(j) == [o \in Ops |-> IF j[o].state = "acknowledged" THEN None ELSE j[o]]
Marked(o, state) == [journal EXCEPT ![o].state = state]

Init ==
    /\ receipt = [o \in Ops |-> "prepared"] /\ lease = 0 /\ issued = 0
    /\ journal = [o \in Ops |-> None]
    /\ phase = "down" /\ fence = 0 /\ after = 0 /\ batch = {} /\ cancel = FALSE /\ drain = "no"
    /\ task = [o \in Ops |-> "none"]
    /\ todo = {} /\ asked = 0 /\ saw = "none" /\ deferred = FALSE
    /\ ran = [o \in Ops |-> [f \in Fences |-> 0]]

-----------------------------------------------------------------------------
(***************************************************************************)
(* The server. A lease expires; an operation that was handed out under a   *)
(* lost lease becomes unknown, and nobody hands out an unknown operation   *)
(* again; an operation may be closed without the Worker and forgotten. A   *)
(* receipt that is unknown but has a result or a resolution counts as      *)
(* closed: recovery treats them alike.                                     *)
(***************************************************************************)
worker == <<journal, control, task, recovery, ran>>

Expire == lease # 0 /\ lease' = 0 /\ UNCHANGED <<receipt, issued, worker>>

GiveUp(o) ==
    /\ lease = 0 /\ receipt[o] \in {"delivered", "running"}
    /\ receipt' = [receipt EXCEPT ![o] = "unknown"] /\ UNCHANGED <<lease, issued, worker>>

CloseReceipt(o) ==
    /\ receipt[o] \in Open \cup {"unknown"}
    /\ receipt' = [receipt EXCEPT ![o] = "closed"] /\ UNCHANGED <<lease, issued, worker>>

Forget(o) ==
    /\ receipt[o] \in {"closed", "unknown"}
    /\ receipt' = [receipt EXCEPT ![o] = "gone"] /\ UNCHANGED <<lease, issued, worker>>

\* The ways a completion call ends: the server takes the result and the reply
\* arrives, it refuses the result, or the Worker hears nothing.
Takes(o) ==
    /\ receipt[o] \in {"delivered", "running", "unknown", "closed"}
    /\ receipt' = [receipt EXCEPT ![o] = "closed"]
Refuses(o) == UNCHANGED receipt
Unheard(o) == Takes(o) \/ UNCHANGED receipt

-----------------------------------------------------------------------------
(***************************************************************************)
(* The session. sweep is deliver_saved_results(), run when a session starts*)
(* and, when it left a result behind, again while the session has no run. A*)
(* session that ends drains the assignment and waits for it.               *)
(***************************************************************************)
Sweepable == phase \in {"down", "ended"} \/ (phase = "idle" /\ deferred)

\* Mutant: only the results of the latest lease are sent.
SweepLatest ==
    /\ Sweepable /\ phase' = "sweep"
    /\ todo' = {o \in Ops : Saved(o) /\ journal[o].fence = lease} /\ deferred' = FALSE
    /\ UNCHANGED <<server, journal, fence, after, batch, cancel, drain, task, asked, saw, ran>>

Sweep ==
    /\ Sweepable /\ phase' = "sweep"
    /\ todo' = {o \in Ops : Saved(o)} /\ deferred' = FALSE
    /\ UNCHANGED <<server, journal, fence, after, batch, cancel, drain, task, asked, saw, ran>>

\* Every saved result has been looked at, or the minute for it is over.
SweepEnds ==
    /\ phase = "sweep" /\ asked = 0 /\ phase' = "idle"
    /\ todo' = {} /\ deferred' = (deferred \/ todo # {})
    /\ journal' = Shut(journal)
    /\ UNCHANGED <<server, fence, after, batch, cancel, drain, task, asked, saw, ran>>

\* The session ends in the middle of it, drained or told to stop.
SweepStops ==
    /\ phase = "sweep" /\ phase' = "ended" /\ journal' = Shut(journal)
    /\ todo' = {} /\ asked' = 0 /\ saw' = "none"
    /\ UNCHANGED <<server, fence, after, batch, cancel, drain, task, deferred, ran>>

\* A claim grants a fence, or returns the lease the Worker still has.
Claim(heard) ==
    /\ phase = "idle" /\ \E o \in Ops : receipt[o] \in Open
    /\ IF lease = 0 THEN issued < MaxFence /\ issued' = issued + 1 ELSE issued' = issued
    /\ lease' = issued'
    /\ IF heard
         THEN /\ phase' = "reconcile" /\ fence' = lease'
              /\ todo' = {o \in Ops : journal[o].state # "none"}
         ELSE UNCHANGED <<phase, fence, todo>>
    /\ UNCHANGED <<receipt, journal, after, batch, cancel, drain, task, asked, saw, deferred, ran>>

SessionEnds ==
    /\ \/ phase = "idle" /\ phase' = "ended" /\ UNCHANGED drain
       \/ phase \in {"reconcile", "serving", "joining"} /\ drain' = "session" /\ UNCHANGED phase
    /\ UNCHANGED <<server, journal, fence, after, batch, cancel, task, recovery, ran>>

\* The serve task returns; the session goes on, unless it ended or must end.
Returns ==
    /\ phase' \in IF drain = "session" THEN {"ended"} ELSE {"idle", "ended"}
    /\ journal' = Shut(journal)
    /\ fence' = 0 /\ after' = 0 /\ batch' = {} /\ cancel' = FALSE /\ drain' = "no"
Released == IF lease = fence THEN {0, lease} ELSE {lease}

-----------------------------------------------------------------------------
(***************************************************************************)
(* recover(), for one record: read the receipt, send a result the receipt  *)
(* still waits for, acknowledge a record the server is done with. An error *)
(* leaves the record to a later sweep, and ends a serve task that was      *)
(* reconciling without releasing its lease.                                *)
(***************************************************************************)
Abandon == Returns /\ todo' = {} /\ asked' = 0 /\ saw' = "none" /\ UNCHANGED deferred
Dropped(o) == todo' = todo \ {o} /\ asked' = 0 /\ saw' = "none"
Fails(o) == IF phase = "sweep"
              THEN Dropped(o) /\ deferred' = TRUE /\ UNCHANGED <<control, journal>>
              ELSE Abandon

\* The records are taken in any order; the receipt may change once it is read.
Read(o) ==
    /\ phase \in {"sweep", "reconcile"} /\ asked = 0 /\ o \in todo
    /\ \/ /\ receipt[o] # "gone" /\ asked' = o /\ saw' = receipt[o]
          /\ UNCHANGED <<control, journal, todo, deferred>>
       \/ /\ receipt[o] = "gone" /\ phase = "sweep"
          /\ journal' = Marked(o, "acknowledged") /\ Dropped(o) /\ UNCHANGED <<control, deferred>>
    /\ UNCHANGED <<server, task, ran>>

ReadFails(o) ==
    /\ phase \in {"sweep", "reconcile"} /\ asked = 0 /\ o \in todo /\ Fails(o)
    /\ UNCHANGED <<server, task, ran>>

Awaited == saw \in {"delivered", "running", "unknown"}

Resend(o) ==
    /\ asked = o /\ Saved(o) /\ Awaited /\ Takes(o) /\ saw' = "taken"
    /\ UNCHANGED <<lease, issued, control, journal, task, todo, asked, deferred, ran>>

\* A refusal is final only for an operation that was unknown.
ResendFails(o) ==
    /\ asked = o /\ Saved(o) /\ Awaited
    /\ \/ /\ Refuses(o) /\ saw = "unknown" /\ saw' = "refused"
          /\ UNCHANGED <<control, journal, todo, asked, deferred>>
       \/ Refuses(o) /\ saw # "unknown" /\ Dropped(o) /\ UNCHANGED <<control, journal, deferred>>
       \/ Unheard(o) /\ Fails(o)
    /\ UNCHANGED <<lease, issued, task, ran>>

Settle(o) ==
    /\ asked = o /\ Dropped(o)
    /\ \/ /\ saw \in {"taken", "refused", "closed"} \/ (saw = "unknown" /\ ~Saved(o))
          /\ journal' = Marked(o, "acknowledged")
       \/ /\ saw \in Open /\ ~(Saved(o) /\ Awaited)
          /\ UNCHANGED journal
    /\ UNCHANGED <<server, control, task, deferred, ran>>

-----------------------------------------------------------------------------
(***************************************************************************)
(* serve(): reconcile, poll, run, join, release.                           *)
(***************************************************************************)
\* The lease is lost while the assignment is announced or reconciled.
ReconcileFails ==
    /\ phase = "reconcile" /\ asked = 0 /\ lease # fence /\ Abandon
    /\ UNCHANGED <<server, task, ran>>

ReconcileDrained ==
    /\ phase = "reconcile" /\ drain # "no" /\ Abandon /\ lease' \in Released
    /\ UNCHANGED <<receipt, issued, task, ran>>

Serve ==
    /\ phase = "reconcile" /\ todo = {} /\ lease = fence /\ phase' = "serving"
    /\ UNCHANGED <<server, journal, fence, after, batch, cancel, drain, task, recovery, ran>>

\* The server hands out operations past the cursor and the reply is on its
\* way; it may arrive late, when the lease is gone or the assignment drains.
Poll(ops) ==
    /\ phase = "serving" /\ lease = fence /\ ~cancel /\ drain = "no" /\ batch = {}
    /\ ops # {} /\ \A o \in ops : o > after /\ receipt[o] \in Open
    /\ batch' = ops
    /\ receipt' = [o \in Ops |-> IF o \in ops /\ receipt[o] = "prepared" THEN "delivered" ELSE receipt[o]]
    /\ UNCHANGED <<lease, issued, journal, phase, fence, after, cancel, drain, task, recovery, ran>>

\* The reply is lost, or dropped because a task ended first.
Mislaid ==
    /\ phase = "serving" /\ batch # {} /\ batch' = {}
    /\ UNCHANGED <<server, journal, phase, fence, after, cancel, drain, task, recovery, ran>>

\* received() for the next operation of the reply: take it, skip it because
\* it is acknowledged, or refuse it.
First(o) == o \in batch /\ \A p \in batch : o <= p
Moved(o) == journal[o].state \notin {"none", "acknowledged"} /\ journal[o].fence # fence
\* Mutant: a delivery always starts the record again.
AdmittedAgain(o) == [journal EXCEPT ![o] = [state |-> "received", fence |-> fence]]
Admitted(o) ==
    IF journal[o].state = "none" \/ Moved(o)
      THEN [journal EXCEPT ![o] = [state |-> "received", fence |-> fence]]
      ELSE journal
Admission(o) == [task EXCEPT ![o] = IF journal[o].state = "acknowledged" THEN "none" ELSE "queued"]

Deliver(o) ==
    /\ phase = "serving" /\ First(o) /\ (Moved(o) => Replayable(o))
    /\ batch' = batch \ {o} /\ after' = o
    /\ journal' = Admitted(o) /\ task' = Admission(o)
    /\ UNCHANGED <<server, phase, fence, cancel, drain, recovery, ran>>

RefuseDelivery(o) ==
    /\ phase = "serving" /\ First(o) /\ Moved(o) /\ ~Replayable(o)
    /\ phase' = "joining" /\ cancel' = TRUE /\ batch' = {}
    /\ UNCHANGED <<server, journal, fence, after, drain, task, recovery, ran>>

\* The renewal failed, or the second signal aborts the Worker.
Cancel ==
    /\ phase \in {"serving", "joining"} /\ cancel' = TRUE
    /\ UNCHANGED <<server, journal, phase, fence, after, batch, drain, task, recovery, ran>>

\* The loop ends: cancelled, nothing to do, or a poll that failed.
LeaveLoop ==
    /\ phase = "serving" /\ phase' = "joining" /\ batch' = {}
    /\ cancel' \in {cancel, TRUE} /\ (Idle \/ cancel')
    /\ UNCHANGED <<server, journal, fence, after, drain, task, recovery, ran>>

\* The first failed task ends the loop and cancels the others.
Collect(o) ==
    /\ phase \in {"serving", "joining"} /\ task[o] = "failed"
    /\ task' = [task EXCEPT ![o] = "none"] /\ phase' = "joining" /\ cancel' = TRUE
    /\ batch' = {}
    /\ UNCHANGED <<server, journal, fence, after, drain, recovery, ran>>

\* Every task has been joined; the lease goes back, or its release fails.
Finish ==
    /\ phase = "joining" /\ Idle
    /\ Returns /\ lease' \in Released
    /\ UNCHANGED <<receipt, issued, task, recovery, ran>>

-----------------------------------------------------------------------------
(***************************************************************************)
(* execute(): one task per delivered operation.                            *)
(***************************************************************************)
Moves(o, from, to) == task[o] = from /\ task' = [task EXCEPT ![o] = to]
Becomes(o, state) == journal' = Marked(o, state)
Quiet == UNCHANGED <<control, recovery>>

\* Cancelled before it had a permit, or the journal says it may have run.
Decline(o) ==
    /\ Moves(o, "queued", "failed") /\ (cancel \/ journal[o].state = "started")
    /\ Quiet /\ UNCHANGED <<server, journal, ran>>

\* A saved result of this fence is delivered again instead of running.
Redeliver(o) ==
    /\ Moves(o, "queued", "saved") /\ Saved(o)
    /\ Quiet /\ UNCHANGED <<server, journal, ran>>

\* Mutant: a record that may have run is begun again.
BeginAgain(o) ==
    /\ Moves(o, "queued", "begun") /\ journal[o].state \in {"received", "started"}
    /\ Becomes(o, "started")
    /\ Quiet /\ UNCHANGED <<server, ran>>

Begin(o) ==
    /\ Moves(o, "queued", "begun") /\ journal[o].state = "received" /\ Becomes(o, "started")
    /\ Quiet /\ UNCHANGED <<server, ran>>

\* client.start(), which is not retried.
Start(o) ==
    /\ \/ /\ Moves(o, "begun", "running")
          /\ lease = fence /\ receipt[o] \in {"delivered", "running"}
          /\ receipt' = [receipt EXCEPT ![o] = "running"]
       \/ /\ Moves(o, "begun", "failed")
          /\ \/ UNCHANGED receipt
             \/ /\ lease = fence /\ receipt[o] = "delivered"
                /\ receipt' = [receipt EXCEPT ![o] = "running"]
    /\ Quiet /\ UNCHANGED <<lease, issued, journal, ran>>

Ran(o) == ran' = [ran EXCEPT ![o][fence] = IF @ < 2 THEN @ + 1 ELSE @]

\* A cancelled operation yields a result too; the executor may also fail.
Run(o) ==
    /\ \/ Moves(o, "running", "ran") /\ (Ran(o) \/ (cancel /\ UNCHANGED ran))
       \/ Moves(o, "running", "failed") /\ (Ran(o) \/ UNCHANGED ran)
    /\ Quiet /\ UNCHANGED <<server, journal>>

Save(o) ==
    /\ Moves(o, "ran", "saved") /\ Becomes(o, "terminal")
    /\ Quiet /\ UNCHANGED <<server, ran>>

\* Mutant: a completion nobody heard of counts as delivered.
CompleteUnheard(o) ==
    /\ Moves(o, "saved", "confirmed") /\ Unheard(o)
    /\ Quiet /\ UNCHANGED <<lease, issued, journal, ran>>

\* complete(), with the lease and then with the Worker credential, retried
\* until the deadline; a drain waits a minute for it.
Complete(o) ==
    /\ \/ Moves(o, "saved", "confirmed") /\ Takes(o)
       \/ Moves(o, "saved", "failed") /\ Unheard(o)
       \/ task[o] = "saved" /\ Unheard(o) /\ UNCHANGED task
       \/ Moves(o, "saved", "none") /\ drain # "no" /\ Unheard(o)
    /\ Quiet /\ UNCHANGED <<lease, issued, journal, ran>>

\* acknowledge(); a due compaction also forgets the record. The receipt may
\* say that the assignment is complete, which drains it.
Acknowledge(o) ==
    /\ Moves(o, "confirmed", "none")
    /\ \/ Becomes(o, "acknowledged")
       \/ journal' = Shut(Marked(o, "acknowledged"))
    /\ drain' \in {drain, IF drain = "no" THEN "assignment" ELSE drain}
    /\ UNCHANGED <<server, phase, fence, after, batch, cancel, recovery, ran>>

\* A journal call of the task fails, with or without its record on disk.
JournalFails(o) ==
    /\ \/ /\ Moves(o, "queued", "failed") /\ journal[o].state = "received"
          /\ journal' \in {journal, Marked(o, "started")}
       \/ Moves(o, "ran", "failed") /\ journal' \in {journal, Marked(o, "terminal")}
       \/ Moves(o, "confirmed", "failed") /\ journal' \in {journal, Marked(o, "acknowledged")}
    /\ Quiet /\ UNCHANGED <<server, ran>>

\* The process dies, between any two steps.
Crash ==
    /\ phase # "down" /\ phase' = "down" /\ journal' = Shut(journal)
    /\ fence' = 0 /\ after' = 0 /\ batch' = {} /\ cancel' = FALSE /\ drain' = "no"
    /\ task' = [o \in Ops |-> "none"]
    /\ todo' = {} /\ asked' = 0 /\ saw' = "none" /\ deferred' = FALSE
    /\ UNCHANGED <<server, ran>>

-----------------------------------------------------------------------------
Execute(o) ==
    \/ Decline(o) \/ Redeliver(o) \/ Begin(o) \/ Start(o) \/ Run(o)
    \/ Save(o) \/ Complete(o) \/ Acknowledge(o) \/ JournalFails(o)

Next ==
    \/ Expire \/ Sweep \/ SweepEnds \/ SweepStops \/ SessionEnds
    \/ ReconcileFails \/ ReconcileDrained \/ Serve \/ Mislaid \/ Cancel \/ LeaveLoop \/ Finish \/ Crash
    \/ \E heard \in BOOLEAN : Claim(heard)
    \/ \E ops \in SUBSET Ops : Poll(ops)
    \/ \E o \in Ops :
         \/ GiveUp(o) \/ CloseReceipt(o) \/ Forget(o)
         \/ Read(o) \/ ReadFails(o) \/ Resend(o) \/ ResendFails(o) \/ Settle(o)
         \/ Deliver(o) \/ RefuseDelivery(o) \/ Collect(o) \/ Execute(o)

Spec == Init /\ [][Next]_vars

(***************************************************************************)
(* A supervisor restarts the Worker, reconnect() connects again, and calls *)
(* return. The network and the server are fair to a call that is tried     *)
(* again and again. Nothing makes a session end, a lease expire or a       *)
(* process die.                                                            *)
(***************************************************************************)
Reconnect == phase \in {"down", "ended"} /\ Sweep

Fairness ==
    /\ WF_vars(Reconnect) /\ WF_vars(SweepEnds)
    /\ \A o \in Ops : /\ SF_vars(Read(o)) /\ SF_vars(Resend(o))
                      /\ WF_vars(Resend(o) \/ ResendFails(o)) /\ WF_vars(Settle(o))

FairSpec == Spec /\ Fairness

-----------------------------------------------------------------------------
\* Every variable keeps its type.
TypeOK ==
    /\ receipt \in [Ops -> Receipts] /\ lease \in 0..MaxFence /\ issued \in 0..MaxFence
    /\ journal \in [Ops -> Record] /\ phase \in Phases /\ fence \in 0..MaxFence
    /\ after \in Ops \cup {0} /\ batch \subseteq Ops /\ task \in [Ops -> Tasks]
    /\ todo \subseteq Ops /\ asked \in Ops \cup {0}
    /\ saw \in Receipts \cup {"none", "taken", "refused"}
    /\ deferred \in BOOLEAN
    /\ cancel \in BOOLEAN /\ drain \in {"no", "assignment", "session"}
    /\ ran \in [Ops -> [Fences -> 0..2]]

\* A mutation runs at most once, whatever is lost, repeated, cancelled or
\* restarted, and however often the server leases the assignment again
\* (received() refuses it at another fence, execute() a started one).
MutationRunsOnce == \A o \in Ops : Effect[o] = "mutation" =>
    \A f, g \in Fences : ran[o][f] > 0 /\ ran[o][g] > 0 => f = g /\ ran[o][f] = 1

\* Any operation runs at most once under one fence, also when the Worker
\* restarts and the server returns the lease it had.
RunsOncePerFence == \A o \in Ops, f \in Fences : ran[o][f] <= 1

\* The journal forgets an operation that ran only when the server will not
\* hand it out again: no cleanup of records may outrun the server.
RememberedWhileOpen == \A o \in Ops :
    receipt[o] \in Open /\ journal[o].state \in {"none", "acknowledged"} =>
        \A f \in Fences : ran[o][f] = 0

\* A saved result leaves the journal only when the server is done with the
\* operation or has refused it, or a replayable operation starts again.
SavedUntilSettled == [][\A o \in Ops : Saved(o) /\ ~Saved(o)' =>
    \/ receipt[o] \in {"closed", "gone"}
    \/ asked = o /\ saw = "refused"
    \/ Replayable(o) /\ journal'[o].state = "received" /\ journal'[o].fence # journal[o].fence]_vars

\* A result that is saved reaches the server, or the server closes the
\* operation, as long as the Worker goes on sweeping (it sweeps when it
\* connects, deliver_saved_results).
SavedResultSettles == ([]<>(phase = "sweep")) =>
    \A o \in Ops : Saved(o) ~> (~Saved(o) \/ receipt[o] \in {"closed", "gone"})

\* The records keep to the ledger that ReceiptJournal implements.
Entry(o) == IF journal[o].state \in {"none", "acknowledged"}
              THEN [state |-> "none", fence |-> 0, result |-> "none"]
              ELSE [state |-> journal[o].state, fence |-> journal[o].fence,
                    result |-> IF Saved(o) THEN "result" ELSE "none"]
Ledger == INSTANCE ReceiptLedger WITH Results <- {"result"}, NoResult <- "none",
                                      ledger <- [o \in Ops |-> Entry(o)]
LedgerSpec == Ledger!Spec
=============================================================================
