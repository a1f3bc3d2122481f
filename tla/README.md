# Specifications of cloudthinker-cli

TLA+ models of the parts of the CLI that keep a user's work safe across crashes,
lost replies and concurrent processes, the TLC runs that check them on small
instances, and TLAPS proofs of what matters most for every instance. Paths
below are relative to the repository; `worker/` stands for
`crates/cloudthinker-cli/src/worker/` and `client/` for
`crates/cloudthinker-client/src/`, `subagents/` and `cloud/` for the packages of
those names in `agent-cli/packages/`, with their `src/`.

## The system

`cloudthinker` is one Rust binary with a TypeScript agent beside it.

| Part | State it keeps | Operations | Talks to |
| --- | --- | --- | --- |
| Worker runtime (`worker/runtime.rs`) | session, tasks of assignments and operations, cancellation and drain tokens | connect, sweep saved results, claim, reconcile, poll, execute, deliver, drain, release | the server, the receipt journal, the executor |
| Receipt journal (`worker/journal.rs`) | `journal.jsonl` and `<operation>.result` files of an assignment, records in memory | open, received, started, terminal, acknowledge, advance_cursor, retire, compact | the runtime, on blocking threads |
| Journal cleanup (`worker/journal.rs`, `maintain` in the runtime) | the ages of the journal directories | with_saved_results, remove_abandoned | the runtime |
| Background tasks (`worker/background.rs`, `commands/bg_shim.rs`) | a task directory with a lock, a manifest, streams, an exit file; a detached supervisor | start, tail, cancel, cleanup, gc | the executor, processes |
| Worker API client (`client/worker_api.rs`) | cached lease clients, the credential | one method per endpoint | the server |
| Token refresh and store (`client/auth/`) | `credentials.json` under a file lock | refresh, adopt, login, activate, logout | the server, other processes |
| Worktrees (`worker/worktree.rs`) | per conversation a folder, a branch and a record of its last use; the folder that the Worker knows | resolve, ensure, mark as used, prune | git, the executor, the command line |
| Session containers, skill bundles (`worker/`) | containers by assignment, unpacked bundles | ensure, reap, evict | the container runtime |
| Remote sessions (`engine/remote/`) | the run of a terminal with its session; the lock, the socket and the exit file of a name; a host with the agent, its size and one client | attach, resume, take over, resize, detach, finish | ssh, sockets, the agent |
| Subagents (`subagents/agent-manager.ts`, `group-join.ts`, `index.ts`) | a record per agent, its runs, two slot counters, one queue, the batch, the groups and the announcements on hold | spawn, resume, abort, steer, set a limit, read a result, announce | the agent, git, timers |
| Cloud mirror (`cloud/mirror.ts`, `async.ts`) | what is acknowledged, refused and pending of the linked session; an outbox file and a file of refused entries per conversation | link, unlink, flush, deliver, clear | the server, files |
| Other agent extensions (`agent-cli/packages/`) | workflows, schedules, background jobs, sign-in | run, schedule, poll | the agent, the server, files |
| Commands, output, generated API | none worth a model | parse, print | the user |

What is hard about it: calls whose reply is lost and that are retried; leases
that expire while work goes on; a process that dies between two writes; several
tasks that act on one journal; several processes that share a file; cleanups
that run on a thread of their own; supervisors that outlive the Worker; callbacks
of JavaScript that run between two awaits of another and change what it read.
`PROJECT.json` lists the hazards with their lines and the properties that cover
them.

What makes each part correct:

- the journal never loses what a call reported as done, never lets a finished
  record be without its result, and never runs a mutation's record backwards;
- the runtime runs no operation twice under one lease and no mutation twice at
  all, and drops a saved result only when the server is done with it;
- the cleanup spares what is unsent and removes what is abandoned;
- a background task has one exit code, which comes with the last of its output;
  its command is stopped by its deadline whatever becomes of the Worker, and a
  cleanup leaves nothing running and nothing on disk;
- a refresh token is presented once, and whoever waits adopts the new one;
- a subagent that runs has the slot that was counted for it, nobody waits in the
  queue beside a free slot, whoever waits for an agent is woken, and a result
  that nobody read is announced;
- the mirror takes nothing for delivered that is not, sends a session's entries
  in their order and to their own conversation, and keeps on disk what it still
  has to send;
- a terminal that loses its link comes back to the agent it had and to no other,
  takes it from nobody, and is told the end of it; one host serves a name;
- a worktree is handed out complete, keeps what is neither committed nor pushed, and
  goes when it is idle;
- the rest: containers in use are not reaped.

## The modules

### ReceiptLedger and ReceiptJournal

`ReceiptLedger` is what the journal promises: an entry for each operation takes
only steps of the operation's life (delivered, started, finished with a result,
resolved), and only a replayable operation goes back to the start, at another
fence.

`ReceiptJournal` is `journal.rs`. The file is read last writer wins, so `file`
holds what reading it returns (`log`, `cursor`) and the two ways it is damaged:
`torn` (an unterminated last line) and `corrupt` (a complete line that does not
parse). `results` are the result files, `mem` the fields of `ReceiptJournal` in
the process that has it open, with the count of appended lines that makes
compaction due. Each call is one action with a parameter `end`: it succeeds, it
fails and the process goes on, or the process dies in the middle; the disjuncts
of the "Breaks" operators are the points where it can stop. `stopped` and
`halted` remember which operations had an error: the runtime makes no further
call for such an operation, and takes no further delivery.
`Faults` names the failed writes a process outlives: `append` (all or nothing
reached the file), `torn` (a part did), `unlink`, `result`, and `swap` (the new
file is in place and cannot be opened again).

### WorkerAssignment

One assignment and one Worker, from `runtime.rs`. `phase` is where the session
is (down, sweeping, idle, reconciling, serving, joining, ended), `task` where
the task of each operation is, `journal` the records with the steps of the
ledger above. `todo`, `asked` and `saw` are the loop variables of the sweep and
of `reconcile`, whose step is `recover`: it reads a receipt, and what it does
next depends on what it read and not on what is true by then. `batch` is a
reply to the poll on its way: the server handed the operations out, the Worker
has not seen them. The server's part (leases that expire, operations that become
unknown, closed or forgotten) is external: it is what the client defends
against. A call that completes an operation is taken, refused, or unheard.
`Crash` may happen anywhere. `ran` is a history variable.

An operation's record counts as one step here because `ReceiptJournal` shows it
is: the property `LedgerSpec` of this module is the same abstract specification
that the journal implements.

### JournalRetention

How long journals live, in days. `Deliver` is what `deliver_saved_results` does
with one journal. `List`, `Examine` and `Remove` or `RemoveFails` are the steps of
`remove_abandoned`, which reads the names, looks at one journal at a time and
removes it or goes on, on a blocking thread, while assignments open and append to
journals: `ahead` is what it has yet to look at, `doomed` what it has found
abandoned. A removal may fail for a passing reason, half-way too, which leaves a
directory without its `journal.jsonl` (`Emptied`), or always (`stuck`, a file
that is not the Worker's to remove). `damage` tells a line that does not parse
from a file that `open` refuses although the scan can read it. `since` is the age
of a result in it, any of them when there are several. `touched` is a history
variable.

### BackgroundTask

One task id, from `worker/background.rs`, and its supervisors, from
`commands/bg_shim.rs`. A *life* is one directory of the id together with the
supervisor that the start which made it spawned; a cleanup, or an abort of a
start that failed, frees the name for the next life. `named` is the life whose
directory has the name now. Whoever opened a directory before keeps it: a
supervisor writes into `at`, the directory it opened, and fails once that is no
longer the named one; its shell takes the command file by the path (`SpawnChild`).

An operation is a sequence of steps with a `pc`, since each runs on a thread
and looks at files that others change between its looks:

| Code | Steps |
| --- | --- |
| `start`, `abort` | `Prepare`, `SpawnShim`, then `Started` or `GiveUp`; after `GiveUp` the steps of a cleanup |
| `liveness` | `Probe` (the exit file), `TryLock`, `ProbeAgain` (the exit file, under the lock) |
| `tail` | liveness, then `Page`, or `Quiet` and again |
| `cancel` | liveness, then `Signal` |
| `cleanup` | `Find` (`supervisor_pid`), `Strike` (SIGKILL to the group), `Clear` and `Rmdir` (`remove_dir_all`) |
| `gc`, `collect` | liveness, `Find`, then `Spare`, or the rest of a cleanup |

A supervisor goes `spawned`, `opened`, `locked`, `announced`, `waiting`,
`draining`, `sealed`, `lingering`, `dead`, with `stopping`, `overdue` and
`killing` where it is asked to stop and the child does not obey. `command` is its
child, `daemon` what the child leaves in the process group, `pipe` and `hand` a
chunk of output that nobody read and one that a copy task is going to append. It
may be lost at any point (`Lost`: something kills it alone), and the Worker may
(`Crash`), which takes the operations and leaves the supervisors.

What is abstracted. The streams are alike, so there is one, `stdout`. Whether the
tasks are over their budget is a free choice of each collection (`Strike` and
`Spare`), and sizes are chunks. The wait of a quiet tail reads liveness once per
round here, and the page that follows uses it. The lock that `supervisor_pid`
gets for a moment is released in the same step; the one that `liveness` gets is
held across a step, since the second look at the exit file depends on it. A
directory grows older than `GC_GRACE` (60 seconds) only after the supervisors
that could open it have their lock (`Starting`): a start waits 2 seconds for one
(`START_WAIT`). `OrderlyStarts` says that no start is made while a supervisor of an
earlier one has yet to open its directory; the open points below say what happens
without it. Container mode, where a process group is in the container, the decoding
of output, and the reuse of a pid by another process are left out. `acked`, `told` and `got` are history variables, and so is
the field `sent` of an operation: the life it was meant for, if its start had
been answered and nobody had begun to remove it.

### TokenRefresh

The logins of one host, from `client/auth/refresh.rs`, `client/auth/store.rs`
and `client.rs`. `task` is a request or a logout with what it has in hand,
`mutex` the refresh lock of each process, `lock` the lock beside
`credentials.json`, and `stored` and `active` are the file. Reading the file
needs no lock (the write renames), so `Begin` takes its token at any time; every
write is under the lock. A refresh is `TakeMutex`, `TakeLock`, then `Missing`,
`Adopt` or `Send`; after `Send` it waits, and the lock is held until `Store` or
an error. `Login` is one step: what the user does in the browser changes nothing
here until the token is saved under the lock.

The server is external and is what the comment at `refresh.rs:3-6` says: it
rotates the refresh tokens of a family, and revokes the family when a consumed
one is presented (`Present`). An access token and its refresh token are one
value, their place in the family. An expired access token is a call that is
answered 401, which may happen to any. A presentation may not arrive or be
turned down unread (`Unreached`), and its answer may be lost, hidden by a server
error or late (`Unheard`); a late one stays among the `strays` and may be served
at any time. Two strays of one token count as one: the first that is served
consumes the token, so a second only adds a reuse that a waiting presenter shows
as well. `Abandon` is a future that is dropped and a process that dies.
`adrift` and `reused` are history variables.

### Subagents and CompletionNotices

The agents of one session. JavaScript runs one callback at a time, so an action
is what happens between two awaits, and other actions come in wherever the code
awaits.

`Subagents` is `agent-manager.ts`. `rec` is the record of an agent and `run` its
runs in the order in which they began, since a resume may begin a second while
the first has not settled. `queue` is the one queue of both pools, `used` their
counters (`runningBackground`, `runningForeground`), `limit` what the user set.
An agent is spawned detached (`background`: the Agent tool or, without the queue,
a job of the scheduler), by a call that waits (`blocking`: `spawnAndWait`), or by
another agent (`child`). An isolated agent has the repository copied before its
first run (`CopyDone`, `CopyFails`), and may be stopped meanwhile, after which
the copy is removed (`Discarded`). A run that ends may have its copy to remove
(`Tidied`) before it settles; settling stops the children, gives the slot back,
drains the queue and reports. `caller` is the tool call that spawned an agent:
at the gate of the queue, waiting for the start, waiting for the run, back.
`Drains` gives the result of the loop of `drainQueue` in one expression: an entry
is taken (`Taken`) if fewer entries of its pool precede it (`Ahead`) than the pool has
room for.

`CompletionNotices` is how the session is told: `group-join.ts` and the join mode
of `index.ts`. It has no actions of its own. Its operators map one `desk` to the
next, because each of them is called inside a callback of the manager. Agents
that are spawned within one debounce window form a batch; two or more become a
group, which is announced together, or in part when its timer fires. An
announcement is held for a moment, in which reading the result calls it off.

What is abstracted: the turns and the text of an agent, which worktree it gets,
the order among agents whose runs end at once. A group that has nobody to wait
for and no timer is as good as none (`Swept`), and its number is used again. An
agent whose record is thrown away (a start that fails outside the queue) is
`gone`; the eviction of old records by a timer is left out. `owed` is a history
variable: the agents whose last result nobody has been told.

### CloudMirror

One process that mirrors its sessions into conversations of the cloud, from
`mirror.ts` and `async.ts`. `conv`, `linked`, `acked`, `refused`, `pending`, `kept`
and `loaded` are the fields of the mirror, `call` the requests of a link under
way. `ops` is the chain of operations on the outbox file (`serializeOutbox`), of
which the first runs: the staging of a flush, or the removal of the file by a
delivery. `flight` is the delivery under way and `again` the request that makes
`singleFlight` run it once more. A new `linkGeneration` makes every earlier
request stale and never the other way round, so a request carries `stale` and
no number. `outbox` and `rejects` are the files, `log` the sessions themselves,
`server` what the cloud has.

Every awaited call may find, as it returns, that the session was switched
(`Unlink`, `Link`) or linked again. Sending a chunk has four ends: taken and
answered (`Acknowledged`), refused for good (`CloudRefuses`), not answered though
taken, and not taken (`SendFails`). `Crash` may happen anywhere; a torn append
leaves the complete lines of it, a torn file of refused entries is read as
none. The file is kept without repeated lines: whoever reads it takes the first
of each. `denied` is a history variable.

### RemoteSession

One name of `cloudthinker remote`, from `client.rs`, `bridge.rs` and `host.rs` of
`engine/remote/`. `term` is a run: one invocation of the command, which is
`asking` from its hello to the welcome, `attached`, or `away` between a lost
link and the next attempt. A `link` is one ssh with the bridge it starts, in the
stages of `connect` (`dialing`, `clearing`, `spawning`), then `offered` to the
host, `served`, and `shut`; `end` is the run's side of it. A run leaves a link
that it thinks lost, and the link goes on: its bridge may still spawn a host or
attach. `frames` are on their way to the run, `asked` is a new size and `left`
the end of the link on their way to the host. `lock`, `socket` and `exit` are the
files of the name, `spawned` hosts that have yet to try the lock, `host` the
one that has it with its client, `size`, `pty` and `jiggle` what it keeps of the
agent's terminal. An agent is named by the run that started it.

The host's task takes one event at a time: joins (`Attach`, with the paths of
`attach` as disjuncts), sizes (`OnResize`), ends (`OnLeft`), output (`Forward`),
the agent's request and its exit, the two deadlines. `Hear` is the next frame of
a run, before and after its welcome, which `expect` and `show` treat alike in
all that the model keeps.

What is abstracted. A session number is compared for equality with the host's
and replaced at each attach, so it is `none`, `current` or `stale`, and an attach
makes every other one stale wherever it is (a number that recurs after a restart
is left out). Output is numbered modulo `Chunks`. The frames of one link and the
bridge's two pipes are one queue. What a terminal types, uploads, the catalog
with its picker, the refusal of another version, sizes of zero, and the wait of
30 s for a first terminal as a duration are left out. What a connection that was
closed still has for its client may get lost from its end on (`Stall`): the host
waits 2 s for the last frames as it ends, and 15 s for each frame of a client that
was replaced or told to detach. `owner`, `starts`, `with`
and `shown` are history variables.

### Worktrees

The worktree of one conversation, from `worktree.rs`. `folder` is what is on disk,
`half` while a `git worktree add` or `remove` is under way or after it was killed;
`admin` is what git itself knows of it, `branch` its branch, `record` the file
with its last use. `live` is the folder that the Worker opened, `handle` the one
that an operation holds: both become `stale` when the folder goes. A `task` is one
operation: `Resolve` and the gate (`PassGate`, `Look`), the making of the worktree
(`Discard`, `Add`, `Added`, `WriteRecord`), and its use (`Edit`, `Commit`).
`MarkRead` and `MarkWrite` are `mark_used`, which runs on its own thread. `pruner`
is one cleanup: `maintain` in the Worker or the command; `prune_one` is `Judge`,
`Check`, `Remove` or `RemoveFails`, `Decide`, `DeleteBranch` and `Drop`, each one git
command or file, but for `git worktree remove`, which is two steps: it looks for
changes itself (`Check`), then it deletes what is there.

What is abstracted: one worktree, since they share nothing but git's own lock; the
other git commands are atomic but for the half-way state, and a deletion that meets
a new `git worktree add` of the same folder fails; the last use is `young` or `old`,
and 14 days go by only while nothing works, as nothing takes that long. A user
may remove the folder, also while nothing works. A recorded folder that is no
checkout at all is left out. `raced`, `stray`, `unread`, `crossed` and `late` are
history variables: `unread` says that a record was taken for missing because the
directory could not be read (`has_record`), `late` which cleanups have a git that
looked before the last change.

## The runs

| Run | Shows | Bounds |
| --- | --- | --- |
| `ReceiptJournal.cfg` | every call of the journal, cut short anywhere, keeps `Durable`, `ResultKept`, `Reopens` and implements the ledger | a mutation and an idempotent operation, two fences, two results; the journal is full at 2 records (4096 in the code) and compacts after 2 appends (1024), so both happen in every order |
| `WorkerAssignment.cfg` | `MutationRunsOnce`, `RunsOncePerFence`, `SavedUntilSettled`, and the ledger | a mutation and an idempotent operation, two leases: a lease, its loss and another lease is every pair the code compares |
| `WorkerDelivery.cfg` | `SavedResultSettles`, under fairness | the same with one lease |
| `JournalRetention.cfg` | `UnsentOutlivesCleanup`, `AbandonedIsRemoved` | two journals, one cleanup, 1 day for 7, 2 for 90 |
| `BackgroundTask.cfg` | `TerminalIsFinal`, `RemovalLeavesNoCommand`, `OutputComplete`: tails, cancels and cleanups against one supervisor that is slow, lost, cancelled or overdue | two operations at a time, one life, 2 chunks recorded of any number that a command and its daemon write |
| `BackgroundEnds.cfg` | `DeadlineHolds`, `Reclaimed`, under fairness | two starts or collections at a time, one life, daemons that never have to end |
| `TokenRefresh.cfg` | `ReuseNeedsALoss`, `ReturnsNewest`, `StoreFollowsLogin`, and under fairness `EveryTaskEnds` | three tasks, two of them in one process, two workspaces, two logins, two attempts (3 in the code), two requests or logouts; one request may refresh twice |
| `Subagents.cfg` | `SlotsAreHeld`, `NobodyIsStranded`, `GatesOpen`, `ResultsAreHeld` | a detached agent with a copy, a call whose agent is resumed once, and another call or a child (`CallOrChild`); one slot, for the foreground one or two as the user sets; one group |
| `CloudMirror.cfg` | `PendingIsOnDisk`, `AckedIsMirrored`, `OwnEntriesOnly`, `ParentsFirst` | sessions of two entries and of one, the first of the longer may be refused; one entry to a batch (200 in the code); a further flush only while one operation on the file, at most, is under way |
| `RemoteSession.cfg` | `SocketIsServed`, `OneStartPerRun`, `EndsAreTold`, `NoTakeBack`, `EndIsTrue`, `NoGap` | two terminals, two links at a time, two hosts yet to try the lock, two frames in a queue (512 in the code), output numbered modulo 2 |
| `RemoteReturns.cfg` | `WindowSettles`, and under fairness `ComesBack` | one terminal of two sizes, two links, one host yet to try the lock, no output |
| `Worktrees.cfg` | `HalfOnlyIfStray`, `LostOnlyToARace`, `CommitsKept`, and under fairness `IdleIsForgotten` | two operations and two cleanups of one worktree |

Two operations are enough for the journal and the runtime: operations share the
file, the compaction counter, the cursor and the cancellation, and each pair of
them is covered; no code path compares three. Two journals are enough for the
cleanup, which handles one at a time: one of them may not be removable and the
other wait behind it. The run has one cleanup; a second, of a session that began
before the first ended, is in the proofs, which hold for any number.

Two operations at a time are enough for a background task: each acts on the
directory and the supervisor, not on another operation, so what can go wrong is a
step of one between two steps of another, with the supervisor anywhere. One life
covers every pair of kinds; what a second life adds, that names are used again, is
the subject of the open points below. A caller may lack one chunk, so output that
is lost shows only with two.

Three tasks are enough for the refresh: one holds the lock, one waits for it
from another process and one behind the lock of its own process. What they share
is the lock and the file, so a fourth only waits. Two logins are enough for a
workspace to be logged in again, or for both to be.

For subagents, one slot is the tightest queue: a second agent of the pool always
waits, and a slot that is lost or given back twice shows at once. Two calls wait
for one foreground slot, and a higher limit has to start the second; the resumed
agent and the detached one compete for the background slot and, when they come
in one window, form a group, which can time out with one of them left. A child
only ends with its owner, so it need not meet the second call. Two entries are the
smallest session with an order, two sessions the fewest that can be mixed up, and
with one entry to a batch a session of two has a second batch after one that was
lost or refused.

Two terminals are the fewest that can take the agent from each other, and two
links the fewest where one that was left acts beside its successor. Two frames
hold a welcome and a last word; a third would only be more output, which a queue
of two loses just as well. Numbers modulo 2 tell a gap of one output, which is what
a full queue drops first.

Two operations and two cleanups are enough for a worktree: `ensure` lets one
operation past its gate, so a second can only use what the first made, or wait.
Cleanups are held off by nothing, and two of them already meet at every pair of
steps. What is proved of them holds for any number.

Deadlock is not checked in the runs of the refresh, of the background task, of
the subagents, of the mirror and of the remote sessions: each terminal runs the
command once, the requests of a refresh run are counted
(`MaxBegun`), the lives of a task (`MaxLives`), the runs of an agent (`MaxRuns`)
and the entries of a session (`MaxEntries`), and nobody has to start another. In
the others something can always go on.

### Fairness

`WorkerAssignment` assumes that a supervisor restarts the Worker and `reconnect`
connects again (weak fairness of `Reconnect`), that calls return, and that a
call which is tried over and over is answered at some time (strong fairness of
`Read` and `Resend`). Nothing makes a lease expire, a session end or a process
die, and the property holds only as long as the Worker goes on sweeping, which
it states. The order in which records are taken is not fair: a sweep may end
before it reaches a record.
`JournalRetention` assumes that days pass, that `maintain` comes round, which
a session calls when it starts and every few heartbeats, that a cleanup goes
through its list, and that a directory which can be removed is removed at last
(strong fairness of `Remove`: failures that pass do not come each time).
`BackgroundTask` assumes that a supervisor takes its steps, whose waits all have
a deadline (`StopAsked`, `GraceOver`, `Drain`); that an operation goes on; that
days pass; and, with strong fairness, that a collection is made now and then,
which a session does as it starts and every few heartbeats: it is enabled only
while an operation may begin, hence strong. No end of a command or a daemon is
assumed, nor of the Worker: `DeadlineHolds` holds with crashes, and `Reclaimed`
once the Worker stays up.
`TokenRefresh` assumes that each task takes its next step when it can: calls have
timeouts (`client.rs:246`), so an attempt that waits ends. The wait for a lock
has no limit (`store.rs:282`, `store.rs:437`), so no fairness ends it but that of
its holder: `LockFails` and `Abandon` are in `Next` and not in `Progress`, and a
path that kept either lock, the machine's or the mutex of a process, would leave
a task waiting for good. TLC finds both leaks; the mutant is that of the file
lock. Neither `flock` nor a later request gives way, and a task could wait without
end if new ones came without end; with `MaxBegun` of them it does not, and then
all are idle again and again, which is what `EveryTaskEnds` says.
`RemoteSession` assumes that ssh is tried again and again (`reconnect` has no
limit), that a process goes on with what it began, and that a bridge which polls
every 100 ms finds, in one attempt or another, a free lock and a served socket
(strong fairness), as does a host that was spawned. Nobody has to open, leave,
resize or quit. `ComesBack` asks besides that links are lost or stall, hosts are
killed and first terminals late only finitely often (`Calm`).
`Worktrees` assumes that `maintain` comes round, which a session calls as it starts
and every few heartbeats, that days go by, and that git does not fail each time
(strong fairness of `PruneBegins`, `Judge`, `Check` and `Remove`). `IdleIsForgotten` asks
besides that the Worker stays up and the conversation stays idle and clean.
No liveness is claimed of the subagents (`GatesOpen` and `ResultsAreHeld` say that
whoever waits has somebody who will wake him), nor of the mirror, see the open
points.

### Open points

Behaviours of the code, most of them behaviours of the models too, without a run
of their own; the properties above are stated so as to allow them. Where a
document or a test says otherwise, it is quoted. Of the journal, the refresh and
the background task:

- `worker/journal.rs:558`: `append` does not undo a partial write. If the
  process outlives it (the fault `torn`), the next record joins the torn line,
  `open` refuses the journal, and results that are saved in it are not sent again
  (`CHANGELOG.md:36` promises they are).
- `worker/journal.rs:544`: `compact` has put the new file in place and cannot open
  it again (the fault `swap`): the process goes on with a handle of the old one.
- `worker/runtime.rs:794`: a `reconcile` that finds an operation the server has
  forgotten ends in an error and keeps the lease until it expires.
- `commands/bg_shim.rs:130`: `hold_lock` waits for a lock where its error says
  that a held one is refused. A supervisor that starts after the Worker gave it up
  opens the directory of a repeated start by its path, waits there until the
  other supervisor has ended, truncates its output and runs the command again
  (with `OrderlyStarts` FALSE and two lives).
- `worker/background.rs:453`: two operations that probe the lock of a vanished task
  at once: the second takes the first for the supervisor and says "running" once
  more.
- `client/auth/refresh.rs:62`: a stored token that differs is taken for a
  rotation of the one that failed (`refresh.rs:9-10`), but the selector is the
  active workspace, and a switch or login in another process may have changed
  that. The request is then made again under the other workspace's token.
- `worker/journal.rs:345`: `open` rewrites `journal.jsonl`, so each sweep that
  fails to send a result renews the age by which `remove_abandoned` applies the
  90 days of `CHANGELOG.md:39` (`Deliver` sets `age` to 0).
- `worker/journal.rs:202`: a journal with a line that does not parse is no
  candidate of the sweep (`HoldsSavedResult`), which therefore does not warn
  about it as `CHANGELOG.md:40` says.
- `client/auth/refresh.rs:82`: the retry of a refresh presents the same token
  again. If the failed attempt had rotated it (the answer was lost, or came as a
  server error after the fact), the server sees a reuse and revokes the login;
  `CHANGELOG.md:189` says that a server error is retried instead of logging the
  user out. `ReuseNeedsALoss` says that nothing but such a loss has this effect.
- `worker/background.rs:676`: `collect` removes by the name under which it
  scanned; a task that was cleaned up and started again in between loses its
  directory while it runs. The test at `background.rs:1233`, which says young
  running ones are spared, has no other actor.
- `commands/bg_shim.rs:86`: the supervisor stays only for its streams, so a daemon
  that redirected its output outlives it, and `cleanup` finds nobody to kill. The
  test at `background.rs:1069`, which says that a daemon dies at cleanup, has one
  that keeps its output. `RemovalLeavesNoCommand` is about the command.

Of the subagents:

- `subagents/agent-manager.ts:1532`: `waitForAll` waits for what is pending, "including
  queued ones". A queued agent has no promise yet: while every slot is held by
  runs that were stopped and have not settled, the loop has nothing to wait for
  and returns with the queue full; with only settled promises among the live ones
  it spins without letting timers run.
- A run that was stopped and has not settled passes the check of `resume`, so two
  runs of one agent may be in flight; the settling of the older one writes its
  status over that of a queued resume. A resume in the foreground makes no such
  check at all.
- An announcement on hold (200 ms), or a group that holds a result, is not told
  of a resume, and may announce an agent that runs again. One stopped in the
  debounce window or while its copy is removed may be announced twice.
- A queued member of a group that is stopped does not report, so the group waits
  for its timeout. A resumed agent whose group never completed is routed to it.
- A spawn while a stopped start removes its copy finds the slot free and
  overtakes the queue, which is drained only afterwards.

Of the mirror:

- `cloud/mirror.ts:308`: `stageEntries` drops a flush that an earlier link asked
  for. A delivery which finds the session not linked links it again
  (`mirror.ts:217`), which makes the flush that waits behind its staging stale
  although the session is the same: it ends without a line on disk, where
  `agent-cli/packages/cloud/CHANGELOG.md:14` says that each flush is persisted,
  "including entries from later flushes while an earlier append is in flight".
- `cloud/async.ts`: a request that came during a delivery which throws is
  forgotten, so nothing tries again before the next flush, and "an entry settles
  at last" holds only if turns go on.
- A chunk is refused as a whole: one entry that the cloud cannot take costs the
  up to 199 with it.
- The flush of a shutdown that finds a delivery under way returns at once.
- A file of refused entries that a crash tore is read as empty: they are sent, and
  refused, once more.

Of the remote sessions:

- `engine/remote/host.rs:275`: every attach makes a new session, and a resume with
  another is told `Replaced`. The terminal learns the session from the `Welcome`.
  If its link is lost again in between (or the bridge of an attempt it gave up
  attaches after all), its next attempt is turned away and the command ends with
  "Attached from another terminal", where `CHANGELOG.md:80` says that when the
  network drops "the same screen comes back".
- `engine/remote/host.rs:267`: a resume that reaches a host before it has an agent
  stops it. Another terminal whose hello waits behind is dropped, and a first
  attempt is not repeated.
- `engine/remote/host.rs:88`: a host that starts while a bridge clears the socket,
  or while a listing asks whether an agent runs (`catalog.rs:287`), finds the lock
  held and ends without a word; its bridge has spawned and does not again, so the
  attempt fails after 5 s.
- `engine/remote/host.rs:497`: the exit file has the code of the last agent of the
  name. A terminal whose agent ended while it was away is told that of a later
  agent if there was one (`EndIsTrue` allows it), and 0 if there is no code.

Of the worktrees:

- `worker/worktree.rs:372`: `ensure` takes a folder with a record and a `.git` for
  complete. A record outlives its folder when the user removes the folder, or a
  cleanup stops before it removes the record; if the `git worktree add` that makes
  the folder again is killed with the Worker, the half-built checkout is handed
  out, where `CHANGELOG.md:91` says that one which "was stopped part way is now
  removed and created again". `HalfOnlyIfStray` says that nothing else does it.
- `worker/worktree.rs:625`: `prune` takes the age from the record it read, and
  `resolve` leaves the renewal of the record to another thread. A message after
  two idle weeks that meets a cleanup, which runs as a session starts, has its
  worktree removed under its operation, where `CHANGELOG.md:115` says that "the
  ones unused for 14 days" are removed. Changes that are there when git looks keep
  the folder; those made between its look and its deletion go with it.
- `worker/worktree.rs:666`: `prune_one` removes the record last, by its name, when
  an operation may have made the worktree again. After a restart `ensure` takes it
  for unfinished and discards it by force, with its changes, where
  `CHANGELOG.md:115` says that only those go "that have no uncommitted changes".
  If nobody asks for it again, such a worktree is never removed.
- `worker/worktree.rs:435`: `has_record` answers `false` when the directory of the
  records cannot be read, too, and `ensure` then discards a complete worktree with
  its changes. `LostOnlyToARace` says that changes are lost in no way but this one,
  the one before, and a deletion that follows git's own look too late.
- `worker/worktree.rs:663`: `contains_branch` and `git branch -D` are two commands. A
  second cleanup in between, after the worktree was made again and got commits,
  lets the first delete a branch that is not merged; the test at
  `worktree.rs:858`, which says that unmerged branches stay, has one cleanup.
  `CommitsKept` says that it takes two, or a record that cannot be read.

## The proofs

`ReceiptJournalProofs` proves, for any operations, fences, results and bounds,
and for failed writes that leave neither a torn line nor a lost handle
(`SafeFaults`), the type invariant, each safety invariant of the run and
`Spec => LedgerSpec`. The invariants are not inductive one by one: `Durable`
needs that the file of an open journal is neither torn nor detached, `ResultKept`
needs that a finished record in the file and the one in memory agree, and
`NoOrphan` needs that only recorded operations have results. Their conjunction
is the inductive invariant; each action is a lemma and the lemmas about
compaction and append are shared. The refinement maps an entry to the record the
process believes, or to the file when no process holds it.

`WorkerAssignmentProofs` proves, for any operations and any number of leases,
`MutationRunsOnce`, `RunsOncePerFence`, `RememberedWhileOpen`, `SavedUntilSettled`,
the type invariant and `Spec => LedgerSpec`, from `AssignmentAssumption` alone
(operations are positive numbers, `MaxFence` is at least 1). None of them is
inductive. `Recorded` is the key: a record is at the last fence at which its
operation may have run, and one that is received, begun or running has not run at
that fence, nor a mutation at any. A new delivery is then safe because `fence` is
the last one issued (`Phased`) and because what the poll hands out without a
record never ran (`Offered`, which needs `RememberedWhileOpen` when the poll is
answered, and `Cursor`, for the operation must not have a task that finishes
before the reply arrives). `RememberedWhileOpen` in turn needs `Seen`: receipts
are never opened again, so one that recovery read as settled still is when it
acts. `Frame` says what a step of one task leaves alone; `Lives` lists what a step
may do to one record, and both the action property and the refinement follow
from it.

The same module ends with `JournalRetention`, whose names do not clash with the
journal's: for any journals, cleanups and ages, its type invariant and that a cleanup spares
unsent results. The argument is that a doomed journal that was not touched since it was
examined is as old now as it was then, or older.

`TokenRefreshProofs` proves, for any tasks, processes, workspaces, attempts and
losses, the type invariant, `ReuseNeedsALoss`, `ReturnsNewest` and
`StoreFollowsLogin`. Its only assumptions on the constants are those of
`RefreshAssumption`: a retry count of at least one, and names for nobody and
nowhere that no task or workspace has. The invariant `Inv` says that a task past
the lock is its holder, that the token it presents is the stored one, that a
stored token is the newest of its family but between answer and write, and that
no two workspaces share a family. Without the second, a late write could bring
back an old login; without the third, the next holder could present a consumed
token. Most actions write nothing, and one lemma (`OneTaskMoves`) covers them.

`WorktreesProofs` proves, for any number of operations and cleanups, the type
invariant, `HalfOnlyIfStray`, `LostOnlyToARace` and `CommitsKept`, from
`WorktreeAssumption` alone. Its invariant says that one operation at most is past
the gate, what stage the folder and git are at for each place it may be, that a
record beside a half-built folder was there before, that a folder that is handed
out has a record unless a cleanup took it, and, of a cleanup that met no other,
as long as records can be read, that it still finds the record it read and that a branch that got commits since it
was judged is checked out. The last is what `CommitsKept` rests on: a cleanup acts
on what it saw several steps before. `LostOnlyToARace` needs besides that what git
has found clean is clean unless somebody changed it since (`Looked`).

`BackgroundTaskProofs` proves, for any number of operations, lives and chunks, the
type invariant, `TerminalIsFinal`, `OutputComplete` and `RemovalLeavesNoCommand`,
from `TaskAssumption` and under `OrderlyStarts`: no start is made while an earlier
supervisor has yet to open its directory. The hypothesis is needed: a supervisor
that starts late opens the directory of a later start by its path, truncates its
output and runs its command again (the open point on `bg_shim.rs:130`). Under it the
invariant has these parts: directories are numbered, and one that is empty has lost
the name; only the last start has a supervisor that has yet to open; a supervisor serves
its own directory, and an intact directory says where its supervisor is; the exit
file comes last; whoever empties a directory struck its supervisor first; what was
told of an end is final; and a copy task has one chunk in hand at most.

`RemoteSessionProofs` proves every property of `RemoteSession` but `ComesBack`, for
any terminals, links, sizes, outputs and queue, from `RemoteAssumption` alone. Its
invariant `Inv` has eleven parts.

- A link by itself (`AllSound`): a bridge that is not served has been sent nothing,
  a welcome comes first and a farewell last, and outputs follow each other.
- Who has the lock (`Locked`): a bridge that clears the socket, or the host.
- The host serves its client and no other link, and has an agent for it (`Served`).
- A run and its link are in step (`Own`).
- A session that counts, whether a run keeps it, a link carries it or a welcome
  brings it, is that of the run that attached last (`Sessions`). `NoTakeBack`
  follows.
- The only attempt of a run without a session is its first, and it has started
  nothing before (`Firsts`). `OneStartPerRun` follows.
- The agent, and the agent of an exit code, were started last (`Latest`).
- What is on its way to a run goes on from what it shows (`Streams`), hence `NoGap`.
- What the client of the host knows, or is about to be told, is the agent, and an
  exit code on its way is true (`Believed`), hence `EndIsTrue`.
- The size a client has asked for last is that of its terminal (`Sized`).

Most steps change one link and are tame: they keep its run and its session, and
add a farewell at most. One lemma (`LinkStep`) covers those, `StallStep` the loss of a
last frame, `LeavingStep` the ways a run ends, `TakesStep` the two ways a client is
taken in.

`CloudMirrorProofs` proves the type invariant, `PendingIsOnDisk`, `AckedIsMirrored`,
`OwnEntriesOnly` and `ParentsFirst`, for any sessions, batch size, refusals and number
of flushes, from `MirrorAssumption` alone. The invariant rests on one notion: a
sequence of entries is `Ordered` over a set if whatever comes before one of its
entries is in the set or earlier in the sequence. It says of the entries of a
conversation that the cloud has or has refused (`Done`):

- the outbox, what is pending and what a delivery has left are ordered over them
  (`Files`, `Memory`, `Sending`);
- an append under way is ordered over them and the outbox, and over them and what is
  pending if its link is current (`Operations`);
- what is kept is in the outbox, and either pending or done (`Memory`);
- the file is removed only while nothing is pending, and nothing but the first
  operation is under way;
- what is remembered of a current link is for its conversation (`Fresh`), and an
  answer on its way holds (`Answers`).

Selecting, appending, extending and splitting keep sequences ordered, and each of those
is a lemma. The first is about `Within`, a recursive function. The induction theorems of
the library take an operator and cannot be used, but an induction over one's own
formula needs no more than that a set of numbers has a least member (`Least`, from
`WFMin` and `NatLessThanWellFounded`): `WithinFollows` looks at the least length at which it
would fail. `Within` is written out, and not `SelectSeq`, because `SelectSeq` takes an
operator, so that no fact about it can be instantiated either.

`SubagentsProofs` proves every property of `Subagents`, for any finite set of agents of
any kinds, any limits, runs and groups, from `SubagentsAssumption` and
`NoticesAssumption` alone. The agents have to be finite, as those of a session are: the
counters are compared with numbers of slots, and an unlimited pool has room for all. None
of the four properties is inductive. The invariant has four parts.

- `Sound` is about the manager. Each counter is the number of slots held (`Counted`),
  which needs that a run is counted for the pool it carries. An entry of the queue is of
  an agent that was spawned, once if it waits for its first run, else of one that had
  a conversation (`Lined`, `Coursed`): a later run begins only after the copy of the
  first one was made, so that two runs never both stand for a start. Who is detached
  (`Moded`) decides which pool a queued agent is charged to, and has to agree with the
  pool it waits on. A gate is open or its agent is queued or starts (`Gated`).
- `Attended`: nobody in the queue could start, or a copy is being removed. What gives
  a slot back or raises a limit drains the queue; what takes a slot or joins the queue
  of a full pool leaves nobody who could start.
- `Debts`: an agent whose result nobody was told of has ended, is detached and has
  not been read. Such an agent may be resumed, whereupon the debt ends.
- `Covered`: the desk has each such result in the batch, in a group with a timer or in
  an announcement on hold. This part is proved of the operators of `CompletionNotices`
  first (`Keeps`), each of which loses nobody but the one it is called for.

`Drains` is where the work is. What is taken is a set of entries given by how many of the
same pool precede them, so the proof counts. Of a finite set of numbers, at least R have
fewer than R before them (`Forerunners`); hence a drain takes as many of a pool as it
has room for or all that wait for it, the counters grow by exactly those (`DrainedCounts`),
and whoever is left finds no room (`DrainedRoom`). The queue without some of its entries is
their sequence by rank, which maps one to one to those that stay (`WithoutIs`). After that
one agent changes at a time, and one lemma of each kind (`RunMoves`, `RunJoins`,
`OneAgentChanges`, `StillAttended`) covers what its run, its slot and the queue do.

Type invariants, `NoOrphan` and `RememberedWhileOpen` are proved and not listed for
a run: TLC checked them while the proofs were written, together with each inductive
invariant.

Model-checked only: liveness under fairness (`SavedResultSettles`,
`AbandonedIsRemoved`, `EveryTaskEnds`, `DeadlineHolds`, `Reclaimed`,
`ComesBack`, `IdleIsForgotten`), for which the prover has no rules. Every invariant and
every action property of the runs is proved, those of the journal and of the background
task under the hypotheses named above, which their runs meet.

## What is not modelled

See `components` in `PROJECT.json`. The executor, files, sandbox rules and
presentation are left out for good: one call each, with no state between calls.

## Plan

1. Workflows and schedules on top of `Subagents`.
2. `WorkerSession`: several assignments that share the cap, the permits and the
   seen set, with the assignment above as their abstraction. `WorkerRotation`:
   the credential against a crash.
3. `Containers`: reaping against use.
4. Proofs: a job with one exit, as the abstract specification of a task.
