--------------------------- MODULE BackgroundTask ---------------------------
(***************************************************************************)
(* One background task id of a Worker (worker/background.rs) and the       *)
(* supervisors behind it (commands/bg_shim.rs): operations that start,     *)
(* tail, cancel and clean up the task run on threads beside each other and *)
(* beside the collection of old tasks; the supervisor is a process of its  *)
(* own that outlives the Worker. They share a directory: the command, a    *)
(* lock file the supervisor holds while it lives, a manifest with its pid, *)
(* the recorded output, and the exit code. A life is one directory of the  *)
(* id and the supervisor that the start which made it spawned.             *)
(***************************************************************************)
EXTENDS Naturals

CONSTANTS
    Ops,           \* operations and collections that may run at once
    Kinds,         \* what may be asked for beside a start
    DaemonKinds,   \* what a command may leave behind: "piped", "closed"
    MayBeLost,     \* something may kill a supervisor alone
    OrderlyStarts, \* no start while an earlier supervisor has yet to open
    Chatty,        \* processes write output
    StreamCap,     \* chunks recorded at most, STREAM_CAP_BYTES
    MaxLives       \* bound on directories

ASSUME TaskAssumption ==
    /\ Kinds \subseteq {"tail", "cancel", "remove", "gc"}
    /\ DaemonKinds \subseteq {"piped", "closed"}
    /\ MayBeLost \in BOOLEAN /\ OrderlyStarts \in BOOLEAN
    /\ Chatty \in BOOLEAN /\ StreamCap \in Nat
    /\ MaxLives \in Nat

VARIABLES
    named,    \* the life whose directory has the task's name, 0 if none
    made,     \* directories made so far
    files,    \* the files in each directory
    holder,   \* the supervisor with the lock on the lock file, 0 if none
    pid,      \* the supervisor named by the manifest
    code,     \* what the exit file says
    length,   \* chunks in the stdout file
    age,      \* of the directory: within GC_GRACE, past it, past RETENTION
    sup,      \* where each supervisor is
    at,       \* the directory it opened
    term,     \* a SIGTERM it has not seen yet
    command,  \* its child: running, done, or orphaned by its death
    daemon,   \* what the command left in the process group
    pipe,     \* the group wrote a chunk that nobody read
    hand,     \* the copy task has a chunk that it is going to record
    op,       \* where each operation is
    acked,    \* history: lives whose start was answered with "started": true
    told,     \* history: exit codes that tails of a started task returned
    got       \* the offset up to which the caller has the output

directory == <<named, made, files, holder, pid, code, length, age>>
supervisor == <<sup, at, term>>
group == <<command, daemon, pipe, hand>>
caller == <<acked, told, got>>
vars == <<directory, supervisor, group, op, caller>>

-----------------------------------------------------------------------------
Lives == 1..MaxLives
Files == {"command", "lock", "manifest", "stdout", "exit"}
\* The command's own code, 127, 128 + 9, and EXIT_CODE_UNKNOWN_TERMINAL.
ExitCodes == {"own", "spawn_failed", "killed"}
Codes == ExitCodes \cup {"unknown"}
Phases == {"none", "spawned", "opened", "locked", "announced", "waiting",
           "stopping", "draining", "sealed", "overdue", "lingering", "killing",
           "dead"}
\* res: the liveness an operation read; seen: the age it read; sent: the life
\* it was sent for, had that been answered as started and nobody begun to
\* remove it.
Resting == [kind |-> "none", pc |-> "idle", dir |-> 0, pid |-> 0,
            res |-> "none", seen |-> "young", sent |-> 0]
OpState == [kind : {"none", "start", "tail", "cancel", "remove", "gc"},
            pc : {"idle", "spawn", "launch", "probe", "trying", "probing",
                  "probed", "find", "strike", "clear", "rmdir"},
            dir : 0..MaxLives, pid : 0..MaxLives,
            res : Codes \cup {"none", "running"},
            seen : {"young", "settled", "expired"}, sent : 0..MaxLives]

Init ==
    /\ named = 0 /\ made = 0
    /\ files = [n \in Lives |-> {}]
    /\ holder = [n \in Lives |-> 0]
    /\ pid = [n \in Lives |-> 0]
    /\ code = [n \in Lives |-> "unknown"]
    /\ length = [n \in Lives |-> 0]
    /\ age = [n \in Lives |-> "young"]
    /\ sup = [n \in Lives |-> "none"]
    /\ at = [n \in Lives |-> 0]
    /\ term = [n \in Lives |-> FALSE]
    /\ command = [n \in Lives |-> "none"]
    /\ daemon = [n \in Lives |-> "none"]
    /\ pipe = [n \in Lives |-> FALSE] /\ hand = [n \in Lives |-> FALSE]
    /\ op = [o \in Ops |-> Resting]
    /\ acked = {} /\ told = [n \in Lives |-> {}] /\ got = [n \in Lives |-> 0]

Becomes(o, state) == op' = [op EXCEPT ![o] = state]
Moves(o, pc) == Becomes(o, [op[o] EXCEPT !.pc = pc])
Ends(o) == Becomes(o, Resting)
At(o, pc) == op[o].pc = pc

\* A file goes into directory n: it has to have its name still, open directory
\* or not.
Writable(n) == named = n
Alive(n) == sup[n] \notin {"none", "dead"}
Puts(n, name) == files' = [files EXCEPT ![n] = @ \cup {name}]

\* An operation that got the lock in liveness holds it for a moment, too.
Held(n) == holder[n] # 0 \/ \E o \in Ops : At(o, "probing") /\ op[o].dir = n
ManifestPid(n) == IF "manifest" \in files[n] THEN pid[n] ELSE 0

-----------------------------------------------------------------------------
\* Supervisor n and the copy tasks in it are gone; its locks are released.
Dies(n) ==
    /\ sup' = [sup EXCEPT ![n] = "dead"]
    /\ term' = [term EXCEPT ![n] = FALSE]
    /\ holder' = [m \in Lives |-> IF holder[m] = n THEN 0 ELSE holder[m]]
    /\ pipe' = [pipe EXCEPT ![n] = FALSE]
    /\ hand' = [hand EXCEPT ![n] = FALSE]
    /\ UNCHANGED at

\* SIGKILL to the process group of supervisor n.
KillsGroup(n) ==
    /\ Dies(n)
    /\ command' = [command EXCEPT ![n] = IF @ = "none" THEN @ ELSE "done"]
    /\ daemon' = [daemon EXCEPT ![n] = "none"]
KillsNobody == UNCHANGED <<holder, supervisor, group>>
\* Mutant: only the supervisor is killed, not its group.
KillsSupervisor(p) ==
    /\ IF p = 0 THEN UNCHANGED <<holder, supervisor, pipe, hand>> ELSE Dies(p)
    /\ UNCHANGED <<command, daemon>>
KillsGroupOf(p) == IF p = 0 THEN KillsNobody ELSE KillsGroup(p)

\* TERM to the process group: what the command makes of it is its own affair.
TermReaches(n) ==
    term' = [term EXCEPT ![n] = @ \/ Alive(n)]

-----------------------------------------------------------------------------
\* start: prepare makes the directory with the command in it. Where it exists
\* or the budget is used up, the answer comes at once and nothing changes.
Vacant == named = 0
EarlierOpened ==
    /\ \A n \in Lives : sup[n] # "spawned"
    /\ \A o \in Ops : ~At(o, "spawn")
Prepare(o) ==
    /\ At(o, "idle") /\ Vacant /\ made < MaxLives
    /\ OrderlyStarts => EarlierOpened
    /\ made' = made + 1 /\ named' = made'
    /\ files' = [files EXCEPT ![made'] = {"command"}]
    /\ Becomes(o, [Resting EXCEPT !.kind = "start", !.pc = "spawn",
                                  !.dir = made'])
    /\ UNCHANGED <<holder, pid, code, length, age, supervisor, group, caller>>

SpawnShim(o) ==
    /\ At(o, "spawn")
    /\ \/ Moves(o, "launch") /\ sup' = [sup EXCEPT ![op[o].dir] = "spawned"]
       \/ Moves(o, "find") /\ UNCHANGED sup
    /\ UNCHANGED <<directory, at, term, group, caller>>

\* The supervisor is up when it has written its manifest.
Announced(n) == "manifest" \in files[n]
Started(o) ==
    /\ At(o, "launch") /\ Announced(op[o].dir)
    /\ acked' = acked \cup {op[o].dir}
    /\ Ends(o)
    /\ UNCHANGED <<directory, supervisor, group, told, got>>

\* The supervisor ended, the wait is over or the operation is cancelled, and
\* there is no manifest: abort kills and removes what has the name.
GiveUp(o) ==
    /\ At(o, "launch") /\ ~Announced(op[o].dir)
    /\ Moves(o, "find")
    /\ UNCHANGED <<directory, supervisor, group, caller>>

-----------------------------------------------------------------------------
\* Nobody who came earlier has emptied directory n or is about to.
Undisturbed(n) ==
    /\ "command" \in files[n]
    /\ \A o \in Ops : op[o].kind \notin {"start", "remove"}
    /\ \A o \in Ops : op[o].kind = "gc" => op[o].dir = n
\* Tails, cancels, cleanups and collections find the directory by its name.
Arrives(o, kind, pc) ==
    /\ At(o, "idle") /\ kind \in Kinds
    /\ Becomes(o, [Resting EXCEPT !.kind = kind, !.pc = pc, !.dir = named,
                       !.sent = IF named \in acked /\ Undisturbed(named)
                                THEN named ELSE 0,
                       !.seen = IF named = 0 THEN "young" ELSE age[named]])
    /\ UNCHANGED <<directory, supervisor, group, caller>>
Tail(o) == named # 0 /\ Arrives(o, "tail", "probe")
Cancel(o) == named # 0 /\ Arrives(o, "cancel", "probe")
Cleanup(o) == Arrives(o, "remove", "find")
Collect(o) == named # 0 /\ Arrives(o, "gc", "probe")

\* liveness: the exit file, else the lock. An operation that gets the lock
\* reads the exit file again: the supervisor may have ended in between.
Learns(o, result) == Becomes(o, [op[o] EXCEPT !.pc = "probed", !.res = result,
                              !.pid = IF result = "running"
                                      THEN ManifestPid(op[o].dir) ELSE 0])
Probe(o) ==
    LET n == op[o].dir IN
    /\ At(o, "probe")
    /\ IF "exit" \in files[n] THEN Learns(o, code[n]) ELSE Moves(o, "trying")
    /\ UNCHANGED <<directory, supervisor, group, caller>>
TryLock(o) ==
    LET n == op[o].dir IN
    /\ At(o, "trying")
    /\ IF "lock" \notin files[n] THEN Learns(o, "unknown")
       ELSE IF Held(n) THEN Learns(o, "running") ELSE Moves(o, "probing")
    /\ UNCHANGED <<directory, supervisor, group, caller>>
\* Mutant: who gets the lock does not look at the exit file again.
ProbeOnce(o) ==
    /\ At(o, "probing")
    /\ Learns(o, "unknown")
    /\ UNCHANGED <<directory, supervisor, group, caller>>
ProbeAgain(o) ==
    LET n == op[o].dir IN
    /\ At(o, "probing")
    /\ Learns(o, IF "exit" \in files[n] THEN code[n] ELSE "unknown")
    /\ UNCHANGED <<directory, supervisor, group, caller>>

\* A page of output from the caller's offset: a chunk at most. The exit code
\* comes only with the last byte.
Recorded(n) == IF "stdout" \in files[n] THEN length[n] ELSE 0
NextOffset(n) == IF got[n] < Recorded(n) THEN got[n] + 1 ELSE got[n]
Complete(n) == NextOffset(n) >= Recorded(n)
Page(o) ==
    LET n == op[o].dir IN
    /\ At(o, "probed") /\ op[o].kind = "tail"
    /\ got' = [got EXCEPT ![n] = NextOffset(n)]
    /\ told' = IF op[o].sent = n /\ op[o].res # "running" /\ Complete(n)
               THEN [told EXCEPT ![n] = @ \cup {op[o].res}] ELSE told
    /\ Ends(o)
    /\ UNCHANGED <<directory, supervisor, group, acked>>
\* Nothing new yet, and the caller lets the tail wait.
Quiet(o) ==
    /\ At(o, "probed") /\ op[o].kind = "tail"
    /\ op[o].res = "running" /\ Recorded(op[o].dir) <= got[op[o].dir]
    /\ Moves(o, "probe")
    /\ UNCHANGED <<directory, supervisor, group, caller>>

Signal(o) ==
    /\ At(o, "probed") /\ op[o].kind = "cancel"
    /\ IF op[o].pid = 0 THEN UNCHANGED term ELSE TermReaches(op[o].pid)
    /\ Ends(o)
    /\ UNCHANGED <<directory, sup, at, group, caller>>

\* supervisor_pid: the manifest counts while somebody holds the lock. abort
\* and cleanup open the directory now; a collection has it open.
\* Mutant: a task with an exit code counts as one without a supervisor.
RunningPid(n) == IF n # 0 /\ "lock" \in files[n] /\ Held(n)
                    /\ "exit" \notin files[n]
                 THEN ManifestPid(n) ELSE 0
SupervisorPid(n) == IF n # 0 /\ "lock" \in files[n] /\ Held(n)
                    THEN ManifestPid(n) ELSE 0
Find(o) ==
    LET n == IF op[o].kind = "gc" THEN op[o].dir ELSE named IN
    /\ \/ At(o, "find")
       \/ At(o, "probed") /\ op[o].kind = "gc"
    /\ Becomes(o, [op[o] EXCEPT !.pc = "strike", !.dir = n,
                                !.pid = SupervisorPid(n)])
    /\ UNCHANGED <<directory, supervisor, group, caller>>

\* collect removes what is past RETENTION, and what has ended and is past
\* GC_GRACE while the tasks are over their budget (over).
Collectable(o, over) ==
    \/ op[o].seen = "expired"
    \/ op[o].res # "running" /\ op[o].seen = "settled" /\ over
Strike(o) ==
    /\ At(o, "strike")
    /\ op[o].kind = "gc" => Collectable(o, TRUE)
    /\ KillsGroupOf(op[o].pid)
    /\ Moves(o, "clear")
    /\ UNCHANGED <<named, made, files, pid, code, length, age, caller>>
Spare(o) ==
    /\ At(o, "strike") /\ op[o].kind = "gc" /\ ~Collectable(o, FALSE)
    /\ Ends(o)
    /\ UNCHANGED <<directory, supervisor, group, caller>>

\* remove_dir_all empties the directory that has the name and removes it, if
\* nothing was put into it meanwhile.
Clear(o) ==
    /\ At(o, "clear")
    /\ IF named = 0 THEN Ends(o) /\ UNCHANGED directory
       ELSE /\ files' = [files EXCEPT ![named] = {}]
            /\ holder' = [holder EXCEPT ![named] = 0]
            /\ pid' = [pid EXCEPT ![named] = 0]
            /\ code' = [code EXCEPT ![named] = "unknown"]
            /\ length' = [length EXCEPT ![named] = 0]
            /\ Becomes(o, [op[o] EXCEPT !.pc = "rmdir", !.dir = named])
            /\ UNCHANGED <<named, made, age>>
    /\ UNCHANGED <<supervisor, group, caller>>
Rmdir(o) ==
    /\ At(o, "rmdir")
    /\ IF named = op[o].dir /\ files[named] = {}
       THEN named' = 0 /\ age' = [age EXCEPT ![named] = "young"]
       ELSE UNCHANGED <<named, age>>
    /\ Ends(o)
    /\ UNCHANGED <<made, files, holder, pid, code, length, supervisor, group,
                   caller>>

\* The Worker dies, with every operation in it.
Crash ==
    /\ \E o \in Ops : ~At(o, "idle")
    /\ op' = [o \in Ops |-> Resting]
    /\ UNCHANGED <<directory, supervisor, group, caller>>

-----------------------------------------------------------------------------
\* Supervisor n: it opens whatever directory has the path by then.
Enters(n, phase) == sup' = [sup EXCEPT ![n] = phase]
Open(n) ==
    /\ sup[n] = "spawned"
    /\ at' = [at EXCEPT ![n] = named]
    /\ Enters(n, IF named = 0 THEN "dead" ELSE "opened")
    /\ UNCHANGED <<directory, term, group, op, caller>>

\* hold_lock waits for the lock.
HoldLock(n) ==
    /\ sup[n] = "opened" /\ Writable(at[n])
    /\ ~("lock" \in files[at[n]] /\ Held(at[n]))
    /\ Puts(at[n], "lock")
    /\ holder' = [holder EXCEPT ![at[n]] = n]
    /\ Enters(n, "locked")
    /\ UNCHANGED <<named, made, pid, code, length, age, at, term, group, op,
                   caller>>
WriteManifest(n) ==
    /\ sup[n] = "locked" /\ Writable(at[n])
    /\ Puts(at[n], "manifest")
    /\ pid' = [pid EXCEPT ![at[n]] = n]
    /\ Enters(n, "announced")
    /\ UNCHANGED <<named, made, holder, code, length, age, at, term, group, op,
                   caller>>

\* The shell gets the path of the command file, in the directory that has the
\* name by then, and fails without it.
SpawnChild(n) ==
    /\ sup[n] = "announced"
    /\ command' = [command EXCEPT ![n] =
           IF named # 0 /\ "command" \in files[named] THEN "running" ELSE "done"]
    /\ IF Writable(at[n])
       THEN Puts(at[n], "stdout") /\ length' = [length EXCEPT ![at[n]] = 0]
       ELSE UNCHANGED <<files, length>>
    /\ Enters(n, "waiting")
    /\ UNCHANGED <<named, made, holder, pid, code, age, at, term, daemon, pipe,
                   hand, op, caller>>

\* wait_with_timeout: the child ends, or a TERM or the deadline of the task
\* makes the supervisor send TERM to its group, which it is in itself, and
\* give the child CANCEL_GRACE.
ChildEnded(n) ==
    /\ sup[n] \in {"waiting", "stopping"} /\ command[n] = "done"
    /\ Enters(n, "draining")
    /\ UNCHANGED <<directory, at, term, group, op, caller>>
StopAsked(n) ==
    /\ sup[n] = "waiting"
    /\ term' = [term EXCEPT ![n] = TRUE]
    /\ Enters(n, "stopping")
    /\ UNCHANGED <<directory, at, group, op, caller>>
GraceOver(n) ==
    /\ sup[n] = "stopping"
    /\ Enters(n, "overdue")
    /\ UNCHANGED <<directory, at, term, group, op, caller>>

\* drain ends when the streams do, or after silence, or at its ceiling.
Drain(n) ==
    /\ sup[n] = "draining"
    /\ Enters(n, "sealed")
    /\ UNCHANGED <<directory, at, term, group, op, caller>>

\* write_exit: the child's code, 127 if there was none, 128 + 9 if it is about
\* to be killed. After the last two nothing is recorded any more.
Outcome(n) == CASE sup[n] = "announced" -> "spawn_failed"
                [] sup[n] = "sealed" -> "own"
                [] sup[n] = "overdue" -> "killed"
WriteExit(n) ==
    /\ sup[n] \in {"announced", "sealed", "overdue"} /\ Writable(at[n])
    /\ Puts(at[n], "exit")
    /\ code' = [code EXCEPT ![at[n]] = Outcome(n)]
    /\ Enters(n, IF sup[n] = "overdue" THEN "killing" ELSE "lingering")
    /\ UNCHANGED <<named, made, holder, pid, length, age, at, term, group, op,
                   caller>>
\* Mutant: the error is returned before the group is killed.
ExitReturned(n) ==
    /\ sup[n] = "overdue" /\ ~Writable(at[n])
    /\ Dies(n)
    /\ UNCHANGED <<named, made, files, pid, code, length, age, command, daemon,
                   op, caller>>
ExitUnwritten(n) ==
    /\ sup[n] = "overdue" /\ ~Writable(at[n])
    /\ Enters(n, "killing")
    /\ UNCHANGED <<directory, at, term, group, op, caller>>
KillOwnGroup(n) ==
    /\ sup[n] = "killing"
    /\ KillsGroup(n)
    /\ UNCHANGED <<named, made, files, pid, code, length, age, op, caller>>

\* It stays while somebody holds its streams open, so that a cleanup finds it.
Linger(n) ==
    /\ sup[n] = "lingering"
    /\ term[n] \/ (~pipe[n] /\ ~hand[n] /\ daemon[n] # "piped")
    /\ Dies(n)
    /\ UNCHANGED <<named, made, files, pid, code, length, age, command, daemon,
                   op, caller>>

\* Without its directory it can go no further, nor report a command that it
\* could not start.
NeedsDirectory == {"opened", "locked", "announced", "sealed"}
Stranded(n) ==
    /\ sup[n] \in NeedsDirectory /\ ~Writable(at[n])
    /\ Dies(n)
    /\ UNCHANGED <<named, made, files, pid, code, length, age, command, daemon,
                   op, caller>>
\* Something kills the supervisor alone, or one of its first steps fails.
Lost(n) ==
    /\ MayBeLost /\ Alive(n)
    /\ Dies(n)
    /\ command' = [command EXCEPT ![n] = IF @ = "running" THEN "orphan" ELSE @]
    /\ UNCHANGED <<named, made, files, pid, code, length, age, daemon, op,
                   caller>>

-----------------------------------------------------------------------------
\* The process group: the command ends, leaves a daemon behind, or writes.
CommandEnds(n) ==
    /\ command[n] \in {"running", "orphan"}
    /\ command' = [command EXCEPT ![n] = "done"]
    /\ UNCHANGED <<directory, supervisor, daemon, pipe, hand, op, caller>>
Daemonize(n) ==
    /\ command[n] = "running" /\ daemon[n] = "none"
    /\ \E kind \in DaemonKinds : daemon' = [daemon EXCEPT ![n] = kind]
    /\ UNCHANGED <<directory, supervisor, command, pipe, hand, op, caller>>
DaemonEnds(n) ==
    /\ daemon[n] # "none"
    /\ daemon' = [daemon EXCEPT ![n] = "none"]
    /\ UNCHANGED <<directory, supervisor, command, pipe, hand, op, caller>>

\* Mutant: recording goes on once the exit code is there.
RecordingOn == {"waiting", "stopping", "draining", "sealed", "lingering"}
Recording == {"waiting", "stopping", "draining"}
Writes(n) ==
    /\ Chatty /\ ~pipe[n] /\ Alive(n)
    /\ command[n] = "running" \/ daemon[n] = "piped"
    /\ pipe' = [pipe EXCEPT ![n] = TRUE]
    /\ UNCHANGED <<directory, supervisor, command, daemon, hand, op, caller>>

\* The copy task asks whether to record a chunk after it has read it, and
\* appends it in a step of its own: the two run on different threads.
Read(n) ==
    /\ pipe[n] /\ ~hand[n]
    /\ pipe' = [pipe EXCEPT ![n] = FALSE]
    /\ hand' = [hand EXCEPT ![n] = sup[n] \in Recording]
    /\ UNCHANGED <<directory, supervisor, command, daemon, op, caller>>
\* What finds no room is dropped, and the stream is sealed.
Full(n) == length[at[n]] >= StreamCap
Append(n) ==
    /\ hand[n]
    /\ hand' = [hand EXCEPT ![n] = FALSE]
    /\ length' = IF "stdout" \in files[at[n]] /\ ~Full(n)
                 THEN [length EXCEPT ![at[n]] = @ + 1] ELSE length
    /\ UNCHANGED <<named, made, files, holder, pid, code, age, supervisor,
                   command, daemon, pipe, op, caller>>

\* A supervisor that was spawned holds its lock within GC_GRACE.
Starting(n) == \/ sup[n] \in {"spawned", "opened"}
               \/ \E o \in Ops : op[o].kind = "start" /\ op[o].dir = n
\* Mutant: a directory without a manifest has no age.
AgesByManifest(n) ==
    /\ named = n /\ "manifest" \in files[n]
    /\ \/ /\ age[n] = "young" /\ \A m \in Lives : ~Starting(m)
          /\ age' = [age EXCEPT ![n] = "settled"]
       \/ age[n] = "settled" /\ age' = [age EXCEPT ![n] = "expired"]
    /\ UNCHANGED <<named, made, files, holder, pid, code, length, supervisor,
                   group, op, caller>>
Ages(n) ==
    /\ named = n
    /\ \/ /\ age[n] = "young" /\ \A m \in Lives : ~Starting(m)
          /\ age' = [age EXCEPT ![n] = "settled"]
       \/ age[n] = "settled" /\ age' = [age EXCEPT ![n] = "expired"]
    /\ UNCHANGED <<named, made, files, holder, pid, code, length, supervisor,
                   group, op, caller>>

-----------------------------------------------------------------------------
Operate(o) ==
    \/ Prepare(o) \/ Tail(o) \/ Cancel(o) \/ Cleanup(o) \/ Collect(o)
Proceed(o) ==
    \/ SpawnShim(o) \/ Started(o) \/ GiveUp(o)
    \/ Probe(o) \/ TryLock(o) \/ ProbeAgain(o)
    \/ Page(o) \/ Quiet(o) \/ Signal(o)
    \/ Find(o) \/ Strike(o) \/ Spare(o) \/ Clear(o) \/ Rmdir(o)
Supervise(n) ==
    \/ Open(n) \/ HoldLock(n) \/ WriteManifest(n) \/ SpawnChild(n)
    \/ ChildEnded(n) \/ StopAsked(n) \/ GraceOver(n) \/ Drain(n)
    \/ WriteExit(n) \/ ExitUnwritten(n) \/ KillOwnGroup(n) \/ Linger(n)
    \/ Stranded(n)
Copy(n) == Read(n) \/ Append(n)
Outside(n) ==
    \/ Lost(n) \/ CommandEnds(n) \/ Daemonize(n) \/ DaemonEnds(n) \/ Writes(n)
    \/ Ages(n)
Next ==
    \/ \E o \in Ops : Operate(o) \/ Proceed(o)
    \/ Crash
    \/ \E n \in Lives : Supervise(n) \/ Copy(n) \/ Outside(n)

Spec == Init /\ [][Next]_vars

\* A supervisor does its work, and so does an operation; collections come
\* round, which needs a slot now and then; and days pass.
FairSpec ==
    /\ Spec
    /\ \A n \in Lives : WF_vars(Supervise(n)) /\ WF_vars(Ages(n))
    /\ \A o \in Ops : WF_vars(Proceed(o))
    /\ SF_vars(\E o \in Ops : Collect(o))

-----------------------------------------------------------------------------
TypeOK ==
    /\ named \in 0..MaxLives /\ made \in 0..MaxLives
    /\ files \in [Lives -> SUBSET Files]
    /\ holder \in [Lives -> 0..MaxLives] /\ pid \in [Lives -> 0..MaxLives]
    /\ code \in [Lives -> Codes] /\ length \in [Lives -> 0..StreamCap]
    /\ age \in [Lives -> {"young", "settled", "expired"}]
    /\ sup \in [Lives -> Phases] /\ at \in [Lives -> 0..MaxLives]
    /\ term \in [Lives -> BOOLEAN]
    /\ command \in [Lives -> {"none", "running", "orphan", "done"}]
    /\ daemon \in [Lives -> {"none", "piped", "closed"}]
    /\ pipe \in [Lives -> BOOLEAN] /\ hand \in [Lives -> BOOLEAN]
    /\ op \in [Ops -> OpState]
    /\ acked \subseteq Lives /\ told \in [Lives -> SUBSET Codes]
    /\ got \in [Lives -> 0..StreamCap]

\* The exit code that a tail of a started task returned is the task's exit
\* code for good: where it was a real one the exit file still says so, and
\* where it was "unknown" nobody is left who could write one. It takes the
\* order of the lock, the manifest and the exit file, and the second look of
\* liveness at the exit file, to make it so.
Intact(n) == "command" \in files[n]
TerminalIsFinal ==
    \A n \in Lives : \A c \in told[n] : Intact(n) =>
        IF "exit" \in files[n] THEN c = code[n]
        ELSE c = "unknown" /\ \A m \in Lives : at[m] = n => ~Alive(m)

\* A caller who was given the exit code has all the output but what a copy
\* task had in hand when the recording stopped (bg_shim.rs:317-318).
OutputComplete ==
    \A n \in Lives : told[n] # {} /\ Intact(n) => Recorded(n) <= got[n] + 1

\* A cleanup of a task that was started before, and a collection of it, empty
\* its directory only when its supervisor is dead and nothing the supervisor
\* was in charge of runs: no command is left that nobody can stop.
RemovalLeavesNoCommand ==
    \A o \in Ops : \A n \in Lives :
        /\ At(o, "clear") \/ At(o, "rmdir")
        /\ op[o].sent = n /\ op[o].dir = n /\ at[n] = n
        => ~Alive(n) /\ command[n] # "running"

\* No command outlives its deadline and the grace for long, whatever becomes
\* of the Worker and of the directory: its supervisor ends it.
DeadlineHolds == \A n \in Lives :
    command[n] = "running" ~> command[n] # "running"

\* While the Worker stays up, no directory stays for ever: neither one whose
\* start never got to a supervisor, nor one whose daemon does not end.
Reclaimed ==
    <>[][~Crash]_vars => \A n \in Lives : named = n ~> named # n
=============================================================================
