------------------------ MODULE BackgroundTaskProofs ------------------------
(***************************************************************************)
(* Proofs about a background task (BackgroundTask.tla): for any number of  *)
(* operations, directories and chunks of output, any daemons and losses,   *)
(* as long as no start is made while a supervisor of an earlier one has    *)
(* yet to open its directory (OrderlyStarts), what a tail told is final    *)
(* and complete, and a removal leaves no command behind.                   *)
(***************************************************************************)
EXTENDS BackgroundTask, TLAPS

Dead(n) == sup[n] = "dead"
\* A supervisor that should have its lock, and one that has yet to take it.
Locking == {"locked", "announced", "waiting", "stopping", "draining", "sealed",
            "overdue", "lingering", "killing"}
Unlocked == {"none", "spawned", "opened"}

\* Directories are numbered as they are made, the name is that of the last, and one that
\* lost it is empty.
Numbered ==
    /\ named \in {0, made}
    /\ \A n \in Lives : n > made =>
         sup[n] = "none" /\ n \notin acked /\ age[n] = "young" /\ told[n] = {}
    /\ \A n \in Lives : n # named => files[n] = {}
    /\ \A o \in Ops : op[o].dir <= made /\ op[o].sent <= made

\* One start at a time has a supervisor that is yet to open its directory, the last.
Orderly ==
    /\ \A o \in Ops : At(o, "spawn") => op[o].dir = made /\ made # 0 /\ sup[made] = "none"
    /\ \A o, p \in Ops : At(o, "spawn") /\ At(p, "spawn") => o = p
    /\ \A n \in Lives : sup[n] = "spawned" => n = made

\* A supervisor serves its own directory.
Owned ==
    \A n \in Lives :
        /\ at[n] \in {0, n} /\ holder[n] \in {0, n} /\ pid[n] \in {0, n}
        /\ sup[n] \notin {"none", "spawned", "dead"} => at[n] = n
        /\ hand[n] => sup[n] \notin Unlocked \cup {"dead"}
        /\ pid[n] # 0 => sup[n] \notin Unlocked

\* A pid that an operation is going to use is that of a supervisor that was up.
Targets == \A o \in Ops : op[o].pid # 0 => sup[op[o].pid] \notin Unlocked

\* What is in a directory that nobody emptied says where its supervisor is.
Laid(n) ==
    /\ sup[n] \in Locking => "lock" \in files[n] /\ holder[n] = n
    /\ "manifest" \in files[n] =>
         "lock" \in files[n] /\ pid[n] = n /\ sup[n] \notin Unlocked \cup {"locked"}
    /\ n \in acked => "manifest" \in files[n]
Kept == \A n \in Lives : Intact(n) => Laid(n)

\* The exit file is the last thing a supervisor writes, and only one that waits for its
\* command or is about to kill it has one that runs.
Ended ==
    \A n \in Lives :
        /\ "exit" \in files[n] => sup[n] \in {"lingering", "killing", "dead"}
        /\ command[n] = "running" => sup[n] \in {"waiting", "stopping", "overdue", "killing"}

\* Which operations come to which step.
Fits(s) ==
    /\ s.kind = "none" <=> s.pc = "idle"
    /\ s.kind \in {"none", "start"} => s.sent = 0
    /\ s.pc \in {"spawn", "launch"} => s.kind = "start" /\ s.dir # 0
    /\ s.pc \in {"find", "strike", "clear", "rmdir"} => s.kind \in {"start", "remove", "gc"}
    /\ s.pc \in {"probe", "trying", "probing", "probed"} =>
         s.kind \in {"tail", "cancel", "gc"} /\ s.dir # 0
    /\ s.pc = "probed" => s.res # "none"
    /\ s.kind = "gc" => s.pc # "find" /\ (s.pc # "rmdir" => s.dir # 0)
    /\ s.pc = "clear" /\ s.kind = "gc" => s.seen # "young"
    /\ s.pc = "rmdir" => s.dir # 0
Kinded == \A o \in Ops :
    Fits(op[o]) /\ (At(o, "rmdir") => ~Intact(op[o].dir))

\* A directory that is past its grace has no start under way; a collection that saw it so
\* strikes its supervisor.
Grown(o) == op[o].kind = "gc" /\ op[o].seen # "young" /\ op[o].pc # "rmdir"
Starts(o) == op[o].pc \in {"spawn", "launch"}
Aged ==
    /\ \A n \in Lives : age[n] # "young" => \A o \in Ops : Starts(o) => op[o].dir # n
    /\ \A o, p \in Ops : Grown(o) /\ Starts(p) => op[p].dir # op[o].dir
    /\ \A o \in Ops : Grown(o) /\ op[o].dir \in acked /\ Intact(op[o].dir) =>
         /\ At(o, "strike") => op[o].pid = op[o].dir \/ Dead(op[o].dir)
         /\ At(o, "clear") => Dead(op[o].dir)

\* An operation was sent for life n, which was started and not about to be removed: who
\* empties its directory strikes its supervisor first.
Claimed(n) == \E o \in Ops : op[o].sent = n
Dooms(p, n) ==
    /\ op[p].kind # "start"
    /\ op[p].kind = "gc" => op[p].dir = n
    /\ At(p, "strike") /\ (op[p].kind = "gc" => op[p].seen # "young") =>
         op[p].pid = n \/ Dead(n)
    /\ op[p].pc \in {"clear", "rmdir"} => Dead(n)
Claims ==
    \A n \in Lives : Claimed(n) =>
        /\ n \in acked
        /\ ~Intact(n) => Dead(n)
        /\ named = n => \A p \in Ops : Dooms(p, n)

\* What liveness tells of a started task, and what a tail told.
Final(n, c) == IF "exit" \in files[n] THEN c = code[n] ELSE c = "unknown" /\ Dead(n)
Learnt ==
    /\ \A o \in Ops : \A n \in Lives : op[o].sent = n /\ op[o].dir = n /\ Intact(n) =>
         /\ At(o, "probing") => Dead(n)
         /\ At(o, "probed") /\ op[o].res # "running" => Final(n, op[o].res)
    /\ \A n \in Lives : Intact(n) => \A c \in told[n] : Final(n, c)

\* A chunk in the hand of a copy task, once the exit code was told.
Copied ==
    \A n \in Lives : told[n] # {} /\ Intact(n) =>
        Recorded(n) <= IF hand[n] THEN got[n] ELSE got[n] + 1

Inv == /\ TypeOK /\ Numbered /\ Orderly /\ Owned /\ Targets /\ Kept /\ Ended /\ Kinded
       /\ Aged /\ Claims /\ Learnt /\ Copied

-----------------------------------------------------------------------------
(* What the pieces of the actions do to the operations and to a supervisor. *)

Others(o) == \A p \in Ops : p # o => op'[p] = op[p]

LEMMA Becoming ==
    ASSUME TypeOK, NEW o \in Ops, NEW s \in OpState, Becomes(o, s)
    PROVE  op' \in [Ops -> OpState] /\ op'[o] = s /\ Others(o)
BY DEF TypeOK, Becomes, Others

LEMMA Moving ==
    ASSUME TypeOK, NEW o \in Ops, NEW pc,
           pc \in {"idle", "spawn", "launch", "probe", "trying", "probing", "probed",
                   "find", "strike", "clear", "rmdir"},
           Moves(o, pc)
    PROVE  /\ op' \in [Ops -> OpState] /\ Others(o)
           /\ op'[o] = [op[o] EXCEPT !.pc = pc]
           /\ op'[o].pc = pc /\ op'[o].kind = op[o].kind /\ op'[o].dir = op[o].dir
           /\ op'[o].pid = op[o].pid /\ op'[o].res = op[o].res /\ op'[o].seen = op[o].seen
           /\ op'[o].sent = op[o].sent
<1>1. op[o] \in OpState
  BY DEF TypeOK
<1>2. [op[o] EXCEPT !.pc = pc] \in OpState
  BY <1>1 DEF OpState
<1> QED
  BY <1>1, <1>2, Becoming DEF Moves, OpState

LEMMA Ending ==
    ASSUME TypeOK, NEW o \in Ops, Ends(o)
    PROVE  op' \in [Ops -> OpState] /\ op'[o] = Resting /\ Others(o)
<1>1. Resting \in OpState
  BY TaskAssumption DEF Resting, OpState
<1> QED
  BY <1>1, Becoming DEF Ends

LEMMA Learning ==
    ASSUME TypeOK, NEW o \in Ops, NEW result \in Codes \cup {"running"}, Learns(o, result),
           op[o].dir # 0
    PROVE  /\ op' \in [Ops -> OpState] /\ Others(o)
           /\ op'[o].pc = "probed" /\ op'[o].res = result
           /\ op'[o].kind = op[o].kind /\ op'[o].dir = op[o].dir
           /\ op'[o].seen = op[o].seen /\ op'[o].sent = op[o].sent
           /\ op'[o].pid \in {0, ManifestPid(op[o].dir)}
<1>1. op[o] \in OpState /\ op[o].dir \in Lives /\ 0 \in 0..MaxLives
  BY TaskAssumption DEF TypeOK, OpState, Lives
<1> DEFINE q == IF result = "running" THEN ManifestPid(op[o].dir) ELSE 0
           s == [op[o] EXCEPT !.pc = "probed", !.res = result, !.pid = q]
<1>2. q \in 0..MaxLives
  BY <1>1 DEF ManifestPid, TypeOK
<1>3. s \in OpState
  BY <1>1, <1>2 DEF OpState
<1>4. op'[o] = s /\ op' \in [Ops -> OpState] /\ Others(o)
  BY <1>3, Becoming DEF Learns
<1>5. s.pc = "probed" /\ s.res = result /\ s.pid = q /\ s.kind = op[o].kind
      /\ s.dir = op[o].dir /\ s.seen = op[o].seen /\ s.sent = op[o].sent
  BY <1>1 DEF OpState
<1> QED
  BY <1>4, <1>5

LEMMA Dying ==
    ASSUME TypeOK, NEW n \in Lives, Dies(n)
    PROVE  /\ sup' \in [Lives -> Phases] /\ term' \in [Lives -> BOOLEAN]
           /\ holder' \in [Lives -> 0..MaxLives] /\ at' = at
           /\ pipe' \in [Lives -> BOOLEAN] /\ hand' \in [Lives -> BOOLEAN]
           /\ \A m \in Lives : /\ sup'[m] = IF m = n THEN "dead" ELSE sup[m]
                               /\ holder'[m] = IF holder[m] = n THEN 0 ELSE holder[m]
                               /\ hand'[m] => hand[m] /\ m # n
<1>1. 0 \in 0..MaxLives
  BY TaskAssumption
<1>2. sup' \in [Lives -> Phases] /\ \A m \in Lives : sup'[m] = IF m = n THEN "dead" ELSE sup[m]
  BY DEF Dies, TypeOK, Phases
<1>3. /\ holder' \in [Lives -> 0..MaxLives]
      /\ \A m \in Lives : holder'[m] = IF holder[m] = n THEN 0 ELSE holder[m]
  BY <1>1 DEF Dies, TypeOK
<1>4. pipe' \in [Lives -> BOOLEAN] /\ term' \in [Lives -> BOOLEAN]
  BY DEF Dies, TypeOK
<1>5. hand' \in [Lives -> BOOLEAN] /\ \A m \in Lives : hand'[m] => hand[m] /\ m # n
  BY DEF Dies, TypeOK
<1> QED
  BY <1>2, <1>3, <1>4, <1>5 DEF Dies

LEMMA Putting ==
    ASSUME TypeOK, NEW n \in Lives, NEW name \in Files \ {"command"}, Puts(n, name)
    PROVE  /\ files' \in [Lives -> SUBSET Files]
           /\ \A m \in Lives : /\ m # n => files'[m] = files[m]
                               /\ Intact(m)' <=> Intact(m)
           /\ files'[n] = files[n] \cup {name}
<1>1. files'[n] = files[n] \cup {name} /\ \A m \in Lives : m # n => files'[m] = files[m]
  BY DEF Puts, TypeOK
<1>2. files' \in [Lives -> SUBSET Files]
  BY DEF Puts, TypeOK
<1> QED
  BY <1>1, <1>2 DEF Intact

LEMMA Entering ==
    ASSUME TypeOK, NEW n \in Lives, NEW phase \in Phases, Enters(n, phase)
    PROVE  /\ sup' \in [Lives -> Phases]
           /\ \A m \in Lives : sup'[m] = IF m = n THEN phase ELSE sup[m]
BY DEF Enters, TypeOK

\* The life that has the name, and what is known of one that is past its start.
LEMMA Naming == Inv => named \in Lives \cup {0} /\ made \in Nat
BY TaskAssumption DEF Inv, TypeOK, Lives

LEMMA Serving ==
    ASSUME Inv, NEW n \in Lives, sup[n] \in Locking \cup {"opened"}
    PROVE  at[n] = n /\ (Writable(at[n]) => named = n) /\ (~Writable(at[n]) => ~Intact(n))
<1>1. at[n] = n
  BY DEF Inv, Owned, Locking
<1> QED
  BY <1>1 DEF Inv, Numbered, Writable, Intact

LEMMA UpOnce ==
    ASSUME Inv, NEW n \in Lives, Intact(n), n \in acked, holder[n] = 0
    PROVE  Dead(n)
<1>1. sup[n] \in Locking \cup Unlocked \cup {"dead"}
  BY DEF Inv, TypeOK, Phases, Locking, Unlocked
<1>2. sup[n] \notin Unlocked /\ (sup[n] \in Locking => holder[n] = n)
  BY DEF Inv, Kept, Laid, Unlocked
<1>3. n # 0
  BY DEF Lives
<1> QED
  BY <1>1, <1>2, <1>3 DEF Dead

LEMMA NotYetTold ==
    ASSUME Inv, NEW n \in Lives, Intact(n), ~Dead(n), "exit" \notin files[n]
    PROVE  told[n] = {}
<1>1. told[n] \subseteq Codes /\ \A c \in told[n] : FALSE
  BY DEF Inv, TypeOK, Learnt, Final
<1> QED
  BY <1>1

-----------------------------------------------------------------------------
(* The steps of supervisors, copy tasks and commands.                       *)

\* What a step of a supervisor, of its group or of its output leaves alone.
Apart == UNCHANGED <<named, made, age, op, acked, told>>
Onward(n) ==
    /\ \/ sup'[n] = sup[n]
       \/ sup[n] \notin {"none", "dead"} /\ sup'[n] \notin {"none", "spawned"}
    /\ sup[n] \notin Unlocked => sup'[n] \notin Unlocked
    /\ Intact(n)' <=> Intact(n)
    /\ n # named => files'[n] = {}

LEMMA Besides ==
    ASSUME Inv, Apart, \A n \in Lives : Onward(n)
    PROVE  Numbered' /\ Orderly' /\ Targets' /\ Kinded' /\ Aged' /\ Claims'
<1>1. \A n \in Lives : Dead(n) => Dead(n)'
  BY DEF Onward, Dead
<1>2. Numbered'
  <2>1. \A o \in Ops : op'[o].dir <= made' /\ op'[o].sent <= made'
    BY DEF Inv, Numbered, Apart
  <2>2. \A n \in Lives : n > made' =>
          sup'[n] = "none" /\ n \notin acked' /\ age'[n] = "young" /\ told'[n] = {}
    BY DEF Inv, Numbered, Apart, Onward
  <2> QED
    BY <2>1, <2>2 DEF Inv, Numbered, Apart, Onward
<1>3. Orderly'
  <2>1. made # 0 => made \in Lives
    BY TaskAssumption DEF Inv, TypeOK, Lives
  <2> QED
    BY <2>1 DEF Inv, Orderly, At, Apart, Onward
<1>4. Targets'
  <2>1. \A o \in Ops : op[o].pid # 0 => op[o].pid \in Lives
    BY TaskAssumption DEF Inv, TypeOK, OpState, Lives
  <2> QED
    BY <2>1 DEF Inv, Targets, Apart, Onward
<1>5. Kinded'
  <2>1. \A o \in Ops : At(o, "rmdir") => op[o].dir \in Lives
    BY TaskAssumption DEF Inv, TypeOK, OpState, Lives, Kinded, Fits, At
  <2> QED
    BY <2>1 DEF Inv, Kinded, Apart, Onward, At
<1>6. Aged'
  <2>1. \A o \in Ops : Grown(o) => op[o].dir \in Lives
    BY TaskAssumption DEF Inv, TypeOK, OpState, Lives, Kinded, Fits, Grown
  <2>2. \A o \in Ops : Grown(o)' = Grown(o) /\ Starts(o)' = Starts(o)
    BY DEF Apart, Grown, Starts
  <2> QED
    BY <1>1, <2>1, <2>2 DEF Inv, Aged, Apart, Onward, At
<1>7. Claims'
  <2>1. \A n \in Lives : Claimed(n)' = Claimed(n)
    BY DEF Claimed, Apart
  <2>2. \A n \in Lives : \A p \in Ops : Dooms(p, n) => Dooms(p, n)'
    BY <1>1 DEF Dooms, Apart, At
  <2> QED
    BY <1>1, <2>1, <2>2 DEF Inv, Claims, Apart, Onward
<1> QED
  BY <1>2, <1>3, <1>4, <1>5, <1>6, <1>7

\* A supervisor goes on to wait for its command, to stop it or to drain its output.
Stage(from, to) ==
    \/ from = "waiting" /\ to \in {"stopping", "draining"}
    \/ from = "stopping" /\ to \in {"overdue", "draining"}
    \/ from = "draining" /\ to = "sealed"
    \/ from = "overdue" /\ to = "killing"
LEMMA StageKeeps ==
    ASSUME Inv, NEW n \in Lives, NEW phase \in Phases, Enters(n, phase),
           Stage(sup[n], phase), command[n] = "running" => phase # "draining",
           UNCHANGED <<directory, at, group, op, caller>>, term' \in [Lives -> BOOLEAN]
    PROVE  Inv'
<1> USE DEF directory, group, caller
<1>1. /\ sup' \in [Lives -> Phases]
      /\ \A m \in Lives : sup'[m] = IF m = n THEN phase ELSE sup[m]
  BY Entering DEF Inv
<1>2. sup[n] \in Locking /\ phase \in Locking \ {"locked"}
  BY DEF Stage, Locking
<1>3. \A m \in Lives : Onward(m) /\ (Dead(m)' <=> Dead(m))
  BY <1>1, <1>2 DEF Inv, Numbered, Onward, Intact, Unlocked, Locking, Dead
<1>4. TypeOK'
  BY <1>1 DEF Inv, TypeOK
<1>5. Owned'
  BY <1>1, <1>2, <1>3 DEF Inv, Owned, Onward, Locking
<1>6. Kept'
  BY <1>1, <1>2 DEF Inv, Kept, Laid, Intact, Locking, Unlocked
<1>7. Ended'
  BY <1>1 DEF Inv, Ended, Stage
<1>8. Learnt'
  BY <1>3 DEF Inv, Learnt, Final, Intact, At
<1>9. Copied'
  BY DEF Inv, Copied, Recorded, Intact
<1> QED
  BY <1>3, <1>4, <1>5, <1>6, <1>7, <1>8, <1>9, Besides DEF Inv, Apart

LEMMA StagesKeep ==
    ASSUME Inv, NEW n \in Lives,
           ChildEnded(n) \/ StopAsked(n) \/ GraceOver(n) \/ Drain(n) \/ ExitUnwritten(n)
    PROVE  Inv'
<1>1. /\ term \in [Lives -> BOOLEAN]
      /\ {"draining", "stopping", "overdue", "sealed", "killing"} \subseteq Phases
  BY DEF Inv, TypeOK, Phases
<1>2. CASE ChildEnded(n)
  BY <1>1, <1>2, StageKeeps DEF ChildEnded, Stage
<1>3. CASE StopAsked(n)
  BY <1>1, <1>3, StageKeeps DEF StopAsked, Stage, directory, group, caller
<1>4. CASE GraceOver(n)
  BY <1>1, <1>4, StageKeeps DEF GraceOver, Stage
<1>5. CASE Drain(n)
  BY <1>1, <1>5, StageKeeps DEF Drain, Stage, Inv, Ended
<1>6. CASE ExitUnwritten(n)
  BY <1>1, <1>6, StageKeeps DEF ExitUnwritten, Stage
<1> QED
  BY <1>2, <1>3, <1>4, <1>5, <1>6

\* Commands and daemons go, and write.
LEMMA GroupKeeps ==
    ASSUME Inv, NEW n \in Lives,
           CommandEnds(n) \/ Daemonize(n) \/ DaemonEnds(n) \/ Writes(n)
    PROVE  Inv'
<1> USE DEF directory, supervisor, caller
<1>1. /\ UNCHANGED <<directory, supervisor, hand, op, caller>>
      /\ command' \in [Lives -> {"none", "running", "orphan", "done"}]
      /\ \A m \in Lives : command'[m] = "running" => command[m] = "running"
  BY DEF CommandEnds, Daemonize, DaemonEnds, Writes, Inv, TypeOK
<1>2. daemon' \in [Lives -> {"none", "piped", "closed"}]
  <2>1. /\ DaemonKinds \subseteq {"none", "piped", "closed"}
        /\ daemon \in [Lives -> {"none", "piped", "closed"}]
    BY TaskAssumption DEF Inv, TypeOK
  <2> QED
    BY <2>1 DEF CommandEnds, Daemonize, DaemonEnds, Writes
<1>3. pipe' \in [Lives -> BOOLEAN]
  BY DEF CommandEnds, Daemonize, DaemonEnds, Writes, Inv, TypeOK
<1>4. TypeOK'
  BY <1>1, <1>2, <1>3 DEF Inv, TypeOK
<1>5. Ended'
  BY <1>1 DEF Inv, Ended
<1>6. \A m \in Lives : Onward(m)
  BY <1>1 DEF Inv, Numbered, Onward, Intact
<1>7. Owned' /\ Kept' /\ Learnt' /\ Copied'
  BY <1>1 DEF Inv, Owned, Kept, Laid, Learnt, Final, Copied, Recorded, Intact, Dead, At
<1> QED
  BY <1>1, <1>4, <1>5, <1>6, <1>7, Besides DEF Inv, Apart

\* The death of a supervisor, but for what operations do meanwhile.
LEMMA DeathLeaves ==
    ASSUME Inv, NEW n \in Lives, Dies(n),
           UNCHANGED <<named, made, files, pid, code, length, age, caller>>,
           \A m \in Lives : command'[m] = "running" => command[m] = "running" /\ m # n
    PROVE  Owned' /\ Kept' /\ Ended' /\ Copied' /\ \A m \in Lives : Dead(m) => Dead(m)'
<1> USE DEF caller
<1>1. /\ at' = at
      /\ \A m \in Lives : /\ sup'[m] = IF m = n THEN "dead" ELSE sup[m]
                          /\ holder'[m] = IF holder[m] = n THEN 0 ELSE holder[m]
                          /\ hand'[m] => hand[m] /\ m # n
  BY Dying DEF Inv
<1>2. Owned'
  BY <1>1 DEF Inv, Owned, Unlocked
<1>3. Kept'
  BY <1>1 DEF Inv, Owned, Kept, Laid, Intact, Locking, Unlocked
<1>4. Ended'
  BY <1>1 DEF Inv, Ended
<1>5. Copied'
  <2>1. \A m \in Lives : got[m] \in Nat /\ Recorded(m) \in Nat
    BY TaskAssumption DEF Inv, TypeOK, Recorded
  <2>2. \A m \in Lives : told[m] # {} /\ Intact(m) => Recorded(m) <= got[m] + 1
    BY <2>1 DEF Inv, Copied
  <2> QED
    BY <1>1, <2>2 DEF Inv, Copied, Recorded, Intact
<1> QED
  BY <1>1, <1>2, <1>3, <1>4, <1>5 DEF Dead

LEMMA DeathKeeps ==
    ASSUME Inv, NEW n \in Lives, Dies(n), Alive(n),
           UNCHANGED <<named, made, files, pid, code, length, age, op, caller>>,
           \A m \in Lives : command'[m] = "running" => command[m] = "running" /\ m # n,
           command' \in [Lives -> {"none", "running", "orphan", "done"}],
           daemon' \in [Lives -> {"none", "piped", "closed"}]
    PROVE  Inv'
<1> USE DEF caller
<1>1. TypeOK'
  BY Dying DEF Inv, TypeOK
<1>2. Owned' /\ Kept' /\ Ended' /\ Copied' /\ \A m \in Lives : Dead(m) => Dead(m)'
  BY DeathLeaves
<1>3. \A m \in Lives : Onward(m)
  BY Dying DEF Inv, Numbered, Onward, Intact, Alive, Unlocked
<1>4. Learnt'
  BY <1>2 DEF Inv, Learnt, Final, Intact, At
<1> QED
  BY <1>1, <1>2, <1>3, <1>4, Besides DEF Inv, Apart

LEMMA DeathsKeep ==
    ASSUME Inv, NEW n \in Lives, KillOwnGroup(n) \/ Linger(n) \/ Stranded(n) \/ Lost(n)
    PROVE  Inv'
<1>1. /\ command \in [Lives -> {"none", "running", "orphan", "done"}]
      /\ daemon \in [Lives -> {"none", "piped", "closed"}]
  BY DEF Inv, TypeOK
<1>2. CASE KillOwnGroup(n)
  <2>1. command' \in [Lives -> {"none", "running", "orphan", "done"}]
        /\ \A m \in Lives : command'[m] = "running" => command[m] = "running" /\ m # n
    BY <1>1, <1>2 DEF KillOwnGroup, KillsGroup
  <2>2. daemon' \in [Lives -> {"none", "piped", "closed"}]
    BY <1>1, <1>2 DEF KillOwnGroup, KillsGroup
  <2> QED
    BY <1>2, <2>1, <2>2, DeathKeeps DEF KillOwnGroup, KillsGroup, Alive
<1>3. CASE Linger(n) \/ Stranded(n)
  <2>1. \A m \in Lives : command'[m] = "running" => command[m] = "running" /\ m # n
    BY <1>3 DEF Linger, Stranded, NeedsDirectory, Inv, Ended
  <2> QED
    BY <1>1, <1>3, <2>1, DeathKeeps DEF Linger, Stranded, NeedsDirectory, Alive
<1>4. CASE Lost(n)
  <2>1. command' \in [Lives -> {"none", "running", "orphan", "done"}]
        /\ \A m \in Lives : command'[m] = "running" => command[m] = "running" /\ m # n
    BY <1>1, <1>4 DEF Lost
  <2> QED
    BY <1>1, <1>4, <2>1, DeathKeeps DEF Lost
<1> QED
  BY <1>2, <1>3, <1>4

LEMMA OpenKeeps ==
    ASSUME Inv, NEW n \in Lives, Open(n)
    PROVE  Inv'
<1> USE DEF directory, group, caller
<1>1. n = made /\ (named = 0 \/ named = n) /\ n # 0
  BY DEF Open, Inv, Numbered, Orderly, Lives
<1> DEFINE phase == IF named = 0 THEN "dead" ELSE "opened"
<1>2. /\ sup' \in [Lives -> Phases]
      /\ \A m \in Lives : sup'[m] = IF m = n THEN phase ELSE sup[m]
  BY Entering DEF Inv, Open, Phases
<1>3. /\ at' \in [Lives -> 0..MaxLives]
      /\ \A m \in Lives : at'[m] = IF m = n THEN named ELSE at[m]
  BY DEF Open, Inv, TypeOK
<1>4. \A m \in Lives : Onward(m) /\ (Dead(m) => Dead(m)')
  BY <1>2 DEF Open, Inv, Numbered, Onward, Intact, Unlocked, Dead
<1>5. TypeOK'
  BY <1>2, <1>3 DEF Open, Inv, TypeOK
<1>6. Owned'
  BY <1>1, <1>2, <1>3 DEF Open, Inv, Owned, Unlocked
<1>7. Kept' /\ Ended'
  BY <1>2 DEF Open, Inv, Kept, Laid, Intact, Locking, Unlocked, Ended
<1>8. Learnt' /\ Copied'
  BY <1>4 DEF Open, Inv, Learnt, Final, Copied, Recorded, Intact, At
<1> QED
  BY <1>4, <1>5, <1>6, <1>7, <1>8, Besides DEF Open, Inv, Apart

LEMMA HoldLockKeeps ==
    ASSUME Inv, NEW n \in Lives, HoldLock(n)
    PROVE  Inv'
<1> USE DEF group, caller
<1>1. at[n] = n /\ named = n /\ sup[n] = "opened" /\ n # 0
  BY Serving DEF HoldLock, Lives
<1>2. /\ files' \in [Lives -> SUBSET Files] /\ files'[n] = files[n] \cup {"lock"}
      /\ \A m \in Lives : (m # n => files'[m] = files[m]) /\ (Intact(m)' <=> Intact(m))
  BY <1>1, Putting DEF HoldLock, Inv, Files
<1>3. /\ sup' \in [Lives -> Phases]
      /\ \A m \in Lives : sup'[m] = IF m = n THEN "locked" ELSE sup[m]
  BY Entering DEF Inv, HoldLock, Phases
<1>4. /\ holder' \in [Lives -> 0..MaxLives]
      /\ \A m \in Lives : holder'[m] = IF m = n THEN n ELSE holder[m]
  BY <1>1 DEF HoldLock, Inv, TypeOK, Lives
<1>5. \A m \in Lives : Onward(m) /\ (Dead(m)' <=> Dead(m))
  BY <1>1, <1>2, <1>3 DEF Inv, Numbered, Onward, Unlocked, Dead
<1>6. TypeOK'
  BY <1>2, <1>3, <1>4 DEF HoldLock, Inv, TypeOK
<1>7. Owned'
  BY <1>1, <1>3, <1>4 DEF HoldLock, Inv, Owned, Unlocked
<1>8. Kept'
  BY <1>1, <1>2, <1>3, <1>4 DEF HoldLock, Inv, Kept, Laid, Locking, Unlocked
<1>9. Ended'
  BY <1>1, <1>2, <1>3 DEF HoldLock, Inv, Ended
<1>10. Learnt' /\ Copied'
  BY <1>2, <1>5 DEF HoldLock, Inv, Learnt, Final, Copied, Recorded, At
<1> QED
  BY <1>5, <1>6, <1>7, <1>8, <1>9, <1>10, Besides DEF HoldLock, Inv, Apart

LEMMA WriteManifestKeeps ==
    ASSUME Inv, NEW n \in Lives, WriteManifest(n)
    PROVE  Inv'
<1> USE DEF group, caller
<1>1. at[n] = n /\ named = n /\ sup[n] = "locked" /\ n # 0
  BY Serving DEF WriteManifest, Lives, Locking
<1>2. /\ files' \in [Lives -> SUBSET Files] /\ files'[n] = files[n] \cup {"manifest"}
      /\ \A m \in Lives : (m # n => files'[m] = files[m]) /\ (Intact(m)' <=> Intact(m))
  BY <1>1, Putting DEF WriteManifest, Inv, Files
<1>3. /\ sup' \in [Lives -> Phases]
      /\ \A m \in Lives : sup'[m] = IF m = n THEN "announced" ELSE sup[m]
  BY Entering DEF Inv, WriteManifest, Phases
<1>4. /\ pid' \in [Lives -> 0..MaxLives]
      /\ \A m \in Lives : pid'[m] = IF m = n THEN n ELSE pid[m]
  BY <1>1 DEF WriteManifest, Inv, TypeOK, Lives
<1>5. \A m \in Lives : Onward(m) /\ (Dead(m)' <=> Dead(m))
  BY <1>1, <1>2, <1>3 DEF Inv, Numbered, Onward, Unlocked, Dead
<1>6. TypeOK'
  BY <1>2, <1>3, <1>4 DEF WriteManifest, Inv, TypeOK
<1>7. Owned'
  BY <1>1, <1>3, <1>4 DEF WriteManifest, Inv, Owned, Unlocked
<1>8. Kept'
  BY <1>1, <1>2, <1>3, <1>4 DEF WriteManifest, Inv, Kept, Laid, Locking, Unlocked
<1>9. Ended'
  BY <1>1, <1>2, <1>3 DEF WriteManifest, Inv, Ended
<1>10. Learnt' /\ Copied'
  BY <1>2, <1>5 DEF WriteManifest, Inv, Learnt, Final, Copied, Recorded, At
<1> QED
  BY <1>5, <1>6, <1>7, <1>8, <1>9, <1>10, Besides DEF WriteManifest, Inv, Apart

LEMMA SpawnChildKeeps ==
    ASSUME Inv, NEW n \in Lives, SpawnChild(n)
    PROVE  Inv'
<1> USE DEF caller
<1>1. at[n] = n /\ sup[n] = "announced" /\ (Writable(n) <=> named = n)
  BY Serving DEF SpawnChild, Locking, Writable
<1>2. /\ files' \in [Lives -> SUBSET Files]
      /\ \A m \in Lives : (m # n => files'[m] = files[m]) /\ (Intact(m)' <=> Intact(m))
      /\ files'[n] = files[n] \/ (named = n /\ files'[n] = files[n] \cup {"stdout"})
  <2>1. CASE Writable(n)
    BY <1>1, <2>1, Putting DEF SpawnChild, Inv, Files
  <2>2. CASE ~Writable(n)
    BY <1>1, <2>2 DEF SpawnChild, Inv, TypeOK, Intact
  <2> QED
    BY <2>1, <2>2
<1>3. /\ sup' \in [Lives -> Phases]
      /\ \A m \in Lives : sup'[m] = IF m = n THEN "waiting" ELSE sup[m]
  BY Entering DEF Inv, SpawnChild, Phases
<1>4. /\ length' \in [Lives -> 0..StreamCap]
      /\ \A m \in Lives : length'[m] = length[m] \/ (m = n /\ length'[m] = 0)
      /\ files'[n] # files[n] => length'[n] = 0
  <2>1. 0 \in 0..StreamCap
    BY TaskAssumption
  <2> QED
    BY <1>1, <2>1 DEF SpawnChild, Inv, TypeOK
<1>5. /\ command' \in [Lives -> {"none", "running", "orphan", "done"}]
      /\ \A m \in Lives : m # n => command'[m] = command[m]
  BY DEF SpawnChild, Inv, TypeOK
<1>6. \A m \in Lives : Onward(m) /\ (Dead(m)' <=> Dead(m))
  BY <1>1, <1>2, <1>3 DEF Inv, Numbered, Onward, Unlocked, Dead
<1>7. TypeOK'
  BY <1>2, <1>3, <1>4, <1>5 DEF SpawnChild, Inv, TypeOK
<1>8. Owned'
  BY <1>1, <1>3 DEF SpawnChild, Inv, Owned, Unlocked
<1>9. Kept'
  BY <1>1, <1>2, <1>3 DEF SpawnChild, Inv, Kept, Laid, Locking, Unlocked
<1>10. Ended'
  BY <1>1, <1>2, <1>3, <1>5 DEF SpawnChild, Inv, Ended
<1>11. Learnt'
  BY <1>2, <1>6 DEF SpawnChild, Inv, Learnt, Final, At
<1>12. Copied'
  <2>1. \A m \in Lives : got[m] \in Nat /\ length[m] \in Nat
    BY TaskAssumption DEF Inv, TypeOK
  <2>2. Intact(n) => told[n] = {}
    BY <1>1, NotYetTold DEF Inv, Ended, Dead
  <2> QED
    BY <1>2, <1>4, <2>1, <2>2 DEF SpawnChild, Inv, Copied, Recorded
<1> QED
  BY <1>6, <1>7, <1>8, <1>9, <1>10, <1>11, <1>12, Besides DEF SpawnChild, Inv, Apart

LEMMA WriteExitKeeps ==
    ASSUME Inv, NEW n \in Lives, WriteExit(n)
    PROVE  Inv'
<1> USE DEF group, caller
<1>1. at[n] = n /\ named = n /\ sup[n] \in {"announced", "sealed", "overdue"}
  BY Serving DEF WriteExit, Locking
<1> DEFINE phase == IF sup[n] = "overdue" THEN "killing" ELSE "lingering"
<1>2. /\ files' \in [Lives -> SUBSET Files] /\ files'[n] = files[n] \cup {"exit"}
      /\ \A m \in Lives : (m # n => files'[m] = files[m]) /\ (Intact(m)' <=> Intact(m))
  BY <1>1, Putting DEF WriteExit, Inv, Files
<1>3. /\ sup' \in [Lives -> Phases]
      /\ \A m \in Lives : sup'[m] = IF m = n THEN phase ELSE sup[m]
  BY Entering DEF Inv, WriteExit, Phases
<1>4. Outcome(n) \in Codes
  BY <1>1 DEF Outcome, Codes, ExitCodes
<1>5. code' \in [Lives -> Codes] /\ \A m \in Lives : m # n => code'[m] = code[m]
  BY <1>1, <1>4 DEF WriteExit, Inv, TypeOK
<1>6. \A m \in Lives : Onward(m) /\ (Dead(m)' <=> Dead(m))
  BY <1>1, <1>2, <1>3 DEF Inv, Numbered, Onward, Unlocked, Dead
<1>7. TypeOK'
  BY <1>2, <1>3, <1>5 DEF WriteExit, Inv, TypeOK
<1>8. Owned'
  BY <1>1, <1>3 DEF WriteExit, Inv, Owned, Unlocked
<1>9. Kept'
  BY <1>1, <1>2, <1>3 DEF WriteExit, Inv, Kept, Laid, Locking, Unlocked
<1>10. Ended'
  BY <1>1, <1>2, <1>3 DEF WriteExit, Inv, Ended
<1>11. Learnt'
  <2>1. ~Dead(n) /\ "exit" \notin files[n]
    BY <1>1 DEF Inv, Ended, Dead
  <2>2. Intact(n) => told[n] = {} /\ \A c \in Codes : ~Final(n, c)
    BY <2>1, NotYetTold DEF Final
  <2>3. \A o \in Ops : op[o].sent = n /\ op[o].dir = n /\ Intact(n) =>
          ~At(o, "probing") /\ (At(o, "probed") => op[o].res = "running")
    BY <2>1 DEF Inv, Learnt, Final
  <2>4. \A m \in Lives : \A c : m # n => (Final(m, c)' <=> Final(m, c))
    BY <1>2, <1>5, <1>6 DEF Final
  <2> QED
    BY <1>2, <1>6, <2>2, <2>3, <2>4 DEF WriteExit, Inv, Learnt, At
<1>12. Copied'
  BY <1>2 DEF WriteExit, Inv, Copied, Recorded
<1> QED
  BY <1>6, <1>7, <1>8, <1>9, <1>10, <1>11, <1>12, Besides DEF WriteExit, Inv, Apart

LEMMA ReadKeeps ==
    ASSUME Inv, NEW n \in Lives, Read(n)
    PROVE  Inv'
<1> USE DEF directory, supervisor, caller
<1>1. /\ pipe' \in [Lives -> BOOLEAN] /\ hand' \in [Lives -> BOOLEAN]
      /\ \A m \in Lives : m # n => hand'[m] = hand[m]
      /\ hand'[n] => sup[n] \in Recording
  BY DEF Read, Inv, TypeOK
<1>2. TypeOK'
  BY <1>1 DEF Read, Inv, TypeOK
<1>3. \A m \in Lives : Onward(m)
  BY DEF Read, Inv, Numbered, Onward, Intact
<1>4. Owned'
  BY <1>1 DEF Read, Inv, Owned, Recording, Unlocked
<1>5. Kept' /\ Ended' /\ Learnt'
  BY DEF Read, Inv, Kept, Laid, Ended, Learnt, Final, Intact, Dead, At
<1>6. hand'[n] /\ Intact(n) => told[n] = {}
  BY <1>1, NotYetTold DEF Inv, Ended, Recording, Dead
<1>7. Copied'
  BY <1>1, <1>6 DEF Read, Inv, Copied, Recorded, Intact
<1> QED
  BY <1>2, <1>3, <1>4, <1>5, <1>7, Besides DEF Read, Inv, Apart

LEMMA AppendKeeps ==
    ASSUME Inv, NEW n \in Lives, Append(n)
    PROVE  Inv'
<1> USE DEF supervisor, caller
<1>1. at[n] = n
  BY DEF Append, Inv, Owned, Unlocked
<1>2. hand' \in [Lives -> BOOLEAN] /\ \A m \in Lives : hand'[m] = (m # n /\ hand[m])
  BY DEF Append, Inv, TypeOK
<1>3. \A m \in Lives : length[m] \in 0..StreamCap /\ got[m] \in Nat
  BY TaskAssumption DEF Inv, TypeOK
<1>4. /\ length' \in [Lives -> 0..StreamCap]
      /\ \A m \in Lives : m # n => length'[m] = length[m]
      /\ length'[n] \in {length[n], length[n] + 1}
  BY <1>1, <1>3, TaskAssumption DEF Append, Full, Inv, TypeOK
<1>5. TypeOK'
  BY <1>2, <1>4 DEF Append, Inv, TypeOK
<1>6. \A m \in Lives : Onward(m)
  BY DEF Append, Inv, Numbered, Onward, Intact
<1>7. Owned'
  BY <1>2 DEF Append, Inv, Owned
<1>8. Kept' /\ Ended' /\ Learnt'
  BY DEF Append, Inv, Kept, Laid, Ended, Learnt, Final, Intact, Dead, At
<1>9. Copied'
  <2>1. told[n] # {} /\ Intact(n) => Recorded(n) <= got[n]
    BY DEF Append, Inv, Copied
  <2>2. told[n] # {} /\ Intact(n) => Recorded(n)' <= got[n] + 1
    BY <1>3, <1>4, <2>1 DEF Append, Recorded
  <2> QED
    BY <1>2, <1>4, <2>2 DEF Append, Inv, Copied, Recorded, Intact
<1> QED
  BY <1>5, <1>6, <1>7, <1>8, <1>9, Besides DEF Append, Inv, Apart

LEMMA AgesKeeps ==
    ASSUME Inv, NEW n \in Lives, Ages(n)
    PROVE  Inv'
<1> USE DEF supervisor, group, caller
<1>1. n = named /\ n = made /\ UNCHANGED <<named, made, files, op, acked, told, sup, pid>>
  BY DEF Ages, Inv, Numbered, Lives
<1>2. /\ age' \in [Lives -> {"young", "settled", "expired"}]
      /\ \A m \in Lives : m # n => age'[m] = age[m]
  BY DEF Ages, Inv, TypeOK
<1>3. age[n] # "young" \/ \A o \in Ops : ~(op[o].kind = "start" /\ op[o].dir \in Lives)
  BY DEF Ages, Starting
<1>4. TypeOK'
  BY <1>2 DEF Ages, Inv, TypeOK
<1>5. Numbered'
  <2>1. \A m \in Lives : m > made => m # n
    BY <1>1 DEF Lives
  <2>2. \A o \in Ops : op'[o].dir <= made' /\ op'[o].sent <= made'
    BY <1>1 DEF Inv, Numbered
  <2> QED
    BY <1>1, <1>2, <2>1, <2>2 DEF Inv, Numbered
<1>6. Aged'
  <2>1. \A o \in Ops : Starts(o) => op[o].kind = "start" /\ op[o].dir \in Lives
    <3>1. \A o \in Ops : op[o] \in OpState /\ Fits(op[o])
      BY DEF Inv, TypeOK, Kinded
    <3> QED
      BY <3>1, TaskAssumption DEF OpState, Fits, Starts, Lives
  <2>2. \A m \in Lives : age'[m] # "young" => \A o \in Ops : Starts(o)' => op'[o].dir # m
    BY <1>1, <1>2, <1>3, <2>1 DEF Inv, Aged, Starts
  <2> QED
    BY <1>1, <2>2 DEF Inv, Aged, Grown, Starts, Dead, Intact, At
<1>7. Orderly' /\ Owned' /\ Targets' /\ Kept' /\ Ended' /\ Kinded'
  BY DEF Ages, Inv, Orderly, Owned, Targets, Kept, Laid, Ended, Kinded, Fits, Intact, At
<1>8. Claims' /\ Learnt' /\ Copied'
  BY DEF Ages, Inv, Claims, Claimed, Dooms, Learnt, Final, Copied, Recorded, Intact, Dead, At
<1> QED
  BY <1>4, <1>5, <1>6, <1>7, <1>8 DEF Inv

-----------------------------------------------------------------------------
(* The steps of operations.                                                 *)

\* What an operation keeps that changes nothing but itself.
LEMMA Still ==
    ASSUME Inv, UNCHANGED <<directory, supervisor, group, caller>>, op' \in [Ops -> OpState]
    PROVE  /\ TypeOK' /\ Owned' /\ Kept' /\ Ended' /\ Copied'
           /\ \A n \in Lives : \A c : Final(n, c)' <=> Final(n, c)
<1> USE DEF directory, supervisor, group, caller
<1>1. TypeOK'
  BY DEF Inv, TypeOK
<1> QED
  BY <1>1 DEF Inv, Owned, Kept, Laid, Ended, Copied, Recorded, Final, Intact, Dead

\* What the others keep, and what is left to see of the one that moves.
Shared == UNCHANGED <<named, made, sup, age>>
LEMMA Alone ==
    ASSUME Inv, NEW o \in Ops, Others(o), Shared,
           \A m \in Lives : m > made => told'[m] = told[m],
           acked' \subseteq acked \cup {m \in Lives : m <= made},
           \A n \in Lives : n # named => files'[n] = {},
           op'[o].dir <= made, op'[o].sent <= made, op'[o].pc # "spawn",
           op'[o].pid # 0 => sup[op'[o].pid] \notin Unlocked
    PROVE  Numbered' /\ Orderly' /\ Targets'
<1>1. Numbered'
  <2>1. \A p \in Ops : op'[p].dir <= made /\ op'[p].sent <= made
    BY DEF Inv, Numbered, Others
  <2>2. \A n \in Lives : n > made => n \notin acked'
    BY DEF Inv, TypeOK, Numbered, Lives
  <2> QED
    BY <2>1, <2>2 DEF Inv, Numbered, Shared
<1>2. Orderly'
  BY DEF Inv, Orderly, At, Others, Shared
<1>3. Targets'
  BY DEF Inv, Targets, Others, Shared
<1> QED
  BY <1>1, <1>2, <1>3

\* An operation that ends is no longer in anybody's way.
LEMMA Rests ==
    ASSUME Inv, NEW o \in Ops, Ends(o), Shared, UNCHANGED <<files, acked>>,
           \A m \in Lives : m > made => told'[m] = told[m]
    PROVE  /\ op' \in [Ops -> OpState] /\ Others(o) /\ op'[o] = Resting
           /\ Numbered' /\ Orderly' /\ Targets' /\ Kinded' /\ Aged' /\ Claims'
<1>1. op' \in [Ops -> OpState] /\ Others(o) /\ op'[o] = Resting
  BY Ending DEF Inv
<1>2. Numbered' /\ Orderly' /\ Targets'
  <2>1. 0 <= made
    BY Naming
  <2> QED
    BY <1>1, <2>1, Alone DEF Resting, Inv, Numbered, TypeOK
<1>3. Kinded'
  BY <1>1 DEF Others, Resting, Inv, Kinded, Fits, Intact, At
<1>4. Aged'
  BY <1>1 DEF Others, Shared, Resting, Inv, Aged, Grown, Starts, Dead, Intact, At
<1>5. Claims'
  <2>1. \A n \in Lives : Claimed(n)' => Claimed(n)
    BY <1>1 DEF Others, Resting, Claimed, Lives
  <2>2. \A n \in Lives : \A p \in Ops : Dooms(p, n) => Dooms(p, n)'
    BY <1>1 DEF Others, Shared, Resting, Dooms, Dead, At
  <2> QED
    BY <2>1, <2>2 DEF Shared, Inv, Claims, Dead, Intact
<1> QED
  BY <1>1, <1>2, <1>3, <1>4, <1>5

LEMMA SpareKeeps ==
    ASSUME Inv, NEW o \in Ops, Spare(o)
    PROVE  Inv'
<1> USE DEF directory, supervisor, group, caller
<1>1. /\ op' \in [Ops -> OpState] /\ Others(o) /\ op'[o] = Resting
      /\ Numbered' /\ Orderly' /\ Targets' /\ Kinded' /\ Aged' /\ Claims'
  BY Rests DEF Spare, Shared
<1>2. /\ TypeOK' /\ Owned' /\ Kept' /\ Ended' /\ Copied'
      /\ \A n \in Lives : \A c : Final(n, c)' <=> Final(n, c)
  BY <1>1, Still DEF Spare
<1>3. Learnt'
  BY <1>1, <1>2 DEF Spare, Others, Resting, Inv, Learnt, Intact, Dead, At
<1> QED
  BY <1>1, <1>2, <1>3 DEF Inv

LEMMA SignalKeeps ==
    ASSUME Inv, NEW o \in Ops, Signal(o)
    PROVE  Inv'
<1> USE DEF directory, supervisor, group, caller
<1>1. /\ op' \in [Ops -> OpState] /\ Others(o) /\ op'[o] = Resting
      /\ Numbered' /\ Orderly' /\ Targets' /\ Kinded' /\ Aged' /\ Claims'
  BY Rests DEF Signal, Shared
<1>2. term' \in [Lives -> BOOLEAN]
  BY DEF Signal, TermReaches, Alive, Inv, TypeOK
<1>3. TypeOK'
  BY <1>1, <1>2 DEF Signal, Inv, TypeOK
<1>4. Owned' /\ Kept' /\ Ended' /\ Copied'
  BY DEF Signal, Inv, Owned, Kept, Laid, Ended, Copied, Recorded, Intact
<1>5. Learnt'
  BY <1>1 DEF Signal, Others, Resting, Inv, Learnt, Final, Intact, Dead, At
<1> QED
  BY <1>1, <1>3, <1>4, <1>5 DEF Inv

LEMMA PageKeeps ==
    ASSUME Inv, NEW o \in Ops, Page(o)
    PROVE  Inv'
<1> USE DEF directory, supervisor, group
<1> DEFINE n == op[o].dir
<1>1. op[o] \in OpState /\ Fits(op[o])
  BY DEF Inv, TypeOK, Kinded
<1>2. n \in Lives /\ op[o].res \in Codes \cup {"none", "running"} /\ n <= made
  BY <1>1, TaskAssumption DEF Page, OpState, Fits, At, Lives, Inv, Numbered
<1>3. op' \in [Ops -> OpState] /\ Others(o) /\ op'[o] = Resting
  BY Ending DEF Page, Inv
<1>4. \A m \in Lives : /\ length[m] \in 0..StreamCap /\ got[m] \in 0..StreamCap
                       /\ Recorded(m) \in 0..StreamCap
  BY TaskAssumption DEF Inv, TypeOK, Recorded
<1>5. NextOffset(n) \in 0..StreamCap /\ NextOffset(n) >= got[n]
  BY <1>2, <1>4, TaskAssumption DEF NextOffset
<1>6. /\ got' \in [Lives -> 0..StreamCap]
      /\ \A m \in Lives : got'[m] = IF m = n THEN NextOffset(n) ELSE got[m]
  BY <1>2, <1>5 DEF Page, Inv, TypeOK
<1>7. /\ told' \in [Lives -> SUBSET Codes] /\ \A m \in Lives : m # n => told'[m] = told[m]
      /\ told'[n] # told[n] =>
           /\ op[o].sent = n /\ op[o].res # "running" /\ Complete(n)
           /\ told'[n] = told[n] \cup {op[o].res}
  BY <1>1, <1>2 DEF Page, Fits, At, Inv, TypeOK
<1>8. Numbered' /\ Orderly' /\ Targets' /\ Kinded' /\ Aged' /\ Claims'
  <2>1. \A m \in Lives : m > made => m # n
    BY <1>2 DEF Inv, TypeOK, Lives
  <2> QED
    BY <1>7, <2>1, Rests DEF Page, Shared
<1>9. TypeOK'
  BY <1>3, <1>6, <1>7 DEF Page, Inv, TypeOK
<1>10. Owned' /\ Kept' /\ Ended'
  BY DEF Page, Inv, Owned, Kept, Laid, Ended, Intact
<1>11. Learnt'
  <2>1. \A m \in Lives : Intact(m) => \A c \in told'[m] : Final(m, c)
    BY <1>7 DEF Page, Inv, Learnt, At
  <2> QED
    BY <1>3, <2>1 DEF Page, Others, Resting, Inv, Learnt, Final, Intact, Dead, At
<1>12. Copied'
  <2>1. told'[n] # told[n] => Recorded(n) <= got'[n]
    BY <1>2, <1>4, <1>5, <1>6, <1>7 DEF Complete
  <2>2. \A m \in Lives : got'[m] >= got[m]
    BY <1>4, <1>5, <1>6
  <2>3. \A m \in Lives : told'[m] # {} /\ Intact(m) =>
          Recorded(m) <= IF hand[m] THEN got'[m] ELSE got'[m] + 1
    BY <1>2, <1>4, <1>6, <1>7, <2>1, <2>2 DEF Inv, Copied
  <2> QED
    BY <2>3 DEF Page, Copied, Recorded, Intact
<1> QED
  BY <1>8, <1>9, <1>10, <1>11, <1>12 DEF Inv

LEMMA StartedKeeps ==
    ASSUME Inv, NEW o \in Ops, Started(o)
    PROVE  Inv'
<1> USE DEF directory, supervisor, group
<1> DEFINE n == op[o].dir
<1>1. op[o] \in OpState /\ Fits(op[o])
  BY DEF Inv, TypeOK, Kinded
<1>2. n \in Lives /\ n <= made /\ op[o].kind = "start" /\ Starts(o)
  BY <1>1, TaskAssumption DEF Started, OpState, Fits, At, Lives, Inv, Numbered, Starts
<1>3. op' \in [Ops -> OpState] /\ Others(o) /\ op'[o] = Resting
  BY Ending DEF Started, Inv
<1>4. TypeOK'
  BY <1>2, <1>3 DEF Started, Inv, TypeOK
<1>5. Numbered' /\ Orderly' /\ Targets'
  <2>1. 0 <= made
    BY Naming
  <2> QED
    BY <1>2, <1>3, <2>1, Alone DEF Started, Shared, Resting, Inv, Numbered
<1>6. Owned' /\ Ended' /\ Copied'
  BY DEF Started, Inv, Owned, Ended, Copied, Recorded, Intact
<1>7. Kept'
  BY <1>2 DEF Started, Announced, Inv, Kept, Laid, Intact
<1>8. Kinded'
  BY <1>3 DEF Started, Others, Resting, Inv, Kinded, Fits, Intact, At
<1>9. Aged'
  BY <1>2, <1>3 DEF Started, Others, Resting, Inv, Aged, Grown, Starts, Dead, Intact, At
<1>10. Claims'
  <2>1. \A m \in Lives : Claimed(m)' => Claimed(m)
    BY <1>3 DEF Others, Resting, Claimed, Lives
  <2>2. \A m \in Lives : \A p \in Ops : Dooms(p, m) => Dooms(p, m)'
    BY <1>3 DEF Started, Others, Resting, Dooms, Dead, At
  <2> QED
    BY <2>1, <2>2 DEF Started, Inv, Claims, Dead, Intact
<1>11. Learnt'
  BY <1>3 DEF Started, Others, Resting, Inv, Learnt, Final, Intact, Dead, At
<1> QED
  BY <1>4, <1>5, <1>6, <1>7, <1>8, <1>9, <1>10, <1>11 DEF Inv

\* An operation that goes on with what it has: it is no start that has yet to spawn, and
\* strikes or empties nothing.
Calm == {"launch", "probe", "trying", "probing", "probed", "find"}
LEMMA CalmKeeps ==
    ASSUME Inv, NEW o \in Ops, Others(o), op' \in [Ops -> OpState],
           UNCHANGED <<directory, supervisor, group, caller>>,
           op'[o].kind = op[o].kind, op'[o].dir = op[o].dir, op'[o].seen = op[o].seen,
           op'[o].sent = op[o].sent, op'[o].pc \in Calm, op[o].pc # "rmdir",
           op'[o].pc = "launch" => op[o].pc = "launch",
           op'[o].pid # 0 => sup[op'[o].pid] \notin Unlocked, Fits(op'[o]),
           \A n \in Lives : op[o].sent = n /\ op[o].dir = n /\ Intact(n) =>
             /\ op'[o].pc = "probing" => Dead(n)
             /\ op'[o].pc = "probed" /\ op'[o].res # "running" => Final(n, op'[o].res)
    PROVE  Inv'
<1> USE DEF directory, supervisor, group, caller
<1>1. /\ TypeOK' /\ Owned' /\ Kept' /\ Ended' /\ Copied'
      /\ \A n \in Lives : \A c : Final(n, c)' <=> Final(n, c)
  BY Still
<1>2. Numbered' /\ Orderly' /\ Targets'
  BY Alone DEF Shared, Calm, Inv, Numbered
<1>3. Kinded'
  BY DEF Others, Calm, Inv, Kinded, Intact, At
<1>4. Aged'
  BY DEF Others, Calm, Inv, Aged, Grown, Starts, Dead, Intact, At
<1>5. Claims'
  <2>1. \A n \in Lives : Claimed(n)' => Claimed(n)
    BY DEF Others, Claimed
  <2>2. \A n \in Lives : \A p \in Ops : Dooms(p, n) => Dooms(p, n)'
    BY DEF Others, Calm, Dooms, Dead, At
  <2> QED
    BY <2>1, <2>2 DEF Inv, Claims, Dead, Intact
<1>6. Learnt'
  BY <1>1 DEF Others, Inv, Learnt, Intact, Dead, At
<1> QED
  BY <1>1, <1>2, <1>3, <1>4, <1>5, <1>6 DEF Inv

LEMMA WaitsKeep ==
    ASSUME Inv, NEW o \in Ops, GiveUp(o) \/ Quiet(o)
    PROVE  Inv'
<1>1. /\ op' \in [Ops -> OpState] /\ Others(o)
      /\ op'[o].pc = IF GiveUp(o) THEN "find" ELSE "probe"
      /\ op'[o].kind = op[o].kind /\ op'[o].dir = op[o].dir /\ op'[o].pid = op[o].pid
      /\ op'[o].res = op[o].res /\ op'[o].seen = op[o].seen /\ op'[o].sent = op[o].sent
  BY Moving DEF GiveUp, Quiet, Inv, At
<1>2. Fits(op'[o]) /\ op'[o].pc \in Calm
  BY <1>1 DEF GiveUp, Quiet, At, Inv, Kinded, Fits, Calm
<1>3. op'[o].pid # 0 => sup[op'[o].pid] \notin Unlocked
  BY <1>1 DEF Inv, Targets
<1> QED
  BY <1>1, <1>2, <1>3, CalmKeeps DEF GiveUp, Quiet, At

LEMMA Manifested ==
    ASSUME Inv, NEW n \in Lives, ManifestPid(n) # 0
    PROVE  ManifestPid(n) = n /\ sup[n] \notin Unlocked
BY DEF ManifestPid, Inv, Owned

\* Where an operation that looks for the liveness of its task gets to.
LEMMA Looking ==
    ASSUME Inv, NEW o \in Ops, op[o].pc \in {"probe", "trying", "probing"}
    PROVE  /\ op[o].dir \in Lives /\ op[o].dir # 0 /\ op[o].kind \in {"tail", "cancel", "gc"}
           /\ code[op[o].dir] \in Codes
           /\ op[o].sent = op[o].dir => op[o].dir \in acked
<1>1. op[o] \in OpState /\ Fits(op[o])
  BY DEF Inv, TypeOK, Kinded
<1>2. op[o].dir \in Lives /\ op[o].dir # 0 /\ op[o].kind \in {"tail", "cancel", "gc"}
  BY <1>1, TaskAssumption DEF OpState, Fits, Lives
<1> QED
  BY <1>2 DEF Inv, TypeOK, Claims, Claimed

LEMMA LearnsKeeps ==
    ASSUME Inv, NEW o \in Ops, NEW result \in Codes \cup {"running"}, Learns(o, result),
           op[o].pc \in {"probe", "trying", "probing"},
           UNCHANGED <<directory, supervisor, group, caller>>,
           \/ result = "running"
           \/ op[o].sent = op[o].dir /\ Intact(op[o].dir) => Final(op[o].dir, result)
    PROVE  Inv'
<1>1. /\ op[o].dir \in Lives /\ op[o].dir # 0 /\ op[o].kind \in {"tail", "cancel", "gc"}
  BY Looking
<1>2. /\ op' \in [Ops -> OpState] /\ Others(o)
      /\ op'[o].pc = "probed" /\ op'[o].res = result
      /\ op'[o].kind = op[o].kind /\ op'[o].dir = op[o].dir
      /\ op'[o].seen = op[o].seen /\ op'[o].sent = op[o].sent
      /\ op'[o].pid \in {0, ManifestPid(op[o].dir)}
  BY <1>1, Learning DEF Inv
<1>3. result # "none"
  BY DEF Codes, ExitCodes
<1>4. Fits(op'[o])
  BY <1>1, <1>2, <1>3 DEF Fits
<1>5. op'[o].pid # 0 => sup[op'[o].pid] \notin Unlocked
  BY <1>1, <1>2, Manifested
<1> QED
  BY <1>2, <1>4, <1>5, CalmKeeps DEF Calm

LEMMA TriesKeeps ==
    ASSUME Inv, NEW o \in Ops, NEW pc \in {"trying", "probing"}, Moves(o, pc),
           op[o].pc \in {"probe", "trying"},
           UNCHANGED <<directory, supervisor, group, caller>>,
           pc = "probing" /\ op[o].sent = op[o].dir /\ Intact(op[o].dir) => Dead(op[o].dir)
    PROVE  Inv'
<1>1. op[o].dir # 0 /\ op[o].kind \in {"tail", "cancel", "gc"}
  BY Looking
<1>2. /\ op' \in [Ops -> OpState] /\ Others(o)
      /\ op'[o].pc = pc /\ op'[o].kind = op[o].kind /\ op'[o].dir = op[o].dir
      /\ op'[o].pid = op[o].pid /\ op'[o].seen = op[o].seen /\ op'[o].sent = op[o].sent
  BY Moving DEF Inv
<1>3. Fits(op'[o])
  BY <1>1, <1>2 DEF Fits
<1> QED
  BY <1>2, <1>3, CalmKeeps DEF Calm, Inv, Targets

LEMMA LivenessKeeps ==
    ASSUME Inv, NEW o \in Ops, Probe(o) \/ TryLock(o) \/ ProbeAgain(o)
    PROVE  Inv'
<1> DEFINE n == op[o].dir
<1>1. op[o].pc \in {"probe", "trying", "probing"}
  BY DEF Probe, TryLock, ProbeAgain, At
<1>2. n \in Lives /\ n # 0 /\ code[n] \in Codes /\ (op[o].sent = n => n \in acked)
  BY <1>1, Looking
<1>3. "unknown" \in Codes
  BY DEF Codes
<1>4. CASE Probe(o)
  <2>1. CASE "exit" \in files[n]
    BY <1>1, <1>2, <1>4, <2>1, LearnsKeeps DEF Probe, Final
  <2>2. CASE "exit" \notin files[n]
    BY <1>4, <2>2, TriesKeeps DEF Probe, At
  <2> QED
    BY <2>1, <2>2
<1>5. CASE TryLock(o)
  <2>1. CASE "lock" \notin files[n]
    <3>1. ~(op[o].sent = n /\ Intact(n))
      BY <1>2, <2>1 DEF Inv, Kept, Laid
    <3> QED
      BY <1>1, <1>3, <1>5, <2>1, <3>1, LearnsKeeps DEF TryLock
  <2>2. CASE "lock" \in files[n] /\ Held(n)
    BY <1>1, <1>5, <2>2, LearnsKeeps DEF TryLock
  <2>3. CASE "lock" \in files[n] /\ ~Held(n)
    <3>1. op[o].sent = n /\ Intact(n) => Dead(n)
      BY <1>2, <2>3, UpOnce DEF Held
    <3> QED
      BY <1>5, <2>3, <3>1, TriesKeeps DEF TryLock, At
  <2> QED
    BY <2>1, <2>2, <2>3
<1>6. CASE ProbeAgain(o)
  <2>1. op[o].sent = n /\ Intact(n) => Dead(n)
    BY <1>2, <1>6 DEF ProbeAgain, Inv, Learnt
  <2>2. CASE "exit" \in files[n]
    BY <1>1, <1>2, <1>6, <2>2, LearnsKeeps DEF ProbeAgain, Final
  <2>3. CASE "exit" \notin files[n]
    BY <1>1, <1>3, <1>6, <2>1, <2>3, LearnsKeeps DEF ProbeAgain, Final
  <2> QED
    BY <2>2, <2>3
<1> QED
  BY <1>4, <1>5, <1>6

LEMMA ArrivesKeeps ==
    ASSUME Inv, NEW o \in Ops, Tail(o) \/ Cancel(o) \/ Cleanup(o) \/ Collect(o)
    PROVE  Inv'
<1> USE DEF directory, supervisor, group, caller
<1>1. PICK kind \in {"tail", "cancel", "gc", "remove"}, pc \in {"probe", "find"} :
        /\ Arrives(o, kind, pc)
        /\ IF kind = "remove" THEN pc = "find" ELSE pc = "probe" /\ named # 0
  BY DEF Tail, Cancel, Cleanup, Collect
<1> DEFINE sent == IF named \in acked /\ Undisturbed(named) THEN named ELSE 0
           seen == IF named = 0 THEN "young" ELSE age[named]
           s == [Resting EXCEPT !.kind = kind, !.pc = pc, !.dir = named, !.sent = sent,
                                !.seen = seen]
<1>2. /\ named \in 0..MaxLives /\ (named # 0 => named \in Lives) /\ 0 \in 0..MaxLives
      /\ named <= made /\ 0 <= made
  BY TaskAssumption, Naming DEF Inv, TypeOK, Numbered, Lives
<1>3. sent \in {0, named} /\ seen \in {"young", "settled", "expired"}
  BY <1>2 DEF Inv, TypeOK
<1>4. /\ s \in OpState /\ s.kind = kind /\ s.pc = pc /\ s.dir = named /\ s.sent = sent
      /\ s.seen = seen /\ s.pid = 0
  BY <1>2, <1>3 DEF Resting, OpState
<1>5. op' \in [Ops -> OpState] /\ Others(o) /\ op'[o] = s
  BY <1>1, <1>4, Becoming DEF Arrives, Inv
<1>6. /\ op'[o].kind = kind /\ op'[o].pc = pc /\ op'[o].dir = named /\ op'[o].sent = sent
      /\ op'[o].seen = seen /\ op'[o].pid = 0
  BY <1>4, <1>5
<1> HIDE DEF s
<1>7. UNCHANGED <<directory, supervisor, group, caller>>
  BY <1>1 DEF Arrives
<1>8. /\ TypeOK' /\ Owned' /\ Kept' /\ Ended' /\ Copied'
      /\ \A n \in Lives : \A c : Final(n, c)' <=> Final(n, c)
  BY <1>5, <1>7, Still
<1>9. Numbered' /\ Orderly' /\ Targets'
  <2>1. sent <= made
    BY <1>2, <1>3
  <2>2. \A n \in Lives : n # named => files'[n] = {}
    BY <1>7 DEF Inv, Numbered
  <2> QED
    BY <1>2, <1>5, <1>6, <1>7, <2>1, <2>2, Alone DEF Shared
<1>10. Kinded'
  BY <1>1, <1>5, <1>6, <1>7 DEF Others, Inv, Kinded, Fits, Intact, At
<1>11. Aged'
  BY <1>1, <1>2, <1>5, <1>6, <1>7 DEF Others, Inv, Aged, Grown, Starts, Dead, Intact, At
<1>12. Claims'
  <2> SUFFICES ASSUME NEW n \in Lives, Claimed(n)'
               PROVE  /\ n \in acked
                      /\ ~Intact(n) => Dead(n)
                      /\ named = n => \A p \in Ops : Dooms(p, n)'
    BY <1>7 DEF Claims, Dead, Intact
  <2>1. n = named => Dooms(o, n)'
    BY <1>1, <1>6 DEF Dooms, At
  <2>2. CASE Claimed(n)
    <3>1. \A p \in Ops : p # o /\ Dooms(p, n) => Dooms(p, n)'
      BY <1>5, <1>7 DEF Others, Dooms, Dead, At
    <3> QED
      BY <2>1, <2>2, <3>1 DEF Inv, Claims
  <2>3. CASE ~Claimed(n)
    <3>1. n = named /\ n \in acked /\ Undisturbed(n)
      BY <1>3, <1>5, <1>6, <2>3 DEF Claimed, Others, Lives
    <3>2. ASSUME NEW p \in Ops, p # o
          PROVE  Dooms(p, n)'
      <4>1. op[p] \in OpState /\ Fits(op[p]) /\ (At(p, "rmdir") => ~Intact(op[p].dir))
        BY DEF Inv, TypeOK, Kinded
      <4>2. op[p].kind \notin {"start", "remove"} /\ (op[p].kind = "gc" => op[p].dir = n)
        BY <3>1 DEF Undisturbed
      <4>3. At(p, "strike") \/ At(p, "clear") \/ At(p, "rmdir") => op[p].kind = "gc"
        BY <4>1, <4>2 DEF Fits, At
      <4>4. ~At(p, "rmdir")
        BY <3>1, <4>1, <4>2, <4>3 DEF Undisturbed, Intact
      <4>5. At(p, "strike") /\ op[p].seen # "young" => op[p].pid = n \/ Dead(n)
        BY <3>1, <4>2, <4>3 DEF Undisturbed, Intact, Inv, Aged, Grown, At
      <4>6. At(p, "clear") => Dead(n)
        BY <3>1, <4>1, <4>2, <4>3 DEF Undisturbed, Intact, Inv, Aged, Grown, At, Fits
      <4>7. Dooms(p, n)
        BY <4>2, <4>3, <4>4, <4>5, <4>6 DEF Dooms, At
      <4> QED
        BY <1>5, <1>7, <3>2, <4>7 DEF Others, Dooms, Dead, At
    <3> QED
      BY <2>1, <3>1, <3>2 DEF Undisturbed, Intact
  <2> QED
    BY <2>2, <2>3
<1>13. Learnt'
  BY <1>5, <1>6, <1>7, <1>8 DEF Others, Inv, Learnt, Intact, Dead, At
<1> QED
  BY <1>8, <1>9, <1>10, <1>11, <1>12, <1>13 DEF Inv

LEMMA FindKeeps ==
    ASSUME Inv, NEW o \in Ops, Find(o)
    PROVE  Inv'
<1> USE DEF directory, supervisor, group, caller
<1> DEFINE n == IF op[o].kind = "gc" THEN op[o].dir ELSE named
           s == [op[o] EXCEPT !.pc = "strike", !.dir = n, !.pid = SupervisorPid(n)]
<1>1. op[o] \in OpState /\ Fits(op[o]) /\ op[o].kind \in {"start", "remove", "gc"}
      /\ op[o].pc # "rmdir" /\ ~At(o, "spawn")
  BY DEF Find, At, Inv, TypeOK, Kinded, Fits
<1>2. n \in 0..MaxLives /\ n <= made /\ (n # 0 => n \in Lives) /\ (op[o].kind = "gc" => n # 0)
  <2>1. op[o].dir \in 0..MaxLives /\ op[o].dir <= made /\ (op[o].kind = "gc" => op[o].dir # 0)
    BY <1>1 DEF OpState, Fits, Inv, Numbered
  <2>2. named \in 0..MaxLives /\ named <= made
    BY Naming, TaskAssumption DEF Inv, TypeOK, Numbered
  <2>3. n \in 0..MaxLives /\ n <= made /\ (op[o].kind = "gc" => n # 0)
    BY <2>1, <2>2
  <2> QED
    BY <2>3, TaskAssumption DEF Lives
<1>3. /\ SupervisorPid(n) \in 0..MaxLives
      /\ SupervisorPid(n) # 0 => n # 0 /\ SupervisorPid(n) = n /\ sup[n] \notin Unlocked
  BY <1>2, Manifested, TaskAssumption DEF SupervisorPid
<1>4. n # 0 /\ n \in acked /\ Intact(n) => SupervisorPid(n) = n \/ Dead(n)
  <2> SUFFICES ASSUME n # 0, n \in acked, Intact(n), ~Dead(n)
               PROVE  SupervisorPid(n) = n
    OBVIOUS
  <2>1. "lock" \in files[n] /\ "manifest" \in files[n] /\ pid[n] = n
    BY <1>2 DEF Inv, Kept, Laid
  <2>2. holder[n] # 0
    BY <1>2, UpOnce
  <2> QED
    BY <2>1, <2>2 DEF SupervisorPid, ManifestPid, Held
<1>5. /\ s \in OpState /\ s.pc = "strike" /\ s.dir = n /\ s.pid = SupervisorPid(n)
      /\ s.kind = op[o].kind /\ s.seen = op[o].seen /\ s.sent = op[o].sent
  BY <1>1, <1>2, <1>3 DEF OpState
<1>6. op' \in [Ops -> OpState] /\ Others(o) /\ op'[o] = s
  BY <1>5, Becoming DEF Find, Inv
<1>7. UNCHANGED <<directory, supervisor, group, caller>>
  BY DEF Find
<1>8. /\ op'[o].pc = "strike" /\ op'[o].dir = n /\ op'[o].pid = SupervisorPid(n)
      /\ op'[o].kind = op[o].kind /\ op'[o].seen = op[o].seen /\ op'[o].sent = op[o].sent
  BY <1>5, <1>6
<1> HIDE DEF n, s
<1>9. n = IF op[o].kind = "gc" THEN op[o].dir ELSE named
  BY DEF n
<1>10. /\ TypeOK' /\ Owned' /\ Kept' /\ Ended' /\ Copied'
       /\ \A m \in Lives : \A c : Final(m, c)' <=> Final(m, c)
  BY <1>6, <1>7, Still
<1>11. Numbered' /\ Orderly' /\ Targets'
  <2>1. op[o].sent <= made /\ \A m \in Lives : m # named => files'[m] = {}
    BY <1>7 DEF Inv, Numbered
  <2> QED
    BY <1>2, <1>3, <1>6, <1>7, <1>8, <2>1, Alone DEF Shared
<1>12. Kinded'
  <2>1. Fits(op'[o])
    BY <1>1, <1>2, <1>8 DEF Fits
  <2> QED
    BY <1>6, <1>7, <1>8, <2>1 DEF Others, Inv, Kinded, Intact, At
<1>13. Aged'
  <2>1. Grown(o)' => Grown(o) /\ n = op[o].dir /\ n # 0
    BY <1>1, <1>2, <1>8, <1>9 DEF Grown
  <2> QED
    BY <1>4, <1>6, <1>7, <1>8, <2>1 DEF Others, Inv, Aged, Grown, Starts, Dead, Intact, At
<1>14. Claims'
  <2>1. \A m \in Lives : Claimed(m)' => Claimed(m)
    BY <1>6, <1>8 DEF Others, Claimed
  <2>2. \A m \in Lives : \A p \in Ops : p # o /\ Dooms(p, m) => Dooms(p, m)'
    BY <1>6, <1>7 DEF Others, Dooms, Dead, At
  <2>3. ASSUME NEW m \in Lives, Claimed(m), named = m
        PROVE  Dooms(o, m)'
    <3>1. m \in acked /\ (~Intact(m) => Dead(m)) /\ Dooms(o, m)
      BY <2>3 DEF Inv, Claims
    <3>2. n = m /\ n # 0
      BY <1>9, <2>3, <3>1 DEF Dooms, Lives
    <3>3. SupervisorPid(n) = n \/ Dead(n)
      BY <1>4, <3>1, <3>2
    <3> QED
      BY <1>7, <1>8, <3>1, <3>2, <3>3 DEF Dooms, Dead, At
  <2> QED
    BY <1>7, <2>1, <2>2, <2>3 DEF Inv, Claims, Dead, Intact
<1>15. Learnt'
  BY <1>6, <1>7, <1>8, <1>10 DEF Others, Inv, Learnt, Intact, Dead, At
<1> QED
  BY <1>10, <1>11, <1>12, <1>13, <1>14, <1>15 DEF Inv

LEMMA PrepareKeeps ==
    ASSUME Inv, OrderlyStarts, NEW o \in Ops, Prepare(o)
    PROVE  Inv'
<1> USE DEF supervisor, group, caller
<1> DEFINE n == made + 1
           s == [Resting EXCEPT !.kind = "start", !.pc = "spawn", !.dir = n]
<1>1. /\ n \in Lives /\ n \in 0..MaxLives /\ made \in Nat
      /\ n > made /\ n # made /\ n # 0 /\ n # named
  BY TaskAssumption DEF Prepare, Vacant, Inv, TypeOK, Lives
<1>2. named' = n /\ made' = n /\ named = 0
  BY DEF Prepare, Vacant
<1>3. /\ s \in OpState /\ s.kind = "start" /\ s.pc = "spawn" /\ s.dir = n /\ s.sent = 0
      /\ s.pid = 0 /\ s.seen = "young"
  <2>1. 0 \in 0..MaxLives
    BY TaskAssumption
  <2> QED
    BY <1>1, <2>1 DEF Resting, OpState
<1>4. op' \in [Ops -> OpState] /\ Others(o) /\ op'[o] = s
  BY <1>2, <1>3, Becoming DEF Prepare, Inv
<1>5. /\ op'[o].kind = "start" /\ op'[o].pc = "spawn" /\ op'[o].dir = n /\ op'[o].sent = 0
      /\ op'[o].pid = 0 /\ op'[o].seen = "young"
  BY <1>3, <1>4
<1>6. /\ files' \in [Lives -> SUBSET Files] /\ files'[n] = {"command"}
      /\ \A m \in Lives : m # n => files'[m] = files[m]
  BY <1>1, <1>2 DEF Prepare, Inv, TypeOK, Files
<1>7. /\ UNCHANGED <<holder, pid, code, length, age, supervisor, group, caller>>
      /\ files[n] = {} /\ sup[n] = "none" /\ n \notin acked /\ age[n] = "young" /\ told[n] = {}
  BY <1>1, <1>2 DEF Prepare, Inv, Numbered
<1>8. \A p \in Ops : op[p].dir # n /\ op[p].sent # n /\ ~At(p, "spawn")
                     /\ op[p].dir <= made /\ op[p].sent <= made
  <2>1. \A p \in Ops : op[p] \in OpState /\ op[p].dir <= made /\ op[p].sent <= made
    BY DEF Inv, TypeOK, Numbered
  <2> QED
    BY <1>1, <2>1 DEF OpState, Prepare, EarlierOpened
<1> HIDE DEF n, s
<1>9. n = made + 1
  BY DEF n
<1>10. TypeOK'
  BY <1>1, <1>2, <1>4, <1>6, <1>7 DEF Inv, TypeOK
<1>11. Numbered'
  <2>1. \A p \in Ops : op[p].dir \in Nat /\ op[p].sent \in Nat
    BY DEF Inv, TypeOK, OpState
  <2>2. \A p \in Ops : op'[p].dir <= n /\ op'[p].sent <= n
    BY <1>1, <1>4, <1>5, <1>8, <1>9, <2>1 DEF Others
  <2>3. \A m \in Lives : m > n => m > made
    BY <1>1, <1>9 DEF Lives
  <2>4. \A m \in Lives : m > n =>
          sup'[m] = "none" /\ m \notin acked' /\ age'[m] = "young" /\ told'[m] = {}
    BY <1>7, <2>3 DEF Inv, Numbered
  <2>5. \A m \in Lives : m # n => files'[m] = {}
    BY <1>2, <1>6 DEF Inv, Numbered, Lives
  <2> QED
    BY <1>2, <2>2, <2>4, <2>5 DEF Numbered
<1>12. Orderly'
  BY <1>1, <1>2, <1>4, <1>5, <1>7, <1>8 DEF Prepare, EarlierOpened, Others, Orderly, At
<1>13. Owned' /\ Targets' /\ Ended'
  BY <1>4, <1>5, <1>6, <1>7 DEF Others, Inv, Owned, Targets, Ended
<1>14. Kept'
  BY <1>6, <1>7 DEF Inv, Kept, Laid, Intact, Locking, Unlocked
<1>15. Kinded'
  <2>1. Fits(op'[o])
    BY <1>1, <1>5 DEF Fits
  <2>2. \A p \in Ops : At(p, "rmdir") => op[p].dir \in Lives
    BY TaskAssumption DEF Inv, TypeOK, OpState, Kinded, Fits, At, Lives
  <2> QED
    BY <1>4, <1>5, <1>6, <1>8, <2>1, <2>2 DEF Others, Inv, Kinded, Intact, At
<1>16. Aged'
  <2>1. \A p \in Ops : Grown(p) => op[p].dir \in Lives
    BY TaskAssumption DEF Inv, TypeOK, OpState, Kinded, Fits, Grown, Lives
  <2> QED
    BY <1>4, <1>5, <1>6, <1>7, <1>8, <2>1 DEF Others, Inv, Aged, Grown, Starts, Dead, Intact, At
<1>17. Claims'
  <2>1. \A m \in Lives : Claimed(m)' => Claimed(m) /\ m # n
    BY <1>1, <1>4, <1>5, <1>8 DEF Others, Claimed, Lives
  <2> QED
    BY <1>2, <1>6, <1>7, <2>1 DEF Inv, Claims, Dead, Intact
<1>18. Learnt'
  BY <1>4, <1>5, <1>6, <1>7, <1>8 DEF Others, Inv, Learnt, Final, Intact, Dead, At
<1>19. Copied'
  BY <1>6, <1>7 DEF Inv, Copied, Recorded, Intact
<1> QED
  BY <1>10, <1>11, <1>12, <1>13, <1>14, <1>15, <1>16, <1>17, <1>18, <1>19 DEF Inv

LEMMA SpawnShimKeeps ==
    ASSUME Inv, NEW o \in Ops, SpawnShim(o)
    PROVE  Inv'
<1> USE DEF directory, group, caller
<1> DEFINE n == op[o].dir
<1>1. op[o] \in OpState /\ Fits(op[o]) /\ op[o].pc = "spawn" /\ op[o].kind = "start"
  BY DEF SpawnShim, Inv, TypeOK, Kinded, Fits, At
<1>2. /\ n \in Lives /\ n = made /\ n # 0 /\ sup[n] = "none"
      /\ \A p \in Ops : At(p, "spawn") => p = o
  BY <1>1, TaskAssumption DEF OpState, Fits, Inv, Orderly, At, Lives
<1>3. /\ op' \in [Ops -> OpState] /\ Others(o) /\ op'[o].pc \in {"launch", "find"}
      /\ op'[o].kind = op[o].kind /\ op'[o].dir = op[o].dir /\ op'[o].pid = op[o].pid
      /\ op'[o].seen = op[o].seen /\ op'[o].sent = op[o].sent
  BY Moving DEF SpawnShim, Inv
<1>4. /\ sup' \in [Lives -> Phases] /\ sup'[n] \in {"none", "spawned"}
      /\ \A m \in Lives : m # n => sup'[m] = sup[m]
  BY <1>2 DEF SpawnShim, Inv, TypeOK, Phases
<1>5. UNCHANGED <<directory, at, term, group, caller>>
  BY DEF SpawnShim
<1>6. \A m \in Lives : Dead(m)' <=> Dead(m)
  BY <1>2, <1>4 DEF Dead
<1>7. TypeOK'
  BY <1>3, <1>4, <1>5 DEF Inv, TypeOK
<1>8. Numbered'
  <2>1. \A p \in Ops : op'[p].dir <= made /\ op'[p].sent <= made
    BY <1>3 DEF Others, Inv, Numbered
  <2>2. \A m \in Lives : m > made => m # n
    BY <1>2 DEF Lives
  <2> QED
    BY <1>4, <1>5, <2>1, <2>2 DEF Inv, Numbered
<1>9. Orderly'
  BY <1>2, <1>3, <1>4, <1>5 DEF Others, Inv, Orderly, At
<1>10. Owned' /\ Ended'
  BY <1>2, <1>4, <1>5 DEF Inv, Owned, Ended, Unlocked
<1>11. Targets'
  <2>1. \A p \in Ops : op[p].pid # 0 => op[p].pid \in Lives /\ op[p].pid # n
    <3>1. \A p \in Ops : op[p].pid \in 0..MaxLives
      BY DEF Inv, TypeOK, OpState
    <3>2. \A p \in Ops : op[p].pid # 0 => op[p].pid # n
      BY <1>2 DEF Inv, Targets, Unlocked
    <3> QED
      BY <3>1, <3>2, TaskAssumption DEF Lives
  <2> QED
    BY <1>3, <1>4, <2>1 DEF Others, Inv, Targets
<1>12. Kept'
  BY <1>2, <1>4, <1>5 DEF Inv, Kept, Laid, Intact, Locking, Unlocked
<1>13. Kinded'
  <2>1. Fits(op'[o])
    BY <1>1, <1>2, <1>3 DEF Fits
  <2> QED
    BY <1>3, <1>5, <2>1 DEF Others, Inv, Kinded, Intact, At
<1>14. Aged'
  <2>1. \A p \in Ops : Grown(p) => op[p].dir \in Lives
    BY TaskAssumption DEF Inv, TypeOK, OpState, Kinded, Fits, Grown, Lives
  <2> QED
    BY <1>1, <1>3, <1>5, <1>6, <2>1 DEF Others, Inv, Aged, Grown, Starts, Intact, At
<1>15. Claims'
  <2>1. \A m \in Lives : Claimed(m)' => Claimed(m)
    BY <1>3 DEF Others, Claimed
  <2>2. \A m \in Lives : \A p \in Ops : Dooms(p, m) => Dooms(p, m)'
    BY <1>1, <1>3, <1>6 DEF Others, Dooms, At
  <2> QED
    BY <1>5, <1>6, <2>1, <2>2 DEF Inv, Claims, Intact
<1>16. Learnt' /\ Copied'
  BY <1>3, <1>5, <1>6 DEF Others, Inv, Learnt, Final, Copied, Recorded, Intact, At
<1> QED
  BY <1>7, <1>8, <1>9, <1>10, <1>11, <1>12, <1>13, <1>14, <1>15, <1>16 DEF Inv

LEMMA StrikeKeeps ==
    ASSUME Inv, NEW o \in Ops, Strike(o)
    PROVE  Inv'
<1> USE DEF group, caller
<1> DEFINE q == op[o].pid
<1>1. op[o] \in OpState /\ Fits(op[o]) /\ op[o].pc = "strike"
      /\ (op[o].kind = "gc" => op[o].seen # "young")
  BY DEF Strike, Collectable, Inv, TypeOK, Kinded, At
<1>2. /\ op' \in [Ops -> OpState] /\ Others(o) /\ op'[o].pc = "clear"
      /\ op'[o].kind = op[o].kind /\ op'[o].dir = op[o].dir /\ op'[o].pid = q
      /\ op'[o].seen = op[o].seen /\ op'[o].sent = op[o].sent
  BY Moving DEF Strike, Inv
<1>3. UNCHANGED <<named, made, files, pid, code, length, age, caller>>
  BY DEF Strike
<1>4. /\ Owned' /\ Kept' /\ Ended' /\ Copied' /\ \A m \in Lives : Dead(m) => Dead(m)'
      /\ sup' \in [Lives -> Phases] /\ term' \in [Lives -> BOOLEAN]
      /\ holder' \in [Lives -> 0..MaxLives] /\ at' \in [Lives -> 0..MaxLives]
      /\ pipe' \in [Lives -> BOOLEAN] /\ hand' \in [Lives -> BOOLEAN]
      /\ command' \in [Lives -> {"none", "running", "orphan", "done"}]
      /\ daemon' \in [Lives -> {"none", "piped", "closed"}]
      /\ \A m \in Lives : sup'[m] = IF m = q THEN "dead" ELSE sup[m]
  <2>1. CASE q = 0
    <3>1. UNCHANGED <<holder, supervisor, group>>
      BY <2>1 DEF Strike, KillsGroupOf, KillsNobody
    <3>2. \A m \in Lives : m # q
      BY <2>1 DEF Lives
    <3> QED
      BY <1>3, <3>1, <3>2 DEF supervisor, Inv, TypeOK, Owned, Kept, Laid, Ended, Copied,
         Recorded, Intact, Dead
  <2>2. CASE q # 0
    <3>1. q \in Lives /\ KillsGroup(q)
      BY <1>1, <2>2, TaskAssumption DEF Strike, KillsGroupOf, OpState, Lives
    <3>2. command' \in [Lives -> {"none", "running", "orphan", "done"}]
          /\ \A m \in Lives : command'[m] = "running" => command[m] = "running" /\ m # q
      BY <3>1 DEF KillsGroup, Inv, TypeOK
    <3>3. daemon' \in [Lives -> {"none", "piped", "closed"}]
      BY <3>1 DEF KillsGroup, Inv, TypeOK
    <3>4. Owned' /\ Kept' /\ Ended' /\ Copied' /\ \A m \in Lives : Dead(m) => Dead(m)'
      BY <1>3, <3>1, <3>2, DeathLeaves DEF KillsGroup
    <3> QED
      BY <3>1, <3>2, <3>3, <3>4, Dying DEF KillsGroup, Inv, TypeOK
  <2> QED
    BY <2>1, <2>2
<1>5. TypeOK'
  BY <1>2, <1>3, <1>4 DEF Inv, TypeOK
<1>6. \A m \in Lives : m = q => Dead(m)' /\ sup[m] \notin Unlocked
  BY <1>4 DEF Dead, Inv, Targets, Lives
<1>7. Numbered'
  <2>1. \A p \in Ops : op'[p].dir <= made /\ op'[p].sent <= made
    BY <1>2 DEF Others, Inv, Numbered
  <2> QED
    BY <1>3, <1>4, <1>6, <2>1 DEF Inv, Numbered, Unlocked
<1>8. Orderly'
  <2>1. made # 0 => made \in Lives
    BY TaskAssumption DEF Inv, TypeOK, Lives
  <2> QED
    BY <1>2, <1>3, <1>4, <1>6, <2>1 DEF Others, Inv, Orderly, Unlocked, At
<1>9. Targets'
  <2>1. \A p \in Ops : op[p].pid # 0 => op[p].pid \in Lives
    BY TaskAssumption DEF Inv, TypeOK, OpState, Lives
  <2> QED
    BY <1>2, <1>4, <2>1 DEF Others, Inv, Targets, Unlocked
<1>10. Kinded'
  <2>1. Fits(op'[o])
    BY <1>1, <1>2 DEF Fits
  <2> QED
    BY <1>2, <1>3, <2>1 DEF Others, Inv, Kinded, Intact, At
<1>11. Aged'
  <2>1. \A p \in Ops : Grown(p) => op[p].dir \in Lives
    BY TaskAssumption DEF Inv, TypeOK, OpState, Kinded, Fits, Grown, Lives
  <2>2. Grown(o)' => Grown(o)
    BY <1>1, <1>2 DEF Grown
  <2>3. Grown(o) /\ op[o].dir \in acked /\ Intact(op[o].dir) => q = op[o].dir \/ Dead(op[o].dir)
    BY <1>1 DEF Inv, Aged, At
  <2>4. \A p \in Ops : Starts(p)' => Starts(p) /\ op'[p].dir = op[p].dir
    BY <1>2 DEF Others, Starts
  <2> QED
    BY <1>2, <1>3, <1>4, <1>6, <2>1, <2>2, <2>3, <2>4 DEF Others, Inv, Aged, Grown, Intact, At
<1>12. Claims'
  <2>1. \A m \in Lives : Claimed(m)' => Claimed(m)
    BY <1>2 DEF Others, Claimed
  <2>2. \A m \in Lives : \A p \in Ops : Dooms(p, m) => Dooms(p, m)'
    BY <1>1, <1>2, <1>4, <1>6 DEF Others, Dooms, At
  <2> QED
    BY <1>3, <1>4, <2>1, <2>2 DEF Inv, Claims, Intact
<1>13. Learnt'
  BY <1>2, <1>3, <1>4 DEF Others, Inv, Learnt, Final, Intact, At
<1> QED
  BY <1>4, <1>5, <1>7, <1>8, <1>9, <1>10, <1>11, <1>12, <1>13 DEF Inv

LEMMA ClearKeeps ==
    ASSUME Inv, NEW o \in Ops, Clear(o)
    PROVE  Inv'
<1> USE DEF supervisor, group, caller
<1>1. CASE named = 0
  <2> USE DEF directory
  <2>1. /\ op' \in [Ops -> OpState] /\ Others(o) /\ op'[o] = Resting
        /\ Numbered' /\ Orderly' /\ Targets' /\ Kinded' /\ Aged' /\ Claims'
    BY <1>1, Rests DEF Clear, Shared
  <2>2. /\ TypeOK' /\ Owned' /\ Kept' /\ Ended' /\ Copied'
        /\ \A n \in Lives : \A c : Final(n, c)' <=> Final(n, c)
    BY <1>1, <2>1, Still DEF Clear
  <2>3. Learnt'
    BY <1>1, <2>1, <2>2 DEF Clear, Others, Resting, Inv, Learnt, Intact, Dead, At
  <2> QED
    BY <2>1, <2>2, <2>3 DEF Inv
<1>2. CASE named # 0
  <2> DEFINE s == [op[o] EXCEPT !.pc = "rmdir", !.dir = named]
  <2>1. /\ op[o] \in OpState /\ Fits(op[o]) /\ op[o].pc = "clear"
        /\ named \in Lives /\ named \in 0..MaxLives /\ named <= made
        /\ 0 \in 0..MaxLives /\ 0 \in 0..StreamCap /\ "unknown" \in Codes
    BY <1>2, Naming, TaskAssumption DEF Clear, Inv, TypeOK, Kinded, Numbered, At, Codes
  <2>2. /\ s \in OpState /\ s.pc = "rmdir" /\ s.dir = named /\ s.pid = op[o].pid
        /\ s.kind = op[o].kind /\ s.seen = op[o].seen /\ s.sent = op[o].sent
    BY <2>1 DEF OpState
  <2>3. op' \in [Ops -> OpState] /\ Others(o) /\ op'[o] = s
    BY <1>2, <2>2, Becoming DEF Clear, Inv
  <2>4. /\ op'[o].pc = "rmdir" /\ op'[o].dir = named /\ op'[o].pid = op[o].pid
        /\ op'[o].kind = op[o].kind /\ op'[o].seen = op[o].seen /\ op'[o].sent = op[o].sent
    BY <2>2, <2>3
  <2> HIDE DEF s
  <2>5. UNCHANGED <<named, made, age, sup, at, term, command, daemon, pipe, hand, acked, told,
                    got>>
    BY <1>2 DEF Clear
  <2>6. /\ files' \in [Lives -> SUBSET Files] /\ files'[named] = {}
        /\ \A m \in Lives : m # named => files'[m] = files[m]
    BY <1>2, <2>1 DEF Clear, Inv, TypeOK
  <2>7. /\ holder' \in [Lives -> 0..MaxLives] /\ pid' \in [Lives -> 0..MaxLives]
        /\ \A m \in Lives : IF m = named THEN holder'[m] = 0 /\ pid'[m] = 0
                                         ELSE holder'[m] = holder[m] /\ pid'[m] = pid[m]
    BY <1>2, <2>1 DEF Clear, Inv, TypeOK
  <2>8. /\ code' \in [Lives -> Codes] /\ length' \in [Lives -> 0..StreamCap]
        /\ \A m \in Lives : m # named => code'[m] = code[m] /\ length'[m] = length[m]
    BY <1>2, <2>1 DEF Clear, Inv, TypeOK
  <2>9. \A m \in Lives : /\ Dead(m)' <=> Dead(m)
                         /\ Intact(m)' <=> Intact(m) /\ m # named
    BY <2>5, <2>6 DEF Dead, Intact
  <2>10. TypeOK'
    BY <2>3, <2>5, <2>6, <2>7, <2>8 DEF Inv, TypeOK
  <2>11. Numbered' /\ Orderly' /\ Targets'
    <3>1. \A m \in Lives : m # named => files'[m] = {}
      BY <2>6 DEF Inv, Numbered
    <3>2. op[o].sent <= made /\ (op[o].pid # 0 => sup[op[o].pid] \notin Unlocked)
      BY DEF Inv, Numbered, Targets
    <3> QED
      BY <2>1, <2>3, <2>4, <2>5, <3>1, <3>2, Alone DEF Shared
  <2>12. Owned' /\ Kept' /\ Ended'
    BY <2>5, <2>6, <2>7, <2>9 DEF Inv, Owned, Kept, Laid, Ended
  <2>13. Kinded'
    <3>1. Fits(op'[o])
      BY <1>2, <2>1, <2>4 DEF Fits
    <3>2. \A p \in Ops : At(p, "rmdir") => op[p].dir \in Lives
      BY TaskAssumption DEF Inv, TypeOK, OpState, Kinded, Fits, At, Lives
    <3> QED
      BY <2>1, <2>3, <2>4, <2>9, <3>1, <3>2 DEF Others, Inv, Kinded, At
  <2>14. Aged'
    <3>1. \A p \in Ops : Grown(p) => op[p].dir \in Lives
      BY TaskAssumption DEF Inv, TypeOK, OpState, Kinded, Fits, Grown, Lives
    <3> QED
      BY <2>3, <2>4, <2>5, <2>9, <3>1 DEF Others, Inv, Aged, Grown, Starts, At
  <2>15. Claims'
    <3>1. \A m \in Lives : Claimed(m)' => Claimed(m)
      BY <2>3, <2>4 DEF Others, Claimed
    <3>2. \A m \in Lives : \A p \in Ops : p # o /\ Dooms(p, m) => Dooms(p, m)'
      BY <2>3, <2>9 DEF Others, Dooms, At
    <3>3. \A m \in Lives : m = named /\ Dooms(o, m) => Dooms(o, m)' /\ Dead(m)
      BY <2>1, <2>4, <2>9 DEF Dooms, At
    <3> QED
      BY <2>1, <2>5, <2>9, <3>1, <3>2, <3>3 DEF Inv, Claims
  <2>16. Learnt'
    <3>1. \A m \in Lives : \A c : m # named => (Final(m, c)' <=> Final(m, c))
      BY <2>6, <2>8, <2>9 DEF Final
    <3> QED
      BY <2>3, <2>4, <2>5, <2>9, <3>1 DEF Others, Inv, Learnt, At
  <2>17. Copied'
    BY <2>5, <2>6, <2>8, <2>9 DEF Inv, Copied, Recorded
  <2> QED
    BY <2>10, <2>11, <2>12, <2>13, <2>14, <2>15, <2>16, <2>17 DEF Inv
<1> QED
  BY <1>1, <1>2

LEMMA RmdirKeeps ==
    ASSUME Inv, NEW o \in Ops, Rmdir(o)
    PROVE  Inv'
<1> USE DEF supervisor, group, caller
<1>1. op' \in [Ops -> OpState] /\ Others(o) /\ op'[o] = Resting
  BY Ending DEF Rmdir, Inv
<1>2. /\ named' \in {0, named} /\ named' \in 0..MaxLives
      /\ named' = 0 => \A n \in Lives : files[n] = {}
  <2>1. named \in 0..MaxLives /\ 0 \in 0..MaxLives
    BY TaskAssumption DEF Inv, TypeOK
  <2>2. named = 0 => \A n \in Lives : files[n] = {}
    BY DEF Inv, Numbered, Lives
  <2>3. named' = 0 /\ named # 0 => files[named] = {}
    BY DEF Rmdir
  <2> QED
    BY <2>1, <2>2, <2>3 DEF Rmdir, Inv, Numbered
<1>3. /\ age' \in [Lives -> {"young", "settled", "expired"}]
      /\ \A n \in Lives : age'[n] \in {"young", age[n]}
  BY DEF Rmdir, Inv, TypeOK
<1>4. UNCHANGED <<made, files, holder, pid, code, length, supervisor, group, caller>>
  BY DEF Rmdir
<1>5. TypeOK'
  BY <1>1, <1>2, <1>3, <1>4 DEF Inv, TypeOK
<1>6. Numbered'
  <2>1. \A p \in Ops : op'[p].dir <= made /\ op'[p].sent <= made
    BY <1>1, Naming DEF Others, Resting, Inv, Numbered
  <2>2. \A n \in Lives : n # named' => files[n] = {}
    BY <1>2 DEF Inv, Numbered
  <2> QED
    BY <1>2, <1>3, <1>4, <2>1, <2>2 DEF Inv, Numbered
<1>7. Orderly' /\ Targets' /\ Owned' /\ Kept' /\ Ended' /\ Copied'
  BY <1>1, <1>4 DEF Others, Resting, Inv, Orderly, Targets, Owned, Kept, Laid, Ended, Copied,
     Recorded, Intact, At
<1>8. Kinded'
  BY <1>1, <1>4 DEF Others, Resting, Inv, Kinded, Fits, Intact, At
<1>9. Aged'
  BY <1>1, <1>3, <1>4 DEF Others, Resting, Inv, Aged, Grown, Starts, Dead, Intact, At
<1>10. Claims'
  <2>1. \A n \in Lives : Claimed(n)' => Claimed(n)
    BY <1>1 DEF Others, Resting, Claimed, Lives
  <2>2. \A n \in Lives : \A p \in Ops : Dooms(p, n) => Dooms(p, n)'
    BY <1>1, <1>4 DEF Others, Resting, Dooms, Dead, At
  <2>3. \A n \in Lives : named' = n => named = n
    BY <1>2 DEF Lives
  <2> QED
    BY <1>4, <2>1, <2>2, <2>3 DEF Inv, Claims, Dead, Intact
<1>11. Learnt'
  BY <1>1, <1>4 DEF Others, Resting, Inv, Learnt, Final, Intact, Dead, At
<1> QED
  BY <1>5, <1>6, <1>7, <1>8, <1>9, <1>10, <1>11 DEF Inv

LEMMA CrashKeeps ==
    ASSUME Inv, Crash
    PROVE  Inv'
<1> USE DEF directory, supervisor, group, caller
<1>1. Resting \in OpState
  BY TaskAssumption DEF Resting, OpState
<1>2. op' \in [Ops -> OpState] /\ \A o \in Ops : op'[o] = Resting
  BY <1>1 DEF Crash
<1>3. UNCHANGED <<directory, supervisor, group, caller>>
  BY DEF Crash
<1>4. /\ TypeOK' /\ Owned' /\ Kept' /\ Ended' /\ Copied'
      /\ \A n \in Lives : \A c : Final(n, c)' <=> Final(n, c)
  BY <1>2, <1>3, Still
<1>5. Numbered'
  BY <1>2, <1>3, Naming DEF Resting, Inv, Numbered
<1>6. Orderly' /\ Targets' /\ Kinded' /\ Aged'
  BY <1>2, <1>3 DEF Resting, Inv, Orderly, Targets, Kinded, Fits, Aged, Grown, Starts, At
<1>7. Claims' /\ Learnt'
  BY <1>2, <1>3, <1>4 DEF Resting, Inv, Claims, Claimed, Learnt, Intact, At, Lives
<1> QED
  BY <1>4, <1>5, <1>6, <1>7 DEF Inv

-----------------------------------------------------------------------------
LEMMA InvInit == Init => Inv
<1> SUFFICES ASSUME Init PROVE Inv
  OBVIOUS
<1>1. Resting \in OpState /\ 0 \in 0..MaxLives /\ 0 \in 0..StreamCap /\ "unknown" \in Codes
  BY TaskAssumption DEF Resting, OpState, Codes
<1>2. TypeOK
  BY <1>1 DEF Init, TypeOK, Phases
<1>3. Numbered /\ Orderly /\ Owned /\ Targets /\ Kept /\ Ended
  BY DEF Init, Resting, Numbered, Orderly, Owned, Targets, Kept, Laid, Ended, Intact, Locking,
     Unlocked, At
<1>4. Kinded /\ Aged /\ Claims /\ Learnt /\ Copied
  BY DEF Init, Resting, Kinded, Fits, Aged, Grown, Starts, Claims, Claimed, Learnt, Copied,
     Intact, At, Lives
<1> QED
  BY <1>2, <1>3, <1>4 DEF Inv

LEMMA InvStep == OrderlyStarts /\ Inv /\ [Next]_vars => Inv'
<1> SUFFICES ASSUME OrderlyStarts, Inv, [Next]_vars PROVE Inv'
  OBVIOUS
<1>1. ASSUME NEW o \in Ops, Operate(o) \/ Proceed(o)
      PROVE  Inv'
  BY <1>1, PrepareKeeps, ArrivesKeeps, SpawnShimKeeps, StartedKeeps, WaitsKeep, LivenessKeeps,
     PageKeeps, SignalKeeps, FindKeeps, StrikeKeeps, SpareKeeps, ClearKeeps, RmdirKeeps DEF
     Operate, Proceed
<1>2. ASSUME NEW n \in Lives, Supervise(n) \/ Copy(n) \/ Outside(n)
      PROVE  Inv'
  BY <1>2, OpenKeeps, HoldLockKeeps, WriteManifestKeeps, SpawnChildKeeps, StagesKeep,
     WriteExitKeeps, DeathsKeep, ReadKeeps, AppendKeeps, GroupKeeps, AgesKeeps DEF Supervise,
     Copy, Outside
<1>3. CASE UNCHANGED vars
  <2>1. UNCHANGED <<directory, supervisor, group, caller, op>> /\ op' \in [Ops -> OpState]
    BY <1>3 DEF vars, Inv, TypeOK
  <2>2. /\ TypeOK' /\ Owned' /\ Kept' /\ Ended' /\ Copied'
        /\ \A n \in Lives : \A c : Final(n, c)' <=> Final(n, c)
    BY <2>1, Still
  <2>3. Learnt'
    BY <2>1, <2>2 DEF directory, supervisor, caller, Inv, Learnt, Intact, Dead, At
  <2>4. Apart /\ \A n \in Lives : Onward(n)
    BY <2>1 DEF directory, supervisor, caller, Apart, Onward, Inv, Numbered, Intact
  <2> QED
    BY <2>2, <2>3, <2>4, Besides DEF Inv
<1> QED
  BY <1>1, <1>2, <1>3, CrashKeeps DEF Next

THEOREM Invariance == OrderlyStarts => (Spec => []Inv)
<1> SUFFICES ASSUME OrderlyStarts PROVE Spec => []Inv
  OBVIOUS
<1>1. Inv /\ [Next]_vars => Inv'
  BY InvStep
<1> QED
  BY <1>1, InvInit, PTL DEF Spec

\* The types hold, and what is known of directories, supervisors and operations.
THEOREM TypeCorrect == OrderlyStarts => (Spec => []TypeOK)
<1> SUFFICES ASSUME OrderlyStarts PROVE Spec => []TypeOK
  OBVIOUS
<1>1. Inv => TypeOK
  BY DEF Inv
<1>2. Spec => []Inv
  BY Invariance
<1> QED
  BY <1>1, <1>2, PTL

\* What a tail of a started task told of its end is its exit code for good: liveness
\* (background.rs) looks at the exit file, at the lock, and at the exit file again.
THEOREM EndsAreFinal == OrderlyStarts => (Spec => []TerminalIsFinal)
<1> SUFFICES ASSUME OrderlyStarts PROVE Spec => []TerminalIsFinal
  OBVIOUS
<1>1. Inv => TerminalIsFinal
  <2> SUFFICES ASSUME Inv, NEW n \in Lives, NEW c \in told[n], Intact(n)
               PROVE  IF "exit" \in files[n] THEN c = code[n]
                      ELSE c = "unknown" /\ \A m \in Lives : at[m] = n => ~Alive(m)
    BY DEF TerminalIsFinal
  <2>1. Final(n, c)
    BY DEF Inv, Learnt
  <2>2. \A m \in Lives : at[m] = n => m = n
    BY DEF Inv, Owned, Lives
  <2> QED
    BY <2>1, <2>2 DEF Final, Dead, Alive
<1>2. Spec => []Inv
  BY Invariance
<1> QED
  BY <1>1, <1>2, PTL

\* Whoever was told the end of a task has its output but for a chunk that a copy task had
\* in hand when the recording stopped.
THEOREM OutputIsComplete == OrderlyStarts => (Spec => []OutputComplete)
<1> SUFFICES ASSUME OrderlyStarts PROVE Spec => []OutputComplete
  OBVIOUS
<1>1. Inv => OutputComplete
  <2> SUFFICES ASSUME Inv, NEW n \in Lives, told[n] # {}, Intact(n)
               PROVE  Recorded(n) <= got[n] + 1
    BY DEF OutputComplete
  <2>1. Recorded(n) \in Nat /\ got[n] \in Nat
    BY TaskAssumption DEF Inv, TypeOK, Recorded
  <2> QED
    BY <2>1 DEF Inv, Copied
<1>2. Spec => []Inv
  BY Invariance
<1> QED
  BY <1>1, <1>2, PTL

\* A cleanup or a collection of a started task empties its directory when its supervisor is
\* dead and the command that one was in charge of is not running.
THEOREM RemovalIsSafe == OrderlyStarts => (Spec => []RemovalLeavesNoCommand)
<1> SUFFICES ASSUME OrderlyStarts PROVE Spec => []RemovalLeavesNoCommand
  OBVIOUS
<1>1. Inv => RemovalLeavesNoCommand
  <2> SUFFICES ASSUME Inv, NEW o \in Ops, NEW n \in Lives, At(o, "clear") \/ At(o, "rmdir"),
                      op[o].sent = n
               PROVE  ~Alive(n) /\ command[n] # "running"
    BY DEF RemovalLeavesNoCommand
  <2>1. Dead(n)
    <3>1. Claimed(n)
      BY DEF Claimed
    <3>2. CASE named = n
      BY <3>1, <3>2 DEF Inv, Claims, Dooms, At
    <3>3. CASE named # n
      BY <3>1, <3>3 DEF Inv, Claims, Numbered, Intact
    <3> QED
      BY <3>2, <3>3
  <2> QED
    BY <2>1 DEF Inv, Ended, Dead, Alive
<1>2. Spec => []Inv
  BY Invariance
<1> QED
  BY <1>1, <1>2, PTL
=============================================================================
