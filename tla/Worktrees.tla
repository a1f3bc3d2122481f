------------------------------ MODULE Worktrees ------------------------------
(***************************************************************************)
(* The git worktree of one conversation (worker/worktree.rs): the          *)
(* operations that ask for it (resolve, ensure), what they do in it, and   *)
(* the cleanups that remove it, one in the Worker (maintain) and one of    *)
(* the command line (worker worktrees prune). The repository, the folder   *)
(* and the record are shared by all of them; only ensure holds a lock, and *)
(* only against itself.                                                    *)
(***************************************************************************)
CONSTANTS
    Tasks,      \* operations of the conversation in the Worker
    Pruners,
    maintain    \* the pruner that is a part of the Worker

ASSUME WorktreeAssumption == maintain \in Pruners

VARIABLES
    folder,     \* "none", "half" (its checkout is not complete) or "whole"
    admin,      \* what git knows of it: "none", "adding" (and locked) or "there"
    branch,     \* its branch: "none", "contained" (pushed or merged) or "ahead"
    dirty,      \* it has uncommitted changes
    record,     \* <id>.json: "none", "young" or "old" (last_used)
    live,       \* Worktrees.live: the folder it knows is "current" or "stale"
    touched,    \* Worktrees.touched: less than TOUCH_EVERY ago
    mark,       \* mark_used on its thread
    task,
    pruner,
    raced,      \* history: a cleanup took the record of the folder that is there
    stray,      \* history: a record was there before the folder that is, or before it was whole
    unread,     \* history: ensure took a record that is there for missing
    crossed,    \* history: a cleanup at work was met by another
    late        \* history: cleanups whose git looked for changes before the last of them

repository == <<folder, admin, branch, dirty>>
cache == <<live, touched, mark>>
cleanups == <<pruner, crossed, late>>
history == <<raced, stray, unread>>
vars == <<repository, record, cache, task, cleanups, history>>

Idle == [at |-> "idle", handle |-> "none"]
Task == [at : {"idle", "waiting", "looking", "clearing", "ready", "adding", "made", "found", "using"},
         handle : {"none", "current", "stale"}]

Init ==
    /\ folder = "none" /\ admin = "none" /\ branch = "none" /\ dirty = FALSE /\ record = "none"
    /\ live = "none" /\ touched = FALSE /\ mark = "none"
    /\ task = [t \in Tasks |-> Idle] /\ pruner = [p \in Pruners |-> "idle"]
    /\ raced = FALSE /\ stray = FALSE /\ unread = FALSE /\ crossed = FALSE /\ late = {}

-----------------------------------------------------------------------------
At(t, place) == task[t].at = place
Goes(t, place) == task' = [task EXCEPT ![t].at = place]
Ends(t) == task' = [task EXCEPT ![t] = Idle]
Uses(t) == task' = [task EXCEPT ![t] = [at |-> "using", handle |-> "current"]]

\* The folder is gone: who holds it, holds a folder that nobody finds any more.
Staled(h) == IF h = "current" THEN "stale" ELSE h
FolderGone ==
    /\ folder' = "none" /\ dirty' = FALSE /\ live' = Staled(live) /\ raced' = FALSE
    /\ task' = [t \in Tasks |-> [task[t] EXCEPT !.handle = Staled(@)]]

Clean == folder = "whole" /\ ~dirty

-----------------------------------------------------------------------------
(* The operations of the conversation. *)

\* touch: mark_used is started, if it was not just now.
Touch == touched' = TRUE /\ mark' = IF touched THEN mark ELSE "begun"

\* cached: the folder that was opened is still the one of that path.
Cached(t) == live = "current" /\ Uses(t) /\ Touch /\ UNCHANGED live
NotCached(t, place) == live # "current" /\ live' = "none" /\ Goes(t, place) /\ UNCHANGED <<touched, mark>>

\* resolve.
Resolve(t) ==
    /\ At(t, "idle")
    /\ Cached(t) \/ NotCached(t, "waiting")
    /\ UNCHANGED <<repository, record, cleanups, history>>

\* The gate: one ensure at a time.
GateFree == \A t \in Tasks : task[t].at \in {"idle", "waiting", "using"}
PassGate(t) ==
    /\ At(t, "waiting") /\ GateFree
    /\ Cached(t) \/ NotCached(t, "looking")
    /\ UNCHANGED <<repository, record, cleanups, history>>

\* Mutant: any folder that is a checkout is taken for complete.
LookUnrecorded(t) ==
    /\ At(t, "looking")
    /\ \/ folder = "none" /\ Goes(t, "ready")
       \/ folder # "none" /\ Goes(t, "found")
    /\ UNCHANGED <<repository, record, cache, cleanups, history>>

\* ensure: a record says that the folder was made to the end. has_record takes one
\* that it cannot look for as missing.
Look(t) ==
    /\ At(t, "looking")
    /\ \/ folder = "none" /\ Goes(t, "ready") /\ UNCHANGED unread
       \/ folder # "none" /\ record # "none" /\ Goes(t, "found") /\ UNCHANGED unread
       \/ folder # "none" /\ Goes(t, "clearing") /\ unread' = (unread \/ record # "none")
    /\ UNCHANGED <<repository, record, cache, cleanups, raced, stray>>

\* The folder is no repository, a branch is missing, or a command or a file fails.
Fails(t) ==
    /\ task[t].at \in {"looking", "clearing", "ready", "made"} /\ Ends(t)
    /\ UNCHANGED <<repository, record, cache, cleanups, history>>

\* discard: with --force, whatever is in it.
Discard(t) ==
    /\ At(t, "clearing")
    /\ folder' = "none" /\ admin' = "none" /\ dirty' = FALSE /\ live' = Staled(live)
    /\ raced' = FALSE /\ stray' = (record # "none")
    /\ task' = [u \in Tasks |->
                  [task[u] EXCEPT !.handle = Staled(@), !.at = IF u = t THEN "ready" ELSE @]]
    /\ UNCHANGED <<branch, record, touched, mark, cleanups, unread>>

\* git worktree prune, then git worktree add, which makes the branch and checks it out.
Add(t) ==
    /\ At(t, "ready") /\ Goes(t, "adding")
    /\ folder' = "half" /\ admin' = "adding"
    /\ branch' = IF branch = "none" THEN "contained" ELSE branch
    /\ UNCHANGED <<dirty, record, cache, cleanups, history>>
Added(t) ==
    /\ At(t, "adding") /\ Goes(t, "made")
    /\ folder' = "whole" /\ admin' = "there"
    /\ UNCHANGED <<branch, dirty, record, cache, cleanups, history>>
\* It fails or is killed after 90 s; the folder is discarded, if that goes well.
AddFails(t) ==
    /\ At(t, "adding") /\ Ends(t)
    /\ \/ folder' = "none" /\ admin' = "none" /\ raced' = FALSE
       \/ UNCHANGED <<folder, admin, raced>>
    /\ UNCHANGED <<branch, dirty, record, cache, cleanups, stray, unread>>

WriteRecord(t) ==
    /\ At(t, "made") /\ Goes(t, "found")
    /\ record' = "young" /\ raced' = FALSE /\ stray' = (folder # "whole")
    /\ UNCHANGED <<repository, cache, cleanups, unread>>

\* rooted_at: the folder is opened, and known from now on.
Root(t) ==
    /\ At(t, "found")
    /\ \/ folder # "none" /\ Uses(t) /\ live' = "current" /\ Touch
       \/ folder = "none" /\ Ends(t) /\ UNCHANGED cache
    /\ UNCHANGED <<repository, record, cleanups, history>>

\* External: what an operation does in the folder it holds.
Edit(t) ==
    /\ At(t, "using") /\ task[t].handle = "current" /\ dirty' = TRUE
    /\ late' = late \cup {p \in Pruners : pruner[p] = "removing"}
    /\ UNCHANGED <<folder, admin, branch, record, cache, task, pruner, crossed, history>>
Commit(t) ==
    /\ At(t, "using") /\ task[t].handle = "current" /\ dirty
    /\ dirty' = FALSE /\ branch' = "ahead"
    /\ UNCHANGED <<folder, admin, record, cache, task, cleanups, history>>
Done(t) ==
    /\ At(t, "using") /\ Ends(t)
    /\ UNCHANGED <<repository, record, cache, cleanups, history>>

\* mark_used, which reads the record and replaces it.
MarkRead ==
    /\ mark = "begun" /\ mark' = IF record = "none" THEN "none" ELSE "read"
    /\ UNCHANGED <<repository, record, live, touched, task, cleanups, history>>
MarkWrite ==
    /\ mark = "read" /\ mark' = "none"
    /\ record' = "young" /\ stray' = (stray \/ folder # "whole")
    /\ UNCHANGED <<repository, live, touched, task, cleanups, raced, unread>>

-----------------------------------------------------------------------------
(* The cleanups. *)

Meets(p) == \E q \in Pruners \ {p} : pruner[q] # "idle"
Moves(p, place) ==
    /\ pruner' = [pruner EXCEPT ![p] = place]
    /\ crossed' = (Meets(p) \/ (crossed /\ place # "idle"))
    /\ late' = late \ {p}

\* prune: the records are read once.
PruneBegins(p) ==
    /\ pruner[p] = "idle" /\ record = "old" /\ Moves(p, "listed")
    /\ UNCHANGED <<repository, record, cache, task, history>>

\* Mutant: a folder that is missing is left to somebody else.
JudgeMissing(p) ==
    /\ pruner[p] = "listed"
    /\ \/ folder = "none" /\ Moves(p, "idle")
       \/ Clean /\ Moves(p, "clean")
    /\ UNCHANGED <<repository, record, cache, task, history>>

\* prune_one: a folder with changes stays, one that is missing is forgotten.
Judge(p) ==
    /\ pruner[p] = "listed"
    /\ \/ folder = "none" /\ Moves(p, "gone") /\ admin' = "none"
       \/ Clean /\ Moves(p, "clean") /\ UNCHANGED admin
    /\ UNCHANGED <<folder, branch, dirty, record, cache, task, history>>
\* It has changes, or git does not say, or git refuses.
Keep(p) ==
    /\ pruner[p] \in {"listed", "clean"} /\ Moves(p, "idle")
    /\ UNCHANGED <<repository, record, cache, task, history>>

\* Mutant: git is told not to look for changes.
CheckForced(p) ==
    /\ pruner[p] = "clean" /\ folder # "none" /\ admin = "there" /\ Moves(p, "removing")
    /\ UNCHANGED <<repository, record, cache, task, history>>

\* git worktree remove first looks for changes itself.
Check(p) ==
    /\ pruner[p] = "clean" /\ Clean /\ admin = "there" /\ Moves(p, "removing")
    /\ UNCHANGED <<repository, record, cache, task, history>>

\* Then it removes the folder, whatever is in it by then.
Removable == folder # "none" /\ admin = "there"
Remove(p) ==
    /\ pruner[p] = "removing" /\ Removable /\ Moves(p, "gone")
    /\ FolderGone /\ admin' = "none" /\ stray' = (record # "none")
    /\ UNCHANGED <<branch, record, touched, mark, unread>>

\* It is killed on the way, by its time limit or with its caller.
RemoveCut == Removable /\ folder' = "half" /\ stray' = (record # "none") /\ UNCHANGED admin
RemoveFails(p) ==
    /\ pruner[p] = "removing" /\ Moves(p, "idle")
    /\ RemoveCut \/ UNCHANGED <<folder, admin, stray>>
    /\ UNCHANGED <<branch, dirty, record, cache, task, raced, unread>>

\* Mutant: the branch goes with its worktree.
DecideAlways(p) ==
    /\ pruner[p] = "gone" /\ Moves(p, "contained")
    /\ UNCHANGED <<repository, record, cache, task, history>>

\* contains_branch.
Decide(p) ==
    /\ pruner[p] = "gone" /\ Moves(p, IF branch = "contained" THEN "contained" ELSE "dropping")
    /\ UNCHANGED <<repository, record, cache, task, history>>
\* git branch -D, which refuses a branch that is checked out.
DeleteBranch(p) ==
    /\ pruner[p] = "contained" /\ Moves(p, "dropping")
    /\ branch' = IF admin = "none" THEN "none" ELSE branch
    /\ UNCHANGED <<folder, admin, dirty, record, cache, task, history>>
Drop(p) ==
    /\ pruner[p] = "dropping" /\ Moves(p, "idle")
    /\ record' = "none" /\ raced' = (folder # "none") /\ stray' = (stray /\ folder # "none")
    /\ UNCHANGED <<repository, cache, task, unread>>

-----------------------------------------------------------------------------
\* A git command that is killed half way.
AddCut ==
    \/ folder' = "none" /\ admin' = "none"
    \/ UNCHANGED <<folder, admin>>
    \/ folder' = "whole" /\ admin' = "there"

\* The Worker dies or is stopped, and starts again.
Crash ==
    /\ \/ \E t \in Tasks : At(t, "adding") /\ AddCut /\ UNCHANGED stray
       \/ pruner[maintain] = "removing" /\ RemoveCut
       \/ UNCHANGED <<folder, admin, stray>>
    /\ raced' = (raced /\ folder' # "none")
    /\ task' = [t \in Tasks |-> Idle] /\ live' = "none" /\ touched' = FALSE /\ mark' = "none"
    /\ IF pruner[maintain] = "idle" THEN UNCHANGED cleanups ELSE Moves(maintain, "idle")
    /\ UNCHANGED <<branch, dirty, record, unread>>
\* The command is interrupted.
Interrupt(p) ==
    /\ p # maintain /\ pruner[p] # "idle" /\ Moves(p, "idle")
    /\ \/ pruner[p] = "removing" /\ RemoveCut
       \/ UNCHANGED <<folder, admin, stray>>
    /\ UNCHANGED <<branch, dirty, record, cache, task, raced, unread>>

Quiet ==
    /\ \A t \in Tasks : At(t, "idle")
    /\ \A p \in Pruners : pruner[p] = "idle"
    /\ mark = "none"

\* 14 days go by. No operation and no cleanup takes that long.
Age ==
    /\ Quiet /\ record = "young"
    /\ record' = "old" /\ touched' = FALSE
    /\ UNCHANGED <<repository, live, mark, task, cleanups, history>>
\* External: the branch is pushed or merged.
Merge ==
    /\ branch = "ahead" /\ branch' = "contained"
    /\ UNCHANGED <<folder, admin, dirty, record, cache, task, cleanups, history>>
\* External: the user removes the folder by hand, while nothing works on it.
RemovedByHand ==
    /\ Quiet /\ folder = "whole"
    /\ FolderGone /\ stray' = (record # "none")
    /\ UNCHANGED <<admin, branch, record, touched, mark, cleanups, unread>>

Next ==
    \/ \E t \in Tasks :
         \/ Resolve(t) \/ PassGate(t) \/ Look(t) \/ Fails(t) \/ Discard(t)
         \/ Add(t) \/ Added(t) \/ AddFails(t) \/ WriteRecord(t) \/ Root(t)
         \/ Edit(t) \/ Commit(t) \/ Done(t)
    \/ \E p \in Pruners :
         \/ PruneBegins(p) \/ Judge(p) \/ Keep(p) \/ Check(p) \/ Remove(p)
         \/ RemoveFails(p) \/ Decide(p) \/ DeleteBranch(p) \/ Drop(p) \/ Interrupt(p)
    \/ MarkRead \/ MarkWrite \/ Crash \/ Age \/ Merge \/ RemovedByHand

Spec == Init /\ [][Next]_vars

\* Days go by, maintain comes round, which a session calls as it starts and every few
\* heartbeats, and git does not fail each time.
Fairness ==
    /\ WF_vars(MarkRead) /\ WF_vars(MarkWrite) /\ SF_vars(Age)
    /\ SF_vars(PruneBegins(maintain)) /\ SF_vars(Judge(maintain))
    /\ SF_vars(Check(maintain)) /\ SF_vars(Remove(maintain))
    /\ \A p \in Pruners :
         /\ WF_vars(Keep(p)) /\ WF_vars(RemoveFails(p)) /\ WF_vars(Decide(p)) /\ WF_vars(DeleteBranch(p)) /\ WF_vars(Drop(p))

FairSpec == Spec /\ Fairness

-----------------------------------------------------------------------------
\* The types, that one operation at a time is past the gate, and that a folder which
\* somebody holds is there unless he was overtaken.
TypeOK ==
    /\ folder \in {"none", "half", "whole"} /\ admin \in {"none", "adding", "there"}
    /\ branch \in {"none", "contained", "ahead"} /\ dirty \in BOOLEAN
    /\ record \in {"none", "young", "old"}
    /\ live \in {"none", "current", "stale"} /\ touched \in BOOLEAN
    /\ mark \in {"none", "begun", "read"}
    /\ task \in [Tasks -> Task]
    /\ pruner \in [Pruners -> {"idle", "listed", "clean", "removing", "gone", "contained", "dropping"}]
    /\ raced \in BOOLEAN /\ stray \in BOOLEAN /\ unread \in BOOLEAN
    /\ crossed \in BOOLEAN /\ late \subseteq Pruners
    /\ live = "current" \/ (\E t \in Tasks : task[t].handle = "current") => folder # "none"
    /\ dirty => folder # "none"

\* A commit that is neither pushed nor merged is lost in one way only: another cleanup came
\* between the judgement of one and its git branch -D (prune_one, contains_branch).
\* Whatever the operations do in between, and one cleanup alone, lose none, as long as
\* the records can be read.
CommitsKept == [][branch = "ahead" /\ branch' = "none" => crossed \/ unread]_vars

\* Uncommitted changes are lost in two ways only: ensure discards a folder whose record
\* a cleanup took while an operation made it again, or cannot be read; and git removes a
\* folder that was changed after git itself had looked. See the open points.
LostOnlyToARace ==
    [][dirty /\ folder' # folder =>
         \/ raced \/ unread \/ RemovedByHand
         \/ \E p \in late : pruner[p] = "removing" /\ pruner'[p] # "removing"]_vars

\* A folder whose git worktree add was cut short is handed out only if a record was there
\* before it; without one it is made again (ensure).
HalfOnlyIfStray ==
    \A t \in Tasks : task[t].handle = "current" /\ admin = "adding" => stray

\* A worktree that is idle and clean is removed in the end, and one that is missing is
\* forgotten: no record stays, if the Worker stays up (prune).
Abandoned == (\A t \in Tasks : At(t, "idle")) /\ ~dirty /\ folder # "half"
StaysUp == <>[][~Crash]_vars
IdleIsForgotten == StaysUp /\ <>[]Abandoned => <>[](record = "none")
=============================================================================
