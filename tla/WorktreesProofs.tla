--------------------------- MODULE WorktreesProofs ---------------------------
(***************************************************************************)
(* Proofs about the worktree of a conversation: for any operations and any *)
(* cleanups, what hands out a half-built folder, what loses changes and    *)
(* what loses commits.                                                     *)
(***************************************************************************)
EXTENDS Worktrees, TLAPS

Places == {"idle", "waiting", "looking", "clearing", "ready", "adding", "made", "found", "using"}
Works == {"idle", "listed", "clean", "removing", "gone", "contained", "dropping"}

\* Past the gate of ensure.
Past(t) == task[t].at \notin {"idle", "waiting", "using"}
OneAtATime == \A t, u \in Tasks : Past(t) /\ Past(u) => t = u

\* Who holds the folder holds the one that the Worker knows, and who is past the gate
\* has seen that it knows none.
Known ==
    /\ \A t \in Tasks : Past(t) => live = "none"
    /\ \A t \in Tasks : task[t].handle = "current" => live = "current"

\* The stages of ensure, and what git knows.
Making ==
    /\ admin = "adding" => folder = "half"
    /\ folder # "none" => admin # "none"
    /\ \A t \in Tasks :
         /\ At(t, "ready") => folder = "none"
         /\ At(t, "adding") => folder = "half" /\ admin = "adding" /\ ~dirty
         /\ At(t, "made") => admin # "adding" /\ ~dirty

\* A record beside a half-built folder, or beside none, is one that was there before.
Strays ==
    /\ admin = "adding" /\ record # "none" => stray
    /\ folder = "none" /\ record # "none" => stray
    /\ admin = "adding" /\ live = "current" => stray
    /\ \A t \in Tasks : At(t, "found") /\ admin = "adding" => stray

\* A folder that is handed out has a record, unless a cleanup took it.
Kept ==
    /\ dirty \/ live = "current" => record # "none" \/ raced
    /\ \A t \in Tasks :
         /\ At(t, "found") /\ folder # "none" => record # "none" \/ raced
         /\ At(t, "clearing") => unread \/ (record # "old" /\ (dirty => raced))

\* A cleanup that met no other finds the record that it read, and what has commits
\* since it judged the branch is checked out.
Alone ==
    ~crossed /\ ~unread =>
        /\ \A p, q \in Pruners : pruner[p] # "idle" /\ pruner[q] # "idle" => p = q
        /\ \A p \in Pruners : pruner[p] # "idle" =>
             record # "none" /\ \A t \in Tasks : ~At(t, "clearing")
        /\ \A p \in Pruners : pruner[p] = "contained" /\ branch = "ahead" =>
             folder # "none" /\ \A t \in Tasks : ~At(t, "adding")

Inv == TypeOK /\ OneAtATime /\ Known /\ Making /\ Strays /\ Kept /\ Alone

\* What git has found clean stays so, unless somebody changed it since.
Looked == \A p \in Pruners : pruner[p] = "removing" /\ p \notin late => ~dirty

-----------------------------------------------------------------------------
(* What the pieces of the actions do to the tasks and to the cleanups. *)

\* Task t goes to a place with folder h in its hand, and nobody else moves.
Puts(t, place, h) ==
    /\ task' \in [Tasks -> Task]
    /\ task'[t].at = place /\ task'[t].handle = h
    /\ \A u \in Tasks : u # t => task'[u] = task[u]

LEMMA Going ==
    ASSUME TypeOK, NEW t \in Tasks, NEW place \in Places, Goes(t, place)
    PROVE  Puts(t, place, task[t].handle)
<1>1. [task[t] EXCEPT !.at = place] \in Task
  BY DEF TypeOK, Task, Places
<1> QED
  BY <1>1 DEF Goes, Puts, TypeOK, Task

LEMMA Ending ==
    ASSUME TypeOK, NEW t \in Tasks, Ends(t)
    PROVE  Puts(t, "idle", "none")
BY DEF Ends, Idle, Puts, TypeOK, Task

LEMMA Using ==
    ASSUME TypeOK, NEW t \in Tasks, Uses(t)
    PROVE  Puts(t, "using", "current")
BY DEF Uses, Puts, TypeOK, Task

\* A folder that goes is nobody's any more.
LEMMA Staling ==
    ASSUME NEW h \in {"none", "current", "stale"}
    PROVE  Staled(h) \in {"none", "stale"} /\ (h = "none" => Staled(h) = "none")
BY DEF Staled

LEMMA Vanishing ==
    ASSUME TypeOK, FolderGone
    PROVE  /\ task' \in [Tasks -> Task] /\ live' \in {"none", "stale"}
           /\ live = "none" => live' = "none"
           /\ \A u \in Tasks : task'[u].at = task[u].at /\ task'[u].handle # "current"
<1>1. \A u \in Tasks : /\ task[u] \in Task
                       /\ Staled(task[u].handle) \in {"none", "stale"}
  BY Staling DEF TypeOK, Task
<1>2. \A u \in Tasks : [task[u] EXCEPT !.handle = Staled(@)] \in Task
  BY <1>1 DEF Task
<1>3. task' = [u \in Tasks |-> [task[u] EXCEPT !.handle = Staled(@)]] /\ live' = Staled(live)
  BY DEF FolderGone
<1> QED
  BY <1>1, <1>2, <1>3, Staling DEF TypeOK, Task

\* Cleanup p moves and no other does; if it is not crossed, it is alone.
Advances(p) ==
    /\ pruner' \in [Pruners -> Works] /\ crossed' \in BOOLEAN /\ late' = late \ {p}
    /\ \A q \in Pruners : q # p => pruner'[q] = pruner[q]
    /\ ~crossed' => /\ \A q \in Pruners : q # p => pruner[q] = "idle"
                    /\ pruner'[p] # "idle" => ~crossed

LEMMA Moving ==
    ASSUME TypeOK, NEW p \in Pruners, NEW place \in Works, Moves(p, place)
    PROVE  Advances(p) /\ pruner'[p] = place
BY DEF Moves, Meets, Advances, TypeOK, Works

LEMMA Touching ==
    ASSUME TypeOK, Touch
    PROVE  touched' \in BOOLEAN /\ mark' \in {"none", "begun", "read"}
BY DEF Touch, TypeOK

-----------------------------------------------------------------------------
(* Each action keeps the invariant. *)

LEMMA ResolveKeeps ==
    ASSUME Inv, NEW t \in Tasks, Resolve(t)
    PROVE  Inv'
<1>1. \/ live = "current" /\ Puts(t, "using", "current") /\ Touch /\ UNCHANGED live
      \/ live # "current" /\ live' = "none" /\ Puts(t, "waiting", task[t].handle)
         /\ UNCHANGED <<touched, mark>>
  BY Going, Using DEF Resolve, Cached, NotCached, Inv, Places
<1>2. touched' \in BOOLEAN /\ mark' \in {"none", "begun", "read"}
  BY Touching DEF Resolve, Cached, NotCached, Inv, TypeOK
<1>3. TypeOK'
  BY <1>1, <1>2 DEF Resolve, repository, cleanups, history, Puts, Inv, TypeOK
<1>4. OneAtATime' /\ Known'
  BY <1>1, <1>2 DEF Resolve, repository, cleanups, history, Puts, Inv, OneAtATime, Known, Past
<1>5. Making' /\ Strays'
  BY <1>1, <1>2 DEF Resolve, repository, cleanups, history, Puts, Inv, Making, Strays, At
<1>6. Kept' /\ Alone'
  BY <1>1, <1>2 DEF Resolve, repository, cleanups, history, Puts, Inv, Kept, Alone, At
<1> QED
  BY <1>3, <1>4, <1>5, <1>6 DEF Inv

LEMMA PassGateKeeps ==
    ASSUME Inv, NEW t \in Tasks, PassGate(t)
    PROVE  Inv'
<1>1. \/ live = "current" /\ Puts(t, "using", "current") /\ Touch /\ UNCHANGED live
      \/ live # "current" /\ live' = "none" /\ Puts(t, "looking", task[t].handle)
         /\ UNCHANGED <<touched, mark>>
  BY Going, Using DEF PassGate, Cached, NotCached, Inv, Places
<1>2. touched' \in BOOLEAN /\ mark' \in {"none", "begun", "read"}
  BY Touching DEF PassGate, Cached, NotCached, Inv, TypeOK
<1>3. TypeOK'
  BY <1>1, <1>2 DEF PassGate, GateFree, repository, cleanups, history, Puts, Inv, TypeOK
<1>4. OneAtATime' /\ Known'
  BY <1>1, <1>2 DEF PassGate, GateFree, repository, cleanups, history, Puts, Inv, OneAtATime,
     Known, Past
<1>5. Making' /\ Strays'
  BY <1>1, <1>2 DEF PassGate, GateFree, repository, cleanups, history, Puts, Inv, Making,
     Strays, At
<1>6. Kept' /\ Alone'
  BY <1>1, <1>2 DEF PassGate, GateFree, repository, cleanups, history, Puts, Inv, Kept, Alone,
     At
<1> QED
  BY <1>3, <1>4, <1>5, <1>6 DEF Inv

LEMMA LookKeeps ==
    ASSUME Inv, NEW t \in Tasks, Look(t)
    PROVE  Inv'
<1>1. \/ folder = "none" /\ Puts(t, "ready", task[t].handle) /\ UNCHANGED unread
      \/ folder # "none" /\ record # "none" /\ Puts(t, "found", task[t].handle) /\ UNCHANGED unread
      \/ folder # "none" /\ Puts(t, "clearing", task[t].handle)
         /\ unread' = (unread \/ record # "none")
  BY Going DEF Look, Inv, Places
<1>2. At(t, "looking") /\ UNCHANGED <<repository, record, cache, cleanups, raced, stray>>
  BY DEF Look
<1>3. unread' \in BOOLEAN /\ (unread => unread') /\ task' \in [Tasks -> Task]
  BY <1>1 DEF Puts, Inv, TypeOK
<1>4. \A u \in Tasks : task'[u].handle = task[u].handle
  BY <1>1 DEF Puts
<1>5. TypeOK'
  BY <1>2, <1>3, <1>4 DEF repository, cache, cleanups, Inv, TypeOK
<1>6. OneAtATime' /\ Known'
  BY <1>1, <1>2 DEF repository, cache, cleanups, Puts, Inv, TypeOK, OneAtATime, Known, Past, At
<1>7. Making' /\ Strays'
  BY <1>1, <1>2 DEF repository, cache, cleanups, Puts, Inv, Making, Strays, At
<1>8. \A u \in Tasks :
        /\ task'[u].at = "clearing" => task[u].at = "clearing" \/ record = "none" \/ unread'
        /\ task'[u].at = "found" => task[u].at = "found" \/ record # "none"
        /\ task'[u].at = "adding" => task[u].at = "adding"
  BY <1>1 DEF Puts
<1>9. /\ UNCHANGED <<folder, branch, dirty, record, live, pruner, raced>>
      /\ ~crossed' => ~crossed
  BY <1>2 DEF repository, cache, cleanups
<1>10. Kept'
  BY <1>3, <1>8, <1>9 DEF Inv, Kept, At
<1>11. Alone'
  BY <1>3, <1>8, <1>9 DEF Inv, Kept, Alone, At
<1> QED
  BY <1>5, <1>6, <1>7, <1>10, <1>11 DEF Inv

LEMMA FailsKeeps ==
    ASSUME Inv, NEW t \in Tasks, Fails(t)
    PROVE  Inv'
<1>1. Puts(t, "idle", "none")
  BY Ending DEF Fails, Inv
<1>2. TypeOK'
  BY <1>1 DEF Fails, repository, cache, cleanups, history, Puts, Inv, TypeOK
<1>3. OneAtATime' /\ Known'
  BY <1>1 DEF Fails, repository, cache, cleanups, history, Puts, Inv, OneAtATime, Known, Past
<1>4. Making' /\ Strays'
  BY <1>1 DEF Fails, repository, cache, cleanups, history, Puts, Inv, Making, Strays, At
<1>5. Kept' /\ Alone'
  BY <1>1 DEF Fails, repository, cache, cleanups, history, Puts, Inv, Kept, Alone, At
<1> QED
  BY <1>2, <1>3, <1>4, <1>5 DEF Inv

LEMMA DiscardKeeps ==
    ASSUME Inv, NEW t \in Tasks, Discard(t)
    PROVE  Inv'
<1>1. /\ task' \in [Tasks -> Task] /\ live' \in {"none", "stale"}
      /\ live = "none" => live' = "none"
      /\ \A u \in Tasks : /\ task'[u].handle # "current"
                         /\ task'[u].at = IF u = t THEN "ready" ELSE task[u].at
  BY ZenonT(60), Staling DEF Discard, Inv, TypeOK, Task
<1>2. TypeOK'
  BY <1>1 DEF Discard, cleanups, Inv, TypeOK
<1>3. OneAtATime' /\ Known' /\ Making' /\ Strays'
  <2>1. /\ task[t].at = "clearing" /\ folder' = "none" /\ admin' = "none" /\ ~dirty'
        /\ stray' = (record # "none") /\ UNCHANGED record
    BY DEF Discard, At
  <2> QED
    BY <1>1, <2>1 DEF Inv, TypeOK, OneAtATime, Known, Making, Strays, Kept, Alone, Past, At
<1>5. Kept' /\ Alone'
  BY <1>1 DEF Discard, cleanups, Inv, Kept, Alone, At
<1> QED
  BY <1>2, <1>3, <1>5 DEF Inv

LEMMA AddKeeps ==
    ASSUME Inv, NEW t \in Tasks, Add(t)
    PROVE  Inv'
<1>1. Puts(t, "adding", task[t].handle)
  BY Going DEF Add, Inv, Places
<1>2. TypeOK'
  BY <1>1 DEF Add, cache, cleanups, history, Puts, Inv, TypeOK
<1>3. OneAtATime' /\ Known'
  BY <1>1 DEF Add, cache, cleanups, history, Puts, Inv, TypeOK, OneAtATime, Known, Making,
     Strays, Past, At
<1>4. Making' /\ Strays'
  BY <1>1 DEF Add, cache, cleanups, history, Puts, Inv, TypeOK, OneAtATime, Known, Making,
     Strays, Past, At
<1>5. Kept' /\ Alone'
  BY <1>1 DEF Add, cache, cleanups, history, Puts, Inv, TypeOK, OneAtATime, Known, Making,
     Strays, Kept, Alone, Past, At
<1> QED
  BY <1>2, <1>3, <1>4, <1>5 DEF Inv

LEMMA AddedKeeps ==
    ASSUME Inv, NEW t \in Tasks, Added(t)
    PROVE  Inv'
<1>1. Puts(t, "made", task[t].handle)
  BY Going DEF Added, Inv, Places
<1>2. TypeOK'
  BY <1>1 DEF Added, cache, cleanups, history, Puts, Inv, TypeOK
<1>3. OneAtATime' /\ Known'
  BY <1>1 DEF Added, cache, cleanups, history, Puts, Inv, TypeOK, OneAtATime, Known, Making,
     Strays, Past, At
<1>4. Making' /\ Strays'
  BY <1>1 DEF Added, cache, cleanups, history, Puts, Inv, TypeOK, OneAtATime, Known, Making,
     Strays, Past, At
<1>5. Kept' /\ Alone'
  BY <1>1 DEF Added, cache, cleanups, history, Puts, Inv, TypeOK, OneAtATime, Known, Kept,
     Alone, Past, At
<1> QED
  BY <1>2, <1>3, <1>4, <1>5 DEF Inv

LEMMA AddFailsKeeps ==
    ASSUME Inv, NEW t \in Tasks, AddFails(t)
    PROVE  Inv'
<1>1. Puts(t, "idle", "none")
  BY Ending DEF AddFails, Inv
<1>2. TypeOK'
  BY ZenonT(60), <1>1 DEF AddFails, cache, cleanups, Puts, Inv, TypeOK, OneAtATime, Known, Making, Past, At
<1>3. OneAtATime' /\ Known'
  BY <1>1 DEF AddFails, cache, cleanups, Puts, Inv, OneAtATime, Known, Past
<1>4. Making' /\ Strays'
  BY <1>1 DEF AddFails, cache, cleanups, Puts, Inv, TypeOK, OneAtATime, Known, Making, Strays,
     Past, At
<1>5. Kept' /\ Alone'
  BY <1>1 DEF AddFails, cache, cleanups, Puts, Inv, TypeOK, OneAtATime, Known, Making, Strays,
     Kept, Alone, Past, At
<1> QED
  BY <1>2, <1>3, <1>4, <1>5 DEF Inv

LEMMA WriteRecordKeeps ==
    ASSUME Inv, NEW t \in Tasks, WriteRecord(t)
    PROVE  Inv'
<1>1. Puts(t, "found", task[t].handle)
  BY Going DEF WriteRecord, Inv, Places
<1>2. TypeOK'
  BY ZenonT(60), <1>1 DEF WriteRecord, repository, cache, cleanups, Puts, Inv, TypeOK
<1>3. OneAtATime' /\ Known'
  BY <1>1 DEF WriteRecord, repository, cache, cleanups, Puts, Inv, TypeOK, OneAtATime, Known,
     Making, Strays, Past, At
<1>4. Making' /\ Strays'
  BY <1>1 DEF WriteRecord, repository, cache, cleanups, Puts, Inv, Making, Strays, At
<1>5. Kept' /\ Alone'
  BY <1>1 DEF WriteRecord, repository, cache, cleanups, Puts, Inv, TypeOK, OneAtATime, Known,
     Kept, Alone, Past, At
<1> QED
  BY <1>2, <1>3, <1>4, <1>5 DEF Inv

LEMMA RootKeeps ==
    ASSUME Inv, NEW t \in Tasks, Root(t)
    PROVE  Inv'
<1>1. \/ folder # "none" /\ live' = "current" /\ Puts(t, "using", "current") /\ Touch
      \/ folder = "none" /\ Puts(t, "idle", "none") /\ UNCHANGED cache
  BY Ending, Using DEF Root, Inv
<1>2. touched' \in BOOLEAN /\ mark' \in {"none", "begun", "read"}
  BY Touching DEF Root, cache, Inv, TypeOK
<1>3. TypeOK'
  BY <1>1, <1>2 DEF Root, repository, cache, cleanups, history, Puts, Inv, TypeOK
<1>4. OneAtATime' /\ Known'
  BY <1>1, <1>2 DEF Root, repository, cache, cleanups, history, Puts, Inv, TypeOK, OneAtATime,
     Known, Making, Strays, Past, At
<1>5. Making' /\ Strays'
  BY <1>1, <1>2 DEF Root, repository, cache, cleanups, history, Puts, Inv, Making, Strays, At
<1>6. Kept' /\ Alone'
  BY <1>1, <1>2 DEF Root, repository, cache, cleanups, history, Puts, Inv, Kept, Alone, At
<1> QED
  BY <1>3, <1>4, <1>5, <1>6 DEF Inv

LEMMA EditKeeps ==
    ASSUME Inv, NEW t \in Tasks, Edit(t)
    PROVE  Inv'
<1>1. TypeOK'
  BY DEF Edit, cache, cleanups, history, Inv, TypeOK
<1>2. OneAtATime' /\ Known'
  BY DEF Edit, cache, cleanups, history, Inv, OneAtATime, Known, Past
<1>3. Making' /\ Strays'
  BY DEF Edit, cache, cleanups, history, Inv, TypeOK, OneAtATime, Known, Making, Strays, Past,
     At
<1>4. Kept' /\ Alone'
  BY DEF Edit, cache, cleanups, history, Inv, TypeOK, OneAtATime, Known, Kept, Alone, Past, At
<1> QED
  BY <1>1, <1>2, <1>3, <1>4 DEF Inv

LEMMA CommitKeeps ==
    ASSUME Inv, NEW t \in Tasks, Commit(t)
    PROVE  Inv'
<1>1. TypeOK'
  BY ZenonT(60) DEF Commit, cache, cleanups, history, Inv, TypeOK
<1>2. OneAtATime' /\ Known'
  BY DEF Commit, cache, cleanups, history, Inv, OneAtATime, Known, Past
<1>3. Making' /\ Strays'
  BY DEF Commit, cache, cleanups, history, Inv, Making, Strays, At
<1>4. Kept' /\ Alone'
  BY DEF Commit, cache, cleanups, history, Inv, TypeOK, OneAtATime, Known, Kept, Alone, Past, At
<1> QED
  BY <1>1, <1>2, <1>3, <1>4 DEF Inv

LEMMA DoneKeeps ==
    ASSUME Inv, NEW t \in Tasks, Done(t)
    PROVE  Inv'
<1>1. Puts(t, "idle", "none")
  BY Ending DEF Done, Inv
<1>2. TypeOK'
  BY <1>1 DEF Done, repository, cache, cleanups, history, Puts, Inv, TypeOK
<1>3. OneAtATime' /\ Known'
  BY <1>1 DEF Done, repository, cache, cleanups, history, Puts, Inv, OneAtATime, Known, Past
<1>4. Making' /\ Strays'
  BY <1>1 DEF Done, repository, cache, cleanups, history, Puts, Inv, Making, Strays, At
<1>5. Kept' /\ Alone'
  BY <1>1 DEF Done, repository, cache, cleanups, history, Puts, Inv, Kept, Alone, At
<1> QED
  BY <1>2, <1>3, <1>4, <1>5 DEF Inv

LEMMA PruneBeginsKeeps ==
    ASSUME Inv, NEW p \in Pruners, PruneBegins(p)
    PROVE  Inv'
<1>1. Advances(p) /\ pruner'[p] = "listed"
  BY Moving DEF PruneBegins, Inv, Works
<1>2. TypeOK'
  BY <1>1 DEF PruneBegins, Advances, Works, repository, cache, history, Inv, TypeOK
<1>3. OneAtATime' /\ Known'
  BY <1>1 DEF PruneBegins, Advances, Works, repository, cache, history, Inv, OneAtATime, Known,
     Past
<1>4. Making' /\ Strays'
  BY <1>1 DEF PruneBegins, Advances, Works, repository, cache, history, Inv, Making, Strays, At
<1>5. Kept' /\ Alone'
  BY <1>1 DEF PruneBegins, Advances, Works, repository, cache, history, Inv, Kept, Alone, At
<1> QED
  BY <1>2, <1>3, <1>4, <1>5 DEF Inv

LEMMA JudgeKeeps ==
    ASSUME Inv, NEW p \in Pruners, Judge(p)
    PROVE  Inv'
<1>1. Advances(p) /\ pruner'[p] \in {"gone", "clean"}
  BY Moving DEF Judge, Inv, Works
<1>2. TypeOK'
  BY <1>1 DEF Judge, Advances, Works, cache, history, Inv, TypeOK
<1>3. OneAtATime' /\ Known'
  BY <1>1 DEF Judge, Advances, Works, cache, history, Inv, OneAtATime, Known, Past
<1>4. Making' /\ Strays'
  BY <1>1 DEF Judge, Advances, Works, cache, history, Inv, Making, Strays, At
<1>5. Kept' /\ Alone'
  BY <1>1 DEF Judge, Advances, Works, cache, history, Inv, Kept, Alone, At
<1> QED
  BY <1>2, <1>3, <1>4, <1>5 DEF Inv

LEMMA KeepKeeps ==
    ASSUME Inv, NEW p \in Pruners, Keep(p)
    PROVE  Inv'
<1>1. Advances(p) /\ pruner'[p] = "idle"
  BY Moving DEF Keep, Inv, Works
<1>2. TypeOK'
  BY <1>1 DEF Keep, Advances, Works, repository, cache, history, Inv, TypeOK
<1>3. OneAtATime' /\ Known'
  BY <1>1 DEF Keep, Advances, Works, repository, cache, history, Inv, OneAtATime, Known, Past
<1>4. Making' /\ Strays'
  BY <1>1 DEF Keep, Advances, Works, repository, cache, history, Inv, Making, Strays, At
<1>5. Kept' /\ Alone'
  BY <1>1 DEF Keep, Advances, Works, repository, cache, history, Inv, Kept, Alone, At
<1> QED
  BY <1>2, <1>3, <1>4, <1>5 DEF Inv

LEMMA CheckKeeps ==
    ASSUME Inv, NEW p \in Pruners, Check(p)
    PROVE  Inv'
<1>1. Advances(p) /\ pruner'[p] = "removing"
  BY Moving DEF Check, Inv, Works
<1>2. TypeOK'
  BY <1>1 DEF Check, Advances, Works, repository, cache, history, Inv, TypeOK
<1>3. OneAtATime' /\ Known'
  BY <1>1 DEF Check, Advances, Works, repository, cache, history, Inv, OneAtATime, Known, Past
<1>4. Making' /\ Strays'
  BY <1>1 DEF Check, Advances, Works, repository, cache, history, Inv, Making, Strays, At
<1>5. Kept' /\ Alone'
  BY <1>1 DEF Check, Advances, Works, repository, cache, history, Inv, Kept, Alone, At
<1> QED
  BY <1>2, <1>3, <1>4, <1>5 DEF Inv

LEMMA RemoveKeeps ==
    ASSUME Inv, NEW p \in Pruners, Remove(p)
    PROVE  Inv'
<1>1. Advances(p) /\ pruner'[p] = "gone"
  BY Moving DEF Remove, Inv, Works
<1>2. /\ task' \in [Tasks -> Task] /\ live' \in {"none", "stale"}
      /\ live = "none" => live' = "none"
      /\ \A u \in Tasks : task'[u].at = task[u].at /\ task'[u].handle # "current"
  BY Vanishing DEF Remove, Inv
<1>3. TypeOK'
  BY <1>1, <1>2 DEF Remove, FolderGone, Removable, Advances, Works, Inv, TypeOK
<1>4. OneAtATime' /\ Known'
  BY <1>1, <1>2 DEF Remove, FolderGone, Removable, Advances, Works, Inv, OneAtATime,
     Known, Past
<1>5. Making' /\ Strays'
  BY <1>1, <1>2 DEF Remove, FolderGone, Removable, Advances, Works, Inv, Making, Strays,
     At
<1>6. Kept' /\ Alone'
  BY <1>1, <1>2 DEF Remove, FolderGone, Removable, Advances, Works, Inv, Kept, Alone, At
<1> QED
  BY <1>3, <1>4, <1>5, <1>6 DEF Inv

LEMMA DecideKeeps ==
    ASSUME Inv, NEW p \in Pruners, Decide(p)
    PROVE  Inv'
<1>1. /\ Advances(p) /\ pruner'[p] \in {"contained", "dropping"}
      /\ pruner'[p] = "contained" => branch = "contained"
  BY Moving DEF Decide, Inv, Works
<1>2. TypeOK'
  BY <1>1 DEF Decide, Advances, Works, repository, cache, history, Inv, TypeOK
<1>3. OneAtATime' /\ Known'
  BY <1>1 DEF Decide, Advances, Works, repository, cache, history, Inv, OneAtATime, Known, Past
<1>4. Making' /\ Strays'
  BY <1>1 DEF Decide, Advances, Works, repository, cache, history, Inv, Making, Strays, At
<1>5. Kept' /\ Alone'
  BY <1>1 DEF Decide, Advances, Works, repository, cache, history, Inv, Kept, Alone, At
<1> QED
  BY <1>2, <1>3, <1>4, <1>5 DEF Inv

LEMMA DeleteBranchKeeps ==
    ASSUME Inv, NEW p \in Pruners, DeleteBranch(p)
    PROVE  Inv'
<1>1. Advances(p) /\ pruner'[p] = "dropping"
  BY Moving DEF DeleteBranch, Inv, Works
<1>2. TypeOK'
  BY <1>1 DEF DeleteBranch, Advances, Works, cache, history, Inv, TypeOK
<1>3. OneAtATime' /\ Known'
  BY <1>1 DEF DeleteBranch, Advances, Works, cache, history, Inv, OneAtATime, Known, Past
<1>4. Making' /\ Strays'
  BY <1>1 DEF DeleteBranch, Advances, Works, cache, history, Inv, Making, Strays, At
<1>5. Kept' /\ Alone'
  BY <1>1 DEF DeleteBranch, Advances, Works, cache, history, Inv, Kept, Alone, At
<1> QED
  BY <1>2, <1>3, <1>4, <1>5 DEF Inv

LEMMA DropKeeps ==
    ASSUME Inv, NEW p \in Pruners, Drop(p)
    PROVE  Inv'
<1>1. Advances(p) /\ pruner'[p] = "idle"
  BY Moving DEF Drop, Inv, Works
<1>2. TypeOK'
  BY <1>1 DEF Drop, Advances, Works, repository, cache, Inv, TypeOK
<1>3. OneAtATime' /\ Known'
  BY <1>1 DEF Drop, Advances, Works, repository, cache, Inv, OneAtATime, Known, Past
<1>4. Making' /\ Strays'
  BY <1>1 DEF Drop, Advances, Works, repository, cache, Inv, Making, Strays, At
<1>5. Kept' /\ Alone'
  BY <1>1 DEF Drop, Advances, Works, repository, cache, Inv, TypeOK, Kept, Alone, At
<1> QED
  BY <1>2, <1>3, <1>4, <1>5 DEF Inv

LEMMA RemoveFailsKeeps ==
    ASSUME Inv, NEW p \in Pruners, RemoveFails(p)
    PROVE  Inv'
<1>1. Advances(p) /\ pruner'[p] = "idle"
  BY Moving DEF RemoveFails, Inv, Works
<1>2. /\ folder' \in {"none", "half", "whole"} /\ stray' \in BOOLEAN /\ UNCHANGED admin
      /\ folder # "none" => folder' # "none"
  BY DEF RemoveFails, RemoveCut, Removable, repository, Inv, TypeOK
<1>3. TypeOK'
  BY <1>1, <1>2 DEF RemoveFails, Advances, Works, cache, Inv, TypeOK
<1>4. OneAtATime' /\ Known'
  BY <1>1 DEF RemoveFails, RemoveCut, Removable, Advances, Works, cache, repository, Inv,
     OneAtATime, Known, Past
<1>5. Making' /\ Strays'
  BY <1>1 DEF RemoveFails, RemoveCut, Removable, Advances, Works, cache, repository, Inv,
     Making, Strays, At
<1>6. Kept' /\ Alone'
  BY <1>1 DEF RemoveFails, RemoveCut, Removable, Advances, Works, cache, repository, Inv,
     Kept, Alone, At
<1> QED
  BY <1>3, <1>4, <1>5, <1>6 DEF Inv

LEMMA InterruptKeeps ==
    ASSUME Inv, NEW p \in Pruners, Interrupt(p)
    PROVE  Inv'
<1>1. Advances(p) /\ pruner'[p] = "idle"
  BY Moving DEF Interrupt, Inv, Works
<1>2. /\ folder' \in {"none", "half", "whole"} /\ stray' \in BOOLEAN /\ UNCHANGED admin
      /\ folder # "none" => folder' # "none"
  BY DEF Interrupt, RemoveCut, Removable, repository, Inv, TypeOK
<1>3. TypeOK'
  BY <1>1, <1>2 DEF Interrupt, Advances, Works, cache, Inv, TypeOK
<1>4. OneAtATime' /\ Known'
  BY <1>1 DEF Interrupt, RemoveCut, Removable, Advances, Works, cache, repository, Inv,
     OneAtATime, Known, Past
<1>5. Making' /\ Strays'
  BY <1>1 DEF Interrupt, RemoveCut, Removable, Advances, Works, cache, repository, Inv,
     Making, Strays, At
<1>6. Kept' /\ Alone'
  BY <1>1 DEF Interrupt, RemoveCut, Removable, Advances, Works, cache, repository, Inv,
     Kept, Alone, At
<1> QED
  BY <1>3, <1>4, <1>5, <1>6 DEF Inv

LEMMA MarkReadKeeps ==
    ASSUME Inv, MarkRead
    PROVE  Inv'
<1>1. TypeOK'
  BY DEF MarkRead, repository, cleanups, history, Inv, TypeOK
<1>2. OneAtATime' /\ Known'
  BY DEF MarkRead, repository, cleanups, history, Inv, OneAtATime, Known, Past
<1>3. Making' /\ Strays'
  BY DEF MarkRead, repository, cleanups, history, Inv, Making, Strays, At
<1>4. Kept' /\ Alone'
  BY DEF MarkRead, repository, cleanups, history, Inv, Kept, Alone, At
<1> QED
  BY <1>1, <1>2, <1>3, <1>4 DEF Inv

LEMMA MarkWriteKeeps ==
    ASSUME Inv, MarkWrite
    PROVE  Inv'
<1>1. TypeOK'
  BY DEF MarkWrite, repository, cleanups, Inv, TypeOK
<1>2. OneAtATime' /\ Known'
  BY DEF MarkWrite, repository, cleanups, Inv, OneAtATime, Known, Past
<1>3. Making' /\ Strays'
  BY DEF MarkWrite, repository, cleanups, Inv, Making, Strays, At
<1>4. Kept' /\ Alone'
  BY DEF MarkWrite, repository, cleanups, Inv, Kept, Alone, At
<1> QED
  BY <1>1, <1>2, <1>3, <1>4 DEF Inv

LEMMA CrashKeeps ==
    ASSUME Inv, Crash
    PROVE  Inv'
<1>1. /\ pruner' \in [Pruners -> Works] /\ crossed' \in BOOLEAN
      /\ \A q \in Pruners : pruner'[q] = IF q = maintain THEN "idle" ELSE pruner[q]
      /\ ~crossed' => \/ \A q \in Pruners : pruner'[q] = "idle"
                      \/ ~crossed /\ pruner' = pruner
  BY WorktreeAssumption, Moving DEF Crash, Advances, cleanups, Inv, TypeOK, Works
<1>2. /\ task' \in [Tasks -> Task]
      /\ \A u \in Tasks : task'[u].at = "idle" /\ task'[u].handle = "none"
  BY DEF Crash, Task, Idle
<1>3. TypeOK'
  <2>1. /\ folder' \in {"none", "half", "whole"} /\ admin' \in {"none", "adding", "there"}
        /\ stray' \in BOOLEAN /\ raced' \in BOOLEAN
    BY DEF Crash, AddCut, RemoveCut, Removable, repository, Inv, TypeOK
  <2>2. /\ live' = "none" /\ touched' = FALSE /\ mark' = "none"
        /\ UNCHANGED <<branch, dirty, record, unread>>
    BY DEF Crash
  <2>3. dirty' => folder' # "none"
    BY DEF Crash, AddCut, RemoveCut, Removable, repository, Inv, TypeOK, Making, At
  <2>4. late' \subseteq Pruners
    BY WorktreeAssumption DEF Crash, Moves, cleanups, Inv, TypeOK
  <2> QED
    BY <1>1, <1>2, <2>1, <2>2, <2>3, <2>4 DEF Works, Inv, TypeOK
<1>4. OneAtATime' /\ Known'
  BY <1>1, <1>2 DEF Crash, AddCut, RemoveCut, Removable, Works, Inv, OneAtATime, Known,
     Past
<1>5. Making' /\ Strays'
  BY <1>1, <1>2 DEF Crash, AddCut, RemoveCut, Removable, Works, Inv, Making, Strays, At
<1>6. Kept' /\ Alone'
  BY <1>1, <1>2 DEF Crash, AddCut, RemoveCut, Removable, Works, Inv, TypeOK, Making,
     Strays, Kept, Alone, At
<1> QED
  BY <1>3, <1>4, <1>5, <1>6 DEF Inv

LEMMA AgeKeeps ==
    ASSUME Inv, Age
    PROVE  Inv'
<1>1. TypeOK'
  BY DEF Age, Quiet, repository, cleanups, history, Inv, TypeOK
<1>2. OneAtATime' /\ Known'
  BY DEF Age, Quiet, repository, cleanups, history, Inv, OneAtATime, Known, Past
<1>3. Making' /\ Strays'
  BY DEF Age, Quiet, repository, cleanups, history, Inv, Making, Strays, At
<1>4. Kept' /\ Alone'
  BY DEF Age, Quiet, repository, cleanups, history, Inv, Kept, Alone, At
<1> QED
  BY <1>1, <1>2, <1>3, <1>4 DEF Inv

LEMMA MergeKeeps ==
    ASSUME Inv, Merge
    PROVE  Inv'
<1>1. TypeOK'
  BY DEF Merge, cache, cleanups, history, Inv, TypeOK
<1>2. OneAtATime' /\ Known'
  BY DEF Merge, cache, cleanups, history, Inv, OneAtATime, Known, Past
<1>3. Making' /\ Strays'
  BY DEF Merge, cache, cleanups, history, Inv, Making, Strays, At
<1>4. Kept' /\ Alone'
  BY DEF Merge, cache, cleanups, history, Inv, Kept, Alone, At
<1> QED
  BY <1>1, <1>2, <1>3, <1>4 DEF Inv

LEMMA RemovedByHandKeeps ==
    ASSUME Inv, RemovedByHand
    PROVE  Inv'
<1>1. /\ task' \in [Tasks -> Task] /\ live' \in {"none", "stale"}
      /\ live = "none" => live' = "none"
      /\ \A u \in Tasks : task'[u].at = task[u].at /\ task'[u].handle # "current"
  BY Vanishing DEF RemovedByHand, Inv
<1>2. TypeOK'
  BY <1>1 DEF RemovedByHand, FolderGone, Quiet, cleanups, Inv, TypeOK
<1>3. OneAtATime' /\ Known'
  BY <1>1 DEF RemovedByHand, FolderGone, Quiet, cleanups, Inv, OneAtATime, Known, Past
<1>4. Making' /\ Strays'
  BY <1>1 DEF RemovedByHand, FolderGone, Quiet, cleanups, Inv, Making, Strays, At
<1>5. Kept' /\ Alone'
  BY <1>1 DEF RemovedByHand, FolderGone, Quiet, cleanups, Inv, Kept, Alone, At
<1> QED
  BY <1>2, <1>3, <1>4, <1>5 DEF Inv

-----------------------------------------------------------------------------
LEMMA InvInit == Init => Inv
<1> SUFFICES ASSUME Init PROVE Inv
  OBVIOUS
<1>1. TypeOK
  BY DEF Init, Idle, Task, TypeOK
<1> QED
  BY <1>1 DEF Init, Idle, Inv, OneAtATime, Known, Making, Strays, Kept, Alone, Past, At

LEMMA InvStep == Inv /\ [Next]_vars => Inv'
<1> SUFFICES ASSUME Inv, [Next]_vars PROVE Inv'
  OBVIOUS
<1>1. ASSUME NEW t \in Tasks,
             \/ Resolve(t) \/ PassGate(t) \/ Look(t) \/ Fails(t) \/ Discard(t)
             \/ Add(t) \/ Added(t) \/ AddFails(t) \/ WriteRecord(t) \/ Root(t)
             \/ Edit(t) \/ Commit(t) \/ Done(t)
      PROVE  Inv'
  BY <1>1, ResolveKeeps, PassGateKeeps, LookKeeps, FailsKeeps, DiscardKeeps, AddKeeps,
     AddedKeeps, AddFailsKeeps, WriteRecordKeeps, RootKeeps, EditKeeps, CommitKeeps, DoneKeeps
<1>2. ASSUME NEW p \in Pruners,
             \/ PruneBegins(p) \/ Judge(p) \/ Keep(p) \/ Check(p) \/ Remove(p)
             \/ RemoveFails(p) \/ Decide(p) \/ DeleteBranch(p) \/ Drop(p) \/ Interrupt(p)
      PROVE  Inv'
  BY <1>2, PruneBeginsKeeps, JudgeKeeps, KeepKeeps, CheckKeeps, RemoveKeeps, RemoveFailsKeeps,
     DecideKeeps, DeleteBranchKeeps, DropKeeps, InterruptKeeps
<1>3. CASE MarkRead \/ MarkWrite \/ Crash \/ Age \/ Merge \/ RemovedByHand
  BY <1>3, MarkReadKeeps, MarkWriteKeeps, CrashKeeps, AgeKeeps, MergeKeeps, RemovedByHandKeeps
<1>4. CASE UNCHANGED vars
  BY <1>4 DEF vars, repository, cache, cleanups, history, Inv, TypeOK, OneAtATime, Known,
     Making, Strays, Kept, Alone, Past, At
<1> QED
  BY <1>1, <1>2, <1>3, <1>4 DEF Next

\* The invariant is inductive.
THEOREM Invariance == Spec => []Inv
BY InvInit, InvStep, PTL DEF Spec

\* The types hold, and what is known or held of a folder that is there.
THEOREM TypeCorrect == Spec => []TypeOK
<1>1. Inv => TypeOK
  BY DEF Inv
<1> QED
  BY <1>1, Invariance, PTL

\* A folder whose checkout was cut short is handed out only if a record was there before it.
THEOREM HalfNeedsAStray == Spec => []HalfOnlyIfStray
<1>1. Inv => HalfOnlyIfStray
  BY DEF Inv, Known, Strays, HalfOnlyIfStray
<1> QED
  BY <1>1, Invariance, PTL

\* Git looks at a folder that has no changes, and any that come since make it late.
LEMMA LookedStep ==
    ASSUME Inv, Looked, [Next]_vars
    PROVE  Looked'
<1>1. ASSUME NEW t \in Tasks,
             \/ Resolve(t) \/ PassGate(t) \/ Look(t) \/ Fails(t) \/ Discard(t)
             \/ Add(t) \/ Added(t) \/ AddFails(t) \/ WriteRecord(t) \/ Root(t)
             \/ Commit(t) \/ Done(t)
      PROVE  UNCHANGED <<pruner, late>> /\ (dirty' => dirty)
  <2>1. CASE Resolve(t) \/ PassGate(t) \/ Look(t) \/ Fails(t) \/ WriteRecord(t) \/ Root(t) \/ Done(t)
    BY <2>1 DEF Resolve, PassGate, Look, Fails, WriteRecord, Root, Done, repository, cleanups
  <2>2. CASE Discard(t)
    BY <2>2 DEF Discard, cleanups
  <2>3. CASE Add(t) \/ Added(t) \/ AddFails(t)
    BY <2>3 DEF Add, Added, AddFails, cleanups
  <2>4. CASE Commit(t)
    BY <2>4 DEF Commit, cleanups
  <2> QED
    BY <1>1, <2>1, <2>2, <2>3, <2>4
<1>2. ASSUME NEW t \in Tasks, Edit(t)
      PROVE  Looked'
  BY <1>2 DEF Edit, Looked
<1>3. ASSUME NEW p \in Pruners, Check(p)
      PROVE  Looked'
  <2>1. Advances(p) /\ ~dirty'
    BY <1>3, Moving DEF Check, Clean, repository, Inv, Works
  <2> QED
    BY <2>1 DEF Looked
<1>4. ASSUME NEW p \in Pruners,
             \/ PruneBegins(p) \/ Judge(p) \/ Keep(p) \/ Remove(p) \/ RemoveFails(p)
             \/ Decide(p) \/ DeleteBranch(p) \/ Drop(p) \/ Interrupt(p)
      PROVE  Looked'
  <2>1. Advances(p) /\ pruner'[p] # "removing"
    BY <1>4, Moving DEF PruneBegins, Judge, Keep, Remove, RemoveFails, Decide, DeleteBranch,
       Drop, Interrupt, Inv, Works
  <2>2. dirty' => dirty
    BY <1>4 DEF PruneBegins, Judge, Keep, Remove, RemoveFails, FolderGone, Decide, DeleteBranch,
       Drop, Interrupt, repository, Inv, TypeOK
  <2> QED
    BY <2>1, <2>2 DEF Looked, Advances
<1>5. CASE MarkRead \/ MarkWrite \/ Age \/ Merge \/ RemovedByHand \/ UNCHANGED vars
  <2>1. UNCHANGED <<pruner, late>> /\ (dirty' => dirty)
    BY <1>5 DEF MarkRead, MarkWrite, Age, Merge, RemovedByHand, FolderGone, vars, repository,
       cleanups, Inv, TypeOK
  <2> QED
    BY <2>1 DEF Looked
<1>6. CASE Crash
  <2>1. UNCHANGED dirty
    BY <1>6 DEF Crash
  <2>2. UNCHANGED <<pruner, late>> \/ (Advances(maintain) /\ pruner'[maintain] = "idle")
    BY <1>6, Moving, WorktreeAssumption DEF Crash, cleanups, Inv, Works
  <2> QED
    BY <2>1, <2>2, WorktreeAssumption DEF Looked, Advances
<1> QED
  BY <1>1, <1>2, <1>3, <1>4, <1>5, <1>6 DEF Next, Looked

LEMMA AlwaysLooked == Spec => [](Inv /\ Looked)
<1>1. Init => Inv /\ Looked
  BY InvInit DEF Init, Looked
<1>2. Inv /\ Looked /\ [Next]_vars => Inv' /\ Looked'
  BY InvStep, LookedStep
<1> QED
  BY <1>1, <1>2, PTL DEF Spec

\* A git that removes what it found clean loses nothing, unless it is late.
LateLoss == \E p \in late : pruner[p] = "removing" /\ pruner'[p] # "removing"

\* Which steps take a folder with changes away, or a part of it.
LEMMA ChangesGo ==
    ASSUME Inv, Looked, [Next]_vars, dirty, folder' # folder
    PROVE  raced \/ unread \/ RemovedByHand \/ LateLoss
<1>1. folder # "none"
  BY DEF Inv, TypeOK
<1>2. ASSUME NEW t \in Tasks,
             \/ Resolve(t) \/ PassGate(t) \/ Look(t) \/ Fails(t)
             \/ WriteRecord(t) \/ Root(t) \/ Edit(t) \/ Commit(t) \/ Done(t)
      PROVE  FALSE
  BY <1>2 DEF Resolve, PassGate, Look, Fails, WriteRecord, Root, Edit, Commit, Done, repository
<1>3. ASSUME NEW t \in Tasks, Add(t)
      PROVE  FALSE
  BY <1>1, <1>3 DEF Add, Inv, Making
<1>4. ASSUME NEW t \in Tasks, Discard(t)
      PROVE  raced \/ unread
  BY <1>4 DEF Discard, Inv, Kept
<1>5. ASSUME NEW t \in Tasks, At(t, "adding")
      PROVE  FALSE
  BY <1>5 DEF Inv, Making
<1>6. ASSUME NEW p \in Pruners,
             \/ PruneBegins(p) \/ Judge(p) \/ Keep(p) \/ Check(p)
             \/ Decide(p) \/ DeleteBranch(p) \/ Drop(p)
      PROVE  FALSE
  BY <1>6 DEF PruneBegins, Judge, Keep, Check, Decide, DeleteBranch, Drop, repository
<1>7. ASSUME NEW p \in Pruners, Remove(p) \/ RemoveFails(p) \/ Interrupt(p)
      PROVE  LateLoss
  <2>1. pruner[p] = "removing"
    BY <1>7 DEF Remove, RemoveFails, Interrupt
  <2>2. pruner'[p] # "removing"
    BY <1>7, Moving DEF Remove, RemoveFails, Interrupt, Inv, Works
  <2>3. p \in late
    BY <2>1 DEF Looked
  <2> QED
    BY <2>1, <2>2, <2>3 DEF LateLoss
<1>8. CASE MarkRead \/ MarkWrite \/ Age \/ Merge \/ UNCHANGED vars
  BY <1>8 DEF MarkRead, MarkWrite, Age, Merge, vars, repository
<1>9. CASE Crash
  <2>1. pruner[maintain] = "removing"
    BY <1>5, <1>9 DEF Crash
  <2>2. pruner'[maintain] # "removing"
    BY <1>9, <2>1, Moving, WorktreeAssumption DEF Crash, Inv, Works
  <2>3. maintain \in late
    BY <2>1, WorktreeAssumption DEF Looked
  <2> QED
    BY <2>1, <2>2, <2>3 DEF LateLoss
<1> QED
  BY <1>2, <1>3, <1>4, <1>5, <1>6, <1>7, <1>8, <1>9 DEF Next, Added, AddFails

\* Uncommitted changes go only with a folder whose record a cleanup took while it was
\* made again or that could not be read, and with one that was changed after git had looked.
THEOREM ChangesGoInARace == Spec => LostOnlyToARace
<1>1. Inv /\ Looked /\ [Next]_vars =>
        (dirty /\ folder' # folder =>
           \/ raced \/ unread \/ RemovedByHand
           \/ \E p \in late : pruner[p] = "removing" /\ pruner'[p] # "removing")
  BY ChangesGo DEF LateLoss
<1> QED
  BY <1>1, AlwaysLooked, PTL DEF Spec, LostOnlyToARace

\* Which steps take a branch with commits away.
LEMMA CommitsGo ==
    ASSUME Inv, [Next]_vars, branch = "ahead", branch' = "none"
    PROVE  crossed \/ unread
<1>1. ASSUME NEW p \in Pruners, DeleteBranch(p)
      PROVE  crossed \/ unread
  BY <1>1 DEF DeleteBranch, Inv, Making, Alone
<1>2. ASSUME NEW t \in Tasks,
             \/ Resolve(t) \/ PassGate(t) \/ Look(t) \/ Fails(t) \/ Discard(t)
             \/ Add(t) \/ Added(t) \/ AddFails(t) \/ WriteRecord(t) \/ Root(t)
             \/ Edit(t) \/ Commit(t) \/ Done(t)
      PROVE  FALSE
  BY <1>2 DEF Resolve, PassGate, Look, Fails, Discard, Add, Added, AddFails, WriteRecord, Root,
     Edit, Commit, Done, repository
<1>3. ASSUME NEW p \in Pruners,
             \/ PruneBegins(p) \/ Judge(p) \/ Keep(p) \/ Check(p) \/ Remove(p)
             \/ RemoveFails(p) \/ Decide(p) \/ Drop(p) \/ Interrupt(p)
      PROVE  FALSE
  BY <1>3 DEF PruneBegins, Judge, Keep, Check, Remove, RemoveFails, Decide, Drop, Interrupt, repository
<1>4. CASE MarkRead \/ MarkWrite \/ Crash \/ Age \/ Merge \/ RemovedByHand \/ UNCHANGED vars
  BY <1>4 DEF MarkRead, MarkWrite, Crash, Age, Merge, RemovedByHand, vars, repository
<1> QED
  BY <1>1, <1>2, <1>3, <1>4 DEF Next

\* One cleanup alone loses no commit, whatever the operations do between its steps, as
\* long as the records can be read.
THEOREM CommitsStay == Spec => CommitsKept
<1>1. Inv /\ [Next]_vars => (branch = "ahead" /\ branch' = "none" => crossed \/ unread)
  BY CommitsGo
<1> QED
  BY <1>1, Invariance, PTL DEF Spec, CommitsKept
=============================================================================
