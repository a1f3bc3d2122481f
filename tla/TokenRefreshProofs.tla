------------------------- MODULE TokenRefreshProofs -------------------------
(***************************************************************************)
(* Proofs about TokenRefresh for any tasks, processes and workspaces, any  *)
(* number of attempts, logins and losses. The inductive invariant Inv says *)
(* what the lock is for: the token a task presents is the stored one while *)
(* the task holds the lock, a stored token is the newest of its family but *)
(* between the server's answer and the write that follows, and no two      *)
(* workspaces share a family.                                              *)
(***************************************************************************)
EXTENDS TokenRefresh, TLAPS

Holders == {"reading", "waiting", "answered", "revoking"}
Refreshers == {"calling", "queued", "locking", "reading", "waiting", "answered"}

\* Only one task at a time is past the file lock.
Holding == \A t \in Tasks : task[t].pc \in Holders => lock = t
\* A refresh goes back to the request that asked for it.
Aiming ==
    \A t \in Tasks : task[t].pc \in Refreshers => task[t].aim \in {"calling", "retrying"}
\* The token that is presented is the stored one.
InHand ==
    \A t \in Tasks : task[t].pc \in {"waiting", "answered"} =>
        /\ task[t].at \in Workspaces
        /\ task[t].token \in Token
        /\ stored[task[t].at] = task[t].token
\* The answer is the successor of the presented token.
Rotated ==
    \A t \in Tasks : task[t].pc = "answered" /\ task[t].reply # None =>
        /\ task[t].reply = Successor(task[t].token)
        /\ \/ task[t].token.family \in adrift
           \/ task[t].reply.gen = head[task[t].token.family]
\* A logout has left to revoke only what the file holds.
Revoking ==
    \A t \in Tasks : task[t].pc = "revoking" =>
        \A w \in task[t].todo : stored[w] # None
\* A stored token comes from a login.
Begun == \A w \in Workspaces : stored[w] # None => head[stored[w].family] # 0
Distinct ==
    \A v, w \in Workspaces :
        stored[v] # None /\ stored[w] # None /\ stored[v].family = stored[w].family => v = w
\* A rotation that the task has and the file has not yet.
Pending(w) ==
    \E t \in Tasks : task[t].pc = "answered" /\ task[t].reply # None /\ task[t].at = w
StoredCurrent ==
    \A w \in Workspaces : stored[w] # None =>
        \/ stored[w].family \in adrift
        \/ stored[w].gen = head[stored[w].family]
        \/ Pending(w)
StraysLost == \A k \in strays : k.family \in adrift

Inv ==
    /\ TypeOK /\ Holding /\ Aiming /\ InHand /\ Rotated /\ Revoking
    /\ Begun /\ Distinct /\ StoredCurrent /\ StraysLost /\ ReuseNeedsALoss

-----------------------------------------------------------------------------
\* The state r that a step gives task t, when the step writes nothing and t
\* has no answer to remember.
Sound(t, r) ==
    /\ r \in TaskState
    /\ r.pc # "answered"
    /\ r.pc \in Holders => lock' = t
    /\ r.pc \in Refreshers => r.aim \in {"calling", "retrying"}
    /\ r.pc = "waiting" =>
        r.at \in Workspaces /\ r.token \in Token /\ stored[r.at] = r.token
    /\ r.pc = "revoking" => \A w \in r.todo : stored[w] # None

\* Locks that a step of t takes from no other task.
Locked(t) ==
    /\ mutex' \in [Processes -> Tasks \cup {Free}]
    /\ lock' \in Tasks \cup {Free}
    /\ \A u \in Tasks : u # t /\ lock = u => lock' = u

\* What a step of t may lose sight of: if it has the answer to a rotation in
\* hand, it must lose or keep it.
Sighted(t) ==
    /\ strays' \subseteq Token /\ adrift' \subseteq Families
    /\ adrift \subseteq adrift'
    /\ \A k \in strays' : k.family \in adrift'
    /\ task[t].pc = "answered" /\ task[t].reply # None => task[t].token.family \in adrift'

\* Every other task stays as it is.
LEMMA BecomesOne ==
    ASSUME TypeOK, NEW t \in Tasks, NEW r \in TaskState, Becomes(t, r)
    PROVE  /\ task' \in [Tasks -> TaskState]
           /\ task'[t] = r
           /\ \A u \in Tasks : u # t => task'[u] = task[u]
BY DEF TypeOK, Becomes

\* A step that moves one task and writes nothing keeps the invariant.
LEMMA OneTaskMoves ==
    ASSUME Inv, NEW t \in Tasks, NEW r, Becomes(t, r), Sound(t, r), Locked(t), Sighted(t),
           UNCHANGED <<stored, active, head, reused>>,
           revoked' \subseteq Families, begun' \in Nat
    PROVE  Inv'
<1>1. /\ task' \in [Tasks -> TaskState]
      /\ task'[t] = r
      /\ \A u \in Tasks : u # t => task'[u] = task[u]
  BY BecomesOne DEF Inv, Sound
<1>2. TypeOK'
  BY <1>1 DEF Inv, TypeOK, Locked, Sighted
<1>3. Holding'
  BY <1>1 DEF Inv, Holding, Locked, Sound
<1>4. Aiming'
  BY <1>1 DEF Inv, Aiming, Sound
<1>5. InHand'
  BY <1>1 DEF Inv, InHand, Sound
<1>6. Rotated'
  BY <1>1 DEF Inv, Rotated, Sound, Sighted
<1>7. Revoking'
  BY <1>1 DEF Inv, Revoking, Sound
<1>8. Begun' /\ Distinct'
  BY DEF Inv, Begun, Distinct
<1>9. StoredCurrent'
  <2> SUFFICES ASSUME NEW w \in Workspaces, stored[w] # None,
                      stored[w].family \notin adrift', stored[w].gen # head[stored[w].family]
               PROVE  Pending(w)'
    BY DEF StoredCurrent
  <2>1. PICK u \in Tasks : task[u].pc = "answered" /\ task[u].reply # None /\ task[u].at = w
    BY DEF Inv, StoredCurrent, Sighted, Pending
  <2>2. stored[w] = task[u].token
    BY <2>1 DEF Inv, InHand
  <2>3. u # t
    BY <2>1, <2>2 DEF Sighted
  <2> QED
    BY <1>1, <2>1, <2>3 DEF Pending
<1>10. StraysLost' /\ ReuseNeedsALoss'
  BY DEF Inv, StraysLost, ReuseNeedsALoss, Sighted
<1> QED
  BY <1>2, <1>3, <1>4, <1>5, <1>6, <1>7, <1>8, <1>9, <1>10 DEF Inv

\* A task that gives up rests and drops the locks it holds.
LEMMA QuitMoves ==
    ASSUME Inv, NEW t \in Tasks, Quit(t)
    PROVE  Becomes(t, Resting) /\ Sound(t, Resting) /\ Locked(t)
<1>1. Resting \in TaskState
  BY RefreshAssumption DEF Resting, Fresh, TaskState, Steps
<1>2. Sound(t, Resting)
  BY <1>1 DEF Sound, Resting, Fresh, Holders, Refreshers
<1>3. Locked(t)
  BY RefreshAssumption DEF Quit, Unlock, Locked, Inv, TypeOK
<1> QED
  BY <1>2, <1>3 DEF Quit

\* Losing sight of a presented token is written down.
LEMMA LosingIsSeen ==
    ASSUME Inv, NEW t \in Tasks, task[t].pc \in {"waiting", "answered"}, Loses(t)
    PROVE  Sighted(t)
BY DEF Inv, TypeOK, InHand, Loses, Sighted, StraysLost, Token

LEMMA KeepingSight ==
    ASSUME Inv, NEW t \in Tasks, UNCHANGED <<strays, adrift>>,
           ~(task[t].pc = "answered" /\ task[t].reply # None)
    PROVE  Sighted(t)
BY DEF Inv, TypeOK, Sighted, StraysLost

-----------------------------------------------------------------------------
LEMMA BeginKeeps ==
    ASSUME Inv, NEW t \in Tasks, Begin(t)
    PROVE  Inv'
<1>1. PICK pin \in Workspaces \cup {Nowhere} :
        /\ Usable(Selected(pin))
        /\ \/ Becomes(t, Fresh("queued", "calling", pin, Selected(pin), stored[Selected(pin)]))
           \/ Becomes(t, Fresh("calling", "retrying", pin, Selected(pin), stored[Selected(pin)]))
  BY DEF Begin
<1> DEFINE r(pc, aim) == Fresh(pc, aim, pin, Selected(pin), stored[Selected(pin)])
<1>2. Selected(pin) \in Workspaces /\ stored[Selected(pin)] \in Token
  BY <1>1 DEF Usable, Selected, Inv, TypeOK
<1>3. 0 \in 0..(Attempts - 1)
  BY RefreshAssumption
<1>4. Sound(t, r("queued", "calling")) /\ Sound(t, r("calling", "retrying"))
  BY <1>2, <1>3 DEF Sound, Fresh, TaskState, Steps, Holders, Refreshers
<1>5. Locked(t) /\ Sighted(t)
  BY KeepingSight DEF Begin, Locked, Inv, TypeOK
<1> QED
  BY <1>1, <1>4, <1>5, OneTaskMoves DEF Begin, file, server, Inv, TypeOK

LEMMA UnauthorizedKeeps ==
    ASSUME Inv, NEW t \in Tasks, Unauthorized(t)
    PROVE  Inv'
<1> DEFINE r == [task[t] EXCEPT !.pc = "queued", !.aim = "retrying"]
<1>1. Sound(t, r)
  BY ZenonT(60) DEF Inv, TypeOK, TaskState, Steps, Sound, Holders, Refreshers
<1>2. Locked(t) /\ Sighted(t)
  BY KeepingSight DEF Unauthorized, Locked, Inv, TypeOK
<1> QED
  BY <1>1, <1>2, OneTaskMoves DEF Unauthorized, file, server, Inv, TypeOK

LEMMA TakeMutexKeeps ==
    ASSUME Inv, NEW t \in Tasks, TakeMutex(t)
    PROVE  Inv'
<1> DEFINE r == [task[t] EXCEPT !.pc = "locking"]
<1>1. Sound(t, r)
  BY DEF TakeMutex, Inv, TypeOK, Aiming, TaskState, Steps, Sound, Holders, Refreshers
<1>2. Locked(t) /\ Sighted(t)
  BY KeepingSight DEF TakeMutex, Locked, Inv, TypeOK
<1> QED
  BY <1>1, <1>2, OneTaskMoves DEF TakeMutex, Moves, file, server, Inv, TypeOK

LEMMA TakeLockKeeps ==
    ASSUME Inv, NEW t \in Tasks, TakeLock(t)
    PROVE  Inv'
<1> DEFINE r == [task[t] EXCEPT !.pc = "reading"]
<1>1. Sound(t, r)
  BY DEF TakeLock, Inv, TypeOK, Aiming, TaskState, Steps, Sound, Holders, Refreshers
<1>2. Locked(t) /\ Sighted(t)
  BY KeepingSight, RefreshAssumption DEF TakeLock, Locked, Inv, TypeOK
<1> QED
  BY <1>1, <1>2, OneTaskMoves DEF TakeLock, Moves, file, server, Inv, TypeOK

\* The paths that end a task and lose nothing.
LEMMA EndsKeep ==
    ASSUME Inv, NEW t \in Tasks,
           Served(t) \/ LockFails(t) \/ Missing(t) \/ Rejected(t) \/ ClearFails(t)
    PROVE  Inv'
<1>1. Becomes(t, Resting) /\ Sound(t, Resting) /\ Locked(t)
  BY QuitMoves DEF Served, LockFails, Missing, Rejected, ClearFails
<1>2. Sighted(t)
  BY KeepingSight DEF Served, LockFails, Missing, Rejected, ClearFails
<1> QED
  BY <1>1, <1>2, OneTaskMoves
  DEF Served, LockFails, Missing, Rejected, ClearFails, file, server, Inv, TypeOK

\* The state of a task that a refresh lets go on.
LEMMA GoingOn ==
    ASSUME NEW s \in TaskState, NEW w \in Workspaces, NEW k \in Token,
           NEW aim \in {"calling", "retrying"}
    PROVE  [s EXCEPT !.pc = aim, !.token = k, !.at = w, !.reply = None, !.tries = 0]
             \in TaskState
<1>1. 0 \in 0..(Attempts - 1)
  BY RefreshAssumption
<1>2. aim \in Steps
  BY DEF Steps
<1> QED
  BY <1>1, <1>2 DEF TaskState

\* What a refresh returns is fit to go on with.
LEMMA AdoptKeeps ==
    ASSUME Inv, NEW t \in Tasks, Adopt(t)
    PROVE  Inv'
<1> DEFINE w == Selected(task[t].pin)
           r == [task[t] EXCEPT !.pc = task[t].aim, !.token = stored[w], !.at = w,
                                !.reply = None, !.tries = 0]
<1>1. w \in Workspaces /\ stored[w] \in Token
  BY DEF Adopt, Usable, Selected, Inv, TypeOK, TaskState
<1>2. task[t].aim \in {"calling", "retrying"}
  BY DEF Adopt, Inv, Aiming, Refreshers
<1>3. r \in TaskState
  <2>1. task[t] \in TaskState
    BY DEF Inv, TypeOK
  <2> QED
    BY <1>1, <1>2, <2>1, GoingOn
<1>4. Sound(t, r)
  BY <1>2, <1>3 DEF Inv, TypeOK, TaskState, Sound, Holders, Refreshers
<1>5. Becomes(t, r) /\ Unlock(t)
  BY DEF Adopt, Returns
<1>6. Locked(t) /\ Sighted(t)
  BY <1>5, KeepingSight, RefreshAssumption DEF Adopt, Unlock, Locked, Inv, TypeOK
<1> QED
  BY <1>4, <1>5, <1>6, OneTaskMoves DEF Adopt, file, server, Inv, TypeOK

LEMMA SendKeeps ==
    ASSUME Inv, NEW t \in Tasks, Send(t)
    PROVE  Inv'
<1> DEFINE w == Selected(task[t].pin)
           r == [task[t] EXCEPT !.pc = "waiting", !.at = w, !.tries = 0]
<1>1. w \in Workspaces /\ stored[w] \in Token /\ stored[w] = task[t].token
  BY DEF Send, Usable, Selected, Inv, TypeOK, TaskState
<1>2. lock = t /\ task[t].aim \in {"calling", "retrying"}
  BY DEF Send, Inv, Holding, Holders, Aiming, Refreshers
<1>3. r \in TaskState
  <2>1. 0 \in 0..(Attempts - 1)
    BY RefreshAssumption
  <2>2. \A v \in Workspaces :
          [task[t] EXCEPT !.pc = "waiting", !.at = v, !.tries = 0] \in TaskState
    BY ZenonT(60), <2>1 DEF Inv, TypeOK, TaskState, Steps
  <2> QED
    BY <1>1, <2>2
<1>4. /\ r.pc = "waiting" /\ r.at = w /\ r.token = task[t].token
      /\ r.aim = task[t].aim
  BY DEF Inv, TypeOK, TaskState
<1>5. Sound(t, r)
  BY <1>1, <1>2, <1>3, <1>4 DEF Send, Sound, Holders, Refreshers
<1>6. Locked(t) /\ Sighted(t)
  BY KeepingSight DEF Send, Locked, Inv, TypeOK
<1> QED
  BY <1>5, <1>6, OneTaskMoves DEF Send, file, server, Inv, TypeOK

\* A failed attempt is made again or ends the refresh.
LEMMA RetriesMove ==
    ASSUME Inv, NEW t \in Tasks, task[t].pc \in {"waiting", "answered"}, Retries(t)
    PROVE  \E r : Becomes(t, r) /\ Sound(t, r) /\ Locked(t)
<1> DEFINE r == [task[t] EXCEPT !.pc = "waiting", !.reply = None, !.tries = @ + 1]
<1>1. CASE task[t].tries + 1 < Attempts
  <2>1. Becomes(t, r) /\ UNCHANGED <<mutex, lock>>
    BY <1>1 DEF Retries
  <2>2. task[t].tries \in 0..(Attempts - 1) /\ task[t] \in TaskState
    BY DEF Inv, TypeOK, TaskState
  <2>3. r \in TaskState
    <3>1. task[t].tries + 1 \in 0..(Attempts - 1)
      BY <1>1, <2>2, RefreshAssumption
    <3> QED
      BY <2>2, <3>1 DEF TaskState, Steps
  <2>4. /\ r.pc = "waiting" /\ r.at = task[t].at /\ r.token = task[t].token
        /\ r.aim = task[t].aim
    BY <2>2 DEF TaskState
  <2>5. Sound(t, r)
    BY <2>1, <2>3, <2>4 DEF Inv, InHand, Holding, Aiming, Sound, Holders, Refreshers
  <2> QED
    BY <2>1, <2>5 DEF Locked, Inv, TypeOK
<1>2. CASE ~(task[t].tries + 1 < Attempts)
  BY <1>2, QuitMoves DEF Retries
<1> QED
  BY <1>1, <1>2

LEMMA AttemptsKeep ==
    ASSUME Inv, NEW t \in Tasks, Unreached(t) \/ Unheard(t)
    PROVE  Inv'
<1>1. PICK r : Becomes(t, r) /\ Sound(t, r) /\ Locked(t)
  BY RetriesMove DEF Unreached, Unheard
<1>2. Sighted(t)
  BY KeepingSight, LosingIsSeen DEF Unreached, Unheard
<1> QED
  BY <1>1, <1>2, OneTaskMoves DEF Unreached, Unheard, file, server, Inv, TypeOK

\* A task that dies or cannot write its answer loses sight of what it presented.
LEMMA LossesKeep ==
    ASSUME Inv, NEW t \in Tasks, StoreFails(t) \/ Abandon(t)
    PROVE  Inv'
<1>1. Becomes(t, Resting) /\ Sound(t, Resting) /\ Locked(t)
  BY QuitMoves DEF StoreFails, Abandon
<1>2. Sighted(t)
  BY KeepingSight, LosingIsSeen DEF StoreFails, Abandon
<1> QED
  BY <1>1, <1>2, OneTaskMoves DEF StoreFails, Abandon, file, server, Inv, TypeOK

LEMMA LeaveKeeps ==
    ASSUME Inv, NEW t \in Tasks, Leave(t)
    PROVE  Inv'
<1>1. PICK pin \in Workspaces \cup {Nowhere}, aim \in {"one", "all"} :
        Becomes(t, Fresh("leaving", aim, pin, Nowhere, None))
  BY DEF Leave
<1>2. 0 \in 0..(Attempts - 1)
  BY RefreshAssumption
<1>3. Sound(t, Fresh("leaving", aim, pin, Nowhere, None))
  BY <1>2 DEF Sound, Fresh, TaskState, Steps, Holders, Refreshers
<1>4. Locked(t) /\ Sighted(t)
  BY KeepingSight DEF Leave, Locked, Inv, TypeOK
<1> QED
  BY <1>1, <1>3, <1>4, OneTaskMoves DEF Leave, file, server, Inv, TypeOK

LEMMA StartLogoutKeeps ==
    ASSUME Inv, NEW t \in Tasks, StartLogout(t)
    PROVE  Inv'
<1> DEFINE r == [task[t] EXCEPT !.pc = "revoking", !.todo = Scope(t)]
<1>1. Sighted(t)
  BY KeepingSight DEF StartLogout
<1>2. CASE Scope(t) = {}
  <2>1. Becomes(t, Resting) /\ Sound(t, Resting) /\ Locked(t)
    BY <1>2, QuitMoves DEF StartLogout
  <2> QED
    BY <1>1, <2>1, OneTaskMoves DEF StartLogout, file, server, Inv, TypeOK
<1>3. CASE Scope(t) # {}
  <2>1. Scope(t) \in SUBSET Workspaces /\ \A w \in Scope(t) : stored[w] # None
    BY DEF Scope
  <2>2. Becomes(t, r) /\ lock = Free /\ lock' = t /\ UNCHANGED mutex
    BY <1>3 DEF StartLogout
  <2>3. \A todo \in SUBSET Workspaces :
          LET s == [task[t] EXCEPT !.pc = "revoking", !.todo = todo] IN
          s \in TaskState /\ s.pc = "revoking" /\ s.todo = todo
    BY ZenonT(60) DEF Inv, TypeOK, TaskState, Steps
  <2>4. r \in TaskState /\ r.pc = "revoking" /\ r.todo = Scope(t)
    BY <2>1, <2>3
  <2>5. Sound(t, r)
    BY <2>1, <2>2, <2>4 DEF Sound, Holders, Refreshers
  <2>6. Locked(t)
    BY <2>2, RefreshAssumption DEF Locked, Inv, TypeOK
  <2> QED
    BY <1>1, <2>2, <2>5, <2>6, OneTaskMoves DEF StartLogout, file, server, Inv, TypeOK
<1> QED
  BY <1>2, <1>3

LEMMA RevokeKeeps ==
    ASSUME Inv, NEW t \in Tasks, Revoke(t)
    PROVE  Inv'
<1>1. PICK w \in task[t].todo :
        /\ Becomes(t, [task[t] EXCEPT !.todo = @ \ {w}])
        /\ revoked' \in {revoked, revoked \cup {stored[w].family}}
  BY DEF Revoke
<1> DEFINE r == [task[t] EXCEPT !.todo = @ \ {w}]
<1>2. w \in Workspaces /\ stored[w] \in Token
  BY DEF Revoke, Inv, TypeOK, TaskState, Revoking
<1>3. r \in TaskState /\ r.pc = "revoking" /\ r.todo \subseteq task[t].todo
  BY DEF Revoke, Inv, TypeOK, TaskState
<1>4. Sound(t, r)
  BY <1>3 DEF Revoke, Inv, Revoking, Holding, Sound, Holders, Refreshers
<1>5. Locked(t) /\ Sighted(t)
  BY KeepingSight DEF Revoke, Locked, Inv, TypeOK
<1>6. revoked' \subseteq Families
  BY <1>1, <1>2 DEF Inv, TypeOK, Token
<1> QED
  BY <1>1, <1>4, <1>5, <1>6, OneTaskMoves DEF Revoke, file, Inv, TypeOK

-----------------------------------------------------------------------------
\* The server revokes for reuse only what is adrift already.
LEMMA PresentKeeps ==
    ASSUME Inv, NEW k \in Token, Present(k),
           k.family \in adrift \/ k.gen = head[k.family]
    PROVE  /\ head' \in [Families -> Nat]
           /\ revoked' \subseteq Families
           /\ reused' \subseteq adrift /\ reused' \subseteq Families
           /\ \A f \in Families : f # k.family => head'[f] = head[f]
           /\ \A f \in Families : head[f] # 0 => head'[f] # 0
           /\ head'[k.family] = IF Newest(k) THEN k.gen + 1 ELSE head[k.family]
BY DEF Inv, TypeOK, ReuseNeedsALoss, Present, Newest, Consumed, Token

LEMMA ServeStrayKeeps ==
    ASSUME Inv, ServeStray
    PROVE  Inv'
<1>1. PICK k \in strays : Present(k) /\ strays' = strays \ {k}
  BY DEF ServeStray
<1>2. k \in Token /\ k.family \in adrift
  BY DEF Inv, TypeOK, StraysLost
<1>3. UNCHANGED <<task, mutex, lock, stored, active, adrift, begun>>
  BY DEF ServeStray, file
<1>4. /\ head' \in [Families -> Nat]
      /\ revoked' \subseteq Families
      /\ reused' \subseteq adrift /\ reused' \subseteq Families
      /\ \A f \in Families : f # k.family => head'[f] = head[f]
      /\ \A f \in Families : head[f] # 0 => head'[f] # 0
  BY <1>1, <1>2, PresentKeeps
<1>5. TypeOK'
  BY <1>1, <1>3, <1>4 DEF Inv, TypeOK
<1>6. Holding' /\ Aiming' /\ InHand' /\ Revoking'
  BY <1>3 DEF Inv, Holding, Aiming, InHand, Revoking
<1>7. Rotated'
  BY <1>2, <1>3, <1>4 DEF Inv, Rotated, InHand, Token
<1>8. Begun' /\ Distinct'
  BY <1>3, <1>4 DEF Inv, Begun, Distinct, TypeOK, Token
<1>9. StoredCurrent'
  BY <1>2, <1>3, <1>4 DEF Inv, StoredCurrent, Pending, TypeOK, Token
<1>10. StraysLost' /\ ReuseNeedsALoss'
  BY <1>1, <1>3, <1>4 DEF Inv, StraysLost, ReuseNeedsALoss
<1> QED
  BY <1>5, <1>6, <1>7, <1>8, <1>9, <1>10 DEF Inv

\* The token that a task waits with is the newest, or its family is adrift.
LEMMA WaitsWithNewest ==
    ASSUME Inv, NEW t \in Tasks, task[t].pc = "waiting"
    PROVE  LET k == task[t].token IN k.family \in adrift \/ k.gen = head[k.family]
<1>1. task[t].at \in Workspaces /\ stored[task[t].at] = task[t].token /\ task[t].token \in Token
  BY DEF Inv, InHand
<1>2. ~Pending(task[t].at)
  BY DEF Inv, Pending, Holding, Holders
<1>3. task[t].token # None
  BY <1>1 DEF Token, None
<1> QED
  BY <1>1, <1>2, <1>3 DEF Inv, StoredCurrent

LEMMA ServeKeeps ==
    ASSUME Inv, NEW t \in Tasks, Serve(t)
    PROVE  Inv'
<1> DEFINE k == task[t].token
           w == task[t].at
           r == [task[t] EXCEPT !.pc = "answered",
                                !.reply = IF Newest(k) THEN Successor(k) ELSE None]
<1>1. /\ task[t].pc = "waiting" /\ Present(k) /\ Becomes(t, r)
      /\ UNCHANGED <<mutex, lock, stored, active, strays, adrift, begun>>
  BY DEF Serve, file
<1>2. k \in Token /\ w \in Workspaces /\ stored[w] = k
  BY <1>1 DEF Inv, InHand
<1>3. k.family \in adrift \/ k.gen = head[k.family]
  BY <1>1, WaitsWithNewest
<1>4. /\ head' \in [Families -> Nat]
      /\ revoked' \subseteq Families
      /\ reused' \subseteq adrift /\ reused' \subseteq Families
      /\ \A f \in Families : f # k.family => head'[f] = head[f]
      /\ \A f \in Families : head[f] # 0 => head'[f] # 0
      /\ head'[k.family] = IF Newest(k) THEN k.gen + 1 ELSE head[k.family]
  BY <1>1, <1>2, <1>3, PresentKeeps
<1>5. /\ Successor(k) \in Token /\ Successor(k) # None
      /\ Successor(k).family = k.family /\ Successor(k).gen = k.gen + 1
  BY <1>2 DEF Successor, Token, None
<1>6. \A x \in Token \cup {None} :
        LET s == [task[t] EXCEPT !.pc = "answered", !.reply = x] IN
        /\ s \in TaskState /\ s.pc = "answered" /\ s.reply = x
        /\ s.at = w /\ s.token = k /\ s.aim = task[t].aim
  BY ZenonT(60) DEF Inv, TypeOK, TaskState, Steps
<1>7. /\ r \in TaskState /\ r.pc = "answered" /\ r.at = w /\ r.token = k
      /\ r.aim = task[t].aim
      /\ r.reply = IF Newest(k) THEN Successor(k) ELSE None
  BY ZenonT(60), <1>5, <1>6
<1> HIDE DEF r, k, w
<1>8. /\ task' \in [Tasks -> TaskState]
      /\ task'[t] = r
      /\ \A u \in Tasks : u # t => task'[u] = task[u]
  BY <1>1, <1>7, BecomesOne DEF Inv
<1>9. \A u \in Tasks : u # t => task[u].pc \notin Holders
  BY <1>1 DEF Inv, Holding, Holders
<1>10. TypeOK'
  BY <1>1, <1>4, <1>8 DEF Inv, TypeOK
<1>11. Holding' /\ Aiming'
  BY <1>1, <1>7, <1>8 DEF Inv, Holding, Aiming, Holders, Refreshers
<1>12. InHand' /\ Revoking'
  BY <1>1, <1>2, <1>7, <1>8 DEF Inv, InHand, Revoking
<1>13. Rotated'
  BY <1>1, <1>4, <1>5, <1>7, <1>8, <1>9 DEF Rotated, Holders
<1>14. Begun' /\ Distinct'
  BY <1>1, <1>4 DEF Inv, Begun, Distinct, TypeOK, Token
<1>15. StoredCurrent'
  <2> SUFFICES ASSUME NEW v \in Workspaces, stored[v] # None,
                      stored[v].family \notin adrift
               PROVE  stored[v].gen = head'[stored[v].family] \/ Pending(v)'
    BY <1>1 DEF StoredCurrent
  <2>1. ~Pending(v)
    BY <1>1, <1>9 DEF Pending, Holders
  <2>2. stored[v] \in Token /\ stored[v].gen = head[stored[v].family]
    BY <2>1 DEF Inv, TypeOK, StoredCurrent
  <2>3. CASE v = w
    <3>1. CASE Newest(k)
      BY <1>5, <1>7, <1>8, <2>3, <3>1 DEF Pending
    <3>2. CASE ~Newest(k)
      BY <1>2, <1>4, <2>2, <2>3, <3>2
    <3> QED
      BY <3>1, <3>2
  <2>4. CASE v # w
    <3>1. k # None
      BY <1>2 DEF Token, None
    <3>2. stored[v].family # k.family
      BY <1>2, <2>4, <3>1 DEF Inv, Distinct
    <3> QED
      BY <1>4, <2>2, <3>2 DEF Token
  <2> QED
    BY <2>3, <2>4
<1>16. StraysLost' /\ ReuseNeedsALoss'
  BY <1>1, <1>4 DEF Inv, StraysLost, ReuseNeedsALoss
<1> QED
  BY <1>10, <1>11, <1>12, <1>13, <1>14, <1>15, <1>16 DEF Inv

LEMMA StoreKeeps ==
    ASSUME Inv, NEW t \in Tasks, Store(t)
    PROVE  Inv'
<1> DEFINE k == task[t].token
           w == task[t].at
           new == task[t].reply
           r == [task[t] EXCEPT !.pc = task[t].aim, !.token = new, !.at = w,
                                !.reply = None, !.tries = 0]
<1>1. /\ task[t].pc = "answered" /\ new # None
      /\ stored' = [stored EXCEPT ![w] = new]
      /\ Becomes(t, r) /\ Unlock(t)
      /\ UNCHANGED <<active, head, revoked, reused, strays, adrift, begun>>
  BY DEF Store, Returns, server
<1>2. k \in Token /\ w \in Workspaces /\ stored[w] = k
  BY <1>1 DEF Inv, InHand
<1>3. new = Successor(k) /\ (k.family \in adrift \/ new.gen = head[k.family])
  BY <1>1 DEF Inv, Rotated
<1>4. new \in Token /\ new.family = k.family /\ k # None
  BY <1>2, <1>3 DEF Successor, Token, None
<1>5. task[t].aim \in {"calling", "retrying"}
  BY <1>1 DEF Inv, Aiming, Refreshers
<1>6. r \in TaskState /\ r.pc = task[t].aim /\ r.aim = task[t].aim
  <2>1. task[t] \in TaskState
    BY DEF Inv, TypeOK
  <2>2. r \in TaskState
    BY <1>2, <1>4, <1>5, <2>1, GoingOn
  <2> QED
    BY <2>1, <2>2 DEF TaskState
<1>7. Locked(t) /\ lock = t
  BY <1>1, RefreshAssumption DEF Unlock, Locked, Inv, TypeOK, Holding, Holders
<1> HIDE DEF r, k, w, new
<1>8. /\ task' \in [Tasks -> TaskState]
      /\ task'[t] = r
      /\ \A u \in Tasks : u # t => task'[u] = task[u]
  BY <1>1, <1>6, BecomesOne DEF Inv
<1>9. \A u \in Tasks : u # t => task[u].pc \notin Holders
  BY <1>7 DEF Inv, Holding
<1>10. TypeOK'
  BY <1>1, <1>2, <1>4, <1>7, <1>8 DEF Inv, TypeOK, Locked
<1>11. Holding' /\ Aiming'
  BY <1>5, <1>6, <1>8, <1>9 DEF Inv, Holding, Aiming, Holders, Refreshers
<1>12. InHand' /\ Revoking' /\ Rotated'
  BY <1>5, <1>6, <1>8, <1>9 DEF InHand, Revoking, Rotated, Holders
<1>13. Begun' /\ Distinct'
  BY <1>1, <1>2, <1>4 DEF Inv, Begun, Distinct, TypeOK
<1>14. StoredCurrent'
  <2> SUFFICES ASSUME NEW v \in Workspaces, stored'[v] # None,
                      stored'[v].family \notin adrift
               PROVE  stored'[v].gen = head[stored'[v].family]
    BY <1>1 DEF StoredCurrent
  <2>1. CASE v = w
    BY <1>1, <1>2, <1>3, <1>4, <2>1 DEF Inv, TypeOK
  <2>2. CASE v # w
    <3>1. ~Pending(v)
      BY <1>9, <2>2 DEF Pending, Holders, w
    <3>2. stored'[v] = stored[v]
      BY <1>1, <2>2 DEF Inv, TypeOK
    <3> QED
      BY <3>1, <3>2 DEF Inv, StoredCurrent
  <2> QED
    BY <2>1, <2>2
<1>15. StraysLost' /\ ReuseNeedsALoss'
  BY <1>1 DEF Inv, StraysLost, ReuseNeedsALoss
<1> QED
  BY <1>10, <1>11, <1>12, <1>13, <1>14, <1>15 DEF Inv

\* While nobody has the lock no task is past it.
LEMMA NobodyHolds ==
    ASSUME Inv, lock = Free
    PROVE  \A t \in Tasks : task[t].pc \notin Holders
BY RefreshAssumption DEF Inv, Holding

LEMMA LoginKeeps ==
    ASSUME Inv, NEW w \in Workspaces, Login(w)
    PROVE  Inv'
<1>1. PICK f \in Families :
        /\ head[f] = 0
        /\ head' = [head EXCEPT ![f] = 1]
        /\ stored' = [stored EXCEPT ![w] = [family |-> f, gen |-> 1]]
  BY DEF Login
<1> DEFINE new == [family |-> f, gen |-> 1]
<1>2. new \in Token /\ new # None /\ new.family = f /\ new.gen = 1
  BY DEF Token, None, Families
<1>3. /\ active' = w
      /\ UNCHANGED <<task, mutex, lock, revoked, reused, strays, adrift, begun>>
  BY DEF Login
<1>4. \A t \in Tasks : task[t].pc \notin Holders
  BY NobodyHolds DEF Login
<1>5. /\ stored'[w] = new
      /\ \A v \in Workspaces : v # w => stored'[v] = stored[v]
      /\ stored' \in [Workspaces -> Token \cup {None}]
  BY <1>1, <1>2 DEF Inv, TypeOK
<1>6. /\ head' \in [Families -> Nat] /\ head'[f] = 1
      /\ \A g \in Families : g # f => head'[g] = head[g]
  BY <1>1 DEF Inv, TypeOK
<1>7. TypeOK'
  BY <1>3, <1>5, <1>6 DEF Inv, TypeOK
<1>8. Holding' /\ Aiming' /\ InHand' /\ Rotated' /\ Revoking'
  BY <1>3, <1>4 DEF Inv, Holding, Aiming, InHand, Rotated, Revoking, Holders
<1>9. \A v \in Workspaces :
        stored[v] # None => stored[v].family \in Families /\ stored[v].family # f
  BY <1>1 DEF Inv, TypeOK, Begun, Token
<1>10. Begun' /\ Distinct'
  BY <1>2, <1>5, <1>6, <1>9 DEF Inv, Begun, Distinct
<1>11. StoredCurrent'
  BY <1>2, <1>3, <1>4, <1>5, <1>6, <1>9 DEF Inv, StoredCurrent, Pending, Holders
<1>12. StraysLost' /\ ReuseNeedsALoss'
  BY <1>3 DEF Inv, StraysLost, ReuseNeedsALoss
<1> QED
  BY <1>7, <1>8, <1>10, <1>11, <1>12 DEF Inv

LEMMA ActivateKeeps ==
    ASSUME Inv, NEW w \in Workspaces, Activate(w)
    PROVE  Inv'
BY DEF Activate, server, Inv, TypeOK, Holding, Aiming, InHand, Rotated, Revoking,
       Begun, Distinct, StoredCurrent, Pending, StraysLost, ReuseNeedsALoss

LEMMA ClearKeeps ==
    ASSUME Inv, NEW t \in Tasks, Clear(t)
    PROVE  Inv'
<1>1. /\ Becomes(t, Resting) /\ Sound(t, Resting) /\ Locked(t)
      /\ UNCHANGED <<head, revoked, reused, strays, adrift, begun>>
  BY QuitMoves DEF Clear, server
<1>2. /\ task' \in [Tasks -> TaskState]
      /\ task'[t] = Resting
      /\ \A u \in Tasks : u # t => task'[u] = task[u]
  BY <1>1, BecomesOne DEF Inv, Sound
<1>3. \A u \in Tasks : task[u].pc \in Holders => u = t /\ task[u].pc = "revoking"
  BY DEF Clear, Inv, Holding, Holders
<1>4. /\ \A v \in Workspaces : stored'[v] \in {stored[v], None}
      /\ stored' \in [Workspaces -> Token \cup {None}]
      /\ active' \in Workspaces \cup {Nowhere}
  BY DEF Clear, Inv, TypeOK
<1>5. Resting.pc = "idle"
  BY DEF Resting, Fresh
<1>6. TypeOK'
  BY <1>1, <1>2, <1>4 DEF Inv, TypeOK, Locked
<1>7. Holding' /\ Aiming' /\ InHand' /\ Rotated' /\ Revoking'
  BY <1>2, <1>3, <1>5
  DEF Inv, Holding, Aiming, InHand, Rotated, Revoking, Holders, Refreshers
<1>8. Begun' /\ Distinct'
  BY <1>1, <1>4 DEF Inv, Begun, Distinct
<1>9. StoredCurrent'
  BY <1>1, <1>3, <1>4 DEF Inv, StoredCurrent, Pending, Holders
<1>10. StraysLost' /\ ReuseNeedsALoss'
  BY <1>1 DEF Inv, StraysLost, ReuseNeedsALoss
<1> QED
  BY <1>6, <1>7, <1>8, <1>9, <1>10 DEF Inv

-----------------------------------------------------------------------------
LEMMA InitInv == Init => Inv
<1> SUFFICES ASSUME Init PROVE Inv
  OBVIOUS
<1>1. Resting \in TaskState /\ Resting.pc = "idle"
  BY RefreshAssumption DEF Resting, Fresh, TaskState, Steps
<1>2. TypeOK
  BY <1>1 DEF Init, TypeOK
<1> QED
  BY <1>1, <1>2
  DEF Init, Inv, Holding, Aiming, InHand, Rotated, Revoking, Begun, Distinct,
      StoredCurrent, StraysLost, ReuseNeedsALoss, Holders, Refreshers

LEMMA NextInv == Inv /\ [Next]_vars => Inv'
<1> SUFFICES ASSUME Inv, [Next]_vars PROVE Inv'
  OBVIOUS
<1>1. CASE ServeStray
  BY <1>1, ServeStrayKeeps
<1>2. CASE \E w \in Workspaces : Login(w) \/ Activate(w)
  BY <1>2, LoginKeeps, ActivateKeeps
<1>3. CASE \E t \in Tasks : Begin(t) \/ Leave(t) \/ LockFails(t) \/ Abandon(t)
  BY <1>3, BeginKeeps, LeaveKeeps, EndsKeep, LossesKeep
<1>4. CASE \E t \in Tasks : Refreshes(t)
  BY <1>4, TakeMutexKeeps, TakeLockKeeps, EndsKeep, AdoptKeeps, SendKeeps, ServeKeeps,
     AttemptsKeep, StoreKeeps, LossesKeep
  DEF Refreshes
<1>5. CASE \E t \in Tasks : Served(t) \/ Unauthorized(t) \/ StartLogout(t) \/ Revoke(t)
                            \/ Clear(t) \/ ClearFails(t)
  BY <1>5, EndsKeep, UnauthorizedKeeps, StartLogoutKeeps, RevokeKeeps, ClearKeeps
<1>6. CASE UNCHANGED vars
  BY <1>6
  DEF vars, Inv, TypeOK, Holding, Aiming, InHand, Rotated, Revoking, Begun, Distinct,
      StoredCurrent, Pending, StraysLost, ReuseNeedsALoss
<1> QED
  BY <1>1, <1>2, <1>3, <1>4, <1>5, <1>6 DEF Next, Progress

THEOREM Invariance == Spec => []Inv
BY InitInv, NextInv, PTL DEF Spec

\* Every variable of the model keeps its type.
THEOREM TypeCorrect == Spec => []TypeOK
<1>1. Inv => TypeOK
  BY DEF Inv
<1> QED
  BY <1>1, Invariance, PTL

\* However many tasks of however many processes refresh, log in, switch and
\* log out at once, a family is revoked for reuse only after a presented token
\* went out of sight: refreshing at the same time is never the cause.
THEOREM ConcurrencyNeverRevokes == Spec => []ReuseNeedsALoss
<1>1. Inv => ReuseNeedsALoss
  BY DEF Inv
<1> QED
  BY <1>1, Invariance, PTL

-----------------------------------------------------------------------------
\* Only the task that adopts or stores leaves a refresh for its request.
LEMMA OnlyRefreshReturns ==
    ASSUME Inv, Next, NEW t \in Tasks, task[t].pc \in {"reading", "answered"},
           task'[t].pc \in {"calling", "retrying"}
    PROVE  Adopt(t) \/ Store(t)
<1> USE DEF Inv, TypeOK
<1>1. task[t] \in TaskState /\ Resting.pc = "idle"
  BY DEF Resting, Fresh
<1>2. PICK u \in Tasks : Begin(u) \/ Leave(u) \/ Progress(u) \/ LockFails(u) \/ Abandon(u)
  BY DEF Next, ServeStray, Login, Activate
<1>3. u = t
  BY <1>2 DEF Progress, Refreshes, Begin, Leave, Abandon, Served, Unauthorized,
     TakeMutex, TakeLock, LockFails, Missing, Adopt, Send, Serve, Unreached, Unheard, Store,
     StoreFails, Rejected, StartLogout, Revoke, Clear, ClearFails, Returns, Retries, Quit,
     Moves, Becomes
<1>4. CASE task[t].pc = "reading"
  <2>1. Missing(t) \/ Adopt(t) \/ Send(t) \/ Abandon(t)
    BY <1>2, <1>3, <1>4 DEF Progress, Refreshes, Begin, Leave, Served, Unauthorized,
       TakeMutex, TakeLock, LockFails, Serve, Unreached, Unheard, Store, StoreFails,
       Rejected, StartLogout, Revoke, Clear, ClearFails
  <2> QED
    BY ZenonT(60), <1>1, <2>1 DEF Missing, Send, Abandon, Quit, Becomes, TaskState
<1>5. CASE task[t].pc = "answered"
  <2>1. Unheard(t) \/ Store(t) \/ StoreFails(t) \/ Rejected(t) \/ Abandon(t)
    BY <1>2, <1>3, <1>5 DEF Progress, Refreshes, Begin, Leave, Served, Unauthorized,
       TakeMutex, TakeLock, LockFails, Missing, Adopt, Send, Serve, Unreached,
       StartLogout, Revoke, Clear, ClearFails
  <2> QED
    BY ZenonT(60), <1>1, <2>1
    DEF Unheard, Retries, StoreFails, Rejected, Abandon, Quit, Becomes, TaskState
<1> QED
  BY <1>4, <1>5

LEMMA AdoptsNewest ==
    ASSUME Inv, NEW t \in Tasks, Adopt(t)
    PROVE  LET k == task'[t].token IN k.family \in adrift \/ k.gen = head'[k.family]
<1> DEFINE w == Selected(task[t].pin)
<1>1. w \in Workspaces /\ stored[w] # None
  BY DEF Adopt, Usable, Selected, Inv, TypeOK, TaskState
<1>2. task'[t].token = stored[w]
  BY DEF Adopt, Returns, Becomes, Inv, TypeOK, TaskState
<1>3. ~Pending(w)
  BY DEF Adopt, Inv, Pending, Holding, Holders
<1> QED
  BY <1>1, <1>2, <1>3 DEF Adopt, server, Inv, StoredCurrent

LEMMA StoresNewest ==
    ASSUME Inv, NEW t \in Tasks, Store(t)
    PROVE  LET k == task'[t].token IN k.family \in adrift \/ k.gen = head'[k.family]
<1>1. task'[t].token = task[t].reply
  BY DEF Store, Returns, Becomes, Inv, TypeOK, TaskState
<1>2. task[t].reply = Successor(task[t].token)
  BY DEF Store, Inv, Rotated
<1>3. task[t].reply.family = task[t].token.family
  BY <1>2 DEF Successor
<1> QED
  BY <1>1, <1>3 DEF Store, server, Inv, Rotated

\* A request goes on with the newest token of its login whoever rotated it, so
\* tasks that refresh at the same time converge on one result, unless a result
\* went out of sight.
THEOREM RefreshConverges == Spec => ReturnsNewest
<1>1. Inv /\ [Next]_vars =>
        [\A t \in Tasks :
           task[t].pc \in {"reading", "answered"} /\ task'[t].pc \in {"calling", "retrying"}
           => LET k == task'[t].token IN k.family \in adrift \/ k.gen = head'[k.family]]_vars
  BY OnlyRefreshReturns, AdoptsNewest, StoresNewest
<1> QED
  BY <1>1, Invariance, PTL DEF Spec, ReturnsNewest

\* How a step may change the token of workspace w.
Follows(w) ==
    LET old == stored[w]
        new == stored'[w] IN
    \/ new \in {old, None}
    \/ new.gen = 1 /\ head[new.family] = 0
    \/ old # None /\ new = Successor(old)

LEMMA StoreFollows ==
    ASSUME Inv, NEW t \in Tasks, Store(t), NEW w \in Workspaces
    PROVE  Follows(w)
<1>1. stored[task[t].at] = task[t].token /\ task[t].token \in Token
  BY DEF Store, Inv, InHand
<1>2. task[t].reply = Successor(task[t].token)
  BY DEF Store, Inv, Rotated
<1> QED
  BY <1>1, <1>2 DEF Store, Follows, Inv, TypeOK, Token, None

LEMMA StepFollows ==
    ASSUME Inv, [Next]_vars, NEW w \in Workspaces
    PROVE  Follows(w)
<1>1. CASE \E v \in Workspaces : Login(v) \/ Activate(v)
  BY <1>1 DEF Login, Activate, Follows, Inv, TypeOK
<1>2. CASE \E t \in Tasks : Store(t)
  BY <1>2, StoreFollows
<1>3. CASE \E t \in Tasks : Clear(t)
  BY <1>3 DEF Clear, Follows
<1>4. CASE UNCHANGED stored
  BY <1>4 DEF Follows
<1> QED
  BY <1>1, <1>2, <1>3, <1>4
  DEF Next, vars, file, ServeStray, Progress, Refreshes, Begin, Leave, Abandon, Served,
      Unauthorized, TakeMutex, TakeLock, LockFails, Missing, Adopt, Send, Serve, Unreached,
      Unheard, StoreFails, Rejected, StartLogout, Revoke, ClearFails

\* No refresh brings back a login that was replaced or logged out meanwhile,
\* and none writes to a workspace that is not its own.
THEOREM LogoutSticks == Spec => StoreFollowsLogin
<1>1. Inv /\ [Next]_vars =>
        [\A w \in Workspaces :
           LET old == stored[w]
               new == stored'[w] IN
           \/ new \in {old, None}
           \/ new.gen = 1 /\ head[new.family] = 0
           \/ old # None /\ new = Successor(old)]_vars
  BY StepFollows DEF Follows
<1> QED
  BY <1>1, Invariance, PTL DEF Spec, StoreFollowsLogin
=============================================================================
