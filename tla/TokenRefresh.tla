---------------------------- MODULE TokenRefresh ----------------------------
(***************************************************************************)
(* The logins of one host, shared by every command that runs on the        *)
(* machine (client/auth/refresh.rs, client/auth/store.rs, client.rs): a    *)
(* request that meets an expired access token refreshes it under a mutex   *)
(* of its process and a file lock of the machine, reads the credentials    *)
(* file again, and either adopts what it finds or presents the refresh     *)
(* token. The server rotates the refresh tokens of a login and revokes the *)
(* whole family when a consumed one is presented. Requests and replies may *)
(* be lost or late, a write may fail, and a command may die at any point.  *)
(***************************************************************************)
EXTENDS Naturals

CONSTANTS
    Tasks,        \* requests and logouts that may run at once
    Processes,    \* processes they run in
    Host,         \* the process of each task
    Workspaces,   \* workspaces a user logs in to
    Attempts,     \* presentations of one refresh token, REFRESH_ATTEMPTS
    MaxLogins,    \* bound on logins
    MaxBegun,     \* bound on requests and logouts
    Free,         \* nobody holds the lock
    Nowhere       \* no workspace

ASSUME RefreshAssumption ==
    /\ Host \in [Tasks -> Processes]
    /\ Attempts \in Nat \ {0}
    /\ MaxLogins \in Nat
    /\ MaxBegun \in Nat
    /\ Free \notin Tasks
    /\ Nowhere \notin Workspaces

VARIABLES
    task,     \* where each task is and what it has in hand
    mutex,    \* the refresh lock of each process
    lock,     \* the lock beside the credentials file
    stored,   \* the credentials file: the token of each workspace
    active,   \* the credentials file: the active workspace
    head,     \* server: the newest token of each family, 0 before its login
    revoked,  \* server: families it no longer serves
    strays,   \* refresh tokens on the wire that no task waits for
    adrift,   \* history: families a result of which never reached the file
    reused,   \* history: families revoked for a consumed token
    begun     \* requests and logouts so far

server == <<head, revoked, reused>>
file == <<stored, active>>
vars == <<task, mutex, lock, stored, active, head, revoked, strays, adrift,
          reused, begun>>

-----------------------------------------------------------------------------
Families == 1..MaxLogins
\* An access token and the refresh token it came with, by their place in the
\* family that a login began.
Token == [family : Families, gen : Nat \ {0}]
None == [family |-> 0, gen |-> 0]
\* The token that a rotation puts in the place of k.
Successor(k) == [family |-> k.family, gen |-> k.gen + 1]

Steps == {"idle", "calling", "queued", "locking", "reading", "waiting",
          "answered", "retrying", "leaving", "revoking"}
\* pin: the workspace of the command's --workspace; home: the workspace of the
\* token it began with; at: that of the token it has; aim: what follows.
TaskState == [pc : Steps, pin : Workspaces \cup {Nowhere},
              home : Workspaces \cup {Nowhere}, at : Workspaces \cup {Nowhere},
              token : Token \cup {None}, reply : Token \cup {None},
              tries : 0..(Attempts - 1),
              aim : {"calling", "retrying", "one", "all"},
              todo : SUBSET Workspaces]
\* A task that sets out at step pc, with token k of workspace w if it has one.
Fresh(pc, aim, pin, w, k) ==
    [pc |-> pc, pin |-> pin, home |-> w, at |-> w, token |-> k, reply |-> None,
     tries |-> 0, aim |-> aim, todo |-> {}]
Resting == Fresh("idle", "one", Nowhere, Nowhere, None)

\* The workspace a selector names: the active one unless the command pins one.
Selected(pin) == IF pin = Nowhere THEN active ELSE pin
Usable(w) == w # Nowhere /\ stored[w] # None

Init ==
    /\ task = [t \in Tasks |-> Resting]
    /\ mutex = [p \in Processes |-> Free]
    /\ lock = Free
    /\ stored = [w \in Workspaces |-> None]
    /\ active = Nowhere
    /\ head = [f \in Families |-> 0]
    /\ revoked = {} /\ strays = {} /\ adrift = {} /\ reused = {}
    /\ begun = 0

-----------------------------------------------------------------------------
\* Mutant: the lock of the machine stays taken.
UnlockMutex(t) ==
    /\ mutex' = [mutex EXCEPT ![Host[t]] = IF @ = t THEN Free ELSE @]
    /\ UNCHANGED lock
\* Both locks are guards: leaving the function by any path drops them.
Unlock(t) ==
    /\ lock' = IF lock = t THEN Free ELSE lock
    /\ mutex' = [mutex EXCEPT ![Host[t]] = IF @ = t THEN Free ELSE @]

Becomes(t, state) == task' = [task EXCEPT ![t] = state]
Moves(t, pc) == Becomes(t, [task[t] EXCEPT !.pc = pc])
Quit(t) == Becomes(t, Resting) /\ Unlock(t)

\* A refresh returns token k of workspace w to the request behind it.
Returns(t, k, w) ==
    /\ Becomes(t, [task[t] EXCEPT !.pc = task[t].aim, !.token = k, !.at = w,
                                  !.reply = None, !.tries = 0])
    /\ Unlock(t)

-----------------------------------------------------------------------------
\* What the server does with refresh token k.
Newest(k) == k.family \notin revoked /\ k.gen = head[k.family]
Consumed(k) == k.family \notin revoked /\ k.gen # head[k.family]
Present(k) ==
    /\ head' = IF Newest(k) THEN [head EXCEPT ![k.family] = @ + 1] ELSE head
    /\ revoked' = IF Consumed(k) THEN revoked \cup {k.family} ELSE revoked
    /\ reused' = IF Consumed(k) THEN reused \cup {k.family} ELSE reused

\* A presented token that nobody waits for arrives after all.
ServeStray ==
    \E k \in strays :
        /\ Present(k)
        /\ strays' = strays \ {k}
        /\ UNCHANGED <<task, mutex, lock, file, adrift, begun>>

-----------------------------------------------------------------------------
\* A request loads a token without the lock. It refreshes at once a token
\* that expires within the skew window, and else makes its call.
Begin(t) ==
    /\ task[t].pc = "idle"
    /\ begun < MaxBegun
    /\ \E pin \in Workspaces \cup {Nowhere} :
        LET w == Selected(pin) IN
        /\ Usable(w)
        /\ \/ Becomes(t, Fresh("queued", "calling", pin, w, stored[w]))
           \/ Becomes(t, Fresh("calling", "retrying", pin, w, stored[w]))
    /\ begun' = begun + 1
    /\ UNCHANGED <<mutex, lock, file, server, strays, adrift>>

\* The call succeeds, or fails with something else than a first 401.
Served(t) ==
    /\ task[t].pc \in {"calling", "retrying"}
    /\ Quit(t)
    /\ UNCHANGED <<file, server, strays, adrift, begun>>

\* A first 401 is answered with a refresh.
Unauthorized(t) ==
    /\ task[t].pc = "calling"
    /\ Becomes(t, [task[t] EXCEPT !.pc = "queued", !.aim = "retrying"])
    /\ UNCHANGED <<mutex, lock, file, server, strays, adrift, begun>>

\* One refresh at a time in a process.
TakeMutex(t) ==
    /\ task[t].pc = "queued"
    /\ mutex[Host[t]] = Free
    /\ mutex' = [mutex EXCEPT ![Host[t]] = t]
    /\ Moves(t, "locking")
    /\ UNCHANGED <<lock, file, server, strays, adrift, begun>>

\* Mutant: the lock is taken without waiting for its holder.
TakeLockHeld(t) ==
    /\ task[t].pc = "locking"
    /\ lock' = t
    /\ Moves(t, "reading")
    /\ UNCHANGED <<mutex, file, server, strays, adrift, begun>>
\* One refresh, login, switch or logout at a time on the machine.
TakeLock(t) ==
    /\ task[t].pc = "locking"
    /\ lock = Free
    /\ lock' = t
    /\ Moves(t, "reading")
    /\ UNCHANGED <<mutex, file, server, strays, adrift, begun>>

\* The lock file cannot be opened or locked; only doctor sets a time limit.
LockFails(t) ==
    /\ task[t].pc \in {"locking", "leaving"}
    /\ Quit(t)
    /\ UNCHANGED <<file, server, strays, adrift, begun>>

\* The file has no login for the selector any more.
Missing(t) ==
    /\ task[t].pc = "reading"
    /\ ~Usable(Selected(task[t].pin))
    /\ Quit(t)
    /\ UNCHANGED <<file, server, strays, adrift, begun>>

\* The file holds another token than the one that failed.
Adopt(t) ==
    /\ task[t].pc = "reading"
    /\ LET w == Selected(task[t].pin) IN
        /\ Usable(w)
        /\ stored[w] # task[t].token
        /\ Returns(t, stored[w], w)
    /\ UNCHANGED <<file, server, strays, adrift, begun>>

\* The file still holds the token that failed: it goes to the server.
Send(t) ==
    /\ task[t].pc = "reading"
    /\ LET w == Selected(task[t].pin) IN
        /\ Usable(w)
        /\ stored[w] = task[t].token
        /\ Becomes(t, [task[t] EXCEPT !.pc = "waiting", !.at = w, !.tries = 0])
    /\ UNCHANGED <<mutex, lock, file, server, strays, adrift, begun>>

\* The server answers the task that waits.
Serve(t) ==
    /\ task[t].pc = "waiting"
    /\ LET k == task[t].token IN
        /\ Present(k)
        /\ Becomes(t, [task[t] EXCEPT !.pc = "answered",
               !.reply = IF Newest(k) THEN Successor(k) ELSE None])
    /\ UNCHANGED <<mutex, lock, file, strays, adrift, begun>>

\* An attempt that failed for a passing reason is made again with the token.
Retries(t) ==
    IF task[t].tries + 1 < Attempts
    THEN /\ Becomes(t, [task[t] EXCEPT !.pc = "waiting", !.reply = None,
                                       !.tries = @ + 1])
         /\ UNCHANGED <<mutex, lock>>
    ELSE Quit(t)

\* The request failed on its way or the server turned it down unread (429).
Unreached(t) ==
    /\ task[t].pc = "waiting"
    /\ Retries(t)
    /\ UNCHANGED <<file, server, strays, adrift, begun>>

\* The task loses sight of a token it presented: the answer is lost or replaced
\* by a server error, or the request is still on its way.
Loses(t) ==
    /\ strays' = IF task[t].pc = "waiting" THEN strays \cup {task[t].token} ELSE strays
    /\ adrift' = adrift \cup {task[t].token.family}

Unheard(t) ==
    /\ task[t].pc \in {"waiting", "answered"}
    /\ Loses(t)
    /\ Retries(t)
    /\ UNCHANGED <<file, server, begun>>

\* Mutant: the rotated token is not written back.
StoreNothing(t) ==
    /\ task[t].pc = "answered"
    /\ task[t].reply # None
    /\ Returns(t, task[t].reply, task[t].at)
    /\ UNCHANGED <<file, server, strays, adrift, begun>>
\* Mutant: the rotated token is written as the active workspace's.
StoreActive(t) ==
    /\ task[t].pc = "answered"
    /\ task[t].reply # None
    /\ active # Nowhere
    /\ stored' = [stored EXCEPT ![active] = task[t].reply]
    /\ Returns(t, task[t].reply, task[t].at)
    /\ UNCHANGED <<active, server, strays, adrift, begun>>
\* The rotated token replaces the stored one, and the active workspace stays.
Store(t) ==
    /\ task[t].pc = "answered"
    /\ task[t].reply # None
    /\ stored' = [stored EXCEPT ![task[t].at] = task[t].reply]
    /\ Returns(t, task[t].reply, task[t].at)
    /\ UNCHANGED <<active, server, strays, adrift, begun>>

\* The rotated token cannot be written.
StoreFails(t) ==
    /\ task[t].pc = "answered"
    /\ task[t].reply # None
    /\ Loses(t)
    /\ Quit(t)
    /\ UNCHANGED <<file, server, begun>>

\* The session has expired.
Rejected(t) ==
    /\ task[t].pc = "answered"
    /\ task[t].reply = None
    /\ Quit(t)
    /\ UNCHANGED <<file, server, strays, adrift, begun>>

\* The caller drops the request or the logout, or its process dies.
Abandon(t) ==
    /\ task[t].pc # "idle"
    /\ IF task[t].pc \in {"waiting", "answered"}
       THEN Loses(t)
       ELSE UNCHANGED <<strays, adrift>>
    /\ Quit(t)
    /\ UNCHANGED <<file, server, begun>>

-----------------------------------------------------------------------------
\* A login begins a family and saves its token, which makes it active.
Login(w) ==
    /\ lock = Free
    /\ \E f \in Families :
        /\ head[f] = 0
        /\ \A g \in Families : g < f => head[g] # 0
        /\ head' = [head EXCEPT ![f] = 1]
        /\ stored' = [stored EXCEPT ![w] = [family |-> f, gen |-> 1]]
    /\ active' = w
    /\ UNCHANGED <<task, mutex, lock, revoked, reused, strays, adrift, begun>>

\* The switch command makes a stored workspace the active one.
Activate(w) ==
    /\ lock = Free
    /\ stored[w] # None
    /\ active' = w
    /\ UNCHANGED <<task, mutex, lock, stored, server, strays, adrift, begun>>

\* A logout of the selected workspace ("one") or of every one ("all").
Leave(t) ==
    /\ task[t].pc = "idle"
    /\ begun < MaxBegun
    /\ \E pin \in Workspaces \cup {Nowhere}, aim \in {"one", "all"} :
        Becomes(t, Fresh("leaving", aim, pin, Nowhere, None))
    /\ begun' = begun + 1
    /\ UNCHANGED <<mutex, lock, file, server, strays, adrift>>

\* The workspaces a logout clears.
Scope(t) ==
    {w \in Workspaces : stored[w] # None
                        /\ (task[t].aim = "all" \/ w = Selected(task[t].pin))}

\* A logout reads the file under the lock; with nothing there it is over.
StartLogout(t) ==
    /\ task[t].pc = "leaving"
    /\ lock = Free
    /\ IF Scope(t) = {}
       THEN Quit(t)
       ELSE /\ lock' = t
            /\ Becomes(t, [task[t] EXCEPT !.pc = "revoking", !.todo = Scope(t)])
            /\ UNCHANGED mutex
    /\ UNCHANGED <<file, server, strays, adrift, begun>>

\* It asks the server to end each session, and goes on when that fails.
Revoke(t) ==
    /\ task[t].pc = "revoking"
    /\ \E w \in task[t].todo :
        /\ Becomes(t, [task[t] EXCEPT !.todo = @ \ {w}])
        /\ revoked' \in {revoked, revoked \cup {stored[w].family}}
    /\ UNCHANGED <<mutex, lock, file, head, reused, strays, adrift, begun>>

\* It clears the file last.
Clear(t) ==
    /\ task[t].pc = "revoking"
    /\ task[t].todo = {}
    /\ stored' = [w \in Workspaces |-> IF w \in Scope(t) THEN None ELSE stored[w]]
    /\ active' = IF task[t].aim = "all" \/ active \in Scope(t) THEN Nowhere ELSE active
    /\ Quit(t)
    /\ UNCHANGED <<server, strays, adrift, begun>>

ClearFails(t) ==
    /\ task[t].pc = "revoking"
    /\ task[t].todo = {}
    /\ Quit(t)
    /\ UNCHANGED <<file, server, strays, adrift, begun>>

-----------------------------------------------------------------------------
Refreshes(t) ==
    \/ TakeMutex(t) \/ TakeLock(t) \/ Missing(t) \/ Adopt(t) \/ Send(t)
    \/ Serve(t) \/ Unreached(t) \/ Unheard(t)
    \/ Store(t) \/ StoreFails(t) \/ Rejected(t)
Progress(t) ==
    \/ Served(t) \/ Unauthorized(t) \/ Refreshes(t)
    \/ StartLogout(t) \/ Revoke(t) \/ Clear(t) \/ ClearFails(t)
Next ==
    \/ ServeStray
    \/ \E w \in Workspaces : Login(w) \/ Activate(w)
    \/ \E t \in Tasks : Begin(t) \/ Leave(t) \/ Progress(t)
                         \/ LockFails(t) \/ Abandon(t)

Spec == Init /\ [][Next]_vars
\* A task goes on whenever it can: requests have timeouts, and a lock that is
\* free is taken. Nothing bounds the wait for a lock that is held, so neither
\* LockFails nor Abandon is among the steps that a task owes.
FairSpec == Spec /\ \A t \in Tasks : WF_vars(Progress(t))

-----------------------------------------------------------------------------
TypeOK ==
    /\ task \in [Tasks -> TaskState]
    /\ mutex \in [Processes -> Tasks \cup {Free}]
    /\ lock \in Tasks \cup {Free}
    /\ stored \in [Workspaces -> Token \cup {None}]
    /\ active \in Workspaces \cup {Nowhere}
    /\ head \in [Families -> Nat]
    /\ revoked \subseteq Families
    /\ strays \subseteq Token
    /\ adrift \subseteq Families
    /\ reused \subseteq Families
    /\ begun \in Nat

\* Any number of tasks in any number of processes may refresh, log in, switch
\* and log out at once: a family is revoked for reuse only after a presented
\* token went out of sight (lost reply, late request, death, failed write).
ReuseNeedsALoss == reused \subseteq adrift

\* A token that a refresh returns, rotated or adopted, is the newest of its
\* family, unless a result of that family went out of sight.
ReturnsNewest ==
    [][\A t \in Tasks :
         task[t].pc \in {"reading", "answered"} /\ task'[t].pc \in {"calling", "retrying"}
         => LET k == task'[t].token IN k.family \in adrift \/ k.gen = head'[k.family]]_vars

\* A workspace's stored token is only ever replaced by its own successor or by
\* that of a new login: no refresh that began before a logout or a login
\* brings back the old login, and none writes to another workspace.
StoreFollowsLogin ==
    [][\A w \in Workspaces :
         LET old == stored[w]
             new == stored'[w] IN
         \/ new \in {old, None}
         \/ new.gen = 1 /\ head[new.family] = 0
         \/ old # None /\ new = Successor(old)]_vars

\* A request or a logout that begins ends, whoever else holds the locks and
\* whatever happens to the holders: only MaxBegun of them begin, and again and
\* again there is none under way.
EveryTaskEnds == []<>(\A t \in Tasks : task[t].pc = "idle")
=============================================================================
