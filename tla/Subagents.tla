------------------------------ MODULE Subagents ------------------------------
(***************************************************************************)
(* The agents that a session starts (subagents/src/agent-manager.ts), from *)
(* spawn through the queue and the isolated copy of the repository to the  *)
(* end of the run, with abort, resume, changed limits and waitForAll, and  *)
(* what the session is told (CompletionNotices).                           *)
(*                                                                         *)
(* JavaScript runs one callback at a time: an action is what happens       *)
(* between two awaits. A run takes a slot of its pool before its first     *)
(* await and gives it back as it settles, and whoever gives one back       *)
(* drains the queue.                                                       *)
(***************************************************************************)
EXTENDS CompletionNotices, Integers, Sequences

CONSTANTS
    Kind,         \* how each agent is spawned, see Kinds
    Isolated,     \* agents that work in a copy of the repository
    Owner,        \* the agent that spawns a child
    Limits,       \* what the user may set maxConcurrent to
    ForegroundLimits, \* and maxConcurrentForeground, 0 for no limit
    MaxRuns       \* bound on the runs and queued resumes of each agent

\* background: the Agent tool with run_in_background, or a job of the scheduler;
\* blocking: spawnAndWait; child: an agent spawned by an agent.
Kinds == {"background", "blocking", "child"}

ASSUME SubagentsAssumption ==
    /\ Kind \in [Agents -> Kinds]
    /\ Isolated \subseteq Agents
    /\ Owner \in [{a \in Agents : Kind[a] = "child"} -> Agents]
    /\ Limits \subseteq Nat \ {0}
    /\ ForegroundLimits \subseteq Nat
    /\ MaxRuns \in [Agents -> Nat \ {0}]

VARIABLES
    rec,      \* the record of each agent
    run,      \* its runs, in the order in which they began
    queue,    \* agents that wait for a slot
    used,     \* runningBackground and runningForeground
    limit,    \* maxConcurrent and maxConcurrentForeground
    caller,   \* where the tool call that spawned the agent is
    desk,     \* announcements, see CompletionNotices
    owed      \* history: agents whose last result nobody has been told

vars == <<rec, run, queue, used, limit, caller, desk, owed>>

-----------------------------------------------------------------------------
Pools == {"background", "foreground"}
NoPool == "none"

\* ended: completedAt is set; consumed: resultConsumed.
Record == [status : {"unborn", "queued", "running", "done", "stopped", "gone"},
           background : BOOLEAN, ended : BOOLEAN, consumed : BOOLEAN]
Unborn == [status |-> "unborn", background |-> FALSE, ended |-> FALSE,
           consumed |-> FALSE]
\* copying: the repository is being copied; running; inline: a resume that its
\* caller waits for; tidying: the run is over and its copy is being removed;
\* discarding: it was stopped while it was copied; void: it never ran.
Run == [at : {"copying", "running", "inline", "tidying", "discarding", "over", "void"},
        pool : Pools \cup {NoPool}]
\* The tool call that spawned an agent: starting it; a job of the scheduler; at the
\* gate of a queued one; waiting for its run; it has returned.
Callers == {"none", "starting", "job", "gate", "run", "back"}
\* The runs of the agents, by their place.
Turns == UNION {{a} \X (1..MaxRuns[a]) : a \in Agents}
InFlight == {"copying", "running", "tidying"}
\* The runs that hold a slot of pool p.
Slots(n, p) ==
    {t \in Turns : /\ t[2] \in DOMAIN n[t[1]]
                   /\ n[t[1]][t[2]].at \in InFlight /\ n[t[1]][t[2]].pool = p}

TopLevel(a) == Kind[a] # "child"
Live(r) == r.status \in {"queued", "running"}
\* poolFor
PoolFor(a, r, l) ==
    IF ~TopLevel(a) THEN NoPool
    ELSE IF r.background THEN "background"
    ELSE IF l.foreground > 0 /\ Kind[a] = "blocking" THEN "foreground"
    ELSE NoPool
\* How many more runs pool p has room for.
Room(p, u, l) ==
    IF p = "foreground" /\ l.foreground = 0 THEN Cardinality(Agents)
                                            ELSE l[p] - u[p]
\* The pool on which a queued agent waits: a resume is always detached.
WaitsOn(a, n) ==
    IF Kind[a] = "blocking" /\ n[a] = <<>> THEN "foreground" ELSE "background"

Init ==
    /\ rec = [a \in Agents |-> Unborn]
    /\ run = [a \in Agents |-> <<>>]
    /\ queue = <<>>
    /\ used = [p \in Pools |-> 0]
    /\ limit \in [background : Limits, foreground : ForegroundLimits]
    /\ caller = [a \in Agents |-> "none"]
    /\ desk = EmptyDesk
    /\ owed = {}

-----------------------------------------------------------------------------
Takes(u, p) == IF p = NoPool THEN u ELSE [u EXCEPT ![p] = @ + 1]
Gives(u, p) == IF p = NoPool THEN u ELSE [u EXCEPT ![p] = @ - 1]

\* The run of an agent that starts with record r: a first run may need a copy,
\* a resume has what it needs.
Begins(a, r, n, l) ==
    [at |-> IF n = <<>> /\ a \in Isolated THEN "copying" ELSE "running",
     pool |-> PoolFor(a, r, l)]

\* The queue without the entries at positions gone.
Without(q, gone) ==
    LET kept == DOMAIN q \ gone IN
    [i \in 1..Cardinality(kept) |->
        q[CHOOSE j \in kept : Cardinality({k \in kept : k < j}) = i - 1]]

\* Entry i of the queue is the first of an agent that still waits.
Waits(i, q, r) ==
    r[q[i]].status = "queued" /\ \A j \in 1..(i - 1) : q[j] # q[i]
\* Those before entry i that wait on the same pool.
Ahead(i, q, r, n) ==
    {j \in 1..(i - 1) : Waits(j, q, r) /\ WaitsOn(q[j], n) = WaitsOn(q[i], n)}
\* drainQueue. The loop takes the earliest entry whose pool has room until there
\* is none: those which fewer entries of their pool precede than it has room
\* for. An entry whose agent is not queued any more is dropped, and takes no
\* room. q, r, n, u, c, l: the queue, the records, the runs, the counters, the
\* callers and the limits as the drain finds them.
Taken(q, r, n, u, l) ==
    {i \in DOMAIN q : Cardinality(Ahead(i, q, r, n)) < Room(WaitsOn(q[i], n), u, l)}
Drains(q, r, n, u, c, l) ==
    LET taken == Taken(q, r, n, u, l)
        started == {q[i] : i \in {j \in taken : Waits(j, q, r)}}
        charged(p) == {a \in started : PoolFor(a, r[a], l) = p}
    IN
    /\ queue' = Without(q, taken)
    /\ rec' = [a \in Agents |-> IF a \in started THEN [r[a] EXCEPT !.status = "running"]
                                                 ELSE r[a]]
    /\ run' = [a \in Agents |-> IF a \in started
                                THEN Append(n[a], Begins(a, r[a], n[a], l))
                                ELSE n[a]]
    /\ used' = [p \in Pools |-> u[p] + Cardinality(charged(p))]
    \* The gate opens when the start has settled.
    /\ caller' = [a \in Agents |-> IF /\ c[a] = "gate"
                                      /\ \E i \in taken : q[i] = a
                                      /\ ~(a \in started /\ a \in Isolated)
                                   THEN "run" ELSE c[a]]

\* The call that spawned agent a goes on, now that its start has settled.
StartSettled(a) ==
    [caller EXCEPT ![a] = CASE @ = "gate" -> "run" [] @ = "starting" -> "none" [] OTHER -> @]
\* The Agent tool adds a started agent to the batch.
JoinsBatch(a) == IF caller[a] = "starting" THEN Joins(desk, a) ELSE desk

\* The children of a are stopped, once its run has settled.
ChildrenStopped(a, r) ==
    [c \in Agents |-> IF Kind[c] = "child" /\ Owner[c] = a /\ r[c].status = "running"
                      THEN [r[c] EXCEPT !.status = "stopped", !.ended = TRUE]
                      ELSE r[c]]
\* onComplete for agent a with record r.
Reports(a, r) ==
    /\ desk' = IF TopLevel(a) THEN Completed(desk, a, r.consumed) ELSE desk
    /\ owed' = IF TopLevel(a) /\ r.ended /\ ~r.consumed THEN owed \cup {a} ELSE owed
Quiet == UNCHANGED <<desk, owed>>

-----------------------------------------------------------------------------
\* spawn: the record is queued if its pool is full, or starts. A job of the
\* scheduler bypasses the queue.
Spawn(a, scheduled) ==
    LET new == [status |-> "running", background |-> Kind[a] = "background",
                ended |-> FALSE, consumed |-> FALSE]
        p == PoolFor(a, new, limit)
        full == p # NoPool /\ ~scheduled /\ Room(p, used, limit) <= 0
    IN
    /\ rec[a].status = "unborn"
    /\ scheduled => Kind[a] = "background"
    /\ Kind[a] = "child" => \E i \in DOMAIN run[Owner[a]] :
                                run[Owner[a]][i].at \in {"running", "inline"}
    /\ \/ /\ full
          /\ rec' = [rec EXCEPT ![a] = [new EXCEPT !.status = "queued"]]
          /\ queue' = Append(queue, a)
          /\ caller' = [caller EXCEPT ![a] = IF Kind[a] = "blocking" THEN "gate" ELSE "none"]
          /\ desk' = IF Kind[a] = "background" THEN Joins(desk, a) ELSE desk
          /\ UNCHANGED <<run, used>>
       \* The parent was interrupted before its call could wait.
       \/ /\ full /\ Kind[a] = "blocking"
          /\ rec' = [rec EXCEPT ![a] = [new EXCEPT !.status = "stopped", !.ended = TRUE]]
          /\ caller' = [caller EXCEPT ![a] = "run"]
          /\ UNCHANGED <<queue, run, used, desk>>
       \/ /\ ~full
          /\ rec' = [rec EXCEPT ![a] = new]
          /\ run' = [run EXCEPT ![a] = <<Begins(a, new, <<>>, limit)>>]
          /\ used' = Takes(used, p)
          /\ caller' = [caller EXCEPT ![a] =
                 CASE scheduled -> "job"
                   [] Kind[a] = "blocking" -> "run"
                   [] Kind[a] = "background" /\ a \in Isolated -> "starting"
                   [] OTHER -> "none"]
          /\ desk' = IF Kind[a] = "background" /\ a \notin Isolated /\ ~scheduled
                     THEN Joins(desk, a) ELSE desk
          /\ UNCHANGED queue
    /\ UNCHANGED <<limit, owed>>

\* Mutant: a run that was stopped while it was copied keeps its slot.
CopyDoneKeepsSlot(a) ==
    /\ run[a] # <<>> /\ run[a][1].at = "copying"
    /\ IF rec[a].status = "running"
       THEN /\ run' = [run EXCEPT ![a][1].at = "running"]
            /\ caller' = StartSettled(a)
            /\ desk' = JoinsBatch(a)
       ELSE /\ run' = [run EXCEPT ![a][1].at = "discarding"]
            /\ UNCHANGED <<caller, desk>>
    /\ UNCHANGED <<rec, queue, used, limit, owed>>
\* The copy of the repository is there: the run begins, unless it was stopped.
CopyDone(a) ==
    /\ run[a] # <<>> /\ run[a][1].at = "copying"
    /\ IF rec[a].status = "running"
       THEN /\ run' = [run EXCEPT ![a][1].at = "running"]
            /\ caller' = StartSettled(a)
            /\ desk' = JoinsBatch(a)
            /\ UNCHANGED used
       ELSE /\ run' = [run EXCEPT ![a][1].at = "discarding"]
            /\ used' = Gives(used, run[a][1].pool)
            /\ UNCHANGED <<caller, desk>>
    /\ UNCHANGED <<rec, queue, limit, owed>>

\* The copy of a stopped run has been removed.
Discarded(a) ==
    /\ run[a] # <<>> /\ run[a][1].at = "discarding"
    /\ Drains(queue, rec, [run EXCEPT ![a][1].at = "void"], used, StartSettled(a), limit)
    /\ desk' = JoinsBatch(a)
    /\ UNCHANGED <<limit, owed>>

\* The repository cannot be copied. A start from the queue leaves a failed
\* record, an immediate one leaves none and its call throws.
CopyFails(a) ==
    LET queued == caller[a] = "gate" \/ (Kind[a] = "background" /\ caller[a] = "none")
        r == IF queued
             THEN [rec[a] EXCEPT !.status = "done", !.ended = TRUE,
                                 !.consumed = @ \/ Kind[a] = "blocking"]
             ELSE [rec[a] EXCEPT !.status = "gone"]
    IN
    /\ run[a] # <<>> /\ run[a][1].at = "copying"
    /\ Drains(queue, [rec EXCEPT ![a] = r], [run EXCEPT ![a][1].at = "void"],
              Gives(used, run[a][1].pool), StartSettled(a), limit)
    /\ IF queued THEN Reports(a, r) ELSE Quiet
    /\ UNCHANGED limit

\* A run has settled: children, slot, report, queue.
Settles(a, i, r0) ==
    LET r == [r0 EXCEPT !.consumed = @ \/ (i = 1 /\ ~r0.background)]
        all == ChildrenStopped(a, [rec EXCEPT ![a] = r])
        runs == [run EXCEPT ![a][i].at = "over"]
        freed == Gives(used, run[a][i].pool)
    IN
    /\ IF i > 1 \/ r.background \/ run[a][i].pool # NoPool
       THEN Drains(queue, all, runs, freed, caller, limit)
       ELSE /\ rec' = all /\ run' = runs /\ used' = freed
            /\ UNCHANGED <<queue, caller>>
    /\ Reports(a, r)

\* The run of an agent is over, for whatever reason. A stop keeps its status.
RunEnds(a, i) ==
    LET r == [rec[a] EXCEPT !.status = IF @ = "stopped" THEN @ ELSE "done", !.ended = TRUE] IN
    /\ run[a][i].at = "running"
    /\ IF i = 1 /\ a \in Isolated
       THEN /\ rec' = [rec EXCEPT ![a] = r]
            /\ run' = [run EXCEPT ![a][i].at = "tidying"]
            /\ UNCHANGED <<queue, used, caller>>
            /\ Quiet
       ELSE Settles(a, i, r)
    /\ UNCHANGED limit

\* Its copy of the repository has been removed.
Tidied(a, i) ==
    /\ run[a][i].at = "tidying"
    /\ Settles(a, i, rec[a])
    /\ UNCHANGED limit

-----------------------------------------------------------------------------
\* A conversation that can be taken up again: its first run came to have one.
HasSession(a) == run[a] # <<>> /\ run[a][1].at \in {"running", "tidying", "over"}
Queued(a) == Cardinality({i \in DOMAIN queue : queue[i] = a})
MayResume(a) ==
    /\ TopLevel(a) /\ HasSession(a)
    /\ Len(run[a]) + Queued(a) < MaxRuns[a]

\* resume in the background: refused while the record is live.
Resume(a) ==
    LET r == [status |-> "queued", background |-> TRUE, ended |-> FALSE, consumed |-> FALSE]
    IN
    /\ MayResume(a)
    /\ ~Live(rec[a])
    /\ IF Room("background", used, limit) <= 0
       THEN /\ rec' = [rec EXCEPT ![a] = r]
            /\ queue' = Append(queue, a)
            /\ UNCHANGED <<run, used>>
       ELSE /\ rec' = [rec EXCEPT ![a] = [r EXCEPT !.status = "running"]]
            /\ run' = [run EXCEPT ![a] = Append(@, Begins(a, r, run[a], limit))]
            /\ used' = Takes(used, "background")
            /\ UNCHANGED queue
    /\ desk' = Joins(desk, a)
    /\ owed' = owed \ {a}
    /\ UNCHANGED <<limit, caller>>

\* resume while the caller waits: whatever the record says.
ResumeInline(a) ==
    /\ MayResume(a)
    /\ rec' = [rec EXCEPT ![a].status = "running", ![a].ended = FALSE]
    /\ run' = [run EXCEPT ![a] = Append(@, [at |-> "inline", pool |-> NoPool])]
    /\ owed' = owed \ {a}
    /\ UNCHANGED <<queue, used, limit, caller, desk>>

InlineEnds(a, i) ==
    LET r == [rec[a] EXCEPT !.status = "done", !.ended = TRUE] IN
    /\ run[a][i].at = "inline"
    /\ rec' = ChildrenStopped(a, [rec EXCEPT ![a] = r])
    /\ run' = [run EXCEPT ![a][i].at = "over"]
    /\ UNCHANGED <<queue, used, limit, caller, desk, owed>>

\* Mutant: the call that waits for a queued agent is not woken.
AbortUnheard(a) ==
    /\ Live(rec[a])
    /\ rec' = [rec EXCEPT ![a].status = "stopped", ![a].ended = TRUE]
    /\ queue' = Without(queue, {i \in DOMAIN queue : queue[i] = a})
    /\ UNCHANGED <<run, used, limit, caller, desk, owed>>
\* abort: a queued agent leaves the queue, which wakes its caller; the run of a
\* running one is told, and settles in its own time.
Abort(a) ==
    /\ Live(rec[a])
    /\ rec' = [rec EXCEPT ![a].status = "stopped", ![a].ended = TRUE]
    /\ IF rec[a].status = "queued"
       THEN /\ queue' = Without(queue, {i \in DOMAIN queue : queue[i] = a})
            /\ caller' = [caller EXCEPT ![a] = IF @ = "gate" THEN "run" ELSE @]
       ELSE UNCHANGED <<queue, caller>>
    /\ UNCHANGED <<run, used, limit, desk, owed>>

\* spawnAndWait returns: its start and its run are over, or it has none.
CallerReturns(a) ==
    /\ caller[a] = "run"
    /\ run[a] # <<>> => run[a][1].at \in {"over", "void"}
    /\ caller' = [caller EXCEPT ![a] = "back"]
    /\ UNCHANGED <<rec, run, queue, used, limit, desk, owed>>

\* get_subagent_result, or another extension's consumeResult.
Consume(a) ==
    /\ TopLevel(a) /\ rec[a].status \in {"done", "stopped"} /\ ~rec[a].consumed
    /\ rec' = [rec EXCEPT ![a].consumed = TRUE]
    /\ desk' = Cancels(desk, One(a))
    /\ owed' = owed \ {a}
    /\ UNCHANGED <<run, queue, used, limit, caller>>

\* A message to a live agent: its answer is news again.
Steer(a) ==
    /\ TopLevel(a) /\ Live(rec[a]) /\ rec[a].consumed
    /\ rec' = [rec EXCEPT ![a].consumed = FALSE]
    /\ UNCHANGED <<run, queue, used, limit, caller, desk, owed>>

\* Mutant: a higher limit is only of use to the next run that ends.
SetLimitLazily ==
    \E l \in [background : Limits, foreground : ForegroundLimits] :
        /\ limit' = l
        /\ \E p \in Pools : l[p] # limit[p] /\ \A o \in Pools \ {p} : l[o] = limit[o]
        /\ UNCHANGED <<rec, run, queue, used, caller, desk, owed>>
\* setMaxConcurrent and setMaxConcurrentForeground.
SetLimit ==
    \E l \in [background : Limits, foreground : ForegroundLimits] :
        /\ limit' = l
        /\ \E p \in Pools : l[p] # limit[p] /\ \A o \in Pools \ {p} : l[o] = limit[o]
        /\ Drains(queue, rec, run, used, caller, l)
        /\ UNCHANGED <<desk, owed>>

-----------------------------------------------------------------------------
\* waitForAll: a turn of its loop drains the queue. Then it waits.
WaitTurn ==
    /\ Drains(queue, rec, run, used, caller, limit)
    /\ UNCHANGED <<limit, desk, owed>>

-----------------------------------------------------------------------------
\* The debounce timer of the batch.
FinalizeBatch ==
    /\ MayFinalize(desk)
    /\ desk' = Finalized(desk, {a \in desk.batch :
                   rec[a].status # "gone" /\ rec[a].ended /\ ~rec[a].consumed})
    /\ UNCHANGED <<rec, run, queue, used, limit, caller, owed>>

GroupTimeout(g) ==
    /\ desk.group[g].timer
    /\ desk' = TimedOut(desk, g)
    /\ UNCHANGED <<rec, run, queue, used, limit, caller, owed>>

\* An announcement goes out, about those whose result is still unread.
Announce(n) ==
    /\ n \in desk.nudges
    /\ desk' = Cancels(desk, n)
    /\ owed' = owed \ {a \in n.about : ~rec[a].consumed}
    /\ UNCHANGED <<rec, run, queue, used, limit, caller>>

-----------------------------------------------------------------------------
Startup(a) == CopyDone(a) \/ Discarded(a) \/ CopyFails(a)
Ends(a) == \E i \in DOMAIN run[a] : RunEnds(a, i) \/ Tidied(a, i) \/ InlineEnds(a, i)
Timers ==
    \/ FinalizeBatch
    \/ \E g \in Groups : GroupTimeout(g)
    \/ \E n \in desk.nudges : Announce(n)
Next ==
    \/ \E a \in Agents :
        \/ \E scheduled \in BOOLEAN : Spawn(a, scheduled)
        \/ Startup(a) \/ Ends(a) \/ Resume(a) \/ ResumeInline(a)
        \/ Abort(a) \/ CallerReturns(a) \/ Consume(a) \/ Steer(a)
    \/ SetLimit \/ WaitTurn \/ Timers

Spec == Init /\ [][Next]_vars

-----------------------------------------------------------------------------
TypeOK ==
    /\ rec \in [Agents -> Record]
    /\ run \in [Agents -> Seq(Run)] /\ \A a \in Agents : Len(run[a]) <= MaxRuns[a]
    /\ queue \in Seq(Agents)
    /\ used \in [Pools -> Nat]
    /\ limit \in [background : Limits, foreground : ForegroundLimits]
    /\ caller \in [Agents -> Callers]
    /\ desk \in Desk
    /\ owed \subseteq Agents

\* The counters are the runs that hold a slot: none is given back twice or
\* kept, however a start, a stop, a resume or a change of the limits meet.
SlotsAreHeld ==
    \A p \in Pools : used[p] = Cardinality(Slots(run, p))

\* Nobody waits for a pool that has room, except while the copy of a stopped run
\* is being removed: its end drains the queue.
NobodyIsStranded ==
    (\E i \in DOMAIN queue : Room(WaitsOn(queue[i], run), used, limit) > 0)
        => \E a \in Agents : run[a] # <<>> /\ run[a][1].at = "discarding"

\* A call that waits at its gate has somebody who will open it: the queue, or
\* the start of its agent.
GatesOpen ==
    \A a \in Agents : caller[a] = "gate" =>
        \/ \E i \in DOMAIN queue : queue[i] = a
        \/ run[a] # <<>> /\ run[a][1].at \in {"copying", "discarding"}

\* A result that nobody was told of is in good hands: the batch, a group that will not
\* wait for ever, or an announcement on hold has it, whatever joined, timed out, was read
\* or resumed meanwhile (index.ts, group-join.ts).
ResultsAreHeld ==
    \A a \in owed :
        \/ a \in desk.batch
        \/ \E g \in Groups : desk.group[g].timer /\ a \in desk.group[g].held
        \/ \E n \in desk.nudges : a \in n.about
=============================================================================
