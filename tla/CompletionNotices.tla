-------------------------- MODULE CompletionNotices --------------------------
(***************************************************************************)
(* How the session learns that background agents have finished             *)
(* (subagents/src/group-join.ts and the join mode of index.ts). Agents     *)
(* started within one debounce window form a batch; a batch of two or more *)
(* becomes a group, whose results are announced together, when the last    *)
(* member has finished or half a minute after the first. An announcement   *)
(* is held for a moment, in which reading the result calls it off.         *)
(*                                                                         *)
(* A desk holds all of this. The operators give the desk that a call       *)
(* leaves behind.                                                          *)
(***************************************************************************)
EXTENDS Naturals, FiniteSets

CONSTANTS
    Agents,
    MaxGroups      \* bound on groups with somebody to wait for

ASSUME NoticesAssumption == IsFiniteSet(Agents) /\ MaxGroups \in Nat

Groups == 1..MaxGroups
NoGroup == 0

\* members: who it waits for; held: who has finished; timer: it will not wait
\* for ever.
Group == [members : SUBSET Agents, held : SUBSET Agents, timer : BOOLEAN]
EmptyGroup == [members |-> {}, held |-> {}, timer |-> FALSE]

\* An announcement on hold. One of a single agent and one of a group of one are
\* different: they have different keys.
Nudge == [kind : {"one", "group"}, about : SUBSET Agents]
One(a) == [kind |-> "one", about |-> {a}]
Together(as) == [kind |-> "group", about |-> as]

\* batch: currentBatchAgents, to be finalized when nothing joins it for a while.
Desk == [batch : SUBSET Agents, group : [Groups -> Group],
         belongs : [Agents -> Groups \cup {NoGroup}], nudges : SUBSET Nudge]
EmptyDesk == [batch |-> {}, group |-> [g \in Groups |-> EmptyGroup],
              belongs |-> [a \in Agents |-> NoGroup], nudges |-> {}]

-----------------------------------------------------------------------------
\* Nobody is routed to group g, and no timer will look at it again.
Forgotten(d, g) == ~d.group[g].timer /\ \A a \in Agents : d.belongs[a] # g
\* A forgotten group is as good as none, and its number may be used again.
Swept(d) ==
    [d EXCEPT !.group = [g \in Groups |-> IF Forgotten(d, g) THEN EmptyGroup
                                                             ELSE d.group[g]]]

Joins(d, a) == [d EXCEPT !.batch = @ \cup {a}]
Holds(d, n) == [d EXCEPT !.nudges = @ \cup {n}]
Cancels(d, n) == [d EXCEPT !.nudges = @ \ {n}]

\* Nobody of the agents as is routed to a group any more.
Released(d, as) ==
    [d EXCEPT !.belongs = [a \in Agents |-> IF a \in as THEN NoGroup ELSE @[a]]]

\* Group g has all it waits for: its results go out together.
Delivered(d, g) ==
    Swept(Released(Holds([d EXCEPT !.group[g].timer = FALSE],
                         Together(d.group[g].held)),
                   d.group[g].members))

\* The results of as are in the hands of group g.
Held(d, g, as) ==
    LET e == [d EXCEPT !.group[g].held = @ \cup as, !.group[g].timer = TRUE] IN
    IF as = {} THEN d
    ELSE IF Cardinality(e.group[g].held) >= Cardinality(e.group[g].members)
    THEN Delivered(e, g)
    ELSE e

\* onAgentComplete, or an announcement of its own.
Routed(d, a) ==
    IF d.belongs[a] = NoGroup THEN Holds(d, One(a)) ELSE Held(d, d.belongs[a], {a})

\* What the manager's callback does when agent a has finished: its result was
\* read already, or the batch will see to it, or it is routed.
Completed(d, a, consumed) ==
    IF consumed \/ a \in d.batch THEN d ELSE Routed(d, a)

\* Mutant: who finished before the batch became a group is not fed into it.
FinalizedLate(d, finished) ==
    LET free == {g \in Groups : d.group[g] = EmptyGroup}
        g == CHOOSE n \in free : \A m \in free : n <= m
        closed == [d EXCEPT !.batch = {}]
        formed == [closed EXCEPT
                     !.group[g] = [EmptyGroup EXCEPT !.members = d.batch],
                     !.belongs = [a \in Agents |-> IF a \in d.batch THEN g ELSE @[a]]]
    IN  IF Cardinality(d.batch) >= 2
        THEN Held(Swept(formed), g, {})
        ELSE [closed EXCEPT !.nudges = @ \cup {One(a) : a \in finished}]
\* finalizeBatch. Those of the batch who have finished, unread, were deferred.
Finalized(d, finished) ==
    LET free == {g \in Groups : d.group[g] = EmptyGroup}
        g == CHOOSE n \in free : \A m \in free : n <= m
        closed == [d EXCEPT !.batch = {}]
        formed == [closed EXCEPT
                     !.group[g] = [EmptyGroup EXCEPT !.members = d.batch],
                     !.belongs = [a \in Agents |-> IF a \in d.batch THEN g ELSE @[a]]]
    IN  IF Cardinality(d.batch) >= 2
        THEN Held(Swept(formed), g, finished)
        ELSE [closed EXCEPT !.nudges = @ \cup {One(a) : a \in finished}]
\* There is a batch, and a number for the group it may form.
MayFinalize(d) ==
    /\ d.batch # {}
    /\ Cardinality(d.batch) >= 2 => \E g \in Groups : d.group[g] = EmptyGroup

\* onTimeout: what is held goes out, and the group waits for the rest.
TimedOut(d, g) ==
    LET gone == d.group[g].held IN
    Swept(Released(
        Holds([d EXCEPT !.group[g] = [EmptyGroup EXCEPT
                                        !.members = d.group[g].members \ gone]],
              Together(gone)), gone))
=============================================================================
