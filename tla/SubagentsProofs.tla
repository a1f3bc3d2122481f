--------------------------- MODULE SubagentsProofs ---------------------------
(***************************************************************************)
(* Proofs about the agents of a session: for any agents, limits and bounds,*)
(* however starts, stops, resumes and changed limits meet, the counters    *)
(* are the slots held, nobody waits for a pool that has room unless a copy *)
(* of a stopped run is being removed, every call at its gate has somebody  *)
(* who opens it, and no result is forgotten.                               *)
(***************************************************************************)
EXTENDS Subagents, FiniteSetTheorems, SequenceTheorems, WellFoundedInduction, TLAPS

\* Where agent a is in queue q.
Places(q, a) == {i \in DOMAIN q : q[i] = a}
\* Agent a is in queue q once at most.
Once(q, a) == \A i, j \in Places(q, a) : i = j
\* The first of the runs s went on to have a conversation.
Talked(s) == s # <<>> /\ s[1].at \in {"running", "tidying", "over"}

-----------------------------------------------------------------------------
(* Finite sets of numbers, and the queue without some of its entries.       *)

\* A set of numbers has a least member.
LEMMA Least ==
    ASSUME NEW T, T \subseteq Nat, T # {}
    PROVE  \E m \in T : \A k \in T : m <= k
<1> DEFINE R == {pair \in Nat \X Nat : pair[1] < pair[2]}
<1>1. R = OpToRel(<, Nat)
  BY DEF OpToRel
<1>2. IsWellFoundedOn(R, Nat)
  BY <1>1, NatLessThanWellFounded
<1>3. PICK m \in T : \A k \in T : ~(<<k, m>> \in R)
  BY <1>2, WFMin
<1>4. \A k \in T : k \in Nat /\ m \in Nat /\ ~(k < m)
  BY <1>3
<1> QED
  BY <1>3, <1>4

\* A part of a finite set is smaller than the whole.
LEMMA Counts ==
    ASSUME NEW T, IsFiniteSet(T), NEW S, S \subseteq T
    PROVE  /\ IsFiniteSet(S) /\ Cardinality(S) \in Nat /\ Cardinality(T) \in Nat
           /\ Cardinality(S) <= Cardinality(T)
           /\ Cardinality(S) = Cardinality(T) => S = T
  BY FS_Subset, FS_CardinalityType

\* A set that is told apart in another one is no larger.
LEMMA Images ==
    ASSUME NEW S, NEW T, IsFiniteSet(T), NEW f \in [S -> T],
           \A x, y \in S : f[x] = f[y] => x = y
    PROVE  IsFiniteSet(S) /\ Cardinality(S) \in Nat /\ Cardinality(S) <= Cardinality(T)
<1>1. f \in Injection(S, T)
  BY DEF Injection, IsInjective
<1> QED
  BY <1>1, FS_Injection, FS_CardinalityType

\* Sets that correspond one to one are of one size.
LEMMA Matched ==
    ASSUME NEW S, NEW T, IsFiniteSet(S), NEW f \in [S -> T],
           \A x, y \in S : f[x] = f[y] => x = y,
           \A z \in T : \E x \in S : f[x] = z
    PROVE  IsFiniteSet(T) /\ Cardinality(T) = Cardinality(S)
<1>1. f \in Bijection(S, T)
  BY DEF Bijection, Injection, Surjection, IsInjective
<1>2. ExistsBijection(S, T)
  BY <1>1 DEF ExistsBijection
<1> QED
  BY <1>2, FS_Bijection

\* Of a set of R numbers or more, at least R have fewer than R before them.
LEMMA Forerunners ==
    ASSUME NEW S \in SUBSET Nat, IsFiniteSet(S), NEW R \in Nat, R <= Cardinality(S)
    PROVE  Cardinality({x \in S : Cardinality({y \in S : y < x}) < R}) >= R
<1> DEFINE before(x) == {y \in S : y < x}
<1> DEFINE T == {x \in S : Cardinality(before(x)) < R}
<1>0. /\ T \subseteq S /\ \A x \in S : x \in T <=> Cardinality(before(x)) < R
      /\ \A x : before(x) \subseteq S /\ \A y \in before(x) : y < x
  OBVIOUS
<1> HIDE DEF T, before
<1>1. /\ IsFiniteSet(T) /\ Cardinality(T) \in Nat /\ Cardinality(S) \in Nat
      /\ Cardinality(S) = Cardinality(T) => S = T
  BY <1>0, Counts
<1>2. ASSUME Cardinality(T) < R
      PROVE  FALSE
  <2>1. Cardinality(S) # Cardinality(T)
    BY <1>1, <1>2
  <2>2. S \ T # {}
    <3>1. S \ T = {} => S = T
      BY <1>0
    <3> QED
      BY <2>1, <3>1
  <2>3. PICK m \in S \ T : \A k \in S \ T : m <= k
    BY <2>2, Least
  <2>4. before(m) \subseteq T
    <3>1. ASSUME NEW y \in before(m), y \notin T
          PROVE  FALSE
      <4>1. y \in S /\ y < m
        BY <1>0, <3>1
      <4>2. m <= y
        BY <2>3, <3>1, <4>1
      <4> QED
        BY <2>3, <4>1, <4>2
    <3> QED
      BY <3>1
  <2>5. Cardinality(before(m)) \in Nat /\ Cardinality(before(m)) <= Cardinality(T)
    BY <1>1, <2>4, Counts
  <2>6. Cardinality(before(m)) < R
    BY <1>1, <1>2, <2>5
  <2> QED
    BY <1>0, <2>3, <2>6
<1>3. Cardinality(T) >= R
  BY <1>1, <1>2
<1> QED
  BY <1>3 DEF T, before

\* What is left of the queue are the other entries, one for one.
LEMMA WithoutIs ==
    ASSUME NEW q \in Seq(Agents), NEW gone
    PROVE  LET kept == DOMAIN q \ gone  w == Without(q, gone)
           IN  /\ w \in Seq(Agents)
               /\ \E f \in [DOMAIN w -> kept] :
                    /\ \A i \in DOMAIN w : w[i] = q[f[i]]
                    /\ \A i, j \in DOMAIN w : f[i] = f[j] => i = j
                    /\ \A k \in kept : \E i \in DOMAIN w : f[i] = k
<1> DEFINE kept == DOMAIN q \ gone
<1> DEFINE before(j) == {k \in kept : k < j}
<1> DEFINE rank == [j \in kept |-> Cardinality(before(j))]
<1> DEFINE N == Cardinality(kept)
<1>0. /\ \A j \in kept : rank[j] = Cardinality(before(j))
      /\ \A j : before(j) \subseteq kept /\ \A k \in kept : k \in before(j) <=> k < j
      /\ rank = [j \in kept |-> rank[j]]
  <2>1. \A j : before(j) \subseteq kept /\ \A k \in kept : k \in before(j) <=> k < j
    OBVIOUS
  <2> HIDE DEF before, kept
  <2>2. \A j \in kept : rank[j] = Cardinality(before(j))
    OBVIOUS
  <2>3. rank = [j \in kept |-> rank[j]]
    OBVIOUS
  <2> QED
    BY <2>1, <2>2, <2>3
<1>1. /\ kept \subseteq Nat /\ IsFiniteSet(kept) /\ N = Cardinality(kept) /\ N \in Nat
      /\ \A j \in kept : q[j] \in Agents
  <2>1. /\ Len(q) \in Nat /\ kept \subseteq 1..Len(q) /\ kept \subseteq Nat
        /\ \A j \in kept : q[j] \in Agents
    OBVIOUS
  <2> HIDE DEF kept
  <2>2. IsFiniteSet(1..Len(q))
    BY <2>1, FS_Interval
  <2> QED
    BY <2>1, <2>2, Counts
<1> HIDE DEF before, rank, kept, N
<1>2. ASSUME NEW j \in kept
      PROVE  IsFiniteSet(before(j)) /\ rank[j] \in Nat /\ rank[j] < N
  <2>1. before(j) \subseteq kept /\ before(j) # kept
    BY <1>0, <1>1
  <2>2. /\ IsFiniteSet(before(j)) /\ Cardinality(before(j)) \in Nat
        /\ Cardinality(before(j)) <= N /\ Cardinality(before(j)) # N
    BY <1>1, <2>1, Counts
  <2> QED
    BY <1>0, <1>1, <2>2
<1>3. ASSUME NEW i \in kept, NEW j \in kept, i < j
      PROVE  rank[i] < rank[j]
  <2>1. before(i) \subseteq before(j) /\ before(i) # before(j)
    BY <1>0, <1>1, <1>3
  <2>2. /\ Cardinality(before(i)) <= Cardinality(before(j))
        /\ Cardinality(before(i)) = Cardinality(before(j)) => before(i) = before(j)
    BY <1>2, <2>1, Counts
  <2> QED
    BY <1>0, <1>2, <2>1, <2>2
<1>4. \A i, j \in kept : rank[i] = rank[j] => i = j
  BY <1>1, <1>2, <1>3
<1>5. PICK M \in Int : M = N - 1 /\ M >= -1
  BY <1>1
<1>6. IsFiniteSet(0..M) /\ Cardinality(0..M) = Cardinality(kept)
  BY <1>1, <1>5, FS_Interval
<1>7. rank \in Surjection(kept, 0..M)
  <2>1. \A j \in kept : rank[j] \in 0..M
    BY <1>1, <1>2, <1>5
  <2>2. rank \in [kept -> 0..M]
    BY <1>0, <2>1
  <2>3. rank \in Injection(kept, 0..M)
    BY <1>4, <2>2 DEF Injection, IsInjective
  <2> QED
    BY <1>6, <2>3, FS_Injection
<1>8. \A i \in 1..N : \E j \in kept : rank[j] = i - 1
  <2>1. \A i \in 1..N : i - 1 \in 0..M
    BY <1>1, <1>5
  <2> QED
    BY <1>7, <2>1 DEF Surjection
<1> DEFINE pick(i) == CHOOSE j \in kept : Cardinality(before(j)) = i - 1
<1> DEFINE f == [i \in 1..N |-> pick(i)]
<1>9. f \in [1..N -> kept] /\ \A i \in 1..N : rank[f[i]] = i - 1
  <2>1. ASSUME NEW i \in 1..N
        PROVE  pick(i) \in kept /\ Cardinality(before(pick(i))) = i - 1
    <3>1. \E j \in kept : Cardinality(before(j)) = i - 1
      BY <1>0, <1>8
    <3> QED
      BY <3>1
  <2> HIDE DEF pick
  <2> QED
    BY <1>0, <2>1
<1>10. Without(q, gone) = [i \in 1..N |-> q[f[i]]]
  <2>1. Without(q, gone) = [i \in 1..N |-> q[pick(i)]]
    BY DEF Without, kept, before, N
  <2> HIDE DEF pick
  <2>2. \A i \in 1..N : f[i] = pick(i)
    OBVIOUS
  <2> QED
    BY <2>1, <2>2
<1> HIDE DEF f, pick
<1>11. /\ Without(q, gone) \in Seq(Agents) /\ DOMAIN Without(q, gone) = 1..N
       /\ \A i \in 1..N : Without(q, gone)[i] = q[f[i]]
  <2>1. \A i \in 1..N : q[f[i]] \in Agents
    BY <1>1, <1>9
  <2>2. Without(q, gone) \in [1..N -> Agents]
    BY <1>10, <2>1
  <2> QED
    BY <1>1, <1>10, <2>2
<1>12. \A i, j \in 1..N : f[i] = f[j] => i = j
  <2>1. \A i \in 1..N : i = rank[f[i]] + 1
    BY <1>1, <1>9
  <2> QED
    BY ONLY <2>1
<1>13. \A k \in kept : \E i \in 1..N : f[i] = k
  <2>1. ASSUME NEW k \in kept
        PROVE  \E i \in 1..N : f[i] = k
    <3>1. PICK i \in 1..N : i - 1 = rank[k]
      <4>1. rank[k] + 1 \in 1..N /\ rank[k] + 1 - 1 = rank[k]
        BY <1>1, <1>2
      <4> QED
        BY <1>2, <4>1
    <3>2. f[i] \in kept /\ rank[f[i]] = rank[k]
      BY <1>9, <3>1
    <3> QED
      BY <1>4, <3>2
  <2> QED
    BY <2>1
<1>14. /\ f \in [DOMAIN Without(q, gone) -> kept]
       /\ \A i \in DOMAIN Without(q, gone) : Without(q, gone)[i] = q[f[i]]
       /\ \A i, j \in DOMAIN Without(q, gone) : f[i] = f[j] => i = j
       /\ \A k \in kept : \E i \in DOMAIN Without(q, gone) : f[i] = k
  BY <1>9, <1>11, <1>12, <1>13
<1> QED
  BY ONLY <1>11, <1>14 DEF kept

\* What is left of the queue, and how often an agent is in it.
LEMMA WithoutKeeps ==
    ASSUME NEW q \in Seq(Agents), NEW gone, NEW w, w = Without(q, gone)
    PROVE  /\ w \in Seq(Agents)
           /\ \A i \in DOMAIN w : \E j \in DOMAIN q \ gone : w[i] = q[j]
           /\ \A j \in DOMAIN q \ gone : \E i \in DOMAIN w : w[i] = q[j]
           /\ \A a \in Agents :
                /\ IsFiniteSet(Places(q, a))
                /\ Cardinality(Places(w, a)) \in Nat
                /\ Cardinality(Places(w, a)) <= Cardinality(Places(q, a) \ gone)
           /\ \A a \in Agents :
                Once(q, a) => Once(w, a)
<1> DEFINE kept == DOMAIN q \ gone
<1>1. w \in Seq(Agents)
  BY WithoutIs
<1>2. PICK f \in [DOMAIN w -> kept] :
             /\ \A i \in DOMAIN w : w[i] = q[f[i]]
             /\ \A i, j \in DOMAIN w : f[i] = f[j] => i = j
             /\ \A k \in kept : \E i \in DOMAIN w : f[i] = k
  BY WithoutIs
<1>3. ASSUME NEW a \in Agents
      PROVE  /\ IsFiniteSet(Places(q, a))
             /\ Cardinality(Places(w, a)) \in Nat
             /\ Cardinality(Places(w, a)) <= Cardinality(Places(q, a) \ gone)
  <2>1. DOMAIN q = 1..Len(q) /\ IsFiniteSet(DOMAIN q)
    BY FS_Interval
  <2>2. Places(q, a) \subseteq DOMAIN q /\ Places(q, a) \ gone \subseteq DOMAIN q
    BY DEF Places
  <2>3. IsFiniteSet(Places(q, a)) /\ IsFiniteSet(Places(q, a) \ gone)
    BY <2>1, <2>2, Counts
  <2> DEFINE h == [i \in Places(w, a) |-> f[i]]
  <2>4. h \in [Places(w, a) -> Places(q, a) \ gone]
    BY <1>2 DEF Places
  <2>5. \A x, y \in Places(w, a) : h[x] = h[y] => x = y
    BY <1>2 DEF Places
  <2> HIDE DEF h
  <2> QED
    BY <2>3, <2>4, <2>5, Images
<1>4. ASSUME NEW a \in Agents, Once(q, a)
      PROVE  Once(w, a)
  <2>1. ASSUME NEW i \in Places(w, a), NEW j \in Places(w, a)
        PROVE  i = j
    <3>1. f[i] \in Places(q, a) /\ f[j] \in Places(q, a)
      BY <1>2 DEF Places
    <3> QED
      BY <1>2, <1>4, <3>1 DEF Places, Once
  <2> QED
    BY <2>1 DEF Once
<1>5. /\ \A i \in DOMAIN w : \E j \in kept : w[i] = q[j]
      /\ \A j \in kept : \E i \in DOMAIN w : w[i] = q[j]
  BY <1>2
<1> QED
  BY <1>1, <1>3, <1>4, <1>5

-----------------------------------------------------------------------------
(* The desk: whoever is told of a result stays in good hands.               *)

\* The result of agent a is in the batch, in a group that will not wait for ever, or in
\* an announcement on hold.
Covered(d, a) ==
    \/ a \in d.batch
    \/ \E g \in Groups : d.group[g].timer /\ a \in d.group[g].held
    \/ \E n \in d.nudges : a \in n.about
\* Whoever was in good hands still is.
Keeps(d, e) == \A a \in Agents : Covered(d, a) => Covered(e, a)

LEMMA JoinsKeeps ==
    ASSUME NEW d \in Desk, NEW a \in Agents
    PROVE  Joins(d, a) \in Desk /\ Keeps(d, Joins(d, a)) /\ Covered(Joins(d, a), a)
<1>1. /\ Joins(d, a) \in Desk /\ Joins(d, a).batch = d.batch \cup {a}
      /\ Joins(d, a).group = d.group /\ Joins(d, a).nudges = d.nudges
  BY DEF Joins, Desk
<1> QED
  BY <1>1 DEF Keeps, Covered

LEMMA HoldsKeeps ==
    ASSUME NEW d \in Desk, NEW n \in Nudge
    PROVE  /\ Holds(d, n) \in Desk /\ Keeps(d, Holds(d, n))
           /\ \A a \in n.about : Covered(Holds(d, n), a)
<1>1. /\ Holds(d, n) \in Desk /\ Holds(d, n).batch = d.batch
      /\ Holds(d, n).group = d.group /\ Holds(d, n).nudges = d.nudges \cup {n}
  BY DEF Holds, Desk
<1> QED
  BY <1>1 DEF Keeps, Covered

LEMMA CancelsKeeps ==
    ASSUME NEW d \in Desk, NEW n
    PROVE  /\ Cancels(d, n) \in Desk
           /\ \A a \in Agents : Covered(d, a) /\ a \notin n.about => Covered(Cancels(d, n), a)
<1>1. /\ Cancels(d, n) \in Desk /\ Cancels(d, n).batch = d.batch
      /\ Cancels(d, n).group = d.group /\ Cancels(d, n).nudges = d.nudges \ {n}
  BY DEF Cancels, Desk
<1> QED
  BY <1>1 DEF Covered

LEMMA NudgeTypes ==
    /\ \A a \in Agents : One(a) \in Nudge /\ One(a).about = {a}
    /\ \A as \in SUBSET Agents : Together(as) \in Nudge /\ Together(as).about = as
  BY DEF One, Together, Nudge

LEMMA SweptKeeps ==
    ASSUME NEW d \in Desk
    PROVE  Swept(d) \in Desk /\ Keeps(d, Swept(d))
<1> DEFINE gs == [g \in Groups |-> IF Forgotten(d, g) THEN EmptyGroup ELSE d.group[g]]
<1>1. EmptyGroup \in Group
  BY DEF EmptyGroup, Group
<1>2. /\ Swept(d).group = gs /\ Swept(d).batch = d.batch /\ Swept(d).nudges = d.nudges
      /\ Swept(d).belongs = d.belongs
      /\ Swept(d) = [batch |-> d.batch, group |-> gs, belongs |-> d.belongs, nudges |-> d.nudges]
  BY DEF Swept, Desk
<1>3. gs \in [Groups -> Group]
  BY <1>1 DEF Desk
<1>4. \A g \in Groups : d.group[g].timer => Swept(d).group[g] = d.group[g]
  BY <1>2 DEF Forgotten
<1>5. Swept(d) \in Desk
  BY <1>2, <1>3 DEF Desk
<1> QED
  BY <1>2, <1>4, <1>5 DEF Keeps, Covered

LEMMA ReleasedKeeps ==
    ASSUME NEW d \in Desk, NEW as
    PROVE  Released(d, as) \in Desk /\ Keeps(d, Released(d, as))
<1>1. /\ Released(d, as) \in Desk /\ Released(d, as).batch = d.batch
      /\ Released(d, as).group = d.group /\ Released(d, as).nudges = d.nudges
  BY DEF Released, Desk
<1> QED
  BY <1>1 DEF Keeps, Covered

\* A group delivers what it holds.
LEMMA DeliveredKeeps ==
    ASSUME NEW d \in Desk, NEW g \in Groups
    PROVE  /\ Delivered(d, g) \in Desk /\ Keeps(d, Delivered(d, g))
           /\ \A a \in d.group[g].held : Covered(Delivered(d, g), a)
<1> DEFINE closed == [d EXCEPT !.group[g].timer = FALSE]
<1> DEFINE sent == Holds(closed, Together(d.group[g].held))
<1> DEFINE freed == Released(sent, d.group[g].members)
<1>1. /\ d.group[g] \in Group /\ d.group[g].held \subseteq Agents
      /\ Together(d.group[g].held) \in Nudge
      /\ Together(d.group[g].held).about = d.group[g].held
  <2>1. d.group[g] \in Group
    BY DEF Desk
  <2>2. d.group[g].held \in SUBSET Agents
    BY <2>1 DEF Group
  <2> QED
    BY <2>1, <2>2, NudgeTypes
<1>2. /\ closed \in Desk /\ closed.batch = d.batch /\ closed.nudges = d.nudges
      /\ \A h \in Groups : h # g => closed.group[h] = d.group[h]
  BY DEF Desk, Group
<1>3. Delivered(d, g) = Swept(freed)
  BY DEF Delivered
<1> HIDE DEF closed
<1>4. /\ sent \in Desk /\ Keeps(closed, sent)
      /\ \A a \in d.group[g].held : Covered(sent, a)
  BY <1>1, <1>2, HoldsKeeps
<1>5. Keeps(d, sent)
  <2>1. ASSUME NEW a \in Agents, Covered(d, a)
        PROVE  Covered(sent, a)
    <3>1. CASE a \in d.group[g].held
      BY <1>4, <3>1
    <3>2. CASE a \notin d.group[g].held
      <4>1. Covered(closed, a)
        BY <1>2, <2>1, <3>2 DEF Covered
      <4> QED
        BY <1>4, <4>1 DEF Keeps
    <3> QED
      BY <3>1, <3>2
  <2> QED
    BY <2>1 DEF Keeps
<1> HIDE DEF sent
<1>6. freed \in Desk /\ Keeps(sent, freed)
  BY <1>4, ReleasedKeeps
<1> HIDE DEF freed
<1>7. Swept(freed) \in Desk /\ Keeps(freed, Swept(freed))
  BY <1>6, SweptKeeps
<1> QED
  BY <1>1, <1>3, <1>4, <1>5, <1>6, <1>7 DEF Keeps

LEMMA HeldKeeps ==
    ASSUME NEW d \in Desk, NEW g \in Groups, NEW as \in SUBSET Agents
    PROVE  /\ Held(d, g, as) \in Desk /\ Keeps(d, Held(d, g, as))
           /\ \A a \in as : Covered(Held(d, g, as), a)
<1> DEFINE m == [d.group[g] EXCEPT !.held = @ \cup as, !.timer = TRUE]
<1> DEFINE e == [d EXCEPT !.group[g].held = @ \cup as, !.group[g].timer = TRUE]
<1>1. d.group[g] \in Group
  BY DEF Desk
<1>2. /\ m \in Group /\ m.timer /\ m.held = d.group[g].held \cup as
  BY <1>1 DEF Group
<1>3. /\ e \in Desk /\ e.batch = d.batch /\ e.nudges = d.nudges
      /\ e.group[g] = m /\ \A h \in Groups : h # g => e.group[h] = d.group[h]
  BY <1>1, <1>2 DEF Desk
<1>4. Held(d, g, as) =
        IF as = {} THEN d
        ELSE IF Cardinality(e.group[g].held) >= Cardinality(e.group[g].members)
        THEN Delivered(e, g) ELSE e
  BY DEF Held
<1> HIDE DEF m, e
<1>5. Keeps(d, e) /\ \A a \in as : a \in e.group[g].held /\ Covered(e, a)
  BY <1>2, <1>3 DEF Keeps, Covered
<1>6. /\ Delivered(e, g) \in Desk /\ Keeps(e, Delivered(e, g))
      /\ \A a \in e.group[g].held : Covered(Delivered(e, g), a)
  BY <1>3, DeliveredKeeps
<1>7. CASE as = {}
  BY <1>4, <1>7 DEF Keeps
<1>10. as = {} \/ Held(d, g, as) = e \/ Held(d, g, as) = Delivered(e, g)
  BY ONLY <1>4
<1>8. CASE Held(d, g, as) = e
  BY <1>3, <1>5, <1>8
<1>9. CASE Held(d, g, as) = Delivered(e, g)
  BY <1>5, <1>6, <1>9 DEF Keeps
<1> QED
  BY <1>7, <1>8, <1>9, <1>10

\* Who has finished, unread, is in good hands.
LEMMA CompletedKeeps ==
    ASSUME NEW d \in Desk, NEW a \in Agents, NEW consumed \in BOOLEAN
    PROVE  /\ Completed(d, a, consumed) \in Desk /\ Keeps(d, Completed(d, a, consumed))
           /\ ~consumed => Covered(Completed(d, a, consumed), a)
<1>1. CASE consumed \/ a \in d.batch
  BY <1>1 DEF Completed, Keeps, Covered
<1>2. CASE ~(consumed \/ a \in d.batch)
  <2>1. Completed(d, a, consumed) = Routed(d, a)
    BY <1>2 DEF Completed
  <2>2. CASE d.belongs[a] = NoGroup
    <3>1. Routed(d, a) = Holds(d, One(a))
      BY <2>2 DEF Routed
    <3> QED
      BY <2>1, <3>1, HoldsKeeps, NudgeTypes
  <2>3. CASE d.belongs[a] # NoGroup
    <3>1. Routed(d, a) = Held(d, d.belongs[a], {a})
      BY <2>3 DEF Routed
    <3>2. d.belongs[a] \in Groups /\ {a} \in SUBSET Agents
      BY <2>3 DEF Desk
    <3> QED
      BY <2>1, <3>1, <3>2, HeldKeeps
  <2> QED
    BY <2>2, <2>3
<1> QED
  BY <1>1, <1>2

\* The batch becomes a group, or an announcement of each who has finished.
LEMMA FinalizedKeeps ==
    ASSUME NEW d \in Desk, MayFinalize(d), NEW finished \in SUBSET d.batch
    PROVE  /\ Finalized(d, finished) \in Desk
           /\ \A a \in Agents : Covered(d, a) /\ (a \in d.batch => a \in finished)
                => Covered(Finalized(d, finished), a)
<1> DEFINE free == {g \in Groups : d.group[g] = EmptyGroup}
<1> DEFINE g == CHOOSE n \in free : \A m \in free : n <= m
<1> DEFINE closed == [d EXCEPT !.batch = {}]
<1> DEFINE e == [EmptyGroup EXCEPT !.members = d.batch]
<1> DEFINE bs == [a \in Agents |-> IF a \in d.batch THEN g ELSE d.belongs[a]]
<1> DEFINE formed == [closed EXCEPT !.group[g] = e, !.belongs = bs]
<1> DEFINE told == [closed EXCEPT !.nudges = @ \cup {One(a) : a \in finished}]
<1>1. d.batch \subseteq Agents /\ finished \in SUBSET Agents
  BY DEF Desk
<1>2. CASE Cardinality(d.batch) >= 2
  <2>1. free # {} /\ free \subseteq Nat
    BY <1>2, NoticesAssumption DEF MayFinalize, Groups
  <2>2. \E n \in free : \A m \in free : n <= m
    BY <2>1, Least
  <2>3. g \in Groups /\ d.group[g] = EmptyGroup
    BY <2>2
  <2>4. Finalized(d, finished) = Held(Swept(formed), g, finished)
    BY <1>2 DEF Finalized, Desk
  <2> HIDE DEF g
  <2>5. e \in Group /\ ~EmptyGroup.timer
    BY <1>1 DEF EmptyGroup, Group
  <2> HIDE DEF e
  <2>6. bs \in [Agents -> Groups \cup {NoGroup}]
    BY <2>3 DEF Desk
  <2> HIDE DEF bs
  <2>7. /\ formed \in Desk /\ formed.nudges = d.nudges
        /\ \A h \in Groups : h # g => formed.group[h] = d.group[h]
    BY <2>3, <2>5, <2>6 DEF Desk
  <2> HIDE DEF formed
  <2>8. Swept(formed) \in Desk /\ Keeps(formed, Swept(formed))
    BY <2>7, SweptKeeps
  <2>9. /\ Finalized(d, finished) \in Desk /\ Keeps(Swept(formed), Finalized(d, finished))
        /\ \A a \in finished : Covered(Finalized(d, finished), a)
    BY <1>1, <2>3, <2>4, <2>8, HeldKeeps
  <2>10. \A a \in Agents : Covered(d, a) /\ a \notin d.batch => Covered(formed, a)
    BY <2>3, <2>5, <2>7 DEF Covered
  <2> QED
    BY <2>8, <2>9, <2>10 DEF Keeps
<1>3. CASE ~(Cardinality(d.batch) >= 2)
  <2>1. Finalized(d, finished) = told
    BY <1>3 DEF Finalized
  <2>2. \A a \in finished : One(a) \in Nudge /\ a \in One(a).about
    BY <1>1, NudgeTypes
  <2>3. /\ told \in Desk /\ told.group = d.group
        /\ told.nudges = d.nudges \cup {One(a) : a \in finished}
    BY <2>2 DEF Desk
  <2> HIDE DEF told
  <2> QED
    BY <2>1, <2>2, <2>3 DEF Covered
<1> QED
  BY <1>2, <1>3

LEMMA TimedOutKeeps ==
    ASSUME NEW d \in Desk, NEW g \in Groups
    PROVE  TimedOut(d, g) \in Desk /\ Keeps(d, TimedOut(d, g))
<1> DEFINE gone == d.group[g].held
<1> DEFINE e == [EmptyGroup EXCEPT !.members = d.group[g].members \ gone]
<1> DEFINE closed == [d EXCEPT !.group[g] = e]
<1> DEFINE sent == Holds(closed, Together(gone))
<1> DEFINE freed == Released(sent, gone)
<1>1. /\ gone \in SUBSET Agents /\ Together(gone) \in Nudge /\ Together(gone).about = gone
  <2>1. d.group[g] \in Group
    BY DEF Desk
  <2>2. d.group[g].held \in SUBSET Agents
    BY <2>1 DEF Group
  <2> QED
    BY <2>2, NudgeTypes
<1>2. e \in Group
  BY DEF Desk, Group, EmptyGroup
<1>3. TimedOut(d, g) = Swept(freed)
  BY DEF TimedOut
<1> HIDE DEF gone, e
<1>4. /\ closed \in Desk /\ closed.batch = d.batch /\ closed.nudges = d.nudges
      /\ \A h \in Groups : h # g => closed.group[h] = d.group[h]
  BY <1>2 DEF Desk
<1> HIDE DEF closed
<1>5. /\ sent \in Desk /\ Keeps(closed, sent) /\ \A a \in gone : Covered(sent, a)
  BY <1>1, <1>4, HoldsKeeps
<1>6. Keeps(d, sent)
  <2>1. ASSUME NEW a \in Agents, Covered(d, a), a \notin gone
        PROVE  Covered(sent, a)
    <3>1. Covered(closed, a)
      BY <1>4, <2>1 DEF Covered, gone
    <3> QED
      BY <1>5, <3>1 DEF Keeps
  <2> QED
    BY <1>5, <2>1 DEF Keeps
<1> HIDE DEF sent
<1>7. freed \in Desk /\ Keeps(sent, freed)
  BY <1>5, ReleasedKeeps
<1> HIDE DEF freed
<1>8. Swept(freed) \in Desk /\ Keeps(freed, Swept(freed))
  BY <1>7, SweptKeeps
<1> QED
  BY <1>3, <1>6, <1>7, <1>8 DEF Keeps

-----------------------------------------------------------------------------
(* The invariant, of a queue q, records r, runs n, counters u, callers c    *)
(* and limits l, which a drain may find in the middle of an action.         *)

Typed(q, r, n, u, c, l) ==
    /\ q \in Seq(Agents) /\ r \in [Agents -> Record] /\ n \in [Agents -> Seq(Run)]
    /\ u \in [Pools -> Nat] /\ c \in [Agents -> Callers]
    /\ l \in [background : Limits, foreground : ForegroundLimits]
\* Each counter is the number of slots held.
Counted(n, u) == \A p \in Pools : u[p] = Cardinality(Slots(n, p))
\* A run for each entry of the queue is still within the bound.
Bounded(q, n) == \A a \in Agents : Len(n[a]) + Cardinality(Places(q, a)) <= MaxRuns[a]
\* Who waits has been spawned by the session. It waits once for its first run, or to take
\* up its conversation.
Lined(q, r, n) == \A i \in DOMAIN q :
    /\ TopLevel(q[i]) /\ r[q[i]].status # "unborn"
    /\ n[q[i]] # <<>> => Talked(n[q[i]])
    /\ n[q[i]] = <<>> => \A j \in Places(q, q[i]) : j = i
\* Who is detached: a background agent, and whoever waits to be resumed.
Moded(r, n) == \A a \in Agents :
    /\ Kind[a] = "background" /\ r[a].status # "unborn" => r[a].background
    /\ Kind[a] = "blocking" /\ n[a] = <<>> => ~r[a].background
    /\ r[a].status = "queued" /\ n[a] # <<>> => r[a].background
\* A later run takes up a conversation, detached unless its caller waits for it.
Coursed(r, n) == \A a \in Agents :
    /\ r[a].status = "unborn" => n[a] = <<>>
    /\ r[a].status = "gone" => n[a] # <<>> /\ n[a][1].at = "void"
    /\ \A i \in DOMAIN n[a] :
         IF i = 1 THEN n[a][i].at # "inline"
         ELSE /\ Talked(n[a]) /\ n[a][i].at \in {"running", "inline", "over"}
              /\ n[a][i].at = "running" => r[a].background
\* Whoever waits at a gate waits for an agent in the queue, or for the copy it starts with.
Gated(q, n, c) == \A a \in Agents :
    c[a] = "gate" => IF n[a] = <<>> THEN Places(q, a) # {}
                                    ELSE n[a][1].at \in {"copying", "discarding"}
Sound(q, r, n, u, c, l) ==
    /\ Typed(q, r, n, u, c, l) /\ Counted(n, u) /\ Bounded(q, n) /\ Lined(q, r, n)
    /\ Moded(r, n) /\ Coursed(r, n) /\ Gated(q, n, c)

\* Nobody in the queue could start.
NoRoom(q, n, u, l) == \A i \in DOMAIN q : Room(WaitsOn(q[i], n), u, l) <= 0
\* A result that nobody was told of is there to be told, of an agent that is detached.
Debts(r, n, o) == \A a \in o :
    /\ r[a].ended /\ ~r[a].consumed /\ r[a].background /\ r[a].status # "gone"
    /\ n[a] # <<>> /\ n[a][1].at # "copying"

\* Unless the copy of a stopped run is being removed.
Attended(q, n, u, l) ==
    NoRoom(q, n, u, l) \/ \E a \in Agents : n[a] # <<>> /\ n[a][1].at = "discarding"
Whole(q, r, n, u, c, l, d, o) ==
    /\ Sound(q, r, n, u, c, l) /\ Attended(q, n, u, l)
    /\ o \subseteq Agents /\ Debts(r, n, o)
    /\ d \in Desk /\ \A a \in o : Covered(d, a)

IInv == Whole(queue, rec, run, used, caller, limit, desk, owed)

-----------------------------------------------------------------------------
(* The slots that runs hold.                                                *)

LEMMA TurnsAre ==
    /\ IsFiniteSet(Turns)
    /\ \A a \in Agents : \A i \in 1..MaxRuns[a] : <<a, i>> \in Turns
    /\ \A t \in Turns : t[1] \in Agents /\ t[2] \in 1..MaxRuns[t[1]] /\ t = <<t[1], t[2]>>
<1> DEFINE own(a) == {a} \X (1..MaxRuns[a])
<1> DEFINE S == {own(a) : a \in Agents}
<1>1. ASSUME NEW a \in Agents
      PROVE  IsFiniteSet(own(a))
  <2>1. MaxRuns[a] \in Nat /\ IsFiniteSet({a})
    BY SubagentsAssumption, FS_Singleton
  <2>2. IsFiniteSet(1..MaxRuns[a])
    BY <2>1, FS_Interval
  <2> QED
    BY <2>1, <2>2, FS_Product
<1>2. IsFiniteSet(S)
  <2> DEFINE f == [a \in Agents |-> own(a)]
  <2>1. f \in Surjection(Agents, S)
    BY DEF Surjection
  <2> HIDE DEF f
  <2> QED
    BY <2>1, NoticesAssumption, FS_Surjection
<1>3. Turns = UNION S
  BY DEF Turns
<1>4. \A T \in S : IsFiniteSet(T)
  BY <1>1
<1> HIDE DEF S
<1>5. IsFiniteSet(Turns)
  BY <1>2, <1>3, <1>4, FS_UNION
<1>6. \A a \in Agents : \A i \in 1..MaxRuns[a] : <<a, i>> \in Turns
  BY DEF Turns
<1>7. \A t \in Turns : t[1] \in Agents /\ t[2] \in 1..MaxRuns[t[1]] /\ t = <<t[1], t[2]>>
  BY DEF Turns
<1> QED
  BY <1>5, <1>6, <1>7

LEMMA SlotsFinite ==
    ASSUME NEW n, NEW p
    PROVE  IsFiniteSet(Slots(n, p)) /\ Cardinality(Slots(n, p)) \in Nat
<1>1. Slots(n, p) \subseteq Turns
  BY DEF Slots
<1> QED
  BY <1>1, TurnsAre, Counts

\* Run i of agent a holds a slot of pool p.
Holding(n, a, i, p) == i \in DOMAIN n[a] /\ n[a][i].at \in InFlight /\ n[a][i].pool = p

\* The other runs hold what they held.
Elsewhere(n, m, a, i, p) ==
    \A b \in Agents : \A k \in 1..MaxRuns[b] :
        b # a \/ k # i => (Holding(m, b, k, p) <=> Holding(n, b, k, p))

\* What becomes of the slots when one run changes.
LEMMA OneRunChanges ==
    ASSUME NEW n, NEW m, NEW a \in Agents, NEW i \in 1..MaxRuns[a], NEW p,
           Elsewhere(n, m, a, i, p)
    PROVE  /\ Holding(m, a, i, p) /\ ~Holding(n, a, i, p)
                => Cardinality(Slots(m, p)) = Cardinality(Slots(n, p)) + 1
           /\ ~Holding(m, a, i, p) /\ Holding(n, a, i, p)
                => /\ Cardinality(Slots(m, p)) = Cardinality(Slots(n, p)) - 1
                   /\ Cardinality(Slots(n, p)) > 0
           /\ (Holding(m, a, i, p) <=> Holding(n, a, i, p))
                => Cardinality(Slots(m, p)) = Cardinality(Slots(n, p))
<1>1. \A o : \A t \in Turns : t \in Slots(o, p) <=> Holding(o, t[1], t[2], p)
  BY DEF Slots, Holding
<1>2. Slots(m, p) \subseteq Turns /\ Slots(n, p) \subseteq Turns /\ <<a, i>> \in Turns
  BY TurnsAre DEF Slots
<1>3. \A t \in Turns : t # <<a, i>> => (t \in Slots(m, p) <=> t \in Slots(n, p))
  <2>1. \A t \in Turns : t # <<a, i>> => t[1] # a \/ t[2] # i
    BY TurnsAre
  <2> QED
    BY <1>1, <2>1, TurnsAre DEF Elsewhere
<1>4. \A o : <<a, i>> \in Slots(o, p) <=> Holding(o, a, i, p)
  BY <1>1, <1>2
<1>5. CASE Holding(m, a, i, p) /\ ~Holding(n, a, i, p)
  <2>1. Slots(m, p) = Slots(n, p) \cup {<<a, i>>} /\ <<a, i>> \notin Slots(n, p)
    BY <1>2, <1>3, <1>4, <1>5
  <2> QED
    BY <1>5, <2>1, SlotsFinite, FS_AddElement
<1>6. CASE ~Holding(m, a, i, p) /\ Holding(n, a, i, p)
  <2>1. Slots(m, p) = Slots(n, p) \ {<<a, i>>} /\ <<a, i>> \in Slots(n, p)
    BY <1>2, <1>3, <1>4, <1>6
  <2>2. Cardinality(Slots(m, p)) = Cardinality(Slots(n, p)) - 1
    BY <2>1, SlotsFinite, FS_RemoveElement
  <2>3. Cardinality(Slots(m, p)) \in Nat /\ Cardinality(Slots(n, p)) \in Nat
    BY SlotsFinite
  <2> QED
    BY <1>6, <2>2, <2>3
<1>7. CASE Holding(m, a, i, p) <=> Holding(n, a, i, p)
  <2>1. Slots(m, p) = Slots(n, p)
    BY <1>2, <1>3, <1>4, <1>7
  <2> QED
    BY <1>7, <2>1
<1> QED
  BY <1>5, <1>6, <1>7

-----------------------------------------------------------------------------
(* What a drain does, from the state q, r, n, u, c, l in which it begins to *)
(* the state q2, r2, n2, u2, c2 that it leaves.                             *)

Started(q, r, n, u, l) == {q[i] : i \in {j \in Taken(q, r, n, u, l) : Waits(j, q, r)}}
Charged(q, r, n, u, l, p) == {a \in Started(q, r, n, u, l) : PoolFor(a, r[a], l) = p}
Drained(q, r, n, u, c, l, q2, r2, n2, u2, c2) ==
    LET taken == Taken(q, r, n, u, l)
        S == Started(q, r, n, u, l)
    IN
    /\ q2 = Without(q, taken)
    /\ r2 = [a \in Agents |-> IF a \in S THEN [r[a] EXCEPT !.status = "running"] ELSE r[a]]
    /\ n2 = [a \in Agents |-> IF a \in S THEN Append(n[a], Begins(a, r[a], n[a], l)) ELSE n[a]]
    /\ u2 = [p \in Pools |-> u[p] + Cardinality(Charged(q, r, n, u, l, p))]
    /\ c2 = [a \in Agents |-> IF /\ c[a] = "gate"
                                 /\ \E i \in taken : q[i] = a
                                 /\ ~(a \in S /\ a \in Isolated)
                              THEN "run" ELSE c[a]]

LEMMA DrainsIs ==
    ASSUME NEW q, NEW r, NEW n, NEW u, NEW c, NEW l, Drains(q, r, n, u, c, l)
    PROVE  Drained(q, r, n, u, c, l, queue', rec', run', used', caller')
  BY Zenon DEF Drains, Drained, Started, Charged

LEMMA RunTypes ==
    /\ \A a, r, s, l : Begins(a, r, s, l) \in Run
    /\ \A a, r, l : PoolFor(a, r, l) \in Pools \cup {NoPool}
    /\ NoPool \notin Pools
<1>1. \A a, r, l : PoolFor(a, r, l) \in Pools \cup {NoPool}
  BY DEF PoolFor, Pools
<1>2. \A a, r, s, l : Begins(a, r, s, l) \in Run
  BY <1>1 DEF Begins, Run
<1>3. NoPool \notin Pools
  BY DEF Pools, NoPool
<1> QED
  BY <1>1, <1>2, <1>3

\* Who is started was the first of the queue to wait for its pool, and is charged to it.
LEMMA StartedIs ==
    ASSUME NEW q, NEW r, NEW n, NEW u, NEW c, NEW l, Sound(q, r, n, u, c, l),
           NEW a \in Started(q, r, n, u, l)
    PROVE  /\ a \in Agents /\ r[a].status = "queued" /\ TopLevel(a)
           /\ \E i \in Taken(q, r, n, u, l) : q[i] = a /\ i \in DOMAIN q
           /\ n[a] # <<>> => Talked(n[a]) /\ r[a].background
           /\ n[a] = <<>> => \A i, j \in Places(q, a) : i = j
<1>1. PICK i \in Taken(q, r, n, u, l) : Waits(i, q, r) /\ q[i] = a
  BY DEF Started
<1>2. i \in DOMAIN q /\ a \in Agents /\ i \in Places(q, a)
  BY <1>1 DEF Taken, Sound, Typed, Places
<1>3. r[a].status = "queued"
  BY <1>1 DEF Waits
<1>4. /\ TopLevel(a) /\ (n[a] # <<>> => Talked(n[a]))
      /\ n[a] = <<>> => \A j \in Places(q, a) : j = i
  BY <1>1, <1>2 DEF Sound, Lined
<1>5. n[a] # <<>> => r[a].background
  BY <1>2, <1>3 DEF Sound, Moded
<1> QED
  BY <1>1, <1>2, <1>3, <1>4, <1>5

\* The records, runs and queue that a drain leaves.
LEMMA DrainedIs ==
    ASSUME NEW q, NEW r, NEW n, NEW u, NEW c, NEW l, Sound(q, r, n, u, c, l),
           NEW q2, NEW r2, NEW n2, NEW u2, NEW c2,
           Drained(q, r, n, u, c, l, q2, r2, n2, u2, c2)
    PROVE  LET S == Started(q, r, n, u, l)
           IN
           /\ r2 \in [Agents -> Record] /\ n2 \in [Agents -> Seq(Run)]
           /\ q2 \in Seq(Agents) /\ u2 \in [Pools -> Nat] /\ c2 \in [Agents -> Callers]
           /\ \A a \in Agents :
                /\ r2[a].background = r[a].background /\ r2[a].ended = r[a].ended
                /\ r2[a].consumed = r[a].consumed
                /\ r2[a].status = IF a \in S THEN "running" ELSE r[a].status
                /\ a \notin S => n2[a] = n[a]
                /\ a \in S => /\ Len(n2[a]) = Len(n[a]) + 1
                              /\ n2[a][Len(n[a]) + 1] = Begins(a, r[a], n[a], l)
                              /\ \A i \in 1..Len(n[a]) : n2[a][i] = n[a][i]
           /\ S \subseteq Agents
<1> DEFINE S == Started(q, r, n, u, l)
<1>1. /\ q \in Seq(Agents) /\ r \in [Agents -> Record] /\ n \in [Agents -> Seq(Run)]
      /\ u \in [Pools -> Nat] /\ c \in [Agents -> Callers]
  BY DEF Sound, Typed
<1>2. S \subseteq Agents
  BY StartedIs
<1> HIDE DEF S
<1>3. /\ r2 = [a \in Agents |-> IF a \in S THEN [r[a] EXCEPT !.status = "running"] ELSE r[a]]
      /\ n2 = [a \in Agents |-> IF a \in S THEN Append(n[a], Begins(a, r[a], n[a], l)) ELSE n[a]]
      /\ u2 = [p \in Pools |-> u[p] + Cardinality(Charged(q, r, n, u, l, p))]
      /\ \A a \in Agents : c2[a] \in {"run", c[a]}
      /\ c2 = [a \in Agents |-> c2[a]]
      /\ q2 = Without(q, Taken(q, r, n, u, l))
  BY DEF Drained, S
<1>4. ASSUME NEW a \in Agents
      PROVE  /\ r2[a] \in Record
             /\ r2[a].background = r[a].background /\ r2[a].ended = r[a].ended
             /\ r2[a].consumed = r[a].consumed
             /\ r2[a].status = IF a \in S THEN "running" ELSE r[a].status
  BY <1>1, <1>3 DEF Record
<1>5. ASSUME NEW a \in Agents
      PROVE  /\ n2[a] \in Seq(Run)
             /\ a \notin S => n2[a] = n[a]
             /\ a \in S => /\ Len(n2[a]) = Len(n[a]) + 1
                           /\ n2[a][Len(n[a]) + 1] = Begins(a, r[a], n[a], l)
                           /\ \A i \in 1..Len(n[a]) : n2[a][i] = n[a][i]
  <2>1. n[a] \in Seq(Run) /\ Begins(a, r[a], n[a], l) \in Run
    BY <1>1, RunTypes
  <2>2. n2[a] = IF a \in S THEN Append(n[a], Begins(a, r[a], n[a], l)) ELSE n[a]
    BY <1>3
  <2> QED
    BY <2>1, <2>2
<1>6. ASSUME NEW p \in Pools
      PROVE  u2[p] \in Nat
  <2>1. Charged(q, r, n, u, l, p) \subseteq Agents
    BY <1>2 DEF Charged, S
  <2>2. Cardinality(Charged(q, r, n, u, l, p)) \in Nat
    BY <2>1, NoticesAssumption, Counts
  <2> QED
    BY <1>1, <1>3, <2>2
<1>7. c2 \in [Agents -> Callers]
  BY <1>1, <1>3 DEF Callers
<1>8. q2 \in Seq(Agents)
  BY <1>1, <1>3, WithoutKeeps
<1> QED
  BY <1>2, <1>3, <1>4, <1>5, <1>6, <1>7, <1>8 DEF S

\* The queue that a drain leaves is of those who were not taken.
LEMMA DrainedQueue ==
    ASSUME NEW q, NEW r, NEW n, NEW u, NEW c, NEW l, Sound(q, r, n, u, c, l),
           NEW q2, NEW r2, NEW n2, NEW u2, NEW c2,
           Drained(q, r, n, u, c, l, q2, r2, n2, u2, c2)
    PROVE  /\ \A i \in DOMAIN q2 : \E j \in DOMAIN q \ Taken(q, r, n, u, l) :
                /\ q2[i] = q[j] /\ (n2[q[j]] = <<>> <=> n[q[j]] = <<>>)
                /\ n[q[j]] = <<>> => n2[q[j]] = n[q[j]]
           /\ Bounded(q2, n2) /\ Lined(q2, r2, n2)
<1> DEFINE S == Started(q, r, n, u, l)
<1> DEFINE taken == Taken(q, r, n, u, l)
<1>1. /\ q \in Seq(Agents) /\ n \in [Agents -> Seq(Run)] /\ q2 = Without(q, taken)
  BY DEF Sound, Typed, Drained
<1>2. /\ q2 \in Seq(Agents) /\ n2 \in [Agents -> Seq(Run)]
      /\ \A a \in Agents :
           /\ r2[a].status = IF a \in S THEN "running" ELSE r[a].status
           /\ a \notin S => n2[a] = n[a]
           /\ a \in S => /\ Len(n2[a]) = Len(n[a]) + 1
                         /\ \A i \in 1..Len(n[a]) : n2[a][i] = n[a][i]
  BY DrainedIs
<1>3. \A a \in S : /\ \E i \in taken : q[i] = a /\ i \in DOMAIN q
                   /\ n[a] = <<>> => \A i, j \in Places(q, a) : i = j
  BY StartedIs
<1> HIDE DEF S, taken
<1>4. ASSUME NEW j \in DOMAIN q \ taken, n[q[j]] = <<>>
      PROVE  q[j] \notin S
  <2>1. SUFFICES ASSUME q[j] \in S PROVE FALSE
    OBVIOUS
  <2>2. PICK i \in taken : q[i] = q[j] /\ i \in DOMAIN q
    BY <1>3, <2>1
  <2>3. i \in Places(q, q[j]) /\ j \in Places(q, q[j])
    BY <1>4, <2>2 DEF Places
  <2> QED
    BY <1>3, <1>4, <2>1, <2>2, <2>3
<1>5. ASSUME NEW j \in DOMAIN q \ taken
      PROVE  /\ n2[q[j]] = <<>> <=> n[q[j]] = <<>>
             /\ n[q[j]] = <<>> => n2[q[j]] = n[q[j]]
             /\ Talked(n[q[j]]) => Talked(n2[q[j]])
  <2>1. q[j] \in Agents /\ n[q[j]] \in Seq(Run) /\ n2[q[j]] \in Seq(Run)
    BY <1>1, <1>2
  <2>2. CASE q[j] \notin S
    BY <1>2, <2>1, <2>2
  <2>3. CASE q[j] \in S
    <3>1. n[q[j]] # <<>>
      BY <1>4, <2>3
    <3>2. n2[q[j]] # <<>> /\ n2[q[j]][1] = n[q[j]][1]
      BY <1>2, <2>1, <2>3, <3>1
    <3> QED
      BY <3>1, <3>2 DEF Talked
  <2> QED
    BY <2>2, <2>3
<1>6. \A i \in DOMAIN q2 : \E j \in DOMAIN q \ taken : q2[i] = q[j]
  BY <1>1, WithoutKeeps
<1>10. \A a \in Agents : Once(q, a) => Once(q2, a)
  BY <1>1, WithoutKeeps
<1>7. Bounded(q2, n2)
  <2>1. ASSUME NEW a \in Agents
        PROVE  Len(n2[a]) + Cardinality(Places(q2, a)) <= MaxRuns[a]
    <3>1. /\ IsFiniteSet(Places(q, a)) /\ Cardinality(Places(q2, a)) \in Nat
          /\ Cardinality(Places(q2, a)) <= Cardinality(Places(q, a) \ taken)
      BY <1>1, WithoutKeeps
    <3>2. /\ Cardinality(Places(q, a) \ taken) \in Nat /\ Cardinality(Places(q, a)) \in Nat
          /\ Cardinality(Places(q, a) \ taken) <= Cardinality(Places(q, a))
          /\ Cardinality(Places(q, a) \ taken) = Cardinality(Places(q, a))
               => Places(q, a) \ taken = Places(q, a)
      BY <3>1, Counts
    <3>3. /\ Len(n[a]) + Cardinality(Places(q, a)) <= MaxRuns[a] /\ Len(n[a]) \in Nat
          /\ MaxRuns[a] \in Nat
      BY <1>1, SubagentsAssumption DEF Sound, Bounded
    <3>4. CASE a \notin S
      BY <1>2, <3>1, <3>2, <3>3, <3>4
    <3>5. CASE a \in S
      <4>1. PICK i \in taken : q[i] = a /\ i \in DOMAIN q
        BY <1>3, <3>5
      <4>2. Places(q, a) \ taken # Places(q, a)
        BY <4>1 DEF Places
      <4>3. Cardinality(Places(q, a) \ taken) < Cardinality(Places(q, a))
        BY <3>2, <4>2
      <4>4. Len(n2[a]) = Len(n[a]) + 1
        BY <1>2, <3>5
      <4> QED
        BY <3>1, <3>2, <3>3, <4>3, <4>4
    <3> QED
      BY <3>4, <3>5
  <2> QED
    BY <2>1 DEF Bounded
<1>8. Lined(q2, r2, n2)
  <2>1. ASSUME NEW i \in DOMAIN q2
        PROVE  /\ TopLevel(q2[i]) /\ r2[q2[i]].status # "unborn"
               /\ n2[q2[i]] # <<>> => Talked(n2[q2[i]])
               /\ n2[q2[i]] = <<>> => \A j \in Places(q2, q2[i]) : j = i
    <3>1. PICK j \in DOMAIN q \ taken : q2[i] = q[j]
      BY <1>6
    <3>2. q[j] \in Agents
      BY <1>1
    <3>3. /\ TopLevel(q[j]) /\ r[q[j]].status # "unborn" /\ (n[q[j]] # <<>> => Talked(n[q[j]]))
          /\ n[q[j]] = <<>> => \A k \in Places(q, q[j]) : k = j
      BY DEF Sound, Lined
    <3>4. r2[q[j]].status # "unborn"
      BY <1>2, <3>2, <3>3
    <3>5. ASSUME n2[q[j]] = <<>>, NEW k \in Places(q2, q[j])
          PROVE  k = i
      <4>1. n[q[j]] = <<>>
        BY <1>5, <3>5
      <4>2. \A x \in Places(q, q[j]) : x = j
        BY <3>3, <4>1, Zenon
      <4>5. Once(q, q[j])
        BY <4>2 DEF Once
      <4>3. Once(q2, q[j])
        BY <1>10, <3>2, <4>5
      <4>4. i \in Places(q2, q[j])
        BY <3>1 DEF Places
      <4> QED
        BY <3>5, <4>3, <4>4 DEF Once
    <3> QED
      BY <1>5, <3>1, <3>3, <3>4, <3>5
  <2> QED
    BY <2>1 DEF Lined
<1>9. \A i \in DOMAIN q2 : \E j \in DOMAIN q \ taken :
        /\ q2[i] = q[j] /\ (n2[q[j]] = <<>> <=> n[q[j]] = <<>>)
        /\ n[q[j]] = <<>> => n2[q[j]] = n[q[j]]
  BY <1>5, <1>6
<1> QED
  BY <1>7, <1>8, <1>9 DEF taken

\* How a drain leaves the records, the runs and the callers.
LEMMA DrainedModes ==
    ASSUME NEW q, NEW r, NEW n, NEW u, NEW c, NEW l, Sound(q, r, n, u, c, l),
           NEW q2, NEW r2, NEW n2, NEW u2, NEW c2,
           Drained(q, r, n, u, c, l, q2, r2, n2, u2, c2)
    PROVE  Moded(r2, n2) /\ Coursed(r2, n2) /\ Gated(q2, n2, c2)
<1> DEFINE S == Started(q, r, n, u, l)
<1> DEFINE taken == Taken(q, r, n, u, l)
<1>1. /\ q \in Seq(Agents) /\ n \in [Agents -> Seq(Run)] /\ q2 = Without(q, taken)
      /\ Moded(r, n) /\ Coursed(r, n) /\ Gated(q, n, c)
      /\ \A a \in Agents : c2[a] = IF /\ c[a] = "gate"
                                      /\ \E i \in taken : q[i] = a
                                      /\ ~(a \in S /\ a \in Isolated)
                                   THEN "run" ELSE c[a]
  BY DEF Sound, Typed, Drained
<1>2. /\ q2 \in Seq(Agents) /\ n2 \in [Agents -> Seq(Run)]
      /\ \A a \in Agents :
           /\ r2[a].background = r[a].background
           /\ r2[a].status = IF a \in S THEN "running" ELSE r[a].status
           /\ a \notin S => n2[a] = n[a]
           /\ a \in S => /\ Len(n2[a]) = Len(n[a]) + 1
                         /\ n2[a][Len(n[a]) + 1] = Begins(a, r[a], n[a], l)
                         /\ \A i \in 1..Len(n[a]) : n2[a][i] = n[a][i]
  BY DrainedIs
<1>3. \A a \in S : /\ \E i \in taken : q[i] = a
                   /\ r[a].status = "queued"
                   /\ n[a] # <<>> => Talked(n[a]) /\ r[a].background
  BY StartedIs
<1>4. \A j \in DOMAIN q \ taken : \E i \in DOMAIN q2 : q2[i] = q[j]
  BY <1>1, WithoutKeeps
<1> HIDE DEF S, taken
<1>5. ASSUME NEW a \in Agents
      PROVE  /\ n[a] \in Seq(Run) /\ n2[a] \in Seq(Run) /\ (n2[a] = <<>> => n[a] = <<>>)
             /\ n[a] # <<>> => n2[a] # <<>> /\ n2[a][1] = n[a][1]
             /\ a \in S => n2[a] # <<>>
             /\ a \in S /\ n[a] = <<>> => n2[a][1] = Begins(a, r[a], <<>>, l)
  <2>1. n[a] \in Seq(Run) /\ n2[a] \in Seq(Run)
    BY <1>1, <1>2
  <2>2. CASE a \notin S
    BY <1>2, <2>1, <2>2
  <2>3. CASE a \in S
    BY <1>2, <2>1, <2>3
  <2> QED
    BY <2>1, <2>2, <2>3
<1>6. Moded(r2, n2)
  <2>1. ASSUME NEW a \in Agents
        PROVE  /\ Kind[a] = "background" /\ r2[a].status # "unborn" => r2[a].background
               /\ Kind[a] = "blocking" /\ n2[a] = <<>> => ~r2[a].background
               /\ r2[a].status = "queued" /\ n2[a] # <<>> => r2[a].background
    <3>1. /\ Kind[a] = "background" /\ r[a].status # "unborn" => r[a].background
          /\ Kind[a] = "blocking" /\ n[a] = <<>> => ~r[a].background
          /\ r[a].status = "queued" /\ n[a] # <<>> => r[a].background
      BY <1>1 DEF Moded
    <3>2. CASE a \in S
      BY <1>2, <1>3, <1>5, <3>1, <3>2
    <3>3. CASE a \notin S
      BY <1>2, <3>1, <3>3
    <3> QED
      BY <3>2, <3>3
  <2> QED
    BY <2>1 DEF Moded
<1>7. Coursed(r2, n2)
  <2>1. ASSUME NEW a \in Agents
        PROVE  /\ r2[a].status = "unborn" => n2[a] = <<>>
               /\ r2[a].status = "gone" => n2[a] # <<>> /\ n2[a][1].at = "void"
               /\ \A i \in DOMAIN n2[a] :
                    IF i = 1 THEN n2[a][i].at # "inline"
                    ELSE /\ Talked(n2[a]) /\ n2[a][i].at \in {"running", "inline", "over"}
                         /\ n2[a][i].at = "running" => r2[a].background
    <3>1. /\ r[a].status = "unborn" => n[a] = <<>>
          /\ r[a].status = "gone" => n[a] # <<>> /\ n[a][1].at = "void"
          /\ \A i \in DOMAIN n[a] :
               IF i = 1 THEN n[a][i].at # "inline"
               ELSE /\ Talked(n[a]) /\ n[a][i].at \in {"running", "inline", "over"}
                    /\ n[a][i].at = "running" => r[a].background
      BY <1>1 DEF Coursed
    <3>2. CASE a \notin S
      BY <1>2, <3>1, <3>2
    <3>3. ASSUME a \in S, NEW i \in DOMAIN n2[a]
          PROVE  IF i = 1 THEN n2[a][i].at # "inline"
                 ELSE /\ Talked(n2[a]) /\ n2[a][i].at \in {"running", "inline", "over"}
                      /\ n2[a][i].at = "running" => r2[a].background
      <4>1. /\ DOMAIN n[a] = 1..Len(n[a]) /\ Len(n[a]) \in Nat
            /\ DOMAIN n2[a] = 1..(Len(n[a]) + 1)
        BY <1>2, <1>5, <3>3
      <4>2. Talked(n[a]) => Talked(n2[a])
        BY <1>5 DEF Talked
      <4>3. r2[a].background = r[a].background
        BY <1>2
      <4>4. CASE i \in 1..Len(n[a])
        <5>1. n2[a][i] = n[a][i]
          BY <1>2, <3>3, <4>4
        <5> QED
          BY <3>1, <4>1, <4>2, <4>3, <4>4, <5>1
      <4>5. CASE i = Len(n[a]) + 1
        <5>1. n2[a][i] = Begins(a, r[a], n[a], l)
          BY <1>2, <3>3, <4>5
        <5>2. n2[a][i].at \in {"copying", "running"} /\ (n[a] # <<>> => n2[a][i].at = "running")
          BY <5>1 DEF Begins
        <5>3. i # 1 => n[a] # <<>>
          BY <1>5, <4>5
        <5> QED
          BY <1>3, <3>3, <4>2, <4>3, <5>2, <5>3
      <4> QED
        BY <4>1, <4>4, <4>5
    <3>4. a \in S => r2[a].status = "running"
      BY <1>2
    <3> QED
      BY <3>2, <3>3, <3>4
  <2> QED
    BY <2>1 DEF Coursed
<1>8. Gated(q2, n2, c2)
  <2>1. ASSUME NEW a \in Agents, c2[a] = "gate"
        PROVE  IF n2[a] = <<>> THEN Places(q2, a) # {}
                               ELSE n2[a][1].at \in {"copying", "discarding"}
    <3>1. c[a] = "gate" /\ ((\E i \in taken : q[i] = a) => a \in S /\ a \in Isolated)
      BY <1>1, <2>1
    <3>2. IF n[a] = <<>> THEN Places(q, a) # {} ELSE n[a][1].at \in {"copying", "discarding"}
      BY <1>1, <3>1 DEF Gated
    <3>3. CASE n[a] # <<>>
      BY <1>5, <3>2, <3>3
    <3>4. CASE n[a] = <<>> /\ a \in S
      <4>1. a \in Isolated
        BY <1>3, <3>1, <3>4
      <4>2. n2[a] # <<>> /\ n2[a][1].at = "copying"
        <5>1. n2[a] # <<>> /\ n2[a][1] = Begins(a, r[a], <<>>, l)
          BY <1>5, <3>4
        <5>2. Begins(a, r[a], <<>>, l).at = "copying"
          BY <4>1 DEF Begins
        <5> QED
          BY <5>1, <5>2
      <4> QED
        BY <4>2
    <3>5. CASE n[a] = <<>> /\ a \notin S
      <4>1. PICK j \in DOMAIN q : q[j] = a
        BY <3>2, <3>5 DEF Places
      <4>2. j \notin taken
        BY <3>1, <3>5, <4>1
      <4>3. Places(q2, a) # {}
        BY <1>4, <4>1, <4>2 DEF Places
      <4>4. n2[a] = <<>>
        BY <1>2, <3>5
      <4> QED
        BY <4>3, <4>4
    <3> QED
      BY <3>3, <3>4, <3>5
  <2> QED
    BY <2>1 DEF Gated
<1> QED
  BY <1>6, <1>7, <1>8

\* The counters that a drain leaves are the slots.
LEMMA DrainedCounts ==
    ASSUME NEW q, NEW r, NEW n, NEW u, NEW c, NEW l, Sound(q, r, n, u, c, l),
           NEW q2, NEW r2, NEW n2, NEW u2, NEW c2,
           Drained(q, r, n, u, c, l, q2, r2, n2, u2, c2)
    PROVE  Counted(n2, u2)
<1> DEFINE S == Started(q, r, n, u, l)
<1>1. /\ n \in [Agents -> Seq(Run)] /\ Counted(n, u)
      /\ u2 = [p \in Pools |-> u[p] + Cardinality(Charged(q, r, n, u, l, p))]
  BY DEF Sound, Typed, Drained
<1>2. /\ n2 \in [Agents -> Seq(Run)] /\ q2 \in Seq(Agents) /\ S \subseteq Agents
      /\ \A a \in Agents :
           /\ a \notin S => n2[a] = n[a]
           /\ a \in S => /\ Len(n2[a]) = Len(n[a]) + 1
                         /\ n2[a][Len(n[a]) + 1] = Begins(a, r[a], n[a], l)
                         /\ \A i \in 1..Len(n[a]) : n2[a][i] = n[a][i]
  BY DrainedIs
<1>3. \A a \in Agents : Len(n2[a]) <= MaxRuns[a]
  <2>1. Bounded(q2, n2)
    BY DrainedQueue
  <2>2. ASSUME NEW a \in Agents
        PROVE  Cardinality(Places(q2, a)) \in Nat
    <3>1. DOMAIN q2 = 1..Len(q2) /\ IsFiniteSet(DOMAIN q2)
      BY <1>2, FS_Interval
    <3> QED
      BY <3>1, Counts DEF Places
  <2> QED
    BY <1>2, <2>1, <2>2, SubagentsAssumption DEF Bounded
<1> HIDE DEF S
<1>4. ASSUME NEW p \in Pools
      PROVE  u2[p] = Cardinality(Slots(n2, p))
  <2> DEFINE C == Charged(q, r, n, u, l, p)
  <2> DEFINE f == [a \in C |-> <<a, Len(n[a]) + 1>>]
  <2> DEFINE T == {f[a] : a \in C}
  <2>1. /\ C \subseteq S
        /\ \A a \in S : a \in C <=> PoolFor(a, r[a], l) = p
    BY DEF Charged, S
  <2> HIDE DEF C
  <2>2. IsFiniteSet(C) /\ C \subseteq Agents
    BY <1>2, <2>1, NoticesAssumption, Counts
  <2>3. IsFiniteSet(T) /\ Cardinality(T) = Cardinality(C)
    <3>1. f \in [C -> T] /\ \A z \in T : \E x \in C : f[x] = z
      OBVIOUS
    <3>2. \A x, y \in C : f[x] = f[y] => x = y
      OBVIOUS
    <3> HIDE DEF f, T
    <3> QED
      BY <2>2, <3>1, <3>2, Matched
  <2>4. \A t : t \in T <=> \E a \in C : t = <<a, Len(n[a]) + 1>>
    OBVIOUS
  <2> HIDE DEF f, T
  <2>5. ASSUME NEW t \in Turns
        PROVE  t \in Slots(n2, p) <=> t \in Slots(n, p) \/ t \in T
    <3>1. PICK a \in Agents, i \in Nat : i \in 1..MaxRuns[a] /\ t = <<a, i>>
      BY TurnsAre, SubagentsAssumption
    <3>2. \A m : t \in Slots(m, p) <=> Holding(m, a, i, p)
      BY <3>1 DEF Slots, Holding
    <3>3. n[a] \in Seq(Run) /\ n2[a] \in Seq(Run)
      BY <1>1, <1>2
    <3>4. t \in T <=> a \in C /\ i = Len(n[a]) + 1
      BY <2>4, <3>1
    <3>5. CASE a \notin S
      BY <1>2, <2>1, <3>2, <3>4, <3>5 DEF Holding
    <3>6. CASE a \in S /\ i = Len(n[a]) + 1
      <4>1. ~Holding(n, a, i, p)
        BY <3>3, <3>6 DEF Holding
      <4>2. i \in DOMAIN n2[a] /\ n2[a][i] = Begins(a, r[a], n[a], l)
        BY <1>2, <3>3, <3>6
      <4>3. n2[a][i].at \in InFlight /\ n2[a][i].pool = PoolFor(a, r[a], l)
        BY <4>2 DEF Begins, InFlight
      <4>4. Holding(n2, a, i, p) <=> a \in C
        BY <2>1, <3>6, <4>2, <4>3 DEF Holding
      <4> QED
        BY <3>2, <3>4, <3>6, <4>1, <4>4
    <3>7. CASE a \in S /\ i # Len(n[a]) + 1
      <4>1. i \in DOMAIN n2[a] <=> i \in DOMAIN n[a]
        BY <1>2, <3>3, <3>7
      <4>2. i \in DOMAIN n[a] => n2[a][i] = n[a][i]
        BY <1>2, <3>3, <3>7
      <4> QED
        BY <3>2, <3>4, <3>7, <4>1, <4>2 DEF Holding
    <3> QED
      BY <3>5, <3>6, <3>7
  <2>6. T \subseteq Turns /\ \A t \in T : t \notin Slots(n, p)
    <3>1. ASSUME NEW a \in C
          PROVE  Len(n[a]) + 1 \in 1..MaxRuns[a] /\ Len(n[a]) + 1 \notin DOMAIN n[a]
      <4>1. a \in S /\ a \in Agents /\ n[a] \in Seq(Run)
        BY <1>1, <2>1, <2>2
      <4>2. Len(n[a]) \in Nat /\ Len(n[a]) + 1 <= MaxRuns[a] /\ DOMAIN n[a] = 1..Len(n[a])
        BY <1>2, <1>3, <4>1
      <4> QED
        BY <4>1, <4>2, SubagentsAssumption
    <3> QED
      BY <2>2, <2>4, <3>1, TurnsAre DEF Slots
  <2>7. Slots(n2, p) = Slots(n, p) \cup T /\ Slots(n, p) \cap T = {}
    <3>1. Slots(n, p) \subseteq Turns /\ Slots(n2, p) \subseteq Turns
      BY DEF Slots
    <3> QED
      BY <2>5, <2>6, <3>1
  <2>8. /\ IsFiniteSet(Slots(n, p)) /\ Cardinality(Slots(n, p)) \in Nat
        /\ Cardinality(C) \in Nat
    BY <2>2, SlotsFinite, FS_CardinalityType
  <2>9. Cardinality(Slots(n2, p)) = Cardinality(Slots(n, p)) + Cardinality(C)
    <3>1. Cardinality(Slots(n2, p))
            = Cardinality(Slots(n, p)) + Cardinality(T) - Cardinality(Slots(n, p) \cap T)
      BY <2>3, <2>7, <2>8, FS_Union
    <3>2. Cardinality(Slots(n, p) \cap T) = 0
      BY <2>7, FS_EmptySet
    <3> QED
      BY <2>3, <2>8, <3>1, <3>2
  <2>10. u2[p] = u[p] + Cardinality(C) /\ u[p] = Cardinality(Slots(n, p))
    BY <1>1 DEF Counted, C
  <2> QED
    BY <2>9, <2>10
<1> QED
  BY <1>4 DEF Counted

\* Who waits is charged to the pool it waits on, if that has a limit.
LEMMA WaitersAreCharged ==
    ASSUME NEW q, NEW r, NEW n, NEW u, NEW c, NEW l, Sound(q, r, n, u, c, l),
           NEW i \in DOMAIN q, Waits(i, q, r)
    PROVE  /\ WaitsOn(q[i], n) = "background"
                => PoolFor(q[i], r[q[i]], l) = "background"
           /\ WaitsOn(q[i], n) = "foreground" /\ l.foreground # 0
                => PoolFor(q[i], r[q[i]], l) = "foreground"
<1>1. q[i] \in Agents /\ l.foreground \in Nat /\ Kind[q[i]] \in Kinds
  <2>1. q \in Seq(Agents) /\ l.foreground \in ForegroundLimits
    BY DEF Sound, Typed
  <2>2. q[i] \in Agents
    BY <2>1
  <2> QED
    BY <2>1, <2>2, SubagentsAssumption
<1>2. TopLevel(q[i]) /\ r[q[i]].status = "queued"
  BY DEF Sound, Lined, Waits
<1>3. /\ Kind[q[i]] = "background" => r[q[i]].background
      /\ Kind[q[i]] = "blocking" /\ n[q[i]] = <<>> => ~r[q[i]].background
      /\ n[q[i]] # <<>> => r[q[i]].background
  BY <1>1, <1>2 DEF Sound, Moded
<1>4. Kind[q[i]] \in {"background", "blocking"}
  BY <1>1, <1>2 DEF TopLevel, Kinds
<1> QED
  BY <1>1, <1>2, <1>3, <1>4 DEF WaitsOn, PoolFor

\* Those that wait before an entry of the queue, each for another agent.
LEMMA AheadIs ==
    ASSUME NEW q \in Seq(Agents), NEW r, NEW n, NEW j \in DOMAIN q
    PROVE  LET S == Ahead(j, q, r, n)
           IN
           /\ S \in SUBSET Nat /\ IsFiniteSet(S) /\ S \subseteq DOMAIN q
           /\ \A x \in S : x < j /\ Waits(x, q, r) /\ WaitsOn(q[x], n) = WaitsOn(q[j], n)
           /\ \A x, y \in S : q[x] = q[y] => x = y
           /\ \A x \in S : Ahead(x, q, r, n) = {y \in S : y < x}
<1> DEFINE S == Ahead(j, q, r, n)
<1>1. DOMAIN q = 1..Len(q) /\ Len(q) \in Nat /\ j \in Nat
  OBVIOUS
<1>2. \A k : \A x : x \in Ahead(k, q, r, n) <=>
        x \in 1..(k - 1) /\ Waits(x, q, r) /\ WaitsOn(q[x], n) = WaitsOn(q[k], n)
  BY DEF Ahead
<1> HIDE DEF S
<1>3. S \subseteq DOMAIN q /\ \A x \in S : x \in Nat /\ x < j
  BY <1>1, <1>2 DEF S
<1>4. IsFiniteSet(S)
  <2>1. IsFiniteSet(DOMAIN q)
    BY <1>1, FS_Interval
  <2> QED
    BY <1>3, <2>1, Counts
<1>5. ASSUME NEW x \in S, NEW y \in S, q[x] = q[y]
      PROVE  x = y
  <2>1. Waits(x, q, r) /\ Waits(y, q, r) /\ x \in 1..Len(q) /\ y \in 1..Len(q)
    BY <1>1, <1>2, <1>3 DEF S
  <2>2. ~(x < y) /\ ~(y < x)
    BY <1>5, <2>1 DEF Waits
  <2> QED
    BY <2>1, <2>2
<1>6. ASSUME NEW x \in S
      PROVE  Ahead(x, q, r, n) = {y \in S : y < x}
  <2>1. x \in Nat /\ x < j /\ WaitsOn(q[x], n) = WaitsOn(q[j], n)
    BY <1>2, <1>3 DEF S
  <2>2. ASSUME NEW y
        PROVE  y \in Ahead(x, q, r, n) <=> y \in S /\ y < x
    <3>1. y \in 1..(x - 1) <=> y \in 1..(j - 1) /\ y < x
      BY <1>1, <2>1
    <3> QED
      BY <1>2, <2>1, <3>1 DEF S
  <2> QED
    BY <2>2
<1>7. \A x \in S : Waits(x, q, r) /\ WaitsOn(q[x], n) = WaitsOn(q[j], n)
  BY <1>2 DEF S
<1> QED
  BY <1>3, <1>4, <1>5, <1>6, <1>7 DEF S

\* After a drain nobody in the queue could start.
LEMMA DrainedRoom ==
    ASSUME NEW q, NEW r, NEW n, NEW u, NEW c, NEW l, Sound(q, r, n, u, c, l),
           NEW q2, NEW r2, NEW n2, NEW u2, NEW c2,
           Drained(q, r, n, u, c, l, q2, r2, n2, u2, c2)
    PROVE  NoRoom(q2, n2, u2, l)
<1>1. /\ q \in Seq(Agents) /\ n \in [Agents -> Seq(Run)] /\ u \in [Pools -> Nat]
      /\ l.background \in Nat /\ l.foreground \in Nat
      /\ u2 = [p \in Pools |-> u[p] + Cardinality(Charged(q, r, n, u, l, p))]
  BY SubagentsAssumption DEF Sound, Typed, Drained
<1>2. SUFFICES ASSUME NEW i \in DOMAIN q2
               PROVE  Room(WaitsOn(q2[i], n2), u2, l) <= 0
  BY DEF NoRoom
<1>3. PICK j \in DOMAIN q \ Taken(q, r, n, u, l) :
         q2[i] = q[j] /\ (n2[q[j]] = <<>> <=> n[q[j]] = <<>>)
  BY DrainedQueue
<1> DEFINE p == WaitsOn(q[j], n)
<1> DEFINE S == Ahead(j, q, r, n)
<1> DEFINE C == Charged(q, r, n, u, l, p)
<1>4. WaitsOn(q2[i], n2) = p /\ p \in Pools
  BY <1>3 DEF WaitsOn, Pools
<1>5. /\ S \in SUBSET Nat /\ IsFiniteSet(S) /\ S \subseteq DOMAIN q
      /\ \A x \in S : x < j /\ Waits(x, q, r) /\ WaitsOn(q[x], n) = p
      /\ \A x, y \in S : q[x] = q[y] => x = y
      /\ \A x \in S : Ahead(x, q, r, n) = {y \in S : y < x}
  BY <1>1, <1>3, AheadIs
<1>6. ~(Cardinality(S) < Room(p, u, l))
  BY <1>3 DEF Taken
<1>7. Cardinality(S) \in Nat
  BY <1>5, FS_CardinalityType
<1>8. \A a : a \in C <=> a \in Started(q, r, n, u, l) /\ PoolFor(a, r[a], l) = p
  BY DEF Charged
<1>9. C \subseteq Agents
  <2>1. Started(q, r, n, u, l) \subseteq Agents
    BY DrainedIs
  <2> QED
    BY <1>8, <2>1
<1>10. IsFiniteSet(C) /\ Cardinality(C) \in Nat
  BY <1>9, NoticesAssumption, Counts
<1>11. u2[p] = u[p] + Cardinality(C) /\ u[p] \in Nat
  BY <1>1, <1>4
<1>12. \A x \in S : x \in Taken(q, r, n, u, l) => q[x] \in Started(q, r, n, u, l)
  BY <1>5 DEF Started
<1>13. \A x \in S : x \in Taken(q, r, n, u, l)
                      <=> Cardinality({y \in S : y < x}) < Room(p, u, l)
  BY <1>5 DEF Taken
<1>14. p = "background" => \A x \in S : PoolFor(q[x], r[q[x]], l) = p
  BY <1>5, WaitersAreCharged
<1>15. p = "foreground" /\ l.foreground # 0 => \A x \in S : PoolFor(q[x], r[q[x]], l) = p
  BY <1>5, WaitersAreCharged
<1>16. q[j] \in Agents /\ \A x \in S : q[x] \in Agents
  BY <1>1, <1>3, <1>5
<1>17. p = "foreground" => \A x \in S : q[x] # q[j]
  <2>1. p = "foreground" => n[q[j]] = <<>>
    BY DEF WaitsOn
  <2>2. n[q[j]] = <<>> => \A x \in Places(q, q[j]) : x = j
    BY <1>3 DEF Sound, Lined
  <2> QED
    BY <1>5, <2>1, <2>2 DEF Places
<1> HIDE DEF p, S, C
<1>18. CASE p = "foreground" /\ l.foreground = 0
  <2>1. Room(p, u, l) = Cardinality(Agents)
    BY <1>18 DEF Room
  <2> DEFINE f == [x \in S |-> q[x]]
  <2>2. f \in [S -> Agents \ {q[j]}] /\ \A x, y \in S : f[x] = f[y] => x = y
    BY <1>5, <1>16, <1>17, <1>18
  <2> HIDE DEF f
  <2>3. /\ IsFiniteSet(Agents \ {q[j]}) /\ Cardinality(Agents) \in Nat
        /\ Cardinality(Agents \ {q[j]}) = Cardinality(Agents) - 1
    BY <1>16, NoticesAssumption, FS_RemoveElement, FS_CardinalityType
  <2>4. Cardinality(S) <= Cardinality(Agents \ {q[j]})
    BY <2>2, <2>3, Images
  <2> QED
    BY <1>6, <1>7, <2>1, <2>3, <2>4
<1>19. CASE p = "background" \/ l.foreground # 0
  <2> DEFINE R == l[p] - u[p]
  <2>1. Room(p, u, l) = R /\ Room(p, u2, l) = l[p] - u2[p]
    BY <1>4, <1>19 DEF Room
  <2>2. l[p] \in Nat
    BY <1>1, <1>4 DEF Pools
  <2>3. Room(p, u2, l) = R - Cardinality(C) /\ R \in Int
    BY <1>10, <1>11, <2>1, <2>2
  <2>4. R <= Cardinality(S) /\ (R <= 0 \/ R \in Nat)
    BY <1>6, <1>7, <2>1, <2>3
  <2> HIDE DEF R
  <2>5. CASE R <= 0
    BY <1>4, <1>10, <2>3, <2>5
  <2>6. CASE R \in Nat
    <3> DEFINE F == {x \in S : Cardinality({y \in S : y < x}) < R}
    <3>1. Cardinality(F) >= R
      BY <1>5, <2>4, <2>6, Forerunners
    <3>2. \A x \in F : x \in S /\ q[x] \in C
      <4>1. \A x \in F : x \in S /\ x \in Taken(q, r, n, u, l)
        BY <1>13, <2>1
      <4>2. \A x \in S : PoolFor(q[x], r[q[x]], l) = p
        BY <1>4, <1>14, <1>15, <1>19 DEF Pools
      <4> HIDE DEF F
      <4> QED
        BY <1>8, <1>12, <4>1, <4>2
    <3> HIDE DEF F
    <3> DEFINE f == [x \in F |-> q[x]]
    <3>3. f \in [F -> C] /\ \A x, y \in F : f[x] = f[y] => x = y
      BY <1>5, <3>2
    <3> HIDE DEF f
    <3>4. Cardinality(F) \in Nat /\ Cardinality(F) <= Cardinality(C)
      BY <1>10, <3>3, Images
    <3> QED
      BY <1>4, <1>10, <2>3, <3>1, <3>4
  <2> QED
    BY <2>4, <2>5, <2>6
<1> QED
  BY <1>4, <1>18, <1>19 DEF Pools

\* A drain of a sound state leaves one, in which nobody in the queue could start.
LEMMA DrainsKeeps ==
    ASSUME NEW q, NEW r, NEW n, NEW u, NEW c, NEW l, Sound(q, r, n, u, c, l),
           Drains(q, r, n, u, c, l)
    PROVE  /\ Sound(queue', rec', run', used', caller', l)
           /\ NoRoom(queue', run', used', l)
           /\ \A o : o \subseteq Agents /\ Debts(r, n, o) => Debts(rec', run', o)
<1>1. Drained(q, r, n, u, c, l, queue', rec', run', used', caller')
  BY DrainsIs
<1>2. Typed(queue', rec', run', used', caller', l)
  BY <1>1, DrainedIs DEF Sound, Typed
<1>3. Bounded(queue', run') /\ Lined(queue', rec', run')
  BY <1>1, DrainedQueue
<1>4. Moded(rec', run') /\ Coursed(rec', run') /\ Gated(queue', run', caller')
  BY <1>1, DrainedModes
<1>5. Counted(run', used')
  BY <1>1, DrainedCounts
<1>6. NoRoom(queue', run', used', l)
  BY <1>1, DrainedRoom
<1>7. ASSUME NEW o, o \subseteq Agents, Debts(r, n, o), NEW a \in o
      PROVE  /\ rec'[a].ended /\ ~rec'[a].consumed /\ rec'[a].background
             /\ rec'[a].status # "gone" /\ run'[a] # <<>> /\ run'[a][1].at # "copying"
  <2> DEFINE S == Started(q, r, n, u, l)
  <2>1. a \in Agents /\ n[a] \in Seq(Run)
    BY <1>7 DEF Sound, Typed
  <2>2. /\ rec'[a].background = r[a].background /\ rec'[a].ended = r[a].ended
        /\ rec'[a].consumed = r[a].consumed /\ rec'[a].status \in {"running", r[a].status}
        /\ run'[a] \in Seq(Run)
        /\ a \notin S => run'[a] = n[a]
        /\ a \in S => /\ Len(run'[a]) = Len(n[a]) + 1
                      /\ \A i \in 1..Len(n[a]) : run'[a][i] = n[a][i]
    BY <1>1, <2>1, DrainedIs
  <2> HIDE DEF S
  <2>3. /\ r[a].ended /\ ~r[a].consumed /\ r[a].background /\ r[a].status # "gone"
        /\ n[a] # <<>> /\ n[a][1].at # "copying"
    BY <1>7 DEF Debts
  <2>4. run'[a] # <<>> /\ run'[a][1] = n[a][1]
    BY <2>1, <2>2, <2>3
  <2> QED
    BY <2>2, <2>3, <2>4
<1>8. \A o : o \subseteq Agents /\ Debts(r, n, o) => Debts(rec', run', o)
  BY <1>7 DEF Debts
<1> QED
  BY <1>2, <1>3, <1>4, <1>5, <1>6, <1>8 DEF Sound

-----------------------------------------------------------------------------
(* One agent at a time: what the invariant says of a record x, runs s, a    *)
(* caller g and k entries of the queue.                                     *)

Fits(a, x, s, g, k) ==
    /\ Len(s) + k <= MaxRuns[a]
    /\ k > 0 => /\ TopLevel(a) /\ x.status # "unborn" /\ (s # <<>> => Talked(s))
                /\ s = <<>> => k <= 1
    /\ Kind[a] = "background" /\ x.status # "unborn" => x.background
    /\ Kind[a] = "blocking" /\ s = <<>> => ~x.background
    /\ x.status = "queued" /\ s # <<>> => x.background
    /\ x.status = "unborn" => s = <<>>
    /\ x.status = "gone" => s # <<>> /\ s[1].at = "void"
    /\ \A i \in DOMAIN s :
         IF i = 1 THEN s[i].at # "inline"
         ELSE /\ Talked(s) /\ s[i].at \in {"running", "inline", "over"}
              /\ s[i].at = "running" => x.background
    /\ g = "gate" => IF s = <<>> THEN k > 0 ELSE s[1].at \in {"copying", "discarding"}
\* How often agent a is in queue q.
Count(q, a) == Cardinality(Places(q, a))

LEMMA PlacesCount ==
    ASSUME NEW q \in Seq(Agents), NEW a
    PROVE  /\ IsFiniteSet(Places(q, a)) /\ Count(q, a) \in Nat
           /\ Count(q, a) > 0 <=> Places(q, a) # {}
           /\ Count(q, a) <= 1 <=> Once(q, a)
<1>1. IsFiniteSet(Places(q, a)) /\ Count(q, a) \in Nat
  <2>1. DOMAIN q = 1..Len(q) /\ IsFiniteSet(DOMAIN q)
    BY FS_Interval
  <2> QED
    BY <2>1, Counts DEF Places, Count
<1>2. Count(q, a) > 0 <=> Places(q, a) # {}
  BY <1>1, FS_EmptySet DEF Count
<1>3. ASSUME NEW i \in Places(q, a)
      PROVE  Count(q, a) <= 1 <=> Once(q, a)
  <2>1. /\ IsFiniteSet(Places(q, a) \ {i}) /\ Cardinality(Places(q, a) \ {i}) \in Nat
        /\ Count(q, a) = Cardinality(Places(q, a) \ {i}) + 1
    <3>1. /\ IsFiniteSet(Places(q, a) \ {i})
          /\ Cardinality(Places(q, a) \ {i}) = Count(q, a) - 1
      BY <1>1, FS_RemoveElement DEF Count
    <3>2. Cardinality(Places(q, a) \ {i}) \in Nat
      BY <3>1, FS_CardinalityType
    <3> QED
      BY <1>1, <3>1, <3>2
  <2>2. Cardinality(Places(q, a) \ {i}) = 0 <=> Places(q, a) \ {i} = {}
    BY <2>1, FS_EmptySet
  <2>3. Once(q, a) <=> Places(q, a) \ {i} = {}
    BY <1>3 DEF Once
  <2> QED
    BY <1>1, <2>1, <2>2, <2>3
<1>4. Places(q, a) = {} => Count(q, a) <= 1 /\ Once(q, a)
  BY <1>1, <1>2 DEF Once
<1> QED
  BY <1>1, <1>2, <1>3, <1>4

LEMMA SoundFits ==
    ASSUME NEW q, NEW r, NEW n, NEW u, NEW c, NEW l, Typed(q, r, n, u, c, l)
    PROVE  Sound(q, r, n, u, c, l)
             <=> Counted(n, u) /\ \A a \in Agents : Fits(a, r[a], n[a], c[a], Count(q, a))
<1>1. q \in Seq(Agents)
  BY DEF Typed
<1>2. \A a : /\ Count(q, a) \in Nat /\ (Count(q, a) > 0 <=> Places(q, a) # {})
             /\ Count(q, a) <= 1 <=> Once(q, a)
  BY <1>1, PlacesCount
<1>3. ASSUME Sound(q, r, n, u, c, l), NEW a \in Agents
      PROVE  Fits(a, r[a], n[a], c[a], Count(q, a))
  <2>1. Len(n[a]) + Count(q, a) <= MaxRuns[a]
    BY <1>3 DEF Sound, Bounded, Count
  <2>2. ASSUME Count(q, a) > 0
        PROVE  /\ TopLevel(a) /\ r[a].status # "unborn" /\ (n[a] # <<>> => Talked(n[a]))
               /\ n[a] = <<>> => Count(q, a) <= 1
    <3>1. PICK i \in DOMAIN q : q[i] = a
      BY <1>2, <2>2 DEF Places
    <3>2. /\ TopLevel(a) /\ r[a].status # "unborn" /\ (n[a] # <<>> => Talked(n[a]))
          /\ n[a] = <<>> => \A j \in Places(q, a) : j = i
      BY <1>3, <3>1 DEF Sound, Lined
    <3> QED
      BY <1>2, <3>2 DEF Once
  <2>3. Moded(r, n) /\ Coursed(r, n) /\ Gated(q, n, c)
    BY <1>3 DEF Sound
  <2>4. c[a] = "gate" => IF n[a] = <<>> THEN Count(q, a) > 0
                                        ELSE n[a][1].at \in {"copying", "discarding"}
    BY <1>2, <2>3 DEF Gated
  <2> QED
    BY <2>1, <2>2, <2>3, <2>4 DEF Fits, Moded, Coursed
<1>4. ASSUME Counted(n, u), \A a \in Agents : Fits(a, r[a], n[a], c[a], Count(q, a))
      PROVE  Sound(q, r, n, u, c, l)
  <2>1. Bounded(q, n)
    BY <1>4 DEF Fits, Bounded, Count
  <2>2. ASSUME NEW i \in DOMAIN q
        PROVE  /\ TopLevel(q[i]) /\ r[q[i]].status # "unborn"
               /\ n[q[i]] # <<>> => Talked(n[q[i]])
               /\ n[q[i]] = <<>> => \A j \in Places(q, q[i]) : j = i
    <3>1. q[i] \in Agents /\ i \in Places(q, q[i])
      BY <1>1 DEF Places
    <3>2. Count(q, q[i]) > 0
      BY <1>2, <3>1
    <3>3. /\ TopLevel(q[i]) /\ r[q[i]].status # "unborn"
          /\ n[q[i]] # <<>> => Talked(n[q[i]])
          /\ n[q[i]] = <<>> => Count(q, q[i]) <= 1
      BY <1>4, <3>1, <3>2 DEF Fits
    <3>4. Count(q, q[i]) <= 1 => \A j \in Places(q, q[i]) : j = i
      BY <1>2, <3>1 DEF Once
    <3> QED
      BY <3>3, <3>4
  <2>3. Lined(q, r, n)
    BY <2>2 DEF Lined
  <2>4. Moded(r, n) /\ Coursed(r, n)
    BY <1>4 DEF Fits, Moded, Coursed
  <2>5. Gated(q, n, c)
    BY <1>2, <1>4 DEF Fits, Gated
  <2> QED
    BY <1>4, <2>1, <2>3, <2>4, <2>5 DEF Sound
<1>5. Sound(q, r, n, u, c, l) => Counted(n, u)
  BY DEF Sound
<1> QED
  BY <1>3, <1>4, <1>5

\* Fewer entries fit, unless there are none left.
LEMMA FewerFits ==
    ASSUME NEW a \in Agents, NEW x, NEW s \in Seq(Run), NEW g, NEW k \in Nat,
           Fits(a, x, s, g, k), NEW j \in Nat, j <= k, k > 0 => j > 0
    PROVE  Fits(a, x, s, g, j)
<1>1. MaxRuns[a] \in Nat /\ Len(s) \in Nat
  BY SubagentsAssumption
<1>2. Len(s) + j <= MaxRuns[a]
  BY <1>1 DEF Fits
<1>3. j > 0 => k > 0
  OBVIOUS
<1>4. k <= 1 => j <= 1
  OBVIOUS
<1> QED
  BY <1>2, <1>3, <1>4 DEF Fits

LEMMA Appended ==
    ASSUME NEW q \in Seq(Agents), NEW a \in Agents
    PROVE  /\ Append(q, a) \in Seq(Agents)
           /\ Count(Append(q, a), a) = Count(q, a) + 1
           /\ \A b : b # a => Count(Append(q, a), b) = Count(q, b)
           /\ \A i \in DOMAIN Append(q, a) :
                Append(q, a)[i] = a \/ \E j \in DOMAIN q : Append(q, a)[i] = q[j]
<1> DEFINE w == Append(q, a)
<1>1. /\ w \in Seq(Agents) /\ DOMAIN q = 1..Len(q) /\ Len(q) \in Nat
      /\ DOMAIN w = 1..(Len(q) + 1) /\ w[Len(q) + 1] = a
      /\ \A i \in 1..Len(q) : w[i] = q[i]
  OBVIOUS
<1> HIDE DEF w
<1>2. Places(w, a) = Places(q, a) \cup {Len(q) + 1} /\ Len(q) + 1 \notin Places(q, a)
  BY <1>1 DEF Places
<1>3. \A b : b # a => Places(w, b) = Places(q, b)
  BY <1>1 DEF Places
<1>4. Count(w, a) = Count(q, a) + 1
  BY <1>2, PlacesCount, FS_AddElement DEF Count
<1>5. \A i \in DOMAIN w : w[i] = a \/ \E j \in DOMAIN q : w[i] = q[j]
  BY <1>1
<1> QED
  BY <1>1, <1>3, <1>4, <1>5 DEF Count, w

\* Agent a leaves the queue.
LEMMA Removed ==
    ASSUME NEW q \in Seq(Agents), NEW a \in Agents, NEW w, w = Without(q, Places(q, a))
    PROVE  /\ w \in Seq(Agents) /\ Count(w, a) = 0
           /\ \A b \in Agents : b # a => /\ Count(w, b) <= Count(q, b)
                                         /\ Count(q, b) > 0 => Count(w, b) > 0
           /\ \A i \in DOMAIN w : \E j \in DOMAIN q : w[i] = q[j]
<1>1. /\ w \in Seq(Agents)
      /\ \A i \in DOMAIN w : \E j \in DOMAIN q \ Places(q, a) : w[i] = q[j]
      /\ \A j \in DOMAIN q \ Places(q, a) : \E i \in DOMAIN w : w[i] = q[j]
      /\ \A b \in Agents : Count(w, b) <= Cardinality(Places(q, b) \ Places(q, a))
  BY WithoutKeeps DEF Count
<1>2. \A b : Count(w, b) \in Nat /\ (Count(w, b) > 0 <=> Places(w, b) # {})
  BY <1>1, PlacesCount
<1>3. \A b : Count(q, b) \in Nat /\ (Count(q, b) > 0 <=> Places(q, b) # {})
  BY PlacesCount
<1>4. Count(w, a) = 0
  <2>1. Places(w, a) = {}
    BY <1>1 DEF Places
  <2> QED
    BY <1>2, <2>1
<1>5. ASSUME NEW b \in Agents, b # a
      PROVE  Count(w, b) <= Count(q, b) /\ (Count(q, b) > 0 => Count(w, b) > 0)
  <2>1. Places(q, b) \ Places(q, a) = Places(q, b)
    BY <1>5 DEF Places
  <2>2. Places(q, b) # {} => Places(w, b) # {}
    <3>1. SUFFICES ASSUME NEW j \in DOMAIN q, q[j] = b
                   PROVE  Places(w, b) # {}
      BY DEF Places
    <3>2. j \in DOMAIN q \ Places(q, a)
      BY <1>5, <3>1 DEF Places
    <3> QED
      BY <1>1, <3>1, <3>2 DEF Places
  <2> QED
    BY <1>1, <1>2, <1>3, <2>1, <2>2 DEF Count
<1> QED
  BY <1>1, <1>4, <1>5

-----------------------------------------------------------------------------
(* What a step may change.                                                  *)

\* Where a run may be.
Ats == {"copying", "running", "inline", "tidying", "discarding", "over", "void"}

\* Run i of agent a goes to x.
Sets(n, a, i, x) == [n EXCEPT ![a][i].at = x]

LEMMA RunSets ==
    ASSUME NEW n \in [Agents -> Seq(Run)], NEW a \in Agents, NEW i \in DOMAIN n[a],
           NEW x \in Ats, NEW m, m = Sets(n, a, i, x)
    PROVE  /\ m \in [Agents -> Seq(Run)] /\ \A b \in Agents : b # a => m[b] = n[b]
           /\ n[a] \in Seq(Run) /\ n[a] # <<>> /\ m[a] # <<>>
           /\ Len(m[a]) = Len(n[a]) /\ DOMAIN m[a] = DOMAIN n[a] /\ DOMAIN n[a] = 1..Len(n[a])
           /\ \A k \in DOMAIN n[a] : k # i => m[a][k] = n[a][k]
           /\ m[a][i].at = x /\ m[a][i].pool = n[a][i].pool
           /\ n[a][i].at \in Ats /\ n[a][i].pool \in Pools \cup {NoPool}
<1>1. n[a] \in Seq(Run) /\ n[a][i] \in Run
  OBVIOUS
<1>2. [n[a][i] EXCEPT !.at = x] \in Run
  BY <1>1 DEF Run, Ats
<1>3. /\ m[a] = [n[a] EXCEPT ![i] = [n[a][i] EXCEPT !.at = x]]
      /\ m = [b \in Agents |-> m[b]] /\ \A b \in Agents : b # a => m[b] = n[b]
  BY DEF Sets
<1>4. /\ m[a] \in Seq(Run) /\ Len(m[a]) = Len(n[a]) /\ DOMAIN m[a] = DOMAIN n[a]
      /\ m[a][i] = [n[a][i] EXCEPT !.at = x]
      /\ \A k \in DOMAIN n[a] : k # i => m[a][k] = n[a][k]
  BY <1>1, <1>2, <1>3
<1>5. m[a][i].at = x /\ m[a][i].pool = n[a][i].pool
  BY <1>1, <1>4 DEF Run
<1>6. m \in [Agents -> Seq(Run)] /\ \A b \in Agents : b # a => m[b] = n[b]
  BY <1>3, <1>4
<1>7. n[a] # <<>> /\ m[a] # <<>> /\ DOMAIN n[a] = 1..Len(n[a])
  BY <1>1, <1>4
<1>8. n[a][i].at \in Ats /\ n[a][i].pool \in Pools \cup {NoPool}
  BY <1>1 DEF Run, Ats
<1> QED
  BY <1>1, <1>4, <1>5, <1>6, <1>7, <1>8

\* A run that goes on keeps its slot; one that comes to an end gives it back.
LEMMA RunMoves ==
    ASSUME NEW n \in [Agents -> Seq(Run)], NEW u \in [Pools -> Nat], Counted(n, u),
           NEW a \in Agents, NEW i \in DOMAIN n[a], Len(n[a]) <= MaxRuns[a],
           NEW x \in Ats, NEW m, m = Sets(n, a, i, x)
    PROVE  /\ (x \in InFlight <=> n[a][i].at \in InFlight) => Counted(m, u)
           /\ x \notin InFlight /\ n[a][i].at \in InFlight
                => /\ Counted(m, Gives(u, n[a][i].pool))
                   /\ Gives(u, n[a][i].pool) \in [Pools -> Nat]
<1>1. /\ m \in [Agents -> Seq(Run)] /\ \A b \in Agents : b # a => m[b] = n[b]
      /\ Len(m[a]) = Len(n[a]) /\ DOMAIN m[a] = DOMAIN n[a] /\ DOMAIN n[a] = 1..Len(n[a])
      /\ \A k \in DOMAIN n[a] : k # i => m[a][k] = n[a][k]
      /\ m[a][i].at = x /\ m[a][i].pool = n[a][i].pool
      /\ n[a][i].pool \in Pools \cup {NoPool}
  BY RunSets
<1>2. i \in 1..MaxRuns[a]
  <2>1. n[a] \in Seq(Run) /\ Len(n[a]) \in Nat
    OBVIOUS
  <2> QED
    BY <1>1, <2>1, SubagentsAssumption
<1>4. ASSUME NEW p \in Pools
      PROVE  /\ (Holding(m, a, i, p) <=> Holding(n, a, i, p))
                  => Cardinality(Slots(m, p)) = Cardinality(Slots(n, p))
             /\ ~Holding(m, a, i, p) /\ Holding(n, a, i, p)
                  => /\ Cardinality(Slots(m, p)) = Cardinality(Slots(n, p)) - 1
                     /\ Cardinality(Slots(n, p)) > 0
  <2>1. Elsewhere(n, m, a, i, p)
    BY <1>1 DEF Holding, Elsewhere
  <2> QED
    BY <1>2, <2>1, OneRunChanges
<1>5. \A p : /\ Holding(n, a, i, p) <=> n[a][i].at \in InFlight /\ n[a][i].pool = p
             /\ Holding(m, a, i, p) <=> x \in InFlight /\ n[a][i].pool = p
  BY <1>1 DEF Holding
<1>6. ASSUME x \in InFlight <=> n[a][i].at \in InFlight
      PROVE  Counted(m, u)
  BY <1>4, <1>5, <1>6 DEF Counted
<1>7. ASSUME x \notin InFlight, n[a][i].at \in InFlight
      PROVE  /\ Counted(m, Gives(u, n[a][i].pool))
             /\ Gives(u, n[a][i].pool) \in [Pools -> Nat]
  <2> DEFINE v == Gives(u, n[a][i].pool)
  <2>1. /\ DOMAIN v = Pools /\ v = [p \in Pools |-> v[p]]
        /\ \A p \in Pools : v[p] = IF n[a][i].pool = p THEN u[p] - 1 ELSE u[p]
    BY <1>1, RunTypes DEF Gives
  <2> HIDE DEF v
  <2>2. ASSUME NEW p \in Pools
        PROVE  v[p] = Cardinality(Slots(m, p)) /\ v[p] \in Nat
    <3>1. u[p] = Cardinality(Slots(n, p)) /\ u[p] \in Nat
      BY DEF Counted
    <3>2. Holding(n, a, i, p) <=> n[a][i].pool = p
      BY <1>5, <1>7
    <3>3. ~Holding(m, a, i, p)
      BY <1>5, <1>7
    <3>4. CASE n[a][i].pool = p
      BY <1>4, <2>1, <3>1, <3>2, <3>3, <3>4
    <3>5. CASE n[a][i].pool # p
      BY <1>4, <2>1, <3>1, <3>2, <3>3, <3>5
    <3> QED
      BY <3>4, <3>5
  <2> QED
    BY <2>1, <2>2 DEF Counted, v
<1> QED
  BY <1>6, <1>7

\* Run b of agent a begins.
Begun(n, a, b) == [n EXCEPT ![a] = Append(n[a], b)]

LEMMA BegunIs ==
    ASSUME NEW n \in [Agents -> Seq(Run)], NEW a \in Agents, NEW b \in Run,
           NEW m, m = Begun(n, a, b)
    PROVE  /\ m \in [Agents -> Seq(Run)] /\ \A o \in Agents : o # a => m[o] = n[o]
           /\ n[a] \in Seq(Run) /\ Len(n[a]) \in Nat
           /\ DOMAIN n[a] = 1..Len(n[a]) /\ DOMAIN m[a] = 1..(Len(n[a]) + 1)
           /\ Len(m[a]) = Len(n[a]) + 1 /\ m[a] # <<>>
           /\ \A k \in DOMAIN n[a] : m[a][k] = n[a][k]
           /\ m[a][Len(n[a]) + 1] = b
<1>1. /\ m \in [Agents -> Seq(Run)] /\ \A o \in Agents : o # a => m[o] = n[o]
      /\ n[a] \in Seq(Run) /\ m[a] = Append(n[a], b)
  BY DEF Begun
<1>2. /\ Len(n[a]) \in Nat /\ DOMAIN n[a] = 1..Len(n[a])
      /\ DOMAIN m[a] = 1..(Len(n[a]) + 1) /\ Len(m[a]) = Len(n[a]) + 1
      /\ \A k \in DOMAIN n[a] : m[a][k] = n[a][k]
      /\ m[a][Len(n[a]) + 1] = b /\ m[a] # <<>>
  BY <1>1
<1> QED
  BY <1>1, <1>2

\* A run that begins takes a slot of its pool.
LEMMA RunJoins ==
    ASSUME NEW n \in [Agents -> Seq(Run)], NEW u \in [Pools -> Nat], Counted(n, u),
           NEW a \in Agents, Len(n[a]) + 1 <= MaxRuns[a], NEW b \in Run,
           NEW m, m = Begun(n, a, b)
    PROVE  /\ b.at \notin InFlight => Counted(m, u)
           /\ b.at \in InFlight => Counted(m, Takes(u, b.pool))
           /\ Takes(u, b.pool) \in [Pools -> Nat]
           /\ \A p \in Pools : u[p] <= Takes(u, b.pool)[p]
<1>1. /\ m \in [Agents -> Seq(Run)] /\ \A o \in Agents : o # a => m[o] = n[o]
      /\ n[a] \in Seq(Run) /\ m[a] # <<>>
  BY BegunIs
<1>2. /\ Len(n[a]) \in Nat /\ DOMAIN n[a] = 1..Len(n[a])
      /\ DOMAIN m[a] = 1..(Len(n[a]) + 1) /\ Len(m[a]) = Len(n[a]) + 1
      /\ \A k \in DOMAIN n[a] : m[a][k] = n[a][k]
      /\ m[a][Len(n[a]) + 1] = b
  BY BegunIs
<1> DEFINE i == Len(n[a]) + 1
<1>3. i \in 1..MaxRuns[a]
  BY <1>2, SubagentsAssumption
<1>4. \A p : ~Holding(n, a, i, p) /\ (Holding(m, a, i, p) <=> b.at \in InFlight /\ b.pool = p)
  BY <1>2 DEF Holding
<1>5. ASSUME NEW p
      PROVE  /\ ~(b.at \in InFlight /\ b.pool = p)
                  => Cardinality(Slots(m, p)) = Cardinality(Slots(n, p))
             /\ b.at \in InFlight /\ b.pool = p
                  => Cardinality(Slots(m, p)) = Cardinality(Slots(n, p)) + 1
  <2>1. ASSUME NEW o \in Agents, NEW k \in 1..MaxRuns[o], o # a \/ k # i
        PROVE  Holding(m, o, k, p) <=> Holding(n, o, k, p)
    <3>1. CASE o # a
      BY <1>1, <3>1 DEF Holding
    <3>2. CASE o = a /\ k # i
      <4>1. k \in DOMAIN m[a] <=> k \in DOMAIN n[a]
        BY <1>2, <3>2
      <4> QED
        BY <1>2, <3>2, <4>1 DEF Holding
    <3> QED
      BY <2>1, <3>1, <3>2
  <2>2. Elsewhere(n, m, a, i, p)
    BY <2>1 DEF Elsewhere
  <2> HIDE DEF i
  <2>3. /\ Holding(m, a, i, p) /\ ~Holding(n, a, i, p)
             => Cardinality(Slots(m, p)) = Cardinality(Slots(n, p)) + 1
        /\ (Holding(m, a, i, p) <=> Holding(n, a, i, p))
             => Cardinality(Slots(m, p)) = Cardinality(Slots(n, p))
    BY <1>3, <2>2, OneRunChanges
  <2> QED
    BY <1>3, <1>4, <2>2, <2>3
<1> HIDE DEF i
<1>6. b.pool \in Pools \cup {NoPool}
  BY DEF Run
<1> DEFINE v == Takes(u, b.pool)
<1>7. /\ v = [p \in Pools |-> v[p]]
      /\ \A p \in Pools : v[p] = IF b.pool = p THEN u[p] + 1 ELSE u[p]
  BY <1>6, RunTypes DEF Takes
<1> HIDE DEF v
<1>8. v \in [Pools -> Nat] /\ \A p \in Pools : u[p] <= v[p]
  <2>1. ASSUME NEW p \in Pools
        PROVE  v[p] \in Nat /\ u[p] <= v[p]
    <3>1. u[p] \in Nat /\ v[p] \in {u[p], u[p] + 1}
      BY <1>7
    <3> QED
      BY <3>1
  <2> QED
    BY <1>7, <2>1
<1>9. b.at \notin InFlight => Counted(m, u)
  BY <1>5 DEF Counted
<1>10. b.at \in InFlight => Counted(m, v)
  BY <1>5, <1>7 DEF Counted
<1> QED
  BY <1>1, <1>2, <1>8, <1>9, <1>10 DEF v, i

\* One agent changes, and the others are in the queue as before, or less often.
LEMMA OneAgentChanges ==
    ASSUME NEW q, NEW r, NEW n, NEW u, NEW c, NEW l, Sound(q, r, n, u, c, l),
           NEW q2, NEW r2, NEW n2, NEW u2, NEW c2, NEW l2,
           Typed(q2, r2, n2, u2, c2, l2), Counted(n2, u2), NEW a \in Agents,
           \A b \in Agents : b # a =>
               /\ r2[b] = r[b] /\ n2[b] = n[b] /\ c2[b] = c[b]
               /\ Count(q2, b) <= Count(q, b) /\ (Count(q, b) > 0 => Count(q2, b) > 0),
           Fits(a, r2[a], n2[a], c2[a], Count(q2, a))
    PROVE  Sound(q2, r2, n2, u2, c2, l2)
<1>1. Typed(q, r, n, u, c, l)
  BY DEF Sound
<1>2. \A b \in Agents : Fits(b, r[b], n[b], c[b], Count(q, b))
  BY <1>1, SoundFits
<1>3. \A b \in Agents : Count(q, b) \in Nat /\ Count(q2, b) \in Nat /\ n[b] \in Seq(Run)
  BY <1>1, PlacesCount DEF Typed
<1>4. \A b \in Agents : b # a => Fits(b, r[b], n[b], c[b], Count(q2, b))
  BY <1>2, <1>3, FewerFits
<1>5. \A b \in Agents : Fits(b, r2[b], n2[b], c2[b], Count(q2, b))
  BY <1>4
<1> QED
  BY <1>5, SoundFits

\* Where nobody but those who wait already waits, and no slot is given back.
LEMMA StillAttended ==
    ASSUME NEW q, NEW r, NEW n, NEW u, NEW c, NEW l, Typed(q, r, n, u, c, l),
           Attended(q, n, u, l),
           NEW q2, NEW n2, NEW u2 \in [Pools -> Nat], \A p \in Pools : u[p] <= u2[p],
           \A i \in DOMAIN q2 :
               \/ Room(WaitsOn(q2[i], n2), u2, l) <= 0
               \/ \E j \in DOMAIN q : q2[i] = q[j] /\ (n2[q[j]] = <<>> <=> n[q[j]] = <<>>),
           \A d \in Agents : n[d] # <<>> /\ n[d][1].at = "discarding"
                               => n2[d] # <<>> /\ n2[d][1].at = "discarding"
    PROVE  Attended(q2, n2, u2, l)
<1>1. CASE \E d \in Agents : n[d] # <<>> /\ n[d][1].at = "discarding"
  BY <1>1 DEF Attended
<1>2. CASE NoRoom(q, n, u, l)
  <2>1. SUFFICES ASSUME NEW i \in DOMAIN q2, NEW j \in DOMAIN q, q2[i] = q[j],
                        n2[q[j]] = <<>> <=> n[q[j]] = <<>>
                 PROVE  Room(WaitsOn(q2[i], n2), u2, l) <= 0
    BY DEF Attended, NoRoom
  <2> DEFINE p == WaitsOn(q[j], n)
  <2>2. WaitsOn(q2[i], n2) = p /\ p \in Pools
    BY <2>1 DEF WaitsOn, Pools
  <2>3. Room(p, u, l) <= 0
    BY <1>2 DEF NoRoom
  <2> HIDE DEF p
  <2>4. u[p] \in Nat /\ u2[p] \in Nat /\ u[p] <= u2[p] /\ l[p] \in Nat
    BY <2>2, SubagentsAssumption DEF Typed, Pools
  <2>5. Room(p, u2, l) <= 0
    BY <2>3, <2>4 DEF Room
  <2> QED
    BY <2>2, <2>5
<1> QED
  BY <1>1, <1>2 DEF Attended

-----------------------------------------------------------------------------
(* What each action leaves.                                                 *)

\* What the invariant says, in the parts that the steps use.
LEMMA Within ==
    ASSUME IInv
    PROVE  /\ Sound(queue, rec, run, used, caller, limit)
           /\ Typed(queue, rec, run, used, caller, limit)
           /\ queue \in Seq(Agents) /\ rec \in [Agents -> Record] /\ run \in [Agents -> Seq(Run)]
           /\ used \in [Pools -> Nat] /\ caller \in [Agents -> Callers]
           /\ limit \in [background : Limits, foreground : ForegroundLimits]
           /\ Counted(run, used) /\ Attended(queue, run, used, limit)
           /\ owed \subseteq Agents /\ Debts(rec, run, owed)
           /\ desk \in Desk /\ \A a \in owed : Covered(desk, a)
           /\ \A a \in Agents :
                /\ Fits(a, rec[a], run[a], caller[a], Count(queue, a))
                /\ Count(queue, a) \in Nat /\ Len(run[a]) \in Nat
                /\ Len(run[a]) <= MaxRuns[a] /\ MaxRuns[a] \in Nat
<1>1. Sound(queue, rec, run, used, caller, limit) /\ Typed(queue, rec, run, used, caller, limit)
  BY DEF IInv, Whole, Sound
<1>2. /\ queue \in Seq(Agents) /\ rec \in [Agents -> Record] /\ run \in [Agents -> Seq(Run)]
      /\ used \in [Pools -> Nat] /\ caller \in [Agents -> Callers]
      /\ limit \in [background : Limits, foreground : ForegroundLimits]
  BY <1>1 DEF Typed
<1>3. Counted(run, used) /\ \A a \in Agents : Fits(a, rec[a], run[a], caller[a], Count(queue, a))
  BY <1>1, SoundFits
<1>4. ASSUME NEW a \in Agents
      PROVE  /\ Count(queue, a) \in Nat /\ Len(run[a]) \in Nat
             /\ Len(run[a]) <= MaxRuns[a] /\ MaxRuns[a] \in Nat
  <2>1. Count(queue, a) \in Nat
    BY <1>2, PlacesCount
  <2>2. Len(run[a]) \in Nat /\ MaxRuns[a] \in Nat
    BY <1>2, SubagentsAssumption
  <2>3. Len(run[a]) + Count(queue, a) <= MaxRuns[a]
    BY <1>3 DEF Fits
  <2> QED
    BY <2>1, <2>2, <2>3
<1>5. /\ Attended(queue, run, used, limit)
      /\ owed \subseteq Agents /\ Debts(rec, run, owed)
      /\ desk \in Desk /\ \A a \in owed : Covered(desk, a)
  BY DEF IInv, Whole
<1> QED
  BY <1>1, <1>2, <1>3, <1>4, <1>5

\* A step that leaves the queue, the runs and the counters alone.
LEMMA NoRunChanges ==
    ASSUME IInv, UNCHANGED <<queue, run, used, limit>>, NEW a \in Agents,
           rec' \in [Agents -> Record], caller' \in [Agents -> Callers],
           \A b \in Agents : b # a => rec'[b] = rec[b] /\ caller'[b] = caller[b],
           Fits(a, rec'[a], run[a], caller'[a], Count(queue, a))
    PROVE  /\ Sound(queue', rec', run', used', caller', limit')
           /\ Attended(queue', run', used', limit')
<1>1. /\ Sound(queue, rec, run, used, caller, limit)
      /\ Typed(queue, rec, run, used, caller, limit)
      /\ Counted(run, used) /\ Attended(queue, run, used, limit)
      /\ \A b \in Agents : Count(queue, b) \in Nat
  BY Within
<1>2. queue' = queue /\ run' = run /\ used' = used /\ limit' = limit
  OBVIOUS
<1>3. Typed(queue, rec', run, used, caller', limit)
  BY <1>1 DEF Typed
<1>4. Sound(queue, rec', run, used, caller', limit)
  BY <1>1, <1>3, OneAgentChanges
<1> QED
  BY <1>1, <1>2, <1>4

LEMMA CallerReturnsKeeps ==
    ASSUME IInv, NEW a \in Agents, CallerReturns(a)
    PROVE  IInv'
<1>1. /\ UNCHANGED <<rec, queue, run, used, limit, desk, owed>>
      /\ caller' = [caller EXCEPT ![a] = "back"]
  BY DEF CallerReturns
<1>2. caller' \in [Agents -> Callers] /\ caller'[a] = "back"
  BY <1>1, Within DEF Callers
<1>3. Fits(a, rec[a], run[a], caller'[a], Count(queue, a))
  BY <1>2, Within DEF Fits
<1>4. rec \in [Agents -> Record] /\ \A b \in Agents : b # a => caller'[b] = caller[b]
  BY <1>1, Within
<1>5. /\ Sound(queue', rec', run', used', caller', limit')
      /\ Attended(queue', run', used', limit')
  BY <1>1, <1>2, <1>3, <1>4, NoRunChanges
<1> QED
  BY <1>1, <1>5, Within DEF IInv, Whole

LEMMA ConsumeKeeps ==
    ASSUME IInv, NEW a \in Agents, Consume(a)
    PROVE  IInv'
<1>1. /\ UNCHANGED <<queue, run, used, limit, caller>>
      /\ rec' = [rec EXCEPT ![a].consumed = TRUE]
      /\ desk' = Cancels(desk, One(a)) /\ owed' = owed \ {a}
  BY DEF Consume
<1>2. /\ rec' \in [Agents -> Record] /\ rec'[a].status = rec[a].status
      /\ rec'[a].background = rec[a].background
      /\ \A b \in Agents : b # a => rec'[b] = rec[b]
  BY <1>1, Within DEF Record
<1>3. Fits(a, rec'[a], run[a], caller[a], Count(queue, a))
  BY <1>2, Within DEF Fits
<1>4. /\ Sound(queue', rec', run', used', caller', limit')
      /\ Attended(queue', run', used', limit')
  BY <1>1, <1>2, <1>3, Within, NoRunChanges
<1>5. Debts(rec', run', owed') /\ owed' \subseteq Agents
  BY <1>1, <1>2, Within DEF Debts
<1>6. desk' \in Desk /\ \A b \in owed' : Covered(desk', b)
  BY <1>1, Within, CancelsKeeps, NudgeTypes
<1> QED
  BY <1>4, <1>5, <1>6 DEF IInv, Whole

LEMMA SteerKeeps ==
    ASSUME IInv, NEW a \in Agents, Steer(a)
    PROVE  IInv'
<1>1. /\ UNCHANGED <<queue, run, used, limit, caller, desk, owed>>
      /\ rec' = [rec EXCEPT ![a].consumed = FALSE]
  BY DEF Steer
<1>2. /\ rec' \in [Agents -> Record] /\ rec'[a].status = rec[a].status
      /\ rec'[a].background = rec[a].background /\ rec'[a].ended = rec[a].ended
      /\ ~rec'[a].consumed /\ \A b \in Agents : b # a => rec'[b] = rec[b]
  BY <1>1, Within DEF Record
<1>3. Fits(a, rec'[a], run[a], caller[a], Count(queue, a))
  BY <1>2, Within DEF Fits
<1>4. /\ Sound(queue', rec', run', used', caller', limit')
      /\ Attended(queue', run', used', limit')
  BY <1>1, <1>2, <1>3, Within, NoRunChanges
<1>5. Debts(rec', run', owed')
  <2>1. Debts(rec, run, owed) /\ owed \subseteq Agents
    BY Within
  <2> QED
    BY <1>1, <1>2, <2>1 DEF Debts
<1> QED
  BY <1>1, <1>4, <1>5, Within DEF IInv, Whole

\* A step of the desk alone.
LEMMA DeskChanges ==
    ASSUME IInv, UNCHANGED <<rec, queue, run, used, limit, caller>>, owed' \subseteq owed,
           desk' \in Desk, \A a \in owed' : Covered(desk', a)
    PROVE  IInv'
<1>1. Debts(rec', run', owed') /\ owed' \subseteq Agents
  BY Within DEF Debts
<1> QED
  BY <1>1, Within DEF IInv, Whole

LEMMA FinalizeBatchKeeps ==
    ASSUME IInv, FinalizeBatch
    PROVE  IInv'
<1> DEFINE finished == {a \in desk.batch : rec[a].status # "gone" /\ rec[a].ended
                                                                  /\ ~rec[a].consumed}
<1>1. /\ UNCHANGED <<rec, queue, run, used, limit, caller, owed>>
      /\ MayFinalize(desk) /\ desk' = Finalized(desk, finished)
  BY DEF FinalizeBatch
<1>2. finished \in SUBSET desk.batch
  OBVIOUS
<1>3. \A a \in owed : a \in desk.batch => a \in finished
  BY Within DEF Debts
<1> HIDE DEF finished
<1>4. /\ desk' \in Desk
      /\ \A a \in Agents : Covered(desk, a) /\ (a \in desk.batch => a \in finished)
            => Covered(desk', a)
  BY <1>1, <1>2, Within, FinalizedKeeps
<1>5. \A a \in owed : Covered(desk', a)
  BY <1>3, <1>4, Within
<1> QED
  BY <1>1, <1>4, <1>5, DeskChanges

LEMMA GroupTimeoutKeeps ==
    ASSUME IInv, NEW g \in Groups, GroupTimeout(g)
    PROVE  IInv'
<1>1. /\ UNCHANGED <<rec, queue, run, used, limit, caller, owed>>
      /\ desk' = TimedOut(desk, g)
  BY DEF GroupTimeout
<1>2. desk' \in Desk /\ \A a \in owed : Covered(desk', a)
  BY <1>1, Within, TimedOutKeeps DEF Keeps
<1> QED
  BY <1>1, <1>2, DeskChanges

LEMMA AnnounceKeeps ==
    ASSUME IInv, NEW n \in desk.nudges, Announce(n)
    PROVE  IInv'
<1>1. /\ UNCHANGED <<rec, queue, run, used, limit, caller>>
      /\ desk' = Cancels(desk, n) /\ owed' = owed \ {a \in n.about : ~rec[a].consumed}
  BY DEF Announce
<1>2. \A a \in owed' : a \in owed /\ a \in Agents /\ a \notin n.about
  BY <1>1, Within DEF Debts
<1>3. desk' \in Desk /\ \A a \in owed' : Covered(desk', a)
  BY <1>1, <1>2, Within, CancelsKeeps
<1> QED
  BY <1>1, <1>2, <1>3, DeskChanges

\* A drain, of a sound state, by a step that sees to the desk.
LEMMA DrainEnds ==
    ASSUME NEW q, NEW r, NEW n, NEW u, NEW c, NEW l, Sound(q, r, n, u, c, l),
           Drains(q, r, n, u, c, l), limit' = l, owed' \subseteq Agents, Debts(r, n, owed'),
           desk' \in Desk, \A a \in owed' : Covered(desk', a)
    PROVE  IInv'
<1>1. /\ Sound(queue', rec', run', used', caller', l)
      /\ NoRoom(queue', run', used', l)
      /\ Debts(rec', run', owed')
  BY DrainsKeeps
<1>2. Attended(queue', run', used', limit')
  BY <1>1 DEF Attended
<1> QED
  BY <1>1, <1>2 DEF IInv, Whole

LEMMA SetLimitKeeps ==
    ASSUME IInv, SetLimit
    PROVE  IInv'
<1>1. PICK l \in [background : Limits, foreground : ForegroundLimits] :
        /\ limit' = l /\ Drains(queue, rec, run, used, caller, l)
        /\ UNCHANGED <<desk, owed>>
  BY DEF SetLimit
<1>2. Sound(queue, rec, run, used, caller, l)
  BY Within DEF Sound, Typed
<1>3. /\ owed' \subseteq Agents /\ Debts(rec, run, owed')
      /\ desk' \in Desk /\ \A a \in owed' : Covered(desk', a)
  BY <1>1, Within
<1> QED
  BY <1>1, <1>2, <1>3, DrainEnds

LEMMA WaitTurnKeeps ==
    ASSUME IInv, WaitTurn
    PROVE  IInv'
<1>1. /\ Drains(queue, rec, run, used, caller, limit)
      /\ UNCHANGED <<limit, desk, owed>>
  BY DEF WaitTurn
<1>2. /\ owed' \subseteq Agents /\ Debts(rec, run, owed')
      /\ desk' \in Desk /\ \A a \in owed' : Covered(desk', a)
  BY <1>1, Within
<1> QED
  BY <1>1, <1>2, Within, DrainEnds

LEMMA StartSettledIs ==
    ASSUME IInv, NEW a \in Agents
    PROVE  /\ StartSettled(a) \in [Agents -> Callers] /\ StartSettled(a)[a] # "gate"
           /\ \A b \in Agents : b # a => StartSettled(a)[b] = caller[b]
           /\ JoinsBatch(a) \in Desk /\ \A b \in owed : Covered(JoinsBatch(a), b)
<1>1. caller \in [Agents -> Callers] /\ caller[a] \in Callers
  BY Within
<1> DEFINE g == CASE caller[a] = "gate" -> "run" [] caller[a] = "starting" -> "none"
                  [] OTHER -> caller[a]
<1>2. g \in Callers /\ g # "gate"
  BY <1>1 DEF Callers
<1>3. StartSettled(a) = [caller EXCEPT ![a] = g]
  BY DEF StartSettled
<1> HIDE DEF g
<1>4. /\ StartSettled(a) \in [Agents -> Callers] /\ StartSettled(a)[a] # "gate"
      /\ \A b \in Agents : b # a => StartSettled(a)[b] = caller[b]
  BY <1>1, <1>2, <1>3
<1>5. JoinsBatch(a) \in Desk /\ \A b \in owed : Covered(JoinsBatch(a), b)
  BY Within, JoinsKeeps DEF JoinsBatch, Keeps
<1> QED
  BY <1>4, <1>5

\* Where one run moves, and nothing of another agent.
LEMMA RunSetSound ==
    ASSUME IInv, NEW a \in Agents, NEW i \in DOMAIN run[a], NEW x \in Ats,
           NEW r \in [Agents -> Record], NEW c \in [Agents -> Callers],
           \A b \in Agents : b # a => r[b] = rec[b] /\ c[b] = caller[b],
           NEW n, n = Sets(run, a, i, x),
           Fits(a, r[a], n[a], c[a], Count(queue, a)),
           NEW u, \/ u = used /\ (x \in InFlight <=> run[a][i].at \in InFlight)
                  \/ /\ u = Gives(used, run[a][i].pool)
                     /\ x \notin InFlight /\ run[a][i].at \in InFlight
    PROVE  Sound(queue, r, n, u, c, limit)
<1>1. /\ run \in [Agents -> Seq(Run)] /\ used \in [Pools -> Nat] /\ Counted(run, used)
      /\ Len(run[a]) <= MaxRuns[a] /\ Sound(queue, rec, run, used, caller, limit)
      /\ Typed(queue, rec, run, used, caller, limit) /\ \A b \in Agents : Count(queue, b) \in Nat
  BY Within
<1>2. n \in [Agents -> Seq(Run)] /\ \A b \in Agents : b # a => n[b] = run[b]
  <2>1. run \in [Agents -> Seq(Run)]
    BY <1>1
  <2> QED
    BY <2>1, RunSets
<1>3. Counted(n, u) /\ u \in [Pools -> Nat]
  <2>1. /\ (x \in InFlight <=> run[a][i].at \in InFlight) => Counted(n, used)
        /\ x \notin InFlight /\ run[a][i].at \in InFlight
             => /\ Counted(n, Gives(used, run[a][i].pool))
                /\ Gives(used, run[a][i].pool) \in [Pools -> Nat]
    <3>1. /\ run \in [Agents -> Seq(Run)] /\ used \in [Pools -> Nat] /\ Counted(run, used)
          /\ Len(run[a]) <= MaxRuns[a]
      BY <1>1
    <3> QED
      BY <3>1, RunMoves
  <2> QED
    BY <1>1, <2>1
<1>4. Typed(queue, r, n, u, c, limit)
  BY <1>1, <1>2, <1>3 DEF Typed
<1> QED
  <2>1. \A b \in Agents : b # a =>
          /\ r[b] = rec[b] /\ n[b] = run[b] /\ c[b] = caller[b]
          /\ Count(queue, b) <= Count(queue, b) /\ (Count(queue, b) > 0 => Count(queue, b) > 0)
    BY <1>1, <1>2
  <2>2. Sound(queue, rec, run, used, caller, limit)
    BY <1>1
  <2> QED
    BY <1>3, <1>4, <2>1, <2>2, OneAgentChanges

LEMMA RunSetAttended ==
    ASSUME IInv, NEW a \in Agents, NEW i \in DOMAIN run[a], NEW x \in Ats,
           NEW n, n = Sets(run, a, i, x), run[a][i].at # "discarding"
    PROVE  Attended(queue, n, used, limit)
<1>1. /\ run \in [Agents -> Seq(Run)] /\ used \in [Pools -> Nat] /\ queue \in Seq(Agents)
      /\ Typed(queue, rec, run, used, caller, limit) /\ Attended(queue, run, used, limit)
  BY Within
<1>2. /\ \A b \in Agents : b # a => n[b] = run[b]
      /\ run[a] # <<>> /\ n[a] # <<>> /\ DOMAIN run[a] = 1..Len(run[a])
      /\ \A k \in DOMAIN run[a] : k # i => n[a][k] = run[a][k]
  <2>1. run \in [Agents -> Seq(Run)]
    BY <1>1
  <2> QED
    BY <2>1, RunSets
<1>3. \A b \in Agents : n[b] = <<>> <=> run[b] = <<>>
  BY <1>2
<1>4. 1 \in DOMAIN run[a]
  BY <1>1, <1>2
<1>5. \A d \in Agents : run[d] # <<>> /\ run[d][1].at = "discarding"
                          => n[d] # <<>> /\ n[d][1].at = "discarding"
  BY <1>2, <1>4
<1>6. \A j \in DOMAIN queue : queue[j] \in Agents
  BY <1>1
<1>7. \A p \in Pools : used[p] <= used[p]
  BY <1>1
<1>8. \A j \in DOMAIN queue : \E k \in DOMAIN queue :
        queue[j] = queue[k] /\ (n[queue[k]] = <<>> <=> run[queue[k]] = <<>>)
  BY <1>3, <1>6
<1>9. /\ Typed(queue, rec, run, used, caller, limit) /\ Attended(queue, run, used, limit)
      /\ used \in [Pools -> Nat]
  BY <1>1
<1> QED
  BY <1>5, <1>7, <1>8, <1>9, StillAttended

\* An agent at its copy, which nobody has resumed.
LEMMA EarlyRun ==
    ASSUME IInv, NEW a \in Agents, run[a] # <<>>, run[a][1].at \in {"copying", "discarding"},
           NEW x \in Ats, NEW n, n = Sets(run, a, 1, x)
    PROVE  /\ Count(queue, a) = 0 /\ 1 \in DOMAIN run[a]
           /\ n[a] # <<>> /\ Len(n[a]) <= MaxRuns[a] /\ Len(n[a]) \in Nat
           /\ n[a][1].at = x /\ \A k \in DOMAIN n[a] : k = 1
           /\ rec[a] \in Record /\ rec[a].status \notin {"unborn", "gone"}
           /\ Kind[a] = "background" => rec[a].background
           /\ rec[a].status = "queued" => rec[a].background
           /\ run[a][1].pool \in Pools \cup {NoPool}
<1>1. /\ run \in [Agents -> Seq(Run)] /\ rec \in [Agents -> Record] /\ Len(run[a]) <= MaxRuns[a]
      /\ Fits(a, rec[a], run[a], caller[a], Count(queue, a))
      /\ Count(queue, a) \in Nat
  BY Within
<1>2. 1 \in DOMAIN run[a] /\ run[a] \in Seq(Run)
  BY <1>1
<1>3. /\ n[a] # <<>> /\ Len(n[a]) = Len(run[a]) /\ DOMAIN n[a] = DOMAIN run[a]
      /\ n[a][1].at = x /\ run[a][1].pool \in Pools \cup {NoPool}
  BY <1>1, <1>2, RunSets
<1>4. ~Talked(run[a])
  BY DEF Talked
<1>5. /\ Count(queue, a) = 0 /\ \A k \in DOMAIN run[a] : k = 1
      /\ rec[a].status \notin {"unborn", "gone"}
      /\ Kind[a] = "background" => rec[a].background
      /\ rec[a].status = "queued" => rec[a].background
  BY <1>1, <1>4 DEF Fits
<1> QED
  BY <1>1, <1>2, <1>3, <1>5

LEMMA CopyDoneKeeps ==
    ASSUME IInv, NEW a \in Agents, CopyDone(a)
    PROVE  IInv'
<1>1. /\ run[a] # <<>> /\ run[a][1].at = "copying"
      /\ UNCHANGED <<rec, queue, limit, owed>>
  BY DEF CopyDone
<1>2. "running" \in Ats /\ "discarding" \in Ats
  BY DEF Ats
<1>3. CASE rec[a].status = "running"
  <2>1. /\ run' = Sets(run, a, 1, "running") /\ UNCHANGED used
        /\ caller' = StartSettled(a) /\ desk' = JoinsBatch(a)
    BY <1>3 DEF CopyDone, Sets
  <2>2. /\ Count(queue, a) = 0 /\ 1 \in DOMAIN run[a]
        /\ run'[a] # <<>> /\ Len(run'[a]) <= MaxRuns[a] /\ Len(run'[a]) \in Nat
        /\ run'[a][1].at = "running" /\ \A k \in DOMAIN run'[a] : k = 1
        /\ Kind[a] = "background" => rec[a].background
    BY <1>1, <1>2, <2>1, EarlyRun
  <2>3. /\ caller' \in [Agents -> Callers] /\ caller'[a] # "gate"
        /\ \A b \in Agents : b # a => caller'[b] = caller[b]
        /\ desk' \in Desk /\ \A b \in owed : Covered(desk', b)
    BY <2>1, StartSettledIs
  <2>4. Fits(a, rec[a], run'[a], caller'[a], Count(queue, a))
    BY <1>3, <2>2, <2>3 DEF Fits
  <2>5. Sound(queue, rec, run', used, caller', limit)
    <3>1. "running" \in InFlight /\ run[a][1].at \in InFlight
      BY <1>1 DEF InFlight
    <3>2. rec \in [Agents -> Record]
      BY Within
    <3> QED
      BY <1>2, <2>1, <2>2, <2>3, <2>4, <3>1, <3>2, RunSetSound
  <2>6. Attended(queue, run', used, limit)
    BY <1>1, <1>2, <2>1, <2>2, RunSetAttended
  <2>7. Debts(rec, run', owed) /\ owed \subseteq Agents
    <3>1. \A b \in Agents : b # a => run'[b] = run[b]
      <4>1. run \in [Agents -> Seq(Run)]
        BY Within
      <4> QED
        BY <1>2, <2>1, <2>2, <4>1, RunSets
    <3> QED
      BY <2>2, <3>1, Within DEF Debts
  <2> QED
    BY <1>1, <2>1, <2>3, <2>5, <2>6, <2>7 DEF IInv, Whole
<1>4. CASE rec[a].status # "running"
  <2>1. /\ run' = Sets(run, a, 1, "discarding") /\ used' = Gives(used, run[a][1].pool)
        /\ UNCHANGED <<caller, desk>>
    BY <1>4 DEF CopyDone, Sets
  <2>2. /\ Count(queue, a) = 0 /\ 1 \in DOMAIN run[a]
        /\ run'[a] # <<>> /\ Len(run'[a]) <= MaxRuns[a] /\ Len(run'[a]) \in Nat
        /\ run'[a][1].at = "discarding" /\ \A k \in DOMAIN run'[a] : k = 1
        /\ Kind[a] = "background" => rec[a].background
        /\ rec[a].status \notin {"unborn", "gone"}
        /\ rec[a].status = "queued" => rec[a].background
    BY <1>1, <1>2, <2>1, EarlyRun
  <2>3. Fits(a, rec[a], run'[a], caller[a], Count(queue, a))
    BY <2>2 DEF Fits
  <2>4. Sound(queue, rec, run', used', caller, limit)
    <3>1. "discarding" \notin InFlight /\ run[a][1].at \in InFlight
      BY <1>1 DEF InFlight
    <3>2. rec \in [Agents -> Record] /\ caller \in [Agents -> Callers]
      BY Within
    <3> QED
      BY <1>2, <2>1, <2>2, <2>3, <3>1, <3>2, RunSetSound
  <2>5. Attended(queue, run', used', limit)
    BY <2>2 DEF Attended
  <2>6. Debts(rec, run', owed) /\ owed \subseteq Agents
    <3>1. \A b \in Agents : b # a => run'[b] = run[b]
      <4>1. run \in [Agents -> Seq(Run)]
        BY Within
      <4> QED
        BY <1>2, <2>1, <2>2, <4>1, RunSets
    <3> QED
      BY <2>2, <3>1, Within DEF Debts
  <2> QED
    BY <1>1, <2>1, <2>4, <2>5, <2>6, Within DEF IInv, Whole
<1> QED
  BY <1>3, <1>4

LEMMA DiscardedKeeps ==
    ASSUME IInv, NEW a \in Agents, Discarded(a)
    PROVE  IInv'
<1> DEFINE n == Sets(run, a, 1, "void")
<1>1. /\ run[a] # <<>> /\ run[a][1].at = "discarding" /\ UNCHANGED <<limit, owed>>
      /\ Drains(queue, rec, n, used, StartSettled(a), limit) /\ desk' = JoinsBatch(a)
  BY DEF Discarded, Sets
<1>2. "void" \in Ats
  BY DEF Ats
<1>3. /\ Count(queue, a) = 0 /\ 1 \in DOMAIN run[a]
      /\ n[a] # <<>> /\ Len(n[a]) <= MaxRuns[a] /\ Len(n[a]) \in Nat
      /\ n[a][1].at = "void" /\ \A k \in DOMAIN n[a] : k = 1
      /\ Kind[a] = "background" => rec[a].background
      /\ rec[a].status \notin {"unborn", "gone"}
      /\ rec[a].status = "queued" => rec[a].background
  BY <1>1, <1>2, EarlyRun
<1>4. /\ StartSettled(a) \in [Agents -> Callers] /\ StartSettled(a)[a] # "gate"
      /\ \A b \in Agents : b # a => StartSettled(a)[b] = caller[b]
      /\ desk' \in Desk /\ \A b \in owed : Covered(desk', b)
  BY <1>1, StartSettledIs
<1>5. \A b \in Agents : b # a => n[b] = run[b]
  <2>1. run \in [Agents -> Seq(Run)]
    BY Within
  <2> QED
    BY <1>2, <1>3, <2>1, RunSets
<1> HIDE DEF n
<1>6. Fits(a, rec[a], n[a], StartSettled(a)[a], Count(queue, a))
  BY <1>3, <1>4 DEF Fits
<1>7. Sound(queue, rec, n, used, StartSettled(a), limit)
  <2>1. "void" \notin InFlight /\ run[a][1].at \notin InFlight
    BY <1>1 DEF InFlight
  <2>2. rec \in [Agents -> Record]
    BY Within
  <2> QED
    BY <1>2, <1>3, <1>4, <1>6, <2>1, <2>2, RunSetSound DEF n
<1>8. Debts(rec, n, owed) /\ owed \subseteq Agents
  BY <1>3, <1>5, Within DEF Debts
<1> QED
  BY <1>1, <1>4, <1>7, <1>8, DrainEnds

\* The report of an agent that has finished.
LEMMA ReportsKeeps ==
    ASSUME IInv, NEW a \in Agents, NEW x \in Record, Reports(a, x)
    PROVE  /\ desk' \in Desk /\ owed' \subseteq Agents /\ \A b \in owed' : Covered(desk', b)
           /\ \A b \in owed' : b \in owed \/ (b = a /\ TopLevel(a) /\ x.ended /\ ~x.consumed)
<1>1. /\ desk \in Desk /\ owed \subseteq Agents /\ \A b \in owed : Covered(desk, b)
  BY Within
<1>2. x.consumed \in BOOLEAN
  BY DEF Record
<1>3. CASE TopLevel(a)
  <2>1. /\ desk' = Completed(desk, a, x.consumed)
        /\ owed' = IF x.ended /\ ~x.consumed THEN owed \cup {a} ELSE owed
    BY <1>3 DEF Reports
  <2>2. /\ desk' \in Desk /\ Keeps(desk, desk') /\ (~x.consumed => Covered(desk', a))
    BY <1>1, <1>2, <2>1, CompletedKeeps
  <2>3. \A b \in owed : Covered(desk', b)
    BY <1>1, <2>2 DEF Keeps
  <2> QED
    BY <1>1, <1>3, <2>1, <2>2, <2>3
<1>4. CASE ~TopLevel(a)
  BY <1>1, <1>4 DEF Reports
<1> QED
  BY <1>3, <1>4

LEMMA CopyFailsKeeps ==
    ASSUME IInv, NEW a \in Agents, CopyFails(a)
    PROVE  IInv'
<1> DEFINE queued == caller[a] = "gate" \/ (Kind[a] = "background" /\ caller[a] = "none")
<1> DEFINE x == IF queued
                THEN [rec[a] EXCEPT !.status = "done", !.ended = TRUE,
                                    !.consumed = @ \/ Kind[a] = "blocking"]
                ELSE [rec[a] EXCEPT !.status = "gone"]
<1> DEFINE r == [rec EXCEPT ![a] = x]
<1> DEFINE n == Sets(run, a, 1, "void")
<1> DEFINE u == Gives(used, run[a][1].pool)
<1> DEFINE c == StartSettled(a)
<1>1. /\ run[a] # <<>> /\ run[a][1].at = "copying" /\ UNCHANGED limit
      /\ Drains(queue, r, n, u, c, limit)
      /\ IF queued THEN Reports(a, x) ELSE Quiet
  BY DEF CopyFails, Sets
<1>2. "void" \in Ats
  BY DEF Ats
<1>3. /\ Count(queue, a) = 0 /\ 1 \in DOMAIN run[a]
      /\ n[a] # <<>> /\ Len(n[a]) <= MaxRuns[a] /\ Len(n[a]) \in Nat
      /\ n[a][1].at = "void" /\ \A k \in DOMAIN n[a] : k = 1
      /\ rec[a] \in Record /\ rec[a].status \notin {"unborn", "gone"}
      /\ Kind[a] = "background" => rec[a].background
  BY <1>1, <1>2, EarlyRun
<1>4. /\ c \in [Agents -> Callers] /\ c[a] # "gate"
      /\ \A b \in Agents : b # a => c[b] = caller[b]
  BY StartSettledIs
<1>5. /\ x \in Record /\ x.background = rec[a].background /\ x.status \in {"done", "gone"}
      /\ queued => /\ x.status = "done" /\ x.ended
                   /\ ~x.consumed => Kind[a] # "blocking"
  BY <1>3 DEF Record
<1>6. \A b \in Agents : b # a => n[b] = run[b]
  <2>1. run \in [Agents -> Seq(Run)]
    BY Within
  <2> QED
    BY <1>2, <1>3, <2>1, RunSets
<1>7. r \in [Agents -> Record] /\ r[a] = x /\ \A b \in Agents : b # a => r[b] = rec[b]
  <2>1. rec \in [Agents -> Record]
    BY Within
  <2> HIDE DEF x
  <2> QED
    BY <1>5, <2>1
<1> HIDE DEF x, r, n, c, queued
<1>8. Fits(a, r[a], n[a], c[a], Count(queue, a))
  BY <1>3, <1>4, <1>5, <1>7 DEF Fits
<1>9. Sound(queue, r, n, u, c, limit)
  <2>1. "void" \notin InFlight /\ run[a][1].at \in InFlight
    BY <1>1 DEF InFlight
  <2> QED
    BY <1>2, <1>3, <1>4, <1>7, <1>8, <2>1, RunSetSound DEF n
<1>10. a \notin owed
  BY <1>1, Within DEF Debts
<1>11. /\ desk' \in Desk /\ owed' \subseteq Agents /\ \A b \in owed' : Covered(desk', b)
       /\ \A b \in owed' : b \in owed \/ (b = a /\ queued /\ TopLevel(a) /\ ~x.consumed)
  <2>1. CASE queued
    BY <1>1, <1>5, <2>1, ReportsKeeps
  <2>2. CASE ~queued
    BY <1>1, <2>2, Within DEF Quiet
  <2> QED
    BY <2>1, <2>2
<1>12. Debts(r, n, owed')
  <2>1. ASSUME NEW b \in owed', b \in owed
        PROVE  /\ r[b].ended /\ ~r[b].consumed /\ r[b].background /\ r[b].status # "gone"
               /\ n[b] # <<>> /\ n[b][1].at # "copying"
    <3>1. b # a /\ b \in Agents
      BY <1>10, <2>1, Within
    <3>2. Debts(rec, run, owed)
      BY Within
    <3> QED
      BY <1>6, <1>7, <2>1, <3>1, <3>2 DEF Debts
  <2>2. ASSUME a \in owed'
        PROVE  /\ r[a].ended /\ ~r[a].consumed /\ r[a].background /\ r[a].status # "gone"
               /\ n[a] # <<>> /\ n[a][1].at # "copying"
    <3>1. queued /\ TopLevel(a) /\ ~x.consumed
      BY <1>10, <1>11, <2>2
    <3>2. Kind[a] = "background"
      BY <1>5, <3>1, SubagentsAssumption DEF TopLevel, Kinds
    <3> QED
      BY <1>3, <1>5, <1>7, <3>1, <3>2
  <2> QED
    BY <1>11, <2>1, <2>2 DEF Debts
<1> QED
  BY <1>1, <1>9, <1>11, <1>12, DrainEnds

\* Stopping the children of an agent.
LEMMA ChildrenKeep ==
    ASSUME NEW q, NEW r, NEW n, NEW u, NEW c, NEW l, Sound(q, r, n, u, c, l),
           NEW a \in Agents, NEW w, w = ChildrenStopped(a, r)
    PROVE  /\ Sound(q, w, n, u, c, l)
           /\ \A o : o \subseteq Agents /\ Debts(r, n, o) => Debts(w, n, o)
<1>1. Typed(q, r, n, u, c, l) /\ Counted(n, u) /\ r \in [Agents -> Record]
  BY DEF Sound, Typed
<1>2. \A b \in Agents : Fits(b, r[b], n[b], c[b], Count(q, b))
  BY <1>1, SoundFits
<1>3. \A b \in Agents : w[b] = r[b] \/ (r[b].status = "running"
                            /\ w[b] = [r[b] EXCEPT !.status = "stopped", !.ended = TRUE])
  BY DEF ChildrenStopped
<1>4. w = [b \in Agents |-> w[b]]
  BY DEF ChildrenStopped
<1>5. ASSUME NEW b \in Agents
      PROVE  /\ w[b] \in Record /\ Fits(b, w[b], n[b], c[b], Count(q, b))
             /\ w[b].background = r[b].background /\ w[b].consumed = r[b].consumed
             /\ r[b].ended => w[b].ended
             /\ r[b].status # "gone" => w[b].status # "gone"
  <2>1. r[b] \in Record
    BY <1>1
  <2>2. CASE w[b] = r[b]
    BY <1>2, <2>1, <2>2
  <2>3. CASE r[b].status = "running" /\ w[b] = [r[b] EXCEPT !.status = "stopped", !.ended = TRUE]
    <3>1. /\ w[b] \in Record /\ w[b].status = "stopped" /\ w[b].ended
          /\ w[b].background = r[b].background /\ w[b].consumed = r[b].consumed
      BY <2>1, <2>3 DEF Record
    <3>2. Fits(b, w[b], n[b], c[b], Count(q, b))
      BY <1>2, <2>3, <3>1 DEF Fits
    <3> QED
      BY <3>1, <3>2
  <2> QED
    BY <1>3, <2>2, <2>3
<1>6. Typed(q, w, n, u, c, l)
  BY <1>1, <1>4, <1>5 DEF Typed
<1>7. Sound(q, w, n, u, c, l)
  BY <1>1, <1>5, <1>6, SoundFits
<1>8. ASSUME NEW o, o \subseteq Agents, Debts(r, n, o)
      PROVE  Debts(w, n, o)
  BY <1>5, <1>8 DEF Debts
<1> QED
  BY <1>7, <1>8

\* A run that has been under way, and what becomes of its agent when it moves on.
LEMMA LateRun ==
    ASSUME IInv, NEW a \in Agents, NEW i \in DOMAIN run[a],
           run[a][i].at \in {"running", "inline", "tidying"},
           NEW x \in Record, x.background = rec[a].background,
           x.status = rec[a].status \/ x.status \in {"done", "stopped"},
           NEW t \in {"tidying", "over"}, t = "tidying" => i = 1,
           NEW n, n = Sets(run, a, i, t)
    PROVE  /\ Fits(a, x, n[a], caller[a], Count(queue, a))
           /\ n[a] # <<>> /\ n[a][1].at # "copying" /\ x.status # "gone"
           /\ \A b \in Agents : b # a => n[b] = run[b]
           /\ i = 1 => run[a][i].at # "inline"
           /\ i # 1 => /\ run[a][i].at \in {"running", "inline"}
                       /\ run[a][i].at = "running" => rec[a].background
<1>1. /\ run \in [Agents -> Seq(Run)] /\ rec[a] \in Record
      /\ Fits(a, rec[a], run[a], caller[a], Count(queue, a))
  BY Within
<1>2. t \in Ats
  BY DEF Ats
<1>3. /\ \A b \in Agents : b # a => n[b] = run[b]
      /\ run[a] # <<>> /\ n[a] # <<>> /\ DOMAIN n[a] = DOMAIN run[a] /\ Len(n[a]) = Len(run[a])
      /\ \A k \in DOMAIN run[a] : k # i => n[a][k] = run[a][k]
      /\ n[a][i].at = t /\ DOMAIN run[a] = 1..Len(run[a])
  <2>1. run \in [Agents -> Seq(Run)]
    BY <1>1
  <2> QED
    BY <1>2, <2>1, RunSets
<1>4. 1 \in DOMAIN run[a]
  BY <1>1, <1>3
<1>5. /\ i = 1 => run[a][i].at # "inline"
      /\ i # 1 => /\ Talked(run[a]) /\ run[a][i].at \in {"running", "inline"}
                  /\ run[a][i].at = "running" => rec[a].background
  BY <1>1 DEF Fits
<1>6. Talked(run[a]) /\ Talked(n[a])
  <2>1. CASE i = 1
    BY <1>3, <1>5, <2>1 DEF Talked
  <2>2. CASE i # 1
    BY <1>3, <1>4, <1>5, <2>2 DEF Talked
  <2> QED
    BY <2>1, <2>2
<1>7. rec[a].status \notin {"unborn", "gone"}
  BY <1>1, <1>3, <1>6 DEF Fits, Talked
<1>8. Fits(a, x, n[a], caller[a], Count(queue, a))
  <2>1. /\ Len(n[a]) + Count(queue, a) <= MaxRuns[a]
        /\ Count(queue, a) > 0 => TopLevel(a)
        /\ Kind[a] = "background" => x.background
        /\ x.status = "queued" => x.background
        /\ caller[a] # "gate"
    BY <1>1, <1>3, <1>6, <1>7 DEF Fits, Talked
  <2>2. ASSUME NEW k \in DOMAIN n[a]
        PROVE  IF k = 1 THEN n[a][k].at # "inline"
               ELSE /\ Talked(n[a]) /\ n[a][k].at \in {"running", "inline", "over"}
                    /\ n[a][k].at = "running" => x.background
    <3>1. CASE k = i
      BY <1>3, <1>6, <3>1
    <3>2. CASE k # i
      BY <1>1, <1>3, <1>6, <2>2, <3>2 DEF Fits
    <3> QED
      BY <3>1, <3>2
  <2> QED
    BY <1>3, <1>6, <1>7, <2>1, <2>2 DEF Fits
<1> QED
  BY <1>3, <1>5, <1>6, <1>7, <1>8 DEF Talked

LEMMA SettlesKeeps ==
    ASSUME IInv, NEW a \in Agents, NEW i \in DOMAIN run[a],
           run[a][i].at \in {"running", "tidying"},
           NEW x0 \in Record, x0.background = rec[a].background, x0.consumed = rec[a].consumed,
           x0.status = rec[a].status \/ x0.status \in {"done", "stopped"},
           rec[a].ended => x0.ended,
           Settles(a, i, x0), UNCHANGED limit
    PROVE  IInv'
<1> DEFINE x == [x0 EXCEPT !.consumed = @ \/ (i = 1 /\ ~x0.background)]
<1> DEFINE r == [rec EXCEPT ![a] = x]
<1> DEFINE w == ChildrenStopped(a, r)
<1> DEFINE n == Sets(run, a, i, "over")
<1> DEFINE u == Gives(used, run[a][i].pool)
<1>1. /\ \/ Drains(queue, w, n, u, caller, limit)
         \/ /\ i = 1 /\ run[a][i].pool = NoPool
            /\ rec' = w /\ run' = n /\ used' = u /\ UNCHANGED <<queue, caller>>
      /\ Reports(a, x)
  <2>1. /\ IF i > 1 \/ x.background \/ run[a][i].pool # NoPool
           THEN Drains(queue, w, n, u, caller, limit)
           ELSE rec' = w /\ run' = n /\ used' = u /\ UNCHANGED <<queue, caller>>
        /\ Reports(a, x)
    BY Zenon DEF Settles, Sets
  <2>2. i > 1 \/ i = 1
    <3>1. run[a] \in Seq(Run)
      BY Within
    <3> QED
      BY <3>1
  <2> HIDE DEF x, w, n, u
  <2> QED
    BY <2>1, <2>2
<1>2. /\ x \in Record /\ x.background = rec[a].background /\ x.status = x0.status
      /\ x.ended = x0.ended /\ x.consumed = (x0.consumed \/ (i = 1 /\ ~x0.background))
  BY DEF Record
<1>3. r \in [Agents -> Record] /\ r[a] = x /\ \A b \in Agents : b # a => r[b] = rec[b]
  <2>1. rec \in [Agents -> Record]
    BY Within
  <2> HIDE DEF x
  <2> QED
    BY <1>2, <2>1
<1> HIDE DEF x, r, n
<1>4. /\ Fits(a, x, n[a], caller[a], Count(queue, a))
      /\ n[a] # <<>> /\ n[a][1].at # "copying" /\ x.status # "gone"
      /\ \A b \in Agents : b # a => n[b] = run[b]
      /\ i # 1 => /\ run[a][i].at \in {"running", "inline"}
                  /\ run[a][i].at = "running" => rec[a].background
  BY <1>2, LateRun DEF n
<1>5. "over" \in Ats /\ "over" \notin InFlight /\ run[a][i].at \in InFlight
  BY DEF Ats, InFlight
<1>6. Sound(queue, r, n, u, caller, limit)
  <2>1. caller \in [Agents -> Callers]
    BY Within
  <2> QED
    BY <1>3, <1>4, <1>5, <2>1, RunSetSound DEF n
<1>7. /\ desk' \in Desk /\ owed' \subseteq Agents /\ \A b \in owed' : Covered(desk', b)
      /\ \A b \in owed' : b \in owed \/ (b = a /\ x.ended /\ ~x.consumed)
  BY <1>1, <1>2, ReportsKeeps
<1>8. Debts(r, n, owed')
  <2>1. Debts(rec, run, owed) /\ owed \subseteq Agents
    BY Within
  <2>2. ASSUME NEW b \in owed', b # a
        PROVE  /\ r[b].ended /\ ~r[b].consumed /\ r[b].background /\ r[b].status # "gone"
               /\ n[b] # <<>> /\ n[b][1].at # "copying"
    BY <1>3, <1>4, <1>7, <2>1, <2>2 DEF Debts
  <2>3. ASSUME a \in owed'
        PROVE  x.ended /\ ~x.consumed /\ x.background
    <3>1. CASE a \in owed
      <4>1. rec[a].ended /\ ~rec[a].consumed /\ rec[a].background
        BY <2>1, <3>1 DEF Debts
      <4> QED
        BY <1>2, <4>1
    <3>2. CASE a \notin owed
      <4>1. x.ended /\ ~x.consumed
        BY <1>7, <2>3, <3>2
      <4>2. i = 1 => x.background
        BY <1>2, <4>1
      <4> QED
        BY <1>2, <1>4, <4>1, <4>2
    <3> QED
      BY <3>1, <3>2
  <2> QED
    BY <1>3, <1>4, <2>2, <2>3 DEF Debts
<1>9. Sound(queue, w, n, u, caller, limit) /\ Debts(w, n, owed')
  BY <1>6, <1>7, <1>8, ChildrenKeep
<1>10. CASE Drains(queue, w, n, u, caller, limit)
  BY <1>7, <1>9, <1>10, DrainEnds
<1>11. CASE /\ i = 1 /\ run[a][i].pool = NoPool
            /\ rec' = w /\ run' = n /\ used' = u /\ UNCHANGED <<queue, caller>>
  <2>1. u = used
    BY <1>11 DEF Gives
  <2>2. Attended(queue, n, used, limit)
    BY <1>5, RunSetAttended DEF n
  <2> QED
    BY <1>7, <1>9, <1>11, <2>1, <2>2 DEF IInv, Whole
<1> QED
  BY <1>1, <1>10, <1>11

LEMMA RunEndsKeeps ==
    ASSUME IInv, NEW a \in Agents, NEW i \in DOMAIN run[a], RunEnds(a, i)
    PROVE  IInv'
<1> DEFINE x == [rec[a] EXCEPT !.status = IF @ = "stopped" THEN @ ELSE "done", !.ended = TRUE]
<1>1. /\ run[a][i].at = "running" /\ UNCHANGED limit
      /\ \/ /\ i = 1 /\ rec' = [rec EXCEPT ![a] = x] /\ run' = Sets(run, a, i, "tidying")
            /\ UNCHANGED <<queue, used, caller, desk, owed>>
         \/ Settles(a, i, x)
  BY DEF RunEnds, Sets, Quiet
<1>2. rec \in [Agents -> Record] /\ rec[a] \in Record
  BY Within
<1>3. /\ x \in Record /\ x.background = rec[a].background /\ x.consumed = rec[a].consumed
      /\ x.status \in {"done", "stopped"} /\ x.ended
  BY <1>2 DEF Record
<1> HIDE DEF x
<1>4. CASE Settles(a, i, x)
  BY <1>1, <1>3, <1>4, SettlesKeeps
<1>5. CASE /\ i = 1 /\ rec' = [rec EXCEPT ![a] = x] /\ run' = Sets(run, a, i, "tidying")
           /\ UNCHANGED <<queue, used, caller, desk, owed>>
  <2>1. rec' \in [Agents -> Record] /\ rec'[a] = x /\ \A b \in Agents : b # a => rec'[b] = rec[b]
    BY <1>2, <1>3, <1>5
  <2>2. /\ Fits(a, x, run'[a], caller[a], Count(queue, a))
        /\ run'[a] # <<>> /\ run'[a][1].at # "copying"
        /\ \A b \in Agents : b # a => run'[b] = run[b]
    BY <1>1, <1>3, <1>5, LateRun
  <2>3. "tidying" \in Ats /\ "tidying" \in InFlight /\ run[a][i].at \in InFlight
    BY <1>1 DEF Ats, InFlight
  <2>4. Sound(queue, rec', run', used, caller, limit)
    <3>1. caller \in [Agents -> Callers]
      BY Within
    <3> QED
      BY <1>5, <2>1, <2>2, <2>3, <3>1, RunSetSound
  <2>5. Attended(queue, run', used, limit)
    BY <1>1, <1>5, <2>3, RunSetAttended
  <2>6. Debts(rec', run', owed)
    <3>1. Debts(rec, run, owed) /\ owed \subseteq Agents
      BY Within
    <3> QED
      BY <1>3, <2>1, <2>2, <3>1 DEF Debts
  <2> QED
    BY <1>1, <1>5, <2>4, <2>5, <2>6, Within DEF IInv, Whole
<1> QED
  BY <1>1, <1>4, <1>5

LEMMA TidiedKeeps ==
    ASSUME IInv, NEW a \in Agents, NEW i \in DOMAIN run[a], Tidied(a, i)
    PROVE  IInv'
<1>1. run[a][i].at = "tidying" /\ Settles(a, i, rec[a]) /\ UNCHANGED limit
  BY DEF Tidied
<1>2. rec[a] \in Record
  BY Within
<1> QED
  BY <1>1, <1>2, SettlesKeeps

LEMMA InlineEndsKeeps ==
    ASSUME IInv, NEW a \in Agents, NEW i \in DOMAIN run[a], InlineEnds(a, i)
    PROVE  IInv'
<1> DEFINE x == [rec[a] EXCEPT !.status = "done", !.ended = TRUE]
<1> DEFINE r == [rec EXCEPT ![a] = x]
<1>1. /\ run[a][i].at = "inline" /\ rec' = ChildrenStopped(a, r) /\ run' = Sets(run, a, i, "over")
      /\ UNCHANGED <<queue, used, limit, caller, desk, owed>>
  BY DEF InlineEnds, Sets
<1>2. rec \in [Agents -> Record] /\ rec[a] \in Record
  BY Within
<1>3. /\ x \in Record /\ x.background = rec[a].background /\ x.consumed = rec[a].consumed
      /\ x.status = "done" /\ x.ended
  BY <1>2 DEF Record
<1> HIDE DEF x
<1>4. r \in [Agents -> Record] /\ r[a] = x /\ \A b \in Agents : b # a => r[b] = rec[b]
  BY <1>2, <1>3
<1> HIDE DEF r
<1>5. /\ Fits(a, x, run'[a], caller[a], Count(queue, a))
      /\ run'[a] # <<>> /\ run'[a][1].at # "copying"
      /\ \A b \in Agents : b # a => run'[b] = run[b]
  BY <1>1, <1>3, LateRun
<1>6. "over" \in Ats /\ "over" \notin InFlight /\ run[a][i].at \notin InFlight
  BY <1>1 DEF Ats, InFlight
<1>7. Sound(queue, r, run', used, caller, limit)
  <2>1. caller \in [Agents -> Callers]
    BY Within
  <2> QED
    BY <1>1, <1>4, <1>5, <1>6, <2>1, RunSetSound
<1>8. Attended(queue, run', used, limit)
  BY <1>1, <1>6, RunSetAttended
<1>9. Debts(r, run', owed)
  <2>1. Debts(rec, run, owed) /\ owed \subseteq Agents
    BY Within
  <2> QED
    BY <1>3, <1>4, <1>5, <2>1 DEF Debts
<1>10. Sound(queue, rec', run', used, caller, limit) /\ Debts(rec', run', owed)
  BY <1>1, <1>7, <1>9, Within, ChildrenKeep
<1> QED
  BY <1>1, <1>8, <1>10, Within DEF IInv, Whole

\* An agent that may be resumed.
LEMMA Resumable ==
    ASSUME IInv, NEW a \in Agents, MayResume(a)
    PROVE  /\ TopLevel(a) /\ Talked(run[a]) /\ run[a] # <<>> /\ caller[a] # "gate"
           /\ Len(run[a]) + Count(queue, a) + 1 <= MaxRuns[a]
           /\ Len(run[a]) + 1 <= MaxRuns[a]
           /\ rec[a] \in Record /\ rec[a].status \notin {"unborn", "gone"}
           /\ Kind[a] = "background" => rec[a].background
<1>1. /\ run \in [Agents -> Seq(Run)] /\ rec[a] \in Record
      /\ Fits(a, rec[a], run[a], caller[a], Count(queue, a))
      /\ Count(queue, a) \in Nat /\ Len(run[a]) \in Nat /\ MaxRuns[a] \in Nat
  BY Within
<1>2. TopLevel(a) /\ Talked(run[a]) /\ run[a] # <<>>
  BY DEF MayResume, HasSession, Talked
<1>3. Len(run[a]) + Count(queue, a) < MaxRuns[a]
  BY DEF MayResume, Queued, Count, Places
<1>4. /\ Len(run[a]) + Count(queue, a) + 1 <= MaxRuns[a]
      /\ Len(run[a]) + 1 <= MaxRuns[a]
  BY <1>1, <1>3
<1>5. /\ caller[a] # "gate" /\ rec[a].status \notin {"unborn", "gone"}
      /\ Kind[a] = "background" => rec[a].background
  BY <1>1, <1>2 DEF Fits, Talked
<1> QED
  BY <1>1, <1>2, <1>4, <1>5

\* A further run of an agent that may be resumed.
LEMMA ResumesFit ==
    ASSUME IInv, NEW a \in Agents, MayResume(a),
           NEW b \in Run, b.at \in {"running", "inline"},
           NEW x \in Record, x.status = "running",
           x.background \/ (b.at = "inline" /\ x.background = rec[a].background),
           NEW n, n = Begun(run, a, b)
    PROVE  /\ n \in [Agents -> Seq(Run)] /\ \A o \in Agents : o # a => n[o] = run[o]
           /\ n[a] # <<>> /\ n[a][1] = run[a][1]
           /\ Fits(a, x, n[a], caller[a], Count(queue, a))
           /\ b.at \notin InFlight => Counted(n, used)
           /\ b.at \in InFlight => Counted(n, Takes(used, b.pool))
           /\ Takes(used, b.pool) \in [Pools -> Nat]
           /\ \A p \in Pools : used[p] <= Takes(used, b.pool)[p]
<1>1. /\ TopLevel(a) /\ Talked(run[a]) /\ run[a] # <<>> /\ caller[a] # "gate"
      /\ Len(run[a]) + Count(queue, a) + 1 <= MaxRuns[a]
      /\ Len(run[a]) + 1 <= MaxRuns[a]
      /\ rec[a] \in Record /\ rec[a].status \notin {"unborn", "gone"}
      /\ Kind[a] = "background" => rec[a].background
  BY Resumable
<1>2. /\ run \in [Agents -> Seq(Run)] /\ used \in [Pools -> Nat] /\ Counted(run, used)
  BY Within
<1>3. /\ Count(queue, a) \in Nat /\ Fits(a, rec[a], run[a], caller[a], Count(queue, a))
  BY Within
<1>4. /\ n \in [Agents -> Seq(Run)] /\ \A o \in Agents : o # a => n[o] = run[o]
      /\ run[a] \in Seq(Run) /\ Len(run[a]) \in Nat
      /\ DOMAIN run[a] = 1..Len(run[a]) /\ DOMAIN n[a] = 1..(Len(run[a]) + 1)
      /\ Len(n[a]) = Len(run[a]) + 1 /\ n[a] # <<>>
      /\ \A k \in DOMAIN run[a] : n[a][k] = run[a][k]
      /\ n[a][Len(run[a]) + 1] = b
  BY <1>2, BegunIs
<1>7. /\ b.at \notin InFlight => Counted(n, used)
      /\ b.at \in InFlight => Counted(n, Takes(used, b.pool))
      /\ Takes(used, b.pool) \in [Pools -> Nat]
      /\ \A p \in Pools : used[p] <= Takes(used, b.pool)[p]
  <2>1. Len(run[a]) + 1 <= MaxRuns[a]
    BY <1>1
  <2> QED
    BY <1>2, <2>1, RunJoins
<1>5. 1 \in DOMAIN run[a] /\ n[a][1] = run[a][1] /\ Talked(n[a])
  BY <1>1, <1>4 DEF Talked
<1>6. Fits(a, x, n[a], caller[a], Count(queue, a))
  <2>1. Len(n[a]) + Count(queue, a) <= MaxRuns[a]
    BY <1>1, <1>3, <1>4
  <2>2. Kind[a] = "background" => x.background
    BY <1>1
  <2>3. ASSUME NEW k \in DOMAIN n[a]
        PROVE  IF k = 1 THEN n[a][k].at # "inline"
               ELSE /\ Talked(n[a]) /\ n[a][k].at \in {"running", "inline", "over"}
                    /\ n[a][k].at = "running" => x.background
    <3>1. CASE k \in DOMAIN run[a]
      <4>1. n[a][k] = run[a][k]
        BY <1>4, <3>1
      <4>2. IF k = 1 THEN run[a][k].at # "inline"
            ELSE /\ run[a][k].at \in {"running", "inline", "over"}
                 /\ run[a][k].at = "running" => rec[a].background
        BY <1>3, <3>1 DEF Fits
      <4> QED
        BY <1>5, <4>1, <4>2
    <3>2. CASE k \notin DOMAIN run[a]
      <4>1. k = Len(run[a]) + 1 /\ k # 1
        BY <1>4, <1>5, <2>3, <3>2
      <4> QED
        BY <1>4, <1>5, <4>1
    <3> QED
      BY <3>1, <3>2
  <2> QED
    BY <1>1, <1>4, <1>5, <2>1, <2>2, <2>3 DEF Fits
<1> QED
  BY <1>4, <1>5, <1>6, <1>7

\* Nobody is left waiting by a run that begins, or by who joins a queue for a full pool.
LEMMA JoinsAttended ==
    ASSUME IInv, NEW a \in Agents, NEW n, \A o \in Agents : o # a => n[o] = run[o],
           n[a] # <<>>, IF run[a] = <<>> THEN Count(queue, a) = 0 ELSE n[a][1] = run[a][1],
           NEW u \in [Pools -> Nat], \A p \in Pools : used[p] <= u[p]
    PROVE  Attended(queue, n, u, limit)
<1>1. /\ Typed(queue, rec, run, used, caller, limit) /\ Attended(queue, run, used, limit)
      /\ queue \in Seq(Agents)
  BY Within
<1>2. ASSUME NEW j \in DOMAIN queue
      PROVE  \E k \in DOMAIN queue :
                queue[j] = queue[k] /\ (n[queue[k]] = <<>> <=> run[queue[k]] = <<>>)
  <2>1. queue[j] \in Agents
    BY <1>1
  <2>2. queue[j] = a => run[a] # <<>>
    <3>1. queue[j] = a => Places(queue, a) # {}
      BY DEF Places
    <3> QED
      BY <1>1, <3>1, PlacesCount
  <2> QED
    BY <2>1, <2>2
<1>3. \A d \in Agents : run[d] # <<>> /\ run[d][1].at = "discarding"
                          => n[d] # <<>> /\ n[d][1].at = "discarding"
  OBVIOUS
<1>4. \A j \in DOMAIN queue :
        \/ Room(WaitsOn(queue[j], n), u, limit) <= 0
        \/ \E k \in DOMAIN queue : queue[j] = queue[k]
                                  /\ (n[queue[k]] = <<>> <=> run[queue[k]] = <<>>)
  BY <1>2
<1>5. Typed(queue, rec, run, used, caller, limit) /\ Attended(queue, run, used, limit)
  BY <1>1
<1> QED
  BY <1>3, <1>4, <1>5, StillAttended

LEMMA QueueAttended ==
    ASSUME IInv, NEW a \in Agents, Room(WaitsOn(a, run), used, limit) <= 0
    PROVE  Attended(Append(queue, a), run, used, limit)
<1>1. /\ Typed(queue, rec, run, used, caller, limit) /\ Attended(queue, run, used, limit)
      /\ used \in [Pools -> Nat] /\ queue \in Seq(Agents)
  BY Within
<1>2. \A i \in DOMAIN Append(queue, a) :
        Append(queue, a)[i] = a \/ \E j \in DOMAIN queue : Append(queue, a)[i] = queue[j]
  BY <1>1, Appended
<1> DEFINE w == Append(queue, a)
<1> HIDE DEF w
<1>3. \A i \in DOMAIN w :
        \/ Room(WaitsOn(w[i], run), used, limit) <= 0
        \/ \E j \in DOMAIN queue : w[i] = queue[j] /\ (run[queue[j]] = <<>> <=> run[queue[j]] = <<>>)
  BY <1>2 DEF w
<1>4. \A p \in Pools : used[p] <= used[p]
  BY <1>1
<1>5. Attended(w, run, used, limit)
  BY <1>1, <1>3, <1>4, StillAttended
<1> QED
  BY <1>5 DEF w

\* Agent a, and nobody else, joins the queue.
LEMMA QueueSound ==
    ASSUME IInv, NEW a \in Agents, NEW r \in [Agents -> Record], NEW c \in [Agents -> Callers],
           \A b \in Agents : b # a => r[b] = rec[b] /\ c[b] = caller[b],
           Fits(a, r[a], run[a], c[a], Count(queue, a) + 1)
    PROVE  Sound(Append(queue, a), r, run, used, c, limit)
<1>1. /\ Sound(queue, rec, run, used, caller, limit)
      /\ Typed(queue, rec, run, used, caller, limit)
      /\ Counted(run, used) /\ queue \in Seq(Agents)
      /\ \A b \in Agents : Count(queue, b) \in Nat
  BY Within
<1> DEFINE w == Append(queue, a)
<1>2. /\ w \in Seq(Agents) /\ Count(w, a) = Count(queue, a) + 1
      /\ \A b : b # a => Count(w, b) = Count(queue, b)
  BY <1>1, Appended
<1> HIDE DEF w
<1>3. Typed(w, r, run, used, c, limit)
  BY <1>1, <1>2 DEF Typed
<1>4. \A b \in Agents : b # a =>
        /\ r[b] = rec[b] /\ run[b] = run[b] /\ c[b] = caller[b]
        /\ Count(w, b) <= Count(queue, b) /\ (Count(queue, b) > 0 => Count(w, b) > 0)
  BY <1>1, <1>2
<1>5. Fits(a, r[a], run[a], c[a], Count(w, a))
  BY <1>2
<1>6. Sound(w, r, run, used, c, limit)
  BY <1>1, <1>3, <1>4, <1>5, OneAgentChanges
<1> QED
  BY <1>6 DEF w

\* A run of agent a begins.
LEMMA JoinSound ==
    ASSUME IInv, NEW a \in Agents, NEW r \in [Agents -> Record], NEW c \in [Agents -> Callers],
           \A b \in Agents : b # a => r[b] = rec[b] /\ c[b] = caller[b],
           NEW n \in [Agents -> Seq(Run)], \A b \in Agents : b # a => n[b] = run[b],
           NEW u \in [Pools -> Nat], Counted(n, u),
           Fits(a, r[a], n[a], c[a], Count(queue, a))
    PROVE  Sound(queue, r, n, u, c, limit)
<1>1. /\ Sound(queue, rec, run, used, caller, limit)
      /\ Typed(queue, rec, run, used, caller, limit)
      /\ \A b \in Agents : Count(queue, b) \in Nat
  BY Within
<1>2. Typed(queue, r, n, u, c, limit)
  BY <1>1 DEF Typed
<1>3. \A b \in Agents : b # a =>
        /\ r[b] = rec[b] /\ n[b] = run[b] /\ c[b] = caller[b]
        /\ Count(queue, b) <= Count(queue, b) /\ (Count(queue, b) > 0 => Count(queue, b) > 0)
  BY <1>1
<1>4. Sound(queue, rec, run, used, caller, limit)
  BY <1>1
<1> QED
  BY <1>2, <1>3, <1>4, OneAgentChanges

LEMMA ResumeKeeps ==
    ASSUME IInv, NEW a \in Agents, Resume(a)
    PROVE  IInv'
<1> DEFINE x == [status |-> "queued", background |-> TRUE, ended |-> FALSE, consumed |-> FALSE]
<1> DEFINE y == [x EXCEPT !.status = "running"]
<1> DEFINE b == Begins(a, x, run[a], limit)
<1>1. /\ MayResume(a) /\ UNCHANGED <<limit, caller>>
      /\ \/ /\ Room("background", used, limit) <= 0
            /\ rec' = [rec EXCEPT ![a] = x] /\ queue' = Append(queue, a)
            /\ UNCHANGED <<run, used>>
         \/ /\ rec' = [rec EXCEPT ![a] = y] /\ run' = Begun(run, a, b)
            /\ used' = Takes(used, "background") /\ UNCHANGED queue
      /\ desk' = Joins(desk, a) /\ owed' = owed \ {a}
  BY DEF Resume, Begun
<1>2. /\ TopLevel(a) /\ Talked(run[a]) /\ run[a] # <<>> /\ caller[a] # "gate"
      /\ Len(run[a]) + Count(queue, a) + 1 <= MaxRuns[a]
  BY <1>1, Resumable
<1>3. /\ rec \in [Agents -> Record] /\ caller \in [Agents -> Callers]
      /\ Debts(rec, run, owed) /\ owed \subseteq Agents
  BY Within
<1>4. desk' \in Desk /\ \A o \in owed' : Covered(desk', o)
  BY <1>1, Within, JoinsKeeps DEF Keeps
<1>5. /\ x \in Record /\ x.status = "queued" /\ x.background
      /\ y \in Record /\ y.status = "running" /\ y.background
  BY DEF Record
<1>6. b \in Run /\ b.at = "running" /\ b.pool = "background"
  <2>1. PoolFor(a, x, limit) = "background"
    BY <1>2 DEF PoolFor
  <2> QED
    BY <1>2, <2>1, RunTypes DEF Begins
<1> HIDE DEF x, y, b
<1>7. CASE /\ Room("background", used, limit) <= 0
           /\ rec' = [rec EXCEPT ![a] = x] /\ queue' = Append(queue, a)
           /\ UNCHANGED <<run, used>>
  <2>1. rec' \in [Agents -> Record] /\ rec'[a] = x /\ \A o \in Agents : o # a => rec'[o] = rec[o]
    BY <1>3, <1>5, <1>7
  <2>2. Fits(a, rec'[a], run[a], caller[a], Count(queue, a) + 1)
    <3>1. /\ Count(queue, a) \in Nat /\ Len(run[a]) \in Nat /\ MaxRuns[a] \in Nat
          /\ Fits(a, rec[a], run[a], caller[a], Count(queue, a))
      BY Within
    <3>2. Len(run[a]) + (Count(queue, a) + 1) <= MaxRuns[a]
      BY <1>2, <3>1
    <3>3. \A i \in DOMAIN run[a] :
            IF i = 1 THEN run[a][i].at # "inline"
            ELSE run[a][i].at \in {"running", "inline", "over"}
      BY <3>1 DEF Fits
    <3> QED
      BY <1>2, <1>5, <2>1, <3>2, <3>3 DEF Fits
  <2>3. Sound(queue', rec', run, used, caller, limit)
    BY <1>3, <1>7, <2>1, <2>2, QueueSound
  <2>4. Attended(queue', run, used, limit)
    <3>1. WaitsOn(a, run) = "background"
      BY <1>2 DEF WaitsOn
    <3> QED
      BY <1>7, <3>1, QueueAttended
  <2>5. Debts(rec', run, owed') /\ owed' \subseteq Agents
    BY <1>1, <1>3, <2>1 DEF Debts
  <2> QED
    BY <1>1, <1>4, <1>7, <2>3, <2>4, <2>5 DEF IInv, Whole
<1>8. CASE /\ rec' = [rec EXCEPT ![a] = y] /\ run' = Begun(run, a, b)
           /\ used' = Takes(used, "background") /\ UNCHANGED queue
  <2>1. rec' \in [Agents -> Record] /\ rec'[a] = y /\ \A o \in Agents : o # a => rec'[o] = rec[o]
    BY <1>3, <1>5, <1>8
  <2>2. /\ run' \in [Agents -> Seq(Run)] /\ \A o \in Agents : o # a => run'[o] = run[o]
        /\ run'[a] # <<>> /\ run'[a][1] = run[a][1]
        /\ Fits(a, y, run'[a], caller[a], Count(queue, a))
        /\ b.at \in InFlight => Counted(run', Takes(used, b.pool))
        /\ Takes(used, b.pool) \in [Pools -> Nat]
        /\ \A p \in Pools : used[p] <= Takes(used, b.pool)[p]
    BY <1>1, <1>5, <1>6, <1>8, ResumesFit
  <2>3. /\ Counted(run', used') /\ used' \in [Pools -> Nat]
        /\ \A p \in Pools : used[p] <= used'[p]
    BY <1>6, <1>8, <2>2 DEF InFlight
  <2>4. Sound(queue, rec', run', used', caller, limit)
    BY <1>3, <2>1, <2>2, <2>3, JoinSound
  <2>5. Attended(queue, run', used', limit)
    BY <1>2, <2>2, <2>3, JoinsAttended
  <2>6. Debts(rec', run', owed') /\ owed' \subseteq Agents
    BY <1>1, <1>3, <2>1, <2>2 DEF Debts
  <2> QED
    BY <1>1, <1>4, <1>8, <2>4, <2>5, <2>6 DEF IInv, Whole
<1> QED
  BY <1>1, <1>7, <1>8

LEMMA ResumeInlineKeeps ==
    ASSUME IInv, NEW a \in Agents, ResumeInline(a)
    PROVE  IInv'
<1> DEFINE b == [at |-> "inline", pool |-> NoPool]
<1>1. /\ MayResume(a) /\ UNCHANGED <<queue, used, limit, caller, desk>>
      /\ rec' = [rec EXCEPT ![a].status = "running", ![a].ended = FALSE]
      /\ run' = Begun(run, a, b) /\ owed' = owed \ {a}
  BY DEF ResumeInline, Begun
<1>2. b \in Run /\ b.at = "inline" /\ b.at \notin InFlight
  BY DEF Run, InFlight
<1> HIDE DEF b
<1>3. /\ rec \in [Agents -> Record] /\ caller \in [Agents -> Callers]
      /\ used \in [Pools -> Nat] /\ Debts(rec, run, owed) /\ owed \subseteq Agents
  BY Within
<1>4. /\ rec' \in [Agents -> Record] /\ rec'[a] \in Record /\ rec'[a].status = "running"
      /\ rec'[a].background = rec[a].background
      /\ \A o \in Agents : o # a => rec'[o] = rec[o]
  BY <1>1, <1>3 DEF Record
<1>5. /\ run' \in [Agents -> Seq(Run)] /\ \A o \in Agents : o # a => run'[o] = run[o]
      /\ run'[a] # <<>> /\ run'[a][1] = run[a][1]
      /\ Fits(a, rec'[a], run'[a], caller[a], Count(queue, a))
      /\ Counted(run', used)
  <2>1. MayResume(a) /\ run' = Begun(run, a, b)
    BY <1>1
  <2>2. /\ b.at \in {"running", "inline"}
        /\ rec'[a].background \/ (b.at = "inline" /\ rec'[a].background = rec[a].background)
    BY <1>2, <1>4
  <2> QED
    BY <1>2, <1>4, <2>1, <2>2, ResumesFit
<1>6. Sound(queue, rec', run', used, caller, limit)
  BY <1>3, <1>4, <1>5, JoinSound
<1>7. Attended(queue, run', used, limit)
  <2>1. run[a] # <<>> /\ \A p \in Pools : used[p] <= used[p]
    BY <1>1, <1>3, Resumable
  <2> QED
    BY <1>3, <1>5, <2>1, JoinsAttended
<1>8. Debts(rec', run', owed') /\ owed' \subseteq Agents
  <2>1. /\ \A o \in Agents : o # a => rec'[o] = rec[o] /\ run'[o] = run[o]
        /\ owed' = owed \ {a}
    BY <1>1, <1>4, <1>5
  <2> QED
    BY <1>3, <2>1 DEF Debts
<1> QED
  BY <1>1, <1>6, <1>7, <1>8, Within DEF IInv, Whole

LEMMA AbortKeeps ==
    ASSUME IInv, NEW a \in Agents, Abort(a)
    PROVE  IInv'
<1> DEFINE x == [rec[a] EXCEPT !.status = "stopped", !.ended = TRUE]
<1>1. /\ Live(rec[a]) /\ rec' = [rec EXCEPT ![a].status = "stopped", ![a].ended = TRUE]
      /\ \/ /\ queue' = Without(queue, Places(queue, a))
            /\ caller' = [caller EXCEPT ![a] = IF @ = "gate" THEN "run" ELSE @]
         \/ UNCHANGED <<queue, caller>>
      /\ UNCHANGED <<run, used, limit, desk, owed>>
  BY DEF Abort, Places
<1>2. /\ rec \in [Agents -> Record] /\ caller \in [Agents -> Callers]
      /\ queue \in Seq(Agents) /\ Debts(rec, run, owed) /\ owed \subseteq Agents
      /\ Sound(queue, rec, run, used, caller, limit)
      /\ Typed(queue, rec, run, used, caller, limit)
      /\ Fits(a, rec[a], run[a], caller[a], Count(queue, a))
      /\ Count(queue, a) \in Nat /\ Len(run[a]) \in Nat /\ MaxRuns[a] \in Nat
      /\ Counted(run, used) /\ Attended(queue, run, used, limit) /\ used \in [Pools -> Nat]
  BY Within
<1>3. /\ rec' \in [Agents -> Record] /\ rec'[a].status = "stopped" /\ rec'[a].ended
      /\ rec'[a].background = rec[a].background /\ rec'[a].consumed = rec[a].consumed
      /\ \A b \in Agents : b # a => rec'[b] = rec[b]
  BY <1>1, <1>2 DEF Record
<1>4. rec[a].status \in {"queued", "running"}
  BY <1>1 DEF Live
<1>5. Debts(rec', run, owed)
  BY <1>2, <1>3 DEF Debts
<1>6. CASE UNCHANGED <<queue, caller>>
  <2>1. Fits(a, rec'[a], run[a], caller[a], Count(queue, a))
    BY <1>2, <1>3, <1>4 DEF Fits
  <2>2. /\ Sound(queue', rec', run', used', caller', limit')
        /\ Attended(queue', run', used', limit')
    BY <1>1, <1>2, <1>3, <1>6, <2>1, NoRunChanges
  <2> QED
    BY <1>1, <1>2, <1>5, <2>2, Within DEF IInv, Whole
<1>7. CASE /\ queue' = Without(queue, Places(queue, a))
           /\ caller' = [caller EXCEPT ![a] = IF @ = "gate" THEN "run" ELSE @]
  <2>1. /\ queue' \in Seq(Agents) /\ Count(queue', a) = 0
        /\ \A b \in Agents : b # a => /\ Count(queue', b) <= Count(queue, b)
                                      /\ Count(queue, b) > 0 => Count(queue', b) > 0
        /\ \A i \in DOMAIN queue' : \E j \in DOMAIN queue : queue'[i] = queue[j]
    BY <1>2, <1>7, Removed
  <2>2. /\ caller' \in [Agents -> Callers] /\ caller'[a] # "gate"
        /\ \A b \in Agents : b # a => caller'[b] = caller[b]
    BY <1>2, <1>7 DEF Callers
  <2>3. Fits(a, rec'[a], run[a], caller'[a], Count(queue', a))
    <3>1. Len(run[a]) + 0 <= MaxRuns[a]
      BY <1>2 DEF Fits
    <3> QED
      BY <1>2, <1>3, <1>4, <2>1, <2>2, <3>1 DEF Fits
  <2>4. Typed(queue', rec', run, used, caller', limit)
    BY <1>2, <1>3, <2>1, <2>2 DEF Typed
  <2>5. Sound(queue', rec', run, used, caller', limit)
    <3>1. \A b \in Agents : b # a =>
            /\ rec'[b] = rec[b] /\ run[b] = run[b] /\ caller'[b] = caller[b]
            /\ Count(queue', b) <= Count(queue, b) /\ (Count(queue, b) > 0 => Count(queue', b) > 0)
      BY <1>3, <2>1, <2>2
    <3>2. Sound(queue, rec, run, used, caller, limit) /\ Counted(run, used)
      BY <1>2
    <3> QED
      BY <2>3, <2>4, <3>1, <3>2, OneAgentChanges
  <2>6. Attended(queue', run, used, limit)
    <3>1. \A i \in DOMAIN queue' :
            \/ Room(WaitsOn(queue'[i], run), used, limit) <= 0
            \/ \E j \in DOMAIN queue : queue'[i] = queue[j]
                                      /\ (run[queue[j]] = <<>> <=> run[queue[j]] = <<>>)
      BY <2>1
    <3>2. \A p \in Pools : used[p] <= used[p]
      BY <1>2
    <3>3. Typed(queue, rec, run, used, caller, limit) /\ Attended(queue, run, used, limit)
      BY <1>2
    <3>4. used \in [Pools -> Nat]
      BY <1>2
    <3> QED
      BY <3>1, <3>2, <3>3, <3>4, StillAttended
  <2> QED
    BY <1>1, <1>2, <1>5, <2>5, <2>6, Within DEF IInv, Whole
<1> QED
  BY <1>1, <1>6, <1>7

\* The first run of an agent that starts at once.
LEMMA FirstJoins ==
    ASSUME IInv, NEW a \in Agents, Len(run[a]) < 1,
           NEW b \in Run, b.at \in InFlight, NEW n, n = Begun(run, a, b)
    PROVE  /\ n \in [Agents -> Seq(Run)] /\ \A o \in Agents : o # a => n[o] = run[o]
           /\ n[a] # <<>> /\ Len(n[a]) = 1 /\ n[a][1] = b /\ \A k \in DOMAIN n[a] : k = 1
           /\ Counted(n, Takes(used, b.pool)) /\ Takes(used, b.pool) \in [Pools -> Nat]
           /\ \A o \in Pools : used[o] <= Takes(used, b.pool)[o]
<1>1. /\ run \in [Agents -> Seq(Run)] /\ used \in [Pools -> Nat] /\ Counted(run, used)
  BY Within
<1>2. /\ n \in [Agents -> Seq(Run)] /\ \A o \in Agents : o # a => n[o] = run[o]
      /\ DOMAIN n[a] = 1..(Len(run[a]) + 1) /\ Len(run[a]) \in Nat
      /\ Len(n[a]) = Len(run[a]) + 1 /\ n[a] # <<>>
      /\ n[a][Len(run[a]) + 1] = b
  BY <1>1, BegunIs
<1>3. Len(run[a]) = 0
  BY <1>2
<1>4. /\ b.at \in InFlight => Counted(n, Takes(used, b.pool))
      /\ Takes(used, b.pool) \in [Pools -> Nat]
      /\ \A o \in Pools : used[o] <= Takes(used, b.pool)[o]
  <2>1. MaxRuns[a] \in Nat /\ MaxRuns[a] >= 1
    BY SubagentsAssumption
  <2>2. Len(run[a]) + 1 <= MaxRuns[a]
    BY <1>3, <2>1
  <2> QED
    BY <1>1, <2>2, RunJoins
<1>5. Len(n[a]) = 1 /\ (\A k \in DOMAIN n[a] : k = 1) /\ n[a][1] = b
  BY <1>2, <1>3
<1> QED
  BY <1>2, <1>4, <1>5

LEMMA FirstFits ==
    ASSUME NEW a \in Agents, NEW s, s # <<>>, Len(s) = 1, \A k \in DOMAIN s : k = 1,
           s[1].at # "inline",
           NEW x, x.status = "running", Kind[a] = "background" => x.background,
           NEW g, g # "gate"
    PROVE  Fits(a, x, s, g, 0)
<1>1. Len(s) + 0 <= MaxRuns[a]
  BY SubagentsAssumption
<1> QED
  BY <1>1 DEF Fits

LEMMA SpawnKeeps ==
    ASSUME IInv, NEW a \in Agents, NEW scheduled \in BOOLEAN, Spawn(a, scheduled)
    PROVE  IInv'
<1> DEFINE x == [status |-> "running", background |-> Kind[a] = "background",
                 ended |-> FALSE, consumed |-> FALSE]
<1> DEFINE y == [x EXCEPT !.status = "queued"]
<1> DEFINE z == [x EXCEPT !.status = "stopped", !.ended = TRUE]
<1> DEFINE p == PoolFor(a, x, limit)
<1> DEFINE b == Begins(a, x, <<>>, limit)
<1> DEFINE full == p # NoPool /\ ~scheduled /\ Room(p, used, limit) <= 0
<1>1. /\ rec[a].status = "unborn" /\ UNCHANGED <<limit, owed>>
      /\ \/ /\ full /\ rec' = [rec EXCEPT ![a] = y] /\ queue' = Append(queue, a)
            /\ caller' = [caller EXCEPT ![a] = IF Kind[a] = "blocking" THEN "gate" ELSE "none"]
            /\ desk' = IF Kind[a] = "background" THEN Joins(desk, a) ELSE desk
            /\ UNCHANGED <<run, used>>
         \/ /\ Kind[a] = "blocking" /\ rec' = [rec EXCEPT ![a] = z]
            /\ caller' = [caller EXCEPT ![a] = "run"]
            /\ UNCHANGED <<queue, run, used, desk>>
         \/ /\ rec' = [rec EXCEPT ![a] = x] /\ run' = [run EXCEPT ![a] = <<b>>]
            /\ used' = Takes(used, p)
            /\ caller' = [caller EXCEPT ![a] =
                   CASE scheduled -> "job"
                     [] Kind[a] = "blocking" -> "run"
                     [] Kind[a] = "background" /\ a \in Isolated -> "starting"
                     [] OTHER -> "none"]
            /\ desk' = IF Kind[a] = "background" /\ a \notin Isolated /\ ~scheduled
                       THEN Joins(desk, a) ELSE desk
            /\ UNCHANGED queue
  BY Zenon DEF Spawn
<1>2. /\ rec \in [Agents -> Record] /\ caller \in [Agents -> Callers]
      /\ run \in [Agents -> Seq(Run)] /\ used \in [Pools -> Nat] /\ Counted(run, used)
      /\ Debts(rec, run, owed) /\ owed \subseteq Agents
  BY Within
<1>3. run[a] = <<>> /\ Count(queue, a) = 0 /\ a \notin owed /\ MaxRuns[a] \in Nat /\ MaxRuns[a] >= 1
  <2>1. Fits(a, rec[a], run[a], caller[a], Count(queue, a)) /\ Count(queue, a) \in Nat
    BY Within
  <2>2. run[a] = <<>> /\ Count(queue, a) = 0
    BY <1>1, <2>1 DEF Fits
  <2> QED
    BY <1>2, <2>2, SubagentsAssumption DEF Debts
<1>4. desk' \in Desk /\ \A o \in owed' : Covered(desk', o)
  <2>1. desk' = desk \/ desk' = Joins(desk, a)
    BY <1>1
  <2> QED
    BY <1>1, <2>1, Within, JoinsKeeps DEF Keeps
<1>5. /\ x \in Record /\ y \in Record /\ z \in Record
      /\ x.status = "running" /\ y.status = "queued" /\ z.status = "stopped"
      /\ Kind[a] = "background" => x.background /\ y.background /\ z.background
      /\ Kind[a] = "blocking" => ~x.background /\ ~y.background /\ ~z.background
  BY DEF Record
<1>6. b \in Run /\ b.at \in InFlight /\ b.at # "inline" /\ b.pool = p
  <2>1. b.at \in InFlight /\ b.at # "inline" /\ b.pool = p
    BY DEF Begins, InFlight
  <2> QED
    BY <2>1, RunTypes
<1>7. full => TopLevel(a) /\ WaitsOn(a, run) = p /\ Room(p, used, limit) <= 0
  <2>1. p # NoPool => TopLevel(a) /\ WaitsOn(a, run) = p
    BY <1>3, <1>5 DEF PoolFor, WaitsOn
  <2> QED
    BY <2>1
<1>8. Len(<<>>) = 0 /\ DOMAIN <<>> = {}
  OBVIOUS
<1> HIDE DEF x, y, z, p, b, full
<1>9. CASE /\ full /\ rec' = [rec EXCEPT ![a] = y] /\ queue' = Append(queue, a)
           /\ caller' = [caller EXCEPT ![a] = IF Kind[a] = "blocking" THEN "gate" ELSE "none"]
           /\ UNCHANGED <<run, used>>
  <2>1. /\ rec' \in [Agents -> Record] /\ rec'[a] = y /\ \A o \in Agents : o # a => rec'[o] = rec[o]
        /\ caller' \in [Agents -> Callers] /\ \A o \in Agents : o # a => caller'[o] = caller[o]
    BY <1>2, <1>5, <1>9 DEF Callers
  <2>2. Fits(a, rec'[a], run[a], caller'[a], Count(queue, a) + 1)
    <3>1. Len(<<>>) + 1 <= MaxRuns[a] /\ Count(queue, a) + 1 = 1
      BY <1>3, <1>8
    <3>2. TopLevel(a) /\ (caller'[a] = "gate" => 1 > 0)
      BY <1>7, <1>9
    <3>3. Fits(a, y, <<>>, caller'[a], 1)
      BY <1>5, <1>8, <3>1, <3>2 DEF Fits
    <3> QED
      BY <1>3, <2>1, <3>1, <3>3
  <2>3. Sound(queue', rec', run, used, caller', limit)
    BY <1>9, <2>1, <2>2, QueueSound
  <2>4. Attended(queue', run, used, limit)
    BY <1>7, <1>9, QueueAttended
  <2>5. Debts(rec', run, owed)
    BY <1>2, <1>3, <2>1 DEF Debts
  <2> QED
    BY <1>1, <1>2, <1>4, <1>9, <2>3, <2>4, <2>5 DEF IInv, Whole
<1>10. CASE /\ Kind[a] = "blocking" /\ rec' = [rec EXCEPT ![a] = z]
            /\ caller' = [caller EXCEPT ![a] = "run"]
            /\ UNCHANGED <<queue, run, used>>
  <2>1. /\ rec' \in [Agents -> Record] /\ rec'[a] = z /\ \A o \in Agents : o # a => rec'[o] = rec[o]
        /\ caller' \in [Agents -> Callers] /\ caller'[a] = "run"
        /\ \A o \in Agents : o # a => caller'[o] = caller[o]
    BY <1>2, <1>5, <1>10 DEF Callers
  <2>2. Fits(a, rec'[a], run[a], caller'[a], Count(queue, a))
    <3>1. Len(<<>>) + 0 <= MaxRuns[a]
      BY <1>3, <1>8
    <3>2. Fits(a, z, <<>>, "run", 0)
      BY <1>5, <1>8, <1>10, <3>1 DEF Fits
    <3> QED
      BY <1>3, <2>1, <3>2
  <2>3. /\ Sound(queue', rec', run', used', caller', limit')
        /\ Attended(queue', run', used', limit')
    BY <1>1, <1>10, <2>1, <2>2, NoRunChanges
  <2>4. Debts(rec', run, owed)
    BY <1>2, <1>3, <2>1 DEF Debts
  <2> QED
    BY <1>1, <1>2, <1>4, <1>10, <2>3, <2>4 DEF IInv, Whole
<1>11. CASE /\ rec' = [rec EXCEPT ![a] = x] /\ run' = [run EXCEPT ![a] = <<b>>]
            /\ used' = Takes(used, p)
            /\ caller' = [caller EXCEPT ![a] =
                   CASE scheduled -> "job"
                     [] Kind[a] = "blocking" -> "run"
                     [] Kind[a] = "background" /\ a \in Isolated -> "starting"
                     [] OTHER -> "none"]
            /\ UNCHANGED queue
  <2>1. /\ rec' \in [Agents -> Record] /\ rec'[a] = x /\ \A o \in Agents : o # a => rec'[o] = rec[o]
    BY <1>2, <1>5, <1>11
  <2>2. /\ caller' \in [Agents -> Callers] /\ caller'[a] # "gate"
        /\ \A o \in Agents : o # a => caller'[o] = caller[o]
    <3> DEFINE g == CASE scheduled -> "job"
                      [] Kind[a] = "blocking" -> "run"
                      [] Kind[a] = "background" /\ a \in Isolated -> "starting"
                      [] OTHER -> "none"
    <3>1. g \in Callers /\ g # "gate"
      BY DEF Callers
    <3>2. caller' = [caller EXCEPT ![a] = g]
      BY <1>11
    <3> HIDE DEF g
    <3> QED
      BY <1>2, <3>1, <3>2
  <2>3. run' = Begun(run, a, b)
    BY <1>3, <1>11 DEF Begun
  <2>4. /\ run' \in [Agents -> Seq(Run)] /\ \A o \in Agents : o # a => run'[o] = run[o]
        /\ run'[a] # <<>> /\ Len(run'[a]) = 1
        /\ run'[a][1] = b /\ \A k \in DOMAIN run'[a] : k = 1
        /\ Counted(run', Takes(used, b.pool)) /\ Takes(used, b.pool) \in [Pools -> Nat]
        /\ \A o \in Pools : used[o] <= Takes(used, b.pool)[o]
    <3>1. Len(run[a]) < 1
      BY <1>3, <1>8
    <3> QED
      BY <1>6, <2>3, <3>1, FirstJoins
  <2>5. /\ Counted(run', used') /\ used' \in [Pools -> Nat]
        /\ \A o \in Pools : used[o] <= used'[o]
    BY <1>6, <1>11, <2>4
  <2>7. Fits(a, rec'[a], run'[a], caller'[a], Count(queue, a))
    <3>1. Fits(a, x, run'[a], caller'[a], 0)
      BY <1>5, <1>6, <2>2, <2>4, FirstFits
    <3> QED
      BY <1>3, <2>1, <3>1
  <2>8. Sound(queue, rec', run', used', caller', limit)
    BY <2>1, <2>2, <2>4, <2>5, <2>7, JoinSound
  <2>9. Attended(queue, run', used', limit)
    BY <1>3, <2>4, <2>5, JoinsAttended
  <2>10. Debts(rec', run', owed)
    BY <1>2, <1>3, <2>1, <2>4 DEF Debts
  <2> QED
    BY <1>1, <1>2, <1>4, <1>11, <2>8, <2>9, <2>10 DEF IInv, Whole
<1> QED
  BY <1>1, <1>9, <1>10, <1>11

-----------------------------------------------------------------------------
(* The invariant holds.                                                     *)

LEMMA InitHolds == Init => IInv
<1>1. SUFFICES ASSUME Init PROVE IInv
  OBVIOUS
<1>2. /\ rec = [a \in Agents |-> Unborn] /\ run = [a \in Agents |-> <<>>] /\ queue = <<>>
      /\ used = [p \in Pools |-> 0] /\ caller = [a \in Agents |-> "none"]
      /\ limit \in [background : Limits, foreground : ForegroundLimits]
      /\ desk = EmptyDesk /\ owed = {}
  BY <1>1 DEF Init
<1>3. /\ Unborn \in Record /\ Unborn.status = "unborn" /\ ~Unborn.background
  BY DEF Record, Unborn
<1>4. Typed(queue, rec, run, used, caller, limit)
  <2>1. rec \in [Agents -> Record] /\ run \in [Agents -> Seq(Run)] /\ queue \in Seq(Agents)
    BY <1>2, <1>3
  <2>2. used \in [Pools -> Nat] /\ caller \in [Agents -> Callers]
    BY <1>2 DEF Callers
  <2> QED
    BY <1>2, <2>1, <2>2 DEF Typed
<1>5. Counted(run, used)
  <2>1. ASSUME NEW p \in Pools
        PROVE  Slots(run, p) = {}
    <3>1. \A t \in Turns : t[1] \in Agents
      BY TurnsAre
    <3>2. \A t \in Turns : t[2] \notin DOMAIN run[t[1]]
      BY <1>2, <3>1
    <3> QED
      BY <3>2 DEF Slots
  <2>2. Cardinality({}) = 0
    BY FS_EmptySet
  <2> QED
    BY <1>2, <2>1, <2>2 DEF Counted
<1>6. ASSUME NEW a \in Agents
      PROVE  Fits(a, rec[a], run[a], caller[a], Count(queue, a))
  <2>1. rec[a] = Unborn /\ run[a] = <<>> /\ caller[a] = "none"
    BY <1>2
  <2>2. Count(queue, a) = 0
    <3>1. Places(queue, a) = {}
      BY <1>2 DEF Places
    <3> QED
      BY <3>1, FS_EmptySet DEF Count
  <2>3. Len(<<>>) + 0 <= MaxRuns[a] /\ DOMAIN <<>> = {}
    BY SubagentsAssumption
  <2>4. Fits(a, Unborn, <<>>, "none", 0)
    BY <1>3, <2>3 DEF Fits
  <2> QED
    BY <2>1, <2>2, <2>4
<1>7. Sound(queue, rec, run, used, caller, limit)
  BY <1>4, <1>5, <1>6, SoundFits
<1>8. Attended(queue, run, used, limit)
  BY <1>2 DEF Attended, NoRoom
<1>9. owed \subseteq Agents /\ Debts(rec, run, owed) /\ \A a \in owed : Covered(desk, a)
  BY <1>2 DEF Debts
<1>10. desk \in Desk
  <2>1. EmptyGroup \in Group
    BY DEF EmptyGroup, Group
  <2> QED
    BY <1>2, <2>1 DEF EmptyDesk, Desk
<1> QED
  BY <1>7, <1>8, <1>9, <1>10 DEF IInv, Whole

LEMMA NextHolds == IInv /\ [Next]_vars => IInv'
<1>1. SUFFICES ASSUME IInv, [Next]_vars PROVE IInv'
  OBVIOUS
<1>2. CASE UNCHANGED vars
  BY <1>1, <1>2 DEF vars, IInv, Whole
<1>3. ASSUME NEW a \in Agents, NEW scheduled \in BOOLEAN, Spawn(a, scheduled)
      PROVE  IInv'
  BY <1>1, <1>3, SpawnKeeps
<1>4. ASSUME NEW a \in Agents, Startup(a)
      PROVE  IInv'
  BY <1>1, <1>4, CopyDoneKeeps, DiscardedKeeps, CopyFailsKeeps DEF Startup
<1>5. ASSUME NEW a \in Agents, Ends(a)
      PROVE  IInv'
  BY <1>1, <1>5, RunEndsKeeps, TidiedKeeps, InlineEndsKeeps DEF Ends
<1>6. ASSUME NEW a \in Agents, Resume(a) \/ ResumeInline(a)
      PROVE  IInv'
  BY <1>1, <1>6, ResumeKeeps, ResumeInlineKeeps
<1>7. ASSUME NEW a \in Agents, Abort(a) \/ CallerReturns(a)
      PROVE  IInv'
  BY <1>1, <1>7, AbortKeeps, CallerReturnsKeeps
<1>8. ASSUME NEW a \in Agents, Consume(a) \/ Steer(a)
      PROVE  IInv'
  BY <1>1, <1>8, ConsumeKeeps, SteerKeeps
<1>9. CASE SetLimit \/ WaitTurn
  BY <1>1, <1>9, SetLimitKeeps, WaitTurnKeeps
<1>10. CASE Timers
  BY <1>1, <1>10, FinalizeBatchKeeps, GroupTimeoutKeeps, AnnounceKeeps DEF Timers
<1> QED
  BY <1>1, <1>2, <1>3, <1>4, <1>5, <1>6, <1>7, <1>8, <1>9, <1>10 DEF Next

LEMMA Invariance == Spec => []IInv
<1>1. Init => IInv
  BY InitHolds
<1>2. IInv /\ [Next]_vars => IInv'
  BY NextHolds
<1> QED
  BY <1>1, <1>2, PTL DEF Spec

\* The queue, the counters, the records, the callers and the desk have their types, and no
\* agent has more runs than the bound (agent-manager.ts, group-join.ts).
THEOREM TypeCorrect == Spec => []TypeOK
<1>1. IInv => TypeOK
  BY Within DEF TypeOK
<1> QED
  BY <1>1, Invariance, PTL

\* For any agents, limits and order of starts, stops, resumes and changed limits, the two
\* counters of the manager are the runs that hold a slot: no path gives one back twice,
\* and none keeps one (runningBackground and runningForeground).
THEOREM TheSlotsAreHeld == Spec => []SlotsAreHeld
<1>1. IInv => SlotsAreHeld
  BY Within DEF SlotsAreHeld, Counted
<1> QED
  BY <1>1, Invariance, PTL

\* Whatever ends, is stopped or is allowed to run at the same time, nobody is left in the
\* queue of a pool that has room, but while the copy of a stopped run is being removed, whose
\* end drains the queue (drainQueue).
THEOREM NobodyIsLeftStranded == Spec => []NobodyIsStranded
<1>1. ASSUME IInv
      PROVE  NobodyIsStranded
  <2>1. /\ Attended(queue, run, used, limit) /\ used \in [Pools -> Nat]
        /\ limit \in [background : Limits, foreground : ForegroundLimits]
    BY <1>1, Within
  <2>2. ASSUME NEW i \in DOMAIN queue
        PROVE  Room(WaitsOn(queue[i], run), used, limit) \in Int
    <3> DEFINE p == WaitsOn(queue[i], run)
    <3>1. p \in Pools
      BY DEF WaitsOn, Pools
    <3> HIDE DEF p
    <3>2. used[p] \in Nat /\ limit[p] \in Nat
      BY <2>1, <3>1, SubagentsAssumption DEF Pools
    <3>3. Cardinality(Agents) \in Nat
      BY NoticesAssumption, FS_CardinalityType
    <3>4. Room(p, used, limit) \in Int
      BY <3>2, <3>3 DEF Room
    <3> QED
      BY <3>4 DEF p
  <2>3. NoRoom(queue, run, used, limit)
          => \A i \in DOMAIN queue : ~(Room(WaitsOn(queue[i], run), used, limit) > 0)
    BY <2>2 DEF NoRoom
  <2> QED
    BY <2>1, <2>3 DEF Attended, NobodyIsStranded
<1> QED
  BY <1>1, Invariance, PTL

\* A call of spawnAndWait that waits for a queued agent is never forgotten: its agent is in
\* the queue, or starts and has not settled.
THEOREM EveryGateOpens == Spec => []GatesOpen
<1>1. ASSUME IInv
      PROVE  GatesOpen
  <2>1. ASSUME NEW a \in Agents, caller[a] = "gate"
        PROVE  \/ \E i \in DOMAIN queue : queue[i] = a
               \/ run[a] # <<>> /\ run[a][1].at \in {"copying", "discarding"}
    <3>1. /\ Fits(a, rec[a], run[a], caller[a], Count(queue, a)) /\ queue \in Seq(Agents)
      BY <1>1, Within
    <3>2. Count(queue, a) > 0 => \E i \in DOMAIN queue : queue[i] = a
      BY <3>1, PlacesCount DEF Places
    <3> QED
      BY <2>1, <3>1, <3>2 DEF Fits
  <2> QED
    BY <2>1 DEF GatesOpen
<1> QED
  BY <1>1, Invariance, PTL

\* A result that nobody was told of is always in the batch, in a group with a timer or in an
\* announcement on hold, whatever joins, times out, is read or is resumed meanwhile
\* (onComplete of index.ts, group-join.ts).
THEOREM EveryResultIsHeld == Spec => []ResultsAreHeld
<1>1. IInv => ResultsAreHeld
  BY Within DEF ResultsAreHeld, Covered
<1> QED
  BY <1>1, Invariance, PTL
=============================================================================
