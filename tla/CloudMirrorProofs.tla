--------------------------- MODULE CloudMirrorProofs ---------------------------
(***************************************************************************)
(* Proofs about the mirror: for any sessions, batches and refusals, with   *)
(* the process killed and the session switched anywhere, what is pending   *)
(* is on disk, what counts as delivered was, no conversation gets entries  *)
(* of another, and none gets an entry before those it follows.             *)
(***************************************************************************)
EXTENDS CloudMirror, SequenceTheorems, WellFoundedInduction, TLAPS

\* The entries of conversation c, and those before an entry.
Own(c) == {c} \X (1..MaxEntries[c])
Before(e) == {e[1]} \X (1..(e[2] - 1))
\* Whatever is before an entry of s is in D or earlier in s.
Ordered(s, D) ==
    \A p \in DOMAIN s : \A e \in Before(s[p]) : e \in D \/ \E q \in 1..(p - 1) : s[q] = e

\* The entries of c that need not be sent.
Done(c) == server[c] \cup denied

\* A request of the current link is for its conversation.
Fresh(req) == ~req.stale => req.conv = conv /\ conv # None

\* What the process remembers of the current link.
Memory ==
    /\ loaded = None => kept = {}
    /\ loaded \in {None, conv}
    /\ conv # None =>
         /\ acked \subseteq server[conv] /\ refused \subseteq denied
         /\ Elements(pending) \subseteq kept /\ kept \subseteq Elements(outbox[conv])
         /\ kept \subseteq Elements(pending) \cup Done(conv)
         /\ Ordered(pending, Done(conv))
\* An answer that is on its way to the link holds.
Answers ==
    /\ call.at \in {"listed", "read"} => call.ids \subseteq server[conv]
    /\ call.at = "read" => call.refused \subseteq denied

Files == \A c \in Conversations :
    /\ Elements(outbox[c]) \subseteq Own(c) /\ Ordered(outbox[c], Done(c))
    /\ rejects[c] \subseteq denied

\* An operation on the outbox file. The first alone is under way, and it adds nothing
\* whose parent is not there.
OpSound(op) ==
    LET c == op.req.conv
    IN  /\ Fresh(op.req)
        /\ op.kind = "stage" => c \in Conversations /\ op.n \in 0..MaxEntries[c]
        /\ op.at = "appends" =>
             /\ op.kind = "stage" /\ Elements(op.missing) \subseteq Own(c)
             /\ Ordered(op.missing, Done(c) \cup Elements(outbox[c]))
             /\ Current(op.req) => /\ loaded = conv
                                   /\ Ordered(op.missing, Done(c) \cup Elements(pending))
        /\ op.at = "removes" => pending = <<>>
Operations ==
    /\ \A i \in DOMAIN ops : OpSound(ops[i])
    /\ \A i \in DOMAIN ops : i # 1 => ops[i].at = "waits"

\* The delivery sends what the cloud does not have, parents first.
Sending ==
    /\ Fresh(flight.req) /\ Fresh(again)
    /\ flight.at \in {"sending", "taken", "writing"} =>
         LET c == flight.req.conv
         IN  /\ c \in Conversations /\ flight.left # <<>>
             /\ Elements(flight.left) \subseteq Own(c) /\ Ordered(flight.left, Done(c))
             /\ flight.refused \subseteq denied
             /\ flight.at = "taken" => Elements(Chunk) \subseteq server[c]
             /\ flight.at = "writing" => Elements(Chunk) \subseteq denied

Inv == /\ TypeOK /\ Memory /\ Answers /\ Files /\ Operations /\ Sending
       /\ OwnEntriesOnly /\ ParentsFirst

-----------------------------------------------------------------------------
(* Sequences of entries. What Within leaves is found by induction: a set of *)
(* numbers that fail has a least one.                                       *)

LEMMA Least ==
    ASSUME NEW T, T \subseteq Nat, T # {}
    PROVE  \E m \in T : \A k \in T : m <= k
<1> DEFINE R == {pair \in Nat \X Nat : pair[1] < pair[2]}
<1>1. R = OpToRel(<, Nat)
  BY DEF OpToRel
<1>2. IsWellFoundedOn(R, Nat)
  BY <1>1, NatLessThanWellFounded
<1>3. PICK m \in T : \A k \in T : ~(<<k, m>> \in R)
  BY <1>2, WFMin
<1>4. \A k \in T : k \in Nat /\ m \in Nat /\ ~(k < m)
  BY <1>3
<1> QED
  BY <1>3, <1>4

\* f is what Within(s, S) has taken from the first i elements, for each i up to n.
Taken(f, n, s, S) ==
    f = [i \in 0..n |-> IF i = 0 THEN <<>>
                        ELSE IF s[i] \in S THEN Append(f[i - 1], s[i]) ELSE f[i - 1]]

LEMMA TakenExists ==
    ASSUME NEW s, NEW S, NEW n \in Nat
    PROVE  \E f : Taken(f, n, s, S)
<1> DEFINE bad == {m \in Nat : ~\E f : Taken(f, m, s, S)}
<1>1. SUFFICES ASSUME bad # {} PROVE FALSE
  OBVIOUS
<1>2. PICK m \in bad : \A k \in bad : m <= k
  BY <1>1, Least
<1>3. CASE m = 0
  <2> DEFINE f == [i \in 0..0 |-> <<>>]
  <2>1. Taken(f, 0, s, S)
    BY DEF Taken
  <2> QED
    BY <1>2, <1>3, <2>1
<1>4. CASE m # 0
  <2>1. m \in Nat /\ m - 1 \in Nat /\ m - 1 \notin bad
    BY <1>2, <1>4
  <2>2. PICK f : Taken(f, m - 1, s, S)
    BY <2>1
  <2> DEFINE last == IF s[m] \in S THEN Append(f[m - 1], s[m]) ELSE f[m - 1]
  <2> DEFINE g == [i \in 0..m |-> IF i = m THEN last ELSE f[i]]
  <2>3. Taken(g, m, s, S)
    <3>1. \A i \in 0..(m - 1) :
            f[i] = IF i = 0 THEN <<>>
                   ELSE IF s[i] \in S THEN Append(f[i - 1], s[i]) ELSE f[i - 1]
      BY <2>2 DEF Taken
    <3>2. ASSUME NEW i \in 0..m
          PROVE  g[i] = IF i = 0 THEN <<>>
                        ELSE IF s[i] \in S THEN Append(g[i - 1], s[i]) ELSE g[i - 1]
      <4>1. CASE i = m
        BY <1>4, <2>1, <4>1
      <4>2. CASE i # m
        <5>1. i \in 0..(m - 1) /\ (i # 0 => i - 1 \in 0..m /\ i - 1 # m)
          BY <2>1, <4>2
        <5> QED
          BY <3>1, <4>2, <5>1
      <4> QED
        BY <4>1, <4>2
    <3> HIDE DEF g
    <3>3. g = [i \in 0..m |-> g[i]]
      BY DEF g
    <3> QED
      BY <3>2, <3>3 DEF Taken
  <2> QED
    BY <1>2, <2>3
<1> QED
  BY <1>3, <1>4

LEMMA WithinIs ==
    ASSUME NEW s, NEW S, Len(s) \in Nat
    PROVE  \E f : Taken(f, Len(s), s, S) /\ Within(s, S) = f[Len(s)]
<1> DEFINE f == CHOOSE f : Taken(f, Len(s), s, S)
<1>1. Taken(f, Len(s), s, S)
  BY TakenExists
<1>2. Within(s, S) = f[Len(s)]
  BY DEF Within, Taken
<1> QED
  BY <1>1, <1>2

\* t holds what the first i elements of s have of S, each behind those before it.
Follows(t, i, s, S) ==
    /\ \A j \in 1..i : s[j] \in S => \E p \in 1..Len(t) : t[p] = s[j]
    /\ \A p \in 1..Len(t) : \E q \in 1..i :
         /\ s[q] = t[p] /\ s[q] \in S
         /\ \A r \in 1..(q - 1) : s[r] \in S => \E u \in 1..(p - 1) : t[u] = s[r]

LEMMA FollowsNext ==
    ASSUME NEW T, NEW s \in Seq(T), NEW S, NEW i \in 1..Len(s), NEW t \in Seq(T),
           Follows(t, i - 1, s, S)
    PROVE  LET u == IF s[i] \in S THEN Append(t, s[i]) ELSE t
           IN  u \in Seq(T) /\ Follows(u, i, s, S)
<1>1. s[i] \in T /\ i \in Nat /\ i - 1 \in Nat /\ Len(t) \in Nat
      /\ \A j \in 1..i : j \in 1..(i - 1) \/ j = i
  OBVIOUS
<1>2. CASE s[i] \notin S
  BY <1>1, <1>2 DEF Follows
<1>3. CASE s[i] \in S
  <2> DEFINE u == Append(t, s[i])
  <2>1. /\ u \in Seq(T) /\ Len(u) = Len(t) + 1 /\ u[Len(t) + 1] = s[i]
        /\ \A p \in 1..Len(t) : u[p] = t[p]
    BY <1>1
  <2> HIDE DEF u
  <2>2. \A p \in 1..Len(u) : p \in 1..Len(t) \/ p = Len(t) + 1
    BY <1>1, <2>1
  <2>3. 1..Len(t) \subseteq 1..Len(u) /\ Len(t) + 1 \in 1..Len(u)
        /\ 1..(i - 1) \subseteq 1..i /\ i \in 1..i
    BY <1>1, <2>1
  <2>4. ASSUME NEW j \in 1..i, s[j] \in S
        PROVE  \E p \in 1..Len(u) : u[p] = s[j]
    <3>1. CASE j = i
      BY <2>1, <2>3, <3>1
    <3>2. CASE j \in 1..(i - 1)
      <4>1. PICK p \in 1..Len(t) : t[p] = s[j]
        BY <2>4, <3>2 DEF Follows
      <4> QED
        BY <2>1, <2>3, <4>1
    <3> QED
      BY <1>1, <3>1, <3>2
  <2>5. ASSUME NEW p \in 1..Len(u)
        PROVE  \E q \in 1..i :
                 /\ s[q] = u[p] /\ s[q] \in S
                 /\ \A r \in 1..(q - 1) : s[r] \in S => \E v \in 1..(p - 1) : u[v] = s[r]
    <3>1. CASE p \in 1..Len(t)
      <4>1. PICK q \in 1..(i - 1) :
              /\ s[q] = t[p] /\ s[q] \in S
              /\ \A r \in 1..(q - 1) : s[r] \in S => \E v \in 1..(p - 1) : t[v] = s[r]
        BY <3>1 DEF Follows
      <4>2. \A v \in 1..(p - 1) : v \in 1..Len(t)
        BY <1>1, <3>1
      <4> QED
        BY <2>1, <2>3, <3>1, <4>1, <4>2
    <3>2. CASE p = Len(t) + 1
      <4>1. 1..(p - 1) = 1..Len(t)
        BY <1>1, <3>2
      <4>2. \A r \in 1..(i - 1) : s[r] \in S => \E v \in 1..(p - 1) : u[v] = s[r]
        <5> SUFFICES ASSUME NEW r \in 1..(i - 1), s[r] \in S
                     PROVE  \E v \in 1..(p - 1) : u[v] = s[r]
          OBVIOUS
        <5>1. PICK v \in 1..Len(t) : t[v] = s[r]
          BY DEF Follows
        <5> QED
          BY <2>1, <4>1, <5>1
      <4> QED
        BY <1>3, <2>1, <2>3, <3>2, <4>2
    <3> QED
      BY <2>2, <3>1, <3>2
  <2>6. Follows(u, i, s, S)
    BY <2>4, <2>5 DEF Follows
  <2> QED
    BY <1>3, <2>1, <2>6 DEF u
<1> QED
  BY <1>2, <1>3

LEMMA WithinFollows ==
    ASSUME NEW T, NEW s \in Seq(T), NEW S
    PROVE  Within(s, S) \in Seq(T) /\ Follows(Within(s, S), Len(s), s, S)
<1>1. Len(s) \in Nat
  OBVIOUS
<1>2. PICK f : Taken(f, Len(s), s, S) /\ Within(s, S) = f[Len(s)]
  BY <1>1, WithinIs
<1>3. \A i \in 0..Len(s) :
        f[i] = IF i = 0 THEN <<>>
               ELSE IF s[i] \in S THEN Append(f[i - 1], s[i]) ELSE f[i - 1]
  BY <1>2 DEF Taken
<1> DEFINE bad == {i \in 0..Len(s) : ~(f[i] \in Seq(T) /\ Follows(f[i], i, s, S))}
<1>4. bad = {}
  <2> SUFFICES ASSUME bad # {} PROVE FALSE
    OBVIOUS
  <2>1. PICK m \in bad : \A k \in bad : m <= k
    <3>1. bad \subseteq Nat
      BY <1>1
    <3> QED
      BY <3>1, Least
  <2>2. CASE m = 0
    <3>1. f[0] = <<>>
      BY <1>1, <1>3
    <3>2. <<>> \in Seq(T) /\ Len(<<>>) = 0 /\ 1..0 = {}
      OBVIOUS
    <3>3. Follows(<<>>, 0, s, S)
      BY <3>2 DEF Follows
    <3> QED
      BY <2>1, <2>2, <3>1, <3>2, <3>3
  <2>3. CASE m # 0
    <3>1. m \in 1..Len(s) /\ m - 1 \in 0..Len(s) /\ m - 1 \notin bad
      BY <1>1, <2>1, <2>3
    <3>2. f[m - 1] \in Seq(T) /\ Follows(f[m - 1], m - 1, s, S)
      BY <3>1
    <3>3. f[m] = IF s[m] \in S THEN Append(f[m - 1], s[m]) ELSE f[m - 1]
      BY <1>3, <3>1
    <3>4. f[m] \in Seq(T) /\ Follows(f[m], m, s, S)
      BY <3>1, <3>2, <3>3, FollowsNext
    <3> QED
      BY <2>1, <3>4
  <2> QED
    BY <2>2, <2>3
<1> QED
  BY <1>1, <1>2, <1>4

LEMMA OrderedMore ==
    ASSUME NEW s, NEW D, NEW E, D \subseteq E, Ordered(s, D)
    PROVE  Ordered(s, E)
BY DEF Ordered

LEMMA ElementTypes ==
    ASSUME NEW T, NEW s \in Seq(T)
    PROVE  /\ Len(s) \in Nat /\ DOMAIN s = 1..Len(s) /\ Elements(s) \subseteq T
           /\ s = <<>> <=> Elements(s) = {}
<1>1. Len(s) \in Nat /\ DOMAIN s = 1..Len(s) /\ \A i \in 1..Len(s) : s[i] \in T
  OBVIOUS
<1>2. s = <<>> => Len(s) = 0
  OBVIOUS
<1>3. s # <<>> => 1 \in DOMAIN s
  BY <1>1, EmptySeq
<1>4. s = <<>> => DOMAIN s = {}
  BY <1>1, <1>2
<1> QED
  BY <1>1, <1>3, <1>4 DEF Elements

LEMMA WithinTakes ==
    ASSUME NEW T, NEW s \in Seq(T), NEW S
    PROVE  /\ Within(s, S) \in Seq(T) /\ Elements(Within(s, S)) = Elements(s) \cap S
           /\ \A D : Ordered(s, D) => Ordered(Within(s, S), D \cup (Elements(s) \ S))
<1> DEFINE t == Within(s, S)
<1>1. t \in Seq(T) /\ Follows(t, Len(s), s, S)
  BY WithinFollows
<1> HIDE DEF t
<1>2. DOMAIN t = 1..Len(t) /\ DOMAIN s = 1..Len(s) /\ Len(s) \in Nat /\ Len(t) \in Nat
  BY <1>1, ElementTypes
<1>3. Elements(t) = Elements(s) \cap S
  <2>1. ASSUME NEW e \in Elements(t) PROVE e \in Elements(s) \cap S
    <3>1. PICK p \in 1..Len(t) : t[p] = e
      BY <1>2 DEF Elements
    <3>2. PICK q \in 1..Len(s) : s[q] = t[p] /\ s[q] \in S
      BY <1>1 DEF Follows
    <3> QED
      BY <1>2, <3>1, <3>2 DEF Elements
  <2>2. ASSUME NEW e \in Elements(s) \cap S PROVE e \in Elements(t)
    <3>1. PICK j \in 1..Len(s) : s[j] = e
      BY <1>2 DEF Elements
    <3>2. PICK p \in 1..Len(t) : t[p] = s[j]
      BY <1>1, <3>1 DEF Follows
    <3> QED
      BY <1>2, <3>1, <3>2 DEF Elements
  <2> QED
    BY <2>1, <2>2
<1>4. ASSUME NEW D, Ordered(s, D)
      PROVE  Ordered(t, D \cup (Elements(s) \ S))
  <2> SUFFICES ASSUME NEW p \in 1..Len(t), NEW e \in Before(t[p])
               PROVE  e \in D \cup (Elements(s) \ S) \/ \E u \in 1..(p - 1) : t[u] = e
    BY <1>2 DEF Ordered
  <2>1. PICK q \in 1..Len(s) :
          /\ s[q] = t[p] /\ s[q] \in S
          /\ \A r \in 1..(q - 1) : s[r] \in S => \E u \in 1..(p - 1) : t[u] = s[r]
    BY <1>1 DEF Follows
  <2>2. e \in D \/ \E r \in 1..(q - 1) : s[r] = e
    BY <1>2, <1>4, <2>1 DEF Ordered
  <2>3. ASSUME NEW r \in 1..(q - 1), s[r] = e
        PROVE  e \in Elements(s) \ S \/ \E u \in 1..(p - 1) : t[u] = e
    <3>1. r \in DOMAIN s
      BY <1>2
    <3>2. e \in Elements(s)
      BY <2>3, <3>1 DEF Elements
    <3> QED
      BY <2>1, <2>3, <3>2
  <2> QED
    BY <2>2, <2>3
<1> QED
  BY <1>1, <1>3, <1>4 DEF t

LEMMA MinusLeaves ==
    ASSUME NEW T, NEW s \in Seq(T), NEW S
    PROVE  /\ Minus(s, S) \in Seq(T) /\ Elements(Minus(s, S)) = Elements(s) \ S
           /\ \A D : Ordered(s, D) => Ordered(Minus(s, S), D \cup S)
<1> DEFINE U == Elements(s) \ S
<1>1. /\ Minus(s, S) \in Seq(T) /\ Elements(Minus(s, S)) = Elements(s) \cap U
      /\ \A D : Ordered(s, D) => Ordered(Minus(s, S), D \cup (Elements(s) \ U))
  BY WithinTakes DEF Minus
<1>2. \A D : D \cup (Elements(s) \ U) \subseteq D \cup S
  OBVIOUS
<1>3. ASSUME NEW D, Ordered(s, D)
      PROVE  Ordered(Minus(s, S), D \cup S)
  BY ZenonT(120), <1>1, <1>2, <1>3, OrderedMore
<1> QED
  BY <1>1, <1>3

LEMMA Joined ==
    ASSUME NEW T, NEW s \in Seq(T), NEW t \in Seq(T)
    PROVE  /\ s \o t \in Seq(T) /\ Elements(s \o t) = Elements(s) \cup Elements(t)
           /\ \A D : Ordered(s, D) /\ Ordered(t, D \cup Elements(s)) => Ordered(s \o t, D)
<1> DEFINE u == s \o t
<1>1. /\ u \in Seq(T) /\ Len(u) = Len(s) + Len(t) /\ Len(s) \in Nat /\ Len(t) \in Nat
      /\ \A i \in 1..(Len(s) + Len(t)) : u[i] = IF i <= Len(s) THEN s[i] ELSE t[i - Len(s)]
  BY ConcatProperties, LenProperties
<1> HIDE DEF u
<1>2. DOMAIN u = 1..(Len(s) + Len(t)) /\ DOMAIN s = 1..Len(s) /\ DOMAIN t = 1..Len(t)
  BY <1>1, ElementTypes
<1>3. /\ \A i \in 1..Len(s) : i \in DOMAIN u /\ u[i] = s[i]
      /\ \A i \in 1..Len(t) : Len(s) + i \in DOMAIN u /\ u[Len(s) + i] = t[i]
      /\ \A i \in DOMAIN u : i \in 1..Len(s) \/ i - Len(s) \in 1..Len(t)
  BY SMTT(60), <1>1, <1>2
<1>4. Elements(u) = Elements(s) \cup Elements(t)
  <2>1. ASSUME NEW e \in Elements(u) PROVE e \in Elements(s) \cup Elements(t)
    <3>1. PICK i \in DOMAIN u : u[i] = e
      BY DEF Elements
    <3>2. i \in 1..Len(s) => u[i] = s[i]
      BY <1>3
    <3>3. i - Len(s) \in 1..Len(t) => u[i] = t[i - Len(s)]
      BY <1>1, <1>2
    <3> QED
      BY <1>2, <1>3, <3>1, <3>2, <3>3 DEF Elements
  <2>2. ASSUME NEW e \in Elements(s) \cup Elements(t) PROVE e \in Elements(u)
    BY <1>2, <1>3 DEF Elements
  <2> QED
    BY <2>1, <2>2
<1>5. ASSUME NEW D, Ordered(s, D), Ordered(t, D \cup Elements(s))
      PROVE  Ordered(u, D)
  <2> SUFFICES ASSUME NEW p \in DOMAIN u, NEW e \in Before(u[p])
               PROVE  e \in D \/ \E q \in 1..(p - 1) : u[q] = e
    BY DEF Ordered
  <2>1. CASE p \in 1..Len(s)
    <3>1. e \in D \/ \E q \in 1..(p - 1) : s[q] = e
      BY <1>2, <1>3, <1>5, <2>1 DEF Ordered
    <3>2. \A q \in 1..(p - 1) : q \in 1..Len(s)
      BY <1>1, <2>1
    <3> QED
      BY <1>3, <3>1, <3>2
  <2>2. CASE p - Len(s) \in 1..Len(t)
    <3> DEFINE r == p - Len(s)
    <3>0. u[p] = t[r] /\ r \in DOMAIN t /\ p \in Nat
      BY <1>1, <1>2, <2>2
    <3>1. e \in D \/ e \in Elements(s) \/ \E q \in 1..(r - 1) : t[q] = e
      BY <1>5, <3>0 DEF Ordered
    <3>2. ASSUME e \in Elements(s) PROVE \E q \in 1..(p - 1) : u[q] = e
      <4>1. PICK q \in 1..Len(s) : s[q] = e
        BY <1>2, <3>2 DEF Elements
      <4>2. q \in 1..(p - 1)
        BY <1>1, <2>2, <3>0
      <4> QED
        BY <1>3, <4>1, <4>2
    <3>3. ASSUME NEW q \in 1..(r - 1), t[q] = e PROVE \E v \in 1..(p - 1) : u[v] = e
      <4>1. q \in 1..Len(t) /\ Len(s) + q \in 1..(p - 1)
        BY <1>1, <2>2, <3>0
      <4> QED
        BY <1>3, <3>3, <4>1
    <3> QED
      BY <3>1, <3>2, <3>3
  <2> QED
    BY <1>3, <2>1, <2>2
<1> QED
  BY <1>1, <1>4, <1>5 DEF u

LEMMA ExtendedBy ==
    ASSUME NEW T, NEW s \in Seq(T), NEW t \in Seq(T)
    PROVE  /\ Extended(s, t) \in Seq(T) /\ Elements(Extended(s, t)) = Elements(s) \cup Elements(t)
           /\ \A D : Ordered(s, D) /\ Ordered(t, D \cup Elements(s)) => Ordered(Extended(s, t), D)
<1> DEFINE m == Minus(t, Elements(s))
<1>1. m \in Seq(T) /\ Elements(m) = Elements(t) \ Elements(s)
  BY MinusLeaves
<1>2. ASSUME NEW D, Ordered(t, D \cup Elements(s))
      PROVE  Ordered(m, D \cup Elements(s))
  <2>1. Ordered(m, (D \cup Elements(s)) \cup Elements(s))
    BY <1>2, MinusLeaves
  <2>2. (D \cup Elements(s)) \cup Elements(s) = D \cup Elements(s)
    OBVIOUS
  <2> QED
    BY <2>1, <2>2
<1> HIDE DEF m
<1>3. /\ s \o m \in Seq(T) /\ Elements(s \o m) = Elements(s) \cup Elements(m)
      /\ \A D : Ordered(s, D) /\ Ordered(m, D \cup Elements(s)) => Ordered(s \o m, D)
  BY <1>1, Joined
<1>4. Extended(s, t) = s \o m
  BY DEF Extended, m
<1> QED
  BY <1>1, <1>2, <1>3, <1>4

\* The two parts of a sequence.
LEMMA Parts ==
    ASSUME NEW T, NEW s \in Seq(T), NEW k \in 0..Len(s)
    PROVE  LET a == SubSeq(s, 1, k)  b == SubSeq(s, k + 1, Len(s))
           IN  /\ a \in Seq(T) /\ b \in Seq(T) /\ Len(a) = k /\ Len(b) = Len(s) - k
               /\ Elements(s) = Elements(a) \cup Elements(b)
               /\ \A D : Ordered(s, D) => Ordered(a, D) /\ Ordered(b, D \cup Elements(a))
<1> DEFINE a == SubSeq(s, 1, k)
<1> DEFINE b == SubSeq(s, k + 1, Len(s))
<1>1. /\ Len(s) \in Nat /\ k \in Nat /\ k <= Len(s) /\ DOMAIN s = 1..Len(s)
      /\ \A i \in 1..Len(s) : s[i] \in T
  OBVIOUS
<1>2. a \in Seq(T) /\ Len(a) = k /\ \A i \in 1..k : a[i] = s[i]
  BY <1>1, SubSeqProperties
<1>3. b \in Seq(T) /\ Len(b) = Len(s) - k /\ \A i \in 1..(Len(s) - k) : b[i] = s[k + i]
  <2>1. \A i \in (k + 1)..Len(s) : s[i] \in T
    BY <1>1
  <2> HIDE DEF b
  <2>2. /\ b \in Seq(T) /\ Len(b) = IF k + 1 <= Len(s) THEN Len(s) - (k + 1) + 1 ELSE 0
        /\ \A i \in 1..(Len(s) - (k + 1) + 1) : b[i] = s[k + 1 + i - 1]
    BY <1>1, <2>1, SubSeqProperties DEF b
  <2>3. Len(s) - (k + 1) + 1 = Len(s) - k /\ (~(k + 1 <= Len(s)) => Len(s) - k = 0)
    <3>1. \A n, m \in Nat : m <= n => n - (m + 1) + 1 = n - m /\ (~(m + 1 <= n) => n - m = 0)
      OBVIOUS
    <3> QED
      BY <1>1, <3>1
  <2>4. \A i \in 1..(Len(s) - k) : k + 1 + i - 1 = k + i
    BY <1>1
  <2>5. Len(b) = Len(s) - k
    BY <2>2, <2>3
  <2>6. \A i \in 1..(Len(s) - k) : b[i] = s[k + 1 + i - 1]
    BY <2>2, <2>3
  <2> QED
    BY <2>2, <2>4, <2>5, <2>6
<1> HIDE DEF a, b
<1>4. DOMAIN a = 1..k /\ DOMAIN b = 1..(Len(s) - k)
  BY <1>2, <1>3, ElementTypes
<1>5. \A i \in 1..Len(s) : i \in 1..k \/ (i - k \in 1..(Len(s) - k) /\ k + (i - k) = i)
  BY <1>1
<1>6. \A i \in 1..(Len(s) - k) : k + i \in 1..Len(s) /\ k + i > k
  BY <1>1
<1>7. Elements(s) = Elements(a) \cup Elements(b)
  <2>1. ASSUME NEW e \in Elements(s) PROVE e \in Elements(a) \cup Elements(b)
    <3>1. PICK i \in 1..Len(s) : s[i] = e
      BY <1>1 DEF Elements
    <3>2. CASE i \in 1..k
      BY <1>2, <1>4, <3>1, <3>2 DEF Elements
    <3>3. CASE i - k \in 1..(Len(s) - k)
      <4>1. b[i - k] = e
        BY <1>3, <1>5, <3>1, <3>3
      <4> QED
        BY <1>4, <3>3, <4>1 DEF Elements
    <3> QED
      BY <1>5, <3>2, <3>3
  <2>2. ASSUME NEW e \in Elements(a) PROVE e \in Elements(s)
    <3>1. 1..k \subseteq 1..Len(s)
      BY <1>1
    <3> QED
      BY <1>1, <1>2, <1>4, <3>1 DEF Elements
  <2>3. ASSUME NEW e \in Elements(b) PROVE e \in Elements(s)
    BY <1>1, <1>3, <1>4, <1>6 DEF Elements
  <2> QED
    BY <2>1, <2>2, <2>3
<1>8. ASSUME NEW D, Ordered(s, D) PROVE Ordered(a, D) /\ Ordered(b, D \cup Elements(a))
  <2>1. Ordered(a, D)
    <3> SUFFICES ASSUME NEW p \in 1..k, NEW e \in Before(a[p])
                 PROVE  e \in D \/ \E q \in 1..(p - 1) : a[q] = e
      BY <1>4 DEF Ordered
    <3>1. p \in 1..Len(s) /\ a[p] = s[p] /\ \A q \in 1..(p - 1) : q \in 1..k
      BY <1>1, <1>2
    <3> QED
      BY <1>1, <1>2, <1>8, <3>1 DEF Ordered
  <2>2. Ordered(b, D \cup Elements(a))
    <3> SUFFICES ASSUME NEW p \in 1..(Len(s) - k), NEW e \in Before(b[p])
                 PROVE  e \in D \cup Elements(a) \/ \E q \in 1..(p - 1) : b[q] = e
      BY <1>4 DEF Ordered
    <3>1. e \in D \/ \E q \in 1..(k + p - 1) : s[q] = e
      BY SMTT(60), <1>1, <1>3, <1>6, <1>8 DEF Ordered
    <3>2. ASSUME NEW q \in 1..(k + p - 1), s[q] = e
          PROVE  e \in Elements(a) \/ \E r \in 1..(p - 1) : b[r] = e
      <4>1. CASE q \in 1..k
        BY <1>2, <1>4, <3>2, <4>1 DEF Elements
      <4>2. CASE q \notin 1..k
        <5>1. q - k \in 1..(p - 1) /\ q - k \in 1..(Len(s) - k) /\ k + (q - k) = q
          BY <1>1, <4>2
        <5>2. b[q - k] = e
          BY <1>3, <3>2, <5>1
        <5> QED
          BY <5>1, <5>2
      <4> QED
        BY <4>1, <4>2
    <3> QED
      BY <3>1, <3>2
  <2> QED
    BY <2>1, <2>2
<1> QED
  BY <1>2, <1>3, <1>7, <1>8 DEF a, b

LEMMA SessionIs ==
    ASSUME NEW c \in Conversations, NEW n \in 0..MaxEntries[c]
    PROVE  /\ Session(c, n) \in Seq(Entries) /\ Elements(Session(c, n)) \subseteq Own(c)
           /\ \A D : Ordered(Session(c, n), D)
<1> DEFINE s == Session(c, n)
<1>1. MaxEntries[c] \in Nat /\ n \in Nat /\ n <= MaxEntries[c]
  BY MirrorAssumption
<1>2. s = [i \in 1..n |-> <<c, i>>]
  BY DEF Session
<1>3. \A i \in 1..n : <<c, i>> \in Own(c)
  BY <1>1 DEF Own
<1>4. Own(c) \subseteq Entries
  BY DEF Own, Entries
<1>5. s \in Seq(Entries)
  BY <1>1, <1>2, <1>3, <1>4
<1>6. DOMAIN s = 1..n /\ \A i \in 1..n : s[i] = <<c, i>>
  BY <1>2
<1> HIDE DEF s
<1>7. Elements(s) \subseteq Own(c)
  BY <1>3, <1>6 DEF Elements
<1>8. ASSUME NEW D PROVE Ordered(s, D)
  <2> SUFFICES ASSUME NEW p \in 1..n, NEW e \in Before(s[p])
               PROVE  \E q \in 1..(p - 1) : s[q] = e
    BY <1>6 DEF Ordered
  <2>1. PICK q \in 1..(p - 1) : e = <<c, q>>
    BY <1>6 DEF Before
  <2>2. q \in 1..n
    BY <1>1
  <2> QED
    BY <1>6, <2>1, <2>2
<1> QED
  BY <1>5, <1>7, <1>8 DEF s

\* What goes to the cloud next, and what is left.
LEMMA ChunkIs ==
    ASSUME flight.left \in Seq(Entries)
    PROVE  /\ Chunk \in Seq(Entries) /\ Rest \in Seq(Entries)
           /\ Elements(flight.left) = Elements(Chunk) \cup Elements(Rest)
           /\ \A D : Ordered(flight.left, D) =>
                       Ordered(Chunk, D) /\ Ordered(Rest, D \cup Elements(Chunk))
<1> DEFINE s == flight.left
<1> DEFINE k == IF Len(s) < BatchSize THEN Len(s) ELSE BatchSize
<1>1. Len(s) \in Nat /\ BatchSize \in Nat
  BY MirrorAssumption
<1>2. k \in 0..Len(s)
  BY <1>1
<1>3. Chunk = SubSeq(s, 1, k)
  BY DEF Chunk
<1> HIDE DEF k, s
<1>4. s \in Seq(Entries)
  BY DEF s
<1>5. Len(Chunk) = k
  BY <1>2, <1>3, <1>4, Parts
<1>6. Rest = SubSeq(s, k + 1, Len(s))
  BY <1>5 DEF Rest, s
<1> QED
  BY <1>2, <1>3, <1>4, <1>6, Parts DEF s

\* The same entries are left to send.
LEMMA ChunkSame ==
    ASSUME flight'.left = flight.left
    PROVE  Chunk' = Chunk
<1> DEFINE FirstOf(l) == SubSeq(l, 1, IF Len(l) < BatchSize THEN Len(l) ELSE BatchSize)
<1>1. Chunk = FirstOf(flight.left)
  BY DEF Chunk
<1>2. Chunk' = FirstOf(flight'.left)
  BY DEF Chunk
<1> HIDE DEF FirstOf
<1> QED
  BY <1>1, <1>2

-----------------------------------------------------------------------------
(* What the steps do to the operations on the file, and to the delivery.    *)

\* An operation that waits minds the link alone.
LEMMA Waiting ==
    ASSUME conv' = conv
    PROVE  /\ \A req : Fresh(req) => Fresh(req)'
           /\ \A op : op.at = "waits" /\ OpSound(op) => OpSound(op)'
BY DEF Fresh, OpSound

LEMMA OpsSame ==
    ASSUME Operations, ops \in Seq(Op), ops' = ops, \A op \in Op : OpSound(op) => OpSound(op)'
    PROVE  Operations'
BY DEF Operations

LEMMA OpsTail ==
    ASSUME Operations, ops \in Seq(Op), ops # <<>>, ops' = Tail(ops), conv' = conv
    PROVE  Operations' /\ ops' \in Seq(Op)
<1>1. /\ ops' \in Seq(Op) /\ DOMAIN ops' = 1..(Len(ops) - 1) /\ Len(ops) \in Nat
      /\ DOMAIN ops = 1..Len(ops)
      /\ \A i \in 1..(Len(ops) - 1) : ops'[i] = ops[i + 1]
  BY HeadTailProperties, ElementTypes
<1>2. \A i \in DOMAIN ops' : i + 1 \in DOMAIN ops /\ i + 1 # 1 /\ ops'[i] = ops[i + 1]
  BY <1>1
<1>3. \A i \in DOMAIN ops' : OpSound(ops'[i]) /\ ops'[i].at = "waits"
  BY <1>2 DEF Operations
<1> QED
  BY <1>1, <1>2, <1>3, Waiting DEF Operations

LEMMA OpsMore ==
    ASSUME Operations, ops \in Seq(Op), NEW new \in Op, new.at = "waits", OpSound(new)',
           ops' = Append(ops, new), \A op \in Op : OpSound(op) => OpSound(op)'
    PROVE  Operations' /\ ops' \in Seq(Op)
<1>1. /\ ops' \in Seq(Op) /\ DOMAIN ops' = 1..(Len(ops) + 1) /\ Len(ops) \in Nat
      /\ DOMAIN ops = 1..Len(ops)
      /\ \A i \in 1..Len(ops) : ops'[i] = ops[i] /\ ops[i] \in Op
      /\ ops'[Len(ops) + 1] = new
  BY AppendProperties, ElementTypes
<1>2. \A i \in DOMAIN ops' : ops'[i] = new \/ (i \in DOMAIN ops /\ ops'[i] = ops[i])
  BY <1>1
<1> QED
  BY <1>1, <1>2 DEF Operations

LEMMA OpsHead ==
    ASSUME Operations, ops \in Seq(Op), ops # <<>>, NEW new \in Op, OpSound(new)',
           ops' = [ops EXCEPT ![1] = new], conv' = conv
    PROVE  Operations' /\ ops' \in Seq(Op)
<1>1. Len(ops) \in Nat \ {0} /\ DOMAIN ops = 1..Len(ops) /\ 1 \in DOMAIN ops
  BY ElementTypes, EmptySeq
<1>2. /\ ops' \in Seq(Op) /\ DOMAIN ops' = DOMAIN ops /\ ops'[1] = new
      /\ \A i \in DOMAIN ops : i # 1 => ops'[i] = ops[i]
  BY <1>1, ExceptSeq
<1>3. \A i \in DOMAIN ops : i # 1 => ops[i].at = "waits" /\ OpSound(ops[i])
  BY DEF Operations
<1> QED
  BY <1>2, <1>3, Waiting DEF Operations

\* A new generation: nothing that waits is for the link any longer.
Outdated(op) == [op EXCEPT !.req.stale = TRUE]
LEMMA OpsOutdated ==
    ASSUME Operations, ops \in Seq(Op), Outdates, UNCHANGED <<server, denied, outbox>>,
           pending' \in {pending, <<>>}
    PROVE  Operations' /\ ops' \in Seq(Op)
<1>1. ops' = [i \in DOMAIN ops |-> Outdated(ops[i])]
  BY DEF Outdates, Outdated
<1>2. Len(ops) \in Nat /\ DOMAIN ops = 1..Len(ops) /\ \A i \in 1..Len(ops) : ops[i] \in Op
  BY ElementTypes
<1>3. ASSUME NEW op \in Op
      PROVE  /\ Outdated(op) \in Op /\ Outdated(op).req.stale
             /\ Outdated(op).req.conv = op.req.conv /\ Outdated(op).kind = op.kind
             /\ Outdated(op).at = op.at /\ Outdated(op).n = op.n
             /\ Outdated(op).missing = op.missing
  BY DEF Op, Request, Outdated
<1>4. ops' \in Seq(Op)
  BY <1>1, <1>2, <1>3
<1>5. ASSUME NEW op \in Op, OpSound(op)
      PROVE  OpSound(Outdated(op))'
  BY <1>3, <1>5 DEF OpSound, Fresh, Current, Done
<1> QED
  BY <1>1, <1>2, <1>3, <1>4, <1>5 DEF Operations

\* The cloud may have more, and what is pending may be less by what the cloud has.
Grows ==
    /\ conv' = conv /\ kept' = kept /\ loaded' = loaded /\ outbox' = outbox
    /\ \A c \in Conversations : server[c] \subseteq server'[c]
    /\ denied \subseteq denied'
    /\ pending' \in Seq(Entries) /\ Elements(pending') \subseteq Elements(pending)
    /\ conv # None => /\ Elements(pending) \subseteq Elements(pending')
                                                        \cup server'[conv] \cup denied'
                      /\ Ordered(pending', server'[conv] \cup denied')

LEMMA GrowsStep ==
    ASSUME TypeOK, Memory, Files, Grows,
           conv # None => acked' \subseteq server'[conv] /\ refused' \subseteq denied',
           \A c \in Conversations : rejects'[c] \subseteq denied'
    PROVE  /\ Memory' /\ Files'
           /\ \A req : Fresh(req) => Fresh(req)'
           /\ \A op \in Op : OpSound(op) => OpSound(op)'
<1> USE DEF Grows
<1>1. conv # None => conv \in Conversations
  BY DEF TypeOK
<1>2. Memory'
  <2>1. ASSUME conv # None
        PROVE  /\ Elements(pending') \subseteq kept /\ kept \subseteq Elements(outbox[conv])
               /\ kept \subseteq Elements(pending') \cup server'[conv] \cup denied'
    BY <1>1, <2>1 DEF Memory, Done
  <2> QED
    BY <1>1, <2>1 DEF Memory, Done
<1>3. Files'
  <2> SUFFICES ASSUME NEW c \in Conversations
               PROVE  Ordered(outbox[c], server'[c] \cup denied')
    BY DEF Files, Done
  <2>1. Ordered(outbox[c], Done(c)) /\ Done(c) \subseteq server'[c] \cup denied'
    BY DEF Files, Done
  <2> QED
    BY <2>1, OrderedMore
<1>4. ASSUME NEW op \in Op, OpSound(op)
      PROVE  OpSound(op)'
  <2> DEFINE c == op.req.conv
  <2>1. pending = <<>> => pending' = <<>>
    <3>1. pending \in Seq(Entries) /\ pending' \in Seq(Entries)
      BY DEF TypeOK
    <3>2. pending = <<>> <=> Elements(pending) = {}
      BY <3>1, ElementTypes
    <3>3. pending' = <<>> <=> Elements(pending') = {}
      BY <3>1, ElementTypes
    <3> QED
      BY <3>2, <3>3
  <2>2. ASSUME op.at = "appends"
        PROVE  /\ Ordered(op.missing, server'[c] \cup denied' \cup Elements(outbox[c]))
               /\ Current(op.req) =>
                    Ordered(op.missing, server'[c] \cup denied' \cup Elements(pending'))
    <3>1. c \in Conversations
      BY <1>4, <2>2 DEF OpSound
    <3>2. Done(c) \subseteq server'[c] \cup denied'
      BY <3>1 DEF Done
    <3>3. Ordered(op.missing, server'[c] \cup denied' \cup Elements(outbox[c]))
      <4>1. Ordered(op.missing, Done(c) \cup Elements(outbox[c]))
        BY <1>4, <2>2 DEF OpSound
      <4> QED
        BY <3>2, <4>1, OrderedMore
    <3>4. ASSUME Current(op.req)
          PROVE  Ordered(op.missing, server'[c] \cup denied' \cup Elements(pending'))
      <4>1. Ordered(op.missing, Done(c) \cup Elements(pending))
        BY <1>4, <2>2, <3>4 DEF OpSound
      <4>2. c = conv /\ conv # None
        BY <1>4, <3>4 DEF OpSound, Fresh, Current
      <4>3. Done(c) \cup Elements(pending) \subseteq server'[c] \cup denied' \cup Elements(pending')
        BY <3>2, <4>2
      <4> QED
        BY <4>1, <4>3, OrderedMore
    <3> QED
      BY <3>3, <3>4
  <2> QED
    BY <1>4, <2>1, <2>2 DEF OpSound, Fresh, Done, Current
<1>5. \A req : Fresh(req) => Fresh(req)'
  BY DEF Fresh
<1> QED
  BY <1>2, <1>3, <1>4, <1>5

\* Nothing of that changes.
LEMMA StillStep ==
    ASSUME Inv, UNCHANGED <<conv, memory, disk, cloud>>
    PROVE  /\ Memory' /\ Files' /\ OwnEntriesOnly' /\ ParentsFirst'
           /\ \A req : Fresh(req) => Fresh(req)'
           /\ \A op \in Op : OpSound(op) => OpSound(op)'
<1>1. UNCHANGED <<conv, acked, refused, pending, kept, loaded, outbox, rejects, server, denied>>
  BY DEF memory, disk, cloud
<1>2. OwnEntriesOnly' /\ ParentsFirst'
  BY <1>1 DEF Inv, OwnEntriesOnly, ParentsFirst
<1>3. Memory' /\ Files'
  BY <1>1 DEF Inv, Memory, Files, Done
<1>4. \A req : Fresh(req) => Fresh(req)'
  BY <1>1 DEF Fresh
<1>5. ASSUME NEW op \in Op, OpSound(op) PROVE OpSound(op)'
  BY <1>1, <1>5 DEF OpSound, Fresh, Done, Current
<1> QED
  BY <1>2, <1>3, <1>4, <1>5

\* The delivery goes on, or it sends nothing.
LEMMA FlightSame ==
    ASSUME TypeOK, Sending, conv' = conv, flight' = flight, again' \in {again, NoRequest},
           \A c \in Conversations : server[c] \subseteq server'[c], denied \subseteq denied'
    PROVE  Sending' /\ flight' \in Flight /\ again' \in Request
<1>1. again' \in Request /\ (~again'.stale => again' = again)
  <2>1. NoRequest \in Request /\ NoRequest.stale
    BY DEF NoRequest, Request
  <2>2. again \in Request
    BY DEF TypeOK
  <2> QED
    BY <2>1, <2>2
<1>2. ASSUME flight.at \in {"sending", "taken", "writing"}
      PROVE  LET c == flight.req.conv
             IN  /\ c \in Conversations /\ flight.left # <<>>
                 /\ Elements(flight.left) \subseteq Own(c)
                 /\ Ordered(flight.left, server'[c] \cup denied')
                 /\ flight.refused \subseteq denied'
                 /\ flight.at = "taken" => Elements(Chunk) \subseteq server'[c]
                 /\ flight.at = "writing" => Elements(Chunk) \subseteq denied'
  <2> DEFINE c == flight.req.conv
  <2>1. /\ c \in Conversations /\ Ordered(flight.left, Done(c))
        /\ flight.left # <<>> /\ Elements(flight.left) \subseteq Own(c)
        /\ flight.refused \subseteq denied
        /\ flight.at = "taken" => Elements(Chunk) \subseteq server[c]
        /\ flight.at = "writing" => Elements(Chunk) \subseteq denied
    BY <1>2 DEF Sending
  <2>2. Done(c) \subseteq server'[c] \cup denied'
    BY <2>1 DEF Done
  <2>3. Ordered(flight.left, server'[c] \cup denied')
    BY <2>1, <2>2, OrderedMore
  <2> QED
    BY <2>1, <2>3
<1>3. Chunk' = Chunk
  BY DEF Chunk
<1> QED
  BY <1>1, <1>2, <1>3 DEF Sending, Fresh, Done, TypeOK

LEMMA FlightIdle ==
    ASSUME conv' = conv, flight'.at \notin {"sending", "taken", "writing"},
           ~flight'.req.stale => flight'.req.conv = conv /\ conv # None,
           ~again'.stale => again'.conv = conv /\ conv # None
    PROVE  Sending'
BY DEF Sending, Fresh

LEMMA BegunIs ==
    /\ NoRequest \in Request /\ NoRequest.stale
    /\ Idle \in Flight /\ Idle.at = "idle" /\ Idle.req.stale
    /\ \A req \in Request : /\ Begun(req) \in Flight /\ Begun(req).at = "begun"
                            /\ Begun(req).req = req
<1>1. NoRequest \in Request /\ NoRequest.stale
  BY DEF NoRequest, Request
<1>2. Idle = [at |-> "idle", req |-> NoRequest, left |-> <<>>, refused |-> {}]
  BY DEF Idle
<1>3. <<>> \in Seq(Entries)
  OBVIOUS
<1>4. Idle \in Flight
  BY <1>1, <1>2, <1>3 DEF Flight
<1>5. ASSUME NEW req \in Request
      PROVE  /\ Begun(req) \in Flight /\ Begun(req).at = "begun" /\ Begun(req).req = req
  BY <1>2, <1>3, <1>4 DEF Begun, Flight
<1> QED
  BY <1>1, <1>2, <1>4, <1>5

LEMMA RequestsStep ==
    ASSUME TypeOK, Sending, conv' = conv, UNCHANGED <<server, denied>>,
           NEW req \in Request, Fresh(req), Requests(req)
    PROVE  Sending' /\ flight' \in Flight /\ again' \in Request
<1>1. CASE flight.at = "idle"
  <2>1. flight' = Begun(req) /\ again' = again
    BY <1>1 DEF Requests
  <2> QED
    BY <2>1, BegunIs, FlightIdle DEF TypeOK, Sending, Fresh
<1>2. CASE flight.at # "idle"
  <2>1. again' = req /\ flight' = flight
    BY <1>2 DEF Requests
  <2>2. Chunk' = Chunk
    BY <2>1 DEF Chunk
  <2> QED
    BY <2>1, <2>2 DEF TypeOK, Sending, Fresh, Done
<1> QED
  BY <1>1, <1>2

LEMMA ReturnsStep ==
    ASSUME TypeOK, Sending, conv' = conv, Returns \/ Throws
    PROVE  Sending' /\ flight' \in Flight /\ again' \in Request
<1>1. again' = NoRequest /\ (flight' = Idle \/ flight' = Begun(again)) /\ again \in Request
  BY DEF Returns, Throws, TypeOK
<1> QED
  BY <1>1, BegunIs, FlightIdle DEF Sending, Fresh

-----------------------------------------------------------------------------
(* Each action keeps the invariant.                                         *)

\* The link stands, and the cloud has no less.
LEMMA LinkSame ==
    ASSUME TypeOK, Answers, UNCHANGED link,
           \A c \in Conversations : server[c] \subseteq server'[c], denied \subseteq denied'
    PROVE  Answers' /\ call' \in Call /\ linked' \in BOOLEAN /\ conv' = conv
           /\ conv' \in Conversations \cup {None} /\ (conv' = None => ~linked' /\ call'.at = "none")
<1>1. conv' = conv /\ call' = call /\ linked' = linked
  BY DEF link
<1>2. call.at # "none" => conv \in Conversations
  BY DEF TypeOK
<1>3. Answers'
  BY <1>1, <1>2 DEF Answers
<1> QED
  BY <1>1, <1>3 DEF TypeOK

\* A step that leaves memory, files and cloud alone.
LEMMA Stands ==
    ASSUME Inv, UNCHANGED <<conv, memory, disk, cloud>>,
           Operations', ops' \in Seq(Op), Sending', flight' \in Flight, again' \in Request,
           Answers', call' \in Call, linked' \in BOOLEAN, backoff' \in {"due", "ahead"},
           conv = None => ~linked' /\ call'.at = "none",
           log' \in [Conversations -> Nat], \A c \in Conversations : log'[c] <= MaxEntries[c]
    PROVE  Inv'
<1>1. Memory' /\ Files' /\ OwnEntriesOnly' /\ ParentsFirst'
  BY StillStep
<1>2. TypeOK'
  BY DEF Inv, TypeOK, memory, disk, cloud
<1> QED
  BY <1>1, <1>2 DEF Inv

\* The operations as they were, in a step that leaves memory, files and cloud alone.
LEMMA OpsStand ==
    ASSUME Inv, UNCHANGED <<conv, memory, disk, cloud, ops>>
    PROVE  Operations' /\ ops' \in Seq(Op)
<1>1. ops \in Seq(Op) /\ Operations
  BY DEF Inv, TypeOK
<1> QED
  BY <1>1, OpsSame, StillStep

LEMMA FlightStands ==
    ASSUME Inv, UNCHANGED <<conv, cloud, flight, again>>
    PROVE  Sending' /\ flight' \in Flight /\ again' \in Request
BY FlightSame DEF Inv, cloud

LEMMA LinkStands ==
    ASSUME Inv, UNCHANGED <<link, cloud>>
    PROVE  Answers' /\ call' \in Call /\ linked' \in BOOLEAN /\ conv' = conv
           /\ conv' \in Conversations \cup {None} /\ (conv' = None => ~linked' /\ call'.at = "none")
BY LinkSame DEF Inv, cloud

LEMMA EntryKeeps ==
    ASSUME Inv, NEW c \in Conversations, Entry(c)
    PROVE  Inv'
<1>1. UNCHANGED <<link, backoff, memory, ops, flight, again, disk, cloud, conv>>
  BY DEF Entry, link
<1>2. /\ log' \in [Conversations -> Nat] /\ \A d \in Conversations : log'[d] <= MaxEntries[d]
  <2>1. log \in [Conversations -> Nat] /\ \A d \in Conversations : log[d] <= MaxEntries[d]
    BY DEF Inv, TypeOK
  <2>2. log[c] < MaxEntries[c] /\ log' = [log EXCEPT ![c] = log[c] + 1]
    BY DEF Entry
  <2>3. \A d \in Conversations : MaxEntries[d] \in Nat /\ log[d] \in Nat
    BY <2>1, MirrorAssumption
  <2>4. \A d \in Conversations : log'[d] = IF d = c THEN log[c] + 1 ELSE log[d]
    BY <2>1, <2>2
  <2>5. log' \in [Conversations -> Nat]
    BY <2>1, <2>2
  <2>6. log[c] + 1 <= MaxEntries[c]
    BY <2>2, <2>3
  <2> QED
    BY <2>1, <2>4, <2>5, <2>6
<1>3. backoff' \in {"due", "ahead"}
  BY <1>1 DEF Inv, TypeOK
<1> QED
  BY <1>1, <1>2, <1>3, Stands, OpsStand, FlightStands, LinkStands

\* A step that adds no entry either.
LEMMA LogStands ==
    ASSUME Inv, UNCHANGED log
    PROVE  log' \in [Conversations -> Nat] /\ \A c \in Conversations : log'[c] <= MaxEntries[c]
BY DEF Inv, TypeOK

LEMMA BackoffPassesKeeps ==
    ASSUME Inv, BackoffPasses
    PROVE  Inv'
<1>1. UNCHANGED <<link, memory, ops, flight, again, disk, cloud, conv, log>> /\ backoff' = "due"
  BY DEF BackoffPasses, link
<1> QED
  BY <1>1, Stands, OpsStand, FlightStands, LinkStands, LogStands

LEMMA FlushKeeps ==
    ASSUME Inv, Flush
    PROVE  Inv'
<1>1. /\ UNCHANGED <<link, backoff, memory, flight, again, disk, log, cloud, conv>>
      /\ conv # None
  BY DEF Flush, link
<1>2. conv \in Conversations /\ log[conv] \in 0..MaxEntries[conv] /\ log[conv] \in Nat
  BY <1>1, MirrorAssumption DEF Inv, TypeOK
<1>3. <<>> \in Seq(Entries)
  OBVIOUS
<1>4. PICK op \in Op : /\ ops' = Append(ops, op) /\ op.at = "waits" /\ op.kind = "stage"
                       /\ op.req.conv = conv /\ op.n = log[conv]
  <2> DEFINE new == [kind |-> "stage", at |-> "waits", req |-> Now, n |-> log[conv],
                     missing |-> <<>>]
  <2>1. new \in Op /\ new.req.conv = conv
    BY <1>2, <1>3 DEF Op, Now, Request
  <2> QED
    BY <2>1 DEF Flush
<1>6. OpSound(op)'
  BY <1>1, <1>2, <1>4 DEF OpSound, Fresh
<1>7. Operations' /\ ops' \in Seq(Op)
  <2>1. ops \in Seq(Op) /\ Operations
    BY DEF Inv, TypeOK
  <2>2. \A o \in Op : OpSound(o) => OpSound(o)'
    BY <1>1, StillStep
  <2> QED
    BY <1>1, <1>4, <1>6, <2>1, <2>2, OpsMore
<1>8. backoff' \in {"due", "ahead"}
  BY <1>1 DEF Inv, TypeOK
<1> QED
  BY <1>1, <1>7, <1>8, Stands, FlightStands, LinkStands, LogStands

LEMMA ListAnsweredKeeps ==
    ASSUME Inv, ListAnswered
    PROVE  Inv'
<1>1. /\ UNCHANGED <<conv, linked, backoff, memory, ops, flight, again, disk, log, cloud>>
      /\ call.at = "asked" /\ call' = [call EXCEPT !.at = "listed", !.ids = server[conv]]
      /\ server' = server
  BY DEF ListAnswered, cloud
<1>2. conv \in Conversations /\ call \in Call /\ server[conv] \subseteq Entries
  BY <1>1 DEF Inv, TypeOK
<1>3. call' \in Call /\ call'.at = "listed" /\ call'.ids = server[conv]
  BY <1>1, <1>2 DEF Call
<1>4. Answers'
  BY <1>1, <1>3 DEF Answers
<1>5. backoff' \in {"due", "ahead"} /\ linked' \in BOOLEAN /\ conv # None
  BY <1>1, <1>2, MirrorAssumption DEF Inv, TypeOK
<1> QED
  BY <1>1, <1>3, <1>4, <1>5, Stands, OpsStand, FlightStands, LogStands

LEMMA RejectedReadKeeps ==
    ASSUME Inv, RejectedRead
    PROVE  Inv'
<1>1. /\ UNCHANGED <<conv, linked, backoff, memory, ops, flight, again, disk, log, cloud>>
      /\ call.at = "listed" /\ call' = [call EXCEPT !.at = "read", !.refused = rejects[conv]]
      /\ server' = server /\ denied' = denied
  BY DEF RejectedRead, cloud
<1>2. conv \in Conversations /\ call \in Call /\ rejects[conv] \subseteq Entries
  BY <1>1 DEF Inv, TypeOK
<1>3. /\ call' \in Call /\ call'.at = "read" /\ call'.ids = call.ids
      /\ call'.refused = rejects[conv]
  BY <1>1, <1>2 DEF Call
<1>4. rejects[conv] \subseteq denied /\ call.ids \subseteq server[conv]
  BY <1>1, <1>2 DEF Inv, Files, Answers
<1>5. Answers'
  BY <1>1, <1>3, <1>4 DEF Answers
<1>6. backoff' \in {"due", "ahead"} /\ linked' \in BOOLEAN /\ conv # None
  BY <1>1, <1>2, MirrorAssumption DEF Inv, TypeOK
<1> QED
  BY <1>1, <1>3, <1>5, <1>6, Stands, OpsStand, FlightStands, LogStands

LEMMA DeliverLinkStaleKeeps ==
    ASSUME Inv, DeliverLinkStale
    PROVE  Inv'
<1>1. UNCHANGED <<link, backoff, memory, ops, disk, log, cloud, conv>> /\ Returns
  BY DEF DeliverLinkStale, link
<1>2. Sending' /\ flight' \in Flight /\ again' \in Request
  BY <1>1, ReturnsStep DEF Inv
<1>3. backoff' \in {"due", "ahead"}
  BY <1>1 DEF Inv, TypeOK
<1> QED
  BY <1>1, <1>2, <1>3, Stands, OpsStand, LinkStands, LogStands

LEMMA SendFailsKeeps ==
    ASSUME Inv, SendFails
    PROVE  Inv'
<1>1. UNCHANGED <<link, memory, ops, disk, log, cloud, conv>> /\ Throws
  BY DEF SendFails, link
<1>2. Sending' /\ flight' \in Flight /\ again' \in Request
  BY <1>1, ReturnsStep DEF Inv
<1>3. backoff' \in {"due", "ahead"}
  BY DEF Inv, TypeOK, SendFails
<1> QED
  BY <1>1, <1>2, <1>3, Stands, OpsStand, LinkStands, LogStands

LEMMA ListFailsKeeps ==
    ASSUME Inv, ListFails
    PROVE  Inv'
<1>1. /\ UNCHANGED <<conv, linked, memory, ops, disk, log, cloud>>
      /\ call' = NoCall /\ call.at = "asked" /\ backoff' = "ahead"
      /\ Throws \/ UNCHANGED <<flight, again>>
  BY DEF ListFails
<1>2. Sending' /\ flight' \in Flight /\ again' \in Request
  <2>1. CASE Throws
    BY <1>1, <2>1, ReturnsStep DEF Inv
  <2>2. CASE UNCHANGED <<flight, again>>
    BY <1>1, <2>2, FlightStands
  <2> QED
    BY <1>1, <2>1, <2>2
<1>3. call' \in Call /\ call'.at = "none" /\ Answers'
  BY <1>1 DEF NoCall, Call, Answers
<1>4. linked' \in BOOLEAN /\ conv # None
  BY <1>1 DEF Inv, TypeOK
<1> QED
  BY <1>1, <1>2, <1>3, <1>4, Stands, OpsStand, LogStands

\* The delivery waits for the removal of the file.
LEMMA ClearsStep ==
    ASSUME TypeOK, Operations, Sending, conv' = conv, NEW req \in Request, Fresh(req), Clears(req),
           \A op \in Op : OpSound(op) => OpSound(op)'
    PROVE  /\ Operations' /\ ops' \in Seq(Op)
           /\ Sending' /\ flight' \in Flight /\ again' \in Request
<1>1. <<>> \in Seq(Entries)
  OBVIOUS
<1>2. PICK new \in Op : /\ ops' = Append(ops, new) /\ new.at = "waits" /\ new.kind = "clear"
                        /\ new.req = req
  <2> DEFINE op == [kind |-> "clear", at |-> "waits", req |-> req, n |-> 0, missing |-> <<>>]
  <2>1. op \in Op
    BY <1>1 DEF Op
  <2> QED
    BY <2>1 DEF Clears
<1>3. OpSound(new)'
  BY <1>2 DEF OpSound, Fresh
<1>4. Operations' /\ ops' \in Seq(Op)
  BY <1>2, <1>3, OpsMore DEF TypeOK
<1>5. flight' = [Idle EXCEPT !.at = "clearing", !.req = req] /\ again' = again
  BY DEF Clears
<1>6. flight' \in Flight /\ flight'.at = "clearing" /\ flight'.req = req
  BY <1>1, <1>5 DEF Flight, Idle
<1> QED
  BY <1>4, <1>5, <1>6, FlightIdle DEF TypeOK, Sending, Fresh

LEMMA DeliverKeeps ==
    ASSUME Inv, Deliver
    PROVE  Inv'
<1> DEFINE out == Within(pending, kept)
<1>1. /\ UNCHANGED <<link, backoff, memory, disk, log, cloud, conv>>
      /\ flight.at = "begun" /\ flight.req \in Request /\ Fresh(flight.req)
      /\ server' = server /\ denied' = denied
  BY DEF Deliver, link, Inv, TypeOK, Sending, Flight, cloud
<1>2. \/ Returns /\ UNCHANGED ops
      \/ Clears(flight.req)
      \/ /\ Current(flight.req) /\ out # <<>>
         /\ flight' = [flight EXCEPT !.at = "sending", !.left = out, !.refused = refused]
         /\ UNCHANGED <<again, ops>>
  BY DEF Deliver
<1>3. /\ Operations' /\ ops' \in Seq(Op)
      /\ Sending' /\ flight' \in Flight /\ again' \in Request
  <2>1. CASE Returns /\ UNCHANGED ops
    BY <1>1, <2>1, OpsStand, ReturnsStep DEF Inv
  <2>2. CASE Clears(flight.req)
    BY <1>1, <2>2, ClearsStep, StillStep DEF Inv
  <2>3. CASE /\ Current(flight.req) /\ out # <<>>
             /\ flight' = [flight EXCEPT !.at = "sending", !.left = out, !.refused = refused]
             /\ UNCHANGED <<again, ops>>
    <3> HIDE DEF out
    <3>1. /\ conv = flight.req.conv /\ conv # None /\ conv \in Conversations
          /\ pending \in Seq(Entries) /\ refused \subseteq Entries
      BY <1>1, <2>3 DEF Fresh, Current, Inv, TypeOK
    <3>2. /\ Elements(pending) \subseteq kept /\ kept \subseteq Elements(outbox[conv])
          /\ Ordered(pending, Done(conv)) /\ refused \subseteq denied
          /\ Elements(outbox[conv]) \subseteq Own(conv)
      BY <3>1 DEF Inv, Memory, Files
    <3>3. out \in Seq(Entries) /\ Elements(out) = Elements(pending)
          /\ Ordered(out, Done(conv) \cup (Elements(pending) \ kept))
      <4>1. /\ out \in Seq(Entries) /\ Elements(out) = Elements(pending) \cap kept
            /\ \A D : Ordered(pending, D) => Ordered(out, D \cup (Elements(pending) \ kept))
        BY <3>1, WithinTakes DEF out
      <4> QED
        BY <3>2, <4>1
    <3>4. Done(conv) \cup (Elements(pending) \ kept) = Done(conv)
      BY <3>2
    <3>5. Ordered(out, Done(conv))
      BY <3>3, <3>4
    <3>6. /\ flight' \in Flight /\ flight'.at = "sending" /\ flight'.left = out
          /\ flight'.req = flight.req /\ flight'.refused = refused
      BY <2>3, <3>1, <3>3 DEF Flight, Inv, TypeOK
    <3>7. Sending'
      BY <1>1, <2>3, <3>1, <3>2, <3>3, <3>5, <3>6 DEF Sending, Fresh, Done, Inv
    <3> QED
      BY <1>1, <2>3, <3>6, <3>7, OpsStand DEF Inv, TypeOK
  <2> QED
    BY <1>2, <2>1, <2>2, <2>3
<1>4. backoff' \in {"due", "ahead"}
  BY <1>1 DEF Inv, TypeOK
<1> QED
  BY <1>1, <1>3, <1>4, Stands, LinkStands, LogStands

-----------------------------------------------------------------------------
\* The first operation.
LEMMA First ==
    ASSUME Inv, ops # <<>>
    PROVE  /\ Head(ops) = ops[1] /\ ops \in Seq(Op) /\ Head(ops) \in Op /\ OpSound(Head(ops))
           /\ Head(ops).req \in Request /\ Fresh(Head(ops).req) /\ Operations
<1>1. ops \in Seq(Op) /\ Operations
  BY DEF Inv, TypeOK
<1>2. Len(ops) \in Nat \ {0} /\ DOMAIN ops = 1..Len(ops) /\ 1 \in DOMAIN ops
  BY <1>1, ElementTypes, EmptySeq
<1>3. ops[1] \in Op /\ OpSound(ops[1]) /\ Head(ops) = ops[1]
  BY <1>1, <1>2, HeadTailProperties DEF Operations
<1> QED
  BY <1>1, <1>3 DEF Op, OpSound

\* The flush of a session has nothing new, or whatever is missing before it is done or
\* kept.
LEMMA MissingIs ==
    ASSUME Inv, NEW op \in Op, OpSound(op), op.kind = "stage", NEW settled, NEW k
    PROVE  LET m == Missing(op, settled, k)
           IN  /\ m \in Seq(Entries) /\ Elements(m) \subseteq Own(op.req.conv)
               /\ Ordered(m, settled \cup k)
<1> DEFINE c == op.req.conv
<1> DEFINE s == Session(c, op.n)
<1>1. c \in Conversations /\ op.n \in 0..MaxEntries[c]
  BY DEF OpSound
<1>2. s \in Seq(Entries) /\ Elements(s) \subseteq Own(c) /\ Ordered(s, {})
  BY <1>1, SessionIs
<1> HIDE DEF s
<1>3. /\ Minus(s, settled \cup k) \in Seq(Entries)
      /\ Elements(Minus(s, settled \cup k)) = Elements(s) \ (settled \cup k)
      /\ Ordered(Minus(s, settled \cup k), {} \cup (settled \cup k))
  BY <1>2, MinusLeaves
<1>4. {} \cup (settled \cup k) = settled \cup k
  OBVIOUS
<1>5. Missing(op, settled, k) = Minus(s, settled \cup k)
  BY DEF Missing, s
<1> QED
  BY <1>2, <1>3, <1>4, <1>5

\* It goes on with what is missing.
LEMMA GoesOnIs ==
    ASSUME ops \in Seq(Op), ops # <<>>, Head(ops) = ops[1], ops[1] \in Op,
           NEW m \in Seq(Entries), GoesOnWith(m)
    PROVE  \E new \in Op : /\ ops' = [ops EXCEPT ![1] = new] /\ new.at = "appends"
                           /\ new.missing = m /\ new.kind = Head(ops).kind
                           /\ new.req = Head(ops).req /\ new.n = Head(ops).n
<1> DEFINE new == [ops[1] EXCEPT !.at = "appends", !.missing = m]
<1>1. new \in Op /\ new.at = "appends" /\ new.missing = m /\ new.kind = Head(ops).kind
      /\ new.req = Head(ops).req /\ new.n = Head(ops).n
  BY DEF Op
<1>2. ops' = [ops EXCEPT ![1] = new]
  BY DEF GoesOnWith
<1> QED
  BY <1>1, <1>2

LEMMA StageBeginsKeeps ==
    ASSUME Inv, StageBegins
    PROVE  Inv'
<1> DEFINE op == Head(ops)
<1> DEFINE m == Missing(op, acked \cup refused, kept)
<1>1. /\ UNCHANGED <<link, backoff, memory, disk, log, cloud, conv>> /\ ops # <<>>
      /\ op.kind = "stage" /\ server' = server /\ denied' = denied
  BY DEF StageBegins, link, Runs, cloud
<1>2. /\ op = ops[1] /\ ops \in Seq(Op) /\ op \in Op /\ OpSound(op) /\ op.req \in Request
      /\ Fresh(op.req) /\ Operations
  BY <1>1, First
<1>3. /\ Operations' /\ ops' \in Seq(Op)
      /\ Sending' /\ flight' \in Flight /\ again' \in Request
  <2>1. CASE ~Current(op.req)
    <3>1. ops' = Tail(ops) /\ Requests(op.req)
      BY <2>1 DEF StageBegins
    <3>2. Operations' /\ ops' \in Seq(Op)
      BY <1>1, <1>2, <3>1, OpsTail
    <3>3. Sending' /\ flight' \in Flight /\ again' \in Request
      BY <1>1, <1>2, <3>1, RequestsStep DEF Inv
    <3> QED
      BY <3>2, <3>3
  <2>2. CASE Current(op.req) /\ loaded = conv
    <3>1. GoesOnWith(m) /\ UNCHANGED <<flight, again>>
      BY <2>2 DEF StageBegins
    <3>2. /\ m \in Seq(Entries) /\ Elements(m) \subseteq Own(op.req.conv)
          /\ Ordered(m, (acked \cup refused) \cup kept)
      BY <1>1, <1>2, MissingIs
    <3> HIDE DEF m
    <3>3. PICK new \in Op : /\ ops' = [ops EXCEPT ![1] = new] /\ new.at = "appends"
                            /\ new.missing = m /\ new.kind = op.kind
                            /\ new.req = op.req /\ new.n = op.n
      BY <1>1, <1>2, <3>1, <3>2, GoesOnIs
    <3>4. op.req.conv = conv /\ conv # None /\ conv \in Conversations
      BY <1>2, <2>2 DEF Fresh, Current, Inv, TypeOK
    <3>5. /\ acked \subseteq server[conv] /\ refused \subseteq denied
          /\ kept \subseteq Elements(outbox[conv])
          /\ kept \subseteq Elements(pending) \cup Done(conv)
      BY <3>4 DEF Inv, Memory
    <3>6. /\ Ordered(m, Done(conv) \cup Elements(outbox[conv]))
          /\ Ordered(m, Done(conv) \cup Elements(pending))
      BY <3>2, <3>5, OrderedMore DEF Done
    <3>7. OpSound(new)
      BY <1>1, <1>2, <2>2, <3>2, <3>3, <3>4, <3>6 DEF OpSound, Current
    <3>8. Operations' /\ ops' \in Seq(Op)
      BY <1>1, <1>2, <3>3, <3>7, StillStep, OpsHead
    <3> QED
      BY <1>1, <3>1, <3>8, FlightStands
  <2>3. CASE Current(op.req) /\ loaded # conv
    <3>1. ops' = [ops EXCEPT ![1].at = "reads"] /\ UNCHANGED <<flight, again>>
      BY <2>3 DEF StageBegins
    <3>2. PICK new \in Op : /\ ops' = [ops EXCEPT ![1] = new] /\ new.at = "reads"
                            /\ new.kind = op.kind /\ new.req = op.req /\ new.n = op.n
      <4> DEFINE o == [ops[1] EXCEPT !.at = "reads"]
      <4>1. /\ o \in Op /\ o.at = "reads" /\ o.kind = op.kind /\ o.req = op.req /\ o.n = op.n
        BY <1>2 DEF Op
      <4>2. ops' = [ops EXCEPT ![1] = o]
        BY <3>1
      <4> QED
        BY <4>1, <4>2
    <3>3. OpSound(new)
      BY <1>2, <3>2 DEF OpSound
    <3>4. Operations' /\ ops' \in Seq(Op)
      BY <1>1, <1>2, <3>2, <3>3, StillStep, OpsHead
    <3> QED
      BY <1>1, <3>1, <3>4, FlightStands
  <2> QED
    BY <2>1, <2>2, <2>3
<1>4. backoff' \in {"due", "ahead"}
  BY <1>1 DEF Inv, TypeOK
<1> QED
  BY <1>1, <1>3, <1>4, Stands, LinkStands, LogStands

LEMMA ClearBeginsKeeps ==
    ASSUME Inv, ClearBegins
    PROVE  Inv'
<1> DEFINE op == Head(ops)
<1>1. /\ UNCHANGED <<link, backoff, memory, flight, again, disk, log, cloud, conv>> /\ ops # <<>>
      /\ op.kind = "clear" /\ pending = <<>> /\ ops' = [ops EXCEPT ![1].at = "removes"]
  BY DEF ClearBegins, link, Runs
<1>2. /\ op = ops[1] /\ ops \in Seq(Op) /\ op \in Op /\ OpSound(op) /\ Operations
  BY <1>1, First
<1>3. PICK new \in Op : /\ ops' = [ops EXCEPT ![1] = new] /\ new.at = "removes"
                        /\ new.kind = op.kind /\ new.req = op.req
  <2> DEFINE o == [ops[1] EXCEPT !.at = "removes"]
  <2>1. o \in Op /\ o.at = "removes" /\ o.kind = op.kind /\ o.req = op.req
    BY <1>2 DEF Op
  <2>2. ops' = [ops EXCEPT ![1] = o]
    BY <1>1
  <2> QED
    BY <2>1, <2>2
<1>4. OpSound(new)
  BY <1>1, <1>2, <1>3 DEF OpSound
<1>5. Operations' /\ ops' \in Seq(Op)
  BY <1>1, <1>2, <1>3, <1>4, StillStep, OpsHead
<1>6. backoff' \in {"due", "ahead"}
  BY <1>1 DEF Inv, TypeOK
<1> QED
  BY <1>1, <1>5, <1>6, Stands, FlightStands, LinkStands, LogStands

LEMMA ClearSkippedKeeps ==
    ASSUME Inv, ClearSkipped
    PROVE  Inv'
<1>1. /\ UNCHANGED <<link, memory, disk, log, cloud, conv>> /\ ops # <<>> /\ ops' = Tail(ops)
      /\ Returns
  BY DEF ClearSkipped, Delivered, link, Runs
<1>2. Operations' /\ ops' \in Seq(Op)
  BY <1>1, First, OpsTail
<1>3. Sending' /\ flight' \in Flight /\ again' \in Request
  BY <1>1, ReturnsStep DEF Inv
<1>4. backoff' \in {"due", "ahead"}
  BY DEF Inv, TypeOK, ClearSkipped, Delivered
<1> QED
  BY <1>1, <1>2, <1>3, <1>4, Stands, LinkStands, LogStands

-----------------------------------------------------------------------------
LEMMA EmptyIs ==
    <<>> \in Seq(Entries) /\ Elements(<<>>) = {} /\ \A D : Ordered(<<>>, D)
<1>1. <<>> \in Seq(Entries) /\ DOMAIN <<>> = {}
  OBVIOUS
<1>2. Elements(<<>>) = {}
  BY <1>1 DEF Elements
<1>3. \A D : Ordered(<<>>, D)
  BY <1>1 DEF Ordered
<1> QED
  BY <1>1, <1>2, <1>3

\* A step that leaves the cloud and the refused alone.
LEMMA CloudStands ==
    ASSUME Inv, UNCHANGED <<cloud, rejects>>
    PROVE  /\ OwnEntriesOnly' /\ ParentsFirst' /\ server' = server /\ denied' = denied
           /\ server' \in [Conversations -> SUBSET Entries] /\ denied' \subseteq Entries
           /\ rejects' \in [Conversations -> SUBSET Entries]
<1>1. server' = server /\ denied' = denied /\ rejects' = rejects
  BY DEF cloud
<1> QED
  BY <1>1 DEF Inv, TypeOK, OwnEntriesOnly, ParentsFirst

LEMMA StageReadsKeeps ==
    ASSUME Inv, StageReads
    PROVE  Inv'
<1> DEFINE op == Head(ops)
<1>1. /\ UNCHANGED <<link, backoff, acked, refused, disk, log, cloud, conv, rejects, outbox>>
      /\ ops # <<>> /\ op.kind = "stage" /\ server' = server /\ denied' = denied
  BY DEF StageReads, link, Runs, cloud, disk
<1>2. /\ op = ops[1] /\ ops \in Seq(Op) /\ op \in Op /\ OpSound(op) /\ op.req \in Request
      /\ Fresh(op.req) /\ Operations
  BY <1>1, First
<1>3. backoff' \in {"due", "ahead"}
  BY <1>1 DEF Inv, TypeOK
<1>4. CASE ~Current(op.req)
  <2>1. ops' = Tail(ops) /\ Requests(op.req) /\ UNCHANGED memory
    BY <1>1, <1>4 DEF StageReads, memory
  <2>2. Operations' /\ ops' \in Seq(Op)
    BY <1>1, <1>2, <2>1, OpsTail
  <2>3. Sending' /\ flight' \in Flight /\ again' \in Request
    BY <1>1, <1>2, <2>1, RequestsStep DEF Inv
  <2> QED
    BY <1>1, <1>3, <2>1, <2>2, <2>3, Stands, LinkStands, LogStands
<1>5. CASE Current(op.req)
  <2> DEFINE box == outbox[conv]
  <2> DEFINE fresh == Minus(box, acked \cup refused)
  <2>1. /\ kept' = Elements(box) /\ pending' = Extended(pending, fresh) /\ loaded' = conv
        /\ GoesOnWith(Missing(op, acked \cup refused, kept')) /\ UNCHANGED <<flight, again>>
    BY <1>5 DEF StageReads
  <2>2. op.req.conv = conv /\ conv # None /\ conv \in Conversations
    BY <1>2, <1>5 DEF Fresh, Current, Inv, TypeOK
  <2>3. /\ box \in Seq(Entries) /\ pending \in Seq(Entries) /\ Elements(box) \subseteq Own(conv)
        /\ Ordered(box, Done(conv)) /\ Ordered(pending, Done(conv))
        /\ acked \cup refused \subseteq Done(conv)
        /\ Elements(pending) \subseteq Elements(box)
    BY <2>2 DEF Inv, TypeOK, Memory, Files, Done
  <2> HIDE DEF box
  <2>4. /\ fresh \in Seq(Entries) /\ Elements(fresh) = Elements(box) \ (acked \cup refused)
        /\ Ordered(fresh, Done(conv) \cup (acked \cup refused))
    BY <2>3, MinusLeaves
  <2> HIDE DEF fresh
  <2>5. Ordered(fresh, Done(conv) \cup Elements(pending))
    <3>1. Done(conv) \cup (acked \cup refused) \subseteq Done(conv) \cup Elements(pending)
      BY <2>3
    <3> QED
      BY <2>4, <3>1, OrderedMore
  <2>6. /\ pending' \in Seq(Entries) /\ Elements(pending') = Elements(pending) \cup Elements(fresh)
        /\ Ordered(pending', Done(conv))
    BY <2>1, <2>3, <2>4, <2>5, ExtendedBy
  <2>7. /\ Elements(pending') \subseteq kept' /\ kept' \subseteq Elements(pending') \cup Done(conv)
        /\ kept' \subseteq Entries
    <3>1. Elements(box) \subseteq Entries
      BY <2>3, ElementTypes
    <3> QED
      BY <2>1, <2>3, <2>4, <2>6, <3>1
  <2>8. Memory'
    <3>1. Done(conv)' = Done(conv) /\ box = outbox[conv]
      BY <1>1 DEF Done, box
    <3>2. Ordered(pending', Done(conv)')
      BY <2>6, <3>1
    <3>3. acked \subseteq server[conv] /\ refused \subseteq denied
      BY <2>2 DEF Inv, Memory
    <3> QED
      BY <1>1, <2>1, <2>2, <2>7, <3>1, <3>2, <3>3 DEF Memory, Done
  <2>9. Operations' /\ ops' \in Seq(Op)
    <3> DEFINE m == Missing(op, acked \cup refused, kept')
    <3>1. /\ m \in Seq(Entries) /\ Elements(m) \subseteq Own(conv)
          /\ Ordered(m, (acked \cup refused) \cup kept')
      BY <1>1, <1>2, <2>2, MissingIs
    <3>2. GoesOnWith(m)
      BY <2>1
    <3> HIDE DEF m
    <3>3. PICK new \in Op : /\ ops' = [ops EXCEPT ![1] = new] /\ new.at = "appends"
                            /\ new.missing = m /\ new.kind = op.kind
                            /\ new.req = op.req /\ new.n = op.n
      BY <1>1, <1>2, <3>1, <3>2, GoesOnIs
    <3>4. /\ Ordered(new.missing, Done(conv) \cup Elements(box))
          /\ Ordered(new.missing, Done(conv) \cup Elements(pending'))
      <4>1. /\ (acked \cup refused) \cup kept' \subseteq Done(conv) \cup Elements(box)
            /\ (acked \cup refused) \cup kept' \subseteq Done(conv) \cup Elements(pending')
        BY <2>1, <2>3, <2>7
      <4> QED
        BY <3>1, <3>3, <4>1, OrderedMore
    <3>5. op.n \in 0..MaxEntries[conv]
      BY <1>1, <1>2, <2>2 DEF OpSound
    <3>6. OpSound(new)'
      BY <1>1, <1>2, <2>1, <2>2, <3>1, <3>3, <3>4, <3>5 DEF OpSound, Fresh, Current, Done, box
    <3> QED
      BY <1>1, <1>2, <3>3, <3>6, OpsHead
  <2>10. Files'
    BY <1>1 DEF Inv, Files, Done
  <2>11. Sending' /\ flight' \in Flight /\ again' \in Request
    BY <1>1, <2>1, FlightStands
  <2>12. /\ Answers' /\ call' \in Call /\ linked' \in BOOLEAN
         /\ (conv' = None => ~linked' /\ call'.at = "none")
    BY <1>1, LinkStands
  <2>13. TypeOK'
    BY <1>1, <1>3, <2>1, <2>2, <2>6, <2>7, <2>9, <2>11, <2>12 DEF Inv, TypeOK
  <2> QED
    BY <1>1, <2>8, <2>9, <2>10, <2>11, <2>12, <2>13, CloudStands DEF Inv
<1> QED
  BY <1>4, <1>5

LEMMA StageAppendsKeeps ==
    ASSUME Inv, StageAppends
    PROVE  Inv'
<1> DEFINE op == Head(ops)
<1> DEFINE c == op.req.conv
<1> DEFINE m == op.missing
<1>1. /\ UNCHANGED <<link, backoff, acked, refused, loaded, rejects, log, cloud, conv>>
      /\ ops # <<>> /\ op.kind = "stage" /\ op.at = "appends"
      /\ server' = server /\ denied' = denied
      /\ outbox' = [outbox EXCEPT ![c] = Extended(outbox[c], m)]
      /\ ops' = Tail(ops) /\ Requests(op.req)
  BY DEF StageAppends, link, Runs, cloud
<1>2. /\ op = ops[1] /\ ops \in Seq(Op) /\ op \in Op /\ OpSound(op) /\ op.req \in Request
      /\ Fresh(op.req) /\ Operations
  BY <1>1, First
<1>3. /\ c \in Conversations /\ m \in Seq(Entries) /\ Elements(m) \subseteq Own(c)
      /\ Ordered(m, Done(c) \cup Elements(outbox[c]))
  BY <1>1, <1>2 DEF OpSound, Op
<1>4. /\ outbox \in [Conversations -> Seq(Entries)]
      /\ \A d \in Conversations :
           Elements(outbox[d]) \subseteq Own(d) /\ Ordered(outbox[d], Done(d))
  BY DEF Inv, TypeOK, Files
<1>5. /\ Extended(outbox[c], m) \in Seq(Entries)
      /\ Elements(Extended(outbox[c], m)) = Elements(outbox[c]) \cup Elements(m)
      /\ Ordered(Extended(outbox[c], m), Done(c))
  <2>1. outbox[c] \in Seq(Entries) /\ Ordered(outbox[c], Done(c))
    BY <1>3, <1>4
  <2> QED
    BY <1>3, <2>1, ExtendedBy
<1>6. /\ outbox' \in [Conversations -> Seq(Entries)]
      /\ \A d \in Conversations : outbox'[d] = IF d = c THEN Extended(outbox[c], m) ELSE outbox[d]
  <2> HIDE DEF m, op
  <2> QED
    BY <1>1, <1>3, <1>4, <1>5
<1>7. Files'
  <2> SUFFICES ASSUME NEW d \in Conversations
               PROVE  /\ Elements(outbox'[d]) \subseteq Own(d) /\ Ordered(outbox'[d], Done(d))
                      /\ rejects[d] \subseteq denied
    BY <1>1 DEF Files, Done
  <2>1. Elements(outbox'[d]) \subseteq Own(d) /\ Ordered(outbox'[d], Done(d))
    <3>1. CASE d = c
      <4>1. outbox'[d] = Extended(outbox[c], m)
        BY <1>6, <3>1
      <4>2. Elements(outbox[c]) \subseteq Own(c)
        BY <1>3, <1>4
      <4> QED
        BY <1>3, <1>5, <3>1, <4>1, <4>2
    <3>2. CASE d # c
      BY <1>4, <1>6, <3>2
    <3> QED
      BY <3>1, <3>2
  <2>2. rejects[d] \subseteq denied
    BY DEF Inv, Files
  <2> QED
    BY <2>1, <2>2
<1>8. Memory' /\ kept' \subseteq Entries /\ pending' \in Seq(Entries)
  <2>0. kept \subseteq Entries /\ pending \in Seq(Entries) /\ Elements(m) \subseteq Entries
    BY <1>3, ElementTypes DEF Inv, TypeOK
  <2>1. CASE Current(op.req)
    <3>1. /\ kept' = kept \cup Elements(m) /\ pending' = pending \o m /\ c = conv /\ conv # None
          /\ loaded = conv /\ Ordered(m, Done(c) \cup Elements(pending))
      BY <1>1, <1>2, <2>1 DEF StageAppends, OpSound, Fresh, Current
    <3>2. /\ acked \subseteq server[conv] /\ refused \subseteq denied
          /\ Elements(pending) \subseteq kept /\ kept \subseteq Elements(outbox[conv])
          /\ kept \subseteq Elements(pending) \cup Done(conv)
          /\ Ordered(pending, Done(conv))
      BY <3>1 DEF Inv, Memory
    <3>3. /\ pending' \in Seq(Entries)
          /\ Elements(pending') = Elements(pending) \cup Elements(m)
          /\ Ordered(pending', Done(conv))
      BY <1>3, <2>0, <3>1, <3>2, Joined
    <3>4. Elements(outbox'[conv]) = Elements(outbox[conv]) \cup Elements(m)
      BY <1>3, <1>5, <1>6, <3>1
    <3>5. /\ Elements(pending') \subseteq kept' /\ kept' \subseteq Elements(outbox'[conv])
          /\ kept' \subseteq Elements(pending') \cup Done(conv)
      BY <3>1, <3>2, <3>3, <3>4
    <3> QED
      BY <1>1, <2>0, <3>1, <3>2, <3>3, <3>5 DEF Memory, Done
  <2>2. CASE ~Current(op.req)
    <3>1. kept' = kept /\ pending' = pending
      BY <2>2 DEF StageAppends
    <3>2. conv # None => Elements(outbox[conv]) \subseteq Elements(outbox'[conv])
      <4>1. conv # None => conv \in Conversations
        BY DEF Inv, TypeOK
      <4> QED
        BY <1>5, <1>6, <4>1
    <3> QED
      BY <1>1, <2>0, <3>1, <3>2 DEF Inv, Memory, Done
  <2> QED
    BY <2>1, <2>2
<1>9. Operations' /\ ops' \in Seq(Op)
  BY <1>1, <1>2, OpsTail
<1>10. Sending' /\ flight' \in Flight /\ again' \in Request
  BY <1>1, <1>2, RequestsStep DEF Inv
<1>11. /\ Answers' /\ call' \in Call /\ linked' \in BOOLEAN
       /\ (conv' = None => ~linked' /\ call'.at = "none")
  BY <1>1, LinkStands
<1>12. TypeOK'
  BY <1>1, <1>6, <1>8, <1>9, <1>10, <1>11, CloudStands DEF Inv, TypeOK
<1> QED
  BY <1>1, <1>7, <1>8, <1>9, <1>10, <1>11, <1>12, CloudStands DEF Inv

LEMMA ClearedKeeps ==
    ASSUME Inv, Cleared
    PROVE  Inv'
<1> DEFINE op == Head(ops)
<1> DEFINE c == op.req.conv
<1>1. /\ UNCHANGED <<link, acked, refused, pending, loaded, rejects, log, cloud, conv>>
      /\ ops # <<>> /\ op.at = "removes" /\ server' = server /\ denied' = denied
      /\ outbox' = [outbox EXCEPT ![c] = <<>>]
      /\ kept' = (IF loaded = c THEN {} ELSE kept) /\ ops' = Tail(ops) /\ Returns
  BY DEF Cleared, Delivered, link, Runs, cloud
<1>2. pending = <<>> /\ Operations /\ ops \in Seq(Op)
  BY <1>1, First DEF OpSound
<1>3. <<>> \in Seq(Entries) /\ Elements(<<>>) = {} /\ \A D : Ordered(<<>>, D)
  BY EmptyIs
<1> HIDE DEF op
<1>4. /\ outbox' \in [Conversations -> Seq(Entries)]
      /\ \A d \in Conversations : outbox'[d] = IF d = c THEN <<>> ELSE outbox[d]
  BY <1>1, <1>3 DEF Inv, TypeOK
<1>5. Files'
  <2> SUFFICES ASSUME NEW d \in Conversations
               PROVE  /\ Elements(outbox'[d]) \subseteq Own(d) /\ Ordered(outbox'[d], Done(d))
                      /\ rejects[d] \subseteq denied
    BY <1>1 DEF Files, Done
  <2>1. /\ Elements(outbox[d]) \subseteq Own(d) /\ Ordered(outbox[d], Done(d))
        /\ rejects[d] \subseteq denied
    BY DEF Inv, Files
  <2> QED
    BY <1>3, <1>4, <2>1
<1>6. Memory' /\ kept' \subseteq Entries
  <2>1. /\ loaded = None => kept = {}
        /\ loaded \in {None, conv} /\ kept \subseteq Entries
    BY DEF Inv, Memory, TypeOK
  <2>2. kept' = {} \/ (conv # c /\ kept' = kept)
    BY <1>1, <2>1
  <2>3. ASSUME conv # None
        PROVE  kept' \subseteq Elements(outbox'[conv])
    <3>1. conv \in Conversations /\ kept \subseteq Elements(outbox[conv])
      BY <2>3 DEF Inv, TypeOK, Memory
    <3> QED
      BY <1>4, <2>2, <3>1
  <2> QED
    BY <1>1, <1>2, <1>3, <2>1, <2>2, <2>3 DEF Inv, Memory, Done
<1>7. Operations' /\ ops' \in Seq(Op)
  BY <1>1, <1>2, OpsTail
<1>8. Sending' /\ flight' \in Flight /\ again' \in Request
  BY <1>1, ReturnsStep DEF Inv
<1>9. /\ Answers' /\ call' \in Call /\ linked' \in BOOLEAN
      /\ (conv' = None => ~linked' /\ call'.at = "none")
  BY <1>1, LinkStands
<1>10. backoff' \in {"due", "ahead"}
  BY DEF Cleared, Delivered, Inv, TypeOK
<1>11. TypeOK'
  BY <1>1, <1>4, <1>6, <1>7, <1>8, <1>9, <1>10, CloudStands DEF Inv, TypeOK
<1> QED
  BY <1>1, <1>5, <1>6, <1>7, <1>8, <1>9, <1>11, CloudStands DEF Inv

-----------------------------------------------------------------------------
\* A link is made, of the same conversation or of one that comes anew.
LEMMA LinksStep ==
    ASSUME Inv, NEW c \in Conversations, conv \in {None, c}, Links(c),
           UNCHANGED <<disk, log, cloud>>
    PROVE  /\ Memory' /\ Files' /\ OwnEntriesOnly' /\ ParentsFirst' /\ Answers'
           /\ Operations' /\ ops' \in Seq(Op)
           /\ conv' = c /\ linked' = FALSE /\ call' \in Call /\ again' = NoRequest
           /\ acked' \subseteq Entries /\ refused' \subseteq Entries /\ kept' \subseteq Entries
           /\ pending' \in Seq(Entries) /\ loaded' \in Conversations \cup {None}
           /\ backoff' \in {"due", "ahead"}
<1>1. /\ server' = server /\ denied' = denied /\ outbox' = outbox /\ rejects' = rejects
      /\ conv' = c /\ linked' = FALSE /\ call' = [NoCall EXCEPT !.at = "asked"] /\ Outdates
      /\ again' = NoRequest /\ c # None
  BY MirrorAssumption DEF Links, Outdates, disk, cloud
<1>2. call' \in Call /\ call'.at = "asked"
  BY <1>1 DEF NoCall, Call
<1>3. /\ acked' \subseteq Entries /\ refused' \subseteq Entries /\ kept' \subseteq Entries
      /\ pending' \in Seq(Entries) /\ loaded' \in Conversations \cup {None}
      /\ backoff' \in {"due", "ahead"} /\ pending' \in {pending, <<>>} /\ Memory'
  <2>1. CASE conv = c
    <3>1. UNCHANGED <<acked, refused, pending, kept, loaded, backoff, conv>>
      BY <1>1, <2>1 DEF Links, memory
    <3> QED
      BY <1>1, <3>1 DEF Inv, TypeOK, Memory, Done
  <2>2. CASE conv # c
    <3>1. acked' = {} /\ refused' = {} /\ pending' = <<>> /\ kept' = {} /\ loaded' = None
          /\ backoff' = "due"
      BY <2>2 DEF Links
    <3>2. Memory'
      BY <3>1, EmptyIs DEF Memory
    <3> QED
      BY <3>1, <3>2, EmptyIs
  <2> QED
    BY <2>1, <2>2
<1>4. Operations' /\ ops' \in Seq(Op)
  BY <1>1, <1>3, OpsOutdated DEF Inv, TypeOK
<1>5. Answers'
  BY <1>2 DEF Answers
<1>6. Files' /\ OwnEntriesOnly' /\ ParentsFirst'
  BY <1>1 DEF Inv, Files, Done, OwnEntriesOnly, ParentsFirst
<1> QED
  BY <1>1, <1>2, <1>3, <1>4, <1>5, <1>6

\* The delivery under way is for an earlier link.
LEMMA FlightOutdated ==
    ASSUME Inv, flight' = [flight EXCEPT !.req.stale = TRUE], again' = NoRequest,
           UNCHANGED <<server, denied>>
    PROVE  Sending' /\ flight' \in Flight /\ again' \in Request
<1>1. /\ flight' \in Flight /\ flight'.req.stale /\ flight'.req.conv = flight.req.conv
      /\ flight'.at = flight.at /\ flight'.left = flight.left /\ flight'.refused = flight.refused
  BY DEF Inv, TypeOK, Flight, Request
<1>2. Chunk' = Chunk
  BY <1>1, ChunkSame
<1>3. again' \in Request /\ again'.stale
  BY BegunIs
<1> QED
  BY <1>1, <1>2, <1>3 DEF Inv, Sending, Fresh, Done

LEMMA LinkKeeps ==
    ASSUME Inv, NEW c \in Conversations, Link(c)
    PROVE  Inv'
<1>1. /\ conv \in {None, c} /\ Links(c) /\ flight' = [flight EXCEPT !.req.stale = TRUE]
      /\ UNCHANGED <<disk, log, cloud, outbox, rejects, server, denied>>
  BY DEF Link, disk, cloud
<1>2. /\ Memory' /\ Files' /\ OwnEntriesOnly' /\ ParentsFirst' /\ Answers'
      /\ Operations' /\ ops' \in Seq(Op)
      /\ conv' = c /\ linked' = FALSE /\ call' \in Call /\ again' = NoRequest
      /\ acked' \subseteq Entries /\ refused' \subseteq Entries /\ kept' \subseteq Entries
      /\ pending' \in Seq(Entries) /\ loaded' \in Conversations \cup {None}
      /\ backoff' \in {"due", "ahead"}
  BY <1>1, LinksStep
<1>3. Sending' /\ flight' \in Flight /\ again' \in Request
  BY <1>1, <1>2, FlightOutdated
<1>4. TypeOK'
  BY <1>1, <1>2, <1>3, MirrorAssumption DEF Inv, TypeOK
<1> QED
  BY <1>2, <1>3, <1>4 DEF Inv

LEMMA DeliverLinksKeeps ==
    ASSUME Inv, DeliverLinks
    PROVE  Inv'
<1>1. UNCHANGED <<disk, log, cloud, outbox, rejects, server, denied>> /\ flight.req \in Request
  BY DEF DeliverLinks, disk, cloud, Inv, TypeOK, Flight
<1>2. flight.req.conv = conv /\ conv # None /\ conv \in Conversations /\ ~flight.req.stale
  BY DEF DeliverLinks, Current, Inv, TypeOK, Sending, Fresh
<1>3. CASE backoff = "ahead"
  <2>1. Returns /\ UNCHANGED <<link, memory, backoff, ops, conv>>
    BY <1>3 DEF DeliverLinks, link
  <2>2. Sending' /\ flight' \in Flight /\ again' \in Request
    BY <2>1, ReturnsStep DEF Inv
  <2>3. backoff' \in {"due", "ahead"}
    BY <2>1 DEF Inv, TypeOK
  <2> QED
    BY <1>1, <2>1, <2>2, <2>3, Stands, OpsStand, LinkStands, LogStands
<1>4. CASE backoff # "ahead"
  <2>1. Links(conv) /\ flight' = [flight EXCEPT !.at = "linking"]
    BY <1>4 DEF DeliverLinks
  <2>2. /\ Memory' /\ Files' /\ OwnEntriesOnly' /\ ParentsFirst' /\ Answers'
        /\ Operations' /\ ops' \in Seq(Op)
        /\ conv' = conv /\ linked' = FALSE /\ call' \in Call /\ again' = NoRequest
        /\ acked' \subseteq Entries /\ refused' \subseteq Entries /\ kept' \subseteq Entries
        /\ pending' \in Seq(Entries) /\ loaded' \in Conversations \cup {None}
        /\ backoff' \in {"due", "ahead"}
    BY <1>1, <1>2, <2>1, LinksStep
  <2>3. Sending' /\ flight' \in Flight /\ again' \in Request
    <3>1. flight' \in Flight /\ flight'.at = "linking" /\ flight'.req = flight.req
      BY <2>1 DEF Inv, TypeOK, Flight
    <3> QED
      BY <1>2, <2>2, <3>1, FlightIdle, BegunIs
  <2>4. TypeOK'
    BY <1>1, <1>2, <2>2, <2>3, MirrorAssumption DEF Inv, TypeOK
  <2> QED
    BY <2>2, <2>3, <2>4 DEF Inv
<1> QED
  BY <1>3, <1>4

LEMMA UnlinkKeeps ==
    ASSUME Inv, Unlink
    PROVE  Inv'
<1>1. /\ Outdates /\ flight' = [flight EXCEPT !.req.stale = TRUE]
      /\ conv' = None /\ linked' = FALSE /\ call' = NoCall
      /\ acked' = {} /\ refused' = {} /\ pending' = <<>> /\ kept' = {} /\ loaded' = None
      /\ backoff' = "due" /\ again' = NoRequest
      /\ UNCHANGED <<disk, log, cloud, outbox, rejects, server, denied>>
  BY DEF Unlink, Outdates, disk, cloud
<1>2. call' \in Call /\ call'.at = "none" /\ Answers'
  BY <1>1 DEF NoCall, Call, Answers
<1>3. Sending' /\ flight' \in Flight /\ again' \in Request
  BY <1>1, FlightOutdated
<1>4. Operations' /\ ops' \in Seq(Op)
  BY <1>1, OpsOutdated DEF Inv, TypeOK
<1>5. Files' /\ OwnEntriesOnly' /\ ParentsFirst'
  BY <1>1 DEF Inv, Files, Done, OwnEntriesOnly, ParentsFirst
<1>6. Memory'
  BY <1>1 DEF Memory
<1>7. TypeOK'
  BY <1>1, <1>2, <1>3, <1>4, EmptyIs DEF Inv, TypeOK
<1> QED
  BY <1>2, <1>3, <1>4, <1>5, <1>6, <1>7 DEF Inv

\* The process dies; what it had appended so far is in the file.
LEMMA CrashKeeps ==
    ASSUME Inv, Crash
    PROVE  Inv'
<1>1. /\ conv' = None /\ linked' = FALSE /\ call' = NoCall
      /\ acked' = {} /\ refused' = {} /\ pending' = <<>> /\ kept' = {} /\ loaded' = None
      /\ backoff' = "due" /\ ops' = <<>> /\ flight' = Idle /\ again' = NoRequest
      /\ UNCHANGED <<log, cloud, server, denied>>
  BY DEF Crash, cloud
<1>2. call' \in Call /\ call'.at = "none" /\ Answers'
  BY <1>1 DEF NoCall, Call, Answers
<1>3. Sending' /\ flight' \in Flight /\ again' \in Request
  BY <1>1, BegunIs DEF Sending, Fresh
<1>4. Operations' /\ ops' \in Seq(Op)
  <2>1. <<>> \in Seq(Op) /\ DOMAIN <<>> = {}
    OBVIOUS
  <2> QED
    BY <1>1, <2>1 DEF Operations
<1>5. Memory'
  BY <1>1 DEF Memory
<1>6. OwnEntriesOnly' /\ ParentsFirst'
  BY <1>1 DEF Inv, OwnEntriesOnly, ParentsFirst
<1>7. /\ outbox \in [Conversations -> Seq(Entries)]
      /\ \A d \in Conversations :
           Elements(outbox[d]) \subseteq Own(d) /\ Ordered(outbox[d], Done(d))
      /\ rejects \in [Conversations -> SUBSET Entries]
      /\ \A d \in Conversations : rejects[d] \subseteq denied
  BY DEF Inv, TypeOK, Files
<1>8. PICK c, file :
        /\ c \in Conversations /\ outbox' = [outbox EXCEPT ![c] = file]
        /\ \/ file = outbox[c]
           \/ /\ Runs("stage", "appends") /\ Head(ops).req.conv = c
              /\ \E k \in 0..Len(Head(ops).missing) :
                   file = Extended(outbox[c], SubSeq(Head(ops).missing, 1, k))
  <2>1. PICK c \in Conversations :
          \E file \in (IF Runs("stage", "appends") /\ Head(ops).req.conv = c
                       THEN {Extended(outbox[c], SubSeq(Head(ops).missing, 1, k)) :
                               k \in 0..Len(Head(ops).missing)}
                       ELSE {outbox[c]}) : outbox' = [outbox EXCEPT ![c] = file]
    BY ZenonT(30) DEF Crash
  <2>2. CASE Runs("stage", "appends") /\ Head(ops).req.conv = c
    <3>1. PICK file \in {Extended(outbox[c], SubSeq(Head(ops).missing, 1, k)) :
                           k \in 0..Len(Head(ops).missing)} :
            outbox' = [outbox EXCEPT ![c] = file]
      BY <2>1, <2>2
    <3> QED
      BY <2>2, <3>1, Zenon
  <2>3. CASE ~(Runs("stage", "appends") /\ Head(ops).req.conv = c)
    BY <2>1, <2>3
  <2> QED
    BY <2>2, <2>3
<1>9. PICK d, set : /\ d \in Conversations /\ (set = rejects[d] \/ set = {})
                    /\ rejects' = [rejects EXCEPT ![d] = set]
  BY DEF Crash
<1>10. file \in Seq(Entries) /\ Elements(file) \subseteq Own(c) /\ Ordered(file, Done(c))
  <2>1. CASE file = outbox[c]
    BY <1>7, <1>8, <2>1
  <2>2. ASSUME Runs("stage", "appends"), Head(ops).req.conv = c,
               NEW k \in 0..Len(Head(ops).missing),
               file = Extended(outbox[c], SubSeq(Head(ops).missing, 1, k))
        PROVE  file \in Seq(Entries) /\ Elements(file) \subseteq Own(c) /\ Ordered(file, Done(c))
    <3> DEFINE m == Head(ops).missing
    <3> DEFINE a == SubSeq(m, 1, k)
    <3>1. /\ m \in Seq(Entries) /\ Elements(m) \subseteq Own(c)
          /\ Ordered(m, Done(c) \cup Elements(outbox[c]))
      BY <2>2, First DEF Runs, OpSound, Op
    <3>2. k \in 0..Len(m) /\ file = Extended(outbox[c], a)
      BY <2>2
    <3> HIDE DEF m
    <3>3. a \in Seq(Entries) /\ Elements(a) \subseteq Elements(m)
          /\ Ordered(a, Done(c) \cup Elements(outbox[c]))
      <4> DEFINE b == SubSeq(m, k + 1, Len(m))
      <4>1. /\ a \in Seq(Entries) /\ Elements(m) = Elements(a) \cup Elements(b)
            /\ \A D : Ordered(m, D) => Ordered(a, D)
        BY <3>1, <3>2, Parts
      <4> HIDE DEF a, b
      <4> QED
        BY <3>1, <4>1
    <3> HIDE DEF a
    <3>4. /\ file \in Seq(Entries) /\ Elements(file) = Elements(outbox[c]) \cup Elements(a)
          /\ Ordered(file, Done(c))
      BY <1>7, <1>8, <3>2, <3>3, ExtendedBy
    <3> QED
      BY <1>7, <1>8, <3>1, <3>3, <3>4
  <2> QED
    BY <1>8, <2>1, <2>2
<1>11. /\ outbox' \in [Conversations -> Seq(Entries)]
       /\ \A e \in Conversations : outbox'[e] = IF e = c THEN file ELSE outbox[e]
  BY <1>7, <1>8, <1>10
<1>12. /\ rejects' \in [Conversations -> SUBSET Entries]
       /\ \A e \in Conversations : rejects'[e] \subseteq denied
  <2>1. set \subseteq denied /\ set \subseteq Entries
    BY <1>7, <1>9
  <2> QED
    BY <1>7, <1>9, <2>1
<1>13. Files'
  <2> SUFFICES ASSUME NEW e \in Conversations
               PROVE  Elements(outbox'[e]) \subseteq Own(e) /\ Ordered(outbox'[e], Done(e))
    BY <1>1, <1>12 DEF Files, Done
  <2> QED
    BY <1>7, <1>10, <1>11
<1>14. TypeOK'
  BY <1>1, <1>2, <1>3, <1>4, <1>11, <1>12, EmptyIs DEF Inv, TypeOK
<1> QED
  BY <1>2, <1>3, <1>4, <1>5, <1>6, <1>13, <1>14 DEF Inv

-----------------------------------------------------------------------------
\* The cloud gets more, or the process learns what the cloud has.
LEMMA LinkedKeeps ==
    ASSUME Inv, Linked
    PROVE  Inv'
<1> DEFINE S == call.ids \cup call.refused
<1>1. /\ call.at = "read" /\ acked' = call.ids /\ refused' = call.refused
      /\ pending' = Minus(pending, S) /\ linked' = TRUE /\ backoff' = "due" /\ call' = NoCall
      /\ UNCHANGED <<conv, kept, loaded, ops, again, disk, log, cloud>>
      /\ UNCHANGED <<outbox, rejects, server, denied>>
  BY DEF Linked, disk, cloud
<1>2. /\ conv \in Conversations /\ conv # None /\ call.ids \subseteq server[conv]
      /\ call.refused \subseteq denied /\ call.ids \subseteq Entries
      /\ call.refused \subseteq Entries /\ pending \in Seq(Entries)
  BY <1>1, MirrorAssumption DEF Inv, TypeOK, Answers, Call
<1>3. Ordered(pending, Done(conv))
  BY <1>2 DEF Inv, Memory
<1>4. S \subseteq Done(conv)
  BY <1>2 DEF Done
<1> HIDE DEF S
<1>5. /\ pending' \in Seq(Entries) /\ Elements(pending') = Elements(pending) \ S
      /\ Ordered(pending', Done(conv) \cup S)
  BY <1>1, <1>2, <1>3, MinusLeaves
<1>6. Done(conv) \cup S = Done(conv)
  BY <1>4
<1>7. Grows
  BY <1>1, <1>4, <1>5, <1>6 DEF Grows, Done
<1>8. /\ Memory' /\ Files'
      /\ \A op \in Op : OpSound(op) => OpSound(op)'
  BY <1>1, <1>2, <1>7, GrowsStep DEF Inv, Files
<1>9. Operations' /\ ops' \in Seq(Op)
  BY <1>1, <1>8, OpsSame DEF Inv, TypeOK
<1>10. Sending' /\ flight' \in Flight /\ again' \in Request
  <2>1. CASE flight.at = "linking" /\ Current(flight.req)
    <3>1. flight' = [flight EXCEPT !.at = "begun"]
      BY <2>1 DEF Linked
    <3>2. flight' \in Flight /\ flight'.at = "begun" /\ flight'.req = flight.req
      BY <3>1 DEF Inv, TypeOK, Flight
    <3>3. again' = again /\ again \in Request /\ Fresh(again) /\ Fresh(flight.req)
      BY <1>1 DEF Inv, TypeOK, Sending
    <3> QED
      BY <1>1, <3>2, <3>3, FlightIdle DEF Fresh
  <2>2. CASE ~(flight.at = "linking" /\ Current(flight.req))
    <3>1. flight' = flight
      BY <2>2 DEF Linked
    <3> QED
      BY <1>1, <3>1, FlightStands
  <2> QED
    BY <2>1, <2>2
<1>11. call' \in Call /\ call'.at = "none" /\ Answers'
  BY <1>1 DEF NoCall, Call, Answers
<1>12. TypeOK'
  BY <1>1, <1>2, <1>5, <1>9, <1>10, <1>11 DEF Inv, TypeOK
<1>13. OwnEntriesOnly' /\ ParentsFirst'
  BY <1>1, CloudStands
<1> QED
  BY <1>8, <1>9, <1>10, <1>11, <1>12, <1>13 DEF Inv

\* The delivery, while it sends.
LEMMA SendingIs ==
    ASSUME Inv, flight.at \in {"sending", "taken", "writing"}
    PROVE  /\ flight.req \in Request /\ flight.req.conv \in Conversations
           /\ flight.left \in Seq(Entries) /\ flight.left # <<>> /\ flight \in Flight
           /\ Chunk \in Seq(Entries) /\ Rest \in Seq(Entries)
           /\ Elements(Chunk) \subseteq Own(flight.req.conv)
           /\ Elements(Rest) \subseteq Own(flight.req.conv)
           /\ Elements(Chunk) \subseteq Entries /\ Elements(Rest) \subseteq Entries
           /\ Ordered(Chunk, Done(flight.req.conv))
           /\ Ordered(Rest, Done(flight.req.conv) \cup Elements(Chunk))
           /\ flight.refused \subseteq denied /\ flight.refused \subseteq Entries
<1> DEFINE c == flight.req.conv
<1>1. /\ flight \in Flight /\ flight.req \in Request /\ flight.left \in Seq(Entries)
      /\ flight.refused \subseteq Entries
  BY DEF Inv, TypeOK, Flight
<1>2. /\ c \in Conversations /\ flight.left # <<>> /\ flight.refused \subseteq denied
      /\ Elements(flight.left) \subseteq Own(c) /\ Ordered(flight.left, Done(c))
  BY DEF Inv, Sending
<1>3. /\ Chunk \in Seq(Entries) /\ Rest \in Seq(Entries)
      /\ Elements(flight.left) = Elements(Chunk) \cup Elements(Rest)
      /\ Ordered(Chunk, Done(c)) /\ Ordered(Rest, Done(c) \cup Elements(Chunk))
  BY <1>1, <1>2, ChunkIs
<1>4. Elements(Chunk) \subseteq Entries /\ Elements(Rest) \subseteq Entries
  BY <1>3, ElementTypes
<1> QED
  BY <1>1, <1>2, <1>3, <1>4

\* Whatever is before an entry of the chunk is there, or goes with it.
LEMMA ChunkParents ==
    ASSUME NEW c \in Conversations, NEW s \in Seq(Entries), NEW D,
           Elements(s) \subseteq Own(c), Ordered(s, D),
           NEW e \in Elements(s), NEW i \in 1..(e[2] - 1)
    PROVE  <<c, i>> \in D \cup Elements(s)
<1>1. PICK p \in DOMAIN s : s[p] = e
  BY DEF Elements
<1>2. e[1] = c
  BY DEF Own
<1>3. <<c, i>> \in Before(s[p])
  BY <1>1, <1>2 DEF Before
<1>4. <<c, i>> \in D \/ \E q \in 1..(p - 1) : s[q] = <<c, i>>
  BY <1>3 DEF Ordered
<1>5. \A q \in 1..(p - 1) : q \in DOMAIN s
  BY ElementTypes
<1> QED
  BY <1>4, <1>5 DEF Elements

LEMMA CloudTakesKeeps ==
    ASSUME Inv, CloudTakes
    PROVE  Inv'
<1> DEFINE c == flight.req.conv
<1>1. /\ flight.at = "sending" /\ flight' = [flight EXCEPT !.at = "taken"]
      /\ server' = [server EXCEPT ![c] = server[c] \cup Elements(Chunk)]
      /\ UNCHANGED <<link, backoff, memory, ops, again, disk, log, denied, conv>>
      /\ UNCHANGED <<acked, refused, pending, kept, loaded, outbox, rejects>>
  BY DEF CloudTakes, link, memory, disk
<1>2. /\ c \in Conversations /\ Elements(Chunk) \subseteq Own(c)
      /\ Elements(Chunk) \subseteq Entries
      /\ Ordered(Chunk, Done(c)) /\ flight \in Flight /\ Chunk \in Seq(Entries)
  BY <1>1, SendingIs
<1>3. /\ server' \in [Conversations -> SUBSET Entries]
      /\ \A d \in Conversations : server'[d] = IF d = c THEN server[c] \cup Elements(Chunk)
                                                         ELSE server[d]
      /\ \A d \in Conversations : server[d] \subseteq server'[d]
  <2>1. server \in [Conversations -> SUBSET Entries]
    BY DEF Inv, TypeOK
  <2> QED
    BY <1>1, <1>2, <2>1
<1>4. OwnEntriesOnly'
  <2>1. \A d \in Conversations : server[d] \subseteq Own(d)
    BY DEF Inv, OwnEntriesOnly, Own
  <2> QED
    BY <1>2, <1>3, <2>1 DEF OwnEntriesOnly, Own
<1>5. ParentsFirst'
  <2> SUFFICES ASSUME NEW d \in Conversations, NEW e \in server'[d], NEW i \in 1..(e[2] - 1)
               PROVE  <<d, i>> \in server'[d] \cup denied
    BY <1>1 DEF ParentsFirst
  <2>1. CASE e \in server[d]
    BY <1>3, <2>1 DEF Inv, ParentsFirst
  <2>2. CASE e \notin server[d]
    <3>1. d = c /\ e \in Elements(Chunk)
      BY <1>3, <2>2
    <3>2. <<c, i>> \in Done(c) \cup Elements(Chunk)
      BY <1>2, <3>1, ChunkParents
    <3> QED
      BY <1>3, <3>1, <3>2 DEF Done
  <2> QED
    BY <2>1, <2>2
<1>6. conv # None => conv \in Conversations /\ Ordered(pending, server'[conv] \cup denied)
  <2> SUFFICES ASSUME conv # None
               PROVE  conv \in Conversations /\ Ordered(pending, server'[conv] \cup denied)
    OBVIOUS
  <2>1. conv \in Conversations /\ Ordered(pending, Done(conv))
    BY DEF Inv, TypeOK, Memory
  <2>2. Done(conv) \subseteq server'[conv] \cup denied
    BY <1>3, <2>1 DEF Done
  <2> QED
    BY <2>1, <2>2, OrderedMore
<1>7. Grows
  BY <1>1, <1>3, <1>6 DEF Grows, Inv, TypeOK
<1>8. conv # None => acked' \subseteq server'[conv] /\ refused' \subseteq denied'
  BY <1>1, <1>3, <1>6 DEF Inv, Memory
<1>9. /\ Memory' /\ Files' /\ \A req : Fresh(req) => Fresh(req)'
      /\ \A op \in Op : OpSound(op) => OpSound(op)'
  BY <1>1, <1>7, <1>8, GrowsStep DEF Inv, Files
<1>10. Operations' /\ ops' \in Seq(Op)
  BY <1>1, <1>9, OpsSame DEF Inv, TypeOK
<1>11. Sending' /\ flight' \in Flight /\ again' \in Request
  <2>1. /\ flight' \in Flight /\ flight'.at = "taken" /\ flight'.req = flight.req
        /\ flight'.left = flight.left /\ flight'.refused = flight.refused
    BY <1>1, <1>2 DEF Flight
  <2>2. Chunk' = Chunk
    BY <2>1, ChunkSame
  <2>3. /\ Ordered(flight.left, server'[c] \cup denied) /\ Elements(flight.left) \subseteq Own(c)
        /\ flight.left # <<>> /\ flight.refused \subseteq denied
    <3>1. /\ Ordered(flight.left, Done(c)) /\ Elements(flight.left) \subseteq Own(c)
          /\ flight.left # <<>> /\ flight.refused \subseteq denied
      BY <1>1 DEF Inv, Sending
    <3>2. Done(c) \subseteq server'[c] \cup denied
      BY <1>2, <1>3 DEF Done
    <3> QED
      BY <3>1, <3>2, OrderedMore
  <2>4. Elements(Chunk) \subseteq server'[c]
    BY <1>2, <1>3
  <2>5. Fresh(flight.req)' /\ Fresh(again)' /\ again' \in Request
    BY <1>1, <2>1 DEF Inv, Sending, Fresh, TypeOK
  <2> QED
    BY <1>1, <1>2, <2>1, <2>2, <2>3, <2>4, <2>5 DEF Sending, Done
<1>12. /\ Answers' /\ call' \in Call /\ linked' \in BOOLEAN
       /\ (conv' = None => ~linked' /\ call'.at = "none")
  BY <1>1, <1>3, LinkSame DEF Inv
<1>13. TypeOK'
  BY <1>1, <1>3, <1>10, <1>11, <1>12 DEF Inv, TypeOK
<1> QED
  BY <1>4, <1>5, <1>9, <1>10, <1>11, <1>12, <1>13 DEF Inv

LEMMA CloudRefusesKeeps ==
    ASSUME Inv, CloudRefuses
    PROVE  Inv'
<1> DEFINE c == flight.req.conv
<1>1. /\ flight.at = "sending"
      /\ flight' = [flight EXCEPT !.at = "writing",
                                  !.refused = flight.refused \cup Elements(Chunk)]
      /\ denied' = denied \cup Elements(Chunk)
      /\ UNCHANGED <<link, backoff, memory, ops, again, disk, log, server, conv>>
      /\ UNCHANGED <<acked, refused, pending, kept, loaded, outbox, rejects>>
  BY DEF CloudRefuses, link, memory, disk
<1>2. /\ c \in Conversations /\ Elements(Chunk) \subseteq Own(c)
      /\ Elements(Chunk) \subseteq Entries
      /\ flight \in Flight /\ flight.refused \subseteq denied /\ flight.refused \subseteq Entries
  BY <1>1, SendingIs
<1>3. denied \subseteq denied' /\ Elements(Chunk) \subseteq denied' /\ denied' \subseteq Entries
  BY <1>1, <1>2 DEF Inv, TypeOK
<1>4. OwnEntriesOnly' /\ ParentsFirst'
  BY <1>1, <1>3 DEF Inv, OwnEntriesOnly, ParentsFirst
<1>6. conv # None => Ordered(pending, server[conv] \cup denied')
  <2> SUFFICES ASSUME conv # None
               PROVE  Ordered(pending, server[conv] \cup denied')
    OBVIOUS
  <2>1. Ordered(pending, Done(conv)) /\ Done(conv) \subseteq server[conv] \cup denied'
    BY <1>3 DEF Inv, Memory, Done
  <2> QED
    BY <2>1, OrderedMore
<1>7. Grows
  BY <1>1, <1>3, <1>6 DEF Grows, Inv, TypeOK
<1>8. conv # None => acked' \subseteq server'[conv] /\ refused' \subseteq denied'
  BY <1>1, <1>3 DEF Inv, Memory
<1>9. /\ Memory' /\ Files' /\ \A req : Fresh(req) => Fresh(req)'
      /\ \A op \in Op : OpSound(op) => OpSound(op)'
  <2>1. \A d \in Conversations : rejects'[d] \subseteq denied'
    BY <1>1, <1>3 DEF Inv, Files
  <2> QED
    BY <1>7, <1>8, <2>1, GrowsStep DEF Inv
<1>10. Operations' /\ ops' \in Seq(Op)
  BY <1>1, <1>9, OpsSame DEF Inv, TypeOK
<1>11. Sending' /\ flight' \in Flight /\ again' \in Request
  <2>1. /\ flight' \in Flight /\ flight'.at = "writing" /\ flight'.req = flight.req
        /\ flight'.left = flight.left /\ flight'.refused = flight.refused \cup Elements(Chunk)
    <3>1. flight.refused \cup Elements(Chunk) \subseteq Entries
      BY <1>2
    <3> QED
      BY <1>1, <1>2, <3>1 DEF Flight
  <2>2. Chunk' = Chunk
    BY <2>1, ChunkSame
  <2>3. /\ Ordered(flight.left, server[c] \cup denied') /\ Elements(flight.left) \subseteq Own(c)
        /\ flight.left # <<>>
    <3>1. /\ Ordered(flight.left, Done(c)) /\ Elements(flight.left) \subseteq Own(c)
          /\ flight.left # <<>>
      BY <1>1 DEF Inv, Sending
    <3>2. Done(c) \subseteq server[c] \cup denied'
      BY <1>3 DEF Done
    <3> QED
      BY <3>1, <3>2, OrderedMore
  <2>4. flight'.refused \subseteq denied'
    BY <1>2, <1>3, <2>1
  <2>5. Fresh(flight.req)' /\ Fresh(again)' /\ again' \in Request
    BY <1>1, <2>1 DEF Inv, Sending, Fresh, TypeOK
  <2> QED
    BY <1>1, <1>2, <1>3, <2>1, <2>2, <2>3, <2>4, <2>5 DEF Sending, Done
<1>12. /\ Answers' /\ call' \in Call /\ linked' \in BOOLEAN
       /\ (conv' = None => ~linked' /\ call'.at = "none")
  BY <1>1, <1>3, LinkSame DEF Inv
<1>13. TypeOK'
  BY <1>1, <1>3, <1>10, <1>11, <1>12 DEF Inv, TypeOK
<1> QED
  BY <1>4, <1>9, <1>10, <1>11, <1>12, <1>13 DEF Inv

-----------------------------------------------------------------------------
\* The chunk of the current link is with the cloud, or was refused for good: nothing of it
\* is pending any longer.
LEMMA SettledStep ==
    ASSUME Inv, Settled, Current(flight.req), flight.at \in {"sending", "taken", "writing"},
           Elements(Chunk) \subseteq Done(conv),
           UNCHANGED <<conv, kept, loaded, outbox, server, denied>>,
           acked' \subseteq server[conv], refused' \subseteq denied,
           \A c \in Conversations : rejects'[c] \subseteq denied
    PROVE  /\ Memory' /\ Files' /\ Operations' /\ ops' \in Seq(Op)
           /\ Sending' /\ flight' \in Flight /\ again' \in Request /\ pending' \in Seq(Entries)
<1>1. /\ flight.req \in Request /\ conv \in Conversations /\ flight.req.conv = conv /\ conv # None
      /\ Fresh(flight.req)
  BY SendingIs DEF Inv, TypeOK, Sending, Fresh, Current
<1>2. pending \in Seq(Entries) /\ Ordered(pending, Done(conv))
  BY <1>1 DEF Inv, TypeOK, Memory
<1>3. pending' = Minus(pending, Elements(Chunk))
  BY DEF Settled
<1>4. /\ pending' \in Seq(Entries) /\ Elements(pending') = Elements(pending) \ Elements(Chunk)
      /\ Ordered(pending', Done(conv) \cup Elements(Chunk))
  BY <1>2, <1>3, MinusLeaves
<1>5. Done(conv) \cup Elements(Chunk) = Done(conv)
  OBVIOUS
<1>6. Grows
  BY <1>4, <1>5 DEF Grows, Done
<1>7. /\ Memory' /\ Files' /\ \A op \in Op : OpSound(op) => OpSound(op)'
  BY <1>6, GrowsStep DEF Inv
<1>8. CASE Rest = <<>>
  <2>1. Clears(flight.req)
    BY <1>8 DEF Settled
  <2> QED
    BY <1>1, <1>4, <1>7, <2>1, ClearsStep DEF Inv
<1>9. CASE Rest # <<>>
  <2>1. flight' = [flight EXCEPT !.at = "sending", !.left = Rest] /\ UNCHANGED <<ops, again>>
    BY <1>9 DEF Settled
  <2>2. Operations' /\ ops' \in Seq(Op)
    BY <1>7, <2>1, OpsSame DEF Inv, TypeOK
  <2>3. /\ Rest \in Seq(Entries) /\ Elements(Rest) \subseteq Own(conv)
        /\ Ordered(Rest, Done(conv)) /\ flight.refused \subseteq denied /\ flight \in Flight
    BY <1>1, <1>5, SendingIs
  <2>4. /\ flight' \in Flight /\ flight'.at = "sending" /\ flight'.left = Rest
        /\ flight'.req = flight.req /\ flight'.refused = flight.refused
    BY <2>1, <2>3 DEF Flight
  <2>5. Fresh(flight.req)' /\ Fresh(again)' /\ again' \in Request
    BY <2>1, <2>4 DEF Inv, Sending, Fresh, TypeOK
  <2>6. Sending'
    BY <1>1, <1>9, <2>3, <2>4, <2>5 DEF Sending, Done
  <2> QED
    BY <1>4, <1>7, <2>2, <2>4, <2>5, <2>6
<1> QED
  BY <1>8, <1>9

LEMMA AcknowledgedKeeps ==
    ASSUME Inv, Acknowledged
    PROVE  Inv'
<1> DEFINE c == flight.req.conv
<1>1. /\ flight.at = "taken" /\ backoff' \in {"due", "ahead"}
      /\ UNCHANGED <<link, backoff, refused, kept, loaded, disk, log, cloud, conv>>
      /\ UNCHANGED <<outbox, rejects, server, denied>>
  BY DEF Acknowledged, link, disk, cloud, Inv, TypeOK
<1>2. CASE ~Current(flight.req)
  <2>1. Returns /\ UNCHANGED <<memory, ops>>
    BY <1>1, <1>2 DEF Acknowledged, memory
  <2>2. Sending' /\ flight' \in Flight /\ again' \in Request
    BY <1>1, <2>1, ReturnsStep DEF Inv
  <2> QED
    BY <1>1, <2>1, <2>2, Stands, OpsStand, LinkStands, LogStands
<1>3. CASE Current(flight.req)
  <2>1. acked' = acked \cup Elements(Chunk) /\ Settled
    BY <1>3 DEF Acknowledged
  <2>2. /\ c = conv /\ conv # None /\ Elements(Chunk) \subseteq server[conv]
        /\ acked \subseteq server[conv] /\ refused \subseteq denied
    BY <1>1, <1>3 DEF Inv, Sending, Fresh, Current, Memory
  <2>3. \A d \in Conversations : rejects'[d] \subseteq denied
    BY <1>1 DEF Inv, Files
  <2>4. acked' \subseteq server[conv] /\ refused' \subseteq denied
        /\ Elements(Chunk) \subseteq Done(conv)
    BY <1>1, <2>1, <2>2 DEF Done
  <2>5. /\ Memory' /\ Files' /\ Operations' /\ ops' \in Seq(Op)
        /\ Sending' /\ flight' \in Flight /\ again' \in Request /\ pending' \in Seq(Entries)
    BY <1>1, <1>3, <2>1, <2>3, <2>4, SettledStep
  <2>6. acked' \subseteq Entries
    BY <1>1, <2>1, SendingIs DEF Inv, TypeOK
  <2>7. /\ Answers' /\ call' \in Call /\ linked' \in BOOLEAN
        /\ (conv' = None => ~linked' /\ call'.at = "none")
    BY <1>1, LinkStands
  <2>8. TypeOK'
    BY <1>1, <2>5, <2>6, <2>7 DEF Inv, TypeOK
  <2> QED
    BY <1>1, <2>5, <2>7, <2>8, CloudStands DEF Inv
<1> QED
  BY <1>2, <1>3

LEMMA RejectsWrittenKeeps ==
    ASSUME Inv, RejectsWritten
    PROVE  Inv'
<1> DEFINE c == flight.req.conv
<1>1. /\ flight.at = "writing" /\ backoff' \in {"due", "ahead"}
      /\ rejects' = [rejects EXCEPT ![c] = flight.refused]
      /\ UNCHANGED <<link, backoff, acked, kept, loaded, outbox, log, cloud, conv>>
      /\ UNCHANGED <<server, denied>>
  BY DEF RejectsWritten, link, cloud, Inv, TypeOK
<1>2. /\ c \in Conversations /\ flight.refused \subseteq denied /\ flight.refused \subseteq Entries
  BY <1>1, SendingIs
<1>3. /\ rejects' \in [Conversations -> SUBSET Entries]
      /\ \A d \in Conversations : rejects'[d] \subseteq denied
  <2>1. /\ rejects \in [Conversations -> SUBSET Entries]
        /\ \A d \in Conversations : rejects[d] \subseteq denied
    BY DEF Inv, TypeOK, Files
  <2> QED
    BY <1>1, <1>2, <2>1
<1>4. /\ Memory' /\ Files' /\ Operations' /\ ops' \in Seq(Op) /\ refused' \subseteq Entries
      /\ Sending' /\ flight' \in Flight /\ again' \in Request /\ pending' \in Seq(Entries)
  <2>1. CASE Current(flight.req)
    <3>1. refused' = flight.refused /\ Settled
      BY <2>1 DEF RejectsWritten
    <3>2. /\ c = conv /\ conv # None /\ Elements(Chunk) \subseteq denied
          /\ acked \subseteq server[conv]
      BY <1>1, <2>1 DEF Inv, Sending, Fresh, Current, Memory
    <3>3. /\ acked' \subseteq server[conv] /\ refused' \subseteq denied
          /\ Elements(Chunk) \subseteq Done(conv)
      BY <1>1, <1>2, <3>1, <3>2 DEF Done
    <3> QED
      BY <1>1, <1>2, <1>3, <2>1, <3>1, <3>3, SettledStep
  <2>2. CASE ~Current(flight.req)
    <3>1. Returns /\ UNCHANGED <<refused, pending, ops>>
      BY <2>2 DEF RejectsWritten
    <3>2. Sending' /\ flight' \in Flight /\ again' \in Request
      BY <1>1, <3>1, ReturnsStep DEF Inv
    <3>3. Memory' /\ Files'
      BY <1>1, <1>3, <3>1 DEF Inv, Memory, Files, Done
    <3>4. \A op \in Op : OpSound(op) => OpSound(op)'
      BY <1>1, <3>1 DEF OpSound, Fresh, Done, Current
    <3>5. Operations' /\ ops' \in Seq(Op)
      BY <3>1, <3>4, OpsSame DEF Inv, TypeOK
    <3> QED
      BY <1>1, <3>1, <3>2, <3>3, <3>5 DEF Inv, TypeOK
  <2> QED
    BY <2>1, <2>2
<1>5. /\ Answers' /\ call' \in Call /\ linked' \in BOOLEAN
      /\ (conv' = None => ~linked' /\ call'.at = "none")
  BY <1>1, LinkStands
<1>6. OwnEntriesOnly' /\ ParentsFirst'
  BY <1>1 DEF Inv, OwnEntriesOnly, ParentsFirst
<1>7. TypeOK'
  BY <1>1, <1>3, <1>4, <1>5 DEF Inv, TypeOK
<1> QED
  BY <1>4, <1>5, <1>6, <1>7 DEF Inv

-----------------------------------------------------------------------------
(* The invariant, and what follows from it.                                 *)

LEMMA InvInit ==
    ASSUME Init
    PROVE  Inv
<1>1. TypeOK
  <2>1. call \in Call /\ call.at = "none"
    BY DEF Init, NoCall, Call
  <2>2. flight \in Flight /\ again \in Request
    BY BegunIs DEF Init
  <2>3. ops \in Seq(Op)
    <3>1. <<>> \in Seq(Op)
      OBVIOUS
    <3> QED
      BY <3>1 DEF Init
  <2>4. log \in [Conversations -> Nat] /\ \A c \in Conversations : log[c] <= MaxEntries[c]
    BY MirrorAssumption DEF Init
  <2>5. /\ server \in [Conversations -> SUBSET Entries]
        /\ rejects \in [Conversations -> SUBSET Entries]
        /\ outbox \in [Conversations -> Seq(Entries)] /\ pending \in Seq(Entries)
    BY EmptyIs DEF Init
  <2> QED
    BY <2>1, <2>2, <2>3, <2>4, <2>5 DEF Init, TypeOK
<1>2. Memory /\ Answers
  BY DEF Init, Memory, Answers, NoCall
<1>3. Files
  BY EmptyIs DEF Init, Files
<1>4. Operations
  <2>1. DOMAIN <<>> = {}
    OBVIOUS
  <2> QED
    BY <2>1 DEF Init, Operations
<1>5. Sending
  BY BegunIs DEF Init, Sending, Fresh
<1>6. OwnEntriesOnly /\ ParentsFirst
  BY DEF Init, OwnEntriesOnly, ParentsFirst
<1> QED
  BY <1>1, <1>2, <1>3, <1>4, <1>5, <1>6 DEF Inv

LEMMA InvStutter ==
    ASSUME Inv, UNCHANGED vars
    PROVE  Inv'
<1>1. UNCHANGED <<link, backoff, memory, ops, flight, again, disk, log, cloud, conv>>
  BY DEF vars, link
<1>2. backoff' \in {"due", "ahead"}
  BY <1>1 DEF Inv, TypeOK
<1> QED
  BY <1>1, <1>2, Stands, OpsStand, FlightStands, LinkStands, LogStands

LEMMA InvStep ==
    ASSUME Inv, [Next]_vars
    PROVE  Inv'
<1>1. ASSUME NEW c \in Conversations, Link(c) \/ Entry(c) PROVE Inv'
  BY <1>1, LinkKeeps, EntryKeeps
<1>2. CASE Unlink \/ Flush \/ BackoffPasses
  BY <1>2, UnlinkKeeps, FlushKeeps, BackoffPassesKeeps
<1>3. CASE Stage
  BY <1>3, StageBeginsKeeps, StageReadsKeeps, StageAppendsKeeps DEF Stage
<1>4. CASE Clear
  BY <1>4, ClearBeginsKeeps, ClearSkippedKeeps, ClearedKeeps DEF Clear
<1>5. CASE Linking
  BY <1>5, ListAnsweredKeeps, RejectedReadKeeps, LinkedKeeps DEF Linking
<1>6. CASE Delivery
  BY <1>6, DeliverKeeps, DeliverLinksKeeps, DeliverLinkStaleKeeps, AcknowledgedKeeps,
     RejectsWrittenKeeps DEF Delivery
<1>7. CASE Cloud
  BY <1>7, CloudTakesKeeps, CloudRefusesKeeps DEF Cloud
<1>8. CASE Failure
  BY <1>8, ListFailsKeeps, SendFailsKeeps, CrashKeeps DEF Failure
<1>9. CASE UNCHANGED vars
  BY <1>9, InvStutter
<1> QED
  BY <1>1, <1>2, <1>3, <1>4, <1>5, <1>6, <1>7, <1>8, <1>9 DEF Next

\* The inductive invariant holds in every reachable state.
THEOREM Invariance == Spec => []Inv
<1>1. Init => Inv
  BY InvInit
<1>2. Inv /\ [Next]_vars => Inv'
  BY InvStep
<1> QED
  BY <1>1, <1>2, PTL DEF Spec

\* The variables keep their types: no call is under way and no link is made while the
\* mirror belongs to no conversation, and no session passes its bound.
THEOREM TypeCorrect == Spec => []TypeOK
<1>1. Inv => TypeOK
  BY DEF Inv
<1> QED
  BY <1>1, Invariance, PTL

\* Whatever a process has yet to deliver is in the outbox file of its conversation: it is
\* appended before it is pending, and the file is removed only while nothing is pending
\* and nothing else is at work on it. A process that is killed at any moment leaves an
\* outbox from which the next one goes on.
THEOREM NothingPendingIsLost == Spec => []PendingIsOnDisk
<1>1. Inv => PendingIsOnDisk
  BY DEF Inv, Memory, PendingIsOnDisk
<1> QED
  BY <1>1, Invariance, PTL

\* What the mirror counts as acknowledged the cloud has, and what it counts as rejected
\* the cloud refused, whichever answers came late, to an earlier link, or never, and
\* whatever of the file of rejected entries was torn. Otherwise it would never be sent.
THEOREM AcksAreTrue == Spec => []AckedIsMirrored
<1>1. Inv => AckedIsMirrored
  BY DEF Inv, Memory, AckedIsMirrored
<1> QED
  BY <1>1, Invariance, PTL

\* No conversation ever gets an entry of another session, though the session may be
\* switched while a flush waits for the file and while a chunk is on its way.
THEOREM NoForeignEntries == Spec => []OwnEntriesOnly
<1>1. Inv => OwnEntriesOnly
  BY DEF Inv
<1> QED
  BY <1>1, Invariance, PTL

\* The cloud gets no entry before those it follows, but for those it refused: not with an
\* outbox that is read again, torn by a crash, or that holds a line twice, and not with
\* the chunks of a delivery that began before the last flush.
THEOREM ParentsPrecede == Spec => []ParentsFirst
<1>1. Inv => ParentsFirst
  BY DEF Inv
<1> QED
  BY <1>1, Invariance, PTL
=============================================================================
