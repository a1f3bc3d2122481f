------------------------- MODULE RemoteSessionProofs -------------------------
(***************************************************************************)
(* Proofs about a remote session (RemoteSession.tla): for any terminals,   *)
(* links, sizes and output, whatever links are lost and hosts killed, a    *)
(* host is not taken for dead, a run starts one agent and takes none back, *)
(* and what the client of the host is told and shown is true and whole.    *)
(***************************************************************************)
EXTENDS RemoteSession, SequenceTheorems, TLAPS

LastOf(s) == s[Len(s)]
Farewells == {"exit", "replaced", "detach"}
Early == {"dialing", "clearing", "spawning", "offered"}

\* A link by itself: a bridge that is not served has been sent nothing, a welcome is the
\* first frame and a farewell the last, and the outputs between follow each other.
Sound(l) ==
    /\ l \in Link
    /\ l.at = "none" <=> l = NoLink
    /\ l.at # "none" => l.run \in Runs /\ l.end # "none"
    /\ l.at \in Early => l.frames = <<>> /\ l.size \in Windows
    /\ l.left => l.end # "up"
    /\ l.end # "up" => l.frames = <<>>
    /\ l.at = "shut" /\ ~l.fault /\ l.frames # <<>> => LastOf(l.frames).kind \in Farewells
    /\ \A i \in DOMAIN l.frames :
         /\ l.frames[i].kind = "welcome" => i = 1 /\ l.frames[i].session # "none"
         /\ l.frames[i].kind \in Farewells => i = Len(l.frames) /\ l.at = "shut"
    /\ \A i \in 1..(Len(l.frames) - 1) :
         l.frames[i].kind = "output" /\ l.frames[i + 1].kind = "output"
           => l.frames[i + 1].n = (l.frames[i].n + 1) % Chunks
AllSound == \A k \in Links : Sound(link[k])

\* Types of the rest, and who has the lock.
Typed ==
    /\ term \in [Runs -> Run] /\ window \in [Runs -> Windows] /\ link \in [Links -> Link]
    /\ lock \in {"free", "host"} \cup Links /\ socket \in {"none", "stale", "served"}
    /\ exit \in Agents /\ spawned \in 0..MaxSpawned
    /\ host \in [at : {"down", "serving", "finishing", "stopping"}, client : Links \cup {None}]
    /\ agent \in Agents /\ output \in Nat /\ output <= Chunks
    /\ size \in Windows \cup {None} /\ pty \in Windows \cup {Squeezed, None}
    /\ jiggle \in Windows \cup {None}
    /\ owner \in Agents /\ starts \in Seq(Runs)
Locked ==
    /\ \A k \in Links : link[k].at = "clearing" <=> lock = k
    /\ host.at # "down" => lock = "host" /\ socket = "served"

\* The host serves its client and nobody else, and has an agent for it, which draws at
\* the size that the host keeps or will be given it back.
Served ==
    /\ \A k \in Links : link[k].at = "served" <=> host.client = k
    /\ host.client # None => host.at \in {"serving", "finishing"} /\ agent # None
    /\ agent = None <=> pty = None
    /\ agent = None <=> size = None
    /\ jiggle \in {None, size} /\ (jiggle = None => pty = size)

\* A run r with frames fs to hear is about to be welcomed; the agent it will then know.
Welcomed(fs) == fs # <<>> /\ Head(fs).kind = "welcome"
Knows(r, fs) == IF Welcomed(fs) THEN Head(fs).of ELSE r.with

Started(a) == \E i \in DOMAIN starts : starts[i] = a
\* A run and its link, which are in step.
InStep(c) ==
    LET r == term[c]  l == link[r.link]
    IN  /\ r.at \in {"asking", "attached"} <=> r.link # None
        /\ r.at \in {"idle", "done"} => r.session = "none"
        /\ r.at = "away" => r.session # "none"
        /\ r.session # "none" => Started(r.with)
        /\ r.shown # None => r.at = "attached"
        /\ r.link # None =>
             /\ l.run = c /\ l.end \in {"up", "cut"}
             /\ l.at \in Early => (l.resume = "none" <=> r.session = "none")
        /\ r.at = "asking" /\ l.frames # <<>> => Head(l.frames).kind # "output"
        /\ r.at = "attached" =>
             /\ r.session # "none" /\ l.at \in {"served", "shut"}
             /\ l.end = "up" /\ l.at = "shut" /\ ~l.fault => l.frames # <<>>
Own == /\ \A c \in Runs : InStep(c)
       /\ \A k \in Links : link[k].end \in {"up", "cut"} => term[link[k].run].link = k

\* A session that counts is that of the run that attached last.
Sessions ==
    /\ \A c \in Runs : term[c].session = "current" => owner = c
    /\ \A k \in Links : link[k].resume = "current" => owner = link[k].run
    /\ \A k \in Links : Welcomed(link[k].frames) /\ Head(link[k].frames).session = "current"
                          => owner = link[k].run

\* The first attempt of a run is its only one without a session.
First(k) == link[k].at \in Early /\ link[k].resume = "none"
Firsts ==
    /\ OneStartPerRun
    /\ \A c \in Runs : term[c].at = "idle" => ~Started(c) /\ \A k \in Links : link[k].run # c
    /\ \A k \in Links : First(k) => ~Started(link[k].run)
    /\ \A k, l \in Links : First(k) /\ First(l) /\ link[k].run = link[l].run => k = l

\* The agent is the one started last, and so is that of the exit code.
Latest ==
    /\ agent # None => starts # <<>> /\ agent = LastOf(starts)
    /\ exit # None => starts # <<>> /\ exit = LastOf(starts)
    /\ \A k \in Links : Welcomed(link[k].frames) => Started(Head(link[k].frames).of)

\* The client of the host shows what comes next.
Streams == \A c \in Runs :
    LET k == term[c].link  fs == link[k].frames
    IN  k # None /\ link[k].end = "up" =>
          /\ term[c].shown # None /\ fs # <<>> /\ Head(fs).kind = "output"
               => Head(fs).n = (term[c].shown + 1) % Chunks
          /\ host.client = k /\ fs # <<>> /\ LastOf(fs).kind = "output"
               => output = (LastOf(fs).n + 1) % Chunks
          /\ host.client = k /\ fs = <<>> /\ term[c].shown # None
               => output = (term[c].shown + 1) % Chunks

\* Agent a was started, and that of an exit code was not started before it.
Truth(a, of) ==
    \E i \in DOMAIN starts :
        /\ starts[i] = a
        /\ of # None => \E j \in DOMAIN starts : starts[j] = of /\ i <= j
\* What the client of the host knows is the agent, and an exit code that a run is about to
\* hear is true of the agent it knows.
Believed == \A c \in Runs :
    LET r == term[c]  k == r.link  fs == link[k].frames
    IN  k # None /\ link[k].end = "up" =>
          /\ host.client = k => (r.at = "asking" <=> Welcomed(fs)) /\ Knows(r, fs) = agent
          /\ fs # <<>> /\ LastOf(fs).kind = "exit" /\ (Welcomed(fs) \/ r.session # "none")
               => agent # Knows(r, fs) /\ Truth(Knows(r, fs), LastOf(fs).of)

\* The size a client has asked for last is that of its terminal.
Sized == \A c \in Runs :
    LET k == term[c].link
    IN  term[c].at = "attached" /\ link[k].end = "up" /\ host.client = k =>
          window[c] = IF link[k].asked = None THEN size ELSE link[k].asked

Inv == /\ Typed /\ AllSound /\ Locked /\ Served /\ Own /\ Sessions /\ Firsts /\ Latest
       /\ Streams /\ Believed /\ Sized

-----------------------------------------------------------------------------
(* Frames and sequences of them.                                            *)

LEMMA Appending ==
    ASSUME NEW S, NEW s \in Seq(S), NEW x \in S
    PROVE  /\ Append(s, x) \in Seq(S) /\ Append(s, x) # <<>>
           /\ Len(Append(s, x)) = Len(s) + 1 /\ LastOf(Append(s, x)) = x
           /\ \A i \in 1..Len(s) : Append(s, x)[i] = s[i]
           /\ Append(s, x)[Len(s) + 1] = x
           /\ Head(Append(s, x)) = IF s = <<>> THEN x ELSE Head(s)
BY DEF LastOf

LEMMA Tailing ==
    ASSUME NEW S, NEW s \in Seq(S), s # <<>>
    PROVE  /\ Tail(s) \in Seq(S) /\ Len(Tail(s)) = Len(s) - 1 /\ Len(s) \in Nat \ {0}
           /\ Head(s) = s[1] /\ Head(s) \in S /\ LastOf(s) \in S
           /\ \A i \in 1..(Len(s) - 1) : Tail(s)[i] = s[i + 1]
           /\ Tail(s) # <<>> => LastOf(Tail(s)) = LastOf(s) /\ Head(Tail(s)) = s[2] /\ Len(s) > 1
           /\ Tail(s) = <<>> => LastOf(s) = Head(s) /\ Len(s) = 1
<1>1. Len(s) \in Nat \ {0} /\ Head(s) = s[1] /\ \A i \in 1..Len(s) : s[i] \in S
  OBVIOUS
<1>2. Tail(s) \in Seq(S) /\ Len(Tail(s)) = Len(s) - 1
      /\ \A i \in 1..(Len(s) - 1) : Tail(s)[i] = s[i + 1]
  OBVIOUS
<1>3. Tail(s) # <<>> <=> Len(s) > 1
  <2>1. Tail(s) = <<>> <=> Len(Tail(s)) = 0
    BY <1>2, EmptySeq
  <2> QED
    BY <1>1, <1>2, <2>1
<1>4. Tail(s) # <<>> => Head(Tail(s)) = s[2]
  BY <1>1, <1>2, <1>3
<1> QED
  BY <1>1, <1>2, <1>3, <1>4 DEF LastOf

LEMMA Frames ==
    ASSUME NEW f \in Frame
    PROVE  /\ f.kind \in {"welcome", "output"} \cup Farewells
           /\ f.kind = "welcome" => f.session \in Session /\ f.of \in Runs
           /\ f.kind = "output" => f.n \in 0..Chunks
           /\ f.kind = "exit" => f.of \in Agents
           /\ StaledFrame(f) \in Frame
           /\ StaledFrame(f).kind = f.kind
           /\ f.kind # "welcome" => StaledFrame(f) = f
           /\ f.kind = "welcome" => StaledFrame(f).of = f.of /\ StaledFrame(f).session = "stale"
<1>1. CASE f \in [kind : {"welcome"}, session : Session, of : Runs]
  BY <1>1 DEF Frame, Session, StaledFrame, Farewells
<1>2. CASE f \in {Output(n) : n \in 0..Chunks}
  BY <1>2 DEF Frame, Output, StaledFrame, Farewells
<1>3. CASE f \in {Exit(a) : a \in Agents} \cup {Replaced, Detach}
  BY <1>3 DEF Frame, Exit, Replaced, Detach, StaledFrame, Farewells
<1> QED
  BY <1>1, <1>2, <1>3 DEF Frame

LEMMA FrameTypes ==
    /\ \A a \in Runs : Welcome(a) \in Frame /\ Welcome(a).kind = "welcome" /\ Welcome(a).of = a
                       /\ Welcome(a).session = "current"
    /\ \A n \in 0..Chunks : Output(n) \in Frame /\ Output(n).kind = "output" /\ Output(n).n = n
    /\ \A a \in Agents : Exit(a) \in Frame /\ Exit(a).kind = "exit" /\ Exit(a).of = a
    /\ {Replaced, Detach} \subseteq Frame
    /\ Replaced.kind = "replaced" /\ Detach.kind = "detach"
BY DEF Frame, Welcome, Output, Exit, Replaced, Detach, Session

LEMMA LinkTypes ==
    ASSUME NEW l \in Link
    PROVE  /\ l.frames \in Seq(Frame) /\ l.run \in Agents /\ l.asked \in Windows \cup {None}
           /\ l.at \in {"none", "served", "shut"} \cup Early /\ l.end \in {"none", "up", "cut", "gone"}
           /\ l.resume \in Session /\ l.size \in Windows \cup {None}
BY DEF Link, Early

LEMMA NoLinkSound == NoLink \in Link /\ Sound(NoLink)
<1>1. NoLink \in Link
  BY DEF NoLink, Link, Agents, Session
<1> QED
  BY <1>1 DEF NoLink, Sound, Early

-----------------------------------------------------------------------------
(* What a step does to a link.                                              *)

\* A link goes on: it keeps its run, its session and its side of the run, or is forgotten or
\* cut. What is on its way to the run stays, and at most a farewell follows.
Tame(l, m) ==
    /\ m = NoLink => l.end \in {"none", "gone"}
    /\ m # NoLink =>
         /\ m.run = l.run /\ m.resume = l.resume
         /\ m.end = l.end \/ (l.end = "up" /\ m.end = "cut")
         /\ m.at \in Early => l.at \in Early
         /\ m.at = "served" => l.at = "served"
         /\ l.at \in {"served", "shut"} => m.at \in {"served", "shut"}
    /\ m.end = "up" =>
         \/ /\ m.frames = l.frames
            /\ m.at = "shut" /\ l.at # "shut" /\ ~m.fault => l.at \in Early
            /\ l.at = "shut" /\ ~m.fault => ~l.fault
         \/ /\ m.at = "shut" /\ l.at # "shut"
            /\ \E f \in Frame : f.kind \in Farewells /\ m.frames = Append(l.frames, f)

LEMMA TameAlone ==
    ASSUME NEW l, Sound(l)
    PROVE  Tame(l, l)
BY DEF Tame, Sound, NoLink

\* The frames of a link are left as they are.
LEMMA FramesStay ==
    ASSUME NEW l, Sound(l), l.at # "none", NEW m \in Link, m.at # "none",
           m.run = l.run, m.resume = l.resume, m.end = l.end, m.frames = l.frames,
           m.at \in Early => l.at \in Early /\ m.size = l.size,
           m.at = "served" => l.at = "served",
           l.at \in {"served", "shut"} => m.at \in {"served", "shut"},
           l.at = "shut" => m.at = "shut",
           l.fault => m.fault,
           m.left => l.left \/ l.end # "up",
           m.at = "shut" /\ l.at = "served" /\ l.end = "up" => m.fault
    PROVE  Sound(m) /\ Tame(l, m)
<1>1. m # NoLink /\ l \in Link /\ l # NoLink
  BY DEF NoLink, Sound
<1>2. m.at \in {"none", "served", "shut"} \cup Early /\ l.at \in {"none", "served", "shut"} \cup Early
  BY <1>1, LinkTypes
<1>3. Sound(m)
  BY <1>1, <1>2 DEF Sound, Early
<1>4. Tame(l, m)
  BY <1>1, <1>2 DEF Tame, Early
<1> QED
  BY <1>3, <1>4

\* A farewell is sent and the link closed.
LEMMA FarewellSent ==
    ASSUME NEW l, Sound(l), l.at \in {"offered", "served"}, l.end = "up", NEW f \in Frame,
           f.kind \in Farewells, NEW m \in Link, m.at = "shut", m.run = l.run,
           m.resume = l.resume, m.end = l.end, m.frames = Append(l.frames, f), m.left = l.left
    PROVE  Sound(m) /\ Tame(l, m)
<1>1. m # NoLink /\ l \in Link /\ l # NoLink
  BY DEF NoLink, Sound
<1>2. l.frames \in Seq(Frame)
  BY <1>1, LinkTypes
<1>3. /\ m.frames # <<>> /\ Len(m.frames) = Len(l.frames) + 1 /\ LastOf(m.frames) = f
      /\ \A i \in 1..Len(l.frames) : m.frames[i] = l.frames[i]
      /\ m.frames[Len(l.frames) + 1] = f /\ Len(l.frames) \in Nat
      /\ DOMAIN l.frames = 1..Len(l.frames) /\ DOMAIN m.frames = 1..(Len(l.frames) + 1)
  BY <1>2, Appending
<1>4. \A i \in 1..Len(l.frames) : l.frames[i].kind \notin Farewells
  BY <1>3 DEF Sound
<1>5. Sound(m)
  <2>1. \A i \in DOMAIN m.frames :
          /\ m.frames[i].kind = "welcome" => i = 1 /\ m.frames[i].session # "none"
          /\ m.frames[i].kind \in Farewells => i = Len(m.frames)
    BY <1>3, <1>4 DEF Sound, Farewells
  <2>2. ASSUME NEW i \in 1..(Len(m.frames) - 1),
               m.frames[i].kind = "output", m.frames[i + 1].kind = "output"
        PROVE  m.frames[i + 1].n = (m.frames[i].n + 1) % Chunks
    <3>1. i + 1 # Len(m.frames)
      BY <1>3, <2>2 DEF Farewells
    <3>2. i \in 1..(Len(l.frames) - 1) /\ i + 1 \in 1..Len(l.frames)
      BY <1>3, <3>1
    <3> QED
      BY <1>3, <2>2, <3>2 DEF Sound
  <2> QED
    BY <1>1, <1>3, <2>1, <2>2 DEF Sound, Early
<1>6. Tame(l, m)
  BY <1>1 DEF Tame, Early
<1> QED
  BY <1>5, <1>6

\* What is settled is the link, or none if the run is gone.
LEMMA Settling ==
    ASSUME NEW l, NEW m, Sound(m), Tame(l, m)
    PROVE  /\ Sound(Settled(m)) /\ Tame(l, Settled(m))
           /\ Settled(m).at = "served" <=> m.at = "served"
           /\ Settled(m).at = "clearing" <=> m.at = "clearing"
           /\ Settled(m) = m \/ (Settled(m) = NoLink /\ m.at = "shut" /\ m.end = "gone")
<1>1. NoLink.end = "none" /\ NoLink.at = "none"
  BY DEF NoLink
<1>2. m.at = "shut" /\ m.end = "gone" => Tame(l, NoLink)
  BY <1>1 DEF Tame
<1>3. (Settled(m) = NoLink /\ m.at = "shut" /\ m.end = "gone") \/ Settled(m) = m
  BY DEF Settled
<1>4. CASE Settled(m) = NoLink /\ m.at = "shut" /\ m.end = "gone"
  BY <1>1, <1>2, <1>4, NoLinkSound
<1>5. CASE Settled(m) = m
  <2>1. Sound(Settled(m)) /\ Tame(l, Settled(m))
    BY <1>5
  <2> QED
    BY <1>5, <2>1
<1> QED
  BY <1>3, <1>4, <1>5

\* A link is shut: it was not served, or its run has lost it, or the fault is noted.
LEMMA Shutting ==
    ASSUME NEW l, Sound(l), l.at # "none", NEW m, m \in Link, m.at # "none",
           m.run = l.run, m.resume = l.resume, m.end = l.end, m.frames = l.frames,
           l.fault => m.fault, m.left => l.left,
           l.at = "served" /\ l.end = "up" => m.fault
    PROVE  Sound(Shut(m)) /\ Tame(l, Shut(m)) /\ Shut(m).at \notin {"served", "clearing"}
<1> DEFINE n == [m EXCEPT !.at = "shut"]
<1>1. n \in Link
  BY DEF Link
<1>2. /\ n.at = "shut" /\ n.run = m.run /\ n.resume = m.resume /\ n.end = m.end
      /\ n.frames = m.frames /\ n.fault = m.fault /\ n.left = m.left
  BY DEF Link
<1> HIDE DEF n
<1>3. Sound(n) /\ Tame(l, n)
  BY <1>1, <1>2, FramesStay DEF Early
<1> QED
  BY <1>2, <1>3, Settling DEF Shut, n

\* A run drops its link.
LEMMA Dropping ==
    ASSUME NEW l, Sound(l), l.at # "none"
    PROVE  /\ Sound(Dropped(l))
           /\ Dropped(l) # NoLink =>
                /\ Dropped(l).run = l.run /\ Dropped(l).resume = l.resume
                /\ Dropped(l).end = "gone" /\ Dropped(l).at = l.at
           /\ Dropped(l).at = "served" <=> l.at = "served"
           /\ Dropped(l).at = "clearing" <=> l.at = "clearing"
           /\ Dropped(l).frames = <<>> /\ Dropped(l).end # "up"
<1> DEFINE n == [l EXCEPT !.end = "gone", !.frames = <<>>]
<1>1. l \in Link /\ l # NoLink
  BY DEF Sound
<1>2. n \in Link
  BY <1>1, <<>> \in Seq(Frame) DEF Link
<1>3. /\ n.at = l.at /\ n.run = l.run /\ n.resume = l.resume /\ n.end = "gone"
      /\ n.frames = <<>> /\ n.size = l.size /\ n.left = l.left
  BY <1>1 DEF Link
<1> HIDE DEF n
<1>4. Sound(n)
  BY <1>1, <1>2, <1>3 DEF Sound, NoLink
<1>5. Dropped(l) = n \/ (Dropped(l) = NoLink /\ n.at = "shut")
  BY DEF Dropped, Settled, n
<1>6. NoLink.at = "none" /\ NoLink.frames = <<>> /\ NoLink.end = "none"
  BY DEF NoLink
<1> QED
  BY <1>3, <1>4, <1>5, <1>6, NoLinkSound

\* A farewell, and the link is closed; a queue that is full is closed with a fault.
LEMMA Parting ==
    ASSUME NEW l, Sound(l), l.at \in {"offered", "served"}, NEW f \in Frame, f.kind \in Farewells
    PROVE  /\ Sound(Parted(l, f)) /\ Tame(l, Parted(l, f))
           /\ Parted(l, f).at \notin {"served", "clearing"}
           /\ Parted(l, f).end = "up" => Parted(l, f).frames \in {l.frames, Append(l.frames, f)}
<1>1. l \in Link /\ l.at # "none" /\ l.frames \in Seq(Frame) /\ l.end # "none"
  BY LinkTypes DEF Sound
<1>2. CASE ~Fits(l)
  <2> DEFINE m == [l EXCEPT !.fault = TRUE]
  <2>1. m \in Link
    BY <1>1 DEF Link
  <2>2. /\ m.at = l.at /\ m.run = l.run /\ m.resume = l.resume /\ m.end = l.end
        /\ m.frames = l.frames /\ m.fault /\ m.left = l.left
    BY <1>1 DEF Link
  <2>3. Parted(l, f) = Shut(m)
    BY <1>2 DEF Parted
  <2>4. Shut(m).frames = l.frames \/ Shut(m).end # "up"
    BY <1>1, <2>1, <2>2 DEF Shut, Settled, NoLink, Link
  <2> HIDE DEF m
  <2> QED
    BY <1>1, <2>1, <2>2, <2>3, <2>4, Shutting
<1>3. CASE Fits(l) /\ l.end # "up"
  <2>1. Parted(l, f) = Shut(l)
    BY <1>3 DEF Parted, Put
  <2>2. Shut(l).end # "up"
    BY <1>1, <1>3 DEF Shut, Settled, NoLink, Link
  <2> QED
    BY <1>1, <1>3, <2>1, <2>2, Shutting
<1>4. CASE Fits(l) /\ l.end = "up"
  <2> DEFINE m == [[l EXCEPT !.frames = Append(@, f)] EXCEPT !.at = "shut"]
  <2>1. m \in Link
    BY <1>1, Appending DEF Link
  <2>2. /\ m.at = "shut" /\ m.run = l.run /\ m.resume = l.resume /\ m.end = l.end
        /\ m.frames = Append(l.frames, f) /\ m.left = l.left
    BY <1>1 DEF Link
  <2>3. Parted(l, f) = Settled(m)
    BY <1>4 DEF Parted, Put, Shut
  <2> HIDE DEF m
  <2>4. Sound(m) /\ Tame(l, m)
    BY <1>4, <2>1, <2>2, FarewellSent
  <2>5. Settled(m) = m
    BY <1>4, <2>2 DEF Settled
  <2> QED
    BY <2>2, <2>3, <2>4, <2>5
<1> QED
  BY <1>2, <1>3, <1>4

\* What the host had yet to hear of a link ends with the host, and so does a link it served.
LEMMA Forgetting ==
    ASSUME NEW l, Sound(l), NEW m, m \in Link, m.at = l.at,
           m.run = l.run, m.resume = l.resume, m.end = l.end, m.frames = l.frames,
           m.size = l.size, m.left = l.left, l.fault => m.fault,
           l.at \notin {"offered", "served", "shut"} => m = l,
           l.at = "served" /\ l.end = "up" => m.fault
    PROVE  /\ Sound(Unheard(m)) /\ Tame(l, Unheard(m)) /\ Unheard(m).at # "served"
           /\ Unheard(m).at = "clearing" <=> l.at = "clearing"
           /\ Unheard(m).end = "up" => Unheard(m).frames = l.frames
<1>1. CASE l.at \notin {"offered", "served", "shut"}
  <2>1. Unheard(m) = l
    BY <1>1 DEF Unheard
  <2> QED
    BY <1>1, <2>1, TameAlone
<1>2. CASE l.at \in {"offered", "served", "shut"}
  <2> DEFINE n == [m EXCEPT !.left = FALSE, !.asked = None]
  <2>1. n \in Link
    BY DEF Link
  <2>2. /\ n.at = l.at /\ n.run = l.run /\ n.resume = l.resume /\ n.end = l.end
        /\ n.frames = l.frames /\ n.fault = m.fault /\ ~n.left
    BY DEF Link
  <2>3. Unheard(m) = Shut(n)
    BY <1>2 DEF Unheard
  <2>4. Shut(n).frames = l.frames \/ Shut(n).end # "up"
    BY <2>1, <2>2 DEF Shut, Settled, NoLink, Link
  <2> HIDE DEF n
  <2> QED
    BY <1>2, <2>1, <2>2, <2>3, <2>4, Shutting
<1> QED
  BY <1>1, <1>2

\* A new session is given out: what has the one before has none that counts.
LEMMA Staling ==
    ASSUME NEW l, Sound(l)
    PROVE  /\ Sound(StaledLink(l)) /\ StaledLink(l).at = l.at /\ StaledLink(l).run = l.run
           /\ StaledLink(l).end = l.end /\ StaledLink(l).asked = l.asked
           /\ StaledLink(l).fault = l.fault
           /\ StaledLink(l).resume # "current"
           /\ StaledLink(l).resume = "none" <=> l.resume = "none"
           /\ StaledLink(l).frames = <<>> <=> l.frames = <<>>
           /\ Len(StaledLink(l).frames) = Len(l.frames)
           /\ \A i \in 1..Len(l.frames) : StaledLink(l).frames[i] = StaledFrame(l.frames[i])
<1> DEFINE n == StaledLink(l)
<1>1. l \in Link /\ l.frames \in Seq(Frame) /\ l.resume \in Session
  BY LinkTypes DEF Sound
<1> DEFINE fs == [i \in DOMAIN l.frames |-> StaledFrame(l.frames[i])]
<1>2. /\ fs \in Seq(Frame) /\ Len(fs) = Len(l.frames)
      /\ \A i \in 1..Len(l.frames) : fs[i] = StaledFrame(l.frames[i])
  <2>1. Len(l.frames) \in Nat /\ DOMAIN l.frames = 1..Len(l.frames)
        /\ \A i \in DOMAIN l.frames : l.frames[i] \in Frame
    BY <1>1
  <2>2. \A i \in DOMAIN l.frames : StaledFrame(l.frames[i]) \in Frame
    BY <2>1, Frames
  <2> QED
    BY <2>1, <2>2
<1>3. Staled(l.resume) \in Session \ {"current"} /\ (Staled(l.resume) = "none" <=> l.resume = "none")
  BY <1>1 DEF Staled, Session
<1> HIDE DEF fs
<1>4. n = [l EXCEPT !.resume = Staled(@), !.frames = fs]
  BY DEF StaledLink, fs
<1>5. n \in Link
  BY <1>1, <1>2, <1>3, <1>4 DEF Link
<1>6. /\ n.at = l.at /\ n.run = l.run /\ n.end = l.end /\ n.asked = l.asked /\ n.fault = l.fault
      /\ n.left = l.left /\ n.size = l.size /\ n.resume = Staled(l.resume) /\ n.frames = fs
  BY <1>1, <1>4 DEF Link
<1>7. fs = <<>> <=> l.frames = <<>>
  BY <1>1, <1>2, EmptySeq
<1>8. l.at = "none" => n = NoLink
  <2> SUFFICES ASSUME l.at = "none" PROVE n = NoLink
    OBVIOUS
  <2>1. l = NoLink
    BY DEF Sound
  <2>2. Staled(l.resume) = "none" /\ fs = <<>>
    BY <2>1, <1>7 DEF NoLink, Staled
  <2> QED
    BY <1>4, <2>1, <2>2 DEF NoLink
<1> HIDE DEF n
<1>9. \A i \in 1..Len(l.frames) :
        /\ fs[i].kind = l.frames[i].kind
        /\ fs[i].kind = "output" => fs[i] = l.frames[i]
        /\ fs[i].kind = "welcome" => fs[i].session # "none"
  BY <1>1, <1>2, Frames
<1>10. Len(l.frames) \in Nat /\ DOMAIN l.frames = 1..Len(l.frames)
       /\ DOMAIN fs = 1..Len(l.frames)
  BY <1>1, <1>2
<1>11. Sound(n)
  <2>1. n.at = "none" <=> n = NoLink
    BY <1>6, <1>8 DEF Sound, NoLink
  <2>2. l.frames # <<>> => LastOf(fs).kind = LastOf(l.frames).kind
    BY <1>1, <1>2, <1>9, <1>10, Tailing DEF LastOf
  <2>3. ASSUME NEW i \in 1..(Len(fs) - 1), fs[i].kind = "output", fs[i + 1].kind = "output"
        PROVE  fs[i + 1].n = (fs[i].n + 1) % Chunks
    <3>1. i \in 1..(Len(l.frames) - 1) /\ i \in 1..Len(l.frames) /\ i + 1 \in 1..Len(l.frames)
      BY <1>2, <1>10
    <3> QED
      BY <1>9, <2>3, <3>1 DEF Sound
  <2>4. \A i \in DOMAIN fs :
         /\ fs[i].kind = "welcome" => i = 1 /\ fs[i].session # "none"
         /\ fs[i].kind \in Farewells => i = Len(fs) /\ n.at = "shut"
    BY <1>2, <1>6, <1>9, <1>10 DEF Sound
  <2> QED
    BY <1>5, <1>6, <1>7, <2>1, <2>2, <2>3, <2>4 DEF Sound
<1> QED
  BY <1>2, <1>3, <1>6, <1>7, <1>11 DEF n

-----------------------------------------------------------------------------
(* Steps of the machine that leave the runs where they are.                 *)

LEMMA TermTypes ==
    ASSUME Typed, NEW c \in Runs
    PROVE  /\ term[c] \in Run /\ term[c].link \in Links \cup {None} /\ term[c].with \in Agents
           /\ term[c].at \in {"idle", "asking", "attached", "away", "done"}
           /\ term[c].session \in Session /\ term[c].shown \in Nat \cup {None}
BY DEF Typed, Run

LEMMA StartTypes ==
    ASSUME Typed
    PROVE  /\ Len(starts) \in Nat /\ DOMAIN starts = 1..Len(starts)
           /\ \A i \in DOMAIN starts : starts[i] \in Runs
           /\ starts # <<>> => Len(starts) \in DOMAIN starts
           /\ None \notin Runs /\ None \notin Links
<1>1. starts \in Seq(Runs)
  BY DEF Typed
<1>2. starts # <<>> => Len(starts) # 0
  BY <1>1, EmptySeq
<1> QED
  BY <1>1, <1>2, RemoteAssumption

\* Both ends of what is on its way to a run whose link goes on.
LEMMA TameFrames ==
    ASSUME NEW l, NEW m, Sound(l), Sound(m), Tame(l, m), m.end = "up"
    PROVE  /\ l.end = "up"
           /\ \/ m.frames = l.frames
              \/ /\ m.frames # <<>> /\ m.frames # l.frames /\ m.at = "shut" /\ l.at # "shut"
                 /\ LastOf(m.frames).kind \in Farewells
                 /\ Head(m.frames) = IF l.frames = <<>> THEN LastOf(m.frames) ELSE Head(l.frames)
           /\ Welcomed(m.frames) <=> Welcomed(l.frames)
           /\ Welcomed(l.frames) => Head(m.frames) = Head(l.frames)
<1>1. m # NoLink
  BY DEF NoLink
<1>2. l.end = "up"
  BY <1>1 DEF Tame
<1>3. l.frames \in Seq(Frame)
  BY LinkTypes DEF Sound
<1>4. CASE m.frames = l.frames
  BY <1>2, <1>4
<1>5. CASE m.frames # l.frames
  <2>1. PICK f \in Frame : f.kind \in Farewells /\ m.frames = Append(l.frames, f)
    BY <1>5 DEF Tame
  <2>2. /\ m.frames # <<>> /\ LastOf(m.frames) = f
        /\ Head(m.frames) = IF l.frames = <<>> THEN f ELSE Head(l.frames)
    BY <1>3, <2>1, Appending
  <2>3. m.at = "shut" /\ l.at # "shut"
    BY <1>5 DEF Tame
  <2> QED
    BY <1>2, <1>5, <2>1, <2>2, <2>3 DEF Welcomed, Farewells
<1> QED
  BY <1>4, <1>5

\* Links that go on, and a host that keeps its client and its agent or gives them up.
Steady ==
    /\ AllSound' /\ Typed'
    /\ UNCHANGED <<term, owner, starts>>
    /\ host'.client \in {host.client, None} /\ agent' \in {agent, None}
    /\ \/ UNCHANGED output
       \/ host'.client = None
       \/ link'[host'.client].end # "up"
    /\ host'.client # None => agent' = agent /\ link'[host'.client].at = "served"
    /\ exit' \in {exit, agent, None}
    /\ \A k \in Links : Tame(link[k], link'[k])
\* A run that is sent an exit code is told the truth.
Tells(c) ==
    LET k == term[c].link
        fs == link'[k].frames
        a == Knows(term[c], fs)
    IN  /\ k # None /\ link'[k].end = "up" /\ fs # link[k].frames /\ LastOf(fs).kind = "exit"
        /\ Welcomed(fs) \/ term[c].session # "none"
        => agent' # a /\ Truth(a, LastOf(fs).of)

\* A run that stays as it is, with its link if it has one, stays in step.
LEMMA InStepStays ==
    ASSUME NEW c \in Runs, InStep(c), UNCHANGED starts, term'[c] = term[c],
           term[c].link # None => link'[term[c].link] = link[term[c].link]
    PROVE  InStep(c)'
BY DEF InStep, Started

LEMMA SteadyOwn ==
    ASSUME Typed, AllSound, Own, Steady
    PROVE  Own'
<1>1. UNCHANGED <<term, starts>>
  BY DEF Steady
<1>2. ASSUME NEW c \in Runs, term[c].link # None
      PROVE  LET r == term[c]  l == link'[r.link]
             IN  /\ l.run = c /\ l.end \in {"up", "cut"}
                 /\ l.at \in Early => (l.resume = "none" <=> r.session = "none")
                 /\ r.at = "asking" /\ l.frames # <<>> => Head(l.frames).kind # "output"
                 /\ r.at = "attached" =>
                      /\ l.at \in {"served", "shut"}
                      /\ l.end = "up" /\ l.at = "shut" /\ ~l.fault => l.frames # <<>>
  <2> DEFINE k == term[c].link
  <2>1. k \in Links
    BY <1>2, TermTypes
  <2>2. Sound(link[k]) /\ Sound(link'[k]) /\ Tame(link[k], link'[k])
    BY <2>1 DEF AllSound, Steady
  <2>3. /\ link[k].run = c /\ link[k].end \in {"up", "cut"}
        /\ link[k].at \in Early => (link[k].resume = "none" <=> term[c].session = "none")
        /\ term[c].at = "asking" /\ link[k].frames # <<>> => Head(link[k].frames).kind # "output"
        /\ term[c].at = "attached" =>
             /\ link[k].at \in {"served", "shut"}
             /\ link[k].end = "up" /\ link[k].at = "shut" /\ ~link[k].fault => link[k].frames # <<>>
    BY <1>2 DEF Own, InStep
  <2> HIDE DEF k
  <2>4. link'[k] # NoLink
    BY <2>2, <2>3 DEF Tame
  <2>5. /\ link'[k].run = c /\ link'[k].end \in {"up", "cut"} /\ link'[k].resume = link[k].resume
        /\ link'[k].at \in Early => link[k].at \in Early
        /\ link[k].at \in {"served", "shut"} => link'[k].at \in {"served", "shut"}
    BY <2>2, <2>3, <2>4 DEF Tame
  <2>6. ASSUME term[c].at = "attached",
               link'[k].end = "up", link'[k].at = "shut", ~link'[k].fault
        PROVE  link'[k].frames # <<>>
    <3>1. CASE link'[k].frames = link[k].frames
      BY <2>2, <2>3, <2>6, <3>1 DEF Tame, Early
    <3>2. CASE link'[k].frames # link[k].frames
      BY <2>2, <2>6, <3>2, TameFrames
    <3> QED
      BY <3>1, <3>2
  <2>7. ASSUME term[c].at = "asking", link'[k].frames # <<>>
        PROVE  Head(link'[k].frames).kind # "output"
    <3>1. link'[k].end = "up"
      BY <2>2, <2>7 DEF Sound
    <3> QED
      BY <2>2, <2>3, <2>7, <3>1, TameFrames DEF Farewells
  <2> QED
    BY <2>3, <2>5, <2>6, <2>7 DEF k
<1>3. ASSUME NEW c \in Runs
      PROVE  InStep(c)'
  BY <1>1, <1>2, <1>3 DEF Own, InStep, Started
<1>4. ASSUME NEW k \in Links, link'[k].end \in {"up", "cut"}
      PROVE  term[link'[k].run].link = k
  <2>1. Tame(link[k], link'[k])
    BY DEF Steady
  <2>2. link'[k] # NoLink
    BY <1>4 DEF NoLink
  <2>3. link'[k].run = link[k].run /\ link[k].end \in {"up", "cut"}
    BY <1>4, <2>1, <2>2 DEF Tame
  <2> QED
    BY <2>3 DEF Own
<1> QED
  BY <1>1, <1>3, <1>4 DEF Own

LEMMA SteadySessions ==
    ASSUME Typed, AllSound, Sessions, Steady
    PROVE  Sessions'
<1>1. UNCHANGED <<term, owner>>
  BY DEF Steady
<1>2. ASSUME NEW k \in Links
      PROVE  /\ link'[k].resume = "current" => owner = link'[k].run
             /\ Welcomed(link'[k].frames) /\ Head(link'[k].frames).session = "current"
                  => owner = link'[k].run
  <2>1. Sound(link[k]) /\ Sound(link'[k]) /\ Tame(link[k], link'[k])
    BY DEF AllSound, Steady
  <2>2. CASE link'[k] = NoLink
    BY <2>2 DEF NoLink, Welcomed
  <2>3. CASE link'[k] # NoLink
    <3>1. link'[k].run = link[k].run /\ link'[k].resume = link[k].resume
      BY <2>1, <2>3 DEF Tame
    <3>2. Welcomed(link'[k].frames) => link'[k].end = "up"
      BY <2>1 DEF Sound, Welcomed
    <3>3. Welcomed(link'[k].frames) =>
            Welcomed(link[k].frames) /\ Head(link'[k].frames) = Head(link[k].frames)
      BY <2>1, <3>2, TameFrames
    <3> QED
      BY <3>1, <3>3 DEF Sessions
  <2> QED
    BY <2>2, <2>3
<1> QED
  BY <1>1, <1>2 DEF Sessions

LEMMA SteadyFirsts ==
    ASSUME Typed, AllSound, Firsts, Steady
    PROVE  Firsts'
<1>1. UNCHANGED <<term, starts>>
  BY DEF Steady
<1>2. ASSUME NEW k \in Links
      PROVE  /\ link'[k].run \in {link[k].run, None}
             /\ link'[k].at \in Early /\ link'[k].resume = "none"
                  => First(k) /\ link'[k].run = link[k].run
  <2>1. Tame(link[k], link'[k])
    BY DEF Steady
  <2> QED
    BY <2>1 DEF Tame, NoLink, First, Early
<1>3. OneStartPerRun'
  BY <1>1 DEF Firsts, OneStartPerRun
<1>4. \A c \in Runs : c # None
  BY RemoteAssumption
<1> QED
  BY <1>1, <1>2, <1>3, <1>4 DEF Firsts, First, Started

LEMMA SteadyLatest ==
    ASSUME Typed, AllSound, Latest, Steady
    PROVE  Latest'
<1>1. UNCHANGED starts /\ agent' \in {agent, None} /\ exit' \in {exit, agent, None}
  BY DEF Steady
<1>2. ASSUME NEW k \in Links, Welcomed(link'[k].frames)
      PROVE  Welcomed(link[k].frames) /\ Head(link'[k].frames) = Head(link[k].frames)
  <2>1. Sound(link[k]) /\ Sound(link'[k]) /\ Tame(link[k], link'[k])
    BY DEF AllSound, Steady
  <2>2. link'[k].end = "up"
    BY <1>2, <2>1 DEF Sound, Welcomed
  <2> QED
    BY <1>2, <2>1, <2>2, TameFrames
<1> QED
  BY <1>1, <1>2 DEF Latest, Started

LEMMA SteadyStreams ==
    ASSUME Typed, AllSound, Streams, Steady
    PROVE  Streams'
<1>1. UNCHANGED term /\ host'.client \in {host.client, None}
  BY DEF Steady
<1> SUFFICES ASSUME NEW c \in Runs, term[c].link # None, link'[term[c].link].end = "up"
             PROVE  LET k == term[c].link  fs == link'[k].frames
                    IN  /\ term[c].shown # None /\ fs # <<>> /\ Head(fs).kind = "output"
                             => Head(fs).n = (term[c].shown + 1) % Chunks
                        /\ host'.client = k /\ fs # <<>> /\ LastOf(fs).kind = "output"
                             => output' = (LastOf(fs).n + 1) % Chunks
                        /\ host'.client = k /\ fs = <<>> /\ term[c].shown # None
                             => output' = (term[c].shown + 1) % Chunks
  BY <1>1 DEF Streams
<1> DEFINE k == term[c].link
<1>2. k \in Links
  BY TermTypes
<1>3. Sound(link[k]) /\ Sound(link'[k]) /\ Tame(link[k], link'[k])
  BY <1>2 DEF AllSound, Steady
<1>4. host'.client = k => host.client = k /\ output' = output
  BY <1>1 DEF Steady
<1>5. CASE link'[k].frames = link[k].frames
  <2>1. link[k].end = "up"
    BY <1>3, TameFrames
  <2> QED
    BY <1>4, <1>5, <2>1 DEF Streams
<1>6. CASE link'[k].frames # link[k].frames
  <2>1. /\ link'[k].frames # <<>> /\ LastOf(link'[k].frames).kind \in Farewells
        /\ Head(link'[k].frames) = IF link[k].frames = <<>> THEN LastOf(link'[k].frames)
                                   ELSE Head(link[k].frames)
        /\ link[k].end = "up"
    BY <1>3, <1>6, TameFrames
  <2> QED
    BY <2>1 DEF Streams, Farewells
<1> QED
  BY <1>5, <1>6

LEMMA SteadyBelieved ==
    ASSUME Typed, AllSound, Believed, Steady, \A c \in Runs : Tells(c)
    PROVE  Believed'
<1>1. /\ UNCHANGED <<term, starts>> /\ host'.client \in {host.client, None}
      /\ agent' \in {agent, None}
      /\ host'.client # None => agent' = agent /\ link'[host'.client].at = "served"
  BY DEF Steady
<1> SUFFICES ASSUME NEW c \in Runs, term[c].link # None, link'[term[c].link].end = "up"
             PROVE  LET r == term[c]  k == r.link  fs == link'[k].frames
                    IN  /\ host'.client = k => (r.at = "asking" <=> Welcomed(fs))
                                               /\ Knows(r, fs) = agent'
                        /\ /\ fs # <<>> /\ LastOf(fs).kind = "exit"
                           /\ Welcomed(fs) \/ r.session # "none"
                           => agent' # Knows(r, fs) /\ Truth(Knows(r, fs), LastOf(fs).of)
  BY <1>1 DEF Believed, Truth
<1> DEFINE k == term[c].link
<1>2. k \in Links
  BY TermTypes
<1>3. Sound(link[k]) /\ Sound(link'[k]) /\ Tame(link[k], link'[k])
  BY <1>2 DEF AllSound, Steady
<1>4. /\ link[k].end = "up"
      /\ Welcomed(link'[k].frames) <=> Welcomed(link[k].frames)
      /\ Knows(term[c], link'[k].frames) = Knows(term[c], link[k].frames)
  BY <1>3, TameFrames DEF Knows
<1>5. host'.client = k => (term[c].at = "asking" <=> Welcomed(link'[k].frames))
                          /\ Knows(term[c], link'[k].frames) = agent'
  BY <1>1, <1>4 DEF Believed
<1>6. CASE link'[k].frames # link[k].frames
  BY <1>5, <1>6 DEF Tells
<1>7. CASE link'[k].frames = link[k].frames
  <2>1. \A a, of : Truth(a, of) => a # None
    BY StartTypes DEF Truth
  <2> QED
    BY <1>1, <1>4, <1>5, <1>7, <2>1 DEF Believed
<1> QED
  BY <1>6, <1>7

LEMMA SteadyStep ==
    ASSUME Inv, Steady, Locked', Served', Sized', \A c \in Runs : Tells(c)
    PROVE  Inv'
BY SteadyOwn, SteadySessions, SteadyFirsts, SteadyLatest, SteadyStreams, SteadyBelieved DEF Inv,
   Steady

LEMMA SizedStays ==
    ASSUME Typed, Sized, UNCHANGED <<term, window, size>>, host'.client \in {host.client, None},
           \A k \in Links : host'.client = k =>
             link'[k].asked = link[k].asked /\ (link'[k].end = "up" => link[k].end = "up"),
           \A c \in Runs : term[c].at = "attached" => term[c].link # None
    PROVE  Sized'
<1> SUFFICES ASSUME NEW c \in Runs, term[c].at = "attached", link'[term[c].link].end = "up",
                    host'.client = term[c].link
             PROVE  window[c] = IF link'[term[c].link].asked = None THEN size
                                ELSE link'[term[c].link].asked
  BY DEF Sized
<1>1. CASE term[c].link \in Links
  <2>1. host.client = term[c].link
    BY <1>1, StartTypes
  <2>2. link'[term[c].link].asked = link[term[c].link].asked /\ link[term[c].link].end = "up"
    BY <1>1
  <2> QED
    BY <2>1, <2>2 DEF Sized
<1>2. term[c].link # None
  OBVIOUS
<1> QED
  BY <1>1, <1>2, TermTypes

\* Nothing but what has to do with a link is changed, and no exit code is sent.
LEMMA OneLink ==
    ASSUME Typed, AllSound, NEW k \in Links, NEW m, Sound(m), Tame(link[k], m),
           link' = [link EXCEPT ![k] = m]
    PROVE  /\ AllSound' /\ link' \in [Links -> Link] /\ link'[k] = m
           /\ \A l \in Links : Tame(link[l], link'[l]) /\ (l # k => link'[l] = link[l])
<1>1. m \in Link
  BY DEF Sound
<1>2. link \in [Links -> Link] /\ \A l \in Links : Sound(link[l])
  BY DEF Typed, AllSound
<1>3. link'[k] = m /\ \A l \in Links : l # k => link'[l] = link[l]
  BY <1>2
<1>4. link' \in [Links -> Link]
  BY <1>1, <1>2
<1>5. \A l \in Links : Tame(link[l], link'[l])
  BY <1>2, <1>3, TameAlone
<1>6. \A l \in Links : Sound(link'[l])
  BY <1>2, <1>3
<1> QED
  BY <1>3, <1>4, <1>5, <1>6 DEF AllSound

LEMMA Mute ==
    ASSUME Typed, \A k \in Links : link'[k].end = "up" =>
             link'[k].frames = link[k].frames \/ LastOf(link'[k].frames).kind # "exit"
    PROVE  \A c \in Runs : Tells(c)
BY TermTypes DEF Tells

\* A step of one link, in which the host keeps its client and its agent.
LEMMA LinkStep ==
    ASSUME Inv, NEW k \in Links, NEW m, Sound(m), Tame(link[k], m),
           link' = [link EXCEPT ![k] = m],
           m.at = "served" <=> link[k].at = "served",
           m.end # "up" \/ m.asked = link[k].asked \/ link[k].at # "served",
           UNCHANGED <<term, window, agent, screen, output, history>>,
           lock' \in {"free", "host"} \cup Links, socket' \in {"none", "stale", "served"},
           exit' \in {exit, None}, spawned' \in 0..MaxSpawned,
           host' \in [at : {"down", "serving", "finishing", "stopping"}, client : Links \cup {None}],
           host'.client = host.client, host'.client # None => host'.at = host.at,
           Locked', \A c \in Runs : Tells(c)
    PROVE  Inv'
<1>1. /\ AllSound' /\ link' \in [Links -> Link] /\ link'[k] = m
      /\ \A l \in Links : Tame(link[l], link'[l]) /\ (l # k => link'[l] = link[l])
  BY OneLink DEF Inv
<1> USE DEF screen, history
<1>2. Typed'
  BY <1>1 DEF Inv, Typed, Agents
<1>3. Served'
  BY <1>1 DEF Inv, Served
<1>4. Sized'
  <2>1. \A l \in Links : link'[l].end = "up" => link[l].end = "up"
    BY <1>1, TameFrames DEF Inv, AllSound
  <2>2. /\ Typed /\ Sized /\ Served
        /\ \A c \in Runs : term[c].at = "attached" => term[c].link # None
    BY DEF Inv, Own, InStep
  <2>3. CASE m.end = "up"
    <3>1. \A l \in Links : host.client = l => link'[l].asked = link[l].asked
      BY <1>1, <2>2, <2>3 DEF Served
    <3> QED
      BY <2>1, <2>2, <3>1, SizedStays
  <2>4. CASE m.end # "up"
    BY <1>1, <2>1, <2>2, <2>4, TermTypes DEF Sized
  <2> QED
    BY <2>3, <2>4
<1>5. Steady
  <2>1. /\ host.client \in Links \cup {None}
        /\ \A l \in Links : link'[l].at = "served" <=> host'.client = l
        /\ UNCHANGED <<term, owner, starts, output, agent>>
    BY <1>3 DEF Inv, Typed, Served
  <2> QED
    BY <1>1, <1>2, <2>1 DEF Steady
<1> QED
  BY <1>3, <1>4, <1>5, SteadyStep

\* One that has to do with nothing but the link, and sends no exit code.
LEMMA LinkOnlyStep ==
    ASSUME Inv, NEW k \in Links, NEW m, Sound(m), Tame(link[k], m),
           link' = [link EXCEPT ![k] = m],
           m.end = "up" => m.frames = link[k].frames \/ LastOf(m.frames).kind # "exit",
           m.at = "served" <=> link[k].at = "served",
           m.at = "clearing" <=> link[k].at = "clearing",
           m.end # "up" \/ m.asked = link[k].asked \/ link[k].at # "served",
           UNCHANGED <<term, window, files, host, agent, screen, output, history>>,
           spawned' \in 0..MaxSpawned
    PROVE  Inv'
<1>1. /\ link'[k] = m /\ \A l \in Links : l # k => link'[l] = link[l]
  BY OneLink DEF Inv
<1>2. Locked'
  BY <1>1 DEF Inv, Locked, files
<1>3. \A c \in Runs : Tells(c)
  BY <1>1, Mute DEF Inv
<1>4. /\ lock' \in {"free", "host"} \cup Links /\ socket' \in {"none", "stale", "served"}
      /\ exit' = exit
      /\ host' \in [at : {"down", "serving", "finishing", "stopping"}, client : Links \cup {None}]
  BY DEF Inv, Typed, files
<1> QED
  BY <1>2, <1>3, <1>4, LinkStep

LEMMA CutStep ==
    ASSUME Inv, NEW k \in Links, Cut(k)
    PROVE  Inv'
<1> DEFINE m == [link[k] EXCEPT !.end = "cut", !.frames = <<>>, !.asked = None]
<1>1. link[k] \in Link /\ link[k].end = "up" /\ Sound(link[k]) /\ link[k] # NoLink
  BY DEF Cut, Inv, AllSound, Sound, NoLink
<1>2. m \in Link
  BY <1>1, <<>> \in Seq(Frame) DEF Link
<1>3. /\ m.at = link[k].at /\ m.end = "cut" /\ m.frames = <<>> /\ m.run = link[k].run
      /\ m.resume = link[k].resume /\ m.size = link[k].size /\ m.left = link[k].left
  BY <1>1 DEF Link
<1>4. link' = [link EXCEPT ![k] = m]
  BY DEF Cut
<1> HIDE DEF m
<1>5. Sound(m) /\ Tame(link[k], m)
  BY <1>1, <1>2, <1>3 DEF Sound, Tame, NoLink
<1>6. spawned' \in 0..MaxSpawned /\ UNCHANGED <<term, window, files, host, agent, screen, output, history>>
  BY DEF Cut, Inv, Typed
<1> QED
  BY <1>3, <1>4, <1>5, <1>6, LinkOnlyStep

\* What loses its last frame has no farewell any longer, and was not served.
LEMMA Shortened ==
    ASSUME NEW l, Sound(l), l.at = "shut", l.frames # <<>>, NEW m \in Link,
           m.frames = SubSeq(l.frames, 1, Len(l.frames) - 1), m.fault, m.at = "shut",
           m.run = l.run, m.resume = l.resume, m.end = l.end, m.left = l.left
    PROVE  /\ Sound(m) /\ l.end = "up"
           /\ m.frames # <<>> => /\ Head(m.frames) = Head(l.frames)
                                /\ LastOf(m.frames).kind \notin Farewells
<1>1. l.frames \in Seq(Frame) /\ m.frames \in Seq(Frame) /\ l # NoLink /\ l.end = "up"
  BY LinkTypes DEF Sound, NoLink
<1>2. /\ Len(l.frames) \in Nat \ {0} /\ Len(m.frames) = Len(l.frames) - 1
      /\ DOMAIN m.frames = 1..(Len(l.frames) - 1) /\ DOMAIN l.frames = 1..Len(l.frames)
      /\ \A i \in 1..(Len(l.frames) - 1) : m.frames[i] = l.frames[i]
  BY <1>1
<1>3. m # NoLink
  BY DEF NoLink
<1>4. m.frames # <<>> => /\ Head(m.frames) = Head(l.frames)
                         /\ LastOf(m.frames).kind \notin Farewells
  <2>1. m.frames # <<>> => Len(m.frames) \in DOMAIN m.frames /\ 1 \in DOMAIN m.frames
    BY <1>1
  <2>2. m.frames # <<>> => /\ LastOf(m.frames) = l.frames[Len(l.frames) - 1]
                           /\ Len(l.frames) - 1 \in DOMAIN l.frames
                           /\ Len(l.frames) - 1 # Len(l.frames)
    BY <1>2, <2>1 DEF LastOf
  <2>3. m.frames # <<>> => Head(m.frames) = Head(l.frames)
    BY <1>1, <1>2, <2>1
  <2> QED
    BY <2>2, <2>3 DEF Sound
<1>5. \A i \in DOMAIN m.frames :
        /\ m.frames[i].kind = "welcome" => i = 1 /\ m.frames[i].session # "none"
        /\ m.frames[i].kind \notin Farewells
  <2>1. \A i \in DOMAIN m.frames : i \in DOMAIN l.frames /\ i # Len(l.frames) /\ m.frames[i] = l.frames[i]
    BY <1>2
  <2> QED
    BY <2>1 DEF Sound
<1>6. \A i \in 1..(Len(m.frames) - 1) :
        m.frames[i].kind = "output" /\ m.frames[i + 1].kind = "output"
          => m.frames[i + 1].n = (m.frames[i].n + 1) % Chunks
  <2>1. \A i \in 1..(Len(m.frames) - 1) :
          /\ i \in 1..(Len(l.frames) - 1) /\ i + 1 \in 1..(Len(l.frames) - 1)
    BY <1>2
  <2> QED
    BY <1>2, <2>1 DEF Sound
<1>7. Sound(m)
  BY <1>1, <1>3, <1>5, <1>6 DEF Sound, Early
<1> QED
  BY <1>1, <1>4, <1>7

LEMMA StallStep ==
    ASSUME Inv, NEW k \in Links, Stall(k)
    PROVE  Inv'
<1> DEFINE m == FellBehind(link[k])
<1>1. link[k] \in Link /\ link[k].at = "shut" /\ link[k].frames # <<>> /\ Sound(link[k])
  BY DEF Stall, Inv, AllSound, Sound
<1>2. m \in Link
  <2>1. link[k].frames \in Seq(Frame)
    BY <1>1, LinkTypes
  <2>2. SubSeq(link[k].frames, 1, Len(link[k].frames) - 1) \in Seq(Frame)
    BY <2>1
  <2> QED
    BY <1>1, <2>2 DEF FellBehind, Link
<1>3. /\ m.at = "shut" /\ m.end = link[k].end /\ m.run = link[k].run /\ m.fault
      /\ m.resume = link[k].resume /\ m.asked = link[k].asked /\ m.left = link[k].left
      /\ m.frames = SubSeq(link[k].frames, 1, Len(link[k].frames) - 1)
  BY <1>1 DEF FellBehind, Link
<1>4. link' = [link EXCEPT ![k] = m] /\ link \in [Links -> Link]
  <2>1. link' = [link EXCEPT ![k] = m]
    BY DEF Stall
  <2>2. link \in [Links -> Link]
    BY DEF Inv, Typed
  <2> QED
    BY <2>1, <2>2
<1> HIDE DEF m
<1>5. /\ Sound(m) /\ link[k].end = "up"
      /\ m.frames # <<>> => /\ Head(m.frames) = Head(link[k].frames)
                           /\ LastOf(m.frames).kind \notin Farewells
  BY <1>1, <1>2, <1>3, Shortened
<1>6. /\ link' \in [Links -> Link] /\ link'[k] = m
      /\ \A l \in Links : l # k => link'[l] = link[l]
  BY <1>2, <1>4
<1>7. UNCHANGED <<term, window, lock, socket, exit, spawned, host, agent, size, pty, jiggle,
                 output, owner, starts>>
  BY DEF Stall, files, screen, history
<1>8. \A l \in Links : /\ link'[l].at = link[l].at /\ link'[l].end = link[l].end
                       /\ link'[l].run = link[l].run /\ link'[l].resume = link[l].resume
                       /\ link'[l].asked = link[l].asked /\ (link[l].fault => link'[l].fault)
  BY <1>1, <1>3, <1>6
<1>9. \A l \in Links : Welcomed(link'[l].frames) =>
        Welcomed(link[l].frames) /\ Head(link'[l].frames) = Head(link[l].frames)
  BY <1>1, <1>5, <1>6 DEF Welcomed
<1>10. Typed' /\ AllSound'
  BY <1>5, <1>6, <1>7 DEF Inv, Typed, AllSound
<1>11. Locked' /\ Served' /\ Sized'
  BY <1>7, <1>8, TermTypes DEF Inv, Locked, Served, Sized, Own, InStep
<1>12. host.client # k
  BY <1>1 DEF Inv, Served
<1>13. Own'
  <2>1. ASSUME NEW c \in Runs PROVE InStep(c)'
    <3>1. InStep(c)
      BY DEF Inv, Own
    <3>2. CASE term[c].link # k
      <4>1. term[c].link # None => link'[term[c].link] = link[term[c].link]
        BY <1>6, <3>2, TermTypes DEF Inv
      <4> QED
        BY <1>7, <3>1, <4>1, InStepStays
    <3>3. CASE term[c].link = k
      BY <1>1, <1>3, <1>5, <1>6, <1>7, <3>1, <3>3 DEF InStep, Started, Early
    <3> QED
      BY <3>2, <3>3
  <2> QED
    BY <1>7, <1>8, <2>1 DEF Inv, Own
<1>14. Sessions' /\ Latest'
  BY <1>7, <1>8, <1>9 DEF Inv, Sessions, Latest, Started
<1>15. Firsts'
  BY <1>7, <1>8 DEF Inv, Firsts, First, Started, OneStartPerRun
<1>16. ASSUME NEW c \in Runs, term[c].link # None, term[c].link # k
       PROVE  link'[term[c].link] = link[term[c].link]
  BY <1>6, <1>16, TermTypes DEF Inv
<1>17. Streams'
  BY <1>1, <1>5, <1>6, <1>7, <1>12, <1>16 DEF Inv, Streams
<1>18. Believed'
  <2> SUFFICES ASSUME NEW c \in Runs, term[c].link # None, link'[term[c].link].end = "up"
               PROVE  LET r == term[c]  fs == link'[r.link].frames
                      IN  /\ host.client = r.link => /\ r.at = "asking" <=> Welcomed(fs)
                                                     /\ Knows(r, fs) = agent
                          /\ /\ fs # <<>> /\ LastOf(fs).kind = "exit"
                             /\ Welcomed(fs) \/ r.session # "none"
                             => agent # Knows(r, fs) /\ Truth(Knows(r, fs), LastOf(fs).of)
    BY <1>7 DEF Believed, Truth
  <2>1. CASE term[c].link = k
    BY <1>5, <1>6, <1>12, <2>1 DEF Farewells
  <2>2. CASE term[c].link # k
    BY <1>16, <2>2 DEF Inv, Believed
  <2> QED
    BY <2>1, <2>2
<1> QED
  BY <1>10, <1>11, <1>13, <1>14, <1>15, <1>17, <1>18 DEF Inv

LEMMA ConnectStep ==
    ASSUME Inv, NEW k \in Links, Connect(k)
    PROVE  Inv'
<1> DEFINE m == [link[k] EXCEPT !.at = "offered"]
<1>1. link[k] \in Link /\ link[k].at = "dialing" /\ Sound(link[k])
  BY DEF Connect, Inv, AllSound, Sound
<1>2. m \in Link
  BY <1>1 DEF Link
<1>3. /\ m.at = "offered" /\ m.end = link[k].end /\ m.frames = link[k].frames /\ m.run = link[k].run
      /\ m.resume = link[k].resume /\ m.size = link[k].size /\ m.left = link[k].left
      /\ m.fault = link[k].fault /\ m.asked = link[k].asked
  BY <1>1 DEF Link
<1>4. link' = [link EXCEPT ![k] = m]
  BY DEF Connect
<1> HIDE DEF m
<1>5. Sound(m) /\ Tame(link[k], m)
  BY <1>1, <1>2, <1>3, FramesStay DEF Early
<1>6. spawned' \in 0..MaxSpawned /\ UNCHANGED <<term, window, files, host, agent, screen, output, history>>
  BY DEF Connect, Inv, Typed
<1> QED
  BY <1>1, <1>3, <1>4, <1>5, <1>6, LinkOnlyStep

LEMMA SpawnHostStep ==
    ASSUME Inv, NEW k \in Links, SpawnHost(k)
    PROVE  Inv'
<1> DEFINE m == [link[k] EXCEPT !.at = "dialing", !.tried = TRUE]
<1>1. link[k] \in Link /\ link[k].at = "spawning" /\ Sound(link[k])
  BY DEF SpawnHost, Inv, AllSound, Sound
<1>2. m \in Link
  BY <1>1 DEF Link
<1>3. /\ m.at = "dialing" /\ m.end = link[k].end /\ m.frames = link[k].frames /\ m.run = link[k].run
      /\ m.resume = link[k].resume /\ m.size = link[k].size /\ m.left = link[k].left
      /\ m.fault = link[k].fault /\ m.asked = link[k].asked
  BY <1>1 DEF Link
<1>4. link' = [link EXCEPT ![k] = m]
  BY DEF SpawnHost
<1> HIDE DEF m
<1>5. Sound(m) /\ Tame(link[k], m)
  BY <1>1, <1>2, <1>3, FramesStay DEF Early
<1>6. spawned' \in 0..MaxSpawned
  BY RemoteAssumption DEF SpawnHost, Inv, Typed
<1>7. UNCHANGED <<term, window, files, host, agent, screen, output, history>>
  BY DEF SpawnHost
<1> QED
  BY <1>1, <1>3, <1>4, <1>5, <1>6, <1>7, LinkOnlyStep

LEMMA ResizedStep ==
    ASSUME Inv, NEW c \in Runs, NEW w \in Windows, Resized(c, w)
    PROVE  Inv'
<1> DEFINE k == term[c].link
<1> DEFINE m == [link[k] EXCEPT !.asked = w]
<1> USE DEF files, screen, history
<1>1. /\ window' = [window EXCEPT ![c] = w] /\ window' \in [Runs -> Windows]
      /\ UNCHANGED <<term, files, spawned, host, agent, screen, output, history>>
  BY DEF Resized, Inv, Typed
<1>2. /\ AllSound' /\ link' \in [Links -> Link]
      /\ \A l \in Links : /\ Tame(link[l], link'[l])
                          /\ link'[l].frames = link[l].frames /\ link'[l].at = link[l].at
                          /\ link'[l].end = link[l].end
                          /\ link'[l].asked = IF /\ term[c].at = "attached" /\ l = k
                                                 /\ link[k].end = "up" /\ link[k].at = "served"
                                              THEN w ELSE link[l].asked
  <2>1. CASE ~(term[c].at = "attached" /\ link[k].end = "up" /\ link[k].at = "served")
    BY <2>1, TameAlone DEF Resized, Inv, AllSound, Typed
  <2>2. CASE term[c].at = "attached" /\ link[k].end = "up" /\ link[k].at = "served"
    <3>1. k \in Links
      BY <2>2, TermTypes DEF Inv, Own, InStep
    <3>2. link[k] \in Link /\ Sound(link[k])
      BY <3>1 DEF Inv, AllSound, Sound
    <3>3. m \in Link
      BY <3>2 DEF Link
    <3>4. /\ m.at = link[k].at /\ m.end = link[k].end /\ m.frames = link[k].frames /\ m.run = link[k].run
          /\ m.resume = link[k].resume /\ m.size = link[k].size /\ m.left = link[k].left
          /\ m.fault = link[k].fault /\ m.asked = w
      BY <3>2 DEF Link
    <3>5. link' = [link EXCEPT ![k] = m]
      BY <2>2 DEF Resized
    <3> HIDE DEF m, k
    <3>6. Sound(m) /\ Tame(link[k], m)
      BY <2>2, <3>2, <3>3, <3>4, FramesStay DEF Early
    <3>7. /\ AllSound' /\ link' \in [Links -> Link] /\ link'[k] = m
          /\ \A l \in Links : Tame(link[l], link'[l]) /\ (l # k => link'[l] = link[l])
      BY <3>1, <3>5, <3>6, OneLink DEF Inv
    <3> QED
      BY <2>2, <3>4, <3>7
  <2> QED
    BY <2>1, <2>2
<1> HIDE DEF k
<1>3. Typed'
  BY <1>1, <1>2 DEF Inv, Typed
<1>4. Locked' /\ Served'
  BY <1>1, <1>2 DEF Inv, Locked, Served
<1>5. Sized'
  <2> SUFFICES ASSUME NEW d \in Runs, term[d].at = "attached", link'[term[d].link].end = "up",
                      host.client = term[d].link
               PROVE  window'[d] = IF link'[term[d].link].asked = None THEN size
                                   ELSE link'[term[d].link].asked
    BY <1>1 DEF Sized
  <2>1. /\ term[d].link \in Links /\ term[c].link \in Links \cup {None}
        /\ link[term[d].link].run = d
        /\ term[c].link # None => link[term[c].link].run = c
    BY TermTypes DEF Inv, Own, InStep
  <2>2. link[term[d].link].at = "served" /\ link[term[d].link].end = "up"
    BY <1>2, <2>1 DEF Inv, Served
  <2>3. w # None
    BY RemoteAssumption
  <2>4. CASE d = c
    BY <1>1, <1>2, <2>1, <2>2, <2>3, <2>4 DEF k, Inv, Typed
  <2>5. CASE d # c
    <3>1. term[d].link # k
      BY <2>1, <2>5, RemoteAssumption DEF k
    <3>2. window'[d] = window[d] /\ link'[term[d].link].asked = link[term[d].link].asked
      BY <1>1, <1>2, <2>1, <2>5, <3>1 DEF Inv, Typed
    <3> QED
      BY <2>2, <3>2 DEF Inv, Sized
  <2> QED
    BY <2>4, <2>5
<1>6. Steady
  <2>1. /\ host.client \in Links \cup {None}
        /\ \A l \in Links : link'[l].at = "served" <=> host'.client = l
    BY <1>4 DEF Served, Inv, Typed
  <2> QED
    BY <1>1, <1>2, <1>3, <2>1 DEF Steady
<1>7. \A d \in Runs : Tells(d)
  BY <1>2, Mute DEF Inv
<1> QED
  BY <1>4, <1>5, <1>6, <1>7, SteadyStep

LEMMA ClearStep ==
    ASSUME Inv, NEW k \in Links, Clear(k)
    PROVE  Inv'
<1> DEFINE m == [link[k] EXCEPT !.at = "clearing"]
<1>1. link[k] \in Link /\ link[k].at = "dialing" /\ Sound(link[k])
  BY DEF Clear, Inv, AllSound, Sound
<1>2. m \in Link
  BY <1>1 DEF Link
<1>3. /\ m.at = "clearing" /\ m.end = link[k].end /\ m.frames = link[k].frames /\ m.run = link[k].run
      /\ m.resume = link[k].resume /\ m.size = link[k].size /\ m.left = link[k].left
      /\ m.fault = link[k].fault /\ m.asked = link[k].asked
  BY <1>1 DEF Link
<1>4. link' = [link EXCEPT ![k] = m] /\ lock' = k /\ lock = "free"
      /\ UNCHANGED <<term, window, socket, exit, spawned, host, agent, screen, output, history>>
  BY DEF Clear
<1> HIDE DEF m
<1>5. Sound(m) /\ Tame(link[k], m)
  BY <1>1, <1>2, <1>3, FramesStay DEF Early
<1>6. link'[k] = m /\ \A l \in Links : l # k => link'[l] = link[l]
  BY <1>4, <1>5, OneLink DEF Inv
<1>7. Locked'
  BY <1>3, <1>4, <1>6, RemoteAssumption DEF Inv, Locked
<1>8. \A c \in Runs : Tells(c)
  BY <1>3, <1>6, Mute DEF Inv
<1> QED
  BY <1>1, <1>3, <1>4, <1>5, <1>7, <1>8, LinkStep DEF Inv, Typed

LEMMA ClearedStep ==
    ASSUME Inv, NEW k \in Links, Cleared(k)
    PROVE  Inv'
<1> DEFINE m == [link[k] EXCEPT !.at = "spawning"]
<1>1. link[k] \in Link /\ link[k].at = "clearing" /\ Sound(link[k])
  BY DEF Cleared, Inv, AllSound, Sound
<1>2. m \in Link
  BY <1>1 DEF Link
<1>3. /\ m.at = "spawning" /\ m.end = link[k].end /\ m.frames = link[k].frames /\ m.run = link[k].run
      /\ m.resume = link[k].resume /\ m.size = link[k].size /\ m.left = link[k].left
      /\ m.fault = link[k].fault /\ m.asked = link[k].asked
  BY <1>1 DEF Link
<1>4. link' = [link EXCEPT ![k] = m] /\ socket' = "none" /\ lock' = "free"
      /\ UNCHANGED <<term, window, exit, spawned, host, agent, screen, output, history>>
  BY DEF Cleared
<1> HIDE DEF m
<1>5. Sound(m) /\ Tame(link[k], m)
  BY <1>1, <1>2, <1>3, FramesStay DEF Early
<1>6. link'[k] = m /\ \A l \in Links : l # k => link'[l] = link[l]
  BY <1>4, <1>5, OneLink DEF Inv
<1>7. Locked'
  BY <1>1, <1>3, <1>4, <1>6, RemoteAssumption DEF Inv, Locked
<1>8. \A c \in Runs : Tells(c)
  BY <1>3, <1>6, Mute DEF Inv
<1> QED
  BY <1>1, <1>3, <1>4, <1>5, <1>7, <1>8, LinkStep DEF Inv, Typed

LEMMA BridgeEndsStep ==
    ASSUME Inv, NEW k \in Links, BridgeEnds(k)
    PROVE  Inv'
<1> DEFINE m == Shut(link[k])
<1>1. link[k] \in Link /\ link[k].at \in {"dialing", "clearing", "spawning"} /\ Sound(link[k])
  BY DEF BridgeEnds, Inv, AllSound, Sound
<1>2. /\ link' = [link EXCEPT ![k] = m] /\ lock' = (IF lock = k THEN "free" ELSE lock)
      /\ UNCHANGED <<term, window, socket, exit, spawned, host, agent, screen, output, history>>
  BY DEF BridgeEnds
<1>3. Sound(m) /\ Tame(link[k], m) /\ m.at \notin {"served", "clearing"}
  BY <1>1, Shutting
<1>4. m.end = "up" => m.frames = link[k].frames
  BY <1>1 DEF Shut, Settled, NoLink, Link
<1> HIDE DEF m
<1>5. link'[k] = m /\ \A l \in Links : l # k => link'[l] = link[l]
  BY <1>2, <1>3, OneLink DEF Inv
<1>6. Locked'
  BY <1>1, <1>2, <1>3, <1>5, RemoteAssumption DEF Inv, Locked
<1>7. \A c \in Runs : Tells(c)
  BY <1>4, <1>5, Mute DEF Inv
<1> QED
  BY <1>1, <1>2, <1>3, <1>6, <1>7, LinkStep DEF Inv, Typed

LEMMA ReadEndStep ==
    ASSUME Inv, NEW k \in Links, ReadEnd(k)
    PROVE  Inv'
<1> DEFINE m == [link[k] EXCEPT !.left = TRUE]
<1>1. link[k] \in Link /\ link[k].at = "served" /\ link[k].end # "up" /\ Sound(link[k])
  BY DEF ReadEnd, Inv, AllSound, Sound
<1>2. m \in Link
  BY <1>1 DEF Link
<1>3. /\ m.at = "served" /\ m.end = link[k].end /\ m.frames = link[k].frames /\ m.run = link[k].run
      /\ m.resume = link[k].resume /\ m.size = link[k].size
      /\ m.fault = link[k].fault /\ m.asked = link[k].asked
  BY <1>1 DEF Link
<1>4. link' = [link EXCEPT ![k] = m]
  BY DEF ReadEnd
<1> HIDE DEF m
<1>5. Sound(m) /\ Tame(link[k], m)
  BY <1>1, <1>2, <1>3, FramesStay DEF Early
<1>6. spawned' \in 0..MaxSpawned /\ UNCHANGED <<term, window, files, host, agent, screen, output, history>>
  BY DEF ReadEnd, Inv, Typed
<1> QED
  BY <1>1, <1>3, <1>4, <1>5, <1>6, LinkOnlyStep

\* The host answers a link that offers itself with farewell f, and closes it.
LEMMA Answered ==
    ASSUME Inv, NEW k \in Links, Offered(k), NEW f \in Frame, f.kind \in Farewells,
           link' = [link EXCEPT ![k] = Parted(@, f)]
    PROVE  /\ Sound(Parted(link[k], f)) /\ Tame(link[k], Parted(link[k], f))
           /\ Parted(link[k], f).at \notin {"served", "clearing"} /\ link[k].at = "offered"
           /\ link'[k] = Parted(link[k], f) /\ \A l \in Links : l # k => link'[l] = link[l]
           /\ link'[k].end = "up" => link'[k].frames \in {<<>>, <<f>>} /\ LastOf(<<f>>) = f
           /\ link[k].frames = <<>>
<1>1. link[k].at = "offered" /\ Sound(link[k])
  BY DEF Offered, Inv, AllSound
<1>2. link[k].frames = <<>>
  BY <1>1 DEF Sound, Early
<1>3. /\ Sound(Parted(link[k], f)) /\ Tame(link[k], Parted(link[k], f))
      /\ Parted(link[k], f).at \notin {"served", "clearing"}
      /\ Parted(link[k], f).end = "up" => Parted(link[k], f).frames \in {<<>>, Append(<<>>, f)}
  BY <1>1, <1>2, Parting
<1>4. LastOf(<<f>>) = f /\ Append(<<>>, f) = <<f>>
  BY DEF LastOf
<1> QED
  BY <1>1, <1>2, <1>3, <1>4 DEF Inv, Typed

LEMMA ResumeRefusedStep ==
    ASSUME Inv, NEW k \in Links, ResumeRefused(k)
    PROVE  Inv'
<1>1. Offered(k) /\ link' = [link EXCEPT ![k] = Parted(@, Replaced)]
  BY DEF ResumeRefused
<1>2. Replaced \in Frame /\ Replaced.kind = "replaced"
  BY FrameTypes
<1> DEFINE m == Parted(link[k], Replaced)
<1>3. /\ Sound(m) /\ Tame(link[k], m) /\ m.at \notin {"served", "clearing"} /\ link[k].at = "offered"
      /\ link'[k] = m /\ link[k].frames = <<>>
      /\ m.end = "up" => m.frames \in {<<>>, <<Replaced>>} /\ LastOf(<<Replaced>>) = Replaced
  BY <1>1, <1>2, Answered DEF Farewells
<1>4. link' = [link EXCEPT ![k] = m]
  BY <1>1
<1> HIDE DEF m
<1>5. spawned' \in 0..MaxSpawned /\ UNCHANGED <<term, window, files, host, agent, screen, output, history>>
  BY DEF ResumeRefused, Inv, Typed
<1> QED
  BY <1>2, <1>3, <1>4, <1>5, LinkOnlyStep

LEMMA ResumeEndedStep ==
    ASSUME Inv, NEW k \in Links, ResumeEnded(k)
    PROVE  Inv'
<1>1. /\ Offered(k) /\ link' = [link EXCEPT ![k] = Parted(@, Exit(exit))]
      /\ link[k].resume # "none" /\ agent = None /\ host' = [host EXCEPT !.at = "stopping"]
      /\ UNCHANGED <<term, window, files, spawned, agent, screen, output, history>>
  BY DEF ResumeEnded
<1>2. Exit(exit) \in Frame /\ Exit(exit).kind = "exit" /\ Exit(exit).of = exit
  BY FrameTypes DEF Inv, Typed
<1> DEFINE m == Parted(link[k], Exit(exit))
<1>3. /\ Sound(m) /\ Tame(link[k], m) /\ m.at \notin {"served", "clearing"} /\ link[k].at = "offered"
      /\ link'[k] = m /\ \A l \in Links : l # k => link'[l] = link[l]
      /\ m.end = "up" => m.frames \in {<<>>, <<Exit(exit)>>} /\ LastOf(<<Exit(exit)>>) = Exit(exit)
      /\ link[k].frames = <<>>
  BY <1>1, <1>2, Answered DEF Farewells
<1>4. link' = [link EXCEPT ![k] = m]
  BY <1>1
<1> HIDE DEF m
<1>5. host.client = None /\ lock = "host" /\ socket = "served" /\ host.at = "serving"
  BY <1>1 DEF Offered, Inv, Served, Locked
<1>6. /\ host' \in [at : {"down", "serving", "finishing", "stopping"}, client : Links \cup {None}]
      /\ host'.client = None
  BY <1>1, <1>5 DEF Inv, Typed
<1>7. Locked'
  BY <1>1, <1>3, <1>5, <1>6 DEF Inv, Locked, files
<1>8. ASSUME NEW c \in Runs
      PROVE  Tells(c)
  <2> SUFFICES ASSUME term[c].link = k, link'[k].end = "up", link'[k].frames = <<Exit(exit)>>
               PROVE  LET a == Knows(term[c], <<Exit(exit)>>)
                      IN  agent' # a /\ Truth(a, Exit(exit).of)
    BY <1>3, TermTypes DEF Tells, Inv
  <2>1. ~Welcomed(<<Exit(exit)>>)
    BY <1>2 DEF Welcomed
  <2>2. Started(term[c].with)
    <3>1. term[c].session # "none"
      BY <1>1, <1>3, StartTypes DEF Inv, Own, InStep, Early
    <3> QED
      BY <3>1 DEF Inv, Own, InStep
  <2>3. agent' # term[c].with
    BY <1>1, <2>2, StartTypes DEF Inv, Started
  <2>4. Truth(term[c].with, exit)
    BY <2>2, StartTypes DEF Inv, Latest, LastOf, Truth, Started
  <2> QED
    BY <1>2, <2>1, <2>3, <2>4 DEF Knows
<1>9. /\ UNCHANGED <<term, window, agent, screen, output, history>> /\ exit' = exit
      /\ lock' \in {"free", "host"} \cup Links /\ socket' \in {"none", "stale", "served"}
      /\ spawned' \in 0..MaxSpawned
  BY <1>1, <1>5 DEF files, Inv, Typed
<1> QED
  BY <1>3, <1>4, <1>5, <1>6, <1>7, <1>8, <1>9, LinkStep

LEMMA StartFailsStep ==
    ASSUME Inv, NEW k \in Links, StartFails(k)
    PROVE  Inv'
<1>1. /\ Offered(k) /\ link' = [link EXCEPT ![k] = Parted(@, Exit(None))]
      /\ link[k].resume = "none" /\ agent = None /\ host' = [host EXCEPT !.at = "stopping"]
      /\ exit' = None
      /\ UNCHANGED <<term, window, lock, socket, spawned, agent, screen, output, history>>
  BY DEF StartFails
<1>2. Exit(None) \in Frame /\ Exit(None).kind = "exit" /\ Exit(None).of = None
  BY FrameTypes DEF Agents
<1> DEFINE m == Parted(link[k], Exit(None))
<1>3. /\ Sound(m) /\ Tame(link[k], m) /\ m.at \notin {"served", "clearing"} /\ link[k].at = "offered"
      /\ link'[k] = m /\ \A l \in Links : l # k => link'[l] = link[l]
      /\ m.end = "up" => m.frames \in {<<>>, <<Exit(None)>>} /\ LastOf(<<Exit(None)>>) = Exit(None)
      /\ link[k].frames = <<>>
  BY <1>1, <1>2, Answered DEF Farewells
<1>4. link' = [link EXCEPT ![k] = m]
  BY <1>1
<1> HIDE DEF m
<1>5. host.client = None /\ lock = "host" /\ socket = "served" /\ host.at = "serving"
  BY <1>1 DEF Offered, Inv, Served, Locked
<1>6. /\ host' \in [at : {"down", "serving", "finishing", "stopping"}, client : Links \cup {None}]
      /\ host'.client = None
  BY <1>1, <1>5 DEF Inv, Typed
<1>7. Locked'
  BY <1>1, <1>3, <1>5, <1>6 DEF Inv, Locked
<1>8. ASSUME NEW c \in Runs
      PROVE  Tells(c)
  <2>1. \A l \in Links : l # k => link'[l].frames = link[l].frames
    BY <1>3
  <2>2. ~Welcomed(<<Exit(None)>>) /\ LastOf(<<Exit(None)>>).kind = "exit"
    BY <1>2 DEF Welcomed, LastOf
  <2>3. term[c].link = k => term[c].session = "none"
    BY <1>1, <1>3, StartTypes DEF Inv, Own, InStep, Early
  <2> QED
    BY <1>3, <2>1, <2>2, <2>3, TermTypes DEF Tells, Inv
<1>9. /\ UNCHANGED <<term, window, agent, screen, output, history>> /\ exit' = None
      /\ lock' \in {"free", "host"} \cup Links /\ socket' \in {"none", "stale", "served"}
      /\ spawned' \in 0..MaxSpawned
  BY <1>1, <1>5 DEF Inv, Typed
<1> QED
  BY <1>3, <1>4, <1>5, <1>6, <1>7, <1>8, <1>9, LinkStep

\* The host changes, and no link does.
LEMMA LinksStay ==
    ASSUME Inv, link' = link
    PROVE  /\ AllSound' /\ link' \in [Links -> Link]
           /\ \A l \in Links : Tame(link[l], link'[l])
           /\ \A c \in Runs : Tells(c)
<1>1. \A l \in Links : Tame(link[l], link'[l])
  BY TameAlone DEF Inv, AllSound
<1>2. \A c \in Runs : Tells(c)
  BY Mute DEF Inv
<1> QED
  BY <1>1, <1>2 DEF Inv, AllSound, Typed

LEMMA HostStartsStep ==
    ASSUME Inv, HostStarts
    PROVE  Inv'
<1>1. /\ spawned > 0 /\ spawned' = spawned - 1
      /\ UNCHANGED <<term, window, link, exit, agent, screen, output, history>>
  BY DEF HostStarts
<1>2. /\ AllSound' /\ link' \in [Links -> Link] /\ \A l \in Links : Tame(link[l], link'[l])
      /\ \A c \in Runs : Tells(c)
  BY <1>1, LinksStay
<1> USE DEF screen, history
<1>3. \/ lock = "free" /\ lock' = "host" /\ socket' = "served" /\ host' = [NoHost EXCEPT !.at = "serving"]
      \/ UNCHANGED <<lock, socket, host>>
  BY DEF HostStarts
<1>4. host'.client = host.client /\ (host'.client # None => host'.at = host.at)
  <2>1. CASE lock = "free" /\ host' = [NoHost EXCEPT !.at = "serving"]
    BY <2>1, RemoteAssumption DEF Inv, Locked, Served, NoHost, Typed
  <2> QED
    BY <1>3, <2>1
<1>5. Typed'
  <2>1. spawned' \in 0..MaxSpawned
    BY <1>1, RemoteAssumption DEF Inv, Typed
  <2>2. host' \in [at : {"down", "serving", "finishing", "stopping"}, client : Links \cup {None}]
    BY <1>3 DEF Inv, Typed, NoHost
  <2> QED
    BY <1>1, <1>2, <1>3, <2>1, <2>2 DEF Inv, Typed
<1>6. Locked'
  BY <1>1, <1>3, RemoteAssumption DEF Inv, Locked
<1>7. Served'
  BY <1>1, <1>4 DEF Inv, Served
<1>8. Sized'
  BY <1>1, <1>4 DEF Inv, Sized
<1>9. Steady
  <2>1. /\ host.client \in Links \cup {None}
        /\ \A l \in Links : link[l].at = "served" <=> host.client = l
    BY DEF Inv, Typed, Served
  <2> QED
    BY <1>1, <1>2, <1>4, <1>5, <2>1 DEF Steady
<1> QED
  BY <1>2, <1>6, <1>7, <1>8, <1>9, SteadyStep

\* The host goes on to another stage, or draws at the size it keeps.
LEMMA HostOnlyStep ==
    ASSUME Inv, UNCHANGED <<term, window, link, files, spawned, agent, size, output, history>>,
           host' \in [at : {"serving", "finishing", "stopping"}, client : {host.client}],
           host.at # "down", host'.at = "stopping" => host.client = None,
           UNCHANGED <<pty, jiggle>> \/ (pty' = size /\ jiggle' = None)
    PROVE  Inv'
<1> USE DEF files, screen, history
<1>1. /\ AllSound' /\ link' \in [Links -> Link] /\ \A l \in Links : Tame(link[l], link'[l])
      /\ \A c \in Runs : Tells(c)
  BY LinksStay
<1>2. Typed'
  BY <1>1 DEF Inv, Typed
<1>3. Locked'
  BY DEF Inv, Locked
<1>4. Served'
  BY DEF Inv, Served
<1>5. Sized'
  BY DEF Inv, Sized
<1>6. Steady
  <2>1. /\ host.client \in Links \cup {None}
        /\ \A l \in Links : link[l].at = "served" <=> host.client = l
    BY DEF Inv, Typed, Served
  <2> QED
    BY <1>1, <1>2, <2>1 DEF Steady
<1> QED
  BY <1>1, <1>3, <1>4, <1>5, <1>6, SteadyStep

LEMMA RestoreSizeStep ==
    ASSUME Inv, RestoreSize
    PROVE  Inv'
<1>1. /\ host.at = "serving" /\ jiggle # None /\ pty' = jiggle /\ jiggle' = None
      /\ UNCHANGED <<term, window, link, files, spawned, host, agent, size, output, history>>
  BY DEF RestoreSize
<1>2. agent # None /\ jiggle = size
  BY <1>1 DEF Inv, Served
<1>3. host' \in [at : {"serving", "finishing", "stopping"}, client : {host.client}]
  BY <1>1 DEF Inv, Typed
<1> QED
  BY <1>1, <1>2, <1>3, HostOnlyStep

LEMMA AgentExitsStep ==
    ASSUME Inv, AgentExits
    PROVE  Inv'
<1>1. /\ host.at = "serving" /\ host' = [host EXCEPT !.at = "finishing"]
      /\ UNCHANGED <<term, window, link, files, spawned, agent, screen, output, history>>
  BY DEF AgentExits
<1>2. host' \in [at : {"serving", "finishing", "stopping"}, client : {host.client}]
      /\ host'.at = "finishing"
  BY <1>1 DEF Inv, Typed
<1>3. UNCHANGED <<term, window, link, files, spawned, agent, size, output, history>>
      /\ UNCHANGED <<pty, jiggle>>
  BY <1>1 DEF screen
<1> QED
  BY <1>1, <1>2, <1>3, HostOnlyStep

LEMMA NobodyCameStep ==
    ASSUME Inv, NobodyCame
    PROVE  Inv'
<1>1. /\ host.at = "serving" /\ agent = None /\ host' = [host EXCEPT !.at = "stopping"]
      /\ UNCHANGED <<term, window, link, files, spawned, agent, screen, output, history>>
  BY DEF NobodyCame
<1>2. host' \in [at : {"serving", "finishing", "stopping"}, client : {host.client}]
      /\ host.client = None
  BY <1>1 DEF Inv, Typed, Served
<1>3. UNCHANGED <<term, window, link, files, spawned, agent, size, output, history>>
      /\ UNCHANGED <<pty, jiggle>>
  BY <1>1 DEF screen
<1> QED
  BY <1>1, <1>2, <1>3, HostOnlyStep

\* Each link goes on, and the host gives its client up or has none.
LEMMA ClientGone ==
    ASSUME Inv, AllSound', link' \in [Links -> Link],
           \A l \in Links : /\ Tame(link[l], link'[l]) /\ link'[l].at # "served"
                            /\ link'[l].at = "clearing" <=> link[l].at = "clearing",
           \A c \in Runs : Tells(c),
           UNCHANGED <<term, window, spawned, output, history>>,
           exit' \in {exit, agent},
           host' \in [at : {"down", "serving", "finishing", "stopping"}, client : {None}],
           \/ host.at # "down" /\ UNCHANGED <<lock, socket>>
           \/ host.at # "down" /\ lock' = "free" /\ socket' \in {"none", "stale"} /\ host'.at = "down",
           UNCHANGED <<agent, screen>> \/ (agent' = None /\ size' = None /\ pty' = None /\ jiggle' = None)
    PROVE  Inv'
<1> USE DEF screen, history
<1>1. Typed'
  BY DEF Inv, Typed, Agents
<1>2. Locked'
  BY RemoteAssumption DEF Inv, Locked
<1>3. Served'
  BY StartTypes DEF Inv, Served
<1>4. Sized'
  BY StartTypes DEF Inv, Sized, Own, InStep
<1>5. Steady
  BY <1>1 DEF Steady
<1> QED
  BY <1>2, <1>3, <1>4, <1>5, SteadyStep

\* The client of the host gets a last frame.
LEMMA FarewellLinks ==
    ASSUME Inv, NEW f \in Frame, f.kind \in Farewells, Farewell(f)
    PROVE  /\ AllSound' /\ link' \in [Links -> Link]
           /\ \A l \in Links :
                /\ Tame(link[l], link'[l]) /\ link'[l].at # "served"
                /\ link'[l].at = "clearing" <=> link[l].at = "clearing"
                /\ link'[l].end = "up" =>
                     \/ link'[l].frames = link[l].frames
                     \/ l = host.client /\ link'[l].frames = Append(link[l].frames, f)
<1>1. link' = [l \in Links |-> IF l = host.client THEN Parted(link[l], f) ELSE link[l]]
  BY DEF Farewell
<1>2. ASSUME NEW l \in Links
      PROVE  /\ Sound(link'[l]) /\ Tame(link[l], link'[l]) /\ link'[l].at # "served"
             /\ link'[l].at = "clearing" <=> link[l].at = "clearing"
             /\ link'[l].end = "up" =>
                  \/ link'[l].frames = link[l].frames
                  \/ l = host.client /\ link'[l].frames = Append(link[l].frames, f)
  <2>1. Sound(link[l]) /\ (link[l].at = "served" <=> host.client = l)
    BY DEF Inv, AllSound, Served
  <2>2. CASE l = host.client
    <3>1. link'[l] = Parted(link[l], f)
      BY <1>1, <2>2
    <3> QED
      BY <2>1, <2>2, <3>1, Parting
  <2>3. CASE l # host.client
    BY <1>1, <2>1, <2>3, TameAlone
  <2> QED
    BY <2>2, <2>3
<1>3. link' \in [Links -> Link]
  BY <1>1, <1>2 DEF Sound
<1> QED
  BY <1>2, <1>3 DEF AllSound

LEMMA DetachByAgentStep ==
    ASSUME Inv, DetachByAgent
    PROVE  Inv'
<1>1. /\ host.at = "serving" /\ Farewell(Detach) /\ host' = [host EXCEPT !.client = None]
      /\ UNCHANGED <<term, window, files, spawned, agent, screen, output, history>>
  BY DEF DetachByAgent
<1>2. Detach \in Frame /\ Detach.kind = "detach"
  BY FrameTypes
<1>3. /\ AllSound' /\ link' \in [Links -> Link]
      /\ \A l \in Links :
           /\ Tame(link[l], link'[l]) /\ link'[l].at # "served"
           /\ link'[l].at = "clearing" <=> link[l].at = "clearing"
           /\ link'[l].end = "up" =>
                \/ link'[l].frames = link[l].frames
                \/ link'[l].frames = Append(link[l].frames, Detach)
  BY <1>1, <1>2, FarewellLinks DEF Farewells
<1>4. \A l \in Links : LastOf(Append(link[l].frames, Detach)) = Detach
  BY <1>2, Appending, LinkTypes DEF Inv, AllSound, Sound
<1>5. \A c \in Runs : Tells(c)
  BY <1>2, <1>3, <1>4, Mute DEF Inv
<1>6. host' \in [at : {"down", "serving", "finishing", "stopping"}, client : {None}]
  BY <1>1 DEF Inv, Typed
<1> QED
  BY <1>1, <1>3, <1>5, <1>6, ClientGone DEF files

LEMMA FinishStep ==
    ASSUME Inv, Finish
    PROVE  Inv'
<1>1. /\ host.at = "finishing" /\ exit' \in {agent, exit} /\ Farewell(Exit(agent))
      /\ host' = [host EXCEPT !.at = "stopping", !.client = None]
      /\ agent' = None /\ size' = None /\ pty' = None /\ jiggle' = None
      /\ UNCHANGED <<term, window, lock, socket, spawned, output, history>>
  BY DEF Finish
<1>2. Exit(agent) \in Frame /\ Exit(agent).kind = "exit" /\ Exit(agent).of = agent
  BY FrameTypes DEF Inv, Typed
<1>3. /\ AllSound' /\ link' \in [Links -> Link]
      /\ \A l \in Links :
           /\ Tame(link[l], link'[l]) /\ link'[l].at # "served"
           /\ link'[l].at = "clearing" <=> link[l].at = "clearing"
           /\ link'[l].end = "up" =>
                \/ link'[l].frames = link[l].frames
                \/ l = host.client /\ link'[l].frames = Append(link[l].frames, Exit(agent))
  BY <1>1, <1>2, FarewellLinks DEF Farewells
<1>4. \A l \in Links : LastOf(Append(link[l].frames, Exit(agent))) = Exit(agent)
  BY <1>2, Appending, LinkTypes DEF Inv, AllSound, Sound
<1>5. ASSUME NEW c \in Runs
      PROVE  Tells(c)
  <2> DEFINE k == term[c].link
  <2> SUFFICES ASSUME k # None, link'[k].end = "up", link'[k].frames # link[k].frames
               PROVE  LET a == Knows(term[c], link'[k].frames)
                      IN  agent' # a /\ Truth(a, LastOf(link'[k].frames).of)
    BY DEF Tells
  <2>1. k \in Links /\ k # None
    BY TermTypes DEF Inv
  <2>2. host.client = k /\ LastOf(link'[k].frames).of = agent
    BY <1>2, <1>3, <1>4, <2>1
  <2>3. /\ link[k].end = "up" /\ agent # None
        /\ Knows(term[c], link'[k].frames) = Knows(term[c], link[k].frames)
    <3>1. Sound(link[k]) /\ Sound(link'[k]) /\ Tame(link[k], link'[k])
      BY <1>3, <2>1 DEF Inv, AllSound
    <3> QED
      BY <2>1, <2>2, <3>1, TameFrames DEF Knows, Inv, Served
  <2>4. Knows(term[c], link[k].frames) = agent
    BY <2>1, <2>2, <2>3 DEF Inv, Believed
  <2>5. Truth(agent, agent)
    BY <2>3, StartTypes DEF Inv, Latest, LastOf, Truth
  <2> QED
    BY <1>1, <2>2, <2>3, <2>4, <2>5
<1>6. host' \in [at : {"down", "serving", "finishing", "stopping"}, client : {None}]
  BY <1>1 DEF Inv, Typed
<1> QED
  BY <1>1, <1>3, <1>5, <1>6, ClientGone

LEMMA HostStopsStep ==
    ASSUME Inv, HostStops
    PROVE  Inv'
<1>1. /\ host.at = "stopping" /\ host' = NoHost /\ lock' = "free" /\ socket' = "none"
      /\ link' = [k \in Links |-> Unheard(link[k])]
      /\ UNCHANGED <<term, window, exit, spawned, agent, screen, output, history>>
  BY DEF HostStops
<1>2. ASSUME NEW l \in Links
      PROVE  /\ Sound(link'[l]) /\ Tame(link[l], link'[l]) /\ link'[l].at # "served"
             /\ link'[l].at = "clearing" <=> link[l].at = "clearing"
             /\ link'[l].end = "up" => link'[l].frames = link[l].frames
  <2>1. Sound(link[l]) /\ link[l] \in Link /\ link[l].at # "served"
    BY <1>1, StartTypes DEF Inv, AllSound, Served, Sound
  <2>2. link'[l] = Unheard(link[l])
    BY <1>1
  <2> QED
    BY <2>1, <2>2, Forgetting
<1>3. AllSound' /\ link' \in [Links -> Link]
  BY <1>1, <1>2 DEF AllSound, Sound
<1>4. \A c \in Runs : Tells(c)
  BY <1>2, Mute DEF Inv
<1>5. host' \in [at : {"down", "serving", "finishing", "stopping"}, client : {None}]
      /\ host'.at = "down"
  BY <1>1 DEF NoHost
<1> QED
  BY <1>1, <1>2, <1>3, <1>4, <1>5, ClientGone

LEMMA HostDiesStep ==
    ASSUME Inv, HostDies
    PROVE  Inv'
<1> DEFINE m(l) == [link[l] EXCEPT !.fault = @ \/ link[l].at \in {"offered", "served"}]
<1>1. /\ host.at # "down" /\ host' = NoHost /\ lock' = "free" /\ socket' = "stale"
      /\ agent' = None /\ size' = None /\ pty' = None /\ jiggle' = None
      /\ link' = [k \in Links |-> Unheard(m(k))]
      /\ UNCHANGED <<term, window, exit, spawned, output, history>>
  BY DEF HostDies
<1>2. ASSUME NEW l \in Links
      PROVE  /\ Sound(link'[l]) /\ Tame(link[l], link'[l]) /\ link'[l].at # "served"
             /\ link'[l].at = "clearing" <=> link[l].at = "clearing"
             /\ link'[l].end = "up" => link'[l].frames = link[l].frames
  <2>1. Sound(link[l]) /\ link[l] \in Link
    BY DEF Inv, AllSound, Sound
  <2>2. /\ m(l) \in Link /\ m(l).at = link[l].at /\ m(l).run = link[l].run
        /\ m(l).resume = link[l].resume /\ m(l).end = link[l].end /\ m(l).frames = link[l].frames
        /\ m(l).size = link[l].size /\ m(l).left = link[l].left
        /\ link[l].fault => m(l).fault
        /\ link[l].at = "served" => m(l).fault
    BY <2>1 DEF Link
  <2>3. link[l].at \notin {"offered", "served", "shut"} => m(l) = link[l]
    BY <2>1 DEF Link
  <2>4. link'[l] = Unheard(m(l))
    BY <1>1
  <2> HIDE DEF m
  <2> QED
    BY <2>1, <2>2, <2>3, <2>4, Forgetting
<1>3. AllSound' /\ link' \in [Links -> Link]
  <2>1. AllSound'
    BY <1>2 DEF AllSound
  <2>2. \A l \in Links : link'[l] \in Link
    BY <1>2 DEF Sound
  <2>3. link' = [l \in Links |-> link'[l]]
    BY ONLY <1>1
  <2> QED
    BY ONLY <2>1, <2>2, <2>3
<1>4. \A c \in Runs : Tells(c)
  BY <1>2, Mute DEF Inv
<1>5. host' \in [at : {"down", "serving", "finishing", "stopping"}, client : {None}]
      /\ host'.at = "down"
  BY <1>1 DEF NoHost
<1> QED
  BY <1>1, <1>2, <1>3, <1>4, <1>5, ClientGone

LEMMA OnResizeStep ==
    ASSUME Inv, NEW k \in Links, OnResize(k)
    PROVE  Inv'
<1> DEFINE n == [link[k] EXCEPT !.asked = None]
<1> USE DEF files, screen, history
<1>1. /\ host.at = "serving" /\ link[k].asked # None
      /\ link' = [link EXCEPT ![k] = Settled(n)]
      /\ UNCHANGED <<term, window, files, spawned, host, agent, output, history>>
  BY DEF OnResize
<1>2. \/ host.client = k /\ size' = link[k].asked /\ pty' = size' /\ jiggle' = None
      \/ host.client # k /\ UNCHANGED <<size, pty, jiggle>>
  BY DEF OnResize, IsCurrent
<1>3. link[k] \in Link /\ Sound(link[k]) /\ link[k].at # "none" /\ link[k].asked \in Windows
  <2>1. link[k] \in Link /\ Sound(link[k])
    BY DEF Inv, AllSound, Sound
  <2>2. link[k] # NoLink
    BY <1>1 DEF NoLink
  <2> QED
    BY <1>1, <2>1, <2>2, LinkTypes DEF Sound
<1>4. n \in Link
  BY <1>3 DEF Link
<1>5. /\ n.at = link[k].at /\ n.end = link[k].end /\ n.frames = link[k].frames /\ n.run = link[k].run
      /\ n.resume = link[k].resume /\ n.size = link[k].size /\ n.left = link[k].left
      /\ n.fault = link[k].fault /\ n.asked = None
  BY <1>3 DEF Link
<1> HIDE DEF n
<1>6. Sound(n) /\ Tame(link[k], n)
  BY <1>3, <1>4, <1>5, FramesStay
<1>7. /\ Sound(Settled(n)) /\ Tame(link[k], Settled(n))
      /\ Settled(n).at = "served" <=> link[k].at = "served"
      /\ Settled(n).at = "clearing" <=> link[k].at = "clearing"
      /\ Settled(n) = n \/ (Settled(n) = NoLink /\ n.at = "shut" /\ n.end = "gone")
  BY <1>5, <1>6, Settling
<1>8. /\ AllSound' /\ link' \in [Links -> Link] /\ link'[k] = Settled(n)
      /\ \A l \in Links : Tame(link[l], link'[l]) /\ (l # k => link'[l] = link[l])
  BY <1>1, <1>7, OneLink DEF Inv
<1>9. Typed'
  BY <1>1, <1>2, <1>3, <1>8 DEF Inv, Typed
<1>10. Locked'
  BY <1>1, <1>7, <1>8 DEF Inv, Locked
<1>11. Served'
  <2>1. host.client = k => agent # None
    BY StartTypes DEF Inv, Served
  <2>2. link[k].asked # None
    BY <1>1
  <2>3. size' \in {None, size, link[k].asked} /\ (agent = None <=> pty' = None)
        /\ (agent = None <=> size' = None)
        /\ jiggle' \in {None, size'} /\ (jiggle' = None => pty' = size')
    BY <1>2, <2>1, <2>2 DEF Inv, Served
  <2> QED
    BY <1>1, <1>7, <1>8, <2>3 DEF Inv, Served
<1>12. Sized'
  <2> SUFFICES ASSUME NEW c \in Runs, term[c].at = "attached", link'[term[c].link].end = "up",
                      host.client = term[c].link
               PROVE  window[c] = IF link'[term[c].link].asked = None THEN size'
                                  ELSE link'[term[c].link].asked
    BY <1>1 DEF Sized
  <2>1. term[c].link \in Links /\ term[c].link # None
    BY TermTypes DEF Inv, Own, InStep
  <2>2. CASE term[c].link # k
    BY <1>2, <1>8, <2>1, <2>2 DEF Inv, Sized
  <2>3. CASE term[c].link = k
    <3>1. link'[k] = n
      BY <1>5, <1>7, <1>8, <2>3 DEF Inv, Served
    <3>2. link[k].end = "up" /\ link'[k].asked = None
      BY <1>5, <2>3, <3>1
    <3>3. window[c] = link[k].asked
      BY <1>1, <2>3, <3>2 DEF Inv, Sized
    <3> QED
      BY <1>2, <2>3, <3>2, <3>3
  <2> QED
    BY <2>2, <2>3
<1>13. Steady
  <2>1. /\ host.client \in Links \cup {None}
        /\ \A l \in Links : link'[l].at = "served" <=> host'.client = l
    BY <1>11 DEF Inv, Typed, Served
  <2> QED
    BY <1>1, <1>8, <1>9, <2>1 DEF Steady
<1>14. \A c \in Runs : Tells(c)
  <2>1. Settled(n).end = "up" => Settled(n).frames = link[k].frames
    BY <1>5, <1>7 DEF NoLink
  <2> QED
    BY <1>8, <2>1, Mute DEF Inv
<1> QED
  BY <1>10, <1>11, <1>12, <1>13, <1>14, SteadyStep

LEMMA OnLeftStep ==
    ASSUME Inv, NEW k \in Links, OnLeft(k)
    PROVE  Inv'
<1> DEFINE n == [link[k] EXCEPT !.left = FALSE]
<1> USE DEF files, screen, history
<1>1. /\ host.at = "serving" /\ link[k].left
      /\ host' = IF host.client = k THEN [host EXCEPT !.client = None] ELSE host
      /\ UNCHANGED <<term, window, files, spawned, agent, screen, output, history>>
  BY DEF OnLeft, IsCurrent
<1>2. link' = [l \in Links |-> IF l = k THEN IF host.client = k THEN Shut(n) ELSE Settled(n)
                               ELSE Settled(link[l])]
  BY DEF OnLeft, IsCurrent
<1>3. link[k] \in Link /\ Sound(link[k]) /\ link[k].at # "none" /\ link[k].end # "up"
  <2>1. link[k] \in Link /\ Sound(link[k])
    BY DEF Inv, AllSound, Sound
  <2>2. link[k] # NoLink
    BY <1>1 DEF NoLink
  <2> QED
    BY <1>1, <2>1, <2>2 DEF Sound
<1>4. n \in Link
  BY <1>3 DEF Link
<1>5. /\ n.at = link[k].at /\ n.end = link[k].end /\ n.frames = link[k].frames /\ n.run = link[k].run
      /\ n.resume = link[k].resume /\ n.size = link[k].size /\ ~n.left
      /\ n.fault = link[k].fault /\ n.asked = link[k].asked
  BY <1>3 DEF Link
<1> HIDE DEF n
<1>6. Sound(n) /\ Tame(link[k], n)
  BY <1>3, <1>4, <1>5, FramesStay
<1>7. Sound(Shut(n)) /\ Tame(link[k], Shut(n)) /\ Shut(n).at \notin {"served", "clearing"}
  BY <1>3, <1>4, <1>5, Shutting
<1>8. ASSUME NEW l \in Links
      PROVE  /\ Sound(link'[l]) /\ Tame(link[l], link'[l])
             /\ link'[l].at = "clearing" <=> link[l].at = "clearing"
             /\ link'[l].at = "served" <=> host'.client = l
             /\ host'.client = l => link'[l].asked = link[l].asked
             /\ link'[l].end = "up" => link'[l].frames = link[l].frames
  <2>1. Sound(link[l]) /\ Tame(link[l], link[l]) /\ (link[l].at = "served" <=> host.client = l)
    BY TameAlone DEF Inv, AllSound, Served
  <2>2. host \in [at : {"down", "serving", "finishing", "stopping"}, client : Links \cup {None}]
        /\ l # None
    BY StartTypes DEF Inv, Typed
  <2>3. host'.client = l <=> host.client = l /\ host.client # k
    BY <1>1, <2>2
  <2>4. NoLink.end # "up"
    BY DEF NoLink
  <2>5. CASE l # k
    <3>1. link'[l] = Settled(link[l])
      BY <1>2, <2>5
    <3>2. /\ Sound(link'[l]) /\ Tame(link[l], link'[l])
          /\ link'[l].at = "served" <=> link[l].at = "served"
          /\ link'[l].at = "clearing" <=> link[l].at = "clearing"
          /\ link'[l] = link[l] \/ (link'[l] = NoLink /\ link[l].at = "shut")
      BY <2>1, <3>1, Settling
    <3> QED
      BY <2>1, <2>3, <2>4, <2>5, <3>2
  <2>6. CASE l = k /\ host.client = k
    <3>1. link'[l] = Shut(n)
      BY <1>2, <2>6
    <3>2. link[l].at = "served"
      BY <2>1, <2>6
    <3>3. link'[l].end # "up"
      <4>1. link'[l] # NoLink => link'[l].end = link[l].end
        BY <1>3, <1>7, <2>6, <3>1 DEF Tame
      <4> QED
        BY <1>3, <2>4, <2>6, <4>1
    <3> QED
      BY <1>7, <2>3, <2>6, <3>1, <3>2, <3>3
  <2>7. CASE l = k /\ host.client # k
    <3>1. link'[l] = Settled(n)
      BY <1>2, <2>7
    <3>2. /\ Sound(link'[l]) /\ Tame(link[l], link'[l])
          /\ link'[l].at = "served" <=> link[l].at = "served"
          /\ link'[l].at = "clearing" <=> link[l].at = "clearing"
          /\ link'[l] = n \/ link'[l] = NoLink
      BY <1>5, <1>6, <2>7, <3>1, Settling
    <3> QED
      BY <1>3, <1>5, <2>1, <2>3, <2>4, <2>7, <3>2
  <2> QED
    BY <2>5, <2>6, <2>7
<1>9. AllSound' /\ link' \in [Links -> Link]
  <2>1. AllSound'
    BY <1>8 DEF AllSound
  <2>2. \A l \in Links : link'[l] \in Link
    BY <1>8 DEF Sound
  <2>3. link' = [l \in Links |-> link'[l]]
    BY ONLY <1>2
  <2> QED
    BY ONLY <2>1, <2>2, <2>3
<1>10. Typed' /\ host'.client \in {host.client, None} /\ host'.at = host.at
  BY <1>1, <1>9 DEF Inv, Typed
<1>11. Locked'
  BY <1>1, <1>8, <1>10 DEF Inv, Locked
<1>12. Served'
  BY <1>1, <1>8, <1>10 DEF Inv, Served
<1>13. Sized'
  <2>1. \A l \in Links : link'[l].end = "up" => link[l].end = "up"
    BY <1>8, TameFrames DEF Inv, AllSound
  <2> QED
    BY <1>1, <1>8, <1>10, <2>1, SizedStays DEF Inv, Own, InStep
<1>14. Steady
  BY <1>1, <1>8, <1>9, <1>10 DEF Steady, Typed
<1>15. \A c \in Runs : Tells(c)
  BY <1>8, Mute DEF Inv
<1> QED
  BY <1>11, <1>12, <1>13, <1>14, <1>15, SteadyStep

-----------------------------------------------------------------------------
(* Steps of a run.                                                          *)

LEMMA RunTypes ==
    /\ NewRun \in Run
    /\ NewRun.at = "idle" /\ NewRun.link = None /\ NewRun.session = "none"
    /\ NewRun.with = None /\ NewRun.shown = None
BY DEF NewRun, Run, Session, Agents

\* The link of a run is its own.
LEMMA OwnLink ==
    ASSUME Inv, NEW c \in Runs, term[c].link # None
    PROVE  /\ term[c].link \in Links /\ Sound(link[term[c].link])
           /\ link[term[c].link].at # "none" /\ link[term[c].link].run = c
           /\ link[term[c].link].end \in {"up", "cut"}
           /\ \A d \in Runs : d # c => term[d].link # term[c].link
<1>1. term[c].link \in Links
  BY TermTypes DEF Inv
<1>2. Sound(link[term[c].link])
  BY <1>1 DEF Inv, AllSound
<1>3. \A d \in Runs : term[d].link # None =>
        link[term[d].link].run = d /\ link[term[d].link].end \in {"up", "cut"}
  BY DEF Inv, Own, InStep
<1>4. link[term[c].link].at # "none"
  BY SMTT(60), <1>2, <1>3 DEF Sound, NoLink
<1> QED
  BY <1>1, <1>2, <1>3, <1>4

\* A run leaves its link, if it has one, to come back or for good.
LEMMA LeavingStep ==
    ASSUME Inv, NEW c \in Runs, NEW r \in Run, term' = [term EXCEPT ![c] = r],
           r.link = None, r.shown = None,
           \/ r.at = "done" /\ r.session = "none"
           \/ /\ r.at = "away" /\ r.session # "none"
              /\ r.session = term[c].session /\ r.with = term[c].with,
           Leaves(c),
           UNCHANGED <<window, files, spawned, host, agent, screen, output, history>>
    PROVE  Inv'
<1> USE DEF files, screen, history
<1>1. term'[c] = r /\ term' \in [Runs -> Run] /\ \A d \in Runs : d # c => term'[d] = term[d]
  BY DEF Inv, Typed
<1>2. ASSUME NEW k \in Links
      PROVE  /\ Sound(link'[k]) /\ link'[k].run \in {link[k].run, None}
             /\ link'[k] # NoLink => /\ link'[k].run = link[k].run
                                     /\ link'[k].resume = link[k].resume
                                     /\ link'[k].at = link[k].at
             /\ link'[k].at = "served" <=> link[k].at = "served"
             /\ link'[k].at = "clearing" <=> link[k].at = "clearing"
             /\ link'[k].frames \in {link[k].frames, <<>>}
             /\ k = term[c].link => link'[k].end # "up" /\ link'[k].end # "cut"
             /\ k # term[c].link => link'[k] = link[k]
  <2>1. Sound(link[k])
    BY DEF Inv, AllSound
  <2>2. CASE k # term[c].link
    BY <2>1, <2>2 DEF Leaves
  <2>3. CASE k = term[c].link
    <3>1. link[k].at # "none"
      BY <2>3, OwnLink, StartTypes DEF Inv
    <3>2. link'[k] = Dropped(link[k])
      BY <2>3 DEF Leaves
    <3>3. NoLink.run = None /\ NoLink.end = "none"
      BY DEF NoLink
    <3> QED
      BY <2>1, <2>3, <3>1, <3>2, <3>3, Dropping
  <2> QED
    BY <2>2, <2>3
<1>3. AllSound' /\ link' \in [Links -> Link]
  <2>1. AllSound'
    BY <1>2 DEF AllSound
  <2>2. \A l \in Links : link'[l] \in Link
    BY <1>2 DEF Sound
  <2>3. link' \in [Links -> Link]
    BY <2>2 DEF Leaves, Inv, Typed
  <2> QED
    BY ONLY <2>1, <2>3
<1>4. ASSUME NEW d \in Runs, d # c, term[d].link # None
      PROVE  link'[term[d].link] = link[term[d].link] /\ term[d].link \in Links
  BY <1>2, <1>4, OwnLink
<1>5. Typed'
  BY <1>1, <1>3 DEF Inv, Typed
<1>6. Locked' /\ Served'
  BY <1>2 DEF Inv, Locked, Served
<1>7. Own'
  <2>1. ASSUME NEW d \in Runs
        PROVE  InStep(d)'
    <3>1. InStep(d)
      BY DEF Inv, Own
    <3>2. CASE d # c
      BY <1>1, <1>4, <3>1, <3>2, InStepStays
    <3>3. CASE d = c
      BY <1>1, <3>1, <3>3 DEF InStep, Started
    <3> QED
      BY <3>2, <3>3
  <2>2. ASSUME NEW k \in Links, link'[k].end \in {"up", "cut"}
        PROVE  term'[link'[k].run].link = k
    <3>1. k # term[c].link /\ link'[k] = link[k] /\ Sound(link[k]) /\ term[link[k].run].link = k
      BY <1>2, <2>2 DEF Inv, Own, AllSound
    <3>2. link[k] # NoLink
      BY <2>2, <3>1 DEF NoLink
    <3>3. link[k].run \in Runs /\ link[k].run # c
      BY <3>1, <3>2 DEF Sound
    <3> QED
      BY <1>1, <3>1, <3>3
  <2> QED
    BY <2>1, <2>2 DEF Own
<1>8. Sessions'
  <2>1. \A k \in Links : Welcomed(link'[k].frames) => link'[k].frames = link[k].frames
    BY <1>2 DEF Welcomed
  <2>2. NoLink.resume = "none" /\ NoLink.frames = <<>>
    BY DEF NoLink
  <2> QED
    BY <1>1, <1>2, <2>1, <2>2 DEF Inv, Sessions, Welcomed
<1>9. Firsts'
  <2>1. \A k \in Links : First(k)' => First(k) /\ link'[k].run = link[k].run
    BY <1>2 DEF First, NoLink, Early
  <2>2. OneStartPerRun' /\ \A d \in Runs : Started(d)' <=> Started(d)
    BY DEF Inv, Firsts, OneStartPerRun, Started
  <2>3. \A d \in Runs : term'[d].at = "idle" => term[d].at = "idle"
    BY <1>1
  <2>4. ASSUME NEW k \in Links, First(k)'
        PROVE  ~Started(link[k].run)'
    BY <2>1, <2>4 DEF Inv, Firsts, Started
  <2> QED
    BY <1>2, <2>1, <2>2, <2>3, <2>4, StartTypes DEF Inv, Firsts
<1>10. Latest'
  <2>1. \A k \in Links : Welcomed(link'[k].frames) => link'[k].frames = link[k].frames
    BY <1>2 DEF Welcomed
  <2> QED
    BY <2>1 DEF Inv, Latest, Started
<1>11. Streams'
  BY SMTT(60), <1>1, <1>4 DEF Inv, Streams
<1>12. Believed'
  <2> SUFFICES ASSUME NEW d \in Runs, term'[d].link # None, link'[term'[d].link].end = "up"
               PROVE  LET s == term'[d]  fs == link'[s.link].frames
                      IN  /\ host.client = s.link => /\ s.at = "asking" <=> Welcomed(fs)
                                                     /\ Knows(s, fs) = agent
                          /\ /\ fs # <<>> /\ LastOf(fs).kind = "exit"
                             /\ Welcomed(fs) \/ s.session # "none"
                             => agent # Knows(s, fs) /\ Truth(Knows(s, fs), LastOf(fs).of)
    BY DEF Believed, Truth
  <2>1. d # c
    BY <1>1
  <2>2. term'[d] = term[d] /\ link'[term[d].link] = link[term[d].link]
    BY <1>1, <1>4, <2>1
  <2> QED
    BY <2>2 DEF Inv, Believed
<1>13. Sized'
  <2> SUFFICES ASSUME NEW d \in Runs, term'[d].at = "attached", link'[term'[d].link].end = "up",
                      host.client = term'[d].link
               PROVE  window[d] = IF link'[term'[d].link].asked = None THEN size
                                  ELSE link'[term'[d].link].asked
    BY DEF Sized
  <2>1. d # c /\ term'[d] = term[d] /\ term[d].link # None
    BY <1>1 DEF Inv, Own, InStep
  <2> QED
    BY <1>4, <2>1 DEF Inv, Sized
<1> QED
  BY <1>3, <1>5, <1>6, <1>7, <1>8, <1>9, <1>10, <1>11, <1>12, <1>13 DEF Inv

LEMMA OverStep ==
    ASSUME Inv, NEW c \in Runs, Over(c), Leaves(c),
           UNCHANGED <<window, files, spawned, host, agent, screen, output, history>>
    PROVE  Inv'
<1> DEFINE r == [NewRun EXCEPT !.at = "done"]
<1>1. r \in Run /\ r.at = "done" /\ r.link = None /\ r.session = "none" /\ r.shown = None
  BY DEF NewRun, Run, Session, Agents
<1>2. term' = [term EXCEPT ![c] = r]
  BY DEF Over
<1> HIDE DEF r
<1> QED
  BY <1>1, <1>2, LeavingStep

LEMMA LeaveStep ==
    ASSUME Inv, NEW c \in Runs, Leave(c)
    PROVE  Inv'
BY OverStep DEF Leave

LEMMA PromptedStep ==
    ASSUME Inv, NEW c \in Runs, Prompted(c)
    PROVE  Inv'
<1>1. term[c].at = "away" /\ Over(c) /\ link' = link
      /\ UNCHANGED <<window, files, spawned, host, agent, screen, output, history>>
  BY DEF Prompted
<1>2. term[c].link = None
  BY <1>1 DEF Inv, Own, InStep
<1>3. Leaves(c)
  BY <1>1, <1>2, StartTypes DEF Leaves, Inv, Typed
<1> QED
  BY <1>1, <1>3, OverStep

LEMMA LoseStep ==
    ASSUME Inv, NEW c \in Runs, Lose(c)
    PROVE  Inv'
<1>1. /\ term[c].at \in {"asking", "attached"} /\ Leaves(c)
      /\ UNCHANGED <<window, files, spawned, host, agent, screen, output, history>>
  BY DEF Lose
<1>2. CASE term[c].session = "none"
  BY <1>1, <1>2, OverStep DEF Lose
<1>3. CASE term[c].session # "none"
  <2> DEFINE r == [term[c] EXCEPT !.at = "away", !.link = None, !.shown = None]
  <2>1. term' = [term EXCEPT ![c] = r]
    BY <1>3 DEF Lose
  <2>2. term[c] \in Run
    BY TermTypes DEF Inv
  <2>3. r \in Run /\ r.at = "away" /\ r.link = None /\ r.shown = None
        /\ r.session = term[c].session /\ r.with = term[c].with
    BY <2>2 DEF Run
  <2> HIDE DEF r
  <2> QED
    BY <1>1, <1>3, <2>1, <2>3, LeavingStep
<1> QED
  BY <1>2, <1>3

LEMMA AttemptStep ==
    ASSUME Inv, NEW c \in Runs, NEW k \in Links, Attempt(c, k)
    PROVE  Inv'
<1> USE DEF files, screen, history
<1> DEFINE r == [term[c] EXCEPT !.at = "asking", !.link = k]
<1> DEFINE m == [NoLink EXCEPT !.at = "dialing", !.end = "up", !.run = c,
                               !.resume = term[c].session, !.size = window[c]]
<1>1. /\ term[c].at \in {"idle", "away"} /\ link[k] = NoLink
      /\ term' = [term EXCEPT ![c] = r] /\ link' = [link EXCEPT ![k] = m]
      /\ UNCHANGED <<window, files, spawned, host, agent, screen, output, history>>
  BY DEF Attempt
<1>2. term[c] \in Run /\ window[c] \in Windows /\ term[c].session \in Session
      /\ term[c].link = None /\ term[c].shown = None
  BY <1>1, TermTypes DEF Inv, Typed, Own, InStep
<1>3. r \in Run /\ r.at = "asking" /\ r.link = k /\ r.session = term[c].session
      /\ r.with = term[c].with /\ r.shown = None
  BY <1>2 DEF Run
<1>4. m \in Link /\ m.at = "dialing" /\ m.end = "up" /\ m.run = c /\ m.resume = term[c].session
      /\ m.size = window[c] /\ m.frames = <<>> /\ ~m.left
  BY <1>2, NoLinkSound DEF Link, NoLink, Agents
<1> HIDE DEF r, m
<1>5. Sound(m)
  BY <1>2, <1>4 DEF Sound, NoLink, Early
<1>6. /\ term'[c] = r /\ term' \in [Runs -> Run] /\ \A d \in Runs : d # c => term'[d] = term[d]
      /\ link'[k] = m /\ link' \in [Links -> Link] /\ \A l \in Links : l # k => link'[l] = link[l]
  BY <1>1, <1>3, <1>4 DEF Inv, Typed
<1>7. NoLink.at = "none" /\ NoLink.end = "none" /\ NoLink.run = None /\ NoLink.resume = "none"
      /\ NoLink.frames = <<>>
  BY DEF NoLink
<1>8. ASSUME NEW d \in Runs, d # c, term[d].link # None
      PROVE  link'[term[d].link] = link[term[d].link] /\ term[d].link \in Links /\ term[d].link # k
  BY <1>1, <1>6, <1>7, <1>8, OwnLink
<1>9. AllSound'
  BY <1>5, <1>6 DEF Inv, AllSound
<1>10. Typed'
  BY <1>1, <1>6 DEF Inv, Typed
<1>11. Locked' /\ Served'
  <2>1. \A l \in Links : /\ link'[l].at = "clearing" <=> link[l].at = "clearing"
                         /\ link'[l].at = "served" <=> link[l].at = "served"
    BY <1>1, <1>4, <1>6, <1>7
  <2> QED
    BY <1>1, <2>1 DEF Inv, Locked, Served
<1>12. Own'
  <2>1. ASSUME NEW d \in Runs
        PROVE  InStep(d)'
    <3>1. InStep(d)
      BY DEF Inv, Own
    <3>2. CASE d # c
      BY <1>1, <1>6, <1>8, <3>1, <3>2, InStepStays
    <3>3. CASE d = c
      BY <1>1, <1>3, <1>4, <1>6, <3>1, <3>3, StartTypes DEF Inv, InStep, Started
    <3> QED
      BY <3>1, <3>2, <3>3
  <2>2. ASSUME NEW l \in Links, link'[l].end \in {"up", "cut"}
        PROVE  term'[link'[l].run].link = l
    <3>1. CASE l = k
      BY <1>3, <1>4, <1>6, <3>1
    <3>2. CASE l # k
      <4>1. link'[l] = link[l] /\ Sound(link[l]) /\ term[link[l].run].link = l
        BY <1>6, <2>2, <3>2 DEF Inv, Own, AllSound
      <4>2. link[l] # NoLink
        BY <2>2, <4>1, <1>7
      <4>3. link[l].run \in Runs /\ link[l].run # c
        BY <1>2, <4>1, <4>2, StartTypes DEF Sound, Inv
      <4> QED
        BY <1>6, <4>1, <4>3
    <3> QED
      BY <3>1, <3>2
  <2> QED
    BY <2>1, <2>2 DEF Own
<1>13. Sessions'
  <2>1. term[c].session = "current" => owner = c
    BY DEF Inv, Sessions
  <2> QED
    BY <1>1, <1>3, <1>4, <1>6, <2>1 DEF Inv, Sessions, Welcomed
<1>14. Firsts'
  <2>1. OneStartPerRun' /\ \A d \in Runs : Started(d)' <=> Started(d)
    BY <1>1 DEF Inv, Firsts, OneStartPerRun, Started
  <2>2. ASSUME NEW d \in Runs, term'[d].at = "idle"
        PROVE  ~Started(d)' /\ \A l \in Links : link'[l].run # d
    <3>1. d # c /\ term[d].at = "idle"
      BY <1>3, <1>6, <2>2
    <3> QED
      BY <1>4, <1>6, <2>1, <3>1 DEF Inv, Firsts
  <2>3. \A l \in Links : l # k => (First(l)' <=> First(l)) /\ link'[l].run = link[l].run
    BY <1>6 DEF First
  <2>4. First(k)' => term[c].at = "idle" /\ link'[k].run = c
    <3>1. term[c].at = "away" => term[c].session # "none"
      BY DEF Inv, Own, InStep
    <3> QED
      BY <1>1, <1>4, <1>6, <3>1 DEF First
  <2>5. term[c].at = "idle" => ~Started(c) /\ \A l \in Links : link[l].run # c
    BY DEF Inv, Firsts
  <2>6. ASSUME NEW l \in Links, First(l)'
        PROVE  ~Started(link[l].run)'
    BY <2>1, <2>3, <2>4, <2>5, <2>6, <1>1 DEF Inv, Firsts, Started
  <2>7. ASSUME NEW l \in Links, NEW n \in Links, First(l)', First(n)', link'[l].run = link'[n].run
        PROVE  l = n
    BY <2>3, <2>4, <2>5, <2>7 DEF Inv, Firsts
  <2> QED
    BY <2>1, <2>2, <2>6, <2>7 DEF Firsts
<1>15. Latest'
  BY <1>1, <1>4, <1>6 DEF Inv, Latest, Started, Welcomed
<1>16. host.client # k
  BY <1>1, <1>7 DEF Inv, Served
<1>17. Streams'
  BY <1>1, <1>3, <1>4, <1>6, <1>8, <1>16 DEF Inv, Streams
<1>18. Believed'
  <2>1. \A a, of : Truth(a, of)' <=> Truth(a, of)
    BY <1>1 DEF Truth
  <2>2. ASSUME NEW d \in Runs, d # c, term[d].link # None
        PROVE  term'[d] = term[d] /\ link'[term'[d].link] = link[term[d].link]
    BY <1>6, <1>8, <2>2
  <2> QED
    BY <1>1, <1>3, <1>4, <1>6, <1>16, <2>1, <2>2 DEF Inv, Believed, Knows
<1>19. Sized'
  <2> SUFFICES ASSUME NEW d \in Runs, term'[d].at = "attached", link'[term'[d].link].end = "up",
                      host.client = term'[d].link
               PROVE  window[d] = IF link'[term'[d].link].asked = None THEN size
                                  ELSE link'[term'[d].link].asked
    BY <1>1 DEF Sized
  <2>1. d # c /\ term'[d] = term[d] /\ term[d].link # None
    BY <1>3, <1>6 DEF Inv, Own, InStep
  <2> QED
    BY <1>8, <2>1 DEF Inv, Sized
<1> QED
  BY <1>9, <1>10, <1>11, <1>12, <1>13, <1>14, <1>15, <1>17, <1>18, <1>19 DEF Inv

\* A frame that is no farewell is taken off a link.
LEMMA FrameTaken ==
    ASSUME NEW l, Sound(l), l.frames # <<>>, Head(l.frames).kind \notin Farewells,
           NEW m \in Link,
           m.at = l.at, m.end = l.end, m.run = l.run, m.resume = l.resume,
           m.size = l.size, m.left = l.left, m.fault = l.fault, m.frames = Tail(l.frames)
    PROVE  /\ Sound(m) /\ l.end = "up" /\ l.at \in {"served", "shut"}
           /\ ~Welcomed(m.frames)
           /\ m.frames # <<>> => LastOf(m.frames) = LastOf(l.frames)
           /\ m.frames = <<>> => LastOf(l.frames) = Head(l.frames)
           /\ m.at = "shut" /\ ~m.fault => m.frames # <<>>
           /\ Head(l.frames) \in Frame
           /\ Head(l.frames).kind = "welcome" => Head(l.frames).session # "none"
           /\ m.frames # <<>> /\ Head(m.frames).kind = "output" /\ Head(l.frames).kind = "output"
                => Head(m.frames).n = (Head(l.frames).n + 1) % Chunks
<1> DEFINE fs == l.frames
<1> DEFINE ts == m.frames
<1>1. l \in Link /\ fs \in Seq(Frame) /\ fs # <<>> /\ l.end = "up" /\ l.at \in {"served", "shut"}
  BY LinkTypes DEF Sound, NoLink
<1>2. /\ Len(fs) \in Nat \ {0} /\ Len(ts) = Len(fs) - 1 /\ Head(fs) = fs[1] /\ Head(fs) \in Frame
      /\ \A i \in 1..(Len(fs) - 1) : ts[i] = fs[i + 1]
      /\ ts # <<>> => LastOf(ts) = LastOf(fs) /\ Head(ts) = fs[2] /\ Len(fs) > 1
      /\ ts = <<>> => LastOf(fs) = Head(fs)
      /\ DOMAIN fs = 1..Len(fs) /\ DOMAIN ts = 1..(Len(fs) - 1)
  BY <1>1, Tailing
<1>3. /\ \A i \in 1..Len(fs) :
           /\ fs[i].kind = "welcome" => i = 1 /\ fs[i].session # "none"
           /\ fs[i].kind \in Farewells => i = Len(fs) /\ l.at = "shut"
      /\ \A i \in 1..(Len(fs) - 1) : fs[i].kind = "output" /\ fs[i + 1].kind = "output"
                                       => fs[i + 1].n = (fs[i].n + 1) % Chunks
      /\ l.at = "shut" /\ ~l.fault => LastOf(fs).kind \in Farewells
  BY <1>1, <1>2 DEF Sound
<1> HIDE DEF fs, ts
<1>4. ASSUME NEW i \in 1..(Len(fs) - 1)
      PROVE  /\ ts[i].kind # "welcome"
             /\ ts[i].kind \in Farewells => i = Len(fs) - 1 /\ l.at = "shut"
  <2>1. i + 1 \in 1..Len(fs) /\ i + 1 # 1 /\ ts[i] = fs[i + 1]
    BY <1>2
  <2> QED
    BY <1>2, <1>3, <2>1
<1>5. ASSUME NEW i \in 1..(Len(ts) - 1), ts[i].kind = "output", ts[i + 1].kind = "output"
      PROVE  ts[i + 1].n = (ts[i].n + 1) % Chunks
  <2>1. i \in 1..(Len(fs) - 1) /\ i + 1 \in 1..(Len(fs) - 1)
    BY <1>2
  <2>2. ts[i] = fs[i + 1] /\ ts[i + 1] = fs[i + 1 + 1]
    BY <1>2, <2>1
  <2> QED
    BY <1>3, <1>5, <2>1, <2>2
<1>6. ts # <<>> => Head(ts).kind # "welcome"
                   /\ (Head(ts).kind = "output" /\ fs[1].kind = "output"
                         => Head(ts).n = (fs[1].n + 1) % Chunks)
  <2> SUFFICES ASSUME ts # <<>>
               PROVE  fs[2].kind # "welcome" /\ (fs[2].kind = "output" /\ fs[1].kind = "output"
                                                   => fs[2].n = (fs[1].n + 1) % Chunks)
    BY <1>2
  <2>1. 1 \in 1..(Len(fs) - 1) /\ 2 \in 1..Len(fs) /\ 1 + 1 = 2 /\ 2 # 1
    BY <1>2
  <2> QED
    BY <1>3, <2>1
<1>7. l.at = "shut" /\ ~l.fault => ts # <<>>
  BY <1>2, <1>3 DEF fs
<1>8. m # NoLink /\ m.at # "none"
  BY <1>1 DEF NoLink
<1>9. Sound(m)
  BY <1>1, <1>2, <1>3, <1>4, <1>5, <1>7, <1>8 DEF Sound, Early, fs, ts
<1>10. fs[1].kind = "welcome" => fs[1].session # "none"
  BY <1>2, <1>3
<1> QED
  BY <1>1, <1>2, <1>6, <1>7, <1>9, <1>10 DEF Welcomed, fs, ts

\* A run hears a frame that is no farewell.
LEMMA HearingStep ==
    ASSUME Inv, NEW c \in Runs, NEW k \in Links, term[c].link = k, link[k].frames # <<>>,
           NEW r \in Run, r.link = k, term' = [term EXCEPT ![c] = r],
           NEW m \in Link, link' = [link EXCEPT ![k] = m],
           m.at = link[k].at, m.end = link[k].end, m.run = link[k].run, m.resume = link[k].resume,
           m.size = link[k].size, m.left = link[k].left, m.fault = link[k].fault,
           m.frames = Tail(link[k].frames),
           LET f == Head(link[k].frames)
           IN  \/ /\ f.kind = "welcome" /\ r.at = "attached" /\ r.session = f.session
                  /\ r.with = f.of /\ r.shown = None /\ (m.at = "served" => m.asked = window[c])
               \/ /\ f.kind = "output" /\ r.at = term[c].at /\ r.session = term[c].session
                  /\ r.with = term[c].with /\ r.shown = f.n /\ m.asked = link[k].asked,
           UNCHANGED <<window, files, spawned, host, agent, screen, output, history>>
    PROVE  Inv'
<1> USE DEF files, screen, history
<1> DEFINE fs == link[k].frames
<1> DEFINE f == Head(fs)
<1>1. /\ Sound(link[k]) /\ link[k].run = c /\ k # None
      /\ \A d \in Runs : d # c => term[d].link # k
  <2>1. k # None
    BY StartTypes DEF Inv
  <2> QED
    BY <2>1, OwnLink
<1>2. f.kind \notin Farewells /\ f.kind \in {"welcome", "output"}
  BY DEF Farewells
<1>3. /\ Sound(m) /\ link[k].end = "up" /\ link[k].at \in {"served", "shut"}
      /\ ~Welcomed(m.frames)
      /\ m.frames # <<>> => LastOf(m.frames) = LastOf(fs)
      /\ m.frames = <<>> => LastOf(fs) = f
      /\ m.at = "shut" /\ ~m.fault => m.frames # <<>>
      /\ f \in Frame
      /\ f.kind = "welcome" => f.session # "none"
      /\ m.frames # <<>> /\ Head(m.frames).kind = "output" /\ f.kind = "output"
           => Head(m.frames).n = (f.n + 1) % Chunks
  BY <1>1, <1>2, FrameTaken
<1>4. Sound(m)
  BY <1>3
<1>5. /\ term'[c] = r /\ term' \in [Runs -> Run] /\ \A d \in Runs : d # c => term'[d] = term[d]
      /\ link'[k] = m /\ link' \in [Links -> Link] /\ \A l \in Links : l # k => link'[l] = link[l]
  BY DEF Inv, Typed
<1>6. ASSUME NEW d \in Runs, d # c, term[d].link # None
      PROVE  link'[term[d].link] = link[term[d].link] /\ term[d].link \in Links /\ term[d].link # k
  BY <1>1, <1>5, <1>6, OwnLink
<1>7. ~Welcomed(m.frames)
  BY <1>3
<1>8. AllSound'
  BY <1>4, <1>5 DEF Inv, AllSound
<1>9. Typed'
  BY <1>5 DEF Inv, Typed
<1>10. Locked' /\ Served'
  <2>1. \A l \in Links : link'[l].at = link[l].at
    BY <1>5
  <2> QED
    BY <2>1 DEF Inv, Locked, Served
<1>11. Own'
  <2>1. ASSUME NEW d \in Runs
        PROVE  InStep(d)'
    <3>1. InStep(d)
      BY DEF Inv, Own
    <3>2. CASE d # c
      BY <1>5, <1>6, <3>1, <3>2, InStepStays
    <3>3. CASE d = c
      <4>1. m.at = "shut" /\ ~m.fault => m.frames # <<>>
        BY <1>3
      <4>2. f.kind = "welcome" => r.session # "none" /\ Started(r.with)
        <5>1. f.kind = "welcome" => Welcomed(fs) /\ r.with = f.of /\ r.session = f.session
          BY DEF Welcomed
        <5> QED
          BY <1>3, <5>1 DEF Inv, Latest
      <4>3. InStep(c)
        BY DEF Inv, Own
      <4>4. f.kind = "output" => term[c].at = "attached" /\ r.at = "attached"
        BY <1>1, <4>3 DEF InStep
      <4>5. r.at = "attached" /\ r.session # "none" /\ Started(r.with)
        BY <4>2, <4>3, <4>4 DEF InStep
      <4> QED
        BY <1>1, <1>3, <1>5, <3>3, <4>1, <4>5 DEF InStep, Started, Early
    <3> QED
      BY <3>1, <3>2, <3>3
  <2>2. ASSUME NEW l \in Links, link'[l].end \in {"up", "cut"}
        PROVE  term'[link'[l].run].link = l
    <3>1. CASE l = k
      BY <1>1, <1>5, <3>1
    <3>2. CASE l # k
      <4>1. link'[l] = link[l] /\ Sound(link[l]) /\ term[link[l].run].link = l
        BY <1>5, <2>2, <3>2 DEF Inv, Own, AllSound
      <4>2. link[l] # NoLink
        BY <2>2, <4>1 DEF NoLink
      <4>3. link[l].run \in Runs /\ link[l].run # c
        BY <3>2, <4>1, <4>2 DEF Sound
      <4> QED
        BY <1>5, <4>1, <4>3
    <3> QED
      BY <3>1, <3>2
  <2> QED
    BY <2>1, <2>2 DEF Own
<1>12. Sessions'
  <2>1. r.session = "current" => owner = c
    BY <1>1 DEF Inv, Sessions, Welcomed
  <2> QED
    BY <1>5, <1>7, <2>1 DEF Inv, Sessions
<1>13. Firsts'
  <2>1. OneStartPerRun' /\ \A d \in Runs : Started(d)' <=> Started(d)
    BY DEF Inv, Firsts, OneStartPerRun, Started
  <2>2. \A l \in Links : (First(l)' <=> First(l)) /\ link'[l].run = link[l].run
    BY <1>5 DEF First
  <2>3. ASSUME NEW d \in Runs, term'[d].at = "idle"
        PROVE  term[d].at = "idle"
    BY <1>5, <2>3
  <2>4. ASSUME NEW l \in Links, First(l)'
        PROVE  ~Started(link[l].run)'
    BY <2>2, <2>4 DEF Inv, Firsts, Started
  <2> QED
    BY <2>1, <2>2, <2>3, <2>4 DEF Inv, Firsts
<1>14. Latest'
  BY <1>5, <1>7 DEF Inv, Latest, Started
<1>15. Streams'
  <2> SUFFICES ASSUME NEW d \in Runs, term'[d].link # None, link'[term'[d].link].end = "up"
               PROVE  LET l == term'[d].link  gs == link'[l].frames
                      IN  /\ term'[d].shown # None /\ gs # <<>> /\ Head(gs).kind = "output"
                               => Head(gs).n = (term'[d].shown + 1) % Chunks
                          /\ host.client = l /\ gs # <<>> /\ LastOf(gs).kind = "output"
                               => output = (LastOf(gs).n + 1) % Chunks
                          /\ host.client = l /\ gs = <<>> /\ term'[d].shown # None
                               => output = (term'[d].shown + 1) % Chunks
    BY DEF Streams
  <2>1. CASE d # c
    BY <1>5, <1>6, <2>1 DEF Inv, Streams
  <2>2. CASE d = c
    <3>1. /\ host.client = k /\ LastOf(fs).kind = "output" => output = (LastOf(fs).n + 1) % Chunks
      BY <1>1, <1>3 DEF Inv, Streams
    <3>2. \/ f.kind = "welcome" /\ r.shown = None
          \/ f.kind = "output" /\ r.shown = f.n
      OBVIOUS
    <3>3. r.shown # None /\ m.frames # <<>> /\ Head(m.frames).kind = "output"
            => Head(m.frames).n = (r.shown + 1) % Chunks
      BY <1>3, <3>2
    <3>4. host.client = k /\ m.frames # <<>> /\ LastOf(m.frames).kind = "output"
            => output = (LastOf(m.frames).n + 1) % Chunks
      BY <1>3, <3>1
    <3>5. ASSUME host.client = k, m.frames = <<>>, r.shown # None
          PROVE  output = (r.shown + 1) % Chunks
      <4>1. LastOf(fs) = f
        BY <1>3, <3>5
      <4>2. f.kind = "output" /\ r.shown = f.n
        BY <3>2, <3>5
      <4>3. LastOf(fs).kind = "output" /\ LastOf(fs).n = r.shown
        BY ONLY <4>1, <4>2
      <4> QED
        BY ONLY <3>1, <3>5, <4>3
    <3> QED
      BY <1>5, <2>2, <3>3, <3>4, <3>5
  <2> QED
    BY <2>1, <2>2
<1>16. Believed'
  <2> SUFFICES ASSUME NEW d \in Runs, term'[d].link # None, link'[term'[d].link].end = "up"
               PROVE  LET s == term'[d]  l == s.link  gs == link'[l].frames
                      IN  /\ host.client = l => (s.at = "asking" <=> Welcomed(gs)) /\ Knows(s, gs) = agent
                          /\ /\ gs # <<>> /\ LastOf(gs).kind = "exit"
                             /\ Welcomed(gs) \/ s.session # "none"
                             => agent # Knows(s, gs) /\ Truth(Knows(s, gs), LastOf(gs).of)
    BY DEF Believed, Truth
  <2>1. CASE d # c
    BY <1>5, <1>6, <2>1 DEF Inv, Believed
  <2>2. CASE d = c
    <3>1. /\ host.client = k => (term[c].at = "asking" <=> Welcomed(fs)) /\ Knows(term[c], fs) = agent
          /\ LastOf(fs).kind = "exit" /\ (Welcomed(fs) \/ term[c].session # "none")
               => agent # Knows(term[c], fs) /\ Truth(Knows(term[c], fs), LastOf(fs).of)
      BY SMTT(60), <1>1, <1>3 DEF Inv, Believed
    <3>2. Knows(r, m.frames) = r.with
      BY <1>7 DEF Knows
    <3>3. f.kind = "welcome" => Welcomed(fs) /\ Knows(term[c], fs) = r.with
      BY DEF Welcomed, Knows
    <3>4. f.kind = "output" => ~Welcomed(fs) /\ Knows(term[c], fs) = r.with
      BY DEF Welcomed, Knows
    <3>5. \/ f.kind = "welcome" /\ r.at = "attached"
          \/ f.kind = "output" /\ r.at = term[c].at /\ r.session = term[c].session
      OBVIOUS
    <3>6. host.client = k => r.at # "asking" /\ r.with = agent
      BY <3>1, <3>3, <3>4, <3>5
    <3>7. m.frames # <<>> /\ LastOf(m.frames).kind = "exit" /\ r.session # "none"
            => agent # r.with /\ Truth(r.with, LastOf(m.frames).of)
      BY <1>3, <3>1, <3>3, <3>4, <3>5
    <3> QED
      BY <1>5, <1>7, <2>2, <3>2, <3>6, <3>7
  <2> QED
    BY <2>1, <2>2
<1>17. Sized'
  <2> SUFFICES ASSUME NEW d \in Runs, term'[d].at = "attached", link'[term'[d].link].end = "up",
                      host.client = term'[d].link
               PROVE  window[d] = IF link'[term'[d].link].asked = None THEN size
                                  ELSE link'[term'[d].link].asked
    BY DEF Sized
  <2>1. CASE d # c
    BY <1>5, <1>6, <2>1 DEF Inv, Sized, Own, InStep
  <2>2. CASE d = c
    <3>1. m.at = "served" /\ window[c] # None
      BY <1>5, <2>2, RemoteAssumption DEF Inv, Served, Typed
    <3> QED
      BY <1>1, <1>3, <1>5, <2>2, <3>1 DEF Inv, Sized
  <2> QED
    BY <2>1, <2>2
<1> QED
  BY <1>8, <1>9, <1>10, <1>11, <1>12, <1>13, <1>14, <1>15, <1>16, <1>17 DEF Inv

LEMMA HearStep ==
    ASSUME Inv, NEW c \in Runs, Hear(c)
    PROVE  Inv'
<1> DEFINE k == term[c].link
<1> DEFINE f == Head(link[k].frames)
<1>1. /\ term[c].at \in {"asking", "attached"} /\ link[k].frames # <<>>
      /\ UNCHANGED <<window, files, spawned, host, agent, screen, output, history>>
  BY DEF Hear
<1>2. k \in Links /\ link[k] \in Link /\ window[c] \in Windows
  <2>1. k # None
    BY <1>1 DEF Inv, Own, InStep
  <2> QED
    BY <2>1, TermTypes DEF Inv, Typed
<1>3. link[k].frames \in Seq(Frame) /\ f \in Frame /\ Tail(link[k].frames) \in Seq(Frame)
  <2>1. link[k].frames \in Seq(Frame)
    BY <1>2, LinkTypes
  <2> QED
    BY <1>1, <2>1, Tailing
<1>4. term[c] \in Run
  BY TermTypes DEF Inv
<1>5. CASE f.kind \in Farewells
  <2>1. Over(c) /\ Leaves(c)
    BY <1>5 DEF Hear, Farewells
  <2> QED
    BY <1>1, <2>1, OverStep
<1>6. CASE f.kind = "welcome"
  <2> DEFINE r == [term[c] EXCEPT !.at = "attached", !.session = f.session,
                                  !.with = f.of, !.shown = None]
  <2> DEFINE m == [[link[k] EXCEPT !.frames = Tail(@)] EXCEPT
                     !.asked = IF link[k].at = "served" THEN window[c] ELSE @]
  <2>1. term' = [term EXCEPT ![c] = r] /\ link' = [link EXCEPT ![k] = m]
    BY <1>2, <1>6 DEF Hear, Inv, Typed
  <2>2. f.session \in Session /\ f.of \in Agents
    BY <1>3, <1>6, Frames DEF Agents
  <2>3. /\ r \in Run /\ r.link = k /\ r.at = "attached" /\ r.session = f.session
        /\ r.with = f.of /\ r.shown = None
    BY <1>4, <2>2 DEF Run
  <2>4. /\ m \in Link /\ m.at = link[k].at /\ m.end = link[k].end /\ m.run = link[k].run
        /\ m.resume = link[k].resume /\ m.size = link[k].size /\ m.left = link[k].left
        /\ m.fault = link[k].fault /\ m.frames = Tail(link[k].frames)
        /\ m.at = "served" => m.asked = window[c]
    BY <1>2, <1>3 DEF Link
  <2> HIDE DEF r, m
  <2> QED
    BY ZenonT(60), <1>1, <1>2, <1>6, <2>1, <2>3, <2>4, HearingStep
<1>7. CASE f.kind = "output"
  <2> DEFINE r == [term[c] EXCEPT !.shown = f.n]
  <2> DEFINE m == [link[k] EXCEPT !.frames = Tail(@)]
  <2>1. term' = [term EXCEPT ![c] = r] /\ link' = [link EXCEPT ![k] = m]
    BY <1>7 DEF Hear
  <2>2. f.n \in Nat
    BY <1>3, <1>7, Frames, RemoteAssumption
  <2>3. /\ r \in Run /\ r.link = k /\ r.at = term[c].at /\ r.session = term[c].session
        /\ r.with = term[c].with /\ r.shown = f.n
    BY <1>4, <2>2 DEF Run
  <2>4. /\ m \in Link /\ m.at = link[k].at /\ m.end = link[k].end /\ m.run = link[k].run
        /\ m.resume = link[k].resume /\ m.size = link[k].size /\ m.left = link[k].left
        /\ m.fault = link[k].fault /\ m.frames = Tail(link[k].frames)
        /\ m.asked = link[k].asked
    BY <1>2, <1>3 DEF Link
  <2> HIDE DEF r, m
  <2> QED
    BY <1>1, <1>2, <1>7, <2>1, <2>3, <2>4, HearingStep
<1> QED
  BY <1>3, <1>5, <1>6, <1>7, Frames

-----------------------------------------------------------------------------
(* The output of the agent.                                                 *)

\* The next number.
LEMMA NextChunk ==
    ASSUME NEW x \in Nat, NEW n \in Nat, n > 0
    PROVE  (x + 1) % n \in Nat /\ (x + 1) % n <= n
OBVIOUS

\* Output follows what the client has been sent.
LEMMA OutputSent ==
    ASSUME NEW l, Sound(l), l.at = "served", l.end = "up", NEW f \in Frame, f.kind = "output",
           l.frames # <<>> /\ LastOf(l.frames).kind = "output"
             => f.n = (LastOf(l.frames).n + 1) % Chunks,
           NEW m \in Link, m.at = l.at, m.end = l.end, m.run = l.run, m.resume = l.resume,
           m.size = l.size, m.left = l.left, m.fault = l.fault, m.frames = Append(l.frames, f)
    PROVE  /\ Sound(m) /\ m.frames # <<>> /\ LastOf(m.frames) = f
           /\ Head(m.frames) = IF l.frames = <<>> THEN f ELSE Head(l.frames)
<1> DEFINE fs == l.frames
<1> DEFINE gs == m.frames
<1>1. fs \in Seq(Frame)
  BY LinkTypes DEF Sound
<1>2. /\ gs # <<>> /\ Len(gs) = Len(fs) + 1 /\ LastOf(gs) = f /\ gs[Len(fs) + 1] = f
      /\ \A i \in 1..Len(fs) : gs[i] = fs[i]
      /\ Head(gs) = IF fs = <<>> THEN f ELSE Head(fs)
      /\ Len(fs) \in Nat /\ DOMAIN fs = 1..Len(fs) /\ DOMAIN gs = 1..(Len(fs) + 1)
      /\ fs # <<>> <=> Len(fs) > 0
  BY <1>1, Appending
<1>3. /\ \A i \in 1..Len(fs) :
           /\ fs[i].kind = "welcome" => i = 1 /\ fs[i].session # "none"
           /\ fs[i].kind \notin Farewells
      /\ \A i \in 1..(Len(fs) - 1) : fs[i].kind = "output" /\ fs[i + 1].kind = "output"
                                       => fs[i + 1].n = (fs[i].n + 1) % Chunks
  BY <1>2 DEF Sound
<1> HIDE DEF fs, gs
<1>4. ASSUME NEW i \in 1..Len(gs)
      PROVE  /\ gs[i].kind = "welcome" => i = 1 /\ gs[i].session # "none"
             /\ gs[i].kind \notin Farewells
  <2>1. CASE i \in 1..Len(fs)
    BY <1>2, <1>3, <2>1
  <2>2. CASE i = Len(fs) + 1
    BY <1>2, <2>2 DEF Farewells
  <2> QED
    BY <1>2, <2>1, <2>2
<1>5. ASSUME NEW i \in 1..(Len(gs) - 1), gs[i].kind = "output", gs[i + 1].kind = "output"
      PROVE  gs[i + 1].n = (gs[i].n + 1) % Chunks
  <2>1. CASE i = Len(fs)
    <3>1. fs # <<>> /\ LastOf(fs) = gs[i] /\ gs[i + 1] = f
      BY <1>2, <2>1 DEF LastOf
    <3> QED
      BY <1>5, <3>1 DEF fs
  <2>2. CASE i # Len(fs)
    <3>1. i \in 1..Len(fs) /\ Len(fs) \in Nat
      BY <1>2
    <3>2. i \in 1..(Len(fs) - 1) /\ i + 1 \in 1..Len(fs)
      BY <2>2, <3>1
    <3> QED
      BY <1>2, <1>3, <1>5, <3>1, <3>2
  <2> QED
    BY <2>1, <2>2
<1>6. m # NoLink /\ m.at = "served"
  BY DEF NoLink
<1>7. Sound(m)
  BY <1>2, <1>4, <1>5, <1>6 DEF Sound, Early, gs
<1> QED
  BY <1>2, <1>7 DEF fs, gs

\* The client is sent output: it is what the run shows next.
LEMMA PrintedStep ==
    ASSUME Inv, NEW k \in Links, host.client = k, link[k].end = "up",
           Chunks > 0, output' = (output + 1) % Chunks,
           NEW m \in Link, link' = [link EXCEPT ![k] = m],
           m.at = link[k].at, m.end = link[k].end, m.run = link[k].run, m.resume = link[k].resume,
           m.size = link[k].size, m.left = link[k].left, m.fault = link[k].fault,
           m.frames = Append(link[k].frames, Output(output)), m.asked = link[k].asked,
           UNCHANGED <<term, window, files, spawned, host, agent, screen, history>>
    PROVE  Inv'
<1> USE DEF files, screen, history
<1> DEFINE f == Output(output)
<1> DEFINE fs == link[k].frames
<1> DEFINE c == link[k].run
<1>1. /\ Sound(link[k]) /\ link[k].at = "served" /\ k # None
      /\ c \in Runs /\ term[c].link = k /\ link[k].at # "none"
      /\ \A d \in Runs : d # c => term[d].link # k
  <2>1. Sound(link[k]) /\ link[k].at = "served" /\ k # None
    BY StartTypes DEF Inv, AllSound, Served
  <2>2. c \in Runs /\ term[c].link = k
    BY <2>1 DEF Inv, Own, Sound
  <2> QED
    BY <2>1, <2>2, OwnLink
<1>2. f \in Frame /\ f.kind = "output" /\ f.n = output
  <2>1. output \in 0..Chunks
    BY RemoteAssumption DEF Inv, Typed
  <2> QED
    BY <2>1, FrameTypes
<1>3. /\ fs # <<>> /\ LastOf(fs).kind = "output" => output = (LastOf(fs).n + 1) % Chunks
      /\ fs = <<>> /\ term[c].shown # None => output = (term[c].shown + 1) % Chunks
      /\ term[c].shown # None /\ fs # <<>> /\ Head(fs).kind = "output"
           => Head(fs).n = (term[c].shown + 1) % Chunks
  BY <1>1 DEF Inv, Streams
<1>4. (term[c].at = "asking" <=> Welcomed(fs)) /\ Knows(term[c], fs) = agent
  BY <1>1 DEF Inv, Believed
<1> HIDE DEF f, c
<1>5. /\ Sound(m) /\ m.frames # <<>> /\ LastOf(m.frames) = f
      /\ Head(m.frames) = IF fs = <<>> THEN f ELSE Head(fs)
  BY <1>1, <1>2, <1>3, OutputSent DEF f
<1>6. (Welcomed(m.frames) <=> Welcomed(fs)) /\ (Welcomed(fs) => Head(m.frames) = Head(fs))
  BY <1>2, <1>5 DEF Welcomed
<1>7. /\ link'[k] = m /\ link' \in [Links -> Link] /\ \A l \in Links : l # k => link'[l] = link[l]
  BY DEF Inv, Typed
<1>8. ASSUME NEW d \in Runs, d # c, term[d].link # None
      PROVE  link'[term[d].link] = link[term[d].link] /\ term[d].link \in Links
  BY <1>1, <1>7, <1>8, OwnLink
<1>9. AllSound'
  BY <1>5, <1>7 DEF Inv, AllSound
<1>10. Typed'
  BY <1>7, NextChunk, RemoteAssumption DEF Inv, Typed
<1>11. Locked' /\ Served'
  <2>1. \A l \in Links : link'[l].at = link[l].at
    BY <1>7
  <2> QED
    BY <2>1 DEF Inv, Locked, Served
<1>12. Own'
  <2>1. ASSUME NEW d \in Runs
        PROVE  InStep(d)'
    <3>1. InStep(d)
      BY DEF Inv, Own
    <3>2. CASE d # c
      BY <1>8, <3>1, <3>2, InStepStays
    <3>3. CASE d = c
      <4>1. term[c].at = "asking" => Head(m.frames).kind # "output"
        BY <1>4, <1>5 DEF Welcomed
      <4>2. InStep(c)
        BY <1>1 DEF Inv, Own
      <4> QED
        BY <1>1, <1>5, <1>7, <3>3, <4>1, <4>2 DEF InStep, Started, Early
    <3> QED
      BY <3>1, <3>2, <3>3
  <2>2. \A l \in Links : link'[l].end = link[l].end /\ link'[l].run = link[l].run
    BY <1>7
  <2> QED
    BY <2>1, <2>2 DEF Inv, Own
<1>13. Sessions'
  BY ZenonT(60), <1>5, <1>6, <1>7 DEF Inv, Sessions
<1>14. Firsts'
  <2>1. OneStartPerRun' /\ \A d \in Runs : Started(d)' <=> Started(d)
    BY DEF Inv, Firsts, OneStartPerRun, Started
  <2>2. \A l \in Links : (First(l)' <=> First(l)) /\ link'[l].run = link[l].run
    BY <1>7 DEF First
  <2>3. ASSUME NEW l \in Links, First(l)'
        PROVE  ~Started(link[l].run)'
    BY <2>2, <2>3 DEF Inv, Firsts, Started
  <2> QED
    BY <2>1, <2>2, <2>3 DEF Inv, Firsts
<1>15. Latest'
  <2>1. \A l \in Links : Welcomed(link'[l].frames)
                           => Welcomed(link[l].frames) /\ Head(link'[l].frames) = Head(link[l].frames)
    BY <1>6, <1>7
  <2> QED
    BY <2>1 DEF Inv, Latest, Started
<1>16. Streams'
  <2>1. ASSUME NEW d \in Runs, term[d].link # None, link'[term[d].link].end = "up"
        PROVE  LET l == term[d].link  gs == link'[l].frames
               IN  /\ term[d].shown # None /\ gs # <<>> /\ Head(gs).kind = "output"
                        => Head(gs).n = (term[d].shown + 1) % Chunks
                   /\ host.client = l /\ gs # <<>> /\ LastOf(gs).kind = "output"
                        => output' = (LastOf(gs).n + 1) % Chunks
                   /\ host.client = l /\ gs = <<>> /\ term[d].shown # None
                        => output' = (term[d].shown + 1) % Chunks
    <3>1. CASE d # c
      <4>1. link'[term[d].link] = link[term[d].link] /\ host.client # term[d].link
        BY <1>1, <1>8, <2>1, <3>1
      <4>2. Streams
        BY DEF Inv
      <4> QED
        BY <2>1, <4>1, <4>2 DEF Streams
    <3>2. CASE d = c
      BY <1>1, <1>2, <1>3, <1>5, <1>7, <3>2
    <3> QED
      BY <3>1, <3>2
  <2>2. UNCHANGED <<term, host>>
    OBVIOUS
  <2> QED
    BY ONLY <2>1, <2>2 DEF Streams
<1>17. Believed'
  <2>1. ASSUME NEW d \in Runs, term[d].link # None, link'[term[d].link].end = "up"
        PROVE  LET s == term[d]  l == s.link  gs == link'[l].frames
               IN  /\ host.client = l => (s.at = "asking" <=> Welcomed(gs)) /\ Knows(s, gs) = agent
                   /\ /\ gs # <<>> /\ LastOf(gs).kind = "exit"
                      /\ Welcomed(gs) \/ s.session # "none"
                      => agent # Knows(s, gs) /\ Truth(Knows(s, gs), LastOf(gs).of)
    <3>1. CASE d # c
      <4>1. link'[term[d].link] = link[term[d].link]
        BY <1>8, <2>1, <3>1
      <4>2. Believed
        BY DEF Inv
      <4> QED
        BY <2>1, <4>1, <4>2 DEF Believed
    <3>2. CASE d = c
      BY <1>1, <1>2, <1>4, <1>5, <1>6, <1>7, <3>2 DEF Knows
    <3> QED
      BY <3>1, <3>2
  <2>2. UNCHANGED <<term, host, agent, starts>>
    OBVIOUS
  <2> QED
    BY ONLY <2>1, <2>2 DEF Believed, Truth
<1>18. Sized'
  <2>1. \A l \in Links : link'[l].asked = link[l].asked /\ link'[l].end = link[l].end
    BY <1>7
  <2>2. /\ \A d \in Runs : term[d].at = "attached" => term[d].link \in Links
        /\ UNCHANGED <<term, window, host, size>>
    BY TermTypes, StartTypes DEF Inv, Own, InStep, screen
  <2>3. Sized
    BY DEF Inv
  <2> QED
    BY ONLY <2>1, <2>2, <2>3 DEF Sized
<1> QED
  BY <1>9, <1>10, <1>11, <1>12, <1>13, <1>14, <1>15, <1>16, <1>17, <1>18 DEF Inv

LEMMA ForwardStep ==
    ASSUME Inv, Forward
    PROVE  Inv'
<1> DEFINE k == host.client
<1> DEFINE l == link[k]
<1> USE DEF files, screen, history
<1>1. /\ agent # None /\ Chunks > 0 /\ output' = (output + 1) % Chunks
      /\ UNCHANGED <<term, window, files, spawned, agent, screen, history>>
  BY DEF Forward
<1>2. k \in Links \cup {None} /\ (output' \in Nat /\ output' <= Chunks)
  BY <1>1, NextChunk, RemoteAssumption DEF Inv, Typed
<1>3. Output(output) \in Frame /\ Output(output).kind = "output"
  <2>1. output \in 0..Chunks
    BY RemoteAssumption DEF Inv, Typed
  <2> QED
    BY <2>1, FrameTypes
<1>4. CASE k = None
  <2>1. UNCHANGED <<link, host>>
    BY <1>4 DEF Forward
  <2>2. /\ AllSound' /\ link' \in [Links -> Link] /\ \A n \in Links : Tame(link[n], link'[n])
        /\ \A c \in Runs : Tells(c)
    BY <2>1, LinksStay
  <2>3. Typed' /\ Locked' /\ Served' /\ Sized'
    BY <1>1, <1>2, <2>1, <2>2 DEF Inv, Typed, Locked, Served, Sized
  <2>4. Steady
    BY <1>1, <1>4, <2>1, <2>2, <2>3 DEF Steady
  <2> QED
    BY <2>2, <2>3, <2>4, SteadyStep
<1>5. CASE k # None
  <2>1. /\ link' = [link EXCEPT ![k] = Sent(@, Output(output))]
        /\ host' = IF Fits(l) THEN host ELSE [host EXCEPT !.client = None]
    BY <1>5 DEF Forward
  <2>2. k \in Links /\ l \in Link /\ Sound(l) /\ l.at = "served"
    BY <1>2, <1>5 DEF Inv, Typed, AllSound, Served
  <2>3. CASE Fits(l) /\ l.end = "up"
    <3> DEFINE m == [l EXCEPT !.frames = Append(@, Output(output))]
    <3>1. link' = [link EXCEPT ![k] = m] /\ host' = host
      BY <2>1, <2>3 DEF Sent, Put
    <3>2. l.frames \in Seq(Frame) /\ Append(l.frames, Output(output)) \in Seq(Frame)
      BY <1>3, <2>2, LinkTypes, Appending
    <3>3. /\ m \in Link /\ m.at = l.at /\ m.end = l.end /\ m.run = l.run /\ m.resume = l.resume
          /\ m.size = l.size /\ m.left = l.left /\ m.fault = l.fault /\ m.asked = l.asked
          /\ m.frames = Append(l.frames, Output(output))
      BY <2>2, <3>2 DEF Link
    <3> HIDE DEF m
    <3> QED
      BY <1>1, <2>2, <2>3, <3>1, <3>3, PrintedStep
  <2>4. CASE Fits(l) /\ l.end # "up"
    <3>1. link' = link /\ host' = host
      BY <2>1, <2>2, <2>4 DEF Sent, Put, Inv, Typed
    <3>2. /\ AllSound' /\ link' \in [Links -> Link] /\ \A n \in Links : Tame(link[n], link'[n])
          /\ \A c \in Runs : Tells(c)
      BY <3>1, LinksStay
    <3>3. Typed' /\ Locked' /\ Served' /\ Sized'
      BY <1>1, <1>2, <3>1, <3>2 DEF Inv, Typed, Locked, Served, Sized
    <3>4. Steady
      BY <1>1, <2>2, <2>4, <3>1, <3>2, <3>3 DEF Steady
    <3> QED
      BY <3>2, <3>3, <3>4, SteadyStep
  <2>5. CASE ~Fits(l)
    <3> DEFINE n == [l EXCEPT !.fault = TRUE]
    <3>1. link' = [link EXCEPT ![k] = Shut(n)] /\ host' = [host EXCEPT !.client = None]
      BY <2>1, <2>5 DEF Sent
    <3>2. /\ n \in Link /\ n.at = l.at /\ n.run = l.run /\ n.resume = l.resume /\ n.end = l.end
          /\ n.frames = l.frames /\ n.fault /\ n.left = l.left
      BY <2>2 DEF Link
    <3>3. Shut(n).end = "up" => Shut(n).frames = l.frames
      BY <3>2 DEF Shut, Settled, NoLink, Link
    <3> HIDE DEF n
    <3>4. Sound(Shut(n)) /\ Tame(l, Shut(n)) /\ Shut(n).at \notin {"served", "clearing"}
      BY <2>2, <3>2, Shutting
    <3>5. /\ AllSound' /\ link' \in [Links -> Link] /\ link'[k] = Shut(n)
          /\ \A j \in Links : Tame(link[j], link'[j]) /\ (j # k => link'[j] = link[j])
      BY <2>2, <3>1, <3>4, OneLink DEF Inv
    <3>6. \A c \in Runs : Tells(c)
      BY <3>3, <3>5, Mute DEF Inv
    <3>7. host'.client = None /\ host'.at = host.at
          /\ host' \in [at : {"down", "serving", "finishing", "stopping"}, client : Links \cup {None}]
      BY <3>1 DEF Inv, Typed
    <3>8. Typed'
      BY <1>1, <1>2, <3>5, <3>7 DEF Inv, Typed
    <3>9. Locked' /\ Served' /\ Sized'
      <4>1. \A j \in Links : /\ link'[j].at # "served"
                             /\ link'[j].at = "clearing" <=> link[j].at = "clearing"
        BY <2>2, <3>4, <3>5 DEF Inv, Served
      <4> QED
        BY <1>1, <3>7, <4>1, StartTypes DEF Inv, Locked, Served, Sized, Own, InStep
    <3>10. Steady
      BY <1>1, <3>5, <3>7, <3>8 DEF Steady
    <3> QED
      BY <3>6, <3>9, <3>10, SteadyStep
  <2> QED
    BY <2>3, <2>4, <2>5
<1> QED
  BY <1>4, <1>5

-----------------------------------------------------------------------------
(* A run attaches.                                                          *)

\* What the client before, and any link but the new one, is left with.
LEMMA OthersLinks ==
    ASSUME Inv, NEW l \in Links,
           NEW b, b = IF l = host.client THEN Parted(link[l], Replaced) ELSE link[l],
           NEW m, m = StaledLink(b)
    PROVE  /\ Sound(m) /\ m.at # "served" /\ (m.at = "clearing" <=> link[l].at = "clearing")
           /\ m.resume # "current"
           /\ m = NoLink => link[l].end \in {"none", "gone"}
           /\ m # NoLink =>
                /\ m.run = link[l].run /\ (m.resume = "none" <=> link[l].resume = "none")
                /\ m.end = link[l].end \/ (link[l].end = "up" /\ m.end = "cut")
                /\ m.at \in Early => link[l].at \in Early
                /\ link[l].at \in {"served", "shut"} => m.at \in {"served", "shut"}
           /\ m.end = "up" =>
                /\ link[l].end = "up"
                /\ m.at = "shut" /\ ~m.fault /\ link[l].at \in {"served", "shut"} =>
                     m.frames # <<>> \/ (link[l].at = "shut" /\ ~link[l].fault /\ link[l].frames = <<>>)
                /\ Welcomed(m.frames) <=> Welcomed(link[l].frames)
                /\ Welcomed(m.frames) => /\ Head(m.frames).of = Head(link[l].frames).of
                                         /\ Head(m.frames).session = "stale"
                /\ m.frames # <<>> /\ Head(m.frames).kind = "output"
                     => link[l].frames # <<>> /\ Head(link[l].frames) = Head(m.frames)
                /\ m.frames # <<>> /\ LastOf(m.frames).kind = "exit"
                     => link[l].frames # <<>> /\ LastOf(link[l].frames) = LastOf(m.frames)
<1>1. Sound(link[l]) /\ (link[l].at = "served" <=> host.client = l) /\ l # None
  BY StartTypes DEF Inv, AllSound, Served
<1>2. Replaced \in Frame /\ Replaced.kind = "replaced"
  BY FrameTypes
<1>3. /\ Sound(b) /\ Tame(link[l], b) /\ b.at # "served"
      /\ b.at = "clearing" <=> link[l].at = "clearing"
      /\ b.end = "up" => b.frames \in {link[l].frames, Append(link[l].frames, Replaced)}
  <2>1. CASE l = host.client
    <3>1. b = Parted(link[l], Replaced)
      BY <2>1
    <3> QED
      BY <1>1, <1>2, <2>1, <3>1, Parting DEF Farewells
  <2>2. CASE l # host.client
    <3>1. b = link[l]
      BY <2>2
    <3> QED
      BY <1>1, <2>2, <3>1, TameAlone
  <2> QED
    BY <2>1, <2>2
<1>4. /\ Sound(m) /\ m.at = b.at /\ m.run = b.run /\ m.end = b.end /\ m.fault = b.fault
      /\ m.resume # "current" /\ (m.resume = "none" <=> b.resume = "none")
      /\ m.frames = <<>> <=> b.frames = <<>>
      /\ Len(m.frames) = Len(b.frames)
      /\ \A i \in 1..Len(b.frames) : m.frames[i] = StaledFrame(b.frames[i])
  BY <1>3, Staling
<1> HIDE DEF Tame
<1>5. m = NoLink <=> b = NoLink
  BY <1>3, <1>4 DEF Sound
<1>6. b.frames \in Seq(Frame) /\ m.frames \in Seq(Frame) /\ link[l].frames \in Seq(Frame)
  BY <1>1, <1>3, <1>4, LinkTypes DEF Sound
<1>7. b.frames # <<>> =>
        /\ m.frames # <<>> /\ Head(m.frames) = StaledFrame(Head(b.frames))
        /\ LastOf(m.frames) = StaledFrame(LastOf(b.frames))
        /\ Head(b.frames) \in Frame /\ LastOf(b.frames) \in Frame
  <2> SUFFICES ASSUME b.frames # <<>>
               PROVE  /\ m.frames # <<>> /\ Head(m.frames) = StaledFrame(Head(b.frames))
                      /\ LastOf(m.frames) = StaledFrame(LastOf(b.frames))
                      /\ Head(b.frames) \in Frame /\ LastOf(b.frames) \in Frame
    OBVIOUS
  <2>1. /\ m.frames # <<>> /\ Head(m.frames) = m.frames[1] /\ Head(b.frames) = b.frames[1]
        /\ Len(b.frames) \in Nat \ {0} /\ Head(b.frames) \in Frame /\ LastOf(b.frames) \in Frame
    BY <1>4, <1>6, Tailing
  <2>2. 1 \in 1..Len(b.frames) /\ Len(b.frames) \in 1..Len(b.frames)
    BY <2>1
  <2> QED
    BY <1>4, <2>1, <2>2 DEF LastOf
<1>8. b.frames # <<>> =>
        /\ Head(m.frames).kind = Head(b.frames).kind /\ LastOf(m.frames).kind = LastOf(b.frames).kind
        /\ Head(b.frames).kind # "welcome" => Head(m.frames) = Head(b.frames)
        /\ LastOf(b.frames).kind # "welcome" => LastOf(m.frames) = LastOf(b.frames)
        /\ Head(b.frames).kind = "welcome" => /\ Head(m.frames).of = Head(b.frames).of
                                              /\ Head(m.frames).session = "stale"
  BY <1>7, Frames
<1>9. ASSUME m.end = "up"
      PROVE  /\ link[l].end = "up"
             /\ m.at = "shut" /\ ~m.fault /\ link[l].at \in {"served", "shut"} =>
                  m.frames # <<>> \/ (link[l].at = "shut" /\ ~link[l].fault /\ link[l].frames = <<>>)
             /\ Welcomed(m.frames) <=> Welcomed(link[l].frames)
             /\ Welcomed(m.frames) => /\ Head(m.frames).of = Head(link[l].frames).of
                                      /\ Head(m.frames).session = "stale"
             /\ m.frames # <<>> /\ Head(m.frames).kind = "output"
                  => link[l].frames # <<>> /\ Head(link[l].frames) = Head(m.frames)
             /\ m.frames # <<>> /\ LastOf(m.frames).kind = "exit"
                  => link[l].frames # <<>> /\ LastOf(link[l].frames) = LastOf(m.frames)
  <2>1. /\ link[l].end = "up" /\ b.end = "up"
        /\ Welcomed(b.frames) <=> Welcomed(link[l].frames)
        /\ Welcomed(link[l].frames) => Head(b.frames) = Head(link[l].frames)
    BY <1>1, <1>3, <1>4, <1>9, TameFrames
  <2>2. (Welcomed(m.frames) <=> Welcomed(b.frames))
        /\ (Welcomed(m.frames) => /\ Head(m.frames).of = Head(b.frames).of
                                  /\ Head(m.frames).session = "stale")
    BY <1>4, <1>8 DEF Welcomed
  <2>3. m.at = "shut" /\ ~m.fault /\ link[l].at \in {"served", "shut"} =>
          m.frames # <<>> \/ (link[l].at = "shut" /\ ~link[l].fault /\ link[l].frames = <<>>)
    <3>1. CASE b.frames = link[l].frames
      BY <1>3, <1>4, <2>1, <3>1 DEF Tame, Early
    <3>2. CASE b.frames # link[l].frames
      BY <1>1, <1>3, <1>4, <2>1, <3>2, TameFrames
    <3> QED
      BY <3>1, <3>2
  <2>4. CASE b.frames = link[l].frames
    BY <1>4, <1>8, <2>1, <2>2, <2>3, <2>4
  <2>5. CASE b.frames = Append(link[l].frames, Replaced)
    <3> DEFINE s == Append(link[l].frames, Replaced)
    <3>a. s # <<>> /\ LastOf(s) = Replaced
          /\ Head(s) = IF link[l].frames = <<>> THEN Replaced ELSE Head(link[l].frames)
      BY <1>2, <1>6, Appending
    <3>1. /\ b.frames # <<>> /\ LastOf(b.frames) = Replaced
          /\ Head(b.frames) = IF link[l].frames = <<>> THEN Replaced ELSE Head(link[l].frames)
      BY <2>5, <3>a
    <3> QED
      BY <1>2, <1>8, <2>1, <2>2, <2>3, <3>1
  <2> QED
    BY <1>3, <2>1, <2>4, <2>5
<1>10. m = NoLink => link[l].end \in {"none", "gone"}
  BY <1>3, <1>5 DEF Tame
<1>11. m # NoLink =>
         /\ m.run = link[l].run /\ (m.resume = "none" <=> link[l].resume = "none")
         /\ m.end = link[l].end \/ (link[l].end = "up" /\ m.end = "cut")
         /\ m.at \in Early => link[l].at \in Early
         /\ link[l].at \in {"served", "shut"} => m.at \in {"served", "shut"}
  BY <1>3, <1>4, <1>5 DEF Tame
<1> QED
  BY <1>3, <1>4, <1>9, <1>10, <1>11

\* The link of the new client.
LEMMA TakenLink ==
    ASSUME Inv, NEW k \in Links, link[k].at = "offered", NEW a \in Runs
    PROVE  LET m == Put([link[k] EXCEPT !.at = "served", !.resume = "none", !.size = None], Welcome(a))
           IN  /\ Sound(m) /\ m.at = "served" /\ m.run = link[k].run /\ m.end = link[k].end
               /\ m.resume = "none" /\ link[k].run \in Runs
               /\ m.end = "up" => m.frames = <<Welcome(a)>>
               /\ m.end # "up" => m.frames = <<>>
<1> DEFINE t == [link[k] EXCEPT !.at = "served", !.resume = "none", !.size = None]
<1> DEFINE m == Put(t, Welcome(a))
<1>1. /\ Sound(link[k]) /\ link[k] \in Link /\ link[k].frames = <<>> /\ link[k].run \in Runs
      /\ link[k].end # "none" /\ (link[k].left => link[k].end # "up")
  BY DEF Inv, AllSound, Sound, Early
<1>2. t \in Link
  BY <1>1 DEF Link, Session
<1>3. /\ t.at = "served" /\ t.run = link[k].run /\ t.end = link[k].end /\ t.resume = "none"
      /\ t.frames = <<>> /\ (t.left => link[k].left)
  BY <1>1 DEF Link
<1> HIDE DEF t
<1>4. Welcome(a) \in Frame /\ Welcome(a).kind = "welcome" /\ Welcome(a).session = "current"
  BY FrameTypes
<1>5. NoLink.at = "none"
  BY DEF NoLink
<1>6. CASE t.end = "up"
  <2>1. m = [t EXCEPT !.frames = Append(@, Welcome(a))]
    BY <1>6 DEF Put
  <2>2. Append(<<>>, Welcome(a)) = <<Welcome(a)>> /\ <<Welcome(a)>> \in Seq(Frame)
    BY <1>4
  <2> HIDE DEF m
  <2>3. m = [t EXCEPT !.frames = <<Welcome(a)>>]
    BY <1>3, <2>1, <2>2
  <2>4. m \in Link /\ m.at = "served" /\ m.run = t.run /\ m.end = t.end /\ m.resume = "none"
        /\ m.frames = <<Welcome(a)>> /\ (m.left => t.left)
    BY <1>2, <1>3, <2>2, <2>3 DEF Link
  <2>5. Len(m.frames) = 1 /\ DOMAIN m.frames = {1} /\ m.frames[1] = Welcome(a)
    BY <2>4
  <2>6. \A i \in DOMAIN m.frames :
         /\ m.frames[i].kind = "welcome" => i = 1 /\ m.frames[i].session # "none"
         /\ m.frames[i].kind \in Farewells => i = Len(m.frames) /\ m.at = "shut"
    BY <1>4, <2>5 DEF Farewells
  <2>7. \A i \in 1..(Len(m.frames) - 1) : FALSE
    BY <2>5
  <2>8. Sound(m)
    BY <1>1, <1>3, <1>5, <1>6, <2>4, <2>6, <2>7 DEF Sound, Early
  <2> QED
    BY <1>1, <1>3, <1>6, <2>4, <2>8 DEF m, t
<1>7. CASE t.end # "up"
  <2>1. m = t
    BY <1>7 DEF Put
  <2> HIDE DEF m
  <2>2. Sound(m)
    BY <1>1, <1>2, <1>3, <1>5, <1>7, <2>1 DEF Sound, Early
  <2> QED
    BY <1>1, <1>3, <1>7, <2>1, <2>2 DEF m, t
<1> QED
  BY <1>6, <1>7

\* Agents stay started.
LEMMA StartsGrow ==
    ASSUME Typed, NEW a \in Runs, starts' = starts \/ starts' = Append(starts, a)
    PROVE  /\ starts' \in Seq(Runs)
           /\ \A i \in DOMAIN starts : i \in DOMAIN starts' /\ starts'[i] = starts[i]
           /\ \A d : Started(d) => Started(d)'
           /\ \A d, e : Truth(d, e) => Truth(d, e)'
<1>1. starts \in Seq(Runs)
  BY DEF Typed
<1>2. starts' \in Seq(Runs)
  BY <1>1
<1>3. \A i \in DOMAIN starts : i \in DOMAIN starts' /\ starts'[i] = starts[i]
  <2>1. CASE starts' = Append(starts, a)
    BY <1>1, <2>1
  <2> QED
    BY <2>1
<1>4. \A d : Started(d) => Started(d)'
  BY <1>3 DEF Started
<1>5. \A d, e : Truth(d, e) => Truth(d, e)'
  BY <1>3 DEF Truth
<1> QED
  BY <1>2, <1>3, <1>4, <1>5

LEMMA StaledTypes ==
    ASSUME NEW r \in Run
    PROVE  /\ StaledRun(r) \in Run /\ StaledRun(r).at = r.at /\ StaledRun(r).link = r.link
           /\ StaledRun(r).with = r.with /\ StaledRun(r).shown = r.shown
           /\ StaledRun(r).session # "current"
           /\ StaledRun(r).session = "none" <=> r.session = "none"
<1>1. Staled(r.session) \in Session \ {"current"} /\ (Staled(r.session) = "none" <=> r.session = "none")
  BY DEF Staled, Session, Run
<1> QED
  BY <1>1 DEF StaledRun, Run

\* k takes over, and its agent a is the one there is or is started.
LEMMA TakesStep ==
    ASSUME Inv, NEW k \in Links, Offered(k), NEW a \in Runs, Takes(k, a), agent' = a,
           \/ agent = a /\ UNCHANGED <<starts, exit>>
           \/ /\ agent = None /\ a = link[k].run /\ starts' = Append(starts, a) /\ exit' = None
              /\ link[k].resume = "none",
           size' = link[k].size,
           (pty' = size' /\ jiggle' = None) \/ (pty' = Squeezed /\ jiggle' = size'),
           UNCHANGED <<window, lock, socket, spawned, output>>
    PROVE  Inv'
<1> DEFINE was(l) == IF l = host.client THEN Parted(link[l], Replaced) ELSE link[l]
<1> DEFINE new == Put([link[k] EXCEPT !.at = "served", !.resume = "none", !.size = None], Welcome(a))
<1>1. /\ host.at = "serving" /\ link[k].at = "offered" /\ Sound(link[k])
      /\ link[k].size \in Windows /\ k # None
  BY StartTypes DEF Offered, Inv, AllSound, Sound, Early
<1>2. /\ host' = [host EXCEPT !.client = k] /\ owner' = link[k].run
      /\ term' = [c \in Runs |-> StaledRun(term[c])]
      /\ link' = [l \in Links |-> IF l = k THEN new ELSE StaledLink(was(l))]
  BY DEF Takes
<1>3. /\ Sound(link'[k]) /\ link'[k].at = "served" /\ link'[k].run = link[k].run
      /\ link'[k].end = link[k].end
      /\ link'[k].resume = "none" /\ link[k].run \in Runs
      /\ link'[k].end = "up" => link'[k].frames = <<Welcome(a)>>
      /\ link'[k].end # "up" => link'[k].frames = <<>>
  <2>1. link'[k] = new
    BY <1>2
  <2> QED
    BY <1>1, <2>1, TakenLink
<1>4. ASSUME NEW l \in Links, l # k
      PROVE  /\ Sound(link'[l]) /\ link'[l].at # "served"
             /\ (link'[l].at = "clearing" <=> link[l].at = "clearing")
             /\ link'[l].resume # "current"
             /\ link'[l] = NoLink => link[l].end \in {"none", "gone"}
             /\ link'[l] # NoLink =>
                  /\ link'[l].run = link[l].run /\ (link'[l].resume = "none" <=> link[l].resume = "none")
                  /\ link'[l].end = link[l].end \/ (link[l].end = "up" /\ link'[l].end = "cut")
                  /\ link'[l].at \in Early => link[l].at \in Early
                  /\ link[l].at \in {"served", "shut"} => link'[l].at \in {"served", "shut"}
             /\ link'[l].end = "up" =>
                  /\ link[l].end = "up"
                  /\ link'[l].at = "shut" /\ ~link'[l].fault /\ link[l].at \in {"served", "shut"} =>
                       link'[l].frames # <<>>
                         \/ (link[l].at = "shut" /\ ~link[l].fault /\ link[l].frames = <<>>)
                  /\ Welcomed(link'[l].frames) <=> Welcomed(link[l].frames)
                  /\ Welcomed(link'[l].frames) => /\ Head(link'[l].frames).of = Head(link[l].frames).of
                                                  /\ Head(link'[l].frames).session = "stale"
                  /\ link'[l].frames # <<>> /\ Head(link'[l].frames).kind = "output"
                       => link[l].frames # <<>> /\ Head(link[l].frames) = Head(link'[l].frames)
                  /\ link'[l].frames # <<>> /\ LastOf(link'[l].frames).kind = "exit"
                       => link[l].frames # <<>> /\ LastOf(link[l].frames) = LastOf(link'[l].frames)
  <2>1. link'[l] = StaledLink(was(l))
    BY <1>2, <1>4
  <2> QED
    BY <2>1, OthersLinks
<1>5. ASSUME NEW c \in Runs
      PROVE  /\ term'[c] \in Run /\ term'[c].at = term[c].at /\ term'[c].link = term[c].link
             /\ term'[c].with = term[c].with /\ term'[c].shown = term[c].shown
             /\ term'[c].session # "current"
             /\ term'[c].session = "none" <=> term[c].session = "none"
  <2>1. term'[c] = StaledRun(term[c])
    BY <1>2
  <2> QED
    BY <2>1, StaledTypes, TermTypes DEF Inv
<1> HIDE DEF was, new
<1>6. /\ starts' \in Seq(Runs)
      /\ \A i \in DOMAIN starts : i \in DOMAIN starts' /\ starts'[i] = starts[i]
      /\ \A d : Started(d) => Started(d)'
      /\ \A d, e : Truth(d, e) => Truth(d, e)'
  BY StartsGrow DEF Inv
<1>7. host' \in [at : {"serving"}, client : {k}]
  BY <1>1, <1>2 DEF Inv, Typed
<1>8. AllSound' /\ link' \in [Links -> Link]
  <2>1. \A l \in Links : Sound(link'[l])
    BY <1>3, <1>4
  <2> QED
    BY <1>2, <2>1 DEF AllSound, Sound
<1>9. Typed'
  <2>1. term' \in [Runs -> Run] /\ owner' \in Agents
    BY <1>2, <1>3, <1>5 DEF Agents
  <2>2. exit' \in Agents /\ agent' \in Agents /\ size' \in Windows /\ jiggle' \in Windows \cup {None}
        /\ pty' \in Windows \cup {Squeezed, None}
    BY <1>1 DEF Inv, Typed, Agents
  <2> QED
    BY <1>6, <1>7, <1>8, <2>1, <2>2 DEF Inv, Typed
<1>10. Locked'
  <2>1. \A l \in Links : link'[l].at = "clearing" <=> link[l].at = "clearing"
    BY <1>1, <1>3, <1>4
  <2> QED
    BY <1>1, <1>7, <2>1 DEF Inv, Locked
<1>11. Served'
  <2>1. \A l \in Links : link'[l].at = "served" <=> host'.client = l
    BY <1>3, <1>4, <1>7
  <2>2. agent' # None /\ size' # None /\ pty' # None
    BY <1>1, RemoteAssumption
  <2> QED
    BY <1>7, <2>1, <2>2 DEF Served
\* Whose link is k, and whose is another.
<1>12. ASSUME NEW c \in Runs, term[c].link # None
       PROVE  /\ term[c].link \in Links /\ Sound(link[term[c].link])
              /\ link[term[c].link].run = c /\ link[term[c].link].end \in {"up", "cut"}
              /\ term[c].link = k => c = link[k].run /\ term[c].at = "asking"
  <2>1. /\ term[c].link \in Links /\ Sound(link[term[c].link])
        /\ link[term[c].link].run = c /\ link[term[c].link].end \in {"up", "cut"}
    BY <1>12, OwnLink
  <2>2. term[c].at \in {"asking", "attached"}
        /\ (term[c].at = "attached" => link[term[c].link].at \in {"served", "shut"})
    BY <1>12 DEF Inv, Own, InStep
  <2> QED
    BY <1>1, <2>1, <2>2
<1>13. Own'
  <2>1. ASSUME NEW c \in Runs
        PROVE  InStep(c)'
    <3> DEFINE l == term[c].link
    <3>1. InStep(c)
      BY DEF Inv, Own
    <3>2. ASSUME l # None
          PROVE  /\ link'[l].run = c /\ link'[l].end \in {"up", "cut"}
                 /\ link'[l].at \in Early => (link'[l].resume = "none" <=> term[c].session = "none")
                 /\ term[c].at = "asking" /\ link'[l].frames # <<>> => Head(link'[l].frames).kind # "output"
                 /\ term[c].at = "attached" =>
                      /\ link'[l].at \in {"served", "shut"}
                      /\ link'[l].end = "up" /\ link'[l].at = "shut" /\ ~link'[l].fault
                           => link'[l].frames # <<>>
      <4>1. CASE l = k
        <5>1. link'[k].frames # <<>> => Head(link'[k].frames).kind = "welcome"
          BY <1>3, FrameTypes
        <5> QED
          BY <1>3, <1>12, <3>2, <4>1, <5>1 DEF Early
      <4>2. CASE l # k
        <5>1. l \in Links /\ link[l].end \in {"up", "cut"} /\ link[l].run = c
          BY <1>12, <3>2
        <5>2. link'[l] # NoLink
          BY <1>4, <4>2, <5>1
        <5>3. link'[l].frames # <<>> => link'[l].end = "up"
          BY <1>4, <4>2, <5>1 DEF Sound
        <5>4. /\ link[l].at \in Early => (link[l].resume = "none" <=> term[c].session = "none")
              /\ term[c].at = "asking" /\ link[l].frames # <<>> => Head(link[l].frames).kind # "output"
              /\ term[c].at = "attached" =>
                   /\ link[l].at \in {"served", "shut"}
                   /\ link[l].end = "up" /\ link[l].at = "shut" /\ ~link[l].fault => link[l].frames # <<>>
          BY <3>1, <3>2 DEF InStep
        <5> QED
          BY <1>4, <4>2, <5>1, <5>2, <5>3, <5>4
      <4> QED
        BY <4>1, <4>2
    <3> HIDE DEF l
    <3>3. term'[c].link = l /\ term[c].link = l
      BY <1>5 DEF l
    <3>4. Started(term[c].with) => \E i \in DOMAIN starts' : starts'[i] = term'[c].with
      BY <1>5, <1>6 DEF Started
    <3> QED
      BY <1>5, <3>1, <3>2, <3>3, <3>4 DEF InStep, Started
  <2>2. ASSUME NEW l \in Links, link'[l].end \in {"up", "cut"}
        PROVE  term'[link'[l].run].link = l
    <3>1. link'[l].run = link[l].run /\ link[l].end \in {"up", "cut"}
      <4>1. CASE l = k
        BY <1>3, <2>2, <4>1
      <4>2. CASE l # k
        <5>1. link'[l] # NoLink
          BY <2>2 DEF NoLink
        <5> QED
          BY <1>4, <2>2, <4>2, <5>1
      <4> QED
        BY <4>1, <4>2
    <3>2. link[l].run \in Runs /\ term[link[l].run].link = l
      <4>1. Sound(link[l]) /\ term[link[l].run].link = l
        BY <3>1 DEF Inv, AllSound, Own
      <4>2. link[l] # NoLink
        BY <3>1 DEF NoLink
      <4> QED
        BY <4>1, <4>2 DEF Sound
    <3> QED
      BY <1>5, <3>1, <3>2
  <2> QED
    BY <2>1, <2>2 DEF Own
<1>14. Sessions'
  <2>1. ASSUME NEW l \in Links, Welcomed(link'[l].frames), Head(link'[l].frames).session = "current"
        PROVE  owner' = link'[l].run
    <3>1. link'[l].end = "up"
      BY <1>3, <1>4, <2>1 DEF Sound, Welcomed
    <3> QED
      BY <1>2, <1>3, <1>4, <2>1, <3>1
  <2>2. \A l \in Links : link'[l].resume # "current"
    BY <1>3, <1>4
  <2> QED
    BY <1>5, <2>1, <2>2 DEF Sessions
\* Only the run of the first attempt is new among the agents.
<1>15. \A d \in Runs : Started(d)' => Started(d) \/ (d = a /\ agent = None /\ First(k) /\ a = link[k].run)
  <2>1. CASE agent = a /\ UNCHANGED <<starts, exit>>
    BY <2>1 DEF Started
  <2>2. CASE /\ agent = None /\ a = link[k].run /\ starts' = Append(starts, a)
             /\ link[k].resume = "none"
    <3>1. First(k)
      BY <1>1, <2>2 DEF First, Early
    <3>2. \A i \in DOMAIN starts' : starts'[i] = a \/ i \in DOMAIN starts
      BY <2>2, StartTypes DEF Inv, Typed
    <3> QED
      BY <1>6, <2>2, <3>1, <3>2 DEF Started
  <2> QED
    BY <2>1, <2>2
<1>16. Firsts'
  <2>1. OneStartPerRun'
    <3>1. CASE starts' = starts
      BY <3>1 DEF Inv, Firsts, OneStartPerRun
    <3>2. CASE starts' = Append(starts, a) /\ a = link[k].run /\ link[k].resume = "none"
      <4>1. ~Started(a)
        BY <1>1, <3>2 DEF Inv, Firsts, First, Early
      <4>2. /\ starts \in Seq(Runs) /\ Len(starts) \in Nat /\ DOMAIN starts = 1..Len(starts)
            /\ DOMAIN starts' = 1..(Len(starts) + 1) /\ starts'[Len(starts) + 1] = a
        BY <3>2, StartTypes DEF Inv, Typed
      <4>3. \A i \in DOMAIN starts' : i \in DOMAIN starts \/ i = Len(starts) + 1
        BY <4>2
      <4>4. OneStartPerRun
        BY DEF Inv, Firsts
      <4> QED
        BY <1>6, <4>1, <4>2, <4>3, <4>4 DEF Started, OneStartPerRun
    <3> QED
      BY <3>1, <3>2
  <2>2. ASSUME NEW l \in Links
        PROVE  /\ link'[l].run \in {link[l].run, None}
               /\ First(l)' => l # k /\ First(l) /\ link'[l].run = link[l].run
    <3>1. CASE l = k
      BY <1>3, <3>1 DEF First, Early
    <3>2. CASE l # k /\ link'[l] # NoLink
      BY <1>4, <3>2 DEF First
    <3>3. CASE l # k /\ link'[l] = NoLink
      BY <3>3 DEF First, NoLink, Early
    <3> QED
      BY <3>1, <3>2, <3>3
  <2>3. ASSUME NEW c \in Runs, term'[c].at = "idle"
        PROVE  ~Started(c)' /\ \A l \in Links : link'[l].run # c
    <3>1. ~Started(c) /\ \A l \in Links : link[l].run # c
      BY <1>5, <2>3 DEF Inv, Firsts
    <3> QED
      BY <1>15, <2>2, <3>1, StartTypes DEF Inv
  <2>4. ASSUME NEW l \in Links, First(l)'
        PROVE  ~Started(link[l].run)'
    <3>1. /\ l # k /\ First(l) /\ link'[l].run = link[l].run /\ ~Started(link[l].run)
      BY <2>2, <2>4 DEF Inv, Firsts
    <3>2. link[l].run \in Runs
      <4>1. Sound(link[l])
        BY DEF Inv, AllSound
      <4>2. link[l].at # "none"
        BY <3>1 DEF First, Early
      <4> QED
        BY <4>1, <4>2 DEF Sound
    <3>3. First(k) => link[k].run # link[l].run
      BY <3>1 DEF Inv, Firsts
    <3>4. \A d \in Runs : d = link[l].run => ~Started(d)'
      BY <1>15, <3>1, <3>3
    <3> QED
      BY <3>1, <3>2, <3>4 DEF Started
  <2>5. ASSUME NEW l \in Links, NEW n \in Links, First(l)', First(n)', link'[l].run = link'[n].run
        PROVE  l = n
    BY <2>2, <2>5 DEF Inv, Firsts
  <2> QED
    BY <2>1, <2>3, <2>4, <2>5 DEF Firsts
<1>17. Latest'
  <2>1. starts' # <<>> /\ a = LastOf(starts') /\ (exit' # None => exit' = a)
    <3>1. CASE agent = a /\ UNCHANGED <<starts, exit>>
      BY <3>1, RemoteAssumption DEF Inv, Latest, LastOf
    <3>2. CASE starts' = Append(starts, a) /\ exit' = None
      <4>1. LET s == Append(starts, a) IN s # <<>> /\ LastOf(s) = a
        BY Appending DEF Inv, Typed
      <4> QED
        BY <3>2, <4>1 DEF LastOf
    <3> QED
      BY <3>1, <3>2
  <2>2. ASSUME NEW l \in Links, Welcomed(link'[l].frames)
        PROVE  Started(Head(link[l].frames).of)'
    <3>1. link'[l].end = "up"
      BY <1>3, <1>4, <2>2 DEF Sound, Welcomed
    <3>2. CASE l = k
      <4>1. Head(link'[l].frames).of = a
        BY <1>3, <3>1, <3>2, FrameTypes
      <4>2. Len(starts') \in DOMAIN starts' /\ starts'[Len(starts')] = a
        BY <1>6, <2>1, EmptySeq DEF LastOf
      <4> QED
        BY <4>1, <4>2 DEF Started
    <3>3. CASE l # k
      <4>1. Welcomed(link[l].frames) /\ Head(link'[l].frames).of = Head(link[l].frames).of
        BY <1>4, <2>2, <3>1, <3>3
      <4>2. Started(Head(link[l].frames).of)
        BY <4>1 DEF Inv, Latest
      <4> QED
        BY <1>6, <4>1, <4>2 DEF Started
    <3> QED
      BY <3>2, <3>3
  <2> QED
    BY <2>1, <2>2 DEF Latest, LastOf
<1>18. Streams'
  <2> SUFFICES ASSUME NEW c \in Runs, term'[c].link # None, link'[term'[c].link].end = "up"
               PROVE  LET l == term'[c].link  fs == link'[l].frames
                      IN  /\ term'[c].shown # None /\ fs # <<>> /\ Head(fs).kind = "output"
                               => Head(fs).n = (term'[c].shown + 1) % Chunks
                          /\ host'.client = l /\ fs # <<>> /\ LastOf(fs).kind = "output"
                               => output = (LastOf(fs).n + 1) % Chunks
                          /\ host'.client = l /\ fs = <<>> /\ term'[c].shown # None
                               => output = (term'[c].shown + 1) % Chunks
    BY DEF Streams
  <2>1. term'[c].link = term[c].link /\ term'[c].shown = term[c].shown /\ term[c].link \in Links
    BY <1>5, <1>12
  <2>2. CASE term[c].link = k
    <3>1. link'[k].frames = <<Welcome(a)>>
      BY <1>3, <2>1, <2>2
    <3>2. <<Welcome(a)>> # <<>> /\ Head(<<Welcome(a)>>).kind = "welcome"
          /\ LastOf(<<Welcome(a)>>).kind = "welcome"
      BY FrameTypes DEF LastOf
    <3> QED
      BY <2>1, <2>2, <3>1, <3>2
  <2>3. CASE term[c].link # k
    <3>1. host'.client # term[c].link
      BY <1>7, <2>3
    <3>2. /\ term[c].shown # None /\ link[term[c].link].frames # <<>>
          /\ Head(link[term[c].link].frames).kind = "output" /\ link[term[c].link].end = "up"
          => Head(link[term[c].link].frames).n = (term[c].shown + 1) % Chunks
      BY <2>1, StartTypes DEF Inv, Streams
    <3> QED
      BY <1>4, <2>1, <2>3, <3>1, <3>2
  <2> QED
    BY <2>2, <2>3
<1>19. Believed'
  <2> SUFFICES ASSUME NEW c \in Runs, term'[c].link # None, link'[term'[c].link].end = "up"
               PROVE  LET r == term'[c]  l == r.link  fs == link'[l].frames
                      IN  /\ host'.client = l => (r.at = "asking" <=> Welcomed(fs)) /\ Knows(r, fs) = a
                          /\ /\ fs # <<>> /\ LastOf(fs).kind = "exit"
                             /\ Welcomed(fs) \/ r.session # "none"
                             => /\ a # Knows(r, fs)
                                /\ \E i \in DOMAIN starts' :
                                     /\ starts'[i] = Knows(r, fs)
                                     /\ LastOf(fs).of # None =>
                                          \E j \in DOMAIN starts' :
                                            starts'[j] = LastOf(fs).of /\ i <= j
    BY DEF Believed, Truth
  <2>1. term'[c].link = term[c].link /\ term[c].link \in Links
    BY <1>5, <1>12
  <2>2. CASE term[c].link = k
    <3>1. link'[k].frames = <<Welcome(a)>> /\ term'[c].at = "asking"
      BY <1>3, <1>5, <1>12, <2>1, <2>2
    <3>2. <<Welcome(a)>> # <<>> /\ Head(<<Welcome(a)>>) = Welcome(a)
          /\ LastOf(<<Welcome(a)>>).kind = "welcome" /\ Welcome(a).kind = "welcome" /\ Welcome(a).of = a
      BY FrameTypes DEF LastOf
    <3> QED
      BY <2>1, <2>2, <3>1, <3>2 DEF Welcomed, Knows
  <2>3. CASE term[c].link # k
    <3> DEFINE l == term[c].link
    <3>1. host'.client # l /\ link'[l].end = "up" /\ term'[c].link = l
      BY <1>7, <2>1, <2>3
    <3>2. Knows(term'[c], link'[l].frames) = Knows(term[c], link[l].frames)
          /\ (Welcomed(link'[l].frames) <=> Welcomed(link[l].frames))
      BY <1>4, <1>5, <2>1, <2>3, <3>1 DEF Knows
    <3>3. ASSUME link'[l].frames # <<>>, LastOf(link'[l].frames).kind = "exit",
                 Welcomed(link'[l].frames) \/ term'[c].session # "none"
          PROVE  /\ a # Knows(term[c], link[l].frames)
                 /\ Truth(Knows(term[c], link[l].frames), LastOf(link'[l].frames).of)
      <4>1. /\ link[l].end = "up" /\ link[l].frames # <<>>
            /\ LastOf(link[l].frames) = LastOf(link'[l].frames)
            /\ Welcomed(link[l].frames) \/ term[c].session # "none"
        BY <1>4, <1>5, <2>1, <2>3, <3>1, <3>2, <3>3
      <4>2. /\ agent # Knows(term[c], link[l].frames)
            /\ Truth(Knows(term[c], link[l].frames), LastOf(link[l].frames).of)
        BY <2>1, <3>3, <4>1, StartTypes DEF Inv, Believed
      <4>3. Started(Knows(term[c], link[l].frames))
        BY <4>2 DEF Truth, Started
      <4>4. agent # a => ~Started(a)
        BY <1>1 DEF Inv, Firsts, First, Early
      <4> QED
        BY <4>1, <4>2, <4>3, <4>4
    <3> HIDE DEF l
    <3>4. \A x, y : Truth(x, y) =>
            \E i \in DOMAIN starts' :
              /\ starts'[i] = x
              /\ y # None => \E j \in DOMAIN starts' : starts'[j] = y /\ i <= j
      BY <1>6 DEF Truth
    <3>5. term'[c].session # "none" <=> term[c].session # "none"
      BY <1>5
    <3> QED
      BY <3>1, <3>2, <3>3, <3>4, <3>5
  <2> QED
    BY <2>2, <2>3
<1>20. Sized'
  <2> SUFFICES ASSUME NEW c \in Runs, term'[c].at = "attached", host'.client = term'[c].link
               PROVE  FALSE
    BY DEF Sized
  <2>1. term[c].at = "attached" /\ term[c].link = k
    BY <1>5, <1>7
  <2> QED
    BY <1>1, <1>12, <2>1
<1> QED
  BY <1>8, <1>9, <1>10, <1>11, <1>13, <1>14, <1>16, <1>17, <1>18, <1>19, <1>20 DEF Inv

LEMMA ReattachStep ==
    ASSUME Inv, NEW k \in Links, Reattach(k)
    PROVE  Inv'
<1>1. /\ Offered(k) /\ agent # None /\ Takes(k, agent) /\ size' = link[k].size
      /\ (pty' = size' /\ jiggle' = None) \/ (pty' = Squeezed /\ jiggle' = size')
      /\ UNCHANGED <<window, files, spawned, agent, output, starts>>
  BY DEF Reattach
<1>2. agent \in Runs
  BY <1>1 DEF Inv, Typed, Agents
<1>3. UNCHANGED <<starts, exit>> /\ UNCHANGED <<window, lock, socket, spawned, output>>
  BY <1>1 DEF files
<1> QED
  BY <1>1, <1>2, <1>3, TakesStep

LEMMA StartAgentStep ==
    ASSUME Inv, NEW k \in Links, StartAgent(k)
    PROVE  Inv'
<1> DEFINE a == link[k].run
<1>1. /\ Offered(k) /\ agent = None /\ link[k].resume = "none" /\ Takes(k, a)
      /\ exit' = None /\ agent' = a /\ starts' = Append(starts, a)
      /\ size' = link[k].size /\ pty' = size' /\ jiggle' = None
      /\ UNCHANGED <<window, lock, socket, spawned, output>>
  BY DEF StartAgent
<1>2. a \in Runs
  BY <1>1 DEF Offered, Inv, AllSound, Sound
<1> QED
  BY <1>1, <1>2, TakesStep

-----------------------------------------------------------------------------
(* The invariant, and what follows from it.                                 *)

LEMMA InvInit == Init => Inv
<1> SUFFICES ASSUME Init PROVE Inv
  OBVIOUS
<1>1. /\ term = [c \in Runs |-> NewRun] /\ window \in [Runs -> Windows]
      /\ link = [k \in Links |-> NoLink]
      /\ lock = "free" /\ socket = "none" /\ exit = None /\ spawned = 0
      /\ host = NoHost /\ agent = None /\ size = None /\ pty = None /\ jiggle = None
      /\ output = 0 /\ owner = None /\ starts = <<>>
  BY DEF Init
<1>2. NoLink \in Link /\ Sound(NoLink)
  BY NoLinkSound
<1>3. \A k \in Links : /\ link[k] = NoLink /\ link[k].at = "none" /\ link[k].end = "none"
                       /\ link[k].run = None /\ link[k].resume = "none" /\ link[k].frames = <<>>
  BY <1>1 DEF NoLink
<1>4. NewRun \in Run /\ \A c \in Runs : /\ term[c] = NewRun /\ term[c].at = "idle"
                                        /\ term[c].link = None /\ term[c].session = "none"
                                        /\ term[c].shown = None
  BY <1>1 DEF NewRun, Run, Session, Agents
<1>5. host.at = "down" /\ host.client = None /\ None \notin Links /\ None \notin Runs
  BY <1>1, RemoteAssumption DEF NoHost
<1>6. Typed
  <2>1. starts \in Seq(Runs) /\ host \in [at : {"down"}, client : {None}]
    BY <1>1 DEF NoHost
  <2>2. term \in [Runs -> Run] /\ link \in [Links -> Link]
    BY <1>1, <1>2, <1>4
  <2> QED
    BY <1>1, <2>1, <2>2, RemoteAssumption DEF Typed, Agents
<1>7. AllSound /\ Locked /\ Served
  BY <1>1, <1>2, <1>3, <1>5, RemoteAssumption DEF AllSound, Locked, Served
<1>8. Own
  BY <1>3, <1>4 DEF Own, InStep
<1>9. Sessions /\ Firsts /\ Latest
  <2>1. \A d : ~Started(d)
    BY <1>1 DEF Started
  <2>2. OneStartPerRun
    BY <1>1 DEF OneStartPerRun
  <2> QED
    BY <1>1, <1>3, <1>4, <1>5, <2>1, <2>2 DEF Sessions, Firsts, Latest, First, Early, Welcomed
<1>10. Streams /\ Believed /\ Sized
  BY <1>4 DEF Streams, Believed, Sized
<1> QED
  BY <1>6, <1>7, <1>8, <1>9, <1>10 DEF Inv

LEMMA IdleStep ==
    ASSUME Inv, UNCHANGED vars
    PROVE  Inv'
<1>1. UNCHANGED <<term, window, link, lock, socket, exit, spawned, host, agent, size, pty, jiggle,
                  output, owner, starts>>
  BY DEF vars, files, screen, history
<1>2. /\ Typed' /\ AllSound' /\ Locked' /\ Served' /\ Own'
  BY SMTT(60), <1>1 DEF Inv, Typed, AllSound, Locked, Served, Own, InStep, Started
<1>3. Sessions' /\ Firsts' /\ Latest'
  BY <1>1 DEF Inv, Sessions, Firsts, Latest, OneStartPerRun, First, Started, LastOf
<1>4. Streams' /\ Believed' /\ Sized'
  BY <1>1 DEF Inv, Streams, Believed, Sized, Truth, LastOf
<1> QED
  BY <1>2, <1>3, <1>4 DEF Inv

LEMMA InvStep == Inv /\ [Next]_vars => Inv'
<1> SUFFICES ASSUME Inv, [Next]_vars PROVE Inv'
  OBVIOUS
<1>1. ASSUME NEW c \in Runs, NEW k \in Links, Attempt(c, k) PROVE Inv'
  BY <1>1, AttemptStep
<1>2. ASSUME NEW c \in Runs, NEW w \in Windows, Resized(c, w) PROVE Inv'
  BY <1>2, ResizedStep
<1>3. ASSUME NEW c \in Runs, Hear(c) \/ Lose(c) \/ Leave(c) \/ Prompted(c) PROVE Inv'
  BY <1>3, HearStep, LoseStep, LeaveStep, PromptedStep
<1>4. ASSUME NEW k \in Links, \/ Cut(k) \/ Stall(k) \/ Connect(k) \/ Clear(k) \/ Cleared(k)
                              \/ SpawnHost(k) \/ BridgeEnds(k)
      PROVE  Inv'
  BY <1>4, CutStep, StallStep, ConnectStep, ClearStep, ClearedStep, SpawnHostStep, BridgeEndsStep
<1>5. ASSUME NEW k \in Links, Attach(k) PROVE Inv'
  BY <1>5, ResumeEndedStep, ResumeRefusedStep, ReattachStep, StartAgentStep, StartFailsStep DEF
     Attach
<1>6. ASSUME NEW k \in Links, OnResize(k) \/ ReadEnd(k) \/ OnLeft(k) PROVE Inv'
  BY <1>6, OnResizeStep, ReadEndStep, OnLeftStep
<1>7. CASE HostStarts \/ RestoreSize \/ Forward \/ DetachByAgent \/ AgentExits \/ Finish
  BY <1>7, HostStartsStep, RestoreSizeStep, ForwardStep, DetachByAgentStep, AgentExitsStep,
     FinishStep
<1>8. CASE NobodyCame \/ HostStops \/ HostDies
  BY <1>8, NobodyCameStep, HostStopsStep, HostDiesStep
<1>9. CASE UNCHANGED vars
  BY <1>9, IdleStep
<1> QED
  BY <1>1, <1>2, <1>3, <1>4, <1>5, <1>6, <1>7, <1>8, <1>9 DEF Next

\* What holds of the runs, the links and the host together.
THEOREM Invariance == Spec => []Inv
BY InvInit, InvStep, PTL DEF Spec

\* Every variable keeps its type; the client of the host is a link that it serves, and there
\* is a terminal for the agent whenever there is an agent.
THEOREM TypeCorrect == Spec => []TypeOK
<1>1. Inv => TypeOK
  BY RemoteAssumption DEF Inv, Typed, Served, TypeOK
<1> QED
  BY <1>1, Invariance, PTL

\* No bridge takes a host that runs for dead, and no second host starts beside it
\* (bridge.rs clear_stale_socket, host.rs serve).
THEOREM HostKeepsItsSocket == Spec => []SocketIsServed
<1>1. Inv => SocketIsServed
  BY DEF Inv, Locked, SocketIsServed
<1> QED
  BY <1>1, Invariance, PTL

\* One invocation of the command starts one agent, however often its link is lost (host.rs
\* attach).
THEOREM NoSecondAgent == Spec => []OneStartPerRun
<1>1. Inv => OneStartPerRun
  BY DEF Inv, Firsts
<1> QED
  BY <1>1, Invariance, PTL

\* A run that is attached, and whose link holds, is dropped with a last frame that says why
\* (host.rs attach, detach_by_agent, finish).
THEOREM DropsAreExplained == Spec => []EndsAreTold
<1>1. Inv => EndsAreTold
  <2> SUFFICES ASSUME Inv, NEW c \in Runs, term[c].at = "attached", link[term[c].link].end = "up",
                      link[term[c].link].at = "shut", ~link[term[c].link].fault
               PROVE  LET fs == link[term[c].link].frames
                      IN  fs # <<>> /\ fs[Len(fs)].kind \in {"exit", "replaced", "detach"}
    BY DEF EndsAreTold
  <2>1. InStep(c) /\ term[c].link # None /\ term[c].link \in Links
    BY TermTypes DEF Inv, Own, InStep
  <2>2. Sound(link[term[c].link]) /\ link[term[c].link].frames # <<>>
    BY <2>1 DEF Inv, AllSound, InStep
  <2> QED
    BY <2>2 DEF Sound, LastOf, Farewells
<1> QED
  BY <1>1, Invariance, PTL

\* When nothing is on its way, the agent draws at the size of the terminal that is attached
\* (host.rs resize, restore_size).
THEOREM WindowIsRight == Spec => []WindowSettles
<1>1. Inv => WindowSettles
  BY DEF Inv, Sized, Served, WindowSettles
<1> QED
  BY <1>1, Invariance, PTL

LEMMA NewClient ==
    ASSUME Typed, [Next]_vars, NEW k \in Links, host'.client = k, host.client # k
    PROVE  Reattach(k) \/ StartAgent(k)
<1>1. host \in [at : {"down", "serving", "finishing", "stopping"}, client : Links \cup {None}]
      /\ None \notin Links
  BY RemoteAssumption DEF Typed
<1>2. ASSUME NEW l \in Links, Attach(l) PROVE Reattach(k) \/ StartAgent(k)
  <2>1. CASE ResumeEnded(l) \/ ResumeRefused(l) \/ StartFails(l)
    BY <1>1, <2>1 DEF ResumeEnded, ResumeRefused, StartFails
  <2>2. CASE Reattach(l) \/ StartAgent(l)
    BY ZenonT(60), <1>1, <2>2 DEF Reattach, StartAgent, Takes
  <2> QED
    BY <1>2, <2>1, <2>2 DEF Attach
<1>3. CASE /\ ~\E l \in Links : Attach(l)
           /\ Next
  <2>1. ASSUME NEW c \in Runs, \/ \E l \in Links : Attempt(c, l)
                               \/ \E w \in Windows : Resized(c, w)
                               \/ Hear(c) \/ Lose(c) \/ Leave(c) \/ Prompted(c)
        PROVE  FALSE
    BY <2>1 DEF Attempt, Resized, Hear, Lose, Leave, Prompted
  <2>2. ASSUME NEW l \in Links, \/ Cut(l) \/ Stall(l) \/ Connect(l) \/ Clear(l) \/ Cleared(l)
                                \/ SpawnHost(l) \/ BridgeEnds(l) \/ OnResize(l) \/ ReadEnd(l)
        PROVE  FALSE
    BY <2>2 DEF Cut, Stall, Connect, Clear, Cleared, SpawnHost, BridgeEnds, OnResize, ReadEnd
  <2>3. ASSUME NEW l \in Links, OnLeft(l)
        PROVE  FALSE
    BY <1>1, <2>3 DEF OnLeft
  <2>4. CASE HostStarts \/ RestoreSize \/ DetachByAgent \/ AgentExits
    BY <1>1, <2>4 DEF HostStarts, RestoreSize, DetachByAgent, AgentExits, NoHost
  <2>5. CASE Forward \/ Finish
    BY <1>1, <2>5 DEF Forward, Finish
  <2>6. CASE NobodyCame \/ HostStops \/ HostDies
    BY <1>1, <2>6 DEF NobodyCame, HostStops, HostDies, NoHost
  <2> QED
    BY <1>3, <2>1, <2>2, <2>3, <2>4, <2>5, <2>6 DEF Next
<1>4. CASE UNCHANGED vars
  BY <1>4 DEF vars
<1> QED
  BY <1>2, <1>3, <1>4

\* A run that comes back does not take the agent from one that attached since (host.rs
\* attach).
THEOREM NobodyIsTakenBack == Spec => NoTakeBack
<1>1. Inv /\ [Next]_vars =>
        \A k \in Links : host'.client = k /\ host.client # k /\ link[k].resume # "none"
                           => owner \in {None, link[k].run}
  <2> SUFFICES ASSUME Inv, [Next]_vars, NEW k \in Links,
                      host'.client = k, host.client # k, link[k].resume # "none"
               PROVE  owner = link[k].run
    OBVIOUS
  <2>1. Reattach(k)
    BY NewClient DEF Inv, StartAgent
  <2>2. link[k].resume = "current"
    BY <2>1, LinkTypes DEF Reattach, Session, Inv, Typed
  <2> QED
    BY <2>2 DEF Inv, Sessions
<1> QED
  BY <1>1, Invariance, PTL DEF Spec, NoTakeBack

\* The link of a run that hears something.
LEMMA Hearing ==
    ASSUME Inv, NEW c \in Runs, Hear(c)
    PROVE  LET l == link[term[c].link]
           IN  /\ term[c].link \in Links /\ term[c].link # None /\ Sound(l) /\ l.end = "up"
               /\ l.frames \in Seq(Frame) /\ l.frames # <<>>
<1>1. term[c].at \in {"asking", "attached"} /\ link[term[c].link].frames # <<>>
  BY DEF Hear
<1>2. term[c].link \in Links /\ term[c].link # None
  BY <1>1, TermTypes DEF Inv, Own, InStep
<1>3. Sound(link[term[c].link]) /\ link[term[c].link] \in Link
  BY <1>2 DEF Inv, AllSound, Sound
<1> QED
  BY <1>1, <1>2, <1>3, LinkTypes DEF Sound

\* The agent of a run that is told its end has ended, and the exit code is not that of one
\* that ended before (host.rs finish, attach).
THEOREM NoFalseEnd == Spec => EndIsTrue
<1>1. ASSUME Inv, NEW c \in Runs, Hears(c, "exit"), term[c].session # "none"
      PROVE  LET of == Head(link[term[c].link].frames).of
                 place(a) == CHOOSE i \in DOMAIN starts : starts[i] = a
             IN  agent # term[c].with /\ (of # None => place(of) >= place(term[c].with))
  <2> DEFINE k == term[c].link
  <2> DEFINE fs == link[k].frames
  <2> DEFINE place(a) == CHOOSE i \in DOMAIN starts : starts[i] = a
  <2>1. Hear(c) /\ Head(fs).kind = "exit"
    BY <1>1 DEF Hears
  <2>2. k \in Links /\ k # None /\ Sound(link[k]) /\ link[k].end = "up" /\ fs \in Seq(Frame) /\ fs # <<>>
    BY <1>1, <2>1, Hearing
  <2>3. LastOf(fs) = Head(fs) /\ ~Welcomed(fs)
    <3>1. Len(fs) \in Nat \ {0} /\ Head(fs) = fs[1] /\ 1 \in DOMAIN fs
      BY <2>2, Tailing
    <3>2. 1 = Len(fs)
      BY <2>1, <2>2, <3>1 DEF Sound, Farewells
    <3> QED
      BY <2>1, <3>1, <3>2 DEF LastOf, Welcomed
  <2>4. agent # term[c].with /\ Truth(term[c].with, Head(fs).of)
    BY <1>1, <2>1, <2>2, <2>3 DEF Inv, Believed, Knows
  <2>5. ASSUME NEW a, NEW i \in DOMAIN starts, starts[i] = a
        PROVE  place(a) = i
    BY <1>1, <2>5 DEF Inv, Firsts, OneStartPerRun
  <2>6. ASSUME Head(fs).of # None
        PROVE  place(Head(fs).of) >= place(term[c].with)
    <3>1. PICK i \in DOMAIN starts : starts[i] = term[c].with
              /\ \E j \in DOMAIN starts : starts[j] = Head(fs).of /\ i <= j
      BY <2>4, <2>6 DEF Truth
    <3>2. PICK j \in DOMAIN starts : starts[j] = Head(fs).of /\ i <= j
      BY <3>1
    <3>3. i \in Nat /\ j \in Nat
      BY <1>1, StartTypes DEF Inv
    <3>4. place(term[c].with) = i /\ place(Head(fs).of) = j
      BY <2>5, <3>1, <3>2
    <3> QED
      BY <3>2, <3>3, <3>4
  <2> QED
    BY <2>4, <2>6
<1>2. Inv => \A c \in Runs : Hears(c, "exit") /\ term[c].session # "none" =>
          LET of == Head(link[term[c].link].frames).of
              place(a) == CHOOSE i \in DOMAIN starts : starts[i] = a
          IN  agent # term[c].with /\ (of # None => place(of) >= place(term[c].with))
  BY <1>1
<1> QED
  BY <1>2, Invariance, PTL DEF EndIsTrue

\* No output is left out between two that a run shows on one link (host.rs forward,
\* Client::send).
THEOREM NothingIsSkipped == Spec => NoGap
<1>1. ASSUME Inv, NEW c \in Runs, Hears(c, "output"), term[c].shown # None
      PROVE  term'[c].shown = (term[c].shown + 1) % Chunks
  <2> DEFINE f == Head(link[term[c].link].frames)
  <2>1. Hear(c) /\ f.kind = "output"
    BY <1>1 DEF Hears
  <2>2. term' = [term EXCEPT ![c].shown = f.n]
    BY <2>1 DEF Hear
  <2>3. term'[c].shown = f.n
    <3>1. term \in [Runs -> Run]
      BY <1>1 DEF Inv, Typed
    <3> HIDE DEF f
    <3> QED
      BY <2>2, <3>1 DEF Run
  <2>4. f.n = (term[c].shown + 1) % Chunks
    BY <1>1, <2>1, Hearing DEF Inv, Streams
  <2> QED
    BY <2>3, <2>4
<1>2. Inv => \A c \in Runs : Hears(c, "output") /\ term[c].shown # None
                               => term'[c].shown = (term[c].shown + 1) % Chunks
  BY <1>1
<1> QED
  BY <1>2, Invariance, PTL DEF NoGap
=============================================================================
