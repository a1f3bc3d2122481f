---------------------------- MODULE RemoteSession ----------------------------
(***************************************************************************)
(* One name of `cloudthinker remote`: the terminals that open it, their    *)
(* links (ssh and the bridge it starts), and the host that keeps the agent *)
(* while nobody is there (engine/remote/client.rs, bridge.rs, host.rs).    *)
(*                                                                         *)
(* A run is one invocation of the command: it attaches to the agent, comes *)
(* back by itself when its link is lost, and ends when it is told to. A    *)
(* link is one ssh with its bridge; a run has a new one for each attempt,  *)
(* and the old one may still act on the machine after the run has left it. *)
(* The host serves whoever attached last. Its task handles one event at a  *)
(* time, so each handler is an action.                                     *)
(***************************************************************************)
EXTENDS Naturals, Sequences

CONSTANTS
    Runs,
    Links,       \* links that may exist at once
    None,
    Windows,     \* sizes of a terminal
    Squeezed,    \* the size that makes the agent draw again
    Chunks,      \* outputs are numbered modulo this; 0: no output
    MaxFrames,   \* CLIENT_QUEUE: frames on their way to a client
    MaxSpawned   \* bound on hosts that have yet to try the lock

ASSUME RemoteAssumption ==
    /\ None \notin Runs \cup Links \cup Windows \cup Nat
    /\ Squeezed \notin Windows \cup {None} /\ Windows # {}
    /\ Chunks \in Nat /\ MaxFrames \in Nat \ {0} /\ MaxSpawned \in Nat
    /\ {"free", "host"} \cap Links = {}

VARIABLES
    term,      \* the run: Client of client.rs
    window,    \* the size of its terminal
    link,
    lock,      \* who holds <name>.lock
    socket,    \* <name>.sock: "none", "stale" or "served"
    exit,      \* <name>.exit: the agent whose exit code it has
    spawned,   \* hosts that have yet to try the lock
    host,      \* the host that has the lock
    agent,     \* the agent, named by the run that started it
    size,      \* the size that the host keeps for the agent's terminal
    pty,       \* and the one that it has
    jiggle,    \* the size to give back after a squeeze
    output,    \* the number of the agent's next output
    owner,     \* history: the run that attached last
    starts     \* history: the agents, in the order of their starts

files == <<lock, socket, exit>>
screen == <<size, pty, jiggle>>
history == <<owner, starts>>
vars == <<term, window, link, files, spawned, host, agent, screen, output, history>>

-----------------------------------------------------------------------------
\* A frame to the client. Ping, Notice and the catalog carry nothing that matters.
Welcome(a) == [kind |-> "welcome", session |-> "current", of |-> a]
Output(n) == [kind |-> "output", n |-> n]
Exit(a) == [kind |-> "exit", of |-> a]
Replaced == [kind |-> "replaced"]
Detach == [kind |-> "detach"]
\* A session number is compared with that of the host and nothing else, and a new one
\* (new_session) makes every other stale.
Session == {"none", "current", "stale"}
Agents == Runs \cup {None}
Frame == [kind : {"welcome"}, session : Session, of : Runs] \cup {Output(n) : n \in 0..Chunks}
            \cup {Exit(a) : a \in Agents} \cup {Replaced, Detach}

\* A run: where it is, its session, the agent it was welcomed to (history) and the
\* output it showed last on this link (history).
Run == [at : {"idle", "asking", "attached", "away", "done"}, link : Links \cup {None},
        session : Session, with : Agents, shown : Nat \cup {None}]
NewRun == [at |-> "idle", link |-> None, session |-> "none", with |-> None, shown |-> None]

\* A link: its bridge dials the host, connects and sends the hello ("offered"); the
\* host takes it in ("served") and closes it ("shut"). end: the run's side. asked and
\* left: an event of the link that the host has yet to handle. fault: it was closed
\* because the host died or the client fell behind, or the client fell behind since.
\* tried: the bridge has spawned.
Link == [at : {"none", "dialing", "clearing", "spawning", "offered", "served", "shut"},
         end : {"none", "up", "cut", "gone"}, run : Agents, resume : Session,
         size : Windows \cup {None}, frames : Seq(Frame), asked : Windows \cup {None},
         left : BOOLEAN, fault : BOOLEAN, tried : BOOLEAN]
NoLink == [at |-> "none", end |-> "none", run |-> None, resume |-> "none", size |-> None,
           frames |-> <<>>, asked |-> None, left |-> FALSE, fault |-> FALSE, tried |-> FALSE]

NoHost == [at |-> "down", client |-> None]

Init ==
    /\ term = [c \in Runs |-> NewRun] /\ window \in [Runs -> Windows]
    /\ link = [k \in Links |-> NoLink]
    /\ lock = "free" /\ socket = "none" /\ exit = None /\ spawned = 0
    /\ host = NoHost /\ agent = None /\ size = None /\ pty = None /\ jiggle = None
    /\ output = 0 /\ owner = None /\ starts = <<>>

-----------------------------------------------------------------------------
\* A link that neither side and no event refers to any longer is as good as none.
Settled(l) ==
    IF l.at = "shut" /\ l.end = "gone" /\ l.asked = None /\ ~l.left THEN NoLink ELSE l
Shut(l) == Settled([l EXCEPT !.at = "shut"])
Dropped(l) == Settled([l EXCEPT !.end = "gone", !.frames = <<>>])

\* Client::send: a full queue refuses, and a link that is lost swallows.
Fits(l) == l.end # "up" \/ Len(l.frames) < MaxFrames
Put(l, f) == IF l.end = "up" THEN [l EXCEPT !.frames = Append(@, f)] ELSE l
Sent(l, f) == IF Fits(l) THEN Put(l, f) ELSE Shut([l EXCEPT !.fault = TRUE])
\* The last frame of a connection.
Parted(l, f) == IF Fits(l) THEN Shut(Put(l, f)) ELSE Shut([l EXCEPT !.fault = TRUE])

\* A new session is given out.
Staled(x) == IF x = "current" THEN "stale" ELSE x
StaledFrame(f) == IF f.kind = "welcome" THEN [f EXCEPT !.session = "stale"] ELSE f
StaledRun(r) == [r EXCEPT !.session = Staled(@)]
StaledLink(l) ==
    [l EXCEPT !.resume = Staled(@), !.frames = [i \in DOMAIN @ |-> StaledFrame(@[i])]]

-----------------------------------------------------------------------------
(* The run. *)

\* attempt: a new ssh. The hello carries the session, if there is one to resume.
Attempt(c, k) ==
    /\ term[c].at \in {"idle", "away"} /\ link[k] = NoLink
    /\ term' = [term EXCEPT ![c].at = "asking", ![c].link = k]
    /\ link' = [link EXCEPT ![k] = [NoLink EXCEPT !.at = "dialing", !.end = "up", !.run = c,
                                      !.resume = term[c].session, !.size = window[c]]]
    /\ UNCHANGED <<window, files, spawned, host, agent, screen, output, history>>

\* The command is over.
Over(c) == term' = [term EXCEPT ![c] = [NewRun EXCEPT !.at = "done"]]
Leaves(c) ==
    link' = [k \in Links |-> IF k = term[c].link THEN Dropped(link[k]) ELSE link[k]]

\* expect and session: the next frame. The size is sent once the run is attached.
Hear(c) ==
    LET k == term[c].link
        f == Head(link[k].frames)
        heard == [link EXCEPT ![k].frames = Tail(@)]
    IN  /\ term[c].at \in {"asking", "attached"} /\ link[k].frames # <<>>
        /\ \/ /\ f.kind = "welcome"
              /\ term' = [term EXCEPT ![c] = [@ EXCEPT !.at = "attached", !.session = f.session,
                                                !.with = f.of, !.shown = None]]
              /\ link' = [heard EXCEPT ![k].asked = IF link[k].at = "served" THEN window[c] ELSE @]
           \/ /\ f.kind = "output"
              /\ term' = [term EXCEPT ![c].shown = f.n] /\ link' = heard
           \/ f.kind \in {"exit", "replaced", "detach"} /\ Over(c) /\ Leaves(c)
        /\ UNCHANGED <<window, files, spawned, host, agent, screen, output, history>>

\* The link is at its end, or nothing was heard for HEARTBEAT. The first attempt is
\* not repeated.
Lose(c) ==
    LET k == term[c].link
    IN  /\ term[c].at \in {"asking", "attached"} /\ link[k].frames = <<>>
        /\ link[k].end = "cut" \/ link[k].at = "shut"
        /\ IF term[c].session = "none" THEN Over(c)
           ELSE term' = [term EXCEPT ![c].at = "away", ![c].link = None, ![c].shown = None]
        /\ Leaves(c)
        /\ UNCHANGED <<window, files, spawned, host, agent, screen, output, history>>

\* The user detaches, or a signal stops the run.
Leave(c) ==
    /\ term[c].at \in {"asking", "attached", "away"}
    /\ Over(c) /\ Leaves(c)
    /\ UNCHANGED <<window, files, spawned, host, agent, screen, output, history>>

\* reconnect: ssh wants a password, asks for it, and is refused.
Prompted(c) ==
    /\ term[c].at = "away" /\ Over(c)
    /\ UNCHANGED <<window, link, files, spawned, host, agent, screen, output, history>>

\* The user changes the size of the terminal.
Resized(c, w) ==
    LET k == term[c].link
    IN  /\ term[c].at \in {"asking", "attached", "away"} /\ w # window[c]
        /\ window' = [window EXCEPT ![c] = w]
        /\ link' = IF term[c].at = "attached" /\ link[k].end = "up" /\ link[k].at = "served"
                     THEN [link EXCEPT ![k].asked = w] ELSE link
        /\ UNCHANGED <<term, files, spawned, host, agent, screen, output, history>>

\* External: the link is lost with what is on it, or stalls for too long.
Cut(k) ==
    /\ link[k].end = "up"
    /\ link' = [link EXCEPT ![k] = [@ EXCEPT !.end = "cut", !.frames = <<>>, !.asked = None]]
    /\ UNCHANGED <<term, window, files, spawned, host, agent, screen, output, history>>

\* write_client, flush: a client that does not read for WRITE_STALL, or FLUSH_WAIT as the
\* host ends, loses the end of what was left for it.
FellBehind(l) == [l EXCEPT !.frames = SubSeq(@, 1, Len(@) - 1), !.fault = TRUE]
Stall(k) ==
    /\ link[k].at = "shut" /\ link[k].frames # <<>>
    /\ link' = [link EXCEPT ![k] = FellBehind(@)]
    /\ UNCHANGED <<term, window, files, spawned, host, agent, screen, output, history>>

-----------------------------------------------------------------------------
(* The bridge. *)

\* connect: somebody listens. The hello follows.
Connect(k) ==
    /\ link[k].at = "dialing" /\ socket = "served"
    /\ link' = [link EXCEPT ![k].at = "offered"]
    /\ UNCHANGED <<term, window, files, spawned, host, agent, screen, output, history>>

\* Mutant: the bridge does not ask for the lock.
ClearUnlocked(k) ==
    /\ link[k].at = "dialing" /\ ~link[k].tried /\ socket # "served"
    /\ lock' = k /\ link' = [link EXCEPT ![k].at = "clearing"]
    /\ UNCHANGED <<term, window, socket, exit, spawned, host, agent, screen, output, history>>
\* Mutant: a socket that refuses is left where it is.
ClearMissingOnly(k) ==
    /\ link[k].at = "dialing" /\ ~link[k].tried /\ socket = "none" /\ lock = "free"
    /\ lock' = k /\ link' = [link EXCEPT ![k].at = "clearing"]
    /\ UNCHANGED <<term, window, socket, exit, spawned, host, agent, screen, output, history>>

\* clear_stale_socket: nobody listens and nobody has the lock.
Clear(k) ==
    /\ link[k].at = "dialing" /\ ~link[k].tried /\ socket # "served" /\ lock = "free"
    /\ lock' = k /\ link' = [link EXCEPT ![k].at = "clearing"]
    /\ UNCHANGED <<term, window, socket, exit, spawned, host, agent, screen, output, history>>
Cleared(k) ==
    /\ link[k].at = "clearing"
    /\ socket' = "none" /\ lock' = "free" /\ link' = [link EXCEPT ![k].at = "spawning"]
    /\ UNCHANGED <<term, window, exit, spawned, host, agent, screen, output, history>>

\* spawn_host.
SpawnHost(k) ==
    /\ link[k].at = "spawning" /\ spawned < MaxSpawned
    /\ spawned' = spawned + 1
    /\ link' = [link EXCEPT ![k].at = "dialing", ![k].tried = TRUE]
    /\ UNCHANGED <<term, window, files, host, agent, screen, output, history>>

\* CONNECT_WAIT is over, or the bridge dies with its ssh.
BridgeEnds(k) ==
    /\ \/ link[k].at = "dialing"
       \/ link[k].at \in {"clearing", "spawning"} /\ link[k].end # "up"
    /\ lock' = IF lock = k THEN "free" ELSE lock
    /\ link' = [link EXCEPT ![k] = Shut(@)]
    /\ UNCHANGED <<term, window, socket, exit, spawned, host, agent, screen, output, history>>

-----------------------------------------------------------------------------
(* The host. *)

\* serve, up to its loop. One that does not get the lock ends.
HostStarts ==
    /\ spawned > 0 /\ spawned' = spawned - 1
    /\ IF lock = "free"
         THEN lock' = "host" /\ socket' = "served" /\ host' = [NoHost EXCEPT !.at = "serving"]
         ELSE UNCHANGED <<lock, socket, host>>
    /\ UNCHANGED <<term, window, link, exit, agent, screen, output, history>>

Offered(k) == host.at = "serving" /\ link[k].at = "offered"

\* attach: the agent of a run that comes back has ended.
ResumeEnded(k) ==
    /\ Offered(k) /\ link[k].resume # "none" /\ agent = None
    /\ link' = [link EXCEPT ![k] = Parted(@, Exit(exit))]
    /\ host' = [host EXCEPT !.at = "stopping"]
    /\ UNCHANGED <<term, window, files, spawned, agent, screen, output, history>>

\* attach: somebody attached since this run was there.
ResumeRefused(k) ==
    /\ Offered(k) /\ link[k].resume = "stale" /\ agent # None
    /\ link' = [link EXCEPT ![k] = Parted(@, Replaced)]
    /\ UNCHANGED <<term, window, files, spawned, host, agent, screen, output, history>>

\* The client before k is told, and k is welcomed to agent a under a new session.
Takes(k, a) ==
    LET before(l) == IF l = host.client THEN Parted(link[l], Replaced) ELSE link[l]
        taken == [link[k] EXCEPT !.at = "served", !.resume = "none", !.size = None]
    IN  /\ host' = [host EXCEPT !.client = k] /\ owner' = link[k].run
        /\ term' = [c \in Runs |-> StaledRun(term[c])]
        /\ link' = [l \in Links |-> IF l = k THEN Put(taken, Welcome(a)) ELSE StaledLink(before(l))]

\* Mutant: the session is not compared.
ReattachAny(k) ==
    /\ Offered(k) /\ agent # None
    /\ Takes(k, agent)
    /\ size' = link[k].size /\ pty' = size' /\ jiggle' = None
    /\ UNCHANGED <<window, files, spawned, agent, output, starts>>

\* attach, reattach: the agent draws again when it is signalled, or sees its
\* terminal change size and back.
Reattach(k) ==
    /\ Offered(k) /\ agent # None /\ link[k].resume # "stale"
    /\ Takes(k, agent)
    /\ size' = link[k].size
    /\ \/ pty' = size' /\ jiggle' = None
       \/ pty' = Squeezed /\ jiggle' = size'
    /\ UNCHANGED <<window, files, spawned, agent, output, starts>>

\* Mutant: a run that comes back starts the agent as any other.
StartAgentAgain(k) ==
    /\ Offered(k) /\ agent = None
    /\ Takes(k, link[k].run)
    /\ exit' = None /\ agent' = link[k].run /\ starts' = Append(starts, agent')
    /\ size' = link[k].size /\ pty' = size' /\ jiggle' = None
    /\ UNCHANGED <<window, lock, socket, spawned, output>>
\* Mutant: the exit code of the agent before stays.
StartAgentOverExit(k) ==
    /\ Offered(k) /\ agent = None /\ link[k].resume = "none"
    /\ Takes(k, link[k].run)
    /\ agent' = link[k].run /\ starts' = Append(starts, agent')
    /\ size' = link[k].size /\ pty' = size' /\ jiggle' = None
    /\ UNCHANGED <<window, files, spawned, output>>

\* attach: the first terminal starts the agent.
StartAgent(k) ==
    /\ Offered(k) /\ agent = None /\ link[k].resume = "none"
    /\ Takes(k, link[k].run)
    /\ exit' = None /\ agent' = link[k].run /\ starts' = Append(starts, agent')
    /\ size' = link[k].size /\ pty' = size' /\ jiggle' = None
    /\ UNCHANGED <<window, lock, socket, spawned, output>>

\* attach: the agent does not start.
StartFails(k) ==
    /\ Offered(k) /\ agent = None /\ link[k].resume = "none"
    /\ exit' = None /\ host' = [host EXCEPT !.at = "stopping"]
    /\ link' = [link EXCEPT ![k] = Parted(@, Exit(None))]
    /\ UNCHANGED <<term, window, lock, socket, spawned, agent, screen, output, history>>

Attach(k) ==
    \/ ResumeEnded(k) \/ ResumeRefused(k) \/ Reattach(k) \/ StartAgent(k) \/ StartFails(k)

IsCurrent(k) == host.client = k

\* Mutant: the size that a squeeze will give back stays.
OnResizeSqueezed(k) ==
    /\ host.at = "serving" /\ link[k].asked # None
    /\ IF IsCurrent(k) THEN size' = link[k].asked /\ pty' = size' /\ UNCHANGED jiggle
       ELSE UNCHANGED screen
    /\ link' = [link EXCEPT ![k] = Settled([@ EXCEPT !.asked = None])]
    /\ UNCHANGED <<term, window, files, spawned, host, agent, output, history>>

\* on_frame: a new size, from the client the host serves.
OnResize(k) ==
    /\ host.at = "serving" /\ link[k].asked # None
    /\ IF IsCurrent(k) THEN size' = link[k].asked /\ pty' = size' /\ jiggle' = None
       ELSE UNCHANGED screen
    /\ link' = [link EXCEPT ![k] = Settled([@ EXCEPT !.asked = None])]
    /\ UNCHANGED <<term, window, files, spawned, host, agent, output, history>>

\* read_client: the link has ended; then on_event hears of it.
ReadEnd(k) ==
    /\ link[k].at = "served" /\ link[k].end # "up" /\ ~link[k].left
    /\ link' = [link EXCEPT ![k].left = TRUE]
    /\ UNCHANGED <<term, window, files, spawned, host, agent, screen, output, history>>
\* Mutant: whoever leaves, the client is dropped.
OnLeftAny(k) ==
    /\ host.at = "serving" /\ link[k].left
    /\ link' = [l \in Links |->
                  LET heard == IF l = k THEN [link[l] EXCEPT !.left = FALSE] ELSE link[l]
                  IN  IF l = host.client THEN Shut(heard) ELSE Settled(heard)]
    /\ host' = [host EXCEPT !.client = None]
    /\ UNCHANGED <<term, window, files, spawned, agent, screen, output, history>>
OnLeft(k) ==
    /\ host.at = "serving" /\ link[k].left
    /\ link' = [l \in Links |->
                  LET heard == IF l = k THEN [link[l] EXCEPT !.left = FALSE] ELSE link[l]
                  IN  IF l = host.client /\ IsCurrent(k) THEN Shut(heard) ELSE Settled(heard)]
    /\ host' = IF IsCurrent(k) THEN [host EXCEPT !.client = None] ELSE host
    /\ UNCHANGED <<term, window, files, spawned, agent, screen, output, history>>

\* restore_size.
RestoreSize ==
    /\ host.at = "serving" /\ jiggle # None
    /\ pty' = jiggle /\ jiggle' = None
    /\ UNCHANGED <<term, window, link, files, spawned, host, agent, size, output, history>>

\* Mutant: what does not fit is left out.
ForwardOrSkip ==
    /\ agent # None /\ Chunks > 0
    /\ output' = (output + 1) % Chunks
    /\ LET k == host.client
       IN  IF k = None \/ ~Fits(link[k]) THEN UNCHANGED link
           ELSE link' = [link EXCEPT ![k] = Put(@, Output(output))]
    /\ UNCHANGED <<term, window, files, spawned, host, agent, screen, history>>

\* forward: what the agent prints goes to the client, or is dropped without one. A
\* client that cannot take it is given up. finish does it too, for DRAIN_WAIT.
Forward ==
    /\ agent # None /\ Chunks > 0
    /\ output' = (output + 1) % Chunks
    /\ LET k == host.client
       IN  IF k = None THEN UNCHANGED <<link, host>>
           ELSE /\ link' = [link EXCEPT ![k] = Sent(@, Output(output))]
                /\ host' = IF Fits(link[k]) THEN host ELSE [host EXCEPT !.client = None]
    /\ UNCHANGED <<term, window, files, spawned, agent, screen, history>>

\* The client gets a last frame, and there is none any longer.
Farewell(f) ==
    link' = [k \in Links |-> IF k = host.client THEN Parted(link[k], f) ELSE link[k]]

\* detach_by_agent: the agent asks (SIGUSR1).
DetachByAgent ==
    /\ host.at = "serving" /\ host.client # None
    /\ Farewell(Detach) /\ host' = [host EXCEPT !.client = None]
    /\ UNCHANGED <<term, window, files, spawned, agent, screen, output, history>>

\* The agent exits; finish drains its output, saves its code and tells it.
AgentExits ==
    /\ host.at = "serving" /\ agent # None
    /\ host' = [host EXCEPT !.at = "finishing"]
    /\ UNCHANGED <<term, window, link, files, spawned, agent, screen, output, history>>
Finish ==
    /\ host.at = "finishing"
    /\ exit' \in {agent, exit}
    /\ Farewell(Exit(agent))
    /\ host' = [host EXCEPT !.at = "stopping", !.client = None]
    /\ agent' = None /\ size' = None /\ pty' = None /\ jiggle' = None
    /\ UNCHANGED <<term, window, lock, socket, spawned, output, history>>

\* Nobody attached for FIRST_ATTACH_WAIT.
NobodyCame ==
    /\ host.at = "serving" /\ agent = None
    /\ host' = [host EXCEPT !.at = "stopping"]
    /\ UNCHANGED <<term, window, link, files, spawned, agent, screen, output, history>>

\* The events and the connections of a process end with it.
Unheard(l) ==
    LET forgotten == [l EXCEPT !.left = FALSE, !.asked = None]
    IN  IF l.at \in {"offered", "served", "shut"} THEN Shut(forgotten) ELSE l

\* cleanup, and the end of the process.
HostStops ==
    /\ host.at = "stopping" /\ host' = NoHost
    /\ lock' = "free" /\ socket' = "none"
    /\ link' = [k \in Links |-> Unheard(link[k])]
    /\ UNCHANGED <<term, window, exit, spawned, agent, screen, output, history>>

\* The process is killed: the socket is left, the agent loses its terminal and ends.
HostDies ==
    /\ host.at # "down" /\ host' = NoHost
    /\ lock' = "free" /\ socket' = "stale"
    /\ agent' = None /\ size' = None /\ pty' = None /\ jiggle' = None
    /\ link' = [k \in Links |->
                  Unheard([link[k] EXCEPT !.fault = @ \/ link[k].at \in {"offered", "served"}])]
    /\ UNCHANGED <<term, window, exit, spawned, output, history>>

-----------------------------------------------------------------------------
Next ==
    \/ \E c \in Runs :
         \/ \E k \in Links : Attempt(c, k)
         \/ \E w \in Windows : Resized(c, w)
         \/ Hear(c) \/ Lose(c) \/ Leave(c) \/ Prompted(c)
    \/ \E k \in Links :
         \/ Cut(k) \/ Stall(k) \/ Connect(k) \/ Clear(k) \/ Cleared(k) \/ SpawnHost(k) \/ BridgeEnds(k)
         \/ Attach(k) \/ OnResize(k) \/ ReadEnd(k) \/ OnLeft(k)
    \/ HostStarts \/ RestoreSize \/ Forward \/ DetachByAgent \/ AgentExits \/ Finish
    \/ NobodyCame \/ HostStops \/ HostDies

Spec == Init /\ [][Next]_vars

\* ssh is tried again and again, and what is begun goes on. A bridge that polls is
\* through before its time is over, in one attempt or another, and the lock it holds
\* for a moment is not in the way of each host. Nobody has to open, leave or quit.
Up(k) == link[k].end = "up"
Fairness ==
    /\ \A c \in Runs :
         /\ WF_vars(term[c].at = "away" /\ \E k \in Links : Attempt(c, k))
         /\ WF_vars(Lose(c)) /\ WF_vars(Hear(c))
    /\ \A k \in Links :
         /\ SF_vars(Up(k) /\ Connect(k)) /\ SF_vars(Up(k) /\ Clear(k))
         /\ WF_vars(Cleared(k)) /\ WF_vars(SpawnHost(k)) /\ WF_vars(BridgeEnds(k))
         /\ WF_vars(Attach(k)) /\ WF_vars(OnResize(k)) /\ WF_vars(ReadEnd(k)) /\ WF_vars(OnLeft(k))
    /\ WF_vars(HostStarts) /\ SF_vars(lock = "free" /\ HostStarts)
    /\ WF_vars(Finish) /\ WF_vars(HostStops)

FairSpec == Spec /\ Fairness

-----------------------------------------------------------------------------
\* The types, and that the client of the host is a link it serves.
TypeOK ==
    /\ term \in [Runs -> Run] /\ window \in [Runs -> Windows] /\ link \in [Links -> Link]
    /\ lock \in {"free", "host"} \cup Links /\ socket \in {"none", "stale", "served"}
    /\ exit \in Agents /\ spawned \in 0..MaxSpawned
    /\ host \in [at : {"down", "serving", "finishing", "stopping"}, client : Links \cup {None}]
    /\ agent \in Agents /\ output \in Nat
    /\ size \in Windows \cup {None} /\ pty \in Windows \cup {Squeezed, None}
    /\ jiggle \in Windows \cup {None}
    /\ owner \in Agents /\ starts \in Seq(Runs)
    /\ host.client # None => host.at \in {"serving", "finishing"} /\ link[host.client].at = "served"
    /\ agent = None <=> pty = None

\* While a host runs, its lock is its own and its socket is there: no bridge takes
\* it for dead, and no second host starts beside it (bridge.rs clear_stale_socket).
SocketIsServed == host.at # "down" => lock = "host" /\ socket = "served"

\* A run that comes back does not take the agent from another that attached since
\* (host.rs attach).
NoTakeBack ==
    [][\A k \in Links : host'.client = k /\ host.client # k /\ link[k].resume # "none"
                          => owner \in {None, link[k].run}]_vars

\* One invocation starts one agent: however often its link is lost, it never starts
\* another in place of one that has ended (host.rs attach).
OneStartPerRun == \A i, j \in DOMAIN starts : starts[i] = starts[j] => i = j

Hears(c, kind) == Hear(c) /\ Head(link[term[c].link].frames).kind = kind

\* A run that is told the end of its agent is told no lie: the agent has ended, and
\* the exit code is not that of one that ended before its agent was started. It may be
\* that of a later one, see the open points.
EndIsTrue ==
    [][\A c \in Runs : Hears(c, "exit") /\ term[c].session # "none" =>
          LET of == Head(link[term[c].link].frames).of
              place(a) == CHOOSE i \in DOMAIN starts : starts[i] = a
          IN  agent # term[c].with /\ (of # None => place(of) >= place(term[c].with))]_vars

\* While its link holds, a run that is attached is dropped by the host only with a last
\* frame that says why, or because it fell behind or the host died.
EndsAreTold ==
    \A c \in Runs :
        LET l == link[term[c].link]
        IN  term[c].at = "attached" /\ l.end = "up" /\ l.at = "shut" /\ ~l.fault
              => /\ l.frames # <<>>
                 /\ l.frames[Len(l.frames)].kind \in {"exit", "replaced", "detach"}

\* What a run shows is all that the agent printed since it attached: a client that
\* falls behind is given up, and no output is left out of the middle.
NoGap ==
    [][\A c \in Runs : Hears(c, "output") /\ term[c].shown # None
                          => term'[c].shown = (term[c].shown + 1) % Chunks]_vars

\* When all is quiet the agent draws at the size of the terminal that is attached,
\* whatever was resized or given back meanwhile (host.rs resize, restore_size).
WindowSettles ==
    \A c \in Runs :
        LET k == term[c].link
        IN  /\ term[c].at = "attached" /\ link[k].end = "up" /\ host.client = k
            /\ link[k].asked = None /\ jiggle = None
            => pty = window[c]

\* If in the end no link is lost or stalls, no host dies and none gives up waiting (it
\* waits for 30 s and a bridge dials every 100 ms), a run that lost its link is back one
\* day, or is told why not (client.rs reconnect, bridge.rs connect).
Calm == <>[][~NobodyCame /\ ~HostDies /\ \A k \in Links : ~Cut(k) /\ ~Stall(k)]_vars
ComesBack ==
    Calm => \A c \in Runs : term[c].at = "away" ~> term[c].at \in {"attached", "done"}

=============================================================================
