----------------------------- MODULE CloudMirror -----------------------------
(***************************************************************************)
(* How the agent CLI mirrors a local session into a cloud conversation     *)
(* (cloud/src/mirror.ts, async.ts). Every turn flushes the whole session.  *)
(* A flush stages what is new in an outbox file, one flush at a time, and  *)
(* then asks for a delivery, of which there is one at a time: a request    *)
(* that finds one under way makes it run once more. The process can die    *)
(* anywhere, and the session can be switched anywhere; whatever was        *)
(* awaited then belongs to an earlier link and must not be taken over.     *)
(*                                                                         *)
(* An action is what happens between two awaits.                           *)
(***************************************************************************)
EXTENDS Integers, Sequences

CONSTANTS
    Conversations,
    None,          \* no conversation
    MaxEntries,    \* bound on the entries of each session
    Refusable,     \* entries that the cloud may refuse for good
    BatchSize,     \* MAX_ENTRIES_PER_BATCH
    MaxFlushes     \* bound on flushes under way

ASSUME MirrorAssumption ==
    /\ BatchSize \in Nat \ {0}
    /\ MaxEntries \in [Conversations -> Nat] /\ MaxFlushes \in Nat
    /\ None \notin Conversations

VARIABLES
    conv,     \* conversationId
    linked,
    backoff,  \* nextAttemptAt is ahead, or it may try again
    acked,    \* acknowledged
    refused,  \* rejected
    pending,  \* pendingEntryIds, in their order
    kept,     \* outboxEntries
    loaded,   \* outboxConversationId
    call,     \* the requests of the current link
    ops,      \* operations on the outbox file: the first runs, the others wait
    flight,   \* the delivery under way
    again,    \* the last request that came meanwhile, if it makes it run again
    outbox,   \* the outbox files
    rejects,  \* the files of rejected entries
    log,      \* the length of each session
    server,   \* the entries that the cloud has of each conversation
    denied    \* history: the entries the cloud refused for good

memory == <<acked, refused, pending, kept, loaded>>
link == <<conv, linked, call>>
disk == <<outbox, rejects>>
cloud == <<server, denied>>
vars == <<link, backoff, memory, ops, flight, again, disk, log, cloud>>

-----------------------------------------------------------------------------
\* The i-th entry of the session that is mirrored into conversation c.
Entries == UNION {{c} \X (1..MaxEntries[c]) : c \in Conversations}
Session(c, n) == [i \in 1..n |-> <<c, i>>]
Elements(s) == {s[i] : i \in DOMAIN s}
\* What s has of set S, in its order; a recursive function, so that it can be proved about.
Within(s, S) ==
    LET taken[i \in 0..Len(s)] ==
            IF i = 0 THEN <<>>
            ELSE IF s[i] \in S THEN Append(taken[i - 1], s[i]) ELSE taken[i - 1]
    IN  taken[Len(s)]
Minus(s, S) == Within(s, Elements(s) \ S)
\* s with those of t behind it that it lacks. An outbox can hold a line twice;
\* whoever reads it takes the first.
Extended(s, t) == s \o Minus(t, Elements(s))

NoCall == [at |-> "none", ids |-> {}, refused |-> {}]
Call == [at : {"none", "asked", "listed", "read"}, ids : SUBSET Entries,
         refused : SUBSET Entries]
\* What a call remembers of the link: the conversation, and whether the generation
\* is still linkGeneration. A new generation makes every earlier request stale.
Request == [conv : Conversations \cup {None}, stale : BOOLEAN]
NoRequest == [conv |-> None, stale |-> TRUE]
\* stage: the staging of a flush of n entries; clear: a delivery's removal of
\* the file.
Op == [kind : {"stage", "clear"}, at : {"waits", "reads", "appends", "removes"},
       req : Request, n : Nat, missing : Seq(Entries)]
Idle == [at |-> "idle", req |-> NoRequest, left |-> <<>>, refused |-> {}]
Flight == [at : {"idle", "begun", "linking", "sending", "taken", "writing", "clearing"},
           req : Request, left : Seq(Entries), refused : SUBSET Entries]
Begun(req) == [Idle EXCEPT !.at = "begun", !.req = req]

Init ==
    /\ conv = None /\ linked = FALSE /\ call = NoCall
    /\ backoff = "due"
    /\ acked = {} /\ refused = {} /\ pending = <<>> /\ kept = {} /\ loaded = None
    /\ ops = <<>>
    /\ flight = Idle /\ again = NoRequest
    /\ outbox = [c \in Conversations |-> <<>>]
    /\ rejects = [c \in Conversations |-> {}]
    /\ log = [c \in Conversations |-> 0]
    /\ server = [c \in Conversations |-> {}]
    /\ denied = {}

\* isCurrentLink
Current(req) == ~req.stale
Now == [conv |-> conv, stale |-> FALSE]

-----------------------------------------------------------------------------
\* singleFlight: the request of a flush starts a delivery or makes the one under
\* way run again. One that is stale is as good as none.
Requests(req) ==
    IF flight.at = "idle" THEN flight' = Begun(req) /\ UNCHANGED again
                          ELSE again' = req /\ UNCHANGED flight
\* The delivery returns, and runs again if there was a request meanwhile.
Returns ==
    /\ flight' = IF again = NoRequest THEN Idle ELSE Begun(again)
    /\ again' = NoRequest
\* The delivery throws: a request that came meanwhile is forgotten.
Throws == flight' = Idle /\ again' = NoRequest

\* A new linkGeneration.
Outdates ==
    /\ ops' = [i \in DOMAIN ops |-> [ops[i] EXCEPT !.req.stale = TRUE]]
    /\ again' = NoRequest
\* link(c), up to its first request.
Links(c) ==
    /\ Outdates
    /\ conv' = c /\ linked' = FALSE
    /\ call' = [NoCall EXCEPT !.at = "asked"]
    /\ IF conv = c THEN UNCHANGED <<memory, backoff>>
       ELSE /\ acked' = {} /\ refused' = {} /\ pending' = <<>> /\ kept' = {}
            /\ loaded' = None /\ backoff' = "due"

\* The session is linked to its conversation, or once more.
Link(c) ==
    /\ conv \in {None, c}
    /\ Links(c)
    /\ flight' = [flight EXCEPT !.req.stale = TRUE]
    /\ UNCHANGED <<disk, log, cloud>>

\* unlink, as the session is switched.
Unlink ==
    /\ conv # None
    /\ Outdates
    /\ flight' = [flight EXCEPT !.req.stale = TRUE]
    /\ conv' = None /\ linked' = FALSE /\ call' = NoCall
    /\ acked' = {} /\ refused' = {} /\ pending' = <<>> /\ kept' = {} /\ loaded' = None
    /\ backoff' = "due"
    /\ UNCHANGED <<disk, log, cloud>>

\* serverEntryIds: what the cloud has when it answers.
ListAnswered ==
    /\ call.at = "asked"
    /\ call' = [call EXCEPT !.at = "listed", !.ids = server[conv]]
    /\ UNCHANGED <<conv, linked, backoff, memory, ops, flight, again, disk, log, cloud>>
\* It does not answer, and whoever linked is told; a delivery ends there.
ListFails ==
    /\ call.at = "asked"
    /\ call' = NoCall
    /\ backoff' = "ahead"
    /\ IF flight.at = "linking" /\ Current(flight.req) THEN Throws ELSE UNCHANGED <<flight, again>>
    /\ UNCHANGED <<conv, linked, memory, ops, disk, log, cloud>>
\* readRejected
RejectedRead ==
    /\ call.at = "listed"
    /\ call' = [call EXCEPT !.at = "read", !.refused = rejects[conv]]
    /\ UNCHANGED <<conv, linked, backoff, memory, ops, flight, again, disk, log, cloud>>
\* The link is made. A delivery that waited for it begins.
Linked ==
    /\ call.at = "read"
    /\ acked' = call.ids /\ refused' = call.refused
    /\ pending' = Minus(pending, call.ids \cup call.refused)
    /\ linked' = TRUE /\ backoff' = "due" /\ call' = NoCall
    /\ flight' = IF flight.at = "linking" /\ Current(flight.req)
                 THEN [flight EXCEPT !.at = "begun"] ELSE flight
    /\ UNCHANGED <<conv, kept, loaded, ops, again, disk, log, cloud>>

BackoffPasses ==
    /\ backoff = "ahead"
    /\ backoff' = "due"
    /\ UNCHANGED <<link, memory, ops, flight, again, disk, log, cloud>>

-----------------------------------------------------------------------------
\* The session has a new entry.
Entry(c) ==
    /\ log[c] < MaxEntries[c]
    /\ log' = [log EXCEPT ![c] = @ + 1]
    /\ UNCHANGED <<link, backoff, memory, ops, flight, again, disk, cloud>>

\* flush. Of a session that is not linked it does nothing.
Flush ==
    /\ conv # None /\ Len(ops) < MaxFlushes
    /\ ops' = Append(ops, [kind |-> "stage", at |-> "waits", req |-> Now,
                           n |-> log[conv], missing |-> <<>>])
    /\ UNCHANGED <<link, backoff, memory, flight, again, disk, log, cloud>>

Runs(kind, at) == ops # <<>> /\ Head(ops).kind = kind /\ Head(ops).at = at

\* What is not on its way yet of the flush op, given what is settled and kept.
Missing(op, settled, k) == Minus(Session(op.req.conv, op.n), settled \cup k)
\* The first operation goes on to write what is missing.
GoesOnWith(missing) ==
    ops' = [ops EXCEPT ![1].at = "appends", ![1].missing = missing]

\* stageEntries: it reads the outbox of a conversation it has not read yet.
StageBegins ==
    /\ Runs("stage", "waits")
    /\ IF ~Current(Head(ops).req)
       THEN ops' = Tail(ops) /\ Requests(Head(ops).req)
       ELSE /\ IF loaded = conv THEN GoesOnWith(Missing(Head(ops), acked \cup refused, kept))
                                ELSE ops' = [ops EXCEPT ![1].at = "reads"]
            /\ UNCHANGED <<flight, again>>
    /\ UNCHANGED <<link, backoff, memory, disk, log, cloud>>
\* readOutbox
StageReads ==
    /\ Runs("stage", "reads")
    /\ IF ~Current(Head(ops).req)
       THEN /\ ops' = Tail(ops) /\ Requests(Head(ops).req)
            /\ UNCHANGED <<pending, kept, loaded>>
       ELSE /\ kept' = Elements(outbox[conv])
            /\ pending' = Extended(pending, Minus(outbox[conv], acked \cup refused))
            /\ loaded' = conv
            /\ GoesOnWith(Missing(Head(ops), acked \cup refused, kept'))
            /\ UNCHANGED <<flight, again>>
    /\ UNCHANGED <<link, backoff, acked, refused, disk, log, cloud>>
\* The lines are in the file; the flush asks for a delivery.
StageAppends ==
    LET op == Head(ops) IN
    /\ Runs("stage", "appends")
    /\ outbox' = [outbox EXCEPT ![op.req.conv] = Extended(@, op.missing)]
    /\ IF Current(op.req)
       THEN /\ kept' = kept \cup Elements(op.missing)
            /\ pending' = pending \o op.missing
       ELSE UNCHANGED <<kept, pending>>
    /\ ops' = Tail(ops)
    /\ Requests(op.req)
    /\ UNCHANGED <<link, backoff, acked, refused, loaded, rejects, log, cloud>>

-----------------------------------------------------------------------------
Chunk == SubSeq(flight.left, 1, IF Len(flight.left) < BatchSize THEN Len(flight.left)
                                                                ELSE BatchSize)
Rest == SubSeq(flight.left, Len(Chunk) + 1, Len(flight.left))
\* A delivery for request req waits for the removal of the file.
Clears(req) ==
    /\ flight' = [Idle EXCEPT !.at = "clearing", !.req = req]
    /\ ops' = Append(ops, [kind |-> "clear", at |-> "waits", req |-> req, n |-> 0,
                           missing |-> <<>>])
    /\ UNCHANGED again

\* Mutant: a delivery does not look whether its session was switched.
DeliverAnyway ==
    LET out == Within(pending, kept) IN
    /\ flight.at = "begun" /\ linked
    /\ IF out = <<>> THEN Clears(flight.req)
       ELSE /\ IF backoff = "ahead" THEN Returns
               ELSE /\ flight' = [flight EXCEPT !.at = "sending", !.left = out,
                                                !.refused = refused]
                    /\ UNCHANGED again
            /\ UNCHANGED ops
    /\ UNCHANGED <<link, backoff, memory, disk, log, cloud>>
\* deliver, of a request that an earlier link made, or of a linked session.
Deliver ==
    LET out == Within(pending, kept) IN
    /\ flight.at = "begun"
    /\ \/ /\ ~Current(flight.req)
          /\ Returns /\ UNCHANGED ops
       \/ /\ Current(flight.req) /\ linked
          /\ IF out = <<>> THEN Clears(flight.req)
             ELSE /\ IF backoff = "ahead" THEN Returns
                     ELSE /\ flight' = [flight EXCEPT !.at = "sending", !.left = out,
                                                      !.refused = refused]
                          /\ UNCHANGED again
                  /\ UNCHANGED ops
    /\ UNCHANGED <<link, backoff, memory, disk, log, cloud>>
\* deliver, of a session that is not linked: not before the next attempt is due.
DeliverLinks ==
    /\ flight.at = "begun" /\ Current(flight.req) /\ ~linked
    /\ IF backoff = "ahead"
       THEN Returns /\ UNCHANGED <<link, memory, backoff, ops>>
       ELSE Links(conv) /\ flight' = [flight EXCEPT !.at = "linking"]
    /\ UNCHANGED <<disk, log, cloud>>
\* Its link is over, after another one.
DeliverLinkStale ==
    /\ flight.at = "linking" /\ ~Current(flight.req)
    /\ Returns
    /\ UNCHANGED <<link, backoff, memory, ops, disk, log, cloud>>

\* appendEntries at the cloud: it takes the chunk, or refuses it for good.
CloudTakes ==
    /\ flight.at = "sending"
    /\ server' = [server EXCEPT ![flight.req.conv] = @ \cup Elements(Chunk)]
    /\ flight' = [flight EXCEPT !.at = "taken"]
    /\ UNCHANGED <<link, backoff, memory, ops, again, disk, log, denied>>
CloudRefuses ==
    /\ flight.at = "sending" /\ Elements(Chunk) \cap Refusable # {}
    /\ denied' = denied \cup Elements(Chunk)
    /\ flight' = [flight EXCEPT !.at = "writing", !.refused = @ \cup Elements(Chunk)]
    /\ UNCHANGED <<link, backoff, memory, ops, again, disk, log, server>>
\* Mutant: a chunk that fails is left for the next delivery.
SendFailsGoesOn ==
    /\ flight.at \in {"sending", "taken"}
    /\ backoff' = IF Current(flight.req) THEN "ahead" ELSE backoff
    /\ IF Current(flight.req) /\ Rest # <<>>
       THEN flight' = [flight EXCEPT !.at = "sending", !.left = Rest] /\ UNCHANGED again
       ELSE Throws
    /\ UNCHANGED <<link, memory, ops, disk, log, cloud>>
\* No answer, or none in time.
SendFails ==
    /\ flight.at \in {"sending", "taken"}
    /\ backoff' = IF Current(flight.req) THEN "ahead" ELSE backoff
    /\ Throws
    /\ UNCHANGED <<link, memory, ops, disk, log, cloud>>

\* The chunk is settled: the next one, or the end.
Settled ==
    /\ pending' = Minus(pending, Elements(Chunk))
    /\ IF Rest = <<>> THEN Clears(flight.req)
       ELSE /\ flight' = [flight EXCEPT !.at = "sending", !.left = Rest]
            /\ UNCHANGED <<ops, again>>
\* Mutant: a late answer counts for the next session too.
AcknowledgedLate ==
    /\ flight.at = "taken"
    /\ acked' = acked \cup Elements(Chunk) /\ Settled
    /\ UNCHANGED <<link, backoff, refused, kept, loaded, disk, log, cloud>>
Acknowledged ==
    /\ flight.at = "taken"
    /\ IF Current(flight.req)
       THEN acked' = acked \cup Elements(Chunk) /\ Settled
       ELSE Returns /\ UNCHANGED <<acked, pending, ops>>
    /\ UNCHANGED <<link, backoff, refused, kept, loaded, disk, log, cloud>>
\* writeRejected
RejectsWritten ==
    /\ flight.at = "writing"
    /\ rejects' = [rejects EXCEPT ![flight.req.conv] = flight.refused]
    /\ IF Current(flight.req)
       THEN refused' = flight.refused /\ Settled
       ELSE Returns /\ UNCHANGED <<refused, pending, ops>>
    /\ UNCHANGED <<link, backoff, acked, kept, loaded, outbox, log, cloud>>

\* Mutant: clearOutbox does not look what is pending.
ClearBeginsAnyway ==
    /\ Runs("clear", "waits")
    /\ Current(Head(ops).req)
    /\ ops' = [ops EXCEPT ![1].at = "removes"]
    /\ UNCHANGED <<link, backoff, memory, flight, again, disk, log, cloud>>
\* clearOutbox: not if there is something pending again.
ClearBegins ==
    /\ Runs("clear", "waits")
    /\ Current(Head(ops).req) /\ pending = <<>>
    /\ ops' = [ops EXCEPT ![1].at = "removes"]
    /\ UNCHANGED <<link, backoff, memory, flight, again, disk, log, cloud>>
\* The delivery is over.
Delivered ==
    /\ backoff' = IF Current(flight.req) THEN "due" ELSE backoff
    /\ ops' = Tail(ops)
    /\ Returns
ClearSkipped ==
    /\ Runs("clear", "waits")
    /\ ~(Current(Head(ops).req) /\ pending = <<>>)
    /\ Delivered
    /\ UNCHANGED <<link, memory, disk, log, cloud>>
Cleared ==
    LET c == Head(ops).req.conv IN
    /\ Runs("clear", "removes")
    /\ outbox' = [outbox EXCEPT ![c] = <<>>]
    /\ kept' = IF loaded = c THEN {} ELSE kept
    /\ Delivered
    /\ UNCHANGED <<link, acked, refused, pending, loaded, rejects, log, cloud>>

-----------------------------------------------------------------------------
\* The process dies, and another one starts. An append may be torn: what is
\* complete of it counts; so may be the file of rejected entries, which then
\* counts for nothing.
Crash ==
    LET torn(c) == IF Runs("stage", "appends") /\ Head(ops).req.conv = c
                   THEN {Extended(outbox[c], SubSeq(Head(ops).missing, 1, k)) :
                            k \in 0..Len(Head(ops).missing)}
                   ELSE {outbox[c]}
        garbled(c) == IF flight.at = "writing" /\ flight.req.conv = c
                      THEN {rejects[c], {}} ELSE {rejects[c]}
    IN
    /\ conv' = None /\ linked' = FALSE /\ call' = NoCall
    /\ acked' = {} /\ refused' = {} /\ pending' = <<>> /\ kept' = {} /\ loaded' = None
    /\ backoff' = "due"
    /\ ops' = <<>> /\ flight' = Idle /\ again' = NoRequest
    /\ \E c \in Conversations :
        /\ \E file \in torn(c) : outbox' = [outbox EXCEPT ![c] = file]
        /\ \E d \in Conversations : \E set \in garbled(d) :
               rejects' = [rejects EXCEPT ![d] = set]
    /\ UNCHANGED <<log, cloud>>

-----------------------------------------------------------------------------
Stage == StageBegins \/ StageReads \/ StageAppends
Clear == ClearBegins \/ ClearSkipped \/ Cleared
Linking == ListAnswered \/ RejectedRead \/ Linked
Delivery == Deliver \/ DeliverLinks \/ DeliverLinkStale \/ Acknowledged \/ RejectsWritten
Cloud == CloudTakes \/ CloudRefuses
Failure == ListFails \/ SendFails \/ Crash
Next ==
    \/ \E c \in Conversations : Link(c) \/ Entry(c)
    \/ Unlink \/ Flush \/ BackoffPasses
    \/ Stage \/ Clear \/ Linking \/ Delivery \/ Cloud \/ Failure

Spec == Init /\ [][Next]_vars

-----------------------------------------------------------------------------
TypeOK ==
    /\ conv \in Conversations \cup {None} /\ linked \in BOOLEAN
    /\ conv = None => ~linked /\ call.at = "none"
    /\ call \in Call
    /\ backoff \in {"due", "ahead"}
    /\ acked \subseteq Entries /\ refused \subseteq Entries /\ kept \subseteq Entries
    /\ pending \in Seq(Entries) /\ loaded \in Conversations \cup {None}
    /\ ops \in Seq(Op)
    /\ flight \in Flight /\ again \in Request
    /\ outbox \in [Conversations -> Seq(Entries)]
    /\ rejects \in [Conversations -> SUBSET Entries]
    /\ log \in [Conversations -> Nat] /\ \A c \in Conversations : log[c] <= MaxEntries[c]
    /\ server \in [Conversations -> SUBSET Entries]
    /\ denied \subseteq Entries

\* What a process has yet to deliver is on disk: killed at any moment, it leaves
\* an outbox from which another one can go on.
PendingIsOnDisk == conv # None => Elements(pending) \subseteq Elements(outbox[conv])

\* Nothing is taken for delivered or refused that was not: it would never be sent.
AckedIsMirrored == conv # None => acked \subseteq server[conv] /\ refused \subseteq denied

\* No conversation gets an entry of another session, however late an answer to
\* an earlier link is.
OwnEntriesOnly == \A c \in Conversations : server[c] \subseteq {c} \X (1..MaxEntries[c])

\* The cloud has an entry only if it has those before it, or refused them: the
\* parent of an entry is there.
ParentsFirst ==
    \A c \in Conversations : \A e \in server[c] :
        \A i \in 1..(e[2] - 1) : <<c, i>> \in server[c] \cup denied

=============================================================================
