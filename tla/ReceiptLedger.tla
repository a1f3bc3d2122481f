---------------------------- MODULE ReceiptLedger ----------------------------
(***************************************************************************)
(* What the receipt journal promises: a ledger with one entry for each     *)
(* operation. Whatever crashes and failed writes do, an entry only ever    *)
(* takes steps of the operation's life, a finished operation keeps its     *)
(* result until it is acknowledged, and only a replayable operation goes   *)
(* back to the start, at another fence.                                    *)
(***************************************************************************)
CONSTANTS Ops, Effect, Fences, Results, NoResult

VARIABLE ledger

Entry == [state : {"none", "received", "started", "terminal"},
          fence : Fences \cup {0}, result : Results \cup {NoResult}]
None == [state |-> "none", fence |-> 0, result |-> NoResult]

Init == ledger = [o \in Ops |-> None]

\* The operation is delivered, or delivered again at another fence.
Deliver(o, from, to) ==
    /\ to.state = "received" /\ to.result = NoResult
    /\ \/ from.state = "none"
       \/ Effect[o] \in {"read", "idempotent"} /\ to.fence # from.fence

Start(from, to) ==
    from.state = "received" /\ to = [from EXCEPT !.state = "started"]

Finish(from, to) ==
    /\ from.state = "started"
    /\ \E r \in Results : to = [state |-> "terminal", fence |-> from.fence, result |-> r]

Resolve(from, to) == from.state # "none" /\ to = None

Step(o, from, to) == Deliver(o, from, to) \/ Start(from, to) \/ Finish(from, to) \/ Resolve(from, to)

\* A crash can complete a step of several operations at once.
Next == /\ ledger' \in [Ops -> Entry]
        /\ \A o \in Ops : ledger'[o] = ledger[o] \/ Step(o, ledger[o], ledger'[o])

Spec == Init /\ [][Next]_ledger
=============================================================================
