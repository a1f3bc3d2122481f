----------------------------- MODULE MCSubagents -----------------------------
(* Instances of the subagents for TLC.                                     *)
EXTENDS Subagents

CONSTANT Resumed    \* the agents that are resumed once

MCKind == [a \in Agents |->
    CASE a = "detached" -> "background" [] a \in {"inline", "call"} -> "blocking"
      [] OTHER -> "child"]
MCOwner == [c \in Agents \cap {"child"} |-> "detached"]
MCMaxRuns == [a \in Agents |-> IF a \in Resumed THEN 2 ELSE 1]

\* Bound: a second call takes part, or a child, not both in one life of the session.
CallOrChild == rec["call"].status = "unborn" \/ rec["child"].status = "unborn"
=============================================================================
