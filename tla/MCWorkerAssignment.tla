------------------------- MODULE MCWorkerAssignment -------------------------
(* Instances of the Worker assignment for TLC.                             *)
EXTENDS WorkerAssignment

\* Operation 1 may not run again, operation 2 may.
MCOps == 1..2
MCEffect == [o \in Ops |-> IF o = 1 THEN "mutation" ELSE "idempotent"]
=============================================================================
