-------------------------- MODULE MCReceiptJournal --------------------------
(* Instances of the receipt journal for TLC.                               *)
EXTENDS ReceiptJournal

\* One operation that may run again and one that may not.
MCEffect == [o \in Ops |-> IF o = "edit" THEN "mutation" ELSE "idempotent"]
MCFences == 1..2
=============================================================================
