-------------------------- MODULE MCBackgroundTask --------------------------
(* Instances of the background task for TLC: operations are alike. *)
EXTENDS BackgroundTask, TLC

Alike == Permutations(Ops)
=============================================================================
