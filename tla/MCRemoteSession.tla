--------------------------- MODULE MCRemoteSession ---------------------------
(* Instances of a remote session for TLC.                                  *)
EXTENDS RemoteSession, TLC

\* The runs, and the links, do the same things.
Sym == Permutations(Runs) \cup Permutations(Links)
=============================================================================
