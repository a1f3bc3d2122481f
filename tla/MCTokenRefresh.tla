--------------------------- MODULE MCTokenRefresh ---------------------------
(* Instances of the token refresh for TLC: one process has every task but  *)
(* "other".                                                                *)
EXTENDS TokenRefresh

MCHost == [t \in Tasks |-> IF t = "other" THEN "q" ELSE "p"]
=============================================================================
