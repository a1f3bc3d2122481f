---------------------------- MODULE MCCloudMirror ----------------------------
(* An instance of the mirror for TLC.                                      *)
EXTENDS CloudMirror

MCMaxEntries == [c \in Conversations |-> IF c = "long" THEN 2 ELSE 1]
MCRefusable == {<<"long", 1>>}
=============================================================================
