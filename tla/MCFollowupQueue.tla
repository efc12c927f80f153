-------------------------- MODULE MCFollowupQueue --------------------------
(* Instances of FollowupQueue for TLC. *)
EXTENDS FollowupQueue, TLC

CONSTANTS here, there, nowhere

Two(mode, policy) == [mode |-> mode, cap |-> 2, dropPolicy |-> policy]
Mixed == {Two("collect", "summarize"), Two("followup", "summarize"), Two("collect", "new")}
\* The third message goes elsewhere.
Routes == [m \in 1..N |-> IF m = 3 THEN there ELSE here]
=============================================================================
