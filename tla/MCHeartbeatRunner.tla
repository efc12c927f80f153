-------------------------- MODULE MCHeartbeatRunner --------------------------
(* Instances of HeartbeatRunner for TLC. *)
EXTENDS HeartbeatRunner
CONSTANTS a1, all

OneAgent == {a1}
OneTarget == {a1, all}
=============================================================================
