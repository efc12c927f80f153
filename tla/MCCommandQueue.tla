--------------------------- MODULE MCCommandQueue ---------------------------
(***************************************************************************)
(* Two sessions.  A run is a task of its session lane with an inner task   *)
(* in the main lane; a1 and b1 are the runs of two sessions, x1 and y1     *)
(* what they wait for.  a2 waits behind a1 in its session lane, z is       *)
(* enqueued in the main lane directly.                                     *)
(***************************************************************************)
EXTENDS CommandQueue

CONSTANTS sa, sb, main, a1, a2, b1, x1, y1, z

RunLanes == {sa, sb, main}
MainOnly == {main}
RunTasks == {a1, a2, b1, x1, y1, z}
RunLaneOf == [t \in Task |-> IF t \in {a1, a2} THEN sa ELSE IF t = b1 THEN sb ELSE main]
RunInner == [t \in Task |-> IF t = a1 THEN x1 ELSE IF t = b1 THEN y1 ELSE NoTask]
=============================================================================
