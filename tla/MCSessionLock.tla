--------------------------- MODULE MCSessionLock ---------------------------
(* Instances of SessionLock for TLC. *)
EXTENDS SessionLock, TLC
CONSTANTS p1, p2, c1, c2, c3

TwoProcesses == {p1, p2}
Callers == {c1, c2, c3}
\* Two callers share a process.
Runs == [c \in Callers |-> IF c = c3 THEN p2 ELSE p1]
Symmetric == Permutations({c1, c2})
=============================================================================
