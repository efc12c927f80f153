--------------------------- MODULE MCDeliveryQueue ---------------------------
(* Instances of DeliveryQueue for TLC. *)
EXTENDS DeliveryQueue, TLC

CONSTANTS r1, r2

AllEfforts == {"strict", "observed", "unobserved"}
StrictOnly == {"strict"}
Passes == Permutations({r1, r2})

\* Units of five seconds: BACKOFF_MS and the default budget of 60 seconds.
CodeBackoff == <<1, 5, 24, 120>>
\* A backoff that a budget of 3 covers.
ShortBackoff == <<1, 1, 2>>
=============================================================================
