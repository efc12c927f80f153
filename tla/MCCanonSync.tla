---------------------------- MODULE MCCanonSync ----------------------------
(* Instances of CanonSync for TLC. *)
EXTENDS CanonSync, TLC
CONSTANTS n1, n2, c1, c2, plain, child, broken, none

TwoNodes == {n1, n2}
TwoPulls == {c1, c2}
Bodies == {plain, child, broken}
\* child refers to the first scroll.
Anchors == (child :> {1}) @@ (plain :> {}) @@ (broken :> {})
Complete == {plain, child}
OnlySecond == {2}
\* Bound: pulls overlap on one node, from its one peer, before the second change people
\* make, and none is made while they do.
EarlyOverlap == \/ \E c \in Pull : At(c, "idle")'
                \/ edits' <= 1 /\ edits' = edits /\ \A c, d \in Pull : call'[c].node = call'[d].node
ById == {"id"}
Symmetric == Permutations(TwoNodes) \union Permutations(TwoPulls)
=============================================================================
