--------------------------- MODULE MCCanonCommit ---------------------------
(* Instances of CanonCommit for TLC. *)
EXTENDS CanonCommit, TLC
CONSTANTS w1, w2, plain, child, broken, none, ta

TwoWorkers == {w1, w2}
Drafts == {plain, child, broken}
\* child's "previous" field is the path of the first numbered scroll.
Anchors == (child :> {<<1, ta>>}) @@ (plain :> {}) @@ (broken :> {})
Complete == {plain, child}
OneTitle == {ta}
\* The lore directory of a node that pulls from nobody.
CommitsOnly == Init /\ [][\E w \in Worker : BeginCommit(w) \/ Step(w)]_vars
Workers == Permutations(TwoWorkers)
\* Bound: a refresh of the index fails only while one file was written at most, or two
\* when it truncated the index itself.
EarlyFailures == \A w \in Worker :
    Throw(w) => missed' = missed \/ now <= IF At(w, "write") THEN 2 ELSE 1
=============================================================================
