------------------------------- MODULE Canon -------------------------------
(***************************************************************************)
(* What a lore directory promises to its readers, whoever writes it: a     *)
(* scroll is published in one step, a published scroll never disappears,   *)
(* nothing is published that fails validation against the scrolls that are *)
(* there, and the scroll index names published scrolls only.  CanonCommit  *)
(* (commits, pulled scrolls and index refreshes, one file-system call at a *)
(* time) implements it.                                                    *)
(***************************************************************************)
CONSTANTS Name,        \* file names of scrolls
          Draft,       \* texts a scroll can hold
          NoDraft,     \* the text of a name with no file
          WellFormed,  \* the drafts with complete frontmatter and known symbols
          AnchorsOf    \* the names a draft's prev/next fields refer to

VARIABLES text,        \* text[n]: what is published under n
          indexed      \* the names the scroll index lists

cvars == <<text, indexed>>

Published == {n \in Name : text[n] # NoDraft}

\* A draft passes validation under name n: no field is missing and every
\* scroll it refers to is published, or is the scroll itself.
ValidAs(d, n) == d \in WellFormed /\ AnchorsOf[d] \subseteq Published \union {n}

CInit == text = [n \in Name |-> NoDraft] /\ indexed = {}

Publish(n, d) == /\ ValidAs(d, n)
                 /\ text' = [text EXCEPT ![n] = d]
                 /\ UNCHANGED indexed

Reindex(listed) == /\ listed \subseteq Published
                   /\ indexed' = listed
                   /\ UNCHANGED text

CNext == \/ \E n \in Name, d \in Draft : Publish(n, d)
         \/ \E listed \in SUBSET Name : Reindex(listed)

CSpec == CInit /\ [][CNext]_cvars
=============================================================================
