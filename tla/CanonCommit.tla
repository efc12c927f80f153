---------------------------- MODULE CanonCommit ----------------------------
(***************************************************************************)
(* One lore directory and the asynchronous calls that write it: commits    *)
(* (commit_scroll.ts), scrolls a sync pull writes (canon_sync.ts) and      *)
(* refreshes of the scroll index (scroll_index.ts).  No call takes a lock. *)
(* A step is what a call does between two awaits: one walk, stat, write or *)
(* rename, so the calls of different workers interleave between them.  A   *)
(* temporary file is written in one step, nobody reads it before its       *)
(* rename; the index is written in place, truncated first.                 *)
(***************************************************************************)
EXTENDS Integers

CONSTANTS Worker,      \* calls that can be in progress at the same time
          Draft,       \* texts a scroll can hold
          NoDraft,     \* the text of a name with no file
          WellFormed,  \* the drafts with complete frontmatter and known symbols
          AnchorsOf,   \* the names a draft's prev/next fields refer to
          Title,       \* what a file name holds after its number
          MaxNumber,   \* bound: scroll numbers
          MaxTime,     \* bound: file-system timestamps
          FineClock    \* each write gets a later timestamp than the one before

\* A file name: its family number (0: none, e.g. TOBY_T1_x.md) and its title.
Name == (0..MaxNumber) \X Title
Time == 0..MaxTime

ASSUME ConstantsAssumption ==
    /\ NoDraft \notin Draft
    /\ WellFormed \subseteq Draft
    /\ AnchorsOf \in [Draft -> SUBSET Name]
    /\ MaxNumber \in Nat /\ MaxTime \in Nat /\ FineClock \in BOOLEAN

VARIABLES text,        \* text[n]: the content of file n
          mtime,       \* mtime[n]: its modification time
          indexed,     \* the names _index/scroll_index.json begins with, {}: it is empty
          extent,      \* the most names written to it since it was last truncated
          indexTime,   \* the modification time of that file, 0 when it is missing
          call,        \* call[w]: the call worker w is executing
          now,         \* the latest timestamp given to a file
          missed,      \* history: the scrolls the index was written without knowing, or
                       \* whose refresh failed
          cut          \* history: an index write was stopped, failed, or met another one

vars == <<text, mtime, indexed, extent, indexTime, call, now, missed, cut>>

OnDisk == {n \in Name : text[n] # NoDraft}

Stage == {"idle", "stat", "validate", "stage", "check", "rename",
          "collect", "compare", "truncate", "write"}

Call == [pc: Stage,
         kind: {"commit", "dry", "pull", "ensure"},
         draft: Draft \union {NoDraft},
         name: Name \union {<<>>},
         seen: SUBSET Name,       \* what the call's latest directory walk returned
         stamp: Time]             \* the timestamp of the call's temporary file

CallAt(pc, kind, d, n, listed, t) ==
    [pc |-> pc, kind |-> kind, draft |-> d, name |-> n, seen |-> listed, stamp |-> t]

Idle == CallAt("idle", "ensure", NoDraft, <<>>, {}, 0)
Refresh == CallAt("collect", "ensure", NoDraft, <<>>, {}, 0)

Init ==
    /\ text = [n \in Name |-> NoDraft]
    /\ mtime = [n \in Name |-> 0]
    /\ indexed = {} /\ extent = {} /\ indexTime = 0
    /\ call = [w \in Worker |-> Idle]
    /\ now = 0 /\ missed = {} /\ cut = FALSE

----------------------------------------------------------------------------
\* Timestamps: a file system with coarse timestamps may repeat the last one.
Stamps == {t \in Time : t = now + 1 \/ (t = now /\ now > 0 /\ ~FineClock)}

\* getNextFamilyNumber: one more than the highest number on disk.
IsNextNumber(num) == /\ num = 1 \/ \E n \in OnDisk : num = n[1] + 1
                     /\ \A n \in OnDisk : n[1] < num

\* validateLoreDraftInCorpusContext reports no warning.
ValidAs(d, n) == d \in WellFormed /\ AnchorsOf[d] \subseteq OnDisk \union {n}

Continue(w, pc, listed, t) ==
    call' = [call EXCEPT ![w] = CallAt(pc, call[w].kind, call[w].draft, call[w].name, listed, t)]
Goto(w, pc) == Continue(w, pc, call[w].seen, call[w].stamp)
Return(w) == call' = [call EXCEPT ![w] = Idle]
At(w, pc) == call[w].pc = pc

Files == <<text, mtime>>
Index == <<indexed, extent, indexTime, cut>>
Written == <<Files, Index, missed>>

\* A shorter list over a longer one leaves its tail: the text does not parse.
Readable == indexed = extent /\ (indexed = {} => indexTime = 0)

----------------------------------------------------------------------------
\* commitScroll reads the directory to draw the number.  The name carries the
\* number, unless the preferred file name starts with TOBY_ and another family.
BeginCommit(w) ==
    /\ At(w, "idle")
    /\ \E d \in Draft, kind \in {"commit", "dry"}, t \in Title, num \in 0..MaxNumber :
          /\ num = 0 \/ IsNextNumber(num)
          /\ call' = [call EXCEPT ![w] = CallAt("stat", kind, d, <<num, t>>, OnDisk, 0)]
    /\ UNCHANGED <<Written, now>>

\* Mutant: the first stat is left to the second one.
StatTarget_unchecked(w) ==
    /\ At(w, "stat")
    /\ Goto(w, "validate")
    /\ UNCHANGED <<Written, now>>

\* The first stat: refuse a name that exists.
StatTarget(w) ==
    /\ At(w, "stat")
    /\ IF call[w].name \in OnDisk THEN Return(w) ELSE Goto(w, "validate")
    /\ UNCHANGED <<Written, now>>

\* applyRemoteCanonUpdates got to a remote file it wants to write.
BeginPulledFile(w) ==
    /\ At(w, "idle")
    /\ \E d \in Draft, n \in Name :
          call' = [call EXCEPT ![w] = CallAt("validate", "pull", d, n, {}, 0)]
    /\ UNCHANGED <<Written, now>>

\* Any other caller of ensureScrollIndexUpToDate: retrieval, start-up, updates.
BeginEnsure(w) ==
    /\ At(w, "idle")
    /\ call' = [call EXCEPT ![w] = Refresh]
    /\ UNCHANGED <<Written, now>>

\* Mutant: only commits are validated.
Validate_commitsOnly(w) ==
    /\ At(w, "validate")
    /\ IF call[w].kind # "pull" /\ ~ValidAs(call[w].draft, call[w].name)
         THEN Return(w)
         ELSE \/ Goto(w, IF call[w].kind = "dry" THEN "collect" ELSE "stage")
              \/ call[w].kind # "pull" /\ Return(w)
    /\ UNCHANGED <<Written, now>>

\* A warning ends the call.  The review of a commit may report a conflict, which
\* ends it too unless the operator forces it.
Validate(w) ==
    /\ At(w, "validate")
    /\ IF ~ValidAs(call[w].draft, call[w].name)
         THEN Return(w)
         ELSE \/ Goto(w, IF call[w].kind = "dry" THEN "collect" ELSE "stage")
              \/ call[w].kind # "pull" /\ Return(w)
    /\ UNCHANGED <<Written, now>>

\* Mutant: timestamps leave their range.
StageFile_unbounded(w) ==
    /\ At(w, "stage")
    /\ now' = now + 1
    /\ Continue(w, IF call[w].kind = "pull" THEN "rename" ELSE "check", call[w].seen, now + 1)
    /\ UNCHANGED Written

\* Write the temporary file: its modification time is the scroll's.
StageFile(w) ==
    /\ At(w, "stage")
    /\ \E t \in Stamps :
          /\ now' = t
          /\ Continue(w, IF call[w].kind = "pull" THEN "rename" ELSE "check", call[w].seen, t)
    /\ UNCHANGED Written

\* The second stat of a commit, and its temporary file removed on a refusal.
CheckTarget(w) ==
    /\ At(w, "check")
    /\ IF call[w].name \in OnDisk THEN Return(w) ELSE Goto(w, "rename")
    /\ UNCHANGED <<Written, now>>

\* rename(2) replaces whatever the name holds.  The index passed the file over
\* when it was written between the temporary file and the rename.
RenameFile(w) ==
    /\ At(w, "rename")
    /\ text' = [text EXCEPT ![call[w].name] = call[w].draft]
    /\ mtime' = [mtime EXCEPT ![call[w].name] = call[w].stamp]
    /\ missed' = IF call[w].stamp > indexTime THEN missed \ {call[w].name}
                                             ELSE missed \union {call[w].name}
    /\ Goto(w, "collect")
    /\ UNCHANGED <<Index, now>>

\* Mutant: the index takes in the name of the call, written or not.
CollectScrolls_withTarget(w) ==
    /\ At(w, "collect")
    /\ Continue(w, "compare", OnDisk \union ({call[w].name} \intersect Name), call[w].stamp)
    /\ UNCHANGED <<Written, now>>

\* ensureScrollIndexUpToDate: list the scrolls ...
CollectScrolls(w) ==
    /\ At(w, "collect")
    /\ IF OnDisk = {}
         THEN Return(w)
         ELSE Continue(w, "compare", OnDisk, call[w].stamp)
    /\ UNCHANGED <<Written, now>>

\* Mutant: only a missing index is written.
CompareTimes_missingOnly(w) ==
    /\ At(w, "compare")
    /\ IF indexTime = 0 THEN Goto(w, "truncate") ELSE Return(w)
    /\ UNCHANGED <<Written, now>>

\* ... compare their modification times with the index's ...
CompareTimes(w) ==
    /\ At(w, "compare")
    /\ IF indexTime = 0 \/ \E n \in call[w].seen : mtime[n] > indexTime
         THEN Goto(w, "truncate")
         ELSE Return(w)
    /\ UNCHANGED <<Written, now>>

\* ... and write the entries of the scrolls listed at first: fs.writeFile opens
\* the index with its text dropped ...
TruncateIndex(w) ==
    /\ At(w, "truncate")
    /\ \E t \in Stamps : now' = t /\ indexTime' = t
    /\ indexed' = {} /\ extent' = {}
    /\ cut' = \E v \in Worker : At(v, "write")
    /\ Goto(w, "write")
    /\ UNCHANGED <<Files, missed>>

\* ... and writes from the beginning of the file.
WriteIndex(w) ==
    /\ At(w, "write")
    /\ \E t \in Stamps : now' = t /\ indexTime' = t
    /\ indexed' = call[w].seen
    /\ extent' = extent \union call[w].seen
    /\ missed' = OnDisk \ call[w].seen
    /\ Return(w)
    /\ UNCHANGED <<Files, cut>>

\* A file operation fails: the call throws, its temporary file removed.  What it
\* renamed before, a pull's earlier files too, then waits for another refresh.
Refreshing == {"collect", "compare", "truncate", "write"}
Throw(w) ==
    /\ ~At(w, "idle")
    /\ Return(w)
    /\ missed' = IF call[w].pc \in Refreshing THEN missed \union (OnDisk \ indexed) ELSE missed
    /\ cut' = (cut \/ At(w, "write"))
    /\ UNCHANGED <<Files, indexed, extent, indexTime, now>>

\* The process stops; the calls are gone, the files stay, an index truncated and
\* not written too.  The next start begins with a refresh of the index.
Restart == /\ \E w \in Worker :
                 call' = [v \in Worker |-> IF v = w THEN Refresh ELSE Idle]
           /\ cut' = (cut \/ \E w \in Worker : At(w, "write"))
           /\ UNCHANGED <<Files, indexed, extent, indexTime, now, missed>>

Step(w) == \/ StatTarget(w) \/ Validate(w) \/ StageFile(w) \/ CheckTarget(w)
           \/ RenameFile(w) \/ CollectScrolls(w) \/ CompareTimes(w)
           \/ TruncateIndex(w) \/ WriteIndex(w) \/ Throw(w)

Next == \/ \E w \in Worker : \/ BeginCommit(w) \/ BeginPulledFile(w) \/ BeginEnsure(w)
                             \/ Step(w)
        \/ Restart

Spec == Init /\ [][Next]_vars

----------------------------------------------------------------------------
TypeOK ==
    /\ text \in [Name -> Draft \union {NoDraft}]
    /\ mtime \in [Name -> Time]
    /\ indexed \subseteq Name /\ extent \subseteq Name /\ indexTime \in Time
    /\ call \in [Worker -> Call]
    /\ now \in Time /\ missed \subseteq Name /\ cut \in BOOLEAN

Writing == {"validate", "stage", "check", "rename"}

\* What a commit is about to write is never a scroll that was there when it read
\* the directory, and a number it draws is above every number it saw: the files
\* of earlier commits survive every interleaving (commit_scroll.ts:125-143, 254-262).
EarlierScrollsKept ==
    \A w \in Worker : call[w].kind = "commit" /\ call[w].pc \in Writing =>
        /\ call[w].name \notin call[w].seen
        /\ call[w].name[1] # 0 => \A n \in call[w].seen : n[1] < call[w].name[1]

\* Every scroll on disk is well formed and every scroll it refers to is on disk
\* too, although validation ran several awaits before the file was renamed and
\* other calls wrote in between (validator.ts:240-361, commit_scroll.ts:264-337).
PublishedValid == \A n \in OnDisk : ValidAs(text[n], n)

\* On a file system with fine timestamps, whenever no call is in progress, after
\* overlapping calls and stops too: a readable index lists every scroll on disk,
\* but those an index write passed over, which had walked before their rename or
\* came between their temporary file and their rename, and those of a failed
\* refresh; and the index is unreadable only when a write of it was stopped,
\* failed or met another (scroll_index.ts:89-95, 106-160, lifecycle.ts:24).
AtRest == \A w \in Worker : At(w, "idle")
IndexComplete ==
    FineClock /\ AtRest => IF Readable THEN OnDisk \ indexed \subseteq missed ELSE cut

\* A commit never replaces an existing scroll (commit_scroll.ts:217, 256: "refuses
\* to overwrite existing scroll").
CommitNeverOverwrites ==
    [][\A w \in Worker : RenameFile(w) /\ call[w].kind = "commit" => call[w].name \notin OnDisk]_vars

\* The lore directory seen without its calls, and the names a reader finds in its
\* index: it implements the abstract Canon.
Listing == IF Readable THEN indexed ELSE {}
Abstract == INSTANCE Canon WITH text <- text, indexed <- Listing
ImplementsCanon == Abstract!CSpec
=============================================================================
