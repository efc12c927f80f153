------------------------- MODULE CanonCommit_proofs -------------------------
(***************************************************************************)
(* Theorems about CanonCommit, for any number of concurrent calls.         *)
(*                                                                         *)
(* The argument: files only ever appear, so what a call found on disk is   *)
(* still there when it writes (DiskGrows), a draft that passed validation  *)
(* would pass it again, and with that every file on disk is valid and      *)
(* every name the index can list exists.  A scroll that a readable index   *)
(* lacks was passed over by the write of the index or is newer than it     *)
(* (Covered); the call that renamed a newer one, or the refresh at the     *)
(* next start, still has to compare the times and will find it, unless its *)
(* refresh failed (Awaited).                                               *)
(***************************************************************************)
EXTENDS CanonCommit, TLAPS

USE ConstantsAssumption DEF Name, Time

\* What a call relies on between its steps: it has a target; what it saw on disk
\* is still there; a draft about to be written is still valid; a commit's number
\* is above every number it saw; past its first stat its name is none it saw.
CallInv(w) ==
    /\ call[w].pc \in Writing \union {"stat"} => call[w].draft \in Draft /\ call[w].name \in Name
    /\ call[w].seen \subseteq OnDisk
    /\ call[w].pc \in {"stage", "check", "rename"} => ValidAs(call[w].draft, call[w].name)
    /\ call[w].kind = "commit" /\ call[w].pc \in Writing \union {"stat"} /\ call[w].name[1] # 0
         => \A n \in call[w].seen : n[1] < call[w].name[1]
    /\ call[w].kind = "commit" /\ call[w].pc \in Writing => call[w].name \notin call[w].seen

\* No timestamp is ahead of the clock, and none of a scroll is 0.
ClockInv ==
    /\ indexTime <= now
    /\ \A w \in Worker : call[w].pc \in {"check", "rename"} => call[w].stamp \in 1..now
    /\ \A n \in OnDisk : mtime[n] \in 1..now

\* Unless an index write was cut, at most one call is between the two halves of
\* one, and only then the index does not parse.
HasListed == {"compare", "truncate", "write"}
CutInv ==
    /\ \A w \in Worker : call[w].pc \in HasListed => call[w].seen # {}
    /\ ~cut => /\ \A v, w \in Worker : At(v, "write") /\ At(w, "write") => v = w
               /\ (\E w \in Worker : At(w, "write")) => indexed = {} /\ extent = {}
               /\ (\A w \in Worker : ~At(w, "write")) => Readable

\* A scroll the index lacks was passed over, or is newer than the index; then a
\* call that has yet to list the directory or has listed the scroll takes it in,
\* or a refresh of it failed.
TakesIn(w, n) == call[w].pc = "collect" \/ (call[w].pc \in HasListed /\ n \in call[w].seen)
Newer(n) == mtime[n] > indexTime
Covered == \A n \in OnDisk : n \in missed \/ n \in indexed \/ indexed = {} \/ Newer(n)
Awaited == \A n \in OnDisk :
    Newer(n) => n \in missed \/ n \in indexed \/ \E w \in Worker : TakesIn(w, n)
CoverInv == Covered /\ (FineClock => Awaited)

IInv == /\ TypeOK
        /\ \A w \in Worker : CallInv(w)
        /\ PublishedValid
        /\ indexed \subseteq OnDisk
        /\ ClockInv /\ CutInv /\ CoverInv

\* Files only appear: a step that leaves text alone leaves OnDisk alone, and a
\* rename adds one name.
LEMMA DiskGrows ==
    ASSUME TypeOK, \A w \in Worker : CallInv(w), [Next]_vars
    PROVE  OnDisk \subseteq OnDisk'
<1>1. ASSUME NEW w \in Worker, RenameFile(w)  PROVE OnDisk \subseteq OnDisk'
  BY <1>1 DEF OnDisk, RenameFile, TypeOK, CallInv, Writing, At
<1>2. text' = text => OnDisk \subseteq OnDisk'
  BY DEF OnDisk
<1>3. ASSUME NEW w \in Worker, ~RenameFile(w),
             BeginCommit(w) \/ BeginPulledFile(w) \/ BeginEnsure(w) \/ Step(w)
      PROVE  text' = text
  BY <1>3 DEF Step, Written, Files, BeginCommit, BeginPulledFile, BeginEnsure, StatTarget, Validate, StageFile,
     CheckTarget, CollectScrolls, CompareTimes, TruncateIndex, WriteIndex, Throw
<1>4. Restart \/ UNCHANGED vars => text' = text
  BY DEF Restart, vars, Files
<1>5. CASE Restart \/ UNCHANGED vars
  BY <1>2, <1>4, <1>5
<1>6. CASE \E w \in Worker : BeginCommit(w) \/ BeginPulledFile(w) \/ BeginEnsure(w) \/ Step(w)
  BY <1>1, <1>2, <1>3, <1>6
<1>7. QED
  BY <1>5, <1>6 DEF Next

\* What each way of moving a call on does to it.
LEMMA CallIsCall ==
    ASSUME NEW pc \in Stage, NEW kind \in {"commit", "dry", "pull", "ensure"},
           NEW d \in Draft \union {NoDraft}, NEW n \in Name \union {<<>>},
           NEW listed \in SUBSET Name, NEW t \in Time
    PROVE  CallAt(pc, kind, d, n, listed, t) \in Call
BY DEF CallAt, Call

LEMMA IdleIsCall == Idle \in Call /\ Refresh \in Call
<1>1. 0 \in Time /\ "idle" \in Stage /\ "collect" \in Stage
  BY DEF Stage
<1>2. <<>> \in Name \union {<<>>} /\ NoDraft \in Draft \union {NoDraft} /\ {} \in SUBSET Name
  OBVIOUS
<1>3. QED
  BY <1>1, <1>2, CallIsCall DEF Idle, Refresh

\* The invariant holds at the start.
LEMMA InitInv == Init => IInv
<1> SUFFICES ASSUME Init  PROVE IInv
  OBVIOUS
<1> DEFINE None == [n \in Name |-> NoDraft]
           Zero == [n \in Name |-> 0]
           Rest == [w \in Worker |-> Idle]
<1>a. /\ text = None /\ mtime = Zero /\ call = Rest
      /\ indexed = {} /\ extent = {} /\ indexTime = 0 /\ now = 0 /\ missed = {} /\ cut = FALSE
  BY Zenon DEF Init
<1>1. OnDisk = {} /\ \A w \in Worker : call[w] = Idle
  BY <1>a DEF OnDisk
<1>2. TypeOK
  <2>1. text \in [Name -> Draft \union {NoDraft}] /\ call \in [Worker -> Call]
    BY <1>a, IdleIsCall
  <2>2. mtime \in [Name -> Time] /\ indexTime \in Time /\ now \in Time
    BY <1>a
  <2>3. indexed \subseteq Name /\ extent \subseteq Name /\ missed \subseteq Name /\ cut \in BOOLEAN
    BY <1>a, Zenon
  <2>4. QED
    BY <2>1, <2>2, <2>3, Zenon DEF TypeOK
<1>3. \A w \in Worker : CallInv(w) /\ call[w].pc = "idle"
  <2> HIDE DEF None, Zero, Rest
  <2>0. Idle.pc = "idle" /\ Idle.kind = "ensure" /\ Idle.seen = {}
    BY Zenon DEF Idle, CallAt
  <2>1. \A w \in Worker : call[w].pc = "idle" /\ call[w].kind = "ensure" /\ call[w].seen = {}
    BY <1>1, <2>0
  <2>2. "idle" \notin Writing \union {"stat"} /\ "idle" \notin {"stage", "check", "rename"}
    BY DEF Writing
  <2>3. QED
    BY <2>1, <2>2 DEF CallInv
<1>4. PublishedValid /\ indexed \subseteq OnDisk
  BY <1>a, <1>1 DEF PublishedValid
<1>5. ClockInv /\ CutInv /\ CoverInv
  <2> HIDE DEF None, Zero, Rest
  <2>1. ClockInv
    BY <1>a, <1>1, <1>3 DEF ClockInv
  <2>2. CutInv
    BY <1>a, <1>3 DEF CutInv, HasListed, At, Readable
  <2>3. CoverInv
    BY <1>1 DEF CoverInv, Covered, Awaited
  <2>4. QED
    BY <2>1, <2>2, <2>3
<1>6. QED
  BY <1>2, <1>3, <1>4, <1>5 DEF IInv

LEMMA ContinueType ==
    ASSUME TypeOK, NEW w \in Worker, NEW pc \in Stage, NEW listed \in SUBSET Name,
           NEW t \in Time, Continue(w, pc, listed, t)
    PROVE  call' \in [Worker -> Call]
<1>1. call[w] \in Call
  BY DEF TypeOK
<1>2. CallAt(pc, call[w].kind, call[w].draft, call[w].name, listed, t) \in Call
  BY <1>1 DEF CallAt, Call
<1>3. QED
  BY <1>2 DEF Continue, TypeOK

LEMMA GotoType ==
    ASSUME TypeOK, NEW w \in Worker, NEW pc \in Stage, Goto(w, pc)
    PROVE  call' \in [Worker -> Call]
<1>1. call[w].seen \in SUBSET Name /\ call[w].stamp \in Time
  BY DEF TypeOK, Call
<1>2. QED
  BY <1>1, ContinueType DEF Goto

LEMMA ReturnType ==
    ASSUME TypeOK, NEW w \in Worker, Return(w)
    PROVE  call' \in [Worker -> Call]
BY IdleIsCall DEF Return, TypeOK

LEMMA TypeStep ==
    ASSUME TypeOK, \A w \in Worker : CallInv(w), [Next]_vars
    PROVE  TypeOK'
<1> USE GotoType, ReturnType DEF Written, Files, Index, OnDisk, Stage
<1>1. ASSUME NEW w \in Worker, BeginCommit(w)  PROVE TypeOK'
  <2>1. PICK d \in Draft, kind \in {"commit", "dry"}, t \in Title, num \in 0..MaxNumber :
           call' = [call EXCEPT ![w] = CallAt("stat", kind, d, <<num, t>>, OnDisk, 0)]
    BY <1>1 DEF BeginCommit
  <2>2. <<num, t>> \in Name /\ OnDisk \in SUBSET Name /\ 0 \in Time /\ "stat" \in Stage
    OBVIOUS
  <2>3. CallAt("stat", kind, d, <<num, t>>, OnDisk, 0) \in Call
    BY <2>2, CallIsCall
  <2>4. QED
    BY <1>1, <2>1, <2>3 DEF BeginCommit, TypeOK
<1>2. ASSUME NEW w \in Worker, BeginPulledFile(w)  PROVE TypeOK'
  <2>1. PICK d \in Draft, n \in Name :
           call' = [call EXCEPT ![w] = CallAt("validate", "pull", d, n, {}, 0)]
    BY <1>2 DEF BeginPulledFile
  <2>2. CallAt("validate", "pull", d, n, {}, 0) \in Call
    <3>1. {} \in SUBSET Name /\ 0 \in Time /\ "validate" \in Stage
      OBVIOUS
    <3>2. QED
      BY <3>1, CallIsCall
  <2>3. QED
    BY <1>2, <2>1, <2>2 DEF BeginPulledFile, TypeOK
<1>3. ASSUME NEW w \in Worker, BeginEnsure(w)  PROVE TypeOK'
  BY <1>3, IdleIsCall DEF BeginEnsure, TypeOK
<1>4. ASSUME NEW w \in Worker, StatTarget(w)  PROVE TypeOK'
  BY <1>4 DEF StatTarget, TypeOK
<1>5. ASSUME NEW w \in Worker, Validate(w)  PROVE TypeOK'
  BY <1>5 DEF Validate, TypeOK
<1>6. ASSUME NEW w \in Worker, StageFile(w)  PROVE TypeOK'
  <2>1. PICK t \in Stamps : now' = t /\ Continue(w, IF call[w].kind = "pull" THEN "rename" ELSE "check",
                                                call[w].seen, t)
    BY <1>6 DEF StageFile
  <2>2. t \in Time /\ call[w].seen \in SUBSET Name
    BY DEF Stamps, TypeOK, Call
  <2>3. call' \in [Worker -> Call]
    BY <2>1, <2>2, ContinueType
  <2>4. QED
    BY <1>6, <2>1, <2>2, <2>3 DEF StageFile, TypeOK
<1>7. ASSUME NEW w \in Worker, CheckTarget(w)  PROVE TypeOK'
  BY <1>7 DEF CheckTarget, TypeOK
<1>8. ASSUME NEW w \in Worker, RenameFile(w)  PROVE TypeOK'
  <2>1. call[w].draft \in Draft /\ call[w].name \in Name /\ call[w].stamp \in Time
    BY <1>8 DEF RenameFile, CallInv, Writing, At, TypeOK, Call
  <2>2. QED
    BY <1>8, <2>1 DEF RenameFile, TypeOK
<1>9. ASSUME NEW w \in Worker, CollectScrolls(w)  PROVE TypeOK'
  <2>1. Return(w) \/ Continue(w, "compare", OnDisk, call[w].stamp)
    BY <1>9 DEF CollectScrolls
  <2>2. OnDisk \in SUBSET Name /\ call[w].stamp \in Time
    BY DEF TypeOK, Call
  <2>3. call' \in [Worker -> Call]
    BY <2>1, <2>2, ContinueType
  <2>4. QED
    BY <1>9, <2>3 DEF CollectScrolls, TypeOK
<1>10. ASSUME NEW w \in Worker, CompareTimes(w)  PROVE TypeOK'
  BY <1>10 DEF CompareTimes, TypeOK
<1>11. ASSUME NEW w \in Worker, WriteIndex(w)  PROVE TypeOK'
  BY <1>11 DEF WriteIndex, Stamps, TypeOK, Call
<1>12. ASSUME NEW w \in Worker, TruncateIndex(w)  PROVE TypeOK'
  BY <1>12 DEF TruncateIndex, Stamps, TypeOK
<1>13. ASSUME NEW w \in Worker, Throw(w)  PROVE TypeOK'
  BY <1>13 DEF Throw, TypeOK
<1>14. ASSUME Restart  PROVE TypeOK'
  BY <1>14, IdleIsCall DEF Restart, TypeOK
<1>15. CASE UNCHANGED vars
  BY <1>15 DEF vars, TypeOK
<1>16. QED
  BY <1>1, <1>2, <1>3, <1>4, <1>5, <1>6, <1>7, <1>8, <1>9, <1>10, <1>11, <1>12, <1>13, <1>14, <1>15
     DEF Next, Step

\* A call that a step leaves alone keeps its part of the invariant: its text only
\* needs files to stay.
LEMMA OtherCall ==
    ASSUME NEW w \in Worker, CallInv(w), call'[w] = call[w], OnDisk \subseteq OnDisk'
    PROVE  CallInv(w)'
BY DEF CallInv, ValidAs

\* The step a worker makes keeps that worker's part of the invariant.
LEMMA OwnCall ==
    ASSUME TypeOK, NEW w \in Worker, CallInv(w), OnDisk \subseteq OnDisk',
           BeginCommit(w) \/ BeginPulledFile(w) \/ BeginEnsure(w) \/ Step(w)
    PROVE  CallInv(w)'
<1> USE DEF CallInv, CallAt, Idle, Refresh, Writing
<1>1. CASE BeginCommit(w)
  BY <1>1 DEF BeginCommit, IsNextNumber, TypeOK, OnDisk
<1>2. CASE BeginPulledFile(w)
  BY <1>2 DEF BeginPulledFile, TypeOK
<1>3. CASE BeginEnsure(w)
  BY <1>3 DEF BeginEnsure, TypeOK
<1>4. CASE StatTarget(w)
  BY <1>4 DEF StatTarget, At, Return, Goto, Continue, TypeOK
<1>5. CASE Validate(w)
  BY <1>5 DEF Validate, At, Return, Goto, Continue, TypeOK, ValidAs
<1>6. CASE StageFile(w)
  BY <1>6 DEF StageFile, At, Continue, TypeOK, ValidAs
<1>7. CASE CheckTarget(w)
  BY <1>7 DEF CheckTarget, At, Return, Goto, Continue, TypeOK, ValidAs
<1>8. CASE RenameFile(w)
  BY <1>8 DEF RenameFile, At, Goto, Continue, TypeOK
<1>9. CASE CollectScrolls(w)
  BY <1>9 DEF CollectScrolls, At, Return, Continue, TypeOK
<1>10. CASE CompareTimes(w)
  BY <1>10 DEF CompareTimes, At, Return, Goto, Continue, TypeOK
<1>11. CASE WriteIndex(w)
  BY <1>11 DEF WriteIndex, At, Return, TypeOK
<1>12. CASE TruncateIndex(w)
  BY <1>12 DEF TruncateIndex, At, Goto, Continue, TypeOK
<1>13. CASE Throw(w)
  BY <1>13 DEF Throw, Return, TypeOK
<1>14. QED
  BY <1>1, <1>2, <1>3, <1>4, <1>5, <1>6, <1>7, <1>8, <1>9, <1>10, <1>11, <1>12, <1>13 DEF Step

LEMMA CallsStep ==
    ASSUME TypeOK, \A w \in Worker : CallInv(w), [Next]_vars
    PROVE  (\A w \in Worker : CallInv(w))'
<1>1. OnDisk \subseteq OnDisk'
  BY DiskGrows
<1>2. ASSUME NEW w \in Worker,
             BeginCommit(w) \/ BeginPulledFile(w) \/ BeginEnsure(w) \/ Step(w)
      PROVE  \A v \in Worker : CallInv(v)'
  <2>1. CallInv(w)'
    BY <1>1, <1>2, OwnCall
  <2>2. \A v \in Worker \ {w} : call'[v] = call[v]
    BY <1>2 DEF TypeOK, Step, BeginCommit, BeginPulledFile, BeginEnsure, StatTarget, Validate, StageFile,
       CheckTarget, RenameFile, CollectScrolls, CompareTimes, TruncateIndex, WriteIndex, Throw, Goto, Continue,
       Return
  <2>3. QED
    BY <1>1, <2>1, <2>2, OtherCall
<1>3. ASSUME Restart  PROVE \A v \in Worker : CallInv(v)'
  BY <1>3 DEF Restart, CallInv, Idle, Refresh, CallAt, Writing
<1>4. ASSUME UNCHANGED vars  PROVE \A v \in Worker : CallInv(v)'
  BY <1>1, <1>4, OtherCall DEF vars
<1>5. QED
  BY <1>2, <1>3, <1>4 DEF Next

\* What is on disk changes in RenameFile only, and the text of the index in
\* TruncateIndex and WriteIndex only.
LEMMA OtherSteps ==
    ASSUME [Next]_vars
    PROVE  \/ \E w \in Worker : RenameFile(w)
           \/ \E w \in Worker : TruncateIndex(w) \/ WriteIndex(w)
           \/ UNCHANGED <<text, mtime, indexed, extent, indexTime>>
BY DEF Next, Step, vars, Written, Files, Index, BeginCommit, BeginPulledFile, BeginEnsure, StatTarget,
   Validate, StageFile, CheckTarget, CollectScrolls, CompareTimes, Throw, Restart

ValidText(n) == ValidAs(text[n], n)

\* A rename publishes a draft that is valid at that moment.
LEMMA RenamePublishes ==
    ASSUME TypeOK, NEW w \in Worker, CallInv(w), RenameFile(w)
    PROVE  /\ call[w].draft \in Draft /\ call[w].name \in Name
           /\ ValidAs(call[w].draft, call[w].name)
           /\ text' = [text EXCEPT ![call[w].name] = call[w].draft]
           /\ UNCHANGED <<indexed, extent, indexTime>>
BY DEF RenameFile, CallInv, Writing, At, Index

LEMMA StoreStep ==
    ASSUME IInv, [Next]_vars
    PROVE  PublishedValid' /\ indexed' \subseteq OnDisk'
<1> USE DEF IInv
<1>1. OnDisk \subseteq OnDisk'
  BY DiskGrows
<1>2. ASSUME NEW w \in Worker, RenameFile(w)  PROVE PublishedValid' /\ indexed' \subseteq OnDisk'
  <2>1. ASSUME NEW n \in OnDisk'  PROVE ValidText(n)'
    <3>1. CASE n = call[w].name
      BY <1>1, <1>2, <3>1, RenamePublishes DEF ValidText, ValidAs, TypeOK
    <3>2. CASE n # call[w].name
      <4>1. n \in OnDisk /\ text'[n] = text[n]
        BY <1>2, <2>1, <3>2, RenamePublishes DEF OnDisk, TypeOK
      <4>2. QED
        BY <1>1, <4>1 DEF PublishedValid, ValidText, ValidAs
    <3>3. QED
      BY <3>1, <3>2
  <2>2. indexed' \subseteq OnDisk'
    BY <1>1, <1>2, RenamePublishes
  <2>3. QED
    BY <2>1, <2>2 DEF PublishedValid, ValidText
<1>3. ASSUME NEW w \in Worker, TruncateIndex(w) \/ WriteIndex(w)
      PROVE  PublishedValid' /\ indexed' \subseteq OnDisk'
  BY <1>3 DEF TruncateIndex, WriteIndex, Files, CallInv, PublishedValid, ValidAs, OnDisk
<1>4. ASSUME UNCHANGED <<text, indexed>>  PROVE PublishedValid' /\ indexed' \subseteq OnDisk'
  BY <1>4 DEF PublishedValid, ValidAs, OnDisk
<1>5. QED
  BY <1>2, <1>3, <1>4, OtherSteps

----------------------------------------------------------------------------
Begin(w) == BeginCommit(w) \/ BeginPulledFile(w) \/ BeginEnsure(w)

\* A worker's step leaves the other calls alone.
LEMMA OthersStay ==
    ASSUME TypeOK, NEW w \in Worker, Begin(w) \/ Step(w)
    PROVE  \A v \in Worker \ {w} : call'[v] = call[v]
BY DEF TypeOK, Begin, Step, BeginCommit, BeginPulledFile, BeginEnsure, StatTarget, Validate, StageFile,
   CheckTarget, RenameFile, CollectScrolls, CompareTimes, TruncateIndex, WriteIndex, Throw, Goto, Continue,
   Return

\* A step that neither writes a file nor lists or compares anything: where it
\* leaves its call.
Aside(w) == Begin(w) \/ StatTarget(w) \/ Validate(w) \/ CheckTarget(w)

LEMMA AsideStep ==
    ASSUME TypeOK, NEW w \in Worker, Aside(w)
    PROVE  /\ UNCHANGED <<Written, now>>
           /\ call[w].pc \in {"idle", "stat", "validate", "check"}
           /\ call'[w].pc \in {"idle", "stat", "validate", "stage", "rename", "collect"}
           /\ call'[w].pc = "rename" => call[w].pc = "check" /\ call'[w].stamp = call[w].stamp
<1> USE DEF CallAt, Idle, Refresh, At
<1>1. CASE Begin(w)
  BY <1>1 DEF Begin, BeginCommit, BeginPulledFile, BeginEnsure, TypeOK
<1>2. CASE StatTarget(w)
  BY <1>2 DEF StatTarget, Goto, Continue, Return, TypeOK
<1>3. CASE Validate(w)
  BY <1>3 DEF Validate, Goto, Continue, Return, TypeOK
<1>4. CASE CheckTarget(w)
  BY <1>4 DEF CheckTarget, Goto, Continue, Return, TypeOK
<1>5. QED
  BY <1>1, <1>2, <1>3, <1>4 DEF Aside

\* What the remaining steps do to their call.
LEMMA StageStep ==
    ASSUME TypeOK, NEW w \in Worker, StageFile(w)
    PROVE  /\ At(w, "stage") /\ UNCHANGED Written
           /\ now' \in Stamps /\ call'[w].stamp = now' /\ call'[w].pc \in {"check", "rename"}
BY DEF StageFile, Continue, CallAt, TypeOK

LEMMA RenameStep ==
    ASSUME TypeOK, NEW w \in Worker, CallInv(w), RenameFile(w)
    PROVE  /\ At(w, "rename") /\ call'[w].pc = "collect" /\ call[w].name \in Name
           /\ text' = [text EXCEPT ![call[w].name] = call[w].draft]
           /\ mtime' = [mtime EXCEPT ![call[w].name] = call[w].stamp]
           /\ OnDisk' = OnDisk \union {call[w].name}
           /\ missed' = IF call[w].stamp > indexTime THEN missed \ {call[w].name}
                                                     ELSE missed \union {call[w].name}
           /\ UNCHANGED <<Index, now>>
<1>1. At(w, "rename") /\ call[w].name \in Name /\ call[w].draft \in Draft
  BY DEF RenameFile, CallInv, Writing, At
<1>2. text' = [text EXCEPT ![call[w].name] = call[w].draft] /\ call'[w].pc = "collect"
  BY DEF RenameFile, Goto, Continue, CallAt, TypeOK
<1>3. OnDisk' = OnDisk \union {call[w].name}
  BY <1>1, <1>2 DEF OnDisk, TypeOK
<1>4. QED
  BY <1>1, <1>2, <1>3 DEF RenameFile

LEMMA CollectStep ==
    ASSUME TypeOK, NEW w \in Worker, CollectScrolls(w)
    PROVE  /\ At(w, "collect") /\ UNCHANGED <<Written, now>>
           /\ \/ OnDisk = {} /\ call'[w].pc = "idle"
              \/ OnDisk # {} /\ call'[w].pc = "compare" /\ call'[w].seen = OnDisk
BY DEF CollectScrolls, Continue, Return, Idle, CallAt, TypeOK

LEMMA CompareStep ==
    ASSUME TypeOK, NEW w \in Worker, CompareTimes(w)
    PROVE  /\ At(w, "compare") /\ UNCHANGED <<Written, now>>
           /\ \/ call'[w].pc = "truncate" /\ call'[w].seen = call[w].seen
              \/ call'[w].pc = "idle" /\ \A n \in call[w].seen : ~Newer(n)
BY DEF CompareTimes, Goto, Continue, Return, Idle, CallAt, TypeOK, Newer

LEMMA TruncateStep ==
    ASSUME TypeOK, NEW w \in Worker, TruncateIndex(w)
    PROVE  /\ At(w, "truncate") /\ UNCHANGED <<Files, missed>>
           /\ now' \in Stamps /\ indexTime' = now' /\ indexed' = {} /\ extent' = {}
           /\ cut' = \E v \in Worker : At(v, "write")
           /\ call'[w].pc = "write" /\ call'[w].seen = call[w].seen
BY DEF TruncateIndex, Goto, Continue, CallAt, TypeOK

LEMMA WriteStep ==
    ASSUME TypeOK, NEW w \in Worker, WriteIndex(w)
    PROVE  /\ At(w, "write") /\ UNCHANGED <<Files, cut>>
           /\ now' \in Stamps /\ indexTime' = now'
           /\ indexed' = call[w].seen /\ extent' = extent \union call[w].seen
           /\ missed' = OnDisk \ call[w].seen /\ call'[w].pc = "idle"
BY DEF WriteIndex, Return, Idle, CallAt, TypeOK

LEMMA ThrowStep ==
    ASSUME TypeOK, NEW w \in Worker, Throw(w)
    PROVE  /\ UNCHANGED <<Files, indexed, extent, indexTime, now>> /\ call'[w].pc = "idle"
           /\ missed \subseteq missed'
           /\ call[w].pc \in Refreshing => OnDisk \ indexed \subseteq missed'
           /\ cut' = (cut \/ At(w, "write"))
BY DEF Throw, Return, Idle, CallAt, TypeOK

LEMMA RestartStep ==
    ASSUME Restart
    PROVE  /\ UNCHANGED <<Files, indexed, extent, indexTime, now, missed>>
           /\ cut' = (cut \/ \E w \in Worker : At(w, "write"))
           /\ \A v \in Worker : call'[v].pc \in {"idle", "collect"}
           /\ \E w \in Worker : call'[w].pc = "collect"
BY DEF Restart, Refresh, Idle, CallAt

LEMMA EveryStep ==
    ASSUME Next
    PROVE  \/ Restart
           \/ \E w \in Worker : Aside(w) \/ StageFile(w) \/ RenameFile(w) \/ CollectScrolls(w)
                                \/ CompareTimes(w) \/ TruncateIndex(w) \/ WriteIndex(w) \/ Throw(w)
BY DEF Next, Step, Begin, Aside

LEMMA SameDisk == ASSUME UNCHANGED text  PROVE OnDisk' = OnDisk
BY DEF OnDisk

LEMMA Steps == \A w \in Worker : Aside(w) \/ StageFile(w) \/ RenameFile(w) \/ CollectScrolls(w)
                   \/ CompareTimes(w) \/ TruncateIndex(w) \/ WriteIndex(w) \/ Throw(w) => Begin(w) \/ Step(w)
BY DEF Aside, Step

----------------------------------------------------------------------------
\* A timestamp is a moment at or after the latest one.
LEMMA StampIsLate ==
    ASSUME TypeOK, NEW t \in Stamps
    PROVE  /\ now \in Int /\ t \in Int /\ now <= t /\ 1 <= t /\ (FineClock => now < t)
BY DEF TypeOK, Stamps

LEMMA ClockStep ==
    ASSUME IInv, [Next]_vars
    PROVE  ClockInv'
<1>1. TypeOK /\ ClockInv /\ now \in Int /\ indexTime \in Int
      /\ \A w \in Worker : CallInv(w) /\ call[w].stamp \in Int
  BY DEF IInv, TypeOK, Call
<1> USE DEF Written, Files, Index, At, ClockInv
<1>2. ASSUME NEW w \in Worker, Aside(w)  PROVE ClockInv'
  <2>1. \A v \in Worker \ {w} : call'[v] = call[v]
    BY <1>1, <1>2, OthersStay, Steps
  <2>2. QED
    BY <1>1, <1>2, <2>1, AsideStep, SameDisk
<1>3. ASSUME NEW w \in Worker, StageFile(w)  PROVE ClockInv'
  <2>1. \A v \in Worker \ {w} : call'[v] = call[v]
    BY <1>1, <1>3, OthersStay, Steps
  <2>2. now' \in Int /\ now <= now' /\ 1 <= now' /\ OnDisk' = OnDisk
    BY <1>1, <1>3, StageStep, StampIsLate, SameDisk
  <2>3. \A v \in Worker : call'[v].pc \in {"check", "rename"} => call'[v].stamp \in 1..now'
    BY <1>1, <1>3, <2>1, <2>2, StageStep
  <2>4. indexTime' <= now' /\ \A n \in OnDisk' : mtime'[n] \in 1..now'
    BY <1>1, <1>3, <2>2, StageStep
  <2>5. QED
    BY <2>3, <2>4
<1>4. ASSUME NEW w \in Worker, RenameFile(w)  PROVE ClockInv'
  <2>1. \A v \in Worker \ {w} : call'[v] = call[v]
    BY <1>1, <1>4, OthersStay, Steps
  <2>2. \A n \in OnDisk' : mtime'[n] \in 1..now'
    BY <1>1, <1>4, RenameStep DEF TypeOK, OnDisk
  <2>3. QED
    BY <1>1, <1>4, <2>1, <2>2, RenameStep
<1>5. ASSUME NEW w \in Worker, CollectScrolls(w)  PROVE ClockInv'
  <2>1. \A v \in Worker \ {w} : call'[v] = call[v]
    BY <1>1, <1>5, OthersStay, Steps
  <2>2. QED
    BY <1>1, <1>5, <2>1, CollectStep, SameDisk
<1>6. ASSUME NEW w \in Worker, CompareTimes(w)  PROVE ClockInv'
  <2>1. \A v \in Worker \ {w} : call'[v] = call[v]
    BY <1>1, <1>6, OthersStay, Steps
  <2>2. QED
    BY <1>1, <1>6, <2>1, CompareStep, SameDisk
<1>7. ASSUME NEW w \in Worker, TruncateIndex(w) \/ WriteIndex(w)  PROVE ClockInv'
  <2>1. \A v \in Worker \ {w} : call'[v] = call[v]
    BY <1>1, <1>7, OthersStay, Steps
  <2>2. /\ now' \in Stamps /\ indexTime' = now' /\ UNCHANGED Files
        /\ call'[w].pc \notin {"check", "rename"}
    BY <1>1, <1>7, TruncateStep, WriteStep
  <2>3. now' \in Int /\ now <= now' /\ OnDisk' = OnDisk
    BY <1>1, <2>2, StampIsLate, SameDisk
  <2>4. QED
    BY <1>1, <2>1, <2>2, <2>3
<1>8. ASSUME NEW w \in Worker, Throw(w)  PROVE ClockInv'
  <2>1. \A v \in Worker \ {w} : call'[v] = call[v]
    BY <1>1, <1>8, OthersStay, Steps
  <2>2. QED
    BY <1>1, <1>8, <2>1, ThrowStep, SameDisk
<1>9. ASSUME Restart  PROVE ClockInv'
  BY <1>1, <1>9, RestartStep, SameDisk
<1>10. CASE UNCHANGED vars
  BY <1>1, <1>10, SameDisk DEF vars
<1>11. QED
  BY <1>2, <1>3, <1>4, <1>5, <1>6, <1>7, <1>8, <1>9, <1>10, EveryStep

LEMMA CutStep ==
    ASSUME IInv, [Next]_vars
    PROVE  CutInv'
<1>1. TypeOK /\ CutInv /\ \A w \in Worker : CallInv(w)
  BY DEF IInv
<1> USE DEF Written, Files, Index, At, CutInv, HasListed
<1>2. ASSUME UNCHANGED <<Index, missed>>, \A v \in Worker : At(v, "write")' <=> At(v, "write"),
             \A v \in Worker : call'[v].pc \in HasListed => call'[v].seen # {}
      PROVE  CutInv'
  BY <1>1, <1>2 DEF Readable
<1>3. ASSUME NEW w \in Worker, Aside(w) \/ StageFile(w) \/ CollectScrolls(w) \/ CompareTimes(w)
      PROVE  CutInv'
  <2>1. \A v \in Worker \ {w} : call'[v] = call[v]
    BY <1>1, <1>3, OthersStay, Steps
  <2>2. /\ UNCHANGED <<Index, missed>> /\ call[w].pc # "write" /\ call'[w].pc # "write"
        /\ call'[w].pc \in HasListed => call'[w].seen # {}
    BY <1>1, <1>3, AsideStep, StageStep, CollectStep, CompareStep
  <2>3. QED
    BY <1>1, <1>2, <2>1, <2>2
<1>4. ASSUME NEW w \in Worker, RenameFile(w)  PROVE CutInv'
  <2>1. \A v \in Worker \ {w} : call'[v] = call[v]
    BY <1>1, <1>4, OthersStay, Steps
  <2>2. UNCHANGED Index /\ call[w].pc = "rename" /\ call'[w].pc = "collect"
    BY <1>1, <1>4, RenameStep
  <2>3. QED
    BY <1>1, <2>1, <2>2 DEF Readable
<1>5. ASSUME NEW w \in Worker, TruncateIndex(w)  PROVE CutInv'
  <2>1. \A v \in Worker \ {w} : call'[v] = call[v]
    BY <1>1, <1>5, OthersStay, Steps
  <2>2. \A v \in Worker : call'[v].pc \in HasListed => call'[v].seen # {}
    BY <1>1, <1>5, <2>1, TruncateStep
  <2>3. call'[w].pc = "write" /\ indexed' = {} /\ extent' = {}
    BY <1>1, <1>5, TruncateStep
  <2>4. ASSUME ~cut'  PROVE \A v \in Worker \ {w} : call'[v].pc # "write"
    <3>1. ~\E v \in Worker : At(v, "write")
      BY <1>1, <1>5, <2>4, TruncateStep, Zenon
    <3>2. QED
      BY <2>1, <3>1
  <2>5. QED
    BY <2>2, <2>3, <2>4
<1>6. ASSUME NEW w \in Worker, WriteIndex(w)  PROVE CutInv'
  <2>1. \A v \in Worker \ {w} : call'[v] = call[v]
    BY <1>1, <1>6, OthersStay, Steps
  <2>2. \A v \in Worker : call'[v].pc \in HasListed => call'[v].seen # {}
    BY <1>1, <1>6, <2>1, WriteStep
  <2>3. ASSUME ~cut'  PROVE Readable' /\ \A v \in Worker : call'[v].pc # "write"
    <3>1. ~cut /\ call[w].pc = "write" /\ call'[w].pc = "idle"
      BY <1>1, <1>6, <2>3, WriteStep
    <3>2. extent = {} /\ \A v \in Worker \ {w} : call[v].pc # "write"
      BY <1>1, <3>1
    <3>3. indexed' = extent' /\ indexed' # {}
      BY <1>1, <1>6, <3>1, <3>2, WriteStep
    <3>4. QED
      BY <2>1, <3>1, <3>2, <3>3 DEF Readable
  <2>4. QED
    BY <2>2, <2>3
<1>7. ASSUME NEW w \in Worker, Throw(w)  PROVE CutInv'
  <2>1. \A v \in Worker \ {w} : call'[v] = call[v]
    BY <1>1, <1>7, OthersStay, Steps
  <2>2. /\ UNCHANGED <<indexed, extent, indexTime>> /\ call'[w].pc = "idle"
        /\ ~cut' => ~cut /\ call[w].pc # "write"
    BY <1>7, <1>1, ThrowStep
  <2>3. \A v \in Worker : call'[v].pc \in HasListed => call'[v].seen # {}
    BY <1>1, <2>1, <2>2
  <2>4. ~cut' => \A v \in Worker : call'[v].pc = "write" <=> call[v].pc = "write"
    BY <2>1, <2>2
  <2>5. QED
    BY <1>1, <2>2, <2>3, <2>4 DEF Readable
<1>8. ASSUME Restart  PROVE CutInv'
  <2>1. /\ UNCHANGED <<indexed, extent, indexTime>>
        /\ \A v \in Worker : call'[v].pc \notin HasListed
        /\ ~cut' => ~cut /\ \A v \in Worker : call[v].pc # "write"
    BY <1>8, RestartStep
  <2>2. QED
    BY <1>1, <2>1 DEF Readable
<1>9. CASE UNCHANGED vars
  BY <1>1, <1>2, <1>9 DEF vars
<1>10. QED
  BY <1>3, <1>4, <1>5, <1>6, <1>7, <1>8, <1>9, EveryStep

----------------------------------------------------------------------------
\* A scroll the index lacks was passed over, or is newer than the index.
LEMMA CoveredStep ==
    ASSUME IInv, [Next]_vars
    PROVE  Covered'
<1>1. TypeOK /\ Covered /\ \A w \in Worker : CallInv(w)
  BY DEF IInv, CoverInv
<1> USE DEF Written, Files, Index, Covered, Newer
<1>2. ASSUME UNCHANGED <<text, mtime, indexed, indexTime>>, missed \subseteq missed'  PROVE Covered'
  BY <1>1, <1>2, SameDisk
<1>3. ASSUME NEW w \in Worker, RenameFile(w)  PROVE Covered'
  <2>1. ASSUME NEW n \in OnDisk'
        PROVE  n \in missed' \/ n \in indexed' \/ indexed' = {} \/ mtime'[n] > indexTime'
    <3>1. CASE n = call[w].name
      BY <1>1, <1>3, <3>1, RenameStep DEF TypeOK
    <3>2. CASE n # call[w].name
      <4>1. n \in OnDisk /\ mtime'[n] = mtime[n] /\ (n \in missed => n \in missed')
            /\ indexed' = indexed /\ indexTime' = indexTime
        BY <1>1, <1>3, <2>1, <3>2, RenameStep DEF TypeOK, OnDisk
      <4>2. QED
        BY <1>1, <4>1
    <3>3. QED
      BY <3>1, <3>2
  <2>2. QED
    BY <2>1
<1>4. ASSUME NEW w \in Worker, TruncateIndex(w) \/ WriteIndex(w)  PROVE Covered'
  BY <1>1, <1>4, TruncateStep, WriteStep, SameDisk
<1>5. ASSUME NEW w \in Worker, Aside(w) \/ StageFile(w) \/ CollectScrolls(w) \/ CompareTimes(w)
      PROVE  Covered'
  BY <1>1, <1>2, <1>5, AsideStep, StageStep, CollectStep, CompareStep
<1>6. ASSUME NEW w \in Worker, Throw(w)  PROVE Covered'
  BY <1>1, <1>2, <1>6, ThrowStep
<1>7. CASE Restart \/ UNCHANGED vars
  BY <1>2, <1>7, RestartStep DEF vars
<1>8. QED
  BY <1>3, <1>4, <1>5, <1>6, <1>7, EveryStep

\* Some call takes in every scroll newer than the index, unless its refresh failed.
LEMMA AwaitedStep ==
    ASSUME IInv, [Next]_vars, FineClock
    PROVE  Awaited'
<1>1. /\ TypeOK /\ Awaited /\ ClockInv /\ now \in Int /\ indexTime \in Int
      /\ \A w \in Worker : CallInv(w)
  BY DEF IInv, CoverInv, TypeOK
<1> USE DEF Written, Files, Index, At, Awaited, Newer, TakesIn, HasListed
<1>2. ASSUME NEW w \in Worker, Aside(w) \/ StageFile(w)  PROVE Awaited'
  <2>1. \A v \in Worker \ {w} : call'[v] = call[v]
    BY <1>1, <1>2, OthersStay, Steps
  <2>2. UNCHANGED <<text, mtime, indexed, indexTime, missed>> /\ OnDisk' = OnDisk
    BY <1>1, <1>2, AsideStep, StageStep, SameDisk
  <2>3. \A n : ~TakesIn(w, n)
    BY <1>1, <1>2, AsideStep, StageStep
  <2>4. QED
    BY <1>1, <2>1, <2>2, <2>3
<1>3. ASSUME NEW w \in Worker, RenameFile(w)  PROVE Awaited'
  <2>1. \A n : TakesIn(w, n)'
    BY <1>1, <1>3, RenameStep
  <2>2. QED
    BY <2>1
<1>4. ASSUME NEW w \in Worker, CollectScrolls(w)  PROVE Awaited'
  <2>1. \A v \in Worker \ {w} : call'[v] = call[v]
    BY <1>1, <1>4, OthersStay, Steps
  <2>2. UNCHANGED <<text, mtime, indexed, indexTime, missed>> /\ OnDisk' = OnDisk
    BY <1>1, <1>4, CollectStep, SameDisk
  <2>3. \A n \in OnDisk' : TakesIn(w, n)'
    BY <1>1, <1>4, <2>2, CollectStep
  <2>4. QED
    BY <2>3
<1>5. ASSUME NEW w \in Worker, CompareTimes(w)  PROVE Awaited'
  <2>1. \A v \in Worker \ {w} : call'[v] = call[v]
    BY <1>1, <1>5, OthersStay, Steps
  <2>2. UNCHANGED <<text, mtime, indexed, indexTime, missed>> /\ OnDisk' = OnDisk
    BY <1>1, <1>5, CompareStep, SameDisk
  <2>3. \A n : Newer(n) /\ TakesIn(w, n) => TakesIn(w, n)'
    BY <1>1, <1>5, CompareStep
  <2>4. QED
    BY <1>1, <2>1, <2>2, <2>3
<1>6. ASSUME NEW w \in Worker, TruncateIndex(w) \/ WriteIndex(w)  PROVE Awaited'
  <2>1. now' \in Stamps /\ indexTime' = now' /\ UNCHANGED Files
    BY <1>1, <1>6, TruncateStep, WriteStep
  <2>2. now' \in Int /\ now < now' /\ OnDisk' = OnDisk
    BY <1>1, <2>1, StampIsLate, SameDisk
  <2>3. \A n \in OnDisk' : ~Newer(n)'
    BY <1>1, <2>1, <2>2 DEF ClockInv
  <2>4. QED
    BY <2>3
<1>7. ASSUME NEW w \in Worker, Throw(w)  PROVE Awaited'
  <2>1. \A v \in Worker \ {w} : call'[v] = call[v]
    BY <1>1, <1>7, OthersStay, Steps
  <2>2. UNCHANGED <<text, mtime, indexed, indexTime>> /\ OnDisk' = OnDisk /\ missed \subseteq missed'
    BY <1>1, <1>7, ThrowStep, SameDisk
  <2>3. CASE call[w].pc \in Refreshing
    BY <1>1, <1>7, <2>2, <2>3, ThrowStep
  <2>4. CASE call[w].pc \notin Refreshing
    <3>1. \A n : ~TakesIn(w, n)
      BY <2>4 DEF Refreshing
    <3>2. QED
      BY <1>1, <2>1, <2>2, <3>1
  <2>5. QED
    BY <2>3, <2>4
<1>8. ASSUME Restart  PROVE Awaited'
  BY <1>8, RestartStep
<1>9. CASE UNCHANGED vars
  BY <1>1, <1>9, SameDisk DEF vars
<1>10. QED
  BY <1>2, <1>3, <1>4, <1>5, <1>6, <1>7, <1>8, <1>9, EveryStep

\* IInv holds in every state.
THEOREM Invariance == Spec => []IInv
<1>1. IInv /\ [Next]_vars => IInv'
  BY TypeStep, CallsStep, StoreStep, ClockStep, CutStep, CoveredStep, AwaitedStep DEF IInv, CoverInv
<1>2. QED
  BY InitInv, <1>1, PTL DEF Spec

\* The types of the files, the index and the calls (TypeOK).
THEOREM TypeCorrect == Spec => []TypeOK
<1>1. IInv => TypeOK
  BY DEF IInv
<1>2. QED
  BY Invariance, <1>1, PTL

\* However many calls overlap, no commit is about to replace a scroll that was on
\* disk when it read the directory (EarlierScrollsKept).
THEOREM EarlierScrollsSafe == Spec => []EarlierScrollsKept
<1>1. IInv => EarlierScrollsKept
  BY DEF IInv, CallInv, EarlierScrollsKept, Writing
<1>2. QED
  BY Invariance, <1>1, PTL

\* However many calls overlap, every scroll on disk is well formed and refers to
\* scrolls on disk (PublishedValid).
THEOREM PublishedSafe == Spec => []PublishedValid
<1>1. IInv => PublishedValid
  BY DEF IInv
<1>2. QED
  BY Invariance, <1>1, PTL

\* With fine timestamps, at rest: a readable index lists every scroll it was not
\* written past and no failed refresh left out, however calls overlapped and
\* wherever they failed or the process stopped; and an unreadable one is what a
\* cut write left (IndexComplete).
THEOREM IndexSafe == Spec => []IndexComplete
<1>1. IInv => IndexComplete
  <2> SUFFICES ASSUME IInv, FineClock, AtRest
               PROVE  IF Readable THEN OnDisk \ indexed \subseteq missed ELSE cut
    BY DEF IndexComplete
  <2>1. \A w \in Worker : call[w].pc = "idle"
    BY DEF AtRest, At
  <2>2. cut \/ Readable
    BY <2>1 DEF IInv, CutInv, At
  <2>3. ASSUME Readable, NEW n \in OnDisk \ indexed  PROVE n \in missed
    <3>1. ~Newer(n) \/ n \in missed
      BY <2>1, <2>3 DEF IInv, CoverInv, Awaited, TakesIn, HasListed
    <3>2. indexed # {} \/ n \in missed
      <4>1. mtime[n] \in 1..now /\ now \in Int /\ indexTime \in Int
        BY <2>3 DEF IInv, ClockInv, TypeOK
      <4>2. QED
        BY <2>3, <3>1, <4>1 DEF Readable, Newer
    <3>3. QED
      BY <2>3, <3>1, <3>2 DEF IInv, CoverInv, Covered
  <2>4. QED
    BY <2>2, <2>3
<1>2. QED
  BY Invariance, <1>1, PTL

\* The calls together implement the abstract directory: a rename publishes, an
\* index write lists published scrolls, every other step changes neither.
THEOREM Implements == Spec => ImplementsCanon
<1>1. Init => Abstract!CInit
  BY DEF Init, Abstract!CInit, Listing
<1>2. IInv /\ [Next]_vars => [Abstract!CNext]_(Abstract!cvars)
  <2> SUFFICES ASSUME IInv, [Next]_vars  PROVE [Abstract!CNext]_(Abstract!cvars)
    OBVIOUS
  <2>1. ASSUME NEW w \in Worker, RenameFile(w)  PROVE Abstract!CNext
    <3>1. Abstract!Publish(call[w].name, call[w].draft)
      BY <2>1, RenamePublishes DEF IInv, Listing, Readable, Abstract!Publish, Abstract!ValidAs, Abstract!Published,
         ValidAs, OnDisk
    <3>2. QED
      BY <2>1, <3>1, RenamePublishes DEF IInv, Abstract!CNext
  <2>2. ASSUME NEW w \in Worker, TruncateIndex(w) \/ WriteIndex(w)  PROVE Abstract!CNext
    <3>1. indexed' \subseteq OnDisk /\ OnDisk \subseteq Name /\ text' = text
      BY <2>2, TruncateStep, WriteStep DEF IInv, CallInv, OnDisk, Files
    <3>2. Listing' \subseteq OnDisk
      BY <3>1 DEF Listing
    <3>3. Abstract!Reindex(Listing') /\ Listing' \in SUBSET Name
      BY <3>1, <3>2 DEF OnDisk, Abstract!Reindex, Abstract!Published
    <3>4. QED
      BY <3>3 DEF Abstract!CNext
  <2>3. ASSUME UNCHANGED <<text, mtime, indexed, extent, indexTime>>
        PROVE  UNCHANGED Abstract!cvars
    BY <2>3 DEF Abstract!cvars, Listing, Readable
  <2>4. QED
    BY <2>1, <2>2, <2>3, OtherSteps
<1>3. QED
  BY Invariance, <1>1, <1>2, PTL DEF Spec, ImplementsCanon, Abstract!CSpec
=============================================================================
