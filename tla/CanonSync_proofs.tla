-------------------------- MODULE CanonSync_proofs --------------------------
(***************************************************************************)
(* Theorems about CanonSync, for any number of nodes, pulls, files, edits  *)
(* and crashes.                                                            *)
(*                                                                         *)
(* The argument for PulledIsValid: a pull that is about to write holds a   *)
(* body that was valid when it was examined (CallInv); but for those that  *)
(* people may delete, files only appear (FilesStay), so it is valid still. *)
(* For PeerStatusTruthful: an entry that does not say "syncing" hides only  *)
(* overtaken pulls and keeps an error only after a failed one (StatusInv). *)
(***************************************************************************)
EXTENDS CanonSync, TLAPS

USE SyncAssumption DEF Path, Time

\* A pull about to write is at a file and holds a body that passed validation.
CallInv(c) ==
    LET b == call[c].contents[call[c].at]
    IN  call[c].pc = "write" =>
           /\ call[c].at \in Path
           /\ b \in WellFormed
           /\ AnchorsOf[b] \subseteq Present(lore[call[c].node]) \union {call[c].at} \union Deletable

\* What the registry says of the pulls of node n from the peer with key k.
StatusInv ==
    \A n \in Node, k \in Key :
        IF peers[n][k].status = "syncing"
          THEN From(n, k) # {}
          ELSE /\ From(n, k) \subseteq overtaken
               /\ peers[n][k].failed <=> peers[n][k].status = "error"

IInv == TypeOK /\ (\A c \in Pull : CallInv(c)) /\ PulledIsValid

----------------------------------------------------------------------------
\* Types.
LEMMA EmptyTypes == Nothing \in Snapshot /\ NoContents \in [Path -> Body \union {NoBody}]
BY DEF Nothing, Snapshot, NoFile, File, NoContents

LEMMA CallIsCall ==
    ASSUME NEW pc \in Stage, NEW n \in Node, NEW k \in Key, NEW remote \in Snapshot,
           NEW local \in Snapshot, NEW contents \in [Path -> Body \union {NoBody}],
           NEW at \in 1..NPath + 1
    PROVE  CallAt(pc, n, k, remote, local, contents, at) \in Call
BY DEF CallAt, Call

LEMMA IdleIsCall == Idle \in Call /\ Idle.pc = "idle"
<1>1. (CHOOSE n \in Node : TRUE) \in Node
  OBVIOUS
<1>2. \A n \in Node : <<n, "id">> \in Key
  BY DEF Key
<1>3. "idle" \in Stage /\ 1 \in 1..NPath + 1
  BY DEF Stage
<1>4. Idle \in Call
  BY <1>1, <1>2, <1>3, EmptyTypes, CallIsCall DEF Idle
<1>5. QED
  BY <1>4 DEF Idle, CallAt

LEMMA CallFields ==
    ASSUME TypeOK, NEW c \in Pull
    PROVE  /\ call[c] \in Call
           /\ call[c].pc \in Stage /\ call[c].node \in Node /\ call[c].key \in Key
           /\ call[c].remote \in Snapshot /\ call[c].local \in Snapshot
           /\ call[c].contents \in [Path -> Body \union {NoBody}]
           /\ call[c].at \in 1..NPath + 1
           /\ Target(c) \in Node
BY DEF TypeOK, Call, Key, Target

LEMMA GotoType ==
    ASSUME TypeOK, NEW c \in Pull, NEW pc \in Stage, Goto(c, pc)
    PROVE  call' \in [Pull -> Call]
<1>1. CallAt(pc, call[c].node, call[c].key, call[c].remote, call[c].local,
             call[c].contents, call[c].at) \in Call
  BY CallFields, CallIsCall
<1>2. QED
  BY <1>1 DEF Goto, TypeOK

LEMMA NextFileType ==
    ASSUME TypeOK, NEW c \in Pull, call[c].at \in Path, NextFile(c)
    PROVE  call' \in [Pull -> Call]
<1>1. call[c].at + 1 \in 1..NPath + 1 /\ "apply" \in Stage
  BY DEF Stage
<1>2. CallAt("apply", call[c].node, call[c].key, call[c].remote, call[c].local,
             call[c].contents, call[c].at + 1) \in Call
  BY <1>1, CallFields, CallIsCall
<1>3. QED
  BY <1>2 DEF NextFile, TypeOK

LEMMA EndType ==
    ASSUME TypeOK, NEW c \in Pull, End(c)
    PROVE  call' \in [Pull -> Call]
BY IdleIsCall DEF End, TypeOK

LEMMA RegisterType ==
    ASSUME TypeOK, NEW n \in Node, NEW k \in Key, RegisterPeer(n, k)
    PROVE  peers' \in [Node -> [Key -> Peer]]
<1>1. peers[n][k] \in Peer
  BY DEF TypeOK
<1>2. Registered(peers[n][k]) \in Peer
  BY <1>1 DEF Registered, Peer, Status
<1>3. QED
  BY <1>2 DEF RegisterPeer, TypeOK

LEMMA MarkType ==
    ASSUME TypeOK, NEW n \in Node, NEW k \in Key, NEW status \in Status, MarkStatus(n, k, status)
    PROVE  peers' \in [Node -> [Key -> Peer]]
<1>1. peers[n][k].failed \in BOOLEAN
  BY DEF TypeOK, Peer
<1>2. [status |-> status,
       failed |-> status = "error" \/ (status = "syncing" /\ peers[n][k].failed)] \in Peer
  BY <1>1 DEF Peer
<1>3. QED
  BY <1>2 DEF MarkStatus, TypeOK

LEMMA WriteType ==
    ASSUME TypeOK, NEW n \in Node, NEW p \in Path, NEW b \in Body, NEW writer,
           WriteTo(n, p, b, writer)
    PROVE  lore' \in [Node -> Snapshot] /\ quiet' \subseteq Pull
<1>1. PICK t \in Time : lore' = [lore EXCEPT ![n][p] = [body |-> b, mtime |-> t]]
  BY DEF WriteTo
<1>2. [body |-> b, mtime |-> t] \in File
  BY DEF File
<1>3. lore' \in [Node -> Snapshot]
  BY <1>1, <1>2 DEF TypeOK, Snapshot
<1>4. QED
  BY <1>3 DEF WriteTo, Disturb, TypeOK

LEMMA InitInv == Init => IInv /\ StatusInv
<1> SUFFICES ASSUME Init  PROVE IInv /\ StatusInv
  OBVIOUS
<1>1. TypeOK
  BY EmptyTypes, IdleIsCall DEF Init, TypeOK, Unknown, Peer, Status
<1>2. \A c \in Pull : CallInv(c)
  BY IdleIsCall DEF Init, CallInv
<1>3. PulledIsValid /\ StatusInv
  BY IdleIsCall DEF Init, PulledIsValid, StatusInv, From, At, Unknown
<1>4. QED
  BY <1>1, <1>2, <1>3 DEF IInv

LEMMA TypeStep ==
    ASSUME IInv, [Next]_vars
    PROVE  TypeOK'
<1> USE DEF IInv
<1> USE GotoType, EndType, CallFields DEF Stage, Status
<1>1. ASSUME NEW n \in Node, Edit(n)  PROVE TypeOK'
  <2>1. PICK p \in Path, b \in Body : WriteTo(n, p, b, "hand") /\ pulled' = pulled \ {<<n, p>>}
    BY <1>1 DEF Edit
  <2>2. QED
    BY <1>1, <2>1, WriteType DEF Edit, TypeOK
<1>2. ASSUME NEW n \in Node, Delete(n)  PROVE TypeOK'
  <2>1. NoFile \in File
    BY DEF NoFile, File
  <2>2. PICK p \in Present(lore[n]) : /\ lore' = [lore EXCEPT ![n][p] = NoFile]
                                     /\ pulled' = pulled \ {<<n, p>>}
    BY <1>2 DEF Delete
  <2>3. lore' \in [Node -> Snapshot]
    BY <2>1, <2>2 DEF TypeOK, Snapshot, Present
  <2>4. QED
    BY <1>2, <2>2, <2>3 DEF Delete, Disturb, TypeOK
<1>3. ASSUME NEW n \in Node, AnnouncePeer(n)  PROVE TypeOK'
  <2>1. PICK m \in Node \ {n} : RegisterPeer(n, <<m, "id">>)
    BY <1>3 DEF AnnouncePeer
  <2>2. peers' \in [Node -> [Key -> Peer]]
    BY <2>1, RegisterType DEF Key
  <2>3. QED
    BY <1>3, <2>2 DEF AnnouncePeer, TypeOK
<1>4. ASSUME NEW n \in Node, Crash(n)  PROVE TypeOK'
  <2>1. Unknown \in Peer
    BY DEF Unknown, Peer
  <2>2. QED
    BY <1>4, <2>1, IdleIsCall DEF Crash, TypeOK
<1>5. ASSUME NEW c \in Pull, StartPull(c)  PROVE TypeOK'
  <2>1. PICK n \in Node, k \in Key : /\ MarkStatus(n, k, "syncing")
                                     /\ call' = [call EXCEPT ![c] =
                                          CallAt("announce", n, k, Nothing, Nothing, NoContents, 1)]
    BY <1>5 DEF StartPull
  <2>2. 1 \in 1..NPath + 1
    OBVIOUS
  <2>3. CallAt("announce", n, k, Nothing, Nothing, NoContents, 1) \in Call
    BY <2>2, EmptyTypes, CallIsCall
  <2>4. peers' \in [Node -> [Key -> Peer]]
    BY <2>1, MarkType
  <2>5. QED
    BY <1>5, <2>1, <2>3, <2>4 DEF StartPull, TypeOK
<1>6. ASSUME NEW c \in Pull, AnnounceSelf(c)  PROVE TypeOK'
  <2>1. peers' \in [Node -> [Key -> Peer]]
    BY <1>6, RegisterType DEF AnnounceSelf, Key, TypeOK
  <2>2. QED
    BY <1>6, <2>1 DEF AnnounceSelf, TypeOK
<1>7. ASSUME NEW c \in Pull, FetchMetadata(c)  PROVE TypeOK'
  <2>1. lore[Target(c)] \in Snapshot /\ 1 \in 1..NPath + 1
    BY DEF TypeOK
  <2>2. CallAt("snapshot", call[c].node, call[c].key, lore[Target(c)], Nothing, NoContents, 1) \in Call
    BY <2>1, EmptyTypes, CallIsCall
  <2>3. QED
    BY <1>7, <2>2 DEF FetchMetadata, TypeOK
<1>8. ASSUME NEW c \in Pull, SnapshotLocal(c)  PROVE TypeOK'
  <2>1. Mine(c) \in Snapshot /\ 1 \in 1..NPath + 1
    BY DEF TypeOK, Mine
  <2>2. CallAt("contents", call[c].node, call[c].key, call[c].remote, Mine(c), NoContents, 1) \in Call
    BY <2>1, EmptyTypes, CallIsCall
  <2>3. QED
    BY <1>8, <2>2 DEF SnapshotLocal, TypeOK
<1>9. ASSUME NEW c \in Pull, FetchContents(c)  PROVE TypeOK'
  <2> DEFINE fetched == [p \in Path |-> IF p \in Needed(c) THEN lore[Target(c)][p].body ELSE NoBody]
  <2>1. lore[Target(c)] \in Snapshot /\ 1 \in 1..NPath + 1
    BY DEF TypeOK
  <2>2. fetched \in [Path -> Body \union {NoBody}]
    BY <2>1 DEF Snapshot, File
  <2> HIDE DEF fetched
  <2>3. CallAt("apply", call[c].node, call[c].key, call[c].remote, call[c].local, fetched, 1) \in Call
    BY <2>1, <2>2, CallIsCall
  <2>4. call' \in [Pull -> Call]
    BY <1>9, <2>3 DEF FetchContents, TypeOK, fetched
  <2>5. QED
    BY <1>9, <2>4 DEF FetchContents, TypeOK
<1>10. ASSUME NEW c \in Pull, ExamineFile(c)  PROVE TypeOK'
  BY <1>10, NextFileType DEF ExamineFile, TypeOK
<1>11. ASSUME NEW c \in Pull, WriteFile(c)  PROVE TypeOK'
  <2>1. call[c].at \in Path /\ call[c].contents[call[c].at] \in Body
    BY <1>11 DEF WriteFile, At, CallInv
  <2>2. lore' \in [Node -> Snapshot] /\ quiet' \subseteq Pull
    BY <1>11, <2>1, WriteType DEF WriteFile
  <2>3. call' \in [Pull -> Call]
    BY <1>11, <2>1, NextFileType DEF WriteFile
  <2>4. QED
    BY <1>11, <2>1, <2>2, <2>3 DEF WriteFile, TypeOK
<1>12. ASSUME NEW c \in Pull, FinishPull(c) \/ FailPull(c)  PROVE TypeOK'
  <2>1. peers' \in [Node -> [Key -> Peer]]
    BY <1>12, MarkType DEF FinishPull, FailPull
  <2>2. quiet' \subseteq Pull /\ overtaken' \subseteq Pull
    BY <1>12 DEF FinishPull, FailPull, End, From, TypeOK
  <2>3. QED
    BY <1>12, <2>1, <2>2 DEF FinishPull, FailPull, TypeOK
<1>13. CASE UNCHANGED vars
  BY <1>13 DEF vars, TypeOK
<1>14. QED
  BY <1>1, <1>2, <1>3, <1>4, <1>5, <1>6, <1>7, <1>8, <1>9, <1>10, <1>11, <1>12, <1>13 DEF Next, Step

----------------------------------------------------------------------------
\* Files stay, but for those that people may delete.

\* A write leaves every other file alone.
LEMMA WriteEffect ==
    ASSUME TypeOK, NEW n \in Node, NEW p \in Path, NEW b \in Body, NEW writer,
           WriteTo(n, p, b, writer)
    PROVE  /\ \A m \in Node, q \in Path : <<m, q>> # <<n, p>> => lore'[m][q] = lore[m][q]
           /\ lore'[n][p].body = b
<1>1. PICK t \in Time : lore' = [lore EXCEPT ![n][p] = [body |-> b, mtime |-> t]]
  BY DEF WriteTo
<1>2. QED
  BY <1>1 DEF TypeOK, Snapshot

\* The files change in Edit, Delete and WriteFile only.
LEMMA WritingSteps ==
    ASSUME [Next]_vars
    PROVE  \/ \E n \in Node : Edit(n) \/ Delete(n)
           \/ \E c \in Pull : WriteFile(c)
           \/ UNCHANGED <<lore, pulled>>
BY DEF Next, Step, vars, AnnouncePeer, Crash, StartPull, AnnounceSelf, FetchMetadata, SnapshotLocal,
   FetchContents, ExamineFile, FinishPull, FailPull

LEMMA WriteFileEffect ==
    ASSUME IInv, NEW c \in Pull, WriteFile(c)
    PROVE  /\ call[c].node \in Node /\ call[c].at \in Path
           /\ call[c].contents[call[c].at] \in WellFormed
           /\ WriteTo(call[c].node, call[c].at, call[c].contents[call[c].at], c)
           /\ pulled' = pulled \union {<<call[c].node, call[c].at>>}
BY CallFields DEF IInv, WriteFile, At, CallInv

LEMMA FilesStay ==
    ASSUME IInv, [Next]_vars
    PROVE  \A n \in Node : Present(lore[n]) \ Deletable \subseteq Present(lore'[n])
<1> USE DEF IInv, Present, Exists
<1>1. ASSUME NEW n \in Node, Edit(n)
      PROVE  \A m \in Node : Present(lore[m]) \ Deletable \subseteq Present(lore'[m])
  BY <1>1, WriteEffect DEF Edit
<1>2. ASSUME NEW c \in Pull, WriteFile(c)
      PROVE  \A m \in Node : Present(lore[m]) \ Deletable \subseteq Present(lore'[m])
  BY <1>2, WriteFileEffect, WriteEffect
<1>3. ASSUME NEW n \in Node, Delete(n)
      PROVE  \A m \in Node : Present(lore[m]) \ Deletable \subseteq Present(lore'[m])
  BY <1>3 DEF Delete, TypeOK, Snapshot
<1>4. QED
  BY <1>1, <1>2, <1>3, WritingSteps

LEMMA PulledStep ==
    ASSUME IInv, [Next]_vars
    PROVE  PulledIsValid'
<1> USE DEF IInv
<1> SUFFICES ASSUME NEW n \in Node, NEW p \in Path, <<n, p>> \in pulled'
             PROVE  /\ lore'[n][p].body \in WellFormed
                    /\ AnchorsOf[lore'[n][p].body] \subseteq Present(lore'[n]) \union Deletable
  BY DEF PulledIsValid, Present, Exists
<1>1. ASSUME lore'[n][p] = lore[n][p], <<n, p>> \in pulled
      PROVE  /\ lore'[n][p].body \in WellFormed
             /\ AnchorsOf[lore'[n][p].body] \subseteq Present(lore'[n]) \union Deletable
  BY <1>1, FilesStay DEF PulledIsValid
<1>2. ASSUME NEW m \in Node, Edit(m)  PROVE lore'[n][p] = lore[n][p] /\ <<n, p>> \in pulled
  <2>1. PICK q \in Path, b \in Body : WriteTo(m, q, b, "hand") /\ pulled' = pulled \ {<<m, q>>}
    BY <1>2 DEF Edit
  <2>2. QED
    BY <2>1, WriteEffect
<1>3. ASSUME NEW m \in Node, Delete(m)  PROVE lore'[n][p] = lore[n][p] /\ <<n, p>> \in pulled
  <2>1. PICK q \in Present(lore[m]) : /\ lore' = [lore EXCEPT ![m][q] = NoFile]
                                     /\ pulled' = pulled \ {<<m, q>>}
    BY <1>3 DEF Delete
  <2>2. QED
    BY <2>1 DEF TypeOK, Snapshot, Present
<1>4. ASSUME NEW c \in Pull, WriteFile(c), <<n, p>> = <<call[c].node, call[c].at>>
      PROVE  /\ lore'[n][p].body \in WellFormed
             /\ AnchorsOf[lore'[n][p].body] \subseteq Present(lore'[n]) \union Deletable
  <2> DEFINE b == call[c].contents[call[c].at]
  <2>1. lore'[n][p].body = b /\ b \in WellFormed /\ b \in Body
    BY <1>4, WriteFileEffect, WriteEffect
  <2>2. p \in Present(lore'[n])
    BY <2>1 DEF Present, Exists
  <2>3. AnchorsOf[b] \subseteq Present(lore[n]) \union {p} \union Deletable
    BY <1>4 DEF CallInv, WriteFile, At
  <2>4. QED
    BY <2>1, <2>2, <2>3, FilesStay
<1>5. ASSUME NEW c \in Pull, WriteFile(c), <<n, p>> # <<call[c].node, call[c].at>>
      PROVE  lore'[n][p] = lore[n][p] /\ <<n, p>> \in pulled
  BY <1>5, WriteFileEffect, WriteEffect
<1>6. QED
  BY <1>1, <1>2, <1>3, <1>4, <1>5, WritingSteps

----------------------------------------------------------------------------
\* The pulls.

\* A pull that a step does not move only needs the files to stay.
LEMMA OtherCall ==
    ASSUME IInv, [Next]_vars, NEW c \in Pull, call'[c] = call[c]
    PROVE  CallInv(c)'
BY FilesStay, CallFields DEF IInv, CallInv

\* A step of a pull other than the write itself leads to "write" from ExamineFile
\* only, right after the validation.
LEMMA OwnCall ==
    ASSUME IInv, [Next]_vars, NEW c \in Pull, StartPull(c) \/ Step(c)
    PROVE  CallInv(c)'
<1> USE DEF CallAt
<1>1. CASE ExamineFile(c)
  <2>1. CASE call' = [call EXCEPT ![c] = CallAt("write", call[c].node, call[c].key, call[c].remote,
                          call[c].local, call[c].contents, call[c].at)] /\ ValidHere(c)
    BY <1>1, <2>1, FilesStay, CallFields DEF IInv, ExamineFile, ValidHere, CallInv, Mine, TypeOK
  <2>2. CASE NextFile(c)
    BY <2>2 DEF NextFile, CallInv, IInv, TypeOK
  <2>3. QED
    BY <1>1, <2>1, <2>2 DEF ExamineFile, Goto
<1>2. CASE ~ExamineFile(c)
  <2>1. call'[c].pc # "write"
    BY <1>2, IdleIsCall DEF IInv, TypeOK, StartPull, Step, AnnounceSelf, FetchMetadata, SnapshotLocal,
       FetchContents, WriteFile, FinishPull, FailPull, Goto, NextFile, End
  <2>2. QED
    BY <2>1 DEF CallInv
<1>3. QED
  BY <1>1, <1>2

LEMMA CallsStep ==
    ASSUME IInv, [Next]_vars
    PROVE  (\A c \in Pull : CallInv(c))'
<1> SUFFICES ASSUME NEW d \in Pull  PROVE CallInv(d)'
  OBVIOUS
<1>1. ASSUME NEW c \in Pull, StartPull(c) \/ Step(c)  PROVE CallInv(d)'
  <2>1. CASE d = c
    BY <1>1, <2>1, OwnCall
  <2>2. CASE d # c
    <3>1. call'[d] = call[d]
      BY <1>1, <2>2 DEF IInv, TypeOK, StartPull, Step, AnnounceSelf, FetchMetadata, SnapshotLocal,
         FetchContents, ExamineFile, WriteFile, FinishPull, FailPull, Goto, NextFile, End
    <3>2. QED
      BY <3>1, OtherCall
  <2>3. QED
    BY <2>1, <2>2
<1>2. ASSUME NEW n \in Node, Crash(n)  PROVE CallInv(d)'
  <2>1. call'[d] = call[d] \/ call'[d] = Idle
    BY <1>2 DEF Crash
  <2>2. CASE call'[d] = call[d]
    BY <2>2, OtherCall
  <2>3. CASE call'[d] = Idle
    BY <2>3, IdleIsCall DEF CallInv
  <2>4. QED
    BY <2>1, <2>2, <2>3
<1>3. ASSUME call' = call  PROVE CallInv(d)'
  BY <1>3, OtherCall
<1>4. QED
  BY <1>1, <1>2, <1>3 DEF Next, vars, Edit, Delete, AnnouncePeer

----------------------------------------------------------------------------
\* The registry.
LEMMA RegisterEffect ==
    ASSUME TypeOK, NEW n \in Node, NEW k \in Key, RegisterPeer(n, k)
    PROVE  \A m \in Node, j \in Key :
              /\ peers'[m][j].failed = peers[m][j].failed
              /\ \/ peers'[m][j].status = peers[m][j].status
                 \/ peers[m][j].status = "none" /\ peers'[m][j].status = "idle"
BY DEF RegisterPeer, Registered, TypeOK, Peer

LEMMA MarkEffect ==
    ASSUME TypeOK, NEW n \in Node, NEW k \in Key, NEW status \in Status, MarkStatus(n, k, status)
    PROVE  /\ \A m \in Node, j \in Key : <<m, j>> # <<n, k>> => peers'[m][j] = peers[m][j]
           /\ peers'[n][k].status = status
           /\ status = "error" => peers'[n][k].failed
           /\ status = "ok" => ~peers'[n][k].failed
BY DEF MarkStatus, TypeOK, Peer

\* A pull's steps but the first and the last keep it where it is.
LEMMA OnTheWay ==
    ASSUME TypeOK, NEW c \in Pull, AnnounceSelf(c) \/ FetchMetadata(c) \/ SnapshotLocal(c)
                                   \/ FetchContents(c) \/ ExamineFile(c) \/ WriteFile(c)
    PROVE  overtaken' = overtaken /\ \A n \in Node, k \in Key : From(n, k)' = From(n, k)
<1>1. /\ call[c].pc # "idle" /\ call'[c].pc # "idle"
      /\ call'[c].node = call[c].node /\ call'[c].key = call[c].key
  BY DEF TypeOK, AnnounceSelf, FetchMetadata, SnapshotLocal, FetchContents, ExamineFile,
     WriteFile, Goto, NextFile, CallAt, At
<1>2. \A d \in Pull \ {c} : call'[d] = call[d]
  BY DEF TypeOK, AnnounceSelf, FetchMetadata, SnapshotLocal, FetchContents, ExamineFile,
     WriteFile, Goto, NextFile
<1>3. overtaken' = overtaken
  BY DEF AnnounceSelf, FetchMetadata, SnapshotLocal, FetchContents, ExamineFile, WriteFile
<1>4. QED
  BY <1>1, <1>2, <1>3 DEF From, At

LEMMA StatusStep ==
    ASSUME IInv, StatusInv, [Next]_vars
    PROVE  StatusInv'
<1> USE CallFields DEF IInv, Status
<1> DEFINE Says(n, k) ==
             IF peers[n][k].status = "syncing"
               THEN From(n, k) # {}
               ELSE /\ From(n, k) \subseteq overtaken
                    /\ peers[n][k].failed <=> peers[n][k].status = "error"
<1>1. SUFFICES ASSUME NEW n \in Node, NEW k \in Key  PROVE Says(n, k)'
  BY <1>1 DEF StatusInv
<1>2. Says(n, k)
  BY DEF StatusInv
<1>3. ASSUME From(n, k)' = From(n, k), overtaken' = overtaken,
             \/ peers' = peers
             \/ \E m \in Node, j \in Key : RegisterPeer(m, j)
      PROVE  Says(n, k)'
  <2>1. /\ peers'[n][k].failed = peers[n][k].failed
        /\ \/ peers'[n][k].status = peers[n][k].status
           \/ peers[n][k].status = "none" /\ peers'[n][k].status = "idle"
    BY <1>3, RegisterEffect
  <2>2. QED
    BY <1>2, <1>3, <2>1
<1>4. ASSUME NEW c \in Pull, AnnounceSelf(c) \/ FetchMetadata(c) \/ SnapshotLocal(c)
                             \/ FetchContents(c) \/ ExamineFile(c) \/ WriteFile(c)
      PROVE  Says(n, k)'
  <2>1. peers' = peers \/ \E m \in Node, j \in Key : RegisterPeer(m, j)
    BY <1>4 DEF AnnounceSelf, FetchMetadata, SnapshotLocal, FetchContents, ExamineFile, WriteFile, Key
  <2>2. QED
    BY <1>3, <1>4, <2>1, OnTheWay
<1>5. ASSUME NEW c \in Pull, StartPull(c)  PROVE Says(n, k)'
  <2>1. PICK m \in Node, j \in Key : /\ MarkStatus(m, j, "syncing")
                                     /\ call' = [call EXCEPT ![c] =
                                          CallAt("announce", m, j, Nothing, Nothing, NoContents, 1)]
    BY <1>5 DEF StartPull
  <2>2. call[c].pc = "idle" /\ overtaken' = overtaken
    BY <1>5 DEF StartPull, At
  <2>3. /\ call'[c].pc = "announce" /\ call'[c].node = m /\ call'[c].key = j
        /\ \A d \in Pull \ {c} : call'[d] = call[d]
    BY <2>1 DEF CallAt, TypeOK
  <2>4. CASE <<n, k>> = <<m, j>>
    <3>1. c \in From(n, k)' /\ peers'[n][k].status = "syncing"
      BY <2>1, <2>3, <2>4, MarkEffect DEF From, At
    <3>2. QED
      BY <3>1
  <2>5. CASE <<n, k>> # <<m, j>>
    <3>1. From(n, k)' = From(n, k) /\ peers'[n][k] = peers[n][k]
      BY <2>1, <2>2, <2>3, <2>5, MarkEffect DEF From, At
    <3>2. QED
      BY <1>2, <2>2, <3>1
  <2>6. QED
    BY <2>4, <2>5
<1>6. ASSUME NEW c \in Pull, FinishPull(c) \/ FailPull(c)  PROVE Says(n, k)'
  <2>1. PICK status \in {"ok", "error"} : MarkStatus(call[c].node, call[c].key, status)
    BY <1>6 DEF FinishPull, FailPull
  <2>2. /\ call'[c].pc = "idle" /\ \A d \in Pull \ {c} : call'[d] = call[d]
        /\ overtaken' = (overtaken \union From(call[c].node, call[c].key)) \ {c}
    BY <1>6, IdleIsCall DEF FinishPull, FailPull, End, TypeOK
  <2>3. From(n, k)' = From(n, k) \ {c}
    BY <2>2 DEF From, At
  <2>4. CASE <<n, k>> = <<call[c].node, call[c].key>>
    <3>1. peers'[n][k].status = status /\ (peers'[n][k].failed <=> status = "error")
      BY <2>1, <2>4, MarkEffect
    <3>2. QED
      BY <2>2, <2>3, <2>4, <3>1
  <2>5. CASE <<n, k>> # <<call[c].node, call[c].key>>
    <3>1. c \notin From(n, k) /\ peers'[n][k] = peers[n][k]
      BY <2>1, <2>5, MarkEffect DEF From
    <3>2. QED
      BY <1>2, <2>2, <2>3, <3>1
  <2>6. QED
    BY <2>4, <2>5
<1>7. ASSUME NEW m \in Node, Crash(m)  PROVE Says(n, k)'
  <2>1. CASE n = m
    <3>1. From(n, k)' = {} /\ peers'[n][k] = Unknown
      BY <1>7, <2>1, IdleIsCall DEF Crash, From, At, TypeOK
    <3>2. QED
      BY <3>1 DEF Unknown
  <2>2. CASE n # m
    <3>1. From(n, k)' = From(n, k) /\ peers'[n][k] = peers[n][k]
      BY <1>7, <2>2, IdleIsCall DEF Crash, From, At, TypeOK
    <3>2. overtaken' = {c \in overtaken : call[c].node # m} /\ \A c \in From(n, k) : call[c].node = n
      BY <1>7 DEF Crash, From
    <3>3. QED
      BY <1>2, <2>2, <3>1, <3>2
  <2>3. QED
    BY <2>1, <2>2
<1>8. ASSUME NEW m \in Node, Edit(m) \/ Delete(m) \/ AnnouncePeer(m)  PROVE Says(n, k)'
  <2>1. call' = call /\ overtaken' = overtaken
        /\ (peers' = peers \/ \E i \in Node, j \in Key : RegisterPeer(i, j))
    BY <1>8 DEF Edit, Delete, AnnouncePeer, Key
  <2>2. QED
    BY <1>3, <2>1 DEF From, At
<1>9. CASE UNCHANGED vars
  BY <1>3, <1>9 DEF vars, From, At
<1>10. QED
  BY <1>4, <1>5, <1>6, <1>7, <1>8, <1>9 DEF Next, Step

----------------------------------------------------------------------------
\* IInv and StatusInv hold in every state.
THEOREM Invariance == Spec => [](IInv /\ StatusInv)
<1>1. IInv /\ StatusInv /\ [Next]_vars => (IInv /\ StatusInv)'
  <2>1. IInv /\ [Next]_vars => IInv'
    BY TypeStep, CallsStep, PulledStep DEF IInv
  <2>2. QED
    BY <2>1, StatusStep
<1>2. QED
  BY InitInv, <1>1, PTL DEF Spec

\* The types of files, registries and pulls (TypeOK).
THEOREM TypeCorrect == Spec => []TypeOK
<1>1. IInv => TypeOK
  BY DEF IInv
<1>2. QED
  BY Invariance, <1>1, PTL

\* An invalid scroll never spreads, whatever the peers, the clocks and the people do
\* during a pull (PulledIsValid).
THEOREM PulledSafe == Spec => []PulledIsValid
<1>1. IInv => PulledIsValid
  BY DEF IInv
<1>2. QED
  BY Invariance, <1>1, PTL

\* However pulls from one peer overlap, the registry says "syncing" only while one
\* is in progress, hides none but overtaken ones, and keeps an error exactly after
\* a failed one (PeerStatusTruthful).
THEOREM PeersTruthful == Spec => []PeerStatusTruthful
<1>1. StatusInv => PeerStatusTruthful
  BY DEF StatusInv, PeerStatusTruthful
<1>2. QED
  BY Invariance, <1>1, PTL

----------------------------------------------------------------------------
(* QuietPullComplete.  While nobody else writes, what a pull read is what is in the *)
(* files: remote the peer's, local its own from the file under examination on.  The *)
(* files before that are done.                                                      *)

Newer(mine, theirs) == theirs.body # NoBody /\ (mine.body = NoBody \/ mine.mtime < theirs.mtime)

\* The file p after its turn.  A pull removes no file, so what was valid at the start
\* is valid when its turn comes.
Wanted(k, p) == /\ Newer(k.local[p], k.remote[p])
                /\ k.remote[p].body \in WellFormed
                /\ AnchorsOf[k.remote[p].body] \subseteq Present(k.local) \union {p}
Done(k, mine, p) ==
    /\ Wanted(k, p) => mine[p].body = k.remote[p].body
    /\ ~Newer(k.local[p], k.remote[p]) => mine[p] = k.local[p]
    /\ Exists(k.local, p) => Exists(mine, p)

Left(k) == LET mine == k.local[k.at]  theirs == k.remote[k.at]
           IN  \/ theirs.body \in {NoBody, mine.body}
               \/ mine.body # NoBody /\ mine.mtime >= theirs.mtime
               \/ k.contents[k.at] = NoBody

\* The pull k between the files of its node and of its peer.
QuietCall(k, mine, theirs) ==
    /\ k.key[1] # k.node
    /\ k.pc \in {"snapshot", "contents", "apply", "write"} => k.remote = theirs
    /\ k.pc = "contents" => k.local = mine /\ k.at = 1
    /\ k.pc \in {"apply", "write"} => \A p \in Path :
          /\ k.remote[p].body \notin {NoBody, k.local[p].body} => k.contents[p] = k.remote[p].body
          /\ p < k.at => Done(k, mine, p)
          /\ p >= k.at => mine[p] = k.local[p]
    /\ k.pc = "write" => k.at \in Path /\ ~Left(k)
Quiet == \A c \in quiet : QuietCall(call[c], lore[call[c].node], lore[Target(c)])

LEMMA CallAtFields ==
    ASSUME NEW pc, NEW n, NEW k, NEW remote, NEW local, NEW contents, NEW at, NEW next,
           next = CallAt(pc, n, k, remote, local, contents, at)
    PROVE  /\ next.pc = pc /\ next.node = n /\ next.key = k /\ next.remote = remote
           /\ next.local = local /\ next.contents = contents /\ next.at = at
BY DEF CallAt

\* Done and Left look at nothing but what the pull read.
LEMMA SameReads ==
    ASSUME NEW k, NEW next, next.remote = k.remote, next.local = k.local,
           next.contents = k.contents, NEW mine
    PROVE  /\ \A p \in Path : Done(next, mine, p) <=> Done(k, mine, p)
           /\ next.at = k.at => (Left(next) <=> Left(k))
BY DEF Done, Wanted, Left

\* Two ways for a file to be done: it was replaced, or it is as it was for a reason.
LEMMA DoneReplaced ==
    ASSUME NEW k, NEW mine, NEW p, Newer(k.local[p], k.remote[p]),
           mine[p].body = k.remote[p].body, Exists(mine, p)
    PROVE  Done(k, mine, p)
BY Zenon DEF Done

LEMMA DoneKept ==
    ASSUME NEW k, NEW mine, NEW p, mine[p] = k.local[p],
           Wanted(k, p) => k.local[p].body = k.remote[p].body
    PROVE  Done(k, mine, p)
<1>1. Exists(k.local, p) => Exists(mine, p)
  BY Zenon DEF Exists
<1>2. QED
  BY <1>1, Zenon DEF Done

\* The turn of a file that is left alone or not valid here.
LEMMA QuietSkip ==
    ASSUME NEW k \in Call, NEW mine \in Snapshot, NEW theirs \in Snapshot,
           QuietCall(k, mine, theirs), k.pc = "apply", k.at \in Path,
           \/ Left(k)
           \/ k.contents[k.at] \notin WellFormed
           \/ ~(AnchorsOf[k.contents[k.at]] \subseteq Present(mine) \union {k.at}),
           NEW next, next.pc = "apply", next.node = k.node, next.key = k.key,
           next.remote = k.remote, next.local = k.local, next.contents = k.contents,
           next.at = k.at + 1
    PROVE  QuietCall(next, mine, theirs)
<1> DEFINE at == k.at  local == k.local  remote == k.remote
<1>1. /\ at \in Path /\ at \in Nat /\ mine[at] = local[at] /\ k.key[1] # k.node /\ remote = theirs
      /\ remote[at].body \notin {NoBody, local[at].body} => k.contents[at] = remote[at].body
      /\ local[at].mtime \in Nat /\ remote[at].mtime \in Nat
  BY DEF QuietCall, Call, Snapshot, File
<1>2. Present(local) \subseteq Present(mine)
  <2> SUFFICES ASSUME NEW p \in Path, Exists(local, p) PROVE Exists(mine, p)
    BY DEF Present
  <2>1. p < at => Exists(mine, p)
    BY DEF QuietCall, Done
  <2>2. p >= at => Exists(mine, p)
    BY DEF QuietCall, Exists
  <2>3. QED
    BY <1>1, <2>1, <2>2
<1>3. Done(k, mine, at)
  <2>1. ASSUME Wanted(k, at), local[at].body # remote[at].body
        PROVE  FALSE
    <3>1. k.contents[at] = remote[at].body /\ remote[at].body # NoBody
      BY <1>1, <2>1 DEF Wanted, Newer
    <3>2. ~Left(k)
      BY <1>1, <2>1, <3>1 DEF Left, Wanted, Newer
    <3>3. QED
      BY <1>2, <2>1, <3>1, <3>2 DEF Wanted
  <2>2. mine[at] = local[at]
    BY <1>1
  <2>3. QED
    BY <2>1, <2>2, DoneKept, Zenon
<1>4. ASSUME NEW p \in Path
      PROVE  /\ next.remote[p].body \notin {NoBody, next.local[p].body}
                  => next.contents[p] = next.remote[p].body
             /\ p < next.at => Done(next, mine, p)
             /\ p >= next.at => mine[p] = next.local[p]
  <2>1. /\ remote[p].body \notin {NoBody, local[p].body} => k.contents[p] = remote[p].body
        /\ p < at => Done(k, mine, p)
        /\ p >= at => mine[p] = local[p]
    BY DEF QuietCall
  <2>2. (p < next.at => p < at \/ p = at) /\ (p >= next.at => p >= at)
    BY <1>1
  <2>3. Done(next, mine, p) <=> Done(k, mine, p)
    BY SameReads
  <2>4. QED
    BY <1>3, <2>1, <2>2, <2>3
<1>5. QED
  BY <1>1, <1>4 DEF QuietCall

\* A file that is to be replaced.
LEMMA QuietTake ==
    ASSUME NEW k \in Call, NEW mine, NEW theirs, QuietCall(k, mine, theirs), k.pc = "apply",
           k.at \in Path, ~Left(k),
           NEW next, next.pc = "write", next.node = k.node, next.key = k.key,
           next.remote = k.remote, next.local = k.local, next.contents = k.contents,
           next.at = k.at
    PROVE  QuietCall(next, mine, theirs)
<1>1. ~Left(next) /\ \A p \in Path : Done(next, mine, p) <=> Done(k, mine, p)
  BY SameReads
<1>2. QED
  BY <1>1 DEF QuietCall

\* It is replaced.
LEMMA QuietWrite ==
    ASSUME NEW k \in Call, NEW mine \in Snapshot, NEW theirs \in Snapshot,
           QuietCall(k, mine, theirs), k.pc = "write",
           NEW t, NEW after, after = [mine EXCEPT ![k.at] = [body |-> k.contents[k.at], mtime |-> t]],
           NEW next, next.pc = "apply", next.node = k.node, next.key = k.key,
           next.remote = k.remote, next.local = k.local, next.contents = k.contents,
           next.at = k.at + 1
    PROVE  QuietCall(next, after, theirs)
<1> DEFINE at == k.at  local == k.local  remote == k.remote
<1>1. /\ at \in Path /\ at \in Nat /\ ~Left(k) /\ k.key[1] # k.node /\ remote = theirs
      /\ remote[at].body \notin {NoBody, local[at].body} => k.contents[at] = remote[at].body
      /\ local[at].mtime \in Nat /\ remote[at].mtime \in Nat
  BY DEF QuietCall, Call, Snapshot, File
<1>2. /\ after[at].body = k.contents[at]
      /\ \A p \in Path : p # at => after[p] = mine[p]
  BY <1>1 DEF Snapshot
<1>3. k.contents[at] = remote[at].body /\ remote[at].body # NoBody /\ Newer(local[at], remote[at])
  BY <1>1 DEF Left, Newer
<1>4. Done(k, after, at)
  <2>1. after[at].body = remote[at].body /\ Exists(after, at)
    BY <1>2, <1>3 DEF Exists
  <2>2. QED
    BY <1>3, <2>1, DoneReplaced, Zenon
<1>5. ASSUME NEW p \in Path
      PROVE  /\ next.remote[p].body \notin {NoBody, next.local[p].body}
                  => next.contents[p] = next.remote[p].body
             /\ p < next.at => Done(next, after, p)
             /\ p >= next.at => after[p] = next.local[p]
  <2>1. /\ remote[p].body \notin {NoBody, local[p].body} => k.contents[p] = remote[p].body
        /\ p < at => Done(k, mine, p)
        /\ p >= at => mine[p] = local[p]
    BY DEF QuietCall
  <2>2. (p < next.at => p < at \/ p = at) /\ (p >= next.at => p >= at /\ p # at)
    BY <1>1
  <2>3. p # at => (Done(k, after, p) <=> Done(k, mine, p))
    BY <1>2 DEF Done, Exists
  <2>4. Done(next, after, p) <=> Done(k, after, p)
    BY SameReads
  <2>5. p < next.at => Done(next, after, p)
    BY <1>1, <1>4, <2>1, <2>2, <2>3, <2>4
  <2>6. p >= next.at => after[p] = next.local[p]
    BY <1>2, <2>1, <2>2
  <2>7. QED
    BY <2>1, <2>5, <2>6
<1>6. QED
  BY <1>1, <1>5 DEF QuietCall

\* A pull that does not move, while its node and its peer keep their files.
LEMMA QuietStays ==
    ASSUME Quiet, NEW d \in quiet, call'[d] = call[d],
           lore'[call[d].node] = lore[call[d].node], lore'[Target(d)] = lore[Target(d)]
    PROVE  QuietCall(call[d], lore[call[d].node], lore[Target(d)])'
<1>1. QuietCall(call[d], lore[call[d].node], lore[Target(d)])
  BY DEF Quiet
<1>2. QED
  BY <1>1 DEF Target

\* A write of another disturbs a pull, or leaves its node and its peer alone.
LEMMA QuietOthers ==
    ASSUME IInv, Quiet, NEW n \in Node, NEW writer, Disturb(n, writer),
           \A m \in Node : m # n => lore'[m] = lore[m],
           NEW d \in quiet', d # writer, call'[d] = call[d]
    PROVE  QuietCall(call[d], lore[call[d].node], lore[Target(d)])'
<1>1. d \in quiet /\ call[d].node # n /\ Target(d) # n
  BY DEF Disturb
<1>2. d \in Pull
  BY <1>1 DEF IInv, TypeOK
<1>3. call[d].node \in Node /\ Target(d) \in Node
  BY <1>2, CallFields DEF IInv
<1>4. QED
  BY <1>1, <1>3, QuietStays

LEMMA OneNodeWritten ==
    ASSUME TypeOK, NEW n \in Node, NEW p \in Path, NEW file, lore' = [lore EXCEPT ![n][p] = file]
    PROVE  \A m \in Node : m # n => lore'[m] = lore[m]
BY DEF TypeOK

\* What a step of the pull d makes of it.
LEMMA QuietOwn ==
    ASSUME IInv, Quiet, NEW d \in Pull, StartPull(d) \/ Step(d), d \in quiet'
    PROVE  QuietCall(call[d], lore[call[d].node], lore[Target(d)])'
<1>1. TypeOK /\ call \in [Pull -> Call] /\ lore \in [Node -> Snapshot] /\ call[d] \in Call
  BY DEF IInv, TypeOK
<1>2. /\ call[d].node \in Node /\ Target(d) \in Node /\ call[d].at \in 1..NPath + 1
      /\ lore[call[d].node] \in Snapshot /\ lore[Target(d)] \in Snapshot
  BY <1>1, CallFields
<1>3. d \in quiet => QuietCall(call[d], lore[call[d].node], lore[Target(d)])
  BY DEF Quiet
<1>4. CASE StartPull(d)
  <2>1. PICK n \in Node, k \in Key :
          /\ k[1] # n
          /\ call' = [call EXCEPT ![d] = CallAt("announce", n, k, Nothing, Nothing, NoContents, 1)]
    BY <1>4 DEF StartPull
  <2>2. call'[d] = CallAt("announce", n, k, Nothing, Nothing, NoContents, 1)
    BY <1>1, <2>1
  <2>3. call'[d].pc = "announce" /\ call'[d].node = n /\ call'[d].key = k
    BY <2>2, CallAtFields
  <2>4. QED
    BY <2>1, <2>3 DEF QuietCall
<1>5. CASE AnnounceSelf(d)
  <2>1. d \in quiet /\ lore' = lore
    BY <1>5 DEF AnnounceSelf
  <2>2. call'[d] = CallAt("metadata", call[d].node, call[d].key, call[d].remote, call[d].local,
                          call[d].contents, call[d].at)
    BY <1>1, <1>5 DEF AnnounceSelf, Goto
  <2>3. call'[d].pc = "metadata" /\ call'[d].node = call[d].node /\ call'[d].key = call[d].key
    BY <2>2, CallAtFields
  <2>4. QED
    BY <1>3, <2>1, <2>3 DEF QuietCall
<1>6. CASE FetchMetadata(d)
  <2>1. d \in quiet /\ lore' = lore
    BY <1>6 DEF FetchMetadata
  <2>2. call'[d] = CallAt("snapshot", call[d].node, call[d].key, lore[Target(d)], Nothing, NoContents, 1)
    BY <1>1, <1>6 DEF FetchMetadata
  <2>3. /\ call'[d].pc = "snapshot" /\ call'[d].node = call[d].node /\ call'[d].key = call[d].key
        /\ call'[d].remote = lore[Target(d)]
    BY <2>2, CallAtFields
  <2>4. QED
    BY <1>3, <2>1, <2>3 DEF QuietCall, Target
<1>7. CASE SnapshotLocal(d)
  <2>1. d \in quiet /\ lore' = lore /\ call[d].pc = "snapshot"
    BY <1>7 DEF SnapshotLocal, At
  <2>2. call'[d] = CallAt("contents", call[d].node, call[d].key, call[d].remote, lore[call[d].node],
                          NoContents, 1)
    BY <1>1, <1>7 DEF SnapshotLocal, Mine
  <2>3. /\ call'[d].pc = "contents" /\ call'[d].node = call[d].node /\ call'[d].key = call[d].key
        /\ call'[d].remote = call[d].remote /\ call'[d].local = lore[call[d].node] /\ call'[d].at = 1
    BY <2>2, CallAtFields
  <2>4. QED
    BY <1>3, <2>1, <2>3 DEF QuietCall, Target
<1>8. CASE FetchContents(d)
  <2> DEFINE contents == [p \in Path |-> IF p \in Needed(d) THEN lore[Target(d)][p].body ELSE NoBody]
  <2>1. d \in quiet /\ lore' = lore /\ call[d].pc = "contents"
    BY <1>8 DEF FetchContents, At
  <2>2. call'[d] = CallAt("apply", call[d].node, call[d].key, call[d].remote, call[d].local, contents, 1)
    BY <1>1, <1>8 DEF FetchContents
  <2>3. \A p \in Path : call[d].remote[p].body \notin {NoBody, call[d].local[p].body}
                          => contents[p] = lore[Target(d)][p].body
    BY DEF Needed, Present, Exists
  <2> HIDE DEF contents
  <2>4. /\ call'[d].pc = "apply" /\ call'[d].node = call[d].node /\ call'[d].key = call[d].key
        /\ call'[d].remote = call[d].remote /\ call'[d].local = call[d].local
        /\ call'[d].contents = contents /\ call'[d].at = 1
    BY <2>2, CallAtFields
  <2>5. /\ call[d].remote = lore[Target(d)] /\ call[d].local = lore[call[d].node]
        /\ call[d].key[1] # call[d].node
    BY <1>3, <2>1 DEF QuietCall
  <2>6. \A p \in Path : ~(p < 1)
    OBVIOUS
  <2>7. PICK next, mine, theirs : /\ next = call'[d] /\ mine = lore[call[d].node]
                                  /\ theirs = lore[Target(d)]
    OBVIOUS
  <2>8. /\ next.pc = "apply" /\ next.key[1] # next.node /\ next.remote = theirs
        /\ next.local = mine /\ next.at = 1
    BY <2>4, <2>5, <2>7
  <2>9. \A p \in Path : next.remote[p].body \notin {NoBody, next.local[p].body}
                          => next.contents[p] = next.remote[p].body
    <3>1. next.remote = call[d].remote /\ next.local = call[d].local /\ next.contents = contents
      BY <2>4, <2>7
    <3>2. \A p \in Path : call[d].remote[p].body \notin {NoBody, call[d].local[p].body}
                            => contents[p] = call[d].remote[p].body
      BY <2>3, <2>5
    <3>3. QED
      BY <3>1, <3>2
  <2>10. QuietCall(next, mine, theirs)
    BY <2>6, <2>8, <2>9 DEF QuietCall
  <2>11. QED
    BY <2>1, <2>4, <2>7, <2>10 DEF Target
<1>9. CASE ExamineFile(d)
  <2>1. d \in quiet /\ lore' = lore /\ call[d].pc = "apply" /\ call[d].at \in Path
    BY <1>9 DEF ExamineFile, At
  <2>2. LeftAlone(d) <=> Left(call[d])
    BY DEF LeftAlone, Left, Remote, Local
  <2>3. CASE LeftAlone(d) \/ ~ValidHere(d)
    <3>1. call'[d] = CallAt("apply", call[d].node, call[d].key, call[d].remote, call[d].local,
                            call[d].contents, call[d].at + 1)
      BY <1>1, <1>9, <2>3 DEF ExamineFile, NextFile
    <3>2. /\ call'[d].pc = "apply" /\ call'[d].node = call[d].node /\ call'[d].key = call[d].key
          /\ call'[d].remote = call[d].remote /\ call'[d].local = call[d].local
          /\ call'[d].contents = call[d].contents /\ call'[d].at = call[d].at + 1
      BY <3>1, CallAtFields
    <3>3. \/ Left(call[d])
          \/ call[d].contents[call[d].at] \notin WellFormed
          \/ ~(AnchorsOf[call[d].contents[call[d].at]]
                 \subseteq Present(lore[call[d].node]) \union {call[d].at})
      BY <2>2, <2>3 DEF ValidHere, Mine
    <3>4. PICK k, next, mine, theirs : /\ k = call[d] /\ next = call'[d]
                                       /\ mine = lore[call[d].node] /\ theirs = lore[Target(d)]
      OBVIOUS
    <3>5. QuietCall(next, mine, theirs)
      BY <1>1, <1>2, <1>3, <2>1, <3>2, <3>3, <3>4, QuietSkip
    <3>6. QED
      BY <2>1, <3>2, <3>4, <3>5 DEF Target
  <2>4. CASE ~LeftAlone(d) /\ ValidHere(d)
    <3>1. call'[d] = CallAt("write", call[d].node, call[d].key, call[d].remote, call[d].local,
                            call[d].contents, call[d].at)
      BY <1>1, <1>9, <2>4 DEF ExamineFile, Goto
    <3>2. /\ call'[d].pc = "write" /\ call'[d].node = call[d].node /\ call'[d].key = call[d].key
          /\ call'[d].remote = call[d].remote /\ call'[d].local = call[d].local
          /\ call'[d].contents = call[d].contents /\ call'[d].at = call[d].at
      BY <3>1, CallAtFields
    <3>3. PICK k, next, mine, theirs : /\ k = call[d] /\ next = call'[d]
                                       /\ mine = lore[call[d].node] /\ theirs = lore[Target(d)]
      OBVIOUS
    <3>4. QuietCall(next, mine, theirs)
      BY <1>1, <1>3, <2>1, <2>2, <2>4, <3>2, <3>3, QuietTake
    <3>5. QED
      BY <2>1, <3>2, <3>3, <3>4 DEF Target
  <2>5. QED
    BY <2>3, <2>4
<1>10. CASE WriteFile(d)
  <2>1. /\ call[d].pc = "write" /\ call[d].at \in Path
        /\ WriteTo(call[d].node, call[d].at, call[d].contents[call[d].at], d)
    BY <1>10, WriteFileEffect DEF WriteFile, At
  <2>2. PICK t \in Time : lore' = [lore EXCEPT ![call[d].node][call[d].at] =
                                     [body |-> call[d].contents[call[d].at], mtime |-> t]]
    BY <2>1 DEF WriteTo
  <2>3. d \in quiet
    BY <2>1 DEF WriteTo, Disturb
  <2>4. call'[d] = CallAt("apply", call[d].node, call[d].key, call[d].remote, call[d].local,
                          call[d].contents, call[d].at + 1)
    BY <1>1, <1>10 DEF WriteFile, NextFile
  <2>5. /\ call'[d].pc = "apply" /\ call'[d].node = call[d].node /\ call'[d].key = call[d].key
        /\ call'[d].remote = call[d].remote /\ call'[d].local = call[d].local
        /\ call'[d].contents = call[d].contents /\ call'[d].at = call[d].at + 1
    BY <2>4, CallAtFields
  <2>6. Target(d) # call[d].node
    BY <1>3, <2>3 DEF QuietCall, Target
  <2>7. /\ lore'[Target(d)] = lore[Target(d)]
        /\ lore'[call[d].node] = [lore[call[d].node] EXCEPT ![call[d].at] =
                                    [body |-> call[d].contents[call[d].at], mtime |-> t]]
    BY <1>1, <1>2, <2>2, <2>6
  <2>8. PICK k, next, mine, theirs, after :
          /\ k = call[d] /\ next = call'[d] /\ after = lore'[call[d].node]
          /\ mine = lore[call[d].node] /\ theirs = lore[Target(d)]
    OBVIOUS
  <2>9. after = [mine EXCEPT ![k.at] = [body |-> k.contents[k.at], mtime |-> t]]
    BY <2>7, <2>8
  <2>10. k \in Call /\ mine \in Snapshot /\ theirs \in Snapshot /\ QuietCall(k, mine, theirs)
    BY <1>1, <1>2, <1>3, <2>3, <2>8
  <2>11. /\ k.pc = "write" /\ next.pc = "apply" /\ next.node = k.node /\ next.key = k.key
         /\ next.remote = k.remote /\ next.local = k.local /\ next.contents = k.contents
         /\ next.at = k.at + 1
    BY <2>1, <2>5, <2>8
  <2>12. QuietCall(next, after, theirs)
    BY <2>9, <2>10, <2>11, QuietWrite
  <2>13. QED
    BY <2>5, <2>7, <2>8, <2>12 DEF Target
<1>11. CASE FinishPull(d) \/ FailPull(d)
  BY <1>11 DEF FinishPull, FailPull, End
<1>12. QED
  BY <1>4, <1>5, <1>6, <1>7, <1>8, <1>9, <1>10, <1>11 DEF Step

LEMMA QuietStep == IInv /\ Quiet /\ [Next]_vars => Quiet'
<1> SUFFICES ASSUME IInv, Quiet, [Next]_vars, NEW d \in quiet'
             PROVE  QuietCall(call[d], lore[call[d].node], lore[Target(d)])'
  BY DEF Quiet
<1>1. TypeOK
  BY DEF IInv
<1>2. ASSUME NEW n \in Node, Edit(n)
      PROVE  QuietCall(call[d], lore[call[d].node], lore[Target(d)])'
  <2>1. PICK p \in Path, b \in Body : WriteTo(n, p, b, "hand")
    BY <1>2 DEF Edit
  <2>2. PICK t \in Time : lore' = [lore EXCEPT ![n][p] = [body |-> b, mtime |-> t]]
    BY <2>1 DEF WriteTo
  <2>3. \A m \in Node : m # n => lore'[m] = lore[m]
    BY <1>1, <2>2, OneNodeWritten
  <2>4. Disturb(n, "hand") /\ call' = call
    BY <1>2, <2>1 DEF Edit, WriteTo
  <2>5. d # "hand"
    BY <1>1, <2>4 DEF Disturb, TypeOK
  <2>6. QED
    BY <2>3, <2>4, <2>5, QuietOthers
<1>3. ASSUME NEW n \in Node, Delete(n)
      PROVE  QuietCall(call[d], lore[call[d].node], lore[Target(d)])'
  <2>1. PICK p \in Path : lore' = [lore EXCEPT ![n][p] = NoFile]
    BY <1>3 DEF Delete, Present
  <2>2. \A m \in Node : m # n => lore'[m] = lore[m]
    BY <1>1, <2>1, OneNodeWritten
  <2>3. Disturb(n, "hand") /\ call' = call
    BY <1>3 DEF Delete
  <2>4. d # "hand"
    BY <1>1, <2>3 DEF Disturb, TypeOK
  <2>5. QED
    BY <2>2, <2>3, <2>4, QuietOthers
<1>4. ASSUME NEW n \in Node, AnnouncePeer(n) \/ Crash(n)
      PROVE  QuietCall(call[d], lore[call[d].node], lore[Target(d)])'
  <2>1. d \in quiet /\ lore' = lore /\ quiet \subseteq Pull
    BY <1>1, <1>4 DEF AnnouncePeer, Crash, TypeOK
  <2>2. call'[d] = call[d]
    BY <1>1, <1>4, <2>1 DEF AnnouncePeer, Crash
  <2>3. QED
    BY <2>1, <2>2, QuietStays
<1>5. ASSUME NEW c \in Pull, StartPull(c) \/ Step(c)
      PROVE  QuietCall(call[d], lore[call[d].node], lore[Target(d)])'
  <2>1. CASE d = c
    BY <1>5, <2>1, QuietOwn
  <2>2. CASE d # c /\ ~WriteFile(c)
    <3>1. lore' = lore /\ d \in quiet
      BY <1>5, <2>2 DEF StartPull, Step, AnnounceSelf, FetchMetadata, SnapshotLocal, FetchContents,
         ExamineFile, FinishPull, FailPull, End
    <3>2. call'[d] = call[d]
      BY <1>1, <1>5, <2>2, <3>1 DEF TypeOK, StartPull, Step, AnnounceSelf, FetchMetadata, SnapshotLocal,
         FetchContents, ExamineFile, FinishPull, FailPull, Goto, NextFile, End
    <3>3. QED
      BY <3>1, <3>2, QuietStays
  <2>3. CASE d # c /\ WriteFile(c)
    <3>1. /\ call[c].node \in Node /\ call[c].at \in Path
          /\ WriteTo(call[c].node, call[c].at, call[c].contents[call[c].at], c)
      BY <2>3, WriteFileEffect
    <3>2. PICK t \in Time : lore' = [lore EXCEPT ![call[c].node][call[c].at] =
                                       [body |-> call[c].contents[call[c].at], mtime |-> t]]
      BY <3>1 DEF WriteTo
    <3>3. \A m \in Node : m # call[c].node => lore'[m] = lore[m]
      BY <1>1, <3>1, <3>2, OneNodeWritten
    <3>4. Disturb(call[c].node, c)
      BY <3>1 DEF WriteTo
    <3>5. d \in Pull
      BY <1>1, <3>4 DEF Disturb, TypeOK
    <3>6. call'[d] = call[d]
      BY <1>1, <2>3, <3>5 DEF TypeOK, WriteFile, NextFile
    <3>7. PICK n \in Node : n = call[c].node
      BY <3>1
    <3>8. QED
      BY <2>3, <3>3, <3>4, <3>6, <3>7, QuietOthers
  <2>4. QED
    BY <2>1, <2>2, <2>3
<1>6. CASE UNCHANGED vars
  BY <1>6, QuietStays DEF vars
<1>7. QED
  BY <1>2, <1>3, <1>4, <1>5, <1>6 DEF Next

\* A pull that no other writer disturbed ends with the peer's newer scrolls and its own
\* otherwise untouched (QuietPullComplete), for any number of files, nodes and pulls.
THEOREM QuietComplete == Spec => []QuietPullComplete
<1>1. Init => Quiet
  BY DEF Init, Quiet
<1>2. Spec => []Quiet
  BY Invariance, <1>1, QuietStep, PTL DEF Spec
<1>3. IInv /\ Quiet => QuietPullComplete
  <2> SUFFICES ASSUME IInv, Quiet, NEW c \in quiet, AllExamined(c), NEW p \in Path
               PROVE  LET mine == call[c].local[p]
                          theirs == lore[Target(c)][p]
                          newer == theirs.body # NoBody
                                   /\ (mine.body = NoBody \/ mine.mtime < theirs.mtime)
                      IN  /\ newer /\ theirs.body \in WellFormed
                                /\ AnchorsOf[theirs.body] \subseteq Present(call[c].local) \union {p}
                               => Mine(c)[p].body = theirs.body
                          /\ ~newer => Mine(c)[p] = mine
    BY DEF QuietPullComplete
  <2>1. call[c].at \in 1..NPath + 1 /\ call[c].pc = "apply" /\ call[c].at \notin Path
    BY CallFields DEF IInv, TypeOK, AllExamined, At
  <2>2. p < call[c].at
    BY <2>1
  <2>3. Done(call[c], Mine(c), p) /\ call[c].remote = lore[Target(c)]
    BY <2>1, <2>2 DEF Quiet, QuietCall, Mine
  <2>4. QED
    BY <2>3 DEF Done, Wanted, Newer
<1>4. QED
  BY Invariance, <1>2, <1>3, PTL
=============================================================================
