----------------------------- MODULE CanonSync -----------------------------
(***************************************************************************)
(* Mirror nodes that pull canonical scrolls from each other                *)
(* (sync_manager.ts, canon_sync.ts, peer_registry.ts).  A pull is a chain  *)
(* of requests and file operations; between two of them the other pulls of *)
(* the node, the pulls of other nodes and people editing the files go on.  *)
(* What a pull read before an await it uses after it.                      *)
(***************************************************************************)
EXTENDS Integers

CONSTANTS Node,
          Pull,        \* pulls that can be in progress at the same time
          NPath,       \* scroll files are 1..NPath, in the order pulls take them
          Body,        \* contents of a scroll; the content stands for its sha256
          NoBody,      \* no file
          WellFormed,  \* the bodies with complete frontmatter
          AnchorsOf,   \* the files a body's prev/next fields refer to
          MaxTime,     \* bound: distinct modification times
          MaxEdits,    \* bound: changes people make
          Deletable,   \* the scrolls people may delete
          Form         \* how peers are named: by "id" and perhaps by "url"

Path == 1..NPath
Time == 0..MaxTime

ASSUME SyncAssumption ==
    /\ Node # {} /\ "hand" \notin Pull
    /\ NPath \in Nat /\ MaxTime \in Nat /\ MaxEdits \in Nat
    /\ NoBody \notin Body /\ WellFormed \subseteq Body
    /\ AnchorsOf \in [Body -> SUBSET Path]
    /\ Deletable \subseteq Path
    /\ "id" \in Form /\ Form \subseteq {"id", "url"}

\* What a registry keys a peer by: the id it announced, or the base URL it was
\* pulled from.
Key == Node \X Form

VARIABLES lore,     \* lore[n][p]: the file p of node n
          peers,    \* peers[n][k]: the entry of node n's registry
          call,     \* call[c]: the pull c
          pulled,   \* history: the files <<n, p>> last written by a pull
          quiet,    \* history: the pulls during which no other writer touched either node
          overtaken,\* history: the pulls during which another one from their peer ended
          edits     \* how often people changed a file

vars == <<lore, peers, call, pulled, quiet, overtaken, edits>>

File == [body: Body \union {NoBody}, mtime: Time]
NoFile == [body |-> NoBody, mtime |-> 0]
Snapshot == [Path -> File]     \* MirrorCanonUpdatesSnapshot.files
Nothing == [p \in Path |-> NoFile]

Exists(snapshot, p) == snapshot[p].body # NoBody
Present(snapshot) == {p \in Path : Exists(snapshot, p)}

Status == {"none", "idle", "syncing", "ok", "error"}
Peer == [status: Status, failed: BOOLEAN]     \* failed: last_error is set
Unknown == [status |-> "none", failed |-> FALSE]

Stage == {"idle", "announce", "metadata", "snapshot", "contents", "apply", "write"}
Call == [pc: Stage,
         node: Node,                              \* where the pull runs
         key: Key,                                \* the peer it pulls from
         remote: Snapshot,                        \* remoteUpdates.canon
         local: Snapshot,                         \* localUpdates.canon
         contents: [Path -> Body \union {NoBody}],\* remoteContents
         at: 1..NPath + 1]                        \* the remote file under examination

CallAt(pc, n, k, remote, local, contents, at) ==
    [pc |-> pc, node |-> n, key |-> k, remote |-> remote, local |-> local,
     contents |-> contents, at |-> at]
NoContents == [p \in Path |-> NoBody]

\* A finished pull; which node and peer it names does not matter.
Idle == LET n == CHOOSE n \in Node : TRUE
        IN  CallAt("idle", n, <<n, "id">>, Nothing, Nothing, NoContents, 1)

Target(c) == call[c].key[1]
Mine(c) == lore[call[c].node]
At(c, pc) == call[c].pc = pc
Remote(c) == call[c].remote[call[c].at]
Local(c) == call[c].local[call[c].at]

Init == /\ lore = [n \in Node |-> Nothing]
        /\ peers = [n \in Node |-> [k \in Key |-> Unknown]]
        /\ call = [c \in Pull |-> Idle]
        /\ pulled = {} /\ quiet = {} /\ overtaken = {}
        /\ edits = 0

----------------------------------------------------------------------------
\* The peer registry.  Mutant: an announcement makes a new entry.
Registered_anew(peer) == [status |-> "idle", failed |-> peer.failed]

Registered(peer) == [status |-> IF peer.status = "none" THEN "idle" ELSE peer.status,
                     failed |-> peer.failed]
RegisterPeer(n, k) == peers' = [peers EXCEPT ![n][k] = Registered(@)]
MarkStatus(n, k, status) ==
    peers' = [peers EXCEPT ![n][k] =
                [status |-> status,
                 failed |-> status = "error" \/ (status = "syncing" /\ @.failed)]]

\* The pull goes on to its next stage.
Goto(c, pc) == call' = [call EXCEPT ![c] = CallAt(pc, call[c].node, call[c].key,
                   call[c].remote, call[c].local, call[c].contents, call[c].at)]
NextFile(c) == call' = [call EXCEPT ![c] = CallAt("apply", call[c].node, call[c].key,
                   call[c].remote, call[c].local, call[c].contents, call[c].at + 1)]

\* The pulls in progress on node n from the peer with key k.
From(n, k) == {c \in Pull : ~At(c, "idle") /\ call[c].node = n /\ call[c].key = k}

\* The pull ends, alone or before others from the same peer.
End(c) == /\ call' = [call EXCEPT ![c] = Idle]
          /\ quiet' = quiet \ {c}
          /\ overtaken' = (overtaken \union From(call[c].node, call[c].key)) \ {c}

\* A file of node n changes; the pulls in progress that involve n, but for the
\* writer, are no longer quiet.  Clocks differ between nodes and file systems
\* repeat timestamps, so the modification time can be any.
Disturb(n, writer) ==
    quiet' = {c \in quiet : c = writer \/ n \notin {call[c].node, Target(c)}}
WriteTo(n, p, b, writer) ==
    /\ \E t \in Time : lore' = [lore EXCEPT ![n][p] = [body |-> b, mtime |-> t]]
    /\ Disturb(n, writer)

----------------------------------------------------------------------------
\* People and their editors change the files of a node.
Edit(n) == /\ edits < MaxEdits /\ edits' = edits + 1
           /\ \E p \in Path, b \in Body :
                /\ WriteTo(n, p, b, "hand")
                /\ pulled' = pulled \ {<<n, p>>}
           /\ UNCHANGED <<peers, call, overtaken>>

Delete(n) == /\ edits < MaxEdits /\ edits' = edits + 1
             /\ \E p \in Present(lore[n]) \intersect Deletable :
                  /\ lore' = [lore EXCEPT ![n][p] = NoFile]
                  /\ pulled' = pulled \ {<<n, p>>}
             /\ Disturb(n, "hand")
             /\ UNCHANGED <<peers, call, overtaken>>

\* POST /mirror-sync/announce.
AnnouncePeer(n) == /\ \E m \in Node \ {n} : RegisterPeer(n, <<m, "id">>)
                   /\ UNCHANGED <<lore, call, pulled, quiet, overtaken, edits>>

\* A node stops and starts: its registry and its pulls were in memory.
Crash(n) == /\ peers' = [peers EXCEPT ![n] = [k \in Key |-> Unknown]]
            /\ call' = [c \in Pull |-> IF call[c].node = n THEN Idle ELSE call[c]]
            /\ quiet' = {c \in quiet : call[c].node # n}
            /\ overtaken' = {c \in overtaken : call[c].node # n}
            /\ UNCHANGED <<lore, pulled, edits>>

\* pullFromPeer up to its first await: a peer id must be registered, a base URL
\* need not be.
StartPull(c) ==
    /\ At(c, "idle")
    /\ \E n \in Node, k \in Key :
          /\ k[1] # n
          /\ k[2] = "url" \/ peers[n][k].status # "none"
          /\ MarkStatus(n, k, "syncing")
          /\ call' = [call EXCEPT ![c] =
                        CallAt("announce", n, k, Nothing, Nothing, NoContents, 1)]
    /\ quiet' = quiet \union {c}
    /\ UNCHANGED <<lore, pulled, overtaken, edits>>

\* Tell the peer our base URL.  The request may be lost, and a node without a base
\* URL sends none: either way the pull goes on.
AnnounceSelf(c) ==
    /\ At(c, "announce")
    /\ Goto(c, "metadata")
    /\ RegisterPeer(Target(c), <<call[c].node, "id">>) \/ UNCHANGED peers
    /\ UNCHANGED <<lore, pulled, quiet, overtaken, edits>>

\* GET /mirror-sync/updates: the peer's files at this moment.
FetchMetadata(c) ==
    /\ At(c, "metadata")
    /\ call' = [call EXCEPT ![c] = CallAt("snapshot", call[c].node, call[c].key,
                   lore[Target(c)], Nothing, NoContents, 1)]
    /\ UNCHANGED <<lore, peers, pulled, quiet, overtaken, edits>>

\* getLocalUpdates on this node.
SnapshotLocal(c) ==
    /\ At(c, "snapshot")
    /\ call' = [call EXCEPT ![c] = CallAt("contents", call[c].node, call[c].key,
                   call[c].remote, Mine(c), NoContents, 1)]
    /\ UNCHANGED <<lore, peers, pulled, quiet, overtaken, edits>>

\* collectMirrorSyncPullNeededPaths: the remote files that are new or differ.
Needed(c) == {p \in Present(call[c].remote) : call[c].remote[p].body # call[c].local[p].body}

\* The contents the peer's files have now; the request fails when one is gone.
FetchContents(c) ==
    /\ At(c, "contents")
    /\ Needed(c) \subseteq Present(lore[Target(c)])
    /\ call' = [call EXCEPT ![c] = CallAt("apply", call[c].node, call[c].key,
                   call[c].remote, call[c].local,
                   [p \in Path |-> IF p \in Needed(c) THEN lore[Target(c)][p].body ELSE NoBody],
                   1)]
    /\ UNCHANGED <<lore, peers, pulled, quiet, overtaken, edits>>

\* Mutant: a copy of the same age is replaced.
LeftAlone_newerOnly(c) == \/ Remote(c).body \in {NoBody, Local(c).body}
                          \/ Local(c).body # NoBody /\ Local(c).mtime > Remote(c).mtime
                          \/ call[c].contents[call[c].at] = NoBody

\* applyRemoteCanonUpdates leaves a file alone that is not the peer's, is current,
\* or whose local copy was not older when the pull looked.
LeftAlone(c) == \/ Remote(c).body \in {NoBody, Local(c).body}
                \/ Local(c).body # NoBody /\ Local(c).mtime >= Remote(c).mtime
                \/ call[c].contents[call[c].at] = NoBody

\* Mutant: what is validated is the body the metadata announced.
ValidHere_announced(c) ==
    LET b == Remote(c).body
    IN  b \in WellFormed /\ AnchorsOf[b] \subseteq Present(Mine(c)) \union {call[c].at}

\* validateLoreDraftInCorpusContext, against this node's files at this moment.
ValidHere(c) ==
    LET b == call[c].contents[call[c].at]
    IN  b \in WellFormed /\ AnchorsOf[b] \subseteq Present(Mine(c)) \union {call[c].at}

\* One turn of the loop up to the write.
ExamineFile(c) ==
    /\ At(c, "apply")
    /\ call[c].at \in Path
    /\ IF LeftAlone(c) \/ ~ValidHere(c) THEN NextFile(c) ELSE Goto(c, "write")
    /\ UNCHANGED <<lore, peers, pulled, quiet, overtaken, edits>>

\* The file is replaced, whatever it holds by now.
WriteFile(c) ==
    /\ At(c, "write")
    /\ WriteTo(call[c].node, call[c].at, call[c].contents[call[c].at], c)
    /\ pulled' = pulled \union {<<call[c].node, call[c].at>>}
    /\ NextFile(c)
    /\ UNCHANGED <<peers, overtaken, edits>>

\* All files are examined; syncLocalGraphFromRemote derives its result from the
\* files on this node and changes none; the pull ends.
AllExamined(c) == At(c, "apply") /\ call[c].at \notin Path

FinishPull(c) ==
    /\ AllExamined(c)
    /\ MarkStatus(call[c].node, call[c].key, "ok")
    /\ End(c)
    /\ UNCHANGED <<lore, pulled, edits>>

\* Mutant: a status no reader knows.
FailPull_text(c) ==
    /\ ~At(c, "idle") /\ ~At(c, "announce")
    /\ MarkStatus(call[c].node, call[c].key, "failed")
    /\ End(c)
    /\ UNCHANGED <<lore, pulled, edits>>

\* A request or a file operation fails, after any number of files were written.
FailPull(c) ==
    /\ ~At(c, "idle") /\ ~At(c, "announce")
    /\ MarkStatus(call[c].node, call[c].key, "error")
    /\ End(c)
    /\ UNCHANGED <<lore, pulled, edits>>

Step(c) == \/ AnnounceSelf(c) \/ FetchMetadata(c) \/ SnapshotLocal(c) \/ FetchContents(c)
           \/ ExamineFile(c) \/ WriteFile(c) \/ FinishPull(c) \/ FailPull(c)

Next == \/ \E n \in Node : Edit(n) \/ Delete(n) \/ AnnouncePeer(n) \/ Crash(n)
        \/ \E c \in Pull : StartPull(c) \/ Step(c)

Spec == Init /\ [][Next]_vars

----------------------------------------------------------------------------
TypeOK ==
    /\ lore \in [Node -> Snapshot]
    /\ peers \in [Node -> [Key -> Peer]]
    /\ call \in [Pull -> Call]
    /\ pulled \subseteq Node \X Path
    /\ quiet \subseteq Pull /\ overtaken \subseteq Pull
    /\ edits \in 0..MaxEdits

\* A file that a pull wrote is well formed, and every scroll it refers to is on the
\* same node, unless people deleted it there: an invalid scroll never spreads, even
\* when the peer's file changes between metadata and contents or the node's own
\* files change between validation and write (canon_sync.ts:206-228).
PulledIsValid ==
    \A n \in Node, p \in Path : <<n, p>> \in pulled =>
        /\ lore[n][p].body \in WellFormed
        /\ AnchorsOf[lore[n][p].body] \subseteq Present(lore[n]) \union Deletable

\* What the registry says of a peer, whatever order overlapping pulls from it, its
\* announcements, failures and crashes come in: "syncing" only while a pull from it
\* is in progress; any other status hides no pull in progress, but those another
\* pull from it ended before; and once none is, an error is kept exactly after a
\* failed one (peer_registry.ts:19-51, sync_manager.ts:336-419).
PeerStatusTruthful ==
    \A n \in Node, k \in Key :
        /\ peers[n][k].status = "syncing" => From(n, k) # {}
        /\ peers[n][k].status # "syncing" => From(n, k) \subseteq overtaken
        /\ From(n, k) = {} => (peers[n][k].failed <=> peers[n][k].status = "error")

\* A pull that nobody else's write disturbed ends with every scroll the peer has newer
\* (valid here, its anchors here from the start) and with its own scrolls otherwise
\* untouched (sync_manager.ts:276-287, canon_sync.ts:150-229).
QuietPullComplete ==
    \A c \in quiet : AllExamined(c) =>
        \A p \in Path :
            LET mine == call[c].local[p]
                theirs == lore[Target(c)][p]
                newer == theirs.body # NoBody /\ (mine.body = NoBody \/ mine.mtime < theirs.mtime)
            IN  /\ newer /\ theirs.body \in WellFormed
                      /\ AnchorsOf[theirs.body] \subseteq Present(call[c].local) \union {p}
                     => Mine(c)[p].body = theirs.body
                /\ ~newer => Mine(c)[p] = mine
=============================================================================
