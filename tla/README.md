# Mirror Runtime: specifications and proofs

TLA+ specifications of the parts of Mirror Runtime whose correctness depends on the
order in which things happen: who writes a lore directory, what a sync pull does
between its requests, how lanes, followup queues, heartbeats and restarts treat work
that waits, what the outbound queue keeps when a process dies, what overlapping
requests do to a user's files, and who holds a session's lock file. TLC checks every
module on small instances; TLAPS proves every safety property of the passing runs
for all values of the constants.

Paths below are relative to the repository root; `src/` is its source directory.

## 1. The system

Mirror Runtime is a TypeScript service (one Node process per node) that keeps a
directory of Markdown *scrolls* (the *lore*, or *canon*), answers chat and tool
requests about it, syncs it with other nodes, and keeps small JSON stores per user.
It was extracted from OpenClaw and carries OpenClaw's gateway: command lanes,
followup queues, cron, channels and an outbound delivery queue.

Within a process everything is one event loop: code between two `await`s is atomic,
and whatever was read before an `await` may be stale after it. No lock protects the
lore directory or the user stores. Nodes talk by HTTP requests, which may fail.
Files survive a crash; registries, lanes and calls do not.

### 1.1 Components

| Component | State | Operations | Talks to | What is hard |
| --- | --- | --- | --- | --- |
| canon commit and scroll index (`src/mirror/skills/commit_scroll`, `src/mirror/lore_sources/scroll_index.ts`, `src/mirror/lore_validation`) | scroll files, `_index/scroll_index.json` | commit (also dry run), pulled file, refresh of the index | mirror-sync writes files here, retrieval refreshes the index | a dozen awaits between drawing a number and the rename; freshness by timestamps; a stop between rename and refresh, or in the middle of writing the index |
| mirror-sync (`src/mirror-sync`) | peer registry in memory, the lore directories of all nodes | announce, list peers, updates, contents, pull | other nodes over HTTP, people who edit files | overlapping pulls, decisions on old metadata, content fetched after its metadata, partial failure |
| command lanes and restart loop (`src/process/command-queue.ts`, `src/cli/gateway-cli/run-loop.ts`) | lanes with queue, active set, concurrency, generation | enqueue, pump, complete, clear, set concurrency, wait for active, reset | agent runs nest a session lane and a global lane | completions of an earlier generation; nested waiting; timed wait before a restart |
| outbound delivery queue (`src/infra/outbound/delivery-queue.ts`, `deliver.ts`) | one JSON file per delivery, `failed/` | enqueue, send, ack, fail, move, recovery pass | channels; started by the gateway | crash between send and ack, stale lists, read-then-write of retry counts, waits against a budget |
| followup queue (`src/auto-reply/reply/queue`, `src/utils/queue-helpers.ts`) | queue per session key: messages, dropped ones, settings; the map of queues | enqueue with cap and drop policy, drain (one by one or collected), run, clear | messages come in while an agent runs; its runs go to the lanes | a drain that goes on after an abort took its queue from the map; messages dropped while the first one runs; a run that throws |
| heartbeat wake-ups (`src/infra/heartbeat-wake.ts`, `heartbeat-runner.ts`) | pending wakes, one timer, handler, batch; per runner its agents and interval timer | request, fire, call the handler, retry, new handler; start, stop, update, switch off | cron, hooks and operators request; runs go to the main lane | batches of an earlier handler, wakes that meet a busy lane, a timer somebody must set again |
| user workspace stores (`src/mirror-user-workspace`) | JSON files per user | ensure, read, upsert, patch, delete | tasks, reminders, notes, heartbeat, monk views | unlocked read-change-write, default files of a new user |
| tasks, reminders, heartbeat managers (`src/mirror-task`, `mirror-reminder`, `mirror-heartbeat`) | none of their own | create, update, complete, deliver, schedule | the stores | update after a stale read; recurrence arithmetic |
| session write lock (`src/agents/session-write-lock.ts`) | a lock file per session, a map of held locks per process | acquire, share, release, reclaim, watchdog, signals, sweep | agent runs and the session store | files are judged, then removed by name; deaths between two file operations |
| mirrordaemon (`src/mirrordaemon`) | ring of 100 events, subscribers, sessions | publish, subscribe, create, touch, close | everything publishes; WebSocket and status read | views derived from a ring that forgets |
| mirror-service (`src/mirror-service`) | connections | routes, lifecycle, sync and tool runtimes | daemon, gateway, sync | order of published events |
| provider, policy, actions, gateway, chat (`src/mirror-provider` ...) | active provider | execute with fallback, decide | HTTP providers | last writer of the active provider |
| memory, review, reflection, lore graph, monk, adapters, console, UI API, CLI, observability | SQLite rows, counters | synchronous statements, analysis, formatting | - | little that is concurrent |
| cron, session store, gateway server, approvals, pairing, agent runner, channels, browser, media, TUI | files, promises | - | - | inherited; see section 8 |

What makes the modelled ones correct:

* **canon**: a commit never disturbs earlier scrolls; all that is published is valid
  against what is published; the index names what exists, and at rest all of it but what
  one of its own writes passed over or a failed refresh left out; only a write that was
  cut leaves it unreadable.
* **sync**: nothing invalid enters through a pull; a pull nobody disturbed is
  complete; the registry tells the truth about the pulls, overlapping ones too, and says
  "syncing" only while there is one.
* **lanes**: every command runs once, in order, within the concurrency, never waits
  while there is room, and is answered, across clears and in-process restarts, unless a
  restart interrupted it while it ran.
* **deliveries**: what was stored is kept until it is sent whole or nobody wants it;
  it is given up only after its attempts; and it is resolved in the end.
* **followups**: a message is answered once and in order, and only the queue's own policy
  or an abort loses one.
* **heartbeats**: no wake is forgotten or weakened, and the heartbeats go on.
* **user stores**: calls that do not overlap on a file behave as if atomic, and defaults
  never replace what a user has.
* **session lock**: one writer, unless the lock was taken away for a known reason (age,
  force, doubt, a mistaken removal), and no lock file left behind but in doubt.

`PROJECT.json` lists every component with its status and every hazard at its line.

### 1.2 How they interact

```
 chat/tool routes -> actions -> policy -> commit_scroll --+
                                                          v
 other nodes <-HTTP-> mirror-sync --------------> lore directory --> scroll index
 gateway start --> recovery pass --+                      (rename, stat, walk)
 agent replies --> deliver --------+--> delivery-queue/*.json --> channels
 messages --> followup queue --> session lane --> main lane --> agent run --> session lock
 cron, hooks, interval timer --> heartbeat wake --> runner --> main lane
 requests of a user --> task/reminder/heartbeat managers --> JSON files
 SIGUSR1 --> wait for active tasks --> close --> reset lanes --> start again
```

## 2. Modules

| Module | Models | Composes |
| --- | --- | --- |
| `Canon` | the abstract promise of a lore directory | - |
| `CanonCommit` | all writers of one lore directory, call by call | implements `Canon` (`INSTANCE`) |
| `CanonSync` | several nodes that pull from each other | uses files as `CanonCommit` publishes them |
| `CommandQueue` | lanes, nested runs, restart loop | lanes of the runs that call `deliver` |
| `DeliveryQueue` | write-ahead queue, live deliveries, recovery passes, crashes | - |
| `FollowupQueue` | the queues of one session key and their drains | its runs are tasks of `CommandQueue` |
| `HeartbeatWake` | wake-up queue, timer, handlers, batches | - |
| `HeartbeatRunner` | runners with their agents and interval timers | extends `HeartbeatWake`: its actions are actions of both |
| `UserStore` | a user's files under overlapping calls of the managers | extends `ReminderSchedule` for the reminders it stores |
| `ReminderSchedule` | when a reminder is due, as a function | - |
| `SessionLock` | the lock file of one session, several processes | - |
| `MC*` | instances for TLC | |
| `*_proofs` | theorems and their proofs | extend the module |

### 2.1 CanonCommit (`Canon`)

State: `text`, `mtime` per file name, the index file and its time, and `call[w]`, the
record of locals of each asynchronous call in progress. The index file is written in
place, by a truncation and a write: `indexed` is the list it begins with and `extent` all
that was written since the truncation, so that it parses (`Readable`) when the two agree.

| Action | Code |
| --- | --- |
| `BeginCommit`, `StatTarget` | `commitScroll` up to its refusal to overwrite |
| `Validate` | `validateLoreDraftInCorpusContext` and the review |
| `StageFile`, `CheckTarget`, `RenameFile` | `writeCanonicalFileAtomically`; for a pulled file `writeCanonFileAtomically` |
| `BeginPulledFile` | one file of `applyRemoteCanonUpdates` |
| `BeginEnsure`, `CollectScrolls`, `CompareTimes`, `TruncateIndex`, `WriteIndex` | `ensureScrollIndexUpToDate`, the last two its `fs.writeFile` |
| `Throw` | a file operation fails, at any await: the call ends, its temporary file removed |
| `Restart` | the process stops, in the middle of any call; `initializeMirrorServiceLifecycle` refreshes the index |

Abstractions: a file name is a family number (0 for none) with a title and there is one
family; a draft is a model value with "well formed" and the names it refers to; the
review's verdict is any; the walk of a directory and the stat calls of one comparison
are one step each. A file system may repeat timestamps (`FineClock`). `missed` (the scrolls
an index write passed over, because it had walked before their rename or came between
their temporary file and their rename, and those a failed refresh left out) and `cut` (a
write of the index was stopped, failed, or met another one) are history.

`Canon` has two steps, *publish a valid scroll* and *index some published scrolls*.
The mapping takes `text` as it is and, for `indexed`, the list a reader of the index gets
(`Listing`, none while it does not parse): calls and timestamps are hidden, so a
commit with all its awaits is one abstract step at its rename.

### 2.2 CanonSync

State: files of each node, registry of each node, and `call[c]`, the locals of each pull.
`quiet`, `overtaken` and `pulled` are history: the pulls no one disturbed, the pulls during
which another one from their peer ended, and files last written by a pull. Actions: `StartPull` (resolve the peer, mark "syncing"), `AnnounceSelf`,
`FetchMetadata`, `SnapshotLocal`, `FetchContents` (fails when a file is gone),
`ExamineFile`/`WriteFile` (one turn of `applyRemoteCanonUpdates`), `FinishPull`,
`FailPull` (the `catch` of `pullFromPeer`), `AnnouncePeer`, `Crash`, and `Edit` and
`Delete` by people. Files are taken in path order, as the code's sorted list is.

Abstractions: a body stands for its sha256; a metadata snapshot is read in one step
(the code stats file by file); staging and rename are one step (their separation is in
`CanonCommit`); the scroll index and the derived graph are left out, the graph step
being part of success or failure. Modification times are any value: clocks of nodes
differ and people's tools set times.

### 2.3 CommandQueue

State: `lane[l]` as in `LaneState`, the place of each command, `born[t]` (the
generation its start was taken in), and the restart loop's phase with the set
`waitForActiveTasks` waits for. Every operation of the code is synchronous and ends in
`drainLane`, so one action is the operation with its pump (`Drain`). An outer task
enqueues its inner task in a later step, as `runEmbeddedPiAgent` does after its turn in
the session lane has begun, and ends after it. Only the lanes in `Sized` change their
concurrency, as `gateway/server-lanes.ts:5-10` does for the cron, main and subagent lanes;
a session lane keeps 1. A task that ends with a generation other
than its lane's is `FinishStale`. Left out: the callbacks (`onWait`, logging), the lock
file and exits of the process, which end the model's subject.

### 2.4 DeliveryQueue

State: `queued[d]` (the retry count in the file, or `Absent`), `givenUp` (`failed/`),
`attempt[w]` for every worker, a live delivery or a recovery pass, and for each pass the
list it loaded and the time it has left. Actions follow the calls that are awaited:
`Begin`, `Store`/`StoreFails` (`enqueueDelivery`), `SendPayload`/`SkipPayload`/`Throw`/
`Abort`/`Finish` (the payload loop and its wrapper), `Ack`/`AckFails`, `FailRead` then
`FailWrite` (`failDelivery`'s read and write), `Load`, `GiveUp`, `Defer`, `Retry` (one
turn of `recoverPendingDeliveries`), `Move`, `Crash`.

`effort[d]` tells a strict delivery from a bestEffort one with or without an `onError`.
A recovery pass hands over no `onError`, so it never observes an error. `sent`,
`failures`, `hopeless` and `dropped` are history. Abstractions: an entry is its retry
count; the temporary file and its rename are one step; the listing is read in one step;
a payload that a hook cancels counts as sent; the time an attempt takes is chosen with
`Retry`; deliveries are numbered by `enqueuedAt`. All errors of a pass are either
permanent or not (`isPermanentDeliveryError`).

### 2.5 FollowupQueue

State: `queue[q]` for every queue object made for the key, `drain[q]` (the loop over it),
`current` (the object the map holds). The drain awaits twice, for the debounce and for the
run, so it has three places: at rest, waiting, running. Actions: an inbound turn enqueues
with the settings it resolved (`Enqueue`, `Redeliver`); the end of a turn starts the drain
(`EndTurn`); the drain picks one message, a batch or a summary of dropped ones; its run
succeeds or throws; it leaves when the queue is empty, deleting the key from the map; an abort clears the queue
and takes it out of the map, while its drain goes on. Abstractions: a message is its
number and its route; the text of prompts and summaries is the set of messages in it.

### 2.6 HeartbeatWake and HeartbeatRunner

`HeartbeatWake` has the variables of the module `heartbeat-wake.ts` (`handler`,
`pending`, `scheduled`, `running`, `timer`) and `batch`, the locals of each loop that
awaits its handler; several can be in progress after a new handler was registered.
`HeartbeatRunner` adds the state of each runner and `call[b]`, how far the handler's walk
through the agents has got. Its actions are joint ones: `Fire` and `Resume` take a step
of the wake-up queue and of the runner it calls. A priority stands for a reason; delays
are left out, and of two timers of one kind either may be the earlier.

### 2.7 UserStore and ReminderSchedule

`UserStore`: each call of a manager is a list of stages (find, count, link, store,
write), each an await; before each reading the call makes the files that are missing
(`Look`, `Fill`, `Ensured`). `Fail` is a failed file operation or a stop at any point,
and one that fails while looking goes on writing the other defaults. An entry has a status
and one other field, which is enough to see an update lost, undone or misapplied.
`quiet` is history: the callers whose files no other call wrote since they read.
`ReminderSchedule` is `getReminderScheduleState` on whole numbers (its loop in closed form),
beside a definition of "due" by slots; `ScheduleExact` compares the two in the initial
state of the run, the functions having no state.

### 2.8 SessionLock

Lock files are numbered in the order of their creation, since two files of one name
must be told apart. `file` is the one there is; `creator`, `written` and `old` are what
others read of it; `held` and `count` are each process's map. `caller[c]` is where a
caller is and the lock it is about: between `Inspect` or `Stat` and `Reclaim`, and between
`Look` and `Sweep`, another may replace the file, and `Unlink` removes whatever is there.
`Crash` covers a pid that another process has at once; `Age` makes a file old at any time,
so that no bound on times is assumed. Errors of the file system take the code's own
ways: a file that cannot be read counts as one without a pid, one whose age cannot be told
is reclaimed, a process that may not be asked about counts as dead, and a removal that
fails is ignored. `lost`, `crossed`, `forced` and `doubted` are history.

## 3. Runs

| Run | Question | Result |
| --- | --- | --- |
| `canon_commit` | two calls, a commit or a pulled file or a refresh each, failing file operations, and stops: `TypeOK`, `EarlierScrollsKept`, `PublishedValid`, `IndexComplete`, `ImplementsCanon` | holds |
| `canon_overwrite` | two overlapping commits: `CommitNeverOverwrites` | violated |
| `canon_sync` | two pulls at a time from one peer, or one between two nodes, edits, deletions, announcements, crashes: `TypeOK`, `PulledIsValid`, `QuietPullComplete`, `PeerStatusTruthful` | holds |
| `command_queue` | runs of two sessions, each with an inner task in the main lane, for which a third command contends; one more run behind the first; clears, concurrency changes of main, a restart: `TypeOK`, `LanesAccount`, `StartsInOrder`, `NoIdleLane`, `DrainedHasEnded`, `EverySettles` | holds |
| `delivery_queue` | a delivery of two payloads and two passes, one crash, one fault: `TypeOK`, `NothingLost`, `GivenUpLate` | holds |
| `delivery_live` | two deliveries, restarts for ever, waits that fit: `EveryEntryResolved` | holds |
| `delivery_budget` | the same property with the constants of the code | violated |
| `followup` | four messages, two destinations, three settings, aborts, runs that throw: `TypeOK`, `AnsweredOnce`, `NoOvertaking`, `OnlyOverflowLoses`, `OverlapOnlyAfterAbort`, `EveryMessageLeaves` | holds |
| `heartbeat` | two lives of the runner, one request, update or switch, busy lanes, throws: `TypeOK`, `NoForgottenWake`, `RunsOneByOne`, `HeartbeatsArmed`, `OwedUntilHandled`, `HeartbeatsGoOn` | holds |
| `heartbeat_disabled` | heartbeats switched off and on: `EnabledHeartbeatsGoOn` | violated |
| `user_store` | four calls of two requests on three files, failures: `TypeOK`, `ScheduleExact`, `QuietExact`, `StaysSettled` | holds |
| `session_lock` | three callers in two processes, two faults: `TypeOK`, `SingleWriter`, `LossExplained`, `NoOrphan`, `OldReleaseHarmless` | holds |

To run one: `tlc -config CanonCommit.cfg MCCanonCommit.tla`. The longest take two to
four minutes with two workers.

### 3.1 Bounds and why they are enough

* Two concurrent actors, be they two calls, two passes, or a pull and the people who edit:
  every race known in this code is between a reader that acts later and one other actor.
  The proofs cover any number. `session_lock` has three callers, since two that judge one
  dead lock need a third to have written it or to hold the next.
* `canon_commit`: numbers up to 2 and three drafts: one valid alone, one that refers to
  number 1, one malformed, so that validity depends on the order of publication.
  Four timestamps let two scrolls be staged and renamed and the index be truncated and
  written in every order, or a scroll be staged after the first index; a refresh fails
  only while one file was written at most, or two when it truncated the index itself
  (`EarlyFailures`). Timestamps grow (`FineClock`); `CanonCommit_proofs` does not assume it for
  the other properties.
* `canon_sync`: two files, the second of which can refer to the first, in the order pulls
  take them; two edits let a file change on both sides, or twice on one, during a pull;
  the second file, to which nothing refers, may be deleted at any time; `MaxTime` 1 gives
  two times and so older, equal and newer. Two pulls overlap (`EarlyOverlap`) when one node
  pulls from its peer twice, after one edit at most, which may fall between the two snapshots;
  the second edit meets a pull on its own, and so do edits at every other moment. Peers
  are named by id: a URL is an entry of its own, with its own status. The proofs allow
  any number of pulls, edits and names.
* `command_queue`: two outer runs hold their session lanes while their inner ones and a
  third command contend for main, where two can wait behind a running one; concurrency up
  to 2 and one reset, so that tasks of the old generation, which may never end, run beside
  the new ones.
* `delivery_queue`: two payloads, so that a crash falls between them; two retries, so that
  both counts and the limit occur; two passes that load the same entry. One fault and
  one crash at any point. `delivery_budget` has the code's own numbers in units of five
  seconds.
* `followup`: cap 2 with four messages, so that two overflow; the third goes to another
  destination, so that a batch turns into single runs; three queue objects, so that a
  drain outlives two aborts, or ends after a second object was made.
* `heartbeat`: one agent and the target "all" share a batch; two handlers and two batches
  let a batch of the old one end during the new one's. Two priorities tell the interval
  timer's wake from the others.
* `user_store`: one task, a recurring reminder that is linked to it, one that is neither,
  and preferences that exist by default, in three files; four calls, so that an entry can be created,
  read, changed by another call and written back. `ReminderSchedule` is checked for
  all times up to 8 and steps 1, 2, 3 and 5: before, on and after slots, several missed.
  The code's steps are a day and a week.
* `session_lock`: three lock files: a stale one, the one that replaces it, and one more
  made after that was removed. Two faults of any kind: deaths, failing file operations, sweeps,
  the watchdog, time.

Deadlock checking is off where the system may really stop: when deliveries are
resolved, messages answered, callers idle and the bounded calls, crashes and faults used up.

### 3.2 Fairness

* `EverySettles`: a task of the present generation that can end does (agent runs have a
  timeout), a running outer task goes on to enqueue its inner one, and a restart under way
  completes, its polls being timers. A task that a restart interrupted may never end
  (`command-queue.ts:194-196` says why the reset exists), and so may what waits for it: the
  property asks an answer for all commands but those. Nothing is assumed of clears,
  restarts or changes of concurrency.
* `EveryEntryResolved`: a live delivery and a pass take their next steps, and the gateway
  is started again and again (`Load`). The code promises retries at a start only; without
  starts, entries stay by design.
* `EveryMessageLeaves`: debounces are timers, and a run that is started again and again
  completes at last (strong fairness: a run may throw many times, and the drain starts over
  for ever). Nothing is assumed of inbound turns or aborts.
* `HeartbeatsGoOn`: timers fire, time passes, an awaited run has some outcome, as its
  timeouts see to. Busy lanes and throws may go on for ever. Nothing is assumed of
  requests, reloads or restarts.

### 3.3 What the violated runs show

* `canon_overwrite`: the second `stat` and the rename are two calls. Two commits that
  draw the same number both find the name free, and the second rename replaces
  the first commit's scroll, although the code says it refuses to overwrite.
* `delivery_budget`: the third attempt of an entry has to wait 120 s, which never fits a pass of
  60 s. The pass ends at the entry, every start, and the younger entries behind
  it are not reached either; it is neither retried nor moved to `failed/`.
* `heartbeat_disabled`: an interval timer that fires while heartbeats are switched off is
  declined before it is set again, so that heartbeats switched on again stay silent
  until another wake, a reload or a restart.

### 3.4 Divergences met while modelling, without a run

* `canon_sync.ts:171` decides "remote is newer" from a snapshot of before two requests; a
  scroll edited meanwhile is replaced by an older copy (`:227`), where the code has a
  `local_newer` conflict for that. `CanonSync` has the behaviour: a pull is `quiet`
  no more once somebody edits one of its files.
* `deliver.ts:251-254`: an error of a bestEffort delivery is tracked only through the
  caller's `onError`; a recovery pass has none and acknowledges an entry whose payload was
  refused. `NothingLost` allows for it by name (`effort`).
* `drain.ts:117` clears the dropped messages of a summary that was made before some of
  them were dropped. `OnlyOverflowLoses` sets queues apart that dropped a message.
* `session-write-lock.ts:484-487`: two callers that judge the same stale lock can remove
  it one after the other, the second one a new lock, and then two write the session;
  a sweep does the same to a lock whose pid is not written yet. `CHANGELOG.md:2833`
  speaks of single-writer locks. `LossExplained` and `OldReleaseHarmless` bound it.

* `session-write-lock.ts:280-282, 343-345`: an error of a read or a stat takes a lock from a
  live process: a sweep removes a young lock it could not read, and a waiting caller one
  whose age it could not tell. `LossExplained` counts both as doubt. If the write of the
  pid fails and the removal does, too (`:471-475`), the file stays until it is old.
* `scroll_index.ts:89-95` truncates the index and then writes it. A stop in between leaves an
  empty file that is newer than every scroll: it is judged fresh at the next start
  (`:141`), and readers fail to parse it until another scroll appears. Two overlapping
  writes, the shorter one last, and a write that fails do the same. `IndexComplete` says that nothing else makes
  the index unreadable (`cut`).
* `scroll_index.ts:141` judges freshness by timestamps: an index written from a walk of before
  a rename can be newer than the scroll it lacks, which stays out until the next write.
  `IndexComplete` confines the loss to such scrolls and those whose refresh failed (`missed`).

No line of the repository claims otherwise in the last three.

## 4. Proofs

Check with `tlapm <module>_proofs.tla`. All obligations are proved by SMT, Zenon and LS4.

| Theorem | States |
| --- | --- |
| `CanonCommit_proofs!TypeCorrect`, `EarlierScrollsSafe`, `PublishedSafe`, `IndexSafe`, `Implements` | types, the three invariants, refinement of `Canon` |
| `CanonSync_proofs!TypeCorrect`, `PulledSafe`, `PeersTruthful`, `QuietComplete` | types and three invariants |
| `CommandQueue_proofs!TypeCorrect`, `AccountsSafe`, `OrderSafe`, `WorkConserving`, `DrainedSafe`, `LimitSafe` | types, four invariants, one action property |
| `DeliveryQueue_proofs!TypeCorrect`, `DeliverySafe`, `RetriesSafe` | types, `NothingLost`, `GivenUpLate` |
| `FollowupQueue_proofs!TypeCorrect`, `AnsweredSafe`, `OrderSafe`, `LossSafe`, `OverlapSafe` | types and four invariants |
| `HeartbeatRunner_proofs!TypeSafe`, `WakesNotForgotten`, `BatchesOneByOne`, `NeverStalled`, `OwedIsKept`, `RunnersImplementWake` | types, three invariants, one action property, refinement of `WakeSpec` |
| `UserStore_proofs!TypeCorrect`, `QuietSafe`, `SettledSafe`, `ScheduleSafe` | types, two action properties, one invariant |
| `SessionLock_proofs!TypeCorrect`, `WriterSafe`, `LossSafe`, `OrphanSafe`, `ReleaseSafe` | types, three invariants, one action property |

Assumptions are those named in each module (`ConstantsAssumption`, `SyncAssumption`,
`QueueAssumption`, `DeliveryAssumption`, `FollowupAssumption`, `WakeAssumption`,
`RunnerAssumption`, `StoreAssumption`, `ScheduleAssumption`, `LockAssumption`): typing of the constants, that
markers (`NoProcess`, `NoItem`, "hand" for people) are none of the things they stand beside, and
that the commands, the callers of a session's lock and the fields of the preferences are
finitely many. TLC evaluates them in every run.

**CanonCommit.** `PublishedValid` alone is not inductive: a rename writes a draft that was
validated awaits earlier. `IInv` adds, per call, what it relies on (`CallInv`): the
names it saw are still on disk, and a draft past validation is still valid. Both
survive the steps of others because files only appear (`DiskGrows`) and validity is
monotone in the files. The refinement then follows: a rename is `Publish`, an index write
is `Reindex`, all else stutters.

`IndexSafe` is about overlapping calls, failures and stops. By `Covered` a scroll that a
readable index lacks was passed over or is newer than the index; by `Awaited` some call has
yet to list or to compare each newer one, unless its refresh failed, and at rest there is
none such; a stop hands the task to the refresh at the next start. `CutInv` says that, unless a write was cut, at most one call
is between truncation and write, and that the index parses when none is.

**CanonSync.** The same idea for pulls: `CallInv` says a pull about to write holds a body
that is valid here: every scroll it refers to is present, except those people may
delete (`Deletable`). `PeersTruthful` is about pulls that end in any order: an entry that says
"syncing" has a pull in progress, and one that does not hides only pulls another one of
the same peer overtook (`StatusInv`); an announcement by the peer must change neither.

For `QuietPullComplete`, `Quiet` says at which file an undisturbed pull is: what it was told
of the peer is what the peer has, its own files from there on are as at the start, and each
earlier one is `Done`: replaced if the peer's was newer and valid, untouched otherwise. A
pull removes no file, so a scroll whose anchors were here at the start is still valid at
its turn.

**CommandQueue.** Operations change the lanes by hand and then drain some. The
invariants are restated for arbitrary lanes (`Accounts`, `Ordered`, `Busy`) and
`DrainKeeps` shows that the pump restores them whatever the operation left, so each
action needs only its own change. `BornBefore` keeps a stale generation from becoming
current again; `ArrivalsBelow` orders a new command after all others of its lane; `AwaitedCount`
links the tasks a restart waits for with the active sets of the generation.

**DeliveryQueue.** An entry is removed long after its payloads went out. `Tracks`
carries through the loop what a worker's place implies: without an observed error and
without a drop, the payloads before the present one were sent. `sent` and `dropped` only
grow, so the other workers cannot break it.

`GivenUpLate` compares a count in a file with the failures that happened, while workers
read, fail and write it in any order. `Late` is the argument by counting: the count in the file, or
the one a worker has read to increase it, plus the number of workers that have failed and
not yet counted it, never exceeds the failures (a history that stops at `MaxRetries`). Two writers of one count lose a failure and so
err on the safe side. What a pass loaded was once in the file (`Reached`), and a pass is at
"move" only after a permanent error or `MaxRetries` failures.

**FollowupQueue.** The items of a queue are in the order of arrival and an overflow removes
the oldest, so what lies behind the first `taken` items is younger than all of the prompt
(`Ordered`, `Fresh`) and is what a completed run leaves. In a queue that dropped nothing
the first `taken` items are in the prompt (`Covered`). `Mapped` relates the objects to the
map, `Accounted` says where every accepted message is. Each part is kept by every
action, in a lemma of its own.

**HeartbeatRunner.** Every step of the runners is one of the wake-up queue or leaves it
alone (`RunnersImplementWake`), so the queue is proved about by itself. `Guarded` says
that the flag of the newest handler's batch is set until an older batch's end clears it, and that
what waits in a batch is among its wakes; `OwedUntilHandled` follows step by step.
`HeartbeatsArmed` counts a call that has answered as serving, so it is not inductive:
`Alive` asks for a wake for all that is pending, waits in a batch, or awaits the run of
an agent, whose end sets the timer; and that the registered runner is not stopped.

**UserStore.** `QuietExact` is about a write that uses what was read awaits before.
`Remembered` says that what an undisturbed call read (the entry it found, the number it
counted, the store it is about to write back) still is what the file has; every write of
another on that file takes the caller out of `quiet`, so that only the default files of
the ensuring could break it, and by `Ensuring` all files are there when a call has
read anything. `Shaped` ties a call's stages to its operation, `Stored` keeps what is written legal.
`StaysSettled` needs that a call fills only what it missed (`Ensuring`).

`ScheduleExact` is arithmetic: the next fire is a slot, the slot before it is answered or a
step ago or more (`FirstAfter`, `Catching`), and between two neighbours there is no slot
(`NoSlotBetween`), so that it is the first of those it may be.

**SessionLock.** The invariant has two layers. `Inner` is inductive by itself: numbers
above `made` are unused, a lock that is being created or closed has one caller, keepers
run in the process that created their lock, and who is about to remove a lock has
judged it (`Judged`), which time does not undo, since what is old, dead or doubted (also by an
error of a read or a stat) stays so. On
it stands `Outer`, the properties: they depend on each other, as a lock without keepers
is an orphan unless its process lost one, and a lost one had its reason. The part no
property states is `LateEntry`: a lock in use that is not in the map of its process was
given up by force, or that process has lost a lock. It is what the race of
`session-write-lock.ts:458` does to the map.

Only model-checked: liveness (`EverySettles`, `EveryEntryResolved`, `EveryMessageLeaves`,
`HeartbeatsGoOn`), which needs fairness and `ENABLED`, out of the prover's reach. The
violated properties of the runs are of course not theorems.

## 5. What is not modelled

Pure functions without state (policy, review, graph, formatting, the heartbeat
evaluator), adapters around external services, and user interfaces have nothing a model
checker adds. SQLite access is one synchronous statement at a time. The daemon's event
stream is a ring of 100 that forgets by design, and everything that touches it is
synchronous. Of the store of sessions only its lock is modelled: under it, a file is read
and written whole. Cron, gateway server, approvals, pairing and the agent runner are
inherited, and left out but for what the modelled parts see of them. The fallback of a
rename on Windows (remove, then rename) is left out. Deliveries may be sent twice by design
and no property says they are not.

## 6. Hazards

`PROJECT.json` lists the hazards of the modelled parts, each with the properties about it.
Some races are in the code, and the property only bounds them: `QuietExact`,
`QuietPullComplete` and `RunsOneByOne` set the disturbed case apart, `OnlyOverflowLoses` the
queues that overflowed or lost their place in the map, `SingleWriter` the locks that were
taken away, `EarlierScrollsKept` does not see one number under two titles, and
`StaysSettled` speaks of files that a call found. Their hazards carry a note that says so,
or, where nothing can be promised, a note alone. Hazards of lesser weight
that are not listed: relayed copies get a fresh modification time (`canon_sync.ts:77`);
two `failDelivery` calls of one process share a temporary file name
(`delivery-queue.ts:126`); the view of running actions forgets one whose start left
the ring (`event_stream.ts:37`); the "finished" event of a sync is published after its
answer (`sync_runtime.ts:118`).

## 7. Conventions

Definitions named `X_what` before `X`, with a comment "Mutant", are plausible mistakes
in `X`; each property of a passing run is violated when one of them takes `X`'s place,
which shows that the run can see such a mistake.

## 8. Plan

All modules of the plan are written and every safety property is a theorem. What is left:

1. **Refinements**: an abstract queue (each command waits, runs once, ends) that
   `CommandQueue` implements, and an abstract outbox (kept, sent, given up) for
   `DeliveryQueue`, in the way of `Canon`.
2. Candidates for models after that: cron store, exec approvals, pairing.
