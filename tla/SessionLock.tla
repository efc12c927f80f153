---------------------------- MODULE SessionLock ----------------------------
(***************************************************************************)
(* The lock file of one session (agents/session-write-lock.ts): processes  *)
(* create it exclusively, write their pid in it, and remove it by name.    *)
(* Inside a process callers share a held lock and count themselves.  A     *)
(* lock that looks stale is removed by whoever finds it.  Every file       *)
(* operation is a step of its own; the state of the lock's map is shared   *)
(* by the callers of a process.                                            *)
(*                                                                         *)
(* Each file ever created has a number.  Ages are abstract: a file becomes *)
(* "old" at any time, and a lock is held "too long" at any time.           *)
(***************************************************************************)
EXTENDS FiniteSets, Integers

CONSTANTS Process,   \* process slots; one that dies is started again with another pid
          Caller,    \* runs that want the session
          ProcessOf, \* the process a caller runs in
          MaxLocks,  \* bound: lock files ever created
          MaxFaults  \* bound: deaths, signals, failures, sweeps, locks that grow old or are
                     \* held too long

Lock == 1..MaxLocks
NoLock == 0
NoProcess == "none"

ASSUME LockAssumption ==
    /\ ProcessOf \in [Caller -> Process] /\ IsFiniteSet(Caller)
    /\ Caller \intersect Process = {} /\ NoProcess \notin Process
    /\ MaxLocks \in Nat /\ MaxFaults \in Nat

VARIABLES file,     \* the lock file there is, or NoLock
          made,     \* how many were created
          creator,  \* creator[l]: the process that created l, while it lives
          written,  \* the locks whose file has its pid
          old,      \* the locks older than callers accept
          held,     \* HELD_LOCKS of each process
          count,    \* count[l]: the callers that share l
          caller,   \* caller[c]: where c is and the lock it is about
          watchdog, \* the lock each process's watchdog is about to remove, or NoLock
          faults,   \* how many so far
          lost,     \* history: the locks whose file was removed under their keepers
          crossed,  \* history: the locks removed by someone who meant another
          forced,   \* history: the locks the watchdog or a signal gave up
          doubted   \* history: the locks a sweep could not find a pid in, that could not be
                    \* removed, read or asked about, or whose pid is another process's

vars == <<file, made, creator, written, old, held, count, caller, watchdog, faults,
          lost, crossed, forced, doubted>>

Place == {"idle", "try", "made", "busy", "stat", "reclaim", "in", "close", "listed", "sweep"}
Idle == [at |-> "idle", lock |-> NoLock]

Init == /\ file = NoLock /\ made = 0
        /\ creator = [l \in Lock |-> NoProcess]
        /\ written = {} /\ old = {}
        /\ held = [p \in Process |-> NoLock]
        /\ count = [l \in Lock |-> 0]
        /\ caller = [c \in Caller |-> Idle]
        /\ watchdog = [p \in Process |-> NoLock]
        /\ faults = 0 /\ lost = {} /\ crossed = {} /\ forced = {} /\ doubted = {}

At(c, place) == caller[c].at = place
Goto(c, place, l) == caller' = [caller EXCEPT ![c] = [at |-> place, lock |-> l]]
Mine(c) == caller[c].lock
\* Who relies on the file of l: to write the session, or to remove the file.
Keepers(l) == {c \in Caller : caller[c].lock = l /\ caller[c].at \in {"made", "in", "close"}}
              \union {p \in Process : watchdog[p] = l}

\* The file is removed by its name, whichever it is by now; the keepers in leaving
\* have no more use for it.
Unlink(meant, leaving) ==
    /\ file' = NoLock
    /\ lost' = IF file # NoLock /\ Keepers(file) \ leaving # {} THEN lost \union {file} ELSE lost
    /\ crossed' = IF file \in {NoLock, meant} THEN crossed ELSE crossed \union {file}
Kept == UNCHANGED <<file, lost, crossed>>
Fault == faults < MaxFaults /\ faults' = faults + 1

----------------------------------------------------------------------------
\* acquireSessionWriteLock up to its first attempt: a held lock is shared.
Acquire(c, allowReentrant) ==
    /\ At(c, "idle")
    /\ LET l == held[ProcessOf[c]]
       IN  IF allowReentrant /\ l # NoLock
           THEN Goto(c, "in", l) /\ count' = [count EXCEPT ![l] = @ + 1]
           ELSE Goto(c, "try", NoLock) /\ UNCHANGED count
    /\ Kept /\ UNCHANGED <<made, creator, written, old, held, watchdog, forced, doubted, faults>>

\* Mutant: the file is created or overwritten.
Open_shared(c) ==
    /\ At(c, "try") /\ made < MaxLocks
    /\ made' = made + 1 /\ file' = made + 1
    /\ creator' = [creator EXCEPT ![made + 1] = ProcessOf[c]]
    /\ Goto(c, "made", made + 1)
    /\ UNCHANGED <<written, old, held, count, watchdog, lost, crossed, forced, doubted, faults>>

\* fs.open(lockPath, "wx").
Open(c) ==
    /\ At(c, "try")
    /\ IF file # NoLock
       THEN Goto(c, "busy", NoLock) /\ UNCHANGED <<file, made, creator>>
       ELSE /\ made < MaxLocks /\ made' = made + 1 /\ file' = made + 1
            /\ creator' = [creator EXCEPT ![made + 1] = ProcessOf[c]]
            /\ Goto(c, "made", made + 1)
    /\ UNCHANGED <<written, old, held, count, watchdog, lost, crossed, forced, doubted, faults>>

\* The pid is written, and the lock is held.
WritePayload(c) ==
    /\ At(c, "made")
    /\ written' = written \union {Mine(c)}
    /\ held' = [held EXCEPT ![ProcessOf[c]] = Mine(c)]
    /\ count' = [count EXCEPT ![Mine(c)] = 1]
    /\ Goto(c, "in", Mine(c))
    /\ Kept /\ UNCHANGED <<made, creator, old, watchdog, forced, doubted, faults>>

\* ... or the write fails: the file is removed, unless that fails, too, and the error of
\* the write is thrown.
WriteFails(c) ==
    /\ At(c, "made") /\ Fault
    /\ \/ Unlink(Mine(c), {c}) /\ UNCHANGED doubted
       \/ Kept /\ doubted' = doubted \union {Mine(c)}
    /\ caller' = [caller EXCEPT ![c] = Idle]
    /\ UNCHANGED <<made, creator, written, old, held, count, watchdog, forced>>

\* The wait is over, or a file cannot be made or removed: an error is thrown.
GiveUp(c) ==
    /\ At(c, "try") \/ At(c, "reclaim") \/ At(c, "sweep")
    /\ caller' = [caller EXCEPT ![c] = Idle]
    /\ Kept
    /\ UNCHANGED <<made, creator, written, old, held, count, watchdog, forced, doubted, faults>>

Dead(l) == creator[l] = NoProcess

\* inspectLockPayload: stale for sure; without a pid or a time only the file's age tells.
Stale(l) == l \in written /\ (Dead(l) \/ l \in old)

\* EEXIST: the file is read, if it is still there.  One that cannot be read counts as
\* one without a pid, and a process that may not be asked about as a dead one.
Inspect(c) ==
    /\ At(c, "busy")
    /\ \/ Stale(file) /\ Goto(c, "reclaim", file) /\ UNCHANGED <<faults, doubted>>
       \/ /\ file \in written /\ ~Stale(file) /\ Goto(c, "try", NoLock)
          /\ UNCHANGED <<faults, doubted>>
       \/ file \notin written /\ Goto(c, "stat", NoLock) /\ UNCHANGED <<faults, doubted>>
       \/ file \in written /\ Fault /\ Goto(c, "stat", NoLock) /\ UNCHANGED doubted
       \/ /\ file \in written /\ Fault /\ Goto(c, "reclaim", file)
          /\ doubted' = doubted \union {file}
    /\ Kept
    /\ UNCHANGED <<made, creator, written, old, held, count, watchdog, forced>>

\* Mutant: a file without a pid is stale at once.
Stat_hasty(c) ==
    /\ At(c, "stat")
    /\ IF file # NoLock THEN Goto(c, "reclaim", file) ELSE Goto(c, "try", NoLock)
    /\ Kept
    /\ UNCHANGED <<made, creator, written, old, held, count, watchdog, forced, doubted, faults>>

\* shouldReclaimContendedLockFile: a file without a pid is stale once it is old, and one
\* whose age cannot be told, but for there being none, at once.
Stat(c) ==
    /\ At(c, "stat")
    /\ \/ file \in old /\ Goto(c, "reclaim", file) /\ UNCHANGED <<faults, doubted>>
       \/ file \notin old /\ Goto(c, "try", NoLock) /\ UNCHANGED <<faults, doubted>>
       \/ Fault /\ Goto(c, "reclaim", file) /\ doubted' = doubted \union ({file} \ {NoLock})
    /\ Kept
    /\ UNCHANGED <<made, creator, written, old, held, count, watchdog, forced>>

Reclaim(c) ==
    /\ At(c, "reclaim")
    /\ Unlink(Mine(c), {})
    /\ Goto(c, "try", NoLock)
    /\ UNCHANGED <<made, creator, written, old, held, count, watchdog, forced, doubted, faults>>

----------------------------------------------------------------------------
\* Mutant: a release does not ask whether the lock is still held.
Release_unasked(c) ==
    /\ At(c, "in")
    /\ IF count[Mine(c)] > 1
       THEN /\ count' = [count EXCEPT ![Mine(c)] = @ - 1]
            /\ caller' = [caller EXCEPT ![c] = Idle] /\ UNCHANGED held
       ELSE /\ count' = [count EXCEPT ![Mine(c)] = 0]
            /\ held' = [held EXCEPT ![ProcessOf[c]] = NoLock]
            /\ Goto(c, "close", Mine(c))
    /\ Kept /\ UNCHANGED <<made, creator, written, old, watchdog, forced, doubted, faults>>

\* Mutant: only the last release counts.
Release_uncounted(c) ==
    /\ At(c, "in")
    /\ LET p == ProcessOf[c]  l == Mine(c)
       IN  IF held[p] # l \/ count[l] > 1
           THEN caller' = [caller EXCEPT ![c] = Idle] /\ UNCHANGED <<count, held>>
           ELSE /\ count' = [count EXCEPT ![l] = 0]
                /\ held' = [held EXCEPT ![p] = NoLock] /\ Goto(c, "close", l)
    /\ Kept /\ UNCHANGED <<made, creator, written, old, watchdog, forced, doubted, faults>>

\* Mutant: the last caller's release is taken for one that leaves others.
Release_offByOne(c) ==
    /\ At(c, "in")
    /\ LET p == ProcessOf[c]  l == Mine(c)
       IN  IF held[p] # l
           THEN caller' = [caller EXCEPT ![c] = Idle] /\ UNCHANGED <<count, held>>
           ELSE /\ count' = [count EXCEPT ![l] = @ - 1]
                /\ IF count[l] >= 1
                   THEN caller' = [caller EXCEPT ![c] = Idle] /\ UNCHANGED held
                   ELSE held' = [held EXCEPT ![p] = NoLock] /\ Goto(c, "close", l)
    /\ Kept /\ UNCHANGED <<made, creator, written, old, watchdog, forced, doubted, faults>>

\* releaseHeldLock by a caller, up to the close of the handle.
Release(c) ==
    /\ At(c, "in")
    /\ LET p == ProcessOf[c]  l == Mine(c)
       IN  IF held[p] # l
           THEN caller' = [caller EXCEPT ![c] = Idle] /\ UNCHANGED <<count, held>>
           ELSE /\ count' = [count EXCEPT ![l] = @ - 1]
                /\ IF count[l] > 1
                   THEN caller' = [caller EXCEPT ![c] = Idle] /\ UNCHANGED held
                   ELSE held' = [held EXCEPT ![p] = NoLock] /\ Goto(c, "close", l)
    /\ Kept /\ UNCHANGED <<made, creator, written, old, watchdog, forced, doubted, faults>>

RemoveOwn(c) ==
    /\ At(c, "close")
    /\ Unlink(Mine(c), {c})
    /\ caller' = [caller EXCEPT ![c] = Idle]
    /\ UNCHANGED <<made, creator, written, old, held, count, watchdog, forced, doubted, faults>>

\* An error of the removal is ignored, and the file stays.
RemoveOwnFails(c) ==
    /\ At(c, "close") /\ Fault
    /\ doubted' = doubted \union {Mine(c)}
    /\ caller' = [caller EXCEPT ![c] = Idle]
    /\ Kept /\ UNCHANGED <<made, creator, written, old, held, count, watchdog, forced>>

\* runLockWatchdogCheck finds a lock that is held too long.
Watchdog(p) ==
    /\ held[p] # NoLock /\ watchdog[p] = NoLock /\ Fault
    /\ count' = [count EXCEPT ![held[p]] = 0]
    /\ held' = [held EXCEPT ![p] = NoLock]
    /\ watchdog' = [watchdog EXCEPT ![p] = held[p]]
    /\ forced' = forced \union {held[p]}
    /\ Kept /\ UNCHANGED <<made, creator, written, old, caller, doubted>>

\* The removal may fail unnoticed.
WatchdogRemoves(p) ==
    /\ watchdog[p] # NoLock
    /\ Unlink(watchdog[p], {p}) \/ Kept
    /\ watchdog' = [watchdog EXCEPT ![p] = NoLock]
    /\ UNCHANGED <<made, creator, written, old, held, count, caller, forced, doubted, faults>>

\* handleTerminationSignal: the held lock is released at once (an error is ignored here,
\* too), and the process goes on while another listener of the signal shuts it down.
Signal(p) ==
    /\ held[p] # NoLock /\ Fault
    /\ Unlink(held[p], {}) \/ Kept
    /\ held' = [held EXCEPT ![p] = NoLock]
    /\ forced' = forced \union {held[p]}
    /\ UNCHANGED <<made, creator, written, old, count, caller, watchdog, doubted>>

\* A process dies without cleaning up.  Its pid is free, or another process has it at
\* once, as the first process of a restarted container does.
Crash(p) ==
    /\ Fault
    /\ \/ /\ creator' = [l \in Lock |-> IF creator[l] = p THEN NoProcess ELSE creator[l]]
          /\ UNCHANGED doubted
       \/ /\ doubted' = doubted \union {l \in Lock : creator[l] = p}
          /\ UNCHANGED creator
    /\ held' = [held EXCEPT ![p] = NoLock]
    /\ caller' = [c \in Caller |-> IF ProcessOf[c] = p THEN Idle ELSE caller[c]]
    /\ watchdog' = [watchdog EXCEPT ![p] = NoLock]
    /\ Kept /\ UNCHANGED <<made, written, old, count, forced>>

\* Time goes by.
Age ==
    /\ file # NoLock /\ old' = old \union {file}
    /\ Fault /\ Kept
    /\ UNCHANGED <<made, creator, written, held, count, caller, watchdog, forced, doubted>>

----------------------------------------------------------------------------
\* cleanStaleLockFiles, at the start of a gateway and in the doctor: the directory is
\* listed, each lock is read, and one that has no pid, that cannot be read or whose process
\* may not be asked about is stale whatever its age.
List(c) ==
    /\ At(c, "idle") /\ file # NoLock
    /\ Fault /\ Goto(c, "listed", NoLock)
    /\ Kept /\ UNCHANGED <<made, creator, written, old, held, count, watchdog, forced, doubted>>

Look(c) ==
    /\ At(c, "listed")
    /\ \/ Stale(file) /\ Goto(c, "sweep", file) /\ UNCHANGED <<faults, doubted>>
       \/ /\ file \in written /\ ~Stale(file)
          /\ caller' = [caller EXCEPT ![c] = Idle] /\ UNCHANGED <<faults, doubted>>
       \/ /\ \/ file \notin written /\ UNCHANGED faults
             \/ file \in written /\ Fault
          /\ Goto(c, "sweep", file) /\ doubted' = doubted \union ({file} \ {NoLock})
    /\ Kept /\ UNCHANGED <<made, creator, written, old, held, count, watchdog, forced>>

Sweep(c) ==
    /\ At(c, "sweep")
    /\ Unlink(Mine(c), {})
    /\ caller' = [caller EXCEPT ![c] = Idle]
    /\ UNCHANGED <<made, creator, written, old, held, count, watchdog, forced, doubted, faults>>

Step(c) == \/ \E allowReentrant \in BOOLEAN : Acquire(c, allowReentrant)
           \/ Open(c) \/ WritePayload(c) \/ WriteFails(c) \/ GiveUp(c)
           \/ Inspect(c) \/ Stat(c) \/ Reclaim(c)
           \/ Release(c) \/ RemoveOwn(c) \/ RemoveOwnFails(c)
           \/ List(c) \/ Look(c) \/ Sweep(c)

Next == \/ \E c \in Caller : Step(c)
        \/ \E p \in Process : Watchdog(p) \/ WatchdogRemoves(p) \/ Signal(p) \/ Crash(p)
        \/ Age

Spec == Init /\ [][Next]_vars

----------------------------------------------------------------------------
TypeOK ==
    /\ file \in Lock \union {NoLock} /\ made \in 0..MaxLocks
    /\ creator \in [Lock -> Process \union {NoProcess}]
    /\ written \subseteq Lock /\ old \subseteq Lock
    /\ held \in [Process -> Lock \union {NoLock}]
    /\ count \in [Lock -> 0..Cardinality(Caller)]
    /\ caller \in [Caller -> [at : Place, lock : Lock \union {NoLock}]]
    /\ watchdog \in [Process -> Lock \union {NoLock}]
    /\ lost \subseteq Lock /\ crossed \subseteq Lock
    /\ forced \subseteq Lock /\ doubted \subseteq Lock /\ faults \in 0..MaxFaults

\* The writers of a session share one lock, the one whose file is there, except those
\* whose file was removed under them (CHANGELOG.md:2833 "enforce single-writer session
\* locks"; session-write-lock.ts:448-463, 119-163).
SingleWriter ==
    \A l \in Lock : Keepers(l) # {} /\ l \notin lost => file = l

\* A lock is lost to its users only when it grew too old, when the watchdog or a signal
\* gave it up, when a sweep found it without a pid, when it or its age could not be read
\* or its process not be asked about, or when it was removed by someone who meant another
\* (session-write-lock.ts:280-282, 318-347, 383-392, 484-487; pid-alive.ts:24-28).
LossExplained == lost \subseteq old \union forced \union doubted \union crossed

\* Only one who reclaims or sweeps a lock judged a moment ago, or whose own lock was lost
\* before, ever removes a lock it does not mean: the release of an old handle, by its
\* caller, the watchdog or a failed write, leaves newer locks alone
\* (session-write-lock.ts:124-127, 472, 485; session-write-lock.test.ts:144).
OldReleaseHarmless ==
    [][\A c \in Caller, p \in Process :
          /\ (At(c, "close") /\ RemoveOwn(c)) \/ (At(c, "made") /\ WriteFails(c)) =>
                crossed' = crossed \/ Mine(c) \in lost \ forced
          /\ watchdog[p] # NoLock /\ WatchdogRemoves(p) =>
                crossed' = crossed \/ watchdog[p] \in lost]_vars

\* Every lock file has somebody who will remove it: a caller or the watchdog of its live
\* process, or its creator is dead and any caller will.  One may have to grow old first
\* only if it could not be removed, was in doubt, or its process had lost another, whose
\* late entry in the map hid it from its own release (session-write-lock.ts:124-156, 458,
\* 464-476).
NoOrphan ==
    file # NoLock /\ ~Dead(file) /\ file \notin forced \union doubted =>
        \/ Keepers(file) # {}
        \/ \E l \in lost : creator[l] = creator[file]
=============================================================================
