------------------------- MODULE SessionLock_proofs -------------------------
(***************************************************************************)
(* Theorems about the lock file of a session, for any number of processes, *)
(* callers, locks and faults.                                              *)
(*                                                                         *)
(* The argument has two layers.  Inside the processes (Inner), nothing is  *)
(* said of the file: the lock in a process's map is shared by exactly the  *)
(* callers it counts, a lock that is being made or removed has one keeper, *)
(* and keepers run in the process that created their lock.  With it the    *)
(* file is followed (Outer): it is the lock of whoever has not lost his,   *)
(* and who removes it is known.                                            *)
(***************************************************************************)
EXTENDS SessionLock, FiniteSetTheorems, TLAPS

USE LockAssumption DEF LockAssumption, Lock, NoLock

Keeping(c) == caller[c].at \in {"made", "in", "close"}
Sharers(l) == {c \in Caller : caller[c].at = "in" /\ caller[c].lock = l}

\* Locks are numbered in the order of their creation.
Numbered ==
    /\ \A c \in Caller : caller[c].lock <= made
    /\ \A c \in Caller : Keeping(c) => caller[c].lock # NoLock
    /\ \A p \in Process : held[p] <= made /\ watchdog[p] <= made
    /\ \A l \in forced \union lost : l <= made

\* A lock that is being made or removed by its caller has no other use.
Sole ==
    \A c \in Caller : caller[c].at \in {"made", "close"} =>
        /\ \A d \in Caller : Keeping(d) /\ caller[d].lock = caller[c].lock => d = c
        /\ \A p \in Process : held[p] # caller[c].lock /\ watchdog[p] # caller[c].lock
        /\ caller[c].lock \notin forced

\* A held lock is shared by the callers of its process that are counted, and by some.
Shared ==
    \A p \in Process, l \in Lock : held[p] = l =>
        /\ Sharers(l) # {}
        /\ count[l] = Cardinality(Sharers(l))
        /\ \A c \in Sharers(l) : ProcessOf[c] = p
        /\ l \notin forced

\* Keepers run in the process that created their lock, as long as it lives.
Owned ==
    /\ \A c \in Caller : Keeping(c) => creator[caller[c].lock] = ProcessOf[c]
    /\ \A p \in Process : watchdog[p] # NoLock => /\ creator[watchdog[p]] = p
                                                  /\ watchdog[p] \in forced

\* Who is about to remove a lock he found had a reason when he judged it.
Judged ==
    \A c \in Caller : caller[c].at \in {"reclaim", "sweep"} =>
        \/ caller[c].lock = NoLock
        \/ caller[c].lock \in old \union doubted
        \/ Dead(caller[c].lock)

Inner == Numbered /\ Sole /\ Shared /\ Owned /\ Judged

\* A lock that is in use but not in the map was given up, or its process has lost a lock.
Burdened(p) == \E l \in lost : creator[l] = p
LateEntry ==
    \A c \in Caller : caller[c].at = "in" /\ held[ProcessOf[c]] # caller[c].lock =>
        caller[c].lock \in forced \/ Burdened(ProcessOf[c])
Outer == file <= made /\ SingleWriter /\ LossExplained /\ LateEntry /\ NoOrphan

IInv == TypeOK /\ Inner /\ Outer

----------------------------------------------------------------------------
(* Types and counts.                                                                  *)

CallerState == [at : Place, lock : Lock \union {NoLock}]

\* A caller that moves is where it went, and the others are where they were.
LEMMA Moved ==
    ASSUME TypeOK, NEW c \in Caller, NEW state \in CallerState,
           caller' = [caller EXCEPT ![c] = state]
    PROVE  /\ caller' \in [Caller -> CallerState] /\ caller'[c] = state
           /\ \A d \in Caller : d # c => caller'[d] = caller[d]
  BY DEF TypeOK, CallerState

LEMMA States ==
    /\ Idle \in CallerState /\ Idle.at = "idle" /\ Idle.lock = NoLock
    /\ \A place \in Place, l \in Lock \union {NoLock} :
          [at |-> place, lock |-> l] \in CallerState
  BY DEF Idle, CallerState, Place

LEMMA Facts ==
    ASSUME TypeOK
    PROVE  /\ caller \in [Caller -> CallerState] /\ made \in Nat /\ made <= MaxLocks
           /\ \A c \in Caller : /\ caller[c] \in CallerState /\ caller[c].at \in Place
                                /\ caller[c].lock \in Lock \union {NoLock}
                                /\ ProcessOf[c] \in Process
           /\ \A p \in Process : /\ held[p] \in Lock \union {NoLock}
                                 /\ watchdog[p] \in Lock \union {NoLock}
           /\ \A l \in Lock : count[l] \in 0..Cardinality(Caller)
           /\ Cardinality(Caller) \in Nat
<1>1. Cardinality(Caller) \in Nat
  BY FS_CardinalityType
<1>2. caller \in [Caller -> CallerState]
  BY DEF TypeOK, CallerState
<1>3. QED
  BY <1>1, <1>2 DEF TypeOK, CallerState

\* What joining and leaving does to the number of callers that share a lock.
LEMMA Sharing ==
    ASSUME NEW l
    PROVE  /\ IsFiniteSet(Sharers(l)) /\ Cardinality(Sharers(l)) \in Nat
           /\ Cardinality(Sharers(l)) <= Cardinality(Caller)
           /\ Sharers(l) # {} <=> Cardinality(Sharers(l)) >= 1
           /\ \A c : /\ Cardinality(Sharers(l) \union {c})
                          = IF c \in Sharers(l) THEN Cardinality(Sharers(l))
                            ELSE Cardinality(Sharers(l)) + 1
                     /\ Cardinality(Sharers(l) \ {c})
                          = IF c \in Sharers(l) THEN Cardinality(Sharers(l)) - 1
                            ELSE Cardinality(Sharers(l))
<1>1. Sharers(l) \in SUBSET Caller
  BY DEF Sharers
<1>2. IsFiniteSet(Sharers(l)) /\ Cardinality(Sharers(l)) <= Cardinality(Caller)
  BY <1>1, FS_Subset
<1>3. Cardinality(Sharers(l)) \in Nat
  BY <1>2, FS_CardinalityType
<1>4. Sharers(l) # {} <=> Cardinality(Sharers(l)) >= 1
  BY <1>2, <1>3, FS_EmptySet
<1>5. QED
  BY <1>2, <1>3, <1>4, FS_AddElement, FS_RemoveElement

\* A lock that is counted down is counted, and one that is shared again has room.
LEMMA Counting ==
    ASSUME TypeOK, Shared, NEW p \in Process, held[p] # NoLock
    PROVE  /\ count[held[p]] >= 1
           /\ \A c \in Caller : c \notin Sharers(held[p]) => count[held[p]] < Cardinality(Caller)
<1>1. count[held[p]] = Cardinality(Sharers(held[p])) /\ Sharers(held[p]) # {}
  BY Facts DEF Shared
<1>2. ASSUME NEW c \in Caller, c \notin Sharers(held[p])
      PROVE  Cardinality(Sharers(held[p])) < Cardinality(Caller)
  <2>1. Sharers(held[p]) \in SUBSET Caller /\ Sharers(held[p]) # Caller
    BY <1>2 DEF Sharers
  <2>2. Cardinality(Sharers(held[p])) # Cardinality(Caller)
    BY <2>1, FS_Subset
  <2>3. QED
    BY <2>2, Sharing, Facts
<1>3. QED
  BY <1>1, <1>2, Sharing

LEMMA TypeInit == Init => TypeOK
<1> SUFFICES ASSUME Init PROVE TypeOK
  OBVIOUS
<1>1. Cardinality(Caller) \in Nat
  BY FS_CardinalityType
<1>2. count \in [Lock -> 0..Cardinality(Caller)]
  BY <1>1 DEF Init
<1>3. caller \in [Caller -> CallerState]
  BY States DEF Init
<1>4. QED
  BY <1>2, <1>3 DEF Init, TypeOK, CallerState

\* Every step of a caller leaves it in some state, and the file and the histories are
\* changed by Unlink at most, except that one opens a new file.
LEMMA UnlinkTypes ==
    ASSUME TypeOK, NEW meant, NEW leaving, Unlink(meant, leaving) \/ Kept
    PROVE  file' \in Lock \union {NoLock} /\ lost' \subseteq Lock /\ crossed' \subseteq Lock
  BY DEF TypeOK, Unlink, Kept

\* The types of what is not a caller's place, the file or a history.
Typed ==
    /\ made \in 0..MaxLocks
    /\ creator \in [Lock -> Process \union {NoProcess}]
    /\ written \subseteq Lock /\ old \subseteq Lock
    /\ held \in [Process -> Lock \union {NoLock}]
    /\ count \in [Lock -> 0..Cardinality(Caller)]
    /\ watchdog \in [Process -> Lock \union {NoLock}]
    /\ forced \subseteq Lock /\ doubted \subseteq Lock /\ faults \in 0..MaxFaults

\* The state a step leaves its caller in.
Leaves(c) == \/ caller' = [caller EXCEPT ![c] = Idle]
             \/ \E place \in Place, l \in Lock \union {NoLock} : Goto(c, place, l)

LEMMA LeavesTyped ==
    ASSUME TypeOK, NEW c \in Caller, Leaves(c) \/ UNCHANGED caller
    PROVE  caller' \in [Caller -> CallerState]
<1>1. CASE caller' = [caller EXCEPT ![c] = Idle]
  BY <1>1, States, Moved
<1>2. ASSUME NEW place \in Place, NEW l \in Lock \union {NoLock}, Goto(c, place, l)
      PROVE  caller' \in [Caller -> CallerState]
  <2>1. [at |-> place, lock |-> l] \in CallerState
    BY States
  <2>2. QED
    BY <1>2, <2>1, Moved DEF Goto
<1>3. CASE UNCHANGED caller
  BY <1>3, Facts
<1>4. QED
  BY <1>1, <1>2, <1>3 DEF Leaves

LEMMA TypeStep == ASSUME TypeOK, Numbered, Shared, [Next]_vars PROVE TypeOK'
<1> USE DEF Typed
<1>1. Typed /\ file \in Lock \union {NoLock} /\ lost \subseteq Lock /\ crossed \subseteq Lock
  BY DEF TypeOK
<1>2. \A c \in Caller : /\ Mine(c) \in Lock \union {NoLock} /\ ProcessOf[c] \in Process
                        /\ held[ProcessOf[c]] \in Lock \union {NoLock}
                        /\ Keeping(c) => Mine(c) # NoLock
  BY Facts DEF Mine, Numbered
<1>3. Fault => faults' \in 0..MaxFaults
  BY <1>1 DEF Fault
<1>4. Cardinality(Caller) \in Nat
  BY Facts
<1>5. {"idle", "try", "made", "busy", "stat", "reclaim", "in", "close", "listed", "sweep"} = Place
  BY DEF Place
<1>6. ASSUME NEW c \in Caller, Leaves(c), Typed',
             file' \in Lock \union {NoLock} /\ lost' \subseteq Lock /\ crossed' \subseteq Lock
      PROVE  TypeOK'
  BY <1>6, LeavesTyped DEF TypeOK, CallerState
<1>7. ASSUME NEW c \in Caller, NEW allowReentrant \in BOOLEAN, Acquire(c, allowReentrant)
      PROVE  TypeOK'
  <2>1. Kept /\ UNCHANGED <<made, creator, written, old, held, watchdog, forced, doubted, faults>>
    BY <1>7 DEF Acquire
  <2>2. Leaves(c)
    BY <1>2, <1>5, <1>7 DEF Acquire, Leaves
  <2>3. count' \in [Lock -> 0..Cardinality(Caller)]
    <3>1. CASE UNCHANGED count
      BY <1>1, <3>1
    <3>2. CASE held[ProcessOf[c]] # NoLock /\ count' = [count EXCEPT ![held[ProcessOf[c]]] = @ + 1]
      <4>1. c \notin Sharers(held[ProcessOf[c]])
        BY <1>7 DEF Acquire, At, Sharers
      <4>2. count[held[ProcessOf[c]]] < Cardinality(Caller)
        BY <1>2, <3>2, <4>1, Counting
      <4>3. QED
        BY <1>1, <1>2, <1>4, <3>2, <4>2
    <3>3. QED
      BY <1>7, <3>1, <3>2 DEF Acquire
  <2>4. QED
    BY <1>1, <1>6, <2>1, <2>2, <2>3, UnlinkTypes
<1>8. ASSUME NEW c \in Caller, Open(c) PROVE TypeOK'
  <2>1. Leaves(c)
    <3>1. CASE file # NoLock
      BY <1>5, <1>8, <3>1 DEF Open, Leaves
    <3>2. CASE file = NoLock
      <4>1. made + 1 \in Lock /\ Goto(c, "made", made + 1)
        BY <1>1, <1>8, <3>2 DEF Open
      <4>2. QED
        BY <1>5, <4>1 DEF Leaves
    <3>3. QED
      BY <3>1, <3>2
  <2>2. Typed'
    <3>1. CASE UNCHANGED <<made, creator>>
      BY <1>1, <1>8, <3>1 DEF Open
    <3>2. CASE made < MaxLocks /\ made' = made + 1 /\ creator' = [creator EXCEPT ![made + 1] = ProcessOf[c]]
      <4>1. made' \in 0..MaxLocks /\ creator' \in [Lock -> Process \union {NoProcess}]
        BY <1>1, <1>2, <3>2
      <4>2. QED
        BY <1>1, <1>8, <4>1 DEF Open
    <3>3. QED
      BY <1>8, <3>1, <3>2 DEF Open
  <2>3. file' \in Lock \union {NoLock} /\ lost' \subseteq Lock /\ crossed' \subseteq Lock
    BY <1>1, <1>8 DEF Open
  <2>4. QED
    BY <1>6, <2>1, <2>2, <2>3
<1>9. ASSUME NEW c \in Caller, WritePayload(c) PROVE TypeOK'
  <2>1. Leaves(c)
    BY <1>2, <1>5, <1>9 DEF WritePayload, Leaves
  <2>2. Mine(c) \in Lock
    BY <1>2, <1>9 DEF WritePayload, At, Keeping
  <2>3. 1 \in 0..Cardinality(Caller)
    BY <1>4, FS_EmptySet
  <2>4. Typed'
    BY <1>1, <1>2, <1>9, <2>2, <2>3 DEF WritePayload
  <2>5. QED
    BY <1>6, <1>9, <2>1, <2>4, UnlinkTypes DEF WritePayload
<1>10. ASSUME NEW c \in Caller, WriteFails(c) \/ GiveUp(c) \/ Inspect(c) \/ Stat(c) \/ Reclaim(c)
       PROVE  TypeOK'
  <2>1. Leaves(c)
    BY <1>1, <1>2, <1>5, <1>10 DEF WriteFails, GiveUp, Inspect, Stat, Reclaim, Leaves
  <2>2. Typed'
    <3>1. WriteFails(c) => Mine(c) \in Lock
      BY <1>2 DEF WriteFails, At, Keeping
    <3>2. doubted' \subseteq Lock
      <4>1. CASE WriteFails(c)
        BY <1>1, <3>1, <4>1 DEF WriteFails
      <4>2. CASE Inspect(c)
        <5>1. \/ doubted' = doubted
              \/ file \in written /\ doubted' = doubted \union {file}
          BY <4>2 DEF Inspect
        <5>2. written \subseteq Lock /\ doubted \subseteq Lock
          BY <1>1
        <5>3. QED
          BY <5>1, <5>2
      <4>3. CASE GiveUp(c) \/ Stat(c) \/ Reclaim(c)
        BY <1>1, <4>3 DEF GiveUp, Stat, Reclaim
      <4>4. QED
        BY <1>10, <4>1, <4>2, <4>3
    <3>3. UNCHANGED <<made, creator, written, old, held, count, watchdog, forced>>
      BY <1>10 DEF WriteFails, GiveUp, Inspect, Stat, Reclaim
    <3>4. faults' \in 0..MaxFaults
      BY <1>1, <1>3, <1>10 DEF WriteFails, GiveUp, Inspect, Stat, Reclaim
    <3>5. QED
      BY <1>1, <3>2, <3>3, <3>4
  <2>3. (\E leaving : Unlink(Mine(c), leaving)) \/ Kept
    BY <1>10 DEF WriteFails, GiveUp, Inspect, Stat, Reclaim
  <2>4. QED
    BY <1>6, <2>1, <2>2, <2>3, UnlinkTypes
<1>11. ASSUME NEW c \in Caller, Release(c) PROVE TypeOK'
  <2>1. Leaves(c)
    BY <1>2, <1>5, <1>11 DEF Release, Leaves
  <2>2. count' \in [Lock -> 0..Cardinality(Caller)]
    <3>1. CASE UNCHANGED count
      BY <1>1, <3>1
    <3>2. CASE held[ProcessOf[c]] = Mine(c) /\ count' = [count EXCEPT ![Mine(c)] = @ - 1]
      <4>1. Mine(c) # NoLock
        BY <1>2, <1>11 DEF Release, At, Keeping
      <4>2. count[Mine(c)] >= 1
        BY <1>2, <3>2, <4>1, Counting
      <4>3. count[Mine(c)] - 1 \in 0..Cardinality(Caller)
        BY <1>1, <1>2, <1>4, <4>1, <4>2
      <4>4. QED
        BY <1>1, <3>2, <4>3
    <3>3. QED
      BY <1>11, <3>1, <3>2 DEF Release
  <2>3. held' \in [Process -> Lock \union {NoLock}]
    BY <1>1, <1>11 DEF Release
  <2>4. Kept /\ UNCHANGED <<made, creator, written, old, watchdog, forced, doubted, faults>>
    BY <1>11 DEF Release
  <2>5. QED
    BY <1>1, <1>6, <2>1, <2>2, <2>3, <2>4, UnlinkTypes
<1>12. ASSUME NEW c \in Caller, RemoveOwn(c) \/ RemoveOwnFails(c) \/ List(c) \/ Look(c) \/ Sweep(c)
       PROVE  TypeOK'
  <2>1. Leaves(c)
    BY <1>1, <1>2, <1>5, <1>12 DEF RemoveOwn, RemoveOwnFails, List, Look, Sweep, Leaves
  <2>2. doubted' \subseteq Lock
    <3>1. CASE RemoveOwnFails(c)
      <4>1. doubted' = doubted \union {Mine(c)} /\ Keeping(c)
        BY <3>1 DEF RemoveOwnFails, At, Keeping
      <4>2. Mine(c) \in Lock
        BY <1>2, <4>1
      <4>3. QED
        BY <1>1, <4>1, <4>2
    <3>2. CASE Look(c)
      BY <1>1, <3>2 DEF Look
    <3>3. QED
      BY <1>1, <1>12, <3>1, <3>2 DEF RemoveOwn, List, Sweep
  <2>3. Typed'
    BY <1>1, <1>3, <1>12, <2>2 DEF RemoveOwn, RemoveOwnFails, List, Look, Sweep
  <2>4. (\E leaving : Unlink(Mine(c), leaving)) \/ Kept
    BY <1>12 DEF RemoveOwn, RemoveOwnFails, List, Look, Sweep
  <2>5. QED
    BY <1>6, <2>1, <2>3, <2>4, UnlinkTypes
<1>13. ASSUME UNCHANGED caller, Typed',
              (\E meant, leaving : Unlink(meant, leaving)) \/ Kept
       PROVE  TypeOK'
  BY <1>1, <1>13, UnlinkTypes DEF TypeOK
<1>14. ASSUME NEW p \in Process, Watchdog(p) \/ WatchdogRemoves(p) \/ Signal(p) PROVE TypeOK'
  <2>1. UNCHANGED caller /\ held[p] \in Lock \union {NoLock}
    BY <1>1, <1>14 DEF Watchdog, WatchdogRemoves, Signal
  <2>2. Typed'
    <3>1. CASE Watchdog(p)
      <4>1. held[p] \in Lock
        BY <2>1, <3>1 DEF Watchdog
      <4>2. 0 \in 0..Cardinality(Caller)
        BY <1>4
      <4>3. count' \in [Lock -> 0..Cardinality(Caller)]
        BY <1>1, <3>1, <4>1, <4>2 DEF Watchdog
      <4>4. QED
        BY <1>1, <1>3, <3>1, <4>1, <4>3 DEF Watchdog
    <3>2. CASE WatchdogRemoves(p)
      BY <1>1, <3>2 DEF WatchdogRemoves
    <3>3. CASE Signal(p)
      BY <1>1, <1>3, <2>1, <3>3 DEF Signal
    <3>4. QED
      BY <1>14, <3>1, <3>2, <3>3
  <2>3. (\E meant, leaving : Unlink(meant, leaving)) \/ Kept
    BY <1>14 DEF Watchdog, WatchdogRemoves, Signal
  <2>4. QED
    BY <1>13, <2>1, <2>2, <2>3
<1>15. ASSUME NEW p \in Process, Crash(p) PROVE TypeOK'
  <2>1. caller' \in [Caller -> CallerState]
    BY <1>15, Facts, States DEF Crash
  <2>2. Typed'
    <3>1. creator' \in [Lock -> Process \union {NoProcess}] /\ doubted' \subseteq Lock
      BY <1>1, <1>15 DEF Crash
    <3>2. QED
      BY <1>1, <1>3, <1>15, <3>1 DEF Crash
  <2>3. QED
    BY <1>15, <2>1, <2>2, UnlinkTypes DEF Crash, TypeOK, CallerState
<1>16. CASE Age
  BY <1>1, <1>3, <1>13, <1>16 DEF Age
<1>17. CASE UNCHANGED vars
  BY <1>1, <1>13, <1>17 DEF vars, Kept
<1>18. QED
  BY <1>7, <1>8, <1>9, <1>10, <1>11, <1>12, <1>14, <1>15, <1>16, <1>17 DEF Next, Step

----------------------------------------------------------------------------
(* Inside the processes.                                                              *)

LEMMA InnerInit == Init => Inner
<1> SUFFICES ASSUME Init PROVE Inner
  OBVIOUS
<1>1. \A c \in Caller : caller[c].at = "idle" /\ caller[c].lock = NoLock
  BY States DEF Init
<1>2. Numbered
  BY <1>1 DEF Init, Numbered, Keeping
<1>3. Sole /\ Shared /\ Owned /\ Judged
  BY <1>1 DEF Init, Sole, Shared, Owned, Judged, Keeping
<1>4. QED
  BY <1>2, <1>3 DEF Inner

\* A lock is lost only if it had keepers.
LEMMA LostNumbered ==
    ASSUME TypeOK, Numbered, (\E meant, leaving : Unlink(meant, leaving)) \/ Kept
    PROVE  \A l \in lost' : l <= made
<1>1. ASSUME Keepers(file) # {}
      PROVE  file <= made
  BY <1>1 DEF Keepers, Numbered
<1>2. QED
  BY <1>1 DEF Unlink, Kept, Numbered, Keepers

\* The process that holds a lock is one, and created it.
LEMMA Holder ==
    ASSUME TypeOK, Inner, NEW p \in Process, NEW l \in Lock, held[p] = l
    PROVE  /\ creator[l] = p /\ l <= made
           /\ \A q \in Process : held[q] = l => q = p
           /\ \A c \in Caller : Keeping(c) /\ caller[c].lock = l => c \in Sharers(l)
           /\ \A q \in Process : watchdog[q] # l
<1>1. PICK c \in Caller : c \in Sharers(l) /\ ProcessOf[c] = p
  <2>1. Sharers(l) # {} /\ \A c \in Sharers(l) : ProcessOf[c] = p
    BY DEF Inner, Shared
  <2>2. QED
    BY <2>1 DEF Sharers
<1>2. creator[l] = p /\ l <= made
  BY <1>1 DEF Inner, Numbered, Owned, Sharers, Keeping
<1>3. \A q \in Process : held[q] = l => q = p
  BY <1>1 DEF Inner, Shared
<1>4. \A d \in Caller : Keeping(d) /\ caller[d].lock = l => d \in Sharers(l)
  BY DEF Inner, Sole, Sharers, Keeping
<1>5. \A q \in Process : watchdog[q] # l
  BY DEF Inner, Owned, Shared
<1>6. QED
  BY <1>2, <1>3, <1>4, <1>5

\* A caller goes where it keeps no lock, and left none that is held.
LEMMA InnerMove ==
    ASSUME TypeOK, Inner, NEW c \in Caller, NEW state \in CallerState,
           caller' = [caller EXCEPT ![c] = state],
           state.at \notin {"made", "in", "close"}, state.lock <= made,
           Keeping(c) => \A p \in Process : held[p] # caller[c].lock,
           state.at \in {"reclaim", "sweep"} =>
               state.lock = NoLock \/ state.lock \in old \union doubted' \/ Dead(state.lock),
           UNCHANGED <<made, creator, old, held, count, watchdog, forced>>, doubted \subseteq doubted',
           (\E meant, leaving : Unlink(meant, leaving)) \/ Kept
    PROVE  Inner'
<1>1. caller'[c] = state /\ \A d \in Caller : d # c => caller'[d] = caller[d]
  BY Moved
<1>2. ~Keeping(c)' /\ \A d \in Caller : Keeping(d)' => d # c /\ Keeping(d)
  BY <1>1 DEF Keeping
<1>3. Numbered'
  BY <1>1, <1>2, LostNumbered DEF Inner, Numbered
<1>4. Sole'
  BY <1>1, <1>2 DEF Inner, Sole, Keeping
<1>5. Shared'
  <2> SUFFICES ASSUME NEW p \in Process, NEW l \in Lock, held[p] = l
               PROVE  /\ Sharers(l)' # {} /\ count[l] = Cardinality(Sharers(l)')
                      /\ \A d \in Sharers(l)' : ProcessOf[d] = p
                      /\ l \notin forced
    BY DEF Shared
  <2>1. Sharers(l)' = Sharers(l)
    BY <1>1 DEF Sharers, Keeping
  <2>2. QED
    BY <2>1 DEF Inner, Shared
<1>6. Owned'
  BY <1>1, <1>2 DEF Inner, Owned
<1>7. Judged'
  BY <1>1 DEF Inner, Judged, Dead
<1>8. QED
  BY <1>3, <1>4, <1>5, <1>6, <1>7 DEF Inner

\* No caller moves, and nobody takes a lock.
LEMMA InnerStay ==
    ASSUME TypeOK, Inner, UNCHANGED <<made, creator, held, count, caller, forced>>,
           old \subseteq old', doubted \subseteq doubted',
           \A p \in Process : watchdog'[p] \in {watchdog[p], NoLock},
           (\E meant, leaving : Unlink(meant, leaving)) \/ Kept
    PROVE  Inner'
<1>1. \A c : Keeping(c)' <=> Keeping(c)
  BY DEF Keeping
<1>2. \A l : Sharers(l)' = Sharers(l)
  BY DEF Sharers
<1>3. Numbered'
  BY <1>1, Facts, LostNumbered DEF Inner, Numbered
<1>4. Sole'
  BY <1>1, Facts DEF Inner, Sole, Numbered, Keeping
<1>5. Shared'
  BY <1>2 DEF Inner, Shared
<1>6. Owned'
  BY <1>1 DEF Inner, Owned
<1>7. Judged'
  BY DEF Inner, Judged, Dead
<1>8. QED
  BY <1>3, <1>4, <1>5, <1>6, <1>7 DEF Inner

\* One more caller of the process shares the lock it holds.
LEMMA InnerJoin ==
    ASSUME TypeOK, Inner, NEW c \in Caller, ~Keeping(c), NEW l \in Lock, held[ProcessOf[c]] = l,
           Goto(c, "in", l), count' = [count EXCEPT ![l] = @ + 1],
           Kept, UNCHANGED <<made, creator, written, old, held, watchdog, forced, doubted>>
    PROVE  Inner'
<1>1. ProcessOf[c] \in Process /\ [at |-> "in", lock |-> l] \in CallerState
  BY Facts, States DEF Place
<1>2. /\ caller'[c] = [at |-> "in", lock |-> l]
      /\ \A d \in Caller : d # c => caller'[d] = caller[d]
  BY <1>1, Moved DEF Goto
<1>3. Numbered'
  BY <1>1, <1>2, Holder DEF Inner, Numbered, Keeping, Kept
<1>4. Sole'
  <2> SUFFICES ASSUME NEW d \in Caller, caller'[d].at \in {"made", "close"}
               PROVE  /\ \A e \in Caller : Keeping(e)' /\ caller'[e].lock = caller'[d].lock => e = d
                      /\ \A p \in Process : held[p] # caller'[d].lock /\ watchdog[p] # caller'[d].lock
                      /\ caller'[d].lock \notin forced
    BY DEF Sole
  <2>1. d # c /\ caller'[d] = caller[d] /\ caller[d].lock # l
    BY <1>1, <1>2 DEF Inner, Sole
  <2>2. QED
    BY <1>2, <2>1 DEF Inner, Sole, Keeping
<1>5. Shared'
  <2> SUFFICES ASSUME NEW p \in Process, NEW m \in Lock, held[p] = m
               PROVE  /\ Sharers(m)' # {} /\ count'[m] = Cardinality(Sharers(m)')
                      /\ \A d \in Sharers(m)' : ProcessOf[d] = p
                      /\ m \notin forced
    BY DEF Shared
  <2>1. /\ Sharers(m) # {} /\ count[m] = Cardinality(Sharers(m))
        /\ \A d \in Sharers(m) : ProcessOf[d] = p
        /\ m \notin forced /\ count[m] \in Nat
    BY Facts DEF Inner, Shared
  <2>2. CASE m = l
    <3>1. Sharers(m)' = Sharers(m) \union {c} /\ c \notin Sharers(m)
      BY <1>2, <2>2 DEF Sharers, Keeping
    <3>2. Cardinality(Sharers(m)') = Cardinality(Sharers(m)) + 1
      BY <3>1, Sharing
    <3>3. count'[m] = count[m] + 1
      BY <2>2 DEF TypeOK
    <3>4. p = ProcessOf[c]
      BY <1>1, <2>2, Holder
    <3>5. QED
      BY <2>1, <3>1, <3>2, <3>3, <3>4
  <2>3. CASE m # l
    <3>1. Sharers(m)' = Sharers(m)
      BY <1>2, <2>3 DEF Sharers, Keeping
    <3>2. count'[m] = count[m]
      BY <2>3 DEF TypeOK
    <3>3. QED
      BY <2>1, <3>1, <3>2
  <2>4. QED
    BY <2>2, <2>3
<1>6. Owned'
  BY <1>1, <1>2, Holder DEF Inner, Owned, Keeping
<1>7. Judged'
  BY <1>2 DEF Inner, Judged, Dead
<1>8. QED
  BY <1>3, <1>4, <1>5, <1>6, <1>7 DEF Inner

\* A new file has a new number, and one keeper.
LEMMA InnerOpen ==
    ASSUME TypeOK, Inner, NEW c \in Caller, At(c, "try"), Open(c), file = NoLock
    PROVE  Inner'
<1>1. /\ made' = made + 1 /\ made + 1 \in Lock /\ made \in Nat
      /\ creator' = [creator EXCEPT ![made + 1] = ProcessOf[c]]
      /\ UNCHANGED <<written, old, held, count, watchdog, lost, forced, doubted>>
  BY Facts DEF Open
<1>2. /\ caller'[c] = [at |-> "made", lock |-> made + 1]
      /\ \A d \in Caller : d # c => caller'[d] = caller[d]
  BY <1>1, States, Moved DEF Open, Goto, Place
<1>3. /\ creator'[made + 1] = ProcessOf[c]
      /\ \A l \in Lock : l <= made => creator'[l] = creator[l]
  BY <1>1 DEF TypeOK
<1>4. ~Keeping(c)
  BY DEF At, Keeping
<1>5. /\ \A d \in Caller : caller[d].lock \in Nat /\ caller[d].lock <= made
      /\ \A p \in Process : /\ held[p] \in Nat /\ watchdog[p] \in Nat
                            /\ held[p] <= made /\ watchdog[p] <= made
      /\ \A l \in forced \union lost : l \in Nat /\ l <= made
  <2>1. Numbered /\ forced \subseteq Lock /\ lost \subseteq Lock
    BY DEF TypeOK, Inner
  <2>2. \A n \in Lock \union {NoLock} : n \in Nat
    OBVIOUS
  <2>3. QED
    BY <2>1, <2>2, Facts DEF Numbered
<1>6. Numbered'
  BY <1>1, <1>2, <1>5 DEF Inner, Numbered, Keeping
<1>7. Sole'
  <2> SUFFICES ASSUME NEW d \in Caller, caller'[d].at \in {"made", "close"}
               PROVE  /\ \A e \in Caller : Keeping(e)' /\ caller'[e].lock = caller'[d].lock => e = d
                      /\ \A p \in Process : held[p] # caller'[d].lock /\ watchdog[p] # caller'[d].lock
                      /\ caller'[d].lock \notin forced
    BY <1>1 DEF Sole
  <2>1. CASE d = c
    BY <1>1, <1>2, <1>5, <2>1
  <2>2. CASE d # c
    BY <1>1, <1>2, <1>5, <2>2 DEF Inner, Sole, Keeping
  <2>3. QED
    BY <2>1, <2>2
<1>8. Shared'
  <2> SUFFICES ASSUME NEW p \in Process, NEW l \in Lock, held[p] = l
               PROVE  /\ Sharers(l)' # {} /\ count[l] = Cardinality(Sharers(l)')
                      /\ \A d \in Sharers(l)' : ProcessOf[d] = p
                      /\ l \notin forced
    BY <1>1 DEF Shared
  <2>1. Sharers(l)' = Sharers(l)
    BY <1>2, <1>4 DEF Sharers, Keeping
  <2>2. QED
    BY <2>1 DEF Inner, Shared
<1>9. Owned'
  <2>1. \A d \in Caller : Keeping(d)' => creator'[caller'[d].lock] = ProcessOf[d]
    <3> SUFFICES ASSUME NEW d \in Caller, Keeping(d)', d # c
                 PROVE  creator'[caller'[d].lock] = ProcessOf[d]
      BY <1>2, <1>3
    <3>1. caller'[d] = caller[d] /\ Keeping(d)
      BY <1>2 DEF Keeping
    <3>2. caller[d].lock \in Lock /\ caller[d].lock <= made
      BY <1>5, <3>1, Facts DEF Inner, Numbered
    <3>3. QED
      BY <1>3, <3>1, <3>2 DEF Inner, Owned
  <2>2. \A p \in Process : watchdog[p] # NoLock => creator'[watchdog[p]] = p /\ watchdog[p] \in forced
    BY <1>3, <1>5, Facts DEF Inner, Owned
  <2>3. QED
    BY <1>1, <2>1, <2>2 DEF Owned
<1>10. Judged'
  <2> SUFFICES ASSUME NEW d \in Caller, caller'[d].at \in {"reclaim", "sweep"}
               PROVE  \/ caller'[d].lock = NoLock
                      \/ caller'[d].lock \in old \union doubted
                      \/ creator'[caller'[d].lock] = NoProcess
    BY <1>1 DEF Judged, Dead
  <2>1. d # c /\ caller'[d] = caller[d]
    BY <1>2
  <2>2. caller[d].lock \in Lock \union {NoLock} /\ caller[d].lock <= made
    BY <1>5, Facts
  <2>3. QED
    BY <1>3, <2>1, <2>2 DEF Inner, Judged, Dead
<1>11. QED
  BY <1>6, <1>7, <1>8, <1>9, <1>10 DEF Inner

\* Who made the file holds the lock alone.
LEMMA InnerWrite ==
    ASSUME TypeOK, Inner, NEW c \in Caller, WritePayload(c)
    PROVE  Inner'
<1>1. PICK l \in Lock : l = caller[c].lock
  BY Facts DEF WritePayload, At, Inner, Numbered, Keeping
<1>2. PICK q \in Process : q = ProcessOf[c]
  BY Facts
<1>3. /\ held' = [held EXCEPT ![q] = l] /\ count' = [count EXCEPT ![l] = 1]
      /\ Goto(c, "in", l) /\ Kept /\ caller[c].at = "made"
      /\ UNCHANGED <<made, creator, old, watchdog, forced, doubted>>
  BY <1>1, <1>2 DEF WritePayload, Mine, At
<1>4. /\ caller'[c] = [at |-> "in", lock |-> l]
      /\ \A d \in Caller : d # c => caller'[d] = caller[d]
  BY <1>3, States, Moved DEF Goto, Place
<1>5. /\ held'[q] = l /\ count'[l] = 1
      /\ \A p \in Process : p # q => held'[p] = held[p]
      /\ \A m \in Lock : m # l => count'[m] = count[m]
  BY <1>3 DEF TypeOK
<1>6. /\ \A d \in Caller : Keeping(d) /\ caller[d].lock = l => d = c
      /\ \A p \in Process : held[p] # l /\ watchdog[p] # l
      /\ l \notin forced /\ l <= made /\ creator[l] = q
  BY <1>1, <1>2, <1>3 DEF Inner, Sole, Numbered, Owned, Keeping
<1>7. Numbered'
  BY <1>3, <1>4, <1>5, <1>6 DEF Inner, Numbered, Keeping, Kept
<1>8. Sole'
  <2> SUFFICES ASSUME NEW d \in Caller, caller'[d].at \in {"made", "close"}
               PROVE  /\ \A e \in Caller : Keeping(e)' /\ caller'[e].lock = caller'[d].lock => e = d
                      /\ \A p \in Process : held'[p] # caller'[d].lock /\ watchdog[p] # caller'[d].lock
                      /\ caller'[d].lock \notin forced
    BY <1>3 DEF Sole
  <2>1. d # c /\ caller'[d] = caller[d]
    BY <1>4
  <2>2. caller[d].lock # l
    BY <1>6, <2>1 DEF Keeping
  <2>3. QED
    BY <1>4, <1>5, <2>1, <2>2 DEF Inner, Sole, Keeping
<1>9. Shared'
  <2> SUFFICES ASSUME NEW p \in Process, NEW m \in Lock, held'[p] = m
               PROVE  /\ Sharers(m)' # {} /\ count'[m] = Cardinality(Sharers(m)')
                      /\ \A d \in Sharers(m)' : ProcessOf[d] = p
                      /\ m \notin forced
    BY <1>3 DEF Shared
  <2>1. CASE p = q
    <3>1. m = l
      BY <1>5, <2>1
    <3>2. Sharers(m)' = {c}
      BY <1>4, <1>6, <3>1 DEF Sharers, Keeping
    <3>3. Cardinality({c}) = 1
      BY FS_Singleton
    <3>4. QED
      BY <1>2, <1>5, <1>6, <2>1, <3>1, <3>2, <3>3
  <2>2. CASE p # q
    <3>1. held[p] = m /\ m # l
      BY <1>5, <1>6, <2>2
    <3>2. Sharers(m)' = Sharers(m)
      BY <1>3, <1>4, <3>1 DEF Sharers
    <3>3. QED
      BY <1>5, <3>1, <3>2 DEF Inner, Shared
  <2>3. QED
    BY <2>1, <2>2
<1>10. Owned'
  BY <1>2, <1>3, <1>4, <1>6 DEF Inner, Owned, Keeping
<1>11. Judged'
  BY <1>3, <1>4 DEF Inner, Judged, Dead
<1>12. QED
  BY <1>7, <1>8, <1>9, <1>10, <1>11 DEF Inner

\* One of several sharers leaves.
LEMMA InnerLeave ==
    ASSUME TypeOK, Inner, NEW c \in Caller, At(c, "in"), NEW l \in Lock, caller[c].lock = l,
           held[ProcessOf[c]] = l, count[l] > 1, caller' = [caller EXCEPT ![c] = Idle],
           count' = [count EXCEPT ![l] = @ - 1],
           Kept, UNCHANGED <<made, creator, old, held, watchdog, forced, doubted>>
    PROVE  Inner'
<1>1. ProcessOf[c] \in Process
  BY Facts
<1>2. caller'[c] = Idle /\ \A d \in Caller : d # c => caller'[d] = caller[d]
  BY Moved, States
<1>3. ~Keeping(c)' /\ \A d \in Caller : Keeping(d)' => d # c /\ Keeping(d)
  BY <1>2, States DEF Keeping
<1>4. Numbered'
  BY <1>2, <1>3, States, Facts DEF Inner, Numbered, Kept
<1>5. Sole'
  BY <1>2, <1>3 DEF Inner, Sole, Keeping
<1>6. Shared'
  <2> SUFFICES ASSUME NEW p \in Process, NEW m \in Lock, held[p] = m
               PROVE  /\ Sharers(m)' # {} /\ count'[m] = Cardinality(Sharers(m)')
                      /\ \A d \in Sharers(m)' : ProcessOf[d] = p
                      /\ m \notin forced
    BY DEF Shared
  <2>1. /\ Sharers(m) # {} /\ count[m] = Cardinality(Sharers(m))
        /\ \A d \in Sharers(m) : ProcessOf[d] = p
        /\ m \notin forced /\ count[m] \in Nat
    BY Facts DEF Inner, Shared
  <2>2. CASE m = l
    <3>1. Sharers(m)' = Sharers(m) \ {c} /\ c \in Sharers(m)
      BY <1>2, <2>2, States DEF Sharers, At
    <3>2. Cardinality(Sharers(m)') = Cardinality(Sharers(m)) - 1
      BY <3>1, Sharing
    <3>3. count'[m] = count[m] - 1
      BY <2>2 DEF TypeOK
    <3>4. Sharers(m)' # {}
      <4>1. Cardinality({c}) = 1 /\ Cardinality(Sharers(m)) > 1
        BY <2>1, <2>2, FS_Singleton
      <4>2. Sharers(m) # {c}
        BY <4>1
      <4>3. QED
        BY <3>1, <4>2
    <3>5. QED
      BY <2>1, <3>1, <3>2, <3>3, <3>4
  <2>3. CASE m # l
    <3>1. Sharers(m)' = Sharers(m)
      BY <1>2, <2>3, States DEF Sharers
    <3>2. count'[m] = count[m]
      BY <2>3 DEF TypeOK
    <3>3. QED
      BY <2>1, <3>1, <3>2
  <2>4. QED
    BY <2>2, <2>3
<1>7. Owned'
  BY <1>2, <1>3 DEF Inner, Owned
<1>8. Judged'
  BY <1>2, States DEF Inner, Judged, Dead
<1>9. QED
  BY <1>4, <1>5, <1>6, <1>7, <1>8 DEF Inner

\* The last sharer takes the lock out of the map, and goes to remove the file.
LEMMA InnerLast ==
    ASSUME TypeOK, Inner, NEW c \in Caller, At(c, "in"), NEW l \in Lock, caller[c].lock = l,
           NEW q \in Process, q = ProcessOf[c], held[q] = l, ~(count[l] > 1),
           held' = [held EXCEPT ![q] = NoLock], Goto(c, "close", l),
           count' = [count EXCEPT ![l] = @ - 1],
           Kept, UNCHANGED <<made, creator, old, watchdog, forced, doubted>>
    PROVE  Inner'
<1>1. /\ caller'[c] = [at |-> "close", lock |-> l]
      /\ \A d \in Caller : d # c => caller'[d] = caller[d]
  BY States, Moved DEF Goto, Place
<1>2. /\ held'[q] = NoLock
      /\ \A p \in Process : p # q => held'[p] = held[p] /\ held[p] # l
      /\ \A m \in Lock : m # l => count'[m] = count[m]
  <2>1. \A p \in Process : p # q => held[p] # l
    BY Holder
  <2>2. QED
    BY <2>1 DEF TypeOK
<1>3. Sharers(l) = {c}
  <2>1. c \in Sharers(l) /\ count[l] = Cardinality(Sharers(l)) /\ count[l] \in Nat
    BY Facts DEF Sharers, At, Inner, Shared
  <2>2. Cardinality(Sharers(l) \ {c}) = Cardinality(Sharers(l)) - 1
    BY <2>1, Sharing
  <2>3. Cardinality(Sharers(l)) <= 1 /\ Cardinality(Sharers(l)) \in Nat
    BY <2>1
  <2>4. IsFiniteSet(Sharers(l) \ {c}) /\ Cardinality(Sharers(l) \ {c}) \in Nat
    <3>1. IsFiniteSet(Sharers(l))
      BY Sharing
    <3>2. IsFiniteSet(Sharers(l) \ {c})
      BY <3>1, FS_Subset
    <3>3. QED
      BY <3>2, FS_CardinalityType
  <2>5. Cardinality(Sharers(l) \ {c}) = 0
    BY <2>2, <2>3, <2>4
  <2>6. Sharers(l) \ {c} = {}
    BY <2>4, <2>5, FS_EmptySet
  <2>7. QED
    BY <2>1, <2>6
<1>4. /\ \A d \in Caller : Keeping(d) /\ caller[d].lock = l => d = c
      /\ \A p \in Process : watchdog[p] # l
      /\ l \notin forced /\ l <= made /\ creator[l] = q
  BY <1>3, Holder DEF Inner, Shared
<1>5. Numbered'
  BY <1>1, <1>2, <1>4, Facts DEF Inner, Numbered, Keeping, Kept
<1>6. Sole'
  <2> SUFFICES ASSUME NEW d \in Caller, caller'[d].at \in {"made", "close"}
               PROVE  /\ \A e \in Caller : Keeping(e)' /\ caller'[e].lock = caller'[d].lock => e = d
                      /\ \A p \in Process : held'[p] # caller'[d].lock /\ watchdog[p] # caller'[d].lock
                      /\ caller'[d].lock \notin forced
    BY DEF Sole
  <2>1. CASE d = c
    BY <1>1, <1>2, <1>4, <2>1 DEF Keeping
  <2>2. CASE d # c
    <3>1. caller'[d] = caller[d] /\ caller[d].lock # NoLock
      BY <1>1, <2>2 DEF Inner, Numbered, Keeping
    <3>2. caller[d].lock # l
      BY <1>4, <2>2, <3>1 DEF Keeping
    <3>3. QED
      BY <1>1, <1>2, <3>1, <3>2 DEF Inner, Sole, Keeping
  <2>3. QED
    BY <2>1, <2>2
<1>7. Shared'
  <2> SUFFICES ASSUME NEW p \in Process, NEW m \in Lock, held'[p] = m
               PROVE  /\ Sharers(m)' # {} /\ count'[m] = Cardinality(Sharers(m)')
                      /\ \A d \in Sharers(m)' : ProcessOf[d] = p
                      /\ m \notin forced
    BY DEF Shared
  <2>1. held[p] = m /\ m # l
    BY <1>2
  <2>2. Sharers(m)' = Sharers(m)
    BY <1>1, <2>1 DEF Sharers
  <2>3. QED
    BY <1>2, <2>1, <2>2 DEF Inner, Shared
<1>8. Owned'
  BY <1>1, <1>4 DEF Inner, Owned, Keeping
<1>9. Judged'
  BY <1>1 DEF Inner, Judged, Dead
<1>10. QED
  BY <1>5, <1>6, <1>7, <1>8, <1>9 DEF Inner

\* The watchdog or a signal takes a lock out of the map under those who share it.
LEMMA InnerForced ==
    ASSUME TypeOK, Inner, NEW q \in Process, Watchdog(q) \/ Signal(q)
    PROVE  Inner'
<1>1. PICK l \in Lock : l = held[q]
  BY Facts DEF Watchdog, Signal
<1>2. /\ held' = [held EXCEPT ![q] = NoLock] /\ forced' = forced \union {l}
      /\ count' \in {count, [count EXCEPT ![l] = 0]}
      /\ watchdog' \in {watchdog, [watchdog EXCEPT ![q] = l]}
      /\ UNCHANGED <<made, creator, old, caller, doubted>>
  BY <1>1 DEF Watchdog, Signal
<1>3. /\ held'[q] = NoLock
      /\ \A p \in Process : p # q => held'[p] = held[p] /\ held[p] # l
      /\ \A m \in Lock : m # l => count'[m] = count[m]
      /\ \A p \in Process : watchdog'[p] = watchdog[p] \/ (p = q /\ watchdog'[p] = l)
  <2>1. \A p \in Process : p # q => held[p] # l
    BY <1>1, Holder
  <2>2. count \in [Lock -> 0..Cardinality(Caller)] /\ held \in [Process -> Lock \union {NoLock}]
        /\ watchdog \in [Process -> Lock \union {NoLock}]
    BY DEF TypeOK
  <2>3. \A m \in Lock : m # l => count'[m] = count[m]
    BY <1>2, <2>2
  <2>4. \A p \in Process : watchdog'[p] = watchdog[p] \/ (p = q /\ watchdog'[p] = l)
    BY <1>2, <2>2
  <2>5. QED
    BY <1>2, <2>1, <2>2, <2>3, <2>4
<1>4. l <= made /\ creator[l] = q
  BY <1>1, Holder
<1>5. \A c : Keeping(c)' <=> Keeping(c)
  BY <1>2 DEF Keeping
<1>6. \A m : Sharers(m)' = Sharers(m)
  BY <1>2 DEF Sharers
<1>7. Numbered'
  <2>1. (\E meant, leaving : Unlink(meant, leaving)) \/ Kept
    BY DEF Watchdog, Signal
  <2>2. QED
    BY <1>2, <1>3, <1>4, <1>5, <2>1, Facts, LostNumbered DEF Inner, Numbered
<1>8. Sole'
  <2> SUFFICES ASSUME NEW d \in Caller, caller[d].at \in {"made", "close"}
               PROVE  /\ \A e \in Caller : Keeping(e) /\ caller[e].lock = caller[d].lock => e = d
                      /\ \A p \in Process : held'[p] # caller[d].lock /\ watchdog'[p] # caller[d].lock
                      /\ caller[d].lock \notin forced'
    BY <1>2, <1>5 DEF Sole
  <2>1. caller[d].lock # l /\ caller[d].lock # NoLock
    BY <1>1 DEF Inner, Sole, Numbered, Keeping
  <2>2. QED
    BY <1>2, <1>3, <2>1 DEF Inner, Sole
<1>9. Shared'
  <2> SUFFICES ASSUME NEW p \in Process, NEW m \in Lock, held'[p] = m
               PROVE  /\ Sharers(m) # {} /\ count'[m] = Cardinality(Sharers(m))
                      /\ \A d \in Sharers(m) : ProcessOf[d] = p
                      /\ m \notin forced'
    BY <1>6 DEF Shared
  <2>1. held[p] = m /\ m # l
    BY <1>3
  <2>2. QED
    BY <1>2, <1>3, <2>1 DEF Inner, Shared
<1>10. Owned'
  <2>1. \A c \in Caller : Keeping(c)' => creator'[caller'[c].lock] = ProcessOf[c]
    BY <1>2, <1>5 DEF Inner, Owned
  <2>2. \A p \in Process : watchdog'[p] # NoLock => creator'[watchdog'[p]] = p /\ watchdog'[p] \in forced'
    BY <1>2, <1>3, <1>4 DEF Inner, Owned
  <2>3. QED
    BY <2>1, <2>2 DEF Owned
<1>11. Judged'
  BY <1>2 DEF Inner, Judged, Dead
<1>12. QED
  BY <1>7, <1>8, <1>9, <1>10, <1>11 DEF Inner

\* A process that dies takes its callers, its map and its watchdog along.
LEMMA InnerCrash ==
    ASSUME TypeOK, Inner, NEW q \in Process, Crash(q)
    PROVE  Inner'
<1>1. /\ held' = [held EXCEPT ![q] = NoLock] /\ watchdog' = [watchdog EXCEPT ![q] = NoLock]
      /\ caller' = [c \in Caller |-> IF ProcessOf[c] = q THEN Idle ELSE caller[c]]
      /\ doubted \subseteq doubted'
      /\ Kept /\ UNCHANGED <<made, old, count, forced>>
  BY DEF Crash
<1>2. \A l \in Lock : creator'[l] = creator[l] \/ (creator[l] = q /\ creator'[l] = NoProcess)
  BY DEF Crash
<1>3. \A c \in Caller : \/ ProcessOf[c] # q /\ caller'[c] = caller[c]
                        \/ ProcessOf[c] = q /\ caller'[c].at = "idle" /\ caller'[c].lock = NoLock
  BY <1>1, States
<1>4. \A p \in Process : IF p = q THEN held'[p] = NoLock /\ watchdog'[p] = NoLock
                                  ELSE held'[p] = held[p] /\ watchdog'[p] = watchdog[p]
  BY <1>1 DEF TypeOK
<1>5. \A c \in Caller : Keeping(c)' => ProcessOf[c] # q /\ Keeping(c) /\ caller'[c] = caller[c]
  BY <1>3 DEF Keeping
<1>6. Numbered'
  BY <1>1, <1>3, <1>4, <1>5, Facts DEF Inner, Numbered, Kept
<1>7. Sole'
  <2> SUFFICES ASSUME NEW d \in Caller, caller'[d].at \in {"made", "close"}
               PROVE  /\ \A e \in Caller : Keeping(e)' /\ caller'[e].lock = caller'[d].lock => e = d
                      /\ \A p \in Process : held'[p] # caller'[d].lock /\ watchdog'[p] # caller'[d].lock
                      /\ caller'[d].lock \notin forced
    BY <1>1 DEF Sole
  <2>1. caller'[d] = caller[d] /\ caller[d].lock # NoLock
    BY <1>5 DEF Keeping, Inner, Numbered
  <2>2. QED
    BY <1>4, <1>5, <2>1 DEF Inner, Sole
<1>8. Shared'
  <2> SUFFICES ASSUME NEW p \in Process, NEW m \in Lock, held'[p] = m
               PROVE  /\ Sharers(m)' # {} /\ count[m] = Cardinality(Sharers(m)')
                      /\ \A d \in Sharers(m)' : ProcessOf[d] = p
                      /\ m \notin forced
    BY <1>1 DEF Shared
  <2>1. p # q /\ held[p] = m
    BY <1>4
  <2>2. \A d \in Sharers(m) : ProcessOf[d] = p
    BY <2>1 DEF Inner, Shared
  <2>3. Sharers(m)' = Sharers(m)
    BY <1>3, <2>1, <2>2 DEF Sharers
  <2>4. QED
    BY <2>1, <2>3 DEF Inner, Shared
<1>9. Owned'
  <2>1. \A c \in Caller : Keeping(c) => caller[c].lock \in Lock /\ creator[caller[c].lock] = ProcessOf[c]
    BY Facts DEF Inner, Numbered, Owned
  <2>2. \A c \in Caller : Keeping(c)' => creator'[caller'[c].lock] = ProcessOf[c]
    BY <1>2, <1>5, <2>1
  <2>3. \A p \in Process : watchdog'[p] # NoLock => creator'[watchdog'[p]] = p /\ watchdog'[p] \in forced
    BY <1>2, <1>4, Facts DEF Inner, Owned
  <2>4. QED
    BY <1>1, <2>2, <2>3 DEF Owned
<1>10. Judged'
  <2> SUFFICES ASSUME NEW d \in Caller, caller'[d].at \in {"reclaim", "sweep"}
               PROVE  \/ caller'[d].lock = NoLock
                      \/ caller'[d].lock \in old \union doubted'
                      \/ creator'[caller'[d].lock] = NoProcess
    BY <1>1 DEF Judged, Dead
  <2>1. caller'[d] = caller[d] /\ caller[d].lock \in Lock \union {NoLock}
    BY <1>3, Facts
  <2>2. QED
    BY <1>1, <1>2, <2>1 DEF Inner, Judged, Dead
<1>11. QED
  BY <1>6, <1>7, <1>8, <1>9, <1>10 DEF Inner

\* What a caller finds is a file that was made.
LEMMA InnerStep == ASSUME TypeOK, Inner, file <= made, [Next]_vars PROVE Inner'
<1>1. ASSUME NEW c \in Caller
      PROVE  /\ ProcessOf[c] \in Process /\ Mine(c) = caller[c].lock
             /\ caller[c].lock \in Lock \union {NoLock} /\ caller[c].lock <= made
             /\ Keeping(c) => caller[c].lock \in Lock
             /\ held[ProcessOf[c]] \in Lock \union {NoLock}
  BY Facts DEF Mine, Inner, Numbered
<1>2. NoLock <= made /\ file \in Lock \union {NoLock}
  BY Facts DEF TypeOK
<1>3. ASSUME NEW c \in Caller, caller' = [caller EXCEPT ![c] = Idle],
             Keeping(c) => \A p \in Process : held[p] # caller[c].lock,
             UNCHANGED <<made, creator, old, held, count, watchdog, forced>>,
             doubted \subseteq doubted', (\E meant, leaving : Unlink(meant, leaving)) \/ Kept
      PROVE  Inner'
  BY <1>2, <1>3, States, InnerMove
<1>4. ASSUME NEW c \in Caller, NEW place \in Place, NEW l \in {NoLock, file},
             Goto(c, place, l), ~Keeping(c), place \notin {"made", "in", "close"},
             l = NoLock \/ place \notin {"reclaim", "sweep"} \/ l \in old \union doubted' \/ Dead(l),
             UNCHANGED <<made, creator, old, held, count, watchdog, forced>>,
             doubted \subseteq doubted', (\E meant, leaving : Unlink(meant, leaving)) \/ Kept
      PROVE  Inner'
  <2> DEFINE state == [at |-> place, lock |-> l]
  <2>1. state \in CallerState /\ state.at = place /\ state.lock = l /\ l <= made
    BY <1>2, <1>4, States
  <2>2. caller' = [caller EXCEPT ![c] = state]
    BY <1>4 DEF Goto
  <2> HIDE DEF state
  <2>3. QED
    BY <1>4, <2>1, <2>2, InnerMove
<1>5. ASSUME NEW c \in Caller, caller[c].at \in {"made", "close"}
      PROVE  \A p \in Process : held[p] # caller[c].lock
  BY <1>5 DEF Inner, Sole
<1>6. {"idle", "try", "made", "busy", "stat", "reclaim", "in", "close", "listed", "sweep"} = Place
  BY DEF Place
<1>7. ASSUME NEW c \in Caller, NEW allowReentrant \in BOOLEAN, Acquire(c, allowReentrant)
      PROVE  Inner'
  <2>1. ~Keeping(c) /\ Kept /\ UNCHANGED <<made, creator, written, old, held, watchdog, forced, doubted>>
    BY <1>7 DEF Acquire, At, Keeping
  <2>2. CASE Goto(c, "try", NoLock) /\ UNCHANGED count
    BY <1>4, <1>6, <2>1, <2>2
  <2>3. ASSUME NEW l \in Lock, held[ProcessOf[c]] = l, Goto(c, "in", l),
               count' = [count EXCEPT ![l] = @ + 1]
        PROVE  Inner'
    BY <2>1, <2>3, InnerJoin
  <2>4. QED
    BY <1>1, <1>7, <2>2, <2>3 DEF Acquire
<1>8. ASSUME NEW c \in Caller, Open(c) PROVE Inner'
  <2>1. CASE file = NoLock
    BY <1>8, <2>1, InnerOpen DEF Open
  <2>2. CASE file # NoLock
    BY <1>4, <1>6, <1>8, <2>2 DEF Open, At, Keeping, Kept
  <2>3. QED
    BY <2>1, <2>2
<1>9. ASSUME NEW c \in Caller, WriteFails(c) \/ RemoveOwn(c) \/ RemoveOwnFails(c) PROVE Inner'
  <2>1. caller[c].at \in {"made", "close"} /\ caller' = [caller EXCEPT ![c] = Idle]
    BY <1>9 DEF WriteFails, RemoveOwn, RemoveOwnFails, At
  <2>2. /\ UNCHANGED <<made, creator, old, held, count, watchdog, forced>> /\ doubted \subseteq doubted'
        /\ (\E meant, leaving : Unlink(meant, leaving)) \/ Kept
    BY <1>9 DEF WriteFails, RemoveOwn, RemoveOwnFails
  <2>3. QED
    BY <1>3, <1>5, <2>1, <2>2
<1>10. ASSUME NEW c \in Caller, GiveUp(c) \/ Sweep(c) PROVE Inner'
  BY <1>3, <1>10 DEF GiveUp, Sweep, At, Keeping
<1>11. ASSUME NEW c \in Caller, Inspect(c) \/ Stat(c) \/ Reclaim(c) \/ List(c) PROVE Inner'
  <2>1. /\ ~Keeping(c) /\ UNCHANGED <<made, creator, old, held, count, watchdog, forced>>
        /\ doubted \subseteq doubted'
        /\ (\E meant, leaving : Unlink(meant, leaving)) \/ Kept
    BY <1>11 DEF Inspect, Stat, Reclaim, List, At, Keeping
  <2>2. \/ \E place \in {"try", "stat", "listed"} : Goto(c, place, NoLock)
        \/ Goto(c, "reclaim", file) /\ (file = NoLock \/ file \in old \union doubted' \/ Dead(file))
    <3>1. CASE Inspect(c)
      BY <3>1 DEF Inspect, Stale
    <3>2. CASE Stat(c)
      BY <3>2 DEF Stat
    <3>3. QED
      BY <1>11, <3>1, <3>2 DEF Reclaim, List
  <2>3. QED
    BY <1>4, <1>6, <2>1, <2>2
<1>12. ASSUME NEW c \in Caller, Look(c) PROVE Inner'
  <2>1. /\ ~Keeping(c) /\ UNCHANGED <<made, creator, old, held, count, watchdog, forced>>
        /\ doubted \subseteq doubted' /\ Kept
    BY <1>12 DEF Look, At, Keeping
  <2>2. CASE caller' = [caller EXCEPT ![c] = Idle]
    BY <1>3, <2>1, <2>2
  <2>3. CASE Goto(c, "sweep", file)
             /\ (file = NoLock \/ file \in old \union doubted' \/ Dead(file))
    BY <1>4, <1>6, <2>1, <2>3
  <2>4. QED
    BY <1>12, <2>2, <2>3 DEF Look, Stale
<1>13. ASSUME NEW c \in Caller, Release(c) PROVE Inner'
  <2>1. PICK l \in Lock, q \in Process : l = caller[c].lock /\ q = ProcessOf[c]
    BY <1>1, <1>13 DEF Release, At, Keeping
  <2>2. At(c, "in") /\ Kept /\ UNCHANGED <<made, creator, old, watchdog, forced, doubted>>
    BY <1>13 DEF Release
  <2>3. CASE held[q] # l /\ caller' = [caller EXCEPT ![c] = Idle] /\ UNCHANGED <<count, held>>
    <3>1. c \in Sharers(l)
      BY <2>1, <2>2 DEF Sharers, At
    <3>2. \A p \in Process : held[p] # l
      BY <2>1, <2>3, <3>1 DEF Inner, Shared
    <3>3. QED
      BY <1>3, <2>1, <2>2, <2>3, <3>2
  <2>4. CASE held[q] = l /\ count' = [count EXCEPT ![l] = @ - 1] /\ count[l] > 1
             /\ caller' = [caller EXCEPT ![c] = Idle] /\ UNCHANGED held
    BY <2>1, <2>2, <2>4, InnerLeave
  <2>5. CASE held[q] = l /\ count' = [count EXCEPT ![l] = @ - 1] /\ ~(count[l] > 1)
             /\ held' = [held EXCEPT ![q] = NoLock] /\ Goto(c, "close", l)
    BY <2>1, <2>2, <2>5, InnerLast
  <2>6. QED
    BY <1>1, <1>13, <2>1, <2>3, <2>4, <2>5 DEF Release
<1>14. ASSUME NEW p \in Process, WatchdogRemoves(p) PROVE Inner'
  <2>1. \A q \in Process : watchdog'[q] \in {watchdog[q], NoLock}
    BY <1>14 DEF WatchdogRemoves, TypeOK
  <2>2. QED
    BY <1>14, <2>1, InnerStay DEF WatchdogRemoves
<1>15. CASE Age \/ UNCHANGED vars
  BY <1>15, InnerStay DEF Age, vars, Kept
<1>16. QED
  BY <1>7, <1>8, <1>9, <1>10, <1>11, <1>12, <1>13, <1>14, <1>15, InnerWrite, InnerForced, InnerCrash
     DEF Next, Step

----------------------------------------------------------------------------
(* The file.                                                                          *)

LEMMA KeepersAre ==
    \A l, k : k \in Keepers(l) <=> \/ k \in Caller /\ Keeping(k) /\ caller[k].lock = l
                                   \/ k \in Process /\ watchdog[k] = l
  BY DEF Keepers, Keeping

\* A lock with keepers was made by a process that lives.
LEMMA KeptAlive ==
    ASSUME TypeOK, Inner, NEW l \in Lock, Keepers(l) # {}
    PROVE  l <= made /\ creator[l] \in Process
  BY KeepersAre, Facts DEF Inner, Numbered, Owned

\* The step leaves the explanations of earlier losses and the creators of lost locks.
Grows == /\ old \subseteq old' /\ forced \subseteq forced' /\ doubted \subseteq doubted'

\* A removal: who still keeps the file has lost it, with a reason.
LEMMA OuterUnlink ==
    ASSUME TypeOK, Inner, Outer, NEW meant, NEW leaving, Unlink(meant, leaving), Grows, LateEntry',
           UNCHANGED made, \A l \in Lock : Keepers(l)' \subseteq Keepers(l) \ leaving,
           file = meant /\ file # NoLock =>
               Keepers(meant) \ leaving = {} \/ meant \in old \union forced' \union doubted
    PROVE  Outer'
<1>1. file' = NoLock /\ made \in Nat /\ file \in Lock \union {NoLock}
  BY Facts DEF Unlink, TypeOK
<1>2. SingleWriter'
  <2> SUFFICES ASSUME NEW l \in Lock, Keepers(l)' # {} PROVE l \in lost'
    BY DEF SingleWriter
  <2>1. Keepers(l) \ leaving # {}
    OBVIOUS
  <2>2. CASE l \in lost
    BY <2>2 DEF Unlink
  <2>3. CASE file = l
    BY <2>1, <2>3 DEF Unlink
  <2>4. QED
    BY <2>1, <2>2, <2>3 DEF Outer, SingleWriter
<1>3. LossExplained'
  <2> SUFFICES ASSUME NEW l \in lost' PROVE l \in old' \union forced' \union doubted' \union crossed'
    BY DEF LossExplained
  <2>1. crossed \subseteq crossed'
    BY DEF Unlink
  <2>2. CASE l \in lost
    BY <2>1, <2>2 DEF Outer, LossExplained, Grows
  <2>3. CASE l \notin lost
    <3>1. l = file /\ file # NoLock /\ Keepers(file) \ leaving # {}
      BY <2>3 DEF Unlink
    <3>2. CASE file = meant
      BY <3>1, <3>2 DEF Grows
    <3>3. CASE file # meant
      BY <3>1, <3>3 DEF Unlink
    <3>4. QED
      BY <3>2, <3>3
  <2>4. QED
    BY <2>2, <2>3
<1>4. NoOrphan'
  BY <1>1 DEF NoOrphan
<1>5. QED
  BY <1>1, <1>2, <1>3, <1>4 DEF Outer

\* No removal: nobody new needs the file, and the last who does leaves it to somebody.
LEMMA OuterKept ==
    ASSUME TypeOK, Inner, Outer, Kept, Grows, LateEntry', UNCHANGED <<made, creator>>,
           \A l \in Lock : Keepers(l)' # {} => Keepers(l) # {},
           \A l \in Lock : l = file /\ Keepers(l) # {} =>
              \/ Keepers(l)' # {} \/ l \in forced' \union doubted'
              \/ \E m \in lost : creator[m] = creator[l]
    PROVE  Outer'
<1>1. file' = file /\ lost' = lost /\ crossed' = crossed
  BY DEF Kept
<1>2. SingleWriter'
  BY <1>1 DEF Outer, SingleWriter
<1>3. LossExplained'
  BY <1>1 DEF Outer, LossExplained, Grows
<1>4. NoOrphan'
  <2> SUFFICES ASSUME NEW l \in Lock, l = file, creator[l] # NoProcess, l \notin forced' \union doubted'
               PROVE  Keepers(l)' # {} \/ \E m \in lost : creator[m] = creator[l]
    BY <1>1 DEF NoOrphan, Dead, TypeOK
  <2>1. l \notin forced \union doubted
    BY DEF Grows
  <2>2. Keepers(l) # {} \/ \E m \in lost : creator[m] = creator[l]
    BY <2>1 DEF Outer, NoOrphan, Dead
  <2>3. QED
    BY <2>2
<1>5. QED
  BY <1>1, <1>2, <1>3, <1>4 DEF Outer

\* Callers that hold a lock besides the map's do so for the reasons they had before.
LEMMA LateKept ==
    ASSUME TypeOK, Inner, Outer, Grows, lost \subseteq lost',
           \A l \in lost : creator'[l] = creator[l],
           \A c \in Caller : caller'[c].at = "in" =>
              \/ held'[ProcessOf[c]] = caller'[c].lock
              \/ /\ caller[c].at = "in" /\ caller[c].lock = caller'[c].lock
                 /\ held[ProcessOf[c]] # caller[c].lock \/ caller[c].lock \in forced'
    PROVE  LateEntry'
<1> SUFFICES ASSUME NEW c \in Caller, caller'[c].at = "in", held'[ProcessOf[c]] # caller'[c].lock
             PROVE  caller'[c].lock \in forced' \/ \E l \in lost' : creator'[l] = ProcessOf[c]
  BY DEF LateEntry, Burdened
<1>1. /\ caller[c].at = "in" /\ caller[c].lock = caller'[c].lock
      /\ held[ProcessOf[c]] # caller[c].lock \/ caller[c].lock \in forced'
  OBVIOUS
<1>2. CASE caller[c].lock \in forced'
  BY <1>1, <1>2
<1>3. CASE held[ProcessOf[c]] # caller[c].lock
  <2>1. caller[c].lock \in forced \/ \E l \in lost : creator[l] = ProcessOf[c]
    BY <1>1, <1>3 DEF Outer, LateEntry, Burdened
  <2>2. QED
    BY <1>1, <2>1 DEF Grows
<1>4. QED
  BY <1>1, <1>2, <1>3

LEMMA OuterInit == Init => Outer
<1> SUFFICES ASSUME Init PROVE Outer
  OBVIOUS
<1>1. \A c \in Caller : caller[c].at = "idle"
  BY States DEF Init
<1>2. \A l \in Lock : Keepers(l) = {}
  BY <1>1 DEF Init, Keepers
<1>3. SingleWriter /\ LossExplained /\ LateEntry /\ NoOrphan
  BY <1>1, <1>2 DEF Init, SingleWriter, LossExplained, LateEntry, NoOrphan
<1>4. QED
  BY <1>3 DEF Init, Outer

\* A caller moves without a lock before or after: the file is kept, or a lock it
\* judged is removed.
LEMMA OuterMove ==
    ASSUME TypeOK, Inner, Outer, NEW c \in Caller, NEW state \in CallerState,
           caller' = [caller EXCEPT ![c] = state], ~Keeping(c),
           state.at \notin {"made", "in", "close"},
           UNCHANGED <<made, creator, old, held, watchdog, forced>>, doubted \subseteq doubted',
           Kept \/ (Unlink(caller[c].lock, {}) /\ caller[c].at \in {"reclaim", "sweep"})
    PROVE  Outer'
<1>1. caller'[c] = state /\ \A d \in Caller : d # c => caller'[d] = caller[d]
  BY Moved
<1>2. \A d \in Caller : Keeping(d)' => d # c
  BY <1>1 DEF Keeping
<1>3. \A l : Keepers(l)' = Keepers(l)
  BY <1>1 DEF Keepers, Keeping
<1>4. Grows
  BY DEF Grows
<1>5. lost \subseteq lost'
  BY DEF Kept, Unlink
<1>6. LateEntry'
  <2>1. \A d \in Caller : caller'[d].at = "in" =>
            caller[d].at = "in" /\ caller[d].lock = caller'[d].lock
    BY <1>1
  <2>2. QED
    BY <1>4, <1>5, <2>1, LateKept DEF TypeOK
<1>7. CASE Kept
  BY <1>3, <1>4, <1>6, <1>7, OuterKept
<1>8. CASE Unlink(caller[c].lock, {}) /\ caller[c].at \in {"reclaim", "sweep"}
  <2>1. PICK meant : meant = caller[c].lock
    OBVIOUS
  <2>2. meant = NoLock \/ meant \in old \union doubted \/ Dead(meant)
    BY <1>8, <2>1 DEF Inner, Judged
  <2>3. Dead(meant) /\ meant \in Lock => Keepers(meant) = {}
    BY KeptAlive DEF Dead
  <2>4. meant \in Lock \union {NoLock}
    BY <2>1, Facts
  <2>5. \A l \in Lock : Keepers(l)' \subseteq Keepers(l) \ {}
    BY <1>3
  <2>6. meant # NoLock => Keepers(meant) \ {} = {} \/ meant \in old \union forced' \union doubted
    BY <2>2, <2>3, <2>4
  <2>7. Unlink(meant, {})
    BY <1>8, <2>1
  <2>8. QED
    BY <1>4, <1>6, <2>5, <2>6, <2>7, OuterUnlink
<1>9. QED
  BY <1>7, <1>8

\* Somebody new joins a held lock, or writes the file he made.
LEMMA OuterEnter ==
    ASSUME TypeOK, Inner, Outer, NEW c \in Caller, NEW l \in Lock, Keepers(l) # {},
           Goto(c, "in", l), Keeping(c) => caller[c].lock = l, LateEntry', Kept,
           UNCHANGED <<made, creator, old, watchdog, forced, doubted>>
    PROVE  Outer'
<1>1. /\ caller'[c] = [at |-> "in", lock |-> l]
      /\ \A d \in Caller : d # c => caller'[d] = caller[d]
  BY States, Moved DEF Goto, Place
<1>2. \A m, k : k \in Keepers(m)' <=> \/ k \in Keepers(m)
                                      \/ k = c /\ m = l
  BY <1>1 DEF Keepers, Keeping
<1>3. \A m \in Lock : /\ Keepers(m)' # {} => Keepers(m) # {}
                      /\ Keepers(m) # {} => Keepers(m)' # {}
  BY <1>2
<1>4. Grows
  BY DEF Grows
<1>5. QED
  BY <1>3, <1>4, OuterKept

LEMMA OuterAcquire ==
    ASSUME TypeOK, Inner, Outer, NEW c \in Caller, NEW allowReentrant \in BOOLEAN,
           Acquire(c, allowReentrant)
    PROVE  Outer'
<1>1. /\ ~Keeping(c) /\ Kept /\ At(c, "idle")
      /\ UNCHANGED <<made, creator, written, old, held, watchdog, forced, doubted>>
  BY DEF Acquire, At, Keeping
<1>2. CASE Goto(c, "try", NoLock)
  BY <1>1, <1>2, States, OuterMove DEF Goto, Place
<1>3. ASSUME NEW l \in Lock, held[ProcessOf[c]] = l, Goto(c, "in", l)
      PROVE  Outer'
  <2>1. /\ caller'[c] = [at |-> "in", lock |-> l]
        /\ \A d \in Caller : d # c => caller'[d] = caller[d]
    BY <1>3, States, Moved DEF Goto, Place
  <2>2. LateEntry'
    <3>1. Grows /\ lost' = lost
      BY <1>1 DEF Grows, Kept
    <3>2. \A d \in Caller : caller'[d].at = "in" =>
              \/ held'[ProcessOf[d]] = caller'[d].lock
              \/ caller[d].at = "in" /\ caller[d].lock = caller'[d].lock
                 /\ held[ProcessOf[d]] # caller[d].lock
      BY <1>1, <1>3, <2>1
    <3>3. QED
      BY <1>1, <3>1, <3>2, LateKept
  <2>3. Keepers(l) # {}
    <3>1. PICK d \in Caller : d \in Sharers(l)
      <4>1. Sharers(l) # {}
        BY <1>3, Facts DEF Inner, Shared
      <4>2. QED
        BY <4>1 DEF Sharers
    <3>2. d \in Keepers(l)
      BY <3>1 DEF Sharers, Keepers
    <3>3. QED
      BY <3>2
  <2>4. QED
    BY <1>1, <1>3, <2>2, <2>3, OuterEnter
<1>4. QED
  BY <1>2, <1>3, Facts DEF Acquire

\* Who writes his file while the map holds another lock: one of the two is lost.
LEMMA OuterWrite ==
    ASSUME TypeOK, Inner, Outer, NEW c \in Caller, WritePayload(c)
    PROVE  Outer'
<1>1. PICK l \in Lock : l = caller[c].lock
  BY Facts DEF WritePayload, At, Inner, Numbered, Keeping
<1>2. PICK q \in Process : q = ProcessOf[c]
  BY Facts
<1>3. /\ held' = [held EXCEPT ![q] = l] /\ Goto(c, "in", l) /\ Kept /\ caller[c].at = "made"
      /\ UNCHANGED <<made, creator, old, watchdog, forced, doubted>>
  BY <1>1, <1>2 DEF WritePayload, Mine, At
<1>4. /\ caller'[c] = [at |-> "in", lock |-> l]
      /\ \A d \in Caller : d # c => caller'[d] = caller[d]
  BY <1>3, States, Moved DEF Goto, Place
<1>5. held'[q] = l /\ \A p \in Process : p # q => held'[p] = held[p]
  BY <1>3 DEF TypeOK
<1>6. c \in Keepers(l) /\ creator[l] = q
  BY <1>1, <1>2, <1>3 DEF Keepers, Inner, Owned, Keeping
<1>7. LateEntry'
  <2> SUFFICES ASSUME NEW d \in Caller, caller'[d].at = "in", held'[ProcessOf[d]] # caller'[d].lock
               PROVE  caller'[d].lock \in forced' \/ \E m \in lost' : creator'[m] = ProcessOf[d]
    BY DEF LateEntry, Burdened
  <2>1. d # c /\ caller'[d] = caller[d] /\ caller[d].lock \in Lock
    BY <1>2, <1>4, <1>5, Facts DEF Inner, Numbered, Keeping
  <2>2. CASE held[ProcessOf[d]] # caller[d].lock
    BY <1>3, <2>1, <2>2 DEF Outer, LateEntry, Burdened, Kept
  <2>3. CASE held[ProcessOf[d]] = caller[d].lock
    <3>1. ProcessOf[d] = q /\ caller[d].lock # l
      BY <1>5, <2>1, <2>3, Facts
    <3>2. d \in Keepers(caller[d].lock) /\ creator[caller[d].lock] = q
      BY <2>1, <3>1 DEF Keepers, Inner, Owned, Keeping
    <3>3. l \in lost \/ caller[d].lock \in lost
      BY <1>6, <2>1, <3>1, <3>2 DEF Outer, SingleWriter
    <3>4. QED
      BY <1>3, <1>6, <3>1, <3>2, <3>3 DEF Kept
  <2>4. QED
    BY <2>2, <2>3
<1>8. QED
  BY <1>1, <1>3, <1>6, <1>7, OuterEnter

\* A new file has its maker.
LEMMA OuterOpen ==
    ASSUME TypeOK, Inner, Outer, NEW c \in Caller, Open(c)
    PROVE  Outer'
<1>1. CASE file # NoLock
  <2>1. Goto(c, "busy", NoLock) /\ ~Keeping(c) /\ Kept
        /\ UNCHANGED <<made, creator, old, held, watchdog, forced, doubted>>
    BY <1>1 DEF Open, At, Keeping, Kept
  <2>2. QED
    BY <2>1, States, OuterMove DEF Goto, Place
<1>2. CASE file = NoLock
  <2>1. PICK l \in Lock : l = made + 1
    BY <1>2, Facts DEF Open
  <2>2. /\ made' = l /\ file' = l /\ creator' = [creator EXCEPT ![l] = ProcessOf[c]]
        /\ Goto(c, "made", l) /\ caller[c].at = "try" /\ l # NoLock
        /\ UNCHANGED <<old, held, watchdog, lost, crossed, forced, doubted>>
    BY <1>2, <2>1, Facts DEF Open, At
  <2>3. /\ caller'[c] = [at |-> "made", lock |-> l]
        /\ \A d \in Caller : d # c => caller'[d] = caller[d]
    BY <2>2, States, Moved DEF Goto, Place
  <2>4. \A m \in lost : m # l /\ creator'[m] = creator[m]
    <3>1. \A m \in lost : m \in Lock /\ m <= made
      BY DEF TypeOK, Inner, Numbered
    <3>2. QED
      BY <2>1, <2>2, <3>1, Facts DEF TypeOK
  <2>5. c \in Keepers(l)' /\ \A m : m # l => Keepers(m)' = Keepers(m)
    BY <2>2, <2>3 DEF Keepers
  <2>6. SingleWriter'
    BY <1>2, <2>2, <2>5 DEF Outer, SingleWriter
  <2>7. LossExplained'
    BY <2>2 DEF Outer, LossExplained
  <2>8. LateEntry'
    <3>1. \A d \in Caller : caller'[d].at = "in" => d # c /\ caller'[d] = caller[d]
      BY <2>3
    <3>2. Grows
      BY <2>2 DEF Grows
    <3>3. QED
      BY <2>2, <2>4, <3>1, <3>2, LateKept
  <2>9. NoOrphan'
    <3>1. \E k : k \in Keepers(l)'
      BY <2>5
    <3>2. QED
      BY <2>2, <3>1 DEF NoOrphan, Keepers
  <2>10. QED
    BY <2>2, <2>6, <2>7, <2>8, <2>9, Facts DEF Outer
<1>3. QED
  BY <1>1, <1>2

\* A caller that made or closed a lock is done with it, removed or not.
LEMMA OuterDone ==
    ASSUME TypeOK, Inner, Outer, NEW c \in Caller, NEW l \in Lock, caller[c].lock = l,
           caller[c].at \in {"made", "close"}, caller' = [caller EXCEPT ![c] = Idle],
           UNCHANGED <<made, creator, old, held, watchdog, forced>>, doubted \subseteq doubted',
           Unlink(l, {c}) \/ (Kept /\ l \in doubted')
    PROVE  Outer'
<1>1. caller'[c] = Idle /\ \A d \in Caller : d # c => caller'[d] = caller[d]
  BY States, Moved
<1>2. \A m, k : k \in Keepers(m)' <=> k \in Keepers(m) /\ k # c
  BY <1>1, States DEF Keepers, Keeping
<1>3. Keepers(l) = {c}
  BY KeepersAre DEF Inner, Sole, Keeping
<1>4. Grows /\ lost \subseteq lost'
  BY DEF Grows, Kept, Unlink
<1>5. LateEntry'
  <2>1. \A d \in Caller : caller'[d].at = "in" =>
            caller[d].at = "in" /\ caller[d].lock = caller'[d].lock
    BY <1>1, States
  <2>2. QED
    BY <1>4, <2>1, LateKept
<1>6. CASE Unlink(l, {c})
  <2>1. \A m \in Lock : Keepers(m)' \subseteq Keepers(m) \ {c}
    BY <1>2
  <2>2. QED
    BY <1>3, <1>4, <1>5, <1>6, <2>1, OuterUnlink
<1>7. CASE Kept /\ l \in doubted'
  <2>1. \A m \in Lock : Keepers(m)' # {} => Keepers(m) # {}
    BY <1>2
  <2>2. \A m \in Lock : Keepers(m) # {} => Keepers(m)' # {} \/ m = l
    <3> SUFFICES ASSUME NEW m \in Lock, Keepers(m) # {}, m # l PROVE Keepers(m)' # {}
      OBVIOUS
    <3>1. c \notin Keepers(m)
      BY KeepersAre DEF Keeping
    <3>2. QED
      BY <1>2, <3>1
  <2>3. QED
    BY <1>4, <1>5, <1>7, <2>1, <2>2, OuterKept
<1>8. QED
  BY <1>6, <1>7

\* A release: the lock was given up before, others share it, or it is closed first.
LEMMA OuterRelease ==
    ASSUME TypeOK, Inner, Outer, Inner', NEW c \in Caller, Release(c)
    PROVE  Outer'
<1>1. PICK l \in Lock : l = caller[c].lock
  BY Facts DEF Release, At, Inner, Numbered, Keeping
<1>2. PICK q \in Process : q = ProcessOf[c]
  BY Facts
<1>3. caller[c].at = "in" /\ Kept /\ UNCHANGED <<made, creator, old, watchdog, forced, doubted>>
  BY DEF Release, At
<1>4. Grows /\ lost' = lost
  BY <1>3 DEF Grows, Kept
<1>5. ASSUME caller' = [caller EXCEPT ![c] = Idle], UNCHANGED held,
             \/ \E k : k \in Keepers(l)'
             \/ l \in forced \/ \E m \in lost : creator[m] = creator[l]
      PROVE  Outer'
  <2>1. caller'[c] = Idle /\ \A d \in Caller : d # c => caller'[d] = caller[d]
    BY <1>5, States, Moved
  <2>2. \A m, k : k \in Keepers(m)' <=> k \in Keepers(m) /\ k # c
    BY <1>3, <2>1, States DEF Keepers, Keeping
  <2>3. LateEntry'
    <3>1. \A d \in Caller : caller'[d].at = "in" =>
              caller[d].at = "in" /\ caller[d].lock = caller'[d].lock
      BY <2>1, States
    <3>2. QED
      BY <1>3, <1>4, <1>5, <3>1, LateKept
  <2>4. \A m \in Lock : Keepers(m)' # {} => Keepers(m) # {}
    BY <2>2
  <2>5. \A m \in Lock : Keepers(m) # {} /\ m # l => Keepers(m)' # {}
    <3> SUFFICES ASSUME NEW m \in Lock, Keepers(m) # {}, m # l PROVE Keepers(m)' # {}
      OBVIOUS
    <3>1. c \notin Keepers(m)
      BY <1>1, KeepersAre
    <3>2. QED
      BY <2>2, <3>1
  <2>6. \A m \in Lock : Keepers(m) # {} =>
            \/ Keepers(m)' # {} \/ m \in forced' \/ \E n \in lost : creator[n] = creator[m]
    BY <1>3, <1>5, <2>5
  <2>7. QED
    BY <1>3, <1>4, <2>3, <2>4, <2>6, OuterKept
<1>6. CASE held[q] # l /\ caller' = [caller EXCEPT ![c] = Idle] /\ UNCHANGED held
  <2>1. l \in forced \/ \E m \in lost : creator[m] = q
    BY <1>1, <1>2, <1>3, <1>6 DEF Outer, LateEntry, Burdened
  <2>2. creator[l] = q
    BY <1>1, <1>2, <1>3 DEF Inner, Owned, Keeping
  <2>3. QED
    BY <1>5, <1>6, <2>1, <2>2
<1>7. CASE held[q] = l /\ caller' = [caller EXCEPT ![c] = Idle] /\ UNCHANGED held
  <2>1. \E k : k \in Sharers(l)'
    BY <1>7 DEF Inner, Shared
  <2>2. \E k : k \in Keepers(l)'
    BY <2>1 DEF Sharers, Keepers
  <2>3. QED
    BY <1>5, <1>7, <2>2
<1>8. CASE held[q] = l /\ held' = [held EXCEPT ![q] = NoLock] /\ Goto(c, "close", l)
  <2>1. /\ caller'[c] = [at |-> "close", lock |-> l]
        /\ \A d \in Caller : d # c => caller'[d] = caller[d]
    BY <1>8, States, Moved DEF Goto, Place
  <2>2. \A m : Keepers(m)' = Keepers(m)
    BY <1>1, <1>3, <2>1 DEF Keepers
  <2>3. LateEntry'
    <3>1. \A p \in Process : held'[p] = held[p] \/ (p = q /\ held'[p] = NoLock)
      BY <1>8 DEF TypeOK
    <3> SUFFICES ASSUME NEW d \in Caller, caller'[d].at = "in"
                 PROVE  \/ held'[ProcessOf[d]] = caller'[d].lock
                        \/ /\ caller[d].at = "in" /\ caller[d].lock = caller'[d].lock
                           /\ held[ProcessOf[d]] # caller[d].lock \/ caller[d].lock \in forced'
      BY <1>3, <1>4, LateKept
    <3>2. d # c /\ caller'[d] = caller[d] /\ caller[d].lock \in Lock /\ ProcessOf[d] \in Process
      BY <2>1, Facts DEF Inner, Numbered, Keeping
    <3>3. held[q] # caller[d].lock
      BY <1>8, <2>1, <3>2 DEF Inner, Sole, Keeping
    <3>4. QED
      BY <3>1, <3>2, <3>3
  <2>4. QED
    BY <1>3, <1>4, <2>2, <2>3, OuterKept
<1>9. QED
  BY <1>1, <1>2, <1>6, <1>7, <1>8 DEF Release, Mine

\* The watchdog and a signal give up a lock that others still share.
LEMMA OuterForced ==
    ASSUME TypeOK, Inner, Outer, NEW q \in Process, Watchdog(q) \/ Signal(q)
    PROVE  Outer'
<1>1. PICK l \in Lock : l = held[q]
  BY Facts DEF Watchdog, Signal
<1>2. /\ held' = [held EXCEPT ![q] = NoLock] /\ forced' = forced \union {l}
      /\ watchdog' \in {watchdog, [watchdog EXCEPT ![q] = l]}
      /\ UNCHANGED <<made, creator, old, caller, doubted>>
  BY <1>1 DEF Watchdog, Signal
<1>3. \A p \in Process : /\ held'[p] = held[p] \/ (p = q /\ held'[p] = NoLock)
                         /\ watchdog'[p] = watchdog[p] \/ (p = q /\ watchdog'[p] = l)
  BY <1>2 DEF TypeOK
<1>4. Grows /\ lost \subseteq lost'
  BY <1>2 DEF Grows, Watchdog, Signal, Kept, Unlink
<1>5. LateEntry'
  <2> SUFFICES ASSUME NEW c \in Caller, caller'[c].at = "in"
               PROVE  \/ held'[ProcessOf[c]] = caller'[c].lock
                      \/ /\ caller[c].at = "in" /\ caller[c].lock = caller'[c].lock
                         /\ held[ProcessOf[c]] # caller[c].lock \/ caller[c].lock \in forced'
    BY <1>2, <1>4, LateKept
  <2>1. caller'[c] = caller[c] /\ ProcessOf[c] \in Process
    BY <1>2, Facts
  <2>2. QED
    BY <1>1, <1>2, <1>3, <2>1
<1>6. CASE Watchdog(q)
  <2>1. watchdog[q] = NoLock /\ watchdog' = [watchdog EXCEPT ![q] = l] /\ Kept
    BY <1>1, <1>6 DEF Watchdog
  <2>2. watchdog'[q] = l /\ \A p \in Process : p # q => watchdog'[p] = watchdog[p]
    BY <2>1 DEF TypeOK
  <2>3. \A m \in Lock : \A k : k \in Keepers(m)' <=> k \in Keepers(m) \/ (k = q /\ m = l)
    BY <1>2, <2>1, <2>2 DEF Keepers
  <2>4. Keepers(l) # {}
    <3>1. Sharers(l) # {}
      BY <1>1 DEF Inner, Shared
    <3>2. QED
      BY <3>1 DEF Sharers, Keepers
  <2>5. \A m \in Lock : /\ Keepers(m)' # {} => Keepers(m) # {}
                        /\ Keepers(m) # {} => Keepers(m)' # {}
    BY <2>3, <2>4
  <2>6. QED
    BY <1>2, <1>4, <1>5, <2>1, <2>5, OuterKept
<1>7. CASE Signal(q)
  <2>1. \A m : Keepers(m)' = Keepers(m)
    BY <1>7 DEF Signal, Keepers
  <2>2. CASE Kept
    BY <1>2, <1>4, <1>5, <2>1, <2>2, OuterKept
  <2>3. CASE Unlink(l, {})
    <3>1. \A m \in Lock : Keepers(m)' \subseteq Keepers(m) \ {}
      BY <2>1
    <3>2. QED
      BY <1>2, <1>4, <1>5, <2>3, <3>1, OuterUnlink
  <2>4. QED
    BY <1>1, <1>7, <2>2, <2>3 DEF Signal
<1>8. QED
  BY <1>6, <1>7

LEMMA OuterWatchdogRemoves ==
    ASSUME TypeOK, Inner, Outer, NEW q \in Process, WatchdogRemoves(q)
    PROVE  Outer'
<1>1. PICK l \in Lock : l = watchdog[q]
  BY Facts DEF WatchdogRemoves
<1>2. /\ watchdog' = [watchdog EXCEPT ![q] = NoLock]
      /\ UNCHANGED <<made, creator, old, held, caller, forced, doubted>>
      /\ Unlink(l, {q}) \/ Kept
  BY <1>1 DEF WatchdogRemoves
<1>3. watchdog'[q] = NoLock /\ \A p \in Process : p # q => watchdog'[p] = watchdog[p]
  BY <1>2 DEF TypeOK
<1>4. \A m \in Lock : \A k : k \in Keepers(m)' <=> k \in Keepers(m) /\ k # q
  BY <1>2, <1>3 DEF Keepers
<1>5. l \in forced
  BY <1>1 DEF Inner, Owned
<1>6. Grows /\ lost \subseteq lost'
  BY <1>2 DEF Grows, Kept, Unlink
<1>7. LateEntry'
  BY <1>2, <1>6, LateKept
<1>8. CASE Unlink(l, {q})
  <2>1. \A m \in Lock : Keepers(m)' \subseteq Keepers(m) \ {q}
    BY <1>4
  <2>2. QED
    BY <1>2, <1>5, <1>6, <1>7, <1>8, <2>1, OuterUnlink
<1>9. CASE Kept
  <2>1. \A m \in Lock : Keepers(m)' # {} => Keepers(m) # {}
    BY <1>4
  <2>2. \A m \in Lock : Keepers(m) # {} => Keepers(m)' # {} \/ m \in forced'
    <3> SUFFICES ASSUME NEW m \in Lock, Keepers(m) # {}, m # l PROVE Keepers(m)' # {}
      BY <1>2, <1>5
    <3>1. q \notin Keepers(m)
      BY <1>1, KeepersAre
    <3>2. QED
      BY <1>4, <3>1
  <2>3. QED
    BY <1>2, <1>6, <1>7, <1>9, <2>1, <2>2, OuterKept
<1>10. QED
  BY <1>2, <1>8, <1>9

\* What a dead process kept is found by its pid, or in doubt.
LEMMA OuterCrash ==
    ASSUME TypeOK, Inner, Outer, NEW q \in Process, Crash(q)
    PROVE  Outer'
<1>1. /\ held' = [held EXCEPT ![q] = NoLock] /\ watchdog' = [watchdog EXCEPT ![q] = NoLock]
      /\ caller' = [c \in Caller |-> IF ProcessOf[c] = q THEN Idle ELSE caller[c]]
      /\ doubted \subseteq doubted'
      /\ UNCHANGED <<file, lost, crossed, made, old, count, forced>>
  BY DEF Crash, Kept
<1>2. \/ UNCHANGED creator /\ \A l \in Lock : creator[l] = q => l \in doubted'
      \/ \A l \in Lock : IF creator[l] = q THEN creator'[l] = NoProcess ELSE creator'[l] = creator[l]
  BY DEF Crash
<1>3. \A c \in Caller : \/ ProcessOf[c] # q /\ caller'[c] = caller[c]
                        \/ ProcessOf[c] = q /\ caller'[c].at = "idle"
  BY <1>1, States
<1>4. \A p \in Process : IF p = q THEN held'[p] = NoLock /\ watchdog'[p] = NoLock
                                  ELSE held'[p] = held[p] /\ watchdog'[p] = watchdog[p]
  BY <1>1 DEF TypeOK
<1>5. \A l \in Lock : /\ \A k : k \in Keepers(l)' => k \in Keepers(l)
                      /\ creator[l] # q => \A k : k \in Keepers(l) => k \in Keepers(l)'
  <2> SUFFICES ASSUME NEW l \in Lock, NEW k
               PROVE  /\ k \in Keepers(l)' => k \in Keepers(l)
                      /\ creator[l] # q /\ k \in Keepers(l) => k \in Keepers(l)'
    OBVIOUS
  <2>1. k \in Caller => (k \in Keepers(l)' <=> k \in Keepers(l) /\ ProcessOf[k] # q)
    BY <1>3 DEF Keepers
  <2>2. k \in Process => (k \in Keepers(l)' <=> k \in Keepers(l) /\ k # q)
    BY <1>4 DEF Keepers
  <2>3. k \in Caller /\ k \in Keepers(l) => creator[l] = ProcessOf[k]
    BY KeepersAre DEF Inner, Owned
  <2>4. k \in Process /\ k \in Keepers(l) => creator[l] = k
    BY KeepersAre DEF Inner, Owned
  <2>5. k \in Keepers(l) \/ k \in Keepers(l)' => k \in Caller \union Process
    BY DEF Keepers
  <2>6. QED
    BY <2>1, <2>2, <2>3, <2>4, <2>5
<1>6. SingleWriter'
  BY <1>1, <1>5 DEF Outer, SingleWriter
<1>7. LossExplained'
  BY <1>1 DEF Outer, LossExplained
<1>8. LateEntry'
  <2> SUFFICES ASSUME NEW c \in Caller, caller'[c].at = "in", held'[ProcessOf[c]] # caller'[c].lock
               PROVE  caller'[c].lock \in forced' \/ \E l \in lost' : creator'[l] = ProcessOf[c]
    BY DEF LateEntry, Burdened
  <2>1. ProcessOf[c] # q /\ caller'[c] = caller[c] /\ held[ProcessOf[c]] # caller[c].lock
    BY <1>3, <1>4, Facts
  <2>2. caller[c].lock \in forced \/ \E l \in lost : creator[l] = ProcessOf[c]
    BY <2>1 DEF Outer, LateEntry, Burdened
  <2>3. \A l \in lost : creator[l] = ProcessOf[c] => creator'[l] = ProcessOf[c]
    BY <1>2, <2>1 DEF TypeOK
  <2>4. QED
    BY <1>1, <2>1, <2>2, <2>3
<1>9. NoOrphan'
  <2> SUFFICES ASSUME NEW l \in Lock, l = file, creator'[l] # NoProcess, l \notin forced \union doubted'
               PROVE  Keepers(l)' # {} \/ \E m \in lost : creator'[m] = creator'[l]
    BY <1>1 DEF NoOrphan, Dead, TypeOK
  <2>1. creator[l] # q /\ creator'[l] = creator[l]
    BY <1>2
  <2>2. Keepers(l) # {} \/ \E m \in lost : creator[m] = creator[l]
    BY <1>1, <2>1 DEF Outer, NoOrphan, Dead
  <2>3. CASE Keepers(l) # {}
    BY <1>5, <2>1, <2>3
  <2>4. ASSUME NEW m \in lost, creator[m] = creator[l] PROVE creator'[m] = creator'[l]
    BY <1>2, <2>1, <2>4 DEF TypeOK
  <2>5. QED
    BY <2>2, <2>3, <2>4
<1>10. QED
  BY <1>1, <1>6, <1>7, <1>8, <1>9 DEF Outer

LEMMA OuterStep == ASSUME TypeOK, Inner, Outer, Inner', [Next]_vars PROVE Outer'
<1>1. ASSUME NEW c \in Caller
      PROVE  Mine(c) = caller[c].lock /\ caller[c].lock \in Lock \union {NoLock}
             /\ (Keeping(c) => caller[c].lock \in Lock)
  BY Facts DEF Mine, Inner, Numbered
<1>2. {"idle", "try", "made", "busy", "stat", "reclaim", "in", "close", "listed", "sweep"} = Place
  BY DEF Place
<1>3. file \in Lock \union {NoLock}
  BY DEF TypeOK
<1>4. ASSUME NEW c \in Caller, WriteFails(c) \/ RemoveOwn(c) \/ RemoveOwnFails(c) PROVE Outer'
  <2>1. PICK l \in Lock : l = caller[c].lock
    BY <1>1, <1>4 DEF WriteFails, RemoveOwn, RemoveOwnFails, At, Keeping
  <2>2. /\ caller[c].at \in {"made", "close"} /\ caller' = [caller EXCEPT ![c] = Idle]
        /\ UNCHANGED <<made, creator, old, held, watchdog, forced>> /\ doubted \subseteq doubted'
        /\ Unlink(l, {c}) \/ (Kept /\ l \in doubted')
    BY <1>1, <1>4, <2>1 DEF WriteFails, RemoveOwn, RemoveOwnFails, At
  <2>3. QED
    BY <2>1, <2>2, OuterDone
<1>5. ASSUME NEW c \in Caller,
             GiveUp(c) \/ Inspect(c) \/ Stat(c) \/ Reclaim(c) \/ List(c) \/ Look(c) \/ Sweep(c)
      PROVE  Outer'
  <2>1. /\ ~Keeping(c) /\ UNCHANGED <<made, creator, old, held, watchdog, forced>>
        /\ doubted \subseteq doubted'
        /\ Kept \/ (Unlink(caller[c].lock, {}) /\ caller[c].at \in {"reclaim", "sweep"})
    BY <1>1, <1>5 DEF GiveUp, Inspect, Stat, Reclaim, List, Look, Sweep, At, Keeping
  <2>2. \/ caller' = [caller EXCEPT ![c] = Idle]
        \/ \E place \in Place \ {"made", "in", "close"}, l \in Lock \union {NoLock} : Goto(c, place, l)
    BY <1>1, <1>2, <1>3, <1>5 DEF GiveUp, Inspect, Stat, Reclaim, List, Look, Sweep
  <2>3. PICK state \in CallerState : /\ caller' = [caller EXCEPT ![c] = state]
                                     /\ state.at \notin {"made", "in", "close"}
    BY <2>2, States DEF Goto
  <2>4. QED
    BY <2>1, <2>3, OuterMove
<1>6. CASE Age
  <2>1. /\ UNCHANGED <<made, creator, held, caller, watchdog, forced, doubted>> /\ Kept
        /\ Grows /\ lost' = lost
    BY <1>6 DEF Age, Grows, Kept
  <2>2. \A l : Keepers(l)' = Keepers(l)
    BY <2>1 DEF Keepers
  <2>3. QED
    BY <2>1, <2>2, OuterKept, LateKept
<1>7. CASE UNCHANGED vars
  <2>1. /\ UNCHANGED <<made, creator, held, caller, watchdog, forced, doubted>> /\ Kept
        /\ Grows /\ lost' = lost
    BY <1>7 DEF vars, Grows, Kept
  <2>2. \A l : Keepers(l)' = Keepers(l)
    BY <2>1 DEF Keepers
  <2>3. QED
    BY <2>1, <2>2, OuterKept, LateKept
<1>8. QED
  BY <1>4, <1>5, <1>6, <1>7, OuterAcquire, OuterOpen, OuterWrite, OuterRelease, OuterForced,
     OuterWatchdogRemoves, OuterCrash
     DEF Next, Step

----------------------------------------------------------------------------
(* The theorems.                                                                      *)

\* The invariant holds initially and in every step, and so always.
THEOREM Invariance == Spec => []IInv
<1>1. Init => IInv
  BY TypeInit, InnerInit, OuterInit DEF IInv
<1>2. IInv /\ [Next]_vars => IInv'
  <2> SUFFICES ASSUME TypeOK, Inner, Outer, [Next]_vars PROVE TypeOK' /\ Inner' /\ Outer'
    BY DEF IInv
  <2>1. TypeOK'
    BY TypeStep DEF Inner
  <2>2. Inner'
    BY InnerStep DEF Outer
  <2>3. Outer'
    BY <2>2, OuterStep
  <2>4. QED
    BY <2>1, <2>2, <2>3
<1>3. QED
  BY <1>1, <1>2, PTL DEF Spec

\* The lock file, the maps and the callers keep their types (TypeOK).
THEOREM TypeCorrect == Spec => []TypeOK
<1>1. IInv => TypeOK
  BY DEF IInv
<1>2. QED
  BY Invariance, <1>1, PTL

\* Whoever writes the session holds the file that is there, unless his was removed under
\* him (SingleWriter; session-write-lock.ts:448-463).
THEOREM WriterSafe == Spec => []SingleWriter
<1>1. IInv => SingleWriter
  BY DEF IInv, Outer
<1>2. QED
  BY Invariance, <1>1, PTL

\* Every lock that was removed under its users was too old, given up, in doubt (also by an
\* error of a read, a stat or a removal) or removed by someone who meant another
\* (LossExplained; session-write-lock.ts:280-282, 318-347, 383-392, 484-487).
THEOREM LossSafe == Spec => []LossExplained
<1>1. IInv => LossExplained
  BY DEF IInv, Outer
<1>2. QED
  BY Invariance, <1>1, PTL

\* No lock file of a live process is left to nobody, except as NoOrphan says
\* (session-write-lock.ts:124-156, 458, 464-476).
THEOREM OrphanSafe == Spec => []NoOrphan
<1>1. IInv => NoOrphan
  BY DEF IInv, Outer
<1>2. QED
  BY Invariance, <1>1, PTL

\* The release of an old handle leaves the locks of others alone, by its caller, the
\* watchdog or a failed write (OldReleaseHarmless; session-write-lock.ts:124-127, 472).
THEOREM ReleaseSafe == Spec => OldReleaseHarmless
<1> DEFINE Harmless ==
        \A c \in Caller, p \in Process :
          /\ (At(c, "close") /\ RemoveOwn(c)) \/ (At(c, "made") /\ WriteFails(c)) =>
                crossed' = crossed \/ Mine(c) \in lost \ forced
          /\ watchdog[p] # NoLock /\ WatchdogRemoves(p) =>
                crossed' = crossed \/ watchdog[p] \in lost
<1>1. IInv => Harmless
  <2> SUFFICES ASSUME TypeOK, Inner, Outer, NEW c \in Caller, NEW p \in Process
               PROVE  /\ (At(c, "close") /\ RemoveOwn(c)) \/ (At(c, "made") /\ WriteFails(c)) =>
                            crossed' = crossed \/ Mine(c) \in lost \ forced
                      /\ watchdog[p] # NoLock /\ WatchdogRemoves(p) =>
                            crossed' = crossed \/ watchdog[p] \in lost
    BY DEF IInv
  <2>1. ASSUME (At(c, "close") /\ RemoveOwn(c)) \/ (At(c, "made") /\ WriteFails(c))
        PROVE  crossed' = crossed \/ Mine(c) \in lost \ forced
    <3>1. PICK l \in Lock : l = caller[c].lock
      BY <2>1, Facts DEF At, Inner, Numbered, Keeping
    <3>2. caller[c].at \in {"made", "close"} /\ (Unlink(l, {c}) \/ Kept)
      BY <2>1, <3>1 DEF At, RemoveOwn, WriteFails, Mine
    <3>3. c \in Keepers(l) /\ l \notin forced
      BY <3>1, <3>2 DEF Keepers, Inner, Sole
    <3>4. l \in lost \/ file = l
      BY <3>3 DEF Outer, SingleWriter
    <3>5. QED
      BY <3>1, <3>2, <3>3, <3>4 DEF Unlink, Kept, Mine
  <2>2. ASSUME watchdog[p] # NoLock, WatchdogRemoves(p)
        PROVE  crossed' = crossed \/ watchdog[p] \in lost
    <3>1. PICK l \in Lock : l = watchdog[p]
      BY <2>2, Facts
    <3>2. p \in Keepers(l)
      BY <3>1 DEF Keepers
    <3>3. l \in lost \/ file = l
      BY <3>2 DEF Outer, SingleWriter
    <3>4. QED
      BY <2>2, <3>1, <3>3 DEF WatchdogRemoves, Unlink, Kept
  <2>3. QED
    BY <2>1, <2>2
<1>2. IInv => [Harmless]_vars
  BY <1>1
<1>3. QED
  BY Invariance, <1>2, PTL DEF OldReleaseHarmless
=============================================================================
