------------------------ MODULE CommandQueue_proofs ------------------------
(***************************************************************************)
(* Proofs about CommandQueue.  Every operation changes the lanes by hand   *)
(* and then drains some of them.  The invariants are therefore restated    *)
(* for any lanes L, commands st and generations bn: an operation's own     *)
(* change keeps them but for the lanes it is going to drain, and Drain     *)
(* restores those.                                                         *)
(***************************************************************************)
EXTENDS CommandQueue, FiniteSetTheorems, TLAPS

\* LanesAccount, StartsInOrder and NoIdleLane of any lanes L and commands st.
Accounts(L, st, bn) ==
    \A l \in Lane :
        /\ L[l].active = {t \in Task : /\ LaneOf[t] = l /\ st[t] = "running"
                                       /\ bn[t] = L[l].generation}
        /\ Members(L[l].queue) = {t \in Task : LaneOf[t] = l /\ st[t] = "queued"}
        /\ \A i, j \in DOMAIN L[l].queue : L[l].queue[i] = L[l].queue[j] => i = j

Ordered(L, st, arr) ==
    \A l \in Lane :
        /\ \A i, j \in DOMAIN L[l].queue : i < j => arr[L[l].queue[i]] < arr[L[l].queue[j]]
        /\ \A t \in Task, i \in DOMAIN L[l].queue :
              LaneOf[t] = l /\ st[t] = "running" => arr[t] < arr[L[l].queue[i]]

Busy(L, D) ==
    \A l \in Lane \ D : L[l].queue # <<>> => Cardinality(L[l].active) >= L[l].maxConcurrent

\* A lane that gets more active tasks than in L is within its limit.
Within(L) ==
    \A l \in Lane : lane'[l].active \ L[l].active # {} =>
        Cardinality(lane'[l].active) <= lane'[l].maxConcurrent

\* A generation in which a task was started is not after its lane's.
BornBefore == \A t \in Task : born[t] <= lane[LaneOf[t]].generation
\* Arrivals count the enqueued commands of a lane.
ArrivalsBelow ==
    \A t \in Task : state[t] # "new" => arrival[t] <= Cardinality(EnqueuedIn(LaneOf[t]))
\* A restart is requested while the bound allows a reset.
ResetAllowed == phase # "up" => \A l \in Lane : lane[l].generation < MaxResets
\* The tasks waited for have ended or still count as active.
AwaitedCount ==
    /\ phase = "draining" => \A t \in awaited : Settled(t) \/ (Running(t) /\ Current(t))
    /\ DrainedHasEnded

IInv == /\ TypeOK
        /\ Accounts(lane, state, born) /\ Ordered(lane, state, arrival) /\ Busy(lane, {})
        /\ BornBefore /\ ArrivalsBelow /\ ResetAllowed /\ AwaitedCount

----------------------------------------------------------------------------
\* One lane and its pump.
LEMMA ActiveFinite ==
    ASSUME NEW S \in SUBSET Task
    PROVE  IsFiniteSet(S) /\ Cardinality(S) \in Nat
BY QueueAssumption, FS_Subset, FS_CardinalityType

LEMMA LaneIsLane ==
    ASSUME NEW q \in Seq(Task), NEW a \in SUBSET Task, NEW c \in Concurrency, NEW g \in Generation
    PROVE  /\ LaneAt(q, a, c, g) \in LaneState
           /\ LaneAt(q, a, c, g).queue = q /\ LaneAt(q, a, c, g).active = a
           /\ LaneAt(q, a, c, g).maxConcurrent = c /\ LaneAt(q, a, c, g).generation = g
BY DEF LaneAt, LaneState

LEMMA LaneFields ==
    ASSUME NEW s \in LaneState
    PROVE  /\ s.queue \in Seq(Task) /\ s.active \in SUBSET Task
           /\ s.maxConcurrent \in Concurrency /\ s.generation \in Generation
BY DEF LaneState

LEMMA TakenRange ==
    ASSUME NEW s \in LaneState
    PROVE  /\ Taken(s) \in 0..Len(s.queue)
           /\ Taken(s) < Len(s.queue) =>
                 Cardinality(s.active) + Taken(s) >= s.maxConcurrent
           /\ Taken(s) > 0 => Cardinality(s.active) + Taken(s) <= s.maxConcurrent
<1>1. Cardinality(s.active) \in Nat /\ s.maxConcurrent \in Nat /\ Len(s.queue) \in Nat
  BY ActiveFinite, LaneFields, QueueAssumption DEF Concurrency
<1>2. QED
  BY <1>1 DEF Taken

\* The pump takes the front of the queue.
LEMMA PumpedLane ==
    ASSUME NEW s \in LaneState
    PROVE  /\ Pumped(s) \in LaneState
           /\ Pumped(s).active = s.active \union Started(s)
           /\ Pumped(s).maxConcurrent = s.maxConcurrent
           /\ Pumped(s).generation = s.generation
           /\ DOMAIN Pumped(s).queue = 1..(Len(s.queue) - Taken(s))
           /\ \A i \in 1..(Len(s.queue) - Taken(s)) :
                 /\ i + Taken(s) \in DOMAIN s.queue
                 /\ Pumped(s).queue[i] = s.queue[i + Taken(s)]
           /\ Started(s) \subseteq Members(s.queue)
<1> DEFINE k == Taken(s)
<1> DEFINE rest == SubSeq(s.queue, k + 1, Len(s.queue))
<1>1. k \in 0..Len(s.queue) /\ Len(s.queue) \in Nat /\ s.queue \in Seq(Task)
  BY TakenRange, LaneFields
<1> HIDE DEF k
<1>2. /\ rest \in Seq(Task) /\ Len(rest) = Len(s.queue) - k
      /\ \A i \in 1..(Len(s.queue) - k) : rest[i] = s.queue[i + k]
  BY <1>1
<1>3. Started(s) \subseteq Members(s.queue)
  BY <1>1 DEF Started, Members, k
<1>4. Started(s) \in SUBSET Task
  BY <1>1, <1>3 DEF Members
<1>5. Pumped(s) = LaneAt(rest, s.active \union Started(s), s.maxConcurrent, s.generation)
  BY DEF Pumped, k
<1>6. s.active \union Started(s) \in SUBSET Task
  BY <1>4, LaneFields
<1> HIDE DEF rest
<1>7. /\ Pumped(s) \in LaneState /\ Pumped(s).queue = rest
      /\ Pumped(s).active = s.active \union Started(s)
      /\ Pumped(s).maxConcurrent = s.maxConcurrent /\ Pumped(s).generation = s.generation
  <2>1. s.maxConcurrent \in Concurrency /\ s.generation \in Generation
    BY LaneFields
  <2>2. QED
    BY <1>2, <1>5, <1>6, <2>1, LaneIsLane
<1>8. \A i \in 1..(Len(s.queue) - k) : i + k \in DOMAIN s.queue
  BY <1>1
<1>9. DOMAIN rest = 1..(Len(s.queue) - k)
  BY <1>2
<1>10. QED
  BY <1>2, <1>3, <1>7, <1>8, <1>9 DEF k

Distinct(s) == \A i, j \in DOMAIN s.queue : s.queue[i] = s.queue[j] => i = j

\* It starts as many tasks as it takes entries, and none that is still waiting.
LEMMA StartedCount ==
    ASSUME NEW s \in LaneState, Distinct(s)
    PROVE  /\ Cardinality(Started(s)) = Taken(s)
           /\ Members(Pumped(s).queue) = Members(s.queue) \ Started(s)
           /\ Distinct(Pumped(s))
<1>1. Taken(s) \in 0..Len(s.queue) /\ Len(s.queue) \in Nat /\ DOMAIN s.queue = 1..Len(s.queue)
  BY TakenRange, LaneFields
<1>2. Cardinality(Started(s)) = Taken(s)
  <2> DEFINE f == [i \in 1..Taken(s) |-> s.queue[i]]
  <2>1. f \in Bijection(1..Taken(s), Started(s))
    BY <1>1 DEF Started, Bijection, Injection, Surjection, Distinct, IsInjective
  <2>2. ExistsBijection(1..Taken(s), Started(s))
    BY <2>1 DEF ExistsBijection
  <2>3. QED
    BY <1>1, <2>2, FS_CountingElements
<1>3. Members(Pumped(s).queue) = Members(s.queue) \ Started(s)
  <2>1. ASSUME NEW t \in Members(Pumped(s).queue)
        PROVE  t \in Members(s.queue) \ Started(s)
    <3>1. PICK i \in DOMAIN Pumped(s).queue : t = Pumped(s).queue[i]
      BY <2>1 DEF Members
    <3>2. i \in 1..(Len(s.queue) - Taken(s)) /\ i + Taken(s) \in DOMAIN s.queue
      BY <3>1, PumpedLane
    <3>3. t = s.queue[i + Taken(s)]
      BY <3>1, <3>2, PumpedLane
    <3>4. \A j \in 1..Taken(s) : j \in DOMAIN s.queue /\ j # i + Taken(s)
      BY <1>1, <3>2
    <3>5. t \notin Started(s)
      BY <3>2, <3>3, <3>4 DEF Started, Distinct
    <3>6. QED
      BY <3>2, <3>3, <3>5 DEF Members
  <2>2. ASSUME NEW t \in Members(s.queue) \ Started(s)
        PROVE  t \in Members(Pumped(s).queue)
    <3>1. PICK i \in 1..Len(s.queue) : t = s.queue[i]
      BY <1>1, <2>2 DEF Members
    <3>2. i > Taken(s)
      BY <1>1, <2>2, <3>1 DEF Started
    <3>3. i - Taken(s) \in 1..(Len(s.queue) - Taken(s))
      BY <1>1, <3>2
    <3>4. Pumped(s).queue[i - Taken(s)] = s.queue[(i - Taken(s)) + Taken(s)]
      BY <3>3, PumpedLane
    <3>5. QED
      BY <1>1, <3>1, <3>3, <3>4, PumpedLane DEF Members
  <2>3. QED
    BY <2>1, <2>2
<1>4. Distinct(Pumped(s))
  <2>1. SUFFICES ASSUME NEW i \in DOMAIN Pumped(s).queue, NEW j \in DOMAIN Pumped(s).queue,
                        Pumped(s).queue[i] = Pumped(s).queue[j]
                 PROVE  i = j
    BY DEF Distinct
  <2>2. i \in 1..(Len(s.queue) - Taken(s)) /\ j \in 1..(Len(s.queue) - Taken(s))
    BY PumpedLane
  <2>3. /\ i + Taken(s) \in DOMAIN s.queue /\ j + Taken(s) \in DOMAIN s.queue
        /\ s.queue[i + Taken(s)] = s.queue[j + Taken(s)]
    BY <2>1, <2>2, PumpedLane
  <2>4. i + Taken(s) = j + Taken(s)
    BY <2>3 DEF Distinct
  <2>5. QED
    BY <1>1, <2>2, <2>4
<1>5. QED
  BY <1>2, <1>3, <1>4

----------------------------------------------------------------------------
\* Draining the lanes of D restores what an operation left undone in them.
LEMMA DrainKeeps ==
    ASSUME NEW D \in SUBSET Lane, NEW L \in [Lane -> LaneState], NEW st \in [Task -> Place],
           NEW arr \in [Task -> Nat], born \in [Task -> Generation],
           Accounts(L, st, born), Ordered(L, st, arr), Busy(L, D), Drain(D, L, st)
    PROVE  /\ lane' \in [Lane -> LaneState] /\ state' \in [Task -> Place]
           /\ born' \in [Task -> Generation]
           /\ Accounts(lane', state', born') /\ Ordered(lane', state', arr) /\ Busy(lane', {})
           /\ Within(L)
           /\ \A l \in Lane : lane'[l].generation = L[l].generation
           /\ \A t \in Task : /\ st[t] # "queued" => state'[t] = st[t] /\ born'[t] = born[t]
                              /\ state'[t] = "new" <=> st[t] = "new"
                              /\ born'[t] \in {born[t], L[LaneOf[t]].generation}
<1> USE QueueAssumption
<1> DEFINE In(t) == LaneOf[t] \in D /\ t \in Started(L[LaneOf[t]])
<1>1. \A t \in Task : LaneOf[t] \in Lane /\ L[LaneOf[t]] \in LaneState
  OBVIOUS
<1>2. \A l \in Lane : /\ L[l] \in LaneState /\ Distinct(L[l])
                      /\ Started(L[l]) \subseteq {t \in Task : LaneOf[t] = l /\ st[t] = "queued"}
  BY PumpedLane DEF Accounts, Distinct
<1>3. \A t \in Task : In(t) => st[t] = "queued"
  BY <1>1, <1>2
<1>4. /\ lane' = [l \in Lane |-> IF l \in D THEN Pumped(L[l]) ELSE L[l]]
      /\ state' = [t \in Task |-> IF In(t) THEN "running" ELSE st[t]]
      /\ born' = [t \in Task |-> IF In(t) THEN L[LaneOf[t]].generation ELSE born[t]]
  BY DEF Drain
<1>5. /\ lane' \in [Lane -> LaneState] /\ state' \in [Task -> Place]
      /\ born' \in [Task -> Generation]
  BY <1>1, <1>2, <1>4, PumpedLane, LaneFields DEF Place
<1>6. \A l \in Lane : lane'[l].generation = L[l].generation
  BY <1>2, <1>4, PumpedLane
<1>7. \A t \in Task : /\ st[t] # "queued" => state'[t] = st[t] /\ born'[t] = born[t]
                      /\ state'[t] = "new" <=> st[t] = "new"
                      /\ born'[t] \in {born[t], L[LaneOf[t]].generation}
  BY <1>3, <1>4
<1>8. ASSUME NEW l \in Lane, l \notin D
      PROVE  lane'[l] = L[l] /\ \A t \in Task : LaneOf[t] = l => state'[t] = st[t] /\ born'[t] = born[t]
  BY <1>4, <1>8
<1>9. ASSUME NEW l \in D
      PROVE  /\ l \in Lane /\ lane'[l] = Pumped(L[l])
             /\ \A t \in Task : LaneOf[t] = l =>
                   IF t \in Started(L[l]) THEN state'[t] = "running" /\ born'[t] = L[l].generation
                                          ELSE state'[t] = st[t] /\ born'[t] = born[t]
  BY <1>4, <1>9
<1> HIDE DEF In
<1>10. Accounts(lane', state', born')
  <2>1. SUFFICES ASSUME NEW l \in Lane
        PROVE  /\ lane'[l].active = {t \in Task : /\ LaneOf[t] = l /\ state'[t] = "running"
                                                  /\ born'[t] = lane'[l].generation}
               /\ Members(lane'[l].queue) = {t \in Task : LaneOf[t] = l /\ state'[t] = "queued"}
               /\ Distinct(lane'[l])
    BY DEF Accounts, Distinct
  <2>2. /\ L[l].active = {t \in Task : LaneOf[t] = l /\ st[t] = "running"
                                       /\ born[t] = L[l].generation}
        /\ Members(L[l].queue) = {t \in Task : LaneOf[t] = l /\ st[t] = "queued"}
    BY DEF Accounts
  <2>3. CASE l \notin D
    BY <1>2, <1>8, <2>2, <2>3
  <2>4. CASE l \in D
    <3>1. lane'[l].active = L[l].active \union Started(L[l]) /\ lane'[l].generation = L[l].generation
      BY <1>2, <1>9, <2>4, PumpedLane
    <3>2. /\ Members(lane'[l].queue) = Members(L[l].queue) \ Started(L[l])
          /\ Distinct(lane'[l])
      <4>1. L[l] \in LaneState /\ Distinct(L[l])
        BY <1>2
      <4>2. lane'[l] = Pumped(L[l])
        BY <1>9, <2>4
      <4>3. QED
        BY <4>1, <4>2, StartedCount
    <3>3. \A t \in Task : LaneOf[t] = l =>
             /\ state'[t] = "queued" <=> st[t] = "queued" /\ t \notin Started(L[l])
             /\ (state'[t] = "running" /\ born'[t] = L[l].generation) <=>
                   (st[t] = "running" /\ born[t] = L[l].generation) \/ t \in Started(L[l])
      <4>1. SUFFICES ASSUME NEW t \in Task, LaneOf[t] = l
            PROVE /\ state'[t] = "queued" <=> st[t] = "queued" /\ t \notin Started(L[l])
                  /\ (state'[t] = "running" /\ born'[t] = L[l].generation) <=>
                        (st[t] = "running" /\ born[t] = L[l].generation) \/ t \in Started(L[l])
        OBVIOUS
      <4>2. CASE t \in Started(L[l])
        BY <1>2, <1>9, <2>4, <4>1, <4>2
      <4>3. CASE t \notin Started(L[l])
        BY <1>9, <2>4, <4>1, <4>3
      <4>4. QED
        BY <4>2, <4>3
    <3>4. QED
      BY <1>2, <2>2, <3>1, <3>2, <3>3
  <2>5. QED
    BY <2>3, <2>4
<1>11. Ordered(lane', state', arr)
  <2>1. SUFFICES ASSUME NEW l \in Lane
        PROVE  /\ \A i, j \in DOMAIN lane'[l].queue :
                     i < j => arr[lane'[l].queue[i]] < arr[lane'[l].queue[j]]
               /\ \A t \in Task, i \in DOMAIN lane'[l].queue :
                     LaneOf[t] = l /\ state'[t] = "running" => arr[t] < arr[lane'[l].queue[i]]
    BY DEF Ordered
  <2>2. /\ \A i, j \in DOMAIN L[l].queue : i < j => arr[L[l].queue[i]] < arr[L[l].queue[j]]
        /\ \A t \in Task, i \in DOMAIN L[l].queue :
              LaneOf[t] = l /\ st[t] = "running" => arr[t] < arr[L[l].queue[i]]
    BY DEF Ordered
  <2>3. CASE l \notin D
    BY <1>8, <2>2, <2>3
  <2>4. CASE l \in D
    <3> DEFINE k == Taken(L[l])
    <3>1. k \in 0..Len(L[l].queue) /\ Len(L[l].queue) \in Nat
          /\ DOMAIN L[l].queue = 1..Len(L[l].queue)
      BY <1>2, TakenRange, LaneFields
    <3>2. /\ DOMAIN lane'[l].queue = 1..(Len(L[l].queue) - k)
          /\ \A i \in 1..(Len(L[l].queue) - k) :
                i + k \in DOMAIN L[l].queue /\ lane'[l].queue[i] = L[l].queue[i + k]
      BY <1>2, <1>9, <2>4, PumpedLane
    <3>3. \A t \in Task : LaneOf[t] = l /\ state'[t] = "running" =>
             st[t] = "running" \/ \E j \in 1..k : t = L[l].queue[j]
      BY <1>9, <2>4 DEF Started
    <3> HIDE DEF k
    <3>4. ASSUME NEW i \in DOMAIN lane'[l].queue, NEW j \in DOMAIN lane'[l].queue, i < j
          PROVE  arr[lane'[l].queue[i]] < arr[lane'[l].queue[j]]
      <4>1. i + k \in DOMAIN L[l].queue /\ j + k \in DOMAIN L[l].queue /\ i + k < j + k
        BY <3>1, <3>2, <3>4
      <4>2. QED
        BY <2>2, <3>2, <4>1
    <3>5. ASSUME NEW t \in Task, NEW i \in DOMAIN lane'[l].queue,
                 LaneOf[t] = l, state'[t] = "running"
          PROVE  arr[t] < arr[lane'[l].queue[i]]
      <4>1. i + k \in DOMAIN L[l].queue /\ lane'[l].queue[i] = L[l].queue[i + k]
        BY <3>2
      <4>2. CASE st[t] = "running"
        BY <2>2, <3>5, <4>1, <4>2
      <4>3. CASE \E j \in 1..k : t = L[l].queue[j]
        <5>1. PICK j \in 1..k : t = L[l].queue[j]
          BY <4>3
        <5>2. j \in DOMAIN L[l].queue /\ j < i + k
          BY <3>1, <3>2
        <5>3. QED
          BY <2>2, <4>1, <5>1, <5>2
      <4>4. QED
        BY <3>3, <3>5, <4>2, <4>3
    <3>6. QED
      BY <3>4, <3>5
  <2>5. QED
    BY <2>3, <2>4
<1>12. ASSUME NEW l \in D
       PROVE  Cardinality(L[l].active \union Started(L[l])) = Cardinality(L[l].active) + Taken(L[l])
  <2>1. L[l].active \intersect Started(L[l]) = {}
    BY <1>2 DEF Accounts
  <2>2. /\ L[l].active \in SUBSET Task /\ Started(L[l]) \in SUBSET Task
        /\ Taken(L[l]) \in Nat
    BY <1>2, LaneFields, TakenRange
  <2>3. Cardinality({}) = 0 /\ Cardinality(L[l].active) \in Nat
    BY <2>2, FS_EmptySet, ActiveFinite
  <2>4. Cardinality(L[l].active \union Started(L[l])) =
           Cardinality(L[l].active) + Cardinality(Started(L[l]))
              - Cardinality(L[l].active \intersect Started(L[l]))
    BY <2>2, ActiveFinite, FS_Union
  <2>5. Cardinality(Started(L[l])) = Taken(L[l])
    BY <1>2, StartedCount
  <2>6. Cardinality(L[l].active \intersect Started(L[l])) = 0
    BY <2>1, <2>3
  <2>7. QED
    BY <2>2, <2>3, <2>4, <2>5, <2>6
<1>13. Busy(lane', {})
  <2>1. SUFFICES ASSUME NEW l \in Lane, lane'[l].queue # <<>>
        PROVE  Cardinality(lane'[l].active) >= lane'[l].maxConcurrent
    BY DEF Busy
  <2>2. CASE l \notin D
    BY <1>8, <2>1, <2>2 DEF Busy
  <2>3. CASE l \in D
    <3>1. Taken(L[l]) < Len(L[l].queue)
      <4>1. lane'[l].queue \in Seq(Task) /\ DOMAIN lane'[l].queue = 1..(Len(L[l].queue) - Taken(L[l]))
        BY <1>2, <1>5, <1>9, <2>3, PumpedLane, LaneFields
      <4>2. Taken(L[l]) \in 0..Len(L[l].queue) /\ Len(L[l].queue) \in Nat
        BY <1>2, TakenRange, LaneFields
      <4>3. Len(lane'[l].queue) # 0 /\ DOMAIN lane'[l].queue = 1..Len(lane'[l].queue)
            /\ Len(lane'[l].queue) \in Nat
        BY <2>1, <4>1
      <4>4. 1 \in DOMAIN lane'[l].queue
        BY <4>3
      <4>5. QED
        BY <4>1, <4>2, <4>4
    <3>2. Cardinality(L[l].active) + Taken(L[l]) >= L[l].maxConcurrent
      BY <1>2, <3>1, TakenRange
    <3>3. lane'[l].active = L[l].active \union Started(L[l]) /\ lane'[l].maxConcurrent = L[l].maxConcurrent
      BY <1>2, <1>9, <2>3, PumpedLane
    <3>4. QED
      BY <1>12, <2>3, <3>2, <3>3
  <2>4. QED
    BY <2>2, <2>3
<1>14. Within(L)
  <2>1. SUFFICES ASSUME NEW l \in Lane, lane'[l].active \ L[l].active # {}
                 PROVE  Cardinality(lane'[l].active) <= lane'[l].maxConcurrent
    BY DEF Within
  <2>2. l \in D
    BY <1>8, <2>1
  <2>3. lane'[l].active = L[l].active \union Started(L[l]) /\ lane'[l].maxConcurrent = L[l].maxConcurrent
    BY <1>2, <1>9, <2>2, PumpedLane
  <2>4. Taken(L[l]) > 0
    <3>1. PICK t \in Started(L[l]) : TRUE
      BY <2>1, <2>3
    <3>2. Taken(L[l]) \in Nat
      BY <1>2, TakenRange, LaneFields
    <3>3. QED
      BY <3>1, <3>2 DEF Started
  <2>5. Cardinality(L[l].active) + Taken(L[l]) <= L[l].maxConcurrent
    BY <1>2, <2>4, TakenRange
  <2>6. QED
    BY <1>12, <2>2, <2>3, <2>5
<1>15. QED
  BY <1>5, <1>6, <1>7, <1>10, <1>11, <1>13, <1>14

----------------------------------------------------------------------------
\* What the operations other than a reset and an enqueue leave alone.
LEMMA SameGeneration ==
    ASSUME IInv, born' \in [Task -> Generation],
           \A l \in Lane : lane'[l].generation = lane[l].generation,
           \A t \in Task : /\ born'[t] \in {born[t], lane[LaneOf[t]].generation}
                           /\ Running(t) => \/ state'[t] = "running" /\ born'[t] = born[t]
                                            \/ state'[t] = "settled"
                           /\ Settled(t) => state'[t] = "settled",
           UNCHANGED <<phase, awaited, drained>>
    PROVE  BornBefore' /\ ResetAllowed' /\ AwaitedCount'
<1> USE QueueAssumption DEF IInv
<1>1. BornBefore'
  <2>1. \A t \in Task : LaneOf[t] \in Lane /\ born[t] \in Nat /\ lane[LaneOf[t]].generation \in Nat
    BY LaneFields DEF TypeOK, Generation
  <2>2. QED
    BY <2>1 DEF BornBefore
<1>2. ResetAllowed'
  BY DEF ResetAllowed
<1>3. AwaitedCount'
  <2>1. \A t \in Task : LaneOf[t] \in Lane
    OBVIOUS
  <2>2. awaited \subseteq Task
    BY DEF TypeOK
  <2>3. QED
    BY <2>1, <2>2 DEF AwaitedCount, DrainedHasEnded, Running, Settled, Current
<1>4. QED
  BY <1>1, <1>2, <1>3

LEMMA SameArrivals ==
    ASSUME IInv, \A t \in Task : state'[t] = "new" <=> state[t] = "new", arrival' = arrival
    PROVE  ArrivalsBelow'
<1>1. \A l \in Lane : EnqueuedIn(l)' = EnqueuedIn(l)
  BY DEF EnqueuedIn
<1>2. \A t \in Task : LaneOf[t] \in Lane
  BY QueueAssumption
<1>3. QED
  BY <1>1, <1>2 DEF IInv, ArrivalsBelow

\* The lanes when one of them gets another queue, active set or concurrency.
LEMMA WithType ==
    ASSUME TypeOK, NEW l \in Lane, NEW q \in Seq(Task), NEW a \in SUBSET Task, NEW c \in Concurrency
    PROVE  With(l, q, a, c) \in [Lane -> LaneState]
<1>1. lane[l].generation \in Generation /\ lane \in [Lane -> LaneState]
  BY LaneFields DEF TypeOK
<1>2. LaneAt(q, a, c, lane[l].generation) \in LaneState
  BY <1>1, LaneIsLane
<1>3. QED
  BY <1>1, <1>2 DEF With

LEMMA InitInv == Init => IInv
<1> SUFFICES ASSUME Init PROVE IInv
  OBVIOUS
<1> USE QueueAssumption DEF Init
<1>1. /\ <<>> \in Seq(Task) /\ {} \in SUBSET Task /\ 1 \in Concurrency /\ 0 \in Generation
  BY DEF Generation, Concurrency
<1>2. \A l \in Lane : /\ lane[l] \in LaneState /\ lane[l].queue = <<>> /\ lane[l].active = {}
                      /\ lane[l].generation = 0
  <2>1. /\ LaneAt(<<>>, {}, 1, 0) \in LaneState /\ LaneAt(<<>>, {}, 1, 0).queue = <<>>
        /\ LaneAt(<<>>, {}, 1, 0).active = {} /\ LaneAt(<<>>, {}, 1, 0).generation = 0
    BY <1>1 DEF LaneAt, LaneState
  <2>2. QED
    BY <2>1
<1>3. TypeOK
  BY <1>1, <1>2 DEF TypeOK, Place
<1>4. Accounts(lane, state, born)
  BY <1>2 DEF Accounts, Members
<1>5. Ordered(lane, state, arrival) /\ Busy(lane, {})
  BY <1>2 DEF Ordered, Busy
<1>6. \A t \in Task : state[t] = "new"
  OBVIOUS
<1>7. BornBefore /\ ArrivalsBelow /\ ResetAllowed /\ AwaitedCount
  BY <1>2, <1>6 DEF BornBefore, ArrivalsBelow, ResetAllowed, AwaitedCount, DrainedHasEnded
<1>8. QED
  BY <1>3, <1>4, <1>5, <1>7 DEF IInv

----------------------------------------------------------------------------
\* A new command is the last of its lane.
LEMMA EnqueueStep ==
    ASSUME IInv, NEW t \in Task, Enqueue(t)
    PROVE  IInv' /\ Within(lane)
<1> USE QueueAssumption
<1>a. PICK l : l = LaneOf[t]
  OBVIOUS
<1>b. PICK q : q = Append(lane[l].queue, t)
  OBVIOUS
<1>c. PICK L : L = WithQueue(l, q)
  OBVIOUS
<1> DEFINE st == [state EXCEPT ![t] = "queued"]
<1>1. /\ state[t] = "new" /\ Drain({l}, L, st)
      /\ arrival' = [arrival EXCEPT ![t] = Cardinality(EnqueuedIn(l)) + 1]
      /\ UNCHANGED <<phase, awaited, drained>>
  BY <1>a, <1>b, <1>c DEF Enqueue
<1>2. TypeOK /\ l \in Lane
  BY <1>a DEF IInv
<1>3. /\ lane[l].queue \in Seq(Task) /\ lane[l].active \in SUBSET Task
      /\ lane[l].maxConcurrent \in Concurrency
  BY <1>2, LaneFields DEF TypeOK
<1>4. /\ q \in Seq(Task) /\ Len(q) = Len(lane[l].queue) + 1 /\ q[Len(q)] = t
      /\ \A i \in 1..Len(lane[l].queue) : q[i] = lane[l].queue[i]
      /\ DOMAIN q = 1..Len(q) /\ DOMAIN lane[l].queue = 1..Len(lane[l].queue)
      /\ Len(lane[l].queue) \in Nat
  BY <1>b, <1>3
<1>d. \A i \in DOMAIN q : i \in 1..Len(lane[l].queue) \/ i = Len(q)
  BY <1>4
<1>5. /\ L \in [Lane -> LaneState] /\ L[l].queue = q /\ L[l].active = lane[l].active
      /\ L[l].maxConcurrent = lane[l].maxConcurrent
      /\ \A m \in Lane : m # l => L[m] = lane[m]
      /\ \A m \in Lane : L[m].generation = lane[m].generation
  <2>1. q \in Seq(Task)
    BY <1>4
  <2>2. L = With(l, q, lane[l].active, lane[l].maxConcurrent)
    BY <1>c DEF WithQueue
  <2>3. L \in [Lane -> LaneState]
    BY <1>2, <1>3, <2>1, <2>2, WithType
  <2>4. lane \in [Lane -> LaneState] /\ lane[l].generation \in Generation
    BY <1>2, LaneFields DEF TypeOK
  <2>5. /\ L[l] = LaneAt(q, lane[l].active, lane[l].maxConcurrent, lane[l].generation)
        /\ \A m \in Lane : m # l => L[m] = lane[m]
    BY <1>2, <2>2, <2>4 DEF With
  <2>6. /\ L[l].queue = q /\ L[l].active = lane[l].active
        /\ L[l].maxConcurrent = lane[l].maxConcurrent /\ L[l].generation = lane[l].generation
    BY <1>3, <2>1, <2>4, <2>5, LaneIsLane
  <2>7. QED
    BY <2>3, <2>5, <2>6
<1>6. /\ st \in [Task -> Place] /\ st[t] = "queued" /\ \A u \in Task : u # t => st[u] = state[u]
      /\ state \in [Task -> Place] /\ born \in [Task -> Generation] /\ arrival \in [Task -> Nat]
  BY <1>2 DEF TypeOK, Place
<1> HIDE DEF st
<1>7. /\ IsFiniteSet(EnqueuedIn(l)) /\ Cardinality(EnqueuedIn(l)) \in Nat
      /\ t \notin EnqueuedIn(l)
      /\ \A u \in EnqueuedIn(l) : arrival[u] <= Cardinality(EnqueuedIn(l))
  <2>1. EnqueuedIn(l) \in SUBSET Task
    BY DEF EnqueuedIn
  <2>2. t \notin EnqueuedIn(l)
    BY <1>1 DEF EnqueuedIn
  <2>3. ASSUME NEW u \in EnqueuedIn(l) PROVE arrival[u] <= Cardinality(EnqueuedIn(l))
    <3>1. u \in Task /\ LaneOf[u] = l /\ state[u] # "new"
      BY DEF EnqueuedIn
    <3>2. QED
      BY <3>1 DEF IInv, ArrivalsBelow
  <2>4. IsFiniteSet(EnqueuedIn(l)) /\ Cardinality(EnqueuedIn(l)) \in Nat
    BY <2>1, ActiveFinite
  <2>5. QED
    BY <2>2, <2>3, <2>4
<1>8. arrival' \in [Task -> Nat] /\ arrival'[t] = Cardinality(EnqueuedIn(l)) + 1
      /\ \A u \in Task : u # t => arrival'[u] = arrival[u]
  BY <1>1, <1>6, <1>7
<1>9. /\ lane[l].active = {u \in Task : LaneOf[u] = l /\ state[u] = "running" /\ born[u] = lane[l].generation}
      /\ Members(lane[l].queue) = {u \in Task : LaneOf[u] = l /\ state[u] = "queued"}
      /\ Distinct(lane[l])
  BY <1>2 DEF IInv, Accounts, Distinct
<1>10. Members(q) = Members(lane[l].queue) \union {t}
  <2>1. Len(q) \in DOMAIN q /\ 1..Len(lane[l].queue) \subseteq DOMAIN q
    BY <1>4
  <2>2. Members(q) = {q[i] : i \in DOMAIN q}
    BY DEF Members
  <2>3. Members(lane[l].queue) = {q[i] : i \in 1..Len(lane[l].queue)}
    BY <1>4 DEF Members
  <2>4. QED
    BY <1>4, <1>d, <2>1, <2>2, <2>3
<1>11. Accounts(L, st, born)
  <2>1. SUFFICES ASSUME NEW m \in Lane
        PROVE  /\ L[m].active = {u \in Task : LaneOf[u] = m /\ st[u] = "running" /\ born[u] = L[m].generation}
               /\ Members(L[m].queue) = {u \in Task : LaneOf[u] = m /\ st[u] = "queued"}
               /\ Distinct(L[m])
    BY DEF Accounts, Distinct
  <2>2. CASE m = l
    <3>1. L[l].active = {u \in Task : LaneOf[u] = l /\ st[u] = "running" /\ born[u] = L[l].generation}
      <4>1. /\ L[l].active = lane[l].active /\ L[l].generation = lane[l].generation
        BY <1>2, <1>5
      <4>2. \A u \in Task : st[u] = "running" <=> state[u] = "running"
        BY <1>1, <1>6
      <4>3. QED
        BY <1>9, <4>1, <4>2
    <3>2. Members(q) = {u \in Task : LaneOf[u] = l /\ st[u] = "queued"}
      <4>1. \A u \in Task : LaneOf[u] = l /\ st[u] = "queued" <=>
                              u = t \/ (LaneOf[u] = l /\ state[u] = "queued")
        BY <1>a, <1>1, <1>6
      <4>2. QED
        BY <1>9, <1>10, <4>1
    <3>3. t \notin Members(lane[l].queue)
      BY <1>1, <1>9
    <3>4. Distinct(L[l])
      <4>1. \A i \in 1..Len(lane[l].queue) : q[i] # t
        BY <1>4, <3>3 DEF Members
      <4>2. \A i, j \in 1..Len(lane[l].queue) : q[i] = q[j] => i = j
        BY <1>4, <1>9 DEF Distinct
      <4>3. \A i \in DOMAIN q : i \in 1..Len(lane[l].queue) \/ i = Len(q)
        BY <1>d
      <4>4. \A i, j \in DOMAIN q : q[i] = q[j] => i = j
        BY <1>4, <4>1, <4>2, <4>3
      <4>5. QED
        BY <1>5, <4>4 DEF Distinct
    <3>5. QED
      BY <1>5, <2>2, <3>1, <3>2, <3>4
  <2>3. CASE m # l
    <3>1. /\ lane[m].active = {u \in Task : LaneOf[u] = m /\ state[u] = "running" /\ born[u] = lane[m].generation}
          /\ Members(lane[m].queue) = {u \in Task : LaneOf[u] = m /\ state[u] = "queued"}
          /\ Distinct(lane[m])
      BY DEF IInv, Accounts, Distinct
    <3>2. \A u \in Task : LaneOf[u] = m => st[u] = state[u]
      BY <1>a, <1>6, <2>3
    <3>3. QED
      BY <1>5, <2>3, <3>1, <3>2
  <2>4. QED
    BY <2>2, <2>3
<1>12. Ordered(L, st, arrival')
  <2>1. SUFFICES ASSUME NEW m \in Lane
        PROVE  /\ \A i, j \in DOMAIN L[m].queue : i < j => arrival'[L[m].queue[i]] < arrival'[L[m].queue[j]]
               /\ \A u \in Task, i \in DOMAIN L[m].queue :
                     LaneOf[u] = m /\ st[u] = "running" => arrival'[u] < arrival'[L[m].queue[i]]
    BY DEF Ordered
  <2>2. /\ \A i, j \in DOMAIN lane[m].queue : i < j => arrival[lane[m].queue[i]] < arrival[lane[m].queue[j]]
        /\ \A u \in Task, i \in DOMAIN lane[m].queue :
              LaneOf[u] = m /\ state[u] = "running" => arrival[u] < arrival[lane[m].queue[i]]
        /\ \A i \in DOMAIN lane[m].queue : lane[m].queue[i] \in {u \in Task : LaneOf[u] = m /\ state[u] = "queued"}
    BY DEF IInv, Ordered, Accounts, Members
  <2>3. \A u \in Task : st[u] = "running" => state[u] = "running" /\ u # t
    BY <1>6
  <2>4. CASE m # l
    BY <1>1, <1>5, <1>8, <2>2, <2>3, <2>4
  <2>5. CASE m = l
    <3>1. \A i \in 1..Len(lane[l].queue) :
             /\ lane[l].queue[i] \in Task /\ lane[l].queue[i] # t
             /\ lane[l].queue[i] \in EnqueuedIn(l)
      BY <1>1, <1>4, <2>2, <2>5 DEF EnqueuedIn
    <3>2. \A u \in Task : LaneOf[u] = l /\ state[u] = "running" => u \in EnqueuedIn(l)
      BY DEF EnqueuedIn
    <3>3. ASSUME NEW i \in DOMAIN q, NEW j \in DOMAIN q, i < j
          PROVE  arrival'[q[i]] < arrival'[q[j]]
      <4>1. i \in 1..Len(lane[l].queue)
        BY <1>4, <3>3
      <4>2. arrival'[q[i]] = arrival[lane[l].queue[i]] /\ q[i] \in Task /\ q[i] \in EnqueuedIn(l)
            /\ q[i] = lane[l].queue[i]
        BY <1>4, <1>8, <3>1, <4>1
      <4>3. CASE j = Len(q)
        <5>1. arrival[q[i]] <= Cardinality(EnqueuedIn(l)) /\ arrival[q[i]] \in Nat
          BY <1>6, <1>7, <4>2
        <5>2. QED
          BY <1>4, <1>7, <1>8, <4>2, <4>3, <5>1
      <4>4. CASE j # Len(q)
        <5>1. j \in 1..Len(lane[l].queue)
          BY <1>d, <4>4
        <5>2. arrival'[q[j]] = arrival[lane[l].queue[j]]
          BY <1>4, <1>8, <3>1, <5>1
        <5>3. QED
          BY <1>4, <2>2, <2>5, <3>3, <4>1, <4>2, <5>1, <5>2
      <4>5. QED
        BY <4>3, <4>4
    <3>4. ASSUME NEW u \in Task, NEW i \in DOMAIN q, LaneOf[u] = l, st[u] = "running"
          PROVE  arrival'[u] < arrival'[q[i]]
      <4>1. u \in EnqueuedIn(l) /\ u # t /\ state[u] = "running" /\ arrival'[u] = arrival[u]
        BY <1>8, <2>3, <3>2, <3>4
      <4>2. CASE i = Len(q)
        <5>1. arrival[u] <= Cardinality(EnqueuedIn(l)) /\ arrival[u] \in Nat
          BY <1>6, <1>7, <4>1
        <5>2. QED
          BY <1>4, <1>7, <1>8, <4>1, <4>2, <5>1
      <4>3. CASE i # Len(q)
        <5>1. i \in 1..Len(lane[l].queue)
          BY <1>d, <4>3
        <5>2. arrival'[q[i]] = arrival[lane[l].queue[i]]
          BY <1>4, <1>8, <3>1, <5>1
        <5>3. QED
          BY <1>4, <2>2, <2>5, <3>4, <4>1, <5>1, <5>2
      <4>4. QED
        BY <4>2, <4>3
    <3>5. QED
      BY <1>5, <2>5, <3>3, <3>4
  <2>6. QED
    BY <2>4, <2>5
<1>13. Busy(L, {l})
  BY <1>5 DEF Busy, IInv
<1>14. /\ lane' \in [Lane -> LaneState] /\ state' \in [Task -> Place] /\ born' \in [Task -> Generation]
       /\ Accounts(lane', state', born') /\ Ordered(lane', state', arrival') /\ Busy(lane', {})
       /\ Within(L)
       /\ \A m \in Lane : lane'[m].generation = L[m].generation
       /\ \A u \in Task : /\ st[u] # "queued" => state'[u] = st[u] /\ born'[u] = born[u]
                          /\ state'[u] = "new" <=> st[u] = "new"
                          /\ born'[u] \in {born[u], L[LaneOf[u]].generation}
  <2>1. {l} \in SUBSET Lane
    BY <1>2
  <2>2. QED
    BY <1>1, <1>5, <1>6, <1>8, <1>11, <1>12, <1>13, <2>1, DrainKeeps
<1>15. BornBefore' /\ ResetAllowed' /\ AwaitedCount'
  <2>1. \A m \in Lane : lane'[m].generation = lane[m].generation
    BY <1>5, <1>14
  <2>2. \A u \in Task : LaneOf[u] \in Lane
    OBVIOUS
  <2>3. \A u \in Task : /\ born'[u] \in {born[u], lane[LaneOf[u]].generation}
                        /\ Running(u) => state'[u] = "running" /\ born'[u] = born[u]
                        /\ Settled(u) => state'[u] = "settled"
    BY <1>1, <1>5, <1>6, <1>14, <2>2 DEF Running, Settled
  <2>4. QED
    BY <1>1, <1>14, <2>1, <2>3, SameGeneration
<1>16. ArrivalsBelow'
  <2>1. /\ EnqueuedIn(l)' = EnqueuedIn(l) \union {t}
        /\ \A m \in Lane : m # l => EnqueuedIn(m)' = EnqueuedIn(m)
    BY <1>a, <1>1, <1>6, <1>14 DEF EnqueuedIn
  <2>2. Cardinality(EnqueuedIn(l)') = Cardinality(EnqueuedIn(l)) + 1
    BY <1>7, <2>1, FS_AddElement
  <2>3. ASSUME NEW u \in Task, state'[u] # "new"
        PROVE  arrival'[u] <= Cardinality(EnqueuedIn(LaneOf[u])')
    <3>1. CASE u = t
      BY <1>a, <1>7, <1>8, <2>2, <3>1
    <3>2. CASE u # t
      <4>1. state[u] # "new" /\ arrival'[u] = arrival[u] /\ LaneOf[u] \in Lane
        BY <1>6, <1>8, <1>14, <2>3, <3>2
      <4>2. arrival[u] \in Nat /\ arrival[u] <= Cardinality(EnqueuedIn(LaneOf[u]))
        BY <1>6, <4>1 DEF IInv, ArrivalsBelow
      <4>3. CASE LaneOf[u] = l
        BY <1>7, <2>2, <4>1, <4>2, <4>3
      <4>4. CASE LaneOf[u] # l
        <5>1. PICK m \in Lane : m = LaneOf[u]
          BY <4>1
        <5>2. EnqueuedIn(m)' = EnqueuedIn(m)
          BY <2>1, <4>4, <5>1
        <5>3. QED
          BY <4>1, <4>2, <5>1, <5>2
      <4>5. QED
        BY <4>3, <4>4
    <3>3. QED
      BY <3>1, <3>2
  <2>4. QED
    BY <2>3 DEF ArrivalsBelow
<1>17. TypeOK'
  BY <1>1, <1>2, <1>8, <1>14 DEF TypeOK
<1>18. Within(lane)
  BY <1>5, <1>14 DEF Within
<1>19. QED
  BY <1>14, <1>15, <1>16, <1>17, <1>18 DEF IInv

----------------------------------------------------------------------------
\* Operations that settle commands and drain, but neither enqueue nor reset.
LEMMA DrainStep ==
    ASSUME IInv, NEW D \in SUBSET Lane, NEW L \in [Lane -> LaneState], NEW st \in [Task -> Place],
           \A l \in Lane : /\ L[l].generation = lane[l].generation
                          /\ L[l].active \subseteq lane[l].active,
           \A t \in Task : st[t] = state[t] \/ (st[t] = "settled" /\ state[t] # "new"),
           Accounts(L, st, born), Ordered(L, st, arrival), Busy(L, D),
           Drain(D, L, st), UNCHANGED <<arrival, phase, awaited, drained>>
    PROVE  IInv' /\ Within(lane)
<1> USE QueueAssumption
<1>1. TypeOK /\ arrival \in [Task -> Nat] /\ born \in [Task -> Generation]
      /\ \A t \in Task : LaneOf[t] \in Lane
  BY DEF IInv, TypeOK
<1>2. /\ lane' \in [Lane -> LaneState] /\ state' \in [Task -> Place]
      /\ born' \in [Task -> Generation]
      /\ Accounts(lane', state', born') /\ Ordered(lane', state', arrival) /\ Busy(lane', {})
      /\ Within(L)
      /\ \A l \in Lane : lane'[l].generation = L[l].generation
      /\ \A t \in Task : /\ st[t] # "queued" => state'[t] = st[t] /\ born'[t] = born[t]
                         /\ state'[t] = "new" <=> st[t] = "new"
                         /\ born'[t] \in {born[t], L[LaneOf[t]].generation}
  BY <1>1, DrainKeeps
<1>3. \A l \in Lane : lane'[l].generation = lane[l].generation
  BY <1>2
<1>4. \A t \in Task : /\ born'[t] \in {born[t], lane[LaneOf[t]].generation}
                      /\ Running(t) => \/ state'[t] = "running" /\ born'[t] = born[t]
                                       \/ state'[t] = "settled"
                      /\ Settled(t) => state'[t] = "settled"
                      /\ state'[t] = "new" <=> state[t] = "new"
  BY <1>1, <1>2 DEF Running, Settled
<1>5. BornBefore' /\ ResetAllowed' /\ AwaitedCount'
  BY <1>2, <1>3, <1>4, SameGeneration
<1>6. ArrivalsBelow'
  BY <1>4, SameArrivals
<1>7. TypeOK'
  BY <1>1, <1>2 DEF TypeOK
<1>8. Within(lane)
  BY <1>2 DEF Within
<1>9. QED
  BY <1>2, <1>5, <1>6, <1>7, <1>8 DEF IInv

Empty(q) == q = <<>>
ActiveIn(l, st) == {t \in Task : LaneOf[t] = l /\ st[t] = "running" /\ born[t] = lane[l].generation}
QueuedIn(l, st) == {t \in Task : LaneOf[t] = l /\ st[t] = "queued"}

\* ... in one lane, whose queue they keep or empty.
LEMMA OneLaneStep ==
    ASSUME IInv, NEW l \in Lane, NEW D \in SUBSET {l}, NEW L, NEW q \in Seq(Task),
           NEW a \in SUBSET Task, NEW c \in Concurrency, NEW st \in [Task -> Place],
           L = With(l, q, a, c), q = lane[l].queue \/ Empty(q),
           D = {l} \/ Empty(q),
           \A t \in Task : \/ st[t] = state[t]
                           \/ LaneOf[t] = l /\ st[t] = "settled" /\ state[t] # "new",
           a = ActiveIn(l, st), Members(q) = QueuedIn(l, st),
           Drain(D, L, st), UNCHANGED <<arrival, phase, awaited, drained>>
    PROVE  IInv' /\ Within(lane)
<1>1. lane \in [Lane -> LaneState] /\ lane[l].generation \in Generation /\ TypeOK
  BY LaneFields DEF IInv, TypeOK
<1>2. L \in [Lane -> LaneState]
  BY <1>1, WithType
<1>3. /\ L[l] = LaneAt(q, a, c, lane[l].generation)
      /\ \A m \in Lane : m # l => L[m] = lane[m]
  BY <1>1 DEF With
<1>4. L[l].queue = q /\ L[l].active = a /\ L[l].generation = lane[l].generation
  BY <1>2, <1>3 DEF LaneAt
<1>5. Accounts(L, st, born)
  <2>1. SUFFICES ASSUME NEW m \in Lane
        PROVE  /\ L[m].active = {u \in Task : LaneOf[u] = m /\ st[u] = "running" /\ born[u] = L[m].generation}
               /\ Members(L[m].queue) = {u \in Task : LaneOf[u] = m /\ st[u] = "queued"}
               /\ Distinct(L[m])
    BY DEF Accounts, Distinct
  <2>2. /\ lane[m].active = {u \in Task : LaneOf[u] = m /\ state[u] = "running" /\ born[u] = lane[m].generation}
        /\ Members(lane[m].queue) = {u \in Task : LaneOf[u] = m /\ state[u] = "queued"}
        /\ Distinct(lane[m])
    BY DEF IInv, Accounts, Distinct
  <2>3. CASE m = l
    <3>1. Distinct(L[l])
      <4>1. CASE q = lane[l].queue
        BY <1>4, <2>2, <2>3, <4>1 DEF Distinct
      <4>2. CASE Empty(q)
        <5>1. DOMAIN q = {}
          BY <4>2 DEF Empty
        <5>2. QED
          BY <1>4, <5>1 DEF Distinct
      <4>3. QED
        BY <4>1, <4>2
    <3>2. L[l].active = {u \in Task : LaneOf[u] = l /\ st[u] = "running" /\ born[u] = L[l].generation}
      BY <1>4 DEF ActiveIn
    <3>3. Members(L[l].queue) = {u \in Task : LaneOf[u] = l /\ st[u] = "queued"}
      BY <1>4 DEF QueuedIn
    <3>4. QED
      BY <2>3, <3>1, <3>2, <3>3
  <2>4. CASE m # l
    <3>1. \A u \in Task : LaneOf[u] = m => st[u] = state[u]
      BY <2>4
    <3>2. L[m] = lane[m]
      BY <1>3, <2>4
    <3>3. L[m].active = {u \in Task : LaneOf[u] = m /\ st[u] = "running" /\ born[u] = L[m].generation}
      <4>1. \A u \in Task : LaneOf[u] = m /\ st[u] = "running" <=> LaneOf[u] = m /\ state[u] = "running"
        BY <3>1
      <4>2. lane[m].active = {u \in Task : LaneOf[u] = m /\ st[u] = "running" /\ born[u] = lane[m].generation}
        BY <2>2, <4>1
      <4>3. QED
        BY <3>2, <4>2
    <3>4. Members(L[m].queue) = {u \in Task : LaneOf[u] = m /\ st[u] = "queued"}
      BY <2>2, <3>1, <3>2
    <3>5. QED
      BY <2>2, <3>2, <3>3, <3>4
  <2>5. QED
    BY <2>3, <2>4
<1>6. Ordered(L, st, arrival)
  <2>1. SUFFICES ASSUME NEW m \in Lane
        PROVE  /\ \A i, j \in DOMAIN L[m].queue : i < j => arrival[L[m].queue[i]] < arrival[L[m].queue[j]]
               /\ \A u \in Task, i \in DOMAIN L[m].queue :
                     LaneOf[u] = m /\ st[u] = "running" => arrival[u] < arrival[L[m].queue[i]]
    BY DEF Ordered
  <2>2. /\ \A i, j \in DOMAIN lane[m].queue : i < j => arrival[lane[m].queue[i]] < arrival[lane[m].queue[j]]
        /\ \A u \in Task, i \in DOMAIN lane[m].queue :
              LaneOf[u] = m /\ state[u] = "running" => arrival[u] < arrival[lane[m].queue[i]]
    BY DEF IInv, Ordered
  <2>3. L[m].queue = lane[m].queue \/ Empty(L[m].queue)
    BY <1>3, <1>4
  <2>4. \A u \in Task : st[u] = "running" => state[u] = "running"
    OBVIOUS
  <2>5. CASE L[m].queue = lane[m].queue
    BY <2>2, <2>4, <2>5
  <2>6. CASE Empty(L[m].queue)
    <3>1. PICK s : s = L[m].queue
      OBVIOUS
    <3>2. DOMAIN s = {}
      BY <2>6, <3>1 DEF Empty
    <3>3. QED
      BY <3>1, <3>2
  <2>7. QED
    BY <2>3, <2>5, <2>6
<1>7. Busy(L, D)
  <2>1. ASSUME NEW m \in Lane \ D, L[m].queue # <<>>
        PROVE  m # l
    BY <1>4, <2>1 DEF Empty
  <2>2. QED
    BY <1>3, <2>1 DEF IInv, Busy
<1>8. \A m \in Lane : L[m].generation = lane[m].generation
  BY <1>3, <1>4
<1>9. \A m \in Lane : L[m].active \subseteq lane[m].active
  <2>1. a \subseteq lane[l].active
    <3>1. lane[l].active = ActiveIn(l, state)
      BY DEF IInv, Accounts, ActiveIn
    <3>2. QED
      BY <3>1 DEF ActiveIn
  <2>2. QED
    BY <1>3, <1>4, <2>1
<1>10. QED
  BY <1>2, <1>5, <1>6, <1>7, <1>8, <1>9, DrainStep

LEMMA LaneNow ==
    ASSUME IInv, NEW l \in Lane
    PROVE  /\ lane[l].queue \in Seq(Task) /\ lane[l].active \in SUBSET Task
           /\ lane[l].maxConcurrent \in Concurrency /\ lane[l].generation \in Generation
           /\ lane[l].active = {u \in Task : LaneOf[u] = l /\ state[u] = "running" /\ born[u] = lane[l].generation}
           /\ Members(lane[l].queue) = {u \in Task : LaneOf[u] = l /\ state[u] = "queued"}
           /\ state \in [Task -> Place]
<1>1. lane[l] \in LaneState /\ state \in [Task -> Place]
  BY DEF IInv, TypeOK
<1>2. QED
  BY <1>1, LaneFields DEF IInv, Accounts

LEMMA FinishStep ==
    ASSUME IInv, NEW t \in Task, Finish(t)
    PROVE  IInv' /\ Within(lane)
<1>1. PICK l : l = LaneOf[t]
  OBVIOUS
<1>2. PICK a : a = lane[l].active \ {t}
  OBVIOUS
<1>3. PICK st : st = [state EXCEPT ![t] = "settled"]
  OBVIOUS
<1>4. l \in Lane
  BY <1>1, QueueAssumption
<1>5. /\ state[t] = "running" /\ Drain({l}, With(l, lane[l].queue, a, lane[l].maxConcurrent), st)
      /\ UNCHANGED <<arrival, phase, awaited, drained>>
  BY <1>1, <1>2, <1>3 DEF Finish, MayEnd, Running, WithActive
<1>6. st \in [Task -> Place] /\ st[t] = "settled" /\ \A u \in Task : u # t => st[u] = state[u]
  BY <1>3, <1>4, LaneNow DEF Place
<1>7. a = ActiveIn(l, st)
  BY <1>2, <1>4, <1>6, LaneNow DEF ActiveIn
<1>8. Members(lane[l].queue) = QueuedIn(l, st)
  BY <1>4, <1>5, <1>6, LaneNow DEF QueuedIn
<1>9. \A u \in Task : st[u] = state[u] \/ (LaneOf[u] = l /\ st[u] = "settled" /\ state[u] # "new")
  BY <1>1, <1>5, <1>6
<1>10. a \in SUBSET Task /\ lane[l].queue \in Seq(Task) /\ lane[l].maxConcurrent \in Concurrency
  BY <1>2, <1>4, LaneNow
<1>11. QED
  BY <1>4, <1>5, <1>6, <1>7, <1>8, <1>9, <1>10, OneLaneStep

LEMMA FinishStaleStep ==
    ASSUME IInv, NEW t \in Task, FinishStale(t)
    PROVE  IInv' /\ Within(lane)
<1>1. PICK st : st = [state EXCEPT ![t] = "settled"]
  OBVIOUS
<1>2. /\ state[t] = "running" /\ born[t] # lane[LaneOf[t]].generation /\ Drain({}, lane, st)
      /\ UNCHANGED <<arrival, phase, awaited, drained>>
  BY <1>1 DEF FinishStale, MayEnd, Running, Current
<1>3. lane \in [Lane -> LaneState] /\ state \in [Task -> Place]
  BY DEF IInv, TypeOK
<1>4. st \in [Task -> Place] /\ st[t] = "settled" /\ \A u \in Task : u # t => st[u] = state[u]
  BY <1>1, <1>3 DEF Place
<1>5. Accounts(lane, st, born)
  <2>1. \A l \in Lane, u \in Task : LaneOf[u] = l =>
           /\ (st[u] = "running" /\ born[u] = lane[l].generation) <=>
                 (state[u] = "running" /\ born[u] = lane[l].generation)
           /\ st[u] = "queued" <=> state[u] = "queued"
    BY <1>2, <1>4
  <2>2. QED
    BY <2>1 DEF IInv, Accounts
<1>6. Ordered(lane, st, arrival)
  BY <1>4 DEF IInv, Ordered
<1>7. QED
  BY <1>2, <1>3, <1>4, <1>5, <1>6, DrainStep DEF IInv

LEMMA ClearStep ==
    ASSUME IInv, NEW l \in Lane, Clear(l)
    PROVE  IInv' /\ Within(lane)
<1>1. PICK st : st = [t \in Task |-> IF t \in Members(lane[l].queue) THEN "settled" ELSE state[t]]
  OBVIOUS
<1>2. /\ Drain({}, With(l, <<>>, lane[l].active, lane[l].maxConcurrent), st)
      /\ UNCHANGED <<arrival, phase, awaited, drained>>
  BY <1>1 DEF Clear, WithQueue
<1>3. st \in [Task -> Place]
  BY <1>1, LaneNow DEF Place
<1>4. \A u \in Task : IF LaneOf[u] = l /\ state[u] = "queued" THEN st[u] = "settled"
                                                               ELSE st[u] = state[u]
  BY <1>1, LaneNow
<1>5. lane[l].active = ActiveIn(l, st)
  <2>1. \A u \in Task : st[u] = "running" <=> state[u] = "running"
    BY <1>4
  <2>2. QED
    BY <2>1, LaneNow DEF ActiveIn
<1>6. Members(<<>>) = QueuedIn(l, st)
  BY <1>4 DEF Members, QueuedIn
<1>7. PICK q : q = <<>>
  OBVIOUS
<1>8. PICK D : D = {}
  OBVIOUS
<1>9. q \in Seq(Task) /\ D \in SUBSET {l} /\ Empty(q)
      /\ lane[l].active \in SUBSET Task /\ lane[l].maxConcurrent \in Concurrency
  BY <1>7, <1>8, LaneNow DEF Empty
<1>10. PICK L : L = With(l, q, lane[l].active, lane[l].maxConcurrent) /\ Drain(D, L, st)
  BY <1>2, <1>7, <1>8
<1>11. \A u \in Task : st[u] = state[u] \/ (LaneOf[u] = l /\ st[u] = "settled" /\ state[u] # "new")
  BY <1>4
<1>12. Members(q) = QueuedIn(l, st)
  BY <1>6, <1>7
<1>13. QED
  BY <1>2, <1>3, <1>5, <1>9, <1>10, <1>11, <1>12, OneLaneStep

LEMMA SetConcurrencyStep ==
    ASSUME IInv, NEW l \in Lane, NEW n \in 0..MaxCap, SetConcurrency(l, n)
    PROVE  IInv' /\ Within(lane)
<1>1. PICK c : c = IF n = 0 THEN 1 ELSE n
  OBVIOUS
<1>2. c \in Concurrency
  BY <1>1, QueueAssumption DEF Concurrency
<1>3. /\ Drain({l}, With(l, lane[l].queue, lane[l].active, c), state)
      /\ UNCHANGED <<arrival, phase, awaited, drained>>
  BY <1>1 DEF SetConcurrency, WithCap
<1>4. lane[l].active = ActiveIn(l, state) /\ Members(lane[l].queue) = QueuedIn(l, state)
  BY LaneNow DEF ActiveIn, QueuedIn
<1>5. /\ state \in [Task -> Place] /\ lane[l].queue \in Seq(Task) /\ lane[l].active \in SUBSET Task
  BY LaneNow
<1>6. QED
  BY <1>2, <1>3, <1>4, <1>5, OneLaneStep

----------------------------------------------------------------------------
\* The restart.  No command counts as started in the new generation, so the empty
\* active sets are right.
LEMMA ResetStep ==
    ASSUME IInv, ResetAllLanes
    PROVE  IInv' /\ Within(lane)
<1> USE QueueAssumption
<1>1. PICK L : L = ResetLanes
  OBVIOUS
<1>2. PICK D : D = {l \in Lane : lane[l].queue # <<>>}
  OBVIOUS
<1>3. /\ phase = "closing" /\ phase' = "up" /\ UNCHANGED <<arrival, awaited, drained>>
      /\ Drain(D, L, state)
  BY <1>1, <1>2 DEF ResetAllLanes
<1>4. /\ TypeOK /\ BornBefore /\ lane \in [Lane -> LaneState] /\ state \in [Task -> Place]
      /\ born \in [Task -> Generation] /\ arrival \in [Task -> Nat]
      /\ \A t \in Task : LaneOf[t] \in Lane
  BY DEF IInv, TypeOK
<1>5. \A l \in Lane : /\ lane[l].queue \in Seq(Task) /\ lane[l].maxConcurrent \in Concurrency
                      /\ lane[l].generation \in Nat /\ lane[l].generation + 1 \in Generation
  <2>1. \A l \in Lane : lane[l].generation < MaxResets
    BY <1>3 DEF IInv, ResetAllowed
  <2>2. QED
    BY <1>4, <2>1, LaneFields DEF Generation
<1>6. \A l \in Lane : L[l] = LaneAt(lane[l].queue, {}, lane[l].maxConcurrent, lane[l].generation + 1)
  BY <1>1 DEF ResetLanes
<1>7. \A l \in Lane : /\ L[l] \in LaneState /\ L[l].queue = lane[l].queue /\ L[l].active = {}
                      /\ L[l].generation = lane[l].generation + 1
  BY <1>5, <1>6, LaneIsLane
<1>8. L \in [Lane -> LaneState]
  BY <1>1, <1>7 DEF ResetLanes
<1>9. Accounts(L, state, born)
  <2>1. \A t \in Task : born[t] # lane[LaneOf[t]].generation + 1
    BY <1>4, <1>5 DEF BornBefore, Generation
  <2>2. SUFFICES ASSUME NEW l \in Lane
        PROVE  /\ L[l].active = {t \in Task : /\ LaneOf[t] = l /\ state[t] = "running"
                                              /\ born[t] = L[l].generation}
               /\ Members(L[l].queue) = {t \in Task : LaneOf[t] = l /\ state[t] = "queued"}
               /\ Distinct(L[l])
    BY DEF Accounts, Distinct
  <2>3. /\ Members(lane[l].queue) = {t \in Task : LaneOf[t] = l /\ state[t] = "queued"}
        /\ Distinct(lane[l])
    BY DEF IInv, Accounts, Distinct
  <2>4. L[l].active = {t \in Task : LaneOf[t] = l /\ state[t] = "running" /\ born[t] = L[l].generation}
    BY <1>7, <2>1
  <2>5. Distinct(L[l])
    BY <1>7, <2>3 DEF Distinct
  <2>6. QED
    BY <1>7, <2>3, <2>4, <2>5
<1>10. Ordered(L, state, arrival)
  BY <1>7 DEF IInv, Ordered
<1>11. Busy(L, D)
  BY <1>2, <1>7 DEF Busy
<1>12. D \in SUBSET Lane
  BY <1>2
<1>13. /\ lane' \in [Lane -> LaneState] /\ state' \in [Task -> Place]
       /\ born' \in [Task -> Generation]
       /\ Accounts(lane', state', born') /\ Ordered(lane', state', arrival) /\ Busy(lane', {})
       /\ Within(L)
       /\ \A l \in Lane : lane'[l].generation = L[l].generation
       /\ \A t \in Task : /\ state[t] # "queued" => state'[t] = state[t] /\ born'[t] = born[t]
                          /\ state'[t] = "new" <=> state[t] = "new"
                          /\ born'[t] \in {born[t], L[LaneOf[t]].generation}
  <2>1. Drain(D, L, state)
    BY <1>3
  <2>2. /\ arrival \in [Task -> Nat] /\ born \in [Task -> Generation]
        /\ state \in [Task -> Place]
    BY <1>4
  <2>3. QED
    BY <1>8, <1>9, <1>10, <1>11, <1>12, <2>1, <2>2, DrainKeeps
<1>14. BornBefore'
  <2>1. \A t \in Task : born[t] \in Nat /\ born[t] <= lane[LaneOf[t]].generation
    BY <1>4 DEF BornBefore, Generation
  <2>2. SUFFICES ASSUME NEW t \in Task PROVE born'[t] <= lane'[LaneOf[t]].generation
    BY DEF BornBefore
  <2>3. PICK g : g = lane[LaneOf[t]].generation
    OBVIOUS
  <2>4. /\ g \in Nat /\ born[t] \in Nat /\ born[t] <= g
        /\ L[LaneOf[t]].generation = g + 1 /\ lane'[LaneOf[t]].generation = g + 1
        /\ born'[t] \in {born[t], L[LaneOf[t]].generation}
    BY <1>4, <1>5, <1>7, <1>13, <2>1, <2>3
  <2>5. QED
    BY <2>4
<1>15. ResetAllowed' /\ AwaitedCount'
  BY <1>3 DEF ResetAllowed, AwaitedCount, DrainedHasEnded
<1>16. ArrivalsBelow'
  BY <1>3, <1>13, SameArrivals
<1>17. TypeOK'
  BY <1>3, <1>4, <1>13 DEF TypeOK
<1>18. Within(lane)
  BY <1>7, <1>13 DEF Within
<1>19. QED
  BY <1>3, <1>13, <1>14, <1>15, <1>16, <1>17, <1>18 DEF IInv

\* The steps of the restart loop that only look at the lanes.
LEMMA LookStep ==
    ASSUME IInv, RequestRestart \/ Poll \/ PollTimeout \/ UNCHANGED vars
    PROVE  IInv' /\ Within(lane)
<1> USE QueueAssumption
<1>1. UNCHANGED <<lane, state, born, arrival>>
  BY DEF RequestRestart, Poll, PollTimeout, vars
<1>2. /\ TypeOK /\ BornBefore /\ ArrivalsBelow
      /\ Accounts(lane, state, born) /\ Ordered(lane, state, arrival) /\ Busy(lane, {})
  BY DEF IInv
<1>3. /\ Accounts(lane', state', born') /\ Ordered(lane', state', arrival') /\ Busy(lane', {})
  BY <1>1, <1>2
<1>4. BornBefore' /\ ArrivalsBelow'
  BY <1>1, <1>2 DEF BornBefore, ArrivalsBelow, EnqueuedIn
<1>5. \A l \in Lane : \A t \in lane[l].active : Running(t) /\ Current(t) /\ t \in Task
  BY <1>2 DEF Accounts, Running, Current
<1>6. Active \subseteq Task /\ \A t \in Active : Running(t) /\ Current(t)
  BY <1>5 DEF Active
<1>7. \A t \in Task : Running(t) /\ Current(t) => t \in Active
  BY <1>2 DEF Accounts, Running, Current, Active
<1>8. TypeOK'
  BY <1>1, <1>2, <1>6 DEF TypeOK, RequestRestart, Poll, PollTimeout, vars
<1>9. ResetAllowed'
  BY <1>1 DEF IInv, ResetAllowed, RequestRestart, Poll, PollTimeout, vars
<1>10. AwaitedCount'
  <2>1. AwaitedCount /\ awaited \subseteq Task
    BY <1>2 DEF IInv, TypeOK
  <2>2. CASE RequestRestart
    BY <1>1, <1>6, <2>2 DEF RequestRestart, AwaitedCount, DrainedHasEnded, Running, Current, Settled
  <2>3. CASE Poll
    BY <1>1, <1>7, <2>1, <2>3 DEF Poll, AwaitedCount, DrainedHasEnded, Running, Current, Settled
  <2>4. CASE PollTimeout
    BY <2>4 DEF PollTimeout, AwaitedCount, DrainedHasEnded
  <2>5. CASE UNCHANGED vars
    BY <2>1, <2>5 DEF vars, AwaitedCount, DrainedHasEnded, Running, Current, Settled
  <2>6. QED
    BY <2>2, <2>3, <2>4, <2>5
<1>11. Within(lane)
  BY <1>1 DEF Within
<1>12. QED
  BY <1>3, <1>4, <1>8, <1>9, <1>10, <1>11 DEF IInv

LEMMA NextStep ==
    ASSUME IInv, [Next]_vars
    PROVE  IInv' /\ Within(lane)
BY QueueAssumption, EnqueueStep, FinishStep, FinishStaleStep, ClearStep, SetConcurrencyStep, ResetStep,
   LookStep DEF Next

----------------------------------------------------------------------------
\* IInv holds in every state.
THEOREM Invariance == Spec => []IInv
<1>1. IInv /\ [Next]_vars => IInv'
  BY NextStep
<1>2. QED
  BY InitInv, <1>1, PTL DEF Spec

\* The lanes, commands and the restart loop keep their types (TypeOK).
THEOREM TypeCorrect == Spec => []TypeOK
<1>1. IInv => TypeOK
  BY DEF IInv
<1>2. QED
  BY Invariance, <1>1, PTL

\* No slot leaks, no command is lost or runs twice (LanesAccount), for any number of
\* lanes, commands and restarts.
THEOREM AccountsSafe == Spec => []LanesAccount
<1>1. IInv => LanesAccount
  BY DEF IInv, Accounts, LanesAccount, Running, Current
<1>2. QED
  BY Invariance, <1>1, PTL

\* The commands of a lane start in the order of their enqueues (StartsInOrder).
THEOREM OrderSafe == Spec => []StartsInOrder
<1>1. IInv => StartsInOrder
  BY DEF IInv, Ordered, StartsInOrder, Running
<1>2. QED
  BY Invariance, <1>1, PTL

\* No command waits in a lane that has room (NoIdleLane).
THEOREM WorkConserving == Spec => []NoIdleLane
<1>1. IInv => NoIdleLane
  BY DEF IInv, Busy, NoIdleLane
<1>2. QED
  BY Invariance, <1>1, PTL

\* A wait that reports drained has seen its tasks end (DrainedHasEnded).
THEOREM DrainedSafe == Spec => []DrainedHasEnded
<1>1. IInv => DrainedHasEnded
  BY DEF IInv, AwaitedCount
<1>2. QED
  BY Invariance, <1>1, PTL

\* A step that starts tasks leaves the lane within its concurrency, whatever else the
\* operation did to the lane before its pump (command-queue.ts:74).
StartsWithinLimit ==
    [][\A l \in Lane : lane'[l].active \ lane[l].active # {} =>
          Cardinality(lane'[l].active) <= lane'[l].maxConcurrent]_vars

\* Every step of the lanes starts tasks within the limit (StartsWithinLimit).
THEOREM LimitSafe == Spec => StartsWithinLimit
<1>1. IInv /\ [Next]_vars =>
         [\A l \in Lane : lane'[l].active \ lane[l].active # {} =>
             Cardinality(lane'[l].active) <= lane'[l].maxConcurrent]_vars
  BY NextStep DEF Within
<1>2. QED
  BY Invariance, <1>1, PTL DEF Spec, StartsWithinLimit
=============================================================================
