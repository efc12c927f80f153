----------------------- MODULE FollowupQueue_proofs -----------------------
(***************************************************************************)
(* Theorems about FollowupQueue, for any number of messages and objects.   *)
(*                                                                         *)
(* The argument: the items of a queue are in the order of arrival, and     *)
(* what an overflow removes is in front, so the items behind the first     *)
(* `taken` are younger than every message of the prompt (Ordered).  They   *)
(* are what is left when the run completes.  In a queue that dropped       *)
(* nothing the first `taken` items are in the prompt (Covered), so the run *)
(* removes only what it answered.                                          *)
(***************************************************************************)
EXTENDS FollowupQueue, SequenceTheorems, TLAPS

USE FollowupAssumption DEF Msg, Queue

\* The items of q in the order of arrival, the run of q older than what it leaves.
Ordered(q) ==
    /\ \A i \in DOMAIN Items(q) : Items(q)[i] <= arrived /\ home[Items(q)[i]] = q
    /\ \A i, j \in DOMAIN Items(q) : i < j => Items(q)[i] < Items(q)[j]
    /\ \A i \in DOMAIN Items(q), n \in drain[q].prompt :
          i > drain[q].taken => n < Items(q)[i]
    /\ \A i \in DOMAIN Items(q), n \in Msg :
          runs[n] > 0 /\ home[n] = q => n < Items(q)[i]

\* The messages of a run belong to its queue and have not been answered.
Fresh(q) == \A n \in drain[q].prompt : home[n] = q /\ runs[n] = 0 /\ n <= arrived

\* In a queue that dropped nothing a run removes what it answers.
Covered(q) ==
    q \notin overflowed =>
        /\ queue[q].dropped = {} /\ drain[q].summary = {}
        /\ Busy(q) => \A i \in DOMAIN Items(q) :
                         i <= drain[q].taken => Items(q)[i] \in drain[q].prompt
        /\ Busy(q) /\ queue[q].lastRun => drain[q].taken <= Len(Items(q))

\* What is neither in the map nor robbed is empty; what is in the map is not.
Mapped(q) ==
    /\ q # current /\ q \notin robbed => Items(q) = <<>>
    /\ q = current => ~Empty(queue[q]) /\ queue[q].lastRun
    /\ cleared = {} /\ Draining(q) => q = current
    /\ Draining(q) => q <= created

Accounted(m) ==
    /\ home[m] # 0 => m <= arrived
    /\ runs[m] > 0 => home[m] # 0
    /\ home[m] # 0 => \/ home[m] \in overflowed \union robbed
                      \/ runs[m] = 1 \/ m \in cleared
                      \/ m \in Members(Items(home[m]))

Contents(q) == Ordered(q) /\ Fresh(q) /\ Covered(q)
IInv == /\ TypeOK
        /\ \A q \in Queue : Contents(q) /\ Mapped(q)
        /\ \A m \in Msg : Accounted(m) /\ runs[m] <= 1

----------------------------------------------------------------------------
\* What is left of a sequence without its first n elements.
LEMMA RestOf ==
    ASSUME NEW seq \in Seq(Msg), NEW n \in Nat
    PROVE  /\ Rest(seq, n) \in Seq(Msg)
           /\ Len(Rest(seq, n)) = IF n <= Len(seq) THEN Len(seq) - n ELSE 0
           /\ \A i \in 1..Len(Rest(seq, n)) : i + n \in 1..Len(seq) /\ Rest(seq, n)[i] = seq[i + n]
           /\ n = 0 => Rest(seq, n) = seq
<1>1. CASE n + 1 <= Len(seq)
  <2>1. /\ Rest(seq, n) \in Seq(Msg) /\ Len(Rest(seq, n)) = Len(seq) - n
        /\ \A i \in 1..(Len(seq) - n) : Rest(seq, n)[i] = seq[i + n]
    BY <1>1, SubSeqProperties DEF Rest
  <2>2. n = 0 => Rest(seq, n) = seq
    BY SubSeqFull DEF Rest
  <2>3. QED
    BY <1>1, <2>1, <2>2
<1>2. CASE n + 1 > Len(seq)
  <2>1. Rest(seq, n) = <<>>
    BY <1>2, SubSeqEmpty DEF Rest
  <2>2. n = 0 => seq = <<>>
    BY <1>2, EmptySeq
  <2>3. QED
    BY <1>2, <2>1, <2>2
<1>3. QED
  BY <1>1, <1>2

\* What a queue holds after an enqueue that is not refused.
LEMMA PushedItems ==
    ASSUME NEW seq \in Seq(Msg), NEW n \in Nat, NEW m \in Msg
    PROVE  LET pushed == Append(Rest(seq, n), m)
           IN  /\ pushed \in Seq(Msg) /\ Len(pushed) = Len(Rest(seq, n)) + 1
               /\ pushed # <<>>
               /\ \A i \in 1..Len(pushed) :
                     \/ i = Len(pushed) /\ pushed[i] = m
                     \/ i < Len(pushed) /\ i + n \in 1..Len(seq) /\ pushed[i] = seq[i + n]
<1> DEFINE rest == Rest(seq, n)
           pushed == Append(rest, m)
<1>1. /\ rest \in Seq(Msg) /\ Len(rest) \in Nat
      /\ \A i \in 1..Len(rest) : i + n \in 1..Len(seq) /\ rest[i] = seq[i + n]
  BY RestOf
<1> HIDE DEF rest
<1>2. /\ pushed \in Seq(Msg) /\ Len(pushed) = Len(rest) + 1
      /\ \A i \in 1..Len(rest) : pushed[i] = rest[i]
      /\ pushed[Len(rest) + 1] = m
  BY <1>1, AppendProperties
<1>3. pushed # <<>>
  BY <1>1, <1>2, EmptySeq
<1> HIDE DEF pushed
<1>4. ASSUME NEW i \in 1..Len(pushed)
      PROVE  \/ i = Len(pushed) /\ pushed[i] = m
             \/ i < Len(pushed) /\ i + n \in 1..Len(seq) /\ pushed[i] = seq[i + n]
  <2>1. CASE i = Len(pushed)
    BY <1>2, <2>1
  <2>2. CASE i # Len(pushed)
    <3>1. i \in 1..Len(rest) /\ i < Len(pushed)
      BY <1>1, <1>2, <2>2
    <3>2. i + n \in 1..Len(seq) /\ rest[i] = seq[i + n]
      BY <1>1, <3>1
    <3>3. pushed[i] = rest[i]
      BY <1>2, <3>1
    <3>4. QED
      BY <3>1, <3>2, <3>3
  <2>3. QED
    BY <2>1, <2>2
<1>5. QED
  BY <1>2, <1>3, <1>4 DEF pushed, rest

LEMMA InitInv == Init => IInv
<1> SUFFICES ASSUME Init  PROVE IInv
  OBVIOUS
<1>1. (CHOOSE s \in Settings : TRUE) \in Setting
  OBVIOUS
<1>2. TypeOK
  BY <1>1 DEF Init, TypeOK, Unused, QueueAt, QueueState, AtRest, DrainAt, Drain
<1>3. \A q \in Queue : Contents(q) /\ Mapped(q)
  BY DEF Init, Contents, Ordered, Fresh, Covered, Mapped, Items, Unused, QueueAt, AtRest, DrainAt, Busy,
     Draining, Empty
<1>4. QED
  BY <1>2, <1>3 DEF Init, IInv, Accounted

----------------------------------------------------------------------------
\* The parts of a queue and of a drain, and records with such parts.
LEMMA Parts ==
    ASSUME TypeOK, NEW q \in Queue
    PROVE  /\ Items(q) \in Seq(Msg) /\ Len(Items(q)) \in Nat
           /\ DOMAIN Items(q) = 1..Len(Items(q)) /\ Members(Items(q)) \subseteq Msg
           /\ queue[q].dropped \in SUBSET Msg /\ queue[q].lastRun \in BOOLEAN
           /\ queue[q].setting \in Setting
           /\ drain[q].prompt \in SUBSET Msg /\ drain[q].summary \in SUBSET Msg
           /\ drain[q].taken \in Nat /\ drain[q].force \in BOOLEAN
<1>1. queue[q] \in QueueState /\ drain[q] \in Drain
  BY DEF TypeOK
<1>2. Items(q) \in Seq(Msg)
  BY <1>1 DEF Items, QueueState
<1>3. /\ Len(Items(q)) \in Nat /\ DOMAIN Items(q) = 1..Len(Items(q))
      /\ \A i \in DOMAIN Items(q) : Items(q)[i] \in Msg
  BY <1>2
<1>4. Members(Items(q)) \subseteq Msg
  BY <1>3 DEF Members
<1>5. QED
  BY <1>1, <1>2, <1>3, <1>4 DEF QueueState, Drain

LEMMA QueueAtType ==
    ASSUME NEW items \in Seq(Msg), NEW dropped \in SUBSET Msg, NEW lastRun \in BOOLEAN,
           NEW setting \in Setting
    PROVE  /\ QueueAt(items, dropped, lastRun, setting) \in QueueState
           /\ QueueAt(items, dropped, lastRun, setting).lastRun = lastRun
           /\ QueueAt(items, dropped, lastRun, setting).items = items
           /\ QueueAt(items, dropped, lastRun, setting).dropped = dropped
BY DEF QueueAt, QueueState

LEMMA DrainAtType ==
    ASSUME NEW pc \in {"rest", "wait", "run"}, NEW force \in BOOLEAN, NEW prompt \in SUBSET Msg,
           NEW summary \in SUBSET Msg, NEW taken \in Nat
    PROVE  DrainAt(pc, force, prompt, summary, taken) \in Drain
BY DEF DrainAt, Drain

LEMMA CalmType == AtRest \in Drain /\ \A force \in BOOLEAN : Waiting(force) \in Drain
<1>1. 0 \in Nat /\ {} \in SUBSET Msg
  OBVIOUS
<1>2. QED
  BY <1>1, DrainAtType DEF AtRest, Waiting

\* What leaving the loop does to the drains, the map and the robbed objects.
LEMMA LeaveType ==
    ASSUME TypeOK, NEW q \in Queue, NEW s, Leave(q, s)
    PROVE  /\ drain' \in [Queue -> Drain] /\ current' \in {0, current}
           /\ robbed' \subseteq Queue
<1>1. drain' \in [Queue -> Drain]
  BY CalmType DEF Leave, Scheduled, TypeOK
<1>2. robbed' \subseteq Queue
  <2>1. robbed \subseteq Queue /\ current \in 0..MaxQueues
    BY DEF TypeOK
  <2>2. current \notin {0, q} => current \in Queue
    BY <2>1
  <2>3. robbed' \subseteq robbed \union (IF current \in {0, q} THEN {} ELSE {current})
    BY DEF Leave
  <2>4. QED
    BY <2>1, <2>2, <2>3
<1>3. QED
  BY <1>1, <1>2 DEF Leave

LEMMA AfterRunType ==
    ASSUME TypeOK, NEW q \in Queue
    PROVE  AfterRun(q) \in QueueState
<1>1. Rest(Items(q), drain[q].taken) \in Seq(Msg)
  BY Parts, RestOf
<1>2. (IF drain[q].summary = {} THEN queue[q].dropped ELSE {}) \in SUBSET Msg
  BY Parts
<1>3. QED
  BY <1>1, <1>2, Parts, QueueAtType DEF AfterRun

LEMMA ExcessRange ==
    ASSUME TypeOK, NEW q \in Queue, NEW s \in Settings
    PROVE  /\ Excess(q, s) \in Nat /\ Full(q, s) \in BOOLEAN
           /\ ~Full(q, s) => Excess(q, s) = 0
           /\ Full(q, s) => Items(q) # <<>> /\ Excess(q, s) <= Len(Items(q))
<1>1. s.cap \in Nat \ {0} /\ Len(Items(q)) \in Nat
  BY Parts DEF Setting
<1>2. Items(q) = <<>> => Len(Items(q)) = 0
  BY Parts, EmptySeq
<1>3. QED
  BY <1>1, <1>2 DEF Excess, Full

\* What an enqueue leaves in its queue.
LEMMA EnqueueType ==
    ASSUME TypeOK, NEW m \in Msg, NEW s \in Settings, Enqueue(m, s)
    PROVE  TypeOK'
<1> DEFINE q == Target
           refused == Full(q, s) /\ s.dropPolicy = "new"
           items == IF refused THEN Items(q) ELSE Append(Rest(Items(q), Excess(q, s)), m)
           dropped == IF s.dropPolicy = "summarize"
                      THEN queue[q].dropped \union First(Items(q), Excess(q, s)) ELSE queue[q].dropped
<1>1. q \in Queue /\ q \in Nat
  BY DEF Enqueue
<1>2. items \in Seq(Msg)
  BY <1>1, Parts, ExcessRange, PushedItems
<1>3. dropped \in SUBSET Msg
  <2>1. First(Items(q), Excess(q, s)) \subseteq Msg
    BY <1>1, Parts DEF First, Members
  <2>2. QED
    BY <1>1, <2>1, Parts
<1>4. s \in Setting
  OBVIOUS
<1>5. QueueAt(items, dropped, TRUE, s) \in QueueState
  BY <1>2, <1>3, <1>4, QueueAtType
<1>6. queue' = [queue EXCEPT ![q] = QueueAt(items, dropped, TRUE, s)]
  BY DEF Enqueue
<1> HIDE DEF items, dropped
<1>7. queue' \in [Queue -> QueueState]
  BY <1>1, <1>5, <1>6 DEF TypeOK
<1>8. created' \in 0..MaxQueues /\ current' \in 0..created' /\ created <= created'
  BY <1>1 DEF Enqueue, TypeOK, Target
<1>9. home' \in [Msg -> 0..created']
  BY <1>1, <1>8 DEF Enqueue, TypeOK
<1>10. overflowed' \subseteq Queue /\ arrived' \in 0..N
  BY <1>1 DEF Enqueue, TypeOK
<1>11. /\ drain' = drain /\ runs' = runs /\ cleared' = cleared
       /\ robbed' = robbed
  BY DEF Enqueue
<1>12. QED
  BY <1>7, <1>8, <1>9, <1>10, <1>11 DEF TypeOK

LEMMA TypeStep ==
    ASSUME TypeOK, [Next]_vars
    PROVE  TypeOK'
<1>1. ASSUME NEW m \in Msg, NEW s \in Settings, Enqueue(m, s)  PROVE TypeOK'
  BY <1>1, EnqueueType
<1>2. ASSUME NEW m \in Msg, NEW s \in Settings, Redeliver(m, s)  PROVE TypeOK'
  <2>1. current \in Queue /\ s \in Setting
    BY <1>2 DEF Redeliver, TypeOK
  <2>2. QueueAt(Items(current), queue[current].dropped, queue[current].lastRun, s) \in QueueState
    BY <2>1, Parts, QueueAtType
  <2>3. QED
    BY <1>2, <2>1, <2>2 DEF Redeliver, TypeOK, map, history
<1>3. ASSUME Clear  PROVE TypeOK'
  <2>1. current \in Queue
    BY <1>3 DEF Clear, TypeOK
  <2>2. QueueAt(<<>>, {}, FALSE, queue[current].setting) \in QueueState
    <3>1. <<>> \in Seq(Msg) /\ {} \in SUBSET Msg
      OBVIOUS
    <3>2. QED
      BY <2>1, <3>1, Parts, QueueAtType
  <2>3. Members(Items(current)) \subseteq Msg /\ queue[current].dropped \subseteq Msg
    BY <2>1, Parts
  <2>4. queue' \in [Queue -> QueueState]
    BY <1>3, <2>1, <2>2 DEF Clear, TypeOK
  <2>5. cleared' \subseteq Msg
    BY <1>3, <2>3 DEF Clear, TypeOK
  <2>6. current' \in 0..created /\ created' = created
    BY <1>3 DEF Clear, TypeOK
  <2>7. QED
    BY <1>3, <2>4, <2>5, <2>6 DEF Clear, TypeOK
<1>4. ASSUME EndTurn  PROVE TypeOK'
  BY <1>4, CalmType DEF EndTurn, Scheduled, TypeOK, map, history
<1>5. ASSUME NEW q \in Queue, NEW force \in BOOLEAN, NEW prompt \in SUBSET Msg,
             NEW summary \in SUBSET Msg, NEW taken \in Nat, Run(q, force, prompt, summary, taken)
      PROVE  TypeOK'
  BY <1>5, DrainAtType DEF Run, TypeOK, map, history
<1>6. ASSUME NEW q \in Queue, Pick(q)  PROVE TypeOK'
  <2>1. CASE RunItem(q)
    <3>1. {Items(q)[1]} \in SUBSET Msg /\ {} \in SUBSET Msg /\ 1 \in Nat
      BY <2>1, Parts, EmptySeq DEF RunItem
    <3>2. drain[q].force \/ Collects(q) \in BOOLEAN
      BY Parts DEF Collects
    <3>3. QED
      BY <1>5, <2>1, <3>1, <3>2 DEF RunItem
  <2>2. CASE RunSummary(q)
    <3>1. {} \in SUBSET Msg /\ Summary(q) \in SUBSET Msg /\ 1 \in Nat /\ drain[q].force \in BOOLEAN
      BY Parts DEF Summary
    <3>2. QED
      BY <1>5, <2>2, <3>1 DEF RunSummary
  <2>3. CASE RunBatch(q)
    <3>1. Members(Items(q)) \in SUBSET Msg /\ Summary(q) \in SUBSET Msg /\ Len(Items(q)) \in Nat
      BY Parts DEF Summary
    <3>2. QED
      BY <1>5, <2>3, <3>1 DEF RunBatch
  <2>4. CASE BreakLoop(q)
    <3>1. Leave(q, queue[q])
      BY <2>4 DEF BreakLoop
    <3>2. /\ drain' \in [Queue -> Drain] /\ current' \in {0, current}
          /\ robbed' \subseteq Queue
      BY <3>1, LeaveType
    <3>3. QED
      BY <2>4, <3>2 DEF BreakLoop, TypeOK
  <2>5. QED
    BY <1>6, <2>1, <2>2, <2>3, <2>4 DEF Pick
<1>7. ASSUME NEW q \in Queue, RunCompletes(q)  PROVE TypeOK'
  <2>1. queue' \in [Queue -> QueueState]
    BY <1>7, AfterRunType DEF RunCompletes, TypeOK
  <2>2. /\ drain' \in [Queue -> Drain] /\ current' \in {0, current}
        /\ robbed' \subseteq Queue
    <3>1. CASE Empty(AfterRun(q))
      BY <1>7, <3>1, LeaveType DEF RunCompletes
    <3>2. CASE ~Empty(AfterRun(q))
      <4>1. Waiting(drain[q].force) \in Drain
        BY CalmType, Parts
      <4>2. QED
        BY <1>7, <3>2, <4>1 DEF RunCompletes, TypeOK
    <3>3. QED
      BY <3>1, <3>2
  <2>3. runs' \in [Msg -> 0..2]
    <3>1. \A m \in Msg : runs[m] \in 0..2 /\ (runs[m] < 2 => runs[m] + 1 \in 0..2)
      BY DEF TypeOK
    <3>2. runs' \in [Msg -> 0..2]
      BY <1>7, <3>1 DEF RunCompletes
    <3>3. QED
      BY <3>2
  <2>4. QED
    BY <1>7, <2>1, <2>2, <2>3 DEF RunCompletes, TypeOK
<1>8. ASSUME NEW q \in Queue, RunThrows(q)  PROVE TypeOK'
  <2>1. Leave(q, queue[q])
    BY <1>8 DEF RunThrows
  <2>2. /\ drain' \in [Queue -> Drain] /\ current' \in {0, current}
        /\ robbed' \subseteq Queue
    BY <2>1, LeaveType
  <2>3. QED
    BY <1>8, <2>2 DEF RunThrows, TypeOK
<1>9. CASE UNCHANGED vars
  BY <1>9 DEF vars, map, history, TypeOK
<1>10. QED
  BY <1>1, <1>2, <1>3, <1>4, <1>6, <1>7, <1>8, <1>9 DEF Next

----------------------------------------------------------------------------
\* A loop that runs nothing.
Calm(d) == d.pc # "run" /\ d.prompt = {} /\ d.summary = {}

LEMMA CalmLoops == Calm(AtRest) /\ \A force : Calm(Waiting(force))
BY DEF Calm, AtRest, Waiting, DrainAt

\* A queue whose items a step leaves alone keeps its part of the invariant, when its
\* loop stays as it is or leaves its run and no message of it is answered.
LEMMA SameContents ==
    ASSUME TypeOK, NEW q \in Queue, Contents(q), \A m \in Msg : Accounted(m),
           Items(q)' = Items(q), queue'[q].dropped = queue[q].dropped,
           queue'[q].lastRun = queue[q].lastRun,
           drain'[q] = drain[q] \/ Calm(drain'[q]),
           arrived <= arrived', arrived' \in Int,
           \A n \in Msg : n <= arrived => home'[n] = home[n],
           \A n \in Msg : home'[n] = q => home[n] = q,
           \A n \in Msg : home[n] = q => runs'[n] = runs[n],
           q \in overflowed => q \in overflowed'
    PROVE  Contents(q)'
<1>1. arrived \in Int /\ \A i \in DOMAIN Items(q) : Items(q)[i] \in Msg
  <2>1. Items(q) \in Seq(Msg)
    BY Parts
  <2>2. \A i \in DOMAIN Items(q) : Items(q)[i] \in Msg
    BY <2>1
  <2>3. QED
    BY <2>2 DEF TypeOK
<1>2. Ordered(q)'
  <2>1. \A i \in DOMAIN Items(q) : Items(q)[i] <= arrived' /\ home'[Items(q)[i]] = q
    BY <1>1 DEF Contents, Ordered
  <2>2. \A n \in drain'[q].prompt : n \in drain[q].prompt
    BY DEF Calm
  <2>3. \A i \in DOMAIN Items(q), n \in drain'[q].prompt : i > drain'[q].taken => n < Items(q)[i]
    BY DEF Calm, Contents, Ordered
  <2>4. \A i \in DOMAIN Items(q), n \in Msg :
           runs'[n] > 0 /\ home'[n] = q => n < Items(q)[i]
    BY DEF Contents, Ordered
  <2>5. QED
    BY <2>1, <2>3, <2>4 DEF Contents, Ordered
<1>3. Fresh(q)'
  <2>1. \A n \in drain'[q].prompt : n \in drain[q].prompt
    BY DEF Calm
  <2>2. \A n \in drain[q].prompt : n \in Msg /\ n <= arrived /\ home[n] = q /\ runs[n] = 0
    BY Parts DEF Contents, Fresh
  <2>3. QED
    BY <1>1, <2>1, <2>2 DEF Fresh
<1>4. Covered(q)'
  BY DEF Contents, Covered, Calm, Busy
<1>5. QED
  BY <1>2, <1>3, <1>4 DEF Contents

LEMMA PushedMembers ==
    ASSUME NEW seq \in Seq(Msg), NEW n \in Nat, NEW m \in Msg
    PROVE  /\ m \in Members(Append(Rest(seq, n), m))
           /\ n = 0 => Members(seq) \subseteq Members(Append(Rest(seq, n), m))
<1>1. Rest(seq, n) \in Seq(Msg) /\ (n = 0 => Rest(seq, n) = seq)
  BY RestOf
<1> DEFINE pushed == Append(Rest(seq, n), m)
<1>2. /\ pushed \in Seq(Msg) /\ Len(pushed) = Len(Rest(seq, n)) + 1
      /\ \A i \in 1..Len(Rest(seq, n)) : pushed[i] = Rest(seq, n)[i]
      /\ pushed[Len(Rest(seq, n)) + 1] = m
  BY <1>1, AppendProperties
<1>3. DOMAIN pushed = 1..Len(pushed) /\ DOMAIN seq = 1..Len(seq) /\ Len(seq) \in Nat
      /\ Len(Rest(seq, n)) \in Nat
  BY <1>1, <1>2
<1> HIDE DEF pushed
<1>4. m \in Members(pushed)
  <2>1. Len(Rest(seq, n)) + 1 \in DOMAIN pushed
    BY <1>2, <1>3
  <2>2. QED
    BY <1>2, <2>1 DEF Members
<1>5. n = 0 => Members(seq) \subseteq Members(pushed)
  BY <1>1, <1>2, <1>3 DEF Members
<1>6. QED
  BY <1>4, <1>5 DEF pushed

\* The queue a message is enqueued in keeps its part of the invariant.
LEMMA EnqueueContents ==
    ASSUME IInv, NEW m \in Msg, NEW s \in Settings, Enqueue(m, s),
           NEW q \in Queue, q = Target
    PROVE  Contents(q)'
<1> DEFINE k == Excess(q, s)
           refused == Full(q, s) /\ s.dropPolicy = "new"
           pushed == Append(Rest(Items(q), k), m)
           items == IF refused THEN Items(q) ELSE pushed
           dropped == IF s.dropPolicy = "summarize"
                      THEN queue[q].dropped \union First(Items(q), k) ELSE queue[q].dropped
<1>1. TypeOK /\ Contents(q) /\ Mapped(q) /\ \A n \in Msg : Accounted(n)
  BY DEF IInv, Enqueue
<1>2. /\ Items(q) \in Seq(Msg) /\ k \in Nat /\ Len(Items(q)) \in Nat
      /\ DOMAIN Items(q) = 1..Len(Items(q)) /\ drain[q].taken \in Nat /\ drain[q].prompt \subseteq Msg
      /\ \A i \in 1..Len(Items(q)) : Items(q)[i] \in Msg
  BY <1>1, Parts, ExcessRange
<1>3. /\ pushed \in Seq(Msg) /\ Len(pushed) = Len(Rest(Items(q), k)) + 1
      /\ \A i \in 1..Len(pushed) :
            \/ i = Len(pushed) /\ pushed[i] = m
            \/ i < Len(pushed) /\ i + k \in 1..Len(Items(q)) /\ pushed[i] = Items(q)[i + k]
      /\ Len(Rest(Items(q), k)) = IF k <= Len(Items(q)) THEN Len(Items(q)) - k ELSE 0
  <2>1. Items(q) \in Seq(Msg) /\ k \in Nat
    BY <1>2
  <2> HIDE DEF k
  <2>2. Len(Rest(Items(q), k)) = IF k <= Len(Items(q)) THEN Len(Items(q)) - k ELSE 0
    BY <2>1, RestOf
  <2>3. QED
    BY <2>1, <2>2, PushedItems
<1>4. queue'[q] = QueueAt(items, dropped, TRUE, s)
  BY <1>1 DEF Enqueue, TypeOK
<1>5. Items(q)' = items /\ queue'[q].dropped = dropped /\ queue'[q].lastRun = TRUE
  BY <1>4 DEF Items, QueueAt
<1>6. /\ m = arrived + 1 /\ arrived' = m /\ drain' = drain /\ runs' = runs
      /\ home' = IF refused THEN home ELSE [home EXCEPT ![m] = q]
      /\ overflowed' = IF Full(q, s) /\ ~refused THEN overflowed \union {q} ELSE overflowed
  BY DEF Enqueue
<1>7. /\ home[m] = 0 /\ runs[m] = 0 /\ \A n \in Msg : n <= arrived => home'[n] = home[n]
      /\ \A n \in Msg : home[n] = q => n <= arrived
      /\ \A n \in Msg : n # m => home'[n] = home[n]
      /\ ~refused => home'[m] = q
      /\ arrived \in Int /\ q # 0 /\ \A n \in Msg : runs[n] \in 0..2
  <2>1. /\ arrived \in Int /\ q # 0 /\ \A n \in Msg : runs[n] \in 0..2
        /\ home \in [Msg -> Int]
    BY <1>1 DEF TypeOK
  <2>2. /\ home[m] = 0 /\ \A n \in Msg : home[n] = q => n <= arrived
    BY <1>1, <1>6, <2>1 DEF Accounted
  <2>3. runs[m] = 0
    BY <1>1, <2>1, <2>2 DEF Accounted
  <2>4. /\ \A n \in Msg : n # m => home'[n] = home[n]
        /\ ~refused => home'[m] = q
    BY <1>6, <2>1
  <2>5. \A n \in Msg : n <= arrived => n # m
    BY <1>6, <2>1
  <2>6. QED
    BY <2>1, <2>2, <2>3, <2>4, <2>5
<1>13. /\ \A i \in 1..Len(Items(q)) : Items(q)[i] <= arrived /\ home[Items(q)[i]] = q
       /\ \A i, j \in 1..Len(Items(q)) : i < j => Items(q)[i] < Items(q)[j]
       /\ \A i \in 1..Len(Items(q)), n \in drain[q].prompt :
             i > drain[q].taken => n < Items(q)[i]
       /\ \A i \in 1..Len(Items(q)), n \in Msg :
             runs[n] > 0 /\ home[n] = q => n < Items(q)[i]
       /\ \A n \in drain[q].prompt : n \in Msg /\ n <= arrived
  BY <1>1, <1>2 DEF Contents, Ordered, Fresh
<1>8. DOMAIN pushed = 1..Len(pushed) /\ Len(pushed) \in Nat
  BY <1>3
<1>9. Full(q, s) \in BOOLEAN /\ (~Full(q, s) => k = 0) /\ First(Items(q), 0) = {}
  BY <1>1, ExcessRange DEF First
<1>10. q \notin overflowed' /\ Busy(q) => drain[q].taken <= Len(Items(q))
  <2>1. q = current \/ ~Draining(q)
    BY <1>1 DEF Target, Mapped, TypeOK
  <2>2. QED
    BY <1>1, <1>6, <2>1 DEF Contents, Covered, Mapped, Busy, Draining
<1> HIDE DEF k, pushed, dropped
<1>11. CASE refused
  <2>1. dropped = queue[q].dropped
    BY <1>11 DEF dropped
  <2>2. Ordered(q)'
    BY <1>1, <1>2, <1>5, <1>6, <1>7, <1>11 DEF Contents, Ordered
  <2>3. Fresh(q)'
    BY <1>1, <1>2, <1>6, <1>7 DEF Contents, Fresh
  <2>4. Covered(q)'
    BY <1>1, <1>5, <1>6, <1>10, <1>11, <2>1 DEF Contents, Covered, Busy
  <2>5. QED
    BY <2>2, <2>3, <2>4 DEF Contents
<1>12. CASE ~refused
  <2>1. Items(q)' = pushed
    BY <1>5, <1>12
  <2> DEFINE old(i) == i + k \in 1..Len(Items(q)) /\ pushed[i] = Items(q)[i + k]
  <2>10. \A i \in 1..Len(pushed) :
            /\ i \in Int /\ i + k \in Int /\ i <= Len(pushed) /\ i <= i + k
            /\ i # Len(pushed) => old(i) /\ i < Len(pushed)
            /\ i = Len(pushed) => pushed[i] = m
            /\ pushed[i] \in Msg
    <3>1. Len(pushed) \in Nat /\ k \in Nat
      BY <1>2, <1>8
    <3>2. ASSUME NEW i \in 1..Len(pushed)
          PROVE  /\ i \in Int /\ i + k \in Int /\ i <= Len(pushed) /\ i <= i + k
                 /\ i # Len(pushed) => old(i) /\ i < Len(pushed)
                 /\ i = Len(pushed) => pushed[i] = m
      <4>1. \/ i = Len(pushed) /\ pushed[i] = m
            \/ i < Len(pushed) /\ old(i)
        BY <1>3
      <4>2. QED
        BY <3>1, <4>1
    <3>3. \A i \in 1..Len(pushed) : pushed[i] \in Msg
      <4>1. pushed \in Seq(Msg)
        BY <1>3
      <4>2. QED
        BY <4>1
    <3>4. QED
      BY <3>2, <3>3
  <2>2. ASSUME NEW i \in 1..Len(pushed)
        PROVE  pushed[i] <= arrived' /\ home'[pushed[i]] = q
    <3>1. CASE i = Len(pushed)
      BY <1>6, <1>7, <1>12, <2>10, <3>1
    <3>2. CASE i # Len(pushed)
      <4>1. old(i)
        BY <2>10, <3>2
      <4>2. pushed[i] <= arrived /\ home[pushed[i]] = q
        BY <1>13, <4>1
      <4>3. QED
        BY <1>6, <1>7, <2>10, <4>2
    <3>3. QED
      BY <3>1, <3>2
  <2>3. ASSUME NEW i \in 1..Len(pushed), NEW j \in 1..Len(pushed), i < j
        PROVE  pushed[i] < pushed[j]
    <3>1. old(i)
      BY <2>3, <2>10
    <3>2. CASE j = Len(pushed)
      BY <1>6, <1>7, <1>13, <2>10, <3>1, <3>2
    <3>3. CASE j # Len(pushed)
      <4>1. old(j) /\ i + k < j + k
        BY <1>2, <2>3, <2>10, <3>3
      <4>2. QED
        BY <1>13, <3>1, <4>1
    <3>4. QED
      BY <3>2, <3>3
  <2>4. ASSUME NEW i \in 1..Len(pushed), NEW n \in drain[q].prompt, i > drain[q].taken
        PROVE  n < pushed[i]
    <3>1. CASE i = Len(pushed)
      BY <1>6, <1>7, <1>13, <2>10, <3>1
    <3>2. CASE i # Len(pushed)
      <4>1. old(i) /\ i + k > drain[q].taken
        BY <1>2, <2>4, <2>10, <3>2
      <4>2. QED
        BY <1>13, <4>1
    <3>3. QED
      BY <3>1, <3>2
  <2>5. ASSUME NEW i \in 1..Len(pushed), NEW n \in Msg, runs[n] > 0, home'[n] = q
        PROVE  n < pushed[i]
    <3>1. n # m /\ home[n] = q /\ n <= arrived
      BY <1>7, <2>5
    <3>2. CASE i = Len(pushed)
      BY <1>6, <1>7, <2>10, <3>1, <3>2
    <3>3. CASE i # Len(pushed)
      <4>1. old(i)
        BY <2>10, <3>3
      <4>2. QED
        BY <1>13, <2>5, <3>1, <4>1
    <3>4. QED
      BY <3>2, <3>3
  <2>6. Ordered(q)'
    BY <1>6, <1>8, <2>1, <2>2, <2>3, <2>4, <2>5 DEF Ordered
  <2>7. Fresh(q)'
    BY <1>1, <1>2, <1>6, <1>7 DEF Contents, Fresh
  <2>8. Covered(q)'
    <3>1. SUFFICES ASSUME q \notin overflowed'  PROVE Covered(q)'
      BY DEF Covered
    <3>2. ~Full(q, s) /\ k = 0 /\ q \notin overflowed
      BY <1>6, <1>9, <1>12, <3>1
    <3>3. dropped = {}
      BY <1>1, <1>9, <3>2 DEF dropped, Contents, Covered
    <3>4. ASSUME Busy(q), NEW i \in 1..Len(pushed), i <= drain[q].taken
          PROVE  pushed[i] \in drain[q].prompt
      <4>1. Len(Rest(Items(q), k)) = Len(Items(q)) /\ Len(pushed) = Len(Items(q)) + 1
        BY <1>2, <1>3, <3>2
      <4>2. i <= Len(Items(q))
        BY <1>2, <1>10, <3>1, <3>4
      <4>3. i # Len(pushed)
        BY <1>2, <4>1, <4>2
      <4>4. i + k \in 1..Len(Items(q)) /\ pushed[i] = Items(q)[i + k]
        BY <2>10, <4>3
      <4>5. i + k = i
        BY <2>10, <3>2
      <4>6. QED
        BY <1>1, <1>2, <3>2, <3>4, <4>4, <4>5 DEF Contents, Covered
    <3>5. Busy(q) => drain[q].taken <= Len(pushed)
      BY <1>2, <1>3, <1>10, <3>1, <3>2
    <3>6. QED
      BY <1>1, <1>5, <1>6, <1>8, <2>1, <3>2, <3>3, <3>4, <3>5 DEF Contents, Covered, Busy
  <2>9. QED
    BY <2>6, <2>7, <2>8 DEF Contents
<1>14. QED
  BY <1>11, <1>12

\* The loop that starts a run keeps its queue's part of the invariant: the prompt is
\* made of the first items.
LEMMA RunContents ==
    ASSUME IInv, NEW q \in Queue, NEW force, NEW prompt \in SUBSET Msg, NEW summary, NEW taken \in Nat,
           Run(q, force, prompt, summary, taken),
           \A i \in DOMAIN Items(q) :
              i <= taken /\ (prompt # {} \/ q \notin overflowed) => Items(q)[i] \in prompt,
           \A n \in prompt : \E i \in DOMAIN Items(q) : i <= taken /\ n = Items(q)[i],
           q \notin overflowed => summary = {} /\ taken <= Len(Items(q))
    PROVE  Contents(q)'
<1>1. TypeOK /\ Contents(q) /\ \A n \in Msg : Accounted(n)
  BY DEF IInv
<1>2. /\ queue' = queue /\ arrived' = arrived /\ home' = home /\ runs' = runs
      /\ overflowed' = overflowed /\ drain'[q] = DrainAt("run", force, prompt, summary, taken)
  BY <1>1 DEF Run, map, history, TypeOK
<1>3. drain'[q].prompt = prompt /\ drain'[q].summary = summary /\ drain'[q].taken = taken
  BY <1>2 DEF DrainAt
<1>4. /\ \A i \in DOMAIN Items(q) : i \in Int /\ Items(q)[i] \in Msg
      /\ \A n \in Msg : runs[n] \in 0..2
  <2>1. Items(q) \in Seq(Msg)
    BY <1>1, Parts
  <2>2. \A i \in DOMAIN Items(q) : i \in Int /\ Items(q)[i] \in Msg
    BY <2>1
  <2>3. runs \in [Msg -> 0..2]
    BY <1>1 DEF TypeOK
  <2>4. QED
    BY <2>2, <2>3
<1>5. Ordered(q)'
  <2>1. ASSUME NEW i \in DOMAIN Items(q), NEW n \in prompt, i > taken
        PROVE  n < Items(q)[i]
    <3>1. PICK j \in DOMAIN Items(q) : j <= taken /\ n = Items(q)[j]
      OBVIOUS
    <3>2. j < i
      BY <1>4, <2>1, <3>1
    <3>3. QED
      BY <1>1, <3>1, <3>2 DEF Contents, Ordered
  <2>2. QED
    BY <1>1, <1>2, <1>3, <2>1 DEF Contents, Ordered, Items
<1>6. Fresh(q)'
  <2>1. ASSUME NEW n \in prompt  PROVE home[n] = q /\ runs[n] = 0 /\ n <= arrived
    <3>1. PICK j \in DOMAIN Items(q) : n = Items(q)[j]
      OBVIOUS
    <3>2. home[n] = q /\ n <= arrived
      BY <1>1, <3>1 DEF Contents, Ordered
    <3>3. ~(runs[n] > 0)
      <4>1. runs[n] > 0 => n < n
        BY <1>1, <3>1, <3>2 DEF Contents, Ordered
      <4>2. QED
        BY <4>1
    <3>4. QED
      BY <1>4, <3>2, <3>3
  <2>2. QED
    BY <1>2, <1>3, <2>1 DEF Fresh
<1>7. Covered(q)'
  BY <1>1, <1>2, <1>3 DEF Contents, Covered, Items, Busy
<1>8. QED
  BY <1>5, <1>6, <1>7 DEF Contents

LEMMA PickContents ==
    ASSUME IInv, NEW q \in Queue, RunItem(q) \/ RunSummary(q) \/ RunBatch(q)
    PROVE  Contents(q)'
<1>1. TypeOK /\ Contents(q)
  BY DEF IInv
<1>2. /\ Items(q) \in Seq(Msg) /\ Len(Items(q)) \in Nat /\ DOMAIN Items(q) = 1..Len(Items(q))
      /\ \A i \in DOMAIN Items(q) : Items(q)[i] \in Msg
      /\ Items(q) # <<>> => 1 \in DOMAIN Items(q)
  <2>1. Items(q) \in Seq(Msg)
    BY <1>1, Parts
  <2>2. QED
    BY <2>1, EmptySeq
<1>3. q \notin overflowed => Summary(q) = {}
  BY <1>1 DEF Contents, Covered, Summary
<1>4. CASE RunItem(q)
  <2> DEFINE force == drain[q].force \/ Collects(q)
             prompt == {Items(q)[1]}
  <2>1. Run(q, force, prompt, {}, 1) /\ 1 \in DOMAIN Items(q)
    BY <1>2, <1>4 DEF RunItem
  <2>2. /\ prompt \in SUBSET Msg /\ 1 \in Nat /\ 1 <= Len(Items(q))
        /\ \A i \in DOMAIN Items(q) : i <= 1 => Items(q)[i] \in prompt
        /\ \A n \in prompt : \E i \in DOMAIN Items(q) : i <= 1 /\ n = Items(q)[i]
    BY <1>2, <2>1
  <2> HIDE DEF force, prompt
  <2>3. QED
    BY <2>1, <2>2, RunContents
<1>5. CASE RunSummary(q)
  <2>1. Run(q, drain[q].force, {}, Summary(q), 1) /\ q \in overflowed
    BY <1>3, <1>5 DEF RunSummary
  <2>2. {} \in SUBSET Msg /\ 1 \in Nat
    OBVIOUS
  <2>3. QED
    BY <2>1, <2>2, RunContents
<1>6. CASE RunBatch(q)
  <2>1. Run(q, FALSE, Members(Items(q)), Summary(q), Len(Items(q)))
    BY <1>6 DEF RunBatch
  <2> DEFINE prompt == Members(Items(q))
             taken == Len(Items(q))
  <2>2. /\ prompt \in SUBSET Msg /\ taken \in Nat
        /\ \A i \in DOMAIN Items(q) : i <= taken => Items(q)[i] \in prompt
        /\ \A n \in prompt : \E i \in DOMAIN Items(q) : i <= taken /\ n = Items(q)[i]
        /\ q \notin overflowed => Summary(q) = {} /\ taken <= Len(Items(q))
    BY <1>2, <1>3 DEF Members
  <2> HIDE DEF prompt, taken
  <2>3. Run(q, FALSE, prompt, Summary(q), taken)
    BY <2>1 DEF prompt, taken
  <2>4. QED
    BY <2>2, <2>3, RunContents
<1>7. QED
  BY <1>4, <1>5, <1>6

\* Leaving the loop starts no run.
LEMMA LeaveLoops ==
    ASSUME TypeOK, NEW q \in Queue, NEW s, Leave(q, s)
    PROVE  /\ \A r \in Queue : drain'[r] = drain[r] \/ Calm(drain'[r])
           /\ Calm(drain'[q])
BY CalmLoops DEF Leave, Scheduled, TypeOK

\* What is left of a queue after a run keeps the invariant.
LEMMA CompletedContents ==
    ASSUME IInv, NEW q \in Queue, RunCompletes(q)
    PROVE  Contents(q)'
<1>1. TypeOK /\ Contents(q)
  BY DEF IInv
<1> DEFINE k == drain[q].taken
           left == Rest(Items(q), k)
<1>2. /\ Items(q) \in Seq(Msg) /\ Len(Items(q)) \in Nat /\ k \in Nat
      /\ DOMAIN Items(q) = 1..Len(Items(q)) /\ drain[q].prompt \in SUBSET Msg
  BY <1>1, Parts
<1>3. /\ left \in Seq(Msg) /\ Len(left) \in Nat /\ DOMAIN left = 1..Len(left)
      /\ \A i \in 1..Len(left) : i + k \in 1..Len(Items(q)) /\ left[i] = Items(q)[i + k]
  <2>1. Items(q) \in Seq(Msg) /\ k \in Nat
    BY <1>2
  <2> HIDE DEF k
  <2>2. /\ left \in Seq(Msg)
        /\ \A i \in 1..Len(left) : i + k \in 1..Len(Items(q)) /\ left[i] = Items(q)[i + k]
    BY <2>1, RestOf
  <2> HIDE DEF left
  <2>3. Len(left) \in Nat /\ DOMAIN left = 1..Len(left)
    BY <2>2
  <2>4. QED
    BY <2>2, <2>3
<1>4. Calm(drain'[q])
  BY <1>1, LeaveLoops, CalmLoops DEF RunCompletes, TypeOK
<1>5. /\ Items(q)' = left /\ arrived' = arrived /\ home' = home /\ overflowed' = overflowed
      /\ queue'[q].dropped = IF drain[q].summary = {} THEN queue[q].dropped ELSE {}
      /\ \A n \in Msg : runs'[n] > 0 => runs[n] > 0 \/ n \in drain[q].prompt
  BY <1>1 DEF RunCompletes, AfterRun, QueueAt, Items, TypeOK
<1> HIDE DEF left, k
<1>6. Ordered(q)'
  <2>1. ASSUME NEW i \in 1..Len(left)
        PROVE  left[i] <= arrived /\ home[left[i]] = q
    BY <1>1, <1>2, <1>3 DEF Contents, Ordered
  <2>2. ASSUME NEW i \in 1..Len(left), NEW j \in 1..Len(left), i < j
        PROVE  left[i] < left[j]
    <3>1. i + k < j + k
      BY <1>2, <2>2
    <3>2. QED
      BY <1>1, <1>2, <1>3, <3>1 DEF Contents, Ordered
  <2>3. ASSUME NEW i \in 1..Len(left), NEW n \in Msg, runs'[n] > 0, home[n] = q
        PROVE  n < left[i]
    <3>1. CASE runs[n] > 0
      BY <1>1, <1>2, <1>3, <2>3, <3>1 DEF Contents, Ordered
    <3>2. CASE n \in drain[q].prompt
      <4>1. i + k > k
        BY <1>2
      <4>2. QED
        BY <1>1, <1>2, <1>3, <3>2, <4>1 DEF Contents, Ordered, k
    <3>3. QED
      BY <1>5, <2>3, <3>1, <3>2
  <2>4. QED
    BY <1>3, <1>4, <1>5, <2>1, <2>2, <2>3 DEF Ordered, Calm
<1>7. Fresh(q)'
  BY <1>4 DEF Fresh, Calm
<1>8. Covered(q)'
  BY <1>1, <1>4, <1>5 DEF Covered, Contents, Calm, Busy
<1>9. QED
  BY <1>6, <1>7, <1>8 DEF Contents

LEMMA ContentsStep ==
    ASSUME IInv, [Next]_vars, NEW q \in Queue
    PROVE  Contents(q)'
<1>1. TypeOK /\ Contents(q) /\ Mapped(q) /\ \A n \in Msg : Accounted(n)
  BY DEF IInv
<1>2. arrived \in Int /\ arrived <= arrived
  BY <1>1 DEF TypeOK
<1>3. ASSUME queue'[q].items = queue[q].items, queue'[q].dropped = queue[q].dropped,
             queue'[q].lastRun = queue[q].lastRun, drain'[q] = drain[q] \/ Calm(drain'[q]),
             arrived' = arrived, home' = home, runs' = runs, overflowed' = overflowed
      PROVE  Contents(q)'
  BY <1>1, <1>2, <1>3, SameContents DEF Items
<1>4. ASSUME NEW m \in Msg, NEW s \in Settings, Enqueue(m, s)  PROVE Contents(q)'
  <2>1. CASE q = Target
    BY <1>4, <2>1, EnqueueContents
  <2>2. CASE q # Target
    <3>1. /\ queue'[q] = queue[q] /\ drain'[q] = drain[q] /\ runs' = runs
          /\ arrived' = arrived + 1 /\ arrived' = m
          /\ home' = home \/ home' = [home EXCEPT ![m] = Target]
          /\ q \in overflowed => q \in overflowed'
      BY <1>1, <1>4, <2>2 DEF Enqueue, TypeOK
    <3>2. /\ \A n \in Msg : n # m => home'[n] = home[n]
          /\ home'[m] = home[m] \/ home'[m] = Target
      BY <1>1, <3>1 DEF TypeOK
    <3>3. /\ arrived <= arrived' /\ arrived' \in Int
          /\ \A n \in Msg : n <= arrived => home'[n] = home[n]
          /\ \A n \in Msg : home'[n] = q => home[n] = q
      BY <1>2, <2>2, <3>1, <3>2
    <3>4. QED
      BY <1>1, <3>1, <3>3, SameContents DEF Items
  <2>3. QED
    BY <2>1, <2>2
<1>5. ASSUME NEW m \in Msg, NEW s \in Settings, Redeliver(m, s)  PROVE Contents(q)'
  <2>1. /\ queue'[q].items = queue[q].items /\ queue'[q].dropped = queue[q].dropped
        /\ queue'[q].lastRun = queue[q].lastRun
    BY <1>1, <1>5 DEF Redeliver, QueueAt, Items, TypeOK
  <2>2. QED
    BY <1>3, <1>5, <2>1 DEF Redeliver, map, history
<1>6. ASSUME Clear  PROVE Contents(q)'
  <2>1. CASE q # current
    BY <1>1, <1>3, <1>6, <2>1 DEF Clear, TypeOK
  <2>2. CASE q = current
    <3>1. queue'[q] = QueueAt(<<>>, {}, FALSE, queue[q].setting)
      BY <1>1, <1>6, <2>2 DEF Clear, TypeOK
    <3>2. Items(q)' = <<>> /\ queue'[q].dropped = {} /\ queue'[q].lastRun = FALSE
      BY <3>1 DEF Items, QueueAt
    <3>3. /\ drain' = drain /\ arrived' = arrived /\ home' = home /\ runs' = runs
          /\ overflowed' = overflowed
      BY <1>6 DEF Clear
    <3>4. DOMAIN <<>> = {}
      OBVIOUS
    <3>5. Ordered(q)'
      BY <3>2, <3>4 DEF Ordered
    <3>6. Fresh(q)'
      BY <1>1, <3>3 DEF Contents, Fresh
    <3>7. Covered(q)'
      BY <1>1, <3>2, <3>3, <3>4 DEF Contents, Covered, Busy
    <3>8. QED
      BY <3>5, <3>6, <3>7 DEF Contents
  <2>3. QED
    BY <2>1, <2>2
<1>7. ASSUME EndTurn  PROVE Contents(q)'
  <2>1. drain'[q] = drain[q] \/ Calm(drain'[q])
    BY <1>1, <1>7, CalmLoops DEF EndTurn, Scheduled, TypeOK
  <2>2. QED
    BY <1>3, <1>7, <2>1 DEF EndTurn, map, history
<1>8. ASSUME NEW r \in Queue, RunItem(r) \/ RunSummary(r) \/ RunBatch(r)  PROVE Contents(q)'
  <2>1. CASE r = q
    BY <1>8, <2>1, PickContents
  <2>2. CASE r # q
    BY <1>1, <1>3, <1>8, <2>2 DEF RunItem, RunSummary, RunBatch, Run, TypeOK, map, history
  <2>3. QED
    BY <2>1, <2>2
<1>9. ASSUME NEW r \in Queue, BreakLoop(r) \/ RunThrows(r)  PROVE Contents(q)'
  <2>1. drain'[q] = drain[q] \/ Calm(drain'[q])
    BY <1>1, <1>9, LeaveLoops DEF BreakLoop, RunThrows
  <2>2. QED
    BY <1>3, <1>9, <2>1 DEF BreakLoop, RunThrows
<1>10. ASSUME NEW r \in Queue, RunCompletes(r)  PROVE Contents(q)'
  <2>1. CASE r = q
    BY <1>10, <2>1, CompletedContents
  <2>2. CASE r # q
    <3>1. /\ queue'[q] = queue[q] /\ arrived' = arrived /\ home' = home
          /\ overflowed' = overflowed
      BY <1>1, <1>10, <2>2 DEF RunCompletes, TypeOK
    <3>2. drain'[q] = drain[q] \/ Calm(drain'[q])
      BY <1>1, <1>10, <2>2, LeaveLoops DEF RunCompletes, TypeOK
    <3>3. \A n \in Msg : n \in drain[r].prompt => home[n] # q
      BY <2>2 DEF IInv, Contents, Fresh
    <3>4. \A n \in Msg : home[n] = q => runs'[n] = runs[n]
      BY <1>10, <3>3 DEF RunCompletes
    <3>5. QED
      BY <1>1, <1>2, <3>1, <3>2, <3>4, SameContents DEF Items
  <2>3. QED
    BY <2>1, <2>2
<1>11. CASE UNCHANGED vars
  BY <1>3, <1>11 DEF vars, map, history
<1>12. QED
  BY <1>4, <1>5, <1>6, <1>7, <1>8, <1>9, <1>10, <1>11 DEF Next, Pick

----------------------------------------------------------------------------
\* Leaving a loop keeps the map's part of the invariant: s is what the object of the
\* loop holds after the step, no more than before.
LEMMA LeaveMapped ==
    ASSUME TypeOK, NEW q \in Queue, NEW s, Leave(q, s), queue' = [queue EXCEPT ![q] = s],
           Items(q) = <<>> => s.items = <<>>, s.lastRun = queue[q].lastRun,
           Draining(q), created' = created, cleared' = cleared,
           \A p \in Queue : Mapped(p),
           NEW r \in Queue
    PROVE  Mapped(r)'
<1>1. /\ queue'[q] = s /\ \A p \in Queue : p # q => queue'[p] = queue[p]
      /\ created \in Int /\ current \in 0..created /\ 0 \notin Queue
  BY DEF TypeOK
<1>2. CASE Empty(s)
  <2>1. /\ current' = 0 /\ ~Draining(q)' /\ \A p \in Queue : p # q => drain'[p] = drain[p]
        /\ robbed \subseteq robbed'
        /\ current \notin {0, q} => current \in robbed'
    <3>1. drain' = [drain EXCEPT ![q] = AtRest] /\ current' = 0
      BY <1>2 DEF Leave
    <3>2. ~Draining(q)' /\ \A p \in Queue : p # q => drain'[p] = drain[p]
      BY <3>1 DEF TypeOK, Draining, AtRest, DrainAt
    <3>3. robbed' = IF current \in {0, q} THEN robbed ELSE robbed \union {current}
      BY <1>2 DEF Leave
    <3>4. QED
      BY <3>1, <3>2, <3>3
  <2>2. r # q => Items(r)' = Items(r)
    BY <1>1 DEF Items
  <2>3. r = q => Items(r)' = <<>>
    BY <1>1, <1>2 DEF Items, Empty
  <2>4. Mapped(q) /\ Mapped(r) /\ Draining(q)
    OBVIOUS
  <2>5. Draining(r)' => r # q /\ Draining(r)
    BY <2>1 DEF Draining
  <2>6. ~(cleared' = {} /\ Draining(r)')
    BY <2>4, <2>5 DEF Mapped
  <2>7. r # 0 /\ r # current'
    BY <1>1, <2>1
  <2>8. r \notin robbed' => Items(r)' = <<>>
    BY <1>1, <2>1, <2>2, <2>3, <2>4 DEF Mapped
  <2>9. QED
    BY <2>4, <2>5, <2>6, <2>7, <2>8 DEF Mapped
<1>3. CASE ~Empty(s)
  <2>1. /\ current' = current /\ robbed' = robbed
        /\ \A p \in Queue : Draining(p)' => Draining(p) \/ p = current
    BY <1>3 DEF Leave, Scheduled, TypeOK, Draining, AtRest, DrainAt
  <2>2. /\ Items(r) = <<>> => Items(r)' = <<>>
        /\ queue'[r].lastRun = queue[r].lastRun
        /\ ~Empty(queue[r]) => ~Empty(queue'[r])
    BY <1>1, <1>3 DEF Items
  <2>3. QED
    BY <1>1, <2>1, <2>2 DEF Mapped
<1>4. QED
  BY <1>2, <1>3

LEMMA EnqueueMapped ==
    ASSUME IInv, NEW m \in Msg, NEW s \in Settings, Enqueue(m, s), NEW q \in Queue, q = Target,
           NEW r \in Queue
    PROVE  Mapped(r)'
<1>1. TypeOK /\ Mapped(r)
  BY DEF IInv
<1>2. /\ current' = q /\ created <= created' /\ q <= created' /\ created \in Int
      /\ current \in 0..created /\ drain' = drain /\ robbed' = robbed /\ cleared' = cleared
  BY <1>1 DEF Enqueue, TypeOK, Target
<1>3. created' \in Int
  BY <1>1, EnqueueType DEF TypeOK
<1>4. CASE r = q
  <2> DEFINE items == IF Full(q, s) /\ s.dropPolicy = "new"
                      THEN Items(q) ELSE Append(Rest(Items(q), Excess(q, s)), m)
  <2>1. Items(q)' = items /\ queue'[q].lastRun = TRUE
    BY <1>1 DEF Enqueue, TypeOK, QueueAt, Items
  <2>2. items # <<>>
    <3>1. Excess(q, s) \in Nat /\ Items(q) \in Seq(Msg) /\ (Full(q, s) => Items(q) # <<>>)
      BY <1>1, ExcessRange, Parts
    <3>2. QED
      BY <3>1, PushedItems
  <2> HIDE DEF items
  <2>3. ~Empty(queue'[q])
    BY <2>1, <2>2 DEF Empty, Items
  <2>4. Draining(r)' = Draining(r)
    BY <1>2 DEF Draining
  <2>5. QED
    BY <1>1, <1>2, <1>3, <1>4, <2>1, <2>3, <2>4 DEF Mapped
<1>5. CASE r # q
  <2>1. queue'[r] = queue[r]
    BY <1>1, <1>5 DEF Enqueue, TypeOK
  <2>2. r # current
    BY <1>5, <1>1 DEF Target, TypeOK
  <2>3. Draining(r)' = Draining(r) /\ Items(r)' = Items(r)
    BY <1>2, <2>1 DEF Draining, Items
  <2>4. QED
    BY <1>1, <1>2, <1>3, <1>5, <2>2, <2>3 DEF Mapped
<1>6. QED
  BY <1>4, <1>5

LEMMA MappedStep ==
    ASSUME IInv, [Next]_vars, NEW r \in Queue
    PROVE  Mapped(r)'
<1>1. TypeOK /\ Mapped(r) /\ \A p \in Queue : Mapped(p)
  BY DEF IInv
<1>2. ASSUME queue'[r].items = queue[r].items, queue'[r].dropped = queue[r].dropped,
             queue'[r].lastRun = queue[r].lastRun, Draining(r)' => Draining(r) \/ r = current,
             current' = current, created' = created, cleared' = cleared, robbed' = robbed
      PROVE  Mapped(r)'
  BY <1>1, <1>2 DEF Mapped, Items, Empty, TypeOK
<1>3. ASSUME NEW m \in Msg, NEW s \in Settings, Enqueue(m, s)  PROVE Mapped(r)'
  <2>1. Target \in Queue
    BY <1>3 DEF Enqueue
  <2>2. QED
    BY <1>3, <2>1, EnqueueMapped
<1>4. ASSUME NEW m \in Msg, NEW s \in Settings, Redeliver(m, s)  PROVE Mapped(r)'
  <2>1. /\ queue'[r].items = queue[r].items /\ queue'[r].dropped = queue[r].dropped
        /\ queue'[r].lastRun = queue[r].lastRun
    BY <1>1, <1>4 DEF Redeliver, QueueAt, Items, TypeOK
  <2>2. QED
    BY <1>2, <1>4, <2>1 DEF Redeliver, map, history, Draining
<1>5. ASSUME Clear  PROVE Mapped(r)'
  <2>1. current \in Queue /\ current' = 0 /\ drain' = drain /\ created' = created /\ robbed' = robbed
    BY <1>1, <1>5 DEF Clear, TypeOK
  <2>2. cleared' # {}
    <3>1. ~Empty(queue[current]) /\ Items(current) \in Seq(Msg)
      BY <1>1, <2>1, Parts DEF Mapped
    <3>2. CASE queue[current].dropped # {}
      BY <1>5, <3>2 DEF Clear
    <3>3. CASE Items(current) # <<>>
      <4>1. 1 \in DOMAIN Items(current)
        BY <3>1, <3>3, EmptySeq
      <4>2. QED
        BY <1>5, <4>1 DEF Clear, Members
    <3>4. QED
      BY <3>1, <3>2, <3>3 DEF Empty, Items
  <2>3. r # current => Items(r)' = Items(r)
    BY <1>1, <1>5 DEF Clear, TypeOK, Items
  <2>4. r = current => Items(r)' = <<>>
    BY <1>1, <1>5 DEF Clear, TypeOK, Items, QueueAt
  <2>5. Draining(r)' = Draining(r) /\ r # 0
    BY <2>1 DEF Draining
  <2>6. QED
    BY <1>1, <2>1, <2>2, <2>3, <2>4, <2>5 DEF Mapped
<1>6. ASSUME EndTurn  PROVE Mapped(r)'
  <2>1. Draining(r)' => Draining(r) \/ r = current
    BY <1>1, <1>6 DEF EndTurn, Scheduled, TypeOK, Draining
  <2>2. QED
    BY <1>2, <1>6, <2>1 DEF EndTurn, map, history
<1>7. ASSUME NEW q \in Queue, RunItem(q) \/ RunSummary(q) \/ RunBatch(q)  PROVE Mapped(r)'
  <2>1. Draining(r)' => Draining(r)
    BY <1>1, <1>7 DEF RunItem, RunSummary, RunBatch, Run, TypeOK, Draining, Debounced
  <2>2. UNCHANGED <<queue, map, arrived, history>>
    BY <1>7 DEF RunItem, RunSummary, RunBatch, Run
  <2>3. QED
    BY <1>2, <2>1, <2>2 DEF map, history
<1>8. ASSUME NEW q \in Queue, BreakLoop(q) \/ RunThrows(q)  PROVE Mapped(r)'
  <2>1. Leave(q, queue[q]) /\ queue' = queue /\ created' = created /\ cleared' = cleared /\ Draining(q)
    BY <1>8 DEF BreakLoop, RunThrows, Debounced, Busy, Draining
  <2>2. queue' = [queue EXCEPT ![q] = queue[q]]
    BY <1>1, <2>1 DEF TypeOK
  <2>3. QED
    BY <1>1, <2>1, <2>2, LeaveMapped DEF Items
<1>9. ASSUME NEW q \in Queue, RunCompletes(q)  PROVE Mapped(r)'
  <2> DEFINE s == AfterRun(q)
  <2>1. /\ queue' = [queue EXCEPT ![q] = s] /\ created' = created /\ cleared' = cleared
        /\ Draining(q)
    BY <1>9 DEF RunCompletes, Busy, Draining
  <2>2. s.lastRun = queue[q].lastRun /\ (Items(q) = <<>> => s.items = <<>>)
    <3>1. drain[q].taken \in Nat
      BY <1>1, Parts
    <3>2. Items(q) = <<>> => Rest(Items(q), drain[q].taken) = <<>>
      <4>1. SUFFICES ASSUME Items(q) = <<>>  PROVE Rest(Items(q), drain[q].taken) = <<>>
        OBVIOUS
      <4>2. Items(q) \in Seq(Msg) /\ Len(Items(q)) = 0
        BY <1>1, <4>1, Parts, EmptySeq
      <4> DEFINE n == drain[q].taken
      <4>3. n \in Nat
        BY <3>1
      <4> HIDE DEF n
      <4>4. /\ Rest(Items(q), n) \in Seq(Msg)
            /\ Len(Rest(Items(q), n)) = IF n <= Len(Items(q)) THEN Len(Items(q)) - n ELSE 0
        BY <4>2, <4>3, RestOf
      <4>5. Len(Rest(Items(q), n)) = 0
        BY <4>2, <4>3, <4>4
      <4>6. QED
        BY <4>4, <4>5, EmptySeq DEF n
    <3>3. QED
      BY <3>2 DEF AfterRun, QueueAt
  <2>3. CASE Empty(s)
    BY <1>1, <1>9, <2>1, <2>2, <2>3, LeaveMapped DEF RunCompletes
  <2>4. CASE ~Empty(s)
    <3>1. /\ drain' = [drain EXCEPT ![q] = Waiting(drain[q].force)]
          /\ current' = current /\ robbed' = robbed
      BY <1>9, <2>4 DEF RunCompletes
    <3>2. Draining(r)' => Draining(r)
      BY <1>1, <2>1, <3>1 DEF TypeOK, Draining
    <3>3. /\ r # q => queue'[r] = queue[r]
          /\ r = q => queue'[r] = s
      BY <1>1, <2>1 DEF TypeOK
    <3> HIDE DEF s
    <3>4. /\ Items(r) = <<>> => Items(r)' = <<>>
          /\ queue'[r].lastRun = queue[r].lastRun
          /\ ~Empty(queue[r]) => ~Empty(queue'[r])
      BY <2>2, <2>4, <3>3 DEF Items
    <3>5. QED
      BY <1>1, <2>1, <3>1, <3>2, <3>4 DEF Mapped
  <2>5. QED
    BY <2>3, <2>4
<1>10. CASE UNCHANGED vars
  BY <1>2, <1>10 DEF vars, map, history, Draining
<1>11. QED
  BY <1>3, <1>4, <1>5, <1>6, <1>7, <1>8, <1>9, <1>10 DEF Next, Pick


----------------------------------------------------------------------------
\* A message stays accounted for when its queue keeps it and the rest only grows.
LEMMA SameAccount ==
    ASSUME TypeOK, NEW m \in Msg, Accounted(m), runs[m] <= 1,
           home'[m] = home[m], runs'[m] = runs[m], arrived <= arrived', arrived' \in Int,
           overflowed \subseteq overflowed', robbed \subseteq robbed', cleared \subseteq cleared',
           home[m] # 0 /\ m \in Members(Items(home[m]))
              => \/ m \in Members(Items(home[m])') \/ home[m] \in overflowed' \/ m \in cleared'
    PROVE  Accounted(m)' /\ runs'[m] <= 1
<1>1. m \in Int /\ arrived \in Int
  BY DEF TypeOK
<1>2. QED
  BY <1>1 DEF Accounted, Members, Items

LEMMA EnqueueAccounted ==
    ASSUME IInv, NEW m \in Msg, NEW s \in Settings, Enqueue(m, s), NEW q \in Queue, q = Target,
           NEW n \in Msg
    PROVE  Accounted(n)' /\ runs'[n] <= 1
<1> DEFINE refused == Full(q, s) /\ s.dropPolicy = "new"
           pushed == Append(Rest(Items(q), Excess(q, s)), m)
           items == IF refused THEN Items(q) ELSE pushed
<1>1. TypeOK /\ Accounted(n) /\ runs[n] <= 1 /\ TypeOK'
  BY EnqueueType DEF IInv
<1>2. /\ arrived' = arrived + 1 /\ arrived' = m /\ runs' = runs /\ robbed' = robbed
      /\ cleared' = cleared /\ overflowed \subseteq overflowed'
      /\ Full(q, s) /\ ~refused => q \in overflowed'
      /\ home' = IF refused THEN home ELSE [home EXCEPT ![m] = q]
  BY DEF Enqueue
<1>3. /\ arrived \in Int /\ arrived' \in Int /\ runs[n] \in 0..2 /\ home \in [Msg -> Int]
      /\ home[n] \in 0..MaxQueues /\ q # 0
  <2>1. TypeOK
    BY <1>1
  <2>2. arrived \in Int /\ runs \in [Msg -> 0..2] /\ home \in [Msg -> 0..created]
    BY <2>1 DEF TypeOK
  <2>3. created \in 0..MaxQueues /\ MaxQueues \in Nat
    BY <2>1 DEF TypeOK
  <2>4. arrived' \in Int
    BY <1>2, <2>2
  <2>5. home \in [Msg -> Int] /\ home[n] \in 0..MaxQueues
    BY <2>2, <2>3
  <2>6. QED
    BY <2>2, <2>4, <2>5
<1>4. Items(q)' = items /\ \A p \in Queue : p # q => Items(p)' = Items(p)
  BY <1>1 DEF Enqueue, TypeOK, QueueAt, Items
<1>5. /\ m \in Members(pushed)
      /\ ~Full(q, s) => Members(Items(q)) \subseteq Members(pushed)
  BY <1>1, ExcessRange, Parts, PushedMembers
<1> HIDE DEF pushed
<1>6. CASE n = m /\ ~refused
  <2>1. home'[n] = q /\ Items(q)' = pushed
    BY <1>2, <1>3, <1>4, <1>6
  <2>2. n \in Members(Items(home[n]))'
    BY <1>5, <1>6, <2>1 DEF Members
  <2>3. n <= arrived'
    BY <1>2, <1>3, <1>6
  <2>4. QED
    BY <1>1, <1>2, <1>3, <2>1, <2>2, <2>3 DEF Accounted
<1>7. CASE ~(n = m /\ ~refused)
  <2>1. home'[n] = home[n] /\ runs'[n] = runs[n] /\ arrived <= arrived'
    BY <1>2, <1>3, <1>7
  <2>2. ASSUME home[n] # 0, n \in Members(Items(home[n]))
        PROVE  \/ n \in Members(Items(home[n])') \/ home[n] \in overflowed'
    <3>1. CASE home[n] # q
      <4>1. home[n] \in Queue
        BY <1>3, <2>2
      <4>2. Items(home[n])' = Items(home[n])
        BY <1>4, <2>1, <3>1, <4>1 DEF Items
      <4>3. QED
        BY <2>2, <4>2
    <3>2. CASE home[n] = q
      BY <1>2, <1>4, <1>5, <2>2, <3>2
    <3>3. QED
      BY <3>1, <3>2
  <2>3. QED
    BY <1>1, <1>2, <1>3, <2>1, <2>2, SameAccount
<1>8. QED
  BY <1>6, <1>7

LEMMA CompletedAccounted ==
    ASSUME IInv, NEW q \in Queue, RunCompletes(q), NEW n \in Msg
    PROVE  Accounted(n)' /\ runs'[n] <= 1
<1>1. TypeOK /\ Accounted(n) /\ runs[n] <= 1 /\ Contents(q)
  BY DEF IInv
<1>2. /\ arrived' = arrived /\ home' = home /\ cleared' = cleared /\ overflowed' = overflowed
      /\ runs'[n] = IF n \in drain[q].prompt /\ runs[n] < 2 THEN runs[n] + 1 ELSE runs[n]
      /\ robbed \subseteq robbed'
  BY DEF RunCompletes, Leave
<1>3. arrived \in Int /\ runs[n] \in 0..2 /\ home[n] \in 0..MaxQueues /\ q # 0
  BY <1>1 DEF TypeOK
<1>4. CASE n \in drain[q].prompt
  <2>1. home[n] = q /\ runs[n] = 0 /\ n <= arrived
    BY <1>1, <1>4 DEF Contents, Fresh
  <2>2. runs'[n] = 1
    BY <1>2, <1>4, <2>1
  <2>3. QED
    BY <1>2, <1>3, <2>1, <2>2 DEF Accounted
<1>5. CASE n \notin drain[q].prompt
  <2>1. runs'[n] = runs[n]
    BY <1>2, <1>5
  <2>2. ASSUME home[n] # 0, n \in Members(Items(home[n]))
        PROVE  \/ n \in Members(Items(home[n])') \/ home[n] \in overflowed'
    <3>1. CASE home[n] # q
      <4>1. home[n] \in Queue
        BY <1>3, <2>2
      <4>2. Items(home[n])' = Items(home[n])
        <5>1. \A p \in Queue : p # q => queue'[p] = queue[p]
          BY <1>1 DEF RunCompletes, TypeOK
        <5>2. QED
          BY <1>2, <3>1, <4>1, <5>1 DEF Items
      <4>3. QED
        BY <2>2, <4>2
    <3>2. CASE home[n] = q /\ q \notin overflowed
      <4> DEFINE k == drain[q].taken
                 left == Rest(Items(q), k)
      <4>1. /\ Items(q) \in Seq(Msg) /\ Len(Items(q)) \in Nat /\ k \in Nat
            /\ DOMAIN Items(q) = 1..Len(Items(q))
        BY <1>1, Parts
      <4>2. PICK i \in 1..Len(Items(q)) : n = Items(q)[i]
        BY <2>2, <3>2, <4>1 DEF Members
      <4>3. i > k
        BY <1>1, <1>5, <3>2, <4>1, <4>2 DEF Contents, Covered, RunCompletes
      <4>4. Items(q)' = left
        BY <1>1 DEF RunCompletes, TypeOK, AfterRun, QueueAt, Items
      <4> HIDE DEF k
      <4>5. /\ left \in Seq(Msg)
            /\ Len(left) = IF k <= Len(Items(q)) THEN Len(Items(q)) - k ELSE 0
            /\ \A j \in 1..Len(left) : left[j] = Items(q)[j + k]
        BY <4>1, RestOf
      <4> HIDE DEF left
      <4>6. DOMAIN left = 1..Len(left)
        BY <4>5
      <4>7. i - k \in 1..Len(left) /\ (i - k) + k = i
        <5>1. i \in Int /\ k \in Int /\ i <= Len(Items(q)) /\ k < i /\ Len(Items(q)) \in Int
          BY <4>1, <4>2, <4>3
        <5>2. Len(left) = Len(Items(q)) - k
          BY <4>5, <5>1
        <5>3. QED
          BY <5>1, <5>2
      <4>8. left[i - k] = n
        BY <4>2, <4>5, <4>7
      <4>9. n \in Members(left)
        BY <4>6, <4>7, <4>8 DEF Members
      <4>10. QED
        BY <1>2, <3>2, <4>4, <4>9
    <3>3. QED
      BY <1>2, <3>1, <3>2
  <2>3. QED
    BY <1>1, <1>2, <1>3, <2>1, <2>2, SameAccount
<1>6. QED
  BY <1>4, <1>5

LEMMA AccountedStep ==
    ASSUME IInv, [Next]_vars, NEW n \in Msg
    PROVE  Accounted(n)' /\ runs'[n] <= 1
<1>1. TypeOK /\ Accounted(n) /\ runs[n] <= 1
  BY DEF IInv
<1>2. arrived \in Int /\ home[n] \in 0..MaxQueues
  BY <1>1 DEF TypeOK
<1>3. ASSUME arrived' = arrived, home' = home, runs' = runs, overflowed' = overflowed,
             robbed \subseteq robbed', cleared' = cleared,
             \A q \in Queue : queue'[q].items = queue[q].items
      PROVE  Accounted(n)' /\ runs'[n] <= 1
  <2>1. home[n] # 0 => home[n] \in Queue
    BY <1>2
  <2>2. home[n] # 0 => Items(home[n])' = Items(home[n])
    BY <1>3, <2>1 DEF Items
  <2>3. QED
    BY <1>1, <1>2, <1>3, <2>2, SameAccount
<1>4. ASSUME NEW m \in Msg, NEW s \in Settings, Enqueue(m, s)  PROVE Accounted(n)' /\ runs'[n] <= 1
  <2>1. Target \in Queue
    BY <1>4 DEF Enqueue
  <2>2. QED
    BY <1>4, <2>1, EnqueueAccounted
<1>5. ASSUME NEW m \in Msg, NEW s \in Settings, Redeliver(m, s)
      PROVE  Accounted(n)' /\ runs'[n] <= 1
  <2>1. \A q \in Queue : queue'[q].items = queue[q].items
    BY <1>1, <1>5 DEF Redeliver, QueueAt, Items, TypeOK
  <2>2. QED
    BY <1>3, <1>5, <2>1 DEF Redeliver, map, history
<1>6. ASSUME Clear  PROVE Accounted(n)' /\ runs'[n] <= 1
  <2>1. /\ arrived' = arrived /\ home' = home /\ runs' = runs /\ overflowed' = overflowed
        /\ robbed' = robbed /\ cleared \subseteq cleared'
        /\ Members(Items(current)) \subseteq cleared'
    BY <1>6 DEF Clear
  <2>2. ASSUME home[n] # 0, n \in Members(Items(home[n]))
        PROVE  \/ n \in Members(Items(home[n])') \/ n \in cleared'
    <3>1. CASE home[n] = current
      BY <2>1, <2>2, <3>1
    <3>2. CASE home[n] # current
      <4>1. home[n] \in Queue
        BY <1>2, <2>2
      <4>2. Items(home[n])' = Items(home[n])
        <5>1. \A p \in Queue : p # current => queue'[p] = queue[p]
          BY <1>1, <1>6 DEF Clear, TypeOK
        <5>2. QED
          BY <2>1, <3>2, <4>1, <5>1 DEF Items
      <4>3. QED
        BY <2>2, <4>2
    <3>3. QED
      BY <3>1, <3>2
  <2>3. QED
    BY <1>1, <1>2, <2>1, <2>2, SameAccount
<1>7. ASSUME EndTurn  PROVE Accounted(n)' /\ runs'[n] <= 1
  BY <1>3, <1>7 DEF EndTurn, map, history
<1>8. ASSUME NEW q \in Queue, RunItem(q) \/ RunSummary(q) \/ RunBatch(q)
      PROVE  Accounted(n)' /\ runs'[n] <= 1
  BY <1>3, <1>8 DEF RunItem, RunSummary, RunBatch, Run, map, history
<1>9. ASSUME NEW q \in Queue, BreakLoop(q) \/ RunThrows(q)  PROVE Accounted(n)' /\ runs'[n] <= 1
  <2>1. robbed \subseteq robbed'
    BY <1>9 DEF BreakLoop, RunThrows, Leave
  <2>2. QED
    BY <1>3, <1>9, <2>1 DEF BreakLoop, RunThrows
<1>10. ASSUME NEW q \in Queue, RunCompletes(q)  PROVE Accounted(n)' /\ runs'[n] <= 1
  BY <1>10, CompletedAccounted
<1>11. CASE UNCHANGED vars
  BY <1>3, <1>11 DEF vars, map, history
<1>12. QED
  BY <1>4, <1>5, <1>6, <1>7, <1>8, <1>9, <1>10, <1>11 DEF Next, Pick

----------------------------------------------------------------------------
LEMMA Invariance == Spec => []IInv
<1>1. IInv /\ [Next]_vars => IInv'
  <2> SUFFICES ASSUME IInv, [Next]_vars  PROVE IInv'
    OBVIOUS
  <2>1. TypeOK'
    BY TypeStep DEF IInv
  <2>2. \A q \in Queue : (Contents(q) /\ Mapped(q))'
    BY ContentsStep, MappedStep
  <2>3. \A m \in Msg : (Accounted(m) /\ runs[m] <= 1)'
    BY AccountedStep
  <2>4. QED
    BY <2>1, <2>2, <2>3 DEF IInv
<1>2. QED
  BY InitInv, <1>1, PTL DEF Spec

\* The type invariant of the queue.
THEOREM TypeCorrect == Spec => []TypeOK
<1>1. IInv => TypeOK
  BY DEF IInv
<1>2. QED
  BY Invariance, <1>1, PTL

\* No message is answered by two runs (drain.ts:54, 117, queue-helpers.ts:156-180).
THEOREM AnsweredSafe == Spec => []AnsweredOnce
<1>1. IInv => AnsweredOnce
  BY DEF IInv, AnsweredOnce
<1>2. QED
  BY Invariance, <1>1, PTL

\* Messages of one queue are answered in the order of their arrival
\* (drain.ts:55-137, queue-helpers.ts:99).
THEOREM OrderSafe == Spec => []NoOvertaking
<1>1. IInv => NoOvertaking
  <2> SUFFICES ASSUME IInv, NEW q \in Queue, NEW m \in Msg, NEW n \in Msg,
                      m \in Members(Items(q)), runs[n] > 0, home[n] = q
               PROVE  n < m
    BY DEF NoOvertaking
  <2>1. PICK i \in DOMAIN Items(q) : m = Items(q)[i]
    BY DEF Members
  <2>2. QED
    BY <2>1 DEF IInv, Contents, Ordered
<1>2. QED
  BY Invariance, <1>1, PTL

\* Only an overflow, an abort or the deletion of a queue's map entry by another drain
\* can keep a message from its answer (drain.ts:117-150, state.ts:66-80).
THEOREM LossSafe == Spec => []OnlyOverflowLoses
<1>1. IInv => OnlyOverflowLoses
  <2> SUFFICES ASSUME IInv, NEW m \in Msg, home[m] # 0, home[m] \notin overflowed \union robbed,
                      runs[m] # 1, m \notin cleared
               PROVE  home[m] = current /\ m \in Members(Items(current))
    BY DEF OnlyOverflowLoses
  <2>1. m \in Members(Items(home[m]))
    BY DEF IInv, Accounted
  <2>2. home[m] \in Queue
    BY DEF IInv, TypeOK
  <2>3. Items(home[m]) # <<>>
    <3>1. DOMAIN <<>> = {}
      OBVIOUS
    <3>2. QED
      BY <2>1, <3>1 DEF Members
  <2>4. home[m] = current
    BY <2>2, <2>3 DEF IInv, Mapped
  <2>5. QED
    BY <2>1, <2>4
<1>2. QED
  BY Invariance, <1>1, PTL

\* Without an abort the runs of one queue key never overlap (drain.ts:54, 145).
THEOREM OverlapSafe == Spec => []OverlapOnlyAfterAbort
<1>1. IInv => OverlapOnlyAfterAbort
  BY DEF IInv, OverlapOnlyAfterAbort, Mapped, Busy, Draining
<1>2. QED
  BY Invariance, <1>1, PTL
=============================================================================
