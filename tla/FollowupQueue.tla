--------------------------- MODULE FollowupQueue ---------------------------
(***************************************************************************)
(* The messages of one session that arrive while its agent is busy         *)
(* (auto-reply/reply/queue): they are enqueued by inbound turns, drained   *)
(* by an asynchronous loop that runs them one by one or as one batch, and  *)
(* cleared by an abort.  A queue object lives in a map under the key of    *)
(* the session; an abort takes it out of the map while its drain goes on,  *)
(* so several objects of one key can be alive.                             *)
(*                                                                         *)
(* A step is what runs between two awaits.  The drain awaits twice: for    *)
(* the debounce and for the run.                                           *)
(***************************************************************************)
EXTENDS Integers, Sequences, FiniteSets

CONSTANTS N,           \* messages, numbered in the order of their arrival
          MaxQueues,   \* bound: queue objects created for the key
          Settings,    \* the queue settings an inbound turn may resolve
          Route,       \* Route[m]: where the reply to m goes
          Unroutable   \* the route of a message that names no routable target

Msg == 1..N
Queue == 1..MaxQueues
Setting == [mode: {"collect", "followup"}, cap: Nat \ {0}, dropPolicy: {"summarize", "old", "new"}]

ASSUME FollowupAssumption ==
    /\ N \in Nat /\ MaxQueues \in Nat
    /\ Settings \subseteq Setting /\ Settings # {}
    /\ DOMAIN Route = Msg

VARIABLES queue,       \* queue[q]: QueueState
          drain,       \* drain[q]: Drain, the loop over q
          current,     \* the object FOLLOWUP_QUEUES holds for the key, 0 for none
          created,     \* the objects made so far
          arrived,     \* the messages that have come in so far
          home,        \* history: home[m], the object that accepted m, or 0
          runs,        \* history: runs[m], the completed runs with m in the prompt, up to 2
          cleared,     \* history: the messages an abort took out of a queue
          overflowed,  \* history: the objects that dropped a message for a newer one
          robbed       \* history: the objects whose map entry another's drain deleted

map == <<current, created>>
history == <<home, runs, cleared, overflowed, robbed>>
vars == <<queue, drain, map, arrived, history>>

QueueState == [items: Seq(Msg), dropped: SUBSET Msg, lastRun: BOOLEAN, setting: Setting]
Drain == [pc: {"rest", "wait", "run"},
          force: BOOLEAN,         \* forceIndividualCollect
          prompt: SUBSET Msg,     \* the messages in the prompt of the run
          summary: SUBSET Msg,    \* the dropped messages its summary counts
          taken: Nat]             \* the items removed when it completes

QueueAt(items, dropped, lastRun, setting) ==
    [items |-> items, dropped |-> dropped, lastRun |-> lastRun, setting |-> setting]
DrainAt(pc, force, prompt, summary, taken) ==
    [pc |-> pc, force |-> force, prompt |-> prompt, summary |-> summary, taken |-> taken]
AtRest == DrainAt("rest", FALSE, {}, {}, 0)
Waiting(force) == DrainAt("wait", force, {}, {}, 0)

Members(seq) == {seq[i] : i \in DOMAIN seq}
Draining(q) == drain[q].pc # "rest"
Busy(q) == drain[q].pc = "run"
Items(q) == queue[q].items

Unused == QueueAt(<<>>, {}, FALSE, CHOOSE s \in Settings : TRUE)

Init == /\ queue = [q \in Queue |-> Unused]
        /\ drain = [q \in Queue |-> AtRest]
        /\ current = 0 /\ created = 0 /\ arrived = 0
        /\ home = [m \in Msg |-> 0] /\ runs = [m \in Msg |-> 0]
        /\ cleared = {} /\ overflowed = {} /\ robbed = {}

----------------------------------------------------------------------------
\* Without its first n elements.
Rest(seq, n) == SubSeq(seq, n + 1, Len(seq))
First(seq, n) == {seq[i] : i \in DOMAIN seq \intersect 1..n}

\* Mutant: the map is not looked up.
Target_fresh == created + 1

\* Mutant: a queue that is being drained is not used any more.
Target_atRest == IF current = 0 \/ Draining(current) THEN created + 1 ELSE current

\* The object an enqueue works on: getFollowupQueue makes one if there is none.
Target == IF current = 0 THEN created + 1 ELSE current

Full(q, s) == Len(Items(q)) >= s.cap
Excess(q, s) == IF Full(q, s) THEN Len(Items(q)) - s.cap + 1 ELSE 0

\* A message comes in while a turn of its session is, or was, active: the settings
\* of its turn are applied, then the drop policy, then it is pushed.
Enqueue(m, s) ==
    LET q == Target
        refused == Full(q, s) /\ s.dropPolicy = "new"
    IN  /\ m = arrived + 1 /\ arrived' = m
        /\ q \in Queue
        /\ current' = q /\ created' = IF current = 0 THEN q ELSE created
        /\ queue' = [queue EXCEPT ![q] = QueueAt(
              IF refused THEN Items(q) ELSE Append(Rest(Items(q), Excess(q, s)), m),
              IF s.dropPolicy = "summarize"
                THEN queue[q].dropped \union First(Items(q), Excess(q, s)) ELSE queue[q].dropped,
              TRUE, s)]
        /\ home' = IF refused THEN home ELSE [home EXCEPT ![m] = q]
        /\ overflowed' = IF Full(q, s) /\ ~refused THEN overflowed \union {q} ELSE overflowed
        /\ UNCHANGED <<drain, runs, cleared, robbed>>

\* The provider delivers a queued message again: its settings apply, it is skipped.
Redeliver(m, s) ==
    /\ current # 0 /\ m \in Members(Items(current))
    /\ queue' = [queue EXCEPT ![current] =
                    QueueAt(Items(current), queue[current].dropped, queue[current].lastRun, s)]
    /\ UNCHANGED <<drain, map, arrived, history>>

\* clearFollowupQueue.
Clear ==
    /\ current # 0
    /\ queue' = [queue EXCEPT ![current] = QueueAt(<<>>, {}, FALSE, queue[current].setting)]
    /\ cleared' = cleared \union Members(Items(current)) \union queue[current].dropped
    /\ current' = 0
    /\ UNCHANGED <<drain, created, arrived, home, runs, overflowed, robbed>>

----------------------------------------------------------------------------
Empty(s) == s.items = <<>> /\ s.dropped = {}

\* scheduleFollowupDrain, from a map that holds c, when the loops are in state d.
Scheduled(c, d) ==
    IF c # 0 /\ d[c].pc = "rest" THEN [d EXCEPT ![c] = Waiting(FALSE)] ELSE d

\* The finally block of the drain of q, which leaves the object in state s: the
\* entry of the key is deleted, whatever object it holds, or the drain starts anew.
Leave(q, s) ==
    IF Empty(s)
    THEN /\ drain' = [drain EXCEPT ![q] = AtRest]
         /\ current' = 0
         /\ robbed' = IF current \in {0, q} THEN robbed ELSE robbed \union {current}
    ELSE /\ drain' = Scheduled(current, [drain EXCEPT ![q] = AtRest])
         /\ UNCHANGED <<current, robbed>>

\* A turn of the session ends.
EndTurn ==
    /\ current # 0 /\ ~Draining(current)
    /\ drain' = Scheduled(current, drain)
    /\ UNCHANGED <<queue, map, arrived, history>>

\* The debounce is over and the loop picks what to run.
Debounced(q) == drain[q].pc = "wait"
Collects(q) == queue[q].setting.mode = "collect"
IsCross(seq) == LET routes == {Route[m] : m \in Members(seq)}
                IN  Unroutable \in routes \/ Cardinality(routes) > 1
Singly(q) == drain[q].force \/ IsCross(Items(q))
Summary(q) == IF queue[q].setting.dropPolicy = "summarize" THEN queue[q].dropped ELSE {}

Run(q, force, prompt, summary, taken) ==
    /\ drain' = [drain EXCEPT ![q] = DrainAt("run", force, prompt, summary, taken)]
    /\ UNCHANGED <<queue, map, arrived, history>>

\* Mutant: the newest message is run, the oldest removed.
RunItem_newest(q) ==
    /\ Debounced(q) /\ Items(q) # <<>>
    /\ IF Collects(q) THEN Singly(q) ELSE Summary(q) = {}
    /\ Run(q, drain[q].force \/ Collects(q), {Items(q)[Len(Items(q))]}, {}, 1)

\* The oldest message alone, also when the messages of a batch go different ways.
RunItem(q) ==
    /\ Debounced(q) /\ Items(q) # <<>>
    /\ IF Collects(q) THEN Singly(q) ELSE Summary(q) = {}
    /\ Run(q, drain[q].force \/ Collects(q), {Items(q)[1]}, {}, 1)

\* A summary of what was dropped, in the place of the oldest message.
RunSummary(q) ==
    /\ Debounced(q) /\ Items(q) # <<>>
    /\ ~Collects(q) /\ Summary(q) # {}
    /\ Run(q, drain[q].force, {}, Summary(q), 1)

\* All messages in one prompt, after the summary if there is one.
RunBatch(q) ==
    /\ Debounced(q) /\ Collects(q) /\ ~Singly(q)
    /\ Items(q) # <<>> \/ queue[q].lastRun
    /\ Run(q, FALSE, Members(Items(q)), Summary(q), Len(Items(q)))

\* There is nothing the loop could run.
BreakLoop(q) ==
    /\ Debounced(q) /\ Items(q) = <<>>
    /\ Collects(q) => Singly(q) \/ ~queue[q].lastRun
    /\ Leave(q, queue[q])
    /\ UNCHANGED <<queue, created, arrived, home, runs, cleared, overflowed>>

\* Mutant: one item is removed, also after a batch.
AfterRun_one(q) ==
    QueueAt(Rest(Items(q), 1), IF drain[q].summary = {} THEN queue[q].dropped ELSE {},
            queue[q].lastRun, queue[q].setting)

\* The run completes: as many items as it was given are removed from the front of
\* what the queue holds by now, and with a summary all that was dropped by now.
AfterRun(q) ==
    QueueAt(Rest(Items(q), drain[q].taken),
            IF drain[q].summary = {} THEN queue[q].dropped ELSE {},
            queue[q].lastRun, queue[q].setting)

RunCompletes(q) ==
    /\ Busy(q)
    /\ queue' = [queue EXCEPT ![q] = AfterRun(q)]
    /\ runs' = [m \in Msg |-> IF m \in drain[q].prompt /\ runs[m] < 2 THEN runs[m] + 1 ELSE runs[m]]
    /\ IF Empty(AfterRun(q))
       THEN Leave(q, AfterRun(q))
       ELSE /\ drain' = [drain EXCEPT ![q] = Waiting(drain[q].force)]
            /\ UNCHANGED <<current, robbed>>
    /\ UNCHANGED <<created, arrived, home, cleared, overflowed>>

\* Mutant: the items are removed whatever becomes of the run.
RunThrows_removed(q) ==
    /\ Busy(q)
    /\ queue' = [queue EXCEPT ![q] = AfterRun(q)]
    /\ Leave(q, AfterRun(q))
    /\ UNCHANGED <<created, arrived, home, runs, cleared, overflowed>>

\* Mutant: the drain is not started again.
RunThrows_givesUp(q) ==
    /\ Busy(q)
    /\ drain' = [drain EXCEPT ![q] = AtRest]
    /\ UNCHANGED <<queue, map, arrived, history>>

\* The run throws: the queue stays as it is and the drain starts over.
RunThrows(q) ==
    /\ Busy(q)
    /\ Leave(q, queue[q])
    /\ UNCHANGED <<queue, created, arrived, home, runs, cleared, overflowed>>

Pick(q) == RunItem(q) \/ RunSummary(q) \/ RunBatch(q) \/ BreakLoop(q)
Next == \/ \E m \in Msg, s \in Settings : Enqueue(m, s) \/ Redeliver(m, s)
        \/ Clear \/ EndTurn
        \/ \E q \in Queue : Pick(q) \/ RunCompletes(q) \/ RunThrows(q)

Spec == Init /\ [][Next]_vars

\* The debounce is a timer, and a run that is started again and again completes.
FairSpec == /\ Spec
            /\ \A q \in Queue : WF_vars(Pick(q)) /\ SF_vars(RunCompletes(q))

----------------------------------------------------------------------------
TypeOK ==
    /\ queue \in [Queue -> QueueState]
    /\ drain \in [Queue -> Drain]
    /\ created \in 0..MaxQueues /\ current \in 0..created /\ arrived \in 0..N
    /\ home \in [Msg -> 0..created] /\ runs \in [Msg -> 0..2]
    /\ cleared \subseteq Msg
    /\ overflowed \subseteq Queue /\ robbed \subseteq Queue

\* No message is answered twice: whatever is enqueued, dropped or cleared during a
\* run, the messages of a prompt are gone from the queue when it has completed, and
\* no second drain runs them (drain.ts:54, 117, queue-helpers.ts:156-180).
AnsweredOnce == \A m \in Msg : runs[m] <= 1

\* No message of a queue is answered before an older one of that queue that waits
\* (drain.ts:55-137, queue-helpers.ts:99).
NoOvertaking ==
    \A q \in Queue, m, n \in Msg :
        m \in Members(Items(q)) /\ runs[n] > 0 /\ home[n] = q => n < m

\* A message of a queue that never dropped one and whose map entry no other drain has
\* deleted is answered, cleared by an abort, or in the queue the map still holds,
\* where every turn finds it: failures, batches and restarts of the drain lose
\* nothing (drain.ts:117-150, state.ts:66-80).
OnlyOverflowLoses ==
    \A m \in Msg : home[m] # 0 =>
        \/ home[m] \in overflowed \union robbed
        \/ runs[m] = 1 \/ m \in cleared
        \/ home[m] = current /\ m \in Members(Items(current))

\* Two runs of one session's queue overlap only after an abort has cleared a queue
\* (drain.ts:54, 145).
OverlapOnlyAfterAbort ==
    \A q, r \in Queue : Busy(q) /\ Busy(r) /\ q # r => cleared # {}

\* Every message of a queue that is being drained leaves it, unless the map entry of
\* the queue is deleted (drain.ts:52-151).
Queued(m) == home[m] # 0 /\ m \in Members(Items(home[m]))
EveryMessageLeaves ==
    \A m \in Msg : Queued(m) /\ Draining(home[m]) ~> ~Queued(m) \/ home[m] \in robbed
=============================================================================
