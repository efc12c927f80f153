---------------------------- MODULE CommandQueue ----------------------------
(***************************************************************************)
(* The lanes that serialise the work of a gateway process                  *)
(* (process/command-queue.ts), the runs that hold a session lane while     *)
(* they wait for a turn in a global lane (pi-embedded-runner/run.ts), and  *)
(* the restart loop that waits for active tasks and then resets the lanes  *)
(* in the same process (gateway-cli/run-loop.ts).                          *)
(*                                                                         *)
(* Every operation of a lane is synchronous, so one action is the whole    *)
(* operation with the pump it ends in.  The draining flag is only set      *)
(* inside such an operation.                                               *)
(***************************************************************************)
EXTENDS Integers, Sequences, FiniteSets

CONSTANTS Lane,
          Task,        \* commands; each is enqueued at most once
          NoTask,
          LaneOf,      \* the lane a task is enqueued in
          Inner,       \* the task a task enqueues in its turn and waits for, or NoTask
          Sized,       \* the lanes whose concurrency the configuration sets
          MaxCap,      \* bound: concurrency of a lane
          MaxResets    \* bound: restarts in the process

ASSUME QueueAssumption ==
    /\ IsFiniteSet(Task)
    /\ NoTask \notin Task
    /\ LaneOf \in [Task -> Lane]
    /\ Inner \in [Task -> Task \union {NoTask}]
    /\ Sized \subseteq Lane
    /\ MaxCap \in Nat \ {0} /\ MaxResets \in Nat

VARIABLES lane,     \* lane[l]: LaneState
          state,    \* state[t]: where the command is
          born,     \* born[t]: taskGeneration, the lane's generation when t was started
          arrival,  \* history: arrival[t] counts the enqueues of its lane up to t's
          phase,    \* the restart loop: "up", "draining", "closing"
          awaited,  \* activeAtStart of waitForActiveTasks
          drained   \* what waitForActiveTasks last returned

vars == <<lane, state, born, arrival, phase, awaited, drained>>

Generation == 0..MaxResets
Concurrency == 1..MaxCap
LaneState == [queue: Seq(Task), active: SUBSET Task, maxConcurrent: Concurrency,
              generation: Generation]
LaneAt(queue, active, maxConcurrent, generation) ==
    [queue |-> queue, active |-> active, maxConcurrent |-> maxConcurrent,
     generation |-> generation]

Place == {"new", "queued", "running", "settled"}
Running(t) == state[t] = "running"
Settled(t) == state[t] = "settled"     \* its promise is resolved or rejected
Members(seq) == {seq[i] : i \in DOMAIN seq}
EnqueuedIn(l) == {t \in Task : LaneOf[t] = l /\ state[t] # "new"}
Active == UNION {lane[l].active : l \in Lane}      \* getActiveTaskCount

Init == /\ lane = [l \in Lane |-> LaneAt(<<>>, {}, 1, 0)]
        /\ state = [t \in Task |-> "new"]
        /\ born = [t \in Task |-> 0]
        /\ arrival = [t \in Task |-> 0]
        /\ phase = "up" /\ awaited = {} /\ drained = TRUE

----------------------------------------------------------------------------
\* How many tasks the pump takes from a lane in state s.
Taken(s) ==
    LET room == s.maxConcurrent - Cardinality(s.active)
    IN  IF room <= 0 THEN 0 ELSE IF room <= Len(s.queue) THEN room ELSE Len(s.queue)

Started(s) == {s.queue[i] : i \in 1..Taken(s)}
Pumped(s) == LaneAt(SubSeq(s.queue, Taken(s) + 1, Len(s.queue)), s.active \union Started(s),
                    s.maxConcurrent, s.generation)

\* drainLane on every lane of D, when the operation left the lanes in L and the
\* commands in st.
Drain(D, L, st) ==
    \E before \in {L} :     \* so that TLC evaluates L once
        LET starts(t) == LaneOf[t] \in D /\ t \in Started(before[LaneOf[t]])
        IN  /\ lane' = [l \in Lane |-> IF l \in D THEN Pumped(before[l]) ELSE before[l]]
            /\ state' = [t \in Task |-> IF starts(t) THEN "running" ELSE st[t]]
            /\ born' = [t \in Task |-> IF starts(t) THEN before[LaneOf[t]].generation ELSE born[t]]

\* The lanes after a change of l alone.
With(l, queue, active, cap) ==
    [lane EXCEPT ![l] = LaneAt(queue, active, cap, lane[l].generation)]
WithQueue(l, queue) == With(l, queue, lane[l].active, lane[l].maxConcurrent)
WithActive(l, active) == With(l, lane[l].queue, active, lane[l].maxConcurrent)
WithCap(l, cap) == With(l, lane[l].queue, lane[l].active, cap)

\* A task of its own, or the one its outer task has reached.
Callable(t) == \A u \in Task : Inner[u] = t => Running(u)

\* Mutant: the newest command goes first.
Enqueue_front(t) ==
    /\ state[t] = "new" /\ Callable(t)
    /\ Drain({LaneOf[t]}, WithQueue(LaneOf[t], <<t>> \o lane[LaneOf[t]].queue),
             [state EXCEPT ![t] = "queued"])
    /\ arrival' = [arrival EXCEPT ![t] = Cardinality(EnqueuedIn(LaneOf[t])) + 1]
    /\ UNCHANGED <<phase, awaited, drained>>

Enqueue(t) ==
    /\ state[t] = "new" /\ Callable(t)
    /\ Drain({LaneOf[t]}, WithQueue(LaneOf[t], Append(lane[LaneOf[t]].queue, t)),
             [state EXCEPT ![t] = "queued"])
    /\ arrival' = [arrival EXCEPT ![t] = Cardinality(EnqueuedIn(LaneOf[t])) + 1]
    /\ UNCHANGED <<phase, awaited, drained>>

\* A task returns or throws; one that waits for another does so after it.
MayEnd(t) == Running(t) /\ (Inner[t] # NoTask => Settled(Inner[t]))
Current(t) == born[t] = lane[LaneOf[t]].generation

\* Mutant: the lane is not pumped.
Finish_unpumped(t) ==
    /\ MayEnd(t) /\ Current(t)
    /\ Drain({}, WithActive(LaneOf[t], lane[LaneOf[t]].active \ {t}),
             [state EXCEPT ![t] = "settled"])
    /\ UNCHANGED <<arrival, phase, awaited, drained>>

\* completeTask of the current generation, then pump.
Finish(t) ==
    /\ MayEnd(t) /\ Current(t)
    /\ Drain({LaneOf[t]}, WithActive(LaneOf[t], lane[LaneOf[t]].active \ {t}),
             [state EXCEPT ![t] = "settled"])
    /\ UNCHANGED <<arrival, phase, awaited, drained>>

\* A task that was started before a reset leaves the lane alone.
FinishStale(t) ==
    /\ MayEnd(t) /\ ~Current(t)
    /\ Drain({}, lane, [state EXCEPT ![t] = "settled"])
    /\ UNCHANGED <<arrival, phase, awaited, drained>>

\* clearCommandLane rejects what waits.
Clear(l) ==
    /\ lane[l].queue # <<>>
    /\ Drain({}, WithQueue(l, <<>>),
             [t \in Task |-> IF t \in Members(lane[l].queue) THEN "settled" ELSE state[t]])
    /\ UNCHANGED <<arrival, phase, awaited, drained>>

\* Mutant: nothing keeps the concurrency above zero.
SetConcurrency_zero(l, n) ==
    /\ Drain({l}, WithCap(l, n), state)
    /\ UNCHANGED <<arrival, phase, awaited, drained>>

\* Mutant: the lane is not drained.
SetConcurrency_undrained(l, n) ==
    /\ Drain({}, WithCap(l, IF n = 0 THEN 1 ELSE n), state)
    /\ UNCHANGED <<arrival, phase, awaited, drained>>

SetConcurrency(l, n) ==
    /\ Drain({l}, WithCap(l, IF n = 0 THEN 1 ELSE n), state)
    /\ UNCHANGED <<arrival, phase, awaited, drained>>

----------------------------------------------------------------------------
\* SIGUSR1: wait for the active tasks, if there are any.
RequestRestart ==
    /\ phase = "up"
    /\ \A l \in Lane : lane[l].generation < MaxResets
    /\ phase' = IF Active = {} THEN "closing" ELSE "draining"
    /\ awaited' = Active
    /\ drained' = (Active = {})
    /\ UNCHANGED <<lane, state, born, arrival>>

\* Mutant: one finished task is enough.
Poll_any == /\ phase = "draining"
            /\ awaited \ Active # {}
            /\ phase' = "closing" /\ drained' = TRUE
            /\ UNCHANGED <<lane, state, born, arrival, awaited>>

\* A poll finds none of them active.
Poll == /\ phase = "draining"
        /\ awaited \intersect Active = {}
        /\ phase' = "closing" /\ drained' = TRUE
        /\ UNCHANGED <<lane, state, born, arrival, awaited>>

PollTimeout == /\ phase = "draining"
               /\ awaited \intersect Active # {}
               /\ phase' = "closing" /\ drained' = FALSE
               /\ UNCHANGED <<lane, state, born, arrival, awaited>>

\* The lanes of a process that starts over: nothing counts as active, what waits is kept.
ResetLanes == [l \in Lane |-> LaneAt(lane[l].queue, {}, lane[l].maxConcurrent,
                                     lane[l].generation + 1)]

\* Mutant: the active tasks still count.
ResetAllLanes_keepActive ==
    /\ phase = "closing"
    /\ Drain({l \in Lane : lane[l].queue # <<>>},
             [l \in Lane |-> LaneAt(lane[l].queue, lane[l].active, lane[l].maxConcurrent,
                                    lane[l].generation + 1)], state)
    /\ phase' = "up"
    /\ UNCHANGED <<arrival, awaited, drained>>

\* The server is closed and started again.
ResetAllLanes ==
    /\ phase = "closing"
    /\ Drain({l \in Lane : lane[l].queue # <<>>}, ResetLanes, state)
    /\ phase' = "up"
    /\ UNCHANGED <<arrival, awaited, drained>>

Next == \/ \E t \in Task : Enqueue(t) \/ Finish(t) \/ FinishStale(t)
        \/ \E l \in Lane : Clear(l)
        \/ \E l \in Sized, n \in 0..MaxCap : SetConcurrency(l, n)
        \/ RequestRestart \/ Poll \/ PollTimeout \/ ResetAllLanes

Spec == Init /\ [][Next]_vars

\* A task of the present generation ends when what it waits for has ended, a running
\* task enqueues its inner task at once (run.ts:215), and a restart under way
\* completes (polls are timers).  A task that a restart interrupted may never end
\* (command-queue.ts:194-196): nothing is assumed of FinishStale.
FairSpec == /\ Spec
            /\ \A t \in Task : WF_vars(Finish(t))
            /\ \A t \in Task \intersect {Inner[u] : u \in Task} : WF_vars(Enqueue(t))
            /\ WF_vars(Poll \/ PollTimeout \/ ResetAllLanes)

----------------------------------------------------------------------------
TypeOK ==
    /\ lane \in [Lane -> LaneState]
    /\ state \in [Task -> Place]
    /\ born \in [Task -> Generation]
    /\ arrival \in [Task -> Nat]
    /\ phase \in {"up", "draining", "closing"}
    /\ awaited \subseteq Task /\ drained \in BOOLEAN

\* A lane counts as active exactly its running tasks of this generation, and a
\* command waits in its lane's queue, once, exactly while it is neither started nor
\* settled: no reset, late completion or clear leaks a slot, loses a command or
\* lets one run twice (command-queue.ts:59-65, 79-111, 178-227).
LanesAccount ==
    \A l \in Lane :
        /\ lane[l].active = {t \in Task : LaneOf[t] = l /\ Running(t) /\ Current(t)}
        /\ Members(lane[l].queue) = {t \in Task : LaneOf[t] = l /\ state[t] = "queued"}
        /\ \A i, j \in DOMAIN lane[l].queue : lane[l].queue[i] = lane[l].queue[j] => i = j

\* Commands of a lane start in the order they were enqueued, across clears, resets
\* and changes of concurrency (command-queue.ts:75).
StartsInOrder ==
    \A l \in Lane :
        LET q == lane[l].queue
        IN  /\ \A i, j \in DOMAIN q : i < j => arrival[q[i]] < arrival[q[j]]
            /\ \A t \in Task, i \in DOMAIN q :
                  LaneOf[t] = l /\ Running(t) => arrival[t] < arrival[q[i]]

\* Work never waits in a lane that has room: every operation that makes room or adds
\* work ends in a pump (command-queue.ts:67-118, 124, 211-226).
NoIdleLane ==
    \A l \in Lane : lane[l].queue # <<>> => Cardinality(lane[l].active) >= lane[l].maxConcurrent

\* When the wait before a restart reports that the lanes are drained, every task it
\* waited for has ended (command-queue.ts:236-286, run-loop.ts:114-126).
DrainedHasEnded == phase = "closing" /\ drained => \A t \in awaited : Settled(t)

\* A command that is enqueued is answered: it runs to its end or is cleared, unless
\* a restart interrupted it while it ran.  Runs hold their session lanes while they
\* wait for each other in the global lane, and the tasks that a restart interrupted
\* may never end (run.ts:215-216, command-queue.ts:193-227).  As a command never goes
\* back, each is answered when there comes a time from which none waits or runs.
Answered(t) == Settled(t) \/ (Running(t) /\ ~Current(t))
EverySettles == <>[](\A t \in Task : state[t] = "new" \/ Answered(t))
=============================================================================
