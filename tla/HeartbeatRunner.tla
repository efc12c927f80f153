-------------------------- MODULE HeartbeatRunner --------------------------
(***************************************************************************)
(* The heartbeat runners (infra/heartbeat-runner.ts) on the wake-up queue  *)
(* of HeartbeatWake: each runner keeps, for its agents, when the next      *)
(* heartbeat is due, sets a timer for the earliest, and asks for a wake    *)
(* when it fires; the wake calls the runner, which tries the agents and    *)
(* sets the timer again.  A restart stops one runner and starts the next   *)
(* while a call of the old one may be under way.                           *)
(*                                                                         *)
(* What runHeartbeatOnce does for one agent is left to its outcomes: done  *)
(* (ran, failed, threw, skipped), skipped as disabled, or skipped because  *)
(* requests are in flight.                                                 *)
(***************************************************************************)
EXTENDS HeartbeatWake

CONSTANTS Agent, All,   \* a wake is for one agent or for all
          MaxEvents     \* bound: requests from elsewhere than the interval timers,
                        \* configuration updates and switches on or off

Interval == 1           \* the priority of the interval timer's own wakes

ASSUME RunnerAssumption == Target = Agent \union {All} /\ All \notin Agent
                           /\ MaxEvents \in Nat

VARIABLES on,        \* heartbeatsEnabled
          runner,    \* the state of each runner, known by its handler
          call,      \* call[b]: how far the handler has got with the wake of batch b
          events,    \* how many requests, updates and switches so far
          wasOff     \* history: heartbeats have been disabled

vars == <<wakeVars, on, runner, call, events, wasOff>>

RunnerState == [stopped: BOOLEAN,
                agents: SUBSET Agent,
                due: SUBSET Agent,     \* the agents whose nextDueMs is past
                armed: BOOLEAN]        \* the interval timer is set
\* A runner not started yet, or stopped: its calls under way read no more of it.
Stopped == [stopped |-> TRUE, agents |-> {}, due |-> {}, armed |-> FALSE]

CallState == [at: SUBSET Agent,        \* the agent whose run is awaited
              todo: SUBSET Agent,      \* the agents that follow
              interval: BOOLEAN,
              fresh: BOOLEAN,          \* the agents' state objects are still the runner's
              answer: {"none", "done", "busy"}]
Progress(at, todo, interval, fresh, answer) ==
    [at |-> at, todo |-> todo, interval |-> interval, fresh |-> fresh, answer |-> answer]
Answered(answer) == Progress({}, {}, FALSE, FALSE, answer)
NoCall == Answered("none")

Init == /\ WakeInit
        /\ on = TRUE /\ wasOff = FALSE /\ events = 0
        /\ runner = [h \in Handler |-> Stopped]
        /\ call = [b \in Batch |-> NoCall]

----------------------------------------------------------------------------
\* Mutant: the timer is set for the agents that are due.
ScheduleNext_due(state) ==
    IF state.stopped THEN state ELSE [state EXCEPT !.armed = state.due # {}]

\* scheduleNext, on the state of a runner.
ScheduleNext(state) ==
    IF state.stopped THEN state ELSE [state EXCEPT !.armed = state.agents # {}]

\* startHeartbeatRunner with these agents.
StartRunner(agents) ==
    /\ SetHandler
    /\ runner' = [runner EXCEPT ![registered + 1] =
                    ScheduleNext([stopped |-> FALSE, agents |-> agents, due |-> {}, armed |-> FALSE])]
    /\ UNCHANGED <<on, call, events, wasOff>>

StopRunner(h) ==
    /\ ~runner[h].stopped
    /\ Dispose(h)
    /\ runner' = [runner EXCEPT ![h] = Stopped]
    /\ UNCHANGED <<on, call, events, wasOff>>

Event == events < MaxEvents /\ events' = events + 1

\* Mutant: a removed agent stays due.
UpdateConfig_keepsDue(h, agents, due) ==
    /\ ~runner[h].stopped
    /\ Event
    /\ due \subseteq runner[h].due
    /\ runner' = [runner EXCEPT ![h] = ScheduleNext([@ EXCEPT !.agents = agents, !.due = due])]
    /\ call' = [b \in Batch |-> IF batch[b].handler = h THEN [call[b] EXCEPT !.fresh = FALSE] ELSE call[b]]
    /\ UNCHANGED <<wakeVars, on, wasOff>>

\* updateConfig: new state objects, so that a call under way keeps the old ones.  The
\* agents that were due may have been given another time.
UpdateConfig(h, agents, due) ==
    /\ ~runner[h].stopped
    /\ Event
    /\ due \subseteq runner[h].due \intersect agents
    /\ runner' = [runner EXCEPT ![h] = ScheduleNext([@ EXCEPT !.agents = agents, !.due = due])]
    /\ call' = [b \in Batch |-> IF batch[b].handler = h THEN [call[b] EXCEPT !.fresh = FALSE] ELSE call[b]]
    /\ UNCHANGED <<wakeVars, on, wasOff>>

\* setHeartbeatsEnabled.
SetEnabled(enabled) ==
    /\ on # enabled /\ on' = enabled
    /\ Event
    /\ wasOff' = (wasOff \/ ~enabled)
    /\ UNCHANGED <<wakeVars, runner, call>>

\* Time passes an agent's nextDueMs.
BecomesDue(h, a) ==
    /\ a \in runner[h].agents \ runner[h].due
    /\ runner' = [runner EXCEPT ![h].due = @ \union {a}]
    /\ UNCHANGED <<wakeVars, on, call, events, wasOff>>

\* The interval timer fires.
IntervalFires(h) ==
    /\ runner[h].armed
    /\ runner' = [runner EXCEPT ![h].armed = FALSE]
    /\ RequestWake(All, Interval)
    /\ UNCHANGED <<on, call, events, wasOff>>

\* Cron jobs, hooks, exec events and operators.
Request(t, priority) ==
    /\ priority > Interval
    /\ Event
    /\ RequestWake(t, priority)
    /\ UNCHANGED <<on, runner, call, wasOff>>

----------------------------------------------------------------------------
\* The calls of other batches, of which those that walk the agents of this runner find
\* the agent no longer due.
Elsewhere(b, ran) ==
    [d \in Batch |-> IF /\ batch[d].handler = batch[b].handler
                       /\ call[b].fresh /\ call[d].fresh /\ call[d].interval
                    THEN [call[d] EXCEPT !.todo = @ \ ran] ELSE call[d]]

\* The handler of batch b goes on with these agents, or is at its end.
Proceed(b, h, todo, interval, fresh, calls, current) ==
    IF todo # {}
    THEN /\ \E a \in todo : call' = [calls EXCEPT ![b] = Progress({a}, todo \ {a}, interval, fresh, "none")]
         /\ runner' = [runner EXCEPT ![h] = current]
    ELSE /\ call' = [calls EXCEPT ![b] = Answered("done")]
         /\ runner' = [runner EXCEPT ![h] = ScheduleNext(current)]

\* Mutant: a wake that finds no agent due is declined.
Declines_notDue(h) == runner[h].stopped \/ ~on \/ runner[h].due = {}

\* The runner declines a wake without a look at its agents, or setting its timer.
Declines(h) == runner[h].stopped \/ ~on \/ runner[h].agents = {}

\* The agents a wake of t is for.
Called(h, t, interval) ==
    CASE t # All -> {t} \intersect runner[h].agents
      [] t = All /\ interval -> runner[h].due
      [] t = All /\ ~interval -> runner[h].agents

\* The handler of h is called, in batch b, with the wake c of this batch's wakes.
StartCall(b, h, c, wakes) ==
    IF c = {} THEN call' = [call EXCEPT ![b] = NoCall] /\ UNCHANGED runner
    ELSE \E t \in c :
           LET interval == wakes[t] = Interval
           IN  IF Declines(h)
               THEN /\ call' = [call EXCEPT ![b] = Answered("done")]
                    /\ UNCHANGED runner
               ELSE Proceed(b, h, Called(h, t, interval), interval, TRUE, call, runner[h])

Rest == UNCHANGED <<on, events, wasOff>>

Fire(b, c) ==
    /\ FireBatch(b, c)
    /\ StartCall(b, handler, c, pending)
    /\ Rest

FireNothing == (FireIdle \/ FireWhileRunning) /\ UNCHANGED runner /\ UNCHANGED call /\ Rest

\* The run of the awaited agent is over and its next heartbeat an interval away.
Advanced(b) ==
    LET h == batch[b].handler
    IN  IF call[b].fresh THEN [runner[h] EXCEPT !.due = @ \ call[b].at] ELSE runner[h]

RunEnds(b) ==
    /\ call[b].at # {}
    /\ Proceed(b, batch[b].handler, call[b].todo, call[b].interval, call[b].fresh,
               Elsewhere(b, call[b].at), Advanced(b))
    /\ UNCHANGED wakeVars /\ Rest

\* It found heartbeats disabled, or an update had disabled the agent's, and is not
\* advanced.
RunDisabled(b) ==
    /\ call[b].at # {}
    /\ ~on \/ ~call[b].fresh
    /\ Proceed(b, batch[b].handler, call[b].todo, call[b].interval, call[b].fresh,
               call, runner[batch[b].handler])
    /\ UNCHANGED wakeVars /\ Rest

\* Requests are in flight: the call ends, the agents that follow are left out.
RunBusy(b) ==
    /\ call[b].at # {}
    /\ runner' = [runner EXCEPT ![batch[b].handler] = ScheduleNext(Advanced(b))]
    /\ call' = [Elsewhere(b, call[b].at) EXCEPT ![b] = Answered("busy")]
    /\ UNCHANGED wakeVars /\ Rest

\* The batch resumes with the handler's answer and calls it with the next wake.
Resume(b, c) ==
    /\ \/ call[b].answer = "done" /\ CallReturns(b, c)
       \/ call[b].answer = "busy" /\ CallBusy(b, c)
    /\ StartCall(b, batch[b].handler, c, batch[b].wakes)
    /\ Rest

\* The handler throws.  The runner catches what a run throws, but not what its own
\* error report throws.
Throws(b) ==
    /\ call[b].at # {}
    /\ CallThrows(b)
    /\ call' = [call EXCEPT ![b] = NoCall]
    /\ UNCHANGED runner /\ Rest

Next ==
    \/ \E agents \in SUBSET Agent : StartRunner(agents)
    \/ \E h \in Handler : \/ StopRunner(h) \/ IntervalFires(h)
                          \/ \E a \in Agent : BecomesDue(h, a)
                          \/ \E agents, due \in SUBSET Agent : UpdateConfig(h, agents, due)
    \/ \E enabled \in BOOLEAN : SetEnabled(enabled)
    \/ \E t \in Target, priority \in 1..TopPriority : Request(t, priority)
    \/ FireNothing
    \/ \E b \in Batch, c \in SUBSET Target : Fire(b, c) \/ Resume(b, c)
    \/ \E b \in Batch : RunEnds(b) \/ RunDisabled(b) \/ RunBusy(b) \/ Throws(b)

Spec == Init /\ [][Next]_vars

\* Timers fire, time passes, and a run ends, as its timeouts see to.
FairSpec ==
    /\ Spec
    /\ WF_vars(\E b \in Batch, c \in SUBSET Target : Fire(b, c))
    /\ \A h \in Handler : WF_vars(IntervalFires(h)) /\ \A a \in Agent : WF_vars(BecomesDue(h, a))
    /\ \A b \in Batch : WF_vars(\/ \E c \in SUBSET Target : Resume(b, c)
                               \/ RunEnds(b) \/ RunDisabled(b) \/ RunBusy(b) \/ Throws(b))

----------------------------------------------------------------------------
TypeOK ==
    /\ WakeTypeOK
    /\ on \in BOOLEAN /\ wasOff \in BOOLEAN /\ events \in 0..MaxEvents
    /\ runner \in [Handler -> RunnerState]
    /\ call \in [Batch -> CallState]
    /\ \A h \in Handler : runner[h].due \subseteq runner[h].agents

\* The heartbeats of a runner never stall: unless they were disabled, the interval
\* timer is set, or the wake that will set it again is pending or being handled
\* (heartbeat-runner.ts:1005-1032, 1081-1180).
Serving(h, b) == batch[b].handler = h /\ All \in batch[b].rest \union batch[b].call
HeartbeatsArmed ==
    handler # 0 /\ runner[handler].agents # {} /\ ~wasOff =>
        runner[handler].armed \/ pending[All] # 0 \/ \E b \in Batch : Serving(handler, b)

\* Every agent of the running runner is tried again and again, whatever its runs, the
\* main lane, reloads and restarts do (heartbeat-runner.ts:1154-1163: "so heartbeats
\* keep firing").
Tried(a) == \E b \in Batch : batch[b].handler = handler /\ a \in call[b].at
HeartbeatsGoOn ==
    \A a \in Agent :
        []<>(handler # 0 /\ ~wasOff /\ a \in runner[handler].agents => Tried(a))

\* Heartbeats that are enabled are tried (cli/system-cli.ts:91: "Enable heartbeats").
EnabledHeartbeatsGoOn ==
    \A a \in Agent :
        []<>(handler # 0 /\ on /\ a \in runner[handler].agents => Tried(a))
=============================================================================
