--------------------------- MODULE HeartbeatWake ---------------------------
(***************************************************************************)
(* The wake-up queue of the heartbeats (infra/heartbeat-wake.ts): anyone   *)
(* requests a wake of a target; a timer collects what is pending into a    *)
(* batch, and the registered handler is called for one wake after the      *)
(* other.  A wake the handler finds the main lane too busy for, and every  *)
(* wake of a batch whose handler throws, is queued again.  A new handler   *)
(* (an in-process restart of the gateway) resets the state of the module   *)
(* while a batch of the old one may still be running.                      *)
(*                                                                         *)
(* A step is what runs between two awaits: a batch awaits its handler.     *)
(* Delays are left out: of two normal timers either may be the earlier.    *)
(***************************************************************************)
EXTENDS Integers

CONSTANTS Target,       \* agents and sessions a wake can be for
          TopPriority,  \* the priorities of reasons are 1 (interval) and up
          MaxHandlers,  \* bound: handlers registered
          MaxBatches    \* bound: batches in progress at the same time

Handler == 1..MaxHandlers
Batch == 1..MaxBatches

ASSUME WakeAssumption ==
    TopPriority \in Nat \ {0} /\ MaxHandlers \in Nat /\ MaxBatches \in Nat

VARIABLES handler,     \* the registered handler, 0 for none
          registered,  \* handlers registered so far
          pending,     \* pending[t]: the priority of the pending wake of t, 0 for none
          scheduled,
          running,
          timer,       \* the kind of the timer, "none" when there is none
          batch,       \* the batches in progress
          disturbed    \* history: the batch of an older handler ended during a newer one's

wakeVars == <<handler, registered, pending, scheduled, running, timer, batch, disturbed>>

Wakes == [Target -> 0..TopPriority]
Nothing == [t \in Target |-> 0]
BatchOf == [handler: 0..MaxHandlers,
            wakes: Wakes,              \* pendingBatch
            rest: SUBSET Target,       \* the wakes still to be handled
            call: SUBSET Target]       \* the wake the handler is at
NoBatch == [handler |-> 0, wakes |-> Nothing, rest |-> {}, call |-> {}]
Active(b) == batch[b].handler # 0

WakeInit ==
    /\ handler = 0 /\ registered = 0
    /\ pending = Nothing
    /\ scheduled = FALSE /\ running = FALSE
    /\ timer = "none"
    /\ batch = [b \in Batch |-> NoBatch]
    /\ disturbed = FALSE

----------------------------------------------------------------------------
\* Mutant: the later request counts, whatever its priority.
Merged_latest(p, more) == [t \in Target |-> IF more[t] # 0 THEN more[t] ELSE p[t]]

\* queuePendingWakeReason: of two wakes of one target the one of higher priority.
Merged(p, more) == [t \in Target |-> IF more[t] > p[t] THEN more[t] ELSE p[t]]
Wake(t, priority) == [Nothing EXCEPT ![t] = priority]

\* schedule: the timers there may be after a timer of this kind was asked for.  A
\* retry is never moved; of two normal timers the earlier one stays.
After(tm, kind) == CASE tm = "none" -> {kind}
                     [] tm = "retry" -> {"retry"}
                     [] tm = "normal" -> {"normal", kind}

RequestWake(t, priority) ==
    /\ pending' = Merged(pending, Wake(t, priority))
    /\ timer' \in After(timer, "normal")
    /\ UNCHANGED <<handler, registered, scheduled, running, batch, disturbed>>

\* Mutant: the timer is cleared and pending wakes wait for the next request.
SetHandler_silent ==
    /\ registered < MaxHandlers
    /\ registered' = registered + 1 /\ handler' = registered + 1
    /\ timer' = "none"
    /\ running' = FALSE /\ scheduled' = FALSE
    /\ UNCHANGED <<pending, batch, disturbed>>

\* setHeartbeatWakeHandler.
SetHandler ==
    /\ registered < MaxHandlers
    /\ registered' = registered + 1 /\ handler' = registered + 1
    /\ timer' = IF pending = Nothing THEN "none" ELSE "normal"
    /\ running' = FALSE /\ scheduled' = FALSE
    /\ UNCHANGED <<pending, batch, disturbed>>

\* The disposer of h, a no-op once another handler is registered.
Dispose(h) ==
    /\ h <= registered
    /\ handler' = IF handler = h THEN 0 ELSE handler
    /\ UNCHANGED <<registered, pending, scheduled, running, timer, batch, disturbed>>

----------------------------------------------------------------------------
\* The handler's next call: one of the wakes left, none at the end of the batch.
Calls(rest) == IF rest = {} THEN {{}} ELSE {{t} : t \in rest}

\* The timer fires and there is no handler, or nothing to handle.
FireIdle ==
    /\ timer # "none"
    /\ handler = 0 \/ (~running /\ pending = Nothing)
    /\ timer' = "none" /\ scheduled' = FALSE
    /\ UNCHANGED <<handler, registered, pending, running, batch, disturbed>>

\* The timer fires during a batch and is set again.
FireWhileRunning ==
    /\ timer # "none" /\ handler # 0 /\ running
    /\ scheduled' = TRUE
    /\ UNCHANGED <<handler, registered, pending, running, timer, batch, disturbed>>

\* Mutant: a batch in progress does not keep the next one from starting.
FireBatch_always(b, c) ==
    /\ timer # "none" /\ handler # 0 /\ pending # Nothing
    /\ ~Active(b) /\ \A d \in Batch : d < b => Active(d)
    /\ LET wakes == {t \in Target : pending[t] # 0}
       IN  /\ c \in Calls(wakes)
           /\ batch' = [batch EXCEPT ![b] = [handler |-> handler, wakes |-> pending,
                                             rest |-> wakes \ c, call |-> c]]
    /\ pending' = Nothing /\ running' = TRUE
    /\ timer' = "none" /\ scheduled' = FALSE
    /\ UNCHANGED <<handler, registered, disturbed>>

\* The timer fires: what is pending becomes a batch and its first wake is handled.
FireBatch(b, c) ==
    /\ timer # "none" /\ handler # 0 /\ ~running /\ pending # Nothing
    /\ ~Active(b) /\ \A d \in Batch : d < b => Active(d)
    /\ LET wakes == {t \in Target : pending[t] # 0}
       IN  /\ c \in Calls(wakes)
           /\ batch' = [batch EXCEPT ![b] = [handler |-> handler, wakes |-> pending,
                                             rest |-> wakes \ c, call |-> c]]
    /\ pending' = Nothing /\ running' = TRUE
    /\ timer' = "none" /\ scheduled' = FALSE
    /\ UNCHANGED <<handler, registered, disturbed>>

\* The end of batch b (finally), from one of these timers.
EndBatch(b, timers) ==
    /\ batch' = [batch EXCEPT ![b] = NoBatch]
    /\ running' = FALSE
    /\ timer' \in IF pending' # Nothing \/ scheduled
                    THEN UNION {After(tm, "normal") : tm \in timers} ELSE timers
    /\ disturbed' = (disturbed \/ \E d \in Batch :
                        Active(d) /\ batch[d].handler > batch[b].handler)

\* The next call c of batch b, or its end.
GoOn(b, c, timers) ==
    /\ c \in Calls(batch[b].rest)
    /\ IF c = {} THEN EndBatch(b, timers)
       ELSE /\ batch' = [batch EXCEPT ![b].rest = @ \ c, ![b].call = c]
            /\ timer' \in timers
            /\ UNCHANGED <<running, disturbed>>

\* The handler has handled the wake, or declined it for good.
CallReturns(b, c) ==
    /\ Active(b)
    /\ pending' = pending
    /\ GoOn(b, c, {timer})
    /\ UNCHANGED <<handler, registered, scheduled>>

\* The main lane is busy: the wake is queued again.
CallBusy(b, c) ==
    /\ Active(b)
    /\ pending' = [t \in Target |-> IF t \in batch[b].call THEN Merged(pending, batch[b].wakes)[t]
                                    ELSE pending[t]]
    /\ GoOn(b, c, After(timer, "retry"))
    /\ UNCHANGED <<handler, registered, scheduled>>

\* Mutant: only the wake whose handler threw is queued again.
CallThrows_one(b) ==
    /\ Active(b)
    /\ pending' = [t \in Target |-> IF t \in batch[b].call THEN Merged(pending, batch[b].wakes)[t]
                                    ELSE pending[t]]
    /\ EndBatch(b, After(timer, "retry"))
    /\ UNCHANGED <<handler, registered, scheduled>>

\* The handler throws: the whole batch is queued again, handled wakes included.
CallThrows(b) ==
    /\ Active(b)
    /\ pending' = Merged(pending, batch[b].wakes)
    /\ EndBatch(b, After(timer, "retry"))
    /\ UNCHANGED <<handler, registered, scheduled>>

WakeNext ==
    \/ \E t \in Target, priority \in 1..TopPriority : RequestWake(t, priority)
    \/ SetHandler
    \/ \E h \in Handler : Dispose(h)
    \/ FireIdle \/ FireWhileRunning
    \/ \E b \in Batch, c \in SUBSET Target : FireBatch(b, c) \/ CallReturns(b, c) \/ CallBusy(b, c)
    \/ \E b \in Batch : CallThrows(b)

WakeSpec == WakeInit /\ [][WakeNext]_wakeVars

----------------------------------------------------------------------------
WakeTypeOK ==
    /\ registered \in 0..MaxHandlers /\ handler \in {0, registered}
    /\ pending \in Wakes
    /\ scheduled \in BOOLEAN /\ running \in BOOLEAN /\ disturbed \in BOOLEAN
    /\ timer \in {"none", "normal", "retry"}
    /\ batch \in [Batch -> BatchOf]

\* A pending wake is never forgotten: while there is a handler a timer is set for it
\* or a batch is in progress whose end looks at it, through preempted timers, retries,
\* failures and new handlers (heartbeat-wake.ts:109-183, 196-215).
NoForgottenWake ==
    handler # 0 /\ pending # Nothing => timer # "none" \/ \E b \in Batch : Active(b)

\* Two batches of one handler overlap only after a batch of an older handler has
\* ended during a newer one's and taken its running flag away (heartbeat-wake.ts:139,
\* 177, 206-211).
RunsOneByOne ==
    \A b, d \in Batch : Active(b) /\ batch[b].handler = batch[d].handler /\ b # d => disturbed

\* What is owed to a target, pending or in a batch, is kept at its priority until the
\* handler has dealt with a wake of that target (heartbeat-wake.ts:95-106, 145-175).
At(t) == {b \in Batch : t \in batch[b].rest \union batch[b].call}
Owed(t, priority) == pending[t] >= priority \/ \E b \in At(t) : batch[b].wakes[t] >= priority
OwedUntilHandled ==
    [][\A t \in Target, priority \in 1..TopPriority :
          Owed(t, priority) /\ ~Owed(t, priority)'
             => \E b \in Batch, c \in SUBSET Target : t \in batch[b].call /\ CallReturns(b, c)]_wakeVars
=============================================================================
