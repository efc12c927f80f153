----------------------- MODULE HeartbeatRunner_proofs -----------------------
(***************************************************************************)
(* Theorems about the heartbeats, for any number of agents, priorities,    *)
(* handlers and batches.                                                   *)
(*                                                                         *)
(* The argument: the runners take the steps of the wake-up queue and no    *)
(* others (RunnersWake), so what holds of it alone holds of them.  Two     *)
(* batches of one handler need a running flag that was cleared under the   *)
(* first (Guarded).  The interval timer is set, or a wake for all is       *)
(* pending, waits in a batch, or is at one of its agents, whose end will   *)
(* set the timer (Alive).                                                  *)
(***************************************************************************)
EXTENDS HeartbeatRunner, TLAPS

USE WakeAssumption, RunnerAssumption DEF WakeAssumption, RunnerAssumption, Handler, Batch

----------------------------------------------------------------------------
\* The wake-up queue by itself.

LEMMA WakesType ==
    /\ Nothing \in Wakes /\ NoBatch \in BatchOf
    /\ \A t \in Target, priority \in 0..TopPriority : Wake(t, priority) \in Wakes
    /\ \A p, more \in Wakes : Merged(p, more) \in Wakes
<1>1. Nothing \in Wakes
  BY DEF Nothing, Wakes
<1>2. NoBatch \in BatchOf
  BY <1>1 DEF NoBatch, BatchOf
<1>3. \A t \in Target, priority \in 0..TopPriority : Wake(t, priority) \in Wakes
  BY <1>1 DEF Wake, Wakes
<1>4. \A p, more \in Wakes : Merged(p, more) \in Wakes
  BY DEF Merged, Wakes
<1>5. QED
  BY <1>1, <1>2, <1>3, <1>4

\* A timer that is set stays set, and one that was asked for is.
Kind == {"none", "normal", "retry"}
LEMMA TimerSet ==
    \A tm \in Kind, kind \in {"normal", "retry"} :
        After(tm, kind) \subseteq Kind \ {"none"} /\ After(tm, kind) # {}
  BY DEF After, Kind

\* The end of a batch, whatever timers its last call left.
LEMMA EndBatchSteps ==
    ASSUME WakeTypeOK, NEW b \in Batch, NEW timers \in SUBSET Kind, EndBatch(b, timers)
    PROVE  /\ batch' = [batch EXCEPT ![b] = NoBatch] /\ running' = FALSE
           /\ timer' \in Kind /\ (pending' # Nothing => timer' # "none")
           /\ disturbed' = (disturbed \/ \E d \in Batch :
                               Active(d) /\ batch[d].handler > batch[b].handler)
<1>1. timer' \in Kind /\ (pending' # Nothing => timer' # "none")
  <2>1. \A tm \in timers : After(tm, "normal") \subseteq Kind \ {"none"}
    BY TimerSet
  <2>2. CASE pending' # Nothing \/ scheduled
    <3>1. timer' \in UNION {After(tm, "normal") : tm \in timers}
      BY <2>2 DEF EndBatch
    <3>2. QED
      BY <2>1, <3>1
  <2>3. CASE ~(pending' # Nothing \/ scheduled)
    BY <2>3 DEF EndBatch
  <2>4. QED
    BY <2>2, <2>3
<1>2. QED
  BY <1>1 DEF EndBatch

\* What the handler's answer does to its batch b: it goes on with the wake c, or ends.
LEMMA GoOnSteps ==
    ASSUME WakeTypeOK, NEW b \in Batch, NEW c, NEW timers \in SUBSET Kind, GoOn(b, c, timers)
    PROVE  /\ c \subseteq batch[b].rest
           /\ c = {} => batch[b].rest = {} /\ EndBatch(b, timers)
           /\ c # {} => /\ batch' = [batch EXCEPT ![b].rest = @ \ c, ![b].call = c]
                        /\ timer' \in timers /\ running' = running /\ disturbed' = disturbed
<1>1. c \in Calls(batch[b].rest)
  BY DEF GoOn
<1>2. c \subseteq batch[b].rest /\ (c = {} => batch[b].rest = {})
  BY <1>1 DEF Calls
<1>3. QED
  BY <1>2 DEF GoOn

\* A batch that begins, goes on or ends is a batch.
LEMMA BatchType ==
    ASSUME WakeTypeOK, NEW b \in Batch
    PROVE  /\ [batch EXCEPT ![b] = NoBatch] \in [Batch -> BatchOf]
           /\ \A c \in SUBSET batch[b].rest :
                 [batch EXCEPT ![b].rest = @ \ c, ![b].call = c] \in [Batch -> BatchOf]
           /\ pending \in Wakes /\ batch[b].wakes \in Wakes
           /\ batch[b].rest \subseteq Target /\ batch[b].call \subseteq Target
<1>1. batch \in [Batch -> BatchOf] /\ pending \in Wakes
  BY DEF WakeTypeOK
<1>2. batch[b] \in BatchOf
  BY <1>1
<1>3. NoBatch \in BatchOf
  BY WakesType
<1>4. [batch EXCEPT ![b] = NoBatch] \in [Batch -> BatchOf]
  BY <1>1, <1>3
<1>5. ASSUME NEW c \in SUBSET batch[b].rest
      PROVE  [batch EXCEPT ![b].rest = @ \ c, ![b].call = c] \in [Batch -> BatchOf]
  <2>1. [batch[b] EXCEPT !.rest = @ \ c, !.call = c] \in BatchOf
    BY <1>2 DEF BatchOf
  <2>2. [batch EXCEPT ![b].rest = @ \ c, ![b].call = c]
          = [batch EXCEPT ![b] = [batch[b] EXCEPT !.rest = batch[b].rest \ c, !.call = c]]
    BY <1>1
  <2>3. QED
    BY <1>1, <2>1, <2>2
<1>6. QED
  BY <1>1, <1>2, <1>4, <1>5 DEF BatchOf

\* GoOn keeps the types of what it changes.
LEMMA GoOnType ==
    ASSUME WakeTypeOK, NEW b \in Batch, NEW c, NEW timers \in SUBSET Kind, GoOn(b, c, timers)
    PROVE  batch' \in [Batch -> BatchOf] /\ timer' \in Kind
           /\ running' \in BOOLEAN /\ disturbed' \in BOOLEAN
<1>1. running \in BOOLEAN /\ disturbed \in BOOLEAN
  BY DEF WakeTypeOK
<1>2. CASE c = {}
  <2>1. EndBatch(b, timers)
    BY <1>2, GoOnSteps
  <2>2. QED
    BY <1>1, <2>1, EndBatchSteps, BatchType
<1>3. CASE c # {}
  <2>1. /\ c \in SUBSET batch[b].rest /\ timer' \in timers
        /\ batch' = [batch EXCEPT ![b].rest = @ \ c, ![b].call = c]
        /\ running' = running /\ disturbed' = disturbed
    BY <1>3, GoOnSteps
  <2>2. QED
    BY <1>1, <2>1, BatchType
<1>4. QED
  BY <1>2, <1>3

LEMMA WakeTypeStep == ASSUME WakeTypeOK, [WakeNext]_wakeVars PROVE WakeTypeOK'
<1> USE DEF WakeTypeOK
<1>1. ASSUME NEW t \in Target, NEW priority \in 1..TopPriority, RequestWake(t, priority)
      PROVE  WakeTypeOK'
  <2>1. pending' \in Wakes
    <3>1. Wake(t, priority) \in Wakes
      BY WakesType
    <3>2. QED
      BY <1>1, <3>1, WakesType DEF RequestWake
  <2>2. timer' \in Kind
    BY <1>1, TimerSet DEF RequestWake, Kind
  <2>3. QED
    BY <1>1, <2>1, <2>2 DEF RequestWake, Kind
<1>2. CASE SetHandler
  <2>1. registered' \in 0..MaxHandlers /\ handler' = registered'
    BY <1>2 DEF SetHandler
  <2>2. timer' \in {"none", "normal", "retry"}
    BY <1>2 DEF SetHandler
  <2>3. QED
    BY <1>2, <2>1, <2>2 DEF SetHandler
<1>3. ASSUME NEW h \in Handler, Dispose(h) PROVE WakeTypeOK'
  BY <1>3 DEF Dispose
<1>4. CASE FireIdle
  BY <1>4 DEF FireIdle
<1>5. CASE FireWhileRunning
  BY <1>5 DEF FireWhileRunning
<1>6. ASSUME NEW b \in Batch, NEW c \in SUBSET Target, FireBatch(b, c) PROVE WakeTypeOK'
  <2> DEFINE wakes == {t \in Target : pending[t] # 0}
             new == [handler |-> handler, wakes |-> pending, rest |-> wakes \ c, call |-> c]
  <2>1. new \in BatchOf
    BY DEF BatchOf
  <2>2. batch' = [batch EXCEPT ![b] = new]
    BY <1>6 DEF FireBatch
  <2> HIDE DEF new
  <2>3. batch' \in [Batch -> BatchOf]
    BY <2>1, <2>2
  <2>4. pending' \in Wakes
    BY <1>6, WakesType DEF FireBatch
  <2>5. QED
    BY <1>6, <2>3, <2>4 DEF FireBatch
<1>7. ASSUME NEW b \in Batch, NEW c \in SUBSET Target, CallReturns(b, c) PROVE WakeTypeOK'
  <2>1. {timer} \in SUBSET Kind /\ GoOn(b, c, {timer})
    BY <1>7 DEF CallReturns, Kind
  <2>2. QED
    BY <1>7, <2>1, GoOnType DEF CallReturns, Kind
<1>8. ASSUME NEW b \in Batch, NEW c \in SUBSET Target, CallBusy(b, c) PROVE WakeTypeOK'
  <2>1. After(timer, "retry") \in SUBSET Kind /\ GoOn(b, c, After(timer, "retry"))
    BY <1>8, TimerSet DEF CallBusy, Kind
  <2>2. pending' \in Wakes
    <3>1. Merged(pending, batch[b].wakes) \in Wakes
      BY BatchType, WakesType
    <3>2. QED
      BY <1>8, <3>1 DEF CallBusy, Wakes
  <2>3. QED
    BY <1>8, <2>1, <2>2, GoOnType DEF CallBusy, Kind
<1>9. ASSUME NEW b \in Batch, CallThrows(b) PROVE WakeTypeOK'
  <2>1. After(timer, "retry") \in SUBSET Kind /\ EndBatch(b, After(timer, "retry"))
    BY <1>9, TimerSet DEF CallThrows, Kind
  <2>2. pending' \in Wakes
    BY <1>9, BatchType, WakesType DEF CallThrows
  <2>3. /\ batch' \in [Batch -> BatchOf] /\ timer' \in Kind
        /\ running' \in BOOLEAN /\ disturbed' \in BOOLEAN
    BY <2>1, EndBatchSteps, BatchType
  <2>4. QED
    BY <1>9, <2>2, <2>3 DEF CallThrows, Kind
<1>10. CASE UNCHANGED wakeVars
  BY <1>10 DEF wakeVars
<1>11. QED
  BY <1>1, <1>2, <1>3, <1>4, <1>5, <1>6, <1>7, <1>8, <1>9, <1>10 DEF WakeNext

LEMMA WakeTypeInit == WakeInit => WakeTypeOK
<1> SUFFICES ASSUME WakeInit PROVE WakeTypeOK
  OBVIOUS
<1>1. batch \in [Batch -> BatchOf] /\ pending \in Wakes
  BY WakesType DEF WakeInit
<1>2. registered \in 0..MaxHandlers /\ handler \in {0, registered}
  BY DEF WakeInit
<1>3. scheduled \in BOOLEAN /\ running \in BOOLEAN /\ disturbed \in BOOLEAN
  BY DEF WakeInit
<1>4. timer \in {"none", "normal", "retry"}
  BY DEF WakeInit
<1>5. QED
  BY <1>1, <1>2, <1>3, <1>4 DEF WakeTypeOK

----------------------------------------------------------------------------
(* Guarded: what is in a batch was among its wakes; a batch belongs to a handler that *)
(* was registered, and while no batch was disturbed the flag of the newest is set.    *)
Idle(b) == batch[b].rest = {} /\ batch[b].call = {}
Guarded ==
    \A b \in Batch :
        /\ batch[b].handler <= registered
        /\ ~Active(b) => Idle(b)
        /\ \A t \in batch[b].rest \union batch[b].call : batch[b].wakes[t] # 0
        /\ Active(b) /\ batch[b].handler = registered /\ ~disturbed => running

WakeInv == WakeTypeOK /\ NoForgottenWake /\ RunsOneByOne /\ Guarded

LEMMA WakeInvInit == WakeInit => WakeInv
<1> SUFFICES ASSUME WakeInit PROVE WakeInv
  OBVIOUS
<1>1. WakeTypeOK
  BY WakeTypeInit
<1>2. \A b \in Batch : batch[b] = NoBatch
  BY DEF WakeInit
<1>3. QED
  BY <1>1, <1>2 DEF WakeInit, WakeInv, NoForgottenWake, RunsOneByOne, Guarded, Idle, Active, NoBatch

\* After a batch ended, the others are as they were.
LEMMA BatchEnds ==
    ASSUME WakeTypeOK, RunsOneByOne, Guarded, NEW b \in Batch, Active(b),
           NEW timers \in SUBSET Kind, EndBatch(b, timers), registered' = registered
    PROVE  NoForgottenWake' /\ RunsOneByOne' /\ Guarded'
<1>1. /\ batch' = [batch EXCEPT ![b] = NoBatch] /\ running' = FALSE
      /\ pending' # Nothing => timer' # "none"
      /\ disturbed' = (disturbed \/ \E d \in Batch :
                          Active(d) /\ batch[d].handler > batch[b].handler)
  BY EndBatchSteps
<1>2. batch'[b] = NoBatch /\ \A d \in Batch : d # b => batch'[d] = batch[d]
  BY <1>1 DEF WakeTypeOK
<1>3. \A d \in Batch : batch[d].handler \in Nat /\ batch[d].handler <= registered
  BY DEF WakeTypeOK, BatchOf, Guarded
<1>4. registered \in Nat
  BY DEF WakeTypeOK
<1>5. NoForgottenWake'
  BY <1>1 DEF NoForgottenWake
<1>6. disturbed => disturbed'
  BY <1>1, Zenon
<1>7. \A d \in Batch : Active(d) /\ batch[d].handler > batch[b].handler => disturbed'
  BY <1>1, Zenon
<1>8. RunsOneByOne'
  <2>1. ASSUME NEW d \in Batch, NEW e \in Batch, Active(d)', batch'[d].handler = batch'[e].handler,
               d # e
        PROVE  disturbed'
    <3>1. d # b /\ e # b
      BY <1>2, <2>1 DEF Active, NoBatch
    <3>2. Active(d) /\ batch[d].handler = batch[e].handler
      BY <1>2, <2>1, <3>1 DEF Active
    <3>3. QED
      BY <1>6, <2>1, <3>2 DEF RunsOneByOne
  <2>2. QED
    BY <2>1 DEF RunsOneByOne
<1>9. ASSUME NEW d \in Batch, Active(d)', batch'[d].handler = registered', ~disturbed'
      PROVE  FALSE
  <2>1. d # b /\ Active(d) /\ batch[d].handler = registered
    BY <1>2, <1>9 DEF Active, NoBatch
  <2>2. CASE batch[b].handler = registered
    BY <1>6, <1>9, <2>1, <2>2 DEF RunsOneByOne
  <2>3. CASE batch[b].handler # registered
    <3>1. batch[d].handler > batch[b].handler
      BY <1>3, <1>4, <2>1, <2>3
    <3>2. QED
      BY <1>7, <1>9, <2>1, <3>1
  <2>4. QED
    BY <2>2, <2>3
<1>10. Guarded'
  <2>1. ASSUME NEW d \in Batch
        PROVE  /\ batch'[d].handler <= registered'
               /\ Active(d)' \/ Idle(d)'
               /\ \A t \in batch'[d].rest \union batch'[d].call : batch'[d].wakes[t] # 0
    <3>1. CASE d = b
      BY <1>2, <1>4, <3>1 DEF NoBatch, Idle
    <3>2. CASE d # b
      BY <1>2, <3>2 DEF Guarded, Idle, Active
    <3>3. QED
      BY <3>1, <3>2
  <2>2. QED
    BY <1>9, <2>1 DEF Guarded
<1>11. QED
  BY <1>5, <1>8, <1>10

\* A call that returns or is sent back, with what it left pending.
LEMMA BatchGoesOn ==
    ASSUME WakeTypeOK, RunsOneByOne, Guarded, NEW b \in Batch, Active(b), NEW c,
           NEW timers \in SUBSET Kind, GoOn(b, c, timers), registered' = registered
    PROVE  NoForgottenWake' /\ RunsOneByOne' /\ Guarded'
<1>1. CASE c = {}
  <2>1. EndBatch(b, timers)
    BY <1>1, GoOnSteps
  <2>2. QED
    BY <2>1, BatchEnds
<1>2. CASE c # {}
  <2>1. /\ c \subseteq batch[b].rest
        /\ batch' = [batch EXCEPT ![b].rest = @ \ c, ![b].call = c]
        /\ running' = running /\ disturbed' = disturbed
    BY <1>2, GoOnSteps
  <2>2. batch \in [Batch -> BatchOf]
    BY DEF WakeTypeOK
  <2>3. \A d \in Batch : d # b => batch'[d] = batch[d]
    BY <2>1, <2>2
  <2>4. /\ batch'[b].handler = batch[b].handler /\ batch'[b].wakes = batch[b].wakes
        /\ batch'[b].rest = batch[b].rest \ c /\ batch'[b].call = c
    BY <2>1, <2>2 DEF BatchOf
  <2>5. \A d \in Batch : batch'[d].handler = batch[d].handler
    BY <2>3, <2>4
  <2>6. NoForgottenWake'
    BY <2>5 DEF NoForgottenWake, Active
  <2>7. RunsOneByOne'
    BY <2>1, <2>5 DEF RunsOneByOne, Active
  <2>8. ASSUME NEW d \in Batch
        PROVE  /\ Active(d)' \/ Idle(d)'
               /\ \A t \in batch'[d].rest \union batch'[d].call : batch'[d].wakes[t] # 0
    <3>1. CASE d = b
      BY <2>1, <2>4, <3>1 DEF Guarded, Active
    <3>2. CASE d # b
      BY <2>3, <3>2 DEF Guarded, Active, Idle
    <3>3. QED
      BY <3>1, <3>2
  <2>9. Guarded'
    BY <2>1, <2>5, <2>8 DEF Guarded, Active
  <2>10. QED
    BY <2>6, <2>7, <2>9
<1>3. QED
  BY <1>1, <1>2

LEMMA WakeInvStep == ASSUME WakeInv, [WakeNext]_wakeVars PROVE WakeInv'
<1>1. WakeTypeOK /\ NoForgottenWake /\ RunsOneByOne /\ Guarded
  BY DEF WakeInv
<1>2. WakeTypeOK'
  BY <1>1, WakeTypeStep
<1>3. \A b \in Batch : batch[b].handler \in Nat /\ batch[b].handler <= registered
  BY <1>1 DEF WakeTypeOK, BatchOf, Guarded
<1>4. registered \in Nat /\ handler \in {0, registered} /\ timer \in Kind
  BY <1>1 DEF WakeTypeOK, Kind
<1>5. ASSUME UNCHANGED <<batch, registered, running, disturbed>> PROVE RunsOneByOne' /\ Guarded'
  BY <1>1, <1>5 DEF RunsOneByOne, Guarded, Active, Idle
<1>6. ASSUME NEW t \in Target, NEW priority \in 1..TopPriority, RequestWake(t, priority)
      PROVE  NoForgottenWake' /\ RunsOneByOne' /\ Guarded'
  <2>1. timer' # "none"
    BY <1>4, <1>6, TimerSet DEF RequestWake
  <2>2. UNCHANGED <<batch, registered, running, disturbed>>
    BY <1>6 DEF RequestWake
  <2>3. QED
    BY <2>1, <2>2, <1>5 DEF NoForgottenWake
<1>7. ASSUME SetHandler PROVE NoForgottenWake' /\ RunsOneByOne' /\ Guarded'
  <2>1. NoForgottenWake'
    BY <1>7 DEF SetHandler, NoForgottenWake
  <2>2. UNCHANGED <<batch, disturbed>> /\ registered' = registered + 1
    BY <1>7 DEF SetHandler
  <2>3. RunsOneByOne'
    BY <1>1, <2>2 DEF RunsOneByOne, Active
  <2>4. \A b \in Batch : batch[b].handler <= registered' /\ batch[b].handler # registered'
    BY <1>3, <1>4, <2>2
  <2>5. Guarded'
    BY <1>1, <2>2, <2>4 DEF Guarded, Active, Idle
  <2>6. QED
    BY <2>1, <2>3, <2>5
<1>8. ASSUME NEW h \in Handler, Dispose(h) PROVE NoForgottenWake' /\ RunsOneByOne' /\ Guarded'
  <2>1. NoForgottenWake'
    BY <1>1, <1>8 DEF Dispose, NoForgottenWake, Active
  <2>2. UNCHANGED <<batch, registered, running, disturbed>>
    BY <1>8 DEF Dispose
  <2>3. QED
    BY <2>1, <2>2, <1>5
<1>9. ASSUME FireIdle \/ FireWhileRunning
      PROVE  NoForgottenWake' /\ RunsOneByOne' /\ Guarded'
  <2>1. NoForgottenWake'
    BY <1>1, <1>9 DEF FireIdle, FireWhileRunning, NoForgottenWake, Active
  <2>2. UNCHANGED <<batch, registered, running, disturbed>>
    BY <1>9 DEF FireIdle, FireWhileRunning
  <2>3. QED
    BY <2>1, <2>2, <1>5
<1>10. ASSUME NEW b \in Batch, NEW c \in SUBSET Target, FireBatch(b, c)
       PROVE  NoForgottenWake' /\ RunsOneByOne' /\ Guarded'
  <2> DEFINE wakes == {t \in Target : pending[t] # 0}
             new == [handler |-> handler, wakes |-> pending, rest |-> wakes \ c, call |-> c]
  <2>1. /\ batch' = [batch EXCEPT ![b] = new] /\ ~running /\ running' = TRUE
        /\ pending' = Nothing /\ registered' = registered /\ disturbed' = disturbed
        /\ handler # 0 /\ c \in Calls(wakes)
    BY <1>10 DEF FireBatch
  <2>2. batch'[b] = new /\ \A d \in Batch : d # b => batch'[d] = batch[d]
    BY <1>1, <2>1 DEF WakeTypeOK
  <2>3. handler = registered
    BY <1>4, <2>1
  <2>4. \A t \in new.rest \union new.call : new.wakes[t] # 0
    BY <2>1 DEF Calls
  <2>5. new.handler = registered
    BY <2>3
  <2> HIDE DEF new
  <2>6. NoForgottenWake'
    BY <2>1 DEF NoForgottenWake
  <2>7. ASSUME NEW d \in Batch, d # b, Active(d), batch[d].handler = registered PROVE disturbed
    BY <1>1, <2>1, <2>7 DEF Guarded
  <2>8. RunsOneByOne'
    <3>1. ASSUME NEW d \in Batch, NEW e \in Batch, Active(d)',
                 batch'[d].handler = batch'[e].handler, d # e
          PROVE  disturbed
      <4>1. CASE d = b
        BY <2>2, <2>5, <2>7, <3>1, <4>1 DEF Active
      <4>2. CASE e = b
        BY <2>2, <2>5, <2>7, <3>1, <4>2 DEF Active
      <4>3. CASE d # b /\ e # b
        BY <1>1, <2>2, <3>1, <4>3 DEF Active, RunsOneByOne
      <4>4. QED
        BY <4>1, <4>2, <4>3
    <3>2. QED
      BY <2>1, <3>1 DEF RunsOneByOne
  <2>9. ASSUME NEW d \in Batch
        PROVE  /\ batch'[d].handler <= registered'
               /\ Active(d)' \/ Idle(d)'
               /\ \A t \in batch'[d].rest \union batch'[d].call : batch'[d].wakes[t] # 0
    <3>1. CASE d = b
      BY <1>4, <2>1, <2>2, <2>3, <2>4, <2>5, <3>1 DEF Active
    <3>2. CASE d # b
      BY <1>1, <2>1, <2>2, <3>2 DEF Guarded, Idle, Active
    <3>3. QED
      BY <3>1, <3>2
  <2>10. Guarded'
    BY <2>1, <2>9 DEF Guarded
  <2>11. QED
    BY <2>6, <2>8, <2>10
<1>11. ASSUME NEW b \in Batch, NEW c \in SUBSET Target, CallReturns(b, c) \/ CallBusy(b, c)
       PROVE  NoForgottenWake' /\ RunsOneByOne' /\ Guarded'
  <2>1. Active(b) /\ registered' = registered
    BY <1>11 DEF CallReturns, CallBusy
  <2>2. \E timers \in SUBSET Kind : GoOn(b, c, timers)
    <3>1. {timer} \in SUBSET Kind /\ After(timer, "retry") \in SUBSET Kind
      BY <1>4, TimerSet
    <3>2. GoOn(b, c, {timer}) \/ GoOn(b, c, After(timer, "retry"))
      BY <1>11 DEF CallReturns, CallBusy
    <3>3. QED
      BY <3>1, <3>2
  <2>3. QED
    BY <1>1, <2>1, <2>2, BatchGoesOn
<1>12. ASSUME NEW b \in Batch, CallThrows(b)
       PROVE  NoForgottenWake' /\ RunsOneByOne' /\ Guarded'
  <2>1. Active(b) /\ registered' = registered /\ EndBatch(b, After(timer, "retry"))
    BY <1>12 DEF CallThrows
  <2>2. After(timer, "retry") \in SUBSET Kind
    BY <1>4, TimerSet
  <2>3. QED
    BY <1>1, <2>1, <2>2, BatchEnds
<1>13. ASSUME UNCHANGED wakeVars PROVE NoForgottenWake' /\ RunsOneByOne' /\ Guarded'
  BY <1>1, <1>5, <1>13 DEF wakeVars, NoForgottenWake, Active
<1>14. NoForgottenWake' /\ RunsOneByOne' /\ Guarded'
  BY <1>6, <1>7, <1>8, <1>9, <1>10, <1>11, <1>12, <1>13 DEF WakeNext
<1>15. QED
  BY <1>2, <1>14 DEF WakeInv

----------------------------------------------------------------------------
(* What is owed to a target. *)
Handled(t) == \E b \in Batch, c \in SUBSET Target : t \in batch[b].call /\ CallReturns(b, c)

\* What was pending stays pending, at its priority or a higher one.
LEMMA MergedKeeps ==
    \A p, more \in Wakes, t \in Target :
        Merged(p, more)[t] >= p[t] /\ Merged(p, more)[t] >= more[t]
  BY DEF Merged, Wakes

\* The batches a step leaves alone owe what they owed.
LEMMA OwedElsewhere ==
    ASSUME WakeTypeOK, WakeTypeOK', NEW t \in Target, NEW priority \in 1..TopPriority,
           Owed(t, priority), NEW b \in Batch,
           \A d \in Batch : d # b => batch'[d] = batch[d],
           pending'[t] >= pending[t],
           b \in At(t) /\ batch[b].wakes[t] >= priority => Owed(t, priority)'
    PROVE  Owed(t, priority)'
<1>1. pending[t] \in Nat /\ pending'[t] \in Nat
  BY DEF WakeTypeOK, Wakes
<1>2. CASE pending[t] >= priority
  BY <1>1, <1>2 DEF Owed
<1>3. CASE \E d \in At(t) : batch[d].wakes[t] >= priority
  BY <1>3 DEF Owed, At
<1>4. QED
  BY <1>2, <1>3 DEF Owed

\* A call that ends without an exception drops the wake it was at and no other.
LEMMA OwedGoesOn ==
    ASSUME WakeTypeOK, WakeTypeOK', NEW t \in Target, NEW priority \in 1..TopPriority,
           Owed(t, priority), NEW b \in Batch, NEW c, NEW timers \in SUBSET Kind,
           GoOn(b, c, timers), pending'[t] >= pending[t],
           t \in batch[b].call => pending'[t] >= batch[b].wakes[t]
    PROVE  Owed(t, priority)'
<1>1. batch \in [Batch -> BatchOf] /\ pending' \in Wakes
  BY DEF WakeTypeOK
<1>2. c \subseteq batch[b].rest /\ (c = {} => batch[b].rest = {})
  BY GoOnSteps
<1>3. \A d \in Batch : d # b => batch'[d] = batch[d]
  <2>1. CASE c = {}
    <3>1. EndBatch(b, timers)
      BY <2>1, GoOnSteps
    <3>2. batch' = [batch EXCEPT ![b] = NoBatch]
      BY <3>1, EndBatchSteps
    <3>3. QED
      BY <1>1, <3>2
  <2>2. CASE c # {}
    <3>1. batch' = [batch EXCEPT ![b].rest = @ \ c, ![b].call = c]
      BY <2>2, GoOnSteps
    <3>2. QED
      BY <1>1, <3>1
  <2>3. QED
    BY <2>1, <2>2
<1>4. ASSUME b \in At(t), batch[b].wakes[t] >= priority PROVE Owed(t, priority)'
  <2>1. CASE t \in batch[b].call
    <3>1. batch[b].wakes[t] \in Nat /\ pending'[t] \in Nat
      BY <1>1 DEF BatchOf, Wakes
    <3>2. pending'[t] >= priority
      BY <1>4, <2>1, <3>1
    <3>3. QED
      BY <3>2 DEF Owed
  <2>2. CASE t \in batch[b].rest
    <3>1. c # {}
      BY <1>2, <2>2
    <3>2. batch' = [batch EXCEPT ![b].rest = @ \ c, ![b].call = c]
      BY <3>1, GoOnSteps
    <3>3. batch'[b].wakes = batch[b].wakes /\ t \in batch'[b].rest \union batch'[b].call
      BY <1>1, <2>2, <3>2 DEF BatchOf
    <3>4. QED
      BY <1>4, <3>3 DEF Owed, At
  <2>3. QED
    BY <1>4, <2>1, <2>2 DEF At
<1>5. QED
  BY <1>3, <1>4, OwedElsewhere

LEMMA OwedStep ==
    ASSUME WakeInv, WakeInv', WakeNext, NEW t \in Target, NEW priority \in 1..TopPriority,
           Owed(t, priority), ~Handled(t)
    PROVE  Owed(t, priority)'
<1>1. WakeTypeOK /\ WakeTypeOK' /\ Guarded
  BY DEF WakeInv
<1>2. pending \in Wakes /\ pending' \in Wakes /\ timer \in Kind /\ batch \in [Batch -> BatchOf]
  BY <1>1 DEF WakeTypeOK, Kind
<1>3. pending[t] \in Nat /\ pending'[t] \in Nat
  BY <1>2 DEF Wakes
<1>4. ASSUME pending'[t] >= pending[t], UNCHANGED batch PROVE Owed(t, priority)'
  BY <1>3, <1>4 DEF Owed, At
<1>5. CASE UNCHANGED <<pending, batch>>
  BY <1>5 DEF Owed, At
<1>6. ASSUME NEW u \in Target, NEW p \in 1..TopPriority, RequestWake(u, p)
      PROVE  Owed(t, priority)'
  <2>1. Wake(u, p) \in Wakes
    BY WakesType
  <2>2. pending'[t] >= pending[t]
    BY <1>2, <1>6, <2>1, MergedKeeps DEF RequestWake
  <2>3. QED
    BY <1>4, <1>6, <2>2 DEF RequestWake
<1>7. CASE SetHandler \/ (\E h \in Handler : Dispose(h)) \/ FireIdle \/ FireWhileRunning
  BY <1>5, <1>7 DEF SetHandler, Dispose, FireIdle, FireWhileRunning
<1>8. ASSUME NEW b \in Batch, NEW c \in SUBSET Target, FireBatch(b, c)
      PROVE  Owed(t, priority)'
  <2> DEFINE wakes == {u \in Target : pending[u] # 0}
             new == [handler |-> handler, wakes |-> pending, rest |-> wakes \ c, call |-> c]
  <2>1. batch' = [batch EXCEPT ![b] = new] /\ ~Active(b)
    BY <1>8 DEF FireBatch
  <2>2. batch'[b] = new /\ \A d \in Batch : d # b => batch'[d] = batch[d]
    BY <1>2, <2>1
  <2>3. new.wakes = pending /\ wakes \subseteq new.rest \union new.call
    OBVIOUS
  <2> HIDE DEF new
  <2>4. CASE pending[t] >= priority
    <3>1. t \in wakes
      BY <1>3, <2>4
    <3>2. b \in At(t)' /\ batch'[b].wakes[t] >= priority
      BY <2>2, <2>3, <2>4, <3>1 DEF At
    <3>3. QED
      BY <3>2 DEF Owed
  <2>5. CASE \E d \in At(t) : batch[d].wakes[t] >= priority
    <3>1. PICK d \in At(t) : batch[d].wakes[t] >= priority
      BY <2>5
    <3>2. d # b /\ d \in Batch
      BY <1>1, <2>1, <3>1 DEF At, Guarded, Idle
    <3>3. d \in At(t)' /\ batch'[d].wakes[t] >= priority
      BY <2>2, <3>1, <3>2 DEF At
    <3>4. QED
      BY <3>3 DEF Owed
  <2>6. QED
    BY <2>4, <2>5 DEF Owed
<1>9. ASSUME NEW b \in Batch, NEW c \in SUBSET Target, CallReturns(b, c)
      PROVE  Owed(t, priority)'
  <2>1. t \notin batch[b].call
    BY <1>9 DEF Handled
  <2>2. {timer} \in SUBSET Kind /\ GoOn(b, c, {timer}) /\ pending'[t] >= pending[t]
    BY <1>2, <1>3, <1>9 DEF CallReturns
  <2>3. QED
    BY <1>1, <2>1, <2>2, OwedGoesOn
<1>10. ASSUME NEW b \in Batch, NEW c \in SUBSET Target, CallBusy(b, c)
       PROVE  Owed(t, priority)'
  <2>1. After(timer, "retry") \in SUBSET Kind /\ GoOn(b, c, After(timer, "retry"))
    BY <1>2, <1>10, TimerSet DEF CallBusy
  <2>2. batch[b].wakes \in Wakes
    BY <1>1, BatchType
  <2>3. pending'[t] = IF t \in batch[b].call THEN Merged(pending, batch[b].wakes)[t] ELSE pending[t]
    BY <1>10 DEF CallBusy
  <2>4. pending'[t] >= pending[t] /\ (t \in batch[b].call => pending'[t] >= batch[b].wakes[t])
    BY <1>2, <1>3, <2>2, <2>3, MergedKeeps
  <2>5. QED
    BY <1>1, <2>1, <2>4, OwedGoesOn
<1>11. ASSUME NEW b \in Batch, CallThrows(b) PROVE Owed(t, priority)'
  <2>1. After(timer, "retry") \in SUBSET Kind /\ EndBatch(b, After(timer, "retry"))
    BY <1>2, <1>11, TimerSet DEF CallThrows
  <2>2. batch' = [batch EXCEPT ![b] = NoBatch]
    BY <1>1, <2>1, EndBatchSteps
  <2>3. \A d \in Batch : d # b => batch'[d] = batch[d]
    BY <1>2, <2>2
  <2>4. batch[b].wakes \in Wakes
    BY <1>1, BatchType
  <2>5. pending'[t] >= pending[t] /\ pending'[t] >= batch[b].wakes[t]
    BY <1>2, <1>11, <2>4, MergedKeeps DEF CallThrows
  <2>6. batch[b].wakes[t] >= priority => Owed(t, priority)'
    <3>1. batch[b].wakes[t] \in Nat
      BY <2>4 DEF Wakes
    <3>2. QED
      BY <1>3, <2>5, <3>1 DEF Owed
  <2>7. QED
    BY <1>1, <2>3, <2>5, <2>6, OwedElsewhere
<1>12. QED
  BY <1>6, <1>7, <1>8, <1>9, <1>10, <1>11 DEF WakeNext

----------------------------------------------------------------------------
(* The runners on the queue.                                                          *)

\* Every step of the runners is a step of the queue or leaves it alone.
LEMMA RunnersWake == ASSUME [Next]_vars PROVE [WakeNext]_wakeVars
<1>1. Interval \in 1..TopPriority /\ All \in Target
  BY DEF Interval
<1>2. ASSUME NEW agents \in SUBSET Agent, StartRunner(agents) PROVE WakeNext
  BY <1>2 DEF StartRunner, WakeNext
<1>3. ASSUME NEW h \in Handler, StopRunner(h) PROVE WakeNext
  BY <1>3 DEF StopRunner, WakeNext
<1>4. ASSUME NEW h \in Handler, IntervalFires(h) PROVE WakeNext
  BY <1>1, <1>4 DEF IntervalFires, WakeNext
<1>5. ASSUME NEW t \in Target, NEW priority \in 1..TopPriority, Request(t, priority)
      PROVE  WakeNext
  BY <1>5 DEF Request, WakeNext
<1>6. ASSUME FireNothing PROVE WakeNext
  BY <1>6 DEF FireNothing, WakeNext
<1>7. ASSUME NEW b \in Batch, NEW c \in SUBSET Target, Fire(b, c) \/ Resume(b, c)
      PROVE  WakeNext
  <2>1. FireBatch(b, c) \/ CallReturns(b, c) \/ CallBusy(b, c)
    BY <1>7 DEF Fire, Resume
  <2>2. QED
    BY <2>1 DEF WakeNext
<1>8. ASSUME NEW b \in Batch, Throws(b) PROVE WakeNext
  BY <1>8 DEF Throws, WakeNext
<1>9. ASSUME \/ \E h \in Handler : \/ \E a \in Agent : BecomesDue(h, a)
                                   \/ \E agents, due \in SUBSET Agent : UpdateConfig(h, agents, due)
             \/ \E enabled \in BOOLEAN : SetEnabled(enabled)
             \/ \E b \in Batch : RunEnds(b) \/ RunDisabled(b) \/ RunBusy(b)
      PROVE  UNCHANGED wakeVars
  BY <1>9 DEF BecomesDue, UpdateConfig, SetEnabled, RunEnds, RunDisabled, RunBusy
<1>10. CASE UNCHANGED vars
  BY <1>10 DEF vars
<1>11. QED
  BY <1>2, <1>3, <1>4, <1>5, <1>6, <1>7, <1>8, <1>9, <1>10 DEF Next

\* The runners implement the wake-up queue: whatever they and their callers do, the queue
\* sees its own operations only (heartbeat-runner.ts:1139-1180, heartbeat-wake.ts:196-247).
THEOREM RunnersImplementWake == Spec => WakeSpec
<1>1. Init => WakeInit
  BY DEF Init
<1>2. [Next]_vars => [WakeNext]_wakeVars
  BY RunnersWake
<1>3. QED
  BY <1>1, <1>2, PTL DEF Spec, WakeSpec

\* The inductive invariant of the queue holds of it alone (heartbeat-wake.ts).
THEOREM WakeInvariant == WakeSpec => []WakeInv
<1>1. WakeInit => WakeInv
  BY WakeInvInit
<1>2. WakeInv /\ [WakeNext]_wakeVars => WakeInv'
  BY WakeInvStep
<1>3. QED
  BY <1>1, <1>2, PTL DEF WakeSpec

\* A pending wake is never forgotten, through preempted timers, retries, failures and new
\* handlers (heartbeat-wake.ts:109-183, 196-215).
THEOREM WakesNotForgotten == Spec => []NoForgottenWake
<1>1. WakeInv => NoForgottenWake
  BY DEF WakeInv
<1>2. QED
  BY <1>1, RunnersImplementWake, WakeInvariant, PTL

\* Two batches of one handler overlap only after the end of an older handler's batch took
\* the running flag of a newer one's away (heartbeat-wake.ts:139, 177, 206-211).
THEOREM BatchesOneByOne == Spec => []RunsOneByOne
<1>1. WakeInv => RunsOneByOne
  BY DEF WakeInv
<1>2. QED
  BY <1>1, RunnersImplementWake, WakeInvariant, PTL

\* What is owed to a target is kept, at its priority, until the handler has dealt with a
\* wake of that target (heartbeat-wake.ts:95-106, 145-175).
THEOREM OwedIsKept == Spec => OwedUntilHandled
<1> DEFINE Kept == \A t \in Target, priority \in 1..TopPriority :
                      Owed(t, priority) /\ ~Owed(t, priority)' => Handled(t)
<1>1. WakeInv /\ WakeInv' /\ [WakeNext]_wakeVars => [Kept]_wakeVars
  <2> SUFFICES ASSUME WakeInv, WakeInv', [WakeNext]_wakeVars PROVE [Kept]_wakeVars
    OBVIOUS
  <2>1. CASE WakeNext
    BY <2>1, OwedStep
  <2>2. CASE UNCHANGED wakeVars
    BY <2>2
  <2>3. QED
    BY <2>1, <2>2
<1>2. [Kept]_wakeVars
        <=> [\A t \in Target, priority \in 1..TopPriority :
               Owed(t, priority) /\ ~Owed(t, priority)'
                 => \E b \in Batch, c \in SUBSET Target :
                       t \in batch[b].call /\ CallReturns(b, c)]_wakeVars
  BY DEF Handled
<1>3. Spec => [][Kept]_wakeVars
  BY <1>1, RunnersImplementWake, WakeInvariant, PTL DEF WakeSpec
<1>4. QED
  BY <1>2, <1>3, PTL DEF OwedUntilHandled

----------------------------------------------------------------------------
(* The interval timer of a runner that needs none, or has it set, is settled.         *)
SettledState(state) == state.stopped \/ state.agents = {} \/ state.armed
Settled(h) == SettledState(runner[h])

\* Runner h may move on, its agents and its being stopped do not change.
RunnerMoves(h) ==
    /\ runner' \in [Handler -> RunnerState]
    /\ \A k \in Handler : runner'[k].due \subseteq runner'[k].agents
    /\ \A k \in Handler : runner'[k].stopped = runner[k].stopped
    /\ \A k \in Handler : k # h => runner'[k] = runner[k]
    /\ Settled(h) => Settled(h)'

LEMMA RunnerMoved ==
    ASSUME TypeOK, NEW h \in Handler, NEW state \in RunnerState,
           state.due \subseteq state.agents, state.stopped = runner[h].stopped,
           Settled(h) => SettledState(state),
           runner' = [runner EXCEPT ![h] = state]
    PROVE  RunnerMoves(h) /\ runner'[h] = state
<1>1. runner \in [Handler -> RunnerState]
      /\ \A k \in Handler : runner[k].due \subseteq runner[k].agents
  BY DEF TypeOK
<1>2. runner'[h] = state /\ \A k \in Handler : k # h => runner'[k] = runner[k]
  BY <1>1
<1>3. runner' \in [Handler -> RunnerState]
  BY <1>1
<1>4. ASSUME NEW k \in Handler
      PROVE  runner'[k].due \subseteq runner'[k].agents /\ runner'[k].stopped = runner[k].stopped
  BY <1>1, <1>2
<1>5. Settled(h) => Settled(h)'
  BY <1>2 DEF Settled
<1>6. QED
  BY <1>2, <1>3, <1>4, <1>5 DEF RunnerMoves

\* scheduleNext settles a runner and changes nothing else of it.
LEMMA Scheduled ==
    ASSUME NEW state \in RunnerState
    PROVE  /\ ScheduleNext(state) \in RunnerState /\ SettledState(ScheduleNext(state))
           /\ ScheduleNext(state).stopped = state.stopped
           /\ ScheduleNext(state).agents = state.agents
           /\ ScheduleNext(state).due = state.due
<1>1. CASE state.stopped
  BY <1>1 DEF ScheduleNext, SettledState
<1>2. CASE ~state.stopped
  <2>1. ScheduleNext(state) = [state EXCEPT !.armed = state.agents # {}]
    BY <1>2 DEF ScheduleNext
  <2>2. PICK armed \in BOOLEAN : armed <=> state.agents # {}
    OBVIOUS
  <2>3. ScheduleNext(state) = [state EXCEPT !.armed = armed]
    BY <2>1, <2>2
  <2>4. ScheduleNext(state) = [stopped |-> state.stopped, agents |-> state.agents,
                               due |-> state.due, armed |-> armed]
    BY <2>3 DEF RunnerState
  <2>5. ScheduleNext(state) \in RunnerState
    BY <2>4 DEF RunnerState
  <2>6. ScheduleNext(state).armed = armed
    BY <2>4
  <2>7. SettledState(ScheduleNext(state))
    BY <2>2, <2>4, <2>6 DEF SettledState
  <2>8. QED
    BY <2>4, <2>5, <2>7
<1>3. QED
  BY <1>1, <1>2

\* How the answers and the progress of calls are typed.
LEMMA CallsTyped ==
    /\ \A answer \in {"none", "done", "busy"} :
          Answered(answer) \in CallState /\ Answered(answer).at = {}
    /\ \A at, todo \in SUBSET Agent, interval, fresh \in BOOLEAN :
          /\ Progress(at, todo, interval, fresh, "none") \in CallState
          /\ Progress(at, todo, interval, fresh, "none").at = at
          /\ Progress(at, todo, interval, fresh, "none").answer = "none"
  BY DEF Answered, Progress, CallState

\* The call of batch b, known by the batch it is for, moves on.
CallMoves(b) ==
    /\ call' \in [Batch -> CallState]
    /\ \A d \in Batch : d # b => call'[d].at = call[d].at /\ call'[d].answer = call[d].answer
    /\ call'[b].at # {} => call'[b].answer = "none"

LEMMA CallMoved ==
    ASSUME NEW b \in Batch, NEW calls \in [Batch -> CallState], NEW state \in CallState,
           \A d \in Batch : calls[d].at = call[d].at /\ calls[d].answer = call[d].answer,
           state.at # {} => state.answer = "none",
           call' = [calls EXCEPT ![b] = state]
    PROVE  CallMoves(b) /\ call'[b] = state
  BY DEF CallMoves

LEMMA CallAnswered ==
    ASSUME NEW b \in Batch, NEW calls \in [Batch -> CallState],
           NEW answer \in {"none", "done", "busy"},
           \A d \in Batch : calls[d].at = call[d].at /\ calls[d].answer = call[d].answer,
           call' = [calls EXCEPT ![b] = Answered(answer)]
    PROVE  CallMoves(b) /\ call'[b].at = {}
<1>1. PICK state \in CallState : state = Answered(answer) /\ state.at = {}
  BY CallsTyped
<1>2. call' = [calls EXCEPT ![b] = state]
  BY <1>1
<1>3. QED
  BY <1>1, <1>2, CallMoved

\* The handler goes on with an agent, or has set the timer of its runner.
LEMMA ProceedSteps ==
    ASSUME TypeOK, NEW b \in Batch, NEW h \in Handler, NEW todo \in SUBSET Agent,
           NEW interval \in BOOLEAN, NEW fresh \in BOOLEAN,
           NEW calls \in [Batch -> CallState],
           \A d \in Batch : calls[d].at = call[d].at /\ calls[d].answer = call[d].answer,
           NEW current \in RunnerState, current.due \subseteq current.agents,
           current.stopped = runner[h].stopped, Settled(h) => SettledState(current),
           Proceed(b, h, todo, interval, fresh, calls, current)
    PROVE  RunnerMoves(h) /\ CallMoves(b) /\ (call'[b].at # {} \/ Settled(h)')
<1>1. CASE todo # {}
  <2>1. PICK a \in todo :
          call' = [calls EXCEPT ![b] = Progress({a}, todo \ {a}, interval, fresh, "none")]
    BY <1>1 DEF Proceed
  <2>2. runner' = [runner EXCEPT ![h] = current]
    BY <1>1 DEF Proceed
  <2> DEFINE state == Progress({a}, todo \ {a}, interval, fresh, "none")
  <2>3. {a} \in SUBSET Agent /\ todo \ {a} \in SUBSET Agent
    OBVIOUS
  <2>4. state \in CallState /\ state.at = {a} /\ state.answer = "none"
    BY <2>3, CallsTyped
  <2> HIDE DEF state
  <2>5. CallMoves(b) /\ call'[b] = state
    BY <2>1, <2>4, CallMoved DEF state
  <2>6. RunnerMoves(h)
    BY <2>2, RunnerMoved
  <2>7. QED
    BY <2>4, <2>5, <2>6
<1>2. CASE todo = {}
  <2>1. call' = [calls EXCEPT ![b] = Answered("done")]
    BY <1>2 DEF Proceed
  <2>2. runner' = [runner EXCEPT ![h] = ScheduleNext(current)]
    BY <1>2 DEF Proceed
  <2>3. CallMoves(b)
    BY <2>1, CallAnswered
  <2> DEFINE state == ScheduleNext(current)
  <2>4. /\ state \in RunnerState /\ SettledState(state) /\ state.due \subseteq state.agents
        /\ state.stopped = runner[h].stopped /\ runner' = [runner EXCEPT ![h] = state]
    BY <2>2, Scheduled
  <2> HIDE DEF state
  <2>5. RunnerMoves(h) /\ Settled(h)'
    BY <2>4, RunnerMoved DEF Settled
  <2>6. QED
    BY <2>3, <2>5
<1>3. QED
  BY <1>1, <1>2

\* The handler is called for the next wake of a batch, or the batch is at its end.
LEMMA StartCallSteps ==
    ASSUME TypeOK, NEW b \in Batch, NEW h \in Handler, NEW c \in SUBSET Target, NEW wakes,
           StartCall(b, h, c, wakes)
    PROVE  /\ RunnerMoves(h) /\ CallMoves(b) /\ (c = {} => call'[b].at = {})
           /\ c # {} /\ on => call'[b].at # {} \/ Settled(h)'
<1>1. /\ runner \in [Handler -> RunnerState] /\ call \in [Batch -> CallState]
      /\ \A k \in Handler : runner[k].due \subseteq runner[k].agents
  BY DEF TypeOK
<1>2. UNCHANGED runner => RunnerMoves(h)
  BY <1>1 DEF RunnerMoves, Settled
<1>3. CASE c = {}
  <2>1. call' = [call EXCEPT ![b] = Answered("none")] /\ UNCHANGED runner
    BY <1>3 DEF StartCall, NoCall
  <2>2. CallMoves(b) /\ call'[b].at = {}
    BY <1>1, <2>1, CallAnswered
  <2>3. QED
    BY <1>2, <1>3, <2>1, <2>2
<1>4. CASE c # {}
  <2> DEFINE interval(t) == wakes[t] = Interval
  <2>1. PICK t \in c :
          IF Declines(h)
            THEN call' = [call EXCEPT ![b] = Answered("done")] /\ UNCHANGED runner
            ELSE Proceed(b, h, Called(h, t, interval(t)), interval(t), TRUE, call, runner[h])
    BY <1>4 DEF StartCall
  <2>2. CASE Declines(h)
    <3>1. call' = [call EXCEPT ![b] = Answered("done")] /\ UNCHANGED runner
      BY <2>1, <2>2
    <3>2. CallMoves(b)
      BY <1>1, <3>1, CallAnswered
    <3>3. on => Settled(h)'
      BY <2>2, <3>1 DEF Declines, Settled, SettledState
    <3>4. QED
      BY <1>2, <1>4, <3>1, <3>2, <3>3
  <2>3. CASE ~Declines(h)
    <3>1. Proceed(b, h, Called(h, t, interval(t)), interval(t), TRUE, call, runner[h])
      BY <2>1, <2>3
    <3>2. interval(t) \in BOOLEAN
      OBVIOUS
    <3> HIDE DEF interval
    <3>3. runner[h] \in RunnerState
      BY <1>1
    <3>4. runner[h].agents \in SUBSET Agent /\ runner[h].due \in SUBSET Agent
      BY <3>3 DEF RunnerState
    <3>5. Called(h, t, interval(t)) \in SUBSET Agent
      BY <3>2, <3>4 DEF Called
    <3>6. RunnerMoves(h) /\ CallMoves(b) /\ (call'[b].at # {} \/ Settled(h)')
      BY <1>1, <3>1, <3>2, <3>3, <3>5, ProceedSteps DEF Settled
    <3>7. QED
      BY <1>4, <3>6
  <2>4. QED
    BY <2>2, <2>3
<1>5. QED
  BY <1>3, <1>4

----------------------------------------------------------------------------
\* A wake for all waits in the batch, or is at one of the agents.
Carries(b) ==
    /\ batch[b].handler = handler
    /\ All \in batch[b].rest \/ (All \in batch[b].call /\ call[b].at # {})

\* The registered runner is not stopped; a call that awaits an agent is one of a batch;
\* and the runner is settled, or a wake for all will settle it.
Alive ==
    /\ ~wasOff => on
    /\ handler # 0 => ~runner[handler].stopped
    /\ \A b \in Batch : call[b].at # {} => Active(b) /\ call[b].answer = "none"
    /\ handler # 0 /\ ~wasOff =>
          Settled(handler) \/ pending[All] # 0 \/ \E b \in Batch : Carries(b)

IInv == TypeOK /\ WakeInv /\ Alive

LEMMA IInvInit == Init => IInv
<1> SUFFICES ASSUME Init PROVE IInv
  OBVIOUS
<1>1. WakeInv
  BY WakeInvInit DEF Init
<1>2. /\ runner \in [Handler -> RunnerState]
      /\ \A h \in Handler : runner[h].due \subseteq runner[h].agents
  BY DEF Init, Stopped, RunnerState
<1>3. call \in [Batch -> CallState] /\ \A b \in Batch : call[b].at = {}
  BY CallsTyped DEF Init, NoCall
<1>4. on = TRUE /\ wasOff = FALSE /\ events = 0 /\ handler = 0
  BY DEF Init, WakeInit
<1>5. TypeOK
  <2>1. on \in BOOLEAN /\ wasOff \in BOOLEAN
    BY <1>4
  <2>2. events \in 0..MaxEvents
    BY <1>4
  <2>3. QED
    BY <1>1, <1>2, <1>3, <2>1, <2>2 DEF TypeOK, WakeInv
<1>6. Alive
  BY <1>3, <1>4 DEF Alive
<1>7. QED
  BY <1>1, <1>5, <1>6 DEF IInv

\* What is pending for all stays pending while batches are not taken from it.
LEMMA StillPending ==
    ASSUME WakeTypeOK, WakeTypeOK', pending[All] # 0, pending'[All] >= pending[All]
    PROVE  pending'[All] # 0
<1>1. All \in Target /\ pending[All] \in Nat /\ pending'[All] \in Nat
  BY DEF WakeTypeOK, Wakes
<1>2. QED
  BY <1>1

LEMMA Facts ==
    ASSUME IInv
    PROVE  /\ WakeTypeOK /\ Guarded /\ TypeOK /\ Alive
           /\ All \in Target /\ handler \in 0..MaxHandlers
           /\ \A b \in Batch : Active(b) => batch[b].handler \in Handler
           /\ batch \in [Batch -> BatchOf] /\ pending \in Wakes /\ timer \in Kind
           /\ runner \in [Handler -> RunnerState] /\ call \in [Batch -> CallState]
           /\ \A h \in Handler : runner[h] \in RunnerState
           /\ \A h \in Handler : runner[h].due \subseteq runner[h].agents
<1>1. WakeTypeOK /\ Guarded /\ TypeOK /\ Alive
  BY DEF IInv, WakeInv
<1>2. /\ handler \in 0..MaxHandlers /\ batch \in [Batch -> BatchOf]
      /\ pending \in Wakes /\ timer \in Kind
  BY <1>1 DEF WakeTypeOK, Kind
<1>3. \A b \in Batch : Active(b) => batch[b].handler \in Handler
  BY <1>2 DEF Active, BatchOf
<1>4. runner \in [Handler -> RunnerState] /\ call \in [Batch -> CallState]
  BY <1>1 DEF TypeOK
<1>5. QED
  BY <1>1, <1>2, <1>3, <1>4 DEF TypeOK

\* A step of one runner h (of the registered one or another), and of the call of a batch,
\* that leaves the queue alone and the batch with its agent or the runner settled.
LEMMA RunSteps ==
    ASSUME IInv, WakeInv', NEW b \in Batch, Active(b), UNCHANGED wakeVars,
           UNCHANGED <<on, events, wasOff>>,
           RunnerMoves(batch[b].handler), CallMoves(b),
           call'[b].at # {} \/ Settled(batch[b].handler)'
    PROVE  IInv'
<1> DEFINE h == batch[b].handler
<1>1. h \in Handler /\ WakeTypeOK /\ TypeOK /\ Alive /\ handler \in 0..MaxHandlers
  BY Facts
<1>2. TypeOK'
  BY <1>1 DEF TypeOK, WakeInv, RunnerMoves, CallMoves
<1>3. \A d \in Batch : call'[d].at # {} => Active(d)' /\ call'[d].answer = "none"
  BY <1>1 DEF Alive, CallMoves, wakeVars, Active
<1>4. handler' # 0 => ~runner'[handler'].stopped
  BY <1>1 DEF Alive, RunnerMoves, wakeVars
<1>5. ASSUME handler # 0, ~wasOff
      PROVE  Settled(handler)' \/ pending'[All] # 0 \/ \E d \in Batch : Carries(d)'
  <2>1. handler \in Handler
    BY <1>1, <1>5
  <2>2. CASE Settled(handler)
    BY <2>1, <2>2 DEF RunnerMoves, Settled, wakeVars
  <2>3. CASE pending[All] # 0
    BY <2>3 DEF wakeVars
  <2>4. CASE \E d \in Batch : Carries(d)
    <3>1. PICK d \in Batch : Carries(d)
      BY <2>4
    <3>2. CASE d = b
      BY <3>1, <3>2 DEF Carries, wakeVars, Settled
    <3>3. CASE d # b
      BY <3>1, <3>3 DEF Carries, wakeVars, CallMoves
    <3>4. QED
      BY <3>2, <3>3
  <2>5. QED
    BY <1>1, <1>5, <2>2, <2>3, <2>4 DEF Alive
<1>6. Alive'
  <2>1. UNCHANGED <<handler, pending, on, wasOff>>
    BY DEF wakeVars
  <2>2. QED
    BY <1>1, <1>3, <1>4, <1>5, <2>1 DEF Alive
<1>7. QED
  BY <1>2, <1>6 DEF IInv

\* The handler h is called with the next wake of batch b, or the batch ends: a wake for
\* all that was pending or in the batch is pending or in the batch.
LEMMA CallSteps ==
    ASSUME IInv, WakeInv', NEW b \in Batch, NEW h \in Handler, NEW c \in SUBSET Target, NEW wakes,
           StartCall(b, h, c, wakes), Rest, handler' = handler,
           \A d \in Batch : d # b => batch'[d] = batch[d],
           batch'[b].call = c, batch'[b].handler = (IF c = {} THEN 0 ELSE h),
           pending[All] # 0 \/ Carries(b) =>
               \/ pending'[All] # 0
               \/ batch'[b].handler = handler /\ All \in batch'[b].rest \union batch'[b].call
    PROVE  IInv'
<1>1. /\ WakeTypeOK /\ TypeOK /\ Alive /\ handler \in 0..MaxHandlers
      /\ \A k \in Handler : runner[k] \in RunnerState
  BY Facts
<1>2. /\ RunnerMoves(h) /\ CallMoves(b) /\ (c = {} => call'[b].at = {})
      /\ c # {} /\ on => call'[b].at # {} \/ Settled(h)'
  BY <1>1, StartCallSteps
<1>3. TypeOK'
  BY <1>1, <1>2 DEF TypeOK, WakeInv, RunnerMoves, CallMoves, Rest
<1>4. ASSUME NEW d \in Batch, call'[d].at # {}
      PROVE  Active(d)' /\ call'[d].answer = "none"
  <2>1. CASE d = b
    <3>1. batch'[b].handler = h
      BY <1>2, <1>4, <2>1
    <3>2. QED
      BY <1>2, <1>4, <2>1, <3>1 DEF CallMoves, Active
  <2>2. CASE d # b
    BY <1>1, <1>2, <1>4, <2>2 DEF CallMoves, Alive, Active
  <2>3. QED
    BY <2>1, <2>2
<1>5. handler' # 0 => ~runner'[handler'].stopped
  BY <1>1, <1>2 DEF Alive, RunnerMoves
<1>6. ASSUME handler # 0, ~wasOff
      PROVE  Settled(handler)' \/ pending'[All] # 0 \/ \E d \in Batch : Carries(d)'
  <2>1. handler \in Handler /\ on
    BY <1>1, <1>6 DEF Alive
  <2>2. CASE Settled(handler)
    BY <1>2, <2>1, <2>2 DEF RunnerMoves, Settled
  <2>3. CASE pending[All] # 0 \/ Carries(b)
    <3>1. CASE pending'[All] # 0
      BY <3>1
    <3>2. CASE batch'[b].handler = handler /\ All \in batch'[b].rest
      BY <3>2 DEF Carries
    <3>3. CASE batch'[b].handler = handler /\ All \in batch'[b].call
      <4>1. c # {} /\ h = handler
        BY <3>3
      <4>2. CASE call'[b].at # {}
        BY <3>3, <4>2 DEF Carries
      <4>3. CASE Settled(h)'
        BY <4>1, <4>3
      <4>4. QED
        BY <1>2, <2>1, <4>1, <4>2, <4>3
    <3>4. QED
      BY <2>3, <3>1, <3>2, <3>3
  <2>4. ASSUME NEW d \in Batch, d # b, Carries(d) PROVE Carries(d)'
    BY <1>2, <2>4 DEF Carries, CallMoves
  <2>5. QED
    BY <1>1, <1>6, <2>2, <2>3, <2>4 DEF Alive
<1>7. Alive'
  BY <1>1, <1>4, <1>5, <1>6 DEF Alive, Rest
<1>8. QED
  BY <1>3, <1>7 DEF IInv

\* A step that leaves the calls and the batches alone.
LEMMA QueueSteps ==
    ASSUME IInv, WakeInv', UNCHANGED batch, call' \in [Batch -> CallState],
           \A b \in Batch : call'[b].at = call[b].at /\ call'[b].answer = call[b].answer,
           runner' \in [Handler -> RunnerState],
           \A h \in Handler : runner'[h].due \subseteq runner'[h].agents,
           on' \in BOOLEAN, wasOff' \in BOOLEAN, events' \in 0..MaxEvents,
           wasOff => wasOff', ~wasOff' => on',
           handler' # 0 => ~runner'[handler'].stopped,
           handler' # 0 =>
               \/ Settled(handler)'
               \/ pending'[All] # 0
               \/ handler' = handler /\ (pending[All] # 0 => pending'[All] # 0)
                  /\ (Settled(handler) => Settled(handler)')
    PROVE  IInv'
<1>1. WakeTypeOK /\ TypeOK /\ Alive
  BY Facts
<1>2. TypeOK'
  BY DEF TypeOK, WakeInv
<1>3. \A b \in Batch : call'[b].at # {} => Active(b)' /\ call'[b].answer = "none"
  BY <1>1 DEF Alive, Active
<1>4. handler' = handler => \A b \in Batch : Carries(b) => Carries(b)'
  BY DEF Carries
<1>5. Alive'
  BY <1>1, <1>3, <1>4 DEF Alive
<1>6. QED
  BY <1>2, <1>5 DEF IInv

----------------------------------------------------------------------------
(* One lemma per kind of step.                                                        *)

LEMMA StartRunnerKeeps ==
    ASSUME IInv, WakeInv', NEW agents \in SUBSET Agent, StartRunner(agents) PROVE IInv'
<1> DEFINE first == [stopped |-> FALSE, agents |-> agents, due |-> {}, armed |-> FALSE]
           new == ScheduleNext(first)
<1>1. TypeOK /\ runner \in [Handler -> RunnerState] /\ call \in [Batch -> CallState]
      /\ registered \in 0..MaxHandlers
      /\ \A h \in Handler : runner[h].due \subseteq runner[h].agents
  BY Facts DEF WakeTypeOK
<1>2. registered + 1 \in Handler /\ handler' = registered + 1 /\ batch' = batch
  BY <1>1 DEF StartRunner, SetHandler
<1>3. first \in RunnerState
  BY DEF RunnerState
<1>4. first.stopped = FALSE /\ first.agents = agents /\ first.due = {}
  OBVIOUS
<1> HIDE DEF first
<1>5. new \in RunnerState /\ SettledState(new) /\ ~new.stopped /\ new.due = {}
  BY <1>3, <1>4, Scheduled
<1>6. runner' = [runner EXCEPT ![handler'] = new]
  BY <1>2 DEF StartRunner, first
<1> HIDE DEF new
<1>7. runner' \in [Handler -> RunnerState] /\ runner'[handler'] = new
  BY <1>1, <1>2, <1>5, <1>6
<1>8. \A h \in Handler : runner'[h].due \subseteq runner'[h].agents
  BY <1>1, <1>2, <1>5, <1>6
<1>9. ~runner'[handler'].stopped /\ Settled(handler)'
  BY <1>5, <1>7 DEF Settled
<1>10. UNCHANGED <<on, call, events, wasOff>>
  BY DEF StartRunner
<1>11. on \in BOOLEAN /\ wasOff \in BOOLEAN /\ events \in 0..MaxEvents /\ (~wasOff => on)
  BY Facts DEF TypeOK, Alive
<1>12. QED
  BY <1>1, <1>2, <1>7, <1>8, <1>9, <1>10, <1>11, QueueSteps

LEMMA StopRunnerKeeps ==
    ASSUME IInv, WakeInv', NEW h \in Handler, StopRunner(h) PROVE IInv'
<1>1. runner \in [Handler -> RunnerState] /\ call \in [Batch -> CallState]
      /\ handler \in 0..MaxHandlers /\ Alive
      /\ \A k \in Handler : runner[k].due \subseteq runner[k].agents
  BY Facts
<1>2. handler' = (IF handler = h THEN 0 ELSE handler) /\ UNCHANGED <<batch, pending>>
  BY DEF StopRunner, Dispose
<1>3. UNCHANGED <<on, call, events, wasOff>> /\ runner' = [runner EXCEPT ![h] = Stopped]
  BY DEF StopRunner
<1>4. Stopped \in RunnerState /\ Stopped.due = {}
  BY DEF Stopped, RunnerState
<1>5. runner' \in [Handler -> RunnerState]
  BY <1>1, <1>3, <1>4
<1>6. \A k \in Handler : runner'[k].due \subseteq runner'[k].agents
  BY <1>1, <1>3, <1>4
<1>7. ASSUME handler' # 0
      PROVE  handler' = handler /\ runner'[handler] = runner[handler] /\ ~runner[handler].stopped
  BY <1>1, <1>2, <1>3, <1>7 DEF Alive
<1>8. handler' # 0 => (Settled(handler) => Settled(handler)')
  BY <1>2, <1>7 DEF Settled
<1>9. on \in BOOLEAN /\ wasOff \in BOOLEAN /\ events \in 0..MaxEvents /\ (~wasOff => on)
  BY Facts DEF TypeOK, Alive
<1>10. QED
  BY <1>1, <1>2, <1>3, <1>5, <1>6, <1>7, <1>8, <1>9, QueueSteps

\* What is asked for and what fires while the queue keeps its batches.
LEMMA PendingGrows ==
    ASSUME IInv, WakeInv', NEW t \in Target, NEW priority \in 1..TopPriority,
           RequestWake(t, priority)
    PROVE  (pending[All] # 0 => pending'[All] # 0) /\ pending'[t] # 0
<1>1. pending \in Wakes /\ WakeTypeOK /\ WakeTypeOK'
  BY Facts DEF WakeInv
<1>2. Wake(t, priority) \in Wakes
  BY WakesType
<1>3. Wake(t, priority)[t] = priority
  BY DEF Wake, Nothing
<1>4. pending'[All] >= pending[All] /\ pending'[t] >= priority
  BY <1>1, <1>2, <1>3, MergedKeeps DEF RequestWake
<1>5. pending'[t] \in Nat
  BY <1>1 DEF WakeTypeOK, Wakes
<1>6. pending'[t] # 0
  BY <1>4, <1>5
<1>7. QED
  BY <1>1, <1>4, <1>6, StillPending

LEMMA IntervalKeeps ==
    ASSUME IInv, WakeInv', NEW h \in Handler, IntervalFires(h) PROVE IInv'
<1>1. /\ runner \in [Handler -> RunnerState] /\ call \in [Batch -> CallState]
      /\ handler \in 0..MaxHandlers /\ Alive /\ All \in Target
      /\ \A k \in Handler : runner[k].due \subseteq runner[k].agents
  BY Facts
<1>2. /\ RequestWake(All, Interval) /\ runner' = [runner EXCEPT ![h].armed = FALSE]
      /\ UNCHANGED <<on, call, events, wasOff>>
  BY DEF IntervalFires
<1>3. pending'[All] # 0
  BY <1>1, <1>2, PendingGrows DEF Interval
<1>4. UNCHANGED <<batch, handler>>
  BY <1>2 DEF RequestWake
<1>5. runner' \in [Handler -> RunnerState]
  <2>1. [runner[h] EXCEPT !.armed = FALSE] \in RunnerState
    BY <1>1 DEF RunnerState
  <2>2. runner' = [runner EXCEPT ![h] = [runner[h] EXCEPT !.armed = FALSE]]
    BY <1>1, <1>2
  <2>3. QED
    BY <1>1, <2>1, <2>2
<1>6. \A k \in Handler : /\ runner'[k].due \subseteq runner'[k].agents
                         /\ runner'[k].stopped = runner[k].stopped
  BY <1>1, <1>2 DEF RunnerState
<1>7. handler' # 0 => ~runner'[handler'].stopped
  BY <1>1, <1>4, <1>6 DEF Alive
<1>8. on \in BOOLEAN /\ wasOff \in BOOLEAN /\ events \in 0..MaxEvents /\ (~wasOff => on)
  BY Facts DEF TypeOK, Alive
<1>9. QED
  BY <1>1, <1>2, <1>3, <1>4, <1>5, <1>6, <1>7, <1>8, QueueSteps

LEMMA RequestKeeps ==
    ASSUME IInv, WakeInv', NEW t \in Target, NEW priority \in 1..TopPriority, Request(t, priority)
    PROVE  IInv'
<1>1. /\ RequestWake(t, priority) /\ UNCHANGED <<on, runner, call, wasOff>>
      /\ events' = events + 1 /\ events < MaxEvents
  BY DEF Request, Event
<1>2. pending[All] # 0 => pending'[All] # 0
  BY <1>1, PendingGrows
<1>3. UNCHANGED <<batch, handler>>
  BY <1>1 DEF RequestWake
<1>4. /\ on \in BOOLEAN /\ wasOff \in BOOLEAN /\ events \in 0..MaxEvents /\ Alive
      /\ runner \in [Handler -> RunnerState] /\ call \in [Batch -> CallState]
      /\ \A k \in Handler : runner[k].due \subseteq runner[k].agents
  BY Facts DEF TypeOK
<1>5. events' \in 0..MaxEvents
  BY <1>1, <1>4
<1>6. Settled(handler) => Settled(handler)'
  BY <1>1, <1>3 DEF Settled
<1>7. QED
  BY <1>1, <1>2, <1>3, <1>4, <1>5, <1>6, QueueSteps DEF Alive

LEMMA SetEnabledKeeps ==
    ASSUME IInv, WakeInv', NEW enabled \in BOOLEAN, SetEnabled(enabled) PROVE IInv'
<1>1. /\ on' = enabled /\ events' = events + 1 /\ events < MaxEvents
      /\ UNCHANGED <<batch, handler, pending, runner, call>>
  BY DEF SetEnabled, Event, wakeVars
<1>2. wasOff' = (wasOff \/ ~enabled)
  BY DEF SetEnabled
<1>3. /\ events \in 0..MaxEvents /\ Alive
      /\ runner \in [Handler -> RunnerState] /\ call \in [Batch -> CallState]
      /\ \A k \in Handler : runner[k].due \subseteq runner[k].agents
  BY Facts DEF TypeOK
<1>4. events' \in 0..MaxEvents
  BY <1>1, <1>3
<1>5. on' \in BOOLEAN
  BY <1>1
<1>6. wasOff' \in BOOLEAN /\ (wasOff => wasOff')
  BY <1>2, Zenon
<1>7. ~wasOff' => on'
  BY <1>1, <1>2, Zenon
<1>8. Settled(handler) => Settled(handler)'
  BY <1>1 DEF Settled
<1>9. handler' # 0 => ~runner'[handler'].stopped
  BY <1>1, <1>3 DEF Alive
<1>10. QED
  BY <1>1, <1>3, <1>4, <1>5, <1>6, <1>7, <1>8, <1>9, QueueSteps

LEMMA BecomesDueKeeps ==
    ASSUME IInv, WakeInv', NEW h \in Handler, NEW a \in Agent, BecomesDue(h, a) PROVE IInv'
<1>1. /\ runner \in [Handler -> RunnerState] /\ call \in [Batch -> CallState]
      /\ handler \in 0..MaxHandlers /\ Alive
      /\ \A k \in Handler : runner[k].due \subseteq runner[k].agents
      /\ on \in BOOLEAN /\ wasOff \in BOOLEAN /\ events \in 0..MaxEvents
  BY Facts DEF TypeOK
<1>2. /\ a \in runner[h].agents /\ runner' = [runner EXCEPT ![h].due = @ \union {a}]
      /\ UNCHANGED <<batch, handler, pending, on, call, events, wasOff>>
  BY DEF BecomesDue, wakeVars
<1>3. runner' \in [Handler -> RunnerState]
  <2>1. [runner[h] EXCEPT !.due = @ \union {a}] \in RunnerState
    BY <1>1 DEF RunnerState
  <2>2. runner' = [runner EXCEPT ![h] = [runner[h] EXCEPT !.due = @ \union {a}]]
    BY <1>1, <1>2
  <2>3. QED
    BY <1>1, <2>1, <2>2
<1>4. ASSUME NEW k \in Handler
      PROVE  /\ runner'[k].stopped = runner[k].stopped /\ runner'[k].agents = runner[k].agents
             /\ runner'[k].armed = runner[k].armed
             /\ runner'[k].due \subseteq runner'[k].agents
  BY <1>1, <1>2 DEF RunnerState
<1>5. handler' # 0 => ~runner'[handler'].stopped
  BY <1>1, <1>2, <1>4 DEF Alive
<1>6. handler' # 0 => (Settled(handler) => Settled(handler)')
  BY <1>1, <1>2, <1>4 DEF Settled, SettledState
<1>7. QED
  BY <1>1, <1>2, <1>3, <1>4, <1>5, <1>6, QueueSteps DEF Alive

LEMMA UpdateConfigKeeps ==
    ASSUME IInv, WakeInv', NEW h \in Handler, NEW agents \in SUBSET Agent,
           NEW due \in SUBSET Agent, UpdateConfig(h, agents, due)
    PROVE  IInv'
<1> DEFINE state == [runner[h] EXCEPT !.agents = agents, !.due = due]
           new == ScheduleNext(state)
<1>1. /\ runner \in [Handler -> RunnerState] /\ call \in [Batch -> CallState]
      /\ handler \in 0..MaxHandlers /\ Alive /\ TypeOK
      /\ \A k \in Handler : runner[k].due \subseteq runner[k].agents
      /\ on \in BOOLEAN /\ wasOff \in BOOLEAN /\ events \in 0..MaxEvents
  BY Facts DEF TypeOK
<1>2. /\ due \subseteq agents /\ events' = events + 1 /\ events < MaxEvents
      /\ runner' = [runner EXCEPT ![h] = new]
      /\ call' = [b \in Batch |-> IF batch[b].handler = h THEN [call[b] EXCEPT !.fresh = FALSE] ELSE call[b]]
      /\ UNCHANGED <<batch, handler, pending, on, wasOff>>
  BY DEF UpdateConfig, Event, wakeVars
<1>3. state \in RunnerState /\ state.due = due /\ state.agents = agents
      /\ state.stopped = runner[h].stopped
  BY <1>1 DEF RunnerState
<1> HIDE DEF state
<1>4. new \in RunnerState /\ SettledState(new) /\ new.due \subseteq new.agents
      /\ new.stopped = runner[h].stopped
  BY <1>2, <1>3, Scheduled
<1> HIDE DEF new
<1>5. RunnerMoves(h)
  BY <1>1, <1>2, <1>4, RunnerMoved
<1>6. call' \in [Batch -> CallState]
      /\ \A b \in Batch : call'[b].at = call[b].at /\ call'[b].answer = call[b].answer
  <2>1. ASSUME NEW b \in Batch
        PROVE  /\ [call[b] EXCEPT !.fresh = FALSE] \in CallState
               /\ [call[b] EXCEPT !.fresh = FALSE].at = call[b].at
               /\ [call[b] EXCEPT !.fresh = FALSE].answer = call[b].answer
    BY <1>1 DEF CallState
  <2>2. QED
    BY <1>1, <1>2, <2>1
<1>7. events' \in 0..MaxEvents
  BY <1>1, <1>2
<1>8. handler' # 0 => ~runner'[handler'].stopped
  BY <1>1, <1>2, <1>5 DEF Alive, RunnerMoves
<1>9. handler' # 0 => (Settled(handler) => Settled(handler)')
  BY <1>1, <1>2, <1>5 DEF RunnerMoves, Settled
<1>10. QED
  BY <1>1, <1>2, <1>5, <1>6, <1>7, <1>8, <1>9, QueueSteps DEF Alive, RunnerMoves

LEMMA FireNothingKeeps == ASSUME IInv, WakeInv', FireNothing PROVE IInv'
<1>1. UNCHANGED <<batch, handler, pending, on, runner, call, events, wasOff>>
  BY DEF FireNothing, FireIdle, FireWhileRunning, Rest
<1>2. /\ on \in BOOLEAN /\ wasOff \in BOOLEAN /\ events \in 0..MaxEvents /\ Alive
      /\ runner \in [Handler -> RunnerState] /\ call \in [Batch -> CallState]
      /\ \A k \in Handler : runner[k].due \subseteq runner[k].agents
  BY Facts DEF TypeOK
<1>3. Settled(handler) => Settled(handler)'
  BY <1>1 DEF Settled
<1>4. QED
  BY <1>1, <1>2, <1>3, QueueSteps DEF Alive

LEMMA FireKeeps ==
    ASSUME IInv, WakeInv', NEW b \in Batch, NEW c \in SUBSET Target, Fire(b, c) PROVE IInv'
<1> DEFINE wakes == {t \in Target : pending[t] # 0}
           new == [handler |-> handler, wakes |-> pending, rest |-> wakes \ c, call |-> c]
<1>1. /\ batch \in [Batch -> BatchOf] /\ pending \in Wakes
      /\ handler \in 0..MaxHandlers /\ All \in Target
  BY Facts
<1>2. /\ handler # 0 /\ pending # Nothing /\ ~Active(b) /\ c \in Calls(wakes)
      /\ batch' = [batch EXCEPT ![b] = new] /\ handler' = handler
      /\ StartCall(b, handler, c, pending) /\ Rest
  BY DEF Fire, FireBatch
<1>3. batch'[b] = new /\ \A d \in Batch : d # b => batch'[d] = batch[d]
  BY <1>1, <1>2
<1>4. c # {}
  <2>1. wakes # {}
    BY <1>1, <1>2 DEF Nothing, Wakes
  <2>2. QED
    BY <1>2, <2>1 DEF Calls
<1>5. new.call = c /\ new.handler = handler /\ wakes \subseteq new.rest \union new.call
  OBVIOUS
<1>6. pending[All] # 0 => All \in wakes
  BY <1>1
<1>7. ~Carries(b)
  BY <1>2 DEF Carries, Active
<1> HIDE DEF new
<1>8. pending[All] # 0 \/ Carries(b) =>
          \/ pending'[All] # 0
          \/ batch'[b].handler = handler /\ All \in batch'[b].rest \union batch'[b].call
  BY <1>3, <1>5, <1>6, <1>7
<1>9. handler \in Handler
  BY <1>1, <1>2
<1>10. batch'[b].call = c /\ batch'[b].handler = IF c = {} THEN 0 ELSE handler
  BY <1>3, <1>4, <1>5
<1>11. QED
  BY <1>2, <1>3, <1>8, <1>9, <1>10, CallSteps

\* What the end of a call leaves of its batch b and of the others.
LEMMA GoOnMoves ==
    ASSUME WakeTypeOK, NEW b \in Batch, NEW c, NEW timers \in SUBSET Kind, GoOn(b, c, timers)
    PROVE  /\ \A d \in Batch : d # b => batch'[d] = batch[d]
           /\ batch'[b].call = c
           /\ batch'[b].handler = IF c = {} THEN 0 ELSE batch[b].handler
           /\ batch[b].rest \subseteq batch'[b].rest \union batch'[b].call
<1>1. batch \in [Batch -> BatchOf]
  BY DEF WakeTypeOK
<1>2. c \subseteq batch[b].rest /\ (c = {} => batch[b].rest = {})
  BY GoOnSteps
<1>3. CASE c = {}
  <2>1. EndBatch(b, timers)
    BY <1>3, GoOnSteps
  <2>2. batch' = [batch EXCEPT ![b] = NoBatch]
    BY <2>1, EndBatchSteps
  <2>3. batch'[b] = NoBatch /\ \A d \in Batch : d # b => batch'[d] = batch[d]
    BY <1>1, <2>2
  <2>4. NoBatch.handler = 0 /\ NoBatch.call = {}
    BY DEF NoBatch
  <2>5. QED
    BY <1>2, <1>3, <2>3, <2>4
<1>4. CASE c # {}
  <2>1. batch' = [batch EXCEPT ![b].rest = @ \ c, ![b].call = c]
    BY <1>4, GoOnSteps
  <2>2. \A d \in Batch : d # b => batch'[d] = batch[d]
    BY <1>1, <2>1
  <2>3. batch'[b].handler = batch[b].handler /\ batch'[b].call = c
        /\ batch'[b].rest = batch[b].rest \ c
    BY <1>1, <2>1 DEF BatchOf
  <2>4. QED
    BY <1>4, <2>2, <2>3
<1>5. QED
  BY <1>3, <1>4

LEMMA ResumeKeeps ==
    ASSUME IInv, WakeInv', NEW b \in Batch, NEW c \in SUBSET Target, Resume(b, c) PROVE IInv'
<1>1. /\ pending \in Wakes /\ timer \in Kind /\ All \in Target
      /\ WakeTypeOK /\ Alive /\ (Active(b) => batch[b].handler \in Handler)
  BY Facts
<1>2. /\ Active(b) /\ handler' = handler /\ call[b].answer \in {"done", "busy"}
      /\ StartCall(b, batch[b].handler, c, batch[b].wakes) /\ Rest
  BY DEF Resume, CallReturns, CallBusy
<1>3. PICK timers \in SUBSET Kind : GoOn(b, c, timers)
  <2>1. {timer} \in SUBSET Kind /\ After(timer, "retry") \in SUBSET Kind
    BY <1>1, TimerSet
  <2>2. GoOn(b, c, {timer}) \/ GoOn(b, c, After(timer, "retry"))
    BY DEF Resume, CallReturns, CallBusy
  <2>3. QED
    BY <2>1, <2>2
<1>4. /\ \A d \in Batch : d # b => batch'[d] = batch[d]
      /\ batch'[b].call = c
      /\ batch'[b].handler = IF c = {} THEN 0 ELSE batch[b].handler
      /\ batch[b].rest \subseteq batch'[b].rest \union batch'[b].call
      /\ c = {} => batch[b].rest = {}
  BY <1>1, <1>3, GoOnMoves, GoOnSteps
<1>5. pending[All] # 0 => pending'[All] # 0
  <2>1. CASE CallReturns(b, c)
    BY <2>1 DEF CallReturns
  <2>2. CASE CallBusy(b, c)
    <3>1. batch[b].wakes \in Wakes /\ WakeTypeOK'
      BY <1>1, BatchType DEF WakeInv
    <3>2. pending'[All] = IF All \in batch[b].call THEN Merged(pending, batch[b].wakes)[All]
                          ELSE pending[All]
      BY <1>1, <2>2 DEF CallBusy
    <3>3. pending[All] \in Nat
      BY <1>1 DEF Wakes
    <3>4. pending'[All] >= pending[All]
      BY <1>1, <3>1, <3>2, <3>3, MergedKeeps
    <3>5. QED
      BY <1>1, <3>1, <3>4, StillPending
  <2>3. QED
    BY <2>1, <2>2 DEF Resume
<1>6. Carries(b) => handler = batch[b].handler /\ All \in batch[b].rest
  BY <1>1, <1>2 DEF Carries, Alive
<1>7. Carries(b) => c # {} /\ batch'[b].handler = handler
                   /\ All \in batch'[b].rest \union batch'[b].call
  BY <1>4, <1>6
<1>8. QED
  BY <1>1, <1>2, <1>4, <1>5, <1>7, CallSteps

\* The run of the awaited agent ends: what the other calls of the runner see of it.
LEMMA ElsewhereSteps ==
    ASSUME NEW b, NEW ran, call \in [Batch -> CallState]
    PROVE  /\ Elsewhere(b, ran) \in [Batch -> CallState]
           /\ \A d \in Batch : /\ Elsewhere(b, ran)[d].at = call[d].at
                               /\ Elsewhere(b, ran)[d].answer = call[d].answer
<1>1. ASSUME NEW d \in Batch
      PROVE  /\ [call[d] EXCEPT !.todo = @ \ ran] \in CallState
             /\ [call[d] EXCEPT !.todo = @ \ ran].at = call[d].at
             /\ [call[d] EXCEPT !.todo = @ \ ran].answer = call[d].answer
  BY DEF CallState
<1>2. QED
  BY <1>1 DEF Elsewhere

LEMMA AdvancedSteps ==
    ASSUME TypeOK, NEW b \in Batch, batch[b].handler \in Handler
    PROVE  /\ Advanced(b) \in RunnerState /\ Advanced(b).due \subseteq Advanced(b).agents
           /\ Advanced(b).stopped = runner[batch[b].handler].stopped
           /\ Settled(batch[b].handler) => SettledState(Advanced(b))
<1>1. runner[batch[b].handler] \in RunnerState
      /\ runner[batch[b].handler].due \subseteq runner[batch[b].handler].agents
  BY DEF TypeOK
<1>2. CASE call[b].fresh
  BY <1>1, <1>2 DEF Advanced, RunnerState, Settled, SettledState
<1>3. CASE ~call[b].fresh
  BY <1>1, <1>3 DEF Advanced, Settled
<1>4. QED
  BY <1>2, <1>3

LEMMA RunKeeps ==
    ASSUME IInv, WakeInv', NEW b \in Batch, RunEnds(b) \/ RunDisabled(b) \/ RunBusy(b)
    PROVE  IInv'
<1>1. /\ call[b].at # {} /\ UNCHANGED wakeVars /\ UNCHANGED <<on, events, wasOff>>
  BY DEF RunEnds, RunDisabled, RunBusy, Rest
<1>2. /\ TypeOK /\ Alive /\ call \in [Batch -> CallState]
      /\ \A d \in Batch : Active(d) => batch[d].handler \in Handler
      /\ \A k \in Handler : runner[k] \in RunnerState /\ runner[k].due \subseteq runner[k].agents
  BY Facts
<1>3. Active(b)
  BY <1>1, <1>2 DEF Alive
<1> PICK h \in Handler : h = batch[b].handler
  BY <1>2, <1>3
<1>4. /\ call[b].todo \in SUBSET Agent /\ call[b].interval \in BOOLEAN /\ call[b].fresh \in BOOLEAN
  BY <1>2 DEF CallState
<1>5. /\ Elsewhere(b, call[b].at) \in [Batch -> CallState]
      /\ \A d \in Batch : /\ Elsewhere(b, call[b].at)[d].at = call[d].at
                          /\ Elsewhere(b, call[b].at)[d].answer = call[d].answer
  BY <1>2, ElsewhereSteps
<1>6. /\ Advanced(b) \in RunnerState /\ Advanced(b).due \subseteq Advanced(b).agents
      /\ Advanced(b).stopped = runner[h].stopped
      /\ Settled(h) => SettledState(Advanced(b))
  BY <1>2, AdvancedSteps
<1>7. RunnerMoves(h) /\ CallMoves(b) /\ (call'[b].at # {} \/ Settled(h)')
  <2>1. CASE RunEnds(b)
    <3> DEFINE calls == Elsewhere(b, call[b].at)
               current == Advanced(b)
               todo == call[b].todo
    <3>1. Proceed(b, h, todo, call[b].interval, call[b].fresh, calls, current)
      BY <2>1 DEF RunEnds
    <3>2. /\ calls \in [Batch -> CallState] /\ current \in RunnerState
          /\ \A d \in Batch : calls[d].at = call[d].at /\ calls[d].answer = call[d].answer
          /\ current.due \subseteq current.agents /\ current.stopped = runner[h].stopped
          /\ Settled(h) => SettledState(current)
      BY <1>5, <1>6
    <3>3. todo \in SUBSET Agent
      BY <1>4
    <3> HIDE DEF calls, current, todo
    <3>4. QED
      BY <1>2, <1>4, <3>1, <3>2, <3>3, ProceedSteps
  <2>2. CASE RunDisabled(b)
    <3>1. Proceed(b, h, call[b].todo, call[b].interval, call[b].fresh, call, runner[h])
      BY <2>2 DEF RunDisabled
    <3>2. QED
      BY <1>2, <1>3, <1>4, <3>1, ProceedSteps DEF Settled
  <2>3. CASE RunBusy(b)
    <3>1. /\ runner' = [runner EXCEPT ![h] = ScheduleNext(Advanced(b))]
          /\ call' = [Elsewhere(b, call[b].at) EXCEPT ![b] = Answered("busy")]
      BY <2>3 DEF RunBusy
    <3>2. CallMoves(b)
      BY <1>5, <3>1, CallAnswered
    <3>3. /\ ScheduleNext(Advanced(b)) \in RunnerState
          /\ SettledState(ScheduleNext(Advanced(b)))
          /\ ScheduleNext(Advanced(b)).stopped = runner[h].stopped
          /\ ScheduleNext(Advanced(b)).due \subseteq ScheduleNext(Advanced(b)).agents
      BY <1>6, Scheduled
    <3>4. RunnerMoves(h) /\ runner'[h] = ScheduleNext(Advanced(b))
      BY <1>2, <1>3, <3>1, <3>3, RunnerMoved
    <3>5. Settled(h)'
      BY <3>3, <3>4 DEF Settled
    <3>6. QED
      BY <3>2, <3>4, <3>5
  <2>4. QED
    BY <2>1, <2>2, <2>3
<1>8. QED
  BY <1>1, <1>3, <1>7, RunSteps DEF wakeVars

LEMMA ThrowsKeeps == ASSUME IInv, WakeInv', NEW b \in Batch, Throws(b) PROVE IInv'
<1>1. /\ pending \in Wakes /\ timer \in Kind /\ All \in Target /\ batch \in [Batch -> BatchOf]
      /\ WakeTypeOK /\ TypeOK /\ Alive /\ Guarded /\ call \in [Batch -> CallState]
  BY Facts
<1>2. /\ EndBatch(b, After(timer, "retry")) /\ pending' = Merged(pending, batch[b].wakes)
      /\ handler' = handler /\ call' = [call EXCEPT ![b] = NoCall] /\ UNCHANGED runner /\ Rest
  BY DEF Throws, CallThrows
<1>3. batch' = [batch EXCEPT ![b] = NoBatch]
  <2>1. After(timer, "retry") \in SUBSET Kind
    BY <1>1, TimerSet
  <2>2. QED
    BY <1>1, <1>2, <2>1, EndBatchSteps
<1>4. \A d \in Batch : d # b => batch'[d] = batch[d] /\ call'[d] = call[d]
  BY <1>1, <1>2, <1>3
<1>5. call' \in [Batch -> CallState] /\ call'[b].at = {}
  BY <1>1, <1>2, CallsTyped DEF NoCall
<1>6. batch[b].wakes \in Wakes /\ WakeTypeOK'
  BY <1>1, BatchType DEF WakeInv
<1>7. pending'[All] >= pending[All] /\ pending'[All] >= batch[b].wakes[All]
  BY <1>1, <1>2, <1>6, MergedKeeps
<1>8. pending[All] # 0 => pending'[All] # 0
  BY <1>1, <1>6, <1>7, StillPending
<1>9. Carries(b) => pending'[All] # 0
  <2>1. Carries(b) => batch[b].wakes[All] # 0
    BY <1>1 DEF Carries, Guarded
  <2>2. batch[b].wakes[All] \in Nat /\ pending'[All] \in Nat
    BY <1>1, <1>6 DEF Wakes, WakeTypeOK
  <2>3. QED
    BY <1>7, <2>1, <2>2
<1>10. TypeOK'
  BY <1>1, <1>2, <1>5 DEF TypeOK, WakeInv, Rest
<1>11. \A d \in Batch : call'[d].at # {} => Active(d)' /\ call'[d].answer = "none"
  BY <1>1, <1>4, <1>5 DEF Alive, Active
<1>12. \A d \in Batch : d # b /\ Carries(d) => Carries(d)'
  BY <1>2, <1>4 DEF Carries
<1>13. Settled(handler) => Settled(handler)'
  BY <1>2 DEF Settled
<1>14. Alive'
  BY <1>1, <1>2, <1>8, <1>9, <1>11, <1>12, <1>13 DEF Alive, Rest
<1>15. QED
  BY <1>10, <1>14 DEF IInv

LEMMA IInvStep == ASSUME IInv, [Next]_vars PROVE IInv'
<1>1. WakeInv'
  BY RunnersWake, WakeInvStep DEF IInv
<1>2. CASE UNCHANGED vars
  <2>1. UNCHANGED <<handler, pending, batch, on, runner, call, events, wasOff>>
    BY <1>2 DEF vars, wakeVars
  <2>2. TypeOK'
    BY <1>1, <2>1 DEF IInv, TypeOK, WakeInv
  <2>3. Alive'
    BY <2>1 DEF IInv, Alive, Active, Carries, Settled
  <2>4. QED
    BY <1>1, <2>2, <2>3 DEF IInv
<1>3. CASE Next
  BY <1>1, <1>3, StartRunnerKeeps, StopRunnerKeeps, IntervalKeeps, BecomesDueKeeps,
     UpdateConfigKeeps, SetEnabledKeeps, RequestKeeps, FireNothingKeeps, FireKeeps,
     ResumeKeeps, RunKeeps, ThrowsKeeps DEF Next
<1>4. QED
  BY <1>2, <1>3

\* The inductive invariant of the runners and their queue (heartbeat-runner.ts).
THEOREM Invariant == Spec => []IInv
<1>1. Init => IInv
  BY IInvInit
<1>2. IInv /\ [Next]_vars => IInv'
  BY IInvStep
<1>3. QED
  BY <1>1, <1>2, PTL DEF Spec

\* The states of the queue, the runners and the calls are what their records say, and a
\* runner has due agents of its own only.
THEOREM TypeSafe == Spec => []TypeOK
<1>1. IInv => TypeOK
  BY DEF IInv
<1>2. QED
  BY <1>1, Invariant, PTL

\* The heartbeats of a runner never stall, whatever the main lane, updates, exceptions and
\* restarts do: unless they were disabled its interval timer is set, or the wake that will
\* set it again is pending or being handled (heartbeat-runner.ts:1005-1032, 1081-1180).
THEOREM NeverStalled == Spec => []HeartbeatsArmed
<1>1. IInv => HeartbeatsArmed
  BY DEF IInv, Alive, HeartbeatsArmed, Settled, SettledState, Carries, Serving
<1>2. QED
  BY <1>1, Invariant, PTL
=============================================================================
