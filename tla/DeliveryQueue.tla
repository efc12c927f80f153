---------------------------- MODULE DeliveryQueue ----------------------------
(***************************************************************************)
(* The write-ahead queue of outbound deliveries                            *)
(* (infra/outbound/delivery-queue.ts) and the two that use it: a live      *)
(* delivery (deliver.ts) and a recovery pass, started beside the live      *)
(* deliveries by every start of the gateway (gateway/server.impl.ts), also *)
(* a start in the same process.                                            *)
(*                                                                         *)
(* The directories survive a crash, deliveries and passes do not.  A step  *)
(* is one awaited call; the temporary file and the rename of a write are   *)
(* one step, the read before it another.                                   *)
(***************************************************************************)
EXTENDS Integers, Sequences

CONSTANTS N,           \* deliveries 1..N, in the order of their enqueuedAt
          Payloads,    \* messages in a delivery
          Efforts,     \* what callers ask for: "strict", or bestEffort with or without an onError
          Pass,        \* recovery passes that may run at once
          MaxRetries,  \* MAX_RETRIES
          Backoff,     \* BACKOFF_MS
          Budget,      \* maxRecoveryMs
          MaxFaults,   \* bound: file operations that fail
          MaxCrashes   \* bound: crashes of the process

Delivery == 1..N
ASSUME DeliveryAssumption ==
    /\ N \in Nat /\ Payloads \in Nat \ {0}
    /\ "strict" \in Efforts /\ Efforts \subseteq {"strict", "observed", "unobserved"}
    /\ Pass \intersect Delivery = {}
    /\ MaxRetries \in Nat
    /\ Backoff \in Seq(Nat \ {0}) /\ Backoff # <<>>
    /\ Budget \in Nat
    /\ MaxFaults \in Nat /\ MaxCrashes \in Nat

VARIABLES effort,     \* effort[d]: what the caller of d asked for
          queued,     \* queued[d]: retryCount of the file of d in the queue, or Absent
          givenUp,    \* deliveries with a file in failed/
          attempt,    \* attempt[w]: what worker w, a live delivery or a pass, is doing
          stored,     \* live deliveries whose enqueue succeeded (queueId)
          pending,    \* pending[r]: the entries a pass has yet to take, as it loaded them
          left,       \* left[r]: the time before the deadline of a pass
          faults, crashes,
          sent,       \* history: sent[d], the payloads of d the channel accepted
          failures,   \* history: failed attempts at d, up to MaxRetries
          hopeless,   \* history: deliveries that met a permanent error
          dropped     \* history: aborted, or an error of theirs reached nobody

disk == <<queued, givenUp>>
passes == <<pending, left>>
luck == <<faults, crashes>>
history == <<sent, failures, hopeless, dropped>>
vars == <<effort, disk, attempt, stored, passes, luck, history>>

Absent == -1
Worker == Delivery \union Pass
Payload == 1..Payloads
Step == {"new", "storing", "sending", "ack", "fail", "write", "move", "next", "idle", "done"}
Attempt == [item: 0..N, step: Step, part: 1..(Payloads + 1), partial: BOOLEAN, seen: Int]
InAttempt(item, step, part, partial, seen) ==
    [item |-> item, step |-> step, part |-> part, partial |-> partial, seen |-> seen]
At(item, step, seen) == InAttempt(item, step, 1, FALSE, seen)
Free == At(0, "idle", 0)
Is(w, step) == attempt[w].step = step

\* The delivery a worker is at, and the end of its work on it.
Item(w) == attempt[w].item
GotoWith(w, step, seen) == attempt' = [attempt EXCEPT ![w] = At(Item(w), step, seen)]
Goto(w, step) == GotoWith(w, step, 0)

\* Mutant: the pass goes on after its last entry.
Leave_endless(w) ==
    IF w \in Pass THEN attempt' = [attempt EXCEPT ![w] = At(0, "next", 0)]
    ELSE Goto(w, "done")

Leave(w) ==
    IF w \in Pass
    THEN attempt' = [attempt EXCEPT ![w] = IF pending[w] = {} THEN Free
                                           ELSE At(0, "next", 0)]
    ELSE Goto(w, "done")

Init == /\ effort = [d \in Delivery |-> "strict"]
        /\ queued = [d \in Delivery |-> Absent] /\ givenUp = {} /\ stored = {}
        /\ attempt = [w \in Worker |-> IF w \in Pass THEN Free ELSE At(w, "new", 0)]
        /\ pending = [r \in Pass |-> {}] /\ left = [r \in Pass |-> 0]
        /\ faults = 0 /\ crashes = 0
        /\ sent = [d \in Delivery |-> {}] /\ failures = [d \in Delivery |-> 0]
        /\ hopeless = {} /\ dropped = {}

----------------------------------------------------------------------------
\* A file operation fails.
Fault == faults < MaxFaults /\ faults' = faults + 1

\* A live delivery takes its timestamp and goes on to write its entry ...
Begin(d) ==
    /\ Is(d, "new")
    /\ \A older \in 1..(d - 1) : ~Is(older, "new")
    /\ \E e \in Efforts : effort' = [effort EXCEPT ![d] = e]
    /\ Goto(d, "storing")
    /\ UNCHANGED <<disk, stored, passes, luck, history>>

\* ... which it does before it sends ...
Store(d) ==
    /\ Is(d, "storing")
    /\ queued' = [queued EXCEPT ![d] = 0]
    /\ stored' = stored \union {d}
    /\ Goto(d, "sending")
    /\ UNCHANGED <<effort, givenUp, passes, luck, history>>

\* ... but it sends all the same when the write fails.
StoreFails(d) ==
    /\ Is(d, "storing") /\ Fault
    /\ Goto(d, "sending")
    /\ UNCHANGED <<effort, disk, stored, passes, crashes, history>>

----------------------------------------------------------------------------
\* The payload loop.  onError of the caller is called by live deliveries alone:
\* a pass has none.
Strict(w) == effort[Item(w)] = "strict"
Observed(w) == w \in Delivery /\ effort[w] = "observed"
InLoop(w) == Is(w, "sending") /\ attempt[w].part <= Payloads
Onward(w, partial) ==
    attempt' = [attempt EXCEPT ![w] = InAttempt(Item(w), "sending", attempt[w].part + 1, partial, 0)]
Counted(d) == failures' = [failures EXCEPT ![d] = IF @ < MaxRetries THEN @ + 1 ELSE @]

\* The channel accepts a payload, or a hook cancels it.
SendPayload(w) ==
    /\ InLoop(w)
    /\ sent' = [sent EXCEPT ![Item(w)] = @ \union {attempt[w].part}]
    /\ Onward(w, attempt[w].partial)
    /\ UNCHANGED <<effort, disk, stored, passes, luck, failures, hopeless, dropped>>

\* Mutant: an observed error is forgotten.
SkipPayload_unrecorded(w) ==
    /\ InLoop(w) /\ ~Strict(w)
    /\ Onward(w, attempt[w].partial)
    /\ dropped' = IF Observed(w) THEN dropped ELSE dropped \union {Item(w)}
    /\ UNCHANGED <<effort, disk, stored, passes, luck, sent, failures, hopeless>>

\* The channel refuses a payload of a bestEffort delivery.
SkipPayload(w) ==
    /\ InLoop(w) /\ ~Strict(w)
    /\ Onward(w, attempt[w].partial \/ Observed(w))
    /\ dropped' = IF Observed(w) THEN dropped ELSE dropped \union {Item(w)}
    /\ UNCHANGED <<effort, disk, stored, passes, luck, sent, failures, hopeless>>

\* An error ends the attempt: a payload of a strict delivery, a channel that is not
\* there, or the transcript of the session after the last payload.
Throw(w, permanent) ==
    /\ Is(w, "sending")
    /\ Strict(w) \/ attempt[w].part \in {1, Payloads + 1}
    /\ Goto(w, IF w \in Pass /\ permanent THEN "move" ELSE "fail")
    /\ Counted(Item(w))
    /\ hopeless' = IF permanent THEN hopeless \union {Item(w)} ELSE hopeless
    /\ UNCHANGED <<effort, disk, stored, passes, luck, sent, dropped>>

\* The caller aborts a strict live delivery; nobody wants it any more.
Abort(d) ==
    /\ InLoop(d) /\ Strict(d)
    /\ Goto(d, "ack")
    /\ dropped' = dropped \union {d}
    /\ UNCHANGED <<effort, disk, stored, passes, luck, sent, failures, hopeless>>

\* The loop is over; with an observed error the attempt counts as failed.
Finish(w) ==
    /\ Is(w, "sending") /\ attempt[w].part = Payloads + 1
    /\ Goto(w, IF attempt[w].partial THEN "fail" ELSE "ack")
    /\ IF attempt[w].partial THEN Counted(Item(w)) ELSE failures' = failures
    /\ UNCHANGED <<effort, disk, stored, passes, luck, sent, hopeless, dropped>>

----------------------------------------------------------------------------
\* What the attempt leaves in the queue.
HasEntry(w) == w \in Pass \/ w \in stored

\* A delivery that was never stored has nothing to settle.
Forget(d) ==
    /\ attempt[d].step \in {"ack", "fail"} /\ ~HasEntry(d)
    /\ Leave(d)
    /\ UNCHANGED <<effort, disk, stored, passes, luck, history>>

\* ackDelivery: unlink, also of a file that is gone.
Ack(w) ==
    /\ Is(w, "ack") /\ HasEntry(w)
    /\ queued' = [queued EXCEPT ![Item(w)] = Absent]
    /\ Leave(w)
    /\ UNCHANGED <<effort, givenUp, stored, passes, luck, sent, failures, hopeless, dropped>>

\* A live delivery ignores an unlink that fails, for a pass the attempt has failed.
AckFails(w) ==
    /\ Is(w, "ack") /\ HasEntry(w) /\ Fault
    /\ IF w \in Pass THEN Goto(w, "fail") /\ Counted(Item(w))
                     ELSE Leave(w) /\ failures' = failures
    /\ UNCHANGED <<effort, disk, stored, passes, crashes, sent, hopeless, dropped>>

\* failDelivery reads the entry ...
FailRead(w) ==
    /\ Is(w, "fail") /\ HasEntry(w) /\ queued[Item(w)] # Absent
    /\ GotoWith(w, "write", queued[Item(w)])
    /\ UNCHANGED <<effort, disk, stored, passes, luck, history>>

FailReadFails(w) ==
    /\ Is(w, "fail") /\ HasEntry(w)
    /\ (queued[Item(w)] = Absent /\ faults' = faults) \/ Fault
    /\ Leave(w)
    /\ UNCHANGED <<effort, disk, stored, passes, crashes, history>>

\* Mutant: the retry count is not increased.
FailWrite_sameCount(w) ==
    /\ Is(w, "write")
    /\ queued' = [queued EXCEPT ![Item(w)] = attempt[w].seen]
    /\ Leave(w)
    /\ UNCHANGED <<effort, givenUp, stored, passes, luck, history>>

\* ... and writes it back, whatever has become of it.
FailWrite(w) ==
    /\ Is(w, "write")
    /\ queued' = [queued EXCEPT ![Item(w)] = attempt[w].seen + 1]
    /\ Leave(w)
    /\ UNCHANGED <<effort, givenUp, stored, passes, luck, history>>

FailWriteFails(w) ==
    /\ Is(w, "write") /\ Fault
    /\ Leave(w)
    /\ UNCHANGED <<effort, disk, stored, passes, crashes, history>>

----------------------------------------------------------------------------
\* The recovery pass.
Wait(retry) == Backoff[IF retry <= Len(Backoff) THEN retry ELSE Len(Backoff)]
Entry == [id: Delivery, retryCount: Nat]

Loaded == {[id |-> d, retryCount |-> queued[d]] : d \in {e \in Delivery : queued[e] # Absent}}

\* A start of the gateway.
Load(r) ==
    /\ Is(r, "idle") /\ Loaded # {}
    /\ pending' = [pending EXCEPT ![r] = Loaded]
    /\ left' = [left EXCEPT ![r] = Budget]
    /\ attempt' = [attempt EXCEPT ![r] = At(0, "next", 0)]
    /\ UNCHANGED <<effort, disk, stored, luck, history>>

\* The loop is at e, the oldest entry left.
Turn(r, e) == Is(r, "next") /\ e \in pending[r] /\ \A f \in pending[r] : e.id <= f.id
Take(r, e, step) ==
    /\ pending' = [pending EXCEPT ![r] = @ \ {e}]
    /\ attempt' = [attempt EXCEPT ![r] = At(e.id, step, 0)]
Exhausted(e) == e.retryCount >= MaxRetries

\* Mutant: one attempt fewer.
GiveUp_early(r, e) ==
    /\ Turn(r, e) /\ left[r] > 0 /\ e.retryCount + 1 >= MaxRetries
    /\ Take(r, e, "move")
    /\ UNCHANGED <<effort, disk, stored, left, luck, history>>

GiveUp(r, e) ==
    /\ Turn(r, e) /\ left[r] > 0 /\ Exhausted(e)
    /\ Take(r, e, "move")
    /\ UNCHANGED <<effort, disk, stored, left, luck, history>>

\* The deadline is past, or the wait before this entry would take it past: the pass
\* ends, and so it does for every younger entry.
Defer(r, e) ==
    /\ Turn(r, e)
    /\ left[r] = 0 \/ (~Exhausted(e) /\ Wait(e.retryCount + 1) >= left[r])
    /\ pending' = [pending EXCEPT ![r] = {}]
    /\ left' = [left EXCEPT ![r] = 0]
    /\ attempt' = [attempt EXCEPT ![r] = Free]
    /\ UNCHANGED <<effort, disk, stored, luck, history>>

\* The pass waits and starts over; the attempt takes time of its own.
Retry(r, e) ==
    /\ Turn(r, e) /\ left[r] > 0 /\ ~Exhausted(e)
    /\ Wait(e.retryCount + 1) < left[r]
    /\ \E rest \in 0..(left[r] - Wait(e.retryCount + 1)) : left' = [left EXCEPT ![r] = rest]
    /\ Take(r, e, "sending")
    /\ UNCHANGED <<effort, disk, stored, luck, history>>

\* moveToFailed; it throws when the file is gone, which is logged.
Move(r) ==
    /\ Is(r, "move")
    /\ IF queued[Item(r)] = Absent THEN UNCHANGED disk
       ELSE /\ queued' = [queued EXCEPT ![Item(r)] = Absent]
            /\ givenUp' = givenUp \union {Item(r)}
    /\ Leave(r)
    /\ UNCHANGED <<effort, stored, passes, luck, history>>

MoveFails(r) ==
    /\ Is(r, "move") /\ Fault
    /\ Leave(r)
    /\ UNCHANGED <<effort, disk, stored, passes, crashes, history>>

----------------------------------------------------------------------------
\* The process dies; what it was sending is over.
Crash ==
    /\ crashes < MaxCrashes
    /\ crashes' = crashes + 1
    /\ attempt' = [w \in Worker |-> IF w \in Pass THEN Free
                                     ELSE IF Is(w, "new") THEN attempt[w]
                                     ELSE At(w, "done", 0)]
    /\ pending' = [r \in Pass |-> {}] /\ left' = [r \in Pass |-> 0]
    /\ UNCHANGED <<effort, disk, stored, faults, history>>

Deliver(w) == SendPayload(w) \/ SkipPayload(w) \/ Finish(w)
              \/ \E permanent \in BOOLEAN : Throw(w, permanent)
Settle(w) == \/ Ack(w) \/ AckFails(w) \/ FailRead(w) \/ FailReadFails(w)
             \/ FailWrite(w) \/ FailWriteFails(w)
LiveStep(d) == Store(d) \/ StoreFails(d) \/ Deliver(d) \/ Abort(d) \/ Settle(d) \/ Forget(d)
PassStep(r) == \/ \E e \in pending[r] : GiveUp(r, e) \/ Defer(r, e) \/ Retry(r, e)
               \/ Deliver(r) \/ Settle(r) \/ Move(r) \/ MoveFails(r)

Next == \/ \E d \in Delivery : Begin(d) \/ LiveStep(d)
        \/ \E r \in Pass : Load(r) \/ PassStep(r)
        \/ Crash

Spec == Init /\ [][Next]_vars

\* What has begun goes on, and the gateway is started again and again.
FairSpec == /\ Spec
            /\ \A d \in Delivery : WF_vars(LiveStep(d))
            /\ \A r \in Pass : WF_vars(PassStep(r)) /\ WF_vars(Load(r))

----------------------------------------------------------------------------
TypeOK ==
    /\ effort \in [Delivery -> Efforts]
    /\ queued \in [Delivery -> Nat \union {Absent}]
    /\ givenUp \subseteq Delivery /\ stored \subseteq Delivery
    /\ attempt \in [Worker -> Attempt]
    /\ \A w \in Worker : IF w \in Pass THEN Is(w, "next") => pending[w] # {} ELSE Item(w) = w
    /\ pending \in [Pass -> SUBSET Entry] /\ left \in [Pass -> 0..Budget]
    /\ faults \in 0..MaxFaults /\ crashes \in 0..MaxCrashes
    /\ sent \in [Delivery -> SUBSET Payload]
    /\ failures \in [Delivery -> 0..MaxRetries]
    /\ hopeless \subseteq Delivery /\ dropped \subseteq Delivery

\* Whatever crashes, fails or overlaps, a stored delivery stays in the queue or in
\* failed/ until an attempt has sent all its payloads, the caller has aborted it or
\* an error of a bestEffort delivery has reached nobody (deliver.ts:230-290,
\* delivery-queue.ts:103-132, 266-303).
NothingLost ==
    \A d \in stored : \/ queued[d] # Absent \/ d \in givenUp
                      \/ sent[d] = Payload \/ d \in dropped

\* A delivery is given up only after a permanent error or MaxRetries failed attempts:
\* neither a crash nor two workers that fail it at once make it lose attempts
\* (delivery-queue.ts:120-132, 240-251, 284-303).
GivenUpLate == \A d \in givenUp : d \in hopeless \/ failures[d] = MaxRetries

\* Every entry leaves the queue, delivered or given up, if the gateway is started
\* again and again (delivery-queue.ts:203-204).
EveryEntryResolved == \A d \in Delivery : queued[d] # Absent ~> queued[d] = Absent
=============================================================================
