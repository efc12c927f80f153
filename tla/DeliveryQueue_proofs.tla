------------------------ MODULE DeliveryQueue_proofs ------------------------
(***************************************************************************)
(* Proofs about DeliveryQueue.  NothingLost is not inductive: an entry is  *)
(* removed by a worker that is at "ack", long after the payloads went out. *)
(* Tracks says what a worker's place in its loop implies for the delivery, *)
(* and survives whatever the other workers do because sent and dropped     *)
(* only grow.                                                              *)
(***************************************************************************)
EXTENDS DeliveryQueue, FiniteSetTheorems, TLAPS

Working == {"sending", "ack", "fail", "write", "move"}

\* An attempt a at a place of the loop, given what was sent and dropped.
Sound(a, snt, drp) ==
    /\ a.step \in Working => a.item \in Delivery
    /\ a.step = "sending" /\ ~a.partial /\ a.item \notin drp => 1..(a.part - 1) \subseteq snt[a.item]
    /\ a.step = "ack" => snt[a.item] = Payload \/ a.item \in drp
    /\ a.step = "write" => a.seen \in Nat
    /\ a.step = "sending" => a.part \in 1..(Payloads + 1)
Tracks == \A w \in Worker : Sound(attempt[w], sent, dropped)

\* The parts of TypeOK: the workers' places, and the rest.
Placed(w) == IF w \in Pass THEN Is(w, "next") => pending[w] # {} ELSE Item(w) = w
Data == /\ effort \in [Delivery -> Efforts]
        /\ queued \in [Delivery -> Nat \union {Absent}]
        /\ givenUp \subseteq Delivery /\ stored \subseteq Delivery
        /\ pending \in [Pass -> SUBSET Entry] /\ left \in [Pass -> 0..Budget]
        /\ faults \in 0..MaxFaults /\ crashes \in 0..MaxCrashes
        /\ sent \in [Delivery -> SUBSET Payload]
        /\ failures \in [Delivery -> 0..MaxRetries]
        /\ hopeless \subseteq Delivery /\ dropped \subseteq Delivery

IInv == TypeOK /\ Tracks /\ NothingLost

----------------------------------------------------------------------------
LEMMA AtFields ==
    ASSUME NEW i \in 0..N, NEW st \in Step, NEW s \in Int
    PROVE  /\ At(i, st, s) \in Attempt
           /\ At(i, st, s).item = i /\ At(i, st, s).step = st
           /\ At(i, st, s).part = 1 /\ At(i, st, s).seen = s
<1>1. 1 \in 1..(Payloads + 1) /\ FALSE \in BOOLEAN
  BY DeliveryAssumption
<1>2. QED
  BY <1>1 DEF At, InAttempt, Attempt

LEMMA AttemptFields ==
    ASSUME NEW a \in Attempt
    PROVE  /\ a.item \in 0..N /\ a.step \in Step /\ a.part \in 1..(Payloads + 1)
           /\ a.partial \in BOOLEAN /\ a.seen \in Int
BY DEF Attempt

\* More sent and more dropped: a sound attempt stays sound.
LEMMA SoundGrows ==
    ASSUME NEW a, NEW snt, NEW snt2, NEW drp, NEW drp2, Sound(a, snt, drp),
           \A d \in Delivery : snt[d] \subseteq snt2[d] /\ snt2[d] \subseteq Payload,
           drp \subseteq drp2
    PROVE  Sound(a, snt2, drp2)
<1>1. a.step = "sending" /\ ~a.partial /\ a.item \notin drp2
        => 1..(a.part - 1) \subseteq snt2[a.item]
  BY DEF Sound, Working
<1>2. a.step = "ack" => snt2[a.item] = Payload \/ a.item \in drp2
  BY DEF Sound, Working
<1>3. QED
  BY <1>1, <1>2 DEF Sound

LEMMA TypeParts == TypeOK <=> /\ Data /\ attempt \in [Worker -> Attempt]
                             /\ \A w \in Worker : Placed(w)
BY DEF TypeOK, Data, Placed

\* A step in which one worker gets to a, sent and dropped grow, and no file leaves the
\* queue but for one that is in failed/ or was delivered or dropped.
LEMMA OneWorker ==
    ASSUME IInv, NEW w \in Worker, NEW a \in Attempt,
           attempt' = [attempt EXCEPT ![w] = a],
           IF w \in Pass THEN a.step = "next" => pending'[w] # {} ELSE a.item = w,
           \A v \in Pass : v # w => pending'[v] = pending[v],
           Data', Sound(a, sent', dropped'),
           \A d \in Delivery : sent[d] \subseteq sent'[d],
           dropped \subseteq dropped', givenUp \subseteq givenUp',
           \A d \in stored' : \/ d \in stored /\ (queued[d] # Absent => queued'[d] # Absent)
                              \/ queued'[d] # Absent \/ d \in givenUp'
                              \/ sent'[d] = Payload \/ d \in dropped'
    PROVE  IInv'
<1>1. /\ sent \in [Delivery -> SUBSET Payload] /\ sent' \in [Delivery -> SUBSET Payload]
      /\ attempt \in [Worker -> Attempt] /\ stored' \subseteq Delivery
      /\ \A v \in Worker : Placed(v)
  BY TypeParts DEF IInv, Data
<1>2. \A d \in Delivery : sent[d] \subseteq sent'[d] /\ sent'[d] \subseteq Payload
  BY <1>1
<1>3. \A v \in Worker : attempt'[v] = IF v = w THEN a ELSE attempt[v]
  BY <1>1
<1>4. attempt' \in [Worker -> Attempt]
  BY <1>1
<1>5. TypeOK'
  <2>1. SUFFICES ASSUME NEW v \in Worker PROVE Placed(v)'
    BY <1>4 DEF TypeOK, Data, Placed
  <2>2. CASE v = w
    BY <1>3, <2>2 DEF Placed, Is, Item
  <2>3. CASE v # w
    BY <1>1, <1>3, <2>3 DEF Placed, Is, Item
  <2>4. QED
    BY <2>2, <2>3
<1>6. Tracks'
  <2>1. SUFFICES ASSUME NEW v \in Worker PROVE Sound(attempt'[v], sent', dropped')
    BY DEF Tracks
  <2>2. CASE v = w
    BY <1>3, <2>2
  <2>3. CASE v # w
    <3>1. attempt'[v] = attempt[v] /\ Sound(attempt[v], sent, dropped)
      BY <1>3, <2>3 DEF IInv, Tracks
    <3>2. QED
      BY <1>2, <3>1, SoundGrows
  <2>4. QED
    BY <2>2, <2>3
<1>7. NothingLost'
  <2>1. SUFFICES ASSUME NEW d \in stored'
        PROVE  \/ queued'[d] # Absent \/ d \in givenUp' \/ sent'[d] = Payload \/ d \in dropped'
    BY DEF NothingLost
  <2>2. d \in stored => \/ queued[d] # Absent \/ d \in givenUp
                        \/ sent[d] = Payload \/ d \in dropped
    BY DEF IInv, NothingLost
  <2>3. d \in Delivery
    BY <1>1
  <2>4. QED
    BY <1>2, <2>2, <2>3
<1>8. QED
  BY <1>5, <1>6, <1>7 DEF IInv

\* What holds at the beginning of every step of a worker.
LEMMA Here ==
    ASSUME IInv, NEW w \in Worker
    PROVE  /\ Data /\ attempt[w] \in Attempt /\ Sound(attempt[w], sent, dropped)
           /\ attempt[w].step \in Working => Item(w) \in Delivery
           /\ w \notin Pass => Item(w) = w /\ w \in Delivery
           /\ Item(w) \in 0..N
           /\ w \in Pass /\ Is(w, "next") => pending[w] # {}
<1>1. Data /\ attempt \in [Worker -> Attempt] /\ Placed(w)
  BY TypeParts DEF IInv
<1>2. attempt[w] \in Attempt /\ Sound(attempt[w], sent, dropped)
  BY <1>1 DEF IInv, Tracks
<1>3. QED
  BY <1>1, <1>2, AttemptFields DEF Placed, Sound, Item, Worker

\* Going to a step that promises nothing, with what the disk and the histories keep.
LEMMA GoesOn ==
    ASSUME IInv, NEW w \in Worker, NEW step \in Step \ {"ack", "write", "next"},
           Goto(w, step), step \in Working => Item(w) \in Delivery,
           pending' = pending, Data', sent' = sent,
           dropped \subseteq dropped', givenUp' = givenUp,
           stored' = stored \/ (stored' = stored \union {w} /\ queued'[w] # Absent),
           \A d \in Delivery : queued[d] # Absent => queued'[d] # Absent
    PROVE  IInv'
<1>1. PICK a : a = At(Item(w), step, 0)
  OBVIOUS
<1>2. /\ Item(w) \in 0..N
      /\ w \notin Pass => Item(w) = w
      /\ Data
  BY Here
<1>3. /\ a \in Attempt /\ a.item = Item(w) /\ a.step = step /\ a.part = 1
  BY <1>1, <1>2, AtFields
<1>4. attempt' = [attempt EXCEPT ![w] = a]
  BY <1>1 DEF Goto, GotoWith
<1>5. Sound(a, sent', dropped')
  BY <1>3, DeliveryAssumption DEF Sound
<1>6. /\ stored \subseteq Delivery
      /\ \A d \in stored' : \/ d \in stored /\ (queued[d] # Absent => queued'[d] # Absent)
                            \/ queued'[d] # Absent
  BY <1>2 DEF Data
<1>7. /\ IF w \in Pass THEN a.step = "next" => pending'[w] # {} ELSE a.item = w
      /\ \A d \in Delivery : sent[d] \subseteq sent'[d]
  BY <1>2, <1>3
<1>8. QED
  BY <1>3, <1>4, <1>5, <1>6, <1>7, OneWorker

\* Leaving an entry, in a step that keeps the files or takes out one that may go.
LEMMA Leaves ==
    ASSUME IInv, NEW w \in Worker, Leave(w), pending' = pending, Data', sent' = sent,
           dropped' = dropped, givenUp \subseteq givenUp', stored' = stored,
           \A d \in Delivery : \/ queued[d] # Absent => queued'[d] # Absent
                               \/ sent[d] = Payload \/ d \in dropped \/ d \in givenUp'
    PROVE  IInv'
<1>1. PICK a : a = IF w \in Pass
                   THEN IF pending[w] = {} THEN Free ELSE At(0, "next", 0)
                   ELSE At(Item(w), "done", 0)
  OBVIOUS
<1>2. Item(w) \in 0..N /\ (w \notin Pass => Item(w) = w) /\ Data
  BY Here
<1>3. /\ a \in Attempt /\ a.step \in {"idle", "next", "done"}
      /\ IF w \in Pass THEN a.step = "next" => pending'[w] # {} ELSE a.item = w
  <2>1. /\ 0 \in 0..N /\ 0 \in Int
        /\ "idle" \in Step /\ "next" \in Step /\ "done" \in Step
    BY DeliveryAssumption DEF Step
  <2>2. /\ Free \in Attempt /\ Free.step = "idle"
        /\ At(0, "next", 0) \in Attempt /\ At(0, "next", 0).step = "next"
    BY <2>1, AtFields DEF Free
  <2>3. /\ At(Item(w), "done", 0) \in Attempt
        /\ At(Item(w), "done", 0).step = "done"
        /\ At(Item(w), "done", 0).item = Item(w)
    BY <1>2, <2>1, AtFields
  <2>4. QED
    BY <1>1, <1>2, <2>2, <2>3
<1>4. attempt' = [attempt EXCEPT ![w] = a]
  BY <1>1 DEF Leave, Goto, GotoWith
<1>5. Sound(a, sent', dropped')
  BY <1>3 DEF Sound, Working
<1>6. /\ stored \subseteq Delivery
      /\ \A d \in stored' : \/ d \in stored /\ (queued[d] # Absent => queued'[d] # Absent)
                            \/ queued'[d] # Absent \/ d \in givenUp'
                            \/ sent'[d] = Payload \/ d \in dropped'
  BY <1>2 DEF Data
<1>7. QED
  BY <1>3, <1>4, <1>5, <1>6, OneWorker
----------------------------------------------------------------------------
\* A live delivery begins and writes its entry.
LEMMA BeginStep == ASSUME IInv, NEW d \in Delivery, Begin(d) PROVE IInv'
<1>1. d \in Worker /\ Data /\ "storing" \in Step \ {"ack", "write", "next"} /\ "storing" \notin Working
  BY Here DEF Worker, Step, Working
<1>2. Data'
  BY <1>1 DEF Data, Begin, disk, passes, luck, history
<1>3. QED
  BY <1>1, <1>2, GoesOn DEF Begin, disk, passes, history

LEMMA StoreStep == ASSUME IInv, NEW d \in Delivery, Store(d) PROVE IInv'
<1>1. d \in Worker /\ Data /\ "sending" \in Step \ {"ack", "write", "next"}
  BY Here DEF Worker, Step
<1>2. Item(d) \in Delivery
  BY <1>1, DeliveryAssumption, Here
<1>3. /\ queued' \in [Delivery -> Nat \union {Absent}] /\ queued'[d] # Absent
      /\ \A e \in Delivery : queued[e] # Absent => queued'[e] # Absent
  BY <1>1 DEF Data, Store, Absent
<1>4. Data'
  BY <1>1, <1>3 DEF Data, Store, passes, luck, history
<1>5. QED
  BY <1>1, <1>2, <1>3, <1>4, GoesOn DEF Store, passes, history

LEMMA StoreFailsStep == ASSUME IInv, NEW d \in Delivery, StoreFails(d) PROVE IInv'
<1>1. d \in Worker /\ Data /\ "sending" \in Step \ {"ack", "write", "next"}
  BY Here DEF Worker, Step
<1>2. Item(d) \in Delivery
  BY <1>1, DeliveryAssumption, Here
<1>3. Data'
  BY <1>1, DeliveryAssumption DEF Data, StoreFails, Fault, disk, passes, history
<1>4. QED
  BY <1>1, <1>2, <1>3, GoesOn DEF StoreFails, disk, passes, history

\* The payload loop.  A worker one payload further on is sound: it sent the last one,
\* or an observer or dropped knows that it did not.
LEMMA OnwardKeeps ==
    ASSUME IInv, NEW w \in Worker, InLoop(w), NEW partial \in BOOLEAN, Onward(w, partial),
           Data', UNCHANGED <<queued, givenUp, stored, pending>>,
           \A d \in Delivery : sent[d] \subseteq sent'[d],
           dropped \subseteq dropped',
           ~partial => /\ ~attempt[w].partial
                       /\ attempt[w].part \in sent'[Item(w)] \/ Item(w) \in dropped'
    PROVE  IInv'
<1>1. PICK a : a = InAttempt(Item(w), "sending", attempt[w].part + 1, partial, 0)
  OBVIOUS
<1>2. /\ Data /\ Item(w) \in Delivery /\ Item(w) \in 0..N
      /\ w \notin Pass => Item(w) = w
      /\ attempt[w] \in Attempt /\ Sound(attempt[w], sent, dropped)
  BY Here DEF InLoop, Is, Working
<1>3. attempt[w].part \in 1..Payloads
  BY <1>2, AttemptFields, DeliveryAssumption DEF InLoop
<1>4. /\ a.item = Item(w) /\ a.step = "sending" /\ a.part = attempt[w].part + 1
      /\ a.partial = partial
  BY <1>1 DEF InAttempt
<1>5. a \in Attempt
  BY <1>1, <1>2, <1>3, DeliveryAssumption DEF InAttempt, Attempt, Step
<1>6. attempt' = [attempt EXCEPT ![w] = a]
  BY <1>1 DEF Onward
<1>7. Sound(a, sent', dropped')
  <2>1. ASSUME ~partial, Item(w) \notin dropped'
        PROVE  1..(a.part - 1) \subseteq sent'[Item(w)]
    <3>1. 1..(attempt[w].part - 1) \subseteq sent[Item(w)]
      BY <1>2, <2>1 DEF Sound, InLoop, Is, Item
    <3>2. \A i \in 1..(a.part - 1) : i \in 1..(attempt[w].part - 1) \/ i = attempt[w].part
      BY <1>3, <1>4
    <3>3. QED
      BY <1>2, <2>1, <3>1, <3>2
  <2>2. a.step = "sending" /\ ~a.partial /\ a.item \notin dropped'
          => 1..(a.part - 1) \subseteq sent'[a.item]
    BY <1>4, <2>1
  <2>3. a.item \in Delivery /\ a.part \in 1..(Payloads + 1)
    BY <1>2, <1>3, <1>4, DeliveryAssumption
  <2>4. QED
    BY <1>4, <2>2, <2>3 DEF Sound
<1>8. /\ stored \subseteq Delivery
      /\ IF w \in Pass THEN a.step = "next" => pending'[w] # {} ELSE a.item = w
  BY <1>2, <1>4 DEF Data
<1>9. QED
  BY <1>5, <1>6, <1>7, <1>8, OneWorker

LEMMA SendStep == ASSUME IInv, NEW w \in Worker, SendPayload(w) PROVE IInv'
<1>1. /\ Data /\ Item(w) \in Delivery /\ attempt[w] \in Attempt
  BY Here DEF SendPayload, InLoop, Is, Working
<1>2. attempt[w].part \in Payload /\ attempt[w].partial \in BOOLEAN
  BY <1>1, AttemptFields, DeliveryAssumption DEF SendPayload, InLoop, Payload
<1>3. /\ sent' \in [Delivery -> SUBSET Payload] /\ attempt[w].part \in sent'[Item(w)]
      /\ \A d \in Delivery : sent[d] \subseteq sent'[d]
  BY <1>1, <1>2 DEF Data, SendPayload
<1>4. Data'
  BY <1>1, <1>3 DEF Data, SendPayload, disk, passes, luck
<1>5. PICK partial \in BOOLEAN : partial = attempt[w].partial
  BY <1>2
<1>6. Onward(w, partial) /\ (~partial => ~attempt[w].partial)
  BY <1>5 DEF SendPayload
<1>7. QED
  BY <1>3, <1>4, <1>6, OnwardKeeps DEF SendPayload, disk, passes

LEMMA SkipStep == ASSUME IInv, NEW w \in Worker, SkipPayload(w) PROVE IInv'
<1>1. /\ Data /\ Item(w) \in Delivery /\ attempt[w] \in Attempt
      /\ w \notin Pass => Item(w) = w
  BY Here DEF SkipPayload, InLoop, Is, Working
<1>2. attempt[w].partial \in BOOLEAN
  BY <1>1, AttemptFields
<1>3. PICK partial \in BOOLEAN : partial = (attempt[w].partial \/ Observed(w))
  BY <1>2 DEF Observed
<1>4. /\ Onward(w, partial)
      /\ ~partial => ~attempt[w].partial /\ ~Observed(w)
  BY <1>3 DEF SkipPayload
<1>5. /\ dropped' = IF Observed(w) THEN dropped ELSE dropped \union {Item(w)}
      /\ InLoop(w) /\ sent' = sent
  BY DEF SkipPayload
<1>6. dropped \subseteq dropped' /\ (~partial => Item(w) \in dropped')
  BY <1>4, <1>5
<1>7. Data'
  BY <1>1 DEF Data, SkipPayload, disk, passes, luck
<1>8. QED
  BY <1>4, <1>5, <1>6, <1>7, OnwardKeeps DEF SkipPayload, disk, passes

LEMMA ThrowStep ==
    ASSUME IInv, NEW w \in Worker, NEW permanent \in BOOLEAN, Throw(w, permanent) PROVE IInv'
<1>1. PICK step : step = IF w \in Pass /\ permanent THEN "move" ELSE "fail"
  OBVIOUS
<1>2. Data /\ Item(w) \in Delivery
  BY Here DEF Throw, Is, Working
<1>3. step \in Step \ {"ack", "write", "next"} /\ Goto(w, step)
  BY <1>1 DEF Throw, Step
<1>4. Data'
  <2>1. failures' \in [Delivery -> 0..MaxRetries]
    BY <1>2, DeliveryAssumption DEF Data, Throw, Counted
  <2>2. hopeless' \subseteq Delivery
    BY <1>2 DEF Data, Throw
  <2>3. QED
    BY <1>2, <2>1, <2>2 DEF Data, Throw, disk, passes, luck
<1>5. QED
  BY <1>2, <1>3, <1>4, GoesOn DEF Throw, disk, passes

\* To "ack", once all is sent or dropped.
LEMMA ToAck ==
    ASSUME IInv, NEW w \in Worker, Goto(w, "ack"), Item(w) \in Delivery, Data',
           UNCHANGED <<queued, givenUp, stored, pending, sent>>,
           dropped \subseteq dropped', sent[Item(w)] = Payload \/ Item(w) \in dropped'
    PROVE  IInv'
<1>1. PICK a : a = At(Item(w), "ack", 0)
  OBVIOUS
<1>2. /\ Data /\ Item(w) \in 0..N
      /\ w \notin Pass => Item(w) = w
  BY Here
<1>3. "ack" \in Step /\ 0 \in Int
  BY DEF Step
<1>4. a \in Attempt /\ a.item = Item(w) /\ a.step = "ack"
  BY <1>1, <1>2, <1>3, AtFields
<1>5. attempt' = [attempt EXCEPT ![w] = a]
  BY <1>1 DEF Goto, GotoWith
<1>6. Sound(a, sent', dropped')
  BY <1>4 DEF Sound
<1>7. /\ stored \subseteq Delivery
      /\ IF w \in Pass THEN a.step = "next" => pending'[w] # {} ELSE a.item = w
  BY <1>2, <1>4 DEF Data
<1>8. QED
  BY <1>4, <1>5, <1>6, <1>7, OneWorker

LEMMA AbortStep == ASSUME IInv, NEW d \in Delivery, Abort(d) PROVE IInv'
<1>1. d \in Worker /\ Data /\ Item(d) = d
  BY Here, DeliveryAssumption DEF Worker
<1>2. Data'
  BY <1>1 DEF Data, Abort, disk, passes, luck
<1>3. QED
  BY <1>1, <1>2, ToAck DEF Abort, disk, passes

LEMMA FinishStep == ASSUME IInv, NEW w \in Worker, Finish(w) PROVE IInv'
<1>1. /\ Data /\ Item(w) \in Delivery /\ attempt[w] \in Attempt
      /\ Sound(attempt[w], sent, dropped)
  BY Here DEF Finish, Is, Working
<1>2. Data'
  BY <1>1, DeliveryAssumption DEF Data, Finish, Counted, disk, passes, luck
<1>3. CASE attempt[w].partial
  <2>1. Goto(w, "fail") /\ "fail" \in Step \ {"ack", "write", "next"}
    BY <1>3 DEF Finish, Step
  <2>2. QED
    BY <1>1, <1>2, <2>1, GoesOn DEF Finish, disk, passes
<1>4. CASE ~attempt[w].partial
  <2>1. Goto(w, "ack") /\ attempt[w].part = Payloads + 1 /\ attempt[w].step = "sending"
    BY <1>4 DEF Finish, Is
  <2>2. Item(w) \notin dropped => Payload \subseteq sent[Item(w)]
    BY <1>1, <1>4, <2>1, DeliveryAssumption DEF Sound, Payload, Item
  <2>3. sent[Item(w)] \subseteq Payload
    BY <1>1 DEF Data
  <2>4. sent[Item(w)] = Payload \/ Item(w) \in dropped
    BY <2>2, <2>3
  <2>5. QED
    BY <1>1, <1>2, <2>1, <2>4, ToAck DEF Finish, disk, passes
<1>5. QED
  BY <1>3, <1>4
----------------------------------------------------------------------------
\* What an attempt leaves in the queue.
LEMMA ForgetStep == ASSUME IInv, NEW d \in Delivery, Forget(d) PROVE IInv'
<1>1. d \in Worker /\ Data
  BY Here DEF Worker
<1>2. Data'
  BY <1>1 DEF Data, Forget, disk, passes, luck, history
<1>3. QED
  BY <1>1, <1>2, Leaves DEF Forget, disk, passes, history

LEMMA AckStep == ASSUME IInv, NEW w \in Worker, Ack(w) PROVE IInv'
<1>1. /\ Data /\ Item(w) \in Delivery
      /\ sent[Item(w)] = Payload \/ Item(w) \in dropped
  BY Here DEF Ack, Is, Working, Sound, Item
<1>2. Data'
  BY <1>1 DEF Data, Ack, passes, luck, history
<1>3. \A d \in Delivery : \/ queued[d] # Absent => queued'[d] # Absent
                          \/ sent[d] = Payload \/ d \in dropped
  BY <1>1 DEF Data, Ack
<1>4. QED
  BY <1>2, <1>3, Leaves DEF Ack, passes, history

LEMMA AckFailsStep == ASSUME IInv, NEW w \in Worker, AckFails(w) PROVE IInv'
<1>1. Data /\ Item(w) \in Delivery
  BY Here DEF AckFails, Is, Working
<1>2. Data'
  <2>1. /\ faults \in Nat /\ MaxFaults \in Nat /\ faults < MaxFaults
        /\ faults' = faults + 1
    BY <1>1, DeliveryAssumption DEF Data, AckFails, Fault
  <2>2. faults' \in 0..MaxFaults
    BY <2>1
  <2>3. failures' \in [Delivery -> 0..MaxRetries]
    <3>1. CASE w \in Pass
      BY <1>1, <3>1, DeliveryAssumption DEF Data, AckFails, Counted
    <3>2. CASE w \notin Pass
      BY <1>1, <3>2 DEF Data, AckFails
    <3>3. QED
      BY <3>1, <3>2
  <2>4. QED
    BY <1>1, <2>2, <2>3 DEF Data, AckFails, disk, passes
<1>3. CASE w \in Pass
  <2>1. Goto(w, "fail") /\ "fail" \in Step \ {"ack", "write", "next"}
    BY <1>3 DEF AckFails, Step
  <2>2. QED
    BY <1>1, <1>2, <2>1, GoesOn DEF AckFails, disk, passes
<1>4. CASE w \notin Pass
  BY <1>2, <1>4, Leaves DEF AckFails, disk, passes
<1>5. QED
  BY <1>3, <1>4

LEMMA FailReadStep == ASSUME IInv, NEW w \in Worker, FailRead(w) PROVE IInv'
<1>1. PICK a : a = At(Item(w), "write", queued[Item(w)])
  OBVIOUS
<1>2. /\ Data /\ Item(w) \in Delivery /\ Item(w) \in 0..N
      /\ w \notin Pass => Item(w) = w
  BY Here DEF FailRead, Is, Working
<1>3. queued[Item(w)] \in Nat /\ queued[Item(w)] \in Int /\ "write" \in Step
  BY <1>2 DEF Data, FailRead, Step
<1>4. a \in Attempt /\ a.item = Item(w) /\ a.step = "write" /\ a.seen = queued[Item(w)]
  BY <1>1, <1>2, <1>3, AtFields
<1>5. attempt' = [attempt EXCEPT ![w] = a]
  BY <1>1 DEF FailRead, GotoWith
<1>6. Data'
  BY <1>2 DEF Data, FailRead, disk, passes, luck, history
<1>7. Sound(a, sent', dropped')
  BY <1>2, <1>3, <1>4 DEF Sound
<1>8. /\ UNCHANGED <<queued, givenUp, stored, pending, sent, dropped>> /\ stored \subseteq Delivery
      /\ IF w \in Pass THEN a.step = "next" => pending'[w] # {} ELSE a.item = w
  BY <1>2, <1>4 DEF Data, FailRead, disk, passes, history
<1>9. QED
  BY <1>4, <1>5, <1>6, <1>7, <1>8, OneWorker

LEMMA FailReadFailsStep == ASSUME IInv, NEW w \in Worker, FailReadFails(w) PROVE IInv'
<1>1. Data
  BY Here
<1>2. Data'
  BY <1>1, DeliveryAssumption DEF Data, FailReadFails, Fault, disk, passes, history
<1>3. QED
  BY <1>2, Leaves DEF FailReadFails, disk, passes, history

LEMMA FailWriteStep == ASSUME IInv, NEW w \in Worker, FailWrite(w) PROVE IInv'
<1>1. Data /\ Item(w) \in Delivery /\ attempt[w].seen \in Nat
  BY Here DEF FailWrite, Is, Working, Sound
<1>2. attempt[w].seen + 1 \in Nat /\ attempt[w].seen + 1 # Absent
  BY <1>1 DEF Absent
<1>3. /\ queued' \in [Delivery -> Nat \union {Absent}]
      /\ \A d \in Delivery : queued[d] # Absent => queued'[d] # Absent
  BY <1>1, <1>2 DEF Data, FailWrite
<1>4. Data'
  BY <1>1, <1>3 DEF Data, FailWrite, passes, luck, history
<1>5. QED
  BY <1>3, <1>4, Leaves DEF FailWrite, passes, history

LEMMA FailWriteFailsStep == ASSUME IInv, NEW w \in Worker, FailWriteFails(w) PROVE IInv'
<1>1. Data
  BY Here
<1>2. Data'
  BY <1>1, DeliveryAssumption DEF Data, FailWriteFails, Fault, disk, passes, history
<1>3. QED
  BY <1>2, Leaves DEF FailWriteFails, disk, passes, history

----------------------------------------------------------------------------
\* The recovery pass.  A pass at a new entry, or at none, is sound.
LEMMA PassGoes ==
    ASSUME IInv, NEW r \in Pass, NEW a \in Attempt, attempt' = [attempt EXCEPT ![r] = a],
           a.step \in {"sending", "move"} => a.item \in Delivery /\ a.part = 1,
           a.step \in {"sending", "move", "next", "idle"},
           a.step = "next" => pending'[r] # {},
           \A v \in Pass : v # r => pending'[v] = pending[v],
           Data', UNCHANGED <<queued, givenUp, stored, sent, dropped>>
    PROVE  IInv'
<1>1. r \in Worker /\ Data
  BY Here DEF Worker
<1>2. Sound(a, sent', dropped')
  BY DeliveryAssumption DEF Sound, Working
<1>3. stored \subseteq Delivery
  BY <1>1 DEF Data
<1>4. QED
  BY <1>1, <1>2, <1>3, OneWorker

LEMMA LoadStep == ASSUME IInv, NEW r \in Pass, Load(r) PROVE IInv'
<1>1. PICK a : a = At(0, "next", 0)
  OBVIOUS
<1>2. r \in Worker /\ Data
  BY Here DEF Worker
<1>3. 0 \in 0..N /\ "next" \in Step /\ 0 \in Int
  BY DeliveryAssumption DEF Step
<1>4. a \in Attempt /\ a.step = "next"
  BY <1>1, <1>3, AtFields
<1>5. Loaded \in SUBSET Entry
  BY <1>2 DEF Data, Loaded, Entry
<1>6. /\ pending' \in [Pass -> SUBSET Entry] /\ pending'[r] # {}
      /\ \A v \in Pass : v # r => pending'[v] = pending[v]
  BY <1>2, <1>5 DEF Data, Load
<1>7. Data'
  BY <1>2, <1>6, DeliveryAssumption DEF Data, Load, disk, luck, history
<1>8. QED
  BY <1>1, <1>4, <1>6, <1>7, PassGoes DEF Load, disk, history

LEMMA TakeStep ==
    ASSUME IInv, NEW r \in Pass, NEW e \in pending[r], NEW step \in {"sending", "move"},
           Take(r, e, step), Data', UNCHANGED <<queued, givenUp, stored, sent, dropped>>
    PROVE  IInv'
<1>1. PICK a : a = At(e.id, step, 0)
  OBVIOUS
<1>2. r \in Worker /\ Data
  BY Here DEF Worker
<1>3. e.id \in Delivery /\ e.id \in 0..N /\ step \in Step /\ 0 \in Int
  <2>1. e \in Entry
    BY <1>2 DEF Data
  <2>2. e.id \in Delivery
    BY <2>1 DEF Entry
  <2>3. e.id \in 0..N
    BY <2>2, DeliveryAssumption DEF Delivery
  <2>4. step \in Step /\ 0 \in Int
    BY DEF Step
  <2>5. QED
    BY <2>2, <2>3, <2>4
<1>4. a \in Attempt /\ a.step = step /\ a.item = e.id /\ a.part = 1
  BY <1>1, <1>3, AtFields
<1>5. \A v \in Pass : v # r => pending'[v] = pending[v]
  BY <1>2 DEF Data, Take
<1>6. QED
  BY <1>1, <1>3, <1>4, <1>5, PassGoes DEF Take

LEMMA GiveUpStep ==
    ASSUME IInv, NEW r \in Pass, NEW e \in pending[r], GiveUp(r, e) PROVE IInv'
<1>1. Data
  BY Here DEF Worker
<1>2. Data'
  BY <1>1 DEF Data, GiveUp, Take, disk, luck, history
<1>3. QED
  BY <1>2, TakeStep DEF GiveUp, disk, history

LEMMA RetryStep ==
    ASSUME IInv, NEW r \in Pass, NEW e \in pending[r], Retry(r, e) PROVE IInv'
<1>1. Data
  BY Here DEF Worker
<1>2. Wait(e.retryCount + 1) \in Nat
  <2>1. e.retryCount \in Nat
    BY <1>1 DEF Data, Entry
  <2>2. Len(Backoff) \in Nat \ {0} /\ \A i \in 1..Len(Backoff) : Backoff[i] \in Nat
    BY DeliveryAssumption
  <2>3. QED
    BY <2>1, <2>2 DEF Wait
<1>3. PICK rest \in 0..(left[r] - Wait(e.retryCount + 1)) : left' = [left EXCEPT ![r] = rest]
  BY DEF Retry
<1>4. left' \in [Pass -> 0..Budget]
  <2>1. left \in [Pass -> 0..Budget] /\ left[r] \in 0..Budget
    BY <1>1 DEF Data
  <2>2. rest \in 0..Budget
    BY <1>2, <2>1, DeliveryAssumption
  <2>3. QED
    BY <1>3, <2>1, <2>2
<1>5. Data'
  BY <1>1, <1>4 DEF Data, Retry, Take, disk, luck, history
<1>6. QED
  BY <1>5, TakeStep DEF Retry, disk, history

LEMMA DeferStep ==
    ASSUME IInv, NEW r \in Pass, NEW e \in pending[r], Defer(r, e) PROVE IInv'
<1>1. Data
  BY Here DEF Worker
<1>2. 0 \in 0..N /\ "idle" \in Step /\ 0 \in Int
  BY DeliveryAssumption DEF Step
<1>3. Free \in Attempt /\ Free.step = "idle"
  BY <1>2, AtFields DEF Free
<1>4. \A v \in Pass : v # r => pending'[v] = pending[v]
  BY <1>1 DEF Data, Defer
<1>5. Data'
  BY <1>1, DeliveryAssumption DEF Data, Defer, disk, luck, history
<1>6. QED
  BY <1>3, <1>4, <1>5, PassGoes DEF Defer, disk, history

LEMMA MoveStep == ASSUME IInv, NEW r \in Pass, Move(r) PROVE IInv'
<1>1. r \in Worker /\ Data /\ Item(r) \in Delivery
  BY Here DEF Worker, Move, Is, Working
<1>2. /\ givenUp \subseteq givenUp' /\ givenUp' \subseteq Delivery
      /\ queued' \in [Delivery -> Nat \union {Absent}]
      /\ \A d \in Delivery : (queued[d] # Absent => queued'[d] # Absent) \/ d \in givenUp'
  BY <1>1 DEF Data, Move, disk
<1>3. Data'
  BY <1>1, <1>2 DEF Data, Move, passes, luck, history
<1>4. QED
  BY <1>1, <1>2, <1>3, Leaves DEF Move, passes, history

LEMMA MoveFailsStep == ASSUME IInv, NEW r \in Pass, MoveFails(r) PROVE IInv'
<1>1. r \in Worker /\ Data
  BY Here DEF Worker
<1>2. Data'
  BY <1>1, DeliveryAssumption DEF Data, MoveFails, Fault, disk, passes, history
<1>3. QED
  BY <1>1, <1>2, Leaves DEF MoveFails, disk, passes, history

----------------------------------------------------------------------------
\* A crash takes no file.
LEMMA CrashStep == ASSUME IInv, Crash PROVE IInv'
<1>1. Data /\ attempt \in [Worker -> Attempt] /\ \A w \in Worker : Placed(w)
  BY TypeParts DEF IInv
<1>2. Data'
  BY <1>1, DeliveryAssumption DEF Data, Crash, disk, history
<1>3. ASSUME NEW w \in Worker
      PROVE  /\ attempt'[w] \in Attempt
             /\ attempt'[w].step \in {"idle", "new", "done"}
             /\ w \notin Pass => attempt'[w].item = w
  <2>1. /\ 0 \in 0..N /\ 0 \in Int /\ "idle" \in Step /\ "done" \in Step
        /\ w \notin Pass => w \in 0..N
    BY DeliveryAssumption DEF Step, Worker, Delivery
  <2>2. Free \in Attempt /\ Free.step = "idle"
    BY <2>1, AtFields DEF Free
  <2>3. w \notin Pass => /\ At(w, "done", 0) \in Attempt /\ At(w, "done", 0).step = "done"
                         /\ At(w, "done", 0).item = w
    BY <2>1, AtFields
  <2>4. attempt'[w] = IF w \in Pass THEN Free
                      ELSE IF Is(w, "new") THEN attempt[w] ELSE At(w, "done", 0)
    BY DEF Crash
  <2>5. attempt[w] \in Attempt /\ (w \notin Pass => attempt[w].item = w)
    BY <1>1 DEF Placed, Item
  <2>6. QED
    BY <2>2, <2>3, <2>4, <2>5 DEF Is
<1>4. attempt' \in [Worker -> Attempt]
  <2>1. attempt' = [w \in Worker |-> attempt'[w]]
    BY DEF Crash
  <2>2. QED
    BY <1>3, <2>1
<1>5. TypeOK'
  BY <1>2, <1>3, <1>4 DEF TypeOK, Data, Is, Item
<1>6. Tracks'
  BY <1>3 DEF Tracks, Sound, Working
<1>7. NothingLost'
  BY DEF IInv, NothingLost, Crash, disk, history
<1>8. QED
  BY <1>5, <1>6, <1>7 DEF IInv

LEMMA InitInv == Init => IInv
<1> SUFFICES ASSUME Init PROVE IInv
  OBVIOUS
<1>1. /\ 0 \in 0..N /\ 0 \in Int /\ "idle" \in Step /\ "new" \in Step
      /\ \A d \in Delivery : d \in 0..N
  BY DeliveryAssumption DEF Step, Delivery
<1>2. Free \in Attempt /\ Free.step = "idle"
  BY <1>1, AtFields DEF Free
<1>3. \A d \in Delivery : /\ At(d, "new", 0) \in Attempt /\ At(d, "new", 0).step = "new"
                          /\ At(d, "new", 0).item = d
  BY <1>1, AtFields
<1>4. Data
  BY DeliveryAssumption DEF Init, Data, Absent
<1>5. \A w \in Worker : attempt[w] = IF w \in Pass THEN Free ELSE At(w, "new", 0)
  BY DEF Init
<1>6. \A w \in Worker : /\ attempt[w] \in Attempt /\ attempt[w].step \in {"idle", "new"}
                        /\ w \notin Pass => attempt[w].item = w
  BY <1>2, <1>3, <1>5 DEF Worker
<1>7. attempt \in [Worker -> Attempt]
  <2>1. attempt = [w \in Worker |-> attempt[w]]
    BY DEF Init
  <2>2. QED
    BY <1>6, <2>1
<1>8. TypeOK
  BY <1>4, <1>6, <1>7 DEF TypeOK, Data, Is, Item
<1>9. Tracks /\ NothingLost
  BY <1>6 DEF Tracks, Sound, Working, NothingLost, Init
<1>10. QED
  BY <1>8, <1>9 DEF IInv

LEMMA NextStep == IInv /\ [Next]_vars => IInv'
<1> SUFFICES ASSUME IInv, [Next]_vars PROVE IInv'
  OBVIOUS
<1>1. Delivery \subseteq Worker /\ Pass \subseteq Worker
  BY DEF Worker
<1>2. ASSUME NEW w \in Worker, Deliver(w) \/ Settle(w) PROVE IInv'
  BY <1>2, SendStep, SkipStep, FinishStep, ThrowStep, AckStep, AckFailsStep, FailReadStep,
     FailReadFailsStep, FailWriteStep, FailWriteFailsStep DEF Deliver, Settle
<1>3. ASSUME NEW d \in Delivery, Begin(d) \/ LiveStep(d) PROVE IInv'
  BY <1>1, <1>2, <1>3, BeginStep, StoreStep, StoreFailsStep, AbortStep, ForgetStep DEF LiveStep
<1>4. ASSUME NEW r \in Pass, Load(r) \/ PassStep(r) PROVE IInv'
  BY <1>1, <1>2, <1>4, LoadStep, GiveUpStep, DeferStep, RetryStep, MoveStep, MoveFailsStep
     DEF PassStep
<1>5. CASE UNCHANGED vars
  BY <1>5 DEF IInv, TypeOK, Tracks, NothingLost, Is, Item, vars, disk, passes, luck, history
<1>6. QED
  BY <1>3, <1>4, <1>5, CrashStep DEF Next

----------------------------------------------------------------------------
\* IInv holds in every state.
THEOREM Invariance == Spec => []IInv
BY InitInv, NextStep, PTL DEF Spec

\* The queue, the deliveries and the passes keep their types (TypeOK).
THEOREM TypeCorrect == Spec => []TypeOK
<1>1. IInv => TypeOK
  BY DEF IInv
<1>2. QED
  BY Invariance, <1>1, PTL

\* No stored delivery is lost (NothingLost), for any number of deliveries, payloads,
\* overlapping passes, faults and crashes, any backoff and any budget.
THEOREM DeliverySafe == Spec => []NothingLost
<1>1. IInv => NothingLost
  BY DEF IInv
<1>2. QED
  BY Invariance, <1>1, PTL

----------------------------------------------------------------------------
(* GivenUpLate.  Between the attempt that failed and the file that says so *)
(* there may be any number of workers: the count of the file, or the one a *)
(* worker is about to write back, never exceeds the failures even when all *)
(* of them increase it.  failures itself stops at MaxRetries.              *)

\* The workers with a failed attempt at d that the file does not count yet.
Failing(d) == {w \in Worker : Item(w) = d /\ attempt[w].step \in {"fail", "write"}}
Reached(d, count) == failures[d] = MaxRetries \/ count <= failures[d]
Counts(d) ==
    /\ IsFiniteSet(Failing(d))
    /\ Reached(d, Cardinality(Failing(d)))
    /\ Reached(d, queued[d] + Cardinality(Failing(d)))
    /\ \A w \in Failing(d) : Is(w, "write") => Reached(d, attempt[w].seen + Cardinality(Failing(d)))

\* What a pass loaded, and what it gives up.
Loads == \A r \in Pass : \A e \in pending[r] : Reached(e.id, e.retryCount)
Moves == \A w \in Worker : Is(w, "move") => Item(w) \in hopeless \/ failures[Item(w)] = MaxRetries
Late == (\A d \in Delivery : Counts(d)) /\ Loads /\ Moves /\ GivenUpLate

Others(w) == \A v \in Worker : v # w => attempt'[v] = attempt[v]

LEMMA CountTypes ==
    ASSUME IInv, IInv', NEW d \in Delivery
    PROVE  /\ failures[d] \in 0..MaxRetries /\ failures'[d] \in 0..MaxRetries /\ MaxRetries \in Nat
           /\ queued[d] \in Int /\ queued'[d] \in Int
           /\ \A v \in Worker : attempt[v].seen \in Int /\ attempt'[v].seen \in Int
<1>1. failures[d] \in 0..MaxRetries /\ failures'[d] \in 0..MaxRetries /\ MaxRetries \in Nat
  BY DeliveryAssumption DEF IInv, TypeOK
<1>2. queued[d] \in Int /\ queued'[d] \in Int
  BY DEF IInv, TypeOK, Absent
<1>3. \A v \in Worker : attempt[v] \in Attempt /\ attempt'[v] \in Attempt
  BY DEF IInv, TypeOK
<1>4. \A v \in Worker : attempt[v].seen \in Int /\ attempt'[v].seen \in Int
  BY <1>3, AttemptFields
<1>5. QED
  BY <1>1, <1>2, <1>4

\* A step of w that adds no failed attempt at d, and may read or write the file.
LEMMA CountFalls ==
    ASSUME IInv, IInv', NEW d \in Delivery, Counts(d), NEW w \in Worker, Others(w),
           attempt'[w].step # "fail",
           attempt'[w].step = "write" =>
              Is(w, "fail") /\ attempt'[w].item = Item(w) /\ attempt'[w].seen = queued[Item(w)],
           failures[d] <= failures'[d],
           \/ queued'[d] <= queued[d] \/ queued'[d] = 0
           \/ /\ Is(w, "write") /\ Item(w) = d /\ attempt'[w].step # "write"
              /\ queued'[d] = attempt[w].seen + 1
    PROVE  Counts(d)'
<1>0. PICK now, after : now = Failing(d) /\ after = Failing(d)'
  OBVIOUS
<1>1. /\ failures[d] \in 0..MaxRetries /\ failures'[d] \in 0..MaxRetries /\ MaxRetries \in Nat
      /\ queued[d] \in Int /\ queued'[d] \in Int
      /\ \A v \in Worker : attempt[v].seen \in Int /\ attempt'[v].seen \in Int
  BY CountTypes
<1>2. after \subseteq now
  BY <1>0 DEF Others, Failing, Item, Is
<1>3. /\ IsFiniteSet(now) /\ IsFiniteSet(after)
      /\ Cardinality(now) \in Nat /\ Cardinality(after) \in Nat
      /\ Cardinality(after) <= Cardinality(now)
  BY <1>0, <1>2, FS_Subset, FS_CardinalityType DEF Counts
<1>4. ASSUME Is(w, "write"), Item(w) = d, attempt'[w].step # "write"
      PROVE  Cardinality(after) + 1 <= Cardinality(now)
             /\ Reached(d, attempt[w].seen + Cardinality(now))
  <2>1. w \in now /\ w \notin after
    BY <1>0, <1>4 DEF Failing, Item, Is
  <2>2. after \subseteq now \ {w} /\ IsFiniteSet(now \ {w})
    BY <1>0, <1>2, <1>3, <2>1, FS_Subset
  <2>3. Cardinality(after) <= Cardinality(now \ {w})
    BY <1>0, <2>2, FS_Subset
  <2>4. Cardinality(now \ {w}) = Cardinality(now) - 1
    BY <1>0, <1>3, <2>1, FS_RemoveElement
  <2>5. Reached(d, attempt[w].seen + Cardinality(now))
    BY <1>0, <1>4, <2>1 DEF Counts
  <2>6. QED
    BY <1>0, <1>3, <2>3, <2>4, <2>5
<1>5. ASSUME NEW v \in after, Is(v, "write")'
      PROVE  Reached(d, attempt'[v].seen + Cardinality(now))
  <2>1. CASE v = w
    BY <1>0, <1>5, <2>1 DEF Counts, Failing, Item, Is
  <2>2. CASE v # w
    BY <1>0, <1>2, <1>5, <2>2 DEF Counts, Others, Failing, Is
  <2>3. QED
    BY <1>0, <2>1, <2>2
<1>6. Reached(d, Cardinality(now)) /\ Reached(d, queued[d] + Cardinality(now))
  BY <1>0 DEF Counts
<1>7. Reached(d, Cardinality(after))'
  BY <1>0, <1>1, <1>3, <1>6 DEF Reached
<1>8. Reached(d, queued[d] + Cardinality(after))'
  BY <1>0, <1>1, <1>3, <1>4, <1>6 DEF Reached
<1>9. \A v \in after : Is(v, "write")' => Reached(d, attempt[v].seen + Cardinality(after))'
  BY <1>0, <1>1, <1>3, <1>5 DEF Reached, Failing
<1>10. QED
  BY <1>0, <1>3, <1>7, <1>8, <1>9 DEF Counts

\* An attempt of w at its delivery fails, and is counted.
LEMMA CountRises ==
    ASSUME IInv, IInv', NEW d \in Delivery, Counts(d), NEW w \in Worker, Others(w),
           attempt[w].step \notin {"fail", "write"},
           attempt'[w].step = "fail", attempt'[w].item = Item(w), queued'[d] = queued[d],
           failures' = [failures EXCEPT ![Item(w)] = IF @ < MaxRetries THEN @ + 1 ELSE @]
    PROVE  Counts(d)'
<1>0. PICK now, after : now = Failing(d) /\ after = Failing(d)'
  OBVIOUS
<1>1. /\ failures[d] \in 0..MaxRetries /\ failures'[d] \in 0..MaxRetries /\ MaxRetries \in Nat
      /\ queued[d] \in Int /\ queued'[d] \in Int
      /\ \A v \in Worker : attempt[v].seen \in Int /\ attempt'[v].seen \in Int
  BY CountTypes
<1>2. failures \in [Delivery -> 0..MaxRetries]
  BY <1>0 DEF IInv, TypeOK
<1>3. IsFiniteSet(now) /\ Cardinality(now) \in Nat
  BY <1>0, FS_CardinalityType DEF Counts
<1>4. CASE Item(w) # d
  <2>1. after = now /\ failures'[d] = failures[d]
    BY <1>0, <1>2, <1>4 DEF Others, Failing, Item
  <2>2. \A v \in now : Is(v, "write")' => Is(v, "write") /\ attempt'[v].seen = attempt[v].seen
    BY <1>0, <1>4 DEF Others, Failing, Is
  <2>3. QED
    BY <1>0, <2>1, <2>2 DEF Counts, Reached
<1>5. CASE Item(w) = d
  <2>1. after = now \union {w} /\ w \notin now
    BY <1>0, <1>5 DEF Others, Failing, Item
  <2>2. IsFiniteSet(after) /\ Cardinality(after) = Cardinality(now) + 1
    BY <1>0, <1>3, <2>1, FS_AddElement
  <2>3. failures'[d] = MaxRetries \/ failures'[d] = failures[d] + 1
    BY <1>0, <1>1, <1>2, <1>5
  <2>4. failures[d] = MaxRetries => failures'[d] = MaxRetries
    BY <1>0, <1>1, <1>2, <1>5
  <2>5. \A v \in after : Is(v, "write")' => v \in now /\ Is(v, "write") /\ attempt'[v].seen = attempt[v].seen
    BY <1>0, <2>1 DEF Others, Failing, Is
  <2>6. /\ Reached(d, Cardinality(now)) /\ Reached(d, queued[d] + Cardinality(now))
        /\ \A v \in now : Is(v, "write") => Reached(d, attempt[v].seen + Cardinality(now))
    BY <1>0 DEF Counts
  <2>7. now \subseteq Worker
    BY <1>0 DEF Failing
  <2>8. Reached(d, Cardinality(after))' /\ Reached(d, queued[d] + Cardinality(after))'
    BY <1>0, <1>1, <1>3, <2>2, <2>3, <2>4, <2>6 DEF Reached
  <2>9. \A v \in after : Is(v, "write")' => Reached(d, attempt[v].seen + Cardinality(after))'
    BY <1>0, <1>1, <1>3, <2>2, <2>3, <2>4, <2>5, <2>6, <2>7 DEF Reached
  <2>10. QED
    BY <1>0, <2>2, <2>8, <2>9 DEF Counts
<1>6. QED
  BY <1>0, <1>4, <1>5

\* The rest of Late, in a step of w.
LEMMA LateKeeps ==
    ASSUME IInv, IInv', Late, NEW w \in Worker, Others(w), \A d \in Delivery : Counts(d)',
           \A d \in Delivery : failures[d] <= failures'[d],
           hopeless \subseteq hopeless',
           \A r \in Pass : pending'[r] \subseteq pending[r] \union Loaded,
           attempt'[w].step = "move" =>
              attempt'[w].item \in hopeless' \/ failures'[attempt'[w].item] = MaxRetries,
           \A d \in givenUp' : d \in givenUp \/ d \in hopeless \/ failures[d] = MaxRetries
    PROVE  Late'
<1>1. \A d \in Delivery : /\ failures[d] \in 0..MaxRetries /\ failures'[d] \in 0..MaxRetries
                          /\ MaxRetries \in Nat /\ queued[d] \in Int
  BY DeliveryAssumption DEF IInv, TypeOK, Absent
<1>2. \A d \in Delivery : failures[d] = MaxRetries => failures'[d] = MaxRetries
  BY <1>1
<1>3. Loads'
  <2> SUFFICES ASSUME NEW r \in Pass, NEW e \in pending'[r] PROVE Reached(e.id, e.retryCount)'
    BY DEF Loads
  <2>1. e \in Entry
    BY DEF IInv, TypeOK
  <2>2. e.id \in Delivery /\ e.retryCount \in Nat
    BY <2>1 DEF Entry
  <2>3. Reached(e.id, e.retryCount)
    <3>1. CASE e \in pending[r]
      BY <3>1 DEF Late, Loads
    <3>2. CASE e \in Loaded
      <4>1. e.retryCount = queued[e.id]
        BY <3>2 DEF Loaded
      <4>2. Reached(e.id, queued[e.id] + Cardinality(Failing(e.id)))
            /\ Cardinality(Failing(e.id)) \in Nat
        BY <2>2, FS_CardinalityType DEF Late, Counts
      <4>3. QED
        BY <1>1, <2>2, <4>1, <4>2 DEF Reached
    <3>3. QED
      BY <3>1, <3>2
  <2>4. QED
    BY <1>1, <2>2, <2>3 DEF Reached
<1>4. Moves'
  <2> SUFFICES ASSUME NEW v \in Worker, Is(v, "move")'
               PROVE  Item(v)' \in hopeless' \/ failures'[Item(v)'] = MaxRetries
    BY DEF Moves
  <2>1. CASE v = w
    BY <2>1 DEF Is, Item
  <2>2. CASE v # w
    <3>1. Is(v, "move") /\ Item(v)' = Item(v)
      BY <2>2 DEF Others, Is, Item
    <3>2. Item(v) \in Delivery
      BY <3>1, Here DEF Is, Working
    <3>3. QED
      BY <1>2, <3>1, <3>2 DEF Late, Moves
  <2>3. QED
    BY <2>1, <2>2
<1>5. GivenUpLate'
  <2> SUFFICES ASSUME NEW d \in givenUp' PROVE d \in hopeless' \/ failures'[d] = MaxRetries
    BY DEF GivenUpLate
  <2>1. d \in Delivery
    BY DEF IInv, TypeOK
  <2>2. QED
    BY <1>2, <2>1 DEF Late, GivenUpLate
<1>6. QED
  BY <1>3, <1>4, <1>5 DEF Late

\* A step of w without a new failed attempt.
LEMMA LateFalls ==
    ASSUME IInv, IInv', Late, NEW w \in Worker, Others(w), attempt'[w].step # "fail",
           attempt'[w].step = "write" =>
              Is(w, "fail") /\ attempt'[w].item = Item(w) /\ attempt'[w].seen = queued[Item(w)],
           \A d \in Delivery :
              \/ queued'[d] <= queued[d] \/ queued'[d] = 0
              \/ /\ Is(w, "write") /\ Item(w) = d /\ attempt'[w].step # "write"
                 /\ queued'[d] = attempt[w].seen + 1,
           failures' = failures \/ (Item(w) \in Delivery /\ Counted(Item(w))),
           hopeless \subseteq hopeless',
           \A r \in Pass : pending'[r] \subseteq pending[r] \union Loaded,
           attempt'[w].step = "move" =>
              attempt'[w].item \in hopeless' \/ failures'[attempt'[w].item] = MaxRetries,
           \A d \in givenUp' : d \in givenUp \/ d \in hopeless \/ failures[d] = MaxRetries
    PROVE  Late'
<1>1. \A d \in Delivery : failures[d] <= failures'[d]
  <2>1. failures \in [Delivery -> 0..MaxRetries] /\ MaxRetries \in Nat
    BY DeliveryAssumption DEF IInv, TypeOK
  <2>2. QED
    BY <2>1 DEF Counted
<1>2. ASSUME NEW d \in Delivery PROVE Counts(d)'
  BY <1>1, CountFalls DEF Late
<1>3. QED
  BY <1>1, <1>2, LateKeeps

\* A step in which the attempt of w fails.
LEMMA LateRises ==
    ASSUME IInv, IInv', Late, NEW w \in Worker, Goto(w, "fail"), Counted(Item(w)),
           attempt[w].step \notin {"fail", "write"},
           hopeless \subseteq hopeless', UNCHANGED <<queued, givenUp, pending>>
    PROVE  Late'
<1>1. attempt \in [Worker -> Attempt]
  BY DEF IInv, TypeOK
<1>2. Others(w) /\ attempt'[w].step = "fail" /\ attempt'[w].item = Item(w)
  BY <1>1 DEF Goto, GotoWith, At, InAttempt, Others
<1>3. \A d \in Delivery : failures[d] <= failures'[d]
  <2>1. failures \in [Delivery -> 0..MaxRetries] /\ MaxRetries \in Nat
    BY DeliveryAssumption DEF IInv, TypeOK
  <2>2. QED
    BY <2>1 DEF Counted
<1>4. ASSUME NEW d \in Delivery PROVE Counts(d)'
  BY <1>2, CountRises DEF Late, Counted
<1>5. QED
  BY <1>2, <1>3, <1>4, LateKeeps DEF Late, GivenUpLate

\* Where a worker gets.
LEMMA GotoIs ==
    ASSUME IInv, NEW w \in Worker, NEW step, NEW seen, GotoWith(w, step, seen)
    PROVE  /\ Others(w) /\ attempt'[w].step = step /\ attempt'[w].item = Item(w)
           /\ attempt'[w].seen = seen
<1>1. attempt \in [Worker -> Attempt]
  BY DEF IInv, TypeOK
<1>2. QED
  BY <1>1 DEF GotoWith, At, InAttempt, Others

LEMMA LeaveIs ==
    ASSUME IInv, NEW w \in Worker, Leave(w)
    PROVE  Others(w) /\ attempt'[w].step \in {"idle", "next", "done"}
<1>1. attempt \in [Worker -> Attempt]
  BY DEF IInv, TypeOK
<1>2. QED
  BY <1>1 DEF Leave, Free, Goto, GotoWith, At, InAttempt, Others

\* A step that takes w to a place without promises, and changes no file.
LEMMA LateGoes ==
    ASSUME IInv, IInv', Late, NEW w \in Worker, Others(w),
           attempt'[w].step \notin {"fail", "write", "move"},
           UNCHANGED <<disk, failures, hopeless, pending>>
    PROVE  Late'
<1>1. \A d \in Delivery : queued'[d] <= queued[d]
  BY DEF IInv, TypeOK, Absent, disk
<1>2. QED
  BY <1>1, LateFalls DEF disk

LEMMA LateDeliver ==
    ASSUME IInv, IInv', Late, NEW w \in Worker, Deliver(w) PROVE Late'
<1>1. CASE SendPayload(w) \/ SkipPayload(w)
  <2>1. \E partial : Onward(w, partial)
    BY <1>1 DEF SendPayload, SkipPayload
  <2>2. attempt \in [Worker -> Attempt]
    BY DEF IInv, TypeOK
  <2>3. Others(w) /\ attempt'[w].step = "sending"
    BY <2>1, <2>2 DEF Onward, InAttempt, Others
  <2>4. QED
    BY <1>1, <2>3, LateGoes DEF SendPayload, SkipPayload, disk, passes
<1>2. CASE Finish(w)
  <2>1. CASE attempt[w].partial
    BY <1>2, <2>1, LateRises DEF Finish, disk, passes, Is
  <2>2. CASE ~attempt[w].partial
    <3>1. Others(w) /\ attempt'[w].step = "ack"
      BY <1>2, <2>2, GotoIs DEF Finish, Goto
    <3>2. QED
      BY <1>2, <2>2, <3>1, LateGoes DEF Finish, disk, passes
  <2>3. QED
    BY <2>1, <2>2
<1>3. ASSUME NEW permanent \in BOOLEAN, Throw(w, permanent) PROVE Late'
  <2>1. CASE w \in Pass /\ permanent
    <3>1. Others(w) /\ attempt'[w].step = "move" /\ attempt'[w].item = Item(w)
      BY <1>3, <2>1, GotoIs DEF Throw, Goto
    <3>2. Item(w) \in hopeless' /\ hopeless \subseteq hopeless' /\ Counted(Item(w))
      BY <1>3, <2>1 DEF Throw
    <3>3. Item(w) \in Delivery
      BY <1>3, Here DEF Throw, Is, Working
    <3>4. UNCHANGED <<queued, givenUp, pending>> /\ \A d \in Delivery : queued'[d] <= queued[d]
      BY <1>3 DEF Throw, disk, passes, IInv, TypeOK, Absent
    <3>5. QED
      BY <3>1, <3>2, <3>3, <3>4, LateFalls
  <2>2. CASE ~(w \in Pass /\ permanent)
    <3>1. Goto(w, "fail") /\ Counted(Item(w)) /\ attempt[w].step \notin {"fail", "write"}
      BY <1>3, <2>2 DEF Throw, Is
    <3>2. hopeless \subseteq hopeless' /\ UNCHANGED <<queued, givenUp, pending>>
      BY <1>3 DEF Throw, disk, passes
    <3>3. QED
      BY <3>1, <3>2, LateRises
  <2>3. QED
    BY <2>1, <2>2
<1>4. QED
  BY <1>1, <1>2, <1>3 DEF Deliver

LEMMA LateSettle ==
    ASSUME IInv, IInv', Late, NEW w \in Worker, Settle(w) PROVE Late'
<1>1. queued \in [Delivery -> Nat \union {Absent}]
  BY DEF IInv, TypeOK
<1>2. CASE Ack(w)
  <2>1. Others(w) /\ attempt'[w].step \notin {"fail", "write", "move"}
    BY <1>2, LeaveIs DEF Ack
  <2>2. \A d \in Delivery : queued'[d] <= queued[d]
    BY <1>1, <1>2 DEF Ack, Absent
  <2>3. QED
    BY <1>2, <2>1, <2>2, LateFalls DEF Ack, passes
<1>3. CASE AckFails(w)
  <2>1. CASE w \in Pass
    BY <1>3, <2>1, LateRises DEF AckFails, disk, passes, Is
  <2>2. CASE w \notin Pass
    <3>1. Others(w) /\ attempt'[w].step \notin {"fail", "write", "move"}
      BY <1>3, <2>2, LeaveIs DEF AckFails
    <3>2. QED
      BY <1>3, <2>2, <3>1, LateGoes DEF AckFails, passes
  <2>3. QED
    BY <2>1, <2>2
<1>4. CASE FailRead(w)
  <2>1. /\ Others(w) /\ attempt'[w].step = "write" /\ attempt'[w].item = Item(w)
        /\ attempt'[w].seen = queued[Item(w)]
    BY <1>4, GotoIs DEF FailRead
  <2>2. \A d \in Delivery : queued'[d] <= queued[d]
    BY <1>1, <1>4 DEF FailRead, Absent, disk
  <2>3. QED
    BY <1>4, <2>1, <2>2, LateFalls DEF FailRead, disk, passes, history
<1>5. CASE FailReadFails(w) \/ FailWriteFails(w)
  <2>1. Others(w) /\ attempt'[w].step \notin {"fail", "write", "move"}
    BY <1>5, LeaveIs DEF FailReadFails, FailWriteFails
  <2>2. QED
    BY <1>5, <2>1, LateGoes DEF FailReadFails, FailWriteFails, passes, history
<1>6. CASE FailWrite(w)
  <2>1. Others(w) /\ attempt'[w].step \notin {"fail", "write", "move"}
    BY <1>6, LeaveIs DEF FailWrite
  <2>2. Is(w, "write") /\ Item(w) \in Delivery
    BY <1>6, Here DEF FailWrite, Is, Working
  <2>3. \A d \in Delivery : \/ queued'[d] <= queued[d]
                            \/ Item(w) = d /\ queued'[d] = attempt[w].seen + 1
    BY <1>1, <1>6, <2>2 DEF FailWrite, Absent
  <2>4. QED
    BY <1>6, <2>1, <2>2, <2>3, LateFalls DEF FailWrite, passes, history
<1>7. QED
  BY <1>2, <1>3, <1>4, <1>5, <1>6 DEF Settle

LEMMA LateLive ==
    ASSUME IInv, IInv', Late, NEW d \in Delivery, Begin(d) \/ LiveStep(d) PROVE Late'
<1>1. d \in Worker
  BY DEF Worker
<1>2. CASE Begin(d)
  <2>1. Others(d) /\ attempt'[d].step = "storing"
    BY <1>1, <1>2, GotoIs DEF Begin, Goto
  <2>2. QED
    BY <1>1, <1>2, <2>1, LateGoes DEF Begin, passes, history
<1>3. CASE Store(d)
  <2>1. Others(d) /\ attempt'[d].step = "sending"
    BY <1>1, <1>3, GotoIs DEF Store, Goto
  <2>2. \A e \in Delivery : queued'[e] <= queued[e] \/ queued'[e] = 0
    BY <1>3 DEF Store, IInv, TypeOK, Absent
  <2>3. QED
    BY <1>1, <1>3, <2>1, <2>2, LateFalls DEF Store, passes, history
<1>4. CASE StoreFails(d)
  <2>1. Others(d) /\ attempt'[d].step = "sending"
    BY <1>1, <1>4, GotoIs DEF StoreFails, Goto
  <2>2. QED
    BY <1>1, <1>4, <2>1, LateGoes DEF StoreFails, passes, history
<1>5. CASE Abort(d)
  <2>1. Others(d) /\ attempt'[d].step = "ack"
    BY <1>1, <1>5, GotoIs DEF Abort, Goto
  <2>2. QED
    BY <1>1, <1>5, <2>1, LateGoes DEF Abort, passes
<1>6. CASE Forget(d)
  <2>1. Others(d) /\ attempt'[d].step \notin {"fail", "write", "move"}
    BY <1>1, <1>6, LeaveIs DEF Forget
  <2>2. QED
    BY <1>1, <1>6, <2>1, LateGoes DEF Forget, passes, history
<1>7. QED
  BY <1>1, <1>2, <1>3, <1>4, <1>5, <1>6, LateDeliver, LateSettle DEF LiveStep

LEMMA TakeIs ==
    ASSUME IInv, NEW r \in Pass, NEW e \in pending[r], NEW step, Take(r, e, step)
    PROVE  /\ r \in Worker /\ Others(r) /\ attempt'[r].step = step /\ attempt'[r].item = e.id
           /\ \A v \in Pass : pending'[v] \subseteq pending[v]
<1>1. attempt \in [Worker -> Attempt] /\ r \in Worker /\ pending \in [Pass -> SUBSET Entry]
  BY DEF IInv, TypeOK, Worker
<1>2. QED
  BY <1>1 DEF Take, At, InAttempt, Others

LEMMA LatePass ==
    ASSUME IInv, IInv', Late, NEW r \in Pass, Load(r) \/ PassStep(r) PROVE Late'
<1>1. /\ r \in Worker /\ attempt \in [Worker -> Attempt] /\ pending \in [Pass -> SUBSET Entry]
      /\ failures \in [Delivery -> 0..MaxRetries] /\ MaxRetries \in Nat
      /\ queued \in [Delivery -> Nat \union {Absent}]
  BY DeliveryAssumption DEF IInv, TypeOK, Worker
<1>2. ASSUME UNCHANGED queued PROVE \A d \in Delivery : queued'[d] <= queued[d]
  BY <1>1, <1>2 DEF Absent
<1>3. CASE Load(r)
  <2>1. Others(r) /\ attempt'[r].step = "next"
    BY <1>1, <1>3 DEF Load, At, InAttempt, Others
  <2>2. \A v \in Pass : pending'[v] \subseteq pending[v] \union Loaded
    BY <1>1, <1>3 DEF Load
  <2>3. UNCHANGED <<queued, givenUp, failures, hopeless>>
    BY <1>3 DEF Load, disk, history
  <2>4. QED
    BY <1>1, <1>2, <2>1, <2>2, <2>3, LateFalls
<1>4. ASSUME NEW e \in pending[r], GiveUp(r, e) PROVE Late'
  <2>1. /\ Others(r) /\ attempt'[r].step = "move" /\ attempt'[r].item = e.id
        /\ \A v \in Pass : pending'[v] \subseteq pending[v]
    BY <1>4, TakeIs DEF GiveUp
  <2>2. e.id \in Delivery /\ e.retryCount \in Nat /\ e.retryCount >= MaxRetries
    BY <1>1, <1>4 DEF Entry, GiveUp, Exhausted
  <2>3. failures[e.id] = MaxRetries
    BY <1>1, <2>2 DEF Late, Loads, Reached
  <2>4. UNCHANGED <<queued, givenUp, failures, hopeless>>
    BY <1>4 DEF GiveUp, disk, history
  <2>5. QED
    BY <1>1, <1>2, <2>1, <2>3, <2>4, LateFalls
<1>5. ASSUME NEW e \in pending[r], Retry(r, e) PROVE Late'
  <2>1. /\ Others(r) /\ attempt'[r].step = "sending"
        /\ \A v \in Pass : pending'[v] \subseteq pending[v]
    BY <1>5, TakeIs DEF Retry
  <2>2. UNCHANGED <<queued, givenUp, failures, hopeless>>
    BY <1>5 DEF Retry, disk, history
  <2>3. QED
    BY <1>1, <1>2, <2>1, <2>2, LateFalls
<1>6. ASSUME NEW e \in pending[r], Defer(r, e) PROVE Late'
  <2>1. Others(r) /\ attempt'[r].step = "idle" /\ \A v \in Pass : pending'[v] \subseteq pending[v]
    BY <1>1, <1>6 DEF Defer, Free, At, InAttempt, Others
  <2>2. UNCHANGED <<queued, givenUp, failures, hopeless>>
    BY <1>6 DEF Defer, disk, history
  <2>3. QED
    BY <1>1, <1>2, <2>1, <2>2, LateFalls
<1>7. CASE Move(r)
  <2>1. Others(r) /\ attempt'[r].step \notin {"fail", "write", "move"}
    BY <1>1, <1>7, LeaveIs DEF Move
  <2>2. \A d \in Delivery : queued'[d] <= queued[d]
    BY <1>1, <1>7 DEF Move, Absent, disk
  <2>3. \A d \in givenUp' : d \in givenUp \/ d = Item(r)
    BY <1>7 DEF Move, disk
  <2>4. Item(r) \in hopeless \/ failures[Item(r)] = MaxRetries
    BY <1>1, <1>7 DEF Late, Moves, Move
  <2>5. UNCHANGED <<failures, hopeless, pending>>
    BY <1>7 DEF Move, passes, history
  <2>6. QED
    BY <1>1, <2>1, <2>2, <2>3, <2>4, <2>5, LateFalls
<1>8. CASE MoveFails(r)
  <2>1. Others(r) /\ attempt'[r].step \notin {"fail", "write", "move"}
    BY <1>1, <1>8, LeaveIs DEF MoveFails
  <2>2. QED
    BY <1>1, <1>8, <2>1, LateGoes DEF MoveFails, passes, history
<1>9. QED
  BY <1>1, <1>3, <1>4, <1>5, <1>6, <1>7, <1>8, LateDeliver, LateSettle DEF PassStep

\* Nobody fails any more after a crash; the files still count no more than the failures.
LEMMA LateCrash == ASSUME IInv, IInv', Late, Crash PROVE Late'
<1>1. \A w \in Worker : attempt'[w].step \in {"idle", "new", "done"}
  BY DEF Crash, Free, Is, At, InAttempt
<1>2. UNCHANGED <<queued, givenUp, failures, hopeless>> /\ pending' = [r \in Pass |-> {}]
  BY DEF Crash, disk, history
<1>3. ASSUME NEW d \in Delivery PROVE Counts(d)'
  <2>1. Failing(d)' = {}
    BY <1>1 DEF Failing
  <2>2. IsFiniteSet({}) /\ Cardinality({}) = 0
    BY FS_EmptySet
  <2>3. queued[d] \in Int /\ failures[d] \in Nat /\ MaxRetries \in Nat
    BY DeliveryAssumption DEF IInv, TypeOK, Absent
  <2>4. IsFiniteSet(Failing(d)) /\ Cardinality(Failing(d)) \in Nat
    BY FS_CardinalityType DEF Late, Counts
  <2>5. Reached(d, queued[d])
    BY <2>3, <2>4 DEF Late, Counts, Reached
  <2>6. QED
    BY <1>2, <2>1, <2>2, <2>3, <2>5 DEF Counts, Reached
<1>4. Loads' /\ Moves' /\ GivenUpLate'
  BY <1>1, <1>2 DEF Late, Loads, Moves, GivenUpLate, Is
<1>5. QED
  BY <1>3, <1>4 DEF Late

LEMMA InitLate == Init => Late
<1> SUFFICES ASSUME Init PROVE Late
  OBVIOUS
<1>1. \A w \in Worker : attempt[w].step \in {"idle", "new"}
  BY DEF Init, Free, At, InAttempt
<1>2. ASSUME NEW d \in Delivery PROVE Counts(d)
  <2>1. Failing(d) = {}
    BY <1>1 DEF Failing
  <2>2. IsFiniteSet({}) /\ Cardinality({}) = 0
    BY FS_EmptySet
  <2>3. queued[d] = -1 /\ failures[d] = 0
    BY DEF Init, Absent
  <2>4. QED
    BY <2>1, <2>2, <2>3 DEF Counts, Reached
<1>3. Loads /\ Moves /\ GivenUpLate
  BY <1>1 DEF Init, Loads, Moves, GivenUpLate, Is
<1>4. QED
  BY <1>2, <1>3 DEF Late

LEMMA LateStep == IInv /\ IInv' /\ Late /\ [Next]_vars => Late'
<1> SUFFICES ASSUME IInv, IInv', Late, [Next]_vars PROVE Late'
  OBVIOUS
<1>1. CASE UNCHANGED vars
  <2>1. UNCHANGED <<attempt, queued, givenUp, pending, failures, hopeless>>
    BY <1>1 DEF vars, disk, passes, history
  <2>2. \A d \in Delivery : Failing(d)' = Failing(d)
    BY <2>1 DEF Failing, Item
  <2>3. ASSUME NEW d \in Delivery PROVE Counts(d)'
    BY <2>1, <2>2 DEF Late, Counts, Reached, Is
  <2>4. Loads' /\ Moves' /\ GivenUpLate'
    BY <2>1 DEF Late, Loads, Moves, GivenUpLate, Reached, Is, Item
  <2>5. QED
    BY <2>3, <2>4 DEF Late
<1>2. QED
  BY <1>1, LateLive, LatePass, LateCrash DEF Next

\* A delivery is given up only after a permanent error or MaxRetries failed attempts
\* (GivenUpLate), however many workers fail it at once and whatever crashes.
THEOREM RetriesSafe == Spec => []GivenUpLate
<1>1. Spec => []Late
  BY Invariance, InitLate, LateStep, PTL DEF Spec
<1>2. Late => GivenUpLate
  BY DEF Late
<1>3. QED
  BY <1>1, <1>2, PTL
=============================================================================
