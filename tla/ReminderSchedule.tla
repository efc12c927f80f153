-------------------------- MODULE ReminderSchedule --------------------------
(***************************************************************************)
(* When a reminder of a user is due (mirror-reminder/reminder_scheduler.ts *)
(* getReminderScheduleState): pure arithmetic on times, in any unit.       *)
(***************************************************************************)
EXTENDS Integers

CONSTANTS MaxTime,   \* bound of the times checked, 0..MaxTime
          Steps      \* the recurrence steps checked

Never == -1          \* a time that is not set
Times == 0..MaxTime
ASSUME ScheduleAssumption == MaxTime \in Nat /\ Steps \subseteq Nat \ {0}

\* Mutant: a delivery in the instant of a slot does not count for it.
AfterDelivery_strict(remindAt, step, last) ==
    IF last > remindAt THEN remindAt + ((last - remindAt - 1) \div step + 1) * step ELSE remindAt

\* The first slot after the last delivery.
AfterDelivery(remindAt, step, last) ==
    IF last # Never /\ last >= remindAt
    THEN remindAt + ((last - remindAt) \div step + 1) * step ELSE remindAt

\* Mutant: the loop stops at a slot a whole step ago.
CaughtUp_early(fire, step, now) ==
    IF fire < now - step THEN fire + ((now - step - fire - 1) \div step + 1) * step ELSE fire

\* The loop that skips the slots a whole step or more ago.
CaughtUp(fire, step, now) ==
    IF fire <= now - step THEN fire + ((now - step - fire) \div step + 1) * step ELSE fire

NextFire(remindAt, step, last, now) == CaughtUp(AfterDelivery(remindAt, step, last), step, now)

\* is_due and next_fire_at of an active reminder with a time; step 0 is "none".
IsDue(remindAt, step, last, now) ==
    IF step = 0 THEN remindAt <= now ELSE NextFire(remindAt, step, last, now) <= now
NextFireAt(remindAt, step, last, now) ==
    CASE step # 0 -> NextFire(remindAt, step, last, now)
      [] step = 0 /\ last = Never -> remindAt
      [] step = 0 /\ last # Never -> Never

----------------------------------------------------------------------------
\* A recurring reminder fires at its slots: next_fire_at is the first one behind the last
\* delivery and less than a step ago, so that missed slots are made up for once and not
\* one by one; it is due exactly when a slot is past that no delivery has answered, on
\* the instant too, and stays due until it is delivered (reminder_scheduler.ts:59-74).
Slots(remindAt, step) == {remindAt + k * step : k \in 0..(MaxTime + 1)}
DueBySlots ==
    \A remindAt, now \in Times, step \in Steps, last \in Times \union {Never} :
        LET next == NextFire(remindAt, step, last, now)
            awaited == {s \in Slots(remindAt, step) : last < s}
        IN  last <= now =>
              /\ next \in awaited /\ next > now - step
              /\ \A s \in awaited : s > now - step => next <= s
              /\ IsDue(remindAt, step, last, now) <=> \E s \in awaited : s <= now
              /\ \A later \in now..MaxTime :
                   IsDue(remindAt, step, last, now) => IsDue(remindAt, step, last, later)
=============================================================================
