---------------------------- MODULE MCUserStore ----------------------------
(* Instances of UserStore, and of ReminderSchedule in it, for TLC. *)
EXTENDS UserStore, TLC
CONSTANTS c1, c2, tasks, reminders, heartbeat, t1, r1, r2, prefs, none

TwoCallers == {c1, c2}
Files == {tasks, reminders, heartbeat}
Items == {t1, r1, r2, prefs}
Reminders == {r1, r2}
Home == [i \in Items |-> CASE i = t1 -> tasks
                          [] i \in Reminders -> reminders
                          [] i = prefs -> heartbeat]
Links == [i \in Items |-> IF i = r1 THEN t1 ELSE none]
OnlyR1 == {r1}
OnlyPrefs == {prefs}
Symmetric == Permutations(TwoCallers)
SomeSteps == {1, 2, 3, 5}
=============================================================================
