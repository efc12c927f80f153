SPECIFICATION Spec
CONSTANTS
  c1 = c1  c2 = c2  tasks = tasks  reminders = reminders  heartbeat = heartbeat
  t1 = t1  r1 = r1  r2 = r2  prefs = prefs  none = none
  Caller <- TwoCallers
  File <- Files
  Item <- Items
  FileOf <- Home
  LinkOf <- Links
  NoItem = none
  Reminder <- Reminders
  Recurring <- OnlyR1
  Settings <- OnlyPrefs
  MaxCalls = 4
  MaxTime = 8
  Steps <- SomeSteps
SYMMETRY Symmetric
INVARIANTS TypeOK ScheduleExact
PROPERTIES QuietExact StaysSettled
CHECK_DEADLOCK FALSE
