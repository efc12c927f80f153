----------------------------- MODULE UserStore -----------------------------
(***************************************************************************)
(* The JSON files of one user (mirror-user-workspace) and the managers of  *)
(* tasks and reminders on top of them.  Every call of the workspace first  *)
(* makes the files that are missing, then reads the whole file; one that   *)
(* changes it writes the whole file back.  There is no lock: the calls of  *)
(* several requests interleave at every await.                             *)
(*                                                                         *)
(* A write is atomic (a rename).  Lists of entries are functions from ids  *)
(* to entries, and an entry has a status and one other field.  When a      *)
(* stored reminder is due is in ReminderSchedule.                          *)
(***************************************************************************)
EXTENDS FiniteSets, Sequences, Integers, ReminderSchedule

CONSTANTS Caller,      \* requests in progress at the same time
          File,
          Item,        \* ids
          FileOf,      \* FileOf[i]: the file that holds i
          LinkOf,      \* LinkOf[i]: the task the reminder i is linked to, or NoItem
          NoItem,
          Reminder,    \* the items that can be delivered
          Recurring,   \* the reminders that recur
          Settings,    \* the items that exist by default and are only ever patched
          MaxCalls     \* bound: calls that begin

ASSUME StoreAssumption ==
    /\ NoItem \notin Item /\ MaxCalls \in Nat
    /\ FileOf \in [Item -> File] /\ LinkOf \in [Item -> Item \union {NoItem}]
    /\ Recurring \subseteq Reminder /\ Reminder \subseteq Item
    /\ Settings \subseteq Item /\ IsFiniteSet(Settings) /\ Item # {}

Entry == [status: {"active", "closed"}, text: {"old", "new"}]
New == [status |-> "active", text |-> "old"]
Contents == UNION {[items -> Entry] : items \in SUBSET Item}

VARIABLES file,      \* file[f]: the contents of f, its default while it is missing
          there,     \* the files that exist
          call,      \* call[c]: the call of c in progress, or the answer of its last
          begun,     \* the calls so far
          created,   \* history: the items ever created
          quiet      \* history: the callers whose files no other call wrote since they read

vars == <<file, there, call, begun, created, quiet>>

Op == {"create", "update", "deliver", "delete", "patch"}
Stage == {"find", "count", "link", "store", "write"}
Change == [field: {"status", "text"}, to: {"active", "closed", "old", "new"}]
Changes == {[field |-> "status", to |-> "active"], [field |-> "status", to |-> "closed"],
            [field |-> "text", to |-> "new"]}
NoChange == [field |-> "text", to |-> "old"]
Call == [op: Op, item: Item, change: Change,
         todo: Seq(Stage),               \* the stages left
         looked: BOOLEAN,                \* the missing files of this stage are known
         missing: SUBSET File,
         found: Entry,                   \* what "find" read
         before: Nat,                    \* what "count" counted
         store: Contents,                \* what "store" read
         answer: {"none", "ok", "no", "error"}]

Nobody == [i \in {} |-> New]

\* Mutant: every file is made with all the defaults.
Default_all(f) == [i \in Settings |-> New]

Default(f) == [i \in {s \in Settings : FileOf[s] = f} |-> New]
Idle(answer) == [op |-> "patch", item |-> CHOOSE i \in Item : TRUE, change |-> NoChange,
                 todo |-> <<>>, looked |-> FALSE, missing |-> {}, found |-> New, before |-> 0,
                 store |-> Nobody, answer |-> answer]
Active(c) == call[c].todo # <<>>
Own(c) == FileOf[call[c].item]

Init == /\ file = [f \in File |-> Default(f)]
        /\ there = {}
        /\ call = [c \in Caller |-> Idle("none")]
        /\ begun = 0 /\ created = {} /\ quiet = {}

----------------------------------------------------------------------------
\* What the managers read before they store.
Stages(op, i) ==
    (CASE op \in {"update", "deliver"} -> <<"find">>
       [] op = "delete" -> <<"count">>
       [] op \in {"create", "patch"} -> <<>>)
    \o (IF op \in {"create", "update"} /\ LinkOf[i] # NoItem THEN <<"link">> ELSE <<>>)
    \o <<"store", "write">>

Legal(op, i, change) ==
    /\ op = "create" => i \notin created \union Settings
    /\ op = "patch" <=> i \in Settings
    /\ op = "deliver" => i \in Reminder
    /\ change \in IF op \in {"update", "patch"} THEN Changes ELSE {NoChange}

Begin(c, op, i, change) ==
    /\ ~Active(c) /\ call[c].missing = {}
    /\ begun < MaxCalls /\ begun' = begun + 1
    /\ Legal(op, i, change)
    /\ call' = [call EXCEPT ![c] = [Idle("none") EXCEPT !.op = op, !.item = i, !.change = change,
                                                        !.todo = Stages(op, i)]]
    /\ created' = IF op = "create" THEN created \union {i} ELSE created
    /\ quiet' = quiet \union {c}
    /\ UNCHANGED <<file, there>>

\* c has read one of the files it works on.
HasRead(c) == Active(c) /\ call[c].todo # Stages(call[c].op, call[c].item)
Uses(c) == {Own(c)} \union {FileOf[i] : i \in {LinkOf[call[c].item]} \ {NoItem}}
Disturbs(c, f) == quiet' = {d \in quiet : d = c \/ f \notin Uses(d) \/ ~HasRead(d)}

----------------------------------------------------------------------------
AtStage(c, stage) == Active(c) /\ Head(call[c].todo) = stage
Reading(c) == Active(c) /\ ~AtStage(c, "write")

\* Mutant: a file without entries counts as missing.
Look_empty(c) ==
    /\ Reading(c) /\ ~call[c].looked
    /\ call' = [call EXCEPT ![c].looked = TRUE,
                            ![c].missing = {f \in File : f \notin there \/ file[f] = Nobody}]
    /\ UNCHANGED <<file, there, begun, created, quiet>>

\* ensureUserWorkspace looks for the files.  (A look that finds them all is part of Ensured.)
Look(c) ==
    /\ Reading(c) /\ ~call[c].looked
    /\ there # File
    /\ call' = [call EXCEPT ![c].looked = TRUE, ![c].missing = File \ there]
    /\ UNCHANGED <<file, there, begun, created, quiet>>

\* ... and writes the default of one that it did not find.
Fill(c, f) ==
    /\ f \in call[c].missing
    /\ file' = [file EXCEPT ![f] = Default(f)] /\ there' = there \union {f}
    /\ call' = [call EXCEPT ![c].missing = @ \ {f}]
    /\ Disturbs(c, f)
    /\ UNCHANGED <<begun, created>>

Ensured(c) == IF call[c].looked THEN call[c].missing = {} ELSE there = File

\* A read is over; the call goes on to its next stage with this state.
Onward(c, state) ==
    call' = [call EXCEPT ![c] = [state EXCEPT !.todo = Tail(@), !.looked = FALSE]]
Ends(c, answer) == call' = [call EXCEPT ![c] = Idle(answer)]
Unwritten == UNCHANGED <<file, there, begun, created, quiet>>

\* requireTask, requireReminder: the entry, or an error.
Find(c) ==
    /\ AtStage(c, "find") /\ Ensured(c)
    /\ IF call[c].item \in DOMAIN file[Own(c)]
       THEN Onward(c, [call[c] EXCEPT !.found = file[Own(c)][call[c].item]])
       ELSE Ends(c, "error")
    /\ Unwritten

\* validateRelatedTask.
CheckLink(c) ==
    /\ AtStage(c, "link") /\ Ensured(c)
    /\ LET task == LinkOf[call[c].item]
       IN  IF task \in DOMAIN file[FileOf[task]] THEN Onward(c, call[c]) ELSE Ends(c, "error")
    /\ Unwritten

\* deleteTask, deleteReminder: how many entries there are.
Count(c) ==
    /\ AtStage(c, "count") /\ Ensured(c)
    /\ Onward(c, [call[c] EXCEPT !.before = Cardinality(DOMAIN file[Own(c)])])
    /\ Unwritten

\* Mutant: the answer of a delete is yes if it left something.
Answer_left(c, after) == IF call[c].op # "delete" \/ after # {} THEN "ok" ELSE "no"

\* The answer of a delete compares the lengths it read.
Answer(c, after) ==
    IF call[c].op # "delete" \/ Cardinality(after) # call[c].before THEN "ok" ELSE "no"

\* The file is read to be changed; a delete that does not find its entry ends here.
ReadStore(c) ==
    /\ AtStage(c, "store") /\ Ensured(c)
    /\ IF call[c].op = "delete" /\ call[c].item \notin DOMAIN file[Own(c)]
       THEN Ends(c, Answer(c, DOMAIN file[Own(c)]))
       ELSE Onward(c, [call[c] EXCEPT !.store = file[Own(c)]])
    /\ Unwritten

\* Mutant: the fields a change does not name get their defaults.
Changed_reset(entry, change) == [New EXCEPT ![change.field] = change.to]

Changed(entry, change) == [entry EXCEPT ![change.field] = change.to]

\* markReminderDelivered: one that recurs becomes active, also when it was not.
Delivered(i, entry) == Changed(entry, [field |-> "status",
                                       to |-> IF i \in Recurring THEN "active" ELSE "closed"])

Put(store, i, entry) == [j \in DOMAIN store \union {i} |-> IF j = i THEN entry ELSE store[j]]
Without(store, i) == [j \in DOMAIN store \ {i} |-> store[j]]

\* The file the call writes.
Result(c) ==
    LET i == call[c].item  store == call[c].store
    IN  CASE call[c].op = "create" -> Put(store, i, New)
          [] call[c].op = "update" -> Put(store, i, Changed(call[c].found, call[c].change))
          [] call[c].op = "deliver" -> Put(store, i, Delivered(i, call[c].found))
          [] call[c].op = "delete" -> Without(store, i)
          [] call[c].op = "patch" ->
               Put(store, i, Changed(IF i \in DOMAIN store THEN store[i] ELSE New, call[c].change))

Write(c) ==
    /\ AtStage(c, "write")
    /\ file' = [file EXCEPT ![Own(c)] = Result(c)] /\ there' = there \union {Own(c)}
    /\ Ends(c, Answer(c, DOMAIN Result(c)))
    /\ Disturbs(c, Own(c))
    /\ UNCHANGED <<begun, created>>

\* A file operation fails, or the process stops.  A look at the files that fails goes
\* on writing the other defaults.
Fail(c) ==
    /\ Active(c)
    /\ \E left \in SUBSET call[c].missing :
         call' = [call EXCEPT ![c] = [Idle("error") EXCEPT !.missing = left]]
    /\ Unwritten

Next == \E c \in Caller :
          \/ \E op \in Op, i \in Item, change \in Changes \union {NoChange} : Begin(c, op, i, change)
          \/ Look(c) \/ \E f \in File : Fill(c, f)
          \/ Find(c) \/ CheckLink(c) \/ Count(c) \/ ReadStore(c) \/ Write(c) \/ Fail(c)

Spec == Init /\ [][Next]_vars

----------------------------------------------------------------------------
TypeOK ==
    /\ file \in [File -> Contents] /\ there \subseteq File
    /\ call \in [Caller -> Call]
    /\ begun \in 0..MaxCalls
    /\ created \subseteq Item /\ quiet \subseteq Caller
    /\ \A f \in File : \A i \in DOMAIN file[f] : FileOf[i] = f

\* What an operation does when it is atomic.
Atomically(op, i, change, contents) ==
    CASE op = "create" -> [j \in DOMAIN contents \union {i} |-> IF j = i THEN New ELSE contents[j]]
      [] op = "delete" -> [j \in DOMAIN contents \ {i} |-> contents[j]]
      [] op = "deliver" /\ i \in Recurring -> [contents EXCEPT ![i].status = "active"]
      [] op = "deliver" /\ i \notin Recurring -> [contents EXCEPT ![i].status = "closed"]
      [] op \in {"update", "patch"} -> [contents EXCEPT ![i][change.field] = change.to]

\* A call between whose reads and write no other call wrote its files changes its own
\* entry and nothing else of what is in the file by then, and if it is a delete its
\* answer is true: updates are lost, deleted entries come back and pauses are undone
\* only when two calls on one file overlap (task_store.ts:30-54, 62-69, task_manager.ts:56, 73-75,
\* reminder_manager.ts:79, 108).
QuietExact ==
    [][\A c \in Caller : c \in quiet =>
          /\ Write(c) =>
                file'[Own(c)] = Atomically(call[c].op, call[c].item, call[c].change, file[Own(c)])
          /\ HasRead(c) /\ call[c].op = "delete" /\ call'[c].answer \in {"ok", "no"} =>
                (call'[c].answer = "ok" <=> call[c].item \in DOMAIN file[Own(c)])]_vars

\* Once a file is there and no call that missed it is in progress, no default ever
\* replaces it, whatever is deleted: only the first calls of a user can bury each
\* other's entries (workspace_store.ts:182-221).
Settled(f) == f \in there /\ \A c \in Caller : f \notin call[c].missing
StaysSettled == [][\A f \in File : Settled(f) => Settled(f)']_vars

\* When a recurring reminder is due agrees with its slots (DueBySlots): a fact about a
\* function of times, compared before the first call (reminder_scheduler.ts:59-74).
ScheduleExact == begun = 0 => DueBySlots
=============================================================================
