------------------------- MODULE UserStore_proofs -------------------------
(***************************************************************************)
(* Theorems about the files of one user, for any number of requests, files *)
(* and entries.                                                            *)
(*                                                                         *)
(* A call that was not disturbed since it read holds what is in the files  *)
(* (Remembered).  Its own defaults cannot disturb it, since it reads only  *)
(* when all files are there (Ensuring), and what it writes is a file again *)
(* with the entries that exist by default (Good).                          *)
(*                                                                         *)
(* The schedule of reminders is arithmetic: the next fire is a slot, and   *)
(* the slot before it is answered or a step ago (NoSlotBetween).           *)
(***************************************************************************)
EXTENDS UserStore, FiniteSetTheorems, SequenceTheorems, TLAPS

\* What the file f may hold: its own entries, and those that exist by default.
Good(contents, f) ==
    /\ contents \in Contents /\ IsFiniteSet(DOMAIN contents)
    /\ \A i \in DOMAIN contents : FileOf[i] = f
    /\ \A s \in Settings : FileOf[s] = f => s \in DOMAIN contents

AtWrite(c) == call[c].todo = <<"write">>

\* A call in progress has no answer yet, and these stages left.
Shape(c) == Active(c) =>
    /\ call[c].answer = "none"
    /\ call[c].op = "patch" <=> call[c].item \in Settings
    /\ call[c].change \in Changes \union {NoChange}
    /\ \/ call[c].todo \in {Stages(call[c].op, call[c].item), <<"store", "write">>, <<"write">>}
       \/ call[c].op = "update" /\ call[c].todo = <<"link", "store", "write">>
Shaped == \A c \in Caller : Shape(c)

\* Who looked fills what was missing, and who read found nothing missing.
Ensures(c) == Active(c) =>
    /\ ~call[c].looked => call[c].missing = {}
    /\ call[c].looked => File \ there \subseteq call[c].missing
    /\ HasRead(c) => there = File /\ ~call[c].looked
Ensuring == \A c \in Caller : Ensures(c)

\* The files, and what was read to be changed, are legal contents.
Stores(c) == AtWrite(c) =>
    /\ Good(call[c].store, Own(c))
    /\ call[c].op = "delete" => call[c].item \in DOMAIN call[c].store
Stored == (\A f \in File : Good(file[f], f)) /\ (\A c \in Caller : Stores(c))

\* What an undisturbed call read is still in the file.
Remembers(c) == c \in quiet /\ HasRead(c) =>
    /\ call[c].op \in {"update", "deliver"} =>
          call[c].item \in DOMAIN file[Own(c)] /\ call[c].found = file[Own(c)][call[c].item]
    /\ call[c].op = "delete" => call[c].before = Cardinality(DOMAIN file[Own(c)])
    /\ AtWrite(c) => call[c].store = file[Own(c)]
Remembered == \A c \in Caller : Remembers(c)

IInv == TypeOK /\ Shaped /\ Ensuring /\ Stored /\ Remembered

----------------------------------------------------------------------------
(* Stages and types.                                                                  *)

\* The stages that are put together, as tuples.
LEMMA ConcatLength ==
    ASSUME NEW s \in Seq(Stage), NEW t \in Seq(Stage), NEW v, v = s \o t
    PROVE  v \in Seq(Stage) /\ Len(v) = Len(s) + Len(t)
<1>1. s \o t \in Seq(Stage)
  BY ConcatProperties, Zenon
<1>2. Len(s \o t) = Len(s) + Len(t)
  BY ConcatProperties, Zenon
<1>3. QED
  BY <1>1, <1>2, Zenon

LEMMA ConcatItems ==
    ASSUME NEW s \in Seq(Stage), NEW t \in Seq(Stage), NEW v, v = s \o t
    PROVE  \A n \in 1..Len(s) + Len(t) : v[n] = IF n <= Len(s) THEN s[n] ELSE t[n - Len(s)]
<1>1. \A n \in 1..Len(s) + Len(t) : (s \o t)[n] = IF n <= Len(s) THEN s[n] ELSE t[n - Len(s)]
  BY ConcatProperties, Zenon
<1>2. QED
  BY <1>1, Zenon

LEMMA Same ==
    ASSUME NEW s \in Seq(Stage), NEW t \in Seq(Stage), Len(s) = Len(t),
           \A n \in 1..Len(s) : s[n] = t[n]
    PROVE  s = t
  BY SeqEqual, Zenon

LEMMA JoinTwo ==
    ASSUME NEW a \in Stage, NEW b \in Stage
    PROVE  <<a>> \o <<b>> = <<a, b>>
<1> DEFINE s == <<a>>  t == <<b>>  u == <<a, b>>
<1>1. s \in Seq(Stage) /\ t \in Seq(Stage) /\ Len(s) = 1 /\ Len(t) = 1
  OBVIOUS
<1>2. s[1] = a /\ t[1] = b
  OBVIOUS
<1>3. u \in Seq(Stage) /\ Len(u) = 2 /\ u[1] = a /\ u[2] = b
  OBVIOUS
<1> HIDE DEF s, t, u
<1>4. PICK v : v = s \o t
  OBVIOUS
<1>5. v \in Seq(Stage) /\ Len(v) = Len(s) + Len(t)
  BY <1>1, <1>4, ConcatLength, Zenon
<1>6. \A n \in 1..Len(s) + Len(t) : v[n] = IF n <= Len(s) THEN s[n] ELSE t[n - Len(s)]
  BY <1>1, <1>4, ConcatItems, Zenon
<1>7. v[1] = a /\ v[2] = b
  BY <1>1, <1>2, <1>6
<1>8. Len(v) = 2 /\ \A n \in 1..2 : v[n] = u[n]
  <2>1. \A n \in 1..2 : n = 1 \/ n = 2
    OBVIOUS
  <2>2. QED
    BY <1>1, <1>3, <1>5, <1>7, <2>1
<1>9. v = u
  BY <1>3, <1>5, <1>8, Same, Zenon
<1>10. QED
  BY <1>4, <1>9 DEF s, t, u

LEMMA JoinThree ==
    ASSUME NEW a \in Stage, NEW b \in Stage, NEW c \in Stage
    PROVE  <<a>> \o <<b, c>> = <<a, b, c>>
<1> DEFINE s == <<a>>  t == <<b, c>>  u == <<a, b, c>>
<1>1. s \in Seq(Stage) /\ t \in Seq(Stage) /\ Len(s) = 1 /\ Len(t) = 2
  OBVIOUS
<1>2. s[1] = a /\ t[1] = b /\ t[2] = c
  OBVIOUS
<1>3. u \in Seq(Stage) /\ Len(u) = 3 /\ u[1] = a /\ u[2] = b /\ u[3] = c
  OBVIOUS
<1> HIDE DEF s, t, u
<1>4. PICK v : v = s \o t
  OBVIOUS
<1>5. v \in Seq(Stage) /\ Len(v) = Len(s) + Len(t)
  BY <1>1, <1>4, ConcatLength, Zenon
<1>6. \A n \in 1..Len(s) + Len(t) : v[n] = IF n <= Len(s) THEN s[n] ELSE t[n - Len(s)]
  BY <1>1, <1>4, ConcatItems, Zenon
<1>7. v[1] = a /\ v[2] = b /\ v[3] = c
  BY <1>1, <1>2, <1>6
<1>8. Len(v) = 3 /\ \A n \in 1..3 : v[n] = u[n]
  <2>1. \A n \in 1..3 : n = 1 \/ n = 2 \/ n = 3
    OBVIOUS
  <2>2. QED
    BY <1>1, <1>3, <1>5, <1>7, <2>1
<1>9. v = u
  BY <1>3, <1>5, <1>8, Same, Zenon
<1>10. QED
  BY <1>4, <1>9 DEF s, t, u

LEMMA JoinFour ==
    ASSUME NEW a \in Stage, NEW b \in Stage, NEW c \in Stage, NEW d \in Stage
    PROVE  <<a, b>> \o <<c, d>> = <<a, b, c, d>>
<1> DEFINE s == <<a, b>>  t == <<c, d>>  u == <<a, b, c, d>>
<1>1. s \in Seq(Stage) /\ t \in Seq(Stage) /\ Len(s) = 2 /\ Len(t) = 2
  OBVIOUS
<1>2. s[1] = a /\ s[2] = b /\ t[1] = c /\ t[2] = d
  OBVIOUS
<1>3. u \in Seq(Stage) /\ Len(u) = 4 /\ u[1] = a /\ u[2] = b /\ u[3] = c /\ u[4] = d
  OBVIOUS
<1> HIDE DEF s, t, u
<1>4. PICK v : v = s \o t
  OBVIOUS
<1>5. v \in Seq(Stage) /\ Len(v) = Len(s) + Len(t)
  BY <1>1, <1>4, ConcatLength, Zenon
<1>6. \A n \in 1..Len(s) + Len(t) : v[n] = IF n <= Len(s) THEN s[n] ELSE t[n - Len(s)]
  BY <1>1, <1>4, ConcatItems, Zenon
<1>7. v[1] = a /\ v[2] = b /\ v[3] = c /\ v[4] = d
  BY <1>1, <1>2, <1>6
<1>8. Len(v) = 4 /\ \A n \in 1..4 : v[n] = u[n]
  <2>1. \A n \in 1..4 : n = 1 \/ n = 2 \/ n = 3 \/ n = 4
    OBVIOUS
  <2>2. QED
    BY <1>1, <1>3, <1>5, <1>7, <2>1
<1>9. v = u
  BY <1>3, <1>5, <1>8, Same, Zenon
<1>10. QED
  BY <1>4, <1>9 DEF s, t, u

\* The stages of every operation, one by one.
LEMMA StagesAre ==
    ASSUME NEW op \in Op, NEW i \in Item
    PROVE  /\ op = "create" => Stages(op, i) \in {<<"store", "write">>, <<"link", "store", "write">>}
           /\ op = "update" => Stages(op, i) \in {<<"find", "store", "write">>,
                                                  <<"find", "link", "store", "write">>}
           /\ op = "deliver" => Stages(op, i) = <<"find", "store", "write">>
           /\ op = "delete" => Stages(op, i) = <<"count", "store", "write">>
           /\ op = "patch" => Stages(op, i) = <<"store", "write">>
<1>1. /\ <<"find">> \in Seq(Stage) /\ <<>> \in Seq(Stage) /\ <<"count">> \in Seq(Stage)
      /\ <<"store", "write">> \in Seq(Stage) /\ <<"link">> \in Seq(Stage)
      /\ "find" \in Stage /\ "link" \in Stage /\ "count" \in Stage
      /\ "store" \in Stage /\ "write" \in Stage
  BY DEF Stage
<1>2. \A seq \in Seq(Stage) : seq \o <<>> = seq /\ <<>> \o seq = seq
  BY ConcatEmptySeq
<1>3. /\ <<"find">> \o <<"store", "write">> = <<"find", "store", "write">>
      /\ <<"link">> \o <<"store", "write">> = <<"link", "store", "write">>
      /\ <<"count">> \o <<"store", "write">> = <<"count", "store", "write">>
      /\ <<"find">> \o <<"link">> = <<"find", "link">>
      /\ <<"find", "link">> \o <<"store", "write">> = <<"find", "link", "store", "write">>
  BY <1>1, JoinTwo, JoinThree, JoinFour
<1>4. QED
  <2> DEFINE First == CASE op \in {"update", "deliver"} -> <<"find">>
                        [] op = "delete" -> <<"count">>
                        [] op \in {"create", "patch"} -> <<>>
             Link == IF op \in {"create", "update"} /\ LinkOf[i] # NoItem THEN <<"link">> ELSE <<>>
  <2>1. Stages(op, i) = (First \o Link) \o <<"store", "write">>
    BY DEF Stages
  <2>2. First = IF op \in {"update", "deliver"} THEN <<"find">>
                ELSE IF op = "delete" THEN <<"count">> ELSE <<>>
    BY DEF Op
  <2> HIDE DEF First
  <2>3. /\ op = "create" => First = <<>> /\ Link \in {<<>>, <<"link">>}
        /\ op = "update" => First = <<"find">> /\ Link \in {<<>>, <<"link">>}
        /\ op = "deliver" => First = <<"find">> /\ Link = <<>>
        /\ op = "delete" => First = <<"count">> /\ Link = <<>>
        /\ op = "patch" => First = <<>> /\ Link = <<>>
    BY <2>2
  <2> HIDE DEF Link
  <2>4. ASSUME First = <<>>, Link = <<>> PROVE Stages(op, i) = <<"store", "write">>
    BY <1>1, <1>2, <2>1, <2>4
  <2>5. ASSUME First = <<>>, Link = <<"link">> PROVE Stages(op, i) = <<"link", "store", "write">>
    BY <1>1, <1>2, <1>3, <2>1, <2>5
  <2>6. ASSUME First = <<"find">>, Link = <<>> PROVE Stages(op, i) = <<"find", "store", "write">>
    BY <1>1, <1>2, <1>3, <2>1, <2>6
  <2>7. ASSUME First = <<"find">>, Link = <<"link">>
        PROVE  Stages(op, i) = <<"find", "link", "store", "write">>
    BY <1>3, <2>1, <2>7
  <2>8. ASSUME First = <<"count">>, Link = <<>> PROVE Stages(op, i) = <<"count", "store", "write">>
    BY <1>1, <1>2, <1>3, <2>1, <2>8
  <2>9. QED
    BY <2>3, <2>4, <2>5, <2>6, <2>7, <2>8

\* What is left of the stages after one.
LEMMA Tails ==
    /\ Tail(<<"find", "store", "write">>) = <<"store", "write">>
    /\ Tail(<<"find", "link", "store", "write">>) = <<"link", "store", "write">>
    /\ Tail(<<"link", "store", "write">>) = <<"store", "write">>
    /\ Tail(<<"count", "store", "write">>) = <<"store", "write">>
    /\ Tail(<<"store", "write">>) = <<"write">>
    /\ Tail(<<"write">>) = <<>>
  OBVIOUS

LEMMA Heads ==
    /\ Head(<<"find", "store", "write">>) = "find"
    /\ Head(<<"find", "link", "store", "write">>) = "find"
    /\ Head(<<"link", "store", "write">>) = "link"
    /\ Head(<<"count", "store", "write">>) = "count"
    /\ Head(<<"store", "write">>) = "store"
    /\ Head(<<"write">>) = "write"
  OBVIOUS

\* Where a call is, by the stages it has left.
LEMMA Places ==
    ASSUME TypeOK, Shaped, NEW c \in Caller, Active(c)
    PROVE  /\ AtStage(c, "write") <=> AtWrite(c)
           /\ AtStage(c, "store") <=> call[c].todo = <<"store", "write">>
           /\ AtStage(c, "link") => call[c].op \in {"create", "update"}
           /\ AtStage(c, "link") => call[c].todo = <<"link", "store", "write">>
           /\ AtStage(c, "find") => /\ call[c].op \in {"update", "deliver"}
                                    /\ Tail(call[c].todo) \in {<<"store", "write">>,
                                                               <<"link", "store", "write">>}
                                    /\ call[c].op = "deliver" => Tail(call[c].todo) = <<"store", "write">>
           /\ AtStage(c, "count") => /\ call[c].op = "delete"
                                     /\ Tail(call[c].todo) = <<"store", "write">>
           /\ AtWrite(c) => HasRead(c)
           /\ call[c].op \in {"update", "deliver", "delete"} =>
                 (AtStage(c, "store") \/ AtStage(c, "link") => HasRead(c))
           /\ AtStage(c, "find") \/ AtStage(c, "count") => ~HasRead(c)
<1> DEFINE todo == call[c].todo  op == call[c].op  item == call[c].item
<1>1. op \in Op /\ item \in Item
  BY DEF TypeOK, Call
<1>2. todo \in {Stages(op, item), <<"store", "write">>, <<"write">>}
      \/ (op = "update" /\ todo = <<"link", "store", "write">>)
  BY DEF Shaped, Shape
<1>3. /\ <<"write">> # <<"store", "write">> /\ <<"write">> # <<"link", "store", "write">>
      /\ <<"write">> # <<"find", "store", "write">> /\ <<"write">> # <<"find", "link", "store", "write">>
      /\ <<"write">> # <<"count", "store", "write">>
      /\ <<"store", "write">> # <<"find", "store", "write">>
      /\ <<"store", "write">> # <<"find", "link", "store", "write">>
      /\ <<"store", "write">> # <<"count", "store", "write">>
  OBVIOUS
<1> HIDE DEF todo, op, item
<1>4. QED
  BY <1>1, <1>2, <1>3, StagesAre, Heads, Tails DEF AtStage, AtWrite, HasRead, todo, op, item, Op

\* Where nobody is, and where everybody may be.
LEMMA Types ==
    /\ New \in Entry /\ Nobody \in Contents
    /\ \A answer \in {"none", "ok", "no", "error"} :
          /\ Idle(answer) \in Call
          /\ Idle(answer).todo = <<>> /\ Idle(answer).answer = answer
          /\ Idle(answer).missing = {} /\ Idle(answer).looked = FALSE
    /\ \A i \in Item : FileOf[i] \in File
<1>1. New \in Entry
  BY DEF New, Entry
<1>2. Nobody \in [{} -> Entry] /\ {} \in SUBSET Item
  BY DEF Nobody
<1>3. Nobody \in Contents
  BY <1>2 DEF Contents
<1>4. (CHOOSE i \in Item : TRUE) \in Item
  BY StoreAssumption DEF StoreAssumption
<1>5. /\ "patch" \in Op /\ NoChange \in Change /\ <<>> \in Seq(Stage) /\ FALSE \in BOOLEAN
      /\ {} \in SUBSET File /\ 0 \in Nat
  BY DEF Op, NoChange, Change
<1>6. ASSUME NEW answer \in {"none", "ok", "no", "error"}
      PROVE  /\ Idle(answer) \in Call
             /\ Idle(answer).todo = <<>> /\ Idle(answer).answer = answer
             /\ Idle(answer).missing = {} /\ Idle(answer).looked = FALSE
  BY <1>1, <1>3, <1>4, <1>5 DEF Idle, Call
<1>7. QED
  BY <1>1, <1>3, <1>6, StoreAssumption DEF StoreAssumption

LEMMA CallFacts ==
    ASSUME TypeOK, NEW c \in Caller
    PROVE  /\ call[c] \in Call /\ call[c].op \in Op /\ call[c].item \in Item
           /\ call[c].change \in Change /\ call[c].todo \in Seq(Stage)
           /\ call[c].looked \in BOOLEAN /\ call[c].missing \subseteq File
           /\ call[c].found \in Entry /\ call[c].before \in Nat /\ call[c].store \in Contents
           /\ Own(c) \in File /\ file[Own(c)] \in Contents
<1>1. call[c] \in Call
  BY DEF TypeOK
<1>2. call[c].item \in Item
  BY <1>1 DEF Call
<1>3. QED
  BY <1>1, <1>2, Types DEF Call, Own, TypeOK

LEMMA StagesTyped == ASSUME NEW op \in Op, NEW i \in Item PROVE Stages(op, i) \in Seq(Stage)
<1>1. /\ <<"find", "store", "write">> \in Seq(Stage) /\ <<"link", "store", "write">> \in Seq(Stage)
      /\ <<"count", "store", "write">> \in Seq(Stage) /\ <<"store", "write">> \in Seq(Stage)
      /\ <<"find", "link", "store", "write">> \in Seq(Stage)
  BY DEF Stage
<1>2. QED
  BY <1>1, StagesAre DEF Op

\* What a call is after a stage.
LEMMA AfterOnward ==
    ASSUME TypeOK, NEW c \in Caller, NEW state \in Call, state.todo = call[c].todo, Active(c),
           Onward(c, state)
    PROVE  /\ call' \in [Caller -> Call]
           /\ call'[c] = [state EXCEPT !.todo = Tail(@), !.looked = FALSE]
           /\ call'[c].todo = Tail(call[c].todo) /\ call'[c].looked = FALSE
           /\ call'[c].op = state.op /\ call'[c].item = state.item /\ call'[c].change = state.change
           /\ call'[c].missing = state.missing /\ call'[c].found = state.found
           /\ call'[c].before = state.before /\ call'[c].store = state.store
           /\ call'[c].answer = state.answer
           /\ \A d \in Caller : d # c => call'[d] = call[d]
<1> DEFINE next == [state EXCEPT !.todo = Tail(@), !.looked = FALSE]
<1>1. Tail(state.todo) \in Seq(Stage)
  BY CallFacts DEF Active
<1>2. /\ next \in Call /\ next.todo = Tail(state.todo) /\ next.looked = FALSE
      /\ next.op = state.op /\ next.item = state.item /\ next.change = state.change
      /\ next.missing = state.missing /\ next.found = state.found
      /\ next.before = state.before /\ next.store = state.store
      /\ next.answer = state.answer
  BY <1>1 DEF Call
<1>3. call' = [call EXCEPT ![c] = next]
  BY DEF Onward
<1> HIDE DEF next
<1>4. /\ call' \in [Caller -> Call] /\ call'[c] = next
      /\ \A d \in Caller : d # c => call'[d] = call[d]
  BY <1>2, <1>3 DEF TypeOK
<1>5. QED
  BY <1>2, <1>4 DEF next

LEMMA Moved ==
    ASSUME TypeOK, NEW c \in Caller, NEW next \in Call, call' = [call EXCEPT ![c] = next]
    PROVE  /\ call' \in [Caller -> Call] /\ call'[c] = next
           /\ \A d \in Caller : d # c => call'[d] = call[d]
  BY DEF TypeOK

\* A call that is over has no stages left, and may leave files to be filled.
LEMMA Over ==
    ASSUME TypeOK, NEW c \in Caller, NEW answer \in {"none", "ok", "no", "error"},
           \/ Ends(c, answer)
           \/ \E left \in SUBSET File : call' = [call EXCEPT ![c] = [Idle(answer) EXCEPT !.missing = left]]
    PROVE  /\ call' \in [Caller -> Call]
           /\ call'[c].todo = <<>> /\ call'[c].answer = answer
           /\ \A d \in Caller : d # c => call'[d] = call[d]
<1>1. ASSUME Ends(c, answer)
      PROVE  \E next \in Call : /\ next.todo = <<>> /\ next.answer = answer
                                /\ call' = [call EXCEPT ![c] = next]
  BY <1>1, Types DEF Ends
<1>2. ASSUME NEW left \in SUBSET File, call' = [call EXCEPT ![c] = [Idle(answer) EXCEPT !.missing = left]]
      PROVE  \E next \in Call : /\ next.todo = <<>> /\ next.answer = answer
                                /\ call' = [call EXCEPT ![c] = next]
  <2> DEFINE next == [Idle(answer) EXCEPT !.missing = left]
  <2>1. next \in Call /\ next.todo = <<>> /\ next.answer = answer
    BY Types DEF Call
  <2>2. QED
    BY <1>2, <2>1
<1>3. PICK next \in Call : /\ next.todo = <<>> /\ next.answer = answer
                           /\ call' = [call EXCEPT ![c] = next]
  BY <1>1, <1>2
<1>4. QED
  BY <1>3, Moved

----------------------------------------------------------------------------
(* Contents.                                                                          *)

LEMMA InContents ==
    /\ \A contents \in Contents : /\ DOMAIN contents \subseteq Item
                                  /\ \A i \in DOMAIN contents : contents[i] \in Entry
                                  /\ contents = [i \in DOMAIN contents |-> contents[i]]
    /\ \A items \in SUBSET Item : [items -> Entry] \subseteq Contents
  BY DEF Contents

LEMMA GoodDefault == ASSUME NEW f \in File PROVE Good(Default(f), f)
<1>1. {s \in Settings : FileOf[s] = f} \subseteq Settings
  OBVIOUS
<1>2. IsFiniteSet({s \in Settings : FileOf[s] = f}) /\ Settings \subseteq Item
  BY <1>1, FS_Subset, StoreAssumption DEF StoreAssumption
<1>3. Default(f) \in [{s \in Settings : FileOf[s] = f} -> Entry]
  BY Types DEF Default
<1>4. Default(f) \in Contents
  BY <1>2, <1>3, InContents
<1>5. DOMAIN Default(f) = {s \in Settings : FileOf[s] = f}
  BY DEF Default
<1>6. QED
  BY <1>2, <1>4, <1>5 DEF Good

LEMMA GoodPut ==
    ASSUME NEW f \in File, NEW contents, Good(contents, f), NEW i \in Item, FileOf[i] = f,
           NEW entry \in Entry
    PROVE  Good(Put(contents, i, entry), f)
<1>1. DOMAIN contents \subseteq Item /\ \A j \in DOMAIN contents : contents[j] \in Entry
  BY InContents DEF Good
<1>2. DOMAIN Put(contents, i, entry) = DOMAIN contents \union {i}
  BY DEF Put
<1>3. Put(contents, i, entry) \in [DOMAIN contents \union {i} -> Entry]
  BY <1>1 DEF Put
<1>4. Put(contents, i, entry) \in Contents
  BY <1>1, <1>3, InContents
<1>5. IsFiniteSet(DOMAIN contents \union {i})
  BY FS_AddElement DEF Good
<1>6. QED
  BY <1>2, <1>4, <1>5 DEF Good

LEMMA GoodWithout ==
    ASSUME NEW f \in File, NEW contents, Good(contents, f), NEW i \in Item, i \notin Settings
    PROVE  Good(Without(contents, i), f)
<1>1. DOMAIN contents \subseteq Item /\ \A j \in DOMAIN contents : contents[j] \in Entry
  BY InContents DEF Good
<1>2. DOMAIN Without(contents, i) = DOMAIN contents \ {i}
  BY DEF Without
<1>3. Without(contents, i) \in [DOMAIN contents \ {i} -> Entry]
  BY <1>1 DEF Without
<1>4. Without(contents, i) \in Contents
  BY <1>1, <1>3, InContents
<1>5. IsFiniteSet(DOMAIN contents \ {i})
  BY FS_RemoveElement DEF Good
<1>6. QED
  BY <1>2, <1>4, <1>5 DEF Good

LEMMA ChangedTyped ==
    ASSUME NEW entry \in Entry, NEW change \in Changes \union {NoChange}
    PROVE  Changed(entry, change) \in Entry
  BY DEF Entry, Changes, NoChange, Changed

LEMMA DeliveredTyped ==
    ASSUME NEW entry \in Entry, NEW i
    PROVE  Delivered(i, entry) \in Entry
  BY DEF Entry, Changed, Delivered

LEMMA GoodResult ==
    ASSUME TypeOK, Shaped, Stored, NEW c \in Caller, AtWrite(c)
    PROVE  Good(Result(c), Own(c))
<1> DEFINE i == call[c].item  store == call[c].store  found == call[c].found
           op == call[c].op  change == call[c].change
<1>1. /\ op \in Op /\ i \in Item /\ found \in Entry /\ store \in Contents
      /\ Own(c) \in File /\ FileOf[i] = Own(c)
  BY CallFacts DEF Own
<1>2. Active(c)
  BY DEF AtWrite, Active
<1>3. change \in Changes \union {NoChange} /\ (op = "patch" <=> i \in Settings)
  BY <1>2 DEF Shaped, Shape
<1>4. Good(store, Own(c))
  BY DEF Stored, Stores
<1>5. \A j \in DOMAIN store : store[j] \in Entry
  BY <1>1, InContents
<1>6. Result(c) = CASE op = "create" -> Put(store, i, New)
                    [] op = "update" -> Put(store, i, Changed(found, change))
                    [] op = "deliver" -> Put(store, i, Delivered(i, found))
                    [] op = "delete" -> Without(store, i)
                    [] op = "patch" -> Put(store, i, Changed(IF i \in DOMAIN store THEN store[i] ELSE New,
                                                            change))
  BY DEF Result
<1> HIDE DEF i, store, found, op, change
<1>7. CASE op = "create"
  BY <1>1, <1>4, <1>6, <1>7, Types, GoodPut
<1>8. CASE op = "update"
  <2>1. Changed(found, change) \in Entry
    BY <1>1, <1>3, ChangedTyped
  <2>2. QED
    BY <1>1, <1>4, <1>6, <1>8, <2>1, GoodPut
<1>9. CASE op = "deliver"
  <2>1. Delivered(i, found) \in Entry
    BY <1>1, DeliveredTyped
  <2>2. QED
    BY <1>1, <1>4, <1>6, <1>9, <2>1, GoodPut
<1>10. CASE op = "delete"
  BY <1>1, <1>3, <1>4, <1>6, <1>10, GoodWithout
<1>11. CASE op = "patch"
  <2> DEFINE entry == IF i \in DOMAIN store THEN store[i] ELSE New
  <2>1. entry \in Entry
    BY <1>5, Types
  <2>2. Result(c) = Put(store, i, Changed(entry, change))
    BY <1>6, <1>11
  <2> HIDE DEF entry
  <2>3. Changed(entry, change) \in Entry
    BY <1>3, <2>1, ChangedTyped
  <2>4. QED
    BY <1>1, <1>4, <2>2, <2>3, GoodPut
<1>12. QED
  BY <1>1, <1>7, <1>8, <1>9, <1>10, <1>11 DEF Op

----------------------------------------------------------------------------
(* Steps.                                                                             *)

LEMMA InitInv == Init => IInv
<1> SUFFICES ASSUME Init PROVE IInv
  OBVIOUS
<1>1. \A c \in Caller : call[c] = Idle("none") /\ call[c].todo = <<>>
  BY Types DEF Init
<1>2. \A f \in File : Good(file[f], f)
  BY GoodDefault DEF Init
<1>3. TypeOK
  <2>1. file \in [File -> Contents]
    BY <1>2 DEF Init, Good
  <2>2. call \in [Caller -> Call]
    BY Types DEF Init
  <2>3. \A f \in File : \A i \in DOMAIN file[f] : FileOf[i] = f
    BY <1>2 DEF Good
  <2>4. QED
    BY <2>1, <2>2, <2>3, StoreAssumption DEF Init, TypeOK, StoreAssumption
<1>4. \A c \in Caller : ~Active(c) /\ ~AtWrite(c) /\ ~HasRead(c)
  BY <1>1 DEF Active, AtWrite, HasRead
<1>5. Shaped /\ Ensuring /\ Stored /\ Remembered
  BY <1>2, <1>4 DEF Shaped, Shape, Ensuring, Ensures, Stored, Stores, Remembered, Remembers
<1>6. QED
  BY <1>3, <1>5 DEF IInv

\* A caller's own records depend on its call, the files it uses and those that are there.
LEMMA Unmoved ==
    ASSUME TypeOK, NEW d \in Caller, call'[d] = call[d]
    PROVE  /\ Active(d)' = Active(d) /\ AtWrite(d)' = AtWrite(d) /\ HasRead(d)' = HasRead(d)
           /\ Own(d)' = Own(d)
  BY DEF Active, AtWrite, HasRead, Own

\* Only what other callers wrote matters to one that did not move.
LEMMA Others ==
    ASSUME IInv, NEW d \in Caller, call'[d] = call[d], there \subseteq there', there' \subseteq File,
           d \in quiet' => d \in quiet /\ (HasRead(d) => file'[Own(d)] = file[Own(d)])
    PROVE  Shape(d)' /\ Ensures(d)' /\ Stores(d)' /\ Remembers(d)'
<1>1. /\ Active(d)' = Active(d) /\ AtWrite(d)' = AtWrite(d) /\ HasRead(d)' = HasRead(d)
      /\ Own(d)' = Own(d)
  BY Unmoved DEF IInv
<1>2. Shape(d)'
  BY <1>1 DEF IInv, Shaped, Shape
<1>3. Ensures(d)'
  BY <1>1 DEF IInv, Ensuring, Ensures
<1>4. Stores(d)'
  BY <1>1 DEF IInv, Stored, Stores
<1>5. Remembers(d)'
  BY <1>1 DEF IInv, Remembered, Remembers
<1>6. QED
  BY <1>2, <1>3, <1>4, <1>5

\* A step of c is right if it is right for c, and writes no file but one with legal contents.
LEMMA StepOf ==
    ASSUME IInv, NEW c \in Caller, call' \in [Caller -> Call],
           \A d \in Caller : d # c => call'[d] = call[d],
           there \subseteq there', there' \subseteq File,
           begun' \in 0..MaxCalls, created' \subseteq Item,
           \/ file' = file /\ quiet' \subseteq quiet \union {c}
           \/ \E f \in File : \E contents : /\ file' = [file EXCEPT ![f] = contents]
                                            /\ Good(contents, f) /\ Disturbs(c, f),
           Shape(c)' /\ Ensures(c)' /\ Stores(c)' /\ Remembers(c)'
    PROVE  IInv'
<1>1. TypeOK /\ quiet \subseteq Caller /\ \A f \in File : Good(file[f], f)
  BY DEF IInv, TypeOK, Stored
<1>2. file' \in [File -> Contents] /\ \A f \in File : Good(file'[f], f)
  BY <1>1 DEF TypeOK, Good
<1>3. quiet' \subseteq quiet \union {c}
  BY DEF Disturbs
<1>4. TypeOK'
  BY <1>1, <1>2, <1>3 DEF TypeOK, Good
<1>5. ASSUME NEW d \in Caller, d # c PROVE Shape(d)' /\ Ensures(d)' /\ Stores(d)' /\ Remembers(d)'
  <2>1. call'[d] = call[d] /\ (d \in quiet' => d \in quiet)
    BY <1>3, <1>5
  <2>2. d \in quiet' /\ HasRead(d) => file'[Own(d)] = file[Own(d)]
    <3>1. CASE file' = file
      BY <3>1
    <3>2. ASSUME NEW f \in File, NEW contents, file' = [file EXCEPT ![f] = contents], Disturbs(c, f),
                 d \in quiet', HasRead(d)
          PROVE  file'[Own(d)] = file[Own(d)]
      <4>1. f # Own(d)
        BY <1>5, <3>2 DEF Disturbs, Uses
      <4>2. Own(d) \in File
        BY <1>1, CallFacts
      <4>3. QED
        BY <1>1, <3>2, <4>1, <4>2 DEF TypeOK
    <3>3. QED
      BY <3>1, <3>2
  <2>3. QED
    BY <2>1, <2>2, Others
<1>6. QED
  BY <1>2, <1>4, <1>5 DEF IInv, Shaped, Ensuring, Stored, Remembered

\* A call that is over keeps nothing.
LEMMA OverStep ==
    ASSUME IInv, NEW c \in Caller, call' \in [Caller -> Call], call'[c].todo = <<>>
    PROVE  Shape(c)' /\ Ensures(c)' /\ Stores(c)' /\ Remembers(c)'
<1>1. <<>> # <<"write">>
  OBVIOUS
<1>2. ~Active(c)' /\ ~AtWrite(c)' /\ ~HasRead(c)'
  BY <1>1 DEF Active, AtWrite, HasRead
<1>3. QED
  BY <1>2 DEF Shape, Ensures, Stores, Remembers

\* A stage reads only when all files are there, and none is left to fill.
LEMMA ReadsAll ==
    ASSUME IInv, NEW c \in Caller, Active(c), Ensured(c)
    PROVE  there = File /\ call[c].missing = {}
<1>1. call[c].looked \in BOOLEAN /\ there \subseteq File
  BY CallFacts DEF IInv, TypeOK
<1>2. CASE call[c].looked = TRUE
  BY <1>1, <1>2 DEF Ensured, IInv, Ensuring, Ensures
<1>3. CASE call[c].looked = FALSE
  BY <1>3 DEF Ensured, IInv, Ensuring, Ensures
<1>4. QED
  BY <1>1, <1>2, <1>3

\* A stage that reads and goes on, with what it adds to what the call remembers.
LEMMA OnwardStep ==
    ASSUME IInv, NEW c \in Caller, Active(c), Ensured(c), ~AtWrite(c),
           NEW state \in Call, Onward(c, state), Unwritten,
           /\ state.todo = call[c].todo /\ state.op = call[c].op /\ state.item = call[c].item
           /\ state.change = call[c].change /\ state.missing = call[c].missing
           /\ state.answer = call[c].answer,
           \/ Tail(call[c].todo) \in {<<"store", "write">>, <<"write">>}
           \/ call[c].op = "update" /\ Tail(call[c].todo) = <<"link", "store", "write">>,
           Tail(call[c].todo) = <<"write">> =>
              state.store = file[Own(c)] /\ (state.op = "delete" => state.item \in DOMAIN state.store),
           c \in quiet =>
              /\ state.op \in {"update", "deliver"} =>
                    state.item \in DOMAIN file[Own(c)] /\ state.found = file[Own(c)][state.item]
              /\ state.op = "delete" => state.before = Cardinality(DOMAIN file[Own(c)])
    PROVE  IInv'
<1>1. TypeOK
  BY DEF IInv
<1>2. /\ call' \in [Caller -> Call] /\ \A d \in Caller : d # c => call'[d] = call[d]
      /\ call'[c].todo = Tail(call[c].todo) /\ call'[c].looked = FALSE
      /\ call'[c].op = call[c].op /\ call'[c].item = call[c].item /\ call'[c].change = call[c].change
      /\ call'[c].missing = call[c].missing /\ call'[c].answer = call[c].answer
      /\ call'[c].found = state.found /\ call'[c].before = state.before /\ call'[c].store = state.store
  BY <1>1, AfterOnward
<1>3. /\ file' = file /\ there' = there /\ quiet' = quiet /\ begun' = begun /\ created' = created
      /\ there = File /\ call[c].missing = {}
  BY ReadsAll DEF Unwritten
<1>4. Own(c)' = Own(c) /\ Own(c) \in File
  BY <1>1, <1>2, CallFacts DEF Own
<1>5. Shape(c)'
  BY <1>2 DEF IInv, Shaped, Shape
<1>6. Ensures(c)'
  BY <1>2, <1>3 DEF Ensures
<1>7. AtWrite(c)' => call'[c].todo = <<"write">>
  BY DEF AtWrite
<1>8. Good(file[Own(c)], Own(c))
  BY <1>4 DEF IInv, Stored
<1>9. Stores(c)'
  BY <1>2, <1>4, <1>7, <1>8 DEF Stores
<1>10. Remembers(c)'
  BY <1>2, <1>3, <1>4, <1>7 DEF Remembers
<1>11. begun \in 0..MaxCalls /\ created \subseteq Item /\ there \subseteq File
  BY <1>1 DEF TypeOK
<1>12. QED
  BY <1>2, <1>3, <1>5, <1>6, <1>9, <1>10, <1>11, StepOf

LEMMA BeginStep ==
    ASSUME IInv, NEW c \in Caller, NEW op \in Op, NEW i \in Item,
           NEW change \in Changes \union {NoChange}, Begin(c, op, i, change)
    PROVE  IInv'
<1> DEFINE next == [Idle("none") EXCEPT !.op = op, !.item = i, !.change = change,
                                        !.todo = Stages(op, i)]
<1>1. change \in Change
  BY DEF Change, Changes, NoChange
<1>2. /\ next \in Call /\ next.op = op /\ next.item = i /\ next.change = change
      /\ next.todo = Stages(op, i) /\ next.answer = "none" /\ next.missing = {} /\ next.looked = FALSE
  BY <1>1, Types, StagesTyped DEF Call
<1>3. call' = [call EXCEPT ![c] = next]
  BY DEF Begin
<1> HIDE DEF next
<1>4. call' \in [Caller -> Call] /\ call'[c] = next /\ \A d \in Caller : d # c => call'[d] = call[d]
  BY <1>2, <1>3, Moved DEF IInv
<1>5. op = "patch" <=> i \in Settings
  BY DEF Begin, Legal
<1>6. ~HasRead(c)'
  BY <1>2, <1>4 DEF HasRead
<1>7. ~AtWrite(c)'
  <2>1. /\ <<"write">> # <<"store", "write">> /\ <<"write">> # <<"link", "store", "write">>
        /\ <<"write">> # <<"find", "store", "write">> /\ <<"write">> # <<"find", "link", "store", "write">>
        /\ <<"write">> # <<"count", "store", "write">>
    OBVIOUS
  <2>2. Stages(op, i) # <<"write">>
    BY <2>1, StagesAre DEF Op
  <2>3. QED
    BY <1>2, <1>4, <2>2 DEF AtWrite
<1>8. Shape(c)' /\ Ensures(c)' /\ Stores(c)' /\ Remembers(c)'
  BY <1>2, <1>4, <1>5, <1>6, <1>7 DEF Shape, Ensures, Stores, Remembers
<1>9. /\ begun' \in 0..MaxCalls /\ created' \subseteq Item /\ there' = there /\ there \subseteq File
      /\ file' = file /\ quiet' \subseteq quiet \union {c}
  BY StoreAssumption DEF IInv, TypeOK, Begin, StoreAssumption
<1>10. QED
  BY <1>4, <1>8, <1>9, StepOf

\* Who looks or fills has read nothing yet.
LEMMA LookStep == ASSUME IInv, NEW c \in Caller, Look(c) PROVE IInv'
<1> DEFINE next == [call[c] EXCEPT !.looked = TRUE, !.missing = File \ there]
<1>1. TypeOK /\ call[c] \in Call /\ Active(c)
  BY CallFacts DEF IInv, Look, Reading
<1>2. /\ next \in Call /\ next.looked = TRUE /\ next.missing = File \ there
      /\ next.op = call[c].op /\ next.item = call[c].item /\ next.change = call[c].change
      /\ next.todo = call[c].todo /\ next.store = call[c].store /\ next.answer = call[c].answer
  BY <1>1 DEF Call
<1>3. call' = [call EXCEPT ![c] = next]
  BY <1>1 DEF Look, TypeOK
<1> HIDE DEF next
<1>4. call' \in [Caller -> Call] /\ call'[c] = next /\ \A d \in Caller : d # c => call'[d] = call[d]
  BY <1>1, <1>2, <1>3, Moved
<1>5. ~HasRead(c) /\ file' = file /\ there' = there /\ quiet' = quiet /\ begun' = begun /\ created' = created
  BY <1>1 DEF Look, IInv, Ensuring, Ensures
<1>6. ~HasRead(c)' /\ Active(c)' /\ Own(c)' = Own(c) /\ (AtWrite(c)' <=> AtWrite(c))
  BY <1>1, <1>2, <1>4, <1>5 DEF HasRead, Active, AtWrite, Own
<1>7. Shape(c)' /\ Ensures(c)' /\ Stores(c)' /\ Remembers(c)'
  <2>1. Shape(c)'
    BY <1>1, <1>2, <1>4 DEF IInv, Shaped, Shape
  <2>2. Ensures(c)'
    BY <1>2, <1>4, <1>5, <1>6 DEF Ensures
  <2>3. Stores(c)'
    BY <1>2, <1>4, <1>6 DEF IInv, Stored, Stores
  <2>4. Remembers(c)'
    BY <1>6 DEF Remembers
  <2>5. QED
    BY <2>1, <2>2, <2>3, <2>4
<1>8. begun \in 0..MaxCalls /\ created \subseteq Item /\ there \subseteq File
  BY <1>1 DEF TypeOK
<1>9. QED
  BY <1>4, <1>5, <1>7, <1>8, StepOf

LEMMA FillStep == ASSUME IInv, NEW c \in Caller, NEW f \in File, Fill(c, f) PROVE IInv'
<1> DEFINE next == [call[c] EXCEPT !.missing = @ \ {f}]
<1>1. TypeOK /\ call[c] \in Call
  BY CallFacts DEF IInv
<1>2. /\ next \in Call /\ next.looked = call[c].looked /\ next.missing = call[c].missing \ {f}
      /\ next.op = call[c].op /\ next.item = call[c].item /\ next.change = call[c].change
      /\ next.todo = call[c].todo /\ next.store = call[c].store /\ next.answer = call[c].answer
  BY <1>1 DEF Call
<1>3. call' = [call EXCEPT ![c] = next]
  BY <1>1 DEF Fill, TypeOK
<1> HIDE DEF next
<1>4. call' \in [Caller -> Call] /\ call'[c] = next /\ \A d \in Caller : d # c => call'[d] = call[d]
  BY <1>1, <1>2, <1>3, Moved
<1>5. /\ f \in call[c].missing /\ file' = [file EXCEPT ![f] = Default(f)]
      /\ there' = there \union {f} /\ begun' = begun /\ created' = created /\ Disturbs(c, f)
  BY DEF Fill
<1>6. Active(c) => call[c].looked = TRUE /\ ~HasRead(c)
  BY <1>1, <1>5, CallFacts DEF IInv, Ensuring, Ensures
<1>7. /\ (Active(c)' <=> Active(c)) /\ Own(c)' = Own(c) /\ (AtWrite(c)' <=> AtWrite(c))
      /\ ~HasRead(c)'
  BY <1>2, <1>4, <1>6 DEF HasRead, Active, AtWrite, Own
<1>8. Shape(c)' /\ Ensures(c)' /\ Stores(c)' /\ Remembers(c)'
  <2>1. Shape(c)'
    BY <1>2, <1>4, <1>7 DEF IInv, Shaped, Shape
  <2>2. Ensures(c)'
    BY <1>2, <1>4, <1>5, <1>6, <1>7 DEF IInv, Ensuring, Ensures
  <2>3. Stores(c)'
    BY <1>2, <1>4, <1>7 DEF IInv, Stored, Stores
  <2>4. Remembers(c)'
    BY <1>7 DEF Remembers
  <2>5. QED
    BY <2>1, <2>2, <2>3, <2>4
<1>9. begun \in 0..MaxCalls /\ created \subseteq Item /\ there \subseteq File
  BY <1>1 DEF TypeOK
<1>10. QED
  BY <1>4, <1>5, <1>8, <1>9, GoodDefault, StepOf

\* A call ends without writing.
LEMMA EndStep ==
    ASSUME IInv, NEW c \in Caller, NEW answer \in {"none", "ok", "no", "error"}, Unwritten,
           \/ Ends(c, answer)
           \/ \E left \in SUBSET File : call' = [call EXCEPT ![c] = [Idle(answer) EXCEPT !.missing = left]]
    PROVE  IInv'
<1>1. TypeOK
  BY DEF IInv
<1>2. /\ call' \in [Caller -> Call] /\ call'[c].todo = <<>>
      /\ \A d \in Caller : d # c => call'[d] = call[d]
  BY <1>1, Over
<1>3. file' = file /\ there' = there /\ quiet' = quiet /\ begun' = begun /\ created' = created
  BY DEF Unwritten
<1>4. begun \in 0..MaxCalls /\ created \subseteq Item /\ there \subseteq File
  BY <1>1 DEF TypeOK
<1>5. QED
  BY <1>2, <1>3, <1>4, OverStep, StepOf

LEMMA FindStep == ASSUME IInv, NEW c \in Caller, Find(c) PROVE IInv'
<1>1. TypeOK /\ Shaped /\ Active(c) /\ Unwritten /\ AtStage(c, "find") /\ Ensured(c)
  BY DEF IInv, Find, AtStage
<1>2. CASE Ends(c, "error")
  BY <1>1, <1>2, EndStep
<1>3. CASE call[c].item \in DOMAIN file[Own(c)]
           /\ Onward(c, [call[c] EXCEPT !.found = file[Own(c)][call[c].item]])
  <2> DEFINE state == [call[c] EXCEPT !.found = file[Own(c)][call[c].item]]
  <2>1. file[Own(c)][call[c].item] \in Entry /\ call[c] \in Call
    BY <1>1, <1>3, CallFacts, InContents
  <2>2. /\ state \in Call /\ state.found = file[Own(c)][call[c].item]
        /\ state.todo = call[c].todo /\ state.op = call[c].op /\ state.item = call[c].item
        /\ state.change = call[c].change /\ state.missing = call[c].missing
        /\ state.answer = call[c].answer
    BY <2>1 DEF Call
  <2>3. Onward(c, state)
    BY <1>3
  <2> HIDE DEF state
  <2>4. /\ call[c].op \in {"update", "deliver"} /\ ~AtWrite(c)
        /\ \/ Tail(call[c].todo) = <<"store", "write">>
           \/ call[c].op = "update" /\ Tail(call[c].todo) = <<"link", "store", "write">>
    <3>1. ~AtWrite(c)
      <4>1. ~AtStage(c, "write")
        BY <1>1 DEF AtStage
      <4>2. QED
        BY <1>1, <4>1, Places
    <3>2. call[c].op \in {"update", "deliver"}
      BY <1>1, Places
    <3>3. Tail(call[c].todo) \in {<<"store", "write">>, <<"link", "store", "write">>}
      BY <1>1, Places
    <3>4. call[c].op = "deliver" => Tail(call[c].todo) = <<"store", "write">>
      BY <1>1, Places
    <3>5. QED
      BY <3>1, <3>2, <3>3, <3>4
  <2>5. <<"store", "write">> # <<"write">> /\ <<"link", "store", "write">> # <<"write">>
    OBVIOUS
  <2>6. QED
    BY <1>1, <1>3, <2>2, <2>3, <2>4, <2>5, OnwardStep
<1>4. QED
  BY <1>2, <1>3 DEF Find

LEMMA CountStep == ASSUME IInv, NEW c \in Caller, Count(c) PROVE IInv'
<1> DEFINE state == [call[c] EXCEPT !.before = Cardinality(DOMAIN file[Own(c)])]
<1>1. TypeOK /\ Shaped /\ Active(c) /\ Unwritten /\ AtStage(c, "count") /\ Ensured(c)
  BY DEF IInv, Count, AtStage
<1>2. Cardinality(DOMAIN file[Own(c)]) \in Nat /\ call[c] \in Call
  BY <1>1, CallFacts, FS_CardinalityType DEF IInv, Stored, Good
<1>3. /\ state \in Call /\ state.before = Cardinality(DOMAIN file[Own(c)])
      /\ state.todo = call[c].todo /\ state.op = call[c].op /\ state.item = call[c].item
      /\ state.change = call[c].change /\ state.missing = call[c].missing
      /\ state.answer = call[c].answer
  BY <1>2 DEF Call
<1>4. Onward(c, state)
  BY DEF Count
<1> HIDE DEF state
<1>5. call[c].op = "delete" /\ ~AtWrite(c) /\ Tail(call[c].todo) = <<"store", "write">>
  BY <1>1, Places
<1>6. <<"store", "write">> # <<"write">>
  OBVIOUS
<1>7. QED
  BY <1>1, <1>3, <1>4, <1>5, <1>6, OnwardStep

LEMMA CheckLinkStep == ASSUME IInv, NEW c \in Caller, CheckLink(c) PROVE IInv'
<1>1. TypeOK /\ Shaped /\ Active(c) /\ Unwritten /\ AtStage(c, "link") /\ Ensured(c)
  BY DEF IInv, CheckLink, AtStage
<1>2. CASE Ends(c, "error")
  BY <1>1, <1>2, EndStep
<1>3. CASE Onward(c, call[c])
  <2>1. /\ call[c].op \in {"create", "update"} /\ ~AtWrite(c)
        /\ call[c].todo = <<"link", "store", "write">>
        /\ call[c].op = "update" => HasRead(c)
    <3>1. ~AtStage(c, "write")
      BY <1>1 DEF AtStage
    <3>2. ~AtWrite(c)
      BY <1>1, <3>1, Places
    <3>3. call[c].op \in {"create", "update"} /\ call[c].todo = <<"link", "store", "write">>
      BY <1>1, Places
    <3>4. call[c].op = "update" => HasRead(c)
      BY <1>1, Places
    <3>5. QED
      BY <3>2, <3>3, <3>4
  <2>2. Tail(call[c].todo) = <<"store", "write">> /\ <<"store", "write">> # <<"write">>
    BY <2>1, Tails
  <2>3. c \in quiet /\ call[c].op = "update" =>
           call[c].item \in DOMAIN file[Own(c)] /\ call[c].found = file[Own(c)][call[c].item]
    BY <2>1 DEF IInv, Remembered, Remembers
  <2>4. call[c] \in Call
    BY <1>1, CallFacts
  <2>5. QED
    BY <1>1, <1>3, <2>1, <2>2, <2>3, <2>4, OnwardStep
<1>4. QED
  BY <1>2, <1>3 DEF CheckLink

LEMMA ReadStoreStep == ASSUME IInv, NEW c \in Caller, ReadStore(c) PROVE IInv'
<1>1. TypeOK /\ Shaped /\ Active(c) /\ Unwritten /\ AtStage(c, "store") /\ Ensured(c)
  BY DEF IInv, ReadStore, AtStage
<1>2. CASE Ends(c, Answer(c, DOMAIN file[Own(c)]))
  <2>1. Answer(c, DOMAIN file[Own(c)]) \in {"none", "ok", "no", "error"}
    BY DEF Answer
  <2>2. QED
    BY <1>1, <1>2, <2>1, EndStep
<1>3. CASE ~(call[c].op = "delete" /\ call[c].item \notin DOMAIN file[Own(c)])
           /\ Onward(c, [call[c] EXCEPT !.store = file[Own(c)]])
  <2> DEFINE state == [call[c] EXCEPT !.store = file[Own(c)]]
  <2>1. file[Own(c)] \in Contents /\ call[c] \in Call
    BY <1>1, CallFacts
  <2>2. /\ state \in Call /\ state.store = file[Own(c)]
        /\ state.todo = call[c].todo /\ state.op = call[c].op /\ state.item = call[c].item
        /\ state.change = call[c].change /\ state.missing = call[c].missing
        /\ state.answer = call[c].answer /\ state.found = call[c].found /\ state.before = call[c].before
    BY <2>1 DEF Call
  <2>3. Onward(c, state)
    BY <1>3
  <2> HIDE DEF state
  <2>4. /\ ~AtWrite(c) /\ call[c].todo = <<"store", "write">>
        /\ call[c].op \in {"update", "deliver", "delete"} => HasRead(c)
    <3>1. call[c].todo = <<"store", "write">>
      BY <1>1, Places
    <3>2. <<"store", "write">> # <<"write">>
      OBVIOUS
    <3>3. QED
      BY <1>1, <3>1, <3>2, Places DEF AtWrite
  <2>5. Tail(call[c].todo) = <<"write">>
    BY <2>4, Tails
  <2>6. c \in quiet =>
           /\ call[c].op \in {"update", "deliver"} =>
                 call[c].item \in DOMAIN file[Own(c)] /\ call[c].found = file[Own(c)][call[c].item]
           /\ call[c].op = "delete" => call[c].before = Cardinality(DOMAIN file[Own(c)])
    BY <2>4 DEF IInv, Remembered, Remembers
  <2>7. QED
    BY <1>1, <1>3, <2>2, <2>3, <2>4, <2>5, <2>6, OnwardStep
<1>4. QED
  BY <1>2, <1>3 DEF ReadStore

LEMMA WriteStep == ASSUME IInv, NEW c \in Caller, Write(c) PROVE IInv'
<1>1. TypeOK /\ Shaped /\ Stored /\ AtWrite(c)
  BY Places DEF IInv, Write, AtStage
<1>2. Good(Result(c), Own(c)) /\ Own(c) \in File
  BY <1>1, GoodResult, CallFacts
<1>3. PICK f \in File : f = Own(c)
  BY <1>2
<1>4. /\ file' = [file EXCEPT ![f] = Result(c)] /\ there' = there \union {f}
      /\ begun' = begun /\ created' = created /\ Disturbs(c, f) /\ Good(Result(c), f)
  BY <1>2, <1>3 DEF Write
<1>5. Answer(c, DOMAIN Result(c)) \in {"none", "ok", "no", "error"}
  BY DEF Answer
<1>6. Ends(c, Answer(c, DOMAIN Result(c)))
  BY DEF Write
<1>7. /\ call' \in [Caller -> Call] /\ call'[c].todo = <<>>
      /\ \A d \in Caller : d # c => call'[d] = call[d]
  BY <1>1, <1>5, <1>6, Over
<1>8. begun \in 0..MaxCalls /\ created \subseteq Item /\ there \subseteq File
  BY <1>1 DEF TypeOK
<1>9. QED
  BY <1>4, <1>7, <1>8, OverStep, StepOf

LEMMA FailStep == ASSUME IInv, NEW c \in Caller, Fail(c) PROVE IInv'
<1>1. call[c].missing \subseteq File
  BY CallFacts DEF IInv
<1>2. \E left \in SUBSET File : call' = [call EXCEPT ![c] = [Idle("error") EXCEPT !.missing = left]]
  BY <1>1 DEF Fail
<1>3. Unwritten
  BY DEF Fail
<1>4. QED
  BY <1>2, <1>3, EndStep

LEMMA NextInv == IInv /\ [Next]_vars => IInv'
<1> SUFFICES ASSUME IInv, [Next]_vars PROVE IInv'
  OBVIOUS
<1>1. CASE UNCHANGED vars
  <2>1. \A c \in Caller : /\ Active(c)' = Active(c) /\ AtWrite(c)' = AtWrite(c)
                          /\ HasRead(c)' = HasRead(c) /\ Own(c)' = Own(c)
    BY <1>1 DEF vars, Active, AtWrite, HasRead, Own
  <2>2. TypeOK'
    BY <1>1 DEF IInv, TypeOK, vars
  <2>3. Shaped' /\ Ensuring'
    BY <1>1, <2>1 DEF IInv, Shaped, Shape, Ensuring, Ensures, vars
  <2>4. Stored'
    BY <1>1, <2>1 DEF IInv, Stored, Stores, vars
  <2>5. Remembered'
    BY <1>1, <2>1 DEF IInv, Remembered, Remembers, vars
  <2>6. QED
    BY <2>2, <2>3, <2>4, <2>5 DEF IInv
<1>2. QED
  BY <1>1, BeginStep, LookStep, FillStep, FindStep, CheckLinkStep, CountStep, ReadStoreStep,
     WriteStep, FailStep DEF Next

----------------------------------------------------------------------------
(* What an undisturbed call writes and answers.                                       *)

LEMMA PutIsExcept ==
    ASSUME NEW contents \in Contents, NEW i \in DOMAIN contents, NEW entry
    PROVE  Put(contents, i, entry) = [contents EXCEPT ![i] = entry]
<1>1. DOMAIN contents \union {i} = DOMAIN contents
  OBVIOUS
<1>2. contents = [j \in DOMAIN contents |-> contents[j]]
  BY InContents
<1>3. QED
  BY <1>1, <1>2 DEF Put

LEMMA WriteExact ==
    ASSUME IInv, NEW c \in Caller, Write(c), c \in quiet
    PROVE  file'[Own(c)] = Atomically(call[c].op, call[c].item, call[c].change, file[Own(c)])
<1> DEFINE i == call[c].item  op == call[c].op  change == call[c].change
           contents == file[Own(c)]
<1>1. TypeOK /\ Shaped /\ Active(c) /\ AtStage(c, "write")
  BY DEF IInv, Write, AtStage
<1>2. AtWrite(c) /\ HasRead(c)
  BY <1>1, Places
<1>3. /\ call[c].store = contents
      /\ op \in {"update", "deliver"} => i \in DOMAIN contents /\ call[c].found = contents[i]
  BY <1>2 DEF IInv, Remembered, Remembers
<1>4. op \in Op /\ contents \in Contents /\ Own(c) \in File
  BY <1>1, CallFacts
<1>5. op = "patch" => i \in DOMAIN contents
  <2>1. op = "patch" => i \in Settings
    BY <1>1 DEF Shaped, Shape
  <2>2. Good(contents, Own(c)) /\ FileOf[i] = Own(c)
    BY <1>4 DEF IInv, Stored, Own
  <2>3. QED
    BY <2>1, <2>2 DEF Good
<1>6. file'[Own(c)] = Result(c)
  BY <1>1, <1>4 DEF Write, TypeOK
<1>7. Result(c) = CASE op = "create" -> Put(contents, i, New)
                    [] op = "update" -> Put(contents, i, Changed(call[c].found, change))
                    [] op = "deliver" -> Put(contents, i, Delivered(i, call[c].found))
                    [] op = "delete" -> Without(contents, i)
                    [] op = "patch" -> Put(contents, i, Changed(IF i \in DOMAIN contents THEN contents[i]
                                                               ELSE New, change))
  BY <1>3 DEF Result
<1> HIDE DEF i, op, change, contents
<1>8. CASE op = "create"
  BY <1>6, <1>7, <1>8 DEF Put, Atomically, op, i, change, contents
<1>9. CASE op = "delete"
  BY <1>6, <1>7, <1>9 DEF Without, Atomically, op, i, change, contents
<1>10. CASE op = "update" \/ op = "patch"
  <2>1. i \in DOMAIN contents
    BY <1>3, <1>5, <1>10
  <2>2. Result(c) = Put(contents, i, [contents[i] EXCEPT ![change.field] = change.to])
    BY <1>3, <1>7, <1>10, <2>1 DEF Changed
  <2>3. Result(c) = [contents EXCEPT ![i][change.field] = change.to]
    <3>1. PICK entry : entry = [contents[i] EXCEPT ![change.field] = change.to]
      OBVIOUS
    <3>2. Put(contents, i, entry) = [contents EXCEPT ![i] = entry]
      BY <1>4, <2>1, PutIsExcept
    <3>3. QED
      BY <2>2, <3>1, <3>2
  <2>4. Atomically(op, i, change, contents) = [contents EXCEPT ![i][change.field] = change.to]
    BY <1>10 DEF Atomically
  <2>5. QED
    BY <1>6, <2>3, <2>4 DEF op, i, change, contents
<1>11. CASE op = "deliver"
  <2> DEFINE to == IF i \in Recurring THEN "active" ELSE "closed"
  <2>1. i \in DOMAIN contents /\ call[c].found = contents[i]
    BY <1>3, <1>11
  <2>2. Result(c) = Put(contents, i, [contents[i] EXCEPT !["status"] = to])
    BY <1>7, <1>11, <2>1 DEF Changed, Delivered
  <2> HIDE DEF to
  <2>3. Result(c) = [contents EXCEPT ![i]["status"] = to]
    <3>1. PICK entry : entry = [contents[i] EXCEPT !["status"] = to]
      OBVIOUS
    <3>2. Put(contents, i, entry) = [contents EXCEPT ![i] = entry]
      BY <1>4, <2>1, PutIsExcept
    <3>3. QED
      BY <2>2, <3>1, <3>2
  <2>4. Atomically(op, i, change, contents) = [contents EXCEPT ![i]["status"] = to]
    BY <1>11 DEF Atomically, to
  <2>5. QED
    BY <1>6, <2>3, <2>4 DEF op, i, change, contents
<1>12. QED
  BY <1>4, <1>8, <1>9, <1>10, <1>11 DEF Op

\* The step of another caller.
LEMMA ElseStays ==
    ASSUME TypeOK, NEW c \in Caller, NEW d \in Caller, d # c,
           \/ \E op \in Op, i \in Item, change \in Changes \union {NoChange} : Begin(d, op, i, change)
           \/ Look(d) \/ \E f \in File : Fill(d, f)
           \/ Find(d) \/ CheckLink(d) \/ Count(d) \/ ReadStore(d) \/ Write(d) \/ Fail(d)
    PROVE  call'[c] = call[c]
<1>1. call \in [Caller -> Call]
  BY DEF TypeOK
<1>2. ASSUME NEW next, call' = [call EXCEPT ![d] = next] PROVE call'[c] = call[c]
  BY <1>1, <1>2
<1>3. \E next : call' = [call EXCEPT ![d] = next]
  <2>1. CASE \E op \in Op, i \in Item, change \in Changes \union {NoChange} : Begin(d, op, i, change)
    BY <2>1 DEF Begin
  <2>2. CASE Look(d)
    BY <1>1, <2>2 DEF Look
  <2>3. CASE \E f \in File : Fill(d, f)
    BY <1>1, <2>3 DEF Fill
  <2>4. CASE Find(d)
    BY <2>4 DEF Find, Onward, Ends
  <2>5. CASE CheckLink(d)
    BY <2>5 DEF CheckLink, Onward, Ends
  <2>6. CASE Count(d)
    BY <2>6 DEF Count, Onward
  <2>7. CASE ReadStore(d)
    BY <2>7 DEF ReadStore, Onward, Ends
  <2>8. CASE Write(d)
    BY <2>8 DEF Write, Ends
  <2>9. CASE Fail(d)
    BY <2>9 DEF Fail
  <2>10. QED
    BY <2>1, <2>2, <2>3, <2>4, <2>5, <2>6, <2>7, <2>8, <2>9
<1>4. QED
  BY <1>2, <1>3

\* A file with one entry less has another length.
LEMMA OneLess ==
    ASSUME NEW f \in File, NEW contents, Good(contents, f), NEW i \in DOMAIN contents
    PROVE  Cardinality(DOMAIN Without(contents, i)) # Cardinality(DOMAIN contents)
<1>1. IsFiniteSet(DOMAIN contents) /\ DOMAIN Without(contents, i) = DOMAIN contents \ {i}
  BY DEF Good, Without
<1>2. Cardinality(DOMAIN contents \ {i}) = Cardinality(DOMAIN contents) - 1
  BY <1>1, FS_RemoveElement
<1>3. Cardinality(DOMAIN contents) \in Nat
  BY <1>1, FS_CardinalityType
<1>4. QED
  BY <1>1, <1>2, <1>3

LEMMA WriteAnswers ==
    ASSUME IInv, NEW c \in Caller, Write(c), c \in quiet, call[c].op = "delete"
    PROVE  call'[c].answer = "ok" /\ call[c].item \in DOMAIN file[Own(c)]
<1>1. TypeOK /\ Shaped /\ Active(c) /\ AtStage(c, "write") /\ Stored
  BY DEF IInv, Write, AtStage
<1>2. AtWrite(c) /\ HasRead(c)
  BY <1>1, Places
<1>3. call[c].store = file[Own(c)] /\ call[c].before = Cardinality(DOMAIN file[Own(c)])
  BY <1>2 DEF IInv, Remembered, Remembers
<1>4. call[c].item \in DOMAIN file[Own(c)]
  BY <1>1, <1>2, <1>3 DEF Stored, Stores
<1>5. Result(c) = Without(file[Own(c)], call[c].item)
  BY <1>3 DEF Result
<1>6. Own(c) \in File /\ Good(file[Own(c)], Own(c))
  BY <1>1, CallFacts DEF Stored
<1>7. Cardinality(DOMAIN Result(c)) # call[c].before
  BY <1>3, <1>4, <1>5, <1>6, OneLess
<1>8. Ends(c, "ok")
  BY <1>7 DEF Write, Answer
<1>9. call'[c].answer = "ok"
  BY <1>1, <1>8, Over
<1>10. QED
  BY <1>4, <1>9

LEMMA StoreAnswers ==
    ASSUME IInv, NEW c \in Caller, ReadStore(c), c \in quiet, call[c].op = "delete",
           call'[c].answer \in {"ok", "no"}
    PROVE  call'[c].answer = "no" /\ call[c].item \notin DOMAIN file[Own(c)]
<1>1. TypeOK /\ Shaped /\ Active(c) /\ AtStage(c, "store")
  BY DEF IInv, ReadStore, AtStage
<1>2. HasRead(c)
  BY <1>1, Places
<1>3. call[c].before = Cardinality(DOMAIN file[Own(c)])
  BY <1>2 DEF IInv, Remembered, Remembers
<1>4. CASE call[c].item \notin DOMAIN file[Own(c)]
  <2>1. Ends(c, "no")
    BY <1>3, <1>4 DEF ReadStore, Answer
  <2>2. call'[c].answer = "no"
    BY <1>1, <2>1, Over
  <2>3. QED
    BY <1>4, <2>2
<1>5. CASE call[c].item \in DOMAIN file[Own(c)]
  <2> DEFINE state == [call[c] EXCEPT !.store = file[Own(c)]]
  <2>1. Onward(c, state)
    BY <1>5 DEF ReadStore
  <2>2. file[Own(c)] \in Contents /\ call[c] \in Call
    BY <1>1, CallFacts
  <2>3. state \in Call /\ state.todo = call[c].todo /\ state.answer = call[c].answer
    BY <2>2 DEF Call
  <2> HIDE DEF state
  <2>4. call'[c].answer = call[c].answer
    BY <1>1, <2>1, <2>3, AfterOnward
  <2>5. call[c].answer = "none"
    BY <1>1 DEF Shaped, Shape
  <2>6. QED
    BY <2>4, <2>5
<1>6. QED
  BY <1>4, <1>5

\* What the other steps of a call answer: nothing yet, or an error.
LEMMA NoAnswer ==
    ASSUME IInv, NEW c \in Caller, Active(c),
           \/ \E op \in Op, i \in Item, change \in Changes \union {NoChange} : Begin(c, op, i, change)
           \/ Look(c) \/ \E f \in File : Fill(c, f)
           \/ Find(c) \/ CheckLink(c) \/ Count(c) \/ Fail(c)
    PROVE  call'[c].answer \in {"none", "error"}
<1>1. TypeOK /\ call[c] \in Call /\ call[c].answer = "none" /\ call[c].missing \subseteq File
  BY CallFacts DEF IInv, Shaped, Shape
<1>2. ~(\E op \in Op, i \in Item, change \in Changes \union {NoChange} : Begin(c, op, i, change))
  BY DEF Begin
<1>3. CASE Look(c)
  BY <1>1, <1>3 DEF Look, TypeOK, Call
<1>4. CASE \E f \in File : Fill(c, f)
  BY <1>1, <1>4 DEF Fill, TypeOK, Call
<1>5. ASSUME Ends(c, "error") PROVE call'[c].answer = "error"
  BY <1>1, <1>5, Over
<1>6. ASSUME NEW state \in Call, state.todo = call[c].todo, state.answer = call[c].answer,
             Onward(c, state)
      PROVE  call'[c].answer = "none"
  BY <1>1, <1>6, AfterOnward
<1>7. CASE Find(c)
  <2>1. CASE Ends(c, "error")
    BY <1>5, <2>1
  <2>2. CASE call[c].item \in DOMAIN file[Own(c)]
             /\ Onward(c, [call[c] EXCEPT !.found = file[Own(c)][call[c].item]])
    <3> DEFINE state == [call[c] EXCEPT !.found = file[Own(c)][call[c].item]]
    <3>1. file[Own(c)][call[c].item] \in Entry
      BY <1>1, <2>2, CallFacts, InContents
    <3>2. state \in Call /\ state.todo = call[c].todo /\ state.answer = call[c].answer
      BY <1>1, <3>1 DEF Call
    <3>3. QED
      BY <1>6, <2>2, <3>2
  <2>3. QED
    BY <1>7, <2>1, <2>2 DEF Find
<1>8. CASE CheckLink(c)
  BY <1>1, <1>5, <1>6, <1>8 DEF CheckLink
<1>9. CASE Count(c)
  <2> DEFINE state == [call[c] EXCEPT !.before = Cardinality(DOMAIN file[Own(c)])]
  <2>1. Cardinality(DOMAIN file[Own(c)]) \in Nat
    BY <1>1, CallFacts, FS_CardinalityType DEF IInv, Stored, Good
  <2>2. state \in Call /\ state.todo = call[c].todo /\ state.answer = call[c].answer
    BY <1>1, <2>1 DEF Call
  <2>3. QED
    BY <1>6, <1>9, <2>2 DEF Count
<1>10. CASE Fail(c)
  <2>1. \E left \in SUBSET File : call' = [call EXCEPT ![c] = [Idle("error") EXCEPT !.missing = left]]
    BY <1>1, <1>10 DEF Fail
  <2>2. QED
    BY <1>1, <2>1, Over
<1>11. QED
  BY <1>2, <1>3, <1>4, <1>7, <1>8, <1>9, <1>10

LEMMA AnswerExact ==
    ASSUME IInv, [Next]_vars, NEW c \in Caller, c \in quiet, HasRead(c), call[c].op = "delete",
           call'[c].answer \in {"ok", "no"}
    PROVE  call'[c].answer = "ok" <=> call[c].item \in DOMAIN file[Own(c)]
<1>1. TypeOK /\ Active(c) /\ call[c].answer = "none"
  BY DEF IInv, Shaped, Shape, HasRead
<1>2. Next
  BY <1>1 DEF vars
<1>3. PICK d \in Caller :
        \/ \E op \in Op, i \in Item, change \in Changes \union {NoChange} : Begin(d, op, i, change)
        \/ Look(d) \/ \E f \in File : Fill(d, f)
        \/ Find(d) \/ CheckLink(d) \/ Count(d) \/ ReadStore(d) \/ Write(d) \/ Fail(d)
  BY <1>2 DEF Next
<1>4. d = c
  BY <1>1, <1>3, ElseStays
<1>5. ReadStore(c) \/ Write(c)
  BY <1>1, <1>3, <1>4, NoAnswer
<1>6. QED
  BY <1>5, StoreAnswers, WriteAnswers

----------------------------------------------------------------------------
(* Nothing is missing twice.                                                          *)

\* Only a look adds to what a call has missed, and only files that are not there.
LEMMA MissesLess ==
    ASSUME TypeOK, [Next]_vars, NEW c \in Caller
    PROVE  call'[c].missing \subseteq call[c].missing \union (File \ there)
<1>1. call \in [Caller -> Call] /\ call[c] \in Call
  BY CallFacts DEF TypeOK
<1>2. CASE call'[c] = call[c]
  BY <1>2
<1>3. ASSUME NEW answer, Ends(c, answer) PROVE call'[c].missing = {}
  BY <1>1, <1>3 DEF Ends, Idle
<1>4. ASSUME NEW state, DOMAIN state = DOMAIN call[c], state.missing = call[c].missing, Onward(c, state)
      PROVE  call'[c].missing = call[c].missing
  <2>1. call'[c] = [state EXCEPT !.todo = Tail(@), !.looked = FALSE]
    BY <1>1, <1>4 DEF Onward
  <2>2. "missing" \in DOMAIN state
    BY <1>1, <1>4 DEF Call
  <2>3. QED
    BY <1>4, <2>1, <2>2
<1>5. CASE Look(c)
  BY <1>1, <1>5 DEF Look, Call
<1>6. CASE \E f \in File : Fill(c, f)
  BY <1>1, <1>6 DEF Fill, Call
<1>7. CASE \E op \in Op, i \in Item, change \in Changes \union {NoChange} : Begin(c, op, i, change)
  BY <1>1, <1>7 DEF Begin, Idle
<1>8. CASE Find(c)
  <2> DEFINE state == [call[c] EXCEPT !.found = file[Own(c)][call[c].item]]
  <2>1. DOMAIN state = DOMAIN call[c] /\ state.missing = call[c].missing
    BY <1>1 DEF Call
  <2>2. Onward(c, state) \/ Ends(c, "error")
    BY <1>8 DEF Find
  <2>3. QED
    BY <1>3, <1>4, <2>1, <2>2
<1>9. CASE CheckLink(c)
  BY <1>3, <1>4, <1>9 DEF CheckLink
<1>10. CASE Count(c)
  <2> DEFINE state == [call[c] EXCEPT !.before = Cardinality(DOMAIN file[Own(c)])]
  <2>1. DOMAIN state = DOMAIN call[c] /\ state.missing = call[c].missing
    BY <1>1 DEF Call
  <2>2. Onward(c, state)
    BY <1>10 DEF Count
  <2>3. QED
    BY <1>4, <2>1, <2>2
<1>11. CASE ReadStore(c)
  <2> DEFINE state == [call[c] EXCEPT !.store = file[Own(c)]]
  <2>1. DOMAIN state = DOMAIN call[c] /\ state.missing = call[c].missing
    BY <1>1 DEF Call
  <2>2. Onward(c, state) \/ Ends(c, Answer(c, DOMAIN file[Own(c)]))
    BY <1>11 DEF ReadStore
  <2>3. QED
    BY <1>3, <1>4, <2>1, <2>2
<1>12. CASE Write(c)
  BY <1>3, <1>12 DEF Write
<1>13. CASE Fail(c)
  BY <1>1, <1>13 DEF Fail, Idle
<1>14. CASE UNCHANGED vars
  BY <1>2, <1>14 DEF vars
<1>15. QED
  BY <1>2, <1>5, <1>6, <1>7, <1>8, <1>9, <1>10, <1>11, <1>12, <1>13, <1>14, ElseStays DEF Next

\* No file goes away.
LEMMA NoneRemoved == ASSUME [Next]_vars PROVE there \subseteq there'
  BY DEF Next, vars, Begin, Look, Fill, Find, CheckLink, Count, ReadStore, Write, Fail, Unwritten

LEMMA SettledStays ==
    ASSUME TypeOK, [Next]_vars, NEW f \in File, Settled(f)
    PROVE  Settled(f)'
<1>1. f \in there /\ \A c \in Caller : f \notin call[c].missing
  BY DEF Settled
<1>2. \A c \in Caller : f \notin call'[c].missing
  BY <1>1, MissesLess
<1>3. f \in there'
  BY <1>1, NoneRemoved
<1>4. QED
  BY <1>2, <1>3 DEF Settled

----------------------------------------------------------------------------
(* The schedule of reminders.                                                         *)

\* A whole quotient and what it leaves.
LEMMA Division ==
    ASSUME NEW x \in Nat, NEW n \in Nat \ {0}
    PROVE  /\ x \div n \in Nat
           /\ (x \div n) * n <= x /\ x < (x \div n) * n + n
           /\ x \div n <= x
  OBVIOUS

\* Products with a step: sums, order and distance.
LEMMA Multiples ==
    ASSUME NEW i \in Nat, NEW j \in Nat, NEW step \in Nat \ {0}
    PROVE  /\ i * step \in Nat /\ i <= i * step
           /\ (i + j) * step = i * step + j * step
           /\ (i + 1) * step = i * step + step
           /\ i < j => i * step + step <= j * step
           /\ i <= j => i * step <= j * step
  OBVIOUS

\* The slots a reminder has, near or far.
SlotAt(remindAt, step, k) == remindAt + k * step

\* The fire after a delivery is the first slot behind it.
LEMMA FirstAfter ==
    ASSUME ScheduleAssumption, NEW remindAt \in Times, NEW step \in Steps,
           NEW last \in Times \union {Never}
    PROVE  \E k \in 0..(MaxTime + 1) :
             LET fire == AfterDelivery(remindAt, step, last)
             IN  /\ fire = SlotAt(remindAt, step, k) /\ fire > last
                 /\ k = 0 \/ fire - step <= last
<1>1. step \in Nat \ {0} /\ MaxTime \in Nat /\ remindAt \in 0..MaxTime
  BY DEF ScheduleAssumption, Times
<1>2. CASE last # Never /\ last >= remindAt
  <2> DEFINE q == (last - remindAt) \div step
  <2>1. last \in 0..MaxTime /\ last - remindAt \in Nat
    BY <1>1, <1>2 DEF Times, Never
  <2>2. /\ q \in Nat /\ q * step <= last - remindAt
        /\ last - remindAt < q * step + step /\ q <= last - remindAt
    BY <1>1, <2>1, Division
  <2>3. q * step \in Nat /\ (q + 1) * step = q * step + step
    BY <1>1, <2>2, Multiples
  <2>4. AfterDelivery(remindAt, step, last) = SlotAt(remindAt, step, q + 1)
    BY <1>2 DEF AfterDelivery, SlotAt
  <2>5. q + 1 \in 0..(MaxTime + 1)
    BY <1>1, <2>1, <2>2
  <2>6. SlotAt(remindAt, step, q + 1) > last /\ SlotAt(remindAt, step, q + 1) - step <= last
    BY <1>1, <2>1, <2>2, <2>3 DEF SlotAt
  <2>7. QED
    BY <2>4, <2>5, <2>6
<1>3. CASE ~(last # Never /\ last >= remindAt)
  <2>1. AfterDelivery(remindAt, step, last) = SlotAt(remindAt, step, 0)
    BY <1>1, <1>3 DEF AfterDelivery, SlotAt
  <2>2. SlotAt(remindAt, step, 0) > last
    BY <1>1, <1>3 DEF SlotAt, Times, Never
  <2>3. QED
    BY <1>1, <2>1, <2>2
<1>4. QED
  BY <1>2, <1>3

\* Catching up goes to the last slot that is past, if any is, and never back.
LEMMA Catching ==
    ASSUME ScheduleAssumption, NEW remindAt \in Times, NEW step \in Steps, NEW now \in Times,
           NEW k \in 0..(MaxTime + 1)
    PROVE  \E n \in 0..(MaxTime + 1) :
             LET fire == SlotAt(remindAt, step, k)
                 next == CaughtUp(fire, step, now)
             IN  /\ next = SlotAt(remindAt, step, n)
                 /\ next >= fire /\ next > now - step
                 /\ next = fire \/ next <= now
                 /\ next <= now <=> fire <= now
<1> DEFINE fire == SlotAt(remindAt, step, k)
<1>1. /\ step \in Nat \ {0} /\ MaxTime \in Nat /\ remindAt \in 0..MaxTime /\ now \in 0..MaxTime
      /\ k \in Nat /\ k * step \in Nat /\ fire \in Nat
  BY Multiples DEF ScheduleAssumption, Times, SlotAt
<1>2. CASE fire <= now - step
  <2> DEFINE q == (now - step - fire) \div step
  <2>1. now - step - fire \in Nat
    BY <1>1, <1>2
  <2>2. /\ q \in Nat /\ q * step <= now - step - fire
        /\ now - step - fire < q * step + step
    BY <1>1, <2>1, Division
  <2>3. /\ q * step \in Nat /\ (q + 1) * step = q * step + step
        /\ (k + (q + 1)) * step = k * step + (q + 1) * step
        /\ k + (q + 1) <= (k + (q + 1)) * step
    <3>1. q + 1 \in Nat /\ k + (q + 1) \in Nat
      BY <1>1, <2>2
    <3>2. q * step \in Nat /\ (q + 1) * step = q * step + step
      BY <1>1, <2>2, Multiples
    <3>3. (k + (q + 1)) * step = k * step + (q + 1) * step
      BY <1>1, <3>1, Multiples
    <3>4. k + (q + 1) <= (k + (q + 1)) * step
      BY <1>1, <3>1, Multiples
    <3>5. QED
      BY <3>2, <3>3, <3>4
  <2>4. CaughtUp(fire, step, now) = fire + (q + 1) * step
    BY <1>2 DEF CaughtUp
  <2>5. fire + (q + 1) * step = SlotAt(remindAt, step, k + (q + 1))
    BY <1>1, <2>2, <2>3 DEF SlotAt
  <2>6. /\ fire + (q + 1) * step >= fire /\ fire + (q + 1) * step > now - step
        /\ fire + (q + 1) * step <= now /\ fire <= now
    BY <1>1, <1>2, <2>2, <2>3
  <2>7. k + (q + 1) \in 0..(MaxTime + 1)
    <3>1. (k + (q + 1)) * step <= MaxTime
      BY <1>1, <2>2, <2>3, <2>5, <2>6 DEF SlotAt
    <3>2. QED
      BY <1>1, <2>2, <2>3, <3>1
  <2>8. QED
    BY <2>4, <2>5, <2>6, <2>7
<1>3. CASE ~(fire <= now - step)
  BY <1>1, <1>3 DEF CaughtUp
<1>4. QED
  BY <1>2, <1>3

\* Between a slot and the one before it there is none.
LEMMA NoSlotBetween ==
    ASSUME NEW remindAt \in Nat, NEW step \in Nat \ {0}, NEW j \in Nat, NEW k \in Nat,
           k = 0 \/ SlotAt(remindAt, step, k) - step < SlotAt(remindAt, step, j)
    PROVE  SlotAt(remindAt, step, k) <= SlotAt(remindAt, step, j)
<1>1. j * step \in Nat /\ k * step \in Nat
  BY Multiples
<1>2. CASE j < k
  <2>1. j * step + step <= k * step
    BY <1>2, Multiples
  <2>2. QED
    BY <1>1, <1>2, <2>1 DEF SlotAt
<1>3. CASE k <= j
  <2>1. k * step <= j * step
    BY <1>3, Multiples
  <2>2. QED
    BY <1>1, <2>1 DEF SlotAt
<1>4. QED
  BY <1>2, <1>3

\* getReminderScheduleState agrees with the slots of the reminder (DueBySlots), whatever
\* the times and steps.
LEMMA SlotsExact == ScheduleAssumption => DueBySlots
<1> SUFFICES ASSUME ScheduleAssumption, NEW remindAt \in Times, NEW now \in Times,
                    NEW step \in Steps, NEW last \in Times \union {Never}, last <= now
             PROVE  LET next == NextFire(remindAt, step, last, now)
                        awaited == {s \in Slots(remindAt, step) : last < s}
                    IN  /\ next \in awaited /\ next > now - step
                        /\ \A s \in awaited : s > now - step => next <= s
                        /\ IsDue(remindAt, step, last, now) <=> \E s \in awaited : s <= now
                        /\ \A later \in now..MaxTime :
                             IsDue(remindAt, step, last, now) => IsDue(remindAt, step, last, later)
  BY DEF DueBySlots
<1> DEFINE fire == AfterDelivery(remindAt, step, last)
           next == NextFire(remindAt, step, last, now)
           slot(k) == SlotAt(remindAt, step, k)
<1>1. /\ step \in Nat \ {0} /\ MaxTime \in Nat /\ remindAt \in Nat /\ now \in 0..MaxTime
      /\ last \in Int
  BY DEF ScheduleAssumption, Times, Never
<1>2. /\ \A s \in Slots(remindAt, step) : \E j \in 0..(MaxTime + 1) : s = slot(j)
      /\ \A j \in 0..(MaxTime + 1) : slot(j) \in Slots(remindAt, step)
  BY DEF SlotAt, Slots
<1>3. \A j \in 0..(MaxTime + 1) : slot(j) \in Nat
  BY <1>1, Multiples DEF SlotAt
<1>4. PICK k \in 0..(MaxTime + 1) : /\ fire = slot(k) /\ fire > last
                                    /\ k = 0 \/ fire - step <= last
  BY FirstAfter
<1>5. ASSUME NEW t \in Times
      PROVE  \E n \in 0..(MaxTime + 1) :
               LET at == NextFire(remindAt, step, last, t)
               IN  /\ at = slot(n) /\ at >= fire /\ at > t - step
                   /\ at = fire \/ at <= t
                   /\ at <= t <=> fire <= t
  <2> DEFINE at == CaughtUp(SlotAt(remindAt, step, k), step, t)
  <2>1. NextFire(remindAt, step, last, t) = at
    BY <1>4, Zenon DEF NextFire
  <2>2. \E n \in 0..(MaxTime + 1) :
           /\ at = SlotAt(remindAt, step, n)
           /\ at >= SlotAt(remindAt, step, k) /\ at > t - step
           /\ at = SlotAt(remindAt, step, k) \/ at <= t
           /\ at <= t <=> SlotAt(remindAt, step, k) <= t
    BY Catching
  <2>3. QED
    BY <1>4, <2>1, <2>2
<1>6. PICK n \in 0..(MaxTime + 1) : /\ next = slot(n) /\ next >= fire /\ next > now - step
                                    /\ next = fire \/ next <= now
  BY <1>5
<1>7. next \in Slots(remindAt, step) /\ last < next
  BY <1>1, <1>2, <1>3, <1>4, <1>6
<1>8. ASSUME NEW s \in Slots(remindAt, step), last < s, s > now - step
      PROVE  next <= s
  <2>1. PICK j \in 0..(MaxTime + 1) : s = slot(j)
    BY <1>2
  <2>2. CASE next = fire
    <3>1. k = 0 \/ slot(k) - step < slot(j)
      BY <1>1, <1>3, <1>4, <1>8, <2>1
    <3>2. slot(k) <= slot(j)
      BY <1>1, <3>1, NoSlotBetween
    <3>3. QED
      BY <1>4, <2>1, <2>2, <3>2
  <2>3. CASE next <= now
    <3>1. slot(n) - step < slot(j)
      BY <1>1, <1>3, <1>6, <1>8, <2>1, <2>3
    <3>2. slot(n) <= slot(j)
      BY <1>1, <3>1, NoSlotBetween
    <3>3. QED
      BY <1>6, <2>1, <3>2
  <2>4. QED
    BY <1>6, <2>2, <2>3
<1>9. \A t \in Times : IsDue(remindAt, step, last, t) <=> fire <= t
  BY <1>1, <1>5 DEF IsDue
<1>10. fire <= now <=> \E s \in Slots(remindAt, step) : last < s /\ s <= now
  <2>1. fire \in Slots(remindAt, step)
    BY <1>2, <1>4
  <2>2. ASSUME NEW s \in Slots(remindAt, step), last < s, s <= now
        PROVE  fire <= now
    <3>1. PICK j \in 0..(MaxTime + 1) : s = slot(j)
      BY <1>2
    <3>2. slot(k) <= slot(j)
      <4>1. k = 0 \/ slot(k) - step < slot(j)
        BY <1>1, <1>3, <1>4, <2>2, <3>1
      <4>2. QED
        BY <1>1, <4>1, NoSlotBetween
    <3>3. QED
      BY <1>1, <1>3, <1>4, <2>2, <3>1, <3>2
  <2>3. QED
    BY <1>4, <2>1, <2>2
<1>11. \A later \in now..MaxTime : later \in Times /\ (fire <= now => fire <= later)
  BY <1>1, <1>3, <1>4 DEF Times
<1>12. QED
  BY <1>6, <1>7, <1>8, <1>9, <1>10, <1>11

----------------------------------------------------------------------------
(* The theorems.                                                                      *)

\* Whatever calls overlap or fail, the files keep legal contents, and who was not
\* disturbed holds what is in them.
THEOREM Invariance == Spec => []IInv
  BY InitInv, NextInv, PTL DEF Spec

\* The calls and the files keep their types, and every entry stays in the file of its
\* kind.
THEOREM TypeCorrect == Spec => []TypeOK
<1>1. IInv => TypeOK
  BY DEF IInv
<1>2. QED
  BY Invariance, <1>1, PTL

\* A call that no other call disturbed has its whole effect and no other, and a delete
\* answers the truth (QuietExact).
THEOREM QuietSafe == Spec => QuietExact
<1>1. IInv /\ [Next]_vars =>
        [\A c \in Caller : c \in quiet =>
          /\ Write(c) =>
                file'[Own(c)] = Atomically(call[c].op, call[c].item, call[c].change, file[Own(c)])
          /\ HasRead(c) /\ call[c].op = "delete" /\ call'[c].answer \in {"ok", "no"} =>
                (call'[c].answer = "ok" <=> call[c].item \in DOMAIN file[Own(c)])]_vars
  <2> SUFFICES ASSUME IInv, [Next]_vars, NEW c \in Caller, c \in quiet
               PROVE  /\ Write(c) =>
                           file'[Own(c)] = Atomically(call[c].op, call[c].item, call[c].change, file[Own(c)])
                      /\ HasRead(c) /\ call[c].op = "delete" /\ call'[c].answer \in {"ok", "no"} =>
                           (call'[c].answer = "ok" <=> call[c].item \in DOMAIN file[Own(c)])
    OBVIOUS
  <2>1. ASSUME Write(c)
        PROVE  file'[Own(c)] = Atomically(call[c].op, call[c].item, call[c].change, file[Own(c)])
    BY <2>1, WriteExact
  <2>2. ASSUME HasRead(c), call[c].op = "delete", call'[c].answer \in {"ok", "no"}
        PROVE  call'[c].answer = "ok" <=> call[c].item \in DOMAIN file[Own(c)]
    BY <2>2, AnswerExact
  <2>3. QED
    BY <2>1, <2>2
<1>2. QED
  BY Invariance, <1>1, PTL DEF Spec, QuietExact

\* A file that is there and that no call still misses is never replaced by a default
\* (StaysSettled).
THEOREM SettledSafe == Spec => StaysSettled
<1>1. IInv /\ [Next]_vars => [\A f \in File : Settled(f) => Settled(f)']_vars
  BY SettledStays DEF IInv
<1>2. QED
  BY Invariance, <1>1, PTL DEF Spec, StaysSettled

\* The schedule of a recurring reminder agrees with its slots, for all times and steps
\* (ScheduleExact; reminder_scheduler.ts:59-74).
THEOREM ScheduleSafe == Spec => []ScheduleExact
<1>1. IInv => ScheduleExact
  BY ScheduleAssumption, SlotsExact DEF ScheduleExact
<1>2. QED
  BY Invariance, <1>1, PTL
=============================================================================
