------------------------ MODULE WateringSchedules_proofs ------------------------
(***************************************************************************)
(* Proofs about the fixed-time schedules: their types, that jobs and rows  *)
(* agree for users who are not hasty, and what sets a pump against them.   *)
(***************************************************************************)
EXTENDS WateringSchedules, Queues_proofs, TLAPS

(***************************************************************************)
(* Sequences and bags.                                                     *)
(***************************************************************************)
(* What is left of a sequence without one of its elements.                 *)
LEMMA Removed ==
  ASSUME NEW T, NEW s \in Seq(T), NEW i \in DOMAIN s, NEW r, r = RemoveAt(s, i)
  PROVE  /\ r \in Seq(T) /\ DOMAIN r = 1 .. Len(s) - 1 /\ Len(r) = Len(s) - 1
         /\ \A j \in 1 .. Len(s) - 1 : r[j] = IF j < i THEN s[j] ELSE s[j + 1]
<1> DEFINE a == SubSeq(s, 1, i - 1)
           b == SubSeq(s, i + 1, Len(s))
<1>0. i \in 1 .. Len(s) /\ Len(s) \in Nat
  OBVIOUS
<1>1. a \in Seq(T) /\ Len(a) = i - 1 /\ \A j \in 1 .. i - 1 : a[j] = s[j]
  BY <1>0
<1>2. b \in Seq(T) /\ Len(b) = Len(s) - i /\ \A j \in 1 .. Len(s) - i : b[j] = s[i + j]
  BY <1>0
<1>3. r = a \o b
  BY DEF RemoveAt
<1> HIDE DEF a, b
<1>4. r \in Seq(T) /\ Len(r) = Len(s) - 1
  BY <1>0, <1>1, <1>2, <1>3
<1>5. \A j \in 1 .. Len(s) - 1 : r[j] = IF j < i THEN s[j] ELSE s[j + 1]
  <2> TAKE j \in 1 .. Len(s) - 1
  <2>1. CASE j < i
    BY <1>0, <1>1, <1>2, <1>3, <2>1
  <2>2. CASE ~(j < i)
    <3>1. r[j] = b[j - (i - 1)] /\ j - (i - 1) \in 1 .. Len(s) - i
      BY <1>0, <1>1, <1>2, <1>3, <2>2, SMTT(30)
    <3>2. b[j - (i - 1)] = s[i + (j - (i - 1))]
      BY <1>2, <3>1
    <3>3. i + (j - (i - 1)) = j + 1
      BY <1>0
    <3>. QED
      BY <2>2, <3>1, <3>2, <3>3
  <2>. QED
    BY <2>1, <2>2
<1>. QED
  BY <1>4, <1>5

(* One element at the end.                                                 *)
LEMMA Appended ==
  ASSUME NEW T, NEW s \in Seq(T), NEW e \in T, NEW r, r = Append(s, e)
  PROVE  /\ r \in Seq(T) /\ DOMAIN r = 1 .. Len(s) + 1 /\ Len(r) = Len(s) + 1 /\ Len(s) \in Nat
         /\ r[Len(s) + 1] = e /\ \A j \in 1 .. Len(s) : r[j] = s[j]
  OBVIOUS

(* Bags keep their elements.                                               *)
LEMMA BagAdded ==
  ASSUME NEW B, IsABag(B), NEW e
  PROVE  IsABag(BagAdd(B, e)) /\ DOMAIN BagAdd(B, e) = DOMAIN B \cup {e}
  BY DEF IsABag, BagAdd

(* A bag stays one without an element.                                     *)
LEMMA BagRemoved ==
  ASSUME NEW B, IsABag(B), NEW e
  PROVE  IsABag(BagRemove(B, e)) /\ DOMAIN BagRemove(B, e) \subseteq DOMAIN B
  BY DEF IsABag, BagRemove

(* What an empty bag holds.                                                *)
LEMMA NoBag == IsABag(EmptyBag) /\ DOMAIN EmptyBag = {} /\ \A x : ~BagIn(x, EmptyBag)
  BY DEF IsABag, EmptyBag, SetToBag, BagIn, BagToSet

(* A bag of one edit.                                                      *)
OneBag(e) == BagAdd(EmptyBag, e)

(* What a bag of one edit holds.                                           *)
LEMMA OneEdit ==
  ASSUME NEW e
  PROVE  /\ DOMAIN OneBag(e) = {e} /\ \A x : BagIn(x, OneBag(e)) <=> x = e
         /\ BagRemove(OneBag(e), e) = EmptyBag
<1>1. OneBag(e) = [x \in {e} |-> 1]
  BY DEF OneBag, BagAdd, EmptyBag, SetToBag
<1>2. EmptyBag = [x \in {} |-> 1]
  BY DEF EmptyBag, SetToBag
<1>3. BagRemove(OneBag(e), e) = [x \in {e} \ {e} |-> 1]
  BY <1>1 DEF BagRemove
<1>. QED
  BY <1>1, <1>2, <1>3 DEF BagIn, BagToSet

(***************************************************************************)
(* The types.                                                              *)
(***************************************************************************)
LEMMA Constants ==
  /\ Day \in Nat \ {0} /\ Slots \subseteq [begin : Nat, end : Nat]
  /\ \A slot \in Slots : slot.begin < Day /\ slot.end < Day /\ slot.begin <= slot.end
  /\ MaxEdits \in Nat /\ MaxCrashes \in Nat
  BY SchedulesAssumption DEF WellFormed

(* What the page of a plant lists (server.js:186-189, app.js:226-234).     *)
LEMMA ListedRows ==
  ASSUME TypeOK, NEW n \in Nodes
  PROVE  /\ Listed(n) \in Seq(Slots)
         /\ \A slot \in Slots : In(Listed(n), slot) <=>
              In(plant_watering_schedules, [node |-> n, slot |-> slot])
         /\ Distinct(plant_watering_schedules) => Distinct(Listed(n))
<1> DEFINE S == [node : {n}, slot : Slots]
           rows == Only(plant_watering_schedules, S)
           l == Listed(n)
<1>0. plant_watering_schedules \in Seq(Row)
  BY DEF TypeOK
<1>1. rows \in Seq(Row \cap S)
  BY <1>0, OnlyType
<1>2. /\ \A x : In(rows, x) <=> In(plant_watering_schedules, x) /\ x \in S
      /\ Distinct(plant_watering_schedules) => Distinct(rows)
  BY <1>0, OnlyKeeps
<1>3. l = [i \in DOMAIN rows |-> rows[i].slot]
  BY DEF Listed
<1>4. \A x \in Row \cap S : x.slot \in Slots /\ x = [node |-> n, slot |-> x.slot]
  BY DEF Row
<1> HIDE DEF rows, l
<1>5. DOMAIN l = DOMAIN rows /\ \A i \in DOMAIN rows : rows[i] \in Row \cap S /\ l[i] = rows[i].slot
  BY <1>1, <1>3
<1>6. l \in Seq(Slots)
  BY <1>1, <1>3, <1>4, <1>5
<1>7. ASSUME NEW slot \in Slots
      PROVE  In(l, slot) <=> In(plant_watering_schedules, [node |-> n, slot |-> slot])
  <2> DEFINE r == [node |-> n, slot |-> slot]
  <2>1. r \in S /\ r.slot = slot
    OBVIOUS
  <2>2. In(l, slot) <=> In(rows, r)
    <3>1. In(l, slot) => In(rows, r)
      BY <1>4, <1>5 DEF In
    <3>2. In(rows, r) => In(l, slot)
      BY <1>5, <2>1 DEF In
    <3>. QED
      BY <3>1, <3>2
  <2>. QED
    BY <1>2, <2>1, <2>2
<1>8. Distinct(rows) => Distinct(l)
  BY <1>4, <1>5 DEF Distinct
<1>. QED
  BY <1>2, <1>6, <1>7, <1>8 DEF l

(* What a page sends, and what its clicks do to the bookkeeping.           *)
LEMMA RequestTypes ==
  ASSUME TypeOK, NEW kind \in {"add", "delete"}, NEW n \in Nodes, NEW slot \in Slots,
         Request(kind, n, slot)
  PROVE  IsABag(requests') /\ DOMAIN requests' \subseteq Edit
<1> DEFINE e == [kind |-> kind, row |-> [node |-> n, slot |-> slot]]
<1>1. e \in Edit
  BY DEF Edit, Row
<1>2. requests' = BagAdd(requests, e)
  BY DEF Request
<1> HIDE DEF e
<1>3. IsABag(requests) /\ DOMAIN requests \subseteq Edit
  BY DEF TypeOK
<1>4. IsABag(BagAdd(requests, e)) /\ DOMAIN BagAdd(requests, e) = DOMAIN requests \cup {e}
  BY <1>3, BagAdded
<1>. QED
  BY <1>1, <1>2, <1>3, <1>4

(* Types of the history variables after a click (app.js:236-290).          *)
LEMMA HurryTypes ==
  ASSUME TypeOK, NEW t, Hurry(t)
  PROVE  fresh' \subseteq Tabs /\ smooth' \in BOOLEAN
<1>1. fresh' \subseteq Tabs
  BY DEF Hurry, TypeOK, FreshBut
<1>2. smooth' \in BOOLEAN
  BY DEF Hurry, TypeOK
<1>. QED
  BY <1>1, <1>2

(* What the user does keeps the types (app.js:226-286).                    *)
LEMMA UserTypes ==
  ASSUME TypeOK, NEW t \in Tabs,
         \/ \E n \in Nodes : LoadPage(t, n)
         \/ \E slot \in Slots : ClickAdd(t, slot)
         \/ ClickDelete(t)
  PROVE  TypeOK'
<1>0. UserActs /\ edits' \in 0 .. MaxEdits
  <2>1. UserActs
    BY DEF LoadPage, ClickAdd, ClickDelete
  <2>. QED
    BY <2>1, Constants DEF UserActs, TypeOK
<1>1. ASSUME pages' \in [Tabs -> Page \cup {Closed}],
             IsABag(requests') /\ DOMAIN requests' \subseteq Edit,
             fresh' \subseteq Tabs, smooth' \in BOOLEAN
      PROVE  TypeOK'
  BY <1>0, <1>1 DEF UserActs, TypeOK, tableVars
<1>2. ASSUME NEW page \in Page, pages' = [pages EXCEPT ![t] = page]
      PROVE  pages' \in [Tabs -> Page \cup {Closed}]
  BY <1>2 DEF TypeOK
<1>3. ASSUME pages[t] # Closed
      PROVE  pages[t] \in Page /\ pages[t].node \in Nodes /\ pages[t].listed \in Seq(Slots)
  <2>1. pages[t] \in Page
    BY <1>3 DEF TypeOK
  <2>. QED
    BY <2>1 DEF Page
<1>4. ASSUME pages[t] # Closed, NEW l \in Seq(Slots)
      PROVE  [pages[t] EXCEPT !.listed = l] \in Page
  BY <1>3, <1>4 DEF Page
<1>5. CASE \E n \in Nodes : LoadPage(t, n)
  <2>1. PICK n \in Nodes : LoadPage(t, n)
    BY <1>5
  <2>2. [node |-> n, listed |-> Listed(n)] \in Page /\ [node |-> n, listed |-> <<>>] \in Page
    BY ListedRows DEF Page
  <2>3. pages' \in [Tabs -> Page \cup {Closed}]
    BY <1>2, <2>1, <2>2 DEF LoadPage
  <2>4. fresh' \subseteq Tabs
    BY <2>1 DEF LoadPage, TypeOK
  <2>5. smooth' \in BOOLEAN /\ IsABag(requests') /\ DOMAIN requests' \subseteq Edit
    BY <2>1 DEF LoadPage, TypeOK
  <2>. QED
    BY <1>1, <2>3, <2>4, <2>5
<1>6. CASE \E slot \in Slots : ClickAdd(t, slot)
  <2>1. PICK slot \in Slots : ClickAdd(t, slot)
    BY <1>6
  <2>2. pages[t] # Closed /\ Append(pages[t].listed, slot) \in Seq(Slots)
    BY <1>3, <2>1 DEF ClickAdd
  <2>3. pages' \in [Tabs -> Page \cup {Closed}]
    BY <1>2, <1>4, <2>1, <2>2 DEF ClickAdd
  <2>4. IsABag(requests') /\ DOMAIN requests' \subseteq Edit
    BY <1>3, <2>1, <2>2, RequestTypes DEF ClickAdd
  <2>. QED
    BY <1>1, <2>1, <2>3, <2>4, HurryTypes DEF ClickAdd
<1>7. CASE ClickDelete(t)
  <2>1. pages[t] # Closed
    BY <1>7 DEF ClickDelete
  <2>2. PICK i \in DOMAIN pages[t].listed :
          /\ pages' = [pages EXCEPT ![t].listed = RemoveAt(@, i)]
          /\ Request("delete", pages[t].node, pages[t].listed[i])
    BY <1>7 DEF ClickDelete
  <2>3. RemoveAt(pages[t].listed, i) \in Seq(Slots) /\ pages[t].listed[i] \in Slots
    BY <1>3, <2>1, <2>2, Removed
  <2>4. pages' \in [Tabs -> Page \cup {Closed}]
    BY <1>2, <1>4, <2>1, <2>2, <2>3
  <2>5. IsABag(requests') /\ DOMAIN requests' \subseteq Edit
    BY <1>3, <2>1, <2>2, <2>3, RequestTypes
  <2>. QED
    BY <1>1, <1>7, <2>4, <2>5, HurryTypes DEF ClickDelete
<1>. QED
  BY <1>5, <1>6, <1>7

(* The entry that the loop of the handler comes upon first                 *)
(* (server.js:172-180).                                                    *)
LEMMA FirstOfRow ==
  ASSUME TypeOK, NEW row, Of(row) # {}
  PROVE  FirstOf(row) \in Of(row) /\ Of(row) \subseteq DOMAIN watering_schedules
<1>1. Of(row) \subseteq DOMAIN watering_schedules /\ DOMAIN watering_schedules \subseteq Nat
  BY DEF Of, TypeOK
<1>2. \E i \in Of(row) : \A j \in Of(row) : i <= j
  BY <1>1, LeastElement
<1>. QED
  BY <1>1, <1>2 DEF FirstOf

(* The entry that a row is given (server.js:151-163).                      *)
LEMMA ScheduleTypes ==
  ASSUME NEW row \in Row
  PROVE  /\ Schedule(row) \in Entry
         /\ Schedule(row).node = row.node /\ Schedule(row).slot = row.slot
         /\ ~Schedule(row).start_due /\ ~Schedule(row).end_due
  BY DEF Schedule, Entry, Row

(* The fields of an entry, and an entry whose jobs become due              *)
(* (server.js:151-163).                                                    *)
LEMMA EntryFields ==
  ASSUME NEW e \in Entry, NEW b \in BOOLEAN, NEW c \in BOOLEAN
  PROVE  /\ e.node \in Nodes /\ e.slot \in Slots /\ e.start_due \in BOOLEAN /\ e.end_due \in BOOLEAN
         /\ [e EXCEPT !.start_due = b] \in Entry /\ [e EXCEPT !.end_due = b] \in Entry
         /\ [e EXCEPT !.start_due = b, !.end_due = c] \in Entry
  BY DEF Entry

(* Handlers, statements and jobs keep the types.                           *)
LEMMA HandleTypes ==
  ASSUME TypeOK, NEW r, Handle(r)
  PROVE  TypeOK' /\ r \in Edit
<1>1. r \in Edit /\ r.row \in Row
  BY DEF Handle, TypeOK, BagIn, BagToSet, Edit
<1>2. watering_schedules' \in Seq(Entry)
  <2>1. CASE AddWateringSchedule(r.row)
    BY <1>1, <2>1, ScheduleTypes DEF AddWateringSchedule, TypeOK
  <2>2. CASE DeleteWateringSchedule(r.row)
    <3>1. CASE Of(r.row) = {}
      BY <2>2, <3>1 DEF DeleteWateringSchedule, TypeOK
    <3>2. CASE Of(r.row) # {}
      <4>1. FirstOf(r.row) \in DOMAIN watering_schedules
        BY <3>2, FirstOfRow
      <4>2. watering_schedules' = RemoveAt(watering_schedules, FirstOf(r.row))
        BY <2>2, <3>2 DEF DeleteWateringSchedule
      <4>3. watering_schedules \in Seq(Entry)
        BY DEF TypeOK
      <4>. QED
        BY <4>1, <4>2, <4>3, Removed
    <3>. QED
      BY <3>1, <3>2
  <2>. QED
    BY <2>1, <2>2 DEF Handle
<1>3. IsABag(requests') /\ DOMAIN requests' \subseteq Edit
  <2>1. requests' = BagRemove(requests, r) /\ IsABag(requests) /\ DOMAIN requests \subseteq Edit
    BY DEF Handle, TypeOK
  <2>2. IsABag(BagRemove(requests, r)) /\ DOMAIN BagRemove(requests, r) \subseteq DOMAIN requests
    BY <2>1, BagRemoved
  <2>. QED
    BY <2>1, <2>2
<1>4. IsABag(statements') /\ DOMAIN statements' \subseteq Edit
  <2>1. statements' = BagAdd(statements, r) /\ IsABag(statements) /\ DOMAIN statements \subseteq Edit
    BY DEF Handle, TypeOK
  <2>2. IsABag(BagAdd(statements, r)) /\ DOMAIN BagAdd(statements, r) = DOMAIN statements \cup {r}
    BY <2>1, BagAdded
  <2>. QED
    BY <1>1, <2>1, <2>2
<1>. QED
  BY <1>1, <1>2, <1>3, <1>4 DEF Handle, TypeOK

(* Types after a statement (db.js:273-302).                                *)
LEMMA ExecuteTypes ==
  ASSUME TypeOK, NEW s, Execute(s)
  PROVE  TypeOK' /\ s \in Edit
<1>1. s \in Edit /\ s.row \in Row
  BY DEF Execute, TypeOK, BagIn, BagToSet, Edit
<1>2. plant_watering_schedules' \in Seq(Row)
  <2>1. Only(plant_watering_schedules, Row \ {s.row}) \in Seq(Row \cap (Row \ {s.row}))
    BY OnlyType DEF TypeOK
  <2>2. Only(plant_watering_schedules, Row \ {s.row}) \in Seq(Row)
    <3>1. Row \cap (Row \ {s.row}) \subseteq Row
      OBVIOUS
    <3>. QED
      BY <2>1, <3>1
  <2>3. Append(plant_watering_schedules, s.row) \in Seq(Row)
    BY <1>1 DEF TypeOK
  <2>. QED
    BY <2>2, <2>3
       DEF Execute, InsertPlantWateringSchedule, DeletePlantWateringSchedule, TypeOK
<1>3. IsABag(statements') /\ DOMAIN statements' \subseteq Edit
  <2>1. statements' = BagRemove(statements, s) /\ IsABag(statements) /\ DOMAIN statements \subseteq Edit
    BY DEF Execute, TypeOK
  <2>2. IsABag(BagRemove(statements, s)) /\ DOMAIN BagRemove(statements, s) \subseteq DOMAIN statements
    BY <2>1, BagRemoved
  <2>. QED
    BY <2>1, <2>2
<1>4. smooth' \in BOOLEAN
  BY DEF Execute, TypeOK
<1>. QED
  BY <1>1, <1>2, <1>3, <1>4 DEF Execute, TypeOK, pageVars

(* Types after a job (server.js:152-159).                                  *)
LEMMA JobTypes ==
  ASSUME TypeOK, NEW i \in DOMAIN watering_schedules, StartJob(i) \/ EndJob(i)
  PROVE  TypeOK'
<1>1. watering_schedules[i] \in Entry /\ watering_schedules \in Seq(Entry)
  BY DEF TypeOK
<1>2. [watering_schedules[i] EXCEPT !.start_due = FALSE] \in Entry
      /\ [watering_schedules[i] EXCEPT !.end_due = FALSE] \in Entry
  BY <1>1, EntryFields
<1>3. watering_schedules' \in Seq(Entry)
  <2>1. \A e \in Entry : [watering_schedules EXCEPT ![i] = e] \in Seq(Entry)
    BY <1>1
  <2>2. CASE StartJob(i)
    BY <1>2, <2>1, <2>2 DEF StartJob
  <2>3. CASE EndJob(i)
    BY <1>2, <2>1, <2>3 DEF EndJob
  <2>. QED
    BY <2>2, <2>3
<1>4. pump' \in [Nodes -> BOOLEAN]
  BY DEF StartJob, EndJob, PumpToggle, TypeOK
<1>. QED
  BY <1>3, <1>4 DEF StartJob, EndJob, TypeOK, tableVars, pageVars

(* Types after a second (server.js:127-139).                               *)
LEMMA TickTypes ==
  ASSUME TypeOK, Tick
  PROVE  TypeOK'
<1>1. now' \in 0 .. Day - 1
  BY Constants DEF Tick, TypeOK
<1>2. \A e \in Entry : Due(e, now') \in Entry
  BY EntryFields DEF Due
<1>3. watering_schedules' \in Seq(Entry)
  <2> DEFINE e == [i \in DOMAIN watering_schedules |-> Due(watering_schedules[i], now')]
  <2>1. watering_schedules \in Seq(Entry)
    BY DEF TypeOK
  <2>2. \A i \in DOMAIN watering_schedules : Due(watering_schedules[i], now') \in Entry
    BY <1>2, <2>1
  <2>3. e \in Seq(Entry)
    BY <2>1, <2>2
  <2>. QED
    BY <2>3 DEF Tick
<1>. QED
  BY <1>1, <1>3 DEF Tick, TypeOK, tableVars, pageVars

(* Every step keeps the types.                                             *)
LEMMA TypeStep ==
  ASSUME TypeOK, [Next]_vars
  PROVE  TypeOK'
<1>1. CASE RequestFails
  <2>1. PICK r : requests' = BagRemove(requests, r) /\ fresh' = FreshBut(r.row.node)
    BY <1>1 DEF RequestFails
  <2>2. IsABag(requests) /\ DOMAIN requests \subseteq Edit
    BY DEF TypeOK
  <2>3. IsABag(BagRemove(requests, r)) /\ DOMAIN BagRemove(requests, r) \subseteq DOMAIN requests
    BY <2>2, BagRemoved
  <2>4. IsABag(requests') /\ DOMAIN requests' \subseteq Edit
    BY <2>1, <2>2, <2>3
  <2>5. fresh' \subseteq Tabs
    BY <2>1 DEF TypeOK, FreshBut
  <2>. QED
    BY <1>1, <2>4, <2>5 DEF RequestFails, TypeOK, tableVars
<1>2. CASE Crash
  <2>1. IsABag(statements') /\ DOMAIN statements' \subseteq Edit
    BY <1>2, NoBag DEF Crash
  <2>2. crashes' \in 0 .. MaxCrashes
    BY <1>2, Constants DEF Crash, TypeOK
  <2>3. fresh' \subseteq Tabs
    BY <1>2 DEF Crash, TypeOK
  <2>4. up' \in BOOLEAN
    <3>1. up' = FALSE
      BY <1>2 DEF Crash
    <3>. QED
      BY <3>1
  <2>5. watering_schedules' \in Seq(Entry)
    <3>1. watering_schedules' = <<>>
      BY <1>2 DEF Crash
    <3>. QED
      BY <3>1
  <2>. QED
    BY <1>2, <2>1, <2>2, <2>3, <2>4, <2>5 DEF Crash, TypeOK
<1>3. CASE Restart
  <2>1. \A i \in DOMAIN plant_watering_schedules : Schedule(plant_watering_schedules[i]) \in Entry
    BY ScheduleTypes DEF TypeOK
  <2>2. watering_schedules' \in Seq(Entry)
    <3>1. watering_schedules' = [i \in DOMAIN plant_watering_schedules |->
                                   Schedule(plant_watering_schedules[i])]
      BY <1>3 DEF Restart
    <3>2. Len(plant_watering_schedules) \in Nat
          /\ DOMAIN plant_watering_schedules = 1 .. Len(plant_watering_schedules)
      BY DEF TypeOK
    <3>3. watering_schedules' \in [1 .. Len(plant_watering_schedules) -> Entry]
      BY <2>1, <3>1, <3>2
    <3>. QED
      BY <3>2, <3>3
  <2>. QED
    BY <1>3, <2>2 DEF Restart, TypeOK, tableVars, pageVars
<1>4. CASE UNCHANGED vars
  BY <1>4 DEF TypeOK, vars, tableVars, pageVars
<1>. QED
  BY <1>1, <1>2, <1>3, <1>4, UserTypes, HandleTypes, ExecuteTypes, TickTypes, JobTypes DEF Next

(* Every state of the schedules has the types of their module.             *)
THEOREM ScheduleTypesHold == Spec => []TypeOK
<1>1. Init => TypeOK
  BY Constants, NoBag DEF Init, TypeOK
<1>2. TypeOK /\ [Next]_vars => TypeOK'
  BY TypeStep
<1>. QED
  BY <1>1, <1>2, PTL DEF Spec

(***************************************************************************)
(* Jobs and rows.  While users are not hasty, at most one edit is on its   *)
(* way, and it has reached neither the entries nor the rows, or only the   *)
(* entries; the fresh pages already show what it will have done.           *)
(***************************************************************************)
Rows == {row \in Row : In(plant_watering_schedules, row)}
Entries == {row \in Row : Of(row) # {}}
Single == \A row \in Row : \A i, j \in Of(row) : i = j

After(r, rows) == IF r.kind = "add" THEN rows \cup {r.row} ELSE rows \ {r.row}

Shows(page, rows) ==
  /\ Distinct(page.listed)
  /\ \A slot \in Slots : In(page.listed, slot) <=> [node |-> page.node, slot |-> slot] \in rows

PagesShow(rows) == \A t \in fresh : Shows(pages[t], rows)

Quiet ==
  /\ requests = EmptyBag /\ statements = EmptyBag
  /\ up => Entries = Rows
  /\ PagesShow(Rows)

Sent(r) ==
  /\ requests = OneBag(r) /\ statements = EmptyBag
  /\ up => Entries = Rows
  /\ r.kind = "add" => r.row \notin Rows
  /\ PagesShow(After(r, Rows))

Handled(r) ==
  /\ requests = EmptyBag /\ statements = OneBag(r)
  /\ up /\ Entries = After(r, Rows)
  /\ r.kind = "add" => r.row \notin Rows
  /\ PagesShow(After(r, Rows))

StoppedInv == ~up => watering_schedules = <<>> /\ statements = EmptyBag

EditInv == Distinct(plant_watering_schedules) /\ Single
             /\ (Quiet \/ \E r \in Edit : Sent(r) \/ Handled(r))

StoreInv == StoppedInv /\ (smooth => EditInv)

(* The insert of a row that is not there yet (db.js:275-283).              *)
LEMMA InsertRow ==
  ASSUME TypeOK, NEW row \in Row, row \notin Rows, Distinct(plant_watering_schedules),
         InsertPlantWateringSchedule(row)
  PROVE  Rows' = Rows \cup {row} /\ Distinct(plant_watering_schedules)'
<1> DEFINE p == plant_watering_schedules
<1>0. p \in Seq(Row) /\ p' = Append(p, row)
  BY DEF TypeOK, InsertPlantWateringSchedule
<1>1. /\ DOMAIN p' = 1 .. Len(p) + 1 /\ Len(p) \in Nat /\ DOMAIN p = 1 .. Len(p)
      /\ p'[Len(p) + 1] = row /\ \A j \in 1 .. Len(p) : p'[j] = p[j]
  BY <1>0, Appended
<1>2. \A i \in DOMAIN p : p[i] # row
  BY <1>0 DEF Rows, In
<1>3. Rows' = Rows \cup {row}
  <2>1. \A x : In(p', x) <=> In(p, x) \/ x = row
    BY <1>1 DEF In
  <2>. QED
    BY <2>1 DEF Rows
<1>4. Distinct(p')
  BY <1>1, <1>2 DEF Distinct
<1>. QED
  BY <1>3, <1>4

(* The delete of all rows that are equal (db.js:285-295).                  *)
LEMMA DeleteRow ==
  ASSUME TypeOK, NEW row \in Row, Distinct(plant_watering_schedules),
         DeletePlantWateringSchedule(row)
  PROVE  Rows' = Rows \ {row} /\ Distinct(plant_watering_schedules)'
<1> DEFINE p == plant_watering_schedules
           S == Row \ {row}
<1>0. p \in Seq(Row) /\ p' = Only(p, S)
  BY DEF TypeOK, DeletePlantWateringSchedule
<1>1. (\A x : In(p', x) <=> In(p, x) /\ x \in S) /\ Distinct(p')
  BY <1>0, OnlyKeeps
<1>. QED
  BY <1>1 DEF Rows

(* A new entry (server.js:143-160).                                        *)
LEMMA AddEntry ==
  ASSUME TypeOK, NEW row \in Row, row \notin Entries, Single, AddWateringSchedule(row)
  PROVE  Entries' = Entries \cup {row} /\ Single'
<1> DEFINE w == watering_schedules
<1>0. w \in Seq(Entry) /\ w' = Append(w, Schedule(row)) /\ Schedule(row) \in Entry
  BY ScheduleTypes DEF TypeOK, AddWateringSchedule
<1>1. /\ DOMAIN w' = 1 .. Len(w) + 1 /\ Len(w) \in Nat /\ DOMAIN w = 1 .. Len(w)
      /\ w'[Len(w) + 1] = Schedule(row) /\ \A j \in 1 .. Len(w) : w'[j] = w[j]
  BY <1>0, Appended
<1>2. Schedule(row).node = row.node /\ Schedule(row).slot = row.slot /\ Of(row) = {}
  BY ScheduleTypes DEF Entries
<1>3. \A x \in Row : x.node = row.node /\ x.slot = row.slot => x = row
  BY DEF Row
<1>4. \A x \in Row : Of(x)' = IF x = row THEN {Len(w) + 1} ELSE Of(x)
  <2> TAKE x \in Row
  <2>1. CASE x = row
    BY <1>1, <1>2, <2>1 DEF Of
  <2>2. CASE x # row
    BY <1>1, <1>2, <1>3, <2>2 DEF Of
  <2>. QED
    BY <2>1, <2>2
<1>5. Entries' = Entries \cup {row}
  BY <1>4 DEF Entries
<1>6. Single'
  BY <1>4 DEF Single
<1>. QED
  BY <1>5, <1>6

(* The loop that removes an entry (server.js:172-180).                     *)
LEMMA DeleteEntry ==
  ASSUME TypeOK, NEW row \in Row, Single, DeleteWateringSchedule(row)
  PROVE  Entries' = Entries \ {row} /\ Single'
<1> DEFINE w == watering_schedules
<1>1. CASE Of(row) = {}
  <2>1. w' = w
    BY <1>1 DEF DeleteWateringSchedule
  <2>2. \A x : Of(x)' = Of(x)
    BY <2>1 DEF Of
  <2>. QED
    BY <1>1, <2>2 DEF Entries, Single
<1>2. CASE Of(row) # {}
  <2> DEFINE i == FirstOf(row)
             at(j) == IF j < i THEN j ELSE j + 1
  <2>1. i \in Of(row) /\ i \in DOMAIN w
    BY <1>2, FirstOfRow
  <2> HIDE DEF i
  <2>2. w \in Seq(Entry) /\ w' = RemoveAt(w, i)
    BY <1>2 DEF i, DeleteWateringSchedule, TypeOK
  <2>3. /\ DOMAIN w' = 1 .. Len(w) - 1 /\ DOMAIN w = 1 .. Len(w) /\ Len(w) \in Nat
        /\ \A j \in 1 .. Len(w) - 1 : w'[j] = IF j < i THEN w[j] ELSE w[j + 1]
    BY <2>1, <2>2, Removed
  <2>4. Of(row) = {i}
    BY <2>1 DEF Single
  <2>5. \A x \in Row : x.node = row.node /\ x.slot = row.slot => x = row
    BY DEF Row
  <2>6. \A x \in Row : x # row => i \notin Of(x)
    BY <2>1, <2>5 DEF Of
  <2>7. \A x \in Row : \A j \in DOMAIN w' : j \in Of(x)' <=> at(j) \in Of(x)
    BY <2>1, <2>3 DEF Of
  <2>8. \A j, k \in DOMAIN w' : at(j) # i /\ (at(j) = at(k) => j = k)
    BY <2>1, <2>3
  <2>9. \A k \in DOMAIN w : k # i => \E j \in DOMAIN w' : at(j) = k
    <3> TAKE k \in DOMAIN w
    <3> HAVE k # i
    <3>1. CASE k < i
      BY <2>1, <2>3, <3>1
    <3>2. CASE k > i
      <4>1. k - 1 \in DOMAIN w' /\ at(k - 1) = k
        BY <2>1, <2>3, <3>2
      <4>. QED
        BY <4>1
    <3>. QED
      BY <2>1, <2>3, <3>1, <3>2
  <2> HIDE DEF at
  <2>10. \A x \in Row : Of(x) \subseteq DOMAIN w /\ Of(x)' \subseteq DOMAIN w'
    BY DEF Of
  <2>11. Entries' = Entries \ {row}
    <3>1. Of(row)' = {}
      BY <2>4, <2>7, <2>8, <2>10
    <3>2. \A x \in Row : x # row => (Of(x)' # {} <=> Of(x) # {})
      BY <2>6, <2>7, <2>9, <2>10
    <3>. QED
      BY <3>1, <3>2 DEF Entries
  <2>12. Single'
    BY <2>7, <2>8, <2>10 DEF Single
  <2>. QED
    BY <2>11, <2>12
<1>. QED
  BY <1>1, <1>2

(* What the jobs do to entries leaves them the entries of their rows.      *)
LEMMA SameEntries ==
  ASSUME DOMAIN watering_schedules' = DOMAIN watering_schedules,
         \A i \in DOMAIN watering_schedules :
            /\ watering_schedules'[i].node = watering_schedules[i].node
            /\ watering_schedules'[i].slot = watering_schedules[i].slot
  PROVE  Entries' = Entries /\ (Single => Single')
<1>1. \A x : Of(x)' = Of(x)
  BY DEF Of
<1>. QED
  BY <1>1 DEF Entries, Single

(* The start of the process (server.js:342-362).                           *)
LEMMA RestartEntries ==
  ASSUME TypeOK, Restart, Distinct(plant_watering_schedules)
  PROVE  Entries' = Rows /\ Single'
<1> DEFINE p == plant_watering_schedules
<1>1. p \in Seq(Row) /\ \A i \in DOMAIN p : p[i] \in Row
  BY DEF TypeOK
<1>2. watering_schedules' = [i \in DOMAIN p |-> Schedule(p[i])]
  BY DEF Restart
<1>3. \A x \in Row, i \in DOMAIN p :
        Schedule(p[i]).node = x.node /\ Schedule(p[i]).slot = x.slot <=> p[i] = x
  <2>1. \A x, y \in Row : x.node = y.node /\ x.slot = y.slot <=> x = y
    BY DEF Row
  <2>. QED
    BY <1>1, <2>1, ScheduleTypes
<1>4. \A x \in Row : Of(x)' = {i \in DOMAIN p : p[i] = x}
  BY <1>2, <1>3 DEF Of
<1>5. Entries' = Rows
  BY <1>4 DEF Entries, Rows, In
<1>6. Single'
  BY <1>4 DEF Single, Distinct
<1>. QED
  BY <1>5, <1>6

(* A page shows no more than the rows of its plant.                        *)
LEMMA ShowsOther ==
  ASSUME NEW page, NEW rows, NEW r, page.node # r.row.node
  PROVE  Shows(page, rows) <=> Shows(page, After(r, rows))
<1>1. \A slot : [node |-> page.node, slot |-> slot] # r.row
  OBVIOUS
<1>2. \A x : x # r.row => (x \in After(r, rows) <=> x \in rows)
  BY DEF After
<1>. QED
  BY <1>1, <1>2 DEF Shows

(* The page that has been loaded shows the rows (app.js:154-200).          *)
LEMMA ShowsLoaded ==
  ASSUME TypeOK, NEW n \in Nodes, Distinct(plant_watering_schedules),
         NEW page, page = [node |-> n, listed |-> Listed(n)]
  PROVE  Shows(page, Rows)
<1>1. \A slot \in Slots : [node |-> n, slot |-> slot] \in Row
  BY DEF Row
<1>. QED
  BY <1>1, ListedRows DEF Shows, Rows

(* An edit of a page that shows the rows is one of them or is none of them,*)
(* and the page then shows what it will do (app.js:226-286).               *)
LEMMA ShowsAdded ==
  ASSUME NEW page \in Page, NEW rows, NEW slot \in Slots, Shows(page, rows),
         ~Contains(page.listed, slot),
         NEW l, l = Append(page.listed, slot),
         NEW next, next.node = page.node, next.listed = l,
         NEW r, r.kind = "add", r.row = [node |-> page.node, slot |-> slot]
  PROVE  r.row \notin rows /\ Shows(next, After(r, rows))
<1> DEFINE q == page.listed
<1>0. q \in Seq(Slots)
  BY DEF Page
<1>1. \A i \in DOMAIN q : q[i] # slot
  BY <1>0 DEF Contains
<1>2. /\ DOMAIN l = 1 .. Len(q) + 1 /\ Len(q) \in Nat /\ DOMAIN q = 1 .. Len(q)
      /\ l[Len(q) + 1] = slot /\ \A j \in 1 .. Len(q) : l[j] = q[j]
  BY <1>0, Appended
<1>3. \A x : In(l, x) <=> In(q, x) \/ x = slot
  BY <1>2 DEF In
<1>4. Distinct(l)
  BY <1>1, <1>2 DEF Shows, Distinct
<1>5. r.row \notin rows
  BY <1>1 DEF Shows, In
<1>6. \A x : [node |-> page.node, slot |-> x] \in After(r, rows) <=>
               [node |-> page.node, slot |-> x] \in rows \/ x = slot
  <2> TAKE x
  <2>1. [node |-> page.node, slot |-> x] = r.row <=> x = slot
    OBVIOUS
  <2>. QED
    BY <2>1 DEF After
<1>. QED
  BY <1>3, <1>4, <1>5, <1>6 DEF Shows

(* A page that has deleted one of its schedules shows the rows without it  *)
(* (app.js:269-290).                                                       *)
LEMMA ShowsDeleted ==
  ASSUME NEW page \in Page, NEW rows, Shows(page, rows), NEW i \in DOMAIN page.listed,
         NEW l, l = RemoveAt(page.listed, i),
         NEW next, next.node = page.node, next.listed = l,
         NEW r, r.kind = "delete", r.row = [node |-> page.node, slot |-> page.listed[i]]
  PROVE  Shows(next, After(r, rows))
<1> DEFINE q == page.listed
<1>0. q \in Seq(Slots) /\ i \in DOMAIN q /\ l = RemoveAt(q, i)
  BY DEF Page
<1>1. \A j, k \in DOMAIN q : q[j] = q[k] => j = k
  BY DEF Shows, Distinct
<1> HIDE DEF q
<1>2. /\ DOMAIN l = 1 .. Len(q) - 1 /\ Len(q) \in Nat /\ DOMAIN q = 1 .. Len(q) /\ i \in 1 .. Len(q)
      /\ \A j \in 1 .. Len(q) - 1 : l[j] = IF j < i THEN q[j] ELSE q[j + 1]
  <2>1. Len(q) \in Nat /\ DOMAIN q = 1 .. Len(q) /\ i \in 1 .. Len(q)
    BY <1>0
  <2>2. /\ DOMAIN l = 1 .. Len(q) - 1
        /\ \A j \in 1 .. Len(q) - 1 : l[j] = IF j < i THEN q[j] ELSE q[j + 1]
    BY <1>0, Removed, Zenon
  <2>. QED
    BY <2>1, <2>2
<1>3. \A j \in DOMAIN l : \E k \in DOMAIN q : k # i /\ l[j] = q[k] /\ k = IF j < i THEN j ELSE j + 1
  <2> TAKE j \in DOMAIN l
  <2>1. CASE j < i
    <3>1. j \in DOMAIN q /\ j # i /\ l[j] = q[j]
      BY <1>2, <2>1
    <3>. QED
      BY <2>1, <3>1
  <2>2. CASE ~(j < i)
    <3>1. j + 1 \in DOMAIN q /\ j + 1 # i /\ l[j] = q[j + 1]
      BY <1>2, <2>2
    <3>. QED
      BY <2>2, <3>1
  <2>. QED
    BY <2>1, <2>2
<1>4. \A k \in DOMAIN q : k # i => \E j \in DOMAIN l : l[j] = q[k]
  <2> TAKE k \in DOMAIN q
  <2> HAVE k # i
  <2>1. CASE k < i
    <3>1. k \in DOMAIN l /\ l[k] = q[k]
      BY <1>2, <2>1
    <3>. QED
      BY <3>1
  <2>2. CASE k > i
    <3>1. k - 1 \in DOMAIN l /\ ~(k - 1 < i) /\ k - 1 + 1 = k
      BY <1>2, <2>2
    <3>2. l[k - 1] = q[k]
      BY <1>2, <3>1
    <3>. QED
      BY <3>1, <3>2
  <2>. QED
    BY <1>2, <2>1, <2>2
<1>5. \A x : In(l, x) <=> In(q, x) /\ x # q[i]
  <2> TAKE x
  <2>1. In(l, x) => In(q, x) /\ x # q[i]
    BY <1>1, <1>2, <1>3 DEF In
  <2>2. In(q, x) /\ x # q[i] => In(l, x)
    BY <1>4 DEF In
  <2>. QED
    BY <2>1, <2>2
<1>6. Distinct(l)
  BY <1>1, <1>2, <1>3 DEF Distinct
<1>7. \A x : [node |-> page.node, slot |-> x] \in After(r, rows) <=>
               [node |-> page.node, slot |-> x] \in rows /\ x # q[i]
  <2> TAKE x
  <2>1. [node |-> page.node, slot |-> x] = r.row <=> x = q[i]
    BY DEF q
  <2>. QED
    BY <2>1 DEF After
<1>. QED
  BY <1>5, <1>6, <1>7 DEF Shows, q

(* What a step leaves alone.                                               *)
LEMMA RowsKept ==
  ASSUME UNCHANGED plant_watering_schedules
  PROVE  /\ Rows' = Rows
         /\ Distinct(plant_watering_schedules) => Distinct(plant_watering_schedules)'
  BY DEF Rows

(* Without a change in memory the rows that have entries stay the same.    *)
LEMMA EntriesKept ==
  ASSUME UNCHANGED watering_schedules
  PROVE  Entries' = Entries /\ (Single => Single')
<1>1. \A x : Of(x)' = Of(x)
  BY DEF Of
<1>. QED
  BY <1>1 DEF Entries, Single

(* The bags tell which of the three states of an edit this is.             *)
LEMMA NothingWaits ==
  ASSUME EditInv, ~Waiting
  PROVE  Quiet
<1>1. \A r : OneBag(r) # EmptyBag
  BY OneEdit, NoBag
<1>. QED
  BY <1>1 DEF EditInv, Waiting, Sent, Handled

(* The edit that is handled, or executed, is the only one.                 *)
LEMMA OneWaits ==
  ASSUME EditInv, NEW r, BagIn(r, requests)
  PROVE  r \in Edit /\ Sent(r) /\ BagRemove(requests, r) = EmptyBag
<1>1. ~BagIn(r, EmptyBag) /\ \A s : BagIn(r, OneBag(s)) => r = s
  BY OneEdit, NoBag
<1>2. r \in Edit /\ Sent(r)
  BY <1>1 DEF EditInv, Quiet, Sent, Handled
<1>. QED
  BY <1>2, OneEdit DEF Sent

(* With one statement in progress it is the one that executes.             *)
LEMMA OneToExecute ==
  ASSUME EditInv, NEW r, BagIn(r, statements)
  PROVE  r \in Edit /\ Handled(r) /\ BagRemove(statements, r) = EmptyBag
<1>1. ~BagIn(r, EmptyBag) /\ \A s : BagIn(r, OneBag(s)) => r = s
  BY OneEdit, NoBag
<1>2. r \in Edit /\ Handled(r)
  BY <1>1 DEF EditInv, Quiet, Sent, Handled
<1>. QED
  BY <1>2, OneEdit DEF Handled

(* A fresh page shows the rows as they will be; those that are loaded are  *)
(* fresh when nothing is under way (app.js:154-200).                       *)
LEMMA LoadPageEdits ==
  ASSUME TypeOK, EditInv, NEW t \in Tabs, NEW n \in Nodes, LoadPage(t, n)
  PROVE  EditInv'
<1>0. /\ UNCHANGED <<up, requests, statements, plant_watering_schedules, watering_schedules>>
      /\ Entries' = Entries /\ Rows' = Rows /\ Single' /\ Distinct(plant_watering_schedules)'
  BY RowsKept, EntriesKept DEF LoadPage, UserActs, tableVars, EditInv
<1>1. \A s \in Tabs : s # t => pages'[s] = pages[s]
  BY DEF LoadPage, TypeOK
<1>2. fresh' \subseteq fresh \cup {t} /\ fresh \subseteq Tabs
  BY DEF LoadPage, TypeOK
<1>3. t \in fresh' => ~Waiting /\ Shows(pages'[t], Rows)
  <2> HAVE t \in fresh'
  <2>1. ~Waiting /\ pages' = [pages EXCEPT ![t] = [node |-> n, listed |-> Listed(n)]]
    BY DEF LoadPage
  <2>2. pages'[t] = [node |-> n, listed |-> Listed(n)]
    BY <2>1 DEF TypeOK
  <2>3. Distinct(plant_watering_schedules)
    BY DEF EditInv
  <2> HIDE DEF LoadPage
  <2>. QED
    BY <2>1, <2>2, <2>3, ShowsLoaded
<1>4. ASSUME NEW rows, PagesShow(rows), t \in fresh' => rows = Rows
      PROVE  \A s \in fresh' : Shows(pages'[s], rows)
  BY <1>1, <1>2, <1>3, <1>4 DEF PagesShow
<1>5. CASE Quiet
  <2>1. \A s \in fresh' : Shows(pages'[s], Rows)
    BY <1>4, <1>5 DEF Quiet
  <2>2. Quiet'
    BY <1>0, <1>5, <2>1 DEF Quiet, PagesShow
  <2>. QED
    BY <1>0, <2>2 DEF EditInv
<1>6. ASSUME NEW r \in Edit, Sent(r) \/ Handled(r)
      PROVE  EditInv'
  <2>1. Waiting
    BY <1>6, OneEdit, NoBag DEF Sent, Handled, Waiting
  <2>2. \A s \in fresh' : Shows(pages'[s], After(r, Rows))
    BY <1>3, <1>4, <1>6, <2>1 DEF Sent, Handled
  <2>3. Sent(r)' \/ Handled(r)'
    BY <1>0, <1>6, <2>2 DEF Sent, Handled, PagesShow
  <2>. QED
    BY <1>0, <2>3 DEF EditInv
<1>. QED
  BY <1>5, <1>6 DEF EditInv

(* What is clicked by a user who is not hasty is the only edit on its way  *)
(* (app.js:226-286).                                                       *)
LEMMA ClickEdits ==
  ASSUME TypeOK, EditInv, NEW t \in Tabs, NEW r \in Edit, UserActs, Hurry(t), smooth',
         r.row.node = pages[t].node, requests' = BagAdd(requests, r),
         \A s \in Tabs : s # t => pages'[s] = pages[s],
         r.kind = "add" => r.row \notin Rows,
         Shows(pages'[t], After(r, Rows))
  PROVE  EditInv'
<1>0. /\ UNCHANGED <<up, statements, plant_watering_schedules, watering_schedules>>
      /\ Entries' = Entries /\ Rows' = Rows /\ Single' /\ Distinct(plant_watering_schedules)'
  BY RowsKept, EntriesKept DEF UserActs, tableVars, EditInv
<1>1. ~Waiting /\ fresh' = FreshBut(pages[t].node) \cup (fresh \cap {t})
  BY DEF Hurry
<1>2. Quiet
  BY <1>1, NothingWaits
<1>3. requests' = OneBag(r)
  BY <1>2 DEF Quiet, OneBag
<1>4. \A s \in fresh' : Shows(pages'[s], After(r, Rows))
  <2> TAKE s \in fresh'
  <2>1. CASE s # t
    <3>1. s \in fresh /\ s \in Tabs /\ pages[s].node # r.row.node
      BY <1>1, <2>1 DEF FreshBut, TypeOK
    <3>2. Shows(pages[s], Rows)
      BY <1>2, <3>1 DEF Quiet, PagesShow
    <3>. QED
      BY <2>1, <3>1, <3>2, ShowsOther
  <2>. QED
    BY <2>1
<1>5. Sent(r)'
  BY <1>0, <1>2, <1>3, <1>4 DEF Quiet, Sent, PagesShow
<1>. QED
  BY <1>0, <1>5 DEF EditInv

(* Both buttons are such a click.                                          *)
LEMMA UserEdits ==
  ASSUME TypeOK, EditInv, NEW t \in Tabs, smooth',
         \/ \E slot \in Slots : ClickAdd(t, slot)
         \/ ClickDelete(t)
  PROVE  EditInv'
<1>0. /\ UserActs /\ Hurry(t) /\ pages[t] # Closed
  BY DEF ClickAdd, ClickDelete
<1>1. Quiet /\ t \in fresh
  BY <1>0, NothingWaits DEF Hurry
<1>2. Shows(pages[t], Rows)
  BY <1>1 DEF Quiet, PagesShow
<1>3. pages[t] \in Page /\ pages[t].node \in Nodes /\ pages[t].listed \in Seq(Slots)
  <2>1. pages[t] \in Page
    BY <1>0 DEF TypeOK
  <2>. QED
    BY <2>1 DEF Page
<1>4. ASSUME NEW kind \in {"add", "delete"}, NEW slot \in Slots,
             NEW r, r = [kind |-> kind, row |-> [node |-> pages[t].node, slot |-> slot]]
      PROVE  /\ r \in Edit /\ r.kind = kind /\ r.row = [node |-> pages[t].node, slot |-> slot]
             /\ r.row.node = pages[t].node
             /\ Request(kind, pages[t].node, slot) => requests' = BagAdd(requests, r)
  BY <1>3, <1>4 DEF Edit, Row, Request
<1>5. ASSUME NEW l, pages' = [pages EXCEPT ![t].listed = l]
      PROVE  /\ pages'[t].node = pages[t].node /\ pages'[t].listed = l
             /\ \A s \in Tabs : s # t => pages'[s] = pages[s]
  BY <1>3, <1>5 DEF TypeOK, Page
<1>6. CASE \E slot \in Slots : ClickAdd(t, slot)
  <2>1. PICK slot \in Slots : ClickAdd(t, slot)
    BY <1>6
  <2> DEFINE r == [kind |-> "add", row |-> [node |-> pages[t].node, slot |-> slot]]
             l == Append(pages[t].listed, slot)
  <2>2. /\ ~Contains(pages[t].listed, slot) /\ pages' = [pages EXCEPT ![t].listed = l]
        /\ Request("add", pages[t].node, slot)
    BY <2>1 DEF ClickAdd
  <2>3. /\ r \in Edit /\ r.kind = "add" /\ r.row = [node |-> pages[t].node, slot |-> slot]
        /\ r.row.node = pages[t].node /\ requests' = BagAdd(requests, r)
    BY <1>4, <2>2
  <2>4. l = Append(pages[t].listed, slot)
    OBVIOUS
  <2> HIDE DEF r, l
  <2>5. /\ pages'[t].node = pages[t].node /\ pages'[t].listed = l
        /\ \A s \in Tabs : s # t => pages'[s] = pages[s]
    BY <1>5, <2>2
  <2>6. r.row \notin Rows /\ Shows(pages'[t], After(r, Rows))
    BY <1>2, <1>3, <2>2, <2>3, <2>4, <2>5, ShowsAdded
  <2>. QED
    BY <1>0, <2>3, <2>5, <2>6, ClickEdits
<1>7. CASE ClickDelete(t)
  <2>1. PICK i \in DOMAIN pages[t].listed :
          /\ pages' = [pages EXCEPT ![t].listed = RemoveAt(@, i)]
          /\ Request("delete", pages[t].node, pages[t].listed[i])
    BY <1>7 DEF ClickDelete
  <2> DEFINE r == [kind |-> "delete", row |-> [node |-> pages[t].node, slot |-> pages[t].listed[i]]]
             l == RemoveAt(pages[t].listed, i)
  <2>2. pages[t].listed[i] \in Slots /\ pages' = [pages EXCEPT ![t].listed = l]
    BY <1>3, <2>1
  <2>3. /\ r \in Edit /\ r.kind = "delete"
        /\ r.row = [node |-> pages[t].node, slot |-> pages[t].listed[i]]
        /\ r.row.node = pages[t].node /\ requests' = BagAdd(requests, r)
    BY <1>4, <2>1, <2>2
  <2>4. l = RemoveAt(pages[t].listed, i)
    OBVIOUS
  <2> HIDE DEF r, l
  <2>5. /\ pages'[t].node = pages[t].node /\ pages'[t].listed = l
        /\ \A s \in Tabs : s # t => pages'[s] = pages[s]
    BY <1>5, <2>2
  <2>6. Shows(pages'[t], After(r, Rows))
    BY <1>2, <1>3, <2>1, <2>3, <2>4, <2>5, ShowsDeleted
  <2>. QED
    BY <1>0, <2>3, <2>5, <2>6, ClickEdits
<1>. QED
  BY <1>6, <1>7

(* An edit that is lost leaves only the pages of other plants fresh.       *)
LEMMA LostRequest ==
  ASSUME TypeOK, EditInv, RequestFails
  PROVE  EditInv'
<1>1. PICK r \in BagToSet(requests) : requests' = BagRemove(requests, r) /\ fresh' = FreshBut(r.row.node)
  BY DEF RequestFails
<1>2. Sent(r) /\ requests' = EmptyBag
  BY <1>1, OneWaits DEF BagIn
<1>3. /\ UNCHANGED <<up, statements, plant_watering_schedules, watering_schedules, pages>>
      /\ Entries' = Entries /\ Rows' = Rows /\ Single' /\ Distinct(plant_watering_schedules)'
  BY RowsKept, EntriesKept DEF RequestFails, tableVars, EditInv
<1>4. \A s \in fresh' : Shows(pages'[s], Rows)
  BY <1>1, <1>2, <1>3, ShowsOther DEF FreshBut, Sent, PagesShow
<1>5. Quiet'
  BY <1>2, <1>3, <1>4 DEF Quiet, Sent, PagesShow
<1>. QED
  BY <1>3, <1>5 DEF EditInv

(* A crash loses the statement, and with it what made a page stale.        *)
LEMMA CrashEdits ==
  ASSUME TypeOK, EditInv, Crash
  PROVE  EditInv'
<1>1. /\ UNCHANGED <<requests, plant_watering_schedules, pages>> /\ ~up'
      /\ watering_schedules' = <<>> /\ statements' = EmptyBag
      /\ fresh' = {s \in fresh : \A r \in BagToSet(statements) : pages[s].node # r.row.node}
      /\ Rows' = Rows /\ Distinct(plant_watering_schedules)'
  BY RowsKept DEF Crash, EditInv
<1>2. Single'
  <2>1. \A x : Of(x)' = {}
    BY <1>1 DEF Of
  <2>. QED
    BY <2>1 DEF Single
<1>3. CASE Quiet
  <2>1. Quiet'
    BY <1>1, <1>3 DEF Quiet, PagesShow
  <2>. QED
    BY <1>1, <1>2, <2>1 DEF EditInv
<1>4. ASSUME NEW r \in Edit, Sent(r)
      PROVE  EditInv'
  <2>1. Sent(r)'
    BY <1>1, <1>4 DEF Sent, PagesShow
  <2>. QED
    BY <1>1, <1>2, <2>1 DEF EditInv
<1>5. ASSUME NEW r \in Edit, Handled(r)
      PROVE  EditInv'
  <2>1. r \in BagToSet(statements)
    BY <1>5, OneEdit DEF Handled, BagIn
  <2>2. \A s \in fresh' : Shows(pages'[s], Rows)
    BY <1>1, <1>5, <2>1, ShowsOther DEF Handled, PagesShow
  <2>3. Quiet'
    BY <1>1, <1>5, <2>2 DEF Quiet, Handled, PagesShow
  <2>. QED
    BY <1>1, <1>2, <2>3 DEF EditInv
<1>. QED
  BY <1>3, <1>4, <1>5 DEF EditInv

(* The handler takes the edit to the entries (server.js:143-183).          *)
LEMMA HandleEdits ==
  ASSUME TypeOK, EditInv, NEW r, Handle(r)
  PROVE  EditInv'
<1>1. r \in Edit /\ r.row \in Row /\ Sent(r) /\ requests' = EmptyBag
  BY OneWaits DEF Handle, Edit
<1>2. /\ UNCHANGED <<up, plant_watering_schedules, pages, fresh>> /\ up
      /\ Rows' = Rows /\ Distinct(plant_watering_schedules)'
  BY RowsKept DEF Handle, EditInv
<1>3. statements' = OneBag(r) /\ Entries = Rows
  BY <1>1, <1>2 DEF Handle, Sent, OneBag
<1>4. Entries' = After(r, Rows) /\ Single'
  <2>1. Single
    BY DEF EditInv
  <2>2. CASE r.kind = "add" /\ AddWateringSchedule(r.row)
    BY <1>1, <1>3, <2>1, <2>2, AddEntry DEF Sent, After
  <2>3. CASE r.kind = "delete" /\ DeleteWateringSchedule(r.row)
    BY <1>1, <1>3, <2>1, <2>3, DeleteEntry DEF After
  <2>. QED
    BY <2>2, <2>3 DEF Handle
<1>5. Handled(r)'
  BY <1>1, <1>2, <1>3, <1>4 DEF Sent, Handled, PagesShow
<1>. QED
  BY <1>1, <1>2, <1>4, <1>5 DEF EditInv

(* The statement takes it to the rows (db.js:275-295).                     *)
LEMMA ExecuteEdits ==
  ASSUME TypeOK, EditInv, NEW r, Execute(r), smooth'
  PROVE  EditInv'
<1>1. r \in Edit /\ r.row \in Row /\ Handled(r) /\ statements' = EmptyBag
  BY OneToExecute DEF Execute, Edit
<1>2. UNCHANGED <<up, watering_schedules, requests, pages, fresh>> /\ Entries' = Entries /\ Single'
  BY EntriesKept DEF Execute, pageVars, EditInv
<1>3. Rows' = After(r, Rows) /\ Distinct(plant_watering_schedules)'
  <2>1. Distinct(plant_watering_schedules)
    BY DEF EditInv
  <2>2. CASE r.kind = "add" /\ InsertPlantWateringSchedule(r.row)
    BY <1>1, <2>1, <2>2, InsertRow DEF Handled, After
  <2>3. CASE r.kind = "delete" /\ DeletePlantWateringSchedule(r.row)
    BY <1>1, <2>1, <2>3, DeleteRow DEF After
  <2>. QED
    BY <2>2, <2>3 DEF Execute
<1>4. Quiet'
  BY <1>1, <1>2, <1>3 DEF Quiet, Handled, PagesShow
<1>. QED
  BY <1>2, <1>3, <1>4 DEF EditInv

(* The jobs change no entry's plant and slot, and the process starts with  *)
(* the entries of the rows.                                                *)
LEMMA JobFields ==
  ASSUME TypeOK, Tick \/ \E i \in DOMAIN watering_schedules : StartJob(i) \/ EndJob(i)
  PROVE  /\ UNCHANGED <<up, requests, statements, plant_watering_schedules, pages, fresh, smooth>>
         /\ DOMAIN watering_schedules' = DOMAIN watering_schedules
         /\ \A i \in DOMAIN watering_schedules :
               /\ watering_schedules'[i].node = watering_schedules[i].node
               /\ watering_schedules'[i].slot = watering_schedules[i].slot
<1> DEFINE w == watering_schedules
<1>0. w \in Seq(Entry) /\ \A i \in DOMAIN w : w[i] \in Entry
  BY DEF TypeOK
<1>1. CASE Tick
  <2>1. w' = [i \in DOMAIN w |-> Due(w[i], now')]
    BY <1>1 DEF Tick
  <2>2. \A e \in Entry : Due(e, now').node = e.node /\ Due(e, now').slot = e.slot
    BY DEF Due, Entry
  <2>3. DOMAIN w' = DOMAIN w /\ \A i \in DOMAIN w : w'[i].node = w[i].node /\ w'[i].slot = w[i].slot
    BY <1>0, <2>1, <2>2
  <2>. QED
    BY <1>1, <2>3 DEF Tick, tableVars, pageVars
<1>2. ASSUME NEW i \in DOMAIN w, StartJob(i) \/ EndJob(i)
      PROVE  /\ UNCHANGED <<up, tableVars, pageVars, smooth>> /\ DOMAIN w' = DOMAIN w
             /\ \A j \in DOMAIN w : w'[j].node = w[j].node /\ w'[j].slot = w[j].slot
  <2>1. \E e \in Entry : e.node = w[i].node /\ e.slot = w[i].slot /\ w' = [w EXCEPT ![i] = e]
    <3>1. CASE StartJob(i)
      <4> DEFINE e == [w[i] EXCEPT !.start_due = FALSE]
      <4>1. e \in Entry /\ e.node = w[i].node /\ e.slot = w[i].slot
        BY <1>0 DEF Entry
      <4>2. w' = [w EXCEPT ![i] = e]
        BY <3>1 DEF StartJob
      <4>. QED
        BY <4>1, <4>2
    <3>2. CASE EndJob(i)
      <4> DEFINE e == [w[i] EXCEPT !.end_due = FALSE]
      <4>1. e \in Entry /\ e.node = w[i].node /\ e.slot = w[i].slot
        BY <1>0 DEF Entry
      <4>2. w' = [w EXCEPT ![i] = e]
        BY <3>2 DEF EndJob
      <4>. QED
        BY <4>1, <4>2
    <3>. QED
      BY <1>2, <3>1, <3>2
  <2>2. DOMAIN w' = DOMAIN w /\ \A j \in DOMAIN w : w'[j].node = w[j].node /\ w'[j].slot = w[j].slot
    BY <2>1
  <2>. QED
    BY <1>2, <2>2 DEF StartJob, EndJob
<1>. QED
  BY <1>1, <1>2 DEF tableVars, pageVars

(* All other steps leave edits and pages alone.                            *)
LEMMA StepsWithoutEdits ==
  ASSUME TypeOK, EditInv,
         \/ Tick \/ Restart \/ UNCHANGED vars
         \/ \E i \in DOMAIN watering_schedules : StartJob(i) \/ EndJob(i)
  PROVE  EditInv'
<1>1. /\ UNCHANGED <<requests, statements, plant_watering_schedules, pages, fresh>>
      /\ Rows' = Rows /\ Distinct(plant_watering_schedules)' /\ Distinct(plant_watering_schedules)
  <2>1. UNCHANGED <<requests, statements, plant_watering_schedules, pages, fresh>>
    <3>1. CASE Restart \/ UNCHANGED vars
      BY <3>1 DEF Restart, vars, tableVars, pageVars
    <3>. QED
      BY <3>1, JobFields
  <2>. QED
    BY <2>1, RowsKept DEF EditInv
<1>2. Single' /\ (up' => Entries' = Rows \/ (up /\ Entries' = Entries)) /\ (up => up')
  <2>1. Single
    BY DEF EditInv
  <2>2. CASE Restart
    BY <1>1, <2>2, RestartEntries DEF Restart
  <2>3. CASE UNCHANGED vars
    BY <2>1, <2>3, EntriesKept DEF vars
  <2>4. CASE Tick \/ \E i \in DOMAIN watering_schedules : StartJob(i) \/ EndJob(i)
    BY <2>1, <2>4, JobFields, SameEntries
  <2>. QED
    BY <2>2, <2>3, <2>4
<1>3. CASE Quiet
  <2>1. Quiet'
    BY <1>1, <1>2, <1>3 DEF Quiet, PagesShow
  <2>. QED
    BY <1>1, <1>2, <2>1 DEF EditInv
<1>4. ASSUME NEW r \in Edit, Sent(r)
      PROVE  EditInv'
  <2>1. Sent(r)'
    BY <1>1, <1>2, <1>4 DEF Sent, PagesShow
  <2>. QED
    BY <1>1, <1>2, <2>1 DEF EditInv
<1>5. ASSUME NEW r \in Edit, Handled(r)
      PROVE  EditInv'
  <2>1. ~Restart
    BY <1>5 DEF Handled, Restart
  <2>2. Entries' = Entries /\ up'
    <3>1. CASE UNCHANGED vars
      BY <1>5, <3>1, EntriesKept DEF vars, Handled
    <3>2. CASE Tick \/ \E i \in DOMAIN watering_schedules : StartJob(i) \/ EndJob(i)
      BY <1>5, <3>2, JobFields, SameEntries DEF Handled
    <3>. QED
      BY <2>1, <3>1, <3>2
  <2>3. Handled(r)'
    BY <1>1, <1>5, <2>2 DEF Handled, PagesShow
  <2>. QED
    BY <1>1, <1>2, <2>3 DEF EditInv
<1>. QED
  BY <1>3, <1>4, <1>5 DEF EditInv

(* A process that is down has nothing in memory (server.js:141).           *)
LEMMA StoppedStep ==
  ASSUME TypeOK, StoppedInv, [Next]_vars
  PROVE  StoppedInv'
<1>1. CASE UNCHANGED <<up, watering_schedules, statements>>
  BY <1>1 DEF StoppedInv
<1>2. CASE UNCHANGED vars \/ RequestFails \/ \E t \in Tabs :
             \/ \E n \in Nodes : LoadPage(t, n)
             \/ \E slot \in Slots : ClickAdd(t, slot)
             \/ ClickDelete(t)
  <2>1. UNCHANGED <<up, watering_schedules, statements>>
    BY <1>2 DEF vars, tableVars, RequestFails, LoadPage, ClickAdd, ClickDelete, UserActs
  <2>. QED
    BY <1>1, <2>1
<1>3. CASE Crash \/ Restart \/ \E r \in BagToSet(requests) : Handle(r)
  BY <1>3 DEF Crash, Restart, Handle, StoppedInv
<1>4. CASE \E s \in BagToSet(statements) : Execute(s)
  <2>1. up
    BY <1>4, NoBag DEF StoppedInv, BagIn
  <2>. QED
    BY <1>4, <2>1 DEF Execute, StoppedInv
<1>5. CASE Tick \/ \E i \in DOMAIN watering_schedules : StartJob(i) \/ EndJob(i)
  <2>1. UNCHANGED <<up, statements>> /\ DOMAIN watering_schedules' = DOMAIN watering_schedules
    BY <1>5, JobFields
  <2>2. watering_schedules \in Seq(Entry) /\ watering_schedules' \in Seq(Entry)
    <3>1. TypeOK'
      BY TypeStep
    <3>. QED
      BY <3>1 DEF TypeOK
  <2>3. watering_schedules = <<>> => watering_schedules' = <<>>
    BY <2>1, <2>2
  <2>. QED
    BY <2>1, <2>3 DEF StoppedInv
<1>. QED
  BY <1>2, <1>3, <1>4, <1>5 DEF Next

(* The invariant of jobs and rows is inductive.                            *)
LEMMA StoreStep ==
  ASSUME TypeOK, StoreInv, [Next]_vars
  PROVE  StoreInv'
<1>1. StoppedInv'
  BY StoppedStep DEF StoreInv
<1>2. ASSUME smooth'
      PROVE  smooth
  BY <1>2 DEF Next, vars, RequestFails, LoadPage, ClickAdd, ClickDelete, Hurry, Handle, Execute,
              Tick, StartJob, EndJob, Crash, Restart
<1>3. ASSUME smooth'
      PROVE  EditInv'
  <2>1. EditInv
    BY <1>2, <1>3 DEF StoreInv
  <2>2. CASE \E t \in Tabs : \E n \in Nodes : LoadPage(t, n)
    BY <2>1, <2>2, LoadPageEdits
  <2>3. CASE \E t \in Tabs : (\E slot \in Slots : ClickAdd(t, slot)) \/ ClickDelete(t)
    BY <1>3, <2>1, <2>3, UserEdits
  <2>4. CASE RequestFails \/ Crash
    BY <2>1, <2>4, LostRequest, CrashEdits
  <2>5. CASE \E r \in BagToSet(requests) : Handle(r)
    BY <2>1, <2>5, HandleEdits
  <2>6. CASE \E s \in BagToSet(statements) : Execute(s)
    BY <1>3, <2>1, <2>6, ExecuteEdits
  <2>7. CASE \/ Tick \/ Restart \/ UNCHANGED vars
             \/ \E i \in DOMAIN watering_schedules : StartJob(i) \/ EndJob(i)
    BY <2>1, <2>7, StepsWithoutEdits
  <2>. QED
    BY <2>2, <2>3, <2>4, <2>5, <2>6, <2>7 DEF Next
<1>. QED
  BY <1>1, <1>3 DEF StoreInv

(* A first start has neither rows nor entries.                             *)
LEMMA StoreInit == Init => StoreInv
<1> SUFFICES ASSUME Init PROVE StoreInv
  OBVIOUS
<1>1. StoppedInv
  BY DEF Init, StoppedInv
<1>2. (\A x : Of(x) = {}) /\ (\A x : ~In(plant_watering_schedules, x))
  BY DEF Init, Of, In
<1>3. Entries = {} /\ Rows = {} /\ Single /\ Distinct(plant_watering_schedules)
  BY <1>2 DEF Entries, Rows, Single, Distinct, In
<1>4. Quiet
  BY <1>3 DEF Init, Quiet, PagesShow
<1>. QED
  BY <1>1, <1>3, <1>4 DEF StoreInv, EditInv

(* At most one entry and one row for each schedule: the counts agree.      *)
LEMMA StoreCounts == TypeOK /\ StoreInv => JobsAreStored
<1> SUFFICES ASSUME TypeOK, StoreInv, up, smooth, ~Waiting, NEW row \in Row
             PROVE  Cardinality(Of(row)) = Cardinality(Stored(row))
  BY DEF JobsAreStored
<1>1. EditInv
  BY DEF StoreInv
<1>2. Quiet /\ Entries = Rows /\ Single /\ Distinct(plant_watering_schedules)
  BY <1>1, NothingWaits DEF Quiet, EditInv
<1>3. Of(row) # {} <=> Stored(row) # {}
  BY <1>2 DEF Entries, Rows, In, Stored
<1>4. \A i, j \in Of(row) : i = j
  BY <1>2 DEF Single
<1>5. \A i, j \in Stored(row) : i = j
  BY <1>2 DEF Distinct, Stored
<1>6. CASE Of(row) = {}
  BY <1>3, <1>6
<1>7. CASE Of(row) # {}
  <2>1. PICK i : Of(row) = {i}
    BY <1>4, <1>7
  <2>2. PICK j : Stored(row) = {j}
    BY <1>3, <1>5, <1>7
  <2>. QED
    BY <2>1, <2>2, FS_Singleton
<1>. QED
  BY <1>6, <1>7

(* While no statement has failed and no user has been hasty, whatever      *)
(* crashes and requests that were lost: when nothing is in progress, the   *)
(* jobs in memory are those of the rows (server.js:143-183, 342-362).      *)
THEOREM SchedulesAreStored == Spec => []JobsAreStored
<1>1. Init => TypeOK /\ StoreInv
  BY StoreInit, Constants, NoBag DEF Init, TypeOK
<1>2. TypeOK /\ StoreInv /\ [Next]_vars => TypeOK' /\ StoreInv'
  BY TypeStep, StoreStep
<1>. QED
  BY <1>1, <1>2, StoreCounts, PTL DEF Spec

(***************************************************************************)
(* What the pump is, against the entries that are open.                    *)
(***************************************************************************)
OpenAt(e, second) ==
  ((e.slot.begin <= second /\ second < e.slot.end) # e.start_due) # e.end_due

OpenIn(w, second, n) == {i \in DOMAIN w : w[i].node = n /\ OpenAt(w[i], second)}

OnAgainst(on, open) == on # (Cardinality(open) % 2 = 1)

InvertedIs == \A n \in Nodes : /\ OpenEntries(n) = OpenIn(watering_schedules, now, n)
                               /\ Inverted(n) = OnAgainst(pump[n], OpenEntries(n))

(* The same, as functions of memory, clock and pump.                       *)
LEMMA InvertedIsSo == TRUE => InvertedIs
  BY DEF InvertedIs, OpenEntries, OpenIn, Open, Between, OpenAt, Inverted, OnAgainst

(* The number of open entries can be counted.                              *)
LEMMA OpenFinite ==
  ASSUME NEW w \in Seq(Entry), NEW second, NEW n
  PROVE  /\ OpenIn(w, second, n) \subseteq 1 .. Len(w) /\ IsFiniteSet(OpenIn(w, second, n))
         /\ Cardinality(OpenIn(w, second, n)) \in Nat
<1>1. OpenIn(w, second, n) \subseteq 1 .. Len(w)
  BY DEF OpenIn
<1>2. IsFiniteSet(1 .. Len(w))
  BY FS_Interval
<1>. QED
  BY <1>1, <1>2, FS_Subset, FS_CardinalityType

(* The passing of a second opens and closes no entry whose jobs have been  *)
(* marked as due: also not at midnight, since a slot ends on its day       *)
(* (app.js:242).                                                           *)
LEMMA DueKeepsOpen ==
  ASSUME NEW e \in Entry, ~e.start_due, ~e.end_due, NEW second \in 0 .. Day - 1,
         NEW next, next = (second + 1) % Day
  PROVE  OpenAt(Due(e, next), next) <=> OpenAt(e, second)
<1> DEFINE b == e.slot.begin
           f == e.slot.end
           d == Due(e, next)
<1>1. b \in Nat /\ f \in Nat /\ b <= f /\ f < Day /\ Day \in Nat \ {0}
  BY Constants DEF Entry
<1>2. d.slot = e.slot /\ d.start_due = (b = next) /\ d.end_due = (f = next)
  BY DEF Due, Entry
<1>3. OpenAt(d, next) <=> ((b <= next /\ next < f) # (b = next)) # (f = next)
  BY <1>2 DEF OpenAt
<1>4. OpenAt(e, second) <=> b <= second /\ second < f
  <2>1. e.start_due = FALSE /\ e.end_due = FALSE
    BY DEF Entry
  <2>. QED
    BY <2>1 DEF OpenAt
<1> HIDE DEF b, f, d
<1>5. IF second = Day - 1 THEN next = 0 ELSE next = second + 1
  BY <1>1
<1>6. (((b <= next /\ next < f) # (b = next)) # (f = next)) <=> (b <= second /\ second < f)
  <2>1. CASE second = Day - 1
    <3>1. next = 0 /\ ~(second < f) /\ (b = 0 \/ f # 0)
      BY <1>1, <1>5, <2>1
    <3>. QED
      BY <1>1, <3>1
  <2>2. CASE second # Day - 1
    BY <1>1, <1>5, <2>2
  <2>. QED
    BY <2>1, <2>2
<1>. QED
  BY <1>3, <1>4, <1>6 DEF d

(* Nor does it for the whole list.                                         *)
LEMMA TickKeepsOpen ==
  ASSUME TypeOK, Tick, NEW n \in Nodes
  PROVE  OpenIn(watering_schedules', now', n) = OpenIn(watering_schedules, now, n)
<1> DEFINE w == watering_schedules
<1>1. w \in Seq(Entry) /\ \A i \in DOMAIN w : w[i] \in Entry /\ ~w[i].start_due /\ ~w[i].end_due
  BY DEF TypeOK, Tick, NoneDue
<1>2. now \in 0 .. Day - 1 /\ now' = (now + 1) % Day
  BY DEF TypeOK, Tick
<1>3. w' = [i \in DOMAIN w |-> Due(w[i], now')]
  BY DEF Tick
<1>4. \A i \in DOMAIN w : OpenAt(Due(w[i], now'), now') <=> OpenAt(w[i], now)
  BY <1>1, <1>2, DueKeepsOpen
<1>5. \A i \in DOMAIN w : Due(w[i], now').node = w[i].node
  BY <1>1 DEF Due, Entry
<1>. QED
  BY <1>3, <1>4, <1>5 DEF OpenIn

(* A job opens or closes its entry.                                        *)
LEMMA JobFlips ==
  ASSUME NEW e \in Entry, NEW d, NEW second,
         \/ e.start_due /\ d = [e EXCEPT !.start_due = FALSE]
         \/ e.end_due /\ d = [e EXCEPT !.end_due = FALSE]
  PROVE  d.node = e.node /\ (OpenAt(d, second) <=> ~OpenAt(e, second))
<1>1. e.start_due \in BOOLEAN /\ e.end_due \in BOOLEAN /\ d.slot = e.slot /\ d.node = e.node
  BY DEF Entry
<1>2. CASE e.start_due /\ d = [e EXCEPT !.start_due = FALSE]
  <2>1. e.start_due = TRUE /\ d.start_due = FALSE /\ d.end_due = e.end_due
    BY <1>1, <1>2 DEF Entry
  <2>. QED
    BY <1>1, <2>1 DEF OpenAt
<1>3. CASE e.end_due /\ d = [e EXCEPT !.end_due = FALSE]
  <2>1. e.end_due = TRUE /\ d.end_due = FALSE /\ d.start_due = e.start_due
    BY <1>1, <1>3 DEF Entry
  <2>. QED
    BY <1>1, <2>1 DEF OpenAt
<1>. QED
  BY <1>2, <1>3

(* One entry more, or one less, is the other parity.                       *)
LEMMA OneMore ==
  ASSUME NEW S, NEW T, IsFiniteSet(S), IsFiniteSet(T), NEW i, NEW on \in BOOLEAN,
         \/ i \notin S /\ T = S \cup {i}
         \/ i \in S /\ T = S \ {i}
  PROVE  OnAgainst(~on, T) <=> OnAgainst(on, S)
<1>1. Cardinality(S) \in Nat /\ Cardinality(T) \in Nat
  BY FS_CardinalityType
<1>2. Cardinality(T) = Cardinality(S) + 1 \/ Cardinality(T) = Cardinality(S) - 1
  BY <1>1, FS_AddElement, FS_RemoveElement
<1>3. Cardinality(T) % 2 = 1 <=> ~(Cardinality(S) % 2 = 1)
  BY <1>1, <1>2
<1>. QED
  BY <1>3 DEF OnAgainst

(* A job that runs toggles the pump of its plant with the entry, and no    *)
(* other (server.js:148-156).                                              *)
LEMMA JobKeepsInverted ==
  ASSUME TypeOK, NEW i \in DOMAIN watering_schedules, StartJob(i) \/ EndJob(i), NEW n \in Nodes
  PROVE  OnAgainst(pump'[n], OpenIn(watering_schedules', now', n))
           <=> OnAgainst(pump[n], OpenIn(watering_schedules, now, n))
<1> DEFINE w == watering_schedules
           S == OpenIn(w, now, n)
           T == OpenIn(w', now', n)
<1>1. w \in Seq(Entry) /\ w[i] \in Entry /\ now' = now /\ pump \in [Nodes -> BOOLEAN]
      /\ pump' = [pump EXCEPT ![w[i].node] = ~pump[w[i].node]]
  BY DEF TypeOK, StartJob, EndJob, PumpToggle
<1>2. PICK d : /\ \/ w[i].start_due /\ d = [w[i] EXCEPT !.start_due = FALSE]
                  \/ w[i].end_due /\ d = [w[i] EXCEPT !.end_due = FALSE]
               /\ w' = [w EXCEPT ![i] = d]
  BY DEF StartJob, EndJob
<1>3. d.node = w[i].node /\ (OpenAt(d, now) <=> ~OpenAt(w[i], now))
  BY <1>1, <1>2, JobFlips
<1>4. DOMAIN w' = DOMAIN w /\ w'[i] = d /\ \A j \in DOMAIN w : j # i => w'[j] = w[j]
  BY <1>1, <1>2
<1>5. \A j \in DOMAIN w : j # i => (j \in T <=> j \in S)
  BY <1>1, <1>4 DEF OpenIn
<1>6. (i \in S <=> w[i].node = n /\ OpenAt(w[i], now)) /\ (i \in T <=> w[i].node = n /\ ~OpenAt(w[i], now))
  BY <1>1, <1>3, <1>4 DEF OpenIn
<1>7. S \subseteq DOMAIN w /\ T \subseteq DOMAIN w
  BY <1>4 DEF OpenIn
<1>8. IsFiniteSet(S) /\ IsFiniteSet(T)
  <2>1. w' \in Seq(Entry)
    <3>1. TypeOK'
      BY JobTypes
    <3>. QED
      BY <3>1 DEF TypeOK
  <2>. QED
    BY <1>1, <2>1, OpenFinite
<1>9. w[i].node \in Nodes /\ \A m \in Nodes : pump'[m] = IF m = w[i].node THEN ~pump[m] ELSE pump[m]
  BY <1>1, EntryFields
<1> HIDE DEF S, T
<1>10. CASE w[i].node = n
  <2>1. \/ i \notin S /\ T = S \cup {i}
        \/ i \in S /\ T = S \ {i}
    BY <1>5, <1>6, <1>7, <1>10
  <2>2. pump'[n] = ~pump[n] /\ pump[n] \in BOOLEAN
    BY <1>1, <1>9, <1>10
  <2>3. OnAgainst(~pump[n], T) <=> OnAgainst(pump[n], S)
    BY <1>8, <2>1, <2>2, OneMore
  <2>. QED
    BY <2>2, <2>3 DEF S, T
<1>11. CASE w[i].node # n
  <2>1. T = S
    BY <1>5, <1>6, <1>7, <1>11
  <2>2. pump'[n] = pump[n]
    BY <1>9, <1>11
  <2>. QED
    BY <2>1, <2>2 DEF S, T
<1>. QED
  BY <1>10, <1>11

(* An entry is added at the end: it is open, or the open ones are as many. *)
LEMMA AddedOrKept ==
  ASSUME TypeOK, NEW row \in Row, AddWateringSchedule(row), UNCHANGED now, NEW n \in Nodes,
         OpenIn(watering_schedules', now', n) # OpenIn(watering_schedules, now, n)
  PROVE  AddedOpen(n)
<1> DEFINE w == watering_schedules
<1>0. w \in Seq(Entry) /\ w' = Append(w, Schedule(row)) /\ Schedule(row) \in Entry
  BY ScheduleTypes DEF TypeOK, AddWateringSchedule
<1>1. /\ DOMAIN w' = 1 .. Len(w) + 1 /\ Len(w) \in Nat /\ DOMAIN w = 1 .. Len(w)
      /\ Len(w') = Len(w) + 1 /\ w' \in Seq(Entry)
      /\ w'[Len(w) + 1] = Schedule(row) /\ \A j \in 1 .. Len(w) : w'[j] = w[j]
  BY <1>0, Appended
<1>2. Schedule(row).node = n /\ OpenAt(Schedule(row), now)
  BY <1>1 DEF OpenIn
<1>3. Last(w') = Schedule(row)
  BY <1>1 DEF Last
<1>4. Open(Last(w'))
  BY <1>2, <1>3 DEF Open, Between, OpenAt
<1>. QED
  BY <1>1, <1>2, <1>3, <1>4 DEF AddedOpen

(* One that is not open is deleted: the open ones are as many.             *)
LEMMA DeletedOrKept ==
  ASSUME TypeOK, NEW row \in Row, DeleteWateringSchedule(row), UNCHANGED now, NEW n \in Nodes,
         ~DeletedOpen(n)
  PROVE  Cardinality(OpenIn(watering_schedules', now', n))
           = Cardinality(OpenIn(watering_schedules, now, n))
<1> DEFINE w == watering_schedules
           S == OpenIn(w, now, n)
           T == OpenIn(w', now', n)
<1>1. CASE Of(row) = {}
  BY <1>1 DEF DeleteWateringSchedule
<1>2. CASE Of(row) # {}
  <2> DEFINE i == FirstOf(row)
             at(j) == IF j < i THEN j ELSE j + 1
             f == [j \in T |-> at(j)]
  <2>1. i \in DOMAIN w
    BY <1>2, FirstOfRow
  <2>2. w \in Seq(Entry) /\ w' = RemoveAt(w, i)
    BY <1>2 DEF DeleteWateringSchedule, TypeOK
  <2> HIDE DEF i
  <2>3. /\ DOMAIN w' = 1 .. Len(w) - 1 /\ DOMAIN w = 1 .. Len(w) /\ Len(w) \in Nat
        /\ i \in 1 .. Len(w)
        /\ \A j \in 1 .. Len(w) - 1 : w'[j] = IF j < i THEN w[j] ELSE w[j + 1]
    BY <2>1, <2>2, Removed
  <2>4. i \notin S
    <3>1. OpenEntries(n) = S
      BY InvertedIsSo DEF InvertedIs
    <3>. QED
      BY <2>2, <3>1 DEF DeletedOpen
  <2>5. \A j \in DOMAIN w' : at(j) \in DOMAIN w /\ at(j) # i /\ w'[j] = w[at(j)]
    BY <2>3
  <2>6. \A j, k \in DOMAIN w' : at(j) = at(k) => j = k
    BY <2>3
  <2>7. \A k \in DOMAIN w : k # i => \E j \in DOMAIN w' : at(j) = k
    <3> TAKE k \in DOMAIN w
    <3> HAVE k # i
    <3>1. CASE k < i
      BY <2>3, <3>1
    <3>2. CASE k > i
      <4>1. k - 1 \in DOMAIN w' /\ at(k - 1) = k
        BY <2>3, <3>2
      <4>. QED
        BY <4>1
    <3>. QED
      BY <2>3, <3>1, <3>2
  <2> HIDE DEF at
  <2>8. T \subseteq DOMAIN w' /\ S \subseteq DOMAIN w /\ \A j \in DOMAIN w' : j \in T <=> at(j) \in S
    BY <2>5 DEF OpenIn
  <2> HIDE DEF S, T
  <2>9. /\ f \in [T -> S]
        /\ \A j, k \in T : f[j] = f[k] => j = k
        /\ \A k \in S : \E j \in T : f[j] = k
    <3>1. f \in [T -> S]
      BY <2>8
    <3>2. \A j, k \in T : f[j] = f[k] => j = k
      BY <2>6, <2>8
    <3>3. \A k \in S : \E j \in T : f[j] = k
      BY <2>4, <2>7, <2>8
    <3>. QED
      BY <3>1, <3>2, <3>3
  <2>10. IsFiniteSet(S)
    BY <2>2, OpenFinite DEF S
  <2> HIDE DEF f
  <2>11. Cardinality(T) = Cardinality(S)
    BY <2>9, <2>10, AsMany
  <2>. QED
    BY <2>11 DEF S, T
<1>. QED
  BY <1>1, <1>2

(* Each step keeps a pump as it is against its entries, but for these.     *)
LEMMA InvertedStep ==
  ASSUME TypeOK, InvertedIs, InvertedIs', [Next]_vars, NEW n \in Nodes,
         up' = up, ~AddedOpen(n), ~DeletedOpen(n)
  PROVE  Inverted(n)' = Inverted(n)
<1> DEFINE S == OpenIn(watering_schedules, now, n)
           T == OpenIn(watering_schedules', now', n)
<1>1. SUFFICES OnAgainst(pump'[n], T) <=> OnAgainst(pump[n], S)
  <2>1. Inverted(n) = OnAgainst(pump[n], S)
    BY DEF InvertedIs
  <2>2. Inverted(n)' = OnAgainst(pump'[n], T)
    BY DEF InvertedIs
  <2>. QED
    BY <1>1, <2>1, <2>2 DEF OnAgainst
<1>2. CASE UNCHANGED <<watering_schedules, now, pump>>
  BY <1>2
<1>3. CASE UNCHANGED <<now, pump>> /\ Cardinality(T) = Cardinality(S)
  BY <1>3 DEF OnAgainst
<1>4. CASE Crash \/ Restart
  BY <1>4 DEF Crash, Restart
<1>5. CASE UNCHANGED vars \/ RequestFails \/ (\E s \in BagToSet(statements) : Execute(s))
           \/ \E t \in Tabs : \/ \E m \in Nodes : LoadPage(t, m)
                              \/ \E slot \in Slots : ClickAdd(t, slot)
                              \/ ClickDelete(t)
  <2>1. UNCHANGED <<watering_schedules, now, pump>>
    BY <1>5 DEF vars, RequestFails, Execute, LoadPage, ClickAdd, ClickDelete, UserActs
  <2>. QED
    BY <1>2, <2>1
<1>6. CASE \E r \in BagToSet(requests) : Handle(r)
  <2>1. PICK r : Handle(r)
    BY <1>6
  <2>2. r.row \in Row /\ UNCHANGED <<now, pump>>
    BY <2>1, HandleTypes DEF Edit, Handle
  <2>3. CASE AddWateringSchedule(r.row)
    BY <1>3, <2>2, <2>3, AddedOrKept
  <2>4. CASE DeleteWateringSchedule(r.row)
    BY <1>3, <2>2, <2>4, DeletedOrKept
  <2>. QED
    BY <2>1, <2>3, <2>4 DEF Handle
<1>7. CASE Tick
  BY <1>3, <1>7, TickKeepsOpen DEF Tick
<1>8. CASE \E i \in DOMAIN watering_schedules : StartJob(i) \/ EndJob(i)
  BY <1>8, JobKeepsInverted
<1>. QED
  BY <1>4, <1>5, <1>6, <1>7, <1>8 DEF Next

(* The jobs of a day leave a pump as they found it: only an open entry     *)
(* that is added or deleted, or a process that stops or starts, has the    *)
(* pump run at the wrong times (server.js:143-183, warned of in            *)
(* app.js:218).                                                            *)
THEOREM SchedulesInvertOnlyMidWindow == Spec => InvertedOnlyMidWindow
<1>1. TypeOK /\ InvertedIs /\ InvertedIs' /\ [Next]_vars
        => [\A n \in Nodes : Inverted(n)' # Inverted(n) =>
              up' # up \/ AddedOpen(n) \/ DeletedOpen(n)]_vars
  BY InvertedStep
<1>2. InvertedIs
  BY InvertedIsSo
<1>. QED
  BY <1>1, <1>2, ScheduleTypesHold, PTL DEF Spec, InvertedOnlyMidWindow

=============================================================================
