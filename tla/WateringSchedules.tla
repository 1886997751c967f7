-------------------------- MODULE WateringSchedules --------------------------
(***************************************************************************)
(* The fixed-time schedules: the pages of public/js/app.js that edit them, *)
(* the cron jobs that front/server.js keeps for them in memory, and the    *)
(* rows that front/db.js stores so that a restart finds them again.        *)
(*                                                                         *)
(* A job calls pump_toggle; module Backend says what becomes of the call,  *)
(* here it inverts `pump'.                                                 *)
(***************************************************************************)
EXTENDS Queues, FiniteSets, BagsExt, SequencesExt

CONSTANTS
    Nodes,
    Tabs,                \* browser tabs that may show the page of a plant
    Day,                 \* a day has so many seconds
    Slots,               \* the pairs of seconds users enter
    DbMayFail,           \* may a statement fail?
    Closed,              \* a tab without a page
    MaxEdits,            \* bound: clicks on the buttons and page loads
    MaxCrashes           \* bound: crashes of the process

(* The check in app.js:242 before a schedule is sent.                      *)
WellFormed(slot) == slot.begin < Day /\ slot.end < Day /\ slot.begin <= slot.end

ASSUME SchedulesAssumption ==
    /\ Day \in Nat \ {0}
    /\ Slots \subseteq [begin : Nat, end : Nat]
    /\ \A slot \in Slots : WellFormed(slot)
    /\ DbMayFail \in BOOLEAN
    /\ MaxEdits \in Nat /\ MaxCrashes \in Nat

VARIABLES
    up,                  \* is the process running?
    watering_schedules,  \* the entries in memory, with their two jobs
    plant_watering_schedules, \* the rows of the table
    statements,          \* bag of statements submitted and not yet executed
    requests,            \* bag of requests on their way
    pages,               \* what each tab lists
    now,                 \* the second of the day
    pump,                \* pump[n]: parity of the calls of pump_toggle
    fresh,               \* the tabs that list the rows, for all their users know
    smooth,              \* has no statement failed and no user been hasty?
    edits, crashes       \* how many of them there have been

tableVars == <<plant_watering_schedules, statements>>
pageVars == <<requests, pages, fresh, edits>>
vars == <<up, watering_schedules, tableVars, pageVars, now, pump, smooth, crashes>>

Row == [node : Nodes, slot : Slots]
Entry == [node : Nodes, slot : Slots, start_due : BOOLEAN, end_due : BOOLEAN]
Edit == [kind : {"add", "delete"}, row : Row]
Page == [node : Nodes, listed : Seq(Slots)]

TypeOK ==
    /\ up \in BOOLEAN
    /\ watering_schedules \in Seq(Entry)
    /\ plant_watering_schedules \in Seq(Row)
    /\ IsABag(statements) /\ DOMAIN statements \subseteq Edit
    /\ IsABag(requests) /\ DOMAIN requests \subseteq Edit
    /\ pages \in [Tabs -> Page \cup {Closed}]
    /\ now \in 0 .. Day - 1
    /\ pump \in [Nodes -> BOOLEAN]
    /\ fresh \subseteq Tabs /\ smooth \in BOOLEAN
    /\ edits \in 0 .. MaxEdits /\ crashes \in 0 .. MaxCrashes

Init ==
    /\ up = TRUE
    /\ watering_schedules = <<>> /\ plant_watering_schedules = <<>>
    /\ statements = EmptyBag /\ requests = EmptyBag
    /\ pages = [t \in Tabs |-> Closed]
    /\ now = 0
    /\ pump = [n \in Nodes |-> FALSE]
    /\ fresh = {} /\ smooth = TRUE
    /\ edits = 0 /\ crashes = 0

(***************************************************************************)
(* The page of a plant.  It lists the rows there were when it was loaded,  *)
(* and what was added and deleted in it since.  A hasty user edits before  *)
(* what was done before is answered, or in a page that has been overtaken: *)
(* by an edit in another tab, or by the loss of an edit that it shows.     *)
(***************************************************************************)
Waiting == requests # EmptyBag \/ statements # EmptyBag

(* Still fresh are the tabs with other plants, and tab t.                  *)
FreshBut(n) == {s \in fresh : pages[s].node # n}

Hurry(t) ==
    /\ smooth' = (smooth /\ ~Waiting /\ t \in fresh)
    /\ fresh' = FreshBut(pages[t].node) \cup (fresh \cap {t})

UserActs ==
    /\ edits < MaxEdits /\ edits' = edits + 1
    /\ UNCHANGED <<up, watering_schedules, tableVars, now, pump, crashes>>

Listed(n) ==
    LET rows == Only(plant_watering_schedules, [node : {n}, slot : Slots])
    IN  [i \in DOMAIN rows |-> rows[i].slot]

(* A select that fails is answered with 0, which the page takes for an     *)
(* empty list.                                                             *)
LoadPage(t, n) ==
    /\ UserActs /\ up
    /\ \/ /\ pages' = [pages EXCEPT ![t] = [node |-> n, listed |-> Listed(n)]]
          /\ fresh' = IF Waiting THEN fresh \ {t} ELSE fresh \cup {t}
       \/ /\ DbMayFail
          /\ pages' = [pages EXCEPT ![t] = [node |-> n, listed |-> <<>>]]
          /\ fresh' = fresh \ {t}
    /\ UNCHANGED <<requests, smooth>>

Request(kind, n, slot) ==
    requests' = BagAdd(requests, [kind |-> kind, row |-> [node |-> n, slot |-> slot]])

ClickAdd(t, slot) ==
    /\ UserActs
    /\ pages[t] # Closed /\ ~Contains(pages[t].listed, slot)
    /\ pages' = [pages EXCEPT ![t].listed = Append(@, slot)]
    /\ Request("add", pages[t].node, slot)
    /\ Hurry(t)

ClickDelete(t) ==
    /\ UserActs
    /\ pages[t] # Closed
    /\ \E i \in DOMAIN pages[t].listed :
          /\ pages' = [pages EXCEPT ![t].listed = RemoveAt(@, i)]
          /\ Request("delete", pages[t].node, pages[t].listed[i])
    /\ Hurry(t)

(* A process that is not running refuses the connection.                   *)
RequestFails ==
    /\ ~up
    /\ \E r \in BagToSet(requests) :
          /\ requests' = BagRemove(requests, r)
          /\ fresh' = FreshBut(r.row.node)
    /\ UNCHANGED <<up, watering_schedules, tableVars, pages, edits, now, pump, smooth, crashes>>

(***************************************************************************)
(* The handlers of the two requests: memory first, then the statement.     *)
(***************************************************************************)
(* Mutant: the entry does not say which plant it is for.                   *)
ScheduleOfNone(row) == [slot |-> row.slot, start_due |-> FALSE, end_due |-> FALSE]

Schedule(row) ==
    [node |-> row.node, slot |-> row.slot, start_due |-> FALSE, end_due |-> FALSE]

Of(row) == {i \in DOMAIN watering_schedules :
               /\ watering_schedules[i].node = row.node
               /\ watering_schedules[i].slot = row.slot}

FirstOf(row) == CHOOSE i \in Of(row) : \A j \in Of(row) : i <= j

AddWateringSchedule(row) ==
    watering_schedules' = Append(watering_schedules, Schedule(row))

DeleteWateringSchedule(row) ==
    watering_schedules' = IF Of(row) = {} THEN watering_schedules
                          ELSE RemoveAt(watering_schedules, FirstOf(row))

Handle(r) ==
    /\ up /\ BagIn(r, requests)
    /\ requests' = BagRemove(requests, r)
    /\ \/ r.kind = "add" /\ AddWateringSchedule(r.row)
       \/ r.kind = "delete" /\ DeleteWateringSchedule(r.row)
    /\ statements' = BagAdd(statements, r)
    /\ UNCHANGED <<up, plant_watering_schedules, pages, fresh, edits, now, pump, smooth, crashes>>

(* The statements of different requests execute in any order.              *)
InsertPlantWateringSchedule(row) ==
    plant_watering_schedules' = Append(plant_watering_schedules, row)

DeletePlantWateringSchedule(row) ==
    plant_watering_schedules' = Only(plant_watering_schedules, Row \ {row})

Execute(s) ==
    /\ BagIn(s, statements)
    /\ statements' = BagRemove(statements, s)
    /\ \/ s.kind = "add" /\ InsertPlantWateringSchedule(s.row) /\ UNCHANGED smooth
       \/ s.kind = "delete" /\ DeletePlantWateringSchedule(s.row) /\ UNCHANGED smooth
       \/ DbMayFail /\ UNCHANGED plant_watering_schedules /\ smooth' = FALSE
    /\ UNCHANGED <<up, watering_schedules, pageVars, now, pump, crashes>>

(***************************************************************************)
(* The jobs.  The clock does not run ahead of jobs that are due.           *)
(***************************************************************************)
NoneDue ==
    \A i \in DOMAIN watering_schedules :
        ~watering_schedules[i].start_due /\ ~watering_schedules[i].end_due

(* Mutant: the end job is created with the time of the start job.          *)
DueAtStart(entry, second) ==
    [entry EXCEPT !.start_due = entry.slot.begin = second,
                  !.end_due = entry.slot.begin = second]

Due(entry, second) ==
    [entry EXCEPT !.start_due = entry.slot.begin = second,
                  !.end_due = entry.slot.end = second]

Tick ==
    /\ NoneDue
    /\ now' = (now + 1) % Day
    /\ watering_schedules' = [i \in DOMAIN watering_schedules |->
                                 Due(watering_schedules[i], now')]
    /\ UNCHANGED <<up, tableVars, pageVars, pump, smooth, crashes>>

PumpToggle(n) == pump' = [pump EXCEPT ![n] = ~@]

StartJob(i) ==
    /\ watering_schedules[i].start_due
    /\ watering_schedules' = [watering_schedules EXCEPT ![i].start_due = FALSE]
    /\ PumpToggle(watering_schedules[i].node)
    /\ UNCHANGED <<up, tableVars, pageVars, now, smooth, crashes>>

EndJob(i) ==
    /\ watering_schedules[i].end_due
    /\ watering_schedules' = [watering_schedules EXCEPT ![i].end_due = FALSE]
    /\ PumpToggle(watering_schedules[i].node)
    /\ UNCHANGED <<up, tableVars, pageVars, now, smooth, crashes>>

(***************************************************************************)
(* Crash and restart.  Only the rows survive.  A restart whose select      *)
(* fails ends at once, since forEach has nothing to work on.               *)
(***************************************************************************)
Crash ==
    /\ up /\ crashes < MaxCrashes
    /\ up' = FALSE /\ crashes' = crashes + 1
    /\ watering_schedules' = <<>> /\ statements' = EmptyBag
    /\ fresh' = {s \in fresh : \A r \in BagToSet(statements) : pages[s].node # r.row.node}
    /\ UNCHANGED <<plant_watering_schedules, requests, pages, edits, now, pump, smooth>>

(* Mutant: the stored schedules are not loaded.                            *)
RestartEmpty ==
    /\ ~up /\ up' = TRUE
    /\ UNCHANGED <<watering_schedules, tableVars, pageVars, now, pump, smooth, crashes>>

Restart ==
    /\ ~up /\ up' = TRUE
    /\ watering_schedules' = [i \in DOMAIN plant_watering_schedules |->
                                 Schedule(plant_watering_schedules[i])]
    /\ UNCHANGED <<tableVars, pageVars, now, pump, smooth, crashes>>

Next ==
    \/ \E t \in Tabs :
         \/ \E n \in Nodes : LoadPage(t, n)
         \/ \E slot \in Slots : ClickAdd(t, slot)
         \/ ClickDelete(t)
    \/ RequestFails
    \/ \E r \in BagToSet(requests) : Handle(r)
    \/ \E s \in BagToSet(statements) : Execute(s)
    \/ Tick
    \/ \E i \in DOMAIN watering_schedules : StartJob(i) \/ EndJob(i)
    \/ Crash \/ Restart

Spec == Init /\ [][Next]_vars

(***************************************************************************)
(* Properties.                                                             *)
(***************************************************************************)
(* If no statement has failed, and no user was hasty: when nothing is in   *)
(* progress the jobs in memory are those of the rows, as many for each,    *)
(* whenever the process has crashed (server.js:143-183, 342-362;           *)
(* report.tex:299).                                                        *)
Stored(row) == {i \in DOMAIN plant_watering_schedules : plant_watering_schedules[i] = row}

JobsAreStored ==
    up /\ smooth /\ ~Waiting =>
        \A row \in Row : Cardinality(Of(row)) = Cardinality(Stored(row))

(* An entry is open while its start job has run and its end job has not,   *)
(* going by the time of day.                                               *)
Between(entry) == entry.slot.begin <= now /\ now < entry.slot.end
Open(entry) == (Between(entry) # entry.start_due) # entry.end_due

(* The pump should be on if the open entries are odd in number: entries    *)
(* that overlap cancel each other.                                         *)
OpenEntries(n) ==
    {i \in DOMAIN watering_schedules :
        watering_schedules[i].node = n /\ Open(watering_schedules[i])}

Inverted(n) == pump[n] # (Cardinality(OpenEntries(n)) % 2 = 1)

(* The jobs of a day leave the pump as they found it: it comes to run at   *)
(* the wrong times only when an open entry is added or deleted, or the     *)
(* process stops or starts (server.js:143-183, warned of in app.js:218).   *)
AddedOpen(n) ==
    /\ Len(watering_schedules') = Len(watering_schedules) + 1
    /\ Open(Last(watering_schedules'))
    /\ Last(watering_schedules').node = n

DeletedOpen(n) ==
    \E i \in OpenEntries(n) : watering_schedules' = RemoveAt(watering_schedules, i)

InvertedOnlyMidWindow ==
    [][\A n \in Nodes :
          Inverted(n)' # Inverted(n) =>
              up' # up \/ AddedOpen(n) \/ DeletedOpen(n)]_vars

=============================================================================
