------------------------------- MODULE Startup -------------------------------
(***************************************************************************)
(* The backend from its start until it listens: db.init of front/db.js and *)
(* the last function of front/server.js.  The database is a file with      *)
(* three tables; what they hold is in PlantDb and WateringSchedules.       *)
(***************************************************************************)
EXTENDS Naturals, Sequences

CONSTANT Budget          \* bound: how often each kind of outside event happens

Event == {"crash", "error", "delete", "visit", "cut", "any"}   \* "any": all together

ASSUME StartupAssumption == Budget \in [Event -> Nat]

VARIABLES
    phase,               \* what the process is doing
    file,                \* is there a database file?
    tables,              \* the tables in it
    left                 \* how many of each outside event may still happen

startupVars == <<phase, file, tables, left>>

Phase == {"down", "opening", "creating", "tables", "loading", "listening", "stuck"}

(* The tables in the order of their creation.                              *)
Table == <<"plant_nodes", "plant_humidities", "plant_watering_schedules">>
AllTables == {Table[i] : i \in DOMAIN Table}

StartupTypeOK ==
    /\ phase \in Phase
    /\ file \in BOOLEAN
    /\ tables \in SUBSET AllTables
    /\ left \in [Event -> Nat]

StartupInit ==
    /\ phase = "down"
    /\ file = FALSE /\ tables = {}
    /\ left = Budget

Spend(event) ==
    /\ left[event] > 0 /\ left["any"] > 0
    /\ left' = [left EXCEPT ![event] = @ - 1, !["any"] = @ - 1]

(* Each step of the startup succeeds, or an error ends or blocks it.       *)
Proceed(from, to) ==
    phase = from /\ phase' = to /\ UNCHANGED left

Fail(from, to) ==
    /\ phase = from /\ phase' = to /\ Spend("error")
    /\ UNCHANGED <<file, tables>>

Start == Proceed("down", "opening") /\ UNCHANGED <<file, tables>>

(* Mutant: a missing file is treated like any other error.                 *)
OpenOrDie ==
    \/ file /\ Proceed("opening", "loading") /\ UNCHANGED <<file, tables>>
    \/ ~file /\ Proceed("opening", "down") /\ UNCHANGED <<file, tables>>
    \/ Fail("opening", "down")

(* Tables are only looked after if the file cannot be opened.  On another  *)
(* error the callback calls exit, which is not defined, and ends that way. *)
Open ==
    \/ file /\ Proceed("opening", "loading") /\ UNCHANGED <<file, tables>>
    \/ ~file /\ Proceed("opening", "creating") /\ UNCHANGED <<file, tables>>
    \/ Fail("opening", "down")

CreateDb ==
    \/ Proceed("creating", "tables") /\ file' = TRUE /\ UNCHANGED tables
    \/ Fail("creating", "down")

(* The promise of a table whose statement fails is never resolved.         *)
CreateTable ==
    \/ \E i \in DOMAIN Table :
         /\ tables = {Table[j] : j \in 1 .. i - 1}
         /\ tables' = tables \cup {Table[i]}
         /\ Proceed("tables", IF i = Len(Table) THEN "loading" ELSE "tables")
         /\ UNCHANGED file
    \/ Fail("tables", "stuck")

(* The schedules are selected from two of the tables.                      *)
select_plant_watering_schedules ==
    {"plant_nodes", "plant_watering_schedules"} \subseteq tables

(* Mutant: the result of a failed select is taken for an empty list.       *)
LoadWhatThereIs ==
    \/ Proceed("loading", "listening") /\ UNCHANGED <<file, tables>>
    \/ Fail("loading", "listening")

(* A failed select yields 0, and forEach on it ends the process.           *)
LoadSchedules ==
    \/ /\ Proceed("loading", IF select_plant_watering_schedules THEN "listening" ELSE "down")
       /\ UNCHANGED <<file, tables>>
    \/ Fail("loading", "down")

(* A stuck process is stopped, or ends for want of anything to wait for.   *)
GiveUp == Proceed("stuck", "down") /\ UNCHANGED <<file, tables>>

Stop ==
    /\ phase # "down" /\ phase' = "down" /\ Spend("crash")
    /\ UNCHANGED <<file, tables>>

(* What README.md:71 of the repository advises after a stop.               *)
DeleteDatabase ==
    /\ phase = "down" /\ file
    /\ file' = FALSE /\ tables' = {}
    /\ Spend("delete")
    /\ UNCHANGED phase

StartupStep == Open \/ CreateDb \/ CreateTable \/ LoadSchedules

(***************************************************************************)
(* Properties.                                                             *)
(***************************************************************************)
(* A backend that listens has all three tables, whatever crashed while     *)
(* they were made: they are made in order, and the startup needs the last  *)
(* one (db.js:35-67, 71-84; server.js:339-371).                            *)
ServesWithTables == phase = "listening" => tables = AllTables

(* The file of a crash between CreateDb and the last CreateTable is there  *)
(* for good, as a file that can be opened gets no tables.                  *)
Torn == file /\ tables # AllTables /\ phase # "tables"

(* A backend that is started whenever it has ended comes to listen, unless *)
(* it is stuck or a crash has left a torn file (db.js:10-22, 71-84).       *)
ServesInTheEnd ==
    []<>(phase # "down") =>
        \/ []<>(phase = "listening")
        \/ <>[]Torn
        \/ <>[](phase = "stuck")

=============================================================================
