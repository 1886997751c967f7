# A verification of lattice-watering

lattice-watering waters plants: node boards (RIOT, C) measure soil humidity and
switch a pump, a Node.js process stores what they report in SQLite, serves a
website, and commands the boards over CoAP; a Rust proxy ends the DTLS sessions
of the boards. This directory holds TLA+ models of the parts, TLC
configurations that check them on small instances, and proofs, checked by
TLAPS, of the safety properties that matter most.

Run a check with `tlc -workers 2 -config failures.cfg MCLatticeWatering.tla`, a
proof with `tlapm LatticeWatering_proofs.tla`. `PROJECT.json` maps every
definition to the lines it models and lists runs, mutants, hazards, findings and
theorems.

## The system

| Part | State it keeps | Operations | Talks to |
| --- | --- | --- | --- |
| Node firmware `fw/main.c` | pump flag, dry and wet value; nothing persists | `data_thread` posts `/data` every five seconds; handlers of `/pump_toggle` and `/calibrate_sensor`; shell; watchdog | proxy, by CoAP over DTLS, non-confirmable |
| Border router `br/main.c` | none of its own | set-up | routes the packets of the boards |
| Proxy `proxy/src/main.rs` | `sessions` (at most 16, never freed), peers of tinydtls | one loop, polling the DTLS socket, then the backend socket, every 16 ms | boards, backend |
| Backend `front/server.js` | `current_threshold_watering_jobs`, thresholding loops, `watering_schedules` with their cron jobs; lost with the process | forms of the website, CoAP handler of `/data`, timers | database, proxy, website |
| Database `front/db.js` | `plant_nodes`, `plant_humidities`, `plant_watering_schedules`; persist | asynchronous statements, `init` | backend |
| Website `front/public/js/app.js`, `views/` | what a tab lists and shows, its refresh loop | pages, edits of schedules, refresh loops, the chart file `mychart.png` all pages share | backend, by HTTP |

### What is hard about it

* **Interleaving at awaits.** Every backend operation reads a row, awaits, and
  writes back *all* of its columns; several are not awaited at all. Reports,
  users, timers and thresholding loops interleave between any two awaits.
* **Two copies of one truth.** The row and the board both hold the pump state
  and the calibration. The only pump command is "invert", messages may be lost,
  and a report may cross a command on its way.
* **Memory against tables.** Schedules and thresholding loops live in memory;
  rows, and pumps left on, outlive a crash.
* **Errors.** A failing statement resolves all the same; an undefined row
  or reading is a TypeError that ends the process.
* **A start in several steps.** File and tables are made one after the other,
  only if the file is missing; each step may fail, or be the last before a crash.
* **Loops that end silently.** A page refreshes itself through timers set after an
  await; whatever throws before the timer ends the loop.
* **Threads of two priorities.** On a board the shell can be preempted while it
  holds a mutex that the request handlers and `data_thread` need.
* **Bounded sessions.** The proxy never frees a session; boards boot again and
  need new keys.

What makes each part correct:

* Firmware and backend together: row and board agree about pump and
  calibration, or come to agree; faults are the only reasons why they should not.
* Backend: no await ends the process; no plant is acted on that is not known;
  no plant has two loops; loops end; a plant that reports gets listed.
* Database and schedules: what is stored is what is in force.
* Startup and website: the backend serves with complete tables or not at all, no
  page ends it, and open pages come to show what is in the database.
* Board: each command is one step to everybody else, reports go on, and a frozen
  board is reset.
* Proxy: right addressee, no duplicates, order kept, boards connect.

## The modules

| Module | Models | Notes |
| --- | --- | --- |
| `Plants` | reports and commands | a pair of dry and wet value is one value, a calibration; the network statistics in a report are never stored and are left out |
| `PlantDb` | `plant_nodes`, `plant_humidities` and their statements | a statement is atomic and executes some time after the call; only the newest reading is kept; `NoRow` and `NoReading` are the `undefined` of an empty result; the timeout column only sets the length of a pause and is left out |
| `Backend` | the Node.js process | see below |
| `Firmware` | pump, calibration, handlers, report, reset | one handler is one step |
| `LatticeWatering` | the closed loop: `Backend`, `Firmware` and the messages between them | states the system's properties and fairness |
| `Relay` | what the proxy promises | abstract specification |
| `Proxy` | the loop of `main.rs` with its sockets and callbacks, and the boards' sessions | implements `Relay` under a refinement mapping |
| `WateringSchedules` | the schedules: tabs, request handlers, cron jobs, rows, crash and restart | its call of `pump_toggle` is the action `ScheduleFires` of `Backend` |
| `Startup` | `db.init`, creation of file and tables, loading of schedules, and what outside can do to the process | one action per step of the startup; the states of the process are those between two awaits |
| `Website` | the pages, their refresh loops, the requests that answer them, and the chart file; extends `Startup` and `PlantDb` | see below |
| `SoilSensor` | the arithmetic of `soil_read` | no state |
| `Board` | the threads of one board, mutexes, RIOT's run queue, watchdog | implements the steps of `Firmware` |
| `Queues` | membership, repetitions, order and restriction of a sequence | used by `Proxy`, `Board` and `WateringSchedules` |
| `MC*` | constants for TLC | no properties |
| `*_proofs` | theorems about the module they are named after; `LatticeWatering_pump_proofs` those about the pump, `Queues_proofs` lemmas about queues and induction over finite sets and intervals | |

### How the backend is cut into actions

JavaScript runs to completion between awaits. `calls` is a bag of what is in
progress, one element for each suspended activation or un-awaited statement with
the values it has captured; a step takes one out and puts its continuations in.
`pump_toggle`, for example, is

    ToggleSelect -> PumpToggleSelect -> ToggleChange(row inverted)
                 -> PumpToggleChange -> ToggleSend -> PumpToggleSend

one action at the moment each statement executes, and one for the rest. The row
captured at the select is in the element of the bag, which is how stale writes
come about in the model as in the code. `calibrate_sensor` and
`configure_thresholding` do not await their write: it becomes an element of its
own (`ChangeNode`), which may execute before or after anything else. The `/data`
handler awaits its select (`DataConfiguration`), then either registers the plant
(`DataRegister`) or, in one step (`DataUpdate`), stores the reading, toggles
again, calibrates again and starts a loop. A loop is an element of `jobs` that
sleeps while watering, awaits its select, or pauses. A rejection is `Die`, and
is distinguished from a stop from outside, `Crash`, by the budget that pays for
the latter. How long a sleep lasts is left open.

Boards and backend are joined by `uplink`, a bag of reports, and `downlink`, a
count for each command on its way to each board: UDP loses and reorders, DTLS
removes duplicates, and nothing in the code retransmits.

### How the proxy is modelled

`polling` says which half of the turn of the loop comes next. `DtlsRefuse` is the
`continue` that skips the backend socket when no session is to be had. tinydtls
is external: a handshake is one datagram after which proxy and board hold the
same key, unless the board has booted in between or its last flight is lost; a
record or a command under a key the other side does not hold is dropped. The
refinement mapping takes the posts of a board still in the DTLS socket, and the
commands for it still in the backend socket, for the relay's queues.

### How schedules are modelled

A schedule is a pair of seconds of a short day; the clock waits for jobs that
are due. A tab lists the rows there were when its page was loaded, plus what was
added and minus what was deleted in it. A request changes memory in one step and
submits its statement, which executes in any order with others, or fails. Only
rows survive a crash.

Jobs and rows do not agree whatever users do, so `JobsAreStored` says for which
of them it holds. Two history variables record it. `fresh` is the set of tabs whose
page shows the rows as far as their user can know: loaded while nothing was under
way, and overtaken neither by an edit of the same plant in another tab nor by the
loss of one, to a crash or to a process that is down. `smooth` says that no
statement has failed and nobody has clicked before the last answer or in a page
that is not fresh. Without the second half of this the property is false, even
with one tab: load a page, add a schedule, delete it, lose that request to a
crash, and add the schedule again in the page that no longer shows it. It now has two
rows and two jobs, of which the next delete removes both rows and one job. That
takes five edits, so a run with a smaller bound does not show it.

### How the website is modelled

A tab is closed or has a page: the overview or that of a plant, what the page is
waiting for (`at`), the readings it shows and whose chart picture it has loaded. A
page waits for one answer at a time, and an answer reaches it in the step that
makes it; what can go wrong in between is a cut connection (`FetchCut`) or the end
of the process, which fails every outstanding fetch (`LoseAll`). `AfterFailure`
and `AfterCut` say what a page does then, and are read off the `await`s of
`app.js`: the overview and a page being built end with an uncaught rejection; the
loop of a plant's page ignores a failed chart, and goes on after a refused answer
because its catch sets a timer before `res.json` throws on `undefined`; but an
answer that breaks off after its headers ends it. That is one way for the
chart to stop refreshing, which README.md:70 of the repository reports. A chart
drawn for a page that has been left stays in `strays` and is still written. Of a
request left behind only the drawing of a chart has an effect that outlives it;
the others are forgotten with their page. "Refresh Show Plants" starts the loop
anew; on a page whose loop goes on a second loop repeats what the first does and
is left out. Statements that fail are events of `Budget` here, so `DbMayFail` is
`FALSE`. Reports reach the tables as their two statements, in either order; what
else they set off is in `Backend`.

The process has a `phase`. `Startup` shows two traps: a table whose statement fails
leaves the process waiting for ever ("stuck"), and a crash between the creation
of the file and of the last table leaves a file that can be opened and therefore
never gets its tables ("torn"): each later start ends at the first select. If
the database is deleted, as README.md:71 of the repository advises, while
a plant's page is open, the page's next request is for a plant without a row
and ends the process; the retries of that page end each restart that comes before
the plant has reported.

### How a board is modelled

`data_thread`, `wdt_thread` and the thread of gcoap have priority
`THREAD_PRIORITY_MAIN - 1`, the shell `THREAD_PRIORITY_MAIN`. `runqueue` holds
the ready ones among the first three and its head runs until it blocks or sleeps;
the shell runs when the queue is empty, and may be preempted between any two
steps. A mutex is the sequence of the thread that holds it and those that wait;
unlocking hands it to the next. One step of `Timer` is five seconds, the period of
`data_thread` and of the kicks; the watchdog reboots at the second without a kick.
Only a thread that spins keeps the others from running that long; a
hang is an external fault. The refinement maps the flag to the flag and the pair
of values to the pair a calibration is about to complete. `waited` is a history
variable. A shell command with too few arguments, which reads past `argv`, is left
out.

What the watchdog does not catch, contrary to what a reader of report.tex:407 may
expect: a thread that blocks, and a shell that spins, even if it holds a mutex
and all other threads but `wdt_thread` wait for it.

## What is checked

"pass" means TLC explores the whole state space; each property has a mutant of
one mapped definition, a bug that is plausible there, under which TLC finds it
violated.

| Run | Properties | Shows |
| --- | --- | --- |
| `failures` | `KnownPlants`, `MismatchOnlyFromFaults` | with statements that fail at any time and every kind of fault, nothing acts on an unregistered plant, and row and board part only by a fault or a stale write |
| `plants` | `TypeOK`, `JobBookkeeping`, `LoopHasReading`, `StopsOnlyWhenStopped` | two plants and two loops: as many plants listed as loops run, none twice, although `Array.pop` removes the wrong one; no await ends the process |
| `recovery` | `CalibrationConverges`, `EventuallyListed` | after a loss, a reset and a crash the calibrations of row and board end up equal; a plant that reports appears on the website though its first reading may be stored before its row |
| `stops` | `WateringStops` | no loop goes on for ever with the newest reading at its target |
| `proxy` | `TypeOK`, `SessionsOK`, `Relays`, `BoardsConnect` | the proxy implements `Relay`; one session per address; a board gets connected unless all sessions are taken |
| `schedules` | `TypeOK`, `JobsAreStored`, `InvertedOnlyMidWindow` | for users who wait for answers and edit fresh pages, jobs and rows agree at rest; the jobs invert the pump only if an open schedule is edited or the process stops or starts |
| `website` | `TypeOK`, `ServesWithTables`, `PagesDoNotStopIt`, `ServesInTheEnd`, `ShowsNewest`, `ChartIsOfPlant` | whoever listens has all tables; pages end the process only after a deletion of the database, although the handler of a plant's page throws for a plant without a reading; a backend that is started again and again comes to listen unless torn or stuck; pages come to show the newest readings; charts of other plants still being drawn do not stay |
| `board` | `TypeOK`, `PumpPinsAgree`, `ReportsAreSnapshots`, `HumidityInRange`, `FrozenIsReset`, `ReportsGoOn`, `ImplementsFirmware` | commands are atomic as `Firmware` takes them to be; a report is of one moment, except that its humidity may be older than its calibration if a shell command was in progress; a sample between the wet and the dry value is reported as a percentage and one well beyond them as none; no mutex stops the reports; a spinning thread is reset and the pump turned off |

Four runs show a disagreement between the code and what its documentation, or
the code itself, says:

| Run | Property | What happens |
| --- | --- | --- |
| `status_report` | `StatusFollowsReports` | a toggle command is lost; each later report makes the backend invert the row *and* command the board to invert, so that they stay opposed for ever |
| `status_schedules` | `StatusPersisted` | without any fault, two timers in the same second both read the row before either writes: the row flips once, the board twice |
| `bursts` | `BurstsEnd` | a report made before the command of a burst arrived is answered with a toggle of its own; the pump runs on when the loop has ended |
| `listed_watered` | `ListedIsWatered` | `Array.pop(index)` removes another plant; the finished one stays listed without a loop and is not watered until the other loop has ended, which removes it |

Two consequences of the same lines that no run repeats: a pump toggle that read
the row before `configure_thresholding` wrote it writes the old thresholds back,
the same lost update as in `status_schedules`; and a schedule added between
its begin and its end turns the pump on at its end, which `InvertedOnlyMidWindow`
allows by name (`AddedOpen`).

### Bounds, and why they are enough

* **Nodes.** One board where only one matters to a property; two where plants
  share something, which is `current_threshold_watering_jobs` and its `pop`;
  three boards for two sessions in the proxy, so that one is refused. The real
  limit of 16 sessions is a constant.
* **Humidities** {10, 60} and thresholds -50000/60 (the default) and 20/60: each
  reading is below or at each threshold that decides something.
* **`MaxCalls`** (1 or 2). Nothing new starts once so many activations are
  in progress, but those that run may fork: a report alone gives rise to three,
  which is where the interleavings come from. Two are needed for two timers
  in the same second.
* **`MaxInFlight`, `MaxUplink`** 1: one copy of a command and one report on
  their way; a report already overtakes or is overtaken by a command.
* **`Budget`**: how often each outside event may happen in a behaviour (toggle,
  calibrate, configure, schedule, crash, loss, reset, shell), in most cases once
  each, in any order. Reports are not bounded in number, only at one time.
* **Proxy**: `SocketBuffer` 2, one reset, one lost flight, two posts, one command.
* **Schedules**: two plants, two tabs, a day of three seconds with slots that
  overlap and one that has length zero; five clicks and page loads, one crash. Two
  loads and two clicks make one tab overtake the other; five edits hold the
  counterexample above.
* **Website**: two tabs, two plants, two readings; at most four outside events
  ("any") out of four visits, a crash, an error, a deletion and a cut connection. Four
  visits put two tabs on the pages of two plants; two put a tab on a page and leave
  two faults.
* **Board**: two requests, two shell commands, one hang, one power cut; two
  calibrations and soil that is soaked, in between and drier than the dry value.
  Timers and reports go on for ever.
* **Symmetry** is used in `plants` (plants and loops) and `schedules` (plants and
  tabs), which have no liveness property.

The theorems below hold for all values of these bounds.

### Fairness, and why the code justifies it

* A continuation that is ready runs and a submitted statement executes: weak
  fairness on each backend step, from the event loop of Node.js and sqlite's
  thread pool.
* A board posts again and again (`data_thread` is an endless loop with a sleep):
  weak fairness. What the network does not lose is delivered; losses are paid
  from the budget, so they are finitely many. Delivery of reports and steps of
  loops have strong fairness only because `MaxCalls` may disable them again and
  again, which the program, having no such bound, does not.
* No fairness for users, crashes, resets, losses or the restart: someone must
  start the process, and liveness properties are stated under `<>[]up` or
  `[]<>up`.
* `ReportsApart`, an assumption in two liveness properties: from some point on a
  board posts only after the last report has been dealt with. Reports are five
  seconds apart and a round trip takes milliseconds. It is needed: with
  reports and writes in flight together an old row can be written over a new one
  each time round.
* Website: weak fairness for a step of the startup, for the answer, refusal or timer
  a tab waits for, and for a chart being drawn: all are steps of event loops that
  nothing disables. None for starting the process, users, reports and faults;
  liveness is stated for a backend that goes on listening, or is
  started again and again.
* Board: weak fairness for each thread of higher priority, which runs once it is first in the
  queue, and for the timer; strong fairness for the shell, which
  is put off again and again although five seconds hold many of its steps.
* The proxy's loop turns for ever (weak fairness); a board without a key
  asks for one at each post and again and again finds room in the socket
  (strong fairness). Boards are five seconds apart and the loop takes a
  datagram every 16 ms.

## What is proved

All theorems hold for any finite set of loop names, any nodes, tabs, calibrations,
thresholds, slots, budgets and bounds that satisfy the named assumptions of the
modules. Every invariant and every safety property of a passing run is among them.
The assumptions are what the code gives: defaults are values like others, markers such
as `NoRow` are not data, bounds are numbers, a humidity is a byte, no reading is
below the default threshold, a slot is as `app.js` lets it pass, and calibrations
are small enough for the 32-bit product of `soil_read`.

| Module | Theorem | States |
| --- | --- | --- |
| `LatticeWatering_proofs` | `TypeCorrect` | `Spec => []TypeOK` |
| | `Bookkeeping` | `Spec => []JobBookkeeping` |
| | `LoopsBounded` | with finitely many plants, never more loops than plants |
| | `Known` | `Spec => []KnownPlants` |
| | `Readings` | `Spec => []LoopHasReading` |
| | `Stops` | if statements do not fail, `Spec => StopsOnlyWhenStopped` |
| `LatticeWatering_pump_proofs` | `Pumps` | `Spec => MismatchOnlyFromFaults` |
| `Proxy_proofs` | `ProxyTypes`, `Sessions` | `Spec => []TypeOK`, `Spec => []SessionsOK` |
| | `ProxyIsRelay` | `Spec => Relays`: `Proxy` implements `Relay` |
| `WateringSchedules_proofs` | `ScheduleTypesHold` | `Spec => []TypeOK` |
| | `SchedulesAreStored` | `Spec => []JobsAreStored` |
| | `SchedulesInvertOnlyMidWindow` | `Spec => InvertedOnlyMidWindow` |
| `Website_proofs` | `WebsiteTypes` | `Spec => []TypeOK` |
| | `TablesWhenServing` | `Spec => []ServesWithTables` |
| | `PagesAreHarmless` | `Spec => PagesDoNotStopIt` |
| | `TornForGood` | a torn database stays torn until it is deleted |
| `Board_proofs` | `BoardTypes` | `Spec => []TypeOK` |
| | `Percentages` | `Spec => []HumidityInRange` |
| | `PinsFollowFlag` | `Spec => []PumpPinsAgree` |
| | `HoldersGoOn` | whoever holds a mutex neither waits nor sleeps: no circle of threads that wait |
| | `ReportsAgree` | `Spec => []ReportsAreSnapshots` |
| | `BoardImplementsFirmware` | `Spec => ImplementsFirmware`: `Board` implements the steps of `Firmware` |
| `SoilSensor_proofs` | `InRange`, `DrierReadsDrier`, `TooDryIsNone`, `TooWetIsNone` | what `soil_read` returns for every calibration: a percentage between wet and dry, monotone there; 101 to 255 beyond either, from a hundredth of the range up to 156 |

### The backend and the boards

* **Types.** Most of the work is that bags stay bags of typed elements: lemmas
  about one element, sums and removal lead to `CallsStep` and `CallsStart`,
  which every action cites.
* **`JobBookkeeping`** is inductive together with `TypeOK`. A loop starts only
  for a plant that is not listed, so a name that was free becomes running and
  the sequence stays injective; a loop that ends makes one name free and
  `Front` shortens the sequence by one, whichever plant it drops. That only the
  *number* is right, and not *which* plants are listed, is the violation
  `ListedIsWatered`.
* **`KnownPlants`** says that nothing acts on a plant the database does not know,
  and is the inductive strengthening of `LoopHasReading`, which asks why no
  loop can start before the plant's first reading is in the table, although the
  row and the reading are inserted by two statements nobody awaits. The
  answer goes through three parts of the code: rows and readings are never
  deleted; only a plant with a reading is on the website, so only such a plant
  can get thresholds other than the default; and the default threshold is below
  every reading. `KnownPlants` therefore says of all that is in progress for a
  plant that is not yet listed that it carries the default thresholds. The
  assumption used is `PlantDbAssumption` (the default bottom is at most every
  humidity), from `change_plant_node`'s default arguments.
* **`Stops`** is an action property, from `KnownPlants`: a select finds the row
  and a loop its reading, so `Die` is only part of `Crash`.
* **`Pumps`** needs the parity of toggles: prepared ones plus those in flight.
  A step either flips the row and adds a toggle, or moves a toggle from the bag
  to the network, or takes it and flips the board; lemmas say for each action
  which of the row, the board and the count it changes.
* **`LoopsBounded`** adds to `Bookkeeping` that a sequence without repetitions is
  no longer than its range has elements. It is what remains true of loops and
  plants after `Array.pop` has removed the wrong entry: one plant may have two loops
  and another, still listed, none.

### The proxy

* **`Sessions`** is inductive with the proxy's types: a session is created only
  if none has the address and there is room, and tinydtls is only called
  with a session.
* **`ProxyIsRelay`** maps each step to a step of `Relay` or a stutter. The relay's
  queues are the datagrams of the two sockets that concern one board, in order, so
  the lemmas say how that restriction (`Only` and `ThePost`, `TheCommand`) changes
  when a datagram is appended or the first one taken. A record under an old key maps to
  the relay's loss of a post, a command without a session or with a key the
  board has lost to the loss of a command.

### The board

* **Who holds a mutex** (`LockInv`). A thread is in the queue of a mutex exactly
  if its next step is in that critical section; no queue holds it twice; the run
  queue holds exactly the threads of higher priority that are neither asleep nor waiting;
  and in the middle of a toggle or a calibration a thread is first in
  the queue. `LockQueues` and `UnlockQueues` carry this through RIOT's lock and
  unlock, with the hand-over to the first that waits. `HoldersGoOn` is read off it:
  the critical sections do not nest.
* **`PinsFollowFlag`** adds to `LockInv` that the pins are ahead of the flag exactly
  while a toggle is between its writes, and only one thread can be there.
* **`BoardImplementsFirmware`** adds that the two values are as a calibration left
  them unless one is between its writes (`ValuesOK`). A toggle maps to its last write,
  the flag, and a calibration to its first, since the mapping completes the
  pair; both are steps of `Firmware` because no other command of the same kind
  is under way. A reset is `Firmware`'s reset in any state.
* **`ReportsAgree`** needs the order of the run queue. While `data_thread` writes a
  report, only a thread in front of it, or one that holds the mutex it waits for, can
  run (`DataIsNext`): gcoap's thread, or the shell if it was put off inside a critical
  section. `ReportOK` says, for each step of `data_thread`, which parts of the
  report are already those of the board and which steps of the others are over.
* **`Percentages`** rests on a lemma about `soil_read`: with a negative divisor and
  C's rounding towards zero the result is `((dry - m) * 100) \div (dry - wet)`, and
  the bounds follow from those of a quotient, also of one cut to eight bits. Its invariant adds the types of
  what a report is made from. A reading belongs to the calibration it was taken
  under (`report.under`), whatever calibration arrives before it is sent.
* **`BoardTypes`** collects these: where a thread can be is part of `LockInv`, the
  values come from `ValuesOK`, and the rest (`RestTypeOK`) says that the humidity of
  a report is a byte whatever `soil_read` is given.
* **`TooDryIsNone`** and **`TooWetIsNone`** are the other half of `HumidityInRange`:
  the percentage of soil drier than the dry value is negative, and its last eight
  bits are large. Such a byte is not a percentage, so that a bad calibration can be
  told from a reading; but `Backend` does not look, and sees a plant that has
  reached its target. Neither says anything from 156 hundredths on, where the byte wraps
  around into the percentages, nor of two equal values, which divide by zero.

### The website

* **`TablesWhenServing`**: the tables are always a prefix of `Table`
  (`TablesInOrder`), whatever fails, and a process that listens has seen the
  select of the last of them succeed.
* **`TornForGood`**: files are created only where there is none (`CreatedOnce`), so
  that nothing adds the missing tables to a file that can be opened; only deleting
  it helps, which is the advice of README.md:71 of the repository.
* **`PagesAreHarmless`**: unless the database has been deleted, each page, and each
  link on it, is for a plant with a row and a reading (`LinksInv`). It holds
  because `select_plant_infos` joins the two tables and because neither shrinks.

### The schedules

* **`SchedulesAreStored`** (`StoreInv`). A process that does not run has no entries
  and no statements. As long as users and statements are `smooth`, no row and no
  entry is there twice, and at most one edit is under way, which is in one of three
  states: none (`Quiet`), the request is sent (`Sent`), or memory has been changed
  and the row not yet (`Handled`). In each the rows, the entries and the
  fresh pages are told apart by that one edit (`After`). The property follows
  from `Quiet`. A crash in `Handled` takes the statement and makes the pages that show
  the edit stale, which is why `fresh` is needed.
* **`SchedulesInvertOnlyMidWindow`** is a parity argument: the clock opens and
  closes no entry, because the flag of a job that becomes due makes up for it
  (`TickKeepsOpen`); a job changes one entry and the pump of the same
  plant (`JobFlips`); adding or deleting an entry that is not open changes
  no count.
* The lemmas on `Only`, a recursive function, are by induction over a set of
  numbers (`SetInduction`), which stays first-order.

### Only model-checked

The liveness properties: `CalibrationConverges`, `EventuallyListed`,
`WateringStops`, `BoardsConnect`, `ServesInTheEnd`, `ShowsNewest`, `ChartIsOfPlant`,
`FrozenIsReset` and `ReportsGoOn`. TLAPS reasons about neither fairness nor `ENABLED`.
The four disagreements above are counterexamples and need no proof.

## What is not modelled, and known limits

* Forms that are malformed are never answered and change nothing; CoAP packets or
  CBOR that no part of the system sends are left out. HTTP, rendering, the clock
  on the pages and the chart's contents are out, and so is `plant_chart` of `app.js`,
  which nothing calls.
* In `LatticeWatering` a report takes the board's state in one step, and its humidity is any of
  a small set; `Board` shows what the first leaves out (`ReportsAreSnapshots`),
  `SoilSensor` the second. Overflow of the 32-bit product is excluded by
  `BoardAssumption`, equal dry and wet values (an undefined division) by the
  calibrations of the run.
* The proxy does not crash; a crash would empty `sessions`, and boards would keep
  keys the proxy no longer has until they reset or renegotiate, which is
  up to tinydtls.
* `DtlsRefuse` may starve the backend socket only if datagrams of refused boards
  arrive faster than the loop turns; no property says how fast.
* `JobsAreStored` is stated for users who wait for answers and edit fresh pages. Two
  tabs that have not seen each other's edits add a schedule twice; a delete then
  cancels one job and deletes both rows. A user who deletes a schedule before the
  answer to its adding can have the delete executed first. The repository's README
  warns that jobs and database get out of step. After an insert or delete that
  fails they differ until the next restart.
* Some hazards are what the code does, so no property excludes them: a
  crash during a burst or a schedule leaves the pump on, two tabs on two plants show
  one chart, a select that fails ends the process, and a row read too long ago undoes
  thresholds. The properties name these cases in their premises, and `hazards` in
  `PROJECT.json` says which.
* The border router runs only RIOT's network stack.

## Plan

Done, in this order: `Plants`, `PlantDb`, `Backend`, `Firmware`,
`LatticeWatering` with its proofs; `Relay` and `Proxy` with proofs;
`WateringSchedules`; `Startup` and `Website`; `SoilSensor` and `Board`, with the
proofs about readings; `Queues` and the proofs of the remaining safety properties:
`ProxyIsRelay`, those of `Board`, `Website` and `WateringSchedules`.

Next, proofs of the safety that liveness rests on:

1. Calibration, as `Pumps` does for the pump: row and board come to differ only by
   a fault or a stale write, which is the part of `CalibrationConverges` without
   fairness.
2. `Website`: a chart that is being drawn for a page on view is that page's, the
   part of `ChartIsOfPlant` without fairness.
