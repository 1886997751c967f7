-------------------------------- MODULE Board --------------------------------
(***************************************************************************)
(* The threads of one node board (fw/main.c): data_thread, wdt_thread, the *)
(* thread of gcoap that runs the two handlers, and main, which runs the    *)
(* debug shell.  The first three have the same priority, the shell a lower *)
(* one.  Firmware takes a handler for one step; here it is several, with   *)
(* the mutexes and the scheduler of RIOT that keep them apart.             *)
(***************************************************************************)
EXTENDS SoilSensor, Queues

CONSTANTS
    Calibrations,        \* pairs of a dry and a wet value a user enters
    FactoryCalibration,  \* the pair compiled into the firmware
    Moistures,           \* the samples the soil yields
    Budget               \* bound: how often each kind of outside event happens

Event == {"command", "typed", "hang", "power"}

(* Up to this value the percentage does not overflow 32 bits.              *)
MaxValue == 20000000

ASSUME BoardAssumption ==
    /\ Calibrations \subseteq [dry : -MaxValue .. MaxValue, wet : -MaxValue .. MaxValue]
    /\ FactoryCalibration \in Calibrations
    /\ Moistures \subseteq Sample
    /\ Budget \in [Event -> Nat]

VARIABLES
    pc,                  \* where each thread is
    command,             \* the last calibration given to gcoap's thread and to the shell
    runqueue,            \* the ready threads of higher priority, the first runs
    mutexes,             \* the threads that hold, then wait for, each mutex
    pins,                \* the levels of PUMP_PA13 and PUMP_PA28
    pump_activated,
    soil_values,         \* soil_dry_value and soil_wet_value
    report,              \* the report data_thread is writing
    waited,              \* history: has data_thread waited while writing it?
    unkicked,            \* timers of five seconds since the last wdt_kick
    hung,                \* a thread that spins for ever
    left                 \* how many of each outside event may still happen

boardVars == <<pins, pump_activated, soil_values>>
schedVars == <<runqueue, mutexes>>
reportVars == <<report, waited>>
outside == <<unkicked, hung, left>>
vars == <<pc, command, schedVars, boardVars, reportVars, outside>>

Thread == {"data", "wdt", "coap", "shell"}
Urgent == Thread \ {"shell"}
Mutex == {"pump_mutex", "soil_mutex"}
Pin == {"PUMP_PA13", "PUMP_PA28"}
Step == {"sleep", "kick", "idle", "toggle", "PA28", "PA13", "flag", "calibrate", "dry", "wet",
         "read", "sample", "state", "pump", "values", "pair", "send"}

\* Without a sample a report shows 0, the reading at the dry value.
Blank == [moisture |-> FactoryCalibration.dry, under |-> FactoryCalibration, humidity |-> 0,
          pump_activated |-> FALSE, soil_values |-> FactoryCalibration]

Mixed == [dry : {c.dry : c \in Calibrations}, wet : {c.wet : c \in Calibrations}]

TypeOK ==
    /\ pc \in [Thread -> Step]
    /\ command \in [{"coap", "shell"} -> Calibrations]
    /\ runqueue \in Seq(Urgent) /\ mutexes \in [Mutex -> Seq(Thread)]
    /\ pins \in [Pin -> BOOLEAN] /\ pump_activated \in BOOLEAN
    /\ soil_values \in Mixed
    /\ report.humidity \in 0 .. 255 /\ report.soil_values \in Mixed
    /\ unkicked \in 0 .. 1 /\ hung \in Thread \cup {"none"}
    /\ waited \in BOOLEAN /\ left \in [Event -> Nat]

Start == [th \in Thread |-> IF th \in {"data", "wdt"} THEN "sleep" ELSE "idle"]

Init ==
    /\ pc = Start
    /\ command = [th \in {"coap", "shell"} |-> FactoryCalibration]
    /\ runqueue = <<>> /\ mutexes = [m \in Mutex |-> <<>>]
    /\ pins = [p \in Pin |-> FALSE] /\ pump_activated = FALSE
    /\ soil_values = FactoryCalibration
    /\ report = Blank /\ waited = FALSE
    /\ unkicked = 0 /\ hung = "none"
    /\ left = Budget

Spend(event) == left[event] > 0 /\ left' = [left EXCEPT ![event] = @ - 1]

(***************************************************************************)
(* RIOT: a ready thread runs until it blocks, sleeps, or one of higher     *)
(* priority is ready.  Unlocking hands a mutex to the first that waits.    *)
(***************************************************************************)
(* The threads that wait for a mutex: all but the first, which holds it.   *)
Waiting(m) == SubSeq(mutexes[m], 2, Len(mutexes[m]))
Waits(th) == \E m \in Mutex : In(Waiting(m), th)

Runs(th) ==
    /\ hung # th
    /\ IF th = "shell" THEN runqueue = <<>> /\ ~Waits("shell")
       ELSE runqueue # <<>> /\ Head(runqueue) = th

Yield(th) == IF th = "shell" THEN runqueue ELSE Tail(runqueue)

At(th, step) == pc[th] = step /\ Runs(th)
GoTo(th, step) == pc' = [pc EXCEPT ![th] = step]

(* Mutant: a mutex that is never taken.                                    *)
LockNothing(th, m) == UNCHANGED <<runqueue, mutexes, waited>>

Lock(th, m) ==
    /\ mutexes' = [mutexes EXCEPT ![m] = Append(@, th)]
    /\ runqueue' = IF mutexes[m] = <<>> THEN runqueue ELSE Yield(th)
    /\ waited' = (waited \/ (th = "data" /\ mutexes[m] # <<>>))

(* Mutant: the thread that waits is not woken.                             *)
UnlockAlone(th, m, ready) ==
    /\ mutexes' = [mutexes EXCEPT ![m] = Waiting(m)]
    /\ runqueue' = ready

(* ready: the threads that are ready otherwise.                            *)
Unlock(th, m, ready) ==
    /\ mutexes' = [mutexes EXCEPT ![m] = Waiting(m)]
    /\ runqueue' = IF Waiting(m) # <<>> /\ Head(Waiting(m)) # "shell"
                   THEN Append(ready, Head(Waiting(m))) ELSE ready

(***************************************************************************)
(* The handlers of gcoap and the commands of the shell.                    *)
(***************************************************************************)
Asked(th) ==
    \/ GoTo(th, "toggle") /\ UNCHANGED command
    \/ \E c \in Calibrations :
         GoTo(th, "calibrate") /\ command' = [command EXCEPT ![th] = c]

(* A request arrives; gcoap's thread takes one at a time.                  *)
Receive ==
    /\ pc["coap"] = "idle" /\ Asked("coap") /\ Spend("command")
    /\ runqueue' = Append(runqueue, "coap")
    /\ UNCHANGED <<mutexes, boardVars, reportVars, unkicked, hung>>

TypeIn ==
    /\ At("shell", "idle") /\ Asked("shell") /\ Spend("typed")
    /\ UNCHANGED <<schedVars, boardVars, reportVars, unkicked, hung>>

Take(th, step, m, next) ==
    /\ At(th, step) /\ Lock(th, m) /\ GoTo(th, next)
    /\ UNCHANGED <<command, boardVars, report, outside>>

Toggle(th, step, pin, next) ==
    /\ At(th, step) /\ GoTo(th, next)
    /\ pins' = [pins EXCEPT ![pin] = ~@]
    /\ UNCHANGED <<pump_activated, soil_values, command, schedVars, reportVars, outside>>

pump_toggle(th) ==
    \/ Take(th, "toggle", "pump_mutex", "PA28")
    \/ Toggle(th, "PA28", "PUMP_PA28", "PA13")
    \/ Toggle(th, "PA13", "PUMP_PA13", "flag")
    \/ /\ At(th, "flag") /\ GoTo(th, "idle")
       /\ pump_activated' = ~pump_activated
       /\ Unlock(th, "pump_mutex", Yield(th))
       /\ UNCHANGED <<pins, soil_values, command, reportVars, outside>>

calibration(th) ==
    \/ Take(th, "calibrate", "soil_mutex", "dry")
    \/ /\ At(th, "dry") /\ GoTo(th, "wet")
       /\ soil_values' = [soil_values EXCEPT !.dry = command[th].dry]
       /\ UNCHANGED <<pins, pump_activated, command, schedVars, reportVars, outside>>
    \/ /\ At(th, "wet") /\ GoTo(th, "idle")
       /\ soil_values' = [soil_values EXCEPT !.wet = command[th].wet]
       /\ Unlock(th, "soil_mutex", Yield(th))
       /\ UNCHANGED <<pins, pump_activated, command, reportVars, outside>>

(***************************************************************************)
(* data_thread and wdt_thread.                                             *)
(***************************************************************************)
soil_read_step ==
    /\ At("data", "sample") /\ GoTo("data", "state")
    /\ \E moisture \in Moistures :
         \E h \in Readings(moisture, soil_values.dry, soil_values.wet) :
            report' = [report EXCEPT !.moisture = moisture, !.under = soil_values, !.humidity = h]
    /\ Unlock("data", "soil_mutex", runqueue)
    /\ UNCHANGED <<command, boardVars, waited, outside>>

Write(step, m, next, written) ==
    /\ At("data", step) /\ GoTo("data", next)
    /\ report' = written
    /\ Unlock("data", m, runqueue)
    /\ UNCHANGED <<command, boardVars, waited, outside>>

Send ==
    /\ At("data", "send") /\ GoTo("data", "sleep")
    /\ report' = Blank /\ waited' = FALSE
    /\ runqueue' = Tail(runqueue)
    /\ UNCHANGED <<command, mutexes, boardVars, outside>>

data_thread ==
    \/ Take("data", "read", "soil_mutex", "sample")
    \/ soil_read_step
    \/ Take("data", "state", "pump_mutex", "pump")
    \/ Write("pump", "pump_mutex", "values", [report EXCEPT !.pump_activated = pump_activated])
    \/ Take("data", "values", "soil_mutex", "pair")
    \/ Write("pair", "soil_mutex", "send", [report EXCEPT !.soil_values = soil_values])
    \/ Send

wdt_thread ==
    /\ At("wdt", "kick") /\ GoTo("wdt", "sleep")
    /\ unkicked' = 0
    /\ runqueue' = Tail(runqueue)
    /\ UNCHANGED <<command, mutexes, boardVars, reportVars, hung, left>>

(***************************************************************************)
(* Time, faults and resets.                                                *)
(***************************************************************************)
(* Mutant: the pins are not initialised at boot.                           *)
ResetKeepingPins ==
    /\ pc' = Start /\ UNCHANGED command
    /\ runqueue' = <<>> /\ mutexes' = [m \in Mutex |-> <<>>]
    /\ pump_activated' = FALSE /\ UNCHANGED pins
    /\ soil_values' = FactoryCalibration
    /\ report' = Blank /\ waited' = FALSE
    /\ unkicked' = 0 /\ hung' = "none"

Reset ==
    /\ pc' = Start /\ UNCHANGED command
    /\ runqueue' = <<>> /\ mutexes' = [m \in Mutex |-> <<>>]
    /\ pump_activated' = FALSE /\ pins' = [p \in Pin |-> FALSE]
    /\ soil_values' = FactoryCalibration
    /\ report' = Blank /\ waited' = FALSE
    /\ unkicked' = 0 /\ hung' = "none"

PowerCycle == Spend("power") /\ Reset

(* Nothing is left to do for five seconds, except perhaps in the shell, or *)
(* what runs spins for them.                                               *)
Settled == IF runqueue = <<>> THEN TRUE ELSE hung = Head(runqueue)

(* Both sleeps are of five seconds; the timers wake threads in any order.  *)
WakeUp ==
    /\ pc' = [pc EXCEPT !["data"] = IF @ = "sleep" THEN "read" ELSE @,
                        !["wdt"] = IF @ = "sleep" THEN "kick" ELSE @]
    /\ \E order \in {<<>>, <<"data">>, <<"wdt">>, <<"data", "wdt">>, <<"wdt", "data">>} :
         /\ {order[i] : i \in DOMAIN order} = {th \in {"data", "wdt"} : pc[th] = "sleep"}
         /\ runqueue' = runqueue \o order
    /\ UNCHANGED <<command, mutexes, boardVars, reportVars, hung, left>>

(* Mutant: the timer kicks the watchdog.                                   *)
TimerKicking == Settled /\ WakeUp /\ unkicked' = 0

(* The watchdog reboots the board ten seconds after the last kick.         *)
Timer ==
    /\ Settled
    /\ \/ unkicked = 0 /\ WakeUp /\ unkicked' = 1
       \/ unkicked = 1 /\ Reset /\ UNCHANGED left

Hang(th) ==
    /\ hung = "none" /\ Runs(th) /\ pc[th] # "idle"
    /\ Spend("hang")
    /\ hung' = th
    /\ UNCHANGED <<pc, command, schedVars, boardVars, reportVars, unkicked>>

Work(th) ==
    \/ th \in {"coap", "shell"} /\ (pump_toggle(th) \/ calibration(th))
    \/ th = "data" /\ data_thread
    \/ th = "wdt" /\ wdt_thread

Next ==
    \/ Receive \/ TypeIn
    \/ \E th \in Thread : Work(th) \/ Hang(th)
    \/ Timer \/ PowerCycle

(* The scheduler runs what can run, and time passes.  The shell is put off *)
(* again and again, but five seconds hold many of its steps.               *)
Spec ==
    /\ Init /\ [][Next]_vars
    /\ \A th \in Urgent : WF_vars(Work(th))
    /\ SF_vars(Work("shell"))
    /\ WF_vars(Timer)

(***************************************************************************)
(* Properties.                                                             *)
(***************************************************************************)
(* The flag a report shows and the two pins that drive the pump agree      *)
(* whenever no thread is toggling, after any preemption and any reset      *)
(* (main.c:12-23).                                                         *)
PumpPinsAgree ==
    mutexes["pump_mutex"] = <<>> => \A p \in Pin : pins[p] = pump_activated

(* A report takes the humidity, the pump and the calibration in three      *)
(* critical sections.  When it is sent, pump and calibration are those of  *)
(* the board, and the humidity was computed from that calibration, unless  *)
(* data_thread has waited for a mutex, which takes a shell command in      *)
(* progress; then a request may come in between (main.c:109-135).          *)
ReportsAreSnapshots ==
    pc["data"] = "send" =>
        /\ report.pump_activated = pump_activated
        /\ \A p \in Pin : pins[p] = report.pump_activated
        /\ report.soil_values = soil_values /\ soil_values \in Calibrations
        /\ report.under \in Calibrations /\ (waited \/ report.under = soil_values)

(* Between the wet and the dry value under which a sample was taken, its   *)
(* reading is a percentage, at any moment a calibration arrives.  Beyond   *)
(* them by at least a hundredth of the range, where the percentage is more *)
(* than 100 or wraps around, the byte is none: up to 156 hundredths, the   *)
(* reading shows that the calibration does not fit (main.c:27-33,          *)
(* METHODS.md:16).                                                         *)
Beyond(moisture, pair) ==
    100 * (IF moisture > pair.dry THEN moisture - pair.dry ELSE pair.wet - moisture)

HumidityInRange ==
    LET range == report.under.dry - report.under.wet
        beyond == Beyond(report.moisture, report.under)
    IN  range > 0 =>
            /\ beyond <= 0 => report.humidity \in 0 .. 100
            /\ range <= beyond /\ beyond < 156 * range => report.humidity \in 101 .. 255

(* A thread that spins at the priority of wdt_thread or above keeps it     *)
(* from kicking: the board boots again and the pump is off.  A thread that *)
(* blocks, or a shell that spins, does not (main.c:82-91, report.tex:407). *)
FrozenIsReset ==
    hung \in Urgent ~> hung = "none" /\ \A p \in Pin : ~pins[p]

(* Whatever thread waits for whatever mutex, reports go on, unless the     *)
(* shell spins, perhaps while it holds a mutex (main.c:93-139).            *)
ReportsGoOn == <>[](hung # "shell") => []<>(pc["data"] = "send")

(* To the rest of the system each command is one step, as in Firmware: the *)
(* pair changes when its first half is written, and nobody sees it sooner. *)
CommandedValues ==
    IF \E th \in {"coap", "shell"} : pc[th] = "wet"
    THEN [soil_values EXCEPT !.wet = command[CHOOSE th \in {"coap", "shell"} : pc[th] = "wet"].wet]
    ELSE soil_values

Abstract == INSTANCE Firmware WITH
    Nodes <- {"board"}, Humidities <- 0 .. 255,
    pump_activated <- [n \in {"board"} |-> pump_activated],
    soil_values <- [n \in {"board"} |-> CommandedValues]

(* Every behaviour of the threads is one of the three steps of Firmware, or *)
(* a stutter (main.c:17-55, 144-168).                                      *)
ImplementsFirmware ==
    /\ Abstract!FirmwareInit
    /\ [][\/ Abstract!pump_toggle("board")
          \/ \E c \in Calibrations : Abstract!calibrate("board", c)
          \/ Abstract!Reset("board")]_(Abstract!firmwareVars)

=============================================================================
