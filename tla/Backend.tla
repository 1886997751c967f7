------------------------------- MODULE Backend -------------------------------
(***************************************************************************)
(* front/server.js: the Node.js process that serves the website, receives  *)
(* /data reports and commands the pumps.                                   *)
(*                                                                         *)
(* JavaScript runs to completion between two awaits, so an action is what  *)
(* one database statement does, or what one handler does from one await to *)
(* the next.  `calls' holds what is in progress: each activation of an     *)
(* async function, and each statement submitted without awaiting it, with  *)
(* the values it has captured.  A resumption that only submits the next    *)
(* statement is part of the action of the statement it awaited.            *)
(***************************************************************************)
EXTENDS PlantDb, FiniteSets, Sequences, BagsExt, SequencesExt

CONSTANTS
    Job,                 \* names for running thresholding loops
    NoJob,               \* the state of a name in no use
    MaxCalls,            \* bound: nothing new starts above this many calls
    MaxInFlight,         \* bound: copies of one command on their way
    Budget               \* bound: how often each kind of outside event happens

OutsideEvent ==
    {"toggle", "calibrate", "configure", "schedule",
     "crash", "loss", "reset", "shell"}

WateringJob == [node : Nodes, at : {"watering", "checking", "pausing"},
                target : Int]

ASSUME BackendAssumption ==
    /\ IsFiniteSet(Job)
    /\ NoJob \notin WateringJob
    /\ MaxCalls \in Nat /\ MaxInFlight \in Nat
    /\ Budget \in [OutsideEvent -> Nat]

VARIABLES
    up,                  \* is the process running?
    calls,               \* bag of Activations in progress
    current_threshold_watering_jobs,
    jobs,                \* the thresholding loops, each sleeping or awaiting
    downlink,            \* downlink[n][c]: copies of command c on their way
    left                 \* how many of each outside event may still happen

processVars == <<up, calls, current_threshold_watering_jobs, jobs>>
backendVars == <<plant_nodes, plant_humidities, up, calls,
                 current_threshold_watering_jobs, jobs, downlink, left>>

(***************************************************************************)
(* Activations.                                                            *)
(***************************************************************************)
ToggleSelect(n) == [at |-> "pump_toggle: select", node |-> n]
ToggleChange(n, row) == [at |-> "pump_toggle: change", node |-> n, row |-> row]
ToggleSend(n) == [at |-> "pump_toggle: send", node |-> n]
CalibrateSelect(n, c) ==
    [at |-> "calibrate_sensor: select", node |-> n, calibration |-> c]
ConfigureSelect(n, t) ==
    [at |-> "configure_thresholding: select", node |-> n, thresholds |-> t]
ChangeNode(n, row) == [at |-> "change_plant_node", node |-> n, row |-> row]
InsertHumidity(n, h) ==
    [at |-> "insert_plant_humidity", node |-> n, humidity |-> h]
DataSelect(n, r) == [at |-> "data: select", node |-> n, report |-> r]
DataResume(n, r, row) ==
    [at |-> "data: resume", node |-> n, report |-> r, row |-> row]

Activation ==
         {ToggleSelect(n) : n \in Nodes} \cup {ToggleSend(n) : n \in Nodes}
    \cup {ToggleChange(n, row) : n \in Nodes, row \in Row}
    \cup {CalibrateSelect(n, c) : n \in Nodes, c \in Calibrations}
    \cup {ConfigureSelect(n, t) : n \in Nodes, t \in Thresholds}
    \cup {ChangeNode(n, row) : n \in Nodes, row \in Row}
    \cup {InsertHumidity(n, h) : n \in Nodes, h \in Humidities}
    \cup {DataSelect(n, r) : n \in Nodes, r \in Report}
    \cup {DataResume(n, r, row) :
            n \in Nodes, r \in Report, row \in Row \cup {NoRow}}

None == EmptyBag
One(e) == BagAdd(None, e)
Copies(e, B) == IF BagIn(e, B) THEN B[e] ELSE 0
When(condition, e) == IF condition THEN One(e) ELSE None

(* The activation e is in progress and gives way to those of the bag next. *)
Step(e, next) == BagIn(e, calls) /\ calls' = BagRemove(calls, e) (+) next

Start(next) == up /\ BagCardinality(calls) < MaxCalls /\ calls' = calls (+) next

Spend(event) ==
    left[event] > 0 /\ left' = [left EXCEPT ![event] = @ - 1]

Send(n, c) ==
    /\ downlink[n][c] < MaxInFlight
    /\ downlink' = [downlink EXCEPT ![n][c] = @ + 1]

CallsOK == IsABag(calls) /\ DOMAIN calls \subseteq Activation

BackendTypeOK ==
    /\ DbTypeOK
    /\ up \in BOOLEAN
    /\ CallsOK
    /\ current_threshold_watering_jobs \in Seq(Nodes)
    /\ jobs \in [Job -> WateringJob \cup {NoJob}]
    /\ downlink \in [Nodes -> [Command -> Nat]]
    /\ left \in [OutsideEvent -> Nat]

BackendInit ==
    /\ DbInit
    /\ up = TRUE
    /\ calls = None
    /\ current_threshold_watering_jobs = <<>>
    /\ jobs = [j \in Job |-> NoJob]
    /\ downlink = [n \in Nodes |-> [c \in Command |-> 0]]
    /\ left = Budget

(***************************************************************************)
(* The process ends: on a rejection nobody handles (a TypeError on an      *)
(* undefined configuration) or because someone stops it.  The database and *)
(* the commands already sent outlive it.                                   *)
(***************************************************************************)
Die ==
    /\ up' = FALSE
    /\ calls' = None
    /\ current_threshold_watering_jobs' = <<>>
    /\ jobs' = [j \in Job |-> NoJob]

Crash ==
    /\ up /\ Spend("crash")
    /\ Die
    /\ UNCHANGED <<plant_nodes, plant_humidities, downlink>>

Restart ==
    /\ ~up
    /\ up' = TRUE
    /\ UNCHANGED <<plant_nodes, plant_humidities, calls,
                   current_threshold_watering_jobs, jobs, downlink, left>>

(***************************************************************************)
(* What calls pump_toggle, calibrate_sensor and configure_thresholding:    *)
(* the forms of the website, for the plants it lists, and the two timers   *)
(* of a watering schedule.                                                 *)
(***************************************************************************)
Request(event, e) ==
    /\ Spend(event)
    /\ Start(One(e))
    /\ UNCHANGED <<plant_nodes, plant_humidities, up,
                   current_threshold_watering_jobs, jobs, downlink>>

PostPumpToggle(n) == Listed(n) /\ Request("toggle", ToggleSelect(n))

PostCalibrateSensor(n, c) ==
    Listed(n) /\ Request("calibrate", CalibrateSelect(n, c))

PostConfigureThresholding(n, t) ==
    Listed(n) /\ Request("configure", ConfigureSelect(n, t))

ScheduleFires(n) == Listed(n) /\ Request("schedule", ToggleSelect(n))

(***************************************************************************)
(* pump_toggle: select the row, write it back with the pump inverted, then *)
(* send the command.                                                       *)
(***************************************************************************)
PumpToggleSelect(n) ==
    /\ BagIn(ToggleSelect(n), calls)
    /\ \E row \in SelectConfiguration(n) :
         \/ row = NoRow /\ Die
         \/ /\ row # NoRow
            /\ Step(ToggleSelect(n),
                    One(ToggleChange(n, [row EXCEPT !.pump_activated = ~@])))
            /\ UNCHANGED <<up, current_threshold_watering_jobs, jobs>>
    /\ UNCHANGED <<plant_nodes, plant_humidities, downlink, left>>

PumpToggleChange(n, row) ==
    /\ Step(ToggleChange(n, row), One(ToggleSend(n)))
    /\ change_plant_node(n, row)
    /\ UNCHANGED <<up, current_threshold_watering_jobs, jobs, downlink, left>>

PumpToggleSend(n) ==
    /\ Step(ToggleSend(n), None)
    /\ Send(n, "pump_toggle")
    /\ UNCHANGED <<plant_nodes, plant_humidities, up,
                   current_threshold_watering_jobs, jobs, left>>

(***************************************************************************)
(* calibrate_sensor does not await its write: the command leaves at once.  *)
(***************************************************************************)
CalibrateSensor(n, c) ==
    /\ BagIn(CalibrateSelect(n, c), calls)
    /\ \E row \in SelectConfiguration(n) :
         \/ row = NoRow /\ Die /\ UNCHANGED downlink
         \/ /\ row # NoRow
            /\ Step(CalibrateSelect(n, c),
                    One(ChangeNode(n, [row EXCEPT !.calibration = c])))
            /\ Send(n, c)
            /\ UNCHANGED <<up, current_threshold_watering_jobs, jobs>>
    /\ UNCHANGED <<plant_nodes, plant_humidities, left>>

ConfigureThresholding(n, t) ==
    /\ BagIn(ConfigureSelect(n, t), calls)
    /\ \E row \in SelectConfiguration(n) :
         \/ row = NoRow /\ Die
         \/ /\ row # NoRow
            /\ Step(ConfigureSelect(n, t),
                    One(ChangeNode(n, [row EXCEPT !.thresholds = t])))
            /\ UNCHANGED <<up, current_threshold_watering_jobs, jobs>>
    /\ UNCHANGED <<plant_nodes, plant_humidities, downlink, left>>

(* The writes nothing waits for.                                           *)
ChangePlantNode(n, row) ==
    /\ Step(ChangeNode(n, row), None)
    /\ change_plant_node(n, row)
    /\ UNCHANGED <<up, current_threshold_watering_jobs, jobs, downlink, left>>

InsertPlantHumidity(n, h) ==
    /\ Step(InsertHumidity(n, h), None)
    /\ insert_plant_humidity(n, h)
    /\ UNCHANGED <<up, current_threshold_watering_jobs, jobs, downlink, left>>

(***************************************************************************)
(* The CoAP handler of /data.                                              *)
(***************************************************************************)
ReceiveData(n, report) ==
    /\ Start(One(DataSelect(n, report)))
    /\ UNCHANGED <<plant_nodes, plant_humidities, up,
                   current_threshold_watering_jobs, jobs, downlink, left>>

DataConfiguration(n, report) ==
    /\ \E row \in SelectConfiguration(n) :
         Step(DataSelect(n, report), One(DataResume(n, report, row)))
    /\ UNCHANGED <<plant_nodes, plant_humidities, up,
                   current_threshold_watering_jobs, jobs, downlink, left>>

(* Mutants: registration without the default thresholds, and registration  *)
(* that falls through to the commands for known plants.                    *)
DataRegisterBare(n, report) ==
    /\ Step(DataResume(n, report, NoRow),
            One(ChangeNode(n, [pump_activated |-> report.pump_activated,
                               calibration |-> report.calibration]))
            (+) One(InsertHumidity(n, report.humidity)))
    /\ UNCHANGED <<plant_nodes, plant_humidities, up,
                   current_threshold_watering_jobs, jobs, downlink, left>>

DataRegisterCalibrating(n, report) ==
    /\ Step(DataResume(n, report, NoRow),
            One(ChangeNode(n, [pump_activated |-> report.pump_activated,
                               calibration |-> report.calibration,
                               thresholds |-> DefaultThresholds]))
            (+) One(InsertHumidity(n, report.humidity))
            (+) One(CalibrateSelect(n, FactoryCalibration)))
    /\ UNCHANGED <<plant_nodes, plant_humidities, up,
                   current_threshold_watering_jobs, jobs, downlink, left>>

(* A node without a row is registered with what it reports.  Neither       *)
(* statement is awaited, so the reading may be inserted before the row.    *)
DataRegister(n, report) ==
    /\ Step(DataResume(n, report, NoRow),
            One(ChangeNode(n, [pump_activated |-> report.pump_activated,
                               calibration |-> report.calibration,
                               thresholds |-> DefaultThresholds]))
            (+) One(InsertHumidity(n, report.humidity)))
    /\ UNCHANGED <<plant_nodes, plant_humidities, up,
                   current_threshold_watering_jobs, jobs, downlink, left>>

(* The reading is stored; a pump or a sensor that differs from the row of  *)
(* the select is commanded; and a plant that is too dry by that row, and   *)
(* not yet listed as being watered, gets a thresholding loop, which calls  *)
(* pump_toggle before its first sleep.  Each has its mutant.               *)
StoreNothing(n, report) == None
StoreReading(n, report) == One(InsertHumidity(n, report.humidity))

Retoggle(n, report, row) ==
    When(report.pump_activated # row.pump_activated, ToggleSelect(n))

RecalibrateNothing(n, report, row) == None
Recalibrate(n, report, row) ==
    When(report.calibration # row.calibration, CalibrateSelect(n, row.calibration))

TooDryAgain(n, report, row) == report.humidity < row.thresholds.bottom
TooDryForTarget(n, report, row) ==
    /\ report.humidity < row.thresholds.target
    /\ n \notin ToSet(current_threshold_watering_jobs)
TooDry(n, report, row) ==
    /\ report.humidity < row.thresholds.bottom
    /\ n \notin ToSet(current_threshold_watering_jobs)

DataUpdate(n, report, row) ==
    /\ row # NoRow
    /\ Step(DataResume(n, report, row),
            StoreReading(n, report) (+) Retoggle(n, report, row)
            (+) Recalibrate(n, report, row)
            (+) When(TooDry(n, report, row), ToggleSelect(n)))
    /\ IF TooDry(n, report, row)
       THEN \E j \in Job :
              /\ jobs[j] = NoJob
              /\ jobs' = [jobs EXCEPT ![j] =
                    [node |-> n, at |-> "watering",
                     target |-> row.thresholds.target]]
              /\ current_threshold_watering_jobs' =
                    Append(current_threshold_watering_jobs, n)
       ELSE UNCHANGED <<jobs, current_threshold_watering_jobs>>
    /\ UNCHANGED <<plant_nodes, plant_humidities, up, downlink, left>>

(***************************************************************************)
(* A thresholding loop: toggle, sleep, toggle, read the humidity, and      *)
(* either stop or sleep again.  Neither toggle is awaited.  How long the   *)
(* sleeps last is left open.                                               *)
(***************************************************************************)
BurstOver(j) ==
    /\ jobs[j] # NoJob /\ jobs[j].at = "watering"
    /\ jobs' = [jobs EXCEPT ![j].at = "checking"]
    /\ Start(One(ToggleSelect(jobs[j].node)))
    /\ UNCHANGED <<plant_nodes, plant_humidities, up,
                   current_threshold_watering_jobs, downlink, left>>

TargetExceeded(humidity, job) == humidity > job.target
TargetReached(humidity, job) == humidity >= job.target

(* The loop ends once the target of the row it started with is reached.    *)
(* Array.pop takes no index: whatever is listed last goes.  If only the    *)
(* select of the readings fails, select_plant_info returns the rows of the *)
(* configuration in their place: undefined is no humidity at the target.   *)
WateringCheck(j) ==
    /\ jobs[j] # NoJob /\ jobs[j].at = "checking"
    /\ \E humidity \in SelectHumidity(jobs[j].node) :
         \/ humidity = NoReading /\ Die
         \/ /\ humidity # NoReading /\ TargetReached(humidity, jobs[j])
            /\ jobs' = [jobs EXCEPT ![j] = NoJob]
            /\ current_threshold_watering_jobs' =
                  Front(current_threshold_watering_jobs)
            /\ UNCHANGED <<up, calls>>
         \/ /\ \/ humidity # NoReading /\ ~TargetReached(humidity, jobs[j])
               \/ DbMayFail /\ Registered(jobs[j].node)
            /\ jobs' = [jobs EXCEPT ![j].at = "pausing"]
            /\ UNCHANGED <<up, calls, current_threshold_watering_jobs>>
    /\ UNCHANGED <<plant_nodes, plant_humidities, downlink, left>>

PauseOver(j) ==
    /\ jobs[j] # NoJob /\ jobs[j].at = "pausing"
    /\ jobs' = [jobs EXCEPT ![j].at = "watering"]
    /\ Start(One(ToggleSelect(jobs[j].node)))
    /\ UNCHANGED <<plant_nodes, plant_humidities, up,
                   current_threshold_watering_jobs, downlink, left>>

(***************************************************************************)
(* Everything the process does by itself, for the activations of node n.   *)
(***************************************************************************)
PumpToggleStep(n) ==
    \/ PumpToggleSelect(n)
    \/ \E row \in Row : PumpToggleChange(n, row)
    \/ PumpToggleSend(n)

ConfigurationStep(n) ==
    \/ \E c \in Calibrations : CalibrateSensor(n, c)
    \/ \E t \in Thresholds : ConfigureThresholding(n, t)
    \/ \E row \in Row : ChangePlantNode(n, row)

DataStep(n) ==
    \/ \E h \in Humidities : InsertPlantHumidity(n, h)
    \/ \E r \in Report : DataConfiguration(n, r)
    \/ \E r \in Report : DataRegister(n, r)
    \/ \E r \in Report, row \in Row : DataUpdate(n, r, row)

JobStep(j) == BurstOver(j) \/ WateringCheck(j) \/ PauseOver(j)

UserStep(n) ==
    \/ PostPumpToggle(n)
    \/ \E c \in Calibrations : PostCalibrateSensor(n, c)
    \/ \E t \in Thresholds : PostConfigureThresholding(n, t)
    \/ ScheduleFires(n)

(* Every step of a plant is one of its activations.                        *)
InProgress(n) == n \in {e.node : e \in DOMAIN calls}

BackendNext ==
    \/ Crash \/ Restart
    \/ \E n \in Nodes :
         \/ UserStep(n)
         \/ InProgress(n) /\ (\/ PumpToggleStep(n) \/ ConfigurationStep(n)
                              \/ DataStep(n))
    \/ \E j \in Job : JobStep(j)

=============================================================================
