--------------------------- MODULE LatticeWatering ---------------------------
(***************************************************************************)
(* The closed loop: the node boards post their state, the backend compares *)
(* it with the database and commands the boards.  Between them are UDP and *)
(* the proxy, which lose and reorder messages but deliver none twice.      *)
(***************************************************************************)
EXTENDS Backend, Firmware

CONSTANT MaxUplink       \* bound: reports on their way

ASSUME LatticeWateringAssumption == MaxUplink \in Nat

VARIABLE uplink          \* bag of DataPosts on their way to the backend

vars == <<backendVars, firmwareVars, uplink>>

DataPost(n, report) == [node |-> n, report |-> report]

UplinkOK ==
    /\ IsABag(uplink)
    /\ DOMAIN uplink \subseteq [node : Nodes, report : Report]

TypeOK == BackendTypeOK /\ FirmwareTypeOK /\ UplinkOK

Init == BackendInit /\ FirmwareInit /\ uplink = None

(***************************************************************************)
(* Messages.                                                               *)
(***************************************************************************)
SendReport(n) ==
    /\ BagCardinality(uplink) < MaxUplink
    /\ \E h \in Humidities : uplink' = uplink (+) One(DataPost(n, DataReport(n, h)))
    /\ UNCHANGED <<backendVars, firmwareVars>>

(* A report reaches the backend, or an address nobody listens on.          *)
DeliverReport(n) ==
    \E r \in Report :
      /\ BagIn(DataPost(n, r), uplink)
      /\ uplink' = BagRemove(uplink, DataPost(n, r))
      /\ IF up THEN ReceiveData(n, r) ELSE UNCHANGED backendVars
      /\ UNCHANGED firmwareVars

LoseReport(n) ==
    \E r \in Report :
      /\ BagIn(DataPost(n, r), uplink)
      /\ uplink' = BagRemove(uplink, DataPost(n, r))
      /\ Spend("loss")
      /\ UNCHANGED <<dbVars, processVars, downlink, firmwareVars>>

TakeCommand(n, c) ==
    /\ downlink[n][c] > 0
    /\ downlink' = [downlink EXCEPT ![n][c] = @ - 1]
    /\ UNCHANGED <<dbVars, processVars, uplink>>

(* pump_handler and calibration_handler.                                   *)
DeliverPumpToggle(n) ==
    TakeCommand(n, "pump_toggle") /\ pump_toggle(n) /\ UNCHANGED left

DeliverCalibration(n, c) ==
    TakeCommand(n, c) /\ calibrate(n, c) /\ UNCHANGED left

LoseCommand(n) ==
    /\ \E c \in Command : TakeCommand(n, c)
    /\ Spend("loss")
    /\ UNCHANGED firmwareVars

(***************************************************************************)
(* What happens on a node without the backend: a reset, and the two        *)
(* commands of its debug shell.                                            *)
(***************************************************************************)
NodeEvent(event) ==
    Spend(event) /\ UNCHANGED <<dbVars, processVars, downlink, uplink>>

NodeReset(n) == NodeEvent("reset") /\ Reset(n)

pump_toggle_command(n) == NodeEvent("shell") /\ pump_toggle(n)

calibration_command(n) ==
    NodeEvent("shell") /\ \E c \in Calibrations : calibrate(n, c)

NetworkStep(n) ==
    \/ SendReport(n) \/ DeliverReport(n) \/ LoseReport(n)
    \/ DeliverPumpToggle(n)
    \/ \E c \in Calibrations : DeliverCalibration(n, c)
    \/ LoseCommand(n)

NodeStep(n) ==
    NodeReset(n) \/ pump_toggle_command(n) \/ calibration_command(n)

Next ==
    \/ BackendNext /\ UNCHANGED <<firmwareVars, uplink>>
    \/ \E n \in Nodes : NetworkStep(n) \/ NodeStep(n)

(***************************************************************************)
(* Fairness.  The event loop of Node.js runs every continuation and sqlite *)
(* every statement; timers expire; data_thread posts every five seconds;   *)
(* what the network does not lose (a spent "loss") it delivers.  Reports   *)
(* need strong fairness only because of the bounds: MaxCalls may be        *)
(* reached again and again by the other node.                              *)
(***************************************************************************)
Backend(A) == A /\ UNCHANGED <<firmwareVars, uplink>>

FairBackend(n) ==
    /\ WF_vars(Backend(PumpToggleSelect(n)))
    /\ WF_vars(Backend(\E row \in Row : PumpToggleChange(n, row)))
    /\ WF_vars(Backend(PumpToggleSend(n)))
    /\ WF_vars(Backend(\E c \in Calibrations : CalibrateSensor(n, c)))
    /\ WF_vars(Backend(\E t \in Thresholds : ConfigureThresholding(n, t)))
    /\ WF_vars(Backend(\E row \in Row : ChangePlantNode(n, row)))
    /\ WF_vars(Backend(\E h \in Humidities : InsertPlantHumidity(n, h)))
    /\ WF_vars(Backend(\E r \in Report : DataConfiguration(n, r)))
    /\ WF_vars(Backend(\E r \in Report : DataRegister(n, r)))
    /\ WF_vars(Backend(\E r \in Report, row \in Row : DataUpdate(n, r, row)))

FairNode(n) ==
    /\ WF_vars(SendReport(n))
    /\ SF_vars(DeliverReport(n))
    /\ WF_vars(DeliverPumpToggle(n))
    /\ \A c \in Calibrations : WF_vars(DeliverCalibration(n, c))

Fairness ==
    /\ \A n \in Nodes : FairBackend(n) /\ FairNode(n)
    /\ \A j \in Job : SF_vars(Backend(JobStep(j)))

Spec == Init /\ [][Next]_vars

FairSpec == Spec /\ Fairness

(***************************************************************************)
(* Properties.                                                             *)
(***************************************************************************)
Running == {j \in Job : jobs[j] # NoJob}

(* As many plants are listed as being watered as thresholding loops run,   *)
(* and no plant is listed twice; so there are never more loops than        *)
(* plants, whichever entry Array.pop removes (server.js:304-328).          *)
JobBookkeeping ==
    /\ Len(current_threshold_watering_jobs) = Cardinality(Running)
    /\ IsInjective(current_threshold_watering_jobs)

(* A thresholding loop finds a reading to compare with the target, however *)
(* the unawaited insert of the reading that started it is ordered: loops   *)
(* start below a threshold, the default threshold is below every reading   *)
(* (server.js:303), and only a plant with a reading is on the website.     *)
LoopHasReading ==
    \A j \in Running : plant_humidities[jobs[j].node] # NoReading

(* Why, for each activation, row, command and loop: only a listed plant is *)
(* configured, only a configured plant gets a loop, rows and readings are  *)
(* never deleted, and what is in progress for a plant that is not listed   *)
(* carries the default thresholds (server.js:91-125, 289-303;              *)
(* db.js:86-124).                                                          *)
Harmless(e) ==
    /\ \/ e.at \in {"data: select", "change_plant_node", "insert_plant_humidity"}
       \/ e.at = "data: resume" /\ e.row = NoRow
       \/ Registered(e.node)
    /\ \/ Listed(e.node)
       \/ e.at \in {"pump_toggle: change", "change_plant_node", "data: resume"}
            /\ (e.row # NoRow => e.row.thresholds = DefaultThresholds)
       \/ e.at \in {"pump_toggle: select", "pump_toggle: send", "data: select",
                    "calibrate_sensor: select", "insert_plant_humidity"}

KnownActivations == \A e \in DOMAIN calls : Harmless(e)

KnownRows ==
    \A n \in Nodes : Registered(n) /\ ~Listed(n)
        => plant_nodes[n].thresholds = DefaultThresholds

KnownCommands ==
    \A n \in Nodes : ~Registered(n) => \A c \in Command : downlink[n][c] = 0

KnownLoops == \A j \in Running : Listed(jobs[j].node)

(* Nothing acts on a plant the database does not know: no command is under *)
(* way or being prepared, and loops run and thresholds are set only for    *)
(* plants on the website.  An activation of pump_toggle or calibrate_sensor *)
(* for an unknown plant would end the process (server.js:67-94, 289-303).  *)
KnownPlants == KnownActivations /\ KnownRows /\ KnownCommands /\ KnownLoops

(* While no statement fails the backend stops only when it is stopped: no  *)
(* await leads to a TypeError on an undefined row or reading               *)
(* (server.js:69, 81, 92, 316).                                            *)
StopsOnlyWhenStopped ==
    [][up /\ ~up' => left'["crash"] < left["crash"]]_vars

(* The row and the board disagree about the pump, once every toggle sent   *)
(* has arrived.                                                            *)
Toggles(n) == Copies(ToggleSend(n), calls) + downlink[n]["pump_toggle"]

Mismatch(n) ==
    (plant_nodes[n].pump_activated # pump_activated[n]) # (Toggles(n) % 2 = 1)

(* A write of a whole row that was read too long ago.                      *)
Consumed(e) == Copies(e, calls') < Copies(e, calls)

PumpChanged(n) ==
    plant_nodes'[n].pump_activated # plant_nodes[n].pump_activated

StaleWrite(n) ==
    \E row \in Row :
      \/ Consumed(ToggleChange(n, row)) /\ ~PumpChanged(n)
      \/ Consumed(ChangeNode(n, row)) /\ PumpChanged(n)

Fault == ~up' \/ \E event \in {"loss", "reset", "shell"} : left'[event] < left[event]

(* The row and the board of a registered plant start or cease to disagree  *)
(* about the pump only by a fault or a stale write: every toggle flips     *)
(* both, one way or the other (server.js:67-78, fw/main.c:17-23).          *)
MismatchOnlyFromFaults ==
    [][\A n \in Nodes : Registered(n) /\ ~Fault /\ ~StaleWrite(n)
          => (Mismatch(n) <=> Mismatch(n)')]_vars

(* From some point on a board posts its next report only after the backend *)
(* and the board are done with the last one: data_thread sleeps five       *)
(* seconds, a round trip takes far less.                                   *)
Settled(n) ==
    /\ \A e \in DOMAIN calls : e.node # n
    /\ \A c \in Command : downlink[n][c] = 0
    /\ \A post \in DOMAIN uplink : post.node # n

ReportsApart(n) ==
    <>[][(\E r \in Report : Copies(DataPost(n, r), uplink')
                              > Copies(DataPost(n, r), uplink)) => Settled(n)]_vars

(* The calibration of a board ends up being that of its row, whatever      *)
(* resets, losses and stale writes happen before (server.js:298-300).      *)
CalibrationConverges ==
    \A n \in Nodes : []<>up /\ ReportsApart(n) =>
        <>[](Registered(n) => soil_values[n] = plant_nodes[n].calibration)

(* A plant appears on the website as long as the backend stays up, though  *)
(* its first reading may be inserted before its row (server.js:289-294).   *)
EventuallyListed == <>[]up => \A n \in Nodes : <>Listed(n)

(* A thresholding loop comes to rest: it never goes on for ever with the   *)
(* newest reading at its target (server.js:316-321).                       *)
WateringStops ==
    \A j \in Job :
        []<>(jobs[j] = NoJob \/ plant_humidities[jobs[j].node] < jobs[j].target)

(***************************************************************************)
(* What the documentation says of the program and the program does not do. *)
(***************************************************************************)
StatusAgrees(n) ==
    Registered(n) => plant_nodes[n].pump_activated = pump_activated[n]

(* report.tex:312: the database holds the status the boards transmit.  So  *)
(* however they came to differ, a report should put it right               *)
(* (server.js:295-297).                                                    *)
StatusFollowsReports ==
    \A n \in Nodes : []<>up /\ ReportsApart(n) =>
        <>[](Settled(n) => StatusAgrees(n))

(* report.tex:299: plant_nodes persists the current status of each node.   *)
(* Meant for runs without faults (server.js:67-78).                        *)
StatusPersisted == \A n \in Nodes : Settled(n) => StatusAgrees(n)

(* app.js:218: a thresholding loop waters in short bursts until the target *)
(* is reached.  Meant for runs where nothing else switches a pump          *)
(* (server.js:295-297, 308-328).                                           *)
Watered(n) == \E j \in Running : jobs[j].node = n

BurstsEnd ==
    \A n \in Nodes : Settled(n) /\ ~Watered(n) => ~pump_activated[n]

(* server.js:318-319 looks up the entry of the plant and removes it: a     *)
(* plant is listed only while a loop waters it.                            *)
ListedIsWatered ==
    \A n \in ToSet(current_threshold_watering_jobs) : Watered(n)

=============================================================================
