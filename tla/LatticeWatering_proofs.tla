------------------------ MODULE LatticeWatering_proofs ------------------------
(***************************************************************************)
(* Theorems about LatticeWatering, for all values of its constants.        *)
(***************************************************************************)
EXTENDS LatticeWatering, Queues_proofs, FiniteSetTheorems, SequenceTheorems, TLAPS

(***************************************************************************)
(* Bags.                                                                   *)
(***************************************************************************)

(* What the bags activations are spawned with contain (server.js:67-330).  *)
LEMMA NoneIsBag ==
    /\ IsABag(None) /\ DOMAIN None = {}
    /\ \A x : Copies(x, None) = 0
BY DEF None, EmptyBag, SetToBag, IsABag, Copies, BagIn, BagToSet

(* A bag of one activation, e.g. a resumed function (server.js:67-330).    *)
LEMMA OneIsBag ==
    ASSUME NEW e
    PROVE  /\ IsABag(One(e)) /\ DOMAIN One(e) = {e}
           /\ \A x : Copies(x, One(e)) = IF x = e THEN 1 ELSE 0
BY DEF One, None, BagAdd, EmptyBag, SetToBag, IsABag, Copies, BagIn, BagToSet

(* Two continuations in progress at once (server.js:293-330).              *)
LEMMA SumIsBag ==
    ASSUME NEW B1, NEW B2, IsABag(B1), IsABag(B2)
    PROVE  /\ IsABag(B1 (+) B2) /\ DOMAIN (B1 (+) B2) = DOMAIN B1 \cup DOMAIN B2
           /\ \A x : Copies(x, B1 (+) B2) = Copies(x, B1) + Copies(x, B2)
BY DEF IsABag, (+), Copies, BagIn, BagToSet

(* What is in progress when one activation is done (server.js:67-330).     *)
LEMMA RemoveIsBag ==
    ASSUME NEW B, NEW e, IsABag(B), BagIn(e, B)
    PROVE  /\ IsABag(BagRemove(B, e)) /\ DOMAIN BagRemove(B, e) \subseteq DOMAIN B
           /\ \A x : Copies(x, BagRemove(B, e)) =
                       Copies(x, B) - (IF x = e THEN 1 ELSE 0)
BY DEF IsABag, BagRemove, Copies, BagIn, BagToSet

(* An activation is in progress if it is counted (server.js:67-330).       *)
LEMMA MemberIsCounted ==
    ASSUME NEW B, IsABag(B)
    PROVE  \A x : /\ Copies(x, B) \in Nat
                  /\ x \in DOMAIN B <=> Copies(x, B) > 0
BY DEF IsABag, Copies, BagIn, BagToSet

(* One activation gives way to others (server.js:67-330).                  *)
LEMMA StepIsBag ==
    ASSUME IsABag(calls), NEW e, NEW next, IsABag(next), Step(e, next)
    PROVE  /\ IsABag(calls') /\ e \in DOMAIN calls
           /\ DOMAIN calls' \subseteq DOMAIN calls \cup DOMAIN next
           /\ \A x : Copies(x, calls') = Copies(x, calls)
                       - (IF x = e THEN 1 ELSE 0) + Copies(x, next)
<1> DEFINE rest == BagRemove(calls, e)
<1>1. BagIn(e, calls) /\ calls' = rest (+) next
  BY DEF Step
<1>2. /\ IsABag(rest) /\ DOMAIN rest \subseteq DOMAIN calls
      /\ \A x : Copies(x, rest) = Copies(x, calls) - (IF x = e THEN 1 ELSE 0)
  BY <1>1, RemoveIsBag
<1> HIDE DEF rest
<1>3. /\ IsABag(calls') /\ DOMAIN calls' = DOMAIN rest \cup DOMAIN next
      /\ \A x : Copies(x, calls') = Copies(x, rest) + Copies(x, next)
  BY <1>1, <1>2, SumIsBag
<1>4. e \in DOMAIN calls
  BY <1>1 DEF BagIn, BagToSet
<1> QED
  BY <1>2, <1>3, <1>4

(* A new activation joins those in progress (server.js:96-125, 258).       *)
LEMMA StartIsBag ==
    ASSUME IsABag(calls), NEW e, calls' = calls (+) One(e)
    PROVE  /\ IsABag(calls') /\ DOMAIN calls' = DOMAIN calls \cup {e}
           /\ \A x : Copies(x, calls') = Copies(x, calls)
                       + (IF x = e THEN 1 ELSE 0)
<1>1. /\ IsABag(One(e)) /\ DOMAIN One(e) = {e}
      /\ \A x : Copies(x, One(e)) = IF x = e THEN 1 ELSE 0
  BY OneIsBag
<1> DEFINE one == One(e)
<1> HIDE DEF one
<1>2. /\ IsABag(one) /\ calls' = calls (+) one
  BY <1>1 DEF one
<1>3. /\ IsABag(calls') /\ DOMAIN calls' = DOMAIN calls \cup DOMAIN one
      /\ \A x : Copies(x, calls') = Copies(x, calls) + Copies(x, one)
  BY <1>2, SumIsBag
<1> QED
  BY <1>1, <1>3 DEF one

(***************************************************************************)
(* Type correctness.                                                       *)
(***************************************************************************)
(* The columns that the functions of server.js change (server.js:70-93).   *)
LEMMA RowTyped ==
    ASSUME NEW row \in Row
    PROVE  /\ [row EXCEPT !.pump_activated = ~@] \in Row
           /\ \A c \in Calibrations : [row EXCEPT !.calibration = c] \in Row
           /\ \A t \in Thresholds : [row EXCEPT !.thresholds = t] \in Row
BY DEF Row

(* Every continuation of the handlers of server.js is an Activation.       *)
LEMMA ActivationKinds ==
    ASSUME NEW n \in Nodes
    PROVE  /\ ToggleSelect(n) \in Activation /\ ToggleSend(n) \in Activation
           /\ \A row \in Row : ToggleChange(n, row) \in Activation
           /\ \A row \in Row : ChangeNode(n, row) \in Activation
           /\ \A c \in Calibrations : CalibrateSelect(n, c) \in Activation
           /\ \A t \in Thresholds : ConfigureSelect(n, t) \in Activation
           /\ \A h \in Humidities : InsertHumidity(n, h) \in Activation
           /\ \A r \in Report : DataSelect(n, r) \in Activation
           /\ \A r \in Report, row \in Row \cup {NoRow} :
                DataResume(n, r, row) \in Activation
BY DEF Activation

(* The bags of activations that the actions add.                           *)
ActivationBag(B) == IsABag(B) /\ DOMAIN B \subseteq Activation

(* What a continuation of server.js:67-330 spawns is one, or several.      *)
LEMMA ActivationBags ==
    /\ ActivationBag(None)
    /\ \A e \in Activation : ActivationBag(One(e))
    /\ \A e \in Activation, condition \in BOOLEAN :
         ActivationBag(When(condition, e))
    /\ \A B1, B2 : ActivationBag(B1) /\ ActivationBag(B2)
         => ActivationBag(B1 (+) B2)
<1>1. ActivationBag(None)
  BY NoneIsBag DEF ActivationBag
<1>2. ASSUME NEW e \in Activation
      PROVE  ActivationBag(One(e))
  <2>1. IsABag(One(e)) /\ DOMAIN One(e) = {e}
    BY OneIsBag
  <2> QED
    BY <2>1 DEF ActivationBag
<1>3. ASSUME NEW e \in Activation, NEW condition \in BOOLEAN
      PROVE  ActivationBag(When(condition, e))
  BY <1>1, <1>2 DEF When
<1>4. ASSUME NEW B1, NEW B2, ActivationBag(B1), ActivationBag(B2)
      PROVE  ActivationBag(B1 (+) B2)
  <2>1. IsABag(B1 (+) B2) /\ DOMAIN (B1 (+) B2) = DOMAIN B1 \cup DOMAIN B2
    BY <1>4, SumIsBag DEF ActivationBag
  <2> QED
    BY <1>4, <2>1 DEF ActivationBag
<1> QED
  BY <1>1, <1>2, <1>3, <1>4

(* An activation that gives way to others leaves a bag of activations      *)
(* (server.js:67-330).                                                     *)
LEMMA CallsStep ==
    ASSUME CallsOK, NEW e, NEW next, ActivationBag(next), Step(e, next)
    PROVE  CallsOK' /\ e \in Activation
BY StepIsBag DEF CallsOK, ActivationBag

(* An activation that resumes once, e.g. after its select                  *)
(* (server.js:69-74).                                                      *)
LEMMA CallsStepOne ==
    ASSUME CallsOK, NEW e, NEW f \in Activation, Step(e, One(f))
    PROVE  CallsOK'
BY CallsStep, ActivationBags

(* An activation that ends, e.g. pump_toggle after its send                *)
(* (server.js:74-77).                                                      *)
LEMMA CallsStepNone ==
    ASSUME CallsOK, NEW e, Step(e, None)
    PROVE  CallsOK'
BY CallsStep, ActivationBags

(* A new activation, e.g. of a request (server.js:96-125).                 *)
LEMMA CallsStart ==
    ASSUME CallsOK, NEW e \in Activation, calls' = calls (+) One(e)
    PROVE  CallsOK'
<1>1. ActivationBag(calls')
  BY ActivationBags DEF CallsOK, ActivationBag
<1> QED
  BY <1>1 DEF CallsOK, ActivationBag

(* A process that has ended has nothing in progress (server.js).           *)
LEMMA NoCalls == calls' = None => CallsOK'
BY NoneIsBag DEF CallsOK

(* The types hold when the process has started for the first time          *)
(* (server.js:339-371).                                                    *)
LEMMA TypeInit == Init => TypeOK
<1> USE PlantsAssumption, PlantDbAssumption, BackendAssumption
<1> SUFFICES ASSUME Init PROVE TypeOK
  OBVIOUS
<1>1. DbTypeOK
  BY DEF Init, BackendInit, DbInit, DbTypeOK
<1>2. BackendTypeOK
  BY <1>1, NoneIsBag DEF Init, BackendInit, BackendTypeOK, CallsOK, Command
<1>3. FirmwareTypeOK
  BY DEF Init, FirmwareInit, FirmwareTypeOK
<1> QED
  BY <1>2, <1>3, NoneIsBag DEF Init, TypeOK, UplinkOK

(* The statements of front/db.js keep the tables well typed.               *)
LEMMA ChangeTyped ==
    ASSUME DbTypeOK, NEW n \in Nodes, NEW row \in Row, change_plant_node(n, row)
    PROVE  DbTypeOK'
BY DEF DbTypeOK, change_plant_node

(* Inserting a reading keeps the types of the tables (db.js:109-124).      *)
LEMMA InsertTyped ==
    ASSUME DbTypeOK, NEW n \in Nodes, NEW h \in Humidities,
           insert_plant_humidity(n, h)
    PROVE  DbTypeOK'
BY DEF DbTypeOK, insert_plant_humidity

(* A select that finds a row finds the one of the plant (db.js:188-214).   *)
LEMMA SelectTyped ==
    ASSUME DbTypeOK, NEW n \in Nodes, NEW row \in SelectConfiguration(n), row # NoRow
    PROVE  row \in Row /\ row = plant_nodes[n] /\ Registered(n)
BY DEF DbTypeOK, SelectConfiguration, Registered

(* current_threshold_watering_jobs.pop() (server.js:319).                  *)
LEMMA FrontTyped ==
    ASSUME NEW s \in Seq(Nodes)
    PROVE  Front(s) \in Seq(Nodes)
BY DEF Front

(* A process that dies of a rejected promise leaves typed state            *)
(* (server.js:69-92).                                                      *)
LEMMA DieTyped ==
    ASSUME Die
    PROVE  /\ up' \in BOOLEAN /\ CallsOK'
           /\ current_threshold_watering_jobs' \in Seq(Nodes)
           /\ jobs' \in [Job -> WateringJob \cup {NoJob}]
<1>1. CallsOK'
  BY NoCalls DEF Die
<1>2. current_threshold_watering_jobs' \in Seq(Nodes)
  BY DEF Die
<1>3. up' \in BOOLEAN /\ jobs' \in [Job -> WateringJob \cup {NoJob}]
  BY DEF Die
<1> QED
  BY <1>1, <1>2, <1>3

(* An outside event, such as a click, uses up its budget                   *)
(* (server.js:96-125).                                                     *)
LEMMA SpendTyped ==
    ASSUME left \in [OutsideEvent -> Nat], NEW event \in OutsideEvent, Spend(event)
    PROVE  left' \in [OutsideEvent -> Nat]
BY DEF Spend

(* Sending a command to a board keeps the types (server.js:72-77).         *)
LEMMA SendTyped ==
    ASSUME downlink \in [Nodes -> [Command -> Nat]],
           NEW n \in Nodes, NEW c \in Command, Send(n, c)
    PROVE  downlink' \in [Nodes -> [Command -> Nat]]
BY DEF Send

(* Starting an activation for a request keeps the types                    *)
(* (server.js:96-125).                                                     *)
LEMMA RequestTyped ==
    ASSUME BackendTypeOK, NEW event \in OutsideEvent, NEW e \in Activation,
           Request(event, e)
    PROVE  BackendTypeOK'
<1>1. CallsOK'
  BY CallsStart DEF Request, Start, BackendTypeOK
<1>2. left' \in [OutsideEvent -> Nat]
  BY SpendTyped DEF Request, BackendTypeOK
<1> QED
  BY <1>1, <1>2 DEF Request, BackendTypeOK, DbTypeOK

(* pump_toggle keeps the types (server.js:67-78).                          *)
LEMMA PumpToggleTyped ==
    ASSUME BackendTypeOK, NEW n \in Nodes, PumpToggleStep(n)
    PROVE  BackendTypeOK'
<1>0. DbTypeOK /\ CallsOK
  BY DEF BackendTypeOK
<1>1. CASE PumpToggleSelect(n)
  <2>1. PICK row \in SelectConfiguration(n) :
           \/ row = NoRow /\ Die
           \/ /\ row # NoRow
              /\ Step(ToggleSelect(n),
                      One(ToggleChange(n, [row EXCEPT !.pump_activated = ~@])))
              /\ UNCHANGED <<up, current_threshold_watering_jobs, jobs>>
    BY <1>1 DEF PumpToggleSelect
  <2>2. CASE Die
    BY <1>1, <2>2, DieTyped DEF PumpToggleSelect, BackendTypeOK, DbTypeOK
  <2>3. CASE ~Die
    <3>1. row \in Row
      BY <1>0, <2>1, <2>3, SelectTyped
    <3>2. ToggleChange(n, [row EXCEPT !.pump_activated = ~@]) \in Activation
      BY <3>1, RowTyped, ActivationKinds
    <3>3. CallsOK'
      BY <1>0, <2>1, <2>3, <3>2, CallsStepOne
    <3> QED
      BY <1>1, <2>1, <2>3, <3>3 DEF PumpToggleSelect, BackendTypeOK, DbTypeOK
  <2> QED
    BY <2>2, <2>3
<1>2. ASSUME NEW row \in Row, PumpToggleChange(n, row)
      PROVE  BackendTypeOK'
  <2>1. CallsOK'
    BY <1>0, <1>2, CallsStepOne, ActivationKinds DEF PumpToggleChange
  <2>2. DbTypeOK'
    BY <1>0, <1>2, ChangeTyped DEF PumpToggleChange
  <2> QED
    BY <1>2, <2>1, <2>2 DEF PumpToggleChange, BackendTypeOK
<1>3. CASE PumpToggleSend(n)
  <2>1. CallsOK'
    BY <1>0, <1>3, CallsStepNone DEF PumpToggleSend
  <2>2. downlink' \in [Nodes -> [Command -> Nat]]
    BY <1>3, SendTyped DEF PumpToggleSend, BackendTypeOK, Command
  <2> QED
    BY <1>3, <2>1, <2>2 DEF PumpToggleSend, BackendTypeOK, DbTypeOK
<1> QED
  BY <1>1, <1>2, <1>3 DEF PumpToggleStep

(* calibrate_sensor, configure_thresholding and the statements they submit *)
(* keep the types (server.js:80-94; db.js:86-124).                         *)
LEMMA ConfigurationTyped ==
    ASSUME BackendTypeOK, NEW n \in Nodes, ConfigurationStep(n)
    PROVE  BackendTypeOK'
<1>0. DbTypeOK /\ CallsOK
  BY DEF BackendTypeOK
<1>1. ASSUME NEW c \in Calibrations, CalibrateSensor(n, c)
      PROVE  BackendTypeOK'
  <2>1. PICK row \in SelectConfiguration(n) :
           \/ row = NoRow /\ Die /\ UNCHANGED downlink
           \/ /\ row # NoRow
              /\ Step(CalibrateSelect(n, c),
                      One(ChangeNode(n, [row EXCEPT !.calibration = c])))
              /\ Send(n, c)
              /\ UNCHANGED <<up, current_threshold_watering_jobs, jobs>>
    BY <1>1 DEF CalibrateSensor
  <2>2. CASE Die /\ UNCHANGED downlink
    BY <1>1, <2>2, DieTyped DEF CalibrateSensor, BackendTypeOK, DbTypeOK
  <2>3. CASE row # NoRow /\ Send(n, c)
    <3>1. row \in Row
      BY <1>0, <2>3, SelectTyped
    <3>2. ChangeNode(n, [row EXCEPT !.calibration = c]) \in Activation
      BY <3>1, RowTyped, ActivationKinds
    <3>3. CallsOK'
      BY <1>0, <2>1, <2>3, <3>2, CallsStepOne
    <3>4. downlink' \in [Nodes -> [Command -> Nat]]
      BY <2>3, SendTyped DEF BackendTypeOK, Command
    <3> QED
      BY <1>1, <2>1, <2>3, <3>3, <3>4
         DEF CalibrateSensor, BackendTypeOK, DbTypeOK
  <2> QED
    BY <2>1, <2>2, <2>3
<1>2. ASSUME NEW t \in Thresholds, ConfigureThresholding(n, t)
      PROVE  BackendTypeOK'
  <2>1. PICK row \in SelectConfiguration(n) :
           \/ row = NoRow /\ Die
           \/ /\ row # NoRow
              /\ Step(ConfigureSelect(n, t),
                      One(ChangeNode(n, [row EXCEPT !.thresholds = t])))
              /\ UNCHANGED <<up, current_threshold_watering_jobs, jobs>>
    BY <1>2 DEF ConfigureThresholding
  <2>2. CASE Die
    BY <1>2, <2>2, DieTyped DEF ConfigureThresholding, BackendTypeOK, DbTypeOK
  <2>3. CASE ~Die
    <3>1. row \in Row
      BY <1>0, <2>1, <2>3, SelectTyped
    <3>2. ChangeNode(n, [row EXCEPT !.thresholds = t]) \in Activation
      BY <3>1, RowTyped, ActivationKinds
    <3>3. CallsOK'
      BY <1>0, <2>1, <2>3, <3>2, CallsStepOne
    <3> QED
      BY <1>2, <2>1, <2>3, <3>3
         DEF ConfigureThresholding, BackendTypeOK, DbTypeOK
  <2> QED
    BY <2>2, <2>3
<1>3. ASSUME NEW row \in Row, ChangePlantNode(n, row)
      PROVE  BackendTypeOK'
  <2>1. CallsOK'
    BY <1>0, <1>3, CallsStepNone DEF ChangePlantNode
  <2>2. DbTypeOK'
    BY <1>0, <1>3, ChangeTyped DEF ChangePlantNode
  <2> QED
    BY <1>3, <2>1, <2>2 DEF ChangePlantNode, BackendTypeOK
<1> QED
  BY <1>1, <1>2, <1>3 DEF ConfigurationStep

(* The handler of /data keeps the types (server.js:258-330).               *)
LEMMA DataTyped ==
    ASSUME BackendTypeOK, NEW n \in Nodes, DataStep(n)
    PROVE  BackendTypeOK'
<1>0. DbTypeOK /\ CallsOK
  BY DEF BackendTypeOK
<1>1. ASSUME NEW h \in Humidities, InsertPlantHumidity(n, h)
      PROVE  BackendTypeOK'
  <2>1. CallsOK'
    BY <1>0, <1>1, CallsStepNone DEF InsertPlantHumidity
  <2>2. DbTypeOK'
    BY <1>0, <1>1, InsertTyped DEF InsertPlantHumidity
  <2> QED
    BY <1>1, <2>1, <2>2 DEF InsertPlantHumidity, BackendTypeOK
<1>2. ASSUME NEW r \in Report, DataConfiguration(n, r)
      PROVE  BackendTypeOK'
  <2>1. PICK row \in SelectConfiguration(n) :
           Step(DataSelect(n, r), One(DataResume(n, r, row)))
    BY <1>2 DEF DataConfiguration
  <2>2. row \in Row \cup {NoRow}
    BY <1>0, SelectTyped
  <2>3. CallsOK'
    BY <1>0, <2>1, <2>2, CallsStepOne, ActivationKinds
  <2> QED
    BY <1>2, <2>3 DEF DataConfiguration, BackendTypeOK, DbTypeOK
<1>3. ASSUME NEW r \in Report, DataRegister(n, r)
      PROVE  BackendTypeOK'
  <2> DEFINE row == [pump_activated |-> r.pump_activated,
                     calibration |-> r.calibration,
                     thresholds |-> DefaultThresholds]
  <2>1. row \in Row /\ r.humidity \in Humidities
    BY PlantDbAssumption DEF Row, Report
  <2> HIDE DEF row
  <2>2. /\ ChangeNode(n, row) \in Activation
        /\ InsertHumidity(n, r.humidity) \in Activation
    BY <2>1, ActivationKinds
  <2>3. ActivationBag(One(ChangeNode(n, row)) (+) One(InsertHumidity(n, r.humidity)))
    BY <2>2, ActivationBags
  <2>4. CallsOK'
    BY <1>0, <1>3, <2>3, CallsStep DEF DataRegister, row
  <2> QED
    BY <1>3, <2>4 DEF DataRegister, BackendTypeOK, DbTypeOK
<1>4. ASSUME NEW r \in Report, NEW row \in Row, DataUpdate(n, r, row)
      PROVE  BackendTypeOK'
  <2>1. /\ r.humidity \in Humidities /\ row.calibration \in Calibrations
        /\ (r.pump_activated # row.pump_activated) \in BOOLEAN
        /\ (r.calibration # row.calibration) \in BOOLEAN
        /\ TooDry(n, r, row) \in BOOLEAN
    BY DEF Row, Report, TooDry
  <2>2. /\ ActivationBag(StoreReading(n, r))
        /\ ActivationBag(Retoggle(n, r, row))
        /\ ActivationBag(Recalibrate(n, r, row))
        /\ ActivationBag(When(TooDry(n, r, row), ToggleSelect(n)))
    BY <2>1, ActivationBags, ActivationKinds
       DEF StoreReading, Retoggle, Recalibrate
  <2>3. ActivationBag(StoreReading(n, r) (+) Retoggle(n, r, row)
                      (+) Recalibrate(n, r, row)
                      (+) When(TooDry(n, r, row), ToggleSelect(n)))
    BY <2>2, ActivationBags
  <2>4. CallsOK'
    BY <1>0, <1>4, <2>3, CallsStep DEF DataUpdate
  <2>5. /\ jobs' \in [Job -> WateringJob \cup {NoJob}]
        /\ current_threshold_watering_jobs' \in Seq(Nodes)
    <3>1. CASE TooDry(n, r, row)
      <4>1. row.thresholds.target \in Int
        BY PlantDbAssumption DEF Row
      <4>2. [node |-> n, at |-> "watering", target |-> row.thresholds.target]
              \in WateringJob
        BY <4>1 DEF WateringJob
      <4>3. jobs' \in [Job -> WateringJob \cup {NoJob}]
        BY <1>4, <3>1, <4>2 DEF DataUpdate, BackendTypeOK
      <4>4. current_threshold_watering_jobs' =
              Append(current_threshold_watering_jobs, n)
        BY <1>4, <3>1 DEF DataUpdate
      <4>5. current_threshold_watering_jobs' \in Seq(Nodes)
        BY <4>4 DEF BackendTypeOK
      <4> QED
        BY <4>3, <4>5
    <3>2. CASE ~TooDry(n, r, row)
      BY <1>4, <3>2 DEF DataUpdate, BackendTypeOK
    <3> QED
      BY <3>1, <3>2
  <2> QED
    BY <1>4, <2>4, <2>5 DEF DataUpdate, BackendTypeOK, DbTypeOK
<1> QED
  BY <1>1, <1>2, <1>3, <1>4 DEF DataStep

(* A thresholding loop keeps the types (server.js:308-326).                *)
LEMMA JobTyped ==
    ASSUME BackendTypeOK, NEW j \in Job, JobStep(j)
    PROVE  BackendTypeOK'
<1>0. DbTypeOK /\ CallsOK /\ jobs \in [Job -> WateringJob \cup {NoJob}]
  BY DEF BackendTypeOK
<1>1. jobs[j] \in WateringJob
  BY <1>0 DEF JobStep, BurstOver, WateringCheck, PauseOver
<1>2. /\ jobs[j].node \in Nodes
      /\ [jobs[j] EXCEPT !.at = "watering"] \in WateringJob
      /\ [jobs[j] EXCEPT !.at = "checking"] \in WateringJob
      /\ [jobs[j] EXCEPT !.at = "pausing"] \in WateringJob
  BY <1>1 DEF WateringJob
<1>3. ToggleSelect(jobs[j].node) \in Activation
  BY <1>2, ActivationKinds
<1>4. CASE BurstOver(j)
  <2>1. CallsOK'
    BY <1>0, <1>3, <1>4, CallsStart DEF BurstOver, Start
  <2>2. jobs' \in [Job -> WateringJob \cup {NoJob}]
    BY <1>0, <1>2, <1>4 DEF BurstOver
  <2> QED
    BY <1>4, <2>1, <2>2 DEF BurstOver, BackendTypeOK, DbTypeOK
<1>5. CASE PauseOver(j)
  <2>1. CallsOK'
    BY <1>0, <1>3, <1>5, CallsStart DEF PauseOver, Start
  <2>2. jobs' \in [Job -> WateringJob \cup {NoJob}]
    BY <1>0, <1>2, <1>5 DEF PauseOver
  <2> QED
    BY <1>5, <2>1, <2>2 DEF PauseOver, BackendTypeOK, DbTypeOK
<1>6. CASE WateringCheck(j)
  <2>1. CASE Die
    BY <1>6, <2>1, DieTyped DEF WateringCheck, BackendTypeOK, DbTypeOK
  <2>2. CASE /\ jobs' = [jobs EXCEPT ![j] = NoJob]
             /\ current_threshold_watering_jobs' =
                  Front(current_threshold_watering_jobs)
             /\ UNCHANGED <<up, calls>>
    <3>1. jobs' \in [Job -> WateringJob \cup {NoJob}]
      BY <1>0, <2>2
    <3>2. Front(current_threshold_watering_jobs) \in Seq(Nodes)
      BY FrontTyped DEF BackendTypeOK
    <3> QED
      BY <1>6, <2>2, <3>1, <3>2
         DEF WateringCheck, BackendTypeOK, DbTypeOK, CallsOK
  <2>3. CASE /\ jobs' = [jobs EXCEPT ![j].at = "pausing"]
             /\ UNCHANGED <<up, calls, current_threshold_watering_jobs>>
    <3>1. jobs' \in [Job -> WateringJob \cup {NoJob}]
      BY <1>0, <1>2, <2>3
    <3> QED
      BY <1>6, <2>3, <3>1 DEF WateringCheck, BackendTypeOK, DbTypeOK, CallsOK
  <2> QED
    BY <1>6, <2>1, <2>2, <2>3 DEF WateringCheck
<1> QED
  BY <1>4, <1>5, <1>6 DEF JobStep

(* The website and the schedules keep the types (server.js:96-165).        *)
LEMMA UserTyped ==
    ASSUME BackendTypeOK, NEW n \in Nodes, UserStep(n)
    PROVE  BackendTypeOK'
<1>1. CASE PostPumpToggle(n)
  BY <1>1, RequestTyped, ActivationKinds DEF PostPumpToggle, OutsideEvent
<1>2. ASSUME NEW c \in Calibrations, PostCalibrateSensor(n, c)
      PROVE  BackendTypeOK'
  BY <1>2, RequestTyped, ActivationKinds DEF PostCalibrateSensor, OutsideEvent
<1>3. ASSUME NEW t \in Thresholds, PostConfigureThresholding(n, t)
      PROVE  BackendTypeOK'
  BY <1>3, RequestTyped, ActivationKinds
     DEF PostConfigureThresholding, OutsideEvent
<1>4. CASE ScheduleFires(n)
  BY <1>4, RequestTyped, ActivationKinds DEF ScheduleFires, OutsideEvent
<1> QED
  BY <1>1, <1>2, <1>3, <1>4 DEF UserStep

(* Every step of the backend keeps its types (server.js).                  *)
LEMMA BackendTyped ==
    ASSUME BackendTypeOK, BackendNext
    PROVE  BackendTypeOK'
<1>1. CASE Crash
  <2>1. left' \in [OutsideEvent -> Nat]
    BY <1>1, SpendTyped DEF Crash, BackendTypeOK, OutsideEvent
  <2> QED
    BY <1>1, <2>1, DieTyped DEF Crash, BackendTypeOK, DbTypeOK
<1>2. CASE Restart
  BY <1>2 DEF Restart, BackendTypeOK, DbTypeOK, CallsOK
<1>3. ASSUME NEW n \in Nodes,
             \/ UserStep(n) \/ PumpToggleStep(n)
             \/ ConfigurationStep(n) \/ DataStep(n)
      PROVE  BackendTypeOK'
  BY <1>3, UserTyped, PumpToggleTyped, ConfigurationTyped, DataTyped
<1>4. ASSUME NEW j \in Job, JobStep(j)
      PROVE  BackendTypeOK'
  BY <1>4, JobTyped
<1> QED
  BY <1>1, <1>2, <1>3, <1>4 DEF BackendNext

(* Reports on their way (fw/main.c:109-139, proxy/src/main.rs:123-166).    *)
LEMMA UplinkTyped ==
    ASSUME UplinkOK, NEW n \in Nodes, NEW r \in Report
    PROVE  /\ uplink' = uplink (+) One(DataPost(n, r)) => UplinkOK'
           /\ BagIn(DataPost(n, r), uplink)
                /\ uplink' = BagRemove(uplink, DataPost(n, r)) => UplinkOK'
<1> DEFINE post == DataPost(n, r)
<1>1. post \in [node : Nodes, report : Report]
  BY DEF DataPost
<1> HIDE DEF post
<1>2. ASSUME uplink' = uplink (+) One(post) PROVE UplinkOK'
  <2>1. IsABag(One(post)) /\ DOMAIN One(post) = {post}
    BY OneIsBag
  <2> DEFINE one == One(post)
  <2>2. IsABag(one) /\ IsABag(uplink) /\ uplink' = uplink (+) one
    BY <1>2, <2>1 DEF UplinkOK
  <2> HIDE DEF one
  <2>3. IsABag(uplink') /\ DOMAIN uplink' = DOMAIN uplink \cup DOMAIN one
    BY <2>2, SumIsBag
  <2> QED
    BY <1>1, <2>1, <2>3 DEF UplinkOK, one
<1>3. ASSUME BagIn(post, uplink), uplink' = BagRemove(uplink, post)
      PROVE  UplinkOK'
  <2>1. /\ IsABag(BagRemove(uplink, post))
        /\ DOMAIN BagRemove(uplink, post) \subseteq DOMAIN uplink
    BY <1>3, RemoveIsBag DEF UplinkOK
  <2> QED
    BY <1>3, <2>1 DEF UplinkOK
<1> QED
  BY <1>2, <1>3 DEF post

(* A command that arrives or is lost keeps the types (main.rs:315-425).    *)
LEMMA CommandTaken ==
    ASSUME BackendTypeOK, NEW n \in Nodes, NEW c \in Command,
           TakeCommand(n, c), left' \in [OutsideEvent -> Nat]
    PROVE  BackendTypeOK'
<1>1. downlink' \in [Nodes -> [Command -> Nat]]
  BY DEF TakeCommand, BackendTypeOK
<1> QED
  BY <1>1 DEF TakeCommand, dbVars, processVars, BackendTypeOK, DbTypeOK, CallsOK

(* The network keeps the types (main.rs:123-166, 315-425).                 *)
LEMMA NetworkTyped ==
    ASSUME TypeOK, NEW n \in Nodes, NetworkStep(n)
    PROVE  TypeOK'
<1>0. BackendTypeOK /\ FirmwareTypeOK /\ UplinkOK
  BY DEF TypeOK
<1>1. ASSUME UNCHANGED backendVars PROVE BackendTypeOK'
  BY <1>0, <1>1 DEF backendVars, BackendTypeOK, DbTypeOK, CallsOK
<1>2. ASSUME UNCHANGED firmwareVars PROVE FirmwareTypeOK'
  BY <1>0, <1>2 DEF firmwareVars, FirmwareTypeOK
<1>3. left \in [OutsideEvent -> Nat]
  BY <1>0 DEF BackendTypeOK
<1>4. CASE SendReport(n)
  <2>1. PICK h \in Humidities :
          uplink' = uplink (+) One(DataPost(n, DataReport(n, h)))
    BY <1>4 DEF SendReport
  <2>2. DataReport(n, h) \in Report
    BY <1>0 DEF DataReport, Report, FirmwareTypeOK
  <2> QED
    BY <1>0, <1>1, <1>2, <1>4, <2>1, <2>2, UplinkTyped DEF SendReport, TypeOK
<1>5. CASE DeliverReport(n)
  <2>1. PICK r \in Report :
          /\ BagIn(DataPost(n, r), uplink)
          /\ uplink' = BagRemove(uplink, DataPost(n, r))
          /\ IF up THEN ReceiveData(n, r) ELSE UNCHANGED backendVars
          /\ UNCHANGED firmwareVars
    BY <1>5 DEF DeliverReport
  <2>2. CASE ReceiveData(n, r)
    <3>1. CallsOK'
      BY <1>0, <2>2, CallsStart, ActivationKinds
         DEF ReceiveData, Start, BackendTypeOK
    <3>2. BackendTypeOK'
      BY <1>0, <2>2, <3>1 DEF ReceiveData, BackendTypeOK, DbTypeOK
    <3> QED
      BY <1>0, <1>2, <2>1, <3>2, UplinkTyped DEF TypeOK
  <2> QED
    BY <1>0, <1>1, <1>2, <2>1, <2>2, UplinkTyped DEF TypeOK
<1>6. CASE LoseReport(n)
  <2>1. PICK r \in Report :
          /\ BagIn(DataPost(n, r), uplink)
          /\ uplink' = BagRemove(uplink, DataPost(n, r))
    BY <1>6 DEF LoseReport
  <2>2. left' \in [OutsideEvent -> Nat]
    BY <1>3, <1>6, SpendTyped DEF LoseReport, OutsideEvent
  <2>3. BackendTypeOK'
    BY <1>0, <1>6, <2>2
       DEF LoseReport, dbVars, processVars, BackendTypeOK, DbTypeOK, CallsOK
  <2> QED
    BY <1>0, <1>2, <1>6, <2>1, <2>3, UplinkTyped DEF LoseReport, TypeOK
<1>7. ASSUME NEW c \in Command, TakeCommand(n, c) PROVE UplinkOK'
  BY <1>0, <1>7 DEF TakeCommand, UplinkOK
<1>8. CASE DeliverPumpToggle(n)
  <2>1. BackendTypeOK'
    BY <1>0, <1>3, <1>8, CommandTaken DEF DeliverPumpToggle, Command
  <2>2. FirmwareTypeOK'
    BY <1>0, <1>8 DEF DeliverPumpToggle, pump_toggle, FirmwareTypeOK
  <2> QED
    BY <1>7, <1>8, <2>1, <2>2 DEF DeliverPumpToggle, TypeOK, Command
<1>9. ASSUME NEW c \in Calibrations, DeliverCalibration(n, c) PROVE TypeOK'
  <2>1. BackendTypeOK'
    BY <1>0, <1>3, <1>9, CommandTaken DEF DeliverCalibration, Command
  <2>2. FirmwareTypeOK'
    BY <1>0, <1>9 DEF DeliverCalibration, calibrate, FirmwareTypeOK
  <2> QED
    BY <1>7, <1>9, <2>1, <2>2 DEF DeliverCalibration, TypeOK, Command
<1>10. CASE LoseCommand(n)
  <2>1. left' \in [OutsideEvent -> Nat]
    BY <1>3, <1>10, SpendTyped DEF LoseCommand, OutsideEvent
  <2>2. PICK c \in Command : TakeCommand(n, c)
    BY <1>10 DEF LoseCommand
  <2> QED
    BY <1>0, <1>2, <1>7, <1>10, <2>1, <2>2, CommandTaken DEF LoseCommand, TypeOK
<1> QED
  BY <1>4, <1>5, <1>6, <1>8, <1>9, <1>10 DEF NetworkStep

(* A board keeps the types (fw/main.c:17-168).                             *)
LEMMA NodeTyped ==
    ASSUME TypeOK, NEW n \in Nodes, NodeStep(n)
    PROVE  TypeOK'
<1>1. ASSUME NEW event \in OutsideEvent, NodeEvent(event)
      PROVE  BackendTypeOK' /\ UplinkOK'
  <2>1. left' \in [OutsideEvent -> Nat]
    BY <1>1, SpendTyped DEF NodeEvent, TypeOK, BackendTypeOK
  <2> QED
    BY <1>1, <2>1 DEF NodeEvent, dbVars, processVars, TypeOK, BackendTypeOK,
                      DbTypeOK, CallsOK, UplinkOK
<1>2. "reset" \in OutsideEvent /\ "shell" \in OutsideEvent
  BY DEF OutsideEvent
<1>3. FirmwareTypeOK'
  BY PlantsAssumption
     DEF NodeStep, NodeReset, pump_toggle_command, calibration_command,
         Reset, pump_toggle, calibrate, TypeOK, FirmwareTypeOK
<1> QED
  BY <1>1, <1>2, <1>3
     DEF NodeStep, NodeReset, pump_toggle_command, calibration_command, TypeOK

(* Every step of the system keeps the types (server.js; fw/main.c;         *)
(* main.rs).                                                               *)
LEMMA TypeStep == TypeOK /\ [Next]_vars => TypeOK'
<1> SUFFICES ASSUME TypeOK, [Next]_vars PROVE TypeOK'
  OBVIOUS
<1>1. CASE BackendNext /\ UNCHANGED <<firmwareVars, uplink>>
  BY <1>1, BackendTyped
     DEF firmwareVars, TypeOK, FirmwareTypeOK, UplinkOK
<1>2. ASSUME NEW n \in Nodes, NetworkStep(n) \/ NodeStep(n)
      PROVE  TypeOK'
  BY <1>2, NetworkTyped, NodeTyped
<1>3. CASE UNCHANGED vars
  BY <1>3 DEF vars, backendVars, firmwareVars, TypeOK, BackendTypeOK, DbTypeOK,
              FirmwareTypeOK, CallsOK, UplinkOK
<1> QED
  BY <1>1, <1>2, <1>3 DEF Next

(* Every variable keeps its type: in particular whatever is written to the *)
(* tables is a full row, and only real plants are listed as being watered  *)
(* (server.js:67-94, 258-330).                                             *)
THEOREM TypeCorrect == Spec => []TypeOK
<1> QED
  BY TypeInit, TypeStep, PTL DEF Spec

(***************************************************************************)
(* The list of plants being watered.                                       *)
(***************************************************************************)
LEMMA BookkeepingInit == Init => JobBookkeeping
<1> SUFFICES ASSUME Init PROVE JobBookkeeping
  OBVIOUS
<1>1. Running = {} /\ current_threshold_watering_jobs = <<>>
  BY DEF Running, Init, BackendInit
<1> QED
  BY <1>1, FS_EmptySet DEF JobBookkeeping, IsInjective

(* There are finitely many thresholding loops (server.js:308-326).         *)
LEMMA RunningFinite == IsFiniteSet(Running) /\ Cardinality(Running) \in Nat
<1>1. Running \subseteq Job
  BY DEF Running
<1> QED
  BY <1>1, BackendAssumption, FS_Subset, FS_CardinalityType

(* A loop that goes on is still a loop (server.js:312-325).                *)
LEMMA StillRunning ==
    ASSUME TypeOK, NEW j \in Job, jobs[j] # NoJob,
           NEW at \in {"watering", "checking", "pausing"},
           jobs' = [jobs EXCEPT ![j].at = at]
    PROVE  Running' = Running
<1>1. jobs \in [Job -> WateringJob \cup {NoJob}] /\ jobs[j] \in WateringJob
  BY DEF TypeOK, BackendTypeOK
<1>2. [jobs[j] EXCEPT !.at = at] \in WateringJob
  BY <1>1 DEF WateringJob
<1>3. jobs'[j] # NoJob /\ \A i \in Job \ {j} : jobs'[i] = jobs[i]
  BY <1>1, <1>2, BackendAssumption
<1> QED
  BY <1>3 DEF Running

(* A process that dies takes loops and list with it (server.js:256, 308).  *)
LEMMA DieBookkeeping == Die => JobBookkeeping'
<1> SUFFICES ASSUME Die PROVE JobBookkeeping'
  OBVIOUS
<1>1. Running' = {} /\ current_threshold_watering_jobs' = <<>>
  BY DEF Running, Die
<1> QED
  BY <1>1, FS_EmptySet DEF JobBookkeeping, IsInjective

(* A new loop is listed at the end; its plant was not listed              *)
(* (server.js:305-307).                                                    *)
LEMMA LoopStarts ==
    ASSUME TypeOK, JobBookkeeping, NEW n \in Nodes, NEW j \in Job,
           NEW job \in WateringJob, jobs[j] = NoJob,
           n \notin ToSet(current_threshold_watering_jobs),
           jobs' = [jobs EXCEPT ![j] = job],
           current_threshold_watering_jobs' =
               Append(current_threshold_watering_jobs, n)
    PROVE  JobBookkeeping'
<1> DEFINE list == current_threshold_watering_jobs
<1>1. list \in Seq(Nodes) /\ jobs \in [Job -> WateringJob \cup {NoJob}]
  BY DEF TypeOK, BackendTypeOK
<1>2. Running' = Running \cup {j} /\ j \notin Running
  BY <1>1, BackendAssumption DEF Running
<1>3. Cardinality(Running') = Cardinality(Running) + 1
  BY <1>2, RunningFinite, FS_AddElement
<1>4. Len(list') = Len(list) + 1
  BY <1>1
<1>5. IsInjective(list')
  <2>1. \A i \in 1 .. Len(list) : list[i] # n
    BY <1>1 DEF ToSet
  <2>2. \A i \in 1 .. Len(list') :
          list'[i] = IF i = Len(list) + 1 THEN n ELSE list[i]
    BY <1>1
  <2>3. \A i, k \in 1 .. Len(list) : list[i] = list[k] => i = k
    BY <1>1 DEF JobBookkeeping, IsInjective
  <2>4. DOMAIN list' = 1 .. Len(list) + 1
    BY <1>1
  <2> QED
    BY <1>1, <1>4, <2>1, <2>2, <2>3, <2>4 DEF IsInjective
<1> QED
  BY <1>3, <1>4, <1>5 DEF JobBookkeeping

(* Array.pop (server.js:320) leaves the entries before the last.           *)
LEMMA FrontOfSequence ==
    ASSUME NEW S, NEW s \in Seq(S), Len(s) > 0
    PROVE  /\ Front(s) \in Seq(S) /\ Len(Front(s)) = Len(s) - 1
           /\ \A i \in 1 .. Len(s) - 1 : Front(s)[i] = s[i]
<1> DEFINE m == Len(s) - 1
<1>1. m \in Nat /\ Front(s) = SubSeq(s, 1, m) /\ \A i \in 1 .. m : s[i] \in S
  BY DEF Front
<1> HIDE DEF m
<1>2. /\ SubSeq(s, 1, m) \in Seq(S)
      /\ Len(SubSeq(s, 1, m)) = IF 1 <= m THEN m - 1 + 1 ELSE 0
      /\ \A i \in 1 .. m - 1 + 1 : SubSeq(s, 1, m)[i] = s[1 + i - 1]
  BY <1>1, SubSeqProperties
<1>3. Len(Front(s)) = m /\ \A i \in 1 .. m : Front(s)[i] = s[i]
  BY <1>1, <1>2
<1> QED
  BY <1>1, <1>2, <1>3 DEF m

(* A loop that ends takes one entry with it (server.js:317-321).           *)
LEMMA LoopEnds ==
    ASSUME TypeOK, JobBookkeeping, NEW j \in Job, jobs[j] # NoJob,
           jobs' = [jobs EXCEPT ![j] = NoJob],
           current_threshold_watering_jobs' =
               Front(current_threshold_watering_jobs)
    PROVE  JobBookkeeping'
<1> DEFINE list == current_threshold_watering_jobs
<1>1. list \in Seq(Nodes) /\ jobs \in [Job -> WateringJob \cup {NoJob}]
  BY DEF TypeOK, BackendTypeOK
<1>2. Running' = Running \ {j} /\ j \in Running
  BY <1>1 DEF Running
<1>3. Cardinality(Running') = Cardinality(Running) - 1
  BY <1>2, RunningFinite, FS_RemoveElement
<1>4. Len(list) > 0
  BY <1>1, <1>2, RunningFinite, FS_EmptySet DEF JobBookkeeping
<1>5. /\ Len(list') = Len(list) - 1 /\ DOMAIN list' = 1 .. Len(list) - 1
      /\ \A i \in 1 .. Len(list) - 1 : list'[i] = list[i]
  <2>1. /\ Front(list) \in Seq(Nodes) /\ Len(Front(list)) = Len(list) - 1
        /\ \A i \in 1 .. Len(list) - 1 : Front(list)[i] = list[i]
    BY <1>1, <1>4, FrontOfSequence
  <2> QED
    BY <2>1
<1>6. IsInjective(list')
  <2>1. \A i, k \in 1 .. Len(list) : list[i] = list[k] => i = k
    BY <1>1 DEF JobBookkeeping, IsInjective
  <2>2. 1 .. Len(list) - 1 \subseteq 1 .. Len(list)
    BY <1>1, <1>4
  <2> QED
    BY <1>5, <2>1, <2>2 DEF IsInjective
<1> QED
  BY <1>3, <1>5, <1>6 DEF JobBookkeeping

(* Only the start and the end of a loop and of the process touch the two. *)
LEMMA BookkeepingSame ==
    ASSUME JobBookkeeping,
           UNCHANGED <<jobs, current_threshold_watering_jobs>>
    PROVE  JobBookkeeping'
BY DEF JobBookkeeping, Running

(* A loop that sleeps or wakes up is still running (server.js:308-326).    *)
LEMMA BookkeepingGoesOn ==
    ASSUME TypeOK, JobBookkeeping, NEW j \in Job, jobs[j] # NoJob,
           NEW at \in {"watering", "checking", "pausing"},
           jobs' = [jobs EXCEPT ![j].at = at],
           UNCHANGED current_threshold_watering_jobs
    PROVE  JobBookkeeping'
BY StillRunning DEF JobBookkeeping

(* Loops and list change together: push and setTimeout, pop and clear      *)
(* (server.js:304-328).                                                    *)
LEMMA BookkeepingStep ==
    TypeOK /\ JobBookkeeping /\ [Next]_vars => JobBookkeeping'
<1> SUFFICES ASSUME TypeOK, JobBookkeeping, [Next]_vars
             PROVE  JobBookkeeping'
  OBVIOUS
<1> DEFINE Same == UNCHANGED <<jobs, current_threshold_watering_jobs>>
<1>1. CASE UNCHANGED vars
  BY <1>1, BookkeepingSame DEF vars, backendVars
<1>2. CASE Crash \/ Restart
  BY <1>2, BookkeepingSame, DieBookkeeping DEF Crash, Restart
<1>3. ASSUME NEW n \in Nodes, UserStep(n)
      PROVE  JobBookkeeping'
  <2>1. Same
    BY <1>3 DEF UserStep, PostPumpToggle, PostCalibrateSensor,
                PostConfigureThresholding, ScheduleFires, Request
  <2> QED
    BY <2>1, BookkeepingSame
<1>4. ASSUME NEW n \in Nodes, PumpToggleStep(n)
      PROVE  JobBookkeeping'
  <2>1. Same \/ Die
    BY <1>4 DEF PumpToggleStep, PumpToggleSelect, PumpToggleChange, PumpToggleSend
  <2> QED
    BY <2>1, BookkeepingSame, DieBookkeeping
<1>5. ASSUME NEW n \in Nodes, ConfigurationStep(n)
      PROVE  JobBookkeeping'
  <2>1. Same \/ Die
    BY <1>5 DEF ConfigurationStep, CalibrateSensor, ConfigureThresholding,
                ChangePlantNode
  <2> QED
    BY <2>1, BookkeepingSame, DieBookkeeping
<1>6. ASSUME NEW n \in Nodes, NEW r \in Report, NEW row \in Row,
             DataUpdate(n, r, row)
      PROVE  JobBookkeeping'
  <2>1. CASE TooDry(n, r, row)
    <3>1. PICK j \in Job :
            /\ jobs[j] = NoJob
            /\ jobs' = [jobs EXCEPT ![j] =
                  [node |-> n, at |-> "watering",
                   target |-> row.thresholds.target]]
            /\ current_threshold_watering_jobs' =
                  Append(current_threshold_watering_jobs, n)
      BY <1>6, <2>1 DEF DataUpdate
    <3>2. [node |-> n, at |-> "watering", target |-> row.thresholds.target]
            \in WateringJob
      BY PlantDbAssumption DEF WateringJob, Row
    <3> QED
      BY <2>1, <3>1, <3>2, LoopStarts DEF TooDry
  <2>2. CASE ~TooDry(n, r, row)
    BY <1>6, <2>2, BookkeepingSame DEF DataUpdate
  <2> QED
    BY <2>1, <2>2
<1>7. ASSUME NEW n \in Nodes, DataStep(n)
      PROVE  JobBookkeeping'
  <2>1. Same \/ \E r \in Report, row \in Row : DataUpdate(n, r, row)
    BY <1>7 DEF DataStep, InsertPlantHumidity, DataConfiguration, DataRegister
  <2> QED
    BY <2>1, <1>6, BookkeepingSame
<1>8. ASSUME NEW j \in Job, JobStep(j)
      PROVE  JobBookkeeping'
  <2>1. CASE BurstOver(j)
    BY <2>1, BookkeepingGoesOn DEF BurstOver
  <2>2. CASE PauseOver(j)
    BY <2>2, BookkeepingGoesOn DEF PauseOver
  <2>3. CASE WateringCheck(j)
    <3>1. jobs[j] # NoJob
      BY <2>3 DEF WateringCheck
    <3>2. \/ Die
          \/ /\ jobs' = [jobs EXCEPT ![j] = NoJob]
             /\ current_threshold_watering_jobs' =
                   Front(current_threshold_watering_jobs)
          \/ /\ jobs' = [jobs EXCEPT ![j].at = "pausing"]
             /\ UNCHANGED current_threshold_watering_jobs
      BY <2>3 DEF WateringCheck
    <3> QED
      BY <3>1, <3>2, DieBookkeeping, LoopEnds, BookkeepingGoesOn
  <2> QED
    BY <1>8, <2>1, <2>2, <2>3 DEF JobStep
<1>9. ASSUME NEW n \in Nodes, NetworkStep(n)
      PROVE  JobBookkeeping'
  <2>1. Same
    BY <1>9 DEF NetworkStep, SendReport, DeliverReport, LoseReport,
                DeliverPumpToggle, DeliverCalibration, LoseCommand,
                TakeCommand, ReceiveData, backendVars, processVars
  <2> QED
    BY <2>1, BookkeepingSame
<1>10. ASSUME NEW n \in Nodes, NodeStep(n)
       PROVE  JobBookkeeping'
  <2>1. Same
    BY <1>10 DEF NodeStep, NodeReset, pump_toggle_command,
                 calibration_command, NodeEvent, processVars
  <2> QED
    BY <2>1, BookkeepingSame
<1> QED
  BY <1>1, <1>2, <1>3, <1>4, <1>5, <1>7, <1>8, <1>9, <1>10 DEF Next, BackendNext

(* As many plants are listed as being watered as thresholding loops run.   *)
THEOREM Bookkeeping == Spec => []JobBookkeeping
<1>1. Init => JobBookkeeping
  BY BookkeepingInit
<1>2. TypeOK /\ JobBookkeeping /\ [Next]_vars => JobBookkeeping'
  BY BookkeepingStep
<1> QED
  BY <1>1, <1>2, TypeCorrect, PTL DEF Spec

(* There are never more thresholding loops than plants.  A plant may have  *)
(* two, once Array.pop has removed it from the list in place of another;   *)
(* then that other one, still listed, has none (server.js:304, 319).       *)
THEOREM LoopsBounded ==
    ASSUME IsFiniteSet(Nodes)
    PROVE  Spec => [](Cardinality(Running) <= Cardinality(Nodes))
<1>1. TypeOK /\ JobBookkeeping => Cardinality(Running) <= Cardinality(Nodes)
  <2> SUFFICES ASSUME TypeOK, JobBookkeeping
               PROVE  Cardinality(Running) <= Cardinality(Nodes)
    OBVIOUS
  <2>1. current_threshold_watering_jobs \in Seq(Nodes)
    BY DEF TypeOK, BackendTypeOK
  <2>2. Distinct(current_threshold_watering_jobs)
    BY DEF JobBookkeeping, IsInjective, Distinct
  <2> QED
    BY <2>1, <2>2, NoLonger DEF JobBookkeeping
<1> QED
  BY <1>1, TypeCorrect, Bookkeeping, PTL

(***************************************************************************)
(* What is in progress is for plants the database knows.                   *)
(***************************************************************************)
(* Rows and readings are never deleted (db.js:86-124).                     *)
DbGrows ==
    \A n \in Nodes : /\ Registered(n) => Registered(n)'
                     /\ Listed(n) => Listed(n)'

(* Every activation is about one board (server.js:67-330).                 *)
LEMMA ActivationNode == \A e \in Activation : e.node \in Nodes
<1>1. /\ \A n : ToggleSelect(n).node = n /\ ToggleSend(n).node = n
      /\ \A n, row : ToggleChange(n, row).node = n /\ ChangeNode(n, row).node = n
      /\ \A n, c : CalibrateSelect(n, c).node = n
      /\ \A n, t : ConfigureSelect(n, t).node = n
      /\ \A n, h : InsertHumidity(n, h).node = n
      /\ \A n, r : DataSelect(n, r).node = n
      /\ \A n, r, row : DataResume(n, r, row).node = n
  BY DEF ToggleSelect, ToggleSend, ToggleChange, CalibrateSelect,
         ConfigureSelect, ChangeNode, InsertHumidity, DataSelect, DataResume
<1> QED
  BY <1>1 DEF Activation

(* A step that leaves the tables alone forgets no plant (db.js).           *)
LEMMA DbSame == UNCHANGED dbVars /\ KnownRows => DbGrows /\ KnownRows'
BY DEF dbVars, DbGrows, KnownRows, Registered, Listed

(* A row that has been read from a plant without a reading, or made for a  *)
(* new plant, has the default thresholds.                                  *)
LEMMA ChangeKnown ==
    ASSUME TypeOK, KnownRows, NEW n \in Nodes, NEW row \in Row,
           Listed(n) \/ row.thresholds = DefaultThresholds,
           change_plant_node(n, row)
    PROVE  DbGrows /\ KnownRows'
<1>1. /\ plant_nodes \in [Nodes -> Row \cup {NoRow}] /\ row # NoRow
      /\ plant_humidities' = plant_humidities
  BY PlantDbAssumption DEF TypeOK, BackendTypeOK, DbTypeOK, change_plant_node
<1>2. CASE plant_nodes' = plant_nodes
  BY <1>1, <1>2, DbSame DEF dbVars
<1>3. CASE plant_nodes' = [plant_nodes EXCEPT ![n] = row]
  <2>1. plant_nodes'[n] = row
    BY <1>1, <1>3
  <2>2. \A m \in Nodes \ {n} : plant_nodes'[m] = plant_nodes[m]
    BY <1>1, <1>3
  <2>3. DbGrows
    BY <1>1, <2>1, <2>2 DEF DbGrows, Registered, Listed
  <2>4. KnownRows'
    BY <1>1, <2>1, <2>2 DEF KnownRows, Registered, Listed
  <2> QED
    BY <2>3, <2>4
<1> QED
  BY <1>2, <1>3 DEF change_plant_node

(* Inserting a reading may list a plant and forgets none (db.js:109-124).  *)
LEMMA InsertKnown ==
    ASSUME TypeOK, KnownRows, NEW n \in Nodes, NEW h \in Humidities,
           insert_plant_humidity(n, h)
    PROVE  DbGrows /\ KnownRows'
<1>1. /\ plant_humidities \in [Nodes -> Humidities \cup {NoReading}]
      /\ h # NoReading /\ plant_nodes' = plant_nodes
  BY PlantDbAssumption DEF TypeOK, BackendTypeOK, DbTypeOK, insert_plant_humidity
<1>2. CASE plant_humidities' = plant_humidities
  BY <1>1, <1>2, DbSame DEF dbVars
<1>3. CASE plant_humidities' = [plant_humidities EXCEPT ![n] = h]
  <2>1. \A m \in Nodes : plant_humidities[m] # NoReading
                          => plant_humidities'[m] # NoReading
    BY <1>1, <1>3
  <2> QED
    BY <1>1, <2>1 DEF DbGrows, KnownRows, Registered, Listed
<1> QED
  BY <1>2, <1>3 DEF insert_plant_humidity

(* What is harmless stays so while no plant is forgotten (db.js:86-124).   *)
LEMMA HarmlessStays ==
    ASSUME DbGrows, NEW e \in Activation, Harmless(e)
    PROVE  Harmless(e)'
BY ActivationNode DEF DbGrows, Harmless

HarmlessBag(B) == IsABag(B) /\ \A e \in DOMAIN B : e \in Activation /\ Harmless(e)

(* Continuations are harmless if each of them is (server.js:293-330).      *)
LEMMA HarmlessBags ==
    /\ HarmlessBag(None)
    /\ \A e \in Activation : Harmless(e) => HarmlessBag(One(e))
    /\ \A e \in Activation, condition \in BOOLEAN :
         (condition => Harmless(e)) => HarmlessBag(When(condition, e))
    /\ \A B1, B2 : HarmlessBag(B1) /\ HarmlessBag(B2) => HarmlessBag(B1 (+) B2)
<1>1. HarmlessBag(None)
  BY NoneIsBag DEF HarmlessBag
<1>2. ASSUME NEW e \in Activation, Harmless(e)
      PROVE  HarmlessBag(One(e))
  <2>1. IsABag(One(e)) /\ DOMAIN One(e) = {e}
    BY OneIsBag
  <2> QED
    BY <1>2, <2>1 DEF HarmlessBag
<1>3. ASSUME NEW e \in Activation, NEW condition \in BOOLEAN,
             condition => Harmless(e)
      PROVE  HarmlessBag(When(condition, e))
  BY <1>1, <1>2, <1>3 DEF When
<1>4. ASSUME NEW B1, NEW B2, HarmlessBag(B1), HarmlessBag(B2)
      PROVE  HarmlessBag(B1 (+) B2)
  <2>1. IsABag(B1 (+) B2) /\ DOMAIN (B1 (+) B2) = DOMAIN B1 \cup DOMAIN B2
    BY <1>4, SumIsBag DEF HarmlessBag
  <2> QED
    BY <1>4, <2>1 DEF HarmlessBag
<1> QED
  BY <1>1, <1>2, <1>3, <1>4

(* An activation that gives way to harmless ones (server.js:67-330).       *)
LEMMA HarmlessStep ==
    ASSUME TypeOK, KnownActivations, DbGrows,
           NEW e, NEW next, HarmlessBag(next), Step(e, next)
    PROVE  KnownActivations'
<1>1. IsABag(calls) /\ DOMAIN calls \subseteq Activation /\ IsABag(next)
  BY DEF TypeOK, BackendTypeOK, CallsOK, HarmlessBag
<1>2. DOMAIN calls' \subseteq DOMAIN calls \cup DOMAIN next
  BY <1>1, StepIsBag
<1>3. \A x \in DOMAIN calls' : x \in Activation /\ Harmless(x)
  BY <1>1, <1>2 DEF KnownActivations, HarmlessBag
<1> QED
  BY <1>3, HarmlessStays DEF KnownActivations

(* A harmless activation starts (server.js:96-125).                        *)
LEMMA HarmlessStart ==
    ASSUME TypeOK, KnownActivations, DbGrows,
           NEW e \in Activation, Harmless(e), Start(One(e))
    PROVE  KnownActivations'
<1>1. IsABag(calls) /\ DOMAIN calls \subseteq Activation
  BY DEF TypeOK, BackendTypeOK, CallsOK
<1>2. DOMAIN calls' = DOMAIN calls \cup {e}
  BY <1>1, StartIsBag DEF Start
<1>3. \A x \in DOMAIN calls' : x \in Activation /\ Harmless(x)
  BY <1>1, <1>2 DEF KnownActivations
<1> QED
  BY <1>3, HarmlessStays DEF KnownActivations

(* Nothing starts and nothing resumes (server.js:308-326).                 *)
LEMMA HarmlessSame ==
    ASSUME TypeOK, KnownActivations, DbGrows, UNCHANGED calls
    PROVE  KnownActivations'
<1>1. DOMAIN calls' = DOMAIN calls /\ DOMAIN calls \subseteq Activation
  BY DEF TypeOK, BackendTypeOK, CallsOK
<1> QED
  BY <1>1, HarmlessStays DEF KnownActivations

(* No command is sent and none arrives (server.js:72-77).                  *)
LEMMA CommandsSame ==
    ASSUME KnownCommands, DbGrows, UNCHANGED downlink
    PROVE  KnownCommands'
BY DEF KnownCommands, DbGrows

(* A command is sent to a plant that has a row (server.js:72-77).          *)
LEMMA CommandSent ==
    ASSUME TypeOK, KnownCommands, DbGrows,
           NEW n \in Nodes, NEW c, Registered(n), Send(n, c)
    PROVE  KnownCommands'
<1>1. \A m \in Nodes \ {n} : downlink'[m] = downlink[m]
  BY DEF TypeOK, BackendTypeOK, Send
<1> QED
  BY <1>1 DEF KnownCommands, DbGrows

(* No loop starts (server.js:304-308).                                     *)
LEMMA LoopsSame ==
    ASSUME TypeOK, KnownLoops, DbGrows, UNCHANGED jobs
    PROVE  KnownLoops'
<1>1. \A j \in Running : jobs[j].node \in Nodes
  BY DEF TypeOK, BackendTypeOK, Running, WateringJob
<1> QED
  BY <1>1 DEF KnownLoops, Running, DbGrows

(* A process that dies of a rejected promise forgets no plant              *)
(* (server.js:69-92).                                                      *)
LEMMA DieKnown ==
    ASSUME KnownRows, KnownCommands, Die,
           UNCHANGED <<plant_nodes, plant_humidities, downlink>>
    PROVE  KnownPlants'
<1>1. DbGrows /\ KnownRows'
  BY DbSame DEF dbVars
<1>2. KnownActivations'
  BY NoneIsBag DEF Die, KnownActivations
<1>3. KnownLoops'
  BY DEF Die, KnownLoops, Running
<1> QED
  BY <1>1, <1>2, <1>3, CommandsSame DEF KnownPlants

(***************************************************************************)
(* What becomes of each kind of activation (server.js:67-94, 258-330).     *)
(***************************************************************************)
LEMMA HarmlessKinds ==
    ASSUME NEW n \in Nodes
    PROVE  /\ Harmless(ToggleSelect(n)) <=> Registered(n)
           /\ Harmless(ToggleSend(n)) <=> Registered(n)
           /\ \A c : Harmless(CalibrateSelect(n, c)) <=> Registered(n)
           /\ \A t : Harmless(ConfigureSelect(n, t)) <=> Listed(n)
           /\ \A h : Harmless(InsertHumidity(n, h))
           /\ \A r : Harmless(DataSelect(n, r))
BY DEF Harmless, ToggleSelect, ToggleSend, CalibrateSelect, ConfigureSelect,
       InsertHumidity, DataSelect, Listed

(* When an activation that holds a row is harmless (server.js:70, 287).    *)
LEMMA HarmlessRows ==
    ASSUME NEW n \in Nodes, NEW row \in Row
    PROVE  /\ Harmless(ToggleChange(n, row)) <=>
                 /\ Registered(n)
                 /\ Listed(n) \/ row.thresholds = DefaultThresholds
           /\ Harmless(ChangeNode(n, row)) <=>
                 (Listed(n) \/ row.thresholds = DefaultThresholds)
           /\ \A r : Harmless(DataResume(n, r, NoRow))
           /\ \A r : Harmless(DataResume(n, r, row)) <=>
                 /\ Registered(n)
                 /\ Listed(n) \/ row.thresholds = DefaultThresholds
<1>1. row # NoRow
  BY PlantDbAssumption
<1>2. /\ ToggleChange(n, row).node = n /\ ToggleChange(n, row).row = row
      /\ ToggleChange(n, row).at = "pump_toggle: change"
      /\ ChangeNode(n, row).node = n /\ ChangeNode(n, row).row = row
      /\ ChangeNode(n, row).at = "change_plant_node"
  BY DEF ToggleChange, ChangeNode
<1>3. \A r, x : /\ DataResume(n, r, x).node = n /\ DataResume(n, r, x).row = x
                /\ DataResume(n, r, x).at = "data: resume"
  BY DEF DataResume
<1>4. Listed(n) => Registered(n)
  BY DEF Listed
<1>5. Harmless(ToggleChange(n, row)) <=>
        /\ Registered(n)
        /\ Listed(n) \/ row.thresholds = DefaultThresholds
  BY <1>1, <1>2, <1>4 DEF Harmless
<1>6. Harmless(ChangeNode(n, row)) <=>
        (Listed(n) \/ row.thresholds = DefaultThresholds)
  BY <1>1, <1>2, <1>4 DEF Harmless
<1>7. \A r : Harmless(DataResume(n, r, NoRow))
  BY <1>3 DEF Harmless
<1>8. \A r : Harmless(DataResume(n, r, row)) <=>
        /\ Registered(n)
        /\ Listed(n) \/ row.thresholds = DefaultThresholds
  BY <1>1, <1>3, <1>4 DEF Harmless
<1> QED
  BY <1>5, <1>6, <1>7, <1>8

(* The selects yield no row, or one that fits the plant.                   *)
LEMMA SelectKnown ==
    ASSUME TypeOK, KnownRows, NEW n \in Nodes,
           NEW row \in SelectConfiguration(n), row # NoRow
    PROVE  /\ row \in Row /\ Registered(n)
           /\ Listed(n) \/ row.thresholds = DefaultThresholds
<1>1. row = plant_nodes[n] /\ plant_nodes[n] \in Row
  BY DEF TypeOK, BackendTypeOK, DbTypeOK, SelectConfiguration
<1> QED
  BY <1>1 DEF KnownRows, Registered

(* pump_toggle acts on known plants only (server.js:67-78).                *)
LEMMA PumpToggleKnown ==
    ASSUME TypeOK, KnownPlants, NEW n \in Nodes, PumpToggleStep(n)
    PROVE  KnownPlants'
<1>1. KnownActivations /\ KnownRows /\ KnownCommands /\ KnownLoops
  BY DEF KnownPlants
<1>2. CASE PumpToggleSelect(n)
  <2>1. PICK row \in SelectConfiguration(n) :
          \/ row = NoRow /\ Die
          \/ /\ row # NoRow
             /\ Step(ToggleSelect(n),
                     One(ToggleChange(n, [row EXCEPT !.pump_activated = ~@])))
             /\ UNCHANGED jobs
    BY <1>2 DEF PumpToggleSelect
  <2>2. UNCHANGED <<plant_nodes, plant_humidities, downlink>>
    BY <1>2 DEF PumpToggleSelect
  <2>3. CASE Die
    BY <1>1, <2>2, <2>3, DieKnown
  <2>4. CASE ~Die
    <3> DEFINE new == [row EXCEPT !.pump_activated = ~@]
    <3>1. row # NoRow /\ Step(ToggleSelect(n), One(ToggleChange(n, new)))
      BY <2>1, <2>4
    <3>2. /\ row \in Row /\ Registered(n)
          /\ Listed(n) \/ row.thresholds = DefaultThresholds
      BY <1>1, <3>1, SelectKnown
    <3>3. new \in Row /\ new.thresholds = row.thresholds
      BY <3>2, RowTyped DEF Row
    <3> HIDE DEF new
    <3>4. Harmless(ToggleChange(n, new)) /\ ToggleChange(n, new) \in Activation
      BY <3>2, <3>3, HarmlessRows, ActivationKinds
    <3>5. DbGrows /\ KnownRows'
      BY <1>1, <2>2, DbSame DEF dbVars
    <3>6. KnownActivations'
      BY <1>1, <3>1, <3>4, <3>5, HarmlessBags, HarmlessStep
    <3> QED
      BY <1>1, <2>1, <2>2, <2>4, <3>5, <3>6, CommandsSame, LoopsSame DEF KnownPlants
  <2> QED
    BY <2>3, <2>4
<1>3. ASSUME NEW row \in Row, PumpToggleChange(n, row)
      PROVE  KnownPlants'
  <2>1. /\ Step(ToggleChange(n, row), One(ToggleSend(n)))
        /\ change_plant_node(n, row)
        /\ UNCHANGED <<jobs, downlink>>
    BY <1>3 DEF PumpToggleChange
  <2>2. Harmless(ToggleChange(n, row))
    BY <1>1, <2>1 DEF KnownActivations, Step, BagIn, BagToSet
  <2>3. Registered(n) /\ (Listed(n) \/ row.thresholds = DefaultThresholds)
    BY <2>2, HarmlessRows
  <2>4. DbGrows /\ KnownRows'
    BY <1>1, <2>1, <2>3, ChangeKnown
  <2>5. Harmless(ToggleSend(n)) /\ ToggleSend(n) \in Activation
    BY <2>3, HarmlessKinds, ActivationKinds
  <2>6. KnownActivations'
    BY <1>1, <2>1, <2>4, <2>5, HarmlessBags, HarmlessStep
  <2> QED
    BY <1>1, <2>1, <2>4, <2>6, CommandsSame, LoopsSame DEF KnownPlants
<1>4. CASE PumpToggleSend(n)
  <2>1. /\ Step(ToggleSend(n), None) /\ Send(n, "pump_toggle")
        /\ UNCHANGED <<plant_nodes, plant_humidities, jobs>>
    BY <1>4 DEF PumpToggleSend
  <2>2. Harmless(ToggleSend(n))
    BY <1>1, <2>1 DEF KnownActivations, Step, BagIn, BagToSet
  <2>3. Registered(n)
    BY <2>2, HarmlessKinds
  <2>4. DbGrows /\ KnownRows'
    BY <1>1, <2>1, DbSame DEF dbVars
  <2>5. KnownActivations'
    BY <1>1, <2>1, <2>4, HarmlessBags, HarmlessStep
  <2> QED
    BY <1>1, <2>1, <2>3, <2>4, <2>5, CommandSent, LoopsSame DEF KnownPlants
<1> QED
  BY <1>2, <1>3, <1>4 DEF PumpToggleStep

(* calibrate_sensor and configure_thresholding act on known plants only    *)
(* (server.js:80-94).                                                      *)
LEMMA ConfigurationKnown ==
    ASSUME TypeOK, KnownPlants, NEW n \in Nodes, ConfigurationStep(n)
    PROVE  KnownPlants'
<1>1. KnownActivations /\ KnownRows /\ KnownCommands /\ KnownLoops
  BY DEF KnownPlants
<1>2. ASSUME NEW c \in Calibrations, CalibrateSensor(n, c)
      PROVE  KnownPlants'
  <2>1. PICK row \in SelectConfiguration(n) :
          \/ row = NoRow /\ Die /\ UNCHANGED downlink
          \/ /\ row # NoRow
             /\ Step(CalibrateSelect(n, c),
                     One(ChangeNode(n, [row EXCEPT !.calibration = c])))
             /\ Send(n, c)
             /\ UNCHANGED jobs
    BY <1>2 DEF CalibrateSensor
  <2>2. UNCHANGED <<plant_nodes, plant_humidities>>
    BY <1>2 DEF CalibrateSensor
  <2>3. CASE row = NoRow
    BY <1>1, <2>1, <2>2, <2>3, DieKnown
  <2>4. CASE row # NoRow
    <3> DEFINE new == [row EXCEPT !.calibration = c]
    <3>1. /\ row \in Row /\ Registered(n)
          /\ Listed(n) \/ row.thresholds = DefaultThresholds
      BY <1>1, <2>4, SelectKnown
    <3>2. new \in Row /\ new.thresholds = row.thresholds
      BY <3>1, RowTyped DEF Row
    <3>3. Step(CalibrateSelect(n, c), One(ChangeNode(n, new)))
      BY <2>1, <2>4
    <3> HIDE DEF new
    <3>4. Harmless(ChangeNode(n, new)) /\ ChangeNode(n, new) \in Activation
      BY <3>1, <3>2, HarmlessRows, ActivationKinds
    <3>5. DbGrows /\ KnownRows'
      BY <1>1, <2>2, DbSame DEF dbVars
    <3>6. KnownActivations'
      BY <1>1, <3>3, <3>4, <3>5, HarmlessBags, HarmlessStep
    <3> QED
      BY <1>1, <2>1, <2>4, <3>1, <3>5, <3>6, CommandSent, LoopsSame DEF KnownPlants
  <2> QED
    BY <2>3, <2>4
<1>3. ASSUME NEW t \in Thresholds, ConfigureThresholding(n, t)
      PROVE  KnownPlants'
  <2>1. PICK row \in SelectConfiguration(n) :
          \/ row = NoRow /\ Die
          \/ /\ row # NoRow
             /\ Step(ConfigureSelect(n, t),
                     One(ChangeNode(n, [row EXCEPT !.thresholds = t])))
             /\ UNCHANGED jobs
    BY <1>3 DEF ConfigureThresholding
  <2>2. UNCHANGED <<plant_nodes, plant_humidities, downlink>>
    BY <1>3 DEF ConfigureThresholding
  <2>3. CASE row = NoRow
    BY <1>1, <2>1, <2>2, <2>3, DieKnown
  <2>4. CASE row # NoRow
    <3> DEFINE new == [row EXCEPT !.thresholds = t]
    <3>1. row \in Row
      BY <1>1, <2>4, SelectKnown
    <3>2. new \in Row
      BY <3>1, RowTyped
    <3>3. Step(ConfigureSelect(n, t), One(ChangeNode(n, new)))
      BY <2>1, <2>4
    <3> HIDE DEF new
    <3>4. Harmless(ConfigureSelect(n, t))
      BY <1>1, <3>3 DEF KnownActivations, Step, BagIn, BagToSet
    <3>5. Listed(n)
      BY <3>4, HarmlessKinds
    <3>6. Harmless(ChangeNode(n, new)) /\ ChangeNode(n, new) \in Activation
      BY <3>2, <3>5, HarmlessRows, ActivationKinds
    <3>7. DbGrows /\ KnownRows'
      BY <1>1, <2>2, DbSame DEF dbVars
    <3>8. KnownActivations'
      BY <1>1, <3>3, <3>6, <3>7, HarmlessBags, HarmlessStep
    <3> QED
      BY <1>1, <2>1, <2>2, <2>4, <3>7, <3>8, CommandsSame, LoopsSame DEF KnownPlants
  <2> QED
    BY <2>3, <2>4
<1>4. ASSUME NEW row \in Row, ChangePlantNode(n, row)
      PROVE  KnownPlants'
  <2>1. /\ Step(ChangeNode(n, row), None)
        /\ change_plant_node(n, row)
        /\ UNCHANGED <<jobs, downlink>>
    BY <1>4 DEF ChangePlantNode
  <2>2. Harmless(ChangeNode(n, row))
    BY <1>1, <2>1 DEF KnownActivations, Step, BagIn, BagToSet
  <2>3. Listed(n) \/ row.thresholds = DefaultThresholds
    BY <2>2, HarmlessRows
  <2>4. DbGrows /\ KnownRows'
    BY <1>1, <2>1, <2>3, ChangeKnown
  <2>5. KnownActivations'
    BY <1>1, <2>1, <2>4, HarmlessBags, HarmlessStep
  <2> QED
    BY <1>1, <2>1, <2>4, <2>5, CommandsSame, LoopsSame DEF KnownPlants
<1> QED
  BY <1>2, <1>3, <1>4 DEF ConfigurationStep

(* Registration: the new row has the default thresholds, the commands for  *)
(* known plants are skipped (server.js:289-294).                           *)
LEMMA RegisterKnown ==
    ASSUME TypeOK, KnownPlants, NEW n \in Nodes, NEW r \in Report,
           DataRegister(n, r)
    PROVE  KnownPlants'
<1>1. KnownActivations /\ KnownRows /\ KnownCommands /\ KnownLoops
  BY DEF KnownPlants
<1> DEFINE row == [pump_activated |-> r.pump_activated,
                   calibration |-> r.calibration,
                   thresholds |-> DefaultThresholds]
           next == One(ChangeNode(n, row)) (+) One(InsertHumidity(n, r.humidity))
<1>2. /\ Step(DataResume(n, r, NoRow), next)
      /\ UNCHANGED <<plant_nodes, plant_humidities, jobs, downlink>>
  BY DEF DataRegister
<1>3. row \in Row /\ row.thresholds = DefaultThresholds /\ r.humidity \in Humidities
  BY PlantDbAssumption DEF Row, Report
<1>4. HarmlessBag(next)
  <2> HIDE DEF row
  <2>1. Harmless(ChangeNode(n, row)) /\ ChangeNode(n, row) \in Activation
    BY <1>3, HarmlessRows, ActivationKinds
  <2>2. /\ Harmless(InsertHumidity(n, r.humidity))
        /\ InsertHumidity(n, r.humidity) \in Activation
    BY <1>3, HarmlessKinds, ActivationKinds
  <2> QED
    BY <2>1, <2>2, HarmlessBags
<1> HIDE DEF next
<1>5. DbGrows /\ KnownRows'
  BY <1>1, <1>2, DbSame DEF dbVars
<1>6. KnownActivations'
  BY <1>1, <1>2, <1>4, <1>5, HarmlessStep
<1> QED
  BY <1>1, <1>2, <1>5, <1>6, CommandsSame, LoopsSame DEF KnownPlants

(* No reading is below the default threshold: a plant that gets a loop has *)
(* been configured, so it is listed (server.js:303-309).                   *)
LEMMA UpdateKnown ==
    ASSUME TypeOK, KnownPlants, NEW n \in Nodes, NEW r \in Report,
           NEW row \in Row, DataUpdate(n, r, row)
    PROVE  KnownPlants'
<1>1. KnownActivations /\ KnownRows /\ KnownCommands /\ KnownLoops
  BY DEF KnownPlants
<1> DEFINE next == StoreReading(n, r) (+) Retoggle(n, r, row)
                   (+) Recalibrate(n, r, row)
                   (+) When(TooDry(n, r, row), ToggleSelect(n))
<1>2. /\ Step(DataResume(n, r, row), next)
      /\ UNCHANGED <<plant_nodes, plant_humidities, downlink>>
  BY DEF DataUpdate
<1>3. Harmless(DataResume(n, r, row))
  BY <1>1, <1>2 DEF KnownActivations, Step, BagIn, BagToSet
<1>4. Registered(n) /\ (Listed(n) \/ row.thresholds = DefaultThresholds)
  BY <1>3, HarmlessRows
<1>5. /\ r.humidity \in Humidities /\ row.calibration \in Calibrations
      /\ TooDry(n, r, row) \in BOOLEAN
      /\ (r.pump_activated # row.pump_activated) \in BOOLEAN
      /\ (r.calibration # row.calibration) \in BOOLEAN
  BY DEF Report, Row, TooDry
<1>6. HarmlessBag(next)
  <2>1. /\ Harmless(ToggleSelect(n)) /\ ToggleSelect(n) \in Activation
        /\ Harmless(CalibrateSelect(n, row.calibration))
        /\ CalibrateSelect(n, row.calibration) \in Activation
        /\ Harmless(InsertHumidity(n, r.humidity))
        /\ InsertHumidity(n, r.humidity) \in Activation
    BY <1>4, <1>5, HarmlessKinds, ActivationKinds
  <2>2. HarmlessBag(StoreReading(n, r))
    BY <2>1, HarmlessBags DEF StoreReading
  <2>3. HarmlessBag(Retoggle(n, r, row))
    BY <1>5, <2>1, HarmlessBags DEF Retoggle
  <2>4. HarmlessBag(Recalibrate(n, r, row))
    BY <1>5, <2>1, HarmlessBags DEF Recalibrate
  <2>5. HarmlessBag(When(TooDry(n, r, row), ToggleSelect(n)))
    BY <1>5, <2>1, HarmlessBags
  <2> QED
    BY <2>2, <2>3, <2>4, <2>5, HarmlessBags
<1> HIDE DEF next
<1>7. DbGrows /\ KnownRows'
  BY <1>1, <1>2, DbSame DEF dbVars
<1>8. KnownActivations'
  BY <1>1, <1>2, <1>6, <1>7, HarmlessStep
<1>9. KnownLoops'
  <2>1. CASE TooDry(n, r, row)
    <3>1. ~(r.humidity < DefaultThresholds.bottom)
      <4>1. r.humidity \in 0 .. 255
        BY <1>5, PlantsAssumption
      <4>2. DefaultThresholds \in [bottom : Int, target : Int]
        BY PlantDbAssumption
      <4>3. DefaultThresholds.bottom \in Int
        BY <4>2
      <4>4. DefaultThresholds.bottom <= r.humidity
        BY <1>5, PlantDbAssumption
      <4> QED
        BY <4>1, <4>3, <4>4
    <3>2. Listed(n)
      BY <1>4, <2>1, <3>1 DEF TooDry
    <3>3. PICK j \in Job :
            jobs' = [jobs EXCEPT ![j] = [node |-> n, at |-> "watering",
                                         target |-> row.thresholds.target]]
      BY <2>1 DEF DataUpdate
    <3>4. /\ jobs \in [Job -> WateringJob \cup {NoJob}]
          /\ \A i \in Running : jobs[i].node \in Nodes
      BY DEF TypeOK, BackendTypeOK, Running, WateringJob
    <3>5. jobs'[j].node = n /\ \A i \in Job \ {j} : jobs'[i] = jobs[i]
      BY <3>3, <3>4
    <3> QED
      BY <1>1, <1>7, <3>2, <3>4, <3>5 DEF KnownLoops, Running, DbGrows
  <2>2. CASE ~TooDry(n, r, row)
    BY <1>1, <1>7, <2>2, LoopsSame DEF DataUpdate
  <2> QED
    BY <2>1, <2>2
<1> QED
  BY <1>1, <1>2, <1>7, <1>8, <1>9, CommandsSame DEF KnownPlants

(* The handler of /data acts on known plants only, or registers one        *)
(* (server.js:258-330).                                                    *)
LEMMA DataKnown ==
    ASSUME TypeOK, KnownPlants, NEW n \in Nodes, DataStep(n)
    PROVE  KnownPlants'
<1>1. KnownActivations /\ KnownRows /\ KnownCommands /\ KnownLoops
  BY DEF KnownPlants
<1>2. ASSUME NEW h \in Humidities, InsertPlantHumidity(n, h)
      PROVE  KnownPlants'
  <2>1. /\ Step(InsertHumidity(n, h), None)
        /\ insert_plant_humidity(n, h)
        /\ UNCHANGED <<jobs, downlink>>
    BY <1>2 DEF InsertPlantHumidity
  <2>2. DbGrows /\ KnownRows'
    BY <1>1, <2>1, InsertKnown
  <2>3. KnownActivations'
    BY <1>1, <2>1, <2>2, HarmlessBags, HarmlessStep
  <2> QED
    BY <1>1, <2>1, <2>2, <2>3, CommandsSame, LoopsSame DEF KnownPlants
<1>3. ASSUME NEW r \in Report, DataConfiguration(n, r)
      PROVE  KnownPlants'
  <2>1. PICK row \in SelectConfiguration(n) :
          Step(DataSelect(n, r), One(DataResume(n, r, row)))
    BY <1>3 DEF DataConfiguration
  <2>2. UNCHANGED <<plant_nodes, plant_humidities, jobs, downlink>>
    BY <1>3 DEF DataConfiguration
  <2>3. DbGrows /\ KnownRows'
    BY <1>1, <2>2, DbSame DEF dbVars
  <2>4. Harmless(DataResume(n, r, row)) /\ DataResume(n, r, row) \in Activation
    <3>1. CASE row = NoRow
      <4>1. DefaultThresholds \in Thresholds
        BY PlantDbAssumption
      <4>2. DataResume(n, r, NoRow).at = "data: resume"
            /\ DataResume(n, r, NoRow).row = NoRow
        BY DEF DataResume
      <4>3. Harmless(DataResume(n, r, NoRow))
        BY <4>2 DEF Harmless
      <4> QED
        BY <3>1, <4>3, ActivationKinds
    <3>2. CASE row # NoRow
      <4>1. /\ row \in Row /\ Registered(n)
            /\ Listed(n) \/ row.thresholds = DefaultThresholds
        BY <1>1, <3>2, SelectKnown
      <4> QED
        BY <4>1, HarmlessRows, ActivationKinds
    <3> QED
      BY <3>1, <3>2
  <2>5. KnownActivations'
    BY <1>1, <2>1, <2>3, <2>4, HarmlessBags, HarmlessStep
  <2> QED
    BY <1>1, <2>2, <2>3, <2>5, CommandsSame, LoopsSame DEF KnownPlants
<1> QED
  BY <1>2, <1>3, RegisterKnown, UpdateKnown DEF DataStep

(* A form is for a listed plant, a schedule too (server.js:96-125, 143).   *)
LEMMA UserKnown ==
    ASSUME TypeOK, KnownPlants, NEW n \in Nodes, UserStep(n)
    PROVE  KnownPlants'
<1>1. KnownActivations /\ KnownRows /\ KnownCommands /\ KnownLoops
  BY DEF KnownPlants
<1>2. Listed(n) /\ UNCHANGED <<plant_nodes, plant_humidities, jobs, downlink>>
  BY DEF UserStep, PostPumpToggle, PostCalibrateSensor,
         PostConfigureThresholding, ScheduleFires, Request
<1>3. PICK e \in {ToggleSelect(n)} \cup {CalibrateSelect(n, c) : c \in Calibrations}
                  \cup {ConfigureSelect(n, t) : t \in Thresholds} :
        Start(One(e))
  BY DEF UserStep, PostPumpToggle, PostCalibrateSensor,
         PostConfigureThresholding, ScheduleFires, Request
<1>4. Registered(n)
  BY <1>2 DEF Listed
<1>5. e \in Activation /\ Harmless(e)
  BY <1>2, <1>4, HarmlessKinds, ActivationKinds
<1>6. DbGrows /\ KnownRows'
  BY <1>1, <1>2, DbSame DEF dbVars
<1>7. KnownActivations'
  BY <1>1, <1>3, <1>5, <1>6, HarmlessStart
<1> QED
  BY <1>1, <1>2, <1>6, <1>7, CommandsSame, LoopsSame DEF KnownPlants

(* A thresholding loop acts on a listed plant (server.js:308-326).         *)
LEMMA JobKnown ==
    ASSUME TypeOK, KnownPlants, NEW j \in Job, JobStep(j)
    PROVE  KnownPlants'
<1>1. KnownActivations /\ KnownRows /\ KnownCommands /\ KnownLoops
  BY DEF KnownPlants
<1>2. jobs[j] # NoJob /\ UNCHANGED <<plant_nodes, plant_humidities, downlink>>
  BY DEF JobStep, BurstOver, WateringCheck, PauseOver
<1>3. /\ jobs \in [Job -> WateringJob \cup {NoJob}] /\ jobs[j] \in WateringJob
      /\ jobs[j].node \in Nodes
  BY <1>2 DEF TypeOK, BackendTypeOK, WateringJob
<1>4. DbGrows /\ KnownRows' /\ KnownCommands'
  BY <1>1, <1>2, DbSame, CommandsSame DEF dbVars
<1>5. Listed(jobs[j].node) /\ Registered(jobs[j].node)
  BY <1>1, <1>2 DEF KnownLoops, Running, Listed
<1>6. ASSUME NEW at \in {"watering", "checking", "pausing"},
             jobs' = [jobs EXCEPT ![j].at = at]
      PROVE  KnownLoops'
  <2>1. [jobs[j] EXCEPT !.at = at].node = jobs[j].node
    BY <1>3 DEF WateringJob
  <2>2. jobs'[j].node = jobs[j].node /\ \A i \in Job \ {j} : jobs'[i] = jobs[i]
    BY <1>3, <1>6, <2>1
  <2>3. \A i \in Running : jobs[i].node \in Nodes
    BY <1>3 DEF Running, WateringJob
  <2> QED
    BY <1>1, <1>2, <1>3, <1>4, <1>5, <2>2, <2>3 DEF KnownLoops, Running, DbGrows
<1>7. CASE BurstOver(j) \/ PauseOver(j)
  <2>1. PICK at \in {"watering", "checking", "pausing"} :
          jobs' = [jobs EXCEPT ![j].at = at]
    BY <1>7 DEF BurstOver, PauseOver
  <2>2. Start(One(ToggleSelect(jobs[j].node)))
    BY <1>7 DEF BurstOver, PauseOver
  <2>3. ToggleSelect(jobs[j].node) \in Activation /\ Harmless(ToggleSelect(jobs[j].node))
    BY <1>3, <1>5, HarmlessKinds, ActivationKinds
  <2>4. KnownActivations'
    BY <1>1, <1>4, <2>2, <2>3, HarmlessStart
  <2> QED
    BY <1>4, <1>6, <2>1, <2>4 DEF KnownPlants
<1>8. CASE WateringCheck(j)
  <2>1. \/ Die
        \/ jobs' = [jobs EXCEPT ![j] = NoJob] /\ UNCHANGED calls
        \/ jobs' = [jobs EXCEPT ![j].at = "pausing"] /\ UNCHANGED calls
    BY <1>8 DEF WateringCheck
  <2>2. CASE Die
    BY <1>1, <1>2, <2>2, DieKnown
  <2>3. CASE jobs' = [jobs EXCEPT ![j] = NoJob] /\ UNCHANGED calls
    <3>1. \A i \in Running : jobs[i].node \in Nodes
      BY <1>3 DEF Running, WateringJob
    <3>2. KnownLoops'
      BY <1>1, <1>3, <1>4, <2>3, <3>1 DEF KnownLoops, Running, DbGrows
    <3> QED
      BY <1>1, <1>4, <2>3, <3>2, HarmlessSame DEF KnownPlants
  <2>4. CASE jobs' = [jobs EXCEPT ![j].at = "pausing"] /\ UNCHANGED calls
    BY <1>1, <1>4, <1>6, <2>4, HarmlessSame DEF KnownPlants
  <2> QED
    BY <2>1, <2>2, <2>3, <2>4
<1> QED
  BY <1>7, <1>8 DEF JobStep

(* A command that arrives or is lost leaves one copy less on its way.      *)
LEMMA CommandTakenKnown ==
    ASSUME TypeOK, KnownPlants, NEW n \in Nodes, NEW c, TakeCommand(n, c)
    PROVE  KnownPlants'
<1>1. KnownActivations /\ KnownRows /\ KnownCommands /\ KnownLoops
  BY DEF KnownPlants
<1>2. DbGrows /\ KnownRows' /\ KnownActivations' /\ KnownLoops'
  BY <1>1, DbSame, HarmlessSame, LoopsSame DEF TakeCommand, processVars
<1>3. KnownCommands'
  <2>1. \A m \in Nodes \ {n} : downlink'[m] = downlink[m]
    BY DEF TypeOK, BackendTypeOK, TakeCommand
  <2>2. CASE ~(c \in Command)
    <3>1. downlink'[n] = downlink[n]
      BY <2>2 DEF TypeOK, BackendTypeOK, TakeCommand
    <3> QED
      BY <1>1, <1>2, <2>1, <3>1 DEF KnownCommands, DbGrows
  <2>3. CASE c \in Command
    <3>1. Registered(n)
      BY <1>1, <2>3 DEF KnownCommands, TakeCommand
    <3> QED
      BY <1>1, <1>2, <2>1, <3>1 DEF KnownCommands, DbGrows
  <2> QED
    BY <2>2, <2>3
<1> QED
  BY <1>2, <1>3 DEF KnownPlants

(* What does not touch the backend leaves what it knows alone (fw/main.c). *)
LEMMA OthersKnown ==
    TypeOK /\ KnownPlants /\ UNCHANGED <<dbVars, calls, jobs, downlink>>
    => KnownPlants'
BY DbSame, HarmlessSame, CommandsSame, LoopsSame DEF KnownPlants

(* The network carries commands for known plants only (main.rs:315-425).   *)
LEMMA NetworkKnown ==
    ASSUME TypeOK, KnownPlants, NEW n \in Nodes, NetworkStep(n)
    PROVE  KnownPlants'
<1>1. ASSUME NEW r \in Report, ReceiveData(n, r)
      PROVE  KnownPlants'
  <2>1. /\ Start(One(DataSelect(n, r)))
        /\ UNCHANGED <<plant_nodes, plant_humidities, jobs, downlink>>
    BY <1>1 DEF ReceiveData
  <2>2. DbGrows /\ KnownRows'
    BY <2>1, DbSame DEF dbVars, KnownPlants
  <2>3. Harmless(DataSelect(n, r)) /\ DataSelect(n, r) \in Activation
    BY HarmlessKinds, ActivationKinds
  <2>4. KnownActivations'
    BY <2>1, <2>2, <2>3, HarmlessStart DEF KnownPlants
  <2> QED
    BY <2>1, <2>2, <2>4, CommandsSame, LoopsSame DEF KnownPlants
<1>2. CASE SendReport(n) \/ LoseReport(n)
  BY <1>2, OthersKnown DEF SendReport, LoseReport, backendVars, dbVars, processVars
<1>3. CASE DeliverReport(n)
  <2>1. PICK r \in Report : IF up THEN ReceiveData(n, r) ELSE UNCHANGED backendVars
    BY <1>3 DEF DeliverReport
  <2> QED
    BY <1>1, <2>1, OthersKnown DEF backendVars, dbVars
<1>4. CASE DeliverPumpToggle(n) \/ LoseCommand(n)
           \/ \E c \in Calibrations : DeliverCalibration(n, c)
  BY <1>4, CommandTakenKnown DEF DeliverPumpToggle, DeliverCalibration, LoseCommand
<1> QED
  BY <1>2, <1>3, <1>4 DEF NetworkStep

(* At first nothing is known and nothing is in progress                    *)
(* (server.js:339-371).                                                    *)
LEMMA KnownInit == Init => KnownPlants
<1> SUFFICES ASSUME Init PROVE KnownPlants
  OBVIOUS
<1>1. /\ \A n \in Nodes : ~Registered(n) /\ \A c \in Command : downlink[n][c] = 0
      /\ calls = None /\ Running = {}
  BY DEF Init, BackendInit, DbInit, Registered, Running
<1> QED
  BY <1>1, NoneIsBag DEF KnownPlants, KnownActivations, KnownRows, KnownCommands,
     KnownLoops

(* KnownPlants is inductive (server.js:67-371).                            *)
LEMMA KnownStep == TypeOK /\ KnownPlants /\ [Next]_vars => KnownPlants'
<1> SUFFICES ASSUME TypeOK, KnownPlants, [Next]_vars
             PROVE  KnownPlants'
  OBVIOUS
<1>1. CASE UNCHANGED vars
  BY <1>1, OthersKnown DEF vars, backendVars, dbVars
<1>2. CASE Crash
  BY <1>2, DieKnown DEF Crash, KnownPlants
<1>3. CASE Restart
  BY <1>3, OthersKnown DEF Restart, dbVars
<1>4. ASSUME NEW n \in Nodes,
             UserStep(n) \/ PumpToggleStep(n) \/ ConfigurationStep(n) \/ DataStep(n)
      PROVE  KnownPlants'
  BY <1>4, UserKnown, PumpToggleKnown, ConfigurationKnown, DataKnown
<1>5. ASSUME NEW j \in Job, JobStep(j)
      PROVE  KnownPlants'
  BY <1>5, JobKnown
<1>6. ASSUME NEW n \in Nodes, NetworkStep(n)
      PROVE  KnownPlants'
  BY <1>6, NetworkKnown
<1>7. ASSUME NEW n \in Nodes, NodeStep(n)
      PROVE  KnownPlants'
  BY <1>7, OthersKnown DEF NodeStep, NodeReset, pump_toggle_command,
     calibration_command, NodeEvent, dbVars, processVars
<1> QED
  BY <1>1, <1>2, <1>3, <1>4, <1>5, <1>6, <1>7 DEF Next, BackendNext

(* Nothing acts on a plant the database does not know, and loops run only  *)
(* for plants on the website (server.js:289-303).                          *)
THEOREM Known == Spec => []KnownPlants
BY KnownInit, KnownStep, TypeCorrect, PTL DEF Spec

(* KnownPlants is why loops find readings (server.js:314-316).             *)
LEMMA KnownImplies == KnownPlants => LoopHasReading
BY DEF KnownPlants, KnownLoops, LoopHasReading, Listed

(* A loop always finds a reading (server.js:314-316).                      *)
THEOREM Readings == Spec => []LoopHasReading
BY Known, KnownImplies, PTL

(***************************************************************************)
(* The backend stops only when it is stopped.                              *)
(***************************************************************************)
(* No select of an activation in progress comes back empty                 *)
(* (server.js:69, 81, 92).                                                 *)
LEMMA SelectsFindRow ==
    ASSUME KnownPlants, DbMayFail = FALSE, NEW e \in DOMAIN calls,
           e.at \in {"pump_toggle: select", "calibrate_sensor: select",
                    "configure_thresholding: select"}
    PROVE  NoRow \notin SelectConfiguration(e.node)
<1>1. Harmless(e)
  BY DEF KnownPlants, KnownActivations
<1>2. Registered(e.node)
  BY <1>1 DEF Harmless
<1> QED
  BY <1>2 DEF SelectConfiguration, Registered

(* While statements do not fail, a step that stops the process is a crash  *)
(* (server.js:69-92, 316).                                                 *)
LEMMA StopsStep ==
    ASSUME DbMayFail = FALSE, TypeOK, KnownPlants, Next, up, ~up'
    PROVE  left'["crash"] < left["crash"]
<1>1. CASE Crash
  <2>1. left["crash"] \in Nat /\ left' = [left EXCEPT !["crash"] = @ - 1]
    BY <1>1 DEF Crash, Spend, TypeOK, BackendTypeOK, OutsideEvent
  <2>2. left'["crash"] = left["crash"] - 1
    BY <2>1 DEF TypeOK, BackendTypeOK, OutsideEvent
  <2> QED
    BY <2>1, <2>2
<1>2. CASE Restart
  BY <1>2 DEF Restart
<1>3. ASSUME NEW n \in Nodes, UserStep(n) \/ DataStep(n)
      PROVE  FALSE
  BY <1>3 DEF UserStep, PostPumpToggle, PostCalibrateSensor,
     PostConfigureThresholding, ScheduleFires, Request, DataStep,
     InsertPlantHumidity, DataConfiguration, DataRegister, DataUpdate
<1>4. ASSUME NEW n \in Nodes, PumpToggleStep(n)
      PROVE  FALSE
  <2>1. PumpToggleSelect(n) /\ Die
    BY <1>4 DEF PumpToggleStep, PumpToggleSelect, PumpToggleChange, PumpToggleSend
  <2>2. BagIn(ToggleSelect(n), calls) /\ NoRow \in SelectConfiguration(n)
    BY <2>1 DEF PumpToggleSelect
  <2> QED
    BY <2>2, SelectsFindRow DEF BagIn, BagToSet, ToggleSelect
<1>5. ASSUME NEW n \in Nodes, ConfigurationStep(n)
      PROVE  FALSE
  <2>1. ASSUME NEW c \in Calibrations, CalibrateSensor(n, c)
        PROVE  FALSE
    <3>1. BagIn(CalibrateSelect(n, c), calls) /\ NoRow \in SelectConfiguration(n)
      BY <2>1 DEF CalibrateSensor
    <3> QED
      BY <3>1, SelectsFindRow DEF BagIn, BagToSet, CalibrateSelect
  <2>2. ASSUME NEW t \in Thresholds, ConfigureThresholding(n, t)
        PROVE  FALSE
    <3>1. BagIn(ConfigureSelect(n, t), calls) /\ NoRow \in SelectConfiguration(n)
      BY <2>2 DEF ConfigureThresholding
    <3> QED
      BY <3>1, SelectsFindRow DEF BagIn, BagToSet, ConfigureSelect
  <2> QED
    BY <1>5, <2>1, <2>2 DEF ConfigurationStep, ChangePlantNode
<1>6. ASSUME NEW j \in Job, JobStep(j)
      PROVE  FALSE
  <2>1. WateringCheck(j) /\ NoReading \in SelectHumidity(jobs[j].node)
    BY <1>6 DEF JobStep, BurstOver, PauseOver, WateringCheck
  <2>2. plant_humidities[jobs[j].node] # NoReading
    BY <2>1, KnownImplies DEF LoopHasReading, Running, WateringCheck
  <2> QED
    BY <2>1, <2>2 DEF SelectHumidity
<1>7. ASSUME NEW n \in Nodes, NetworkStep(n) \/ NodeStep(n)
      PROVE  FALSE
  BY <1>7 DEF NetworkStep, SendReport, DeliverReport, ReceiveData, LoseReport,
     DeliverPumpToggle, DeliverCalibration, LoseCommand, TakeCommand, NodeStep,
     NodeReset, pump_toggle_command, calibration_command, NodeEvent,
     backendVars, processVars
<1> QED
  BY <1>1, <1>2, <1>3, <1>4, <1>5, <1>6, <1>7 DEF Next, BackendNext

(* While no statement fails the backend stops only when it is stopped: no  *)
(* await leads to a TypeError (server.js:69, 81, 92, 316).                 *)
THEOREM Stops == ASSUME DbMayFail = FALSE PROVE Spec => StopsOnlyWhenStopped
<1>1. TypeOK /\ KnownPlants /\ [Next]_vars
      => [up /\ ~up' => left'["crash"] < left["crash"]]_vars
  BY StopsStep
<1> QED
  BY <1>1, TypeCorrect, Known, PTL DEF Spec, StopsOnlyWhenStopped

=============================================================================
