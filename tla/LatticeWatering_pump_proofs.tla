--------------------- MODULE LatticeWatering_pump_proofs ---------------------
(***************************************************************************)
(* The row and the board of a plant agree about the pump but for faults    *)
(* and stale writes: every toggle flips both, one way or the other.        *)
(***************************************************************************)
EXTENDS LatticeWatering_proofs

(***************************************************************************)
(* Arithmetic of one flip.                                                 *)
(***************************************************************************)
(* One toggle more on its way (server.js:75, fw/main.c:144-153).           *)
LEMMA Parity ==
    ASSUME NEW t \in Nat
    PROVE  (t + 1) % 2 = 1 <=> ~(t % 2 = 1)
OBVIOUS

(* The row or the board flips (server.js:71, fw/main.c:17-23).             *)
LEMMA Flips ==
    ASSUME NEW p \in BOOLEAN, NEW q \in BOOLEAN, NEW odd \in BOOLEAN
    PROVE  /\ ((~p) # q) # (~odd) <=> (p # q) # odd
           /\ (p # (~q)) # odd <=> (p # q) # (~odd)
OBVIOUS

(* Toggles are counted by naturals.                                        *)
LEMMA TogglesNat ==
    ASSUME TypeOK, NEW n \in Nodes
    PROVE  /\ Copies(ToggleSend(n), calls) \in Nat
           /\ downlink[n]["pump_toggle"] \in Nat
           /\ Toggles(n) \in Nat
           /\ pump_activated[n] \in BOOLEAN
           /\ Registered(n) => plant_nodes[n].pump_activated \in BOOLEAN
<1>1. Copies(ToggleSend(n), calls) \in Nat
  BY MemberIsCounted DEF TypeOK, BackendTypeOK, CallsOK
<1>2. downlink[n]["pump_toggle"] \in Nat
  BY DEF TypeOK, BackendTypeOK, Command
<1>3. pump_activated[n] \in BOOLEAN
  BY DEF TypeOK, FirmwareTypeOK
<1>4. Registered(n) => plant_nodes[n].pump_activated \in BOOLEAN
  BY DEF TypeOK, BackendTypeOK, DbTypeOK, Registered, Row
<1> QED
  BY <1>1, <1>2, <1>3, <1>4 DEF Toggles

(***************************************************************************)
(* The four ways in which a step may change what Mismatch compares.        *)
(***************************************************************************)
SameSends(n) == UNCHANGED Copies(ToggleSend(n), calls)
SameCommands(n) == UNCHANGED downlink[n]["pump_toggle"]
SameRow(n) == UNCHANGED plant_nodes[n].pump_activated
SameBoard(n) == UNCHANGED pump_activated[n]

(* Nothing of it changes, or a send becomes a command (server.js:74-77).   *)
LEMMA NothingFlips ==
    ASSUME NEW n \in Nodes, SameRow(n), SameBoard(n), UNCHANGED Toggles(n)
    PROVE  Mismatch(n) <=> Mismatch(n)'
BY DEF Mismatch, SameRow, SameBoard

(* The row is inverted and a toggle is about to be sent (server.js:71-74). *)
LEMMA RowFlips ==
    ASSUME TypeOK, NEW n \in Nodes, Registered(n), SameBoard(n),
           plant_nodes'[n].pump_activated = ~plant_nodes[n].pump_activated,
           Toggles(n)' = Toggles(n) + 1
    PROVE  Mismatch(n) <=> Mismatch(n)'
<1>1. /\ Toggles(n) \in Nat /\ pump_activated[n] \in BOOLEAN
      /\ plant_nodes[n].pump_activated \in BOOLEAN
  BY TogglesNat
<1>2. Toggles(n)' % 2 = 1 <=> ~(Toggles(n) % 2 = 1)
  BY <1>1, Parity
<1> DEFINE odd == Toggles(n) % 2 = 1
           p == plant_nodes[n].pump_activated
           q == pump_activated[n]
<1>3. p' = ~p /\ q' = q /\ odd' = ~odd /\ odd \in BOOLEAN
  BY <1>2 DEF SameBoard
<1>4. ((~p) # q) # (~odd) <=> (p # q) # odd
  BY <1>1, <1>3, Flips
<1>5. (p' # q') # odd' <=> (p # q) # odd
  BY <1>3, <1>4
<1> QED
  BY <1>5 DEF Mismatch

(* A toggle arrives and the board inverts its pump (fw/main.c:144-153).    *)
LEMMA BoardFlips ==
    ASSUME TypeOK, NEW n \in Nodes, Registered(n), SameRow(n),
           pump_activated'[n] = ~pump_activated[n],
           Toggles(n)' + 1 = Toggles(n), Toggles(n)' \in Nat
    PROVE  Mismatch(n) <=> Mismatch(n)'
<1>1. /\ pump_activated[n] \in BOOLEAN /\ plant_nodes[n].pump_activated \in BOOLEAN
  BY TogglesNat
<1>2. Toggles(n) % 2 = 1 <=> ~(Toggles(n)' % 2 = 1)
  BY Parity
<1> DEFINE odd == Toggles(n) % 2 = 1
           p == plant_nodes[n].pump_activated
           q == pump_activated[n]
<1>3. p' = p /\ q' = ~q /\ odd' = ~odd /\ odd \in BOOLEAN
  BY <1>2 DEF SameRow
<1>4. (p # (~q)) # (~odd) <=> (p # q) # odd
  BY <1>1, <1>3, Flips
<1>5. (p' # q') # odd' <=> (p # q) # odd
  BY <1>3, <1>4
<1> QED
  BY <1>5 DEF Mismatch

(***************************************************************************)
(* Activations that are not about to send a toggle.                        *)
(***************************************************************************)
SendFree(B) == IsABag(B) /\ \A n : Copies(ToggleSend(n), B) = 0

NoSend(e) == \A n : ToggleSend(n) # e

(* Continuations send no toggle if none of them does (server.js:67-330).   *)
LEMMA SendFreeBags ==
    /\ SendFree(None)
    /\ \A e : NoSend(e) => SendFree(One(e))
    /\ \A e, condition : condition \in BOOLEAN /\ NoSend(e)
         => SendFree(When(condition, e))
    /\ \A B1, B2 : SendFree(B1) /\ SendFree(B2) => SendFree(B1 (+) B2)
<1>1. SendFree(None)
  BY NoneIsBag DEF SendFree
<1>2. ASSUME NEW e, NoSend(e)
      PROVE  SendFree(One(e))
  <2>1. /\ IsABag(One(e))
        /\ \A x : Copies(x, One(e)) = IF x = e THEN 1 ELSE 0
    BY OneIsBag
  <2>2. \A n : ToggleSend(n) # e
    BY <1>2 DEF NoSend
  <2> QED
    BY <2>1, <2>2 DEF SendFree
<1>3. ASSUME NEW e, NEW condition \in BOOLEAN, NoSend(e)
      PROVE  SendFree(When(condition, e))
  BY <1>1, <1>2, <1>3 DEF When
<1>4. ASSUME NEW B1, NEW B2, SendFree(B1), SendFree(B2)
      PROVE  SendFree(B1 (+) B2)
  <2>1. IsABag(B1) /\ IsABag(B2)
    BY <1>4 DEF SendFree
  <2>2. /\ IsABag(B1 (+) B2)
        /\ \A x : Copies(x, B1 (+) B2) = Copies(x, B1) + Copies(x, B2)
    BY <2>1, SumIsBag
  <2>3. \A n : Copies(ToggleSend(n), B1) = 0 /\ Copies(ToggleSend(n), B2) = 0
    BY <1>4 DEF SendFree
  <2> QED
    BY <2>2, <2>3 DEF SendFree
<1> QED
  BY <1>1, <1>2, <1>3, <1>4

(* Only the last part of pump_toggle sends a toggle (server.js:72-77).     *)
LEMMA NoSendKinds ==
    \A n, x, y :
      /\ NoSend(ToggleSelect(n)) /\ NoSend(ToggleChange(n, x))
      /\ NoSend(CalibrateSelect(n, x)) /\ NoSend(ConfigureSelect(n, x))
      /\ NoSend(ChangeNode(n, x)) /\ NoSend(InsertHumidity(n, x))
      /\ NoSend(DataSelect(n, x)) /\ NoSend(DataResume(n, x, y))
<1> DEFINE Elsewhere(e) == e.at # "pump_toggle: send"
<1>1. \A n, x, y :
        /\ Elsewhere(ToggleSelect(n)) /\ Elsewhere(ToggleChange(n, x))
        /\ Elsewhere(CalibrateSelect(n, x)) /\ Elsewhere(ConfigureSelect(n, x))
        /\ Elsewhere(ChangeNode(n, x)) /\ Elsewhere(InsertHumidity(n, x))
        /\ Elsewhere(DataSelect(n, x)) /\ Elsewhere(DataResume(n, x, y))
  BY DEF ToggleSelect, ToggleChange, CalibrateSelect, ConfigureSelect,
         ChangeNode, InsertHumidity, DataSelect, DataResume
<1>2. \A n : ToggleSend(n).at = "pump_toggle: send"
  BY DEF ToggleSend
<1>3. \A e : Elsewhere(e) => NoSend(e)
  BY <1>2 DEF NoSend
<1> HIDE DEF Elsewhere
<1> QED
  BY <1>1, <1>3

(* An activation that resumes without a toggle keeps their number          *)
(* (server.js:67-330).                                                     *)
LEMMA StepSends ==
    ASSUME TypeOK, NEW e, NoSend(e), NEW next, SendFree(next), Step(e, next),
           NEW n
    PROVE  SameSends(n)
<1>1. IsABag(calls) /\ IsABag(next) /\ Copies(ToggleSend(n), next) = 0
  BY DEF TypeOK, BackendTypeOK, CallsOK, SendFree
<1>2. ToggleSend(n) # e
  BY DEF NoSend
<1>3. Copies(ToggleSend(n), calls') =
        Copies(ToggleSend(n), calls)
          - (IF ToggleSend(n) = e THEN 1 ELSE 0) + Copies(ToggleSend(n), next)
  BY <1>1, StepIsBag
<1>4. Copies(ToggleSend(n), calls) \in Nat
  BY <1>1, MemberIsCounted
<1> QED
  BY <1>1, <1>2, <1>3, <1>4 DEF SameSends

(* A request starts without a toggle (server.js:96-125).                   *)
LEMMA StartSends ==
    ASSUME TypeOK, NEW e, NoSend(e), Start(One(e)), NEW n
    PROVE  SameSends(n)
<1>1. IsABag(calls)
  BY DEF TypeOK, BackendTypeOK, CallsOK
<1>2. ToggleSend(n) # e
  BY DEF NoSend
<1>3. Copies(ToggleSend(n), calls') =
        Copies(ToggleSend(n), calls) + (IF ToggleSend(n) = e THEN 1 ELSE 0)
  BY <1>1, StartIsBag DEF Start
<1>4. Copies(ToggleSend(n), calls) \in Nat
  BY <1>1, MemberIsCounted
<1> QED
  BY <1>2, <1>3, <1>4 DEF SameSends

(* What a step must leave alone, if it neither writes a row nor handles a  *)
(* toggle (server.js:67-330).                                              *)
LEMMA SameAll ==
    ASSUME NEW n \in Nodes, SameSends(n),
           UNCHANGED <<plant_nodes, pump_activated, downlink>>
    PROVE  Mismatch(n) <=> Mismatch(n)'
<1>1. UNCHANGED Toggles(n)
  BY DEF SameSends, Toggles
<1> QED
  BY <1>1, NothingFlips DEF SameRow, SameBoard

(***************************************************************************)
(* Step by step.                                                           *)
(***************************************************************************)
(* The premises all steps share: no fault and no stale write.              *)
Undisturbed(n) == TypeOK /\ Registered(n) /\ ~Fault /\ ~StaleWrite(n)

(* The select of pump_toggle flips nothing (server.js:69-70).              *)
LEMMA ToggleSelectPump ==
    ASSUME NEW n \in Nodes, Undisturbed(n), NEW m \in Nodes,
           PumpToggleSelect(m), UNCHANGED firmwareVars
    PROVE  Mismatch(n) <=> Mismatch(n)'
<1>1. TypeOK /\ up'
  BY DEF Undisturbed, Fault
<1>2. PICK row : Step(ToggleSelect(m),
                   One(ToggleChange(m, [row EXCEPT !.pump_activated = ~@])))
  BY <1>1 DEF PumpToggleSelect, Die
<1>3. SendFree(One(ToggleChange(m, [row EXCEPT !.pump_activated = ~@])))
  BY NoSendKinds, SendFreeBags
<1>4. SameSends(n)
  BY <1>1, <1>2, <1>3, NoSendKinds, StepSends
<1> QED
  BY <1>4, SameAll DEF PumpToggleSelect, firmwareVars

(* The write of pump_toggle that is not stale flips the row.               *)
LEMMA ToggleChangePump ==
    ASSUME NEW n \in Nodes, Undisturbed(n), NEW m \in Nodes, NEW row \in Row,
           PumpToggleChange(m, row), UNCHANGED firmwareVars
    PROVE  Mismatch(n) <=> Mismatch(n)'
<1>1. TypeOK /\ Registered(n) /\ IsABag(calls)
  BY DEF Undisturbed, TypeOK, BackendTypeOK, CallsOK
<1>2. /\ Step(ToggleChange(m, row), One(ToggleSend(m)))
      /\ change_plant_node(m, row) /\ UNCHANGED downlink
  BY DEF PumpToggleChange
<1>3. /\ IsABag(One(ToggleSend(m)))
      /\ \A x : Copies(x, One(ToggleSend(m))) = IF x = ToggleSend(m) THEN 1 ELSE 0
  BY OneIsBag
<1>4. \A x : Copies(x, calls') = Copies(x, calls)
               - (IF x = ToggleChange(m, row) THEN 1 ELSE 0)
               + (IF x = ToggleSend(m) THEN 1 ELSE 0)
  <2> DEFINE next == One(ToggleSend(m))
  <2> HIDE DEF next
  <2>1. IsABag(next) /\ Step(ToggleChange(m, row), next)
    BY <1>2, <1>3 DEF next
  <2>2. \A x : Copies(x, calls') = Copies(x, calls)
                 - (IF x = ToggleChange(m, row) THEN 1 ELSE 0) + Copies(x, next)
    BY <1>1, <2>1, StepIsBag
  <2> QED
    BY <1>3, <2>2 DEF next
<1>5. \A x : Copies(x, calls) \in Nat
  BY <1>1, MemberIsCounted
<1>6. \A i, k : ToggleSend(i) # ToggleChange(k, row)
  BY DEF ToggleSend, ToggleChange
<1>7. CASE m = n
  <2>1. Consumed(ToggleChange(n, row))
    <3>1. Copies(ToggleChange(n, row), calls') = Copies(ToggleChange(n, row), calls) - 1
      BY <1>4, <1>5, <1>6, <1>7
    <3> QED
      BY <1>5, <3>1 DEF Consumed
  <2>2. PumpChanged(n)
    BY <2>1 DEF Undisturbed, StaleWrite
  <2>3. plant_nodes' = [plant_nodes EXCEPT ![n] = row]
    BY <1>2, <1>7, <2>2 DEF change_plant_node, PumpChanged
  <2>4. plant_nodes'[n] = row /\ row.pump_activated \in BOOLEAN
    BY <2>3 DEF Row, Undisturbed, TypeOK, BackendTypeOK, DbTypeOK
  <2>5. plant_nodes[n].pump_activated \in BOOLEAN
    BY <1>1, TogglesNat
  <2>6. plant_nodes'[n].pump_activated = ~plant_nodes[n].pump_activated
    BY <2>2, <2>4, <2>5 DEF PumpChanged
  <2>7. Copies(ToggleSend(n), calls') = Copies(ToggleSend(n), calls) + 1
    BY <1>4, <1>5, <1>6, <1>7
  <2>8. Toggles(n)' = Toggles(n) + 1
    <3> DEFINE sends == Copies(ToggleSend(n), calls)
               commands == downlink[n]["pump_toggle"]
    <3>1. sends \in Nat /\ commands \in Nat /\ commands' = commands
          /\ sends' = sends + 1
      BY <1>1, <1>2, <2>7, TogglesNat
    <3>2. Toggles(n) = sends + commands /\ Toggles(n)' = sends' + commands'
      BY DEF Toggles
    <3> HIDE DEF sends, commands
    <3> QED
      BY <3>1, <3>2
  <2> QED
    BY <1>1, <2>6, <2>8, RowFlips DEF SameBoard, firmwareVars
<1>8. CASE m # n
  <2>1. ToggleSend(n) # ToggleSend(m)
    BY <1>8 DEF ToggleSend
  <2>2. SameSends(n)
    BY <1>4, <1>5, <1>6, <2>1 DEF SameSends
  <2>3. plant_nodes'[n] = plant_nodes[n]
    BY <1>2, <1>8 DEF change_plant_node, Undisturbed, TypeOK, BackendTypeOK, DbTypeOK
  <2>4. UNCHANGED Toggles(n)
    BY <1>2, <2>2 DEF Toggles, SameSends
  <2> QED
    BY <2>3, <2>4, NothingFlips DEF SameRow, SameBoard, firmwareVars
<1> QED
  BY <1>7, <1>8

(* The activation that was about to send becomes a command on its way.     *)
LEMMA ToggleSendPump ==
    ASSUME NEW n \in Nodes, Undisturbed(n), NEW m \in Nodes,
           PumpToggleSend(m), UNCHANGED firmwareVars
    PROVE  Mismatch(n) <=> Mismatch(n)'
<1>1. TypeOK /\ IsABag(calls) /\ IsABag(None)
  BY NoneIsBag DEF Undisturbed, TypeOK, BackendTypeOK, CallsOK
<1>2. /\ Step(ToggleSend(m), None) /\ Send(m, "pump_toggle")
      /\ UNCHANGED plant_nodes
  BY DEF PumpToggleSend
<1>3. \A x : Copies(x, calls') = Copies(x, calls)
               - (IF x = ToggleSend(m) THEN 1 ELSE 0) + Copies(x, None)
  BY <1>1, <1>2, StepIsBag
<1>4. Copies(ToggleSend(n), calls') =
        Copies(ToggleSend(n), calls) - (IF n = m THEN 1 ELSE 0)
  <2>1. ToggleSend(n) = ToggleSend(m) <=> n = m
    BY DEF ToggleSend
  <2>2. Copies(ToggleSend(n), None) = 0 /\ Copies(ToggleSend(n), calls) \in Nat
    BY <1>1, NoneIsBag, TogglesNat
  <2> QED
    BY <1>3, <2>1, <2>2
<1>5. downlink'[n]["pump_toggle"] =
        downlink[n]["pump_toggle"] + (IF n = m THEN 1 ELSE 0)
  <2>1. downlink' = [downlink EXCEPT ![m]["pump_toggle"] = @ + 1]
    BY <1>2 DEF Send
  <2>2. downlink \in [Nodes -> [Command -> Nat]] /\ "pump_toggle" \in Command
    BY <1>1 DEF TypeOK, BackendTypeOK, Command
  <2> QED
    BY <2>1, <2>2
<1>6. UNCHANGED Toggles(n)
  BY <1>1, <1>4, <1>5, TogglesNat DEF Toggles
<1> QED
  BY <1>2, <1>6, NothingFlips DEF SameRow, SameBoard, firmwareVars

(* A calibration command is no toggle (server.js:80-94).                   *)
LEMMA ConfigurationPump ==
    ASSUME NEW n \in Nodes, Undisturbed(n), NEW m \in Nodes,
           ConfigurationStep(m), UNCHANGED firmwareVars
    PROVE  Mismatch(n) <=> Mismatch(n)'
<1>1. TypeOK /\ up' /\ Registered(n) /\ IsABag(calls)
  BY DEF Undisturbed, Fault, TypeOK, BackendTypeOK, CallsOK
<1>2. ASSUME NEW c \in Calibrations, CalibrateSensor(m, c)
      PROVE  Mismatch(n) <=> Mismatch(n)'
  <2>1. /\ UNCHANGED plant_nodes /\ Send(m, c)
        /\ \E row : Step(CalibrateSelect(m, c),
                         One(ChangeNode(m, [row EXCEPT !.calibration = c])))
    BY <1>1, <1>2 DEF CalibrateSensor, Die
  <2>2. PICK row : Step(CalibrateSelect(m, c),
                        One(ChangeNode(m, [row EXCEPT !.calibration = c])))
    BY <2>1
  <2>3. SendFree(One(ChangeNode(m, [row EXCEPT !.calibration = c])))
    BY NoSendKinds, SendFreeBags
  <2>4. SameSends(n)
    BY <1>1, <2>2, <2>3, NoSendKinds, StepSends
  <2>5. SameCommands(n)
    <3>1. downlink' = [downlink EXCEPT ![m][c] = @ + 1] /\ c # "pump_toggle"
      BY <2>1, PlantsAssumption DEF Send
    <3>2. downlink \in [Nodes -> [Command -> Nat]] /\ "pump_toggle" \in Command
      BY <1>1 DEF TypeOK, BackendTypeOK, Command
    <3> QED
      BY <3>1, <3>2 DEF SameCommands
  <2>6. UNCHANGED Toggles(n)
    BY <2>4, <2>5 DEF Toggles, SameSends, SameCommands
  <2> QED
    BY <2>1, <2>6, NothingFlips DEF SameRow, SameBoard, firmwareVars
<1>3. ASSUME NEW t \in Thresholds, ConfigureThresholding(m, t)
      PROVE  Mismatch(n) <=> Mismatch(n)'
  <2>1. PICK row : Step(ConfigureSelect(m, t),
                        One(ChangeNode(m, [row EXCEPT !.thresholds = t])))
    BY <1>1, <1>3 DEF ConfigureThresholding, Die
  <2>2. SendFree(One(ChangeNode(m, [row EXCEPT !.thresholds = t])))
    BY NoSendKinds, SendFreeBags
  <2>3. SameSends(n)
    BY <1>1, <2>1, <2>2, NoSendKinds, StepSends
  <2> QED
    BY <1>3, <2>3, SameAll DEF ConfigureThresholding, firmwareVars
<1>4. ASSUME NEW row \in Row, ChangePlantNode(m, row)
      PROVE  Mismatch(n) <=> Mismatch(n)'
  <2>1. /\ Step(ChangeNode(m, row), None) /\ change_plant_node(m, row)
        /\ UNCHANGED downlink
    BY <1>4 DEF ChangePlantNode
  <2>2. SameSends(n)
    BY <1>1, <2>1, NoSendKinds, SendFreeBags, StepSends
  <2>3. SameRow(n)
    <3>1. CASE m = n
      <4>1. /\ IsABag(None)
            /\ \A x : Copies(x, calls') = Copies(x, calls)
                  - (IF x = ChangeNode(m, row) THEN 1 ELSE 0) + Copies(x, None)
        BY <1>1, <2>1, NoneIsBag, StepIsBag
      <4>2. Copies(ChangeNode(m, row), calls) \in Nat
            /\ Copies(ChangeNode(m, row), None) = 0
        BY <1>1, NoneIsBag, MemberIsCounted
      <4>3. Consumed(ChangeNode(n, row))
        BY <3>1, <4>1, <4>2 DEF Consumed
      <4> QED
        BY <4>3 DEF Undisturbed, StaleWrite, PumpChanged, SameRow
    <3>2. CASE m # n
      BY <2>1, <3>2 DEF change_plant_node, SameRow, Undisturbed, TypeOK,
         BackendTypeOK, DbTypeOK
    <3> QED
      BY <3>1, <3>2
  <2>4. UNCHANGED Toggles(n)
    BY <2>1, <2>2 DEF Toggles, SameSends
  <2> QED
    BY <2>3, <2>4, NothingFlips DEF SameBoard, firmwareVars
<1> QED
  BY <1>2, <1>3, <1>4 DEF ConfigurationStep

(* A report prepares toggles, it sends none by itself (server.js:258-330). *)
LEMMA DataPump ==
    ASSUME NEW n \in Nodes, Undisturbed(n), NEW m \in Nodes,
           DataStep(m), UNCHANGED firmwareVars
    PROVE  Mismatch(n) <=> Mismatch(n)'
<1>1. TypeOK
  BY DEF Undisturbed
<1>2. ASSUME NEW h \in Humidities, InsertPlantHumidity(m, h)
      PROVE  Mismatch(n) <=> Mismatch(n)'
  <2>1. Step(InsertHumidity(m, h), None) /\ UNCHANGED <<plant_nodes, downlink>>
    BY <1>2 DEF InsertPlantHumidity, insert_plant_humidity
  <2>2. SameSends(n)
    BY <1>1, <2>1, NoSendKinds, SendFreeBags, StepSends
  <2> QED
    BY <2>1, <2>2, SameAll DEF firmwareVars
<1>3. ASSUME NEW r \in Report, DataConfiguration(m, r)
      PROVE  Mismatch(n) <=> Mismatch(n)'
  <2>1. PICK row : Step(DataSelect(m, r), One(DataResume(m, r, row)))
    BY <1>3 DEF DataConfiguration
  <2>2. SendFree(One(DataResume(m, r, row)))
    BY NoSendKinds, SendFreeBags
  <2>3. SameSends(n)
    BY <1>1, <2>1, <2>2, NoSendKinds, StepSends
  <2> QED
    BY <1>3, <2>3, SameAll DEF DataConfiguration, firmwareVars
<1>4. ASSUME NEW r \in Report, DataRegister(m, r)
      PROVE  Mismatch(n) <=> Mismatch(n)'
  <2>1. PICK row : Step(DataResume(m, r, NoRow),
                        One(ChangeNode(m, row)) (+) One(InsertHumidity(m, r.humidity)))
    BY <1>4 DEF DataRegister
  <2>2. SendFree(One(ChangeNode(m, row)) (+) One(InsertHumidity(m, r.humidity)))
    BY NoSendKinds, SendFreeBags
  <2>3. SameSends(n)
    BY <1>1, <2>1, <2>2, NoSendKinds, StepSends
  <2> QED
    BY <1>4, <2>3, SameAll DEF DataRegister, firmwareVars
<1>5. ASSUME NEW r \in Report, NEW row \in Row, DataUpdate(m, r, row)
      PROVE  Mismatch(n) <=> Mismatch(n)'
  <2>1. /\ Step(DataResume(m, r, row),
                StoreReading(m, r) (+) Retoggle(m, r, row)
                (+) Recalibrate(m, r, row)
                (+) When(TooDry(m, r, row), ToggleSelect(m)))
        /\ UNCHANGED <<plant_nodes, downlink>>
    BY <1>5 DEF DataUpdate
  <2>2. /\ TooDry(m, r, row) \in BOOLEAN
        /\ (r.pump_activated # row.pump_activated) \in BOOLEAN
        /\ (r.calibration # row.calibration) \in BOOLEAN
    BY DEF TooDry
  <2>3. SendFree(StoreReading(m, r))
    BY NoSendKinds, SendFreeBags DEF StoreReading
  <2>4. SendFree(Retoggle(m, r, row))
    BY <2>2, NoSendKinds, SendFreeBags DEF Retoggle
  <2>5. SendFree(Recalibrate(m, r, row))
    BY <2>2, NoSendKinds, SendFreeBags DEF Recalibrate
  <2>6. SendFree(When(TooDry(m, r, row), ToggleSelect(m)))
    BY <2>2, NoSendKinds, SendFreeBags
  <2>7. SendFree(StoreReading(m, r) (+) Retoggle(m, r, row)
                 (+) Recalibrate(m, r, row)
                 (+) When(TooDry(m, r, row), ToggleSelect(m)))
    BY <2>3, <2>4, <2>5, <2>6, SendFreeBags
  <2>8. SameSends(n)
    BY <1>1, <2>1, <2>7, NoSendKinds, StepSends
  <2> QED
    BY <2>1, <2>8, SameAll DEF firmwareVars
<1> QED
  BY <1>2, <1>3, <1>4, <1>5 DEF DataStep

(* Requests and loops only start activations of pump_toggle and the like.  *)
LEMMA RequestPump ==
    ASSUME NEW n \in Nodes, Undisturbed(n), NEW m \in Nodes,
           UserStep(m), UNCHANGED firmwareVars
    PROVE  Mismatch(n) <=> Mismatch(n)'
<1>1. TypeOK
  BY DEF Undisturbed
<1>2. PICK e : NoSend(e) /\ Start(One(e))
  BY NoSendKinds DEF UserStep, PostPumpToggle, PostCalibrateSensor,
     PostConfigureThresholding, ScheduleFires, Request
<1>3. UNCHANGED <<plant_nodes, downlink>>
  BY DEF UserStep, PostPumpToggle, PostCalibrateSensor,
     PostConfigureThresholding, ScheduleFires, Request
<1>4. SameSends(n)
  BY <1>1, <1>2, StartSends
<1> QED
  BY <1>3, <1>4, SameAll DEF firmwareVars

(* A thresholding loop flips only by calling pump_toggle                   *)
(* (server.js:308-326).                                                    *)
LEMMA JobPump ==
    ASSUME NEW n \in Nodes, Undisturbed(n), NEW j \in Job,
           JobStep(j), UNCHANGED firmwareVars
    PROVE  Mismatch(n) <=> Mismatch(n)'
<1>1. TypeOK /\ up'
  BY DEF Undisturbed, Fault
<1>2. UNCHANGED <<plant_nodes, downlink>>
  BY DEF JobStep, BurstOver, PauseOver, WateringCheck
<1>3. UNCHANGED calls \/ Start(One(ToggleSelect(jobs[j].node)))
  BY <1>1 DEF JobStep, BurstOver, PauseOver, WateringCheck, Die
<1>4. SameSends(n)
  BY <1>1, <1>3, NoSendKinds, StartSends DEF SameSends
<1> QED
  BY <1>2, <1>4, SameAll DEF firmwareVars

(* Losses, resets and shell commands are the faults.                       *)
LEMMA SpendIsFault ==
    ASSUME TypeOK, NEW event \in {"loss", "reset", "shell"}, Spend(event)
    PROVE  Fault
<1>1. left \in [OutsideEvent -> Nat] /\ event \in OutsideEvent
  BY DEF TypeOK, BackendTypeOK, OutsideEvent
<1>2. left[event] \in Nat /\ left'[event] = left[event] - 1
  BY <1>1 DEF Spend
<1>3. left'[event] < left[event]
  BY <1>2
<1> QED
  BY <1>3 DEF Fault

(* pump_handler inverts the pump of its board (fw/main.c:17-23, 144-153).  *)
LEMMA DeliverPump ==
    ASSUME NEW n \in Nodes, Undisturbed(n), NEW m \in Nodes,
           DeliverPumpToggle(m)
    PROVE  Mismatch(n) <=> Mismatch(n)'
<1>1. /\ TypeOK /\ Registered(n)
      /\ downlink \in [Nodes -> [Command -> Nat]] /\ "pump_toggle" \in Command
      /\ pump_activated \in [Nodes -> BOOLEAN]
  BY DEF Undisturbed, TypeOK, BackendTypeOK, Command, FirmwareTypeOK
<1>2. /\ downlink[m]["pump_toggle"] > 0
      /\ downlink' = [downlink EXCEPT ![m]["pump_toggle"] = @ - 1]
      /\ pump_activated' = [pump_activated EXCEPT ![m] = ~@]
      /\ UNCHANGED <<plant_nodes, calls>>
  BY DEF DeliverPumpToggle, TakeCommand, pump_toggle, dbVars, processVars
<1>3. CASE m = n
  <2> DEFINE sends == Copies(ToggleSend(n), calls)
             commands == downlink[n]["pump_toggle"]
  <2>1. sends \in Nat /\ sends' = sends /\ commands \in Nat /\ commands > 0
        /\ commands' = commands - 1
    BY <1>1, <1>2, <1>3, TogglesNat
  <2>2. Toggles(n) = sends + commands /\ Toggles(n)' = sends' + commands'
    BY DEF Toggles
  <2> HIDE DEF sends, commands
  <2>3. Toggles(n)' + 1 = Toggles(n) /\ Toggles(n)' \in Nat
    BY <2>1, <2>2
  <2>4. pump_activated'[n] = ~pump_activated[n] /\ SameRow(n)
    BY <1>1, <1>2, <1>3 DEF SameRow
  <2> QED
    BY <1>1, <2>3, <2>4, BoardFlips
<1>4. CASE m # n
  <2>1. SameBoard(n) /\ SameRow(n)
    BY <1>1, <1>2, <1>4 DEF SameBoard, SameRow
  <2>2. UNCHANGED Toggles(n)
    BY <1>1, <1>2, <1>4 DEF Toggles
  <2> QED
    BY <2>1, <2>2, NothingFlips
<1> QED
  BY <1>3, <1>4

(* Calibrating and configuring flip nothing unless they write a stale row  *)
(* (server.js:80-94).                                                      *)
LEMMA CalibrationPump ==
    ASSUME NEW n \in Nodes, Undisturbed(n), NEW m \in Nodes,
           NEW c \in Calibrations, DeliverCalibration(m, c)
    PROVE  Mismatch(n) <=> Mismatch(n)'
<1>1. /\ downlink \in [Nodes -> [Command -> Nat]] /\ "pump_toggle" \in Command
      /\ c # "pump_toggle"
  BY PlantsAssumption DEF Undisturbed, TypeOK, BackendTypeOK, Command
<1>2. /\ downlink' = [downlink EXCEPT ![m][c] = @ - 1]
      /\ UNCHANGED <<plant_nodes, calls, pump_activated>>
  BY DEF DeliverCalibration, TakeCommand, calibrate, dbVars, processVars
<1>3. UNCHANGED Toggles(n)
  BY <1>1, <1>2 DEF Toggles
<1> QED
  BY <1>2, <1>3, NothingFlips DEF SameRow, SameBoard

(* A toggle that arrives flips the board and is one less on its way        *)
(* (fw/main.c:144-153).                                                    *)
LEMMA NetworkPump ==
    ASSUME NEW n \in Nodes, Undisturbed(n), NEW m \in Nodes, NetworkStep(m)
    PROVE  Mismatch(n) <=> Mismatch(n)'
<1>1. TypeOK /\ ~Fault
  BY DEF Undisturbed
<1>2. CASE SendReport(m)
  BY <1>2, SameAll DEF SendReport, backendVars, firmwareVars, SameSends
<1>3. CASE DeliverReport(m)
  <2>1. PICK r \in Report : IF up THEN ReceiveData(m, r) ELSE UNCHANGED backendVars
    BY <1>3 DEF DeliverReport
  <2>2. UNCHANGED <<plant_nodes, downlink, pump_activated>>
    BY <1>3, <2>1 DEF DeliverReport, ReceiveData, backendVars, firmwareVars
  <2>3. UNCHANGED calls \/ Start(One(DataSelect(m, r)))
    BY <2>1 DEF ReceiveData, backendVars
  <2>4. SameSends(n)
    BY <1>1, <2>3, NoSendKinds, StartSends DEF SameSends
  <2> QED
    BY <2>2, <2>4, SameAll
<1>4. CASE LoseReport(m) \/ LoseCommand(m)
  BY <1>1, <1>4, SpendIsFault DEF LoseReport, LoseCommand
<1> QED
  BY <1>2, <1>3, <1>4, DeliverPump, CalibrationPump DEF NetworkStep

(* Every step without a fault or a stale write keeps row and board as they *)
(* were to each other (server.js:67-330; fw/main.c).                       *)
LEMMA MismatchStep ==
    ASSUME TypeOK, [Next]_vars, NEW n \in Nodes, Registered(n),
           ~Fault, ~StaleWrite(n)
    PROVE  Mismatch(n) <=> Mismatch(n)'
<1>1. Undisturbed(n)
  BY DEF Undisturbed
<1>2. CASE UNCHANGED vars
  BY <1>2, SameAll DEF vars, backendVars, firmwareVars, SameSends
<1>3. CASE BackendNext /\ UNCHANGED <<firmwareVars, uplink>>
  <2>1. CASE Crash
    BY <2>1 DEF Crash, Die, Fault
  <2>2. CASE Restart
    BY <1>3, <2>2, SameAll DEF Restart, firmwareVars, SameSends
  <2>3. ASSUME NEW m \in Nodes, PumpToggleStep(m)
        PROVE  Mismatch(n) <=> Mismatch(n)'
    BY <1>1, <1>3, <2>3, ToggleSelectPump, ToggleChangePump, ToggleSendPump
       DEF PumpToggleStep
  <2> QED
    BY <1>1, <1>3, <2>1, <2>2, <2>3, RequestPump, ConfigurationPump, DataPump,
       JobPump DEF BackendNext
<1>4. ASSUME NEW m \in Nodes, NodeStep(m)
      PROVE  FALSE
  BY <1>4, SpendIsFault DEF NodeStep, NodeReset, pump_toggle_command,
     calibration_command, NodeEvent
<1> QED
  BY <1>1, <1>2, <1>3, <1>4, NetworkPump DEF Next

(* Every toggle flips row and board (server.js:67-78, fw/main.c:17-23).    *)
THEOREM Pumps == Spec => MismatchOnlyFromFaults
<1>1. TypeOK /\ [Next]_vars
      => [\A n \in Nodes : Registered(n) /\ ~Fault /\ ~StaleWrite(n)
            => (Mismatch(n) <=> Mismatch(n)')]_vars
  BY MismatchStep
<1> QED
  BY <1>1, TypeCorrect, PTL DEF Spec, MismatchOnlyFromFaults

=============================================================================
