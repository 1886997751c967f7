------------------------------ MODULE Firmware ------------------------------
(***************************************************************************)
(* fw/main.c, one node board per element of Nodes, at the grain of its     *)
(* handlers: each runs under the mutex of the state it touches.            *)
(***************************************************************************)
EXTENDS Plants

VARIABLES
    pump_activated,      \* the flag, and with it the level of the pump pins
    soil_values          \* soil_dry_value and soil_wet_value

firmwareVars == <<pump_activated, soil_values>>

FirmwareTypeOK ==
    /\ pump_activated \in [Nodes -> BOOLEAN]
    /\ soil_values \in [Nodes -> Calibrations]

FirmwareInit ==
    /\ pump_activated = [n \in Nodes |-> FALSE]
    /\ soil_values = [n \in Nodes |-> FactoryCalibration]

(* Mutant: the pump is switched on, not toggled.                           *)
pump_on(n) ==
    /\ pump_activated' = [pump_activated EXCEPT ![n] = TRUE]
    /\ UNCHANGED soil_values

pump_toggle(n) ==
    /\ pump_activated' = [pump_activated EXCEPT ![n] = ~@]
    /\ UNCHANGED soil_values

calibrate(n, c) ==
    /\ soil_values' = [soil_values EXCEPT ![n] = c]
    /\ UNCHANGED pump_activated

(* What data_thread posts: the humidity depends on the soil, which is not  *)
(* modelled here.                                                          *)
DataReport(n, humidity) ==
    [pump_activated |-> pump_activated[n], calibration |-> soil_values[n],
     humidity |-> humidity]

(* A reset by the watchdog or by power loss: nothing on a node is kept.    *)
Reset(n) ==
    /\ pump_activated' = [pump_activated EXCEPT ![n] = FALSE]
    /\ soil_values' = [soil_values EXCEPT ![n] = FactoryCalibration]

=============================================================================
