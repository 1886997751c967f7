------------------------------- MODULE Plants -------------------------------
(***************************************************************************)
(* What the parts of lattice-watering tell each other (METHODS.md): the    *)
(* /data report a node posts and the commands the backend posts to a node. *)
(***************************************************************************)
EXTENDS Integers

CONSTANTS
    Nodes,               \* the node boards, named by their IPv6 address
    Calibrations,        \* pairs of a dry and a wet sensor value
    FactoryCalibration,  \* the pair compiled into the firmware
    Humidities           \* the percentages a report may carry (uint8_t)

ASSUME PlantsAssumption ==
    /\ FactoryCalibration \in Calibrations
    /\ "pump_toggle" \notin Calibrations
    /\ Humidities \subseteq 0 .. 255

(* The dry and the wet value travel together in every message, statement   *)
(* and row, so a pair is one value here.  The seven network statistics of  *)
(* a report are never stored and are left out.                             *)
Report == [pump_activated : BOOLEAN, calibration : Calibrations,
           humidity : Humidities]

(* A /calibrate_sensor command is the pair it carries.                     *)
Command == {"pump_toggle"} \cup Calibrations

=============================================================================
