------------------------------- MODULE PlantDb -------------------------------
(***************************************************************************)
(* front/db.js: the SQLite tables plant_nodes and plant_humidities and the *)
(* statements the backend runs on them.  A statement is atomic; it runs    *)
(* some time after the call that submits it, and two statements submitted  *)
(* without awaiting the first run in either order.                         *)
(***************************************************************************)
EXTENDS Plants

CONSTANTS
    Thresholds,          \* watering_threshold_bottom and _target settings
    DefaultThresholds,   \* the default arguments of change_plant_node
    NoRow,               \* what a select yields for an unknown node_ip
    NoReading,           \* humidities[0] of an empty result
    DbMayFail            \* TRUE: statements may fail (their callback gets err)

Row == [pump_activated : BOOLEAN, calibration : Calibrations,
        thresholds : Thresholds]

ASSUME PlantDbAssumption ==
    /\ Thresholds \subseteq [bottom : Int, target : Int]
    /\ DefaultThresholds \in Thresholds
    /\ \A h \in Humidities : DefaultThresholds.bottom <= h
    /\ NoRow \notin Row
    /\ NoReading \notin Humidities
    /\ DbMayFail \in BOOLEAN

VARIABLES
    plant_nodes,         \* the row of each node, NoRow if it has none
    plant_humidities     \* the newest reading of each node

dbVars == <<plant_nodes, plant_humidities>>

DbTypeOK ==
    /\ plant_nodes \in [Nodes -> Row \cup {NoRow}]
    /\ plant_humidities \in [Nodes -> Humidities \cup {NoReading}]

DbInit ==
    /\ plant_nodes = [n \in Nodes |-> NoRow]
    /\ plant_humidities = [n \in Nodes |-> NoReading]

Registered(n) == plant_nodes[n] # NoRow

(* The overview page joins both tables: it lists a plant that has a row    *)
(* and a reading.                                                          *)
Listed(n) == Registered(n) /\ plant_humidities[n] # NoReading

(* The configurations a select may yield: on an error the promise resolves *)
(* to 0, whose element [0] is undefined just as for an unknown node.       *)
SelectConfiguration(n) ==
    {plant_nodes[n]} \cup (IF DbMayFail THEN {NoRow} ELSE {})

(* humidities[0], the newest reading; readings of one node are at least    *)
(* five seconds apart, so the one-second date_time orders them.            *)
SelectHumidity(n) ==
    {plant_humidities[n]} \cup (IF DbMayFail THEN {NoReading} ELSE {})

(* The upsert writes every column; on an error it resolves all the same.   *)
change_plant_node(n, row) ==
    /\ \/ plant_nodes' = [plant_nodes EXCEPT ![n] = row]
       \/ DbMayFail /\ UNCHANGED plant_nodes
    /\ UNCHANGED plant_humidities

(* node is NOT NULL: with no row for node_ip the sub-select is NULL, the   *)
(* insert fails and the reading is lost.                                   *)
insert_plant_humidity(n, humidity) ==
    /\ \/ /\ Registered(n)
          /\ plant_humidities' = [plant_humidities EXCEPT ![n] = humidity]
       \/ (DbMayFail \/ ~Registered(n)) /\ UNCHANGED plant_humidities
    /\ UNCHANGED plant_nodes

=============================================================================
