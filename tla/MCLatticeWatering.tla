------------------------- MODULE MCLatticeWatering -------------------------
(* Values for the constants of LatticeWatering.                            *)
EXTENDS LatticeWatering

CONSTANTS a, b, l1, l2, factory, tuned

MCDefaultThresholds == [bottom |-> -50000, target |-> 60]
MCThresholds == {MCDefaultThresholds, [bottom |-> 20, target |-> 60]}

MCDefaultOnly == {MCDefaultThresholds}

Events(S) == [event \in OutsideEvent |-> IF event \in S THEN 1 ELSE 0]

FaultBudget == Events({"configure", "schedule", "toggle", "loss", "reset", "shell"})
PlantsBudget == [Events({}) EXCEPT !["configure"] = 2]
RecoveryBudget == Events({"calibrate", "loss", "reset", "crash"})
StopsBudget == Events({"configure", "toggle", "loss"})
LossBudget == Events({"toggle", "loss"})
ScheduleBudget == [Events({}) EXCEPT !["schedule"] = 2]
ConfigureBudget == Events({"configure"})

PlantsSymmetry == Permutations({a, b}) \cup Permutations({l1, l2})
=============================================================================
