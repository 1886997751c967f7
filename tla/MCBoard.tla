------------------------------- MODULE MCBoard -------------------------------
(* Values for the constants of Board: the pair in the code, one that a     *)
(* user has measured, and soil that is soaked, in between, and too dry.    *)
EXTENDS Board

MCFactory == [dry |-> 2920, wet |-> 1400]
MCTuned == [dry |-> 2600, wet |-> 1200]
MCCalibrations == {MCFactory, MCTuned}
MCMoistures == {0, 2000, 4095}
MCBudget == [command |-> 2, typed |-> 2, hang |-> 1, power |-> 1]
=============================================================================
