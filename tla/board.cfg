SPECIFICATION Spec
CONSTANTS
    Calibrations <- MCCalibrations
    FactoryCalibration <- MCFactory
    Moistures <- MCMoistures
    Budget <- MCBudget
INVARIANTS TypeOK PumpPinsAgree ReportsAreSnapshots HumidityInRange
PROPERTIES FrozenIsReset ReportsGoOn ImplementsFirmware
