SPECIFICATION FairSpec
CONSTANTS
    a = a
    b = b
    l1 = l1
    l2 = l2
    factory = factory
    tuned = tuned
    Nodes = {a}
    Calibrations = {factory}
    FactoryCalibration = factory
    Humidities = {10, 60}
    Thresholds <- MCThresholds
    DefaultThresholds <- MCDefaultThresholds
    NoRow = NoRow
    NoReading = NoReading
    DbMayFail = FALSE
    Job = {l1}
    NoJob = NoJob
    MaxCalls = 1
    MaxInFlight = 1
    MaxUplink = 1
    Budget <- StopsBudget
PROPERTIES WateringStops
