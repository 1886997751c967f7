SPECIFICATION FairSpec
CONSTANTS
    a = a
    b = b
    l1 = l1
    l2 = l2
    factory = factory
    tuned = tuned
    Nodes = {a}
    Calibrations = {factory, tuned}
    FactoryCalibration = factory
    Humidities = {60}
    Thresholds <- MCDefaultOnly
    DefaultThresholds <- MCDefaultThresholds
    NoRow = NoRow
    NoReading = NoReading
    DbMayFail = FALSE
    Job = {l1}
    NoJob = NoJob
    MaxCalls = 2
    MaxInFlight = 1
    MaxUplink = 1
    Budget <- RecoveryBudget
PROPERTIES CalibrationConverges EventuallyListed
