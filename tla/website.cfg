SPECIFICATION Spec
CONSTANTS
    a = a
    b = b
    factory = factory
    Nodes = {a, b}
    Calibrations = {factory}
    FactoryCalibration = factory
    Humidities = {10, 60}
    Thresholds <- MCThresholds
    DefaultThresholds <- MCDefaultThresholds
    NoRow = NoRow
    NoReading = NoReading
    DbMayFail = FALSE
    Tabs = {t1, t2}
    Index = Index
    Closed = Closed
    NoChart = NoChart
    Budget <- WebsiteBudget
INVARIANTS TypeOK ServesWithTables
PROPERTIES PagesDoNotStopIt ServesInTheEnd ShowsNewest ChartIsOfPlant
