SPECIFICATION Spec
CONSTANTS
    a = a
    b = b
    t1 = t1
    t2 = t2
    Nodes = {a, b}
    Tabs = {t1, t2}
    Day = 3
    Slots <- MCSlots
    DbMayFail = TRUE
    Closed = Closed
    MaxEdits = 5
    MaxCrashes = 1
SYMMETRY Symmetry
INVARIANTS TypeOK JobsAreStored
PROPERTIES InvertedOnlyMidWindow
