SPECIFICATION Spec
CONSTANTS
    Pods = {p1, p2}
    NoPod = NoPod
    MaxSteps = 1
    MaxTakeovers = 2
    MaxOutside = 1
    MaxOwed = 2
    Faults = {"lapse", "crash", "webhook"}
SYMMETRY Symmetry
INVARIANTS
    LogTellsTheRow
    AlarmsAreTrue
CHECK_DEADLOCK FALSE
