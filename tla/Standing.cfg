\* Locks that expire, processes that die, an owner who switches it off.
SPECIFICATION Spec
CONSTANTS
    Workers = {w1, w2}
    MaxWakes = 2
    MaxRuns = 1
    MaxSteps = 0
    MaxNudges = 1
    MaxEdits = 1
    OwnerWakes = {}
    Passive = {}
    MaxQueued = 1
    MaxPerRun = 2
    Faults = {"slow", "crash", "cancel", "switch", "fail"}
SYMMETRY Symmetry
INVARIANTS
    HeldByOne
CHECK_DEADLOCK FALSE
