\* Three wakes, one passive and one the owner's; the thread is erased, paused and asks.
SPECIFICATION FairSpec
CONSTANTS
    Workers = {w1, w2}
    MaxWakes = 3
    MaxRuns = 2
    MaxSteps = 1
    MaxNudges = 1
    MaxEdits = 1
    OwnerWakes = {3}
    Passive = {1}
    MaxQueued = 2
    MaxPerRun = 2
    Faults = {"gone", "pause", "asks"}
INVARIANTS
    OneRunAtATime
    WakeToldOnce
    TakenIsTold
PROPERTIES
    WakesAreTaken
CHECK_DEADLOCK FALSE
