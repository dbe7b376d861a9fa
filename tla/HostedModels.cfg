\* Ticks of the sweep and of the job, a teardown or a scaling, a crash or a failed call.
SPECIFICATION FairSpec
CONSTANTS
    Ticks = {t1, t2}
    Sweepers = {t1}
    MaxEndpoints = 2
    MaxErrors = 2
    MaxFaults = 1
    Requests = {q1}
    Faults <- OrdinaryFaults
INVARIANTS
    TypeOK
    EndpointAccounted
    TeardownKept
    RoutedOnlyWhileServed
PROPERTIES
    TeardownHappens
    CapStopsSpending
CHECK_DEADLOCK FALSE
