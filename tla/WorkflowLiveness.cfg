\* Two runs that wait on the same held call, and processes that die.
SPECIFICATION FairSpec
CONSTANTS
    a = a
    b = b
    c = c
    d = d
    s = s
    Runs = {r1, r2}
    Nodes = {a, b}
    Edges <- LineEdges
    Branch <- Unlabelled
    Kind <- LineKind
    MaxRequests = 2
    Changes = 2
    Take = 2
    Faults = {"crash"}
PROPERTIES
    DecidedRunCarriesOn
    RunsEnd
CHECK_DEADLOCK FALSE
