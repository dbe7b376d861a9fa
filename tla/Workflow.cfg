\* A held call and a change set in one pipeline, under every fault.
SPECIFICATION Spec
CONSTANTS
    a = a
    b = b
    c = c
    d = d
    s = s
    Runs = {r1}
    Nodes = {s, a, b, c, d}
    Edges <- BranchEdges
    Branch <- BranchLabel
    Kind <- BranchKind
    MaxRequests = 2
    Changes = 2
    Take = 2
    Faults = {"fail", "crash", "early", "cancel", "disconnect", "limit", "refuse"}
INVARIANTS
    TypeOK
    ApprovedAndOnce
    CarriedOnByOne
    RecordIsTrue
    StepsRunOnce
    WhatFollowsWaits
PROPERTIES
    OnlyLateCancelRewrites
CHECK_DEADLOCK FALSE
