\* Two workers that crash, stall and fail contend for a run with no approvals,
\* whose agent may be a collaboration's orchestrator.
SPECIFICATION Spec
CONSTANTS
    Workers = {w1, w2}
    Tokens = {t1, t2, t3}
    NoToken = NoToken
    ToolCalls = {}
    ChangeSets = {}
    Requests = {}
    NoCall = NoCall
    MaxSteps = 2
    MaxTakeovers = 2
    MaxAttempts = 2
    Collaborates = {TRUE, FALSE}
    Faults = {"crash", "stall", "throw", "lose", "age"}
CONSTRAINT FewNudges
SYMMETRY Symmetry
INVARIANTS
    HolderSawLatest
    HandedOnWhenOver
PROPERTIES
    ImplementsAtomicSteps
    TakeoverCounted
    OnlyUnguardedReopens
CHECK_DEADLOCK FALSE
