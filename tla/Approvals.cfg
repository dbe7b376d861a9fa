\* Held calls and change sets, and a worker that dies anywhere in its step.
SPECIFICATION Spec
CONSTANTS
    Workers = {w1}
    Tokens = {t1, t2}
    NoToken = NoToken
    ToolCalls = {c1}
    ChangeSets = {s1}
    Requests = {}
    NoCall = NoCall
    MaxSteps = 3
    MaxTakeovers = 2
    MaxAttempts = 1
    Collaborates = {FALSE}
    Faults = {"crash", "impatient", "decider"}
CONSTRAINT FewNudges
SYMMETRY Symmetry
INVARIANTS
    TypeOK
PROPERTIES
    HeldCallMadeOnce
CHECK_DEADLOCK FALSE
