\* A due run moves on although workers crash.
SPECIFICATION FairSpec
CONSTANTS
    Workers = {w1, w2}
    Tokens = {t1, t2, t3}
    NoToken = NoToken
    ToolCalls = {}
    ChangeSets = {}
    Requests = {r1}
    NoCall = NoCall
    MaxSteps = 1
    MaxTakeovers = 2
    MaxAttempts = 2
    Collaborates = {FALSE}
    Faults = {"crash"}
PROPERTIES
    DueRunMovesOn
    HeardDecisionEndsWait
CHECK_DEADLOCK FALSE
