\* Policies change, scoring fails and processes die.
SPECIFICATION Spec
CONSTANTS
    ann = ann
    fay = fay
    max = max
    a1 = a1
    a2 = a2
    f1 = f1
    m1 = m1
    Sessions = {a1, a2, f1}
    People = {ann, fay, max}
    Who <- MCWho
    RolesOf <- MCRolesOf
    AnyRole = "*"
    Policies <- TwoPolicies
    NoPolicy = NoPolicy
    Carried <- NothingCarried
    Faults = {"crash", "throw", "roles", "edit"}
INVARIANTS
    SingleGateOnlyWhenGone
CHECK_DEADLOCK FALSE
