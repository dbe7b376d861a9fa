\* Reviewers act at once, and the entitlement may be unreadable.
SPECIFICATION Spec
CONSTANTS
    ann = ann
    fay = fay
    max = max
    a1 = a1
    a2 = a2
    f1 = f1
    m1 = m1
    Sessions = {a1, a2, f1, m1}
    People = {ann, fay, max}
    Who <- MCWho
    RolesOf <- MCRolesOf
    AnyRole = "*"
    Policies <- MCPolicies
    NoPolicy = NoPolicy
    Carried <- MCCarried
    Faults = {"lookup"}
INVARIANTS
    TypeOK
    QuorumOfPeople
    QuorumTakesEffect
PROPERTIES
    DecidedOnce
CHECK_DEADLOCK FALSE
