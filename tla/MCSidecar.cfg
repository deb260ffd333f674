CONSTANTS
    Owner = {o1, o2}
    Child = {k1, k2, k3}
    NoOwner = NoOwner
    NoChild = NoChild
    Call = {c1, c2}
    NoCall = NoCall
    MaxInFlight = 1
SPECIFICATION Spec
INVARIANTS
    ChildrenAreOwned
    OwnAnswer
PROPERTIES
    ServesAgain
    CallSettles
CHECK_DEADLOCK FALSE
