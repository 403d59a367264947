CONSTANTS
    c1 = c1
    c2 = c2
    c3 = c3
    L1 = {c1, c2, c3}
    L2 = L2
    Scenarios <- Full
SPECIFICATION Spec
INVARIANT WritebackGoesFirst
CHECK_DEADLOCK FALSE
