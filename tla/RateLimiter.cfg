\* Two calls a window of three ticks, and three callers: enough for one to hold
\* an old instant while the other two prune, refill and overtake it.
CONSTANTS
    Callers = {c1, c2, c3}
    Limit = 2
    Window = 3
    MaxSkew = 1
    MaxTime = 6
    MaxGrants = 4
SPECIFICATION Spec
SYMMETRY Symmetry
INVARIANTS
    TypeOK
    LimitPerUnskewedWindow
    BoundedMemory
PROPERTY RefusedOnlyOverLimit
CHECK_DEADLOCK FALSE
