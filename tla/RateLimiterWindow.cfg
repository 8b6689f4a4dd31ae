\* The doc comment's bound on real windows.
CONSTANTS
    Callers = {c1, c2, c3}
    Limit = 2
    Window = 3
    MaxSkew = 1
    MaxTime = 6
    MaxGrants = 4
SPECIFICATION Spec
SYMMETRY Symmetry
INVARIANT LimitPerWindow
CHECK_DEADLOCK FALSE
