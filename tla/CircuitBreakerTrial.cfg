\* The doc comment's single trial call.
CONSTANTS
    Callers = {c1, c2}
    FailureThreshold = 2
    ResetTimeout = 2
    CountCap = 4
    None = None
SPECIFICATION Spec
INVARIANT AtMostOneTrial
