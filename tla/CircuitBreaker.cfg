\* Three callers, so that two can be in flight across an opening while a third
\* arrives; a threshold above one, so that a success can interrupt a streak; a
\* reset timeout of two ticks, so that a failure can land in the middle of it.
CONSTANTS
    Callers = {c1, c2, c3}
    FailureThreshold = 2
    ResetTimeout = 2
    CountCap = 4
    None = None
SPECIFICATION FairSpec
INVARIANTS
    TypeOK
    OpenSealsOffCalls
PROPERTIES
    NoCallSoonAfterFailure
    OpenIsLeft
