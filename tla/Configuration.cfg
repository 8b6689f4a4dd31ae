\* Two wizards, one after the other, two directories, and a command launched at
\* any time: enough for each file of the cascade to hide another.
CONSTANTS
    Wizards = {u1, u2}
    Launches = {l1}
    Dirs = {d1, d2}
    ByHand <- MCByHand
    Operator = Operator
    None = None
SPECIFICATION Spec
INVARIANTS
    TypeOK
    SetupTakesHold
    MixedOnlyByGaps
SYMMETRY Interchangeable
CHECK_DEADLOCK FALSE
