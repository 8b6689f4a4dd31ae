\* Three calls: one works, one waits, one arrives.  One retry; a rate limit of
\* one, which three calls exceed, and of zero, which refuses every call.
CONSTANTS
    Calls = {c1, c2, c3}
    RetryAttempts = 1
    RateLimits = {0, 1}
    Nobody = Nobody
    Operator = Operator
    None = None
    FailureThreshold = 2
    ResetTimeout = 1
    CountCap = 3
SPECIFICATION FairSpec
INVARIANTS
    TypeOK
    OwnCredential
    Serialized
    AnswerIsFinal
PROPERTIES
    EveryCallEnds
    ContractSpec
