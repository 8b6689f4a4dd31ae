\* The README's circuit breaker, with a threshold of two calls.
CONSTANTS
    Calls = {c1, c2, c3}
    RetryAttempts = 0
    RateLimits = {1}
    Nobody = Nobody
    Operator = Operator
    None = None
    FailureThreshold = 2
    ResetTimeout = 1
    CountCap = 3
SPECIFICATION Spec
PROPERTY BreakerShields
