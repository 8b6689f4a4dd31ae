\* A steady keychain and no crash: what two setups and two servers do to each
\* other by themselves.
CONSTANTS
    Servers = {s1, s2}
    Setups = {u1, u2}
    None = None
    KeychainMayChange = FALSE
    MaxCrashes = 0
SPECIFICATION Spec
PROPERTIES
    SetupTakesEffect
CHECK_DEADLOCK FALSE
