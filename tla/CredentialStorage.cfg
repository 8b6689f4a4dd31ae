\* Two servers that load and write back around two setups; one crash, and a
\* keychain that may come and go.
CONSTANTS
    Servers = {s1, s2}
    Setups = {u1, u2}
    None = None
    KeychainMayChange = TRUE
    MaxCrashes = 1
SPECIFICATION FairSpec
INVARIANTS
    TypeOK
    NewestIsStored
    NeverAllLost
PROPERTIES
    LoadsNewest
    EveryServerIsServed
