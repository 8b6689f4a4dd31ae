\* Two processes of one build or two, one with two tasks; renames that fail for any
\* reason; two other failures, restarts or cleanings.
CONSTANTS
    p1 = p1
    p2 = p2
    t1 = t1
    t2 = t2
    Processes <- MCProcesses
    Tasks <- MCTasks
    Callers <- MCCallers
    Builds = {b1, b2}
    None = None
    MaxAttempts = 2
    MaxMishaps = 2
SPECIFICATION FairSpec
INVARIANTS
    TypeOK
    CompleteCopies
    NeverRacesItself
    OwnStoreUnlessReplaced
PROPERTIES
    EveryCallEnds
    ContractSpec
