\* Two stores of two operations, populated together or one by one; two crashes or
\* failed embeddings, and a new release of each.
CONSTANTS
    Stores = {s1, s2}
    Operations = {o1, o2}
    None = None
    Missing = Missing
    Broken = Broken
    MaxReleases = 1
    MaxMishaps = 2
SPECIFICATION FairSpec
INVARIANTS
    TypeOK
    OneCompleteCopy
    NeverHalfEmbedded
    ReleaseKept
    SuccessMeansPopulated
PROPERTIES
    RerunsRecover
