\* Three runs on one cache; no symmetry, for AcquireEnds is a liveness property.
SPECIFICATION FairSpec
CONSTANTS
    Locks = {l1, l2, l3}
    Keys = {k1, k2}
    LockErrors = FALSE
    None = None
INVARIANTS
    MutualExclusion
    NoLostUpdate
PROPERTY
    AcquireEnds
