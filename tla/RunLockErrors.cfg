SPECIFICATION LockSpec
CONSTANTS
    Locks = {l1, l2}
    LockErrors = TRUE
    None = None
INVARIANT RefusedMeansHeld
