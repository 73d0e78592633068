\* One login at a time, so that nothing overlaps.
SPECIFICATION Spec
CONSTANTS
    Reqs = {r1}
    MaxAttempts = 2
    BaseLockout = 2
    MaxLockout = 4
    MaxTime = 5
    MaxRows = 5
SYMMETRY Symmetry
PROPERTIES
    LockedUntilCooldown
CHECK_DEADLOCK FALSE
