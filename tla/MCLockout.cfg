\* Two overlapping logins; the second lockout already meets the cap.
SPECIFICATION Spec
CONSTANTS
    Reqs = {r1, r2}
    MaxAttempts = 2
    BaseLockout = 2
    MaxLockout = 3
    MaxTime = 4
    MaxRows = 5
SYMMETRY Symmetry
INVARIANTS
    TypeOK
    AttemptsBounded
PROPERTIES
    SuccessResets
CHECK_DEADLOCK FALSE
