\* Two logins and two jobs on one device; liveness, so no symmetry.
SPECIFICATION FairSignInSpec
CONSTANTS
    DeviceIds = {d1}
    Jobs = {j1, j2}
    Enabled = TRUE
    MaxTime = 1
    NoDevice = NoDevice
    Reqs = {r1, r2}
    MaxAttempts = 1
    BaseLockout = 1
    MaxLockout = 1
    MaxRows = 1
    MaxLost = 1
INVARIANTS
    SignInTypeOK
    AtMostOneAlert
    KnownMeansAlerted
    SeenInOrder
    KnownDevicesSignedIn
    
PROPERTIES
    AlertArrives
    LoginsFinish
    ImplementsDeviceAlerts
CHECK_DEADLOCK FALSE
