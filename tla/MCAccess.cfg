\* One user and one client; the clock runs from Window = 3 to 7.
SPECIFICATION Spec
CONSTANTS
    Users = {u1}
    Clients = {c1}
    AccessTTL = 2
    RpcTimeout = 1
    MaxTime = 7
    NoAccess = NoAccess
INVARIANT
    AccessTypeOK
PROPERTIES
    VerdictsInForce
    ValidOnArrival
SYMMETRY Symmetry
