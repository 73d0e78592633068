\* Liveness, so no symmetry: one user, two requests, two seconds.
SPECIFICATION FairSpec
CONSTANTS
    Users = {u1}
    Reqs = {r1, r2}
    MaxTime = 1
    TTL = 1
    NoToken = NoToken
    NoUser = NoUser
PROPERTIES
    RequestsFinish
    ImplementsLedger
