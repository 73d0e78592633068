\* One user, two overlapping requests, three seconds.
SPECIFICATION Spec
CONSTANTS
    Users = {u1}
    Reqs = {r1, r2}
    MaxTime = 2
    TTL = 1
    NoToken = NoToken
    NoUser = NoUser
SYMMETRY Symmetry
INVARIANTS
    TypeOK
    RotatedTokenIsRevoked
    ReplacementChain
    SingleSuccessor
    EndedSessionsStayEnded
