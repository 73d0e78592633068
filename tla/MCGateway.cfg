\* One user's browser with two requests open.
SPECIFICATION GatewaySpec
CONSTANTS
    Users = {u1}
    Reqs = {r1, r2}
    MaxTime = 1
    TTL = 1
    NoToken = NoToken
    NoUser = NoUser
SYMMETRY Symmetry
INVARIANTS
    GatewayTypeOK
    CookieUsable
