\* One browser, one request at a time.
SPECIFICATION GatewaySpec
CONSTANTS
    Users = {u1}
    Reqs = {r1}
    MaxTime = 1
    TTL = 1
    NoToken = NoToken
    NoUser = NoUser
INVARIANTS
    LogoutSucceeds
