\* One registration more than the declared limit, at the start of a period.
SPECIFICATION RegistrationSpec
CONSTANTS
    Emails = {e1}
    Tokens = {k1}
    Reqs = {r1, r2, r3, r4, r5, r6}
    MaxTime = 1
    TokenTTL = 1
    NoEmail = NoEmail
    NoToken = NoToken
    ThrottleLimit = 5
    ThrottleTtl = 60
SYMMETRY Symmetry
INVARIANTS
    RegistrationsThrottled
