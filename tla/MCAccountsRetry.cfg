\* A registration whose mail fails, and the address registered again.
SPECIFICATION Spec
CONSTANTS
    Emails = {e1}
    Tokens = {k1, k2}
    Reqs = {r1}
    MaxTime = 2
    TokenTTL = 1
    NoEmail = NoEmail
    NoToken = NoToken
SYMMETRY Symmetry
INVARIANTS
    RefusedMeansMailed
