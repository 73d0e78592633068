\* Two registrations or verifications at a time, over two addresses.
SPECIFICATION RegistrationSpec
CONSTANTS
    Emails = {e1, e2}
    Tokens = {k1, k2, k3}
    Reqs = {r1, r2}
    MaxTime = 2
    TokenTTL = 1
    NoEmail = NoEmail
    NoToken = NoToken
    ThrottleLimit = 5
    ThrottleTtl = 60
SYMMETRY Symmetry
INVARIANTS
    RegistrationTypeOK
    OneRowPerEmail
    MailedTokensWork
PROPERTIES
    VerificationIsFinal
    AnswersTrue
    ImplementsAccountLedger
