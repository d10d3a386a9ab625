CONSTANTS
    None = None
    Users = {u1}
    SignIns = {s1,s2}
    Jobs = {j1}
    Requests = {r1}
    FlagIsSelected = TRUE
    UnkeyedUpdatePanics = FALSE
    MaxConsents = 2
    MaxExpiries = 1
    MaxFailures = 1
    MaxRestarts = 1
SPECIFICATION Spec
INVARIANT TypeOK
PROPERTIES
    RefreshTokenKept
    StartsWithAccess
