CONSTANTS
    None = None
    Users = {u1,u2}
    SignIns = {s1}
    Jobs = {j1}
    Requests = {}
    FlagIsSelected = FALSE
    UnkeyedUpdatePanics = FALSE
    MaxConsents = 1
    MaxExpiries = 1
    MaxFailures = 0
    MaxRestarts = 0
SPECIFICATION FairSpec
PROPERTY EveryMinuteEveryUser
