CONSTANTS
    None = None
    Users = {u1}
    Ids = {i1, i2}
    Procs = {p1}
    Workers = {w1, w2}
    Jobs = {j1}
    MailOf <- FullMailboxes
    OldIds = {i2}
    FetchLimit = 1
    DailyQuota = 3
    TokensPerEmail = 2
    MaxFailures = 1
    MaxExpired = 1
    MaxPanics = 1
    MaxRestarts = 0
SYMMETRY WorkerSymmetry
SPECIFICATION Spec
INVARIANTS
    TypeOK
    RecordedIsCharged
PROPERTY
    LostByDropOrPanic
