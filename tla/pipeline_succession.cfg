CONSTANTS
    None = None
    Users = {u1}
    Ids = {i1}
    Procs = {p1, p2}
    Workers = {w1, w2}
    Jobs = {j1}
    MailOf <- FullMailboxes
    OldIds = {}
    FetchLimit = 2
    DailyQuota = 3
    TokensPerEmail = 2
    MaxFailures = 1
    MaxExpired = 0
    MaxPanics = 1
    MaxRestarts = 0
SYMMETRY Symmetry
SPECIFICATION Spec
INVARIANTS
    RecordedIsLabelled
    ClaimedOnce
PROPERTIES
    ImplementsQueue
    KeepsLedger
