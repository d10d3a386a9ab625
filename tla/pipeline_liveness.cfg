CONSTANTS
    None = None
    Users = {u1}
    Ids = {i1}
    Procs = {p1}
    Workers = {w1, w2}
    Jobs = {j1}
    MailOf <- FullMailboxes
    OldIds = {}
    FetchLimit = 2
    DailyQuota = 3
    TokensPerEmail = 2
    MaxFailures = 1
    MaxExpired = 1
    MaxPanics = 1
    MaxRestarts = 1
SPECIFICATION FairSpec
PROPERTIES
    StoppedRunEnds
    RecentMailHandled
    MarksAreLifted
