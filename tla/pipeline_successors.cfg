CONSTANTS
    None = None
    Users = {u1}
    Ids = {i1}
    Procs = {p1, p2}
    Workers = {w1}
    Jobs = {j1}
    MailOf <- FullMailboxes
    OldIds = {}
    FetchLimit = 1
    DailyQuota = 1
    TokensPerEmail = 1
    MaxFailures = 1
    MaxExpired = 0
    MaxPanics = 0
    MaxRestarts = 0
SPECIFICATION FairSpec
PROPERTY RecentMailHandled
