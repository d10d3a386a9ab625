CONSTANTS
    None = None
    Users = {u1}
    Categories = {c1, c2}
    Emails = {e1}
    Runs = {r1}
    Threads = {t1}
    PageSize = 1
    FlagIsSelected = FALSE
    MaxEdits = 0
    MaxFailures = 0
    MaxRestarts = 0
SPECIFICATION FairSpec
PROPERTY AskedIsDone
