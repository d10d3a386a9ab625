CONSTANTS
    None = None
    Users = {u1}
    Categories = {c1, c2}
    Emails = {e1, e2}
    Runs = {r1}
    Threads = {t1, t2}
    PageSize = 1
    FlagIsSelected = TRUE
    MaxEdits = 1
    MaxFailures = 1
    MaxRestarts = 1
SYMMETRY Symmetry
SPECIFICATION Spec
INVARIANT TypeOK
PROPERTIES
    OnlyAsAsked
    KeepProtects
