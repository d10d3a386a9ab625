CONSTANTS
    Users = {u1, u2}
    Ids = {i1, i2, i3, i4}
SPECIFICATION QueueSpec
INVARIANTS
    QueueTypeOK
    CountsExact
    MarkedOnce
PROPERTY
    ImplementsClaims
