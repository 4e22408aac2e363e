SPECIFICATION Spec
CONSTANTS
    Users = {u1}
    Platforms = {p1}
    States = {s1,s2}
    Creds = {c1, c2}
    EncKeys = {k1, k2}
    Workers = {w1,w2}
    Null = Null
    PendingTTL = 0
    MaxTime = 1
    MaxDeploys = 1
    MaxIds = 1
    MaxFaults = 1
SYMMETRY Symmetry
INVARIANTS
    TypeOK
    StoredWereVerified
    ConnectedOpens
PROPERTIES
    LinkOutlivesFailure
    ConnectionsKept
