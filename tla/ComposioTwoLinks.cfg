SPECIFICATION Spec
CONSTANTS
    Users = {u1}
    Platforms = {p1}
    States = {s1, s2}
    Conns = {c1, c2}
    Workers = {w1}
    Null = Null
    PendingTTL = 1
    MaxTime = 1
    MaxIds = 0
    MaxFaults = 0
INVARIANTS
    AuthorizedLinkActivates
