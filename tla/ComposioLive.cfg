SPECIFICATION LiveSpec
CONSTANTS
    Users = {u1}
    Platforms = {p1}
    States = {s1, s2}
    Conns = {c1, c2}
    Workers = {w1, w2}
    Null = Null
    PendingTTL = 0
    MaxTime = 1
    MaxIds = 1
    MaxFaults = 0
PROPERTIES
    CallbackSettlesRow
