SPECIFICATION Spec
CONSTANTS
    Users = {u1, u2}
    Platforms = {p1}
    States = {s1, s2}
    Codes = {c1, c2}
    Workers = {w1, w2}
    Null = Null
    ExchangeShapes <- RotatingShapes
    RefreshShapes <- RotatingShapes
    Refusals = {"status", "body"}
    PendingTTL = 1
    TokenTTL = 0
    MaxTime = 2
    MaxGen = 2
    MaxIds = 2
    MaxFaults = 0
SYMMETRY Symmetry
INVARIANTS
    TypeOK
    TokenIsolation
    ActiveIsReady
    SpentLinkIsGone
PROPERTIES
    ConnectionsKept
