SPECIFICATION LiveSpec
CONSTANTS
    Users = {u1}
    Platforms = {p1}
    States = {s1, s2}
    Codes = {c1, c2}
    Workers = {w1, w2}
    Null = Null
    ExchangeShapes <- RotatingShapes
    RefreshShapes <- KeepingShapes
    Refusals = {"status"}
    PendingTTL = 0
    TokenTTL = 0
    MaxTime = 1
    MaxGen = 1
    MaxIds = 1
    MaxFaults = 1
INVARIANTS
    ActiveIsReady
    ExpiredOnlyIfPast
PROPERTIES
    AbandonedRequestEnds
