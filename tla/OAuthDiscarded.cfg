SPECIFICATION Spec
CONSTANTS
    Users = {u1}
    Platforms = {p1}
    States = {s1}
    Codes = {c1}
    Workers = {w1, w2}
    Null = Null
    ExchangeShapes <- RotatingShapes
    RefreshShapes <- RotatingShapes
    Refusals = {"status"}
    PendingTTL = 1
    TokenTTL = 0
    MaxTime = 1
    MaxGen = 1
    MaxIds = 0
    MaxFaults = 0
PROPERTIES
    GoodTokenNotDiscarded
