SPECIFICATION Spec
CONSTANTS
    Hosts = {h1}
    Guess = h1
    Recipients = {r1}
    Null = Null
    MaxMX = 1
    MaxSRV = 1
    MaxTries = 1
    MaxFaults = 0
INVARIANTS
    StoredSendable
