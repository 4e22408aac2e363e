SPECIFICATION Spec
CONSTANTS
    Hosts = {h1, h2}
    Guess = h1
    Recipients = {r1, r2}
    Null = Null
    MaxMX = 2
    MaxSRV = 1
    MaxTries = 2
    MaxFaults = 1
SYMMETRY Symmetry
INVARIANTS
    TypeOK
    CopiesAccountedFor
    PasswordGuarded
PROPERTIES
    WorkingEndpointFound
