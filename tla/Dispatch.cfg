SPECIFICATION Spec
CONSTANTS
    Envs <- EnvSet
    Names <- NameSet
    MaxBoots = 2
    Null = Null
INVARIANTS
    TypeOK
    StartupNeverPanics
    EffectsAccountedFor
    GenerationFollowsCard
    ReadIsSafe
PROPERTIES
    ActiveMadeHere
