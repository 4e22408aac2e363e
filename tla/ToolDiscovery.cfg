SPECIFICATION LiveSpec
CONSTANTS
    Slugs <- SlugSet
    Versions = {v1, v2}
    Default = v1
    Excluded = {"delete"}
    Lists <- ListSet
    Extras = {"search", "send"}
    Null = Null
    Pending = Pending
INVARIANTS
    TypeOK
    NoSendOnClosed
    WithheldNeverRuns
    NewestVersionRuns
PROPERTIES
    Promise
    DiscoveryEnds
CHECK_DEADLOCK FALSE
