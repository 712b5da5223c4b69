\* Three threads ask for two configurations of one launch key, with room for
\* both and for its dispatcher, while they are invalidated or cleared.
CONSTANTS
    Threads = {t1, t2, t3}
    Events = {e1, e2, e3}
    k1 = k1
    k2 = k2
    LcKeys = {k1}
    Positions = {}
    Values = {1}
    LaunchConfigCacheSize = 1
    RetainLimit = 0
    NotLiteral = NotLiteral
    None = None
    Configs = {1, 2}
    LcKeyOf <- MCLcKeyOf
    ConfigureCacheSize = 2
    StaleRetryLimit = 2
    MaxGeneration = 1
    MaxCalls = 3
    OptInMayChange = FALSE
SPECIFICATION Spec
SYMMETRY Symmetry
INVARIANTS
    WaitersHaveOwner
    OneLiveBuilder
    OneDispatcherPerKey
PROPERTIES
    EntryKept
