\* Two threads, one configuration, up to two invalidations: every call returns.
CONSTANTS
    Threads = {t1, t2}
    Events = {e1, e2}
    k1 = k1
    k2 = k2
    LcKeys = {k1}
    Positions = {}
    Values = {1}
    LaunchConfigCacheSize = 1
    RetainLimit = 0
    NotLiteral = NotLiteral
    None = None
    Configs = {1}
    LcKeyOf <- MCLcKeyOf
    ConfigureCacheSize = 1
    StaleRetryLimit = 2
    MaxGeneration = 2
    MaxCalls = 2
    OptInMayChange = FALSE
SPECIFICATION FairSpec
INVARIANTS
    InvalidatedIsEarned
PROPERTIES
    CallsReturn
