\* Two threads, two configurations, caches of one entry each, one invalidation,
\* extensions that change.
CONSTANTS
    Threads = {t1, t2}
    Events = {e1, e2}
    k1 = k1
    k2 = k2
    LcKeys = {k1, k2}
    Positions = {0}
    Values = {1}
    LaunchConfigCacheSize = 1
    RetainLimit = 1
    NotLiteral = NotLiteral
    None = None
    Configs = {2, 3}
    LcKeyOf <- MCLcKeyOf
    ConfigureCacheSize = 1
    StaleRetryLimit = 2
    MaxGeneration = 1
    MaxCalls = 2
    OptInMayChange = TRUE
SPECIFICATION Spec
SYMMETRY Symmetry
INVARIANTS
    TypeOK
    DispatchersCurrent
    CacheFresh
PROPERTIES
    ImplementsMemo
