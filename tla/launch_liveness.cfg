\* Build with the GIL: a planner asks for the launch metadata while a literal
\* request is served; no retry is left after an invalidation; one recompile();
\* extensions change.
CONSTANTS
    Threads = {t1, t2}
    m1 = m1
    k1 = k1
    k2 = k2
    LcKeys = {k1}
    Positions = {0}
    Values = {1}
    LaunchConfigCacheSize = 2
    RetainLimit = 0
    NotLiteral = NotLiteral
    None = None
    Objects = {m1}
    KeyOf <- SameKey
    GilDisabled = FALSE
    HasPlanners = TRUE
    NeedsLiteral = {0}
    NeedsLaunch = TRUE
    RetryBudget = 0
    MaxLaunches = 2
    MaxRecompiles = 1
    OptInMayChange = TRUE
SPECIFICATION FairSpec
INVARIANTS
    FailureIsEarned
PROPERTIES
    LaunchesFinish
