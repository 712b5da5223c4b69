\* A generic compilation is in flight when recompile() runs (build with the GIL).
CONSTANTS
    Threads = {t1, t2}
    m1 = m1
    k1 = k1
    k2 = k2
    LcKeys = {k1}
    Positions = {}
    Values = {1}
    LaunchConfigCacheSize = 2
    RetainLimit = 0
    NotLiteral = NotLiteral
    None = None
    Objects = {m1}
    KeyOf <- SameKey
    GilDisabled = FALSE
    HasPlanners = TRUE
    NeedsLiteral = {}
    NeedsLaunch = FALSE
    RetryBudget = 1
    MaxLaunches = 2
    MaxRecompiles = 1
    OptInMayChange = FALSE
SPECIFICATION Spec
SYMMETRY Symmetry
INVARIANTS
    FreshAfterRecompile
