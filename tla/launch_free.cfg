\* Free-threaded build: two threads share two marshallers of one configuration,
\* a kernel that needs its argument as a literal, one recompile().
CONSTANTS
    Threads = {t1, t2}
    m1 = m1
    k1 = k1
    k2 = k2
    LcKeys = {k1}
    Positions = {0}
    Values = {1, 2}
    LaunchConfigCacheSize = 2
    RetainLimit = 0
    NotLiteral = NotLiteral
    None = None
    Objects = {m1, m2}
    KeyOf <- SameKey
    GilDisabled = TRUE
    HasPlanners = TRUE
    NeedsLiteral = {0}
    NeedsLaunch = FALSE
    RetryBudget = 1
    MaxLaunches = 3
    MaxRecompiles = 1
    OptInMayChange = FALSE
SPECIFICATION Spec
SYMMETRY Symmetry
INVARIANTS
    RunsOwnLiterals
    PreparedIsFound
    BoundTogether
    FreshAfterRecompile
