\* Build with the GIL: launches and recompile() interleave freely; two launch
\* configurations compete for one registry entry, extensions change.
CONSTANTS
    Threads = {t1, t2}
    m1 = m1
    k1 = k1
    k2 = k2
    LcKeys = {k1, k2}
    Positions = {}
    Values = {1}
    LaunchConfigCacheSize = 1
    RetainLimit = 1
    NotLiteral = NotLiteral
    None = None
    Objects = {m1, m2}
    KeyOf <- MCKeyOf
    GilDisabled = FALSE
    HasPlanners = FALSE
    NeedsLiteral = {}
    NeedsLaunch = FALSE
    RetryBudget = 1
    MaxLaunches = 2
    MaxRecompiles = 1
    OptInMayChange = TRUE
SPECIFICATION Spec
SYMMETRY Symmetry
INVARIANTS
    TypeOK
    RunsOwnConfig
    SpecialisedFresh
    NoWastedCompile
