\* Two threads, two devices, a profile of each kind.
CONSTANTS
    Threads = {t1, t2}
    Devices = {0, 1}
    MaxBlocks = 1
    MaxIncidents = 1
    int = int
    arr = arr
    rec = rec
    Profiles = {int, arr, rec}
    KindOf <- MCKindOf
    FamilyOf <- MCFamilyOf
    ByPython = {arr}
    MaxLaunches = 3
    None = None
SPECIFICATION Spec
SYMMETRY Symmetry
CHECK_DEADLOCK FALSE
INVARIANTS
    StackBalanced
    RunsWithItsArrays
    SetupOnce
    CallbacksInOrder
    CopiesOwned
    AbortIsEarned
