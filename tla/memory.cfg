\* Two threads, one block of each kind of memory, a queue of one item.
CONSTANTS
    Threads = {t1, t2}
    d1 = d1
    d2 = d2
    h1 = h1
    p1 = p1
    Blocks = {d1, h1, p1, r1}
    KindOf <- MCKindOf
    MaxCount = 1
    MaxPendingBytes = 1
    MaxAllocs = 3
    MaxRefs = 2
    MaxDefers = 2
    MaxResets = 1
    MaxFailures = 1
    None = None
SPECIFICATION Spec
SYMMETRY Symmetry
CHECK_DEADLOCK FALSE
INVARIANTS
    TypeOK
    HeldIsLive
    OneOwner
    NothingLost
    BacklogBounded
    OomIsEarned
    DeferralHonoured
