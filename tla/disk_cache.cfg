\* Two processes, two signatures, one edit of the source, one death.
CONSTANTS
    Processes = {p1, p2}
    Keys = {k1, k2}
    Cooperative = TRUE
    None = None
    MaxEdits = 1
    MaxDeaths = 1
    MaxRecompiles = 1
SPECIFICATION Spec
SYMMETRY Symmetry
INVARIANTS
    TypeOK
    NamesDistinct
    UndisturbedIsRight
    SavedIsFound
