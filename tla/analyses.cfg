\* All graphs of up to four blocks with two targets each; a variable that blocks
\* read and assign in every way.
CONSTANTS
    n1 = n1
    n2 = n2
    n3 = n3
    n4 = n4
    Nodes = {n1, n2, n3, n4}
    Entry = n1
    MaxSuccs = 2
    Virtual = Virtual
    None = None
    Undefined = Undefined
    Bodies <- MCBodies
SPECIFICATION Spec
SYMMETRY Symmetry
CHECK_DEADLOCK FALSE
INVARIANTS
    AnalysesRight
    SsaFaithful
    LifetimesRight
