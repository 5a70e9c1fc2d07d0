CONSTANTS
    p1 = p1
    p2 = p2
    p3 = p3
    SHARED_PAGE = SHARED_PAGE
    UNOWNED = UNOWNED
    Procs <- MCProcs
    NPages = 3
    PageSize = 32
    WordSize = 8
    MaxSuper = 2

SPECIFICATION Spec
SYMMETRY MCSymmetry

INVARIANT RegistryInBounds
