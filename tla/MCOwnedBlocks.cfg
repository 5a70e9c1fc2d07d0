CONSTANTS
    p1 = p1
    p2 = p2
    p3 = p3
    SHARED_PAGE = SHARED_PAGE
    UNOWNED = UNOWNED
    Procs <- MCProcs
    NPages = 4
    PageSize = 64
    WordSize = 8
    MaxSuper = 2

SPECIFICATION Spec
SYMMETRY MCSymmetry

INVARIANT TypeOK
INVARIANT FinalCommitCoversOwned
