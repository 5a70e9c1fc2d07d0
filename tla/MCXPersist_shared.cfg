CONSTANTS
    p1 = p1
    p2 = p2
    SHARED_PAGE = SHARED_PAGE
    UNOWNED = UNOWNED
    Zero = Zero
    NoCopy = NoCopy
    NoTwin = NoTwin
    NoProc = NoProc
    Procs <- MCProcs
    Forcers <- MCNoForcers
    AccessKinds <- MCLoadStore
    Pages <- MCOnePage
    Bytes <- MCBytes
    AllocatedPages <- MCOnePage
    IsHeap = TRUE
    Fenced = TRUE
    MaxTx = 2
    UnclaimedHandout = FALSE

SPECIFICATION Spec
SYMMETRY MCSymmetry

INVARIANT TypeOK
INVARIANT NoLostUpdate
INVARIANT TwinPresentOnSlowPath
