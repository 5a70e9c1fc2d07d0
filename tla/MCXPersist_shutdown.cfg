CONSTANTS
    p1 = p1
    p2 = p2
    SHARED_PAGE = SHARED_PAGE
    UNOWNED = UNOWNED
    Zero = Zero
    NoCopy = NoCopy
    NoTwin = NoTwin
    NoProc = NoProc
    Procs <- MCProcs
    Forcers <- MCProcs
    AccessKinds <- MCLoadStore
    Pages <- MCOnePage
    Bytes <- MCOneByte
    AllocatedPages <- MCNoneAllocated
    IsHeap = TRUE
    Fenced = TRUE
    MaxTx = 2
    UnclaimedHandout = FALSE

SPECIFICATION Spec
SYMMETRY MCSymmetry

INVARIANT ShutdownKeepsStores
