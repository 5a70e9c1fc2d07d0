CONSTANTS
    p1 = p1
    p2 = p2
    SHARED_PAGE = SHARED_PAGE
    UNOWNED = UNOWNED
    Zero = Zero
    NoCopy = NoCopy
    NoTwin = NoTwin
    NoProc = NoProc
    Procs <- MCProcs
    Forcers <- MCForcerP1
    AccessKinds <- MCLoadStore
    Pages <- MCPages
    Bytes <- MCOneByte
    AllocatedPages <- MCNoneAllocated
    IsHeap = TRUE
    Fenced = TRUE
    MaxTx = 0
    UnclaimedHandout = FALSE

SPECIFICATION Spec

PROPERTY ForceLeavesNoOwnedPage
