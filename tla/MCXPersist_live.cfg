CONSTANTS
    p1 = p1
    p2 = p2
    SHARED_PAGE = SHARED_PAGE
    UNOWNED = UNOWNED
    Zero = Zero
    NoCopy = NoCopy
    NoTwin = NoTwin
    NoProc = NoProc
    Procs <- MCProcs
    Forcers <- MCForcerP1
    AccessKinds <- MCLoadStore
    Pages <- MCOnePage
    Bytes <- MCOneByte
    AllocatedPages <- MCNoneAllocated
    IsHeap = TRUE
    Fenced = TRUE
    MaxTx = 1
    UnclaimedHandout = TRUE

SPECIFICATION FairSpec

PROPERTY RecallCompletes
PROPERTY ForceCompletes

VIEW MCControlView
