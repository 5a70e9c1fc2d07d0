CONSTANTS
    PageLen <- MCPageLen
    WordLen <- MCWordLen
    ChunkLen <- MCChunkLen
    Vals <- MCVals

SPECIFICATION Spec

INVARIANT ScalarMatchesReference
INVARIANT SSEMatchesReference
