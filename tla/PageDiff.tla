------------------------------ MODULE PageDiff ------------------------------
(***************************************************************************)
(* The byte-wise three-way merge of xpersist::writePageDiffs              *)
(* (src/src/include/xpersist.h).  On a contended commit the committing    *)
(* process writes into the shared page every byte of its working copy     *)
(* ("local") that differs from the twin, the snapshot taken before any    *)
(* writer of the round committed.  Two builds exist: the SSE loop over    *)
(* 16-byte chunks with a compare/invert/masked-store, and the scalar loop *)
(* over 8-byte words that falls back to commitWord byte by byte.          *)
(*                                                                         *)
(* A page is a function from byte offsets to values; ChunkLen and WordLen *)
(* stand for sizeof(__m128i) and sizeof(long long).                       *)
(***************************************************************************)
EXTENDS Naturals

CONSTANTS
    PageLen,    \* bytes in a page (xdefines::PageSize)
    WordLen,    \* bytes in a scalar word (sizeof(long long))
    ChunkLen,   \* bytes in an SSE chunk (sizeof(__m128i))
    Vals        \* the byte values a page may hold

ASSUME /\ WordLen > 0 /\ ChunkLen > 0
       /\ PageLen % WordLen = 0 /\ PageLen % ChunkLen = 0

Offsets == 0 .. (PageLen - 1)
Page == [Offsets -> Vals]

VARIABLES
    local,      \* the committing process's working copy
    twin,       \* the twin: the page before either writer committed
    dest        \* the persistent (shared) page being written

vars == <<local, twin, dest>>

(***************************************************************************)
(* Reference definition: a byte of dest takes the local value exactly     *)
(* where local and twin differ.                                           *)
(***************************************************************************)
ThreeWayMerge(l, t, d) == [i \in Offsets |-> IF l[i] # t[i] THEN l[i] ELSE d[i]]

(***************************************************************************)
(* Scalar build.  commitWord copies the bytes of one word that differ     *)
(* from the twin; the outer loop calls it only for words that differ.     *)
(***************************************************************************)
\* Mutant: the whole word is stored, without the per-byte test.
commitWordWhole(w, l, t, d) ==
    [i \in Offsets |->
        IF i \in (w * WordLen) .. (w * WordLen + WordLen - 1) THEN l[i] ELSE d[i]]

commitWord(w, l, t, d) ==
    [i \in Offsets |->
        IF i \in (w * WordLen) .. (w * WordLen + WordLen - 1) /\ l[i] # t[i]
        THEN l[i] ELSE d[i]]

WordOf(f, w) == [k \in 0 .. (WordLen - 1) |-> f[w * WordLen + k]]

RECURSIVE ScalarLoop(_, _, _, _)
ScalarLoop(w, l, t, d) ==
    IF w >= PageLen \div WordLen THEN d
    ELSE ScalarLoop(w + 1, l, t,
                    IF WordOf(l, w) # WordOf(t, w) THEN commitWord(w, l, t, d) ELSE d)

WritePageDiffsScalar(l, t, d) == ScalarLoop(0, l, t, d)

(***************************************************************************)
(* SSE build.  For chunk c: eqChunk is the byte mask local = twin,        *)
(* neqChunk its complement (XOR with all ones), and _mm_maskmoveu_si128   *)
(* stores the local bytes selected by neqChunk.                           *)
(***************************************************************************)
ChunkBytes(c) == (c * ChunkLen) .. (c * ChunkLen + ChunkLen - 1)

MaskMove(c, l, mask, d) ==
    [i \in Offsets |-> IF i \in ChunkBytes(c) /\ mask[i] THEN l[i] ELSE d[i]]

\* Mutant: the XOR that inverts eqChunk left out.
SSEChunkNoInvert(c, l, t, d) ==
    MaskMove(c, l, [i \in Offsets |-> l[i] = t[i]], d)

SSEChunk(c, l, t, d) ==
    LET eqChunk  == [i \in Offsets |-> l[i] = t[i]]
        neqChunk == [i \in Offsets |-> ~eqChunk[i]]
    IN  MaskMove(c, l, neqChunk, d)

RECURSIVE SSELoop(_, _, _, _)
SSELoop(c, l, t, d) ==
    IF c >= PageLen \div ChunkLen THEN d
    ELSE SSELoop(c + 1, l, t, SSEChunk(c, l, t, d))

WritePageDiffsSSE(l, t, d) == SSELoop(0, l, t, d)

(***************************************************************************)
(* The inputs range over every page; a step rewrites one byte of one of   *)
(* them, so every combination is reached and connected.                   *)
(***************************************************************************)
Init ==
    /\ local \in Page
    /\ twin \in Page /\ dest \in Page

SetByte(f, i, v) == [f EXCEPT ![i] = v]

EditLocal ==
    \E i \in Offsets, v \in Vals :
        local' = SetByte(local, i, v) /\ UNCHANGED <<twin, dest>>

EditTwin ==
    \E i \in Offsets, v \in Vals :
        twin' = SetByte(twin, i, v) /\ UNCHANGED <<local, dest>>

EditDest ==
    \E i \in Offsets, v \in Vals :
        dest' = SetByte(dest, i, v) /\ UNCHANGED <<local, twin>>

Next == EditLocal \/ EditTwin \/ EditDest

Spec == Init /\ [][Next]_vars

(***************************************************************************)
(* The scalar build (commitWord under the word loop) writes exactly the   *)
(* bytes the reference merge writes, on every input.                      *)
(***************************************************************************)
ScalarMatchesReference ==
    WritePageDiffsScalar(local, twin, dest) = ThreeWayMerge(local, twin, dest)

(***************************************************************************)
(* The SSE build (compare, invert, masked store) is byte-exact with the   *)
(* reference merge, so the two builds of writePageDiffs agree.            *)
(***************************************************************************)
SSEMatchesReference ==
    WritePageDiffsSSE(local, twin, dest) = ThreeWayMerge(local, twin, dest)
=============================================================================
