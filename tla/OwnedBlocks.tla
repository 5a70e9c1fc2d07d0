----------------------------- MODULE OwnedBlocks -----------------------------
(***************************************************************************)
(* The owned-block registry of xpersist (src/src/include/xpersist.h):     *)
(* each process keeps, in _ownedblockinfo, the (startPage, endPage) pair  *)
(* of every superblock it claimed with setOwnedPage, and _ownedblocks,    *)
(* the number of pairs.  finalcommit walks the pairs and commits every    *)
(* page of them the process still owns.  _ownedblockinfo is one anonymous *)
(* MAP_PRIVATE page of unsigned longs (PageSize / WordSize entries).       *)
(*                                                                         *)
(* _pageOwner is shared by all processes.  Another process's recall of a  *)
(* page (notifyOwnerToCommit and the owner's commitOwnedPage, modelled in *)
(* XPersist) only matters here as the page becoming SHARED_PAGE.           *)
(*                                                                         *)
(* A store past the end of the mapping is undefined behaviour; what it    *)
(* wrote cannot be read back reliably.  The ghost spill records the       *)
(* indices written out of bounds, and a read of one returns any value.    *)
(***************************************************************************)
EXTENDS Naturals, FiniteSets

CONSTANTS
    Procs,          \* the processes sharing the region
    NPages,         \* pages of the region: 0 .. NPages - 1
    PageSize,       \* xdefines::PageSize
    WordSize,       \* sizeof(unsigned long)
    MaxSuper,       \* the most pages a superblock handed to setOwnedPage has
    SHARED_PAGE,    \* the owner of a shared page
    UNOWNED         \* _pageOwner[i] = 0

ASSUME NPages \in Nat \ {0} /\ MaxSuper \in Nat \ {0}
ASSUME PageSize \in Nat /\ WordSize \in Nat \ {0} /\ PageSize % WordSize = 0

Pages      == 0 .. NPages - 1
Slots      == PageSize \div WordSize          \* entries of _ownedblockinfo
PageValues == 0 .. NPages                     \* page numbers and end bounds

VARIABLES
    pageOwner,      \* _pageOwner
    ownedblocks,    \* _ownedblocks, per process
    blockinfo,      \* _ownedblockinfo, per process
    status,         \* "run", "exited" (finalcommit(false)), "aborted" (exit(-1))
    spill,          \* ghost: indices of _ownedblockinfo written out of bounds
    flushed         \* ghost: pages finalcommit committed, per process

vars == <<pageOwner, ownedblocks, blockinfo, status, spill, flushed>>

TypeOK ==
    /\ pageOwner \in [Pages -> Procs \cup {SHARED_PAGE, UNOWNED}]
    /\ ownedblocks \in [Procs -> Nat]
    /\ blockinfo \in [Procs -> [0 .. Slots - 1 -> PageValues]]
    /\ status \in [Procs -> {"run", "exited", "aborted"}]
    /\ spill \in [Procs -> SUBSET Nat]
    /\ flushed \in [Procs -> SUBSET Pages]

\* The constructor: a zero-filled mapping and _ownedblocks = 0.  The heap
\* pages above `end` are unowned.
Init ==
    /\ pageOwner = [g \in Pages |-> UNOWNED]
    /\ ownedblocks = [p \in Procs |-> 0]
    /\ blockinfo = [p \in Procs |-> [i \in 0 .. Slots - 1 |-> 0]]
    /\ status = [p \in Procs |-> "run"]
    /\ spill = [p \in Procs |-> {}]
    /\ flushed = [p \in Procs |-> {}]

\* Mutant: the end of the block stored one page too far.
BlockEndPastEnd(start, n) == start + n + 1

\* Mutant: the end of the block stored as its last page.
BlockEndInclusive(start, n) == start + n - 1

\* _ownedblockinfo[blocks * 2 + 1] = startPage + pages: one past the last page.
BlockEnd(start, n) == start + n

\* _ownedblockinfo[i] = v: in bounds a store, out of bounds a spill.
Store(a, i, v) == IF i < Slots THEN [a EXCEPT ![i] = v] ELSE a
Spilled(i)     == IF i < Slots THEN {} ELSE {i}

(***************************************************************************)
(* setOwnedPage(addr, size) for a superblock of n fresh pages from start: *)
(* _pageOwner and _pageInfo for each page (the protection is in XPersist),*)
(* the pair at index blocks * 2, _ownedblocks++, and exit(-1) when        *)
(* _ownedblocks reaches PageSize / 2.                                     *)
(***************************************************************************)
setOwnedPage(p) ==
    /\ status[p] = "run"
    /\ \E start \in Pages, n \in 1 .. MaxSuper :
          LET blk == start .. start + n - 1
              b   == ownedblocks[p]
          IN
          /\ blk \subseteq Pages
          /\ \A g \in blk : pageOwner[g] = UNOWNED
          /\ pageOwner' = [g \in Pages |-> IF g \in blk THEN p ELSE pageOwner[g]]
          /\ blockinfo' = [blockinfo EXCEPT ![p] =
                             Store(Store(@, b * 2, start), b * 2 + 1, BlockEnd(start, n))]
          /\ spill' = [spill EXCEPT ![p] = @ \cup Spilled(b * 2) \cup Spilled(b * 2 + 1)]
          /\ ownedblocks' = [ownedblocks EXCEPT ![p] = b + 1]
          /\ status' = [status EXCEPT ![p] = IF b + 1 = PageSize \div 2 THEN "aborted" ELSE @]
    /\ UNCHANGED flushed

\* Another process recalls a page owned by a process: it ends up shared,
\* whether the owner commits it or has gone and the recaller promotes it.
Recall(q, g) ==
    /\ status[q] = "run"
    /\ pageOwner[g] \in Procs \ {q}
    /\ pageOwner' = [pageOwner EXCEPT ![g] = SHARED_PAGE]
    /\ UNCHANGED <<ownedblocks, blockinfo, status, spill, flushed>>

(***************************************************************************)
(* finalcommit(release): for i < blocks, the pages from _ownedblockinfo   *)
(* [i*2] up to _ownedblockinfo[i*2+1] that the caller still owns are      *)
(* committed.  With release the pages become shared (commitOwnedPage with *)
(* setShared) and the process runs on; without, the process exits.  A     *)
(* slot past the mapping reads as any page number.                        *)
(***************************************************************************)
Visited(p, junk) ==
    LET slot(i) == IF i < Slots THEN blockinfo[p][i] ELSE junk[i]
    IN UNION {{j \in Pages : slot(i * 2) <= j /\ j < slot(i * 2 + 1)} :
                  i \in 0 .. ownedblocks[p] - 1}

finalcommit(p, release) ==
    /\ status[p] = "run"
    /\ \E junk \in [{i \in 0 .. 2 * ownedblocks[p] - 1 : i >= Slots} -> PageValues] :
          LET committed == {g \in Visited(p, junk) : pageOwner[g] = p} IN
          /\ flushed' = [flushed EXCEPT ![p] = @ \cup committed]
          /\ IF release
             THEN /\ pageOwner' = [g \in Pages |-> IF g \in committed THEN SHARED_PAGE
                                                  ELSE pageOwner[g]]
                  /\ UNCHANGED status
             ELSE /\ status' = [status EXCEPT ![p] = "exited"]
                  /\ UNCHANGED pageOwner
    /\ UNCHANGED <<ownedblocks, blockinfo, spill>>

Terminated == \A p \in Procs : status[p] # "run"

Next ==
    \/ \E p \in Procs :
          \/ setOwnedPage(p)
          \/ finalcommit(p, TRUE) \/ finalcommit(p, FALSE)
          \/ \E g \in Pages : Recall(p, g)
    \/ Terminated /\ UNCHANGED vars

Spec == Init /\ [][Next]_vars

(* finalcommit(false) at exit commits every page the process still owns:  *)
(* no page is left owned by an exited process without having been         *)
(* committed.  It depends on every setOwnedPage pair being stored at the  *)
(* right index, with the right bounds, and read back by finalcommit.      *)
FinalCommitCoversOwned ==
    \A p \in Procs : status[p] = "exited" =>
        \A g \in Pages : pageOwner[g] = p => g \in flushed[p]

(* setOwnedPage never writes past the one-page _ownedblockinfo mapping:   *)
(* the registry holds as many blocks as setOwnedPage accepts before its   *)
(* exit at PageSize / 2 (the spec: up to PageSize / 2 entries).           *)
RegistryInBounds == \A p \in Procs : spill[p] = {}
=============================================================================
