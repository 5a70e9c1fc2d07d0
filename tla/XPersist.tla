------------------------------ MODULE XPersist ------------------------------
(***************************************************************************)
(* The transactional memory region of xpersist<Type, NElts>               *)
(* (src/src/include/xpersist.h), shared by cooperating processes.         *)
(*                                                                         *)
(* Shared state (MAP_SHARED):  _pageOwner (owner), _persistentVersions    *)
(* (version), _pageUsers[].users (users), the twin page named by          *)
(* _pageUsers[].bitmapIndex (twin), and the persistent view (persistent). *)
(* Per-process state:  _pageInfo (pageInfo), the kernel protection of the *)
(* transient view (prot), the private copy-on-write copy of a transient   *)
(* page (priv), _dirtiedPagesList (dirty), _ownedblockinfo (owned), and   *)
(* the SIGUSR1 that is pending for the process (pending).  The heap      *)
(* allocator is outside the module: handed is the set of fresh pages it   *)
(* has given out without a claim (spec 3: an unclaimed page).            *)
(*                                                                         *)
(* The process's own control state: op, the memory access it is trying    *)
(* to execute (the faulting instruction is re-executed after the SIGSEGV  *)
(* handler returns), fault, where the SIGSEGV handler is, and phase, its  *)
(* place in the begin/commit cycle driven by the enclosing runtime.       *)
(*                                                                         *)
(* Data is abstracted to the identity of the writer: a store by process p *)
(* writes the value p.  Two ghost variables record what the serial        *)
(* semantics promises: wrote[p][g], the bytes p stored in page g that it  *)
(* has not yet published, and abs, the memory obtained by applying every  *)
(* publication in the order it happened.  Two stores to one byte race     *)
(* when neither was published before the other was made; overlap[p][g]   *)
(* holds p's unpublished bytes that another process published over, and  *)
(* racy[g] the bytes whose last publication was one of a race.            *)
(***************************************************************************)
EXTENDS Naturals, Sequences, SequencesExt, FiniteSets

CONSTANTS
    Procs,          \* the processes ("threads") sharing the region
    Pages,          \* page numbers of the region
    Bytes,          \* byte offsets within a page
    AllocatedPages, \* pages below `end` when setCopyOnWrite ran
    IsHeap,         \* _isHeap: the region is the heap, not the globals
    Fenced,         \* the runtime fences rounds: all commit, then all begin
    MaxTx,          \* transactions each process may begin
    SHARED_PAGE,    \* the owner of a page every process may use
    UNOWNED,        \* _pageOwner[i] = 0: not handed out yet
    Zero,           \* the byte value of a fresh page
    NoCopy,         \* no private copy: the page reads the file
    NoTwin,         \* bitmapIndex = 0
    NoProc,         \* nobody holds the commit token
    Forcers,        \* the processes that call forceCommitOwnedPages
    AccessKinds,    \* the accesses the application issues: "R" load, "W" store
    UnclaimedHandout \* the allocator may hand out a page without setOwnedPage

ASSUME AllocatedPages \subseteq Pages /\ IsHeap \in BOOLEAN /\ Fenced \in BOOLEAN
ASSUME MaxTx \in Nat /\ Pages \subseteq Nat \ {0} /\ Forcers \subseteq Procs
ASSUME AccessKinds \subseteq {"R", "W"} /\ UnclaimedHandout \in BOOLEAN

NoSig       == 0              \* no SIGUSR1 pending (pages are numbered from 1)
NoOp        == [kind |-> "none"]
Idle        == [at |-> "idle"]

\* page_access_info
AccessStates == {"NONE", "READ", "READ_WRITE", "UNUSED"}
Protections  == {"PROT_NONE", "PROT_READ", "PROT_RW"}

Vals      == Procs \cup {Zero}
Page      == [Bytes -> Vals]
ZeroPage  == [b \in Bytes |-> Zero]
Entry     == [page : Pages, version : Nat, release : BOOLEAN]   \* xpageinfo
Owners    == Procs \cup {SHARED_PAGE, UNOWNED}
ReadByte  == CHOOSE b \in Bytes : TRUE

VARIABLES
    owner, version, users, twin, persistent, token, handed,
    pageInfo, prot, priv, dirty, cursor, owned, pending,
    op, fault, phase, tx,
    wrote, abs, overlap, racy, asserts

sharedVars == <<owner, version, users, twin, persistent, token, handed>>
localVars  == <<pageInfo, prot, priv, dirty, cursor, owned, pending>>
ctlVars    == <<op, fault, phase, tx>>
ghostVars  == <<wrote, abs, overlap, racy, asserts>>
vars == <<sharedVars, localVars, ctlVars, ghostVars>>

\* An exited process stays a zombie ("exited") until the runtime reaps it.
Alive(p) == phase[p] \notin {"exited", "reaped"}

\* The contents process p sees at page g of its transient view: a
\* MAP_PRIVATE page that has not been written reads through to the file.
LocalView(p, g) == IF priv[p][g] = NoCopy THEN persistent[g] ELSE priv[p][g]

\* The serial memory after p publishes its stores to page g.
Publish(pg, bs, p) == [b \in Bytes |-> IF b \in bs THEN p ELSE pg[b]]

\* The ghost step of p publishing its stores to the pages of S.
Racing(p, g) ==
    {b \in wrote[p][g] : b \in overlap[p][g] \/ \E q \in Procs \ {p} : b \in wrote[q][g]}

PublishGhost(p, S) ==
    /\ abs' = [g \in Pages |-> IF g \in S THEN Publish(abs[g], wrote[p][g], p) ELSE abs[g]]
    /\ racy' = [g \in Pages |-> IF g \in S THEN (racy[g] \ wrote[p][g]) \cup Racing(p, g)
                                         ELSE racy[g]]
    /\ overlap' = [q \in Procs |-> [g \in Pages |->
                     IF g \notin S THEN overlap[q][g]
                     ELSE IF q = p THEN {} ELSE overlap[q][g] \cup (wrote[q][g] \cap wrote[p][g])]]
    /\ wrote' = [wrote EXCEPT ![p] = [g \in Pages |-> IF g \in S THEN {} ELSE @[g]]]

\* Mutant: the whole local page overwrites the destination.
writePageDiffsWhole(l, t, d) == l

\* writePageDiffs(local, twin, dest); see PageDiff for the byte loop.
writePageDiffs(l, t, d) == [b \in Bytes |-> IF l[b] # t[b] THEN l[b] ELSE d[b]]

\* std::multimap insertion: after every entry with a page number <= g.
InsertDirty(s, e) ==
    InsertAt(s, Cardinality({i \in 1 .. Len(s) : s[i].page <= e.page}) + 1, e)

TypeOK ==
    /\ owner \in [Pages -> Owners]
    /\ version \in [Pages -> Nat]
    /\ users \in [Pages -> Nat]
    /\ twin \in [Pages -> Page \cup {NoTwin}]
    /\ persistent \in [Pages -> Page]
    /\ token \in Procs \cup {NoProc}
    /\ handed \subseteq Pages
    /\ pageInfo \in [Procs -> [Pages -> AccessStates]]
    /\ prot \in [Procs -> [Pages -> Protections]]
    /\ priv \in [Procs -> [Pages -> Page \cup {NoCopy}]]
    /\ dirty \in [Procs -> Seq(Entry)]
    /\ cursor \in [Procs -> Nat]
    /\ owned \in [Procs -> SUBSET Pages]
    /\ pending \in [Procs -> Pages \cup {NoSig}]
    /\ op \in [Procs -> {NoOp} \cup [kind : {"R", "W"}, page : Pages, byte : Bytes]]
    /\ fault \in [Procs -> {Idle} \cup
                  [at : {"scan", "send", "spin", "finish", "protect", "record"}, kind : {"R", "W", "F"},
                   page : Pages, saved : Owners]]
    /\ phase \in [Procs -> {"run", "fence", "commit", "done", "closed", "exited", "reaped"}]
    /\ tx \in [Procs -> 0 .. MaxTx]
    /\ wrote \in [Procs -> [Pages -> SUBSET Bytes]]
    /\ abs \in [Pages -> Page]
    /\ overlap \in [Procs -> [Pages -> SUBSET Bytes]]
    /\ racy \in [Pages -> SUBSET Bytes]
    /\ asserts \subseteq {"handleRead", "handleWrite", "twin"}

-----------------------------------------------------------------------------
(***************************************************************************)
(* Init: the region after the constructor, initialize() and               *)
(* setCopyOnWrite(end, true).  For the heap every page is PROT_NONE; the  *)
(* pages below `end` are SHARED_PAGE/NONE and the rest unowned/UNUSED.    *)
(* For the globals every page is SHARED_PAGE, READ and PROT_READ.         *)
(***************************************************************************)
\* The constructor: the backing file under both views, zero-filled for
\* the heap and holding the program's globals (any contents) otherwise,
\* and the shared arrays (versions, users, bitmap indices) zeroed.  A
\* failed mmap aborts the program and leaves no state to model.
xpersistInit ==
    /\ version = [g \in Pages |-> 0]
    /\ users = [g \in Pages |-> 0]
    /\ twin = [g \in Pages |-> NoTwin]
    /\ persistent \in IF IsHeap THEN {[g \in Pages |-> ZeroPage]} ELSE [Pages -> Page]
    /\ priv = [p \in Procs |-> [g \in Pages |-> NoCopy]]
    /\ dirty = [p \in Procs |-> << >>]

\* setCopyOnWrite(end, true), inherited by every process at fork.
setCopyOnWrite ==
    /\ owner = [g \in Pages |-> IF ~IsHeap \/ g \in AllocatedPages
                                THEN SHARED_PAGE ELSE UNOWNED]
    /\ pageInfo = [p \in Procs |-> [g \in Pages |->
                     IF ~IsHeap THEN "READ"
                     ELSE IF g \in AllocatedPages THEN "NONE" ELSE "UNUSED"]]
    /\ prot = [p \in Procs |-> [g \in Pages |->
                 IF IsHeap THEN "PROT_NONE" ELSE "PROT_READ"]]
    /\ owned = [p \in Procs |-> {}]

Init ==
    /\ xpersistInit /\ setCopyOnWrite
    /\ token = NoProc
    /\ handed = {}
    /\ cursor = [p \in Procs |-> 1]
    /\ pending = [p \in Procs |-> NoSig]
    /\ op = [p \in Procs |-> NoOp]
    /\ fault = [p \in Procs |-> Idle]
    /\ phase = [p \in Procs |-> "run"]
    /\ tx = [p \in Procs |-> 0]
    /\ wrote = [p \in Procs |-> [g \in Pages |-> {}]]
    /\ abs = persistent
    /\ overlap = [p \in Procs |-> [g \in Pages |-> {}]]
    /\ racy = [g \in Pages |-> {}]
    /\ asserts = {}

-----------------------------------------------------------------------------
(***************************************************************************)
(* Page-state primitives, as functions of the state they rewrite.         *)
(***************************************************************************)

\* mprotectRead: _pageInfo = READ; mprotect(PROT_READ).
mprotectRead(p, g) ==
    /\ pageInfo' = [pageInfo EXCEPT ![p][g] = "READ"]
    /\ prot' = [prot EXCEPT ![p][g] = "PROT_READ"]

\* mprotectReadWrite: READ_WRITE only for the page's owner; PROT_RW always.
\* The owner test and the store to _pageInfo are two steps: a SIGUSR1 may
\* share the page in between (see handleWrite and protectReadWrite).  Here
\* both are one step, for the callers that reach it for a page owned by
\* another process or shared, which no SIGUSR1 to p turns into p's.
InfoAfterRW(p, g) == IF owner[g] = p THEN "READ_WRITE" ELSE pageInfo[p][g]

mprotectReadWrite(p, g) ==
    /\ pageInfo' = [pageInfo EXCEPT ![p][g] = InfoAfterRW(p, g)]
    /\ prot' = [prot EXCEPT ![p][g] = "PROT_RW"]

\* setSharedPage: the exchange and the local READ happen only if the page
\* was not shared yet.
\* Mutant: the exchange stores 0 (unowned) instead of SHARED_PAGE.
SharedOwnerZero(g) == [owner EXCEPT ![g] = UNOWNED]

SharedOwner(g) == [owner EXCEPT ![g] = SHARED_PAGE]
InfoAfterShare(p, g) == IF owner[g] # SHARED_PAGE THEN "READ" ELSE pageInfo[p][g]

setSharedPage(p, g) ==
    /\ owner' = SharedOwner(g)
    /\ pageInfo' = [pageInfo EXCEPT ![p][g] = InfoAfterShare(p, g)]

(***************************************************************************)
(* commitOwnedPage(pageNo, setShared) for every page of S at once (the    *)
(* pages are distinct, so finalcommit's loop is the same update):         *)
(*   - if _pageInfo is neither NONE nor READ, memcpy the transient page   *)
(*     to the persistent one and mprotect it PROT_NONE;                   *)
(*   - if setShared, setSharedPage and madvise(MADV_DONTNEED), which      *)
(*     drops the private copy;                                            *)
(*   - _persistentVersions[pageNo]++, unconditionally.                    *)
(* The owner is not checked: the page is committed whoever owns it.       *)
(***************************************************************************)
\* Mutant: READ_WRITE written for READ in commitOwnedPage's test.
FlushesSwapped(p, g) == pageInfo[p][g] \notin {"NONE", "READ_WRITE"}

Flushes(p, g) == pageInfo[p][g] \notin {"NONE", "READ"}

CommitOwnedPages(p, S, setShared) ==
    LET fl(g) == g \in S /\ Flushes(p, g)
        sh(g) == g \in S /\ setShared
    IN
    /\ persistent' = [g \in Pages |-> IF fl(g) THEN LocalView(p, g) ELSE persistent[g]]
    /\ PublishGhost(p, {g \in S : Flushes(p, g)})
    /\ prot' = [prot EXCEPT ![p] = [g \in Pages |-> IF fl(g) THEN "PROT_NONE" ELSE @[g]]]
    /\ owner' = [g \in Pages |-> IF sh(g) THEN SHARED_PAGE ELSE owner[g]]
    /\ pageInfo' = [pageInfo EXCEPT ![p] = [g \in Pages |->
                      IF sh(g) /\ owner[g] # SHARED_PAGE THEN "READ" ELSE @[g]]]
    /\ priv' = [priv EXCEPT ![p] = [g \in Pages |-> IF sh(g) THEN NoCopy ELSE @[g]]]
    /\ version' = [g \in Pages |-> IF g \in S THEN version[g] + 1 ELSE version[g]]

-----------------------------------------------------------------------------
(***************************************************************************)
(* The application.  A process in its parallel phase issues a load or a   *)
(* store to an allocated page (the allocator hands out a page before it   *)
(* is used); the access executes once the protection allows it, and      *)
(* faults otherwise.  A store copies the page on first write (MAP_PRIVATE)*)
(***************************************************************************)
Ready(p) == op[p] = NoOp /\ fault[p] = Idle

Issue(p) ==
    /\ phase[p] = "run" /\ Ready(p)
    /\ \E g \in Pages, b \in Bytes, k \in AccessKinds :
          /\ owner[g] # UNOWNED \/ g \in handed
          /\ op' = [op EXCEPT ![p] = [kind |-> k, page |-> g,
                                      byte |-> IF k = "R" THEN ReadByte ELSE b]]
    /\ UNCHANGED <<sharedVars, localVars, fault, phase, tx, ghostVars>>

Permitted(p) ==
    IF op[p].kind = "R" THEN prot[p][op[p].page] # "PROT_NONE"
                        ELSE prot[p][op[p].page] = "PROT_RW"

Execute(p) ==
    /\ op[p] # NoOp /\ fault[p] = Idle /\ Permitted(p)
    /\ LET g == op[p].page
           b == op[p].byte
       IN IF op[p].kind = "W"
          THEN /\ priv' = [priv EXCEPT ![p][g] = [LocalView(p, g) EXCEPT ![b] = p]]
               /\ wrote' = [wrote EXCEPT ![p][g] = @ \cup {b}]
          ELSE UNCHANGED <<priv, wrote>>
    /\ op' = [op EXCEPT ![p] = NoOp]
    /\ UNCHANGED <<sharedVars, pageInfo, prot, dirty, cursor, owned, pending,
                   fault, phase, tx, abs, overlap, racy, asserts>>

\* setOwnedPage(addr, size) for a fresh one-page superblock.  The
\* _ownedblocks == PageSize/2 exit is beyond the model's page count.
\* The allocator claims only pages it has not handed out unclaimed.
setOwnedPage(p) ==
    /\ phase[p] = "run" /\ Ready(p)
    /\ \E g \in Pages :
          /\ owner[g] = UNOWNED /\ g \notin handed
          /\ prot' = [prot EXCEPT ![p][g] = "PROT_NONE"]
          /\ owner' = [owner EXCEPT ![g] = p]
          /\ pageInfo' = [pageInfo EXCEPT ![p][g] = "NONE"]
          /\ owned' = [owned EXCEPT ![p] = @ \cup {g}]
    /\ UNCHANGED <<version, users, twin, persistent, token, handed, priv, dirty, cursor,
                   pending, ctlVars, ghostVars>>

\* The allocator hands a fresh page out without setOwnedPage: _pageOwner
\* stays 0 and the first access promotes it (notifyOwnerToCommit).
handOut(g) ==
    /\ UnclaimedHandout
    /\ owner[g] = UNOWNED /\ g \notin handed
    /\ handed' = handed \cup {g}
    /\ UNCHANGED <<owner, version, users, twin, persistent, token, localVars, ctlVars,
                   ghostVars>>

-----------------------------------------------------------------------------
(***************************************************************************)
(* The SIGSEGV handler: handleAccess -> handleRead / handleWrite.  A      *)
(* page in state UNUSED belongs to another process and is recalled with   *)
(* notifyOwnerToCommit, which sends SIGUSR1 and spins; the handler then   *)
(* continues at "finish".  A write ends with the dirty-list step          *)
(* "record".  ASSERT is compiled out; reaching one is recorded in asserts.*)
(***************************************************************************)
Faulting(p) == op[p] # NoOp /\ fault[p] = Idle /\ ~Permitted(p)

\* notifyOwnerToCommit, first read of _pageOwner: shared means return.
StartNotify(p, k, g) ==
    /\ owner[g] # SHARED_PAGE
    /\ fault' = [fault EXCEPT ![p] = [at |-> "send", kind |-> k, page |-> g,
                                      saved |-> owner[g]]]
    /\ UNCHANGED <<pageInfo, prot, persistent, abs, overlap, racy, wrote, owner, version, priv, asserts>>

handleRead(p) ==
    /\ Faulting(p) /\ op[p].kind = "R"
    /\ LET g == op[p].page IN
       \/ /\ pageInfo[p][g] = "UNUSED"
          /\ StartNotify(p, "R", g)
       \/ /\ pageInfo[p][g] = "UNUSED" /\ owner[g] = SHARED_PAGE
          /\ mprotectRead(p, g)
          /\ UNCHANGED <<fault, persistent, abs, overlap, racy, wrote, owner, version, priv, asserts>>
       \/ /\ pageInfo[p][g] = "NONE"
          /\ mprotectRead(p, g)
          /\ UNCHANGED <<fault, persistent, abs, overlap, racy, wrote, owner, version, priv, asserts>>
       \/ /\ pageInfo[p][g] \in {"READ", "READ_WRITE"}      \* ASSERT(0)
          /\ asserts' = asserts \cup {"handleRead"}
          /\ mprotectRead(p, g)
          /\ UNCHANGED <<fault, persistent, abs, overlap, racy, wrote, owner, version, priv>>
    /\ UNCHANGED <<users, twin, token, handed, dirty, cursor, owned, pending, op, phase, tx>>

ToRecord(p, g) == [fault EXCEPT ![p] = [at |-> "record", kind |-> "W", page |-> g,
                                       saved |-> owner[g]]]

handleWrite(p) ==
    /\ Faulting(p) /\ op[p].kind = "W"
    /\ LET g == op[p].page IN
       \/ /\ pageInfo[p][g] = "UNUSED"
          /\ StartNotify(p, "W", g)
       \/ /\ pageInfo[p][g] = "UNUSED" /\ owner[g] = SHARED_PAGE
          /\ mprotectReadWrite(p, g)
          /\ fault' = ToRecord(p, g)
          /\ UNCHANGED <<persistent, abs, overlap, racy, wrote, owner, version, priv, asserts>>
       \/ /\ pageInfo[p][g] \in {"READ", "NONE"}
          \* mprotectReadWrite, its first half: if (_pageOwner[pageNo] == getpid())
          /\ fault' = [fault EXCEPT ![p] = [at |-> "protect", kind |-> "W", page |-> g,
                                            saved |-> owner[g]]]
          /\ UNCHANGED <<pageInfo, prot, persistent, abs, overlap, racy, wrote, owner,
                         version, priv, asserts>>
       \/ /\ pageInfo[p][g] = "READ_WRITE" /\ "handleWrite" \notin asserts
          \* mprotectReadWrite, then commitOwnedPage(pageNo, false) (which
          \* mprotects PROT_NONE again), then the fall-through to ASSERT(0).
          /\ CommitOwnedPages(p, {g}, FALSE)
          /\ asserts' = asserts \cup {"handleWrite"}
          /\ fault' = ToRecord(p, g)
    /\ UNCHANGED <<users, twin, token, handed, dirty, cursor, owned, pending, op, phase, tx>>

\* notify_owner: claim an unowned page, or sigqueue(owner, SIGUSR1, pageNo).
\* A standard signal that is already pending is not queued again, and a
\* zombie accepts the signal and discards it.  sigqueue fails (ESRCH) only
\* for a process that has been reaped, or for pid 0, when the first read
\* found the page unclaimed and another process promoted it before the
\* second: promote and return.
notifySend(p) ==
    /\ fault[p].at = "send"
    /\ LET g == fault[p].page
           o == fault[p].saved
       IN IF owner[g] = UNOWNED
          THEN /\ setSharedPage(p, g)
               /\ fault' = [fault EXCEPT ![p].at = "spin"]
               /\ UNCHANGED pending
          ELSE IF o \notin Procs \/ phase[o] = "reaped"
          THEN /\ setSharedPage(p, g)
               /\ fault' = [fault EXCEPT ![p].at = "finish"]
               /\ UNCHANGED pending
          ELSE /\ pending' = [pending EXCEPT ![o] = IF @ = NoSig /\ Alive(o) THEN g ELSE @]
               /\ fault' = [fault EXCEPT ![p].at = "spin"]
               /\ UNCHANGED <<owner, pageInfo>>
    /\ UNCHANGED <<version, users, twin, persistent, token, handed, prot, priv, dirty,
                   cursor, owned, op, phase, tx, ghostVars>>

\* Mutant: the spin-wait left out.
notifySpinNoWait(p) ==
    /\ fault[p].at = "spin"
    /\ fault' = [fault EXCEPT ![p].at = "finish"]
    /\ UNCHANGED <<sharedVars, localVars, op, phase, tx, ghostVars>>

\* while (!isSharedPage(pageNo)) { ... }
notifySpin(p) ==
    /\ fault[p].at = "spin" /\ owner[fault[p].page] = SHARED_PAGE
    /\ fault' = [fault EXCEPT ![p].at = "finish"]
    /\ UNCHANGED <<sharedVars, localVars, op, phase, tx, ghostVars>>

\* i == 100000: goto notify_owner, with the owner read at the start.  The
\* owner may not have run its handler yet: nothing bounds how soon a
\* signal is delivered.
notifyRetry(p) ==
    /\ fault[p].at = "spin" /\ owner[fault[p].page] # SHARED_PAGE
    /\ fault' = [fault EXCEPT ![p].at = "send"]
    /\ UNCHANGED <<sharedVars, localVars, op, phase, tx, ghostVars>>

\* After notifyOwnerToCommit: mprotectRead, or mprotectReadWrite for a write.
faultFinish(p) ==
    /\ fault[p].at = "finish" /\ fault[p].kind # "F"
    /\ LET g == fault[p].page IN
       IF fault[p].kind = "R"
       THEN mprotectRead(p, g) /\ fault' = [fault EXCEPT ![p] = Idle]
       ELSE mprotectReadWrite(p, g) /\ fault' = ToRecord(p, g)
    /\ UNCHANGED <<owner, version, users, twin, persistent, token, handed, priv, dirty,
                   cursor, owned, pending, op, phase, tx, ghostVars>>

\* mprotectReadWrite, its second half, after the owner test read saved:
\* _pageInfo[pageNo] = PAGE_ACCESS_READ_WRITE; mprotect(PROT_READ|PROT_WRITE).
protectReadWrite(p) ==
    /\ fault[p].at = "protect"
    /\ LET g == fault[p].page IN
       /\ pageInfo' = [pageInfo EXCEPT ![p][g] = IF fault[p].saved = p THEN "READ_WRITE" ELSE @]
       /\ prot' = [prot EXCEPT ![p][g] = "PROT_RW"]
       /\ fault' = ToRecord(p, g)
    /\ UNCHANGED <<sharedVars, priv, dirty, cursor, owned, pending, op, phase, tx, ghostVars>>

\* Mutant: the xatomic::increment of _pageUsers left out.
recordDirtyNoUser(p) ==
    /\ fault[p].at = "record"
    /\ LET g == fault[p].page IN
       IF owner[g] = p
       THEN UNCHANGED dirty
       ELSE dirty' = [dirty EXCEPT ![p] = InsertDirty(@,
                        [page |-> g, version |-> version[g], release |-> TRUE])]
    /\ fault' = [fault EXCEPT ![p] = Idle]
    /\ UNCHANGED <<owner, version, users, twin, persistent, token, handed, pageInfo, prot, priv,
                   cursor, owned, pending, op, phase, tx, ghostVars>>

\* The end of handleWrite: an owned page is not listed; otherwise
\* users[pageNo]++ and an xpageinfo with the current version is inserted.
recordDirty(p) ==
    /\ fault[p].at = "record"
    /\ LET g == fault[p].page IN
       IF owner[g] = p
       THEN UNCHANGED <<users, dirty>>
       ELSE /\ users' = [users EXCEPT ![g] = @ + 1]
            /\ dirty' = [dirty EXCEPT ![p] = InsertDirty(@,
                           [page |-> g, version |-> version[g], release |-> TRUE])]
    /\ fault' = [fault EXCEPT ![p] = Idle]
    /\ UNCHANGED <<owner, version, twin, persistent, token, handed, pageInfo, prot, priv,
                   cursor, owned, pending, op, phase, tx, ghostVars>>

\* Mutant: SIGUSR1 blocked while the SIGSEGV handler runs (in its sa_mask).
deliverSignalMasked(p) ==
    /\ Alive(p) /\ pending[p] # NoSig /\ fault[p] = Idle
    /\ CommitOwnedPages(p, {pending[p]}, TRUE)
    /\ pending' = [pending EXCEPT ![p] = NoSig]
    /\ UNCHANGED <<users, twin, token, handed, dirty, cursor, owned, ctlVars, asserts>>

\* Mutant: the handler commits the page without sharing it.
deliverSignalNoShare(p) ==
    /\ Alive(p) /\ pending[p] # NoSig
    /\ CommitOwnedPages(p, {pending[p]}, FALSE)
    /\ pending' = [pending EXCEPT ![p] = NoSig]
    /\ UNCHANGED <<users, twin, token, handed, dirty, cursor, owned, ctlVars, asserts>>

\* The SIGUSR1 handler, run between any two steps of a live process:
\* commitOwnedPage(sival_int, true).
deliverSignal(p) ==
    /\ Alive(p) /\ pending[p] # NoSig
    /\ CommitOwnedPages(p, {pending[p]}, TRUE)
    /\ pending' = [pending EXCEPT ![p] = NoSig]
    /\ UNCHANGED <<users, twin, token, handed, dirty, cursor, owned, ctlVars, asserts>>

-----------------------------------------------------------------------------
(***************************************************************************)
(* forceCommitOwnedPages(pid, end), called by p before it cancels or      *)
(* kills process v: a loop over the pages below `end` (all of Pages) in   *)
(* increasing order that runs notifyOwnerToCommit(i) for every page whose *)
(* _pageOwner is v when the loop reads it.  The loop is a third kind "F"  *)
(* of the notify machine: "scan" reads _pageOwner[i]; "finish" returns to *)
(* the loop.  The loop index is fault.page and the target pid is saved.   *)
(***************************************************************************)
\* Mutant: the loop's i++ left out.
ScanNextStay(p, i, v) ==
    [fault EXCEPT ![p] = [at |-> "scan", kind |-> "F", page |-> i, saved |-> v]]

\* for (i++): the next page of the loop, or the return when i == endpage - 1.
ScanNext(p, i, v) ==
    LET rest == {g \in Pages : g > i} IN
    IF rest = {} THEN [fault EXCEPT ![p] = Idle]
    ELSE [fault EXCEPT ![p] = [at |-> "scan", kind |-> "F", page |-> Min(rest), saved |-> v]]

forceCommitOwnedPages(p) ==
    /\ p \in Forcers /\ phase[p] = "run" /\ Ready(p)
    /\ \E v \in Procs \ {p} :
          fault' = [fault EXCEPT ![p] = [at |-> "scan", kind |-> "F", page |-> Min(Pages),
                                          saved |-> v]]
    /\ UNCHANGED <<sharedVars, localVars, op, phase, tx, ghostVars>>

\* if (_pageOwner[i] == pid) notifyOwnerToCommit(i);
forceScan(p) ==
    /\ fault[p].at = "scan"
    /\ LET i == fault[p].page
           v == fault[p].saved
       IN \/ /\ owner[i] = v
             /\ StartNotify(p, "F", i)
          \/ /\ owner[i] # v
             /\ fault' = ScanNext(p, i, v)
             /\ UNCHANGED <<pageInfo, prot, persistent, abs, overlap, racy, wrote, owner,
                            version, priv, asserts>>
    /\ UNCHANGED <<users, twin, token, handed, dirty, cursor, owned, pending, op, phase, tx>>

\* notifyOwnerToCommit(i) has returned: on with the loop.  saved is still
\* the target pid, as the page's owner when the notify began.
forceResume(p) ==
    /\ fault[p].at = "finish" /\ fault[p].kind = "F"
    /\ fault' = ScanNext(p, fault[p].page, fault[p].saved)
    /\ UNCHANGED <<sharedVars, localVars, op, phase, tx, ghostVars>>

-----------------------------------------------------------------------------
(***************************************************************************)
(* Transactions.  The enclosing runtime ends a process's parallel phase   *)
(* at a synchronisation point, serialises the commits (one committer at a *)
(* time: token), and starts the next transaction with begin().  With      *)
(* Fenced, it also waits for every live process to arrive before the     *)
(* first commit and for every commit before the first begin.              *)
(***************************************************************************)
Live == {q \in Procs : Alive(q)}

endTransaction(p) ==
    /\ phase[p] = "run" /\ Ready(p)
    /\ phase' = [phase EXCEPT ![p] = "fence"]
    /\ UNCHANGED <<sharedVars, localVars, op, fault, tx, ghostVars>>

startCommit(p) ==
    /\ phase[p] = "fence" /\ token = NoProc
    /\ Fenced => \A q \in Live : tx[q] = tx[p] /\ phase[q] \in {"fence", "commit", "done"}
    /\ token' = p
    /\ phase' = [phase EXCEPT ![p] = "commit"]
    /\ cursor' = [cursor EXCEPT ![p] = 1]
    /\ UNCHANGED <<owner, version, users, twin, persistent, handed, pageInfo, prot, priv,
                   dirty, owned, pending, op, fault, tx, ghostVars>>

(***************************************************************************)
(* checkandcommit, one dirty-list entry per step, in multimap order.      *)
(*  1. users > 1 and no twin: createTwinPage snapshots the persistent page.*)
(*  2. users # 1 or not the owner: publish.  Same version as the entry:   *)
(*     memcpy the whole page; else setSharedPage and writePageDiffs       *)
(*     against the twin (bitmapIndex 0 reads slot 0 of the bitmap, whose *)
(*     contents nothing defines: any page).  Then clear the twin if       *)
(*     users == 1, users--, version++.                                    *)
(*  3. otherwise the page is kept private: release = false.               *)
(***************************************************************************)
\* Mutant: the twin is created only from a third writer on.
NeedsTwinThird(g) == users[g] > 2 /\ twin[g] = NoTwin

\* createTwinPage: a fresh bitmap slot holding a copy of the persistent page.
createTwinPage(g) == persistent[g]

\* (shareinfo->users > 1) && (shareinfo->bitmapIndex == 0): createTwinPage.
NeedsTwin(g) == users[g] > 1 /\ twin[g] = NoTwin

checkandcommit(p) ==
    /\ phase[p] = "commit" /\ cursor[p] <= Len(dirty[p])
    /\ LET e     == dirty[p][cursor[p]]
           g     == e.page
           twin1 == IF NeedsTwin(g) THEN createTwinPage(g) ELSE twin[g]
           local == LocalView(p, g)
       IN
       \/ /\ users[g] # 1 \/ owner[g] # p
          /\ \/ /\ e.version = version[g]
                /\ persistent' = [persistent EXCEPT ![g] = local]
                /\ UNCHANGED <<owner, pageInfo, asserts>>
             \/ /\ e.version # version[g]
                /\ \E base \in IF twin1 = NoTwin THEN Page ELSE {twin1} :
                      persistent' = [persistent EXCEPT ![g] =
                                       writePageDiffs(local, base, persistent[g])]
                /\ asserts' = IF twin1 = NoTwin THEN asserts \cup {"twin"} ELSE asserts
                /\ setSharedPage(p, g)
          /\ twin' = [twin EXCEPT ![g] = IF users[g] = 1 THEN NoTwin ELSE twin1]
          /\ users' = [users EXCEPT ![g] = @ - 1]
          /\ version' = [version EXCEPT ![g] = @ + 1]
          /\ PublishGhost(p, {g})
          /\ dirty' = [dirty EXCEPT ![p][cursor[p]].release = TRUE]
       \/ /\ users[g] = 1 /\ owner[g] = p
          /\ dirty' = [dirty EXCEPT ![p][cursor[p]].release = FALSE]
          /\ twin' = [twin EXCEPT ![g] = twin1]
          /\ UNCHANGED <<owner, version, users, persistent, pageInfo, wrote, abs, overlap, racy, asserts>>
    /\ cursor' = [cursor EXCEPT ![p] = @ + 1]
    /\ UNCHANGED <<token, handed, prot, priv, owned, pending, ctlVars>>

finishCommit(p) ==
    /\ phase[p] = "commit" /\ cursor[p] > Len(dirty[p])
    /\ token' = NoProc
    /\ phase' = [phase EXCEPT ![p] = "done"]
    /\ UNCHANGED <<owner, version, users, twin, persistent, handed, localVars, op, fault,
                   tx, ghostVars>>

(***************************************************************************)
(* begin() = updateAll(): for every entry, updatePage drops the private   *)
(* copy if release (madvise) and resets the protection (PROT_NONE for the *)
(* heap, PROT_READ for globals); then the dirty list is emptied.          *)
(* _pageInfo is left as it is.                                            *)
(***************************************************************************)
Baseline == IF IsHeap THEN "PROT_NONE" ELSE "PROT_READ"

DirtyPages(p) == {dirty[p][i].page : i \in 1 .. Len(dirty[p])}
Released(p)   == {dirty[p][i].page : i \in {j \in 1 .. Len(dirty[p]) : dirty[p][j].release}}

begin(p) ==
    /\ phase[p] = "done" /\ tx[p] < MaxTx
    /\ Fenced => \A q \in Live : \/ tx[q] = tx[p] /\ phase[q] = "done"
                                 \/ tx[q] = tx[p] + 1
    /\ priv' = [priv EXCEPT ![p] = [g \in Pages |-> IF g \in Released(p) THEN NoCopy ELSE @[g]]]
    /\ prot' = [prot EXCEPT ![p] = [g \in Pages |-> IF g \in DirtyPages(p) THEN Baseline ELSE @[g]]]
    /\ dirty' = [dirty EXCEPT ![p] = << >>]
    /\ tx' = [tx EXCEPT ![p] = @ + 1]
    /\ phase' = [phase EXCEPT ![p] = "run"]
    /\ UNCHANGED <<sharedVars, pageInfo, cursor, owned, pending, op, fault, ghostVars>>

OwnedNow(p) == {g \in owned[p] : owner[g] = p}

\* finalcommit(true) at a thread exit after which the process runs on.
finalcommit(p) ==
    /\ phase[p] = "done" /\ OwnedNow(p) # {}
    /\ CommitOwnedPages(p, OwnedNow(p), TRUE)
    /\ UNCHANGED <<users, twin, token, handed, dirty, cursor, owned, pending, ctlVars, asserts>>

\* finalcommit(false) as the process exits; its pending signal dies with it.
exit(p) ==
    /\ phase[p] = "done"
    /\ CommitOwnedPages(p, OwnedNow(p), FALSE)
    /\ phase' = [phase EXCEPT ![p] = "exited"]
    /\ pending' = [pending EXCEPT ![p] = NoSig]
    /\ UNCHANGED <<users, twin, token, handed, dirty, cursor, owned, op, fault, tx, asserts>>

(***************************************************************************)
(* Shutdown, by the last live process after its last commit: the region  *)
(* is remapped PROT_READ|PROT_WRITE, MAP_SHARED with MAP_FIXED            *)
(* (setProtection), which replaces the private copies of the transient    *)
(* view by the file.  closeProtection also clears _isCopyOnWrite;         *)
(* finalize does this only if _isCopyOnWrite, which is always the case    *)
(* here.  Nothing of the region follows.                                  *)
(***************************************************************************)
ShuttingDown(p) == phase[p] = "done" /\ \A q \in Procs \ {p} : ~Alive(q)

\* setProtection(base(), size(), PROT_READ | PROT_WRITE, MAP_SHARED)
RemapShared(p) ==
    /\ priv' = [priv EXCEPT ![p] = [g \in Pages |-> NoCopy]]
    /\ prot' = [prot EXCEPT ![p] = [g \in Pages |-> "PROT_RW"]]
    /\ phase' = [phase EXCEPT ![p] = "closed"]
    /\ UNCHANGED <<sharedVars, pageInfo, dirty, cursor, owned, pending, op, fault, tx,
                   ghostVars>>

closeProtection(p) == ShuttingDown(p) /\ RemapShared(p)

finalize(p) == ShuttingDown(p) /\ RemapShared(p)

\* The runtime's waitpid: a zombie is reaped.  Nothing says when.
reap(p) ==
    /\ phase[p] = "exited"
    /\ phase' = [phase EXCEPT ![p] = "reaped"]
    /\ UNCHANGED <<sharedVars, localVars, op, fault, tx, ghostVars>>

\* handleWrite's READ_WRITE case returns with the page PROT_NONE again, so
\* the store faults again, forever; every round commits the page and lists
\* it once more.  The model follows the first round and lets the process
\* spin (stutter) after it.
Livelocked(p) ==
    /\ Faulting(p) /\ op[p].kind = "W"
    /\ pageInfo[p][op[p].page] = "READ_WRITE" /\ "handleWrite" \in asserts

Terminated == \A p \in Procs : phase[p] \in {"closed", "exited", "reaped"}

Next ==
    \/ \E p \in Procs :
          \/ Issue(p) \/ Execute(p) \/ setOwnedPage(p)
          \/ handleRead(p) \/ handleWrite(p)
          \/ notifySend(p) \/ notifySpin(p) \/ notifyRetry(p)
          \/ protectReadWrite(p) \/ faultFinish(p) \/ recordDirty(p) \/ deliverSignal(p)
          \/ forceCommitOwnedPages(p) \/ forceScan(p) \/ forceResume(p)
          \/ endTransaction(p) \/ startCommit(p) \/ checkandcommit(p)
          \/ finishCommit(p) \/ begin(p) \/ finalcommit(p) \/ exit(p)
          \/ closeProtection(p) \/ finalize(p) \/ reap(p)
    \/ \E g \in Pages : handOut(g)
    \/ (Terminated \/ \E p \in Procs : Livelocked(p)) /\ UNCHANGED vars

Spec == Init /\ [][Next]_vars

-----------------------------------------------------------------------------
(***************************************************************************)
(* Properties.                                                            *)
(***************************************************************************)

(* No lost update: the persistent view always equals the memory obtained  *)
(* by applying, in commit order, the bytes each commit published (the     *)
(* whole-page memcpy of checkandcommit and commitOwnedPage, and the      *)
(* twin diff).  A memcpy of stale bytes, a diff against a stale or absent *)
(* twin, or a private copy dropped by madvise before it was published    *)
(* makes the two differ.  A byte whose last publication raced is left    *)
(* out: a store of the value already there is invisible to the diff.     *)
NoLostUpdate ==
    \A g \in Pages : \A b \in Bytes \ racy[g] : persistent[g][b] = abs[g][b]

(* A process that has exited has published every store it made: its      *)
(* dirty pages were committed and finalcommit flushed the pages it still  *)
(* owned.                                                                 *)
NoStrandedWrites ==
    \A p \in Procs : ~Alive(p) => \A g \in Pages : wrote[p][g] = {}

(* Shutdown keeps every store: when closeProtection or finalize remaps    *)
(* the region shared, the process has published all it wrote, so that    *)
(* the private copies the remap drops hold nothing that is not in the    *)
(* persistent view.                                                      *)
ShutdownKeepsStores ==
    \A p \in Procs : phase[p] = "closed" => \A g \in Pages : wrote[p][g] = {}

(* Ownership exclusivity: while a process owns a page, no other process   *)
(* that still runs protected can write it or has it in its dirty list (it *)
(* must recall the page through notifyOwnerToCommit first).               *)
OwnerExclusive ==
    \A g \in Pages, q \in Procs :
        owner[g] \in Procs /\ q # owner[g] /\ phase[q] # "closed" =>
            /\ prot[q][g] # "PROT_RW"
            /\ g \notin DirtyPages(q)

(* checkandcommit's ASSERT(bitmapIndex != 0): the slow path (the entry's  *)
(* version is not the page's) only runs when a twin exists to diff with.  *)
TwinPresentOnSlowPath == "twin" \notin asserts

(* handleRead's ASSERT(0) ("invalid state -> BUG!"): a read fault never   *)
(* finds the page READ or READ_WRITE in _pageInfo.                        *)
ReadFaultStateValid == "handleRead" \notin asserts

(* handleWrite's fall-through to ASSERT(0): a write fault never finds the *)
(* page READ_WRITE.  A SIGUSR1 that shares an owned page between the    *)
(* owner test of mprotectReadWrite and its store leaves READ_WRITE on a   *)
(* shared page, which the next transaction's first store finds.           *)
WriteFaultStateValid == "handleWrite" \notin asserts

(***************************************************************************)
(* Refinement of PageOwnership.  The abstract owner is _pageOwner itself; *)
(* a page is writable for q when q's transient view maps it PROT_RW, so   *)
(* that a store executes without a fault.  A process that has closed the  *)
(* region at shutdown (the last one alive) has left the protocol: its     *)
(* view is the file itself, and no page is writable through the table.    *)
(***************************************************************************)
Writable == [q \in Procs |-> IF phase[q] = "closed" THEN {}
                             ELSE {g \in Pages : prot[q][g] = "PROT_RW"}]

Own == INSTANCE PageOwnership WITH SHARED <- SHARED_PAGE, writable <- Writable

(* XPersist implements PageOwnership: _pageOwner only moves from 0 to a   *)
(* pid to SHARED_PAGE (setOwnedPage, setSharedPage, commitOwnedPage), and *)
(* mprotect(PROT_READ|PROT_WRITE) is only reached (handleWrite after the  *)
(* recall, or on an own or shared page) for a page the process owns or   *)
(* that is shared.                                                        *)
OwnershipRefined == Own!Spec

(***************************************************************************)
(* Fairness.  The kernel re-executes a faulting instruction and runs the  *)
(* SIGSEGV handler to completion (spinning included), and delivers a      *)
(* pending signal to a live process: weak fairness of each of these       *)
(* steps.  The application's own choices (what to access, when to end a   *)
(* transaction, exit) and the runtime's reaping of an exited process      *)
(* carry no fairness.                                                     *)
(***************************************************************************)
Fairness ==
    \A p \in Procs :
        /\ WF_vars(Execute(p))
        /\ WF_vars(handleRead(p)) /\ WF_vars(handleWrite(p))
        /\ WF_vars(notifySend(p)) /\ WF_vars(notifySpin(p)) /\ WF_vars(notifyRetry(p))
        /\ WF_vars(protectReadWrite(p)) /\ WF_vars(faultFinish(p)) /\ WF_vars(recordDirty(p))
        /\ WF_vars(deliverSignal(p))
        /\ WF_vars(forceScan(p)) /\ WF_vars(forceResume(p))

FairSpec == Spec /\ Fairness

Recalling(p) == fault[p] # Idle /\ fault[p].at \in {"send", "spin"}

\* The process whose page the recall is for (the owner at the first read),
\* or the target of forceCommitOwnedPages, has exited.
OwnerGone(p) == fault[p].saved \in Procs /\ ~Alive(fault[p].saved)

(* notifyOwnerToCommit returns: a process that sends SIGUSR1 and spins    *)
(* on a page eventually sees it shared (or claims it itself), however the *)
(* owner is busy, even in its own SIGSEGV handler spinning on a page of   *)
(* the recaller, and however signals coalesce; unless the owner has       *)
(* exited, for sigqueue to a zombie succeeds and nobody shares the page.  *)
RecallCompletes ==
    \A p \in Procs : Recalling(p) ~> (~Recalling(p) \/ OwnerGone(p))

(* forceCommitOwnedPages(v) returns, with a recall of every page v owns,  *)
(* unless v exits meanwhile.                                              *)
ForceCompletes ==
    \A p \in Procs :
        (fault[p] # Idle /\ fault[p].kind = "F")
            ~> (fault[p] = Idle \/ OwnerGone(p))

(* When forceCommitOwnedPages(v) returns, v owns no page: every page it   *)
(* owned has been committed by its SIGUSR1 handler and shared, so that v  *)
(* can be stopped without losing an edit (the spec's cancellation         *)
(* scenario).  A page v claims behind the scan is not covered.            *)
ForceLeavesNoOwnedPage ==
    [][\A p \in Procs :
         (fault[p] # Idle /\ fault[p].kind = "F" /\ fault'[p] = Idle)
            => \A g \in Pages : owner'[g] # fault[p].saved]_vars
=============================================================================
