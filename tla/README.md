# TLA+ models of the dthreads transactional memory region

These modules model `xpersist<Type, NElts>` (`src/src/include/xpersist.h`). It is the region
through which dthreads processes share heap and globals:

- Each process works on a private copy-on-write view of the region.
- At each synchronisation point the process publishes its changes to a shared backing file.
- Pages that only one process has ever written take an "owned" fast path.

`src/src/include/accessedmmappages.h` is listed as a component but is not modelled: it is
a sequential vector of addresses that nothing in the repository uses (see "Not modelled").

## The system

| Part | Code | State |
|---|---|---|
| Region Mapper | constructor, `setCopyOnWrite`, `closeProtection`, `finalize` | persistent view (MAP_SHARED) and transient view (MAP_PRIVATE) of one file |
| Owned-block registry | `_ownedblockinfo`, `_ownedblocks`, `setOwnedPage`, `finalcommit` | per process, the (start, end) page pair of every superblock claimed; one page of unsigned longs |
| Ownership Table | `_pageOwner`, `_pageInfo`, `_persistentVersions`, `_pageUsers` | owner per page (`0`, a pid or `SHARED_PAGE`); per-process access state; version; number of writers; twin slot |
| Fault Handler | `handleAccess`, `handleRead`, `handleWrite` | runs in SIGSEGV; raises the protection; records a dirty-list entry with the page's version |
| Twin & Diff Engine | `createTwinPage`, `writePageDiffs`, `commitWord` | snapshots the persistent page when a second writer appears; three-way merge on commit |
| Transaction Driver | `checkandcommit`, `begin`/`updateAll`/`updatePage`, `finalcommit` | publishes the dirty list; resets protections; flushes owned pages at exit |
| Cross-process Coordinator | `notifyOwnerToCommit`, `commitOwnedPage`, `setSharedPage`, `forceCommitOwnedPages` | SIGUSR1 to the owner with the page number, a spin until the page is shared, and a resend every 100000 spins; before a cancellation, a recall of every page the target owns |

How the parts interact:

1. A store to a page the process has not yet written faults.
2. For a page another process owns (`UNUSED`), the handler first recalls the page. The owner's
   SIGUSR1 handler runs `commitOwnedPage(page, true)`, which publishes the page, shares it and
   drops the private copy.
3. At the barrier, processes commit one at a time. An entry whose version is still the page's
   version is copied whole. Otherwise it is merged against the twin.
4. `begin()` drops the private copies (`madvise`) and restores the baseline protection.

## Modules

### `PageDiff`: the byte merge

This module models `writePageDiffs` at byte level:

- `ScalarLoop`/`commitWord`: the scalar build (8-byte words, with a byte loop inside a word that differs).
- `SSELoop`/`SSEChunk`/`MaskMove`: the SSE build (compare, XOR with all ones, masked store per 16-byte chunk).
- `ThreeWayMerge`: the reference definition.

The state is three pages (`local`, `twin`, `dest`). Each step rewrites one byte, so
TLC enumerates every input. `MCPageDiff` shrinks the page to 4 bytes, and the word and the
chunk to 2 bytes each, over bits. Both loops then run twice, a word or chunk can differ in one
byte or in both, and every pattern of equal and unequal bytes occurs. The chunk is as long
as the word here, not twice as long as in the code. The merge of a chunk does not depend on
its length, and a 4-byte chunk would make the SSE loop run only once.

### `XPersist`: the protocol

**Variables.**

- Shared, each per page: `owner`, `version`, `users`, `twin` (the twin's contents, or `NoTwin` for `bitmapIndex == 0`), and `persistent`.
- Per process:
  - `pageInfo` and `prot` (the kernel protection of the transient page);
  - `priv` (the process's private COW copy, or `NoCopy` when the page still reads the file);
  - `dirty` (the multimap, as a sequence kept in key order with duplicates after their equals);
  - `owned` (the pages from `_ownedblockinfo`);
  - `pending` (the SIGUSR1 the kernel holds for the process).
- Control: `op` (the access being tried, which is re-executed after a fault), `fault` (where the SIGSEGV handler is), `phase`, `tx`, and the runtime's commit `token`.

Data is abstracted to the writer's identity: a store by `p` writes the value `p`. The ghost
variables record the serial semantics:

- `wrote`: the stores not yet published;
- `abs`: the memory obtained by applying every publication in order;
- `overlap` and `racy`: which bytes were last published by racing stores;
- `asserts`: which `ASSERT`s were reached, since asserts are compiled out in a release build.

**Actions.**

| Action | Code |
|---|---|
| `Issue`, `Execute` | the application's load/store; the COW copy on the first store (kernel) |
| `setOwnedPage` | `setOwnedPage` for a fresh one-page superblock |
| `handOut` | the allocator giving a fresh page out without `setOwnedPage` (from the spec): `_pageOwner` stays 0 and the first access promotes the page to shared |
| `handleRead`, `handleWrite` | the switch on `_pageInfo`, one disjunct per case. In the READ and NONE cases of a write, the step is `mprotectReadWrite`'s owner test (line 407). The READ_WRITE case runs `commitOwnedPage(page, false)` and records its fall-through to `ASSERT(0)` |
| `protectReadWrite` | the rest of `mprotectReadWrite`: READ_WRITE if the owner test found the process itself, then `mprotect(PROT_READ|PROT_WRITE)`. A SIGUSR1 can be handled between the two steps |
| `notifySend`, `notifySpin`, `notifyRetry` | `notifyOwnerToCommit`: claim an unowned page; `sigqueue` (coalesced if one is already pending; accepted and discarded by a zombie; failing only for a reaped pid or pid 0); spin; `goto notify_owner` |
| `faultFinish`, `recordDirty` | the protection after the recall; `users++` and the dirty-list insert |
| `forceCommitOwnedPages`, `forceScan`, `forceResume` | the cancellation scan: a loop over the pages in order that reads `_pageOwner[i]` and, for the target's pages, runs the same notify steps (fault kind `"F"`) before moving on |
| `deliverSignal` | the SIGUSR1 handler, `commitOwnedPage(page, true)` (from the spec: the handler is installed outside this code) |
| `endTransaction`, `startCommit`, `finishCommit` | the runtime's barrier and commit token (from the spec) |
| `checkandcommit` | one dirty-list entry: create the twin, then fast path, slow path, or keep the page private |
| `begin` | `updateAll`/`updatePage`: madvise released entries, reset protection, clear the list |
| `closeProtection`, `finalize` | the last live process, after its commit, remaps the region `MAP_SHARED` read-write (`setProtection` with `MAP_FIXED`), which drops every private copy; the process then leaves the protocol (phase `closed`) |
| `finalcommit`, `exit` | `finalcommit(true)` for a process that runs on; `finalcommit(false)` as the process exits |
| `reap` | the runtime's `waitpid` of an exited process (phase `exited`, a zombie, to `reaped`); nothing in this code says when it happens |

After the first round of handleWrite's READ_WRITE case, the store faults again in the same
state forever. `Livelocked` lets the process spin there (stutter) rather than adding a dirty
entry and a version on every round without bound.

Four constants restrict the application's and the allocator's choices in some configurations:

- `Fenced` switches the runtime's barrier on (see below). Every configuration has it on. The
  spec's only mode commits all processes at the barrier.
- `Forcers` is the set of processes that may call `forceCommitOwnedPages`.
- `AccessKinds` is the set of access kinds `Issue` may choose: loads, stores, or both.
- `UnclaimedHandout` lets the allocator hand pages out unclaimed (`handOut`). The ghost
  `handed` keeps the spec's rule that a page is handed out one way only: a page given out
  unclaimed is never passed to `setOwnedPage`.

The `Fenced` constant switches the barrier on. When it is on, no process starts committing until
every live process has reached the barrier of the same round. No process begins the next
round until every process has committed this one.

### `OwnedBlocks`: the owned-block registry

This module models the bookkeeping `XPersist` abstracts to a set of owned pages:

- `blockinfo[p]`, the `_ownedblockinfo` array, as a function over `0 .. PageSize/WordSize - 1`;
- `ownedblocks[p]`, the `_ownedblocks` counter;
- the shared `pageOwner`.

`setOwnedPage` stores `startPage` at index `blocks*2` and `startPage + pages` at
`blocks*2 + 1`, and calls `exit(-1)` at `PageSize/2` blocks. `finalcommit` reads the pairs back
and commits the pages the caller still owns. Another process's recall shows only as the page
becoming shared.

A store past the one-page mapping is undefined behaviour. The ghost `spill` records it, and
`finalcommit` reads such a slot as any page number.

### `PageOwnership`: what ownership promises

`PageOwnership` is the abstract specification of the ownership table. Its variables are:

- `owner` per page;
- `writable[q]`, the pages `q` may store to without a fault.

Ownership only moves forward: unowned, then a process, then shared (or unowned straight to
shared). A claim takes a set of unowned pages at once (a superblock). A page becomes writable for `q` only while `q` owns it or it is shared. Any step may
take write permission away.

`XPersist` instantiates it with `owner <- _pageOwner` and `writable[q]` mapped to the pages
whose transient mapping is `PROT_RW` for `q`. A process that has closed the region at
shutdown has left the protocol, so its view is the file and nothing is writable through the
table. `OwnerExclusive` excludes such a process for the same reason. `OwnershipRefined == Own!Spec` is checked as a
property.

## Runs

| Run | Config | Bounds | Result |
|---|---|---|---|
| `pagediff` | `MCPageDiff.cfg` | 4-byte pages of bits | pass (4,096 states): both builds equal the reference merge |
| `shared_fenced` | `MCXPersist_shared.cfg` | 2 processes, one allocated 2-byte page, 2 begins each, fenced | pass: `TypeOK`, `NoLostUpdate`, `TwinPresentOnSlowPath` |
| `owned_recall` | `MCXPersist_owned.cfg` | 2 processes, one unallocated 1-byte page (claimed or handed out unclaimed), 2 begins, fenced, both may force | pass (602,860 states): `OwnerExclusive`, `NoStrandedWrites`, `OwnershipRefined` |
| `access_liveness` | `MCXPersist_live.cfg` | as `owned_recall` with one begin, no symmetry, only `p1` forces, `FairSpec` | pass (153,946 distinct views, 1 min): `RecallCompletes`, `ForceCompletes` |
| `mutual_recall` | `MCXPersist_mutual.cfg` | 2 processes, two unallocated 1-byte pages, stores only, no begin, no force, `FairSpec` | pass (278,998 distinct views, 1.5 min): `RecallCompletes` |
| `stale_signal` | `MCXPersist_stale_signal.cfg` | as `owned_recall` | violation of `NoLostUpdate` |
| `read_assert` | `MCXPersist_read_assert.cfg` | as `shared_fenced` | violation of `ReadFaultStateValid` |
| `rw_refault` | `MCXPersist_rw_refault.cfg` | as `owned_recall` | violation of `WriteFaultStateValid` |
| `shutdown` | `MCXPersist_shutdown.cfg` | as `owned_recall` | violation of `ShutdownKeepsStores` |
| `owned_blocks` | `MCOwnedBlocks.cfg` | 3 processes, 4 pages, superblocks of 1 or 2 pages, a page of 8 unsigned longs | pass (69,744 states): `TypeOK`, `FinalCommitCoversOwned` |
| `owned_blocks_overflow` | `MCOwnedBlocks_overflow.cfg` | 3 processes, 3 pages, a page of 4 unsigned longs | violation of `RegistryInBounds` |
| `force_scan` | `MCXPersist_force_scan.cfg` | 2 processes, two unallocated 1-byte pages, no begin, `p1` forces | violation of `ForceLeavesNoOwnedPage` |

**What the violations show.**

- **`owned_blocks_overflow`.** `_ownedblockinfo` is one page of unsigned longs, so it holds
  PageSize/16 pairs: 256 with 4 KiB pages. `setOwnedPage` stops only at PageSize/2 blocks
  (2048), and the spec also says "up to PageSize/2 entries". The third superblock of the scaled
  model, like the 257th of the real one, stores its pair past the mapping.
- **`shutdown`.** Pages a process owns are never in its dirty list. Their stores reach the file
  only through `commitOwnedPage`. `closeProtection`/`finalize` remap the region with
  `MAP_FIXED` and drop the private copies. A process that owns a written page when it shuts down
  therefore loses those stores unless it ran `finalcommit` first, which neither the code nor the
  spec requires.

- **`force_scan`.** The trace has four steps:
  1. `p1` calls `forceCommitOwnedPages(p2)`.
  2. The scan reads page 1, which is still unowned, and moves on.
  3. `p2` claims page 1 with `setOwnedPage`.
  4. The scan reads page 2 and returns.

  `p2` still owns page 1, so its stores there are not flushed. The spec says the scan runs
  "before the target process is stopped, so its edits are not lost". This holds only if the
  target is quiescent during the scan, which neither the code nor the spec requires.

- **`stale_signal`.** `commitOwnedPage` does not check that its caller still owns the page.
  1. The recaller resends SIGUSR1 after 100000 spins, before the owner has handled the first signal.
  2. The owner handles both signals. The second finds the page already shared, yet still increments `_persistentVersions`.
  3. A process that recorded its entry after the page became shared now fails the version test.
  4. Its commit takes the slow path with `bitmapIndex == 0`, and its store is lost.

  A `finalcommit(true)` that shares a page while a request for it is pending has the same effect.
- **`read_assert`.** The minimal sequence is read, write, commit, begin, read. The first read
  sets `_pageInfo` to `READ`. A store to a page the process does not own leaves it `READ`
  (`mprotectReadWrite` sets READ_WRITE only for the owner). `updatePage` restores `PROT_NONE`
  but leaves `_pageInfo` at `READ`, so the second read reaches handleRead's `ASSERT(0)`, which
  the spec says cannot happen. A release build just makes the page readable again.
- **`rw_refault`.** This run answers the spec's open question (§9) about handleWrite's
  fall-through: the READ_WRITE case is reachable in a live process. The trace:
  1. `p1` claims the page and stores to it, faulting with `_pageInfo` NONE.
  2. `mprotectReadWrite` finds `p1` the owner (line 407).
  3. `p2` faults on the page and sends SIGUSR1. `p1` handles it before line 408: the page is
     shared and `_pageInfo` becomes READ.
  4. Line 408 stores READ_WRITE anyway, on a shared page.
  5. After commit and begin (PROT_NONE, `_pageInfo` untouched), `p1`'s next store faults with
     READ_WRITE.

  `commitOwnedPage(page, false)` then maps the page `PROT_NONE` again, so in a release build
  the store faults forever, adding a dirty entry and a version each round.
- **A recall of a zombie's page** (not a run: the run slots are taken by the above). The code
  relies on `sigqueue` failing once the owner is gone (spec: "if sigqueue fails (process
  gone), promote"). Linux accepts a signal for an exited process that has not been reaped, and
  discards it. `RecallCompletes` therefore excludes an exited owner. Without the exclusion, the
  `access_liveness` configuration finds this counter-example: `p1` exits while it still owns a page
  (`finalcommit(false)` does not share), `p2` begins its next transaction and faults on the
  page, and then spins and resends until the runtime reaps `p1`.

**What `NoLostUpdate` does and does not claim.** It compares the persistent page with the serial
memory on every byte whose last publication did not race. A byte is racy when two stores to it
were made with neither published before the other. Racing stores are resolved by commit order
only when the twin diff can see them: a store of the value already in the twin is invisible.
That is the documented last-writer-wins limitation, not a lost update.

**Why the bounds are enough.**

- Two processes are enough for every pairwise interaction: a second writer (twin creation),
  recall, and coalescing.
- Two begins give a page that was written, committed and used again.
- Two bytes are the least that lets two writers make disjoint, race-free edits to one page.
- The owned runs use one page of one byte: ownership, recall and exit are per page.
- `OwnedBlocks` scales the page down (8 or 4 unsigned longs instead of 512). The registry's
  arithmetic is the same for every page size: pairs at `2i` and `2i+1`, a capacity of
  PageSize/16 pairs and an exit at PageSize/2. So a bound reached after three superblocks in
  the model is reached after 257 in the real one. With a capacity of 4 pairs and only 4 pages,
  `owned_blocks` never overflows: it checks the arithmetic, not the bound. Its three processes
  let two recallers race for one owner's pages while that owner runs `finalcommit`.

  A second ownable page with loads, stores and begins gives over 9M states even without a
  begin. `mutual_recall` and `force_scan` therefore restrict the application to stores
  (`AccessKinds`) and to no begin. Those two pages are enough for:
  - mutual recall (each process spinning on the other's page);
  - a request coalesced with a pending request for the other page;
  - a page claimed behind the force scan.

  A search with a temporary invariant confirmed that the first two states are reached.
- The liveness runs fingerprint states by `MCControlView`: the state without byte values
  (persistent and private contents, twin contents) and without the ghosts of the serial
  semantics. No guard reads any of these, so two states with the same view have the same
  futures of control, and the liveness properties read only control state. `mutual_recall`
  also stops at the barrier (`MCParallelPhase`). Without a begin, nothing after the barrier
  accesses a page, so no recall follows it.
- The liveness runs let only `p1` force (`Forcers`), to stay within the time bound. Forcing is
  symmetric in the two processes, and `owned_recall` lets both force.

**Fairness.** Weak fairness covers only steps the kernel guarantees:

- re-executing a faulting instruction;
- running the SIGSEGV handler (its spin included) to its end;
- delivering a pending signal to a live process, inside the SIGSEGV handler too (the spec
  requires the core to be reentrant against SIGUSR1 during SIGSEGV handling);
- running `forceCommitOwnedPages`, once called, to its return.

The application's choices carry no fairness: what to access, when to reach the barrier,
`finalcommit` and exit. Nor does the reaping of an exited process, which the runtime does
when it joins. So the liveness properties promise nothing for a recall whose owner, or a
scan whose target, has exited: the recaller spins until the reap.

- `RecallCompletes`: a process that has sent SIGUSR1 for a page (`notifySend` and
  `notifySpin`) stops spinning, unless the owner has exited.
- `ForceCompletes`: `forceCommitOwnedPages(v)` returns, unless `v` has exited.

**Mutants.** Each property of a passing run is broken by a plausible bug in the definition
it covers (listed in `PROJECT.json`):

- a word stored without the byte test;
- a missing XOR;
- `users++` left out;
- a diff that copies the whole page;
- a twin created only from a third writer on;
- no spin-wait;
- a swapped state test in `commitOwnedPage`;
- `setSharedPage` exchanging in 0 instead of `SHARED_PAGE` (breaks `OwnershipRefined`, and
  `RecallCompletes` in `access_liveness`, where the recaller of an unclaimed page then spins forever);
- the force scan's `i++` left out (breaks `ForceCompletes`);
- SIGUSR1 masked while the SIGSEGV handler runs (`mutual_recall` then deadlocks);
- a block's end stored as its last page, or one page too far (`OwnedBlocks`).

## Not modelled

- The cancellation itself (`pthread_cancel`/`pthread_kill` in the runtime): only the scan that precedes it is modelled.
- The non-atomic `users--` is one step. Under the runtime's barrier no write fault, and so no
  `users++`, is in progress while a process commits. The barrier is outside this code.
- A page handed out both unclaimed and by `setOwnedPage`. The spec forbids it, and the model
  keeps the rule (`handed`). Without the rule, `owned_recall` finds `NoStrandedWrites`
  violated. A recaller that read `_pageOwner == 0` exchanges in `SHARED_PAGE` over the new
  owner, either directly or after `sigqueue(0, ...)` fails.
- The increments of `_persistentVersions` in `commitOwnedPage` and `checkandcommit` are one
  step each. Both run on one page at once only after a stale SIGUSR1, which `stale_signal`
  already shows losing an update.
- `mem_write`: nothing in the repository calls it.
- The MAP_SHARED mode (`copyOnWrite == false` from the start).
- The globals region: `xpersistInit` lets its file start with any contents, but every
  configuration models the heap (`IsHeap`).
- The zombie's page in the runs: no run checks a recall of an exited owner's page (see above).
- `cleanupOwnedBlocks`: nothing in the repository calls it, so when it may run is unknown.
- `accessedmmappages`: `add` appends an address and `reset` mprotects each address PROT_NONE
  and clears the vector. Nothing in the repository calls it. Which pages are added, when
  `reset` runs, and what else changes their protection is therefore unknown. A model would
  check a client invented from its TODO comment, not this code.
- The logger, the bitmap allocator (except that slot 0 holds arbitrary bytes), `xpageentry`
  and statistics.

## Plan for later work

1. An abstract specification of a page's contents (serial memory, with last-writer-wins at
   commit), with `XPersist` shown to refine it under the barrier.
2. The stopping of the target after `forceCommitOwnedPages`, to show the edits lost in
   `force_scan`.
