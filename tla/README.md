# TLA+ models of eddy

eddy stores an index in a memory-mapped file. The file holds copy-on-write
B+trees, a page allocator and a page garbage collector. Several processes, and
several threads in each process, read and write that file. This directory holds
TLA+ models of the parts where that concurrency, crashes and reclamation
interact. It also holds the TLC configurations that check those models.

## The system

| Part | Code | State | Operations |
|---|---|---|---|
| Lock | `EdLck`, `ed_lck` (eddy-private.h 76-156) | a per-process pthread rwlock, plus a per-process fcntl byte-range lock | lock SH/EX with `ED_FNOTLCK`, `ED_FNOFLCK` and `ED_FNOBLOCK`; unlock |
| Page mapping | `ed_pg_map/unmap/load/unload` (pg.c 3-64) | the kernel's mappings; a per-caller `EdPg*` cache slot | map, unmap, load, unload |
| Debug page tracker | `ed_pgtrack/ed_pguntrack/ed_pgcheck` (pgtrack.cc) | an address map with active and inactive entries; `track_errors` | track, untrack, check |
| Page sync | `ed_pg_sync`, `ed_pg_mark` (pg.c 27-79), `EdPgNode.dirty` | the sync level of each node; the kernel's dirty pages | mark, sync |
| Page allocator | `EdPgAlloc`, `EdPgAllocHdr`, `EdPgTail`, `ed_pg_alloc`, `ed_pg_free` (header 284-368, 943-979) | the atomic tail `{start, off}`, the file extent, the free list | alloc (lock-free tail CAS, then free list, then growth), free |
| Garbage collector | `EdGc`, `EdPgGc`, `EdPgGcList`, `ed_gc_put/run` (header 210-282, 945-972) | a chain of GC pages packing `{xid, npages, pages}` records | put (all or nothing, spilling into new GC pages), run(watermark, limit) |
| Transactions | `EdTxn`, `ed_txn_open/commit/close` (header 485-680) | the global xid, the roots, the connection slots `{pid, xid}` | open (reader or writer), mutate, commit, close |
| B+tree | `EdBpt`, `EdTxnDb`, `EdPgNode`, `ed_bpt_*` (header 181-199, 456-479, 515-538, 1008-1045) | pages of branches and leaves, the published root, a reader's cursor | capacity (a pure function), find, first, set (insert, replace, splits), del, next, loop |
| Utilities | `ED_COUNT_SIZE`, `ED_ALIGN_SIZE`, `ed_power2`, the page structs (header 800-1060) | none | pure size and layout arithmetic |
| ed-set | `main` (src/bin/ed-set.c 25-84) | getopt's scan position and operands, the object attributes, the cache config, standard input | one step per getopt call, read the object, open the cache, create the object |
| Index, object cache, eddy ls/new/update, other utilities | header declarations, src/bin | (not modelled) | |

These parts interact as follows:

- A writer takes the exclusive lock. Readers take the shared lock, unless they
  pass the flags that skip it.
- A writer copies the root-to-leaf path it changes into pages it takes from the
  allocator.
- At commit the writer does four things, in this order:
  1. it hands the replaced pages to the GC, tagged with its xid;
  2. it writes each root;
  3. it advances the global xid;
  4. it runs the GC with the watermark, the lowest xid in the connection slots.
- The GC returns a generation to the allocator only once its xid is below that
  watermark.
- The allocator header, the GC chain, the roots and the slots live in the
  shared mapping. The lock does not: its fcntl range lock is held by the
  process on the index file, and its rwlock is in each process's own memory.
  A process crash loses only that process's in-memory transaction and the
  locks it held.

Only pg.c and pgtrack.cc have their implementation in the repository. The
other library parts exist here as eddy-private.h, which has the structs and the
documented contracts, and as the tests (test-page.c, test-bpt.c). Those modules
follow the header, the tests and spec.md. PROJECT.json's map names the lines
for every definition.

## Modules

- **Lock.tla** and **MCLock.tla**:
  - Each thread moves from `idle` to `file` (it holds the thread layer) to
    `held`.
  - `LockThread` is the rwlock step. `LockThreadBusy` is its EAGAIN case.
  - `LockFile` is the fcntl step. `LockFileBusy` is the EAGAIN case, which
    releases the rwlock.
  - `Unlock` is ED_LCK_UN with the same flags.
  - `fl` is one fcntl lock per process, because fcntl locks belong to the
    process.
  - `FlagSets` gives the flag sets each process's callers use. MCLock's
    process `pb` has one thread and passes `ED_FNOTLCK`, as the tests do
    (test-bpt.c `FOPEN`). The multi-threaded `pa` locks both layers, since
    the header leaves ordering to the caller under `ED_FNOTLCK`.
- **PgTrack.tla** and **MCPgTrack.tla**:
  - `ed_pg_map` is split into `Map` (mmap) and `Track` (ed_pg_track).
    `ed_pg_unmap` is split into `Unmap` (untrack) and `Unmapped` (munmap).
    Other threads run between the halves.
  - `LoadReplace`, `LoadEmpty` and `Unload` are ed_pg_load and ed_pg_unload.
    Their unmap and map go through the same halves.
  - `PgTrack` and `PgUntrack` are the tracker functions. The page number and
    backtrace that an entry stores only feed the error text, so they are left
    out.
  - `MisuseSpec` adds a thread that unmaps a range a second time.
- **PgSync.tla**:
  - `Write` and `Mark` raise a node's level and make the page newer than the
    disk.
  - `Sync` is ed_pg_sync. Its msync mode is chosen exactly as pg.c:34 chooses
    it.
  - `Writeback` is the kernel flushing a page at any time.
  - `waited` records syncs the caller was told to wait for.
- **GcSpec.tla** is the abstract GC: a FIFO queue of generations. `Run` frees
  the longest prefix that is below the watermark and holds at most `limit`
  distinct xids, and it returns the number of pages freed.
- **Gc.tla** is the detailed GC:
  - The chain is a sequence of GC pages `[no, lists, used]`.
  - `Put` fills the room left in the tail page after a record header. It then
    spills `ListMax` pages at a time into new GC pages, all of them allocated
    before any is written. Otherwise `PutFail` changes nothing.
  - `Run` consumes records from the head, returns their pages, and returns every
    emptied GC page except the tail page, which is reset.
  - A record that is split across pages carries `more` on every part but the
    last. This is how we read "npages ... or UINT32_MAX for the next list".
- **MCGc.tla**:
  - It instantiates `GcSpec WITH pending <- Group(Lists)`. `Group` joins the
    split parts back into generations. `GcRefinesSpec` is checked as a
    PROPERTY.
  - An ASSUME replays test_gc: puts of xids 1, 1 and 2, then runs returning 16,
    0 and 8.
- **AllocSpec.tla** is the abstract allocator. A `Call` of ed_pg_alloc
  `Return`s pages nobody owns: without exclusive access at most the number
  asked, with it all of them or none. `Free` takes back owned pages under
  exclusive access.
- **PgAlloc.tla** is the detailed allocator:
  - `Call` enters ed_pg_alloc; an exclusive caller holds `xl`.
  - `LoadTail` is the atomic load of the tail. `Cas` computes the pages left
    past the loaded tail and either finds none, wins the compare-and-swap of
    the whole `{start, off}` pair, or loses it and loads again.
  - `FromFree` and `Grow` are the exclusive path: the free list, then growth
    by `AllocBatch` pages, which moves the tail into the new extension. A
    growth past `MaxPage` fails and gives back what the call gathered.
  - `Return` ends the call; `Free` is ed_pg_free.
- **MCPgAlloc.tla** maps PgAlloc onto AllocSpec (`held` is `out`; a thread
  not idle is in a call) and checks `AllocRefinesSpec == Abs!Spec`.
- **Bpt.tla** defines `ed_bpt_capacity` as a RECURSIVE operator over the
  EdBpt layout (`ED_BPT_DATA`, leaf order, branch order). ASSUMEs compare it
  with a closed-form reference, with test_capacity's values and with the
  LARGE and SMALL sizes test-bpt.c relies on. MCTxn extends Bpt, so every
  Txn run evaluates them.
- **Util.tla**: `ED_COUNT_SIZE`, `ED_ALIGN_SIZE` and `ed_power2`. The bit
  smearing of `ed_power2` uses Bitwise on a 16-bit word, because TLC integers
  stop at 2^31 - 1. ASSUMEs compare them with reference definitions: the
  alignment for sizes 0..40 and steps 1..17, and the power of two for
  0..1023 and every 2^k - 1, 2^k and 2^k + 1, including the wrap to 0 past
  2^15. PgAlloc grows the file by `ED_ALIGN_SIZE(need, AllocBatch)`.
- **Layout.tla**: the byte sizes of the page structs (`EdPg`, `EdPgFree`,
  `EdPgGc`, `EdPgGcList`, `EdBpt`, `EdNodeBlock`, `EdNodeKey`). ASSUMEs check
  what the header's macros rely on: a free page fits its entries exactly, a
  GC page's data area is below 2^16 bytes and holds `ED_PG_GC_LIST_MAX` page
  numbers but not one more, and the node arrays fit. Bpt extends Layout.
- **BptSpec.tla** is the abstract B+tree: a map from keys to entries, where
  `Set` inserts or replaces and `Del` removes a present key.
- **BptTree.tla** is the copy-on-write B+tree. The B+tree code is not in the
  repository, so it follows spec.md 4.3 and test-bpt.c:
  - `pg` maps page numbers to nodes. A leaf holds sorted `<<key, value>>`
    entries. A branch holds separators and children, partitioned as the
    EdBpt comment describes (`Slot`).
  - `Ins` and `Rem` rewrite the root-to-leaf path into fresh pages, lowest
    page number first. `LeafOut` splits a full leaf at its midpoint and
    promotes the right leaf's first key. `BranchOut` splits a full branch
    around its median. `NewRoot` adds a root above a split root.
  - Deletion removes an emptied leaf from its parent, unless it is the only
    child. Branches never merge, because spec.md 9 leaves the policy open.
  - `Set` and `Del` are find, mutate and commit, done as one step. `Commit`
    changes nothing when the allocator lacks a page. Otherwise it writes the
    pages, publishes the root, advances `xid`, puts the old path in the GC
    and frees older generations.
  - One lock-free reader stands for the watermark. Pages retired while it is
    open are pinned (`pin`) until `Close`. `Open` is ed_txn_open plus
    ed_bpt_find, and `First` is ed_txn_open plus ed_bpt_first. `Step` is ed_bpt_next: `Seek` climbs through exhausted
    nodes, descends the next sibling's leftmost path, skips empty leaves and
    wraps at the end. `Loop` is ed_bpt_loop.
  - Pages nobody can reach read as `Blank`. Their contents are never read
    again.
  - `Abs == INSTANCE BptSpec WITH map <- Content(root)` gives
    `BptRefinesSpec`.
- **Txn.tla** and **MCTxn.tla**: the transaction manager composed with the
  allocator, the GC queue, the lock and the slots.
  - A tree is abstracted to its set of pages.
  - `Mutate` replaces a path of 1..MaxDepth pages with k-1..k+1 fresh pages
    (a merge, a plain copy or a split). It takes them from the writer's
    reservation or from `PgAlloc`, whose failure moves the writer to `failed`.
  - `CommitPut` is the GC put plus the return of unused reservations.
    `CommitFail` is a GC put that fails.
  - `Publish` writes one root.
  - `CommitFinish` advances the xid, runs the GC with `Watermark`, unlocks and
    updates the slot.
  - `CloseWrite` abandons a write and frees what it allocated.
  - `ReadRoot` reads a root lazily, through `EdTxnDb.root`.
  - `Crash` kills every thread of a process. The OS drops its locks and its
    slot restarts at xid 0, as test-bpt.c `start()` does.

- **EdSet.tla**: one invocation of the ed-set command. Init picks the
  argument vector (up to `MaxArgs` tokens: the four option letters of
  `":hemi:"`, one letter that is not, paths and a number) and the C library.
  - `Operand`, `OptE`, `OptM`, `OptI`, `OptMissing` and `OptH` are one getopt
    call each and the `case` of main's switch it selects. GNU getopt moves
    operands behind the options (`ops`, `Operand` under glibc only). BSD and
    musl getopt stop at the first operand, which `Operands` then takes with
    the rest of argv. An option letter without `:` takes no argument, and
    `optarg` is then NULL under glibc or keeps the last value under BSD and
    musl (`NoArg`).
  - `Operands` takes the cache path and the key (lines 53-64). `ReadData`,
    `OpenCache` and `Create` are the three library calls, each of which may
    fail. `ed_input_fread` with a NULL path reads standard input, and a
    second read of it gets nothing (`Eof`).
  - `Usage` reads the argument vector as the usage text documents it
    (`[-e EXP] [-m FILE] [-i PATH] PATH KEY [FILE]`). `Asked` is the object
    such a vector asks for.

## Runs

| Run | Expect | What it shows |
|---|---|---|
| txn_core (MCTxn.cfg) | pass | With locked readers: pages are never owned twice (`PageOwnership`) and never leak (`NoLeak`); roots move atomically (`AtomicRoots`); readers see one commit (`ReaderSeesOneVersion`); the lock is held exactly by the open transactions (`LockMatchesTxns`). |
| txn_lockfree_snapshot (MCTxnLockFree.cfg) | pass | One database, one process crash. Readers that take no lock still keep their snapshot (`SnapshotIntact`), because of the watermark, when each process has one thread. The crash resets the dead process's slot to xid 0. |
| txn_crash_live_free (MCTxnCrashLive.cfg) | violation | A crash between the GC put and the root writes lets a later commit free live pages. |
| gc_refinement (MCGc.cfg) | pass | The packed GC chain accounts for its pages, fits `ED_PG_GC_DATA` and keeps data pages exclusive. It refines GcSpec. |
| ed_set_usage (MCEdSet.cfg) | violation | `ed-set -e 60 CACHE KEY`, written as the usage line says, crashes in strtol on a NULL `optarg` (`DocumentedUsage`). With `-m META CACHE KEY` the tool opens META as the cache and stores the object under the key CACHE. |
| pgtrack (MCPgTrack.cfg) | pass | The tracker raises no false alarm and mirrors the mappings outside the syscall windows. `ed_pg_load` is never stale. |
| pgtrack_double_unmap (MCPgTrackDouble.cfg) | violation | A double unmap after the address is reused goes unreported and destroys another thread's mapping. |
| pgsync_async_inverted (MCPgSync.cfg) | violation | Without `ED_FASYNC`, msync runs `MS_ASYNC`, so a waited sync is not durable (pg.c:34). |
| lock (MCLock.cfg) | pass | Two threads of one process lock both layers; a single-threaded process passes `ED_FNOTLCK` as the tests do; all may use `ED_FNOBLOCK`. There are never two writers (`WritersExclusive`). The mutant that takes the rwlock shared for a writer lets two threads of one process write. |
| pgalloc (MCPgAlloc.cfg) | pass | Two threads allocating lock-free and exclusively, and freeing: every page below the tail is held, in flight or free exactly once (`PagesAccounted`); the allocator refines AllocSpec (`AllocRefinesSpec`); every call returns under weak fairness (`AllocReturns`). |
| bpt_tree (MCBptTree.cfg) | pass | Inserts, replaces and deletes of 5 keys reach a branch split and a new root, while a lock-free reader walks its snapshot. Leaves stay sorted and branches partitioned at one depth (`TreeSound`). Every page is in exactly one of the tree, the GC and the free list (`PagesAccounted`). The reader's version never changes (`SnapshotIntact`). A cursor pass visits every key once in ascending order, and `Loop` fires exactly when the pass is back at its start (`CursorPass`). The tree refines BptSpec (`BptRefinesSpec`). 137,935 states, about 75 s. |
| lock_readers_writer (MCLockReaders.cfg) | violation | One reader thread's unlock drops its process's fcntl lock, and a writer of another process gets in beside the second reader. |

Every property of a passing run has a mutant in PROJECT.json: a plausible bug
in a mapped definition that TLC catches. Examples are a dropped watermark test,
an abort freeing live pages, a room computed without the record header, and a
thread layer that takes the rwlock shared for a writer.

The crash run formerly checked on its own (two threads of one process) is now
part of txn_lockfree_snapshot, with one thread per process.

ed_gc_run's `limit` counts transaction ids in the header ("the maximum
number of transaction IDs to free") and in test_gc, which expects
`ed_gc_run(3, 1)` to free two generations of xid 1 (test-page.c:71).
spec.md 4.2 says a run stops after `limit` generations. GcSpec and Gc follow
the header and the test. gc_refinement therefore checks the xid reading, and
the `RunCountRecords` mutant, which counts records, breaks `GcRefinesSpec`.
An earlier violation run only showed spec.md's reading failing on the same
model, so it was dropped.

Three more disagreements were seen while modelling but are not kept as runs:

- With `ED_FNOTLCK` in a multi-threaded process whose threads the caller does
  not order, one thread's unlock drops the process's fcntl lock under a
  sibling writer, and a writer of another process gets in. That is the
  mechanism lock_readers_writer shows, reached by breaking the flag contract.
- A reader thread and a writer thread of one process share the pid-keyed slot,
  which breaks `SnapshotIntact` after three commits.
- Readers that take no lock (`ED_FNOFLCK` with `ED_FNOTLCK`) and read each
  root lazily see one database before a commit and another after it
  (`ReaderSeesOneVersion` with `ReaderLock = FALSE`).

All three are recorded as hazards.

The allocator mutants show what the checks catch. A compare-and-swap of the
offset alone hands out a page twice once another thread grows the file (a
refinement violation). A failed swap that does not reload the tail spins
forever (`AllocReturns`).

## Bounds

- **BptTree**: 5 keys, 1 value, 2 entries per leaf, 2 separators per branch,
  11 pages and 5 commits. Branch fan-out is 3, so five keys are the fewest
  that split a branch: 1 to 5 inserted in order give leaves [1], [2], [3],
  [4, 5] and a root with three separators. Eleven pages hold that tree, the
  five fresh pages of the split, and the path of the commit before it, which
  the GC frees only afterwards. Five commits reach it, or let a reader pin a
  version through several commits. One value is enough because a wrong
  replace shows up as a duplicate key, which `TreeSound` catches. Four keys
  with 2 values and 7 pages also pass (135,073 states with one value), but
  never split a branch.
- **Txn**: 2 threads and 2 databases (1 in the crash runs). 5 or 6 pages,
  3 or 4 xids, paths of up to 2 pages, trees of up to 2 pages, growth in
  batches of 2, and a GC limit of 1. These bounds are enough for three things:
  - the free list, growth and the size bound are all reached;
  - a GC generation is freed only after the reader or writer that pinned it
    moves on;
  - two databases can be published separately.
- **Gc**: 4 data pages, 2 xids, puts of up to 3 pages, and 3 GC pages with
  `GcData = 4` and `GcHdr = 2`. With these sizes a put of 3 pages spills over
  two GC pages, and the GC can run out of pages.
- **EdSet**: argument vectors of up to 4 tokens over 5 option letters,
  3 paths and 1 number (14,762 of them, each under both C libraries). Four
  tokens are enough for `-e EXP PATH KEY` and `-m FILE PATH KEY`.
- **PgTrack**: 3 address slots, 2 page numbers, and maps of 1 or 2 pages, which
  is enough for partial overlaps and address reuse.
- **Lock**: 3 threads, two of them in the same process, which is what lets a
  thread-layer bug show (the fcntl lock cannot tell two threads of one
  process apart). 199 states.
- **PgAlloc**: 2 threads, 5 pages, requests of 1 or 2 pages, batches of 2
  (50,513 states). These bounds reach every case: a lost swap, a swap racing
  a growth, a reuse from the free list, and a failed growth. The same
  properties also hold for 6 pages and requests of 1 or 3 (1,005,133 states,
  about 10 minutes). That instance is too slow to run routinely.

Symmetry is used over threads and databases, which play interchangeable roles.
MCPgAlloc uses none, because it checks liveness.

## Fairness

The ed_set_usage run does not check deadlock, because ed-set exits after one
invocation.

Only the pgalloc run assumes fairness: `FairSpec` adds `WF_vars(Step(t))`
for each thread. `Step` is the steps of a call already in progress: the load,
the swap, the free list, growth and the return. No step inside ed_pg_alloc
waits on anything, so a scheduled thread can always take its next step.
Entering a call and ed_pg_free are not fair, because the caller decides
those.

The other runs check safety only. Eventual GC reclamation does not hold
unless every process keeps committing, and the code does not guarantee that
(see the liveness hazard).

## Not modelled, and why

- **The on-disk free-list pages (`EdPgFree`, `ED_PG_FREE_COUNT` entries each).**
  PgAlloc keeps the free list as a set, because how it is laid out in pages
  does not change which pages are free. Txn keeps its own copy of the
  exclusive path.
- **Parts of the B+tree.** These are not modelled:
  - overflow leaves, which hold repeated keys (ed_bpt_set without replace on
    a key that is present, test_repeat);
  - `ed_bpt_apply`;
  - ed_bpt_print and ed_bpt_verify, which only produce output;
  - branch merges. The underflow policy is open in spec.md 9, and the
    model's choice is stated above.

  Writers commit one mutation per transaction, as every test does. Txn
  models the transaction protocol around them.
- **A full file.** In BptTree a commit that finds no free page changes
  nothing. Retired pages come back only through a later commit's GC run, so
  with no room left every commit fails. Whether eddy runs the GC before
  allocating cannot be read from the repository, so this is not claimed as
  a hazard.
- **`ed_pg_mark`'s level 1.** It overwrites a higher sync level. No code in
  the repository sets a level above 1, so nothing reaches the overwrite.
- **The index, the slab and the object cache.** Their state is B+tree content.
- **eddy ls, eddy new and eddy update, and the other utilities (random,
  time, hashing, backtrace, mkfile).** The three subcommands parse through
  `ed_opt`, and their work is one call into the index and cache
  (`ed_list_*`, `ed_parse_size`, `ed_update_*`). None of these is in the
  repository, so a model would only restate guesses. Reading them turned up
  one thing. `eddy update` given neither `-t` nor `-e` makes no update
  call. It then tests the status of `ed_cache_open`, so a successful open
  (0) is reported as "key not found".
- **A naming mismatch in the debug build.** pgtrack.cc defines `ed_pgtrack`,
  `ed_pguntrack` and `ed_pgcheck`, but the header and pg.c use `ed_pg_track`,
  `ed_pg_untrack` and `ed_pg_check`, so an `ED_MMAP_DEBUG` build does not
  link. The model treats them as the same functions.

## Plan for further work

- Replace Txn's inline allocator by an instance of PgAlloc's exclusive path.
- Show, as a liveness violation, that an idle process's slot stops GC reclamation.
- Model the commit's sync step by composing PgSync with Txn.
- Compose PgSync with a commit that writes its root after syncing its pages,
  to show what the inverted msync mode does to a tree after a power loss.
- Add overflow leaves (repeated keys) to BptTree, and compose it with Txn so
  that several readers pin pages through the real watermark.
