-------------------------------- MODULE Txn --------------------------------
(***************************************************************************)
(* The transaction manager of eddy (EdTxn, ed_txn_open / ed_txn_commit /   *)
(* ed_txn_close) composed with the page allocator (ed_pg_alloc,            *)
(* ed_pg_free), the garbage collector (ed_gc_put, ed_gc_run), the lock     *)
(* and the connection slots that give the GC its watermark.                *)
(*                                                                         *)
(* Each process owns one EdTxn used by one thread.  A tree is abstracted  *)
(* to the set of its pages: a copy-on-write mutation replaces the pages of *)
(* a root-to-leaf path by fresh pages drawn from the allocator, and the    *)
(* replaced pages are handed to the GC at commit.  The allocator's free    *)
(* list, the GC chain, the roots, the global xid and the connection slots  *)
(* all live in the shared mapping of the index file: a process crash      *)
(* loses only the crashing process's own transaction state and the locks *)
(* it held, which the kernel and its address space take with it.         *)
(***************************************************************************)
EXTENDS Integers, FiniteSets, Sequences, FiniteSetsExt

CONSTANTS
  Proc,         \* threads using the index file, one EdTxn each
  PidOf,        \* the process each thread belongs to
  Db,           \* the databases (b+trees) bound to every EdTxn
  MaxPage,      \* the file may not grow past this page number
  MaxXid,       \* bound on the global transaction id
  MaxDepth,     \* longest root-to-leaf path a mutation clones
  MaxTree,      \* bound on the pages of one tree
  AllocBatch,   \* ED_ALLOC_COUNT: pages added per file extension
  GcLimit,      \* limit passed to ed_gc_run at commit
  ReaderLock,   \* TRUE: a read-only open takes the shared lock
  MaxCrashes,   \* bound on process crashes
  NoProc        \* model value: no process holds the exclusive lock

ASSUME MaxPage \in Nat /\ MaxXid \in Nat /\ AllocBatch \in Nat \ {0}
ASSUME MaxDepth \in Nat \ {0} /\ GcLimit \in Nat \ {0}
ASSUME ReaderLock \in BOOLEAN /\ MaxCrashes \in Nat

VARIABLES
  lck,      \* the lock: [ex |-> holder or NoProc, sh |-> shared holders]
  gxid,     \* the global transaction id stored beside the roots
  root,     \* published tree of each database (its set of pages)
  conn,     \* connection slot {pid, xid} of each process: last xid it observed
  tail,     \* allocator tail: next never-used page number
  ext,      \* file extent: pages 0 .. ext-1 exist
  free,     \* the allocator's free list
  gc,       \* GC generations, oldest first: [xid, pages]
  txn,      \* the EdTxn of each process
  versions, \* history: every root map a commit set out to publish
  crashes   \* number of crashes so far

vars == <<lck, gxid, root, conn, tail, ext, free, gc, txn, versions, crashes>>

Page == 1 .. MaxPage     \* page 0 is the index header

Pid == { PidOf[p] : p \in Proc }

Threads(p) == { q \in Proc : PidOf[q] = PidOf[p] }

Lesser(a, b) == IF a < b THEN a ELSE b

NoTree == [d \in Db |-> {}]

Idle == [pc |-> "idle", xid |-> 0, seen |-> {}, snap |-> NoTree,
         work |-> NoTree, done |-> {}, pub |-> {},
         pool |-> {}, fresh |-> {}, old |-> {}]

-----------------------------------------------------------------------------
(***************************************************************************)
(* Page allocator, exclusive path (the writer holds the EX lock).  The     *)
(* request is served first from the tail of the current extent, then from *)
(* the free list, then by growing the file in batches of AllocBatch.      *)
(***************************************************************************)
Grow(n) == n - Lesser(n, ext - tail) - Lesser(n - Lesser(n, ext - tail), Cardinality(free))

NewExt(n) ==
  IF Grow(n) = 0 THEN ext
  ELSE ext + AllocBatch * ((Grow(n) + AllocBatch - 1) \div AllocBatch)

\* Fault: the file-size check is off by one page.
AllocFailsLate(n) == NewExt(n) - 1 > MaxPage + 1

\* ed_mkfile fails once the file would pass MaxPage: ed_pg_alloc returns <0
AllocFails(n) == NewExt(n) - 1 > MaxPage

PgAlloc(n) ==
  LET fromTail == Lesser(n, ext - tail)
      fromFree == Lesser(n - fromTail, Cardinality(free))
  IN { [pages |-> (tail .. tail + fromTail - 1) \cup S \cup (ext .. ext + Grow(n) - 1),
        tail  |-> IF Grow(n) = 0 THEN tail + fromTail ELSE ext + Grow(n),
        ext   |-> NewExt(n),
        free  |-> free \ S] : S \in kSubset(fromFree, free) }

-----------------------------------------------------------------------------
(***************************************************************************)
(* Garbage collector.  ed_gc_put appends one generation; ed_gc_run frees   *)
(* generations from the oldest while their xid is below the watermark,    *)
(* at most `limit` distinct xids, stopping at the first one it may not    *)
(* free.                                                                  *)
(***************************************************************************)
GcPut(q, x, pgs) == IF pgs = {} THEN q ELSE Append(q, [xid |-> x, pages |-> pgs])

XidsOf(q, k) == { q[i].xid : i \in 1 .. k }

\* Fault: a run that frees the oldest generations whatever the watermark.
GcRunCountNoWm(q, wm, limit) ==
  Max({ k \in 0 .. Len(q) : Cardinality(XidsOf(q, k)) <= limit })

GcRunCount(q, wm, limit) ==
  Max({ k \in 0 .. Len(q) :
          /\ \A i \in 1 .. k : q[i].xid < wm
          /\ Cardinality(XidsOf(q, k)) <= limit })

GcFreed(q, k) == UNION { q[i].pages : i \in 1 .. k }

\* The GC watermark: the lowest xid any connection slot holds.
Watermark == Min({ conn[c] : c \in Pid })

-----------------------------------------------------------------------------
Init ==
  /\ lck = [ex |-> NoProc, sh |-> {}]
  /\ gxid = 0
  /\ root = NoTree
  /\ conn = [c \in Pid |-> 0]
  /\ tail = 1
  /\ ext = 1
  /\ free = {}
  /\ gc = <<>>
  /\ txn = [p \in Proc |-> Idle]
  /\ versions = {NoTree}
  /\ crashes = 0

\* Fault: a read-only open that does not wait for the exclusive holder.
OpenReadNoWait(p) ==
  /\ txn[p].pc = "idle"
  /\ lck' = [lck EXCEPT !.sh = @ \cup {p}]
  /\ txn' = [txn EXCEPT ![p] = [Idle EXCEPT !.pc = "read", !.xid = gxid]]
  /\ UNCHANGED <<gxid, root, conn, tail, ext, free, gc, versions, crashes>>

\* ed_txn_open with ED_FRDONLY: with ReaderLock the shared lock is taken
\* (blocking); only an exclusive open claims a connection slot.
OpenRead(p) ==
  /\ txn[p].pc = "idle"
  /\ IF ReaderLock
       THEN /\ lck.ex = NoProc
            /\ lck' = [lck EXCEPT !.sh = @ \cup {p}]
       ELSE UNCHANGED lck
  /\ txn' = [txn EXCEPT ![p] = [Idle EXCEPT !.pc = "read", !.xid = gxid]]
  /\ UNCHANGED <<gxid, root, conn, tail, ext, free, gc, versions, crashes>>

\* First use of database d by a reader: EdTxnDb.root points at the live
\* root field, which is read when the cursor first maps the root.
ReadRoot(p, d) ==
  /\ txn[p].pc = "read"
  /\ d \notin txn[p].seen
  /\ txn' = [txn EXCEPT ![p].seen = @ \cup {d}, ![p].snap[d] = root[d]]
  /\ UNCHANGED <<lck, gxid, root, conn, tail, ext, free, gc, versions, crashes>>

\* Fault: a read-only close that forgets the unlock.
CloseReadKeepsLock(p) ==
  /\ txn[p].pc = "read"
  /\ txn' = [txn EXCEPT ![p] = Idle]
  /\ UNCHANGED <<lck, gxid, root, conn, tail, ext, free, gc, versions, crashes>>

\* ed_txn_close of a read-only transaction: unlock, keep the slot.
CloseRead(p) ==
  /\ txn[p].pc = "read"
  /\ lck' = [lck EXCEPT !.sh = @ \ {p}]
  /\ txn' = [txn EXCEPT ![p] = Idle]
  /\ UNCHANGED <<gxid, root, conn, tail, ext, free, gc, versions, crashes>>

\* ed_txn_open for writing: exclusive lock, claim the slot, xid = gxid + 1.
OpenWrite(p) ==
  /\ txn[p].pc = "idle"
  /\ gxid < MaxXid
  /\ lck.ex = NoProc /\ lck.sh = {}
  /\ lck' = [lck EXCEPT !.ex = p]
  /\ conn' = [conn EXCEPT ![PidOf[p]] = gxid]
  /\ txn' = [txn EXCEPT ![p] = [Idle EXCEPT !.pc = "write", !.xid = gxid + 1,
                                            !.work = root]]
  /\ UNCHANGED <<gxid, root, tail, ext, free, gc, versions, crashes>>

\* Paths a mutation may clone, and how many pages it leaves in their place:
\* an insert may split (one more page), a delete may merge (one fewer).
Paths(t) == IF t = {} THEN {{}} ELSE { s \in SUBSET t : Cardinality(s) \in 1 .. MaxDepth }

NewCounts(t, path) ==
  IF t = {} THEN {1}
  ELSE { k \in Cardinality(path) - 1 .. Cardinality(path) + 1 :
           /\ k >= 0
           /\ Cardinality(t) - Cardinality(path) + k <= MaxTree }

\* ed_bpt_set / ed_bpt_del on database d: the one change this transaction
\* makes to d.  The pages needed (path plus splits) are reserved from the
\* allocator into the transaction's pool; `extra` pages may stay unused.
Mutate(p, d) ==
  /\ txn[p].pc = "write"
  /\ d \notin txn[p].done
  /\ \E path \in Paths(txn[p].work[d]) :
     \E k \in NewCounts(txn[p].work[d], path), extra \in 0 .. 1 :
       LET need == k + extra
           short == IF need > Cardinality(txn[p].pool)
                      THEN need - Cardinality(txn[p].pool) ELSE 0
       IN
       \/ /\ short > 0
          /\ AllocFails(short)
          /\ txn' = [txn EXCEPT ![p].pc = "failed"]
          /\ UNCHANGED <<tail, ext, free>>
       \/ /\ short = 0 \/ ~AllocFails(short)
          /\ \E a \in IF short = 0 THEN {[pages |-> {}, tail |-> tail, ext |-> ext, free |-> free]}
                                   ELSE PgAlloc(short) :
             \E used \in kSubset(k, txn[p].pool \cup a.pages) :
               /\ tail' = a.tail /\ ext' = a.ext /\ free' = a.free
               /\ txn' = [txn EXCEPT
                    ![p].pool    = (@ \cup a.pages) \ used,
                    ![p].fresh   = @ \cup used,
                    ![p].old     = @ \cup path,
                    ![p].work[d] = (@ \ path) \cup used,
                    ![p].done    = @ \cup {d}]
  /\ UNCHANGED <<lck, gxid, root, conn, gc, versions, crashes>>

\* Fault: unused reserved pages dropped instead of returned at commit.
CommitPutKeepsPool(p) ==
  /\ txn[p].pc = "write"
  /\ gc' = GcPut(gc, txn[p].xid, txn[p].old)
  /\ versions' = versions \cup {txn[p].work}
  /\ txn' = [txn EXCEPT ![p].pc = "publish", ![p].pool = {}]
  /\ UNCHANGED <<lck, gxid, root, conn, tail, ext, free, crashes>>

\* ed_txn_commit, first part: every write but the roots.  The replaced
\* pages go to the GC tagged with this xid; reserved pages that were never
\* used are returned to the allocator directly.
CommitPut(p) ==
  /\ txn[p].pc = "write"
  /\ gc' = GcPut(gc, txn[p].xid, txn[p].old)
  /\ free' = free \cup txn[p].pool
  /\ versions' = versions \cup {txn[p].work}
  /\ txn' = [txn EXCEPT ![p].pc = "publish", ![p].pool = {}]
  /\ UNCHANGED <<lck, gxid, root, conn, tail, ext, crashes>>

\* ed_gc_put fails (it cannot allocate a GC page): nothing is recorded.
CommitFail(p) ==
  /\ txn[p].pc = "write"
  /\ txn' = [txn EXCEPT ![p].pc = "failed"]
  /\ UNCHANGED <<lck, gxid, root, conn, tail, ext, free, gc, versions, crashes>>

\* One pointer-sized root write per participating database.
Publish(p, d) ==
  /\ txn[p].pc = "publish"
  /\ d \in txn[p].done \ txn[p].pub
  /\ root' = [root EXCEPT ![d] = txn[p].work[d]]
  /\ txn' = [txn EXCEPT ![p].pub = @ \cup {d}]
  /\ UNCHANGED <<lck, gxid, conn, tail, ext, free, gc, versions, crashes>>

\* Fault: commit completes without checking every root was written.
CommitFinishEarly(p) ==
  /\ txn[p].pc = "publish"
  /\ LET k == GcRunCount(gc, Watermark, GcLimit)
     IN /\ gc' = SubSeq(gc, k + 1, Len(gc))
        /\ free' = free \cup GcFreed(gc, k)
  /\ gxid' = txn[p].xid
  /\ lck' = [lck EXCEPT !.ex = NoProc]
  /\ conn' = [conn EXCEPT ![PidOf[p]] = txn[p].xid]
  /\ txn' = [txn EXCEPT ![p] = Idle]
  /\ UNCHANGED <<root, tail, ext, versions, crashes>>

\* ed_txn_commit, last part: advance the global xid, run the GC with the
\* watermark of the connection slots, unlock, update the slot.
CommitFinish(p) ==
  /\ txn[p].pc = "publish"
  /\ txn[p].pub = txn[p].done
  /\ LET k == GcRunCount(gc, Watermark, GcLimit)
     IN /\ gc' = SubSeq(gc, k + 1, Len(gc))
        /\ free' = free \cup GcFreed(gc, k)
  /\ gxid' = txn[p].xid
  /\ lck' = [lck EXCEPT !.ex = NoProc]
  /\ conn' = [conn EXCEPT ![PidOf[p]] = txn[p].xid]
  /\ txn' = [txn EXCEPT ![p] = Idle]
  /\ UNCHANGED <<root, tail, ext, versions, crashes>>

\* Fault: abort frees the replaced pages too, though they are still live.
CloseWriteFreesOld(p) ==
  /\ txn[p].pc \in {"write", "failed"}
  /\ free' = free \cup txn[p].pool \cup txn[p].fresh \cup txn[p].old
  /\ lck' = [lck EXCEPT !.ex = NoProc]
  /\ txn' = [txn EXCEPT ![p] = Idle]
  /\ UNCHANGED <<gxid, root, conn, tail, ext, gc, versions, crashes>>

\* ed_txn_close of a writer: abandon the change.  Pages it allocated were
\* never published, so they go straight back to the free list.
CloseWrite(p) ==
  /\ txn[p].pc \in {"write", "failed"}
  /\ free' = free \cup txn[p].pool \cup txn[p].fresh
  /\ lck' = [lck EXCEPT !.ex = NoProc]
  /\ txn' = [txn EXCEPT ![p] = Idle]
  /\ UNCHANGED <<gxid, root, conn, tail, ext, gc, versions, crashes>>

\* The process of thread p dies: the OS drops its file lock, the EdTxn of
\* each of its threads is gone, and everything written to the shared
\* mapping stays.  On restart it claims its slot again with xid 0, as the
\* test harness start() does.
Crash(p) ==
  /\ crashes < MaxCrashes
  /\ txn[p].pc /= "idle"
  /\ lck' = [ex |-> IF lck.ex \in Threads(p) THEN NoProc ELSE lck.ex,
             sh |-> lck.sh \ Threads(p)]
  /\ txn' = [q \in Proc |-> IF q \in Threads(p) THEN Idle ELSE txn[q]]
  /\ conn' = [conn EXCEPT ![PidOf[p]] = 0]
  /\ crashes' = crashes + 1
  /\ UNCHANGED <<gxid, root, tail, ext, free, gc, versions>>

Next ==
  \E p \in Proc :
    \/ OpenRead(p) \/ CloseRead(p) \/ \E d \in Db : ReadRoot(p, d)
    \/ OpenWrite(p) \/ \E d \in Db : Mutate(p, d)
    \/ CommitPut(p) \/ CommitFail(p) \/ \E d \in Db : Publish(p, d)
    \/ CommitFinish(p) \/ CloseWrite(p) \/ Crash(p)

Spec == Init /\ [][Next]_vars

-----------------------------------------------------------------------------
TypeOK ==
  /\ lck \in [ex : Proc \cup {NoProc}, sh : SUBSET Proc]
  /\ gxid \in 0 .. MaxXid
  /\ root \in [Db -> SUBSET Page]
  /\ conn \in [Pid -> 0 .. MaxXid]
  /\ tail \in 1 .. MaxPage + 1 /\ ext \in tail .. MaxPage + 1
  /\ free \subseteq Page
  /\ gc \in Seq([xid : 1 .. MaxXid, pages : SUBSET Page])
  /\ \A p \in Proc :
       /\ txn[p].pc \in {"idle", "read", "write", "failed", "publish"}
       /\ txn[p].pool \cup txn[p].fresh \cup txn[p].old \subseteq Page

Live        == UNION { root[d] : d \in Db }
GcPending   == UNION { gc[i].pages : i \in 1 .. Len(gc) }
Writers     == { p \in Proc : txn[p].pc \in {"write", "failed", "publish"} }
Publishing  == { p \in Proc : txn[p].pc = "publish" }
Fresh       == UNION { txn[p].fresh : p \in Writers }
Pools       == UNION { txn[p].pool : p \in Writers }
InFlightOld == UNION { txn[p].old : p \in Publishing }

(***************************************************************************)
(* Page ownership: a page is owned by exactly one of the published trees, *)
(* the GC, the free list, or a writer's reservation or fresh copies; the  *)
(* only overlap allowed is a committing writer's replaced pages, which    *)
(* are already in the GC while its roots are being published.  Breaking  *)
(* it means a page can be handed out while still in use (a live page      *)
(* freed, a page freed twice, a GC generation holding a reachable page).  *)
(***************************************************************************)
PageOwnership ==
  /\ \A i, j \in 1 .. Len(gc) : i /= j => gc[i].pages \cap gc[j].pages = {}
  /\ (Live \cap GcPending) \subseteq InFlightOld
  /\ Live \cap (free \cup Pools) = {}
  /\ GcPending \cap (free \cup Pools \cup Fresh) = {}
  /\ free \cap (Pools \cup Fresh) = {}
  /\ Fresh \cap Live \subseteq UNION { txn[p].fresh : p \in Publishing }
  /\ \A p, q \in Writers : p /= q => (txn[p].pool \cup txn[p].fresh)
                                     \cap (txn[q].pool \cup txn[q].fresh) = {}

(***************************************************************************)
(* No page leaks: every page the allocator has handed out (below the tail) *)
(* is in a published tree, the GC, the free list or a live transaction's  *)
(* reservation.  Commit returns unused reservations and abort returns     *)
(* everything the transaction allocated.                                  *)
(***************************************************************************)
NoLeak == 1 .. tail - 1 = Live \cup GcPending \cup free \cup Pools \cup Fresh

(***************************************************************************)
(* A reader's snapshot is intact: no page of a tree a read-only           *)
(* transaction has mapped is back in the free list or reserved by a       *)
(* writer while the reader is open (a page can only be reused by passing *)
(* through one of the two).  This is what the connection-slot watermark  *)
(* passed to ed_gc_run is for.                                            *)
(***************************************************************************)
SnapshotIntact ==
  \A p \in Proc : txn[p].pc = "read" =>
    \A d \in txn[p].seen : txn[p].snap[d] \cap (free \cup Pools) = {}

(***************************************************************************)
(* Multi-database commits are atomic: outside a commit's publish phase the *)
(* published roots are exactly the roots of one commit.                    *)
(***************************************************************************)
AtomicRoots == Publishing = {} => root \in versions

(***************************************************************************)
(* A reader never observes a partially applied commit: the trees it has   *)
(* mapped all belong to one committed root map.                           *)
(***************************************************************************)
ReaderSeesOneVersion ==
  \A p \in Proc : txn[p].pc = "read" =>
    \E v \in versions : \A d \in txn[p].seen : txn[p].snap[d] = v[d]

(***************************************************************************)
(* A page reachable from a published root is never in the free list.      *)
(***************************************************************************)
LiveNeverFree == Live \cap free = {}

(***************************************************************************)
(* At most one read-write transaction is open (spec invariant 4), and the  *)
(* lock is held exactly by the open transactions over every open, commit, *)
(* failed commit and close: no closed transaction keeps a lock that would *)
(* block the next writer, and no open writer runs unlocked.               *)
(***************************************************************************)
LockMatchesTxns ==
  /\ \A p, q \in Writers : p = q
  /\ \A p \in Proc : p \in Writers <=> lck.ex = p
  /\ ReaderLock => lck.sh = { p \in Proc : txn[p].pc = "read" }
  /\ lck.ex /= NoProc => lck.sh = {}
=============================================================================
