------------------------------- MODULE PgAlloc -------------------------------
(***************************************************************************)
(* The page allocator of eddy-private.h (EdPgAlloc, EdPgAllocHdr,          *)
(* ed_pg_alloc, ed_pg_free) used by several threads.                       *)
(*                                                                         *)
(* The header's `_Atomic EdPgTail tail` = {start, off} marks the next      *)
(* never-used page, start + off, of the file's last extension.  Every call *)
(* first takes pages from the tail without a lock: it loads the tail,      *)
(* computes how many pages the file still has past it, and publishes the   *)
(* bumped tail with a compare-and-swap, loading again when the swap        *)
(* fails.  A call without exclusive access returns what the tail gave.     *)
(* A call with exclusive access (its caller holds the index lock, `xl`     *)
(* here) goes on to the free list, then grows the file by whole batches    *)
(* of AllocBatch pages and moves the tail into the new extension.          *)
(* ed_pg_free, exclusive too, puts pages on the free list.                 *)
(***************************************************************************)
EXTENDS Naturals, FiniteSets, FiniteSetsExt, Util

CONSTANTS
  Thread,      \* threads calling ed_pg_alloc / ed_pg_free
  MaxPage,     \* ed_mkfile fails past this page number
  AllocBatch,  \* ED_ALLOC_COUNT: pages added per extension
  Req,         \* page counts callers ask for
  NoThread     \* model value: nobody has exclusive access

ASSUME AllocBatch \in Nat \ {0} /\ Req \subseteq Nat \ {0}

VARIABLES
  tail,   \* the atomic EdPgTail [start, off]
  ext,    \* file size in pages (page 0 is the header)
  free,   \* the free list
  xl,     \* the thread with exclusive access, or NoThread
  st,     \* per thread: [pc, n, x, got, snap]
  held    \* pages each thread obtained and has not freed

vars == <<tail, ext, free, xl, st, held>>

Page == 1 .. MaxPage

Lesser(a, b) == IF a < b THEN a ELSE b

Idle == [pc |-> "idle", n |-> 0, x |-> FALSE, got |-> {}, snap |-> [start |-> 0, off |-> 0, ext |-> 0]]

\* The next never-used page.
TailPage(t) == t.start + t.off

\* Pages the loaded tail and file size leave for this call.
TailTake(s, want) == Lesser(want, s.ext - TailPage(s))

\* After the tail: an exclusive call short of pages goes on to the free list.
AfterTail(s, got) == IF s.x /\ Cardinality(got) < s.n THEN "free" ELSE "ret"

Init ==
  /\ tail = [start |-> 1, off |-> 0]
  /\ ext = 1
  /\ free = {}
  /\ xl = NoThread
  /\ st = [t \in Thread |-> Idle]
  /\ held = [t \in Thread |-> {}]

\* ed_pg_alloc(alloc, p, n, exclusive) is entered; an exclusive caller
\* holds the lock that gives exclusive access.
Call(t, n, x) ==
  /\ st[t].pc = "idle"
  /\ x => xl = NoThread
  /\ xl' = IF x THEN t ELSE xl
  /\ st' = [st EXCEPT ![t] = [Idle EXCEPT !.pc = "load", !.n = n, !.x = x]]
  /\ UNCHANGED <<tail, ext, free, held>>

\* Atomic load of the tail (and of the file size it is bounded by).
LoadTail(t) ==
  /\ st[t].pc = "load"
  /\ st' = [st EXCEPT ![t].pc = "cas",
                      ![t].snap = [start |-> tail.start, off |-> tail.off, ext |-> ext]]
  /\ UNCHANGED <<tail, ext, free, xl, held>>

\* The swap succeeds when the tail still holds the loaded value.
SameTail(s) == tail = [start |-> s.start, off |-> s.off]

\* Fault: the swap compares only the offset half of the tail.
SameOff(s) == tail.off = s.off

\* The lock-free bump: nothing left past the tail, a swap that wins the
\* pages start + off .., or a swap that loses to another thread; the
\* lost swap loads the tail again (`reload`).
CasStep(t, swaps, reload) ==
  LET s == st[t]
      k == TailTake(s.snap, s.n - Cardinality(s.got))
      won == s.got \cup (TailPage(s.snap) .. TailPage(s.snap) + k - 1)
  IN /\ s.pc = "cas"
     /\ \/ /\ k = 0
           /\ st' = [st EXCEPT ![t].pc = AfterTail(s, s.got)]
           /\ UNCHANGED tail
        \/ /\ k > 0 /\ swaps
           /\ tail' = [start |-> s.snap.start, off |-> s.snap.off + k]
           /\ st' = [st EXCEPT ![t].got = won, ![t].pc = AfterTail(s, won)]
        \/ /\ k > 0 /\ ~swaps
           /\ st' = IF reload THEN [st EXCEPT ![t].pc = "load"] ELSE st
           /\ UNCHANGED tail
     /\ UNCHANGED <<ext, free, xl, held>>

CasOffOnly(t) == CasStep(t, SameOff(st[t].snap), TRUE)

\* Fault: a failed swap retries with the value it loaded first.
CasStaleRetry(t) == CasStep(t, SameTail(st[t].snap), FALSE)

Cas(t) == CasStep(t, SameTail(st[t].snap), TRUE)

\* Fault: pages taken from the free list stay on it.
FromFreeKeeps(t) ==
  LET s == st[t]
      k == Lesser(s.n - Cardinality(s.got), Cardinality(free))
  IN /\ s.pc = "free"
     /\ \E S \in kSubset(k, free) :
          st' = [st EXCEPT ![t].got = s.got \cup S,
                           ![t].pc = IF Cardinality(s.got) + k = s.n THEN "ret" ELSE "grow"]
     /\ UNCHANGED <<tail, ext, free, xl, held>>

\* Exclusive path: reclaim pages from the free list.
FromFree(t) ==
  LET s == st[t]
      k == Lesser(s.n - Cardinality(s.got), Cardinality(free))
  IN /\ s.pc = "free"
     /\ \E S \in kSubset(k, free) :
          /\ free' = free \ S
          /\ st' = [st EXCEPT ![t].got = s.got \cup S,
                              ![t].pc = IF Cardinality(s.got) + k = s.n THEN "ret" ELSE "grow"]
     /\ UNCHANGED <<tail, ext, xl, held>>

\* Size of the file after growing it for `need` more pages.
GrowExt(need) == ext + ED_ALIGN_SIZE(need, AllocBatch)

\* Fault: the size check lets the file grow one page past MaxPage.
GrowFailsLate(need) == GrowExt(need) - 1 > MaxPage + 1

GrowFails(need) == GrowExt(need) - 1 > MaxPage

\* Exclusive path: grow the file by whole batches; the first `need` new
\* pages are returned and the tail moves into the new extension.  When
\* the file cannot grow the call fails and the pages it gathered go back
\* to the free list.
Grow(t) ==
  LET s == st[t]
      need == s.n - Cardinality(s.got)
  IN /\ s.pc = "grow"
     /\ \/ /\ GrowFails(need)
           /\ free' = free \cup s.got
           /\ st' = [st EXCEPT ![t].got = {}, ![t].pc = "ret"]
           /\ UNCHANGED <<tail, ext>>
        \/ /\ ~GrowFails(need)
           /\ ext' = GrowExt(need)
           /\ tail' = [start |-> ext, off |-> need]
           /\ st' = [st EXCEPT ![t].got = s.got \cup (ext .. ext + need - 1), ![t].pc = "ret"]
           /\ UNCHANGED free
     /\ UNCHANGED <<xl, held>>

\* ed_pg_alloc returns the pages gathered; exclusive access ends.
Return(t) ==
  /\ st[t].pc = "ret"
  /\ held' = [held EXCEPT ![t] = @ \cup st[t].got]
  /\ xl' = IF st[t].x THEN NoThread ELSE xl
  /\ st' = [st EXCEPT ![t] = Idle]
  /\ UNCHANGED <<tail, ext, free>>

\* ed_pg_free: under exclusive access, the pages go on the free list.
Free(t, S) ==
  /\ st[t].pc = "idle"
  /\ xl = NoThread
  /\ S /= {} /\ S \subseteq held[t]
  /\ free' = free \cup S
  /\ held' = [held EXCEPT ![t] = @ \ S]
  /\ UNCHANGED <<tail, ext, xl, st>>

\* The steps of a call in progress: nothing inside ed_pg_alloc blocks.
Step(t) == LoadTail(t) \/ Cas(t) \/ FromFree(t) \/ Grow(t) \/ Return(t)

Next ==
  \E t \in Thread :
    \/ \E n \in Req, x \in BOOLEAN : Call(t, n, x)
    \/ LoadTail(t) \/ Cas(t) \/ FromFree(t) \/ Grow(t) \/ Return(t)
    \/ \E S \in SUBSET held[t] : Free(t, S)

Spec == Init /\ [][Next]_vars

\* A thread inside ed_pg_alloc keeps being scheduled; callers need not
\* call again.
FairSpec == Spec /\ \A t \in Thread : WF_vars(Step(t))
-----------------------------------------------------------------------------
TypeOK ==
  /\ tail \in [start : 1 .. MaxPage + 1, off : 0 .. MaxPage]
  /\ ext \in 1 .. MaxPage + 1
  /\ free \subseteq Page /\ xl \in Thread \cup {NoThread}
  /\ \A t \in Thread : st[t].got \cup held[t] \subseteq Page

InFlight == UNION { st[t].got : t \in Thread }

(***************************************************************************)
(* Every page below the tail is accounted for exactly once: held by one   *)
(* caller, gathered by one call in progress, or on the free list; none at *)
(* or past the tail has been handed out, and the tail never passes the    *)
(* end of the file.  A lost swap race, a stale tail or a growth that      *)
(* moves the tail under a lock-free caller would break it.                *)
(***************************************************************************)
PagesAccounted ==
  /\ TailPage(tail) <= ext
  /\ \A t, u \in Thread : t /= u =>
       /\ held[t] \cap held[u] = {}
       /\ st[t].got \cap st[u].got = {}
       /\ held[t] \cap st[u].got = {}
  /\ \A t \in Thread : held[t] \cap st[t].got = {}
  /\ free \cap (UNION { held[t] : t \in Thread } \cup InFlight) = {}
  /\ UNION { held[t] : t \in Thread } \cup InFlight \cup free = 1 .. TailPage(tail) - 1

(***************************************************************************)
(* Every call to ed_pg_alloc returns: the compare-and-swap loop on the    *)
(* tail only retries after another thread's swap won, and no step inside  *)
(* the call waits.                                                         *)
(***************************************************************************)
AllocReturns == \A t \in Thread : st[t].pc /= "idle" ~> st[t].pc = "idle"
=============================================================================
