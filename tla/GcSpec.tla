------------------------------- MODULE GcSpec -------------------------------
(***************************************************************************)
(* What the page garbage collector promises (eddy-private.h, "Page        *)
(* Garbage Collector"): ed_gc_put records a generation of pages freed by  *)
(* one transaction, all or nothing; ed_gc_run hands generations back to   *)
(* the allocator, oldest first, while their xid is below the watermark,   *)
(* at most `limit` distinct transaction ids per call, and returns the     *)
(* number of pages it freed.                                              *)
(***************************************************************************)
EXTENDS Integers, FiniteSets, Sequences

CONSTANTS
  DataPg,    \* pages the callers hand to the GC
  Xid,       \* transaction ids callers tag generations with
  MaxPut,    \* most pages in one ed_gc_put
  Wm,        \* watermarks passed to ed_gc_run
  Limit      \* limits passed to ed_gc_run

VARIABLES
  pending,   \* generations not yet reclaimed, oldest first: [xid, pages]
  avail,     \* pages owned by the callers (never put, or reclaimed)
  last       \* the last call: [op, wm, limit, ret]

vars == <<pending, avail, last>>

PendingPages(q) == UNION { q[i].pages : i \in 1 .. Len(q) }

\* Number of generations a run with watermark wm and limit frees: the
\* longest prefix below the watermark holding at most `limit` xids.
RunCount(q, wm, limit) ==
  LET ok(k) == /\ \A i \in 1 .. k : q[i].xid < wm
               /\ Cardinality({ q[i].xid : i \in 1 .. k }) <= limit
  IN CHOOSE k \in 0 .. Len(q) : ok(k) /\ \A j \in k + 1 .. Len(q) : ~ok(j)

Init ==
  /\ pending = <<>>
  /\ avail = DataPg
  /\ last = [op |-> "none", wm |-> 0, limit |-> 0, ret |-> 0]

Put(x, S) ==
  /\ pending' = Append(pending, [xid |-> x, pages |-> S])
  /\ avail' = avail \ S
  /\ last' = [op |-> "put", wm |-> 0, limit |-> 0, ret |-> 0]

\* A put that fails changes nothing but the result.
PutFail ==
  /\ last' = [op |-> "putfail", wm |-> 0, limit |-> 0, ret |-> 0]
  /\ UNCHANGED <<pending, avail>>

Run(wm, limit) ==
  LET k == RunCount(pending, wm, limit)
      freed == PendingPages(SubSeq(pending, 1, k))
  IN /\ pending' = SubSeq(pending, k + 1, Len(pending))
     /\ avail' = avail \cup freed
     /\ last' = [op |-> "run", wm |-> wm, limit |-> limit, ret |-> Cardinality(freed)]

Next ==
  \/ \E x \in Xid, S \in SUBSET avail : S /= {} /\ Cardinality(S) <= MaxPut /\ Put(x, S)
  \/ PutFail
  \/ \E wm \in Wm, limit \in Limit : Run(wm, limit)

Spec == Init /\ [][Next]_vars
=============================================================================
