--------------------------------- MODULE Gc ---------------------------------
(***************************************************************************)
(* The on-disk page garbage collector of eddy-private.h: a linked chain   *)
(* of ED_PG_GC pages (struct EdPgGc) each packing EdPgGcList records      *)
(* {xid, npages, pages[]} into ED_PG_GC_DATA bytes, with head/tail/remain *)
(* offsets.  ed_gc_put appends a record to the tail page, spilling into   *)
(* new GC pages taken from the allocator, all or nothing; ed_gc_run       *)
(* consumes records from the head, returns their pages to the allocator   *)
(* and gives every emptied GC page back too.                              *)
(*                                                                         *)
(* Sizes are in units of sizeof(EdPgno): a record of m pages takes        *)
(* GcHdr + m units (xid 2, npages 1).  A record split across GC pages     *)
(* carries `more` on every part but the last, the reading taken here of   *)
(* "npages ... or UINT32_MAX for the next list".                          *)
(***************************************************************************)
EXTENDS Integers, FiniteSets, Sequences, SequencesExt

CONSTANTS
  DataPg, Xid, MaxPut, Wm, Limit,   \* as in GcSpec
  GcPg,      \* page numbers the allocator can give the GC for its own pages
  GcData,    \* ED_PG_GC_DATA in units
  GcHdr      \* units of an EdPgGcList header

ASSUME GcData > GcHdr /\ GcPg \subseteq Nat

VARIABLES
  chain,     \* GC pages from head to tail: [no, lists, used]
  gcFree,    \* GC page numbers held by the allocator
  avail,     \* data pages owned by the callers
  last       \* the last call: [op, wm, limit, ret]

vars == <<chain, gcFree, avail, last>>

\* ED_PG_GC_LIST_MAX: most pages of a record in a fresh GC page.
ListMax == GcData - GcHdr

Lesser(a, b) == IF a < b THEN a ELSE b

Lists == FlattenSeq([i \in 1 .. Len(chain) |-> chain[i].lists])

ChainPages(ch) == { ch[i].no : i \in 1 .. Len(ch) }

\* Fault: room computed without the header of the new record.
RoomNoHdr == IF chain = <<>> THEN 0 ELSE GcData - Last(chain).used

\* The records a put of xid x and pages S writes: `first` pages into the
\* tail page (room permitting), then ListMax at a time into new pages.
Room == IF chain = <<>> THEN 0 ELSE GcData - Last(chain).used - GcHdr

PutFirst(n) == IF Room > 0 THEN Lesser(n, Room) ELSE 0

PutNewPages(n) == (n - PutFirst(n) + ListMax - 1) \div ListMax

PutRecord(x, seq, a, b) ==
  [xid |-> x, pages |-> ToSet(SubSeq(seq, a, b)), more |-> b < Len(seq)]

PutChain(x, S, nps) ==
  LET seq == SetToSortSeq(S, <)
      n == Len(seq)
      f == PutFirst(n)
      lo(j) == f + (j - 1) * ListMax + 1
      hi(j) == Lesser(f + j * ListMax, n)
      tailed == IF f = 0 THEN chain
                ELSE [chain EXCEPT ![Len(chain)].lists = Append(@, PutRecord(x, seq, 1, f)),
                                   ![Len(chain)].used = @ + GcHdr + f]
  IN tailed \o [j \in 1 .. Len(nps) |->
                  [no |-> nps[j], lists |-> <<PutRecord(x, seq, lo(j), hi(j))>>,
                   used |-> GcHdr + hi(j) - lo(j) + 1]]

\* ed_gc_put: every GC page the record needs is allocated before any is
\* written; if the allocator cannot supply them nothing is recorded.
Put(x, S) ==
  LET k == PutNewPages(Cardinality(S)) IN
  /\ k <= Cardinality(gcFree)
  /\ \E NP \in kSubset(k, gcFree) :
       /\ chain' = PutChain(x, S, SetToSortSeq(NP, <))
       /\ gcFree' = gcFree \ NP
  /\ avail' = avail \ S
  /\ last' = [op |-> "put", wm |-> 0, limit |-> 0, ret |-> 0]

PutFail(x, S) ==
  /\ PutNewPages(Cardinality(S)) > Cardinality(gcFree)
  /\ last' = [op |-> "putfail", wm |-> 0, limit |-> 0, ret |-> 0]
  /\ UNCHANGED <<chain, gcFree, avail>>

\* Fault: the limit applied to records rather than transaction ids.
RunCountRecords(ls, wm, limit) ==
  LET ok(k) == (\A i \in 1 .. k : ls[i].xid < wm) /\ k <= limit
  IN CHOOSE k \in 0 .. Len(ls) : ok(k) /\ \A j \in k + 1 .. Len(ls) : ~ok(j)

\* Records a run consumes: the longest prefix below the watermark
\* holding at most `limit` distinct xids.
RunCount(ls, wm, limit) ==
  LET ok(k) == /\ \A i \in 1 .. k : ls[i].xid < wm
               /\ Cardinality({ ls[i].xid : i \in 1 .. k }) <= limit
  IN CHOOSE k \in 0 .. Len(ls) : ok(k) /\ \A j \in k + 1 .. Len(ls) : ~ok(j)

\* Fault: an emptied tail page has its offsets reset but keeps its records.
RECURSIVE ConsumeKeepTail(_, _)
ConsumeKeepTail(ch, k) ==
  IF ch = <<>> THEN ch
  ELSE LET h == Head(ch) IN
       IF k < Len(h.lists)
       THEN <<[h EXCEPT !.lists = SubSeq(h.lists, k + 1, Len(h.lists))]>> \o Tail(ch)
       ELSE IF Len(ch) = 1 THEN <<[h EXCEPT !.used = 0]>>
       ELSE ConsumeKeepTail(Tail(ch), k - Len(h.lists))

\* Remove k records from the head; an emptied head page leaves the chain
\* unless it is the tail, which is reset for reuse.
RECURSIVE Consume(_, _)
Consume(ch, k) ==
  IF ch = <<>> THEN ch
  ELSE LET h == Head(ch) IN
       IF k < Len(h.lists)
       THEN <<[h EXCEPT !.lists = SubSeq(h.lists, k + 1, Len(h.lists))]>> \o Tail(ch)
       ELSE IF Len(ch) = 1 THEN <<[h EXCEPT !.lists = <<>>, !.used = 0]>>
       ELSE Consume(Tail(ch), k - Len(h.lists))

\* Fault: emptied GC pages are unlinked but not given back.
RunKeepsGcPages(wm, limit) ==
  LET k == RunCount(Lists, wm, limit)
      freed == UNION { Lists[i].pages : i \in 1 .. k }
  IN /\ chain' = Consume(chain, k)
     /\ avail' = avail \cup freed
     /\ last' = [op |-> "run", wm |-> wm, limit |-> limit, ret |-> Cardinality(freed)]
     /\ UNCHANGED gcFree

\* Fault: the returned count includes the GC pages given back.
RunCountsGcPages(wm, limit) ==
  LET k == RunCount(Lists, wm, limit)
      freed == UNION { Lists[i].pages : i \in 1 .. k }
      ch == Consume(chain, k)
      gone == ChainPages(chain) \ ChainPages(ch)
  IN /\ chain' = ch
     /\ gcFree' = gcFree \cup gone
     /\ avail' = avail \cup freed
     /\ last' = [op |-> "run", wm |-> wm, limit |-> limit,
                 ret |-> Cardinality(freed) + Cardinality(gone)]

Run(wm, limit) ==
  LET k == RunCount(Lists, wm, limit)
      freed == UNION { Lists[i].pages : i \in 1 .. k }
      ch == Consume(chain, k)
  IN /\ chain' = ch
     /\ gcFree' = gcFree \cup (ChainPages(chain) \ ChainPages(ch))
     /\ avail' = avail \cup freed
     /\ last' = [op |-> "run", wm |-> wm, limit |-> limit, ret |-> Cardinality(freed)]

Init ==
  /\ chain = <<>>
  /\ gcFree = GcPg
  /\ avail = DataPg
  /\ last = [op |-> "none", wm |-> 0, limit |-> 0, ret |-> 0]

PutArgs == { S \in SUBSET avail : S /= {} /\ Cardinality(S) <= MaxPut }

Next ==
  \/ \E x \in Xid, S \in PutArgs : Put(x, S)
  \/ \E x \in Xid, S \in PutArgs : PutFail(x, S)
  \/ \E wm \in Wm, limit \in Limit : Run(wm, limit)

Spec == Init /\ [][Next]_vars

-----------------------------------------------------------------------------
\* The generations the records stand for: parts joined by `more`.
RECURSIVE Group(_)
Group(ls) ==
  IF ls = <<>> THEN <<>>
  ELSE LET rest == Group(Tail(ls)) IN
       IF Head(ls).more /\ rest /= <<>>
       THEN <<[xid |-> Head(ls).xid, pages |-> Head(ls).pages \cup Head(rest).pages]>>
              \o Tail(rest)
       ELSE <<[xid |-> Head(ls).xid, pages |-> Head(ls).pages]>> \o rest

Record == [xid : Xid, pages : SUBSET DataPg, more : BOOLEAN]

TypeOK ==
  /\ chain \in Seq([no : GcPg, lists : Seq(Record), used : Nat])
  /\ gcFree \subseteq GcPg
  /\ avail \subseteq DataPg
  /\ last.ret \in 0 .. Cardinality(DataPg)

\* Every GC page number is either in the chain exactly once or back with
\* the allocator: a put that spills and a run that empties head pages
\* neither leak a GC page nor hand one out while the chain still links it.
GcPagesAccounted ==
  /\ \A i, j \in 1 .. Len(chain) : i /= j => chain[i].no /= chain[j].no
  /\ ChainPages(chain) \cap gcFree = {}
  /\ ChainPages(chain) \cup gcFree = GcPg

\* The records packed into a GC page, the consumed ones and the live
\* ones, never run past ED_PG_GC_DATA: a put fills the tail page only as
\* far as its remaining room and spills the rest into new pages.
ListsCost(ls) == FoldSeq(LAMBDA r, acc : acc + GcHdr + Cardinality(r.pages), 0, ls)

PagesFit == \A i \in 1 .. Len(chain) : ListsCost(chain[i].lists) <= chain[i].used /\ chain[i].used <= GcData

\* A data page is either with the callers or in exactly one pending
\* record: reclaiming never returns a page twice or loses one.
DataPagesExclusive ==
  /\ \A i, j \in 1 .. Len(Lists) : i /= j => Lists[i].pages \cap Lists[j].pages = {}
  /\ \A i \in 1 .. Len(Lists) : Lists[i].pages \cap avail = {} /\ Lists[i].pages /= {}
  /\ avail \cup UNION { Lists[i].pages : i \in 1 .. Len(Lists) } = DataPg
=============================================================================
