------------------------------ MODULE BptTree ------------------------------
(***************************************************************************)
(* The copy-on-write B+tree of one database (spec.md 3 and 4.3, the EdBpt *)
(* page layout and EdTxnDb cursor of eddy-private.h, test-bpt.c).  Pages  *)
(* are an arena indexed by page number.  A leaf holds a sorted run of     *)
(* entries <<key, value>>; a branch holds N separator keys and N+1 child  *)
(* page numbers, child i holding keys >= key i-1 and < key i.             *)
(*                                                                         *)
(* Each ed_bpt_set and ed_bpt_del is one committed write transaction: the *)
(* whole root-to-leaf path is written to fresh pages, splits add pages,   *)
(* the new root is published and the old path goes to the GC.  The GC's  *)
(* watermark is abstracted to one lock-free reader: pages retired while   *)
(* it is open are pinned until it closes, older ones are freed by the     *)
(* next commit's ed_gc_run.  The reader keeps the root it opened and      *)
(* walks it with the cursor (ed_bpt_find, ed_bpt_next, ed_bpt_loop).       *)
(*                                                                         *)
(* ed_bpt.c is not in the repository: every definition follows spec.md    *)
(* and the behaviour test-bpt.c checks.  Keys are unique (find then set   *)
(* without replace on an absent key, or with replace on a present one);   *)
(* overflow leaves for repeated keys are not modelled.  Underflow policy  *)
(* (spec.md 9 leaves it open): an emptied leaf leaves its parent unless it *)
(* is the only child; branches never merge and the root never collapses.  *)
(***************************************************************************)
EXTENDS Naturals, Sequences, SequencesExt, FiniteSets, Functions, TLC

CONSTANTS
  Key,        \* keys, positive integers
  Val,        \* entry contents, as model values
  NoVal,      \* no entry under a key
  LeafCap,    \* entries per leaf (ed_leaf_order)
  BranchCap,  \* separator keys per branch (ed_branch_order - 1)
  MaxPg,      \* pages of the file
  MaxXid      \* bound on transaction ids, so on commits

ASSUME Key \subseteq Nat \ {0} /\ LeafCap >= 2 /\ BranchCap >= 2

NoPg == 0
Pgno == 1 .. MaxPg
Top == Max(Key) + 1

Node(l, es, ks, cs) == [leaf |-> l, ents |-> es, keys |-> ks, kids |-> cs]
Leaf(es) == Node(TRUE, es, <<>>, <<>>)
Branch(ks, cs) == Node(FALSE, <<>>, ks, cs)
\* What a page on the free list holds as far as the tree is concerned.
Blank == Branch(<<>>, <<>>)

VARIABLES
  pg,    \* page number -> node
  root,  \* the published root page number (*EdTxnType.no)
  xid,   \* id of the last committed transaction (EdTxnId)
  free,  \* pages the allocator can hand out
  gc,    \* retired pages the next ed_gc_run frees
  pin,   \* retired pages the open reader's slot still pins
  rd,    \* the reader: [open, root it mapped, map it saw (history)]
  cur    \* its cursor: [path of <<page, index>>, start key, wrapped, keys seen]

vars == <<pg, root, xid, free, gc, pin, rd, cur>>

Closed == [open |-> FALSE, root |-> NoPg, map |-> [k \in Key |-> NoVal]]
NoCursor == [path |-> <<>>, start |-> 0, wrap |-> FALSE, seen |-> <<>>]

-----------------------------------------------------------------------------
(* Searching a node.                                                        *)

\* The child of a branch a key belongs to: one past the separators <= key.
Slot(ks, k) == Cardinality({ i \in 1 .. Len(ks) : ks[i] <= k }) + 1

\* The index of the first entry of a leaf with a key >= k.
LeafPos(es, k) == Cardinality({ i \in 1 .. Len(es) : es[i][1] < k }) + 1

RECURSIVE Entries(_)
Entries(p) ==
  IF pg[p].leaf THEN ToSet(pg[p].ents)
  ELSE UNION { Entries(c) : c \in ToSet(pg[p].kids) }

\* The map a tree rooted at r stores.
Content(r) ==
  LET es == IF r = NoPg THEN {} ELSE Entries(r)
  IN [k \in Key |-> IF \E e \in es : e[1] = k THEN (CHOOSE e \in es : e[1] = k)[2] ELSE NoVal]

\* Every page reference reachable from p, p included, in tree order.
RECURSIVE Refs(_)
Refs(p) == <<p>> \o FlattenSeq([i \in 1 .. Len(pg[p].kids) |-> Refs(pg[p].kids[i])])

Live == IF root = NoPg THEN {} ELSE ToSet(Refs(root))

\* The pages ed_bpt_find maps on the way to the leaf of k.
RECURSIVE PathTo(_, _)
PathTo(p, k) ==
  IF pg[p].leaf THEN {p} ELSE {p} \cup PathTo(pg[p].kids[Slot(pg[p].keys, k)], k)

\* A finite set of numbers in ascending order.
Ascending(S) == [i \in 1 .. Cardinality(S) |-> CHOOSE x \in S : Cardinality({ y \in S : y < x }) = i - 1]

\* Pages the allocator hands out, lowest first; NoPg past the last one.
Fresh == Ascending(free) \o [i \in 1 .. 2 * MaxPg + 1 |-> NoPg]

-----------------------------------------------------------------------------
(* Writing a path.  Each level yields [w: pages written, up: the page or   *)
(* pages replacing the node in its parent, seps: separators to add there, *)
(* n: the next fresh page to use].                                         *)

\* Fault: the capacity test one entry late.
LeafOutLate(es, fr, i) ==
  IF Len(es) <= LeafCap + 1
    THEN [w |-> fr[i] :> Leaf(es), up |-> <<fr[i]>>, seps |-> <<>>, n |-> i + 1]
    ELSE LET m == Len(es) \div 2
         IN [w |-> (fr[i] :> Leaf(SubSeq(es, 1, m)))
                   @@ (fr[i + 1] :> Leaf(SubSeq(es, m + 1, Len(es)))),
             up |-> <<fr[i], fr[i + 1]>>, seps |-> <<es[m + 1][1]>>, n |-> i + 2]

\* Fault: the last key of the left leaf is promoted.
LeafOutLastLeft(es, fr, i) ==
  IF Len(es) <= LeafCap
    THEN [w |-> fr[i] :> Leaf(es), up |-> <<fr[i]>>, seps |-> <<>>, n |-> i + 1]
    ELSE LET m == Len(es) \div 2
         IN [w |-> (fr[i] :> Leaf(SubSeq(es, 1, m)))
                   @@ (fr[i + 1] :> Leaf(SubSeq(es, m + 1, Len(es)))),
             up |-> <<fr[i], fr[i + 1]>>, seps |-> <<es[m][1]>>, n |-> i + 2]

\* Fault: the right half starts one entry late, losing the middle entry.
LeafOutDrop(es, fr, i) ==
  IF Len(es) <= LeafCap
    THEN [w |-> fr[i] :> Leaf(es), up |-> <<fr[i]>>, seps |-> <<>>, n |-> i + 1]
    ELSE LET m == Len(es) \div 2
         IN [w |-> (fr[i] :> Leaf(SubSeq(es, 1, m)))
                   @@ (fr[i + 1] :> Leaf(SubSeq(es, m + 2, Len(es)))),
             up |-> <<fr[i], fr[i + 1]>>, seps |-> <<es[m + 1][1]>>, n |-> i + 2]

\* A leaf past its capacity splits at its midpoint; the first key of the
\* right leaf is promoted.
LeafOut(es, fr, i) ==
  IF Len(es) <= LeafCap
    THEN [w |-> fr[i] :> Leaf(es), up |-> <<fr[i]>>, seps |-> <<>>, n |-> i + 1]
    ELSE LET m == Len(es) \div 2
         IN [w |-> (fr[i] :> Leaf(SubSeq(es, 1, m)))
                   @@ (fr[i + 1] :> Leaf(SubSeq(es, m + 1, Len(es)))),
             up |-> <<fr[i], fr[i + 1]>>, seps |-> <<es[m + 1][1]>>, n |-> i + 2]

\* A branch past its capacity splits around its median key, which moves up.
BranchOut(ks, cs, fr, i) ==
  IF Len(ks) <= BranchCap
    THEN [w |-> fr[i] :> Branch(ks, cs), up |-> <<fr[i]>>, seps |-> <<>>, n |-> i + 1]
    ELSE LET m == Len(ks) \div 2 + 1
         IN [w |-> (fr[i] :> Branch(SubSeq(ks, 1, m - 1), SubSeq(cs, 1, m)))
                   @@ (fr[i + 1] :> Branch(SubSeq(ks, m + 1, Len(ks)),
                                           SubSeq(cs, m + 1, Len(cs)))),
             up |-> <<fr[i], fr[i + 1]>>, seps |-> <<ks[m]>>, n |-> i + 2]

\* ed_bpt_set below page p: put entry e in (replacing an equal key).
RECURSIVE Ins(_, _, _, _)
Ins(p, e, fr, i) ==
  LET nd == pg[p] IN
  IF nd.leaf
    THEN LET j == LeafPos(nd.ents, e[1])
         IN LeafOut(IF j <= Len(nd.ents) /\ nd.ents[j][1] = e[1]
                      THEN ReplaceAt(nd.ents, j, e) ELSE InsertAt(nd.ents, j, e), fr, i)
    ELSE LET c == Slot(nd.keys, e[1])
             r == Ins(nd.kids[c], e, fr, i)
             o == BranchOut(SubSeq(nd.keys, 1, c - 1) \o r.seps \o SubSeq(nd.keys, c, Len(nd.keys)),
                            SubSeq(nd.kids, 1, c - 1) \o r.up \o SubSeq(nd.kids, c + 1, Len(nd.kids)),
                            fr, r.n)
         IN [o EXCEPT !.w = r.w @@ o.w]

\* ed_bpt_del below page p of the entry with key k; keep says whether an
\* emptied leaf stays (it is its parent's only child, or the root).
RECURSIVE Rem(_, _, _, _, _)
Rem(p, k, keep, fr, i) ==
  LET nd == pg[p] IN
  IF nd.leaf
    THEN LET es == RemoveAt(nd.ents, LeafPos(nd.ents, k)) IN
         IF es = <<>> /\ ~keep THEN [w |-> <<>>, up |-> <<>>, n |-> i]
         ELSE [w |-> fr[i] :> Leaf(es), up |-> <<fr[i]>>, n |-> i + 1]
    ELSE LET c == Slot(nd.keys, k)
             r == Rem(nd.kids[c], k, Len(nd.kids) = 1, fr, i)
             ks == IF r.up = <<>> THEN RemoveAt(nd.keys, IF c = 1 THEN 1 ELSE c - 1)
                   ELSE nd.keys
             cs == SubSeq(nd.kids, 1, c - 1) \o r.up \o SubSeq(nd.kids, c + 1, Len(nd.kids))
         IN [w |-> r.w @@ (fr[r.n] :> Branch(ks, cs)), up |-> <<fr[r.n]>>, n |-> r.n + 1]

\* A root that split gets a new root branch above its two halves.
NewRoot(o) ==
  IF Len(o.up) = 1 THEN [w |-> o.w, root |-> o.up[1]]
  ELSE [w |-> o.w @@ (Fresh[o.n] :> Branch(o.seps, o.up)), root |-> Fresh[o.n]]

-----------------------------------------------------------------------------
(* Write transactions.                                                      *)

\* Fault: the GC run ignores the reader's slot.
CommitNoPin(r, old) ==
  /\ IF NoPg \in DOMAIN r.w
       THEN UNCHANGED <<pg, root, xid, free, gc, pin>>
       ELSE /\ xid' = xid + 1
            /\ pg' = [p \in Pgno |-> IF p \in DOMAIN r.w THEN r.w[p]
                                     ELSE IF p \in old THEN Blank ELSE pg[p]]
            /\ root' = r.root
            /\ free' = (free \ DOMAIN r.w) \cup gc \cup pin
            /\ gc' = old /\ pin' = {}
  /\ UNCHANGED <<rd, cur>>

\* ed_txn_commit of a mutation.  When the allocator could not supply every
\* page the transaction fails and the pages it had go back: nothing
\* changes.  Otherwise the pages are written, the root published, the old
\* path put to the GC under this xid and the GC run: everything retired
\* before the reader's slot is freed, this generation is pinned by it (or
\* by the writer's own slot when no reader is open).  Pages no one can
\* reach any more read as Blank: their contents are never looked at again.
Commit(r, old) ==
  /\ IF NoPg \in DOMAIN r.w
       THEN UNCHANGED <<pg, root, xid, free, gc, pin>>
       ELSE /\ xid' = xid + 1
            /\ pg' = [p \in Pgno |-> IF p \in DOMAIN r.w THEN r.w[p]
                                     ELSE IF p \in old /\ ~rd.open THEN Blank
                                     ELSE pg[p]]
            /\ root' = r.root
            /\ free' = (free \ DOMAIN r.w) \cup gc
            /\ IF rd.open THEN gc' = {} /\ pin' = pin \cup old
                          ELSE gc' = old /\ pin' = pin
  /\ UNCHANGED <<rd, cur>>

\* ed_bpt_find(k) then ed_bpt_set(entry, replace), then commit.
Set(k, v, replace) ==
  /\ xid < MaxXid
  /\ Content(root)[k] = NoVal \/ replace
  /\ Commit(NewRoot(IF root = NoPg THEN LeafOut(<<<<k, v>>>>, Fresh, 1)
                    ELSE Ins(root, <<k, v>>, Fresh, 1)),
            IF root = NoPg THEN {} ELSE PathTo(root, k))

\* Fault: the old path is not put to the GC.
DelNoRetire(k) ==
  /\ xid < MaxXid
  /\ Content(root)[k] /= NoVal
  /\ LET o == Rem(root, k, TRUE, Fresh, 1)
     IN Commit([w |-> o.w, root |-> o.up[1]], {})

\* ed_bpt_find(k) finding it, then ed_bpt_del, then commit.
Del(k) ==
  /\ xid < MaxXid
  /\ Content(root)[k] /= NoVal
  /\ LET o == Rem(root, k, TRUE, Fresh, 1)
     IN Commit([w |-> o.w, root |-> o.up[1]], PathTo(root, k))

-----------------------------------------------------------------------------
(* The reader and its cursor.                                               *)

\* The positions from page p to the leaf position ed_bpt_find gives key k.
RECURSIVE Descend(_, _)
Descend(p, k) ==
  IF pg[p].leaf THEN << <<p, LeafPos(pg[p].ents, k)>> >>
  ELSE << <<p, Slot(pg[p].keys, k)>> >> \o Descend(pg[p].kids[Slot(pg[p].keys, k)], k)

\* Move on to the next position of a node above.
Bump(path) ==
  IF path = <<>> THEN <<>> ELSE [path EXCEPT ![Len(path)][2] = @ + 1]

RECURSIVE Seek(_)

\* Fault: a leaf counts as exhausted one entry early.
SeekLeafEnd(path) ==
  IF path = <<>> THEN <<>>
  ELSE LET t == Last(path)
           nd == pg[t[1]]
       IN IF nd.leaf
            THEN IF t[2] < Len(nd.ents) THEN path ELSE Seek(Bump(Front(path)))
            ELSE IF t[2] <= Len(nd.kids)
                   THEN Seek(Append(path, <<nd.kids[t[2]], 1>>))
                   ELSE Seek(Bump(Front(path)))

\* From a position that may be past the end of its node, the first entry
\* at or after it: up through exhausted nodes, down the leftmost children
\* of the next sibling, skipping empty leaves; <<>> past the last entry.
Seek(path) ==
  IF path = <<>> THEN <<>>
  ELSE LET t == Last(path)
           nd == pg[t[1]]
       IN IF nd.leaf
            THEN IF t[2] <= Len(nd.ents) THEN path ELSE Seek(Bump(Front(path)))
            ELSE IF t[2] <= Len(nd.kids)
                   THEN Seek(Append(path, <<nd.kids[t[2]], 1>>))
                   ELSE Seek(Bump(Front(path)))

KeyAt(path) ==
  IF path = <<>> THEN 0 ELSE pg[Last(path)[1]].ents[Last(path)[2]][1]

\* ed_bpt_loop: the cursor went past the end and is back at its start.
Loop == cur.wrap /\ KeyAt(cur.path) >= cur.start

\* ed_txn_open(ED_FRDONLY) without locks, then ed_bpt_find(k); a cursor
\* pass starts only from a key that was found.
Open(k) ==
  /\ ~rd.open
  /\ rd' = [open |-> TRUE, root |-> root, map |-> Content(root)]
  /\ cur' = IF Content(root)[k] = NoVal THEN NoCursor
            ELSE [path |-> Seek(Descend(root, k)), start |-> k, wrap |-> FALSE, seen |-> <<k>>]
  /\ UNCHANGED <<pg, root, xid, free, gc, pin>>

\* ed_txn_open plus ed_bpt_first: the cursor on the smallest key, none in
\* a tree without entries.
First ==
  LET to == IF root = NoPg THEN <<>> ELSE Seek(<< <<root, 1>> >>) IN
  /\ ~rd.open
  /\ rd' = [open |-> TRUE, root |-> root, map |-> Content(root)]
  /\ cur' = IF to = <<>> THEN NoCursor
            ELSE [path |-> to, start |-> KeyAt(to), wrap |-> FALSE, seen |-> <<KeyAt(to)>>]
  /\ UNCHANGED <<pg, root, xid, free, gc, pin>>

\* ed_bpt_next, called until ed_bpt_loop says a full pass is done: at the
\* end of the tree it wraps to the first entry.
Step ==
  /\ cur.start /= 0
  /\ ~Loop
  /\ LET nx == Seek(Bump(cur.path))
         to == IF nx = <<>> THEN Seek(<< <<rd.root, 1>> >>) ELSE nx
     IN cur' = [cur EXCEPT !.path = to, !.wrap = @ \/ nx = <<>>,
                           !.seen = Append(@, KeyAt(to))]
  /\ UNCHANGED <<pg, root, xid, free, gc, pin, rd>>

\* ed_txn_close: the slot no longer pins what was retired meanwhile.
Close ==
  /\ rd.open
  /\ rd' = Closed
  /\ cur' = NoCursor
  /\ gc' = gc \cup pin
  /\ pin' = {}
  /\ pg' = [p \in Pgno |-> IF p \in pin THEN Blank ELSE pg[p]]
  /\ UNCHANGED <<root, xid, free>>

Init ==
  /\ pg = [p \in Pgno |-> Blank]
  /\ root = NoPg
  /\ xid = 0
  /\ free = Pgno
  /\ gc = {}
  /\ pin = {}
  /\ rd = Closed
  /\ cur = NoCursor

Next ==
  \/ \E k \in Key, v \in Val, replace \in BOOLEAN : Set(k, v, replace)
  \/ \E k \in Key : Del(k) \/ Open(k)
  \/ First
  \/ Step
  \/ Close

Spec == Init /\ [][Next]_vars

-----------------------------------------------------------------------------
(* Properties.                                                              *)

NodeOK(nd) ==
  /\ nd.leaf \in BOOLEAN
  /\ Len(nd.ents) <= LeafCap /\ \A i \in 1 .. Len(nd.ents) : nd.ents[i] \in Key \X Val
  /\ Len(nd.keys) <= BranchCap /\ \A i \in 1 .. Len(nd.keys) : nd.keys[i] \in Key
  /\ Len(nd.kids) <= BranchCap + 1 /\ \A i \in 1 .. Len(nd.kids) : nd.kids[i] \in Pgno

TypeOK ==
  /\ \A p \in Pgno : NodeOK(pg[p])
  /\ root \in Pgno \cup {NoPg}
  /\ xid \in 0 .. MaxXid
  /\ free \cup gc \cup pin \subseteq Pgno
  /\ rd.open \in BOOLEAN
  /\ cur.wrap \in BOOLEAN

\* Node p holds only keys in [lo, hi) and is the top of a subtree of
\* height h in which every leaf is sorted and every branch partitions.
RECURSIVE Sound(_, _, _, _)
Sound(p, lo, hi, h) ==
  LET nd == pg[p] IN
  IF nd.leaf
    THEN /\ h = 1
         /\ IsSorted([i \in 1 .. Len(nd.ents) |-> nd.ents[i][1]], <)
         /\ \A i \in 1 .. Len(nd.ents) : lo <= nd.ents[i][1] /\ nd.ents[i][1] < hi
    ELSE /\ h > 1
         /\ Len(nd.kids) = Len(nd.keys) + 1
         /\ IsSorted(nd.keys, <)
         /\ \A i \in 1 .. Len(nd.keys) : lo <= nd.keys[i] /\ nd.keys[i] < hi
         /\ \A c \in 1 .. Len(nd.kids) :
              Sound(nd.kids[c], IF c = 1 THEN lo ELSE nd.keys[c - 1],
                    IF c = Len(nd.kids) THEN hi ELSE nd.keys[c], h - 1)

RECURSIVE Height(_)
Height(p) == IF pg[p].leaf \/ pg[p].kids = <<>> THEN 1 ELSE 1 + Height(pg[p].kids[1])

\* Structural validity (spec.md 3 invariants 2 and 3, 8; what ed_bpt_verify
\* checks in every test): after any sequence of splits and removals the
\* published tree has sorted leaves, partitioning branches, all leaves at
\* one depth.
TreeSound ==
  root /= NoPg => Sound(root, 0, Top, Height(root))

\* Page accounting (spec.md 8, invariant 1): no page is referenced twice
\* in the published tree, and every page is in exactly one of the tree,
\* the GC (freeable or pinned) and the free list.
PagesAccounted ==
  /\ root /= NoPg => IsInjective(Refs(root))
  /\ Live \cup gc \cup pin \cup free = Pgno
  /\ Live \cap (gc \cup pin \cup free) = {}
  /\ gc \cap pin = {} /\ (gc \cup pin) \cap free = {}

\* Copy-on-write (spec.md 4.3): commits that happen while a lock-free
\* reader is open never change what the root it mapped stores: no page
\* it can reach is rewritten in place or handed out again.
SnapshotIntact ==
  rd.open => Content(rd.root) = rd.map

\* The keys a full pass from start must visit, in cursor order.
PassOrder ==
  LET s == Ascending({ k \in Key : rd.map[k] /= NoVal })
      j == CHOOSE j \in 1 .. Len(s) : s[j] = cur.start
  IN SubSeq(s, j, Len(s)) \o SubSeq(s, 1, j - 1)

\* Ordered traversal (spec.md 8, test_iter): ed_bpt_next from a found key
\* visits every key of the snapshot once, ascending, wrapping at the end
\* back to the start, while writers commit; ed_bpt_loop fires exactly
\* when the pass is back at its start and never before.
CursorPass ==
  cur.start /= 0 =>
    /\ IsPrefix(cur.seen, PassOrder \o <<cur.start>>)
    /\ Loop <=> Len(cur.seen) = Len(PassOrder) + 1

\* ed_bpt_set and ed_bpt_del implement the ordered map of BptSpec.
Abs == INSTANCE BptSpec WITH map <- Content(root)
BptRefinesSpec == Abs!Spec
=============================================================================
