-------------------------------- MODULE Bpt ---------------------------------
(***************************************************************************)
(* The capacity of eddy's B+tree (ed_bpt_capacity, eddy-private.h).  A     *)
(* node is one page: the EdBpt header (page number and type, xid, the      *)
(* overflow pointer, nkeys and padding) followed by ED_BPT_DATA bytes.  A  *)
(* leaf packs entries of `esize` bytes; a branch packs P[0] then pairs of  *)
(* a 64-bit key and a 32-bit child page number, one more child than keys.  *)
(***************************************************************************)
EXTENDS Layout

\* PAGESIZE less sizeof(EdPg), sizeof(EdTxnId), sizeof(EdPgno), nkeys, _pad.
ED_BPT_DATA == PAGESIZE - EdPg - EdTxnId - EdPgno - 4

\* Entries of esize bytes in a leaf.
LeafOrder(esize) == ED_BPT_DATA \div esize

\* Child pointers of a branch: P[0] (4 bytes), then Key[i] (8) and P[i+1] (4).
BranchOrder == (ED_BPT_DATA - 4) \div 12 + 1

\* Entries a tree of the given depth can hold: a leaf at depth 1, and
\* BranchOrder full subtrees under each branch level above it.
RECURSIVE ed_bpt_capacity(_, _)
ed_bpt_capacity(esize, depth) ==
  IF depth = 1 THEN LeafOrder(esize)
  ELSE BranchOrder * ed_bpt_capacity(esize, depth - 1)

\* Reference: the largest entry count of a tree whose every root-to-leaf
\* path has `depth` nodes, counted by leaves.
Leaves(depth) == LET RECURSIVE Pow(_) Pow(d) == IF d = 0 THEN 1 ELSE BranchOrder * Pow(d - 1)
                 IN Pow(depth - 1)

CapacityRef(esize, depth) == Leaves(depth) * LeafOrder(esize)

\* The branch layout really fits the data segment, and one more key would not.
ASSUME 4 + 12 * (BranchOrder - 1) <= ED_BPT_DATA /\ 4 + 12 * BranchOrder > ED_BPT_DATA

\* ed_bpt_capacity agrees with the reference for entry sizes of 8 bytes (a
\* bare key) to 512 and depths 1 to 3 (TLC's integers stop at 2^31 - 1;
\* the C function returns a size_t).
ASSUME \A esize \in {8 * i : i \in 1 .. 64}, depth \in 1 .. 3 :
         ed_bpt_capacity(esize, depth) = CapacityRef(esize, depth)

\* test_capacity (test-bpt.c): entries of sizeof(Entry) = 64 bytes.  The
\* depth-4 value, 2476152000, is past TLC's integers: it is checked as
\* BranchOrder times the depth-3 capacity, a tenth at a time.
ASSUME /\ ed_bpt_capacity(64, 1) = 63
       /\ ed_bpt_capacity(64, 2) = 21420
       /\ ed_bpt_capacity(64, 3) = 7282800
       /\ BranchOrder % 10 = 0
       /\ (BranchOrder \div 10) * ed_bpt_capacity(64, 3) = 247615200

\* test-bpt.c: LARGE (22000) entries are "enough entries to get to depth 3",
\* more than a tree of depth 2 holds; SMALL (62) entries fit in one leaf.
ASSUME /\ 22000 > ed_bpt_capacity(64, 2)
       /\ 62 <= ed_bpt_capacity(64, 1)
=============================================================================
