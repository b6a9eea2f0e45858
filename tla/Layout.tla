------------------------------- MODULE Layout -------------------------------
(***************************************************************************)
(* Page layouts of eddy-private.h.  Every on-disk structure is one page of *)
(* PAGESIZE bytes, and the header compiles the structures under            *)
(* `-Werror=padded`, so a structure's size is the sum of its fields.  The  *)
(* counts the header derives from those sizes must fill a page without    *)
(* running past it.                                                        *)
(***************************************************************************)
EXTENDS Naturals

PAGESIZE == 4096

\* sizeof of the scalar and header types: EdPgno, EdTxnId, struct EdPg.
EdPgno == 4
EdTxnId == 8
EdPg == EdPgno + 4

\* struct EdPgFree: base, count, pages[ED_PG_FREE_COUNT].
ED_PG_FREE_COUNT == (PAGESIZE - EdPg - EdPgno) \div EdPgno
SizeofEdPgFree == EdPg + EdPgno + EdPgno * ED_PG_FREE_COUNT

\* struct EdPgGc: base, next, head, tail and remain (uint16_t), _pad[6],
\* then data[ED_PG_GC_DATA].
EdPgGcHdr == EdPg + EdPgno + 3 * 2 + 6
ED_PG_GC_DATA == PAGESIZE - EdPg - EdPgno - 12

\* struct EdPgGcList: xid, npages, pages[1]; a list of n pages takes the
\* header plus n - 1 more page numbers.
SizeofEdPgGcList == EdTxnId + EdPgno + EdPgno
GcListBytes(n) == SizeofEdPgGcList + EdPgno * (n - 1)
ED_PG_GC_LIST_MAX == (ED_PG_GC_DATA - SizeofEdPgGcList) \div EdPgno + 1

\* struct EdBpt header: base, xid, next, nkeys (uint16_t), _pad[2].
EdBptHdr == EdPg + EdTxnId + EdPgno + 2 + 2

\* struct EdNodeBlock {block, no, exp} and struct EdNodeKey {hash, no,
\* count, exp}, packed after an EdBpt header.
SizeofEdNodeBlock == 8 + EdPgno + 4
SizeofEdNodeKey == 8 + 8 + EdPgno + 4
ED_NODE_BLOCK_COUNT == (PAGESIZE - EdBptHdr) \div SizeofEdNodeBlock
ED_NODE_KEY_COUNT == (PAGESIZE - EdBptHdr) \div SizeofEdNodeKey

-----------------------------------------------------------------------------
\* The free-list page holds exactly ED_PG_FREE_COUNT page numbers.
ASSUME SizeofEdPgFree <= PAGESIZE /\ SizeofEdPgFree + EdPgno > PAGESIZE

\* The "- 12" of ED_PG_GC_DATA is the GC page's own header after base and
\* next, so header and data make one page; the uint16_t offsets reach it.
ASSUME EdPgGcHdr + ED_PG_GC_DATA = PAGESIZE /\ ED_PG_GC_DATA < 2^16

\* The longest list a fresh GC page takes fits its data, one more page
\* would not: a put splits a larger generation at exactly that length.
ASSUME GcListBytes(ED_PG_GC_LIST_MAX) <= ED_PG_GC_DATA
       /\ GcListBytes(ED_PG_GC_LIST_MAX + 1) > ED_PG_GC_DATA

\* Index nodes: the block and key arrays fit behind the B+tree header.
ASSUME /\ EdBptHdr + ED_NODE_BLOCK_COUNT * SizeofEdNodeBlock <= PAGESIZE
       /\ EdBptHdr + ED_NODE_KEY_COUNT * SizeofEdNodeKey <= PAGESIZE
=============================================================================
