-------------------------------- MODULE MCGc --------------------------------
EXTENDS Gc, TLC

\* The generations of the packed records must behave as GcSpec says.
GcAbs == INSTANCE GcSpec WITH pending <- Group(Lists)

GcRefinesSpec == GcAbs!Spec

\* test_gc in src/test/test-page.c: puts of xid 1, 1 and 2 (8 pages each),
\* then runs (3, 1), (2, 1), (3, 1) return 16, 0 and 8.
TestGcQueue == <<[xid |-> 1, n |-> 8], [xid |-> 1, n |-> 8], [xid |-> 2, n |-> 8]>>
TestGcRet(q, wm, limit) ==
  FoldSeq(LAMBDA r, acc : acc + r.n, 0, SubSeq(q, 1, GcAbs!RunCount(q, wm, limit)))
TestGcAfter(q, wm, limit) == SubSeq(q, GcAbs!RunCount(q, wm, limit) + 1, Len(q))
ASSUME
  LET q1 == TestGcAfter(TestGcQueue, 3, 1)
      q2 == TestGcAfter(q1, 2, 1)
  IN /\ TestGcRet(TestGcQueue, 3, 1) = 16
     /\ TestGcRet(q1, 2, 1) = 0
     /\ TestGcRet(q2, 3, 1) = 8
=============================================================================
