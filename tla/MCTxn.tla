------------------------------- MODULE MCTxn -------------------------------
EXTENDS Txn, Bpt, TLC

CONSTANTS p1, p2, d1, d2, c1

MCProc == {p1, p2}
MCDb == {d1, d2}
MCDb1 == {d1}

\* Every thread in a process of its own.
MCPidOwn == [p \in MCProc |-> p]
\* Both threads in one process, sharing its connection slot.
MCPidShared == [p \in MCProc |-> c1]

MCSymmetry == Permutations(MCProc) \cup Permutations(MCDb)
=============================================================================
