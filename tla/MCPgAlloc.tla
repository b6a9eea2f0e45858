------------------------------ MODULE MCPgAlloc ------------------------------
EXTENDS PgAlloc, TLC

CONSTANTS t1, t2

MCThread == {t1, t2}

\* The allocator keeps the promises of AllocSpec.
Abs == INSTANCE AllocSpec WITH
         out <- held,
         call <- [t \in Thread |-> [busy |-> st[t].pc /= "idle",
                                   n |-> st[t].n, x |-> st[t].x]]

AllocRefinesSpec == Abs!Spec
=============================================================================
