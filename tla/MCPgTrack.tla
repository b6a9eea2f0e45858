------------------------------ MODULE MCPgTrack ------------------------------
EXTENDS PgTrack, TLC

CONSTANTS t1, t2

MCThread == {t1, t2}

MCSymmetry == Permutations(MCThread)
=============================================================================
