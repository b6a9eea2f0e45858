------------------------------- MODULE MCLock -------------------------------
EXTENDS Lock, TLC

CONSTANTS a1, a2, b1, pa, pb

\* Two threads in process pa, one in process pb.
MCThread == {a1, a2, b1}
MCProcOf == [t \in MCThread |-> IF t = b1 THEN pb ELSE pa]

\* pa is multi-threaded and locks both layers; pb is single-threaded and,
\* like the tests (test-bpt.c FOPEN), passes ED_FNOTLCK.
MCFlagSets == [p \in {pa, pb} |->
                 IF p = pa THEN {{}, {"NOBLOCK"}}
                 ELSE {{"NOTLCK"}, {"NOTLCK", "NOBLOCK"}}]

\* Every caller locks both layers.
MCBothLayers == [p \in {pa, pb} |-> {{}, {"NOBLOCK"}}]

MCSymmetry == Permutations({a1, a2})
=============================================================================
