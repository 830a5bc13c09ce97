------------------------- MODULE MCProbeAssertions -------------------------
EXTENDS ProbeAssertions, TLC

CONSTANTS s1, s2, k1, k2

MCSatellites == {s1, s2}
MCKinds == {k1, k2}
MCCount == [h \in Helpers |-> IF h = "fifo" THEN 2 ELSE 1]
Symmetry == Permutations(MCSatellites) \cup Permutations(MCKinds)
=============================================================================
