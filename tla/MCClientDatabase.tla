-------------------------- MODULE MCClientDatabase --------------------------
(* Instances of ClientDatabase for TLC: keys and holders are symmetric.    *)
EXTENDS ClientDatabase, TLC

CONSTANTS k1, k2, h1, h2, y1

Symmetry == Permutations({k1, k2}) \cup Permutations({h1, h2})

=============================================================================
