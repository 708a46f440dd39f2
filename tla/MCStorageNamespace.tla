-------------------------- MODULE MCStorageNamespace --------------------------
\* Instances of StorageNamespace for TLC.
EXTENDS StorageNamespace, TLC

CONSTANTS a1, k1, k2, r1, r2, r3

OneApp        == {a1}
TwoObjects    == {k1, k2}
ThreeRequests == {r1, r2, r3}

Symmetry == Permutations(Object) \cup Permutations(Request)
=============================================================================
