----------------------------- MODULE MCShareLinks -----------------------------
\* Instances of ShareLinks for TLC.
EXTENDS ShareLinks, TLC

CONSTANTS a1, a2, u1, l1, l2, r1, r2

OneApp        == {a1}
TwoApps       == {a1, a2}
OneUser       == {u1}
TwoLinks      == {l1, l2}
TwoRequests   == {r1, r2}

Symmetry == Permutations(Link) \cup Permutations(Request)
              \cup Permutations(App)
=============================================================================
