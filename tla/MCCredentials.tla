---------------------------- MODULE MCCredentials ----------------------------
\* Instances of Credentials for TLC.  One user is enough: no step of one user's
\* request reads or writes another user's rows.
EXTENDS Credentials, TLC

CONSTANTS u1, a1, a2, c1, c2, c3, c4, r1, r2

OneUser     == {u1}
OneApp      == {a1}
TwoApps     == {a1, a2}
ThreeIds    == {c1, c2, c3}
FourIds     == {c1, c2, c3, c4}
TwoRequests == {r1, r2}

Symmetry == Permutations(Cid) \cup Permutations(Request) \cup Permutations(App)
=============================================================================
