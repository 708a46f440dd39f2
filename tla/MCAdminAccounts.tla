--------------------------- MODULE MCAdminAccounts ---------------------------
\* Instances of AdminAccounts for TLC.
EXTENDS AdminAccounts, TLC

CONSTANTS u1, u2, u3, r1, r2

ThreeUsers  == {u1, u2, u3}
TwoRequests == {r1, r2}

\* Ids and request slots are interchangeable.
Symmetry == Permutations(UserId) \cup Permutations(Request)
=============================================================================
