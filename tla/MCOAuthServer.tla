---------------------------- MODULE MCOAuthServer ----------------------------
\* Instances of OAuthServer for TLC.
EXTENDS OAuthServer, TLC

CONSTANTS u1, p1, p2, k1, k2, t1, t2, t3, r1, r2

OneUser     == {u1}
TwoClients  == {p1, p2}
OneCode     == {k1}
TwoCodes    == {k1, k2}
ThreeTokens == {t1, t2, t3}
TwoTokens   == {t1, t2}
OneRequest  == {r1}
TwoRequests == {r1, r2}

Symmetry == Permutations(Client) \cup Permutations(Code)
              \cup Permutations(Token) \cup Permutations(Request)
=============================================================================
