----------------------------- MODULE MCAppInstall -----------------------------
\* Instances of AppInstall for TLC.
EXTENDS AppInstall, TLC

CONSTANTS o1, s1, r1, r2

OneOrigin    == {o1}
OneService   == {s1}
TwoRequests  == {r1, r2}

Wants(O, S)  == [origins |-> O, services |-> S]
Everything   == {Wants({}, {}), Wants({o1}, {s1})}

\* While a stash waits, and after a crash, one request runs at a time; the install of
\* a confirmed stash runs beside another like any.
OneAtATime == stash # None \/ restarts > 0 => \E r \in Request : req[r] = Idle

Symmetry == Permutations(Request)
=============================================================================
