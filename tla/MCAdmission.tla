----------------------------- MODULE MCAdmission -----------------------------
\* An instance of Admission for TLC: limits of one and two, so that bursts,
\* windows and full tables are within reach of four requests.
EXTENDS Admission, TLC

CONSTANTS n1, n2, n3, e1, e2

ThreeNets    == {n1, n2, n3}
TwoEmails    == {e1, e2}
TwoAnHour    == [k \in {"pdf", "mail"} |-> 2]

\* The groups share no table, log or slot, so one behaviour uses one of them.
Uses(G)  == \A r \in Attempt : attempt[r].op \in G \cup {"none"}
OneGroup == \E G \in {{"login"}, {"form"}, {"anon"}, Renders, {"mail"}} : Uses(G)

\* A login's hit of 0 is gone at 2 already; in the tables that cut off at the
\* window's edge it is gone at 3.
LoginsEnd == clock = MaxClock => \A r \in Attempt : attempt[r].op # "login"

\* Emails are only told apart within a network: the first it tries may be e1.
E1First == \A r \in Attempt : attempt[r].email = e2 =>
             \E q \in 1..(r - 1) : attempt[q].net = attempt[r].net /\ attempt[q].email = e1

Symmetry == Permutations(Net)
=============================================================================
