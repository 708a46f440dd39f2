------------------------------ MODULE OAuthGrant ------------------------------
(***************************************************************************)
(* What the authorization server promises of a grant, whatever tables it   *)
(* keeps: the right it carries is in one pair of hands.  A code carries it *)
(* first; a request takes it from a code or a token pair and hands it to a *)
(* new pair; it may be dropped at any time, and then it is gone.           *)
(***************************************************************************)
CONSTANTS Grant, Credential, Request

VARIABLES
  opened,   \* grants an admin has consented to
  holders,  \* who carries each grant
  spent     \* the credentials that were ever given out

vars == <<opened, holders, spent>>

Init ==
  /\ opened = {}
  /\ holders = [g \in Grant |-> {}]
  /\ spent = {}

Offer(g, c) ==
  /\ g \notin opened /\ c \notin spent
  /\ opened' = opened \cup {g}
  /\ holders' = [holders EXCEPT ![g] = {c}]
  /\ spent' = spent \cup {c}

Take(g, r) ==
  /\ \E c \in Credential : holders[g] = {c}
  /\ holders' = [holders EXCEPT ![g] = {r}]
  /\ UNCHANGED <<opened, spent>>

Reissue(g, c) ==
  /\ \E r \in Request : holders[g] = {r}
  /\ c \notin spent
  /\ holders' = [holders EXCEPT ![g] = {c}]
  /\ spent' = spent \cup {c}
  /\ UNCHANGED opened

Drop(G) ==
  /\ holders' = [g \in Grant |-> IF g \in G THEN {} ELSE holders[g]]
  /\ UNCHANGED <<opened, spent>>

Next ==
  \/ \E g \in Grant, c \in Credential : Offer(g, c) \/ Reissue(g, c)
  \/ \E g \in Grant, r \in Request : Take(g, r)
  \/ \E G \in SUBSET Grant : Drop(G)

Spec == Init /\ [][Next]_vars
=============================================================================
