-------------------------- MODULE OAuthServerProofs --------------------------
(***************************************************************************)
(* OnePairPerGrant, DeadGrants, PendingBounded, OthersUndisturbed and the  *)
(* implementation of OAuthGrant, for any users, clients, codes, tokens and *)
(* requests and any caps.                                                  *)
(*                                                                         *)
(* OnePairPerGrant is not inductive: it says nothing of the requests that  *)
(* are about to issue a pair.  IInv adds that the coroutines exclude one   *)
(* another, that a code which is still there carries its grant alone, and  *)
(* that a request which took a grant is the only one to carry it.          *)
(***************************************************************************)
EXTENDS OAuthServer, FiniteSetTheorems, TLAPS

InLoop(r)  == req[r].op \in {"exchange", "refresh"}
Issuing(r) == req[r].pc = "issuing"

\* What a request in flight knows: it names a client, a user, a code, a token.
Requests ==
  \A r \in Request :
    /\ req[r].op = "none" => req[r] = Idle
    /\ req[r].op = "consent" => /\ req[r].client \in Client /\ req[r].user \in User
                                /\ req[r].pc = "approving"
                                /\ client[req[r].client] # "absent"
    /\ InLoop(r) => req[r].code \in Code /\ req[r].pc \in {"claiming", "issuing"}
    /\ req[r].op = "exchange" => code[req[r].code].status # "unused"
    /\ req[r].op = "refresh" => /\ req[r].token \in Token
                                /\ token[req[r].token].status # "unused"
                                /\ token[req[r].token].code = req[r].code
                                /\ code[req[r].code].status = "claimed"
    /\ Issuing(r) => InLoop(r) /\ code[req[r].code].status = "claimed"

\* The coroutines of the provider run one after the other.
OneInLoop == \A r, s \in Request : InLoop(r) /\ InLoop(s) => r = s

\* What a row of the codes' table and of the tokens' table refers to.
Codes ==
  \A k \in Code :
    /\ code[k].status = "unused" => code[k] = NoCode
    /\ code[k].status # "unused" => /\ code[k].client \in Client /\ code[k].user \in User
                                   /\ client[code[k].client] # "absent"
Tokens ==
  \A t \in Token : token[t].status # "unused" =>
    token[t].code \in Code /\ code[token[t].code].status = "claimed"

\* A request that took a grant leaves no live pair of it.
TakenAlone ==
  \A r \in Request, t \in Token :
    Issuing(r) /\ IsLive(t) => token[t].code # req[r].code

\* Nobody carries a grant that was ended, nor can: its code, where it is left, is
\* of a client that is gone, and no exchange of that client was let in before.
Over ==
  \A k \in ended :
    /\ code[k].status # "unused"
    /\ \A r \in Request : Issuing(r) => req[r].code # k
    /\ code[k].status = "live" => /\ client[code[k].client] # "registered"
                                 /\ \A r \in Request : req[r].op = "exchange" => req[r].code # k

\* Parked requests are numbered in order, by clients that registered.
Parked ==
  /\ IsFiniteSet(pending)
  /\ \A p \in pending : p.txn <= parked /\ client[p.client] # "absent"
  /\ \A p, q \in pending : p.txn = q.txn => p = q

IInv == /\ TypeOK /\ Requests /\ OneInLoop /\ Codes /\ Tokens /\ TakenAlone /\ Over /\ Parked
        /\ OnePairPerGrant /\ DeadGrants /\ PendingBounded
-----------------------------------------------------------------------------
USE NoneAssumption, CapAssumption, BoundAssumption

\* Making room only takes requests away.
LEMMA RoomSubset == ASSUME NEW P, NEW S, NEW cap PROVE MakeRoom(P, S, cap) \subseteq P
  BY DEF MakeRoom

\* Marking rows keeps them rows, and changes nothing but their status.
LEMMA MarkedTokens ==
  ASSUME token \in [Token -> TokenRow], NEW T,
         NEW status \in {"revoked", "deleted"}, SetToken(T, status)
  PROVE  /\ token' \in [Token -> TokenRow]
         /\ \A t \in Token : /\ token'[t].status = IF t \in T THEN status ELSE token[t].status
                             /\ token'[t].code = token[t].code
  BY DEF SetToken, TokenRow

LEMMA MarkedCodes ==
  ASSUME code \in [Code -> CodeRow], NEW K,
         NEW status \in {"claimed", "deleted"}, SetCode(K, status)
  PROVE  /\ code' \in [Code -> CodeRow]
         /\ \A k \in Code : /\ code'[k].status = IF k \in K THEN status ELSE code[k].status
                            /\ code'[k].client = code[k].client
                            /\ code'[k].user = code[k].user
                            /\ k \notin K => code'[k] = code[k]
  BY DEF SetCode, CodeRow

LEMMA IdleTyped == Idle \in RequestState
  BY DEF Idle, RequestState

\* init_db keeps the rows within their types.
LEMMA PrunedTyped ==
  ASSUME TypeOK, InitDb
  PROVE  /\ client' \in [Client -> {"absent", "registered", "removed"}]
         /\ pending' \in SUBSET Pending
         /\ code' \in [Code -> CodeRow]
         /\ token' \in [Token -> TokenRow]
         /\ ended' \in SUBSET Code
  BY MarkedTokens, MarkedCodes DEF TypeOK, InitDb, Prune, Unexpired

\* What init_db does to the tables, for steps that do more.
LEMMA Pruned ==
  ASSUME TypeOK, InitDb
  PROVE  /\ pending' \subseteq pending
         /\ \A k \in Code :
              /\ code'[k].status \in {code[k].status, "deleted"}
              /\ code[k].status # "live" => code'[k] = code[k]
              /\ code[k].status = "unused" <=> code'[k].status = "unused"
              /\ code'[k].client = code[k].client /\ code'[k].user = code[k].user
         /\ \A t \in Token :
              /\ token'[t].code = token[t].code
              /\ token'[t].status = "live" => token[t].status = "live"
              /\ token'[t].status = "unused" <=> token[t].status = "unused"
         /\ \A c \in Client : /\ client[c] # "absent" => client'[c] # "absent"
                              /\ client[c] # "registered" => client'[c] = client[c]
         /\ \A k \in ended' \ ended :
              /\ k \in Code /\ k \notin LetIn'
              /\ code[k].client \in Client /\ client'[code[k].client] = "removed"
              /\ \A t \in Token : IsLive(t)' => token[t].code # k
<1> USE DEF TypeOK, IsLive, TokenOf
<1>1. PICK K \in SUBSET {k \in Code : code[k].status = "live"},
           T \in SUBSET {t \in Token : token[t].status \in {"live", "revoked"}},
           C \in SUBSET {c \in Client : client[c] = "registered"} : Prune(K, T, C)
  BY DEF InitDb
<1>2. \A k \in Code : /\ code'[k].status = IF k \in K THEN "deleted" ELSE code[k].status
                      /\ k \notin K => code'[k] = code[k]
                      /\ code'[k].client = code[k].client /\ code'[k].user = code[k].user
  BY <1>1, MarkedCodes DEF Prune
<1>3. \A t \in Token : /\ token'[t].status = IF t \in T THEN "deleted" ELSE token[t].status
                       /\ token'[t].code = token[t].code
  BY <1>1, MarkedTokens DEF Prune
<1>4. pending' \subseteq pending
  BY <1>1 DEF Prune, Unexpired
<1>5. \A c \in Client : client'[c] # client[c] => client[c] = "registered" /\ client'[c] = "removed"
  BY <1>1 DEF Prune
<1>6. ASSUME NEW k \in ended' \ ended
      PROVE  /\ k \in Code /\ k \notin LetIn'
             /\ code[k].client \in Client /\ client'[code[k].client] = "removed"
             /\ \A t \in Token : IsLive(t)' => token[t].code # k
  <2> DEFINE kept == {t \in Token \ T : token[t].status \in {"live", "revoked"}}
             gone == C \ {TokenOf(t).client : t \in kept}
  <2>1. k \in Code /\ code[k].client \in gone /\ k \notin LetIn'
    BY <1>1, <1>6 DEF Prune
  <2>2. client'[code[k].client] = "removed"
    BY <1>1, <2>1 DEF Prune
  <2>3. ASSUME NEW t \in Token, IsLive(t)' PROVE token[t].code # k
    <3>1. t \in kept
      BY <1>3, <2>3
    <3> QED
      BY <2>1, <3>1
  <2> QED
    BY <2>1, <2>2, <2>3
<1> QED
  BY <1>2, <1>3, <1>4, <1>5, <1>6

\* Every step keeps each variable within its type.
LEMMA TypeStep == TypeOK /\ [Next]_vars => TypeOK'
<1> SUFFICES ASSUME TypeOK, [Next]_vars PROVE TypeOK'
  OBVIOUS
<1> USE IdleTyped DEF TypeOK, Pending, Accept, Finish, IsLive, TokenOf
<1>1. ASSUME NEW c \in Client, RegisterClient(c) PROVE TypeOK'
  BY <1>1 DEF RegisterClient
<1>2. ASSUME NEW c \in Client, CreateClient(c) PROVE TypeOK'
  BY <1>2 DEF CreateClient, RegisterClient
<1>3. ASSUME NEW c \in Client, Authorize(c) PROVE TypeOK'
  <2> DEFINE room == MakeRoom(Unexpired, OfClient(Unexpired, c), MaxPendingPerClient)
             new  == [txn |-> parked + 1, client |-> c]
  <2>1. pending' = MakeRoom(room, room, MaxLivePending) \cup {new}
    BY <1>3 DEF Authorize
  <2>2. MakeRoom(room, room, MaxLivePending) \subseteq pending
    BY RoomSubset DEF Unexpired
  <2>3. new \in Pending
    BY <1>3 DEF Authorize
  <2> QED
    BY <1>3, <2>1, <2>2, <2>3 DEF Authorize
<1>4. ASSUME NEW c \in Client, DeleteClient(c) PROVE TypeOK'
  <2>1. token' \in [Token -> TokenRow]
    BY <1>4, MarkedTokens DEF DeleteClient
  <2> QED
    BY <1>4, <2>1 DEF DeleteClient
<1>5. ASSUME NEW r \in Request, BeginConsent(r) PROVE TypeOK'
  <2>1. PICK u \in User, p \in Unexpired :
          Accept(r, [Idle EXCEPT !.op = "consent", !.pc = "approving", !.txn = p.txn,
                                 !.client = p.client, !.user = u])
    BY <1>5 DEF BeginConsent
  <2>2. p.txn \in 0..MaxAuthorizations /\ p.client \in Client
    BY DEF Unexpired
  <2>3. [Idle EXCEPT !.op = "consent", !.pc = "approving", !.txn = p.txn,
                     !.client = p.client, !.user = u] \in RequestState
    BY <2>2 DEF RequestState
  <2> QED
    BY <1>5, <2>1, <2>3 DEF BeginConsent
<1>6. ASSUME NEW r \in Request, Approve(r) PROVE TypeOK'
  BY <1>6 DEF Approve, Unpark, CodeRow, RequestState
<1>7. ASSUME NEW r \in Request, Deny(r) PROVE TypeOK'
  BY <1>7 DEF Deny, Unpark
<1>8. ASSUME NEW r \in Request, BeginExchange(r) PROVE TypeOK'
  <2>1. PICK k \in Code :
          Accept(r, [Idle EXCEPT !.op = "exchange", !.pc = "claiming", !.code = k])
    BY <1>8 DEF BeginExchange
  <2>2. [Idle EXCEPT !.op = "exchange", !.pc = "claiming", !.code = k] \in RequestState
    BY DEF RequestState
  <2> QED
    BY <1>8, <2>1, <2>2 DEF BeginExchange
<1>9. ASSUME NEW r \in Request, ClaimCode(r) PROVE TypeOK'
  <2>1. [req[r] EXCEPT !.pc = "issuing"] \in RequestState
    BY DEF RequestState
  <2>2. code' \in [Code -> CodeRow]
    BY <1>9, MarkedCodes DEF ClaimCode
  <2>3. req' \in [Request -> RequestState]
    BY <1>9, <2>1 DEF ClaimCode
  <2> QED
    BY <1>9, <2>2, <2>3 DEF ClaimCode
<1>10. ASSUME NEW r \in Request, BeginRefresh(r) PROVE TypeOK'
  <2>1. PICK t \in Token :
          Accept(r, [Idle EXCEPT !.op = "refresh", !.pc = "claiming",
                                 !.code = token[t].code, !.token = t])
    BY <1>10 DEF BeginRefresh
  <2>2. token[t].code \in Code \cup {None}
    BY DEF TokenRow
  <2> QED
    BY <1>10, <2>1, <2>2 DEF BeginRefresh, RequestState
<1>11. ASSUME NEW r \in Request, ClaimRefresh(r) PROVE TypeOK'
  <2>1. req' \in [Request -> RequestState]
    BY <1>11 DEF ClaimRefresh, RequestState
  <2>2. token' \in [Token -> TokenRow]
    BY <1>11, MarkedTokens DEF ClaimRefresh
  <2> QED
    BY <1>11, <2>1, <2>2 DEF ClaimRefresh
<1>12. ASSUME NEW r \in Request, Issue(r) PROVE TypeOK'
  <2>1. token' \in [Token -> TokenRow]
    BY <1>12 DEF Issue, TokenRow, RequestState
  <2> QED
    BY <1>12, <2>1 DEF Issue
<1>13. ASSUME NEW t \in Token, RevokeToken(t) PROVE TypeOK'
  <2>1. token' \in [Token -> TokenRow]
    BY <1>13, MarkedTokens DEF RevokeToken
  <2> QED
    BY <1>13, <2>1 DEF RevokeToken
<1>14. ASSUME NEW u \in User, SignOut(u) PROVE TypeOK'
  <2>1. token' \in [Token -> TokenRow]
    BY <1>14, MarkedTokens DEF SignOut
  <2>2. code' \in [Code -> CodeRow]
    BY <1>14, MarkedCodes DEF SignOut
  <2> QED
    BY <1>14, <2>1, <2>2 DEF SignOut
<1>15. CASE Expire
  BY <1>15 DEF Expire
<1>16. CASE Restart
  <2>1. req' \in [Request -> RequestState]
    BY <1>16 DEF Restart
  <2> QED
    BY <1>16, <2>1, PrunedTyped DEF Restart
<1>17. CASE RunCli
  BY <1>17, PrunedTyped DEF RunCli
<1>18. CASE UNCHANGED vars
  BY <1>18 DEF vars
<1> QED
  BY <1>1, <1>2, <1>3, <1>4, <1>5, <1>6, <1>7, <1>8, <1>9, <1>10, <1>11, <1>12, <1>13, <1>14, <1>15, <1>16, <1>17, <1>18 DEF Next
-----------------------------------------------------------------------------
\* No two coroutines are in flight at a time.
LEMMA LoopStep == TypeOK /\ Requests /\ OneInLoop /\ [Next]_vars => OneInLoop'
<1> SUFFICES ASSUME TypeOK, Requests, OneInLoop, [Next]_vars PROVE OneInLoop'
  OBVIOUS
<1> USE DEF TypeOK, RequestState, OneInLoop, Requests, InLoop, LoopFree, Idle, Accept, Finish
<1>1. ASSUME NEW c \in Client, RegisterClient(c) PROVE OneInLoop'
  BY <1>1 DEF RegisterClient
<1>2. ASSUME NEW c \in Client, CreateClient(c) PROVE OneInLoop'
  BY <1>2 DEF CreateClient, RegisterClient
<1>3. ASSUME NEW c \in Client, Authorize(c) PROVE OneInLoop'
  BY <1>3 DEF Authorize
<1>4. ASSUME NEW c \in Client, DeleteClient(c) PROVE OneInLoop'
  BY <1>4 DEF DeleteClient
<1>5. ASSUME NEW r \in Request, BeginConsent(r) PROVE OneInLoop'
  BY <1>5 DEF BeginConsent
<1>6. ASSUME NEW r \in Request, Approve(r) PROVE OneInLoop'
  BY <1>6 DEF Approve, Unpark
<1>7. ASSUME NEW r \in Request, Deny(r) PROVE OneInLoop'
  BY <1>7 DEF Deny, Unpark
<1>8. ASSUME NEW r \in Request, BeginExchange(r) PROVE OneInLoop'
  BY <1>8 DEF BeginExchange
<1>9. ASSUME NEW r \in Request, ClaimCode(r) PROVE OneInLoop'
  BY <1>9 DEF ClaimCode
<1>10. ASSUME NEW r \in Request, BeginRefresh(r) PROVE OneInLoop'
  BY <1>10 DEF BeginRefresh
<1>11. ASSUME NEW r \in Request, ClaimRefresh(r) PROVE OneInLoop'
  BY <1>11 DEF ClaimRefresh
<1>12. ASSUME NEW r \in Request, Issue(r) PROVE OneInLoop'
  BY <1>12 DEF Issue
<1>13. ASSUME NEW t \in Token, RevokeToken(t) PROVE OneInLoop'
  BY <1>13 DEF RevokeToken
<1>14. ASSUME NEW u \in User, SignOut(u) PROVE OneInLoop'
  BY <1>14 DEF SignOut
<1>15. CASE Expire
  BY <1>15 DEF Expire
<1>16. CASE Restart
  BY <1>16 DEF Restart
<1>17. CASE RunCli
  BY <1>17 DEF RunCli
<1>18. CASE UNCHANGED vars
  BY <1>18 DEF vars
<1> QED
  BY <1>1, <1>2, <1>3, <1>4, <1>5, <1>6, <1>7, <1>8, <1>9, <1>10, <1>11, <1>12, <1>13, <1>14, <1>15, <1>16, <1>17, <1>18 DEF Next
-----------------------------------------------------------------------------
\* What requests and rows refer to stays there.
LEMMA ReferenceStep ==
  TypeOK /\ Parked /\ Requests /\ Codes /\ Tokens /\ [Next]_vars => Requests' /\ Codes' /\ Tokens'
<1> SUFFICES ASSUME TypeOK, Parked, Requests, Codes, Tokens, [Next]_vars
             PROVE  Requests' /\ Codes' /\ Tokens'
  OBVIOUS
<1> USE DEF TypeOK, RequestState, Requests, Codes, Tokens, InLoop, Issuing, Idle, Accept, Finish
<1>1. ASSUME NEW c \in Client, RegisterClient(c) PROVE Requests' /\ Codes' /\ Tokens'
  BY <1>1 DEF RegisterClient
<1>2. ASSUME NEW c \in Client, CreateClient(c) PROVE Requests' /\ Codes' /\ Tokens'
  BY <1>2 DEF CreateClient, RegisterClient
<1>3. ASSUME NEW c \in Client, Authorize(c) PROVE Requests' /\ Codes' /\ Tokens'
  BY <1>3 DEF Authorize
<1>4. ASSUME NEW c \in Client, DeleteClient(c) PROVE Requests' /\ Codes' /\ Tokens'
  <2>1. \A t \in Token : /\ token'[t].code = token[t].code
                         /\ token'[t].status = "unused" <=> token[t].status = "unused"
    BY <1>4, MarkedTokens DEF DeleteClient
  <2> QED
    BY <1>4, <2>1 DEF DeleteClient
<1>5. ASSUME NEW r \in Request, BeginConsent(r) PROVE Requests' /\ Codes' /\ Tokens'
  <2>1. PICK u \in User, p \in Unexpired :
          Accept(r, [Idle EXCEPT !.op = "consent", !.pc = "approving", !.txn = p.txn,
                                 !.client = p.client, !.user = u])
    BY <1>5 DEF BeginConsent
  <2>2. p.client \in Client /\ client[p.client] # "absent"
    BY DEF Unexpired, Parked, Pending
  <2>3. /\ req'[r].op = "consent" /\ req'[r].pc = "approving"
        /\ req'[r].client = p.client /\ req'[r].user = u
    BY <2>1
  <2>4. \A s \in Request : s # r => req'[s] = req[s]
    BY <2>1
  <2> QED
    BY <1>5, <2>2, <2>3, <2>4 DEF BeginConsent
<1>6. ASSUME NEW r \in Request, Approve(r) PROVE Requests' /\ Codes' /\ Tokens'
  BY <1>6 DEF Approve, Unpark
<1>7. ASSUME NEW r \in Request, Deny(r) PROVE Requests' /\ Codes' /\ Tokens'
  BY <1>7 DEF Deny, Unpark
<1>8. ASSUME NEW r \in Request, BeginExchange(r) PROVE Requests' /\ Codes' /\ Tokens'
  BY <1>8 DEF BeginExchange
<1>9. ASSUME NEW r \in Request, ClaimCode(r) PROVE Requests' /\ Codes' /\ Tokens'
  <2>1. CASE code[req[r].code].status = "live"
    <3>1. \A k \in Code :
            /\ code'[k].status = IF k = req[r].code THEN "claimed" ELSE code[k].status
            /\ code'[k].client = code[k].client /\ code'[k].user = code[k].user
            /\ k # req[r].code => code'[k] = code[k]
      BY <1>9, <2>1, MarkedCodes DEF ClaimCode
    <3>2. Codes' /\ Tokens'
      BY <1>9, <3>1 DEF ClaimCode
    <3>3. Requests'
      BY <1>9, <2>1, <3>1 DEF ClaimCode
    <3> QED
      BY <3>2, <3>3
  <2>2. CASE code[req[r].code].status # "live"
    BY <1>9, <2>2 DEF ClaimCode
  <2> QED
    BY <2>1, <2>2
<1>10. ASSUME NEW r \in Request, BeginRefresh(r) PROVE Requests' /\ Codes' /\ Tokens'
  <2>1. PICK t \in Token :
          /\ IsLive(t)
          /\ Accept(r, [Idle EXCEPT !.op = "refresh", !.pc = "claiming",
                                    !.code = token[t].code, !.token = t])
    BY <1>10 DEF BeginRefresh
  <2>2. /\ req'[r].op = "refresh" /\ req'[r].pc = "claiming"
        /\ req'[r].code = token[t].code /\ req'[r].token = t
    BY <2>1
  <2>3. \A s \in Request : s # r => req'[s] = req[s]
    BY <2>1
  <2> QED
    BY <1>10, <2>1, <2>2, <2>3 DEF BeginRefresh, IsLive
<1>11. ASSUME NEW r \in Request, ClaimRefresh(r) PROVE Requests' /\ Codes' /\ Tokens'
  <2>1. CASE IsLive(req[r].token)
    <3>1. \A t \in Token : /\ token'[t].code = token[t].code
                           /\ token'[t].status = "unused" <=> token[t].status = "unused"
      BY <1>11, <2>1, MarkedTokens DEF ClaimRefresh, IsLive
    <3>2. /\ req' = [req EXCEPT ![r].pc = "issuing"] /\ UNCHANGED <<client, code>>
          /\ req[r].op = "refresh"
      BY <1>11, <2>1 DEF ClaimRefresh
    <3>3. Requests'
      BY <3>1, <3>2
    <3> QED
      BY <3>1, <3>2, <3>3
  <2>2. CASE ~IsLive(req[r].token)
    BY <1>11, <2>2 DEF ClaimRefresh
  <2> QED
    BY <2>1, <2>2
<1>12. ASSUME NEW r \in Request, Issue(r) PROVE Requests' /\ Codes' /\ Tokens'
  BY <1>12 DEF Issue
<1>13. ASSUME NEW t \in Token, RevokeToken(t) PROVE Requests' /\ Codes' /\ Tokens'
  <2>1. \A s \in Token : /\ token'[s].code = token[s].code
                         /\ token'[s].status = "unused" <=> token[s].status = "unused"
    BY <1>13, MarkedTokens DEF RevokeToken, IsLive
  <2> QED
    BY <1>13, <2>1 DEF RevokeToken
<1>14. ASSUME NEW u \in User, SignOut(u) PROVE Requests' /\ Codes' /\ Tokens'
  <2>1. \A t \in Token : /\ token'[t].code = token[t].code
                         /\ token'[t].status = "unused" <=> token[t].status = "unused"
    BY <1>14, MarkedTokens DEF SignOut
  <2>2. \A k \in Code :
          /\ code'[k].status \in {code[k].status, "deleted"}
          /\ code[k].status # "live" => code'[k] = code[k]
          /\ code[k].status = "unused" <=> code'[k].status = "unused"
          /\ code'[k].client = code[k].client /\ code'[k].user = code[k].user
    BY <1>14, MarkedCodes DEF SignOut
  <2>3. UNCHANGED <<client, req>>
    BY <1>14 DEF SignOut
  <2>4. Codes' /\ Tokens'
    BY <2>1, <2>2, <2>3
  <2>5. Requests'
    BY <2>1, <2>2, <2>3
  <2> QED
    BY <2>4, <2>5
<1>15. CASE Expire
  BY <1>15 DEF Expire
<1>16. CASE Restart
  <2>1. \A r \in Request : req'[r] = Idle
    BY <1>16 DEF Restart
  <2>2. Codes' /\ Tokens'
    BY <1>16, Pruned DEF Restart
  <2>3. Requests'
    BY <2>1
  <2> QED
    BY <2>2, <2>3
<1>17. CASE RunCli
  <2>1. UNCHANGED req
    BY <1>17 DEF RunCli
  <2>2. Codes' /\ Tokens'
    BY <1>17, Pruned DEF RunCli
  <2>3. Requests'
    BY <1>17, <2>1, Pruned DEF RunCli
  <2> QED
    BY <2>2, <2>3
<1>18. CASE UNCHANGED vars
  BY <1>18 DEF vars
<1> QED
  BY <1>1, <1>2, <1>3, <1>4, <1>5, <1>6, <1>7, <1>8, <1>9, <1>10, <1>11, <1>12, <1>13, <1>14, <1>15, <1>16, <1>17, <1>18 DEF Next
-----------------------------------------------------------------------------
\* A grant is in one pair of hands: the code's, a request's, a live pair's.
LEMMA HolderStep ==
  TypeOK /\ Requests /\ OneInLoop /\ Codes /\ Tokens /\ TakenAlone /\ OnePairPerGrant /\ [Next]_vars
  => TakenAlone' /\ OnePairPerGrant'
<1> SUFFICES ASSUME TypeOK, Requests, OneInLoop, Codes, Tokens, TakenAlone, OnePairPerGrant,
                    [Next]_vars
             PROVE  TakenAlone' /\ OnePairPerGrant'
  OBVIOUS
<1> USE DEF TypeOK, RequestState, Requests, OneInLoop, Codes, Tokens, TakenAlone, OnePairPerGrant,
            InLoop, Issuing, IsLive, Idle, Accept, Finish
<1>1. ASSUME NEW c \in Client, RegisterClient(c) PROVE TakenAlone' /\ OnePairPerGrant'
  BY <1>1 DEF RegisterClient
<1>2. ASSUME NEW c \in Client, CreateClient(c) PROVE TakenAlone' /\ OnePairPerGrant'
  BY <1>2 DEF CreateClient, RegisterClient
<1>3. ASSUME NEW c \in Client, Authorize(c) PROVE TakenAlone' /\ OnePairPerGrant'
  BY <1>3 DEF Authorize
<1>4. ASSUME NEW c \in Client, DeleteClient(c) PROVE TakenAlone' /\ OnePairPerGrant'
  <2>1. \A s \in Token : /\ token'[s].code = token[s].code
                         /\ token'[s].status = "live" => token[s].status = "live"
    BY <1>4, MarkedTokens DEF DeleteClient
  <2> QED
    BY <1>4, <2>1 DEF DeleteClient
<1>5. ASSUME NEW r \in Request, BeginConsent(r) PROVE TakenAlone' /\ OnePairPerGrant'
  BY <1>5 DEF BeginConsent
<1>6. ASSUME NEW r \in Request, Approve(r) PROVE TakenAlone' /\ OnePairPerGrant'
  BY <1>6 DEF Approve, Unpark
<1>7. ASSUME NEW r \in Request, Deny(r) PROVE TakenAlone' /\ OnePairPerGrant'
  BY <1>7 DEF Deny, Unpark
<1>8. ASSUME NEW r \in Request, BeginExchange(r) PROVE TakenAlone' /\ OnePairPerGrant'
  BY <1>8 DEF BeginExchange
<1>9. ASSUME NEW r \in Request, ClaimCode(r) PROVE TakenAlone' /\ OnePairPerGrant'
  <2>1. CASE code[req[r].code].status = "live"
    BY <1>9, <2>1 DEF ClaimCode
  <2>2. CASE code[req[r].code].status # "live"
    BY <1>9, <2>2 DEF ClaimCode
  <2> QED
    BY <2>1, <2>2
<1>10. ASSUME NEW r \in Request, BeginRefresh(r) PROVE TakenAlone' /\ OnePairPerGrant'
  BY <1>10 DEF BeginRefresh
<1>11. ASSUME NEW r \in Request, ClaimRefresh(r) PROVE TakenAlone' /\ OnePairPerGrant'
  <2>1. CASE IsLive(req[r].token)
    <3>1. \A s \in Token : /\ token'[s].code = token[s].code
                           /\ token'[s].status = "live" =>
                                token[s].status = "live" /\ s # req[r].token
      BY <1>11, <2>1, MarkedTokens DEF ClaimRefresh
    <3>2. /\ req' = [req EXCEPT ![r].pc = "issuing"] /\ req[r].op = "refresh"
      BY <1>11, <2>1 DEF ClaimRefresh
    <3>3. OnePairPerGrant'
      BY <3>1
    <3>4. TakenAlone'
      BY <2>1, <3>1, <3>2
    <3> QED
      BY <3>3, <3>4
  <2>2. CASE ~IsLive(req[r].token)
    BY <1>11, <2>2 DEF ClaimRefresh
  <2> QED
    BY <2>1, <2>2
<1>12. ASSUME NEW r \in Request, Issue(r) PROVE TakenAlone' /\ OnePairPerGrant'
  BY <1>12 DEF Issue
<1>13. ASSUME NEW t \in Token, RevokeToken(t) PROVE TakenAlone' /\ OnePairPerGrant'
  <2>1. \A s \in Token : /\ token'[s].code = token[s].code
                         /\ token'[s].status = "live" => token[s].status = "live"
    BY <1>13, MarkedTokens DEF RevokeToken
  <2> QED
    BY <1>13, <2>1 DEF RevokeToken
<1>14. ASSUME NEW u \in User, SignOut(u) PROVE TakenAlone' /\ OnePairPerGrant'
  <2>1. \A s \in Token : /\ token'[s].code = token[s].code
                         /\ token'[s].status = "live" => token[s].status = "live"
    BY <1>14, MarkedTokens DEF SignOut
  <2> QED
    BY <1>14, <2>1 DEF SignOut
<1>15. CASE Expire
  BY <1>15 DEF Expire
<1>16. CASE Restart
  BY <1>16, Pruned DEF Restart
<1>17. CASE RunCli
  BY <1>17, Pruned DEF RunCli
<1>18. CASE UNCHANGED vars
  BY <1>18 DEF vars
<1> QED
  BY <1>1, <1>2, <1>3, <1>4, <1>5, <1>6, <1>7, <1>8, <1>9, <1>10, <1>11, <1>12, <1>13, <1>14, <1>15, <1>16, <1>17, <1>18 DEF Next
-----------------------------------------------------------------------------
\* init_db, at a start or beside the portal, leaves ended grants ended.
LEMMA PrunedOver ==
  ASSUME TypeOK, Codes, Over, DeadGrants, InitDb, \A r \in Request : req'[r] \in {Idle, req[r]}
  PROVE  Over' /\ DeadGrants'
<1> USE DEF Over, DeadGrants, Issuing, IsLive, TypeOK
<1>1. /\ \A k \in Code : /\ code'[k].status \in {code[k].status, "deleted"}
                         /\ code[k].status = "unused" <=> code'[k].status = "unused"
                         /\ code'[k].client = code[k].client
      /\ \A t \in Token : token'[t].code = token[t].code /\ (IsLive(t)' => IsLive(t))
      /\ \A c \in Client : client[c] # "registered" => client'[c] # "registered"
  BY Pruned
<1>2. ASSUME NEW k \in ended' \ ended
      PROVE  /\ k \in Code /\ code[k].status # "unused" /\ client'[code[k].client] = "removed"
             /\ \A t \in Token : IsLive(t)' => token[t].code # k
             /\ \A r \in Request : (Issuing(r) \/ req[r].op = "exchange")' => req'[r].code # k
  <2>1. /\ k \in Code /\ k \notin LetIn'
        /\ code[k].client \in Client /\ client'[code[k].client] = "removed"
        /\ \A t \in Token : IsLive(t)' => token[t].code # k
    BY <1>2, Pruned
  <2>2. code[k].status # "unused"
    BY <2>1, NoneAssumption DEF Codes, NoCode
  <2>3. \A r \in Request : (Issuing(r) \/ req[r].op = "exchange")' => req'[r].code # k
    BY <2>1 DEF LetIn, Claimed
  <2> QED
    BY <2>1, <2>2, <2>3
<1>3. DeadGrants'
  BY <1>1, <1>2
<1>4. ASSUME NEW k \in ended, NEW r \in Request
      PROVE  /\ Issuing(r)' => req'[r].code # k
             /\ code[k].status = "live" /\ req'[r].op = "exchange" => req'[r].code # k
  BY DEF Idle
<1>5. ASSUME NEW k \in ended, code'[k].status = "live"
      PROVE  code[k].status = "live" /\ client'[code'[k].client] # "registered"
  <2>1. code[k].status = "live" /\ k \in Code /\ code'[k].client = code[k].client
    BY <1>1, <1>5
  <2>2. code[k].client \in Client
    BY <2>1 DEF Codes
  <2> QED
    BY <1>1, <2>1, <2>2
<1>6. Over'
  <2>1. \A k \in ended' : code'[k].status # "unused"
    BY <1>1, <1>2
  <2>2. \A k \in ended', r \in Request : Issuing(r)' => req'[r].code # k
    BY <1>2, <1>4
  <2>3. ASSUME NEW k \in ended', code'[k].status = "live"
        PROVE  /\ client'[code'[k].client] # "registered"
               /\ \A r \in Request : req'[r].op = "exchange" => req'[r].code # k
    <3>1. CASE k \in ended
      BY <1>4, <1>5, <2>3, <3>1
    <3>2. CASE k \notin ended
      BY <1>1, <1>2, <3>2
    <3> QED
      BY <3>1, <3>2
  <2> QED
    BY <2>1, <2>2, <2>3
<1> QED
  BY <1>3, <1>6

\* A grant that was ended has no live pair, and gets none.
LEMMA DeadStep ==
  TypeOK /\ Requests /\ Codes /\ Tokens /\ OneInLoop /\ Over /\ DeadGrants /\ [Next]_vars
  => Over' /\ DeadGrants'
<1> SUFFICES ASSUME TypeOK, Requests, Codes, Tokens, OneInLoop, Over, DeadGrants, [Next]_vars
             PROVE  Over' /\ DeadGrants'
  OBVIOUS
<1> USE DEF TypeOK, RequestState, Requests, Codes, Tokens, Over, DeadGrants, InLoop, Issuing, IsLive,
            TokenOf, Idle, Accept, Finish
<1>1. ASSUME NEW c \in Client, RegisterClient(c) PROVE Over' /\ DeadGrants'
  BY <1>1 DEF RegisterClient
<1>2. ASSUME NEW c \in Client, CreateClient(c) PROVE Over' /\ DeadGrants'
  BY <1>2 DEF CreateClient, RegisterClient
<1>3. ASSUME NEW c \in Client, Authorize(c) PROVE Over' /\ DeadGrants'
  BY <1>3 DEF Authorize
<1>4. ASSUME NEW c \in Client, DeleteClient(c) PROVE Over' /\ DeadGrants'
  <2>1. \A s \in Token : /\ token'[s].code = token[s].code
                         /\ IsLive(s)' => IsLive(s) /\ code[token[s].code].client # c
    BY <1>4, MarkedTokens DEF DeleteClient
  <2>2. UNCHANGED <<code, req>> /\ client' = [client EXCEPT ![c] = "removed"]
    BY <1>4 DEF DeleteClient
  <2>3. \A k \in ended' : k \in ended \/ (k \in Code /\ code[k].client = c /\ k \notin LetIn)
    BY <1>4 DEF DeleteClient
  <2>4. ASSUME NEW k \in Code, k \notin LetIn, NEW r \in Request
        PROVE  /\ Issuing(r) => req[r].code # k
               /\ req[r].op = "exchange" => req[r].code # k
    BY <2>4 DEF LetIn, Claimed
  <2>5. \A k \in Code : code[k].client = c => code[k].status # "unused"
    BY NoneAssumption DEF NoCode
  <2>6. DeadGrants'
    BY <2>1, <2>3
  <2>7. Over'
    BY <2>2, <2>3, <2>4, <2>5
  <2> QED
    BY <2>6, <2>7
<1>5. ASSUME NEW r \in Request, BeginConsent(r) PROVE Over' /\ DeadGrants'
  BY <1>5 DEF BeginConsent
<1>6. ASSUME NEW r \in Request, Approve(r) PROVE Over' /\ DeadGrants'
  <2>1. PICK k \in Code :
          /\ code[k].status = "unused"
          /\ code' = [code EXCEPT ![k] = [status |-> "live", client |-> req[r].client,
                                          user |-> req[r].user]]
          /\ ended' = IF client[req[r].client] = "registered" THEN ended ELSE ended \cup {k}
    BY <1>6 DEF Approve
  <2>2. /\ req' = [req EXCEPT ![r] = Idle] /\ UNCHANGED <<client, token>>
    BY <1>6 DEF Approve
  <2>3. k \notin ended /\ \A l \in Code : l # k => code'[l] = code[l]
    BY <2>1
  <2>4. \A t \in Token : IsLive(t) => token[t].code # k
    BY <2>1
  <2>5. \A s \in Request : /\ Issuing(s)' => Issuing(s) /\ req'[s].code = req[s].code
                           /\ req'[s].op = "exchange" => req'[s] = req[s]
    BY <2>2
  <2>6. \A s \in Request : Issuing(s) \/ req[s].op = "exchange" => req[s].code # k
    BY <2>1
  <2>7. DeadGrants'
    BY <2>1, <2>2, <2>4
  <2>8. Over'
    <3> SUFFICES ASSUME NEW l \in ended'
                 PROVE  /\ code'[l].status # "unused"
                        /\ \A s \in Request : Issuing(s)' => req'[s].code # l
                        /\ code'[l].status = "live" =>
                             /\ client'[code'[l].client] # "registered"
                             /\ \A s \in Request : req'[s].op = "exchange" => req'[s].code # l
      OBVIOUS
    <3>1. CASE l \in ended
      <4>1. l \in Code /\ code'[l] = code[l] /\ client' = client
        BY <2>2, <2>3, <3>1
      <4> QED
        BY <2>5, <3>1, <4>1
    <3>2. CASE l \notin ended
      <4>1. l = k /\ client[req[r].client] # "registered"
        BY <2>1, <3>2
      <4>2. code'[l].status = "live" /\ code'[l].client = req[r].client /\ client' = client
        BY <2>1, <2>2, <4>1
      <4> QED
        BY <2>5, <2>6, <4>1, <4>2
    <3> QED
      BY <3>1, <3>2
  <2> QED
    BY <2>7, <2>8
<1>7. ASSUME NEW r \in Request, Deny(r) PROVE Over' /\ DeadGrants'
  BY <1>7 DEF Deny, Unpark
<1>8. ASSUME NEW r \in Request, BeginExchange(r) PROVE Over' /\ DeadGrants'
  BY <1>8 DEF BeginExchange
<1>9. ASSUME NEW r \in Request, ClaimCode(r) PROVE Over' /\ DeadGrants'
  <2>1. CASE code[req[r].code].status = "live"
    <3>1. \A k \in Code : /\ k # req[r].code => code'[k] = code[k]
                          /\ k = req[r].code => code'[k].status = "claimed"
      BY <1>9, <2>1, MarkedCodes DEF ClaimCode
    <3>2. /\ req' = [req EXCEPT ![r].pc = "issuing"] /\ req[r].op = "exchange"
          /\ UNCHANGED <<client, token, ended>>
      BY <1>9, <2>1 DEF ClaimCode
    <3>3. req[r].code \notin ended
      BY <2>1, <3>2
    <3> QED
      BY <3>1, <3>2, <3>3
  <2>2. CASE code[req[r].code].status # "live"
    BY <1>9, <2>2 DEF ClaimCode
  <2> QED
    BY <2>1, <2>2
<1>10. ASSUME NEW r \in Request, BeginRefresh(r) PROVE Over' /\ DeadGrants'
  BY <1>10 DEF BeginRefresh
<1>11. ASSUME NEW r \in Request, ClaimRefresh(r) PROVE Over' /\ DeadGrants'
  <2>1. CASE IsLive(req[r].token)
    <3>1. \A t \in Token : /\ token'[t].code = token[t].code /\ (IsLive(t)' => IsLive(t))
      BY <1>11, <2>1, MarkedTokens DEF ClaimRefresh
    <3>2. /\ req' = [req EXCEPT ![r].pc = "issuing"] /\ req[r].op = "refresh"
          /\ UNCHANGED <<client, code, ended>>
      BY <1>11, <2>1 DEF ClaimRefresh
    <3>3. req[r].code \notin ended
      BY <2>1, <3>2
    <3> QED
      BY <3>1, <3>2, <3>3
  <2>2. CASE ~IsLive(req[r].token)
    BY <1>11, <2>2 DEF ClaimRefresh
  <2> QED
    BY <2>1, <2>2
<1>12. ASSUME NEW r \in Request, Issue(r) PROVE Over' /\ DeadGrants'
  <2>1. PICK t \in Token :
          token' = [token EXCEPT ![t] = [status |-> "live", code |-> req[r].code,
                                         parent |-> req[r].token]]
    BY <1>12 DEF Issue
  <2>2. req[r].code \notin ended
    BY <1>12 DEF Issue
  <2> QED
    BY <1>12, <2>1, <2>2 DEF Issue
<1>13. ASSUME NEW t \in Token, RevokeToken(t) PROVE Over' /\ DeadGrants'
  <2>1. \A s \in Token : token'[s].code = token[s].code /\ (IsLive(s)' => IsLive(s))
    BY <1>13, MarkedTokens DEF RevokeToken
  <2> QED
    BY <1>13, <2>1 DEF RevokeToken
<1>14. ASSUME NEW u \in User, SignOut(u) PROVE Over' /\ DeadGrants'
  <2>1. \A s \in Token : /\ token'[s].code = token[s].code
                         /\ IsLive(s)' => IsLive(s) /\ code[token[s].code].user # u
    BY <1>14, MarkedTokens DEF SignOut
  <2>2. \A k \in Code : /\ code'[k].status = IF code[k].status = "live" /\ code[k].user = u
                                             THEN "deleted" ELSE code[k].status
                        /\ code'[k].client = code[k].client
    BY <1>14, MarkedCodes DEF SignOut
  <2>3. UNCHANGED <<client, req>>
    BY <1>14 DEF SignOut
  <2>4. \A k \in ended' : k \in ended \/ (k \in Code /\ code[k].user = u /\ k \notin Claimed)
    BY <1>14 DEF SignOut
  <2>5. \A k \in Code, r \in Request : k \notin Claimed /\ Issuing(r) => req[r].code # k
    BY DEF Claimed
  <2>6. \A k \in Code : code[k].user = u => code[k].status # "unused"
    BY NoneAssumption DEF NoCode
  <2>7. DeadGrants'
    BY <2>1, <2>4
  <2>8. Over'
    BY <2>2, <2>3, <2>4, <2>5, <2>6
  <2> QED
    BY <2>7, <2>8
<1>15. CASE Expire
  BY <1>15 DEF Expire
<1>16. CASE Restart
  <2>1. InitDb /\ \A r \in Request : req'[r] \in {Idle, req[r]}
    BY <1>16 DEF Restart
  <2> QED
    BY <2>1, PrunedOver
<1>17. CASE RunCli
  <2>1. InitDb /\ \A r \in Request : req'[r] \in {Idle, req[r]}
    BY <1>17 DEF RunCli
  <2> QED
    BY <2>1, PrunedOver
<1>18. CASE UNCHANGED vars
  BY <1>18 DEF vars
<1> QED
  BY <1>1, <1>2, <1>3, <1>4, <1>5, <1>6, <1>7, <1>8, <1>9, <1>10, <1>11, <1>12, <1>13, <1>14, <1>15, <1>16, <1>17, <1>18 DEF Next
-----------------------------------------------------------------------------
\* What MakeRoom leaves of S: all of it when there was room, else the newest,
\* fewer than cap.  The requests of P are numbered by txn.
Numbered(P) == /\ IsFiniteSet(P)
               /\ \A p \in P : p.txn \in Nat
               /\ \A p, q \in P : p.txn = q.txn => p = q

\* How many requests of S are as old as p.
Rank(S, p) == Cardinality({o \in S : o.txn <= p.txn})

LEMMA RankBounds ==
  ASSUME NEW S, Numbered(S), NEW p \in S
  PROVE  Rank(S, p) \in 1..Cardinality(S)
<1> DEFINE O == {o \in S : o.txn <= p.txn}
<1>1. IsFiniteSet(O) /\ Cardinality(O) <= Cardinality(S)
  BY FS_Subset DEF Numbered
<1>2. Cardinality(O) \in Nat /\ Cardinality(S) \in Nat
  BY <1>1, FS_CardinalityType DEF Numbered
<1>3. Cardinality(O) # 0
  <2>1. p \in O
    BY DEF Numbered
  <2> QED
    BY <1>1, <2>1, FS_EmptySet
<1> QED
  BY <1>1, <1>2, <1>3 DEF Rank

LEMMA RankOrdered ==
  ASSUME NEW S, Numbered(S), NEW p \in S, NEW q \in S, p.txn < q.txn
  PROVE  Rank(S, p) < Rank(S, q)
<1> DEFINE O == {o \in S : o.txn <= p.txn}
           Q == {o \in S : o.txn <= q.txn}
<1>1. O \subseteq Q /\ q \in Q /\ q \notin O
  BY DEF Numbered
<1>2. IsFiniteSet(Q) /\ IsFiniteSet(O)
  BY FS_Subset DEF Numbered
<1>3. Cardinality(O) <= Cardinality(Q) /\ Cardinality(O) # Cardinality(Q)
  BY <1>1, <1>2, FS_Subset
<1>4. Cardinality(O) \in Nat /\ Cardinality(Q) \in Nat
  BY <1>2, FS_CardinalityType
<1> QED
  BY <1>3, <1>4 DEF Rank

LEMMA RoomBelowCap ==
  ASSUME NEW P, NEW S \in SUBSET P, Numbered(S), NEW cap \in Nat \ {0}
  PROVE  Cardinality(MakeRoom(P, S, cap) \cap S) <= cap - 1
<1> DEFINE n == Cardinality(S)
           R == {p \in S : Rank(S, p) > n - cap + 1}
           f == [p \in R |-> Rank(S, p)]
<1>1. n \in Nat
  BY FS_CardinalityType DEF Numbered
<1>2. \A p \in S : Rank(S, p) \in 1..n
  BY RankBounds
<1>3. MakeRoom(P, S, cap) \cap S = R
  BY <1>1, <1>2 DEF MakeRoom, Rank
<1>4. f \in [R -> (n - cap + 2)..n]
  BY <1>1, <1>2
<1>5. \A p, q \in R : f[p] = f[q] => p = q
  <2> SUFFICES ASSUME NEW p \in R, NEW q \in R, p # q PROVE f[p] # f[q]
    OBVIOUS
  <2>1. p.txn < q.txn \/ q.txn < p.txn
    BY DEF Numbered
  <2>2. Rank(S, p) < Rank(S, q) \/ Rank(S, q) < Rank(S, p)
    BY <2>1, RankOrdered
  <2> QED
    BY <1>2, <2>2
<1>6. f \in Injection(R, (n - cap + 2)..n)
  BY <1>4, <1>5 DEF Injection, IsInjective
<1>7. IsFiniteSet((n - cap + 2)..n) /\ Cardinality((n - cap + 2)..n) = cap - 1
  <2>1. PICK lo \in Int : lo = n - cap + 2
    BY <1>1
  <2>2. /\ IsFiniteSet(lo..n)
        /\ Cardinality(lo..n) = IF lo > n THEN 0 ELSE n - lo + 1
    BY <1>1, FS_Interval
  <2>3. Cardinality(lo..n) = cap - 1
    BY <1>1, <2>1, <2>2
  <2> QED
    BY <2>1, <2>2, <2>3
<1>8. Cardinality(R) <= Cardinality((n - cap + 2)..n)
  BY <1>6, <1>7, FS_Injection
<1> QED
  BY <1>3, <1>7, <1>8

LEMMA RoomWhenBelow ==
  ASSUME NEW P, NEW S \in SUBSET P, Numbered(S), NEW cap \in Nat, Cardinality(S) < cap
  PROVE  MakeRoom(P, S, cap) = P
<1>1. \A p \in S : Rank(S, p) \in 1..Cardinality(S)
  BY RankBounds
<1>2. Cardinality(S) \in Nat
  BY FS_CardinalityType DEF Numbered
<1> QED
  BY <1>1, <1>2 DEF MakeRoom, Rank
-----------------------------------------------------------------------------
LEMMA ParkedNumbered ==
  ASSUME TypeOK, Parked, NEW P \in SUBSET pending
  PROVE  Numbered(P)
  BY FS_Subset DEF Numbered, Parked, TypeOK, Pending

LEMMA CardinalitySubset ==
  ASSUME NEW S, IsFiniteSet(S), NEW T \in SUBSET S, NEW n \in Nat, Cardinality(S) <= n
  PROVE  Cardinality(T) <= n
<1>1. IsFiniteSet(T) /\ Cardinality(T) <= Cardinality(S)
  BY FS_Subset
<1>2. Cardinality(S) \in Nat /\ Cardinality(T) \in Nat
  BY <1>1, FS_CardinalityType
<1> QED
  BY <1>1, <1>2

LEMMA OneMore ==
  ASSUME NEW S, IsFiniteSet(S), NEW x
  PROVE  /\ IsFiniteSet(S \cup {x}) /\ Cardinality(S \cup {x}) \in Nat /\ Cardinality(S) \in Nat
         /\ Cardinality(S \cup {x}) <= Cardinality(S) + 1
<1>1. Cardinality(S) \in Nat
  BY FS_CardinalityType
<1>2. /\ IsFiniteSet(S \cup {x})
      /\ Cardinality(S \cup {x}) = IF x \in S THEN Cardinality(S) ELSE Cardinality(S) + 1
  BY FS_AddElement
<1> QED
  BY <1>1, <1>2

\* Taking parked requests away keeps their numbers, and keeps to the caps.
LEMMA FewerParked ==
  ASSUME TypeOK, Parked, PendingBounded, pending' \subseteq pending, UNCHANGED parked,
         \A c \in Client : client[c] # "absent" => client'[c] # "absent"
  PROVE  Parked' /\ PendingBounded'
<1>1. IsFiniteSet(pending) /\ IsFiniteSet(pending')
  BY FS_Subset DEF Parked
<1>2. Parked'
  BY <1>1 DEF Parked, TypeOK, Pending
<1>3. Cardinality(pending') <= MaxLivePending
  BY <1>1, CapAssumption, CardinalitySubset DEF PendingBounded
<1>4. ASSUME NEW c \in Client
      PROVE  Cardinality(OfClient(pending', c)) <= MaxPendingPerClient
  <2>1. OfClient(pending', c) \subseteq OfClient(pending, c) /\ IsFiniteSet(OfClient(pending, c))
    BY <1>1, FS_Subset DEF OfClient
  <2> QED
    BY <2>1, CapAssumption, CardinalitySubset DEF PendingBounded
<1> QED
  BY <1>2, <1>3, <1>4 DEF PendingBounded, OfClient

\* Parking one more request, after making room for it, keeps to both caps.
LEMMA AuthorizeParks ==
  ASSUME TypeOK, Parked, PendingBounded, NEW c \in Client, Authorize(c)
  PROVE  Parked' /\ PendingBounded'
<1> DEFINE mine == OfClient(Unexpired, c)
           room == MakeRoom(Unexpired, mine, MaxPendingPerClient)
           kept == MakeRoom(room, room, MaxLivePending)
           new  == [txn |-> parked + 1, client |-> c]
<1>1. /\ pending' = kept \cup {new} /\ parked' = parked + 1 /\ client' = client
      /\ client[c] = "registered"
  BY DEF Authorize
<1>2. kept \subseteq room /\ room \subseteq Unexpired /\ Unexpired \subseteq pending
  BY RoomSubset DEF Unexpired
<1>3. mine \subseteq Unexpired
  BY DEF OfClient
<1>4. Numbered(pending) /\ Numbered(room) /\ Numbered(mine)
  BY <1>2, <1>3, ParkedNumbered
<1>5. IsFiniteSet(kept) /\ IsFiniteSet(room) /\ IsFiniteSet(room \cap mine)
  BY <1>2, <1>4, FS_Subset DEF Numbered
<1> HIDE DEF mine, room, kept
<1>6. Parked'
  <2>1. IsFiniteSet(pending')
    BY <1>1, <1>5, FS_AddElement
  <2>2. new.txn = parked + 1 /\ new.client = c /\ parked \in Nat
    BY BoundAssumption DEF TypeOK
  <2>3. \A p \in kept : p.txn <= parked /\ client[p.client] # "absent" /\ p.txn \in Nat
    BY <1>2 DEF Parked, TypeOK, Pending
  <2>4. \A p \in pending' : p.txn <= parked' /\ client'[p.client] # "absent"
    BY <1>1, <2>2, <2>3
  <2>5. \A p, q \in pending' : p.txn = q.txn => p = q
    <3> SUFFICES ASSUME NEW p \in pending', NEW q \in pending', p.txn = q.txn
                 PROVE  p = q
      OBVIOUS
    <3>1. CASE p \in kept /\ q \in kept
      BY <1>2, <3>1 DEF Parked
    <3>2. CASE p = new /\ q = new
      BY <3>2
    <3>3. CASE (p = new /\ q \in kept) \/ (q = new /\ p \in kept)
      BY <2>2, <2>3, <3>3
    <3> QED
      BY <1>1, <3>1, <3>2, <3>3
  <2> QED
    BY <2>1, <2>4, <2>5 DEF Parked
<1>7. Cardinality(pending') <= MaxLivePending
  <2>1. kept \cap room = kept
    BY <1>2
  <2>2. Cardinality(kept) <= MaxLivePending - 1
    <3>1. Cardinality(kept \cap room) <= MaxLivePending - 1
      BY <1>4, CapAssumption, RoomBelowCap DEF kept
    <3> QED
      BY <2>1, <3>1
  <2>3. /\ Cardinality(pending') <= Cardinality(kept) + 1
        /\ Cardinality(pending') \in Nat /\ Cardinality(kept) \in Nat
    BY <1>1, <1>5, OneMore
  <2> QED
    BY <2>2, <2>3, CapAssumption
<1>8. ASSUME NEW d \in Client
      PROVE  Cardinality(OfClient(pending', d)) <= MaxPendingPerClient
  <2>1. CASE d = c
    <3>1. Cardinality(room \cap mine) <= MaxPendingPerClient - 1
      BY <1>3, <1>4, CapAssumption, RoomBelowCap DEF room
    <3>2. OfClient(pending', d) \subseteq (room \cap mine) \cup {new}
      BY <1>1, <1>2, <2>1 DEF OfClient, mine
    <3>3. /\ IsFiniteSet((room \cap mine) \cup {new})
          /\ Cardinality((room \cap mine) \cup {new}) <= Cardinality(room \cap mine) + 1
          /\ Cardinality((room \cap mine) \cup {new}) \in Nat
          /\ Cardinality(room \cap mine) \in Nat
      BY <1>5, OneMore
    <3>4. Cardinality((room \cap mine) \cup {new}) <= MaxPendingPerClient
      BY <3>1, <3>3, CapAssumption
    <3> QED
      BY <3>2, <3>3, <3>4, CapAssumption, CardinalitySubset
  <2>2. CASE d # c
    <3>1. OfClient(pending', d) \subseteq OfClient(pending, d)
      BY <1>1, <1>2, <2>2 DEF OfClient
    <3>2. IsFiniteSet(OfClient(pending, d))
      BY FS_Subset DEF OfClient, Parked
    <3> QED
      BY <3>1, <3>2, CapAssumption, CardinalitySubset DEF PendingBounded
  <2> QED
    BY <2>1, <2>2
<1> QED
  BY <1>6, <1>7, <1>8 DEF PendingBounded

\* The parked requests keep their numbers and stay within the caps.
LEMMA PendingStep ==
  TypeOK /\ Parked /\ PendingBounded /\ [Next]_vars => Parked' /\ PendingBounded'
<1> SUFFICES ASSUME TypeOK, Parked, PendingBounded, [Next]_vars
             PROVE  Parked' /\ PendingBounded'
  OBVIOUS
<1>1. ASSUME NEW c \in Client, RegisterClient(c) PROVE Parked' /\ PendingBounded'
  <2>1. pending' \subseteq pending /\ UNCHANGED parked
    BY <1>1 DEF RegisterClient, TypeOK
  <2>2. \A d \in Client : client[d] # "absent" => client'[d] # "absent"
    BY <1>1 DEF RegisterClient, TypeOK
  <2> QED
    BY <2>1, <2>2, FewerParked
<1>2. ASSUME NEW c \in Client, CreateClient(c) PROVE Parked' /\ PendingBounded'
  <2>1. pending' \subseteq pending /\ UNCHANGED parked
    BY <1>2 DEF CreateClient, RegisterClient, TypeOK
  <2>2. \A d \in Client : client[d] # "absent" => client'[d] # "absent"
    BY <1>2 DEF CreateClient, RegisterClient, TypeOK
  <2> QED
    BY <2>1, <2>2, FewerParked
<1>3. ASSUME NEW c \in Client, Authorize(c) PROVE Parked' /\ PendingBounded'
  BY <1>3, AuthorizeParks
<1>4. ASSUME NEW c \in Client, DeleteClient(c) PROVE Parked' /\ PendingBounded'
  <2>1. pending' \subseteq pending /\ UNCHANGED parked
    BY <1>4 DEF DeleteClient, TypeOK
  <2>2. \A d \in Client : client[d] # "absent" => client'[d] # "absent"
    BY <1>4 DEF DeleteClient, TypeOK
  <2> QED
    BY <2>1, <2>2, FewerParked
<1>5. ASSUME NEW r \in Request, BeginConsent(r) PROVE Parked' /\ PendingBounded'
  <2>1. UNCHANGED <<pending, parked, client>>
    BY <1>5 DEF BeginConsent
  <2> QED
    BY <2>1, FewerParked
<1>6. ASSUME NEW r \in Request, Approve(r) PROVE Parked' /\ PendingBounded'
  <2>1. pending' \subseteq pending /\ UNCHANGED parked
    BY <1>6 DEF Approve, Unpark
  <2>2. \A d \in Client : client[d] # "absent" => client'[d] # "absent"
    BY <1>6 DEF Approve, Unpark
  <2> QED
    BY <2>1, <2>2, FewerParked
<1>7. ASSUME NEW r \in Request, Deny(r) PROVE Parked' /\ PendingBounded'
  <2>1. pending' \subseteq pending /\ UNCHANGED parked
    BY <1>7 DEF Deny, Unpark
  <2>2. \A d \in Client : client[d] # "absent" => client'[d] # "absent"
    BY <1>7 DEF Deny, Unpark
  <2> QED
    BY <2>1, <2>2, FewerParked
<1>8. ASSUME NEW r \in Request, BeginExchange(r) PROVE Parked' /\ PendingBounded'
  <2>1. UNCHANGED <<pending, parked, client>>
    BY <1>8 DEF BeginExchange
  <2> QED
    BY <2>1, FewerParked
<1>9. ASSUME NEW r \in Request, ClaimCode(r) PROVE Parked' /\ PendingBounded'
  <2>1. UNCHANGED <<pending, parked, client>>
    BY <1>9 DEF ClaimCode
  <2> QED
    BY <2>1, FewerParked
<1>10. ASSUME NEW r \in Request, BeginRefresh(r) PROVE Parked' /\ PendingBounded'
  <2>1. UNCHANGED <<pending, parked, client>>
    BY <1>10 DEF BeginRefresh
  <2> QED
    BY <2>1, FewerParked
<1>11. ASSUME NEW r \in Request, ClaimRefresh(r) PROVE Parked' /\ PendingBounded'
  <2>1. UNCHANGED <<pending, parked, client>>
    BY <1>11 DEF ClaimRefresh
  <2> QED
    BY <2>1, FewerParked
<1>12. ASSUME NEW r \in Request, Issue(r) PROVE Parked' /\ PendingBounded'
  <2>1. UNCHANGED <<pending, parked, client>>
    BY <1>12 DEF Issue
  <2> QED
    BY <2>1, FewerParked
<1>13. ASSUME NEW t \in Token, RevokeToken(t) PROVE Parked' /\ PendingBounded'
  <2>1. UNCHANGED <<pending, parked, client>>
    BY <1>13 DEF RevokeToken
  <2> QED
    BY <2>1, FewerParked
<1>14. ASSUME NEW u \in User, SignOut(u) PROVE Parked' /\ PendingBounded'
  <2>1. UNCHANGED <<pending, parked, client>>
    BY <1>14 DEF SignOut
  <2> QED
    BY <2>1, FewerParked
<1>15. CASE Expire
  <2>1. UNCHANGED <<pending, parked, client>>
    BY <1>15 DEF Expire
  <2> QED
    BY <2>1, FewerParked
<1>16. CASE Restart
  BY <1>16, Pruned, FewerParked DEF Restart
<1>17. CASE RunCli
  BY <1>17, Pruned, FewerParked DEF RunCli
<1>18. CASE UNCHANGED vars
  <2>1. UNCHANGED <<pending, parked, client>>
    BY <1>18 DEF vars
  <2> QED
    BY <2>1, FewerParked
<1> QED
  BY <1>1, <1>2, <1>3, <1>4, <1>5, <1>6, <1>7, <1>8, <1>9, <1>10, <1>11, <1>12, <1>13, <1>14, <1>15, <1>16, <1>17, <1>18 DEF Next
-----------------------------------------------------------------------------
\* The invariant holds of the empty tables the portal starts on.
LEMMA InitIInv == Init => IInv
<1> SUFFICES ASSUME Init PROVE IInv
  OBVIOUS
<1> USE DEF Init
<1>1. TypeOK
  <2>1. NoCode \in CodeRow
    BY DEF NoCode, CodeRow
  <2>2. NoToken \in TokenRow
    BY DEF NoToken, TokenRow
  <2> QED
    BY <2>1, <2>2, IdleTyped DEF TypeOK
<1>2. Requests /\ OneInLoop /\ TakenAlone
  BY DEF Requests, OneInLoop, TakenAlone, InLoop, Issuing, Idle
<1>3. Codes /\ Tokens /\ OnePairPerGrant /\ Over /\ DeadGrants
  BY DEF Codes, Tokens, OnePairPerGrant, Over, DeadGrants, IsLive, NoCode, NoToken
<1>4. IsFiniteSet(pending) /\ Cardinality(pending) = 0
  BY FS_EmptySet
<1>5. \A c \in Client : OfClient(pending, c) = {}
  BY DEF OfClient
<1>6. Parked
  BY <1>4 DEF Parked
<1>7. PendingBounded
  BY <1>4, <1>5 DEF PendingBounded
<1> QED
  BY <1>1, <1>2, <1>3, <1>6, <1>7 DEF IInv

\* The inductive invariant holds throughout.
THEOREM Invariance == Spec => []IInv
<1>1. Init => IInv
  BY InitIInv
<1>2. IInv /\ [Next]_vars => IInv'
  BY TypeStep, LoopStep, ReferenceStep, HolderStep, DeadStep, PendingStep DEF IInv
<1>3. QED
  BY <1>1, <1>2, PTL DEF Spec

\* The tables, the requests and the history keep their types.
THEOREM TypeCorrect == Spec => []TypeOK
<1>1. IInv => TypeOK
  BY DEF IInv
<1>2. QED
  BY Invariance, <1>1, PTL

\* However rotations and exchanges, claims and sign-outs interleave, a grant has
\* one usable token pair at most (oauth.py, exchange_* and revoke_token).
THEOREM OnePair == Spec => []OnePairPerGrant
<1>1. IInv => OnePairPerGrant
  BY DEF IInv
<1>2. QED
  BY Invariance, <1>1, PTL

\* No live pair is of a grant that a sign-out, the deletion of a client or a
\* prune ended.  Those end every grant of the user or client but the ones a
\* request in flight carries, as DeadGrants says.
THEOREM NoDeadGrants == Spec => []DeadGrants
<1>1. IInv => DeadGrants
  BY DEF IInv
<1>2. QED
  BY Invariance, <1>1, PTL

\* authorize keeps the parked requests within the client's and the table's cap.
THEOREM Bounded == Spec => []PendingBounded
<1>1. IInv => PendingBounded
  BY DEF IInv
<1>2. QED
  BY Invariance, <1>1, PTL

-----------------------------------------------------------------------------
\* While the table is below its cap, a client makes room only among its own.
LEMMA OthersStay ==
  ASSUME IInv, NEW c \in Client, Authorize(c), Cardinality(Unexpired) < MaxLivePending,
         NEW p \in Unexpired, p.client # c
  PROVE  p \in pending'
<1> DEFINE mine == OfClient(Unexpired, c)
           room == MakeRoom(Unexpired, mine, MaxPendingPerClient)
<1>1. p \in room
  BY DEF MakeRoom, OfClient
<1>2. room \subseteq Unexpired /\ Unexpired \subseteq pending
  BY RoomSubset DEF Unexpired
<1>3. Numbered(Unexpired) /\ Numbered(room)
  BY <1>2, ParkedNumbered DEF IInv
<1> HIDE DEF mine, room
<1>4. Cardinality(room) < MaxLivePending
  <2>1. Cardinality(room) <= Cardinality(Unexpired)
    BY <1>2, <1>3, FS_Subset DEF Numbered
  <2>2. Cardinality(room) \in Nat /\ Cardinality(Unexpired) \in Nat
    BY <1>3, FS_CardinalityType DEF Numbered
  <2> QED
    BY <2>1, <2>2, CapAssumption
<1>5. MakeRoom(room, room, MaxLivePending) = room
  BY <1>3, <1>4, CapAssumption, RoomWhenBelow
<1>6. pending' = MakeRoom(room, room, MaxLivePending) \cup {[txn |-> parked + 1, client |-> c]}
  BY DEF Authorize, room, mine
<1> QED
  BY <1>1, <1>5, <1>6

\* No client loses a waiting request to another's while there is room (oauth.py,
\* authorize: the client's own oldest go first).
THEOREM Undisturbed == Spec => OthersUndisturbed
<1>1. IInv => \A c \in Client :
                Authorize(c) /\ Cardinality(Unexpired) < MaxLivePending =>
                  \A p \in Unexpired : p.client # c => p \in pending'
  BY OthersStay
<1>2. QED
  BY Invariance, <1>1, PTL DEF OthersUndisturbed

-----------------------------------------------------------------------------
\* Nobody else carries the grant of a code.
LEMMA OneHolder ==
  ASSUME IInv, NEW k \in Code, NEW x \in Holders(k), NEW y \in Holders(k)
  PROVE  x = y
  BY DEF IInv, Holders, Requests, OneInLoop, Codes, Tokens, TakenAlone, OnePairPerGrant,
         Issuing, InLoop, IsLive

\* Where grants only lose holders and no credential is given out, OAuthGrant drops
\* the grants that lost theirs.
LEMMA Dropped ==
  ASSUME IInv,
         \A k \in Code : /\ code'[k].status = "live" => code[k].status = "live"
                         /\ code'[k].status = "unused" <=> code[k].status = "unused",
         \A r \in Request : req'[r].pc = "issuing" => req'[r] = req[r],
         \A t \in Token : /\ token'[t].status = "live" =>
                               token[t].status = "live" /\ token'[t].code = token[t].code
                          /\ token'[t].status = "unused" <=> token[t].status = "unused"
  PROVE  \E G \in SUBSET Code : Grant!Drop(G)
<1> DEFINE G == {k \in Code : Holders(k)' = {}}
<1>1. ASSUME NEW k \in Code PROVE Holders(k)' \subseteq Holders(k)
  BY DEF Holders, IsLive
<1>2. ASSUME NEW k \in Code PROVE Holders(k)' = IF k \in G THEN {} ELSE Holders(k)
  BY <1>1, OneHolder
<1>3. UNCHANGED <<{k \in Code : code[k].status # "unused"},
                  {k \in Code : code[k].status # "unused"}
                    \cup {t \in Token : token[t].status # "unused"}>>
  OBVIOUS
<1>4. Grant!Drop(G)
  <2>1. [k \in Code |-> Holders(k)]'
          = [k \in Code |-> IF k \in G THEN {} ELSE [l \in Code |-> Holders(l)][k]]
    BY <1>2
  <2> HIDE DEF G
  <2> QED
    BY <1>3, <2>1 DEF Grant!Drop
<1> QED
  BY <1>4

\* Approving a request offers a grant, in a code.
LEMMA CodeOffered ==
  ASSUME IInv, NEW r \in Request, Approve(r)
  PROVE  \E k \in Code : Grant!Offer(k, k)
<1> USE DEF IInv, TypeOK, Requests
<1>1. PICK k \in Code :
        /\ code[k].status = "unused"
        /\ code' = [code EXCEPT ![k] = [status |-> "live", client |-> req[r].client,
                                        user |-> req[r].user]]
  BY DEF Approve
<1>2. /\ req[r].op = "consent" /\ req[r].pc = "approving" /\ req' = [req EXCEPT ![r] = Idle]
      /\ token' = token
  BY DEF Approve, Finish
<1>3. code'[k].status = "live" /\ \A l \in Code : l # k => code'[l] = code[l]
  BY <1>1
<1>4. Holders(k)' = {k}
  BY <1>1, <1>2, <1>3 DEF Holders, Tokens, IsLive, Issuing, Idle
<1>5. ASSUME NEW l \in Code, l # k PROVE Holders(l)' = Holders(l)
  BY <1>2, <1>3, <1>5 DEF Holders, IsLive, Idle
<1>6. [l \in Code |-> Holders(l)]' = [[l \in Code |-> Holders(l)] EXCEPT ![k] = {k}]
  BY <1>4, <1>5
<1>7. k \notin {l \in Code : code[l].status # "unused"}
               \cup {t \in Token : token[t].status # "unused"}
  BY <1>1, DisjointAssumption
<1>8. {l \in Code : code[l].status # "unused"}' = {l \in Code : code[l].status # "unused"} \cup {k}
  BY <1>3
<1> QED
  BY <1>1, <1>2, <1>6, <1>7, <1>8 DEF Grant!Offer

\* Claiming a code that is still there takes the grant from it.
LEMMA CodeTaken ==
  ASSUME IInv, NEW r \in Request, ClaimCode(r), code[req[r].code].status = "live"
  PROVE  req[r].code \in Code /\ Grant!Take(req[r].code, r)
<1> USE DEF IInv, TypeOK, Requests
<1>1. PICK k \in Code :
        /\ k = req[r].code /\ req[r].op = "exchange" /\ req[r].pc = "claiming"
        /\ req' = [req EXCEPT ![r].pc = "issuing"] /\ token' = token
  BY DEF ClaimCode, InLoop
<1>2. \A l \in Code : code'[l].status = IF l = k THEN "claimed" ELSE code[l].status
  BY <1>1, MarkedCodes DEF ClaimCode
<1>3. Holders(k) = {k}
  BY <1>1, OneHolder DEF Holders
<1>4. Holders(k)' = {r}
  <2>1. \A s \in Request : s # r => ~(req'[s].pc = "issuing" /\ req'[s].code = k)
    BY <1>1 DEF OneInLoop, Issuing, InLoop
  <2>2. req'[r].pc = "issuing" /\ req'[r].code = k
    BY <1>1 DEF RequestState
  <2>3. \A t \in Token : ~(IsLive(t)' /\ token'[t].code = k)
    BY <1>1 DEF Tokens, IsLive
  <2> QED
    BY <1>1, <1>2, <2>1, <2>2, <2>3 DEF Holders
<1>5. ASSUME NEW l \in Code, l # k PROVE Holders(l)' = Holders(l)
  <2>1. \A s \in Request : req'[s].pc = "issuing" /\ req'[s].code = l
                             <=> req[s].pc = "issuing" /\ req[s].code = l
    BY <1>1, <1>5 DEF RequestState
  <2> QED
    BY <1>1, <1>2, <1>5, <2>1 DEF Holders, IsLive
<1>6. [l \in Code |-> Holders(l)]' = [[l \in Code |-> Holders(l)] EXCEPT ![k] = {r}]
  BY <1>4, <1>5
<1>7. {l \in Code : code[l].status # "unused"}' = {l \in Code : code[l].status # "unused"}
  BY <1>1, <1>2
<1> QED
  BY <1>1, <1>3, <1>6, <1>7 DEF Grant!Take

\* Revoking a pair that is still live takes the grant from it.
LEMMA PairTaken ==
  ASSUME IInv, NEW r \in Request, ClaimRefresh(r), IsLive(req[r].token)
  PROVE  req[r].code \in Code /\ Grant!Take(req[r].code, r)
<1> USE DEF IInv, TypeOK, Requests
<1>1. PICK k \in Code, t \in Token :
        /\ k = req[r].code /\ t = req[r].token /\ req[r].op = "refresh" /\ req[r].pc = "claiming"
        /\ token[t].code = k /\ IsLive(t)
        /\ req' = [req EXCEPT ![r].pc = "issuing"] /\ code' = code
  BY DEF ClaimRefresh, InLoop
<1>2. \A s \in Token : /\ token'[s].status = IF s = t THEN "revoked" ELSE token[s].status
                       /\ token'[s].code = token[s].code
  BY <1>1, MarkedTokens DEF ClaimRefresh
<1>3. Holders(k) = {t}
  BY <1>1, OneHolder DEF Holders
<1>4. Holders(k)' = {r}
  <2>1. \A s \in Request : s # r => ~(req'[s].pc = "issuing" /\ req'[s].code = k)
    BY <1>1 DEF OneInLoop, Issuing, InLoop
  <2>2. req'[r].pc = "issuing" /\ req'[r].code = k
    BY <1>1 DEF RequestState
  <2>3. \A s \in Token : ~(IsLive(s)' /\ token'[s].code = k)
    BY <1>1, <1>2 DEF OnePairPerGrant, IsLive
  <2>4. code'[k].status # "live"
    BY <1>1
  <2> QED
    BY <1>1, <2>1, <2>2, <2>3, <2>4 DEF Holders
<1>5. ASSUME NEW l \in Code, l # k PROVE Holders(l)' = Holders(l)
  <2>1. \A s \in Request : req'[s].pc = "issuing" /\ req'[s].code = l
                             <=> req[s].pc = "issuing" /\ req[s].code = l
    BY <1>1, <1>5 DEF RequestState
  <2>2. \A s \in Token : IsLive(s)' /\ token'[s].code = l <=> IsLive(s) /\ token[s].code = l
    BY <1>1, <1>2, <1>5 DEF IsLive
  <2> QED
    BY <1>1, <2>1, <2>2 DEF Holders
<1>6. [l \in Code |-> Holders(l)]' = [[l \in Code |-> Holders(l)] EXCEPT ![k] = {r}]
  BY <1>4, <1>5
<1>7. {s \in Token : token[s].status # "unused"}' = {s \in Token : token[s].status # "unused"}
  BY <1>1, <1>2 DEF IsLive
<1> QED
  BY <1>1, <1>3, <1>6, <1>7 DEF Grant!Take

\* Issuing a pair hands the grant on to it.
LEMMA PairIssued ==
  ASSUME IInv, NEW r \in Request, Issue(r)
  PROVE  req[r].code \in Code /\ \E t \in Token : Grant!Reissue(req[r].code, t)
<1> USE DEF IInv, TypeOK, Requests
<1>1. PICK k \in Code :
        /\ k = req[r].code /\ req[r].pc = "issuing" /\ code[k].status = "claimed"
        /\ req' = [req EXCEPT ![r] = Idle] /\ code' = code
  BY DEF Issue, InLoop, Issuing, Finish
<1>2. PICK t \in Token :
        /\ token[t].status = "unused"
        /\ token' = [token EXCEPT ![t] =
             [status |-> "live", code |-> req[r].code, parent |-> req[r].token]]
  BY DEF Issue
<1>3. /\ token'[t].status = "live" /\ token'[t].code = k
      /\ \A s \in Token : s # t => token'[s] = token[s]
  BY <1>1, <1>2
<1>4. Holders(k) = {r}
  <2>1. r \in Holders(k)
    BY <1>1 DEF Holders
  <2> QED
    BY <1>1, <2>1, OneHolder
<1>5. Holders(k)' = {t}
  <2>1. \A s \in Request : ~(req'[s].pc = "issuing" /\ req'[s].code = k)
    BY <1>1 DEF OneInLoop, Issuing, InLoop, Idle
  <2>2. \A s \in Token : IsLive(s)' /\ token'[s].code = k <=> s = t
    BY <1>1, <1>3 DEF TakenAlone, IsLive, Issuing
  <2> QED
    BY <1>1, <2>1, <2>2 DEF Holders
<1>6. ASSUME NEW l \in Code, l # k PROVE Holders(l)' = Holders(l)
  <2>1. \A s \in Request : req'[s].pc = "issuing" /\ req'[s].code = l
                             <=> req[s].pc = "issuing" /\ req[s].code = l
    BY <1>1, <1>6 DEF RequestState, Idle
  <2>2. \A s \in Token : IsLive(s)' /\ token'[s].code = l <=> IsLive(s) /\ token[s].code = l
    BY <1>2, <1>3, <1>6 DEF IsLive
  <2> QED
    BY <1>1, <2>1, <2>2 DEF Holders
<1>7. [l \in Code |-> Holders(l)]' = [[l \in Code |-> Holders(l)] EXCEPT ![k] = {t}]
  BY <1>5, <1>6
<1>8. t \notin {l \in Code : code[l].status # "unused"}
               \cup {s \in Token : token[s].status # "unused"}
  BY <1>2, DisjointAssumption
<1>9. {s \in Token : token[s].status # "unused"}' = {s \in Token : token[s].status # "unused"} \cup {t}
  BY <1>3
<1>10. Grant!Reissue(k, t)
  BY <1>1, <1>4, <1>7, <1>8, <1>9 DEF Grant!Reissue
<1> QED
  BY <1>1, <1>10

\* A step of the tables is a step of OAuthGrant, or none.
LEMMA GrantStep == IInv /\ [Next]_vars => [Grant!Next]_Grant!vars
<1> SUFFICES ASSUME IInv, [Next]_vars PROVE [Grant!Next]_Grant!vars
  OBVIOUS
<1> DEFINE Step == (\E G \in SUBSET Code : Grant!Drop(G)) \/ Grant!Next
<1> SUFFICES Step
  BY DEF Grant!Next
<1> USE DEF IInv, TypeOK, RequestState, Idle, Accept, Finish, IsLive
<1>1. ASSUME NEW c \in Client, RegisterClient(c) PROVE Step
  <2>1. \A k \in Code : /\ code'[k].status = "live" => code[k].status = "live"
                        /\ code'[k].status = "unused" <=> code[k].status = "unused"
    BY <1>1 DEF RegisterClient
  <2>2. \A s \in Request : req'[s].pc = "issuing" => req'[s] = req[s]
    BY <1>1 DEF RegisterClient
  <2>3. \A t \in Token : /\ token'[t].status = "live" =>
                              token[t].status = "live" /\ token'[t].code = token[t].code
                         /\ token'[t].status = "unused" <=> token[t].status = "unused"
    BY <1>1 DEF RegisterClient
  <2> QED
    BY <2>1, <2>2, <2>3, Dropped
<1>2. ASSUME NEW c \in Client, CreateClient(c) PROVE Step
  <2>1. \A k \in Code : /\ code'[k].status = "live" => code[k].status = "live"
                        /\ code'[k].status = "unused" <=> code[k].status = "unused"
    BY <1>2 DEF CreateClient, RegisterClient
  <2>2. \A s \in Request : req'[s].pc = "issuing" => req'[s] = req[s]
    BY <1>2 DEF CreateClient, RegisterClient
  <2>3. \A t \in Token : /\ token'[t].status = "live" =>
                              token[t].status = "live" /\ token'[t].code = token[t].code
                         /\ token'[t].status = "unused" <=> token[t].status = "unused"
    BY <1>2 DEF CreateClient, RegisterClient
  <2> QED
    BY <2>1, <2>2, <2>3, Dropped
<1>3. ASSUME NEW c \in Client, Authorize(c) PROVE Step
  <2>1. \A k \in Code : /\ code'[k].status = "live" => code[k].status = "live"
                        /\ code'[k].status = "unused" <=> code[k].status = "unused"
    BY <1>3 DEF Authorize
  <2>2. \A s \in Request : req'[s].pc = "issuing" => req'[s] = req[s]
    BY <1>3 DEF Authorize
  <2>3. \A t \in Token : /\ token'[t].status = "live" =>
                              token[t].status = "live" /\ token'[t].code = token[t].code
                         /\ token'[t].status = "unused" <=> token[t].status = "unused"
    BY <1>3 DEF Authorize
  <2> QED
    BY <2>1, <2>2, <2>3, Dropped
<1>4. ASSUME NEW c \in Client, DeleteClient(c) PROVE Step
  <2>1. \A k \in Code : /\ code'[k].status = "live" => code[k].status = "live"
                        /\ code'[k].status = "unused" <=> code[k].status = "unused"
    BY <1>4 DEF DeleteClient
  <2>2. \A s \in Request : req'[s].pc = "issuing" => req'[s] = req[s]
    BY <1>4 DEF DeleteClient
  <2>3. \A t \in Token : /\ token'[t].status = "live" =>
                              token[t].status = "live" /\ token'[t].code = token[t].code
                         /\ token'[t].status = "unused" <=> token[t].status = "unused"
    BY <1>4, MarkedTokens DEF DeleteClient
  <2> QED
    BY <2>1, <2>2, <2>3, Dropped
<1>5. ASSUME NEW r \in Request, BeginConsent(r) PROVE Step
  <2>1. \A k \in Code : /\ code'[k].status = "live" => code[k].status = "live"
                        /\ code'[k].status = "unused" <=> code[k].status = "unused"
    BY <1>5 DEF BeginConsent
  <2>2. \A s \in Request : req'[s].pc = "issuing" => req'[s] = req[s]
    BY <1>5 DEF BeginConsent
  <2>3. \A t \in Token : /\ token'[t].status = "live" =>
                              token[t].status = "live" /\ token'[t].code = token[t].code
                         /\ token'[t].status = "unused" <=> token[t].status = "unused"
    BY <1>5 DEF BeginConsent
  <2> QED
    BY <2>1, <2>2, <2>3, Dropped
<1>6. ASSUME NEW r \in Request, Approve(r) PROVE Step
  BY <1>6, CodeOffered DEF Grant!Next
<1>7. ASSUME NEW r \in Request, Deny(r) PROVE Step
  <2>1. \A k \in Code : /\ code'[k].status = "live" => code[k].status = "live"
                        /\ code'[k].status = "unused" <=> code[k].status = "unused"
    BY <1>7 DEF Deny
  <2>2. \A s \in Request : req'[s].pc = "issuing" => req'[s] = req[s]
    BY <1>7 DEF Deny
  <2>3. \A t \in Token : /\ token'[t].status = "live" =>
                              token[t].status = "live" /\ token'[t].code = token[t].code
                         /\ token'[t].status = "unused" <=> token[t].status = "unused"
    BY <1>7 DEF Deny
  <2> QED
    BY <2>1, <2>2, <2>3, Dropped
<1>8. ASSUME NEW r \in Request, BeginExchange(r) PROVE Step
  <2>1. \A k \in Code : /\ code'[k].status = "live" => code[k].status = "live"
                        /\ code'[k].status = "unused" <=> code[k].status = "unused"
    BY <1>8 DEF BeginExchange
  <2>2. \A s \in Request : req'[s].pc = "issuing" => req'[s] = req[s]
    BY <1>8 DEF BeginExchange
  <2>3. \A t \in Token : /\ token'[t].status = "live" =>
                              token[t].status = "live" /\ token'[t].code = token[t].code
                         /\ token'[t].status = "unused" <=> token[t].status = "unused"
    BY <1>8 DEF BeginExchange
  <2> QED
    BY <2>1, <2>2, <2>3, Dropped
<1>9. ASSUME NEW r \in Request, ClaimCode(r) PROVE Step
  <2>1. CASE code[req[r].code].status = "live"
    BY <1>9, <2>1, CodeTaken DEF Grant!Next
  <2>2. CASE code[req[r].code].status # "live"
    <3>1. \A k \in Code : /\ code'[k].status = "live" => code[k].status = "live"
                          /\ code'[k].status = "unused" <=> code[k].status = "unused"
      BY <1>9, <2>2 DEF ClaimCode
    <3>2. \A s \in Request : req'[s].pc = "issuing" => req'[s] = req[s]
      BY <1>9, <2>2 DEF ClaimCode
    <3>3. \A t \in Token : /\ token'[t].status = "live" =>
                                token[t].status = "live" /\ token'[t].code = token[t].code
                           /\ token'[t].status = "unused" <=> token[t].status = "unused"
      BY <1>9, <2>2 DEF ClaimCode
    <3> QED
      BY <3>1, <3>2, <3>3, Dropped
  <2> QED
    BY <2>1, <2>2
<1>10. ASSUME NEW r \in Request, BeginRefresh(r) PROVE Step
  <2>1. \A k \in Code : /\ code'[k].status = "live" => code[k].status = "live"
                        /\ code'[k].status = "unused" <=> code[k].status = "unused"
    BY <1>10 DEF BeginRefresh
  <2>2. \A s \in Request : req'[s].pc = "issuing" => req'[s] = req[s]
    BY <1>10 DEF BeginRefresh
  <2>3. \A t \in Token : /\ token'[t].status = "live" =>
                              token[t].status = "live" /\ token'[t].code = token[t].code
                         /\ token'[t].status = "unused" <=> token[t].status = "unused"
    BY <1>10 DEF BeginRefresh
  <2> QED
    BY <2>1, <2>2, <2>3, Dropped
<1>11. ASSUME NEW r \in Request, ClaimRefresh(r) PROVE Step
  <2>1. CASE IsLive(req[r].token)
    BY <1>11, <2>1, PairTaken DEF Grant!Next
  <2>2. CASE ~IsLive(req[r].token)
    <3>1. \A k \in Code : /\ code'[k].status = "live" => code[k].status = "live"
                          /\ code'[k].status = "unused" <=> code[k].status = "unused"
      BY <1>11, <2>2 DEF ClaimRefresh
    <3>2. \A s \in Request : req'[s].pc = "issuing" => req'[s] = req[s]
      BY <1>11, <2>2 DEF ClaimRefresh
    <3>3. \A t \in Token : /\ token'[t].status = "live" =>
                                token[t].status = "live" /\ token'[t].code = token[t].code
                           /\ token'[t].status = "unused" <=> token[t].status = "unused"
      BY <1>11, <2>2 DEF ClaimRefresh
    <3> QED
      BY <3>1, <3>2, <3>3, Dropped
  <2> QED
    BY <2>1, <2>2
<1>12. ASSUME NEW r \in Request, Issue(r) PROVE Step
  BY <1>12, PairIssued DEF Grant!Next
<1>13. ASSUME NEW h \in Token, RevokeToken(h) PROVE Step
  <2>1. \A k \in Code : /\ code'[k].status = "live" => code[k].status = "live"
                        /\ code'[k].status = "unused" <=> code[k].status = "unused"
    BY <1>13 DEF RevokeToken
  <2>2. \A s \in Request : req'[s].pc = "issuing" => req'[s] = req[s]
    BY <1>13 DEF RevokeToken
  <2>3. \A t \in Token : /\ token'[t].status = "live" =>
                              token[t].status = "live" /\ token'[t].code = token[t].code
                         /\ token'[t].status = "unused" <=> token[t].status = "unused"
    BY <1>13, MarkedTokens DEF RevokeToken
  <2> QED
    BY <2>1, <2>2, <2>3, Dropped
<1>14. ASSUME NEW u \in User, SignOut(u) PROVE Step
  <2>1. \A k \in Code : /\ code'[k].status = "live" => code[k].status = "live"
                        /\ code'[k].status = "unused" <=> code[k].status = "unused"
    BY <1>14, MarkedCodes DEF SignOut
  <2>2. \A s \in Request : req'[s].pc = "issuing" => req'[s] = req[s]
    BY <1>14 DEF SignOut
  <2>3. \A t \in Token : /\ token'[t].status = "live" =>
                              token[t].status = "live" /\ token'[t].code = token[t].code
                         /\ token'[t].status = "unused" <=> token[t].status = "unused"
    BY <1>14, MarkedTokens DEF SignOut
  <2> QED
    BY <2>1, <2>2, <2>3, Dropped
<1>15. CASE Expire
  <2>1. \A k \in Code : /\ code'[k].status = "live" => code[k].status = "live"
                        /\ code'[k].status = "unused" <=> code[k].status = "unused"
    BY <1>15 DEF Expire
  <2>2. \A s \in Request : req'[s].pc = "issuing" => req'[s] = req[s]
    BY <1>15 DEF Expire
  <2>3. \A t \in Token : /\ token'[t].status = "live" =>
                              token[t].status = "live" /\ token'[t].code = token[t].code
                         /\ token'[t].status = "unused" <=> token[t].status = "unused"
    BY <1>15 DEF Expire
  <2> QED
    BY <2>1, <2>2, <2>3, Dropped
<1>16. CASE Restart
  <2>1. \A s \in Request : req'[s].pc = "issuing" => req'[s] = req[s]
    BY <1>16 DEF Restart
  <2> QED
    BY <1>16, <2>1, Pruned, Dropped DEF Restart
<1>17. CASE RunCli
  <2>1. \A s \in Request : req'[s].pc = "issuing" => req'[s] = req[s]
    BY <1>17 DEF RunCli
  <2> QED
    BY <1>17, <2>1, Pruned, Dropped DEF RunCli
<1>18. CASE UNCHANGED vars
  <2>1. \A k \in Code : /\ code'[k].status = "live" => code[k].status = "live"
                        /\ code'[k].status = "unused" <=> code[k].status = "unused"
    BY <1>18 DEF vars
  <2>2. \A s \in Request : req'[s].pc = "issuing" => req'[s] = req[s]
    BY <1>18 DEF vars
  <2>3. \A t \in Token : /\ token'[t].status = "live" =>
                              token[t].status = "live" /\ token'[t].code = token[t].code
                         /\ token'[t].status = "unused" <=> token[t].status = "unused"
    BY <1>18 DEF vars
  <2> QED
    BY <2>1, <2>2, <2>3, Dropped
<1> QED
  BY <1>1, <1>2, <1>3, <1>4, <1>5, <1>6, <1>7, <1>8, <1>9, <1>10, <1>11, <1>12, <1>13, <1>14, <1>15, <1>16, <1>17, <1>18 DEF Next

\* The tables keep the promise of OAuthGrant, for any ids and any number of
\* requests: exchange and rotation never leave a grant in two pairs of hands.
THEOREM Implements == Spec => KeepsGrants
<1>1. Init => Grant!Init
  BY DEF Init, Grant!Init, Holders, IsLive, NoCode, NoToken, Idle
<1>2. IInv /\ [Next]_vars => [Grant!Next]_Grant!vars
  BY GrantStep
<1>3. QED
  BY Invariance, <1>1, <1>2, PTL DEF Spec, KeepsGrants, Grant!Spec
=============================================================================
