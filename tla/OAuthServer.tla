----------------------------- MODULE OAuthServer -----------------------------
(***************************************************************************)
(* The portal as OAuth authorization server for MCP clients: registration, *)
(* the parked authorization requests an admin consents to, single-use      *)
(* codes, access/refresh token pairs and their rotation, and everything    *)
(* that ends a grant.                                                      *)
(*                                                                         *)
(* Two kinds of handler meet here.  The consent page and the admin pages   *)
(* are threads of the pool.  The provider's methods are coroutines that    *)
(* never await, so no two of them interleave; but each makes several       *)
(* commits, and threads run between those.                                 *)
(*                                                                         *)
(* Time is a choice: whatever may have expired by now, expires or not.     *)
(* Left out: PKCE, redirect URIs, scopes, secrets (the SDK compares them   *)
(* before a step below is reached) and the per-address rate limiter.       *)
(***************************************************************************)
EXTENDS Integers, FiniteSets

CONSTANTS
  User,                \* admins who may consent
  Client, Code, Token, \* random ids; each is used once
  Request,             \* requests in flight that span several commits
  None,
  MaxPendingPerClient, \* _MAX_PENDING_PER_CLIENT
  MaxLivePending,      \* _MAX_LIVE_PENDING
  MaxAuthorizations,   \* bound on authorization requests
  MaxRestarts          \* bound on restarts of the portal

ASSUME NoneAssumption == None \notin User \cup Client \cup Code \cup Token
ASSUME DisjointAssumption ==
  Code \cap Token = {} /\ Code \cap Request = {} /\ Token \cap Request = {}
ASSUME CapAssumption  == /\ MaxPendingPerClient \in Nat \ {0}
                         /\ MaxLivePending \in Nat \ {0}
ASSUME BoundAssumption ==
  MaxAuthorizations \in Nat /\ MaxRestarts \in Nat

VARIABLES
  client,    \* OAuthClient: which ids have a row
  pending,   \* OAuthPendingAuthorization; txn numbers them by expires_at
  parked,    \* how many authorization requests were ever parked
  expired,   \* how many of those, the oldest, are past expires_at
  code,      \* OAuthCode
  token,     \* OAuthToken
  ended,     \* history: the grants, by their codes, that were ended wholesale
  req, restarts

vars ==
  <<client, pending, parked, expired, code, token, ended, req, restarts>>

Pending == [txn : 1..MaxAuthorizations, client : Client]

CodeRow == [status : {"unused", "live", "claimed", "deleted"},
            client : Client \cup {None}, user : User \cup {None}]

\* `code` is the code the row descends from and `parent` the row it replaced.
TokenRow == [status : {"unused", "live", "revoked", "deleted"},
             code : Code \cup {None}, parent : Token \cup {None}]

RequestState ==
  [op : {"none", "consent", "exchange", "refresh"}, pc : {"idle", "approving", "claiming", "issuing"},
   txn : 0..MaxAuthorizations, client : Client \cup {None}, user : User \cup {None},
   code : Code \cup {None}, token : Token \cup {None}]

NoCode  == [status |-> "unused", client |-> None, user |-> None]
NoToken == [status |-> "unused", code |-> None, parent |-> None]
Idle    == [op |-> "none", pc |-> "idle", txn |-> 0, client |-> None, user |-> None,
            code |-> None, token |-> None]

Init ==
  /\ client = [c \in Client |-> "absent"]
  /\ pending = {}
  /\ parked = 0
  /\ expired = 0
  /\ code = [k \in Code |-> NoCode]
  /\ token = [t \in Token |-> NoToken]
  /\ ended = {}
  /\ req = [r \in Request |-> Idle]
  /\ restarts = 0

-----------------------------------------------------------------------------
Accept(r, rec) == req[r] = Idle /\ req' = [req EXCEPT ![r] = rec]
Finish(r)      == req' = [req EXCEPT ![r] = Idle]

\* No coroutine is between two of its commits.
LoopFree == \A r \in Request : req[r].op \notin {"exchange", "refresh"}

\* Mutant: every client's requests count.
OfAnyone(P, c) == P

\* The requests of client c among P.
OfClient(P, c) == {p \in P : p.client = c}

\* Mutant: room up to the cap, none for the new request.
MakeNoRoom(P, S, cap) ==
  P \ {p \in S : Cardinality({o \in S : o.txn <= p.txn}) <= Cardinality(S) - cap}

\* P without the oldest requests of S, enough of them to add one below the cap.
MakeRoom(P, S, cap) ==
  P \ {p \in S : Cardinality({o \in S : o.txn <= p.txn}) <= Cardinality(S) - cap + 1}

\* The parked requests that still count; ttl is the same for all of them.
Unexpired == {p \in pending : p.txn > expired}

TokenOf(t)  == code[token[t].code]
IsLive(t)   == token[t].status = "live"
SetToken(T, status) ==
  token' = [t \in Token |-> IF t \in T THEN [token[t] EXCEPT !.status = status] ELSE token[t]]
SetCode(K, status) ==
  code' = [k \in Code |-> IF k \in K THEN [code[k] EXCEPT !.status = status] ELSE code[k]]

-----------------------------------------------------------------------------
\* Dynamic registration, by anyone.
RegisterClient(c) ==
  /\ client[c] = "absent"
  /\ client' = [client EXCEPT ![c] = "registered"]
  /\ UNCHANGED <<pending, parked, expired, code, token, ended, req, restarts>>

\* A client an admin creates, with a secret shown once.
CreateClient(c) == RegisterClient(c)

\* The oldest request that had not expired now has.
Expire ==
  /\ expired < parked
  /\ expired' = expired + 1
  /\ UNCHANGED <<client, pending, parked, code, token, ended, req, restarts>>

\* authorize: sweep what has expired, make room below the client's cap and then
\* below the table's, and park the request.
Authorize(c) ==
  /\ LoopFree
  /\ client[c] = "registered"
  /\ parked < MaxAuthorizations
  /\ LET room == MakeRoom(Unexpired, OfClient(Unexpired, c), MaxPendingPerClient)
     IN  pending' = MakeRoom(room, room, MaxLivePending)
                      \cup {[txn |-> parked + 1, client |-> c]}
  /\ parked' = parked + 1
  /\ UNCHANGED <<client, expired, code, token, ended, req, restarts>>

\* POST /oauth/consent by an admin: the parked request is read ...
BeginConsent(r) ==
  /\ \E u \in User, p \in Unexpired :
       Accept(r, [Idle EXCEPT !.op = "consent", !.pc = "approving", !.txn = p.txn,
                              !.client = p.client, !.user = u])
  /\ UNCHANGED <<client, pending, parked, expired, code, token, ended, restarts>>

Unpark(txn) == pending' = {p \in pending : p.txn # txn}

\* ... and, on approval, traded for a code.  Deleting a row that is gone by
\* then is no error, so a second approval of one request is a second code.  A
\* code for a client deleted meanwhile opens a grant that has ended.
Approve(r) ==
  LET q == req[r] IN
  /\ q.op = "consent"
  /\ Unpark(q.txn)
  /\ \E k \in Code :
       /\ code[k].status = "unused"
       /\ code' = [code EXCEPT ![k] = [status |-> "live", client |-> q.client, user |-> q.user]]
       /\ ended' = IF client[q.client] = "registered" THEN ended ELSE ended \cup {k}
  /\ Finish(r)
  /\ UNCHANGED <<client, parked, expired, token, restarts>>

Deny(r) ==
  /\ req[r].op = "consent"
  /\ Unpark(req[r].txn)
  /\ Finish(r)
  /\ UNCHANGED <<client, parked, expired, code, token, ended, restarts>>

-----------------------------------------------------------------------------
\* POST /token with a code: the SDK authenticates the client and loads the
\* code; exchange_authorization_code reads the row ...
BeginExchange(r) ==
  /\ LoopFree
  /\ \E k \in Code :
       /\ code[k].status = "live" /\ client[code[k].client] = "registered"
       /\ Accept(r, [Idle EXCEPT !.op = "exchange", !.pc = "claiming", !.code = k])
  /\ UNCHANGED <<client, pending, parked, expired, code, token, ended, restarts>>

\* Mutant: the number of rows deleted is not looked at.
ClaimCodeUnchecked(r) ==
  LET k == req[r].code IN
  /\ req[r].op = "exchange" /\ req[r].pc = "claiming"
  /\ SetCode({k} \cap {l \in Code : code[l].status = "live"}, "claimed")
  /\ req' = [req EXCEPT ![r].pc = "issuing"]
  /\ UNCHANGED <<client, pending, parked, expired, token, ended, restarts>>

\* ... deletes it, and goes on only if it was there to delete ...
ClaimCode(r) ==
  LET k == req[r].code IN
  /\ req[r].op = "exchange" /\ req[r].pc = "claiming"
  /\ IF code[k].status = "live"
       THEN SetCode({k}, "claimed") /\ req' = [req EXCEPT ![r].pc = "issuing"]
       ELSE code' = code /\ Finish(r)
  /\ UNCHANGED <<client, pending, parked, expired, token, ended, restarts>>

\* POST /token with a refresh token, likewise: the pair's row is marked revoked.
BeginRefresh(r) ==
  /\ LoopFree
  /\ \E t \in Token :
       /\ IsLive(t) /\ client[TokenOf(t).client] = "registered"
       /\ Accept(r, [Idle EXCEPT !.op = "refresh", !.pc = "claiming",
                                 !.code = token[t].code, !.token = t])
  /\ UNCHANGED <<client, pending, parked, expired, code, token, ended, restarts>>

\* Mutant: the old pair is not revoked.
KeepRefresh(r) ==
  /\ req[r].op = "refresh" /\ req[r].pc = "claiming"
  /\ IF IsLive(req[r].token) THEN req' = [req EXCEPT ![r].pc = "issuing"] ELSE Finish(r)
  /\ UNCHANGED <<client, pending, parked, expired, code, token, ended, restarts>>

ClaimRefresh(r) ==
  LET t == req[r].token IN
  /\ req[r].op = "refresh" /\ req[r].pc = "claiming"
  /\ IF IsLive(t)
       THEN SetToken({t}, "revoked") /\ req' = [req EXCEPT ![r].pc = "issuing"]
       ELSE token' = token /\ Finish(r)
  /\ UNCHANGED <<client, pending, parked, expired, code, ended, restarts>>

\* Mutant: code and parent are swapped.
IssueSwapped(r) ==
  LET q == req[r] IN
  /\ q.pc = "issuing"
  /\ \E t \in Token :
       /\ token[t].status = "unused"
       /\ token' = [token EXCEPT ![t] =
            [status |-> "live", code |-> q.token, parent |-> q.code]]
  /\ Finish(r)
  /\ UNCHANGED <<client, pending, parked, expired, code, ended, restarts>>

\* ... and issues a pair, in a transaction of its own that checks nothing.
Issue(r) ==
  LET q == req[r] IN
  /\ q.pc = "issuing"
  /\ \E t \in Token :
       /\ token[t].status = "unused"
       /\ token' = [token EXCEPT ![t] =
            [status |-> "live", code |-> q.code, parent |-> q.token]]
  /\ Finish(r)
  /\ UNCHANGED <<client, pending, parked, expired, code, ended, restarts>>

\* POST /revoke.
RevokeToken(t) ==
  /\ LoopFree
  /\ IsLive(t) /\ client[TokenOf(t).client] = "registered"
  /\ SetToken({t}, "revoked")
  /\ UNCHANGED <<client, pending, parked, expired, code, ended, req, restarts>>

-----------------------------------------------------------------------------
\* The grants that an exchange or a rotation carries from its claim to its pair ...
Claimed == {req[r].code : r \in {s \in Request : req[s].pc = "issuing"}}

\* ... and those of any exchange whose client has been looked up.
LetIn == {req[r].code : r \in {s \in Request : req[s].op = "exchange"}} \cup Claimed

\* A password reset or change, a demotion or a deletion takes all of a user's
\* codes and tokens (sessions.py), in one commit.
SignOut(u) ==
  /\ ended' = ended \cup ({k \in Code : code[k].user = u} \ Claimed)
  /\ SetToken({t \in Token : token[t].status \in {"live", "revoked"} /\ TokenOf(t).user = u},
              "deleted")
  /\ SetCode({k \in Code : code[k].status = "live" /\ code[k].user = u}, "deleted")
  /\ UNCHANGED <<client, pending, parked, expired, req, restarts>>

\* Mutant: the client's tokens stay.
DeleteClientOnly(c) ==
  /\ client[c] = "registered"
  /\ client' = [client EXCEPT ![c] = "removed"]
  /\ ended' = ended \cup ({k \in Code : code[k].client = c} \ LetIn)
  /\ UNCHANGED <<pending, parked, expired, code, token, req, restarts>>

\* Admin page: the client and its tokens, but not its codes.
DeleteClient(c) ==
  /\ client[c] = "registered"
  /\ client' = [client EXCEPT ![c] = "removed"]
  /\ ended' = ended \cup ({k \in Code : code[k].client = c} \ LetIn)
  /\ SetToken({t \in Token : token[t].status \in {"live", "revoked"} /\ TokenOf(t).client = c},
              "deleted")
  /\ UNCHANGED <<pending, parked, expired, code, req, restarts>>

\* prune_oauth, when the codes K and the token pairs T have expired and the
\* clients C are over a week old.
Prune(K, T, C) ==
  LET kept == {t \in Token \ T : token[t].status \in {"live", "revoked"}}
      gone == C \ {TokenOf(t).client : t \in kept}
  IN
  /\ pending' = Unexpired
  /\ SetCode(K, "deleted")
  /\ SetToken(T, "deleted")
  /\ client' = [c \in Client |-> IF c \in gone THEN "removed" ELSE client[c]]
  /\ ended' = ended \cup ({k \in Code : code[k].client \in gone} \ LetIn')

\* init_db prunes whatever has expired by then.  A lapsed pair is a month old,
\* and its client older.
InitDb ==
  \E K \in SUBSET {k \in Code : code[k].status = "live"},
     T \in SUBSET {t \in Token : token[t].status \in {"live", "revoked"}},
     C \in SUBSET {c \in Client : client[c] = "registered"} :
    /\ \A t \in T : client[TokenOf(t).client] = "registered" => TokenOf(t).client \in C
    /\ Prune(K, T, C)

Restart ==
  /\ restarts < MaxRestarts
  /\ restarts' = restarts + 1
  /\ req' = [r \in Request |-> Idle]
  /\ InitDb
  /\ UNCHANGED <<parked, expired>>

\* Any command of portal.cli calls init_db too, in a process of its own while
\* the portal serves.
RunCli ==
  /\ UNCHANGED <<parked, expired, req, restarts>>
  /\ InitDb

Next ==
  \/ \E c \in Client :
       RegisterClient(c) \/ CreateClient(c) \/ Authorize(c) \/ DeleteClient(c)
  \/ \E r \in Request : \/ BeginConsent(r) \/ Approve(r) \/ Deny(r)
                        \/ BeginExchange(r) \/ ClaimCode(r)
                        \/ BeginRefresh(r) \/ ClaimRefresh(r) \/ Issue(r)
  \/ \E t \in Token : RevokeToken(t)
  \/ \E u \in User : SignOut(u)
  \/ Expire \/ Restart \/ RunCli

Spec == Init /\ [][Next]_vars

-----------------------------------------------------------------------------
\* Tables, requests and history stay within their types.
TypeOK ==
  /\ client \in [Client -> {"absent", "registered", "removed"}]
  /\ pending \in SUBSET Pending
  /\ parked \in 0..MaxAuthorizations /\ expired \in 0..parked
  /\ code \in [Code -> CodeRow]
  /\ token \in [Token -> TokenRow]
  /\ ended \in SUBSET Code
  /\ req \in [Request -> RequestState]
  /\ restarts \in 0..MaxRestarts

\* A grant has one usable token pair at a time, however often it is rotated.
OnePairPerGrant ==
  \A s, t \in Token : IsLive(s) /\ IsLive(t) /\ token[s].code = token[t].code => s = t

\* The parked requests stay within both caps (oauth.py authorize).
PendingBounded ==
  /\ Cardinality(pending) <= MaxLivePending
  /\ \A c \in Client : Cardinality(OfClient(pending, c)) <= MaxPendingPerClient

\* While the table is below its own cap a client's requests, however many,
\* cost no other client a request that is still waiting for consent.
OthersUndisturbed ==
  [][\A c \in Client :
       Authorize(c) /\ Cardinality(Unexpired) < MaxLivePending =>
         \A p \in Unexpired : p.client # c => p \in pending']_vars

\* Whatever signs a user out ends every grant the user gave, and deleting a
\* client, or pruning it, ends every grant given to it: no pair of an ended grant
\* is usable ever after, and no code of it buys one.  Not ended are the grants
\* that a request in flight carries past the event: a sign-out misses an exchange
\* or a rotation past its claim, and a consent whose admin was authenticated
\* before (its code is minted after); the deletion of a client misses an exchange
\* that was let in before and a rotation past its claim.
DeadGrants == \A t \in Token : IsLive(t) => token[t].code \notin ended

\* Who carries the grant a code opened: the code, a request between the claim
\* and the new pair, a live pair.
Holders(k) ==
  {c \in {k} : code[c].status = "live"}
    \cup {r \in Request : req[r].pc = "issuing" /\ req[r].code = k}
    \cup {t \in Token : IsLive(t) /\ token[t].code = k}

Grant == INSTANCE OAuthGrant WITH
           Grant <- Code, Credential <- Code \cup Token,
           opened <- {k \in Code : code[k].status # "unused"},
           holders <- [k \in Code |-> Holders(k)],
           spent <- {k \in Code : code[k].status # "unused"}
                      \cup {t \in Token : token[t].status # "unused"}

\* The tables keep the promise of OAuthGrant: claims, rotations, sign-outs, the
\* deletion of clients and crashes, in any order, never leave a grant in two
\* pairs of hands, and a grant that ended never comes back.
KeepsGrants == Grant!Spec

\* What docs/mcp.md says of the deletion of a client (it revokes the client and
\* any tokens it issued), without the exception above.  Not kept.
DeletedClientsGone ==
  \A t \in Token : IsLive(t) => client[TokenOf(t).client] = "registered"
=============================================================================
