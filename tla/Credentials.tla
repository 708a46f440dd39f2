----------------------------- MODULE Credentials -----------------------------
(***************************************************************************)
(* Passwords and what a password buys: portal sessions, single-use launch  *)
(* tokens, app sessions on the app subdomains, API tokens.  Login, logout, *)
(* password change and reset, opening an app and exchanging its launch     *)
(* token run on a thread pool; a request is a sequence of steps, one for   *)
(* each commit (or read whose result is used after the next commit).       *)
(*                                                                         *)
(* A password is a version number: every change or reset writes a fresh    *)
(* one.  Each credential remembers, as history, the version its holder     *)
(* proved at the login it descends from.                                   *)
(*                                                                         *)
(* Left out: wall-clock expiry of sessions (an expired row is one nobody   *)
(* can use any more), roles and account deletion (AdminAccounts), OAuth    *)
(* grants (OAuthServer), the login throttle.                               *)
(***************************************************************************)
EXTENDS Integers, FiniteSets

CONSTANTS
  User, App,
  Cid,           \* credential ids (random tokens); each is used once
  Request,       \* request slots
  None,
  MaxPasswords,  \* bound on password versions
  MaxRestarts    \* bound on deaths of the portal process

ASSUME NoneAssumption     == None \notin User \cup App \cup Cid
ASSUME BoundsAssumption   == MaxPasswords \in Nat /\ MaxRestarts \in Nat

VARIABLES
  password,   \* User.password_hash, as a version
  cutoff,     \* history: the last version written by an admin or CLI reset
  cred,       \* the rows of UserSession, AppLaunchToken, AppSession, ApiToken
  req, restarts

vars == <<password, cutoff, cred, req, restarts>>

Kinds == {"portal", "launch", "app", "api"}

\* `via` is the launch token an app session was exchanged for; `late` says the
\* row was written when its password had been replaced already.
Row == [kind : Kinds \cup {"none"}, user : User \cup {None}, app : App \cup {None},
        status : {"live", "revoked", "consumed", "deleted"},
        via : Cid \cup {None}, root : 0..MaxPasswords, late : BOOLEAN]

Unused == [kind |-> "none", user |-> None, app |-> None, status |-> "deleted",
           via |-> None, root |-> 0, late |-> FALSE]

Ops == {"none", "login", "logout", "change", "reset", "open", "exchange", "mint"}
PCs == {"idle", "changing", "sessions", "apps", "grants", "own",
        "claimed", "creating"}

RequestState ==
  [op : Ops, pc : PCs, user : User \cup {None}, app : App \cup {None},
   cid : Cid \cup {None}, root : 0..MaxPasswords]

Idle == [op |-> "none", pc |-> "idle", user |-> None, app |-> None,
         cid |-> None, root |-> 0]

Live(kind)    == {c \in Cid : cred[c].kind = kind /\ cred[c].status = "live"}
LiveOf(kind, u) == {c \in Live(kind) : cred[c].user = u}

\* The password was replaced since: for API tokens only a reset counts, a
\* user's own change keeps them.
Superseded(kind, u, root) ==
  IF kind = "api" THEN root < cutoff[u] ELSE root < password[u]

-----------------------------------------------------------------------------
Init ==
  /\ password = [u \in User |-> 0]
  /\ cutoff = [u \in User |-> 0]
  /\ cred = [c \in Cid |-> Unused]
  /\ req = [r \in Request |-> Idle]
  /\ restarts = 0

Accept(r, rec) == req[r] = Idle /\ req' = [req EXCEPT ![r] = rec]
Goto(r, pc)    == req' = [req EXCEPT ![r].pc = pc]
Finish(r)      == req' = [req EXCEPT ![r] = Idle]

At(r, op, pc) == req[r].op = op /\ req[r].pc = pc

\* INSERT of a row by request r; its id was never used before.
Insert(r, kind, via) ==
  LET q == req[r] IN
  \E c \in Cid :
    /\ cred[c] = Unused
    /\ cred' = [cred EXCEPT ![c] =
         [kind |-> kind, user |-> q.user, app |-> q.app, status |-> "live",
          via |-> via, root |-> q.root, late |-> Superseded(kind, q.user, q.root)]]

SetStatus(C, status) ==
  cred' = [c \in Cid |-> IF c \in C THEN [cred[c] EXCEPT !.status = status] ELSE cred[c]]

-----------------------------------------------------------------------------
\* POST /login: the hash is read and verified, then (bcrypt, two audit commits
\* later) the session row is written.
VerifyLogin(r) ==
  /\ \E u \in User :
       Accept(r, [Idle EXCEPT !.op = "login", !.pc = "creating",
                              !.user = u, !.root = password[u]])
  /\ UNCHANGED <<password, cutoff, cred, restarts>>

\* create_session, at the end of a login or of a password change.
CreateSession(r) ==
  /\ At(r, "login", "creating") \/ At(r, "change", "creating")
  /\ Insert(r, "portal", None)
  /\ Finish(r)
  /\ UNCHANGED <<password, cutoff, restarts>>

\* Mutant: the session and its user are swapped.
BeginLogoutSwapped(r) ==
  /\ \E c \in Live("portal") :
       Accept(r, [Idle EXCEPT !.op = "logout", !.pc = "apps",
                              !.user = c, !.cid = cred[c].user])
  /\ UNCHANGED <<password, cutoff, cred, restarts>>

\* POST /logout: app sessions first, then the session itself.
BeginLogout(r) ==
  /\ \E c \in Live("portal") :
       Accept(r, [Idle EXCEPT !.op = "logout", !.pc = "apps",
                              !.user = cred[c].user, !.cid = c])
  /\ UNCHANGED <<password, cutoff, cred, restarts>>

RevokeOwnSession(r) ==
  /\ At(r, "logout", "own")
  /\ SetStatus({req[r].cid} \cap Live("portal"), "revoked")
  /\ Finish(r)
  /\ UNCHANGED <<password, cutoff, restarts>>

-----------------------------------------------------------------------------
\* POST /profile/change-password: the hash the old password is checked against
\* is the one read when the request was authenticated.
BeginChange(r) ==
  /\ \E c \in Live("portal") :
       Accept(r, [Idle EXCEPT !.op = "change", !.pc = "changing",
                              !.user = cred[c].user, !.root = password[cred[c].user]])
  /\ UNCHANGED <<password, cutoff, cred, restarts>>

\* The UPDATE is unconditional: it replaces whatever hash is there by now.
CommitChange(r) ==
  LET u == req[r].user IN
  /\ At(r, "change", "changing")
  /\ password[u] < MaxPasswords
  /\ password' = [password EXCEPT ![u] = @ + 1]
  /\ req' = [req EXCEPT ![r].pc = "sessions", ![r].root = password[u] + 1]
  /\ UNCHANGED <<cutoff, cred, restarts>>

\* Admin or CLI reset: the new hash is one commit, what follows another three.
CommitReset(r) ==
  /\ \E u \in User :
       /\ password[u] < MaxPasswords
       /\ password' = [password EXCEPT ![u] = @ + 1]
       /\ cutoff' = [cutoff EXCEPT ![u] = password[u] + 1]
       /\ Accept(r, [Idle EXCEPT !.op = "reset", !.pc = "sessions", !.user = u])
  /\ UNCHANGED <<cred, restarts>>

\* Mutant: portal sessions only.
RevokePortalSessionsOnly(r) ==
  /\ req[r].pc = "sessions"
  /\ SetStatus(LiveOf("portal", req[r].user), "revoked")
  /\ Goto(r, "grants")
  /\ UNCHANGED <<password, cutoff, restarts>>

\* sign_out_everywhere: portal sessions, app sessions, then launch tokens and,
\* after a reset, API tokens.
RevokeSessions(r) ==
  /\ req[r].pc = "sessions"
  /\ SetStatus(LiveOf("portal", req[r].user), "revoked")
  /\ Goto(r, "apps")
  /\ UNCHANGED <<password, cutoff, restarts>>

RevokeAppSessions(r) ==
  /\ req[r].pc = "apps"
  /\ SetStatus(LiveOf("app", req[r].user), "revoked")
  /\ Goto(r, IF req[r].op = "logout" THEN "own" ELSE "grants")
  /\ UNCHANGED <<password, cutoff, restarts>>

\* Mutant: a reset keeps API tokens, as a change of password does.
DeleteLaunchTokens(r) ==
  LET q == req[r] IN
  /\ q.pc = "grants"
  /\ SetStatus({c \in Cid : cred[c].kind = "launch" /\ cred[c].user = q.user}, "deleted")
  /\ IF q.op = "change" THEN Goto(r, "creating") ELSE Finish(r)
  /\ UNCHANGED <<password, cutoff, restarts>>

DeleteGrants(r) ==
  LET q     == req[r]
      kinds == IF q.op = "reset" THEN {"launch", "api"} ELSE {"launch"}
  IN
  /\ q.pc = "grants"
  /\ SetStatus({c \in Cid : cred[c].kind \in kinds /\ cred[c].user = q.user}, "deleted")
  /\ IF q.op = "change" THEN Goto(r, "creating") ELSE Finish(r)
  /\ UNCHANGED <<password, cutoff, restarts>>

-----------------------------------------------------------------------------
\* GET /apps/<slug>/ and POST /admin/tokens: authenticated by a portal session,
\* which is not looked at again when the row is written.
BeginMint(r) ==
  /\ \E c \in Live("portal"), op \in {"open", "mint"}, a \in App \cup {None} :
       /\ (op = "open") <=> (a # None)
       /\ Accept(r, [op |-> op, pc |-> "creating", user |-> cred[c].user, app |-> a,
                     cid |-> None, root |-> cred[c].root])
  /\ UNCHANGED <<password, cutoff, cred, restarts>>

MintLaunchToken(r) ==
  /\ At(r, "open", "creating")
  /\ Insert(r, "launch", None)
  /\ Finish(r)
  /\ UNCHANGED <<password, cutoff, restarts>>

MintApiToken(r) ==
  /\ At(r, "mint", "creating")
  /\ Insert(r, "api", None)
  /\ Finish(r)
  /\ UNCHANGED <<password, cutoff, restarts>>

\* Mutant: the token is looked up now and marked by nobody.
ReadLaunchToken(r) ==
  \E c \in Live("launch"), h \in App :
    /\ cred' = cred
    /\ Accept(r, [Idle EXCEPT !.op = "exchange", !.pc = "claimed", !.app = h, !.cid = c])
    /\ UNCHANGED <<password, cutoff, restarts>>

\* POST /api/v1/session/exchange on the subdomain of app h: one UPDATE claims
\* the token if nobody has.
ClaimLaunchToken(r) ==
  \E c \in Live("launch"), h \in App :
    /\ SetStatus({c}, "consumed")
    /\ Accept(r, [Idle EXCEPT !.op = "exchange", !.pc = "claimed", !.app = h, !.cid = c])
    /\ UNCHANGED <<password, cutoff, restarts>>

\* Then the row is read back: gone, or of another app, or expired (which any
\* token may be), and the claim was for nothing.
ValidateLaunchToken(r) ==
  LET t == cred[req[r].cid] IN
  /\ At(r, "exchange", "claimed")
  /\ \/ Finish(r)
     \/ /\ t.status # "deleted" /\ t.app = req[r].app
        /\ req' = [req EXCEPT ![r].pc = "creating", ![r].user = t.user, ![r].root = t.root]
  /\ UNCHANGED <<password, cutoff, cred, restarts>>

CreateAppSession(r) ==
  /\ At(r, "exchange", "creating")
  /\ Insert(r, "app", req[r].cid)
  /\ Finish(r)
  /\ UNCHANGED <<password, cutoff, restarts>>

-----------------------------------------------------------------------------
Restart ==
  /\ restarts < MaxRestarts
  /\ restarts' = restarts + 1
  /\ req' = [r \in Request |-> Idle]
  /\ UNCHANGED <<password, cutoff, cred>>

Arrive(r) ==
  \/ VerifyLogin(r) \/ BeginLogout(r) \/ BeginChange(r) \/ CommitReset(r)
  \/ BeginMint(r) \/ ClaimLaunchToken(r)

Continue(r) ==
  \/ CreateSession(r) \/ RevokeOwnSession(r)
  \/ CommitChange(r) \/ RevokeSessions(r) \/ RevokeAppSessions(r) \/ DeleteGrants(r)
  \/ MintLaunchToken(r) \/ MintApiToken(r)
  \/ ValidateLaunchToken(r) \/ CreateAppSession(r)

Next == (\E r \in Request : Arrive(r) \/ Continue(r)) \/ Restart

Spec == Init /\ [][Next]_vars

\* A request that was accepted runs on: its thread waits for nobody.
FairSpec == Spec /\ \A r \in Request : WF_vars(Continue(r))

-----------------------------------------------------------------------------
\* Rows and requests hold what the tables and handlers can hold.
TypeOK ==
  /\ password \in [User -> 0..MaxPasswords]
  /\ cutoff \in [User -> 0..MaxPasswords]
  /\ cred \in [Cid -> Row]
  /\ req \in [Request -> RequestState]
  /\ restarts \in 0..MaxRestarts

\* A launch token buys one app session at most, for the user and the app it was
\* minted for, whoever else presents it at the same time (api.py
\* session_exchange: "SQL guarantees only one concurrent request").
OneSessionPerLaunch ==
  \A c \in Cid : cred[c].kind = "app" =>
    LET t == cred[cred[c].via] IN
    /\ t.kind = "launch" /\ t.user = cred[c].user /\ t.app = cred[c].app
    /\ t.status \in {"consumed", "deleted"}
    /\ \A d \in Cid : cred[d].kind = "app" /\ cred[d].via = cred[c].via => d = c

\* A sign-out of u has still to reach the rows of this kind.
Reaches(kind, u) ==
  \E r \in Request :
    /\ req[r].user = u
    /\ req[r].op = "reset" \/ (req[r].op = "change" /\ kind # "api")
    /\ CASE kind = "portal" -> req[r].pc = "sessions"
         [] kind = "app"    -> req[r].pc \in {"sessions", "apps"}
         [] OTHER           -> req[r].pc \in {"sessions", "apps", "grants"}

\* Whatever was obtained under a password dies with it: a live credential of a
\* replaced password is one the running sign-out has yet to reach, or one that
\* was written after its password was gone (sessions.py sign_out_everywhere).
\* A crash in the midst of a sign-out is never made up for, so it is said of runs
\* without one.
SignOutComplete ==
  restarts = 0 =>
    \A c \in Cid :
      LET k == cred[c] IN
      k.status = "live" /\ ~k.late /\ Superseded(k.kind, k.user, k.root)
        => Reaches(k.kind, k.user)

\* Every credential of a replaced password that was there when it was replaced
\* is eventually ended, unless the portal dies.
SignOutHappens ==
  \A c \in Cid :
    cred[c].status = "live" /\ ~cred[c].late /\ cred[c].kind # "none"
      /\ Superseded(cred[c].kind, cred[c].user, cred[c].root)
    ~> cred[c].status # "live" \/ restarts > 0

\* Not kept, and no run checks it (README).  sessions.py, sign_out_everywhere: "End
\* every session and grant `user_id` holds", so that nothing "outlive[s] the reset meant to lock the attacker
\* out": with no request running, no live credential predates the last reset.
ResetLocksOut ==
  (\A r \in Request : req[r] = Idle) =>
    \A c \in Cid : cred[c].status = "live" => cred[c].root >= cutoff[cred[c].user]
=============================================================================
