---------------------------- MODULE AdminAccounts ----------------------------
(***************************************************************************)
(* Accounts, roles and API tokens of the portal: first-run setup, the      *)
(* admin pages that create, demote, promote and delete accounts and mint   *)
(* or revoke API tokens, and the `portal promote` command.                 *)
(*                                                                         *)
(* Synchronous handlers run on a thread pool, so a request is a sequence   *)
(* of steps and the steps of two requests interleave.  A step is a piece   *)
(* of a handler that no other request can observe half way: the requests   *)
(* share nothing but the database, where a SELECT reads what is committed  *)
(* and a commit is atomic, and two process-wide locks.                     *)
(*                                                                         *)
(* Left out: sessions (Credentials), OAuth rows (OAuthServer), share links *)
(* (ShareLinks), app access rows, and everything about e-mail addresses    *)
(* and passwords but that a create may be refused.                         *)
(***************************************************************************)
EXTENDS Integers, FiniteSets

CONSTANTS
  UserId,       \* account ids; bounds how many accounts are ever created
  Request,      \* request slots: threads of the pool, or runs of the CLI
  NoUser,
  NoRequest,
  MaxRestarts   \* bound: how often the portal process may die

ASSUME UserIdAssumption    == IsFiniteSet(UserId) /\ NoUser \notin UserId
ASSUME RequestAssumption   == NoRequest \notin Request
ASSUME RestartsAssumption  == MaxRestarts \in Nat

VARIABLES
  role,           \* User table: role of each id, "absent" when it has no row
  issued,         \* sqlite_sequence: the ids AUTOINCREMENT has given out
  apiTokens,      \* ApiToken table
  setupComplete,  \* Setting "setup_complete"
  founders,       \* history: accounts created by first-run setup
  setupLock,      \* holder of main._setup_lock
  adminLock,      \* holder of admin._admin_change_lock
  req,            \* what each request is doing
  restarts

vars == <<role, issued, apiTokens, setupComplete, founders,
          setupLock, adminLock, req, restarts>>

Roles == {"user", "admin"}

\* `late` is history: the owner was no longer an admin when the row was written.
Token == [owner : UserId, late : BOOLEAN]

Ops == {"none", "setup", "create", "set_role", "delete",
        "mint", "revoke_token", "promote"}

PCs == {"idle", "authorized", "locked", "counting", "writing", "revoking"}

RequestState ==
  [op : Ops, pc : PCs, actor : UserId \cup {NoUser},
   target : UserId \cup {NoUser}, want : Roles, was : Roles]

Idle == [op |-> "none", pc |-> "idle", actor |-> NoUser,
         target |-> NoUser, want |-> "user", was |-> "user"]

Admins == {u \in UserId : role[u] = "admin"}

-----------------------------------------------------------------------------
Init ==
  /\ role = [u \in UserId |-> "absent"]
  /\ issued = {}
  /\ apiTokens = {}
  /\ setupComplete = FALSE
  /\ founders = {}
  /\ setupLock = NoRequest
  /\ adminLock = NoRequest
  /\ req = [r \in Request |-> Idle]
  /\ restarts = 0

Accept(r, rec) == req[r] = Idle /\ req' = [req EXCEPT ![r] = rec]
Goto(r, pc)    == req' = [req EXCEPT ![r].pc = pc]
Finish(r)      == req' = [req EXCEPT ![r] = Idle]

\* Mutant: SQLite's default rowid, which is given out again after a delete.
ReusedIds == {u \in UserId : role[u] = "absent"}

\* An account row is inserted under an id that was never given out before.
FreshIds == UserId \ issued

\* An UPDATE of a row that is gone matches nothing; SQLAlchemy raises.
UpdateRole(u, new) ==
  IF role[u] = "absent" THEN role ELSE [role EXCEPT ![u] = new]

-----------------------------------------------------------------------------
\* POST /setup.

SubmitSetup(r) ==
  /\ Accept(r, [Idle EXCEPT !.op = "setup", !.pc = "authorized"])
  /\ UNCHANGED <<role, issued, apiTokens, setupComplete, founders,
                 setupLock, adminLock, restarts>>

\* Mutant: setup without its lock.
AcquireSetupUnlocked(r) ==
  /\ req[r].op = "setup" /\ req[r].pc = "authorized"
  /\ Goto(r, "locked")
  /\ UNCHANGED <<role, issued, apiTokens, setupComplete, founders,
                 setupLock, adminLock, restarts>>

AcquireSetupLock(r) ==
  /\ req[r].op = "setup" /\ req[r].pc = "authorized"
  /\ setupLock = NoRequest
  /\ setupLock' = r
  /\ Goto(r, "locked")
  /\ UNCHANGED <<role, issued, apiTokens, setupComplete, founders,
                 adminLock, restarts>>

AdminExists == setupComplete \/ Admins # {}

\* An admin exists already, or the form has errors; or neither.
CheckNoAdmin(r) ==
  /\ req[r].op = "setup" /\ req[r].pc = "locked"
  /\ \/ setupLock' = NoRequest /\ Finish(r)
     \/ ~AdminExists /\ setupLock' = setupLock /\ Goto(r, "writing")
  /\ UNCHANGED <<role, issued, apiTokens, setupComplete, founders,
                 adminLock, restarts>>

\* The account, site_url and setup_complete are one commit.
CompleteSetup(r) ==
  /\ req[r].op = "setup" /\ req[r].pc = "writing"
  /\ \E u \in FreshIds :
       /\ role' = [role EXCEPT ![u] = "admin"]
       /\ issued' = issued \cup {u}
       /\ founders' = founders \cup {u}
  /\ setupComplete' = TRUE
  /\ setupLock' = NoRequest
  /\ Finish(r)
  /\ UNCHANGED <<apiTokens, adminLock, restarts>>

-----------------------------------------------------------------------------
\* Requests of an admin page.  require_admin reads the actor's role here and
\* nowhere else: what follows runs even if the actor loses the role meanwhile.

SubmitAdminRequest(r) ==
  /\ \E a \in Admins, op \in {"create", "set_role", "delete", "mint", "revoke_token"},
        t \in UserId \cup {NoUser}, w \in Roles :
       /\ (t # NoUser) <=> op \in {"set_role", "delete"}
       /\ w = "admin" => op \in {"create", "set_role"}
       /\ Accept(r, [op |-> op, pc |-> "authorized", actor |-> a,
                     target |-> t, want |-> w, was |-> "user"])
  /\ UNCHANGED <<role, issued, apiTokens, setupComplete, founders,
                 setupLock, adminLock, restarts>>

CreateUser(r) ==
  /\ req[r].op = "create" /\ req[r].pc = "authorized"
  /\ \E u \in FreshIds :
       /\ role' = [role EXCEPT ![u] = req[r].want]
       /\ issued' = issued \cup {u}
  /\ Finish(r)
  /\ UNCHANGED <<apiTokens, setupComplete, founders, setupLock, adminLock, restarts>>

\* A create is refused when the address is taken or the input is invalid.
RefuseCreate(r) ==
  /\ req[r].op = "create" /\ req[r].pc = "authorized"
  /\ Finish(r)
  /\ UNCHANGED <<role, issued, apiTokens, setupComplete, founders,
                 setupLock, adminLock, restarts>>

\* set_role and delete hold the lock from the first read to the commit.
AcquireAdminLock(r) ==
  /\ req[r].op \in {"set_role", "delete"} /\ req[r].pc = "authorized"
  /\ adminLock = NoRequest
  /\ adminLock' = r
  /\ Goto(r, "locked")
  /\ UNCHANGED <<role, issued, apiTokens, setupComplete, founders,
                 setupLock, restarts>>

Refuse(r) == adminLock' = NoRequest /\ Finish(r)

\* 404 when the row is gone, and nobody deletes their own account; otherwise
\* the row's role is read, and an admin about to stop being one is counted.
ReadTarget(r) ==
  LET q == req[r] IN
  /\ q.op \in {"set_role", "delete"} /\ q.pc = "locked"
  /\ IF role[q.target] = "absent" \/ (q.op = "delete" /\ q.target = q.actor)
       THEN Refuse(r)
       ELSE /\ adminLock' = adminLock
            /\ req' = [req EXCEPT ![r].was = role[q.target],
                 ![r].pc = IF role[q.target] = "admin" /\ (q.op = "delete" \/ q.want = "user")
                           THEN "counting" ELSE "writing"]
  /\ UNCHANGED <<role, issued, apiTokens, setupComplete, founders,
                 setupLock, restarts>>

\* Mutant: refuses only when there is no admin at all.
CountNoAdmins(r) ==
  /\ req[r].op \in {"set_role", "delete"} /\ req[r].pc = "counting"
  /\ IF Admins = {}
       THEN Refuse(r)
       ELSE adminLock' = adminLock /\ Goto(r, "writing")
  /\ UNCHANGED <<role, issued, apiTokens, setupComplete, founders,
                 setupLock, restarts>>

CountAdmins(r) ==
  /\ req[r].op \in {"set_role", "delete"} /\ req[r].pc = "counting"
  /\ IF Cardinality(Admins) <= 1
       THEN Refuse(r)
       ELSE adminLock' = adminLock /\ Goto(r, "writing")
  /\ UNCHANGED <<role, issued, apiTokens, setupComplete, founders,
                 setupLock, restarts>>

\* Mutant: a demotion keeps the account's tokens.
CommitRoleOnly(r) ==
  LET q == req[r] IN
  /\ q.op = "set_role" /\ q.pc = "writing"
  /\ role' = IF q.want # q.was THEN UpdateRole(q.target, q.want) ELSE role
  /\ adminLock' = NoRequest
  /\ Finish(r)
  /\ UNCHANGED <<issued, apiTokens, setupComplete, founders, setupLock, restarts>>

\* Setting a column to the value that was loaded emits no UPDATE.  A demoted
\* account's API tokens are deleted after the lock is released, in a commit
\* of their own.
CommitRole(r) ==
  LET q == req[r] IN
  /\ q.op = "set_role" /\ q.pc = "writing"
  /\ role' = IF q.want # q.was THEN UpdateRole(q.target, q.want) ELSE role
  /\ adminLock' = NoRequest
  /\ IF q.was = "admin" /\ q.want # "admin" THEN Goto(r, "revoking") ELSE Finish(r)
  /\ UNCHANGED <<issued, apiTokens, setupComplete, founders, setupLock, restarts>>

RevokeAdminCredentials(r) ==
  /\ req[r].op = "set_role" /\ req[r].pc = "revoking"
  /\ apiTokens' = {t \in apiTokens : t.owner # req[r].target}
  /\ Finish(r)
  /\ UNCHANGED <<role, issued, setupComplete, founders, setupLock, adminLock, restarts>>

\* The row and everything keyed by it go in one commit.
CommitDelete(r) ==
  /\ req[r].op = "delete" /\ req[r].pc = "writing"
  /\ role' = [role EXCEPT ![req[r].target] = "absent"]
  /\ apiTokens' = {t \in apiTokens : t.owner # req[r].target}
  /\ adminLock' = NoRequest
  /\ Finish(r)
  /\ UNCHANGED <<issued, setupComplete, founders, setupLock, restarts>>

\* Mutant: the token is written for the request's target, which has none.
MintTokenForTarget(r) ==
  LET a == req[r].target IN
  /\ req[r].op = "mint" /\ req[r].pc = "authorized"
  /\ apiTokens' = apiTokens \cup {[owner |-> a, late |-> FALSE]}
  /\ Finish(r)
  /\ UNCHANGED <<role, issued, setupComplete, founders, setupLock, adminLock, restarts>>

\* No foreign key is enforced: the row is written whatever became of the owner.
MintToken(r) ==
  LET a == req[r].actor IN
  /\ req[r].op = "mint" /\ req[r].pc = "authorized"
  /\ apiTokens' = apiTokens \cup {[owner |-> a, late |-> role[a] # "admin"]}
  /\ Finish(r)
  /\ UNCHANGED <<role, issued, setupComplete, founders, setupLock, adminLock, restarts>>

\* Any admin may revoke any token; one already gone is a 404.
RevokeToken(r) ==
  /\ req[r].op = "revoke_token" /\ req[r].pc = "authorized"
  /\ \E S \in SUBSET apiTokens :
       Cardinality(S) <= 1 /\ apiTokens' = apiTokens \ S
  /\ Finish(r)
  /\ UNCHANGED <<role, issued, setupComplete, founders, setupLock, adminLock, restarts>>

-----------------------------------------------------------------------------
\* `python -m portal.cli promote`: another process, so it takes no lock.

PromoteRead(r) ==
  /\ \E u \in UserId :
       /\ role[u] # "absent"
       /\ Accept(r, [Idle EXCEPT !.op = "promote", !.pc = "writing",
                                 !.target = u, !.was = role[u]])
  /\ UNCHANGED <<role, issued, apiTokens, setupComplete, founders,
                 setupLock, adminLock, restarts>>

PromoteCommit(r) ==
  LET q == req[r] IN
  /\ q.op = "promote" /\ q.pc = "writing"
  /\ role' = IF q.was # "admin" THEN UpdateRole(q.target, "admin") ELSE role
  /\ Finish(r)
  /\ UNCHANGED <<issued, apiTokens, setupComplete, founders,
                 setupLock, adminLock, restarts>>

-----------------------------------------------------------------------------
\* The portal process dies: its requests and its locks are gone, the database
\* keeps what was committed.  A CLI process does not notice.
Restart ==
  /\ restarts < MaxRestarts
  /\ restarts' = restarts + 1
  /\ req' = [r \in Request |-> IF req[r].op = "promote" THEN req[r] ELSE Idle]
  /\ setupLock' = NoRequest
  /\ adminLock' = NoRequest
  /\ UNCHANGED <<role, issued, apiTokens, setupComplete, founders>>

Setup(r) ==
  SubmitSetup(r) \/ AcquireSetupLock(r) \/ CheckNoAdmin(r) \/ CompleteSetup(r)

ChangeAccount(r) ==
  \/ CreateUser(r) \/ RefuseCreate(r)
  \/ AcquireAdminLock(r) \/ ReadTarget(r) \/ CountAdmins(r)
  \/ CommitRole(r) \/ RevokeAdminCredentials(r) \/ CommitDelete(r)

ChangeToken(r) == MintToken(r) \/ RevokeToken(r)

Promote(r) == PromoteRead(r) \/ PromoteCommit(r)

Next ==
  \/ \E r \in Request : Setup(r) \/ SubmitAdminRequest(r) \/ ChangeAccount(r)
                          \/ ChangeToken(r) \/ Promote(r)
  \/ Restart

Spec == Init /\ [][Next]_vars

-----------------------------------------------------------------------------
\* Every variable stays within the values the tables and requests can hold.
TypeOK ==
  /\ role \in [UserId -> Roles \cup {"absent"}]
  /\ issued \in SUBSET UserId
  /\ apiTokens \in SUBSET Token
  /\ setupComplete \in BOOLEAN
  /\ founders \in SUBSET UserId
  /\ setupLock \in Request \cup {NoRequest}
  /\ adminLock \in Request \cup {NoRequest}
  /\ req \in [Request -> RequestState]
  /\ restarts \in 0..MaxRestarts

\* Once first-run setup is done there is always an admin, however many admins
\* demote and delete each other at the same time (admin.py _admin_change_lock).
AdminRemains == setupComplete => Admins # {}

\* Two submissions of the setup page that race the "no admin yet" check never
\* both create an account (main.py _setup_lock).
SetupOnce == \A u, v \in founders : u = v

\* The id of a deleted account never names an account again: not through a new
\* account (AUTOINCREMENT, models.py), not through a role change or a promotion
\* that was already under way when the row went away.
NoResurrection ==
  [][\A u \in issued : role[u] = "absent" => role'[u] = "absent"]_vars

\* A token minted while its owner was an admin outlives the owner's role only
\* until the demotion that took the role deletes it (admin.py users_set_role,
\* sessions.py revoke_admin_credentials); deleting the account leaves none.  A
\* crash before that clean-up leaves the token for good, so it is said of runs
\* without one.
TokensFollowRole ==
  restarts = 0 =>
    \A t \in apiTokens :
      \/ t.late
      \/ role[t.owner] = "admin"
      \/ \E r \in Request : req[r].pc = "revoking" /\ req[r].target = t.owner
=============================================================================
