------------------------------ MODULE AppAccess ------------------------------
(***************************************************************************)
(* Who reaches which app, and through which host.  An app is reached by a   *)
(* launch on the portal, an exchange and then bundle and service requests    *)
(* on its own subdomain; every request reads the user, the app and the       *)
(* access row one query after another while administrators create, toggle    *)
(* and delete apps, create, demote and delete users and edit access rows.    *)
(*                                                                         *)
(* SQLite's write lock is `writer` where a handler flushes, reads and then   *)
(* commits; every other commit is one step.  An app's id is its rowid, and   *)
(* is used again when the newest app is deleted; a user's id never is.       *)
(*                                                                         *)
(* Left out: same-origin mode, CSRF tokens (every caller has them), portal   *)
(* sessions and API tokens, whose lifetimes are Credentials' and             *)
(* AdminAccounts' subject (any user's cookie or token may come), and what    *)
(* the services then do.                                                    *)
(***************************************************************************)
EXTENDS Integers, FiniteSets, FiniteSetsExt

CONSTANTS
  User, Slug,
  Job,           \* threads with an administrator's request
  Request,       \* threads with a user's
  Portal,        \* the portal's host; the other hosts are the apps' subdomains
  None,
  FirstUser, FirstApp,  \* what has been created when the story begins
  MaxChanges,    \* bound on the administrators' requests
  MaxSessions    \* bound on the app sessions ever made

ASSUME HostAssumption == Portal \notin Slug /\ None \notin User \cup Slug \cup Job \cup {Portal}
ASSUME FirstAssumption == FirstUser \in User /\ FirstApp \in Slug
ASSUME BoundAssumption == MaxChanges \in Nat /\ MaxSessions \in Nat

VARIABLES
  role,      \* "none" before the user is created, "gone" after
  app,       \* the apps table, by slug
  access,    \* UserAppAccess rows <<user, app id>>
  policy,    \* default_user_app_access
  tokens,    \* launch tokens nobody has exchanged
  sessions,  \* live app sessions
  minted,    \* app sessions ever made
  launched,  \* <<user, slug>> of every launch there has been
  writer,    \* the job that holds SQLite's write lock
  job, changes, req,
  owed,      \* pairs whose default access no administrator has changed since
  seen       \* what has held for a request at some moment since it was authenticated

admin == <<role, app, access, policy, writer, job, changes, owed>>
tables == <<tokens, sessions, minted, launched>>
requests == <<tables, req>>
vars  == <<admin, requests, seen>>

\* Every id is at most one more than another's.
MaxId == 1 + MaxChanges
Id    == 1 .. MaxId
NoApp == [id |-> 0, enabled |-> FALSE, approved |-> FALSE]

Installed == {s \in Slug : app[s].id # 0}
Known(u)  == role[u] \in {"user", "admin"}

\* As if the largest were not stepped over.
NextIdLargest == Max({app[s].id : s \in Slug})

\* INTEGER PRIMARY KEY without AUTOINCREMENT: one more than the largest.
NextId == 1 + Max({app[s].id : s \in Slug})

JobState ==
  [op : {"none", "user", "app", "save", "toggle", "delete"},
   pc : {"idle", "flushed", "read", "prior", "compared", "committed", "cleared"},
   user : User \cup {None}, slug : Slug \cup {None}, id : 0 .. MaxId,
   as : {"none", "user", "admin"}, to : BOOLEAN,
   apps : SUBSET (Slug \X Id),   \* id_to_slug
   wanted : SUBSET Id, prior : SUBSET Id, existing : SUBSET Id,
   users : SUBSET User,
   lost : SUBSET (1 .. MaxSessions)]

NoJob == [op |-> "none", pc |-> "idle", user |-> None, slug |-> None, id |-> 0,
          as |-> "none", to |-> FALSE, apps |-> {}, wanted |-> {}, prior |-> {},
          existing |-> {}, users |-> {}, lost |-> {}]

RequestState ==
  [pc : {"idle", "routed", "known", "found", "gated", "served"},
   host : Slug \cup {Portal, None},
   route : {"none", "portal", "launch", "icon", "service", "me", "form",
            "sdk", "exchange", "bundle"},
   by : {"anonymous", "cookie", "token", "app_session"},
   user : User \cup {None}, role : {"none", "user", "admin"},
   slug : Slug \cup {None}, id : 0 .. MaxId]

NoRequest == [pc |-> "idle", host |-> None, route |-> "none", by |-> "anonymous",
              user |-> None, role |-> "none", slug |-> None, id |-> 0]

Init ==
  /\ role = [u \in User |-> IF u = FirstUser THEN "user" ELSE "none"]
  /\ app = [s \in Slug |-> IF s = FirstApp
                           THEN [id |-> 1, enabled |-> TRUE, approved |-> TRUE] ELSE NoApp]
  /\ access = {<<FirstUser, 1>>}
  /\ policy = "all"
  /\ tokens = {} /\ sessions = {} /\ minted = 0 /\ launched = {}
  /\ writer = None
  /\ job = [j \in Job |-> NoJob]
  /\ changes = 0
  /\ req = [r \in Request |-> NoRequest]
  /\ owed = {<<FirstUser, FirstApp>>}
  /\ seen = [r \in Request |-> {}]

-----------------------------------------------------------------------------
(* The administrators' handlers.                                            *)

Accept(j, rec) ==
  /\ job[j] = NoJob /\ changes < MaxChanges
  /\ changes' = changes + 1
  /\ job' = [job EXCEPT ![j] = rec]

Return(j) == job' = [job EXCEPT ![j] = NoJob]

OfSlug(s) == {x \in sessions : x.slug = s}
IdsOf(xs) == {x.id : x \in xs}

\* users_create: the flush takes the write lock, and the apps are read under it.
FlushUser(j, u, as) ==
  /\ writer = None /\ role[u] = "none"
  /\ Accept(j, [NoJob EXCEPT !.op = "user", !.pc = "flushed", !.user = u, !.as = as,
                             !.apps = {<<s, app[s].id>> : s \in Installed}])
  /\ writer' = j
  /\ UNCHANGED <<role, app, access, policy, owed, requests>>

\* grant_default_access_for_new_user, and the commit.
CommitUser(j) ==
  LET q == job[j]
      granted == IF policy = "all" /\ q.as = "user" THEN q.apps ELSE {}
  IN /\ q.op = "user"
     /\ role' = [role EXCEPT ![q.user] = q.as]
     /\ access' = access \cup {<<q.user, p[2]>> : p \in granted}
     /\ owed' = IF policy = "all" /\ q.as = "user"
                THEN owed \cup ({q.user} \X Installed) ELSE owed
     /\ writer' = None /\ Return(j)
     /\ UNCHANGED <<app, policy, changes, requests>>

\* As if the users were read, and the id chosen, before the lock was taken.
FlushAppUnlocked(j, s) ==
  /\ writer = None /\ s \notin Installed
  /\ Accept(j, [NoJob EXCEPT !.op = "app", !.pc = "flushed", !.slug = s, !.id = NextId,
                             !.users = {u \in User : role[u] = "user"}])
  /\ UNCHANGED <<role, app, access, policy, owed, writer, requests>>

\* _do_install's transaction: as for a user, and the users are read under the lock.
FlushApp(j, s) ==
  /\ writer = None /\ s \notin Installed
  /\ Accept(j, [NoJob EXCEPT !.op = "app", !.pc = "flushed", !.slug = s, !.id = NextId,
                             !.users = {u \in User : role[u] = "user"}])
  /\ writer' = j
  /\ UNCHANGED <<role, app, access, policy, owed, requests>>

\* A row left behind for the same id makes the commit fail on the primary key.
CommitApp(j) ==
  LET q == job[j]
      granted == IF policy = "all" THEN q.users ELSE {}
  IN /\ q.op = "app"
     /\ \/ /\ \A u \in granted : <<u, q.id>> \notin access
           /\ app' = [app EXCEPT ![q.slug] = [id |-> q.id, enabled |-> TRUE, approved |-> TRUE]]
           /\ access' = access \cup (granted \X {q.id})
           /\ owed' = IF policy = "all"
                      THEN owed \cup ({u \in User : role[u] = "user"} \X {q.slug}) ELSE owed
        \/ /\ \E u \in granted : <<u, q.id>> \in access
           /\ UNCHANGED <<app, access, owed>>
     /\ writer' = None /\ Return(j)
     /\ UNCHANGED <<role, policy, changes, requests>>

\* users_apps_save: the target and id_to_slug; `wanted` are the boxes ticked, of the
\* apps there are.
BeginSave(j, u, ids) ==
  /\ role[u] = "user"
  /\ Accept(j, [NoJob EXCEPT !.op = "save", !.pc = "read", !.user = u,
                             !.apps = {<<s, app[s].id>> : s \in Installed},
                             !.wanted = ids])
  /\ UNCHANGED <<role, app, access, policy, owed, writer, requests>>

RowsOf(u) == {i \in Id : <<u, i>> \in access}

ReadPrior(j) ==
  /\ job[j].op = "save" /\ job[j].pc = "read"
  /\ job' = [job EXCEPT ![j].pc = "prior", ![j].prior = RowsOf(job[j].user)]
  /\ UNCHANGED <<role, app, access, policy, owed, writer, changes, requests>>

\* replace_user_app_access reads the rows again for itself.
ReadExisting(j) ==
  /\ job[j].op = "save" /\ job[j].pc = "prior"
  /\ job' = [job EXCEPT ![j].pc = "compared", ![j].existing = RowsOf(job[j].user)]
  /\ UNCHANGED <<role, app, access, policy, owed, writer, changes, requests>>

\* As if the difference were taken the other way.
RevokedSlugsSwapped(q) == {p[1] : p \in {p \in q.apps : p[2] \in q.wanted \ q.prior}}

RevokedSlugs(q) == {p[1] : p \in {p \in q.apps : p[2] \in q.prior \ q.wanted}}

\* `lost`: the sessions whose user has just lost the app; see WithdrawnClosed.
CommitSave(j) ==
  LET q == job[j]
      dropped == {q.user} \X (q.existing \ q.wanted)
      added == {q.user} \X (q.wanted \ q.existing)
  IN /\ q.op = "save" /\ q.pc = "compared" /\ writer = None
     /\ \/ /\ added \cap access = {}
           /\ access' = (access \ dropped) \cup added
           /\ owed' = {o \in owed : o[1] # q.user}
           /\ job' = [job EXCEPT ![j].pc = "committed",
                        ![j].lost = IdsOf({x \in sessions : x.user = q.user /\ <<x.slug, app[x.slug].id>> \in q.apps
                                             /\ app[x.slug].id \in (q.prior \cap q.existing) \ q.wanted})]
        \/ added \cap access # {} /\ Return(j) /\ UNCHANGED <<access, owed>>
     /\ UNCHANGED <<role, app, policy, writer, changes, requests>>

\* revoke_app_sessions_for_user.
RevokeLost(j) ==
  LET q == job[j]
  IN /\ q.op = "save" /\ q.pc = "committed" /\ writer = None
     /\ sessions' = {x \in sessions : ~ (x.user = q.user /\ x.slug \in RevokedSlugs(q))}
     /\ Return(j)
     /\ UNCHANGED <<role, app, access, policy, owed, writer, changes, tokens, minted, launched, req>>

\* admin_apps_toggle.  The row is read, and written by its id.
ReadToggle(j, s) ==
  /\ s \in Installed
  /\ Accept(j, [NoJob EXCEPT !.op = "toggle", !.pc = "read", !.slug = s, !.id = app[s].id,
                             !.to = ~ app[s].enabled])
  /\ UNCHANGED <<role, app, access, policy, owed, writer, requests>>

WithId(i) == {s \in Slug : app[s].id = i}

CommitToggle(j) ==
  LET q == job[j]
  IN /\ q.op = "toggle" /\ q.pc = "read" /\ writer = None
     /\ \/ \E s \in WithId(q.id) :
             /\ app' = [app EXCEPT ![s].enabled = q.to]
             /\ job' = [job EXCEPT ![j].pc = "committed",
                                   ![j].lost = IF q.to THEN {} ELSE IdsOf(OfSlug(s))]
        \/ WithId(q.id) = {} /\ Return(j) /\ UNCHANGED app
     /\ UNCHANGED <<role, access, policy, owed, writer, changes, requests>>

\* The row is read again, the commit having expired it, and if it is disabled the
\* sessions of its slug are revoked.
CloseToggled(j) ==
  LET closed == {s \in WithId(job[j].id) : ~ app[s].enabled}
  IN /\ job[j].op = "toggle" /\ job[j].pc = "committed" /\ writer = None
     /\ sessions' = {x \in sessions : x.slug \notin closed}
     /\ Return(j)
     /\ UNCHANGED <<role, app, access, policy, owed, writer, changes, tokens, minted, launched, req>>

\* admin_apps_delete.  The access rows are read, here with the app's own, and deleted
\* when the first query after that flushes them; the files go in between.
BeginDelete(j, s) ==
  /\ s \in Installed
  /\ Accept(j, [NoJob EXCEPT !.op = "delete", !.pc = "read", !.slug = s, !.id = app[s].id,
                             !.users = {u \in User : <<u, app[s].id>> \in access}])
  /\ UNCHANGED <<role, app, access, policy, owed, writer, requests>>

\* Revoking the app's sessions commits the access rows' deletion, if there are any.
ClearApp(j) ==
  LET q == job[j]
  IN /\ q.op = "delete" /\ q.pc = "read" /\ writer = None
     /\ access' = access \ (q.users \X {q.id})
     /\ sessions' = sessions \ OfSlug(q.slug)
     /\ owed' = {o \in owed : app[o[2]].id # q.id}
     /\ \/ OfSlug(q.slug) # {} /\ job' = [job EXCEPT ![j].pc = "cleared"] /\ UNCHANGED app
        \/ /\ OfSlug(q.slug) = {}
           /\ app' = [s \in Slug |-> IF app[s].id = q.id THEN NoApp ELSE app[s]]
           /\ Return(j)
     /\ UNCHANGED <<role, policy, writer, changes, tokens, minted, launched, req>>

DeleteApp(j) ==
  /\ job[j].op = "delete" /\ job[j].pc = "cleared" /\ writer = None
  /\ app' = [s \in Slug |-> IF app[s].id = job[j].id THEN NoApp ELSE app[s]]
  /\ owed' = {o \in owed : app[o[2]].id # job[j].id}
  /\ Return(j)
  /\ UNCHANGED <<role, access, policy, writer, changes, requests>>

\* Requests whose effect is one commit.
Change == writer = None /\ changes < MaxChanges /\ changes' = changes + 1

\* users_set_role; a demotion ends API tokens, but no session.
SetRole(u, as) ==
  /\ Change /\ Known(u) /\ role[u] # as
  /\ role' = [role EXCEPT ![u] = as]
  /\ UNCHANGED <<app, access, policy, owed, writer, job, requests>>

DeleteUser(u) ==
  /\ Change /\ Known(u)
  /\ role' = [role EXCEPT ![u] = "gone"]
  /\ access' = {g \in access : g[1] # u}
  /\ owed' = {o \in owed : o[1] # u}
  /\ tokens' = {t \in tokens : t.user # u}
  /\ sessions' = {x \in sessions : x.user # u}
  /\ UNCHANGED <<app, policy, writer, job, minted, launched, req>>

SetPolicy ==
  /\ Change
  /\ policy' = IF policy = "all" THEN "none" ELSE "all"
  /\ UNCHANGED <<role, app, access, owed, writer, job, requests>>

\* admin_apps_services, for the one service modelled (AppInstall has the lists).
SetService(s) ==
  /\ Change /\ s \in Installed
  /\ app' = [app EXCEPT ![s].approved = ~ @]
  /\ UNCHANGED <<role, access, policy, owed, writer, job, requests>>

-----------------------------------------------------------------------------
(* Requests of users.                                                       *)

\* is_portal_path_on_app_host.
AllowedOnAppHost == {"service", "me", "form", "sdk", "exchange"}

\* What may be asked of a host, by what would answer it.  "portal" is any other page
\* of the portal, as it answers anyone, and on an app's host any other path.  On the
\* portal an exchange is refused and a form's page redirects, but it takes submissions.
Path(host) == IF host = Portal THEN {"portal", "launch", "icon", "service", "me", "form"}
              ELSE AllowedOnAppHost \cup {"portal"}

\* As if only what is read were kept from the portal's pages.
RouteOfGet(host, path, method) ==
  IF host # Portal /\ path = "portal" /\ method = "GET" THEN "bundle" ELSE path

\* HostDispatchMiddleware and AppHostGateMiddleware.
RouteOf(host, path, method) ==
  IF host = Portal \/ path \in AllowedOnAppHost THEN path
  ELSE IF method = "GET" THEN "bundle" ELSE "none"

Arrive(r, host, path, method) ==
  LET route == RouteOf(host, path, method)
  IN /\ req[r] = NoRequest /\ route # "none"
     /\ req' = [req EXCEPT ![r] = [NoRequest EXCEPT
                  !.pc = IF route \in {"portal", "sdk"} THEN "served" ELSE "routed", !.host = host, !.route = route,
                  !.slug = IF host = Portal THEN None ELSE host]]
     /\ UNCHANGED <<admin, tables>>

Refuse(r) == req' = [req EXCEPT ![r] = NoRequest]

\* The app a request is for, once its caller is known.
FindFor(route, slug) ==
  IF route = "me" \/ (route = "service" /\ slug = None) THEN "served" ELSE "known"

Authenticated(r, u, by, slug) ==
  req' = [req EXCEPT ![r].pc = FindFor(req[r].route, slug), ![r].by = by, ![r].user = u,
                     ![r].role = role[u], ![r].slug = slug]

\* As if any app session would do.
AuthenticateAnySession(r) ==
  /\ req[r].pc = "routed" /\ req[r].host # Portal
  /\ req[r].route \in {"service", "me", "bundle"}
  /\ \/ \E x \in sessions : Authenticated(r, x.user, "app_session", req[r].host)
     \/ Refuse(r)
  /\ UNCHANGED <<admin, tables>>

\* current_user_or_token and serve_subdomain_request: on an app's host only an
\* app session of that app counts, whatever else is sent.
AuthenticateOnAppHost(r) ==
  /\ req[r].pc = "routed" /\ req[r].host # Portal
  /\ req[r].route \in {"service", "me", "bundle"}
  /\ \/ \E x \in sessions : x.slug = req[r].host /\ Authenticated(r, x.user, "app_session", req[r].host)
     \/ Refuse(r)
  /\ UNCHANGED <<admin, tables>>

\* What a request may name: a page its path, a service its X-Portal-App or Referer,
\* or nothing (_maybe_resolve_app).
Named(route) ==
  CASE route = "me"               -> {None}
    [] route \in {"launch", "icon"} -> Slug
    [] OTHER                        -> Slug \cup {None}

\* On the portal a bearer token, for the API, or the portal's cookie.
AuthenticateOnPortal(r) ==
  LET route == req[r].route
  IN /\ req[r].pc = "routed" /\ req[r].host = Portal /\ route # "form"
     /\ \/ \E u \in {u \in User : Known(u)}, slug \in Named(route) :
             \/ Authenticated(r, u, "cookie", slug)
             \/ route \in {"service", "me"} /\ Authenticated(r, u, "token", slug)
        \/ Refuse(r)
     /\ UNCHANGED <<admin, tables>>

\* A form's page and its submission are for anyone (Admission has the limits).
OpenForm(r) ==
  /\ req[r].pc = "routed" /\ req[r].route = "form"
  /\ \E s \in IF req[r].host = Portal THEN Slug ELSE {req[r].host} :
       \/ app[s].enabled /\ req' = [req EXCEPT ![r].pc = "served", ![r].slug = s]
       \/ ~ app[s].enabled /\ Refuse(r)
  /\ UNCHANGED <<admin, tables>>

\* session_exchange.  The claim is a commit; the token is spent even when it was
\* minted for another app.
Exchange(r, t) ==
  /\ req[r].pc = "routed" /\ req[r].route = "exchange" /\ writer = None
  /\ t \in tokens /\ minted < MaxSessions
  /\ tokens' = tokens \ {t}
  /\ \/ /\ t.slug = req[r].host /\ Known(t.user)
        /\ minted' = minted + 1
        /\ sessions' = sessions \cup {[id |-> minted + 1, user |-> t.user, slug |-> req[r].host]}
     \/ ~ (t.slug = req[r].host /\ Known(t.user)) /\ UNCHANGED <<minted, sessions>>
  /\ Refuse(r)
  /\ UNCHANGED <<admin, launched>>

\* _require_app and _require_service, and the app that serve_app_index, app_icon and
\* serve_subdomain_request read.
FindApp(r) ==
  LET q == req[r]
      found == app[q.slug].enabled /\ (q.route = "service" => app[q.slug].approved)
  IN /\ q.pc = "known"
     /\ \/ found /\ req' = [req EXCEPT ![r].pc = "found", ![r].id = app[q.slug].id]
        \/ ~ found /\ Refuse(r)
     /\ UNCHANGED <<admin, tables>>

\* As if a bearer token were trusted with every app.
MayReachOrToken(q) == q.role = "admin" \/ q.by = "token" \/ <<q.user, q.id>> \in access

\* user_can_access_app, of the user as read at the start.
MayReach(q) == q.role = "admin" \/ <<q.user, q.id>> \in access

\* _require_app_access, and the page handlers' own check.  A launch leaves a token.
CheckAccess(r) ==
  LET q == req[r]
  IN /\ q.pc = "found"
     /\ \/ ~ MayReach(q) /\ Refuse(r) /\ UNCHANGED <<tokens, launched>>
        \/ /\ MayReach(q) /\ q.route = "launch" /\ writer = None
           /\ tokens' = tokens \cup {[user |-> q.user, slug |-> q.slug]}
           /\ launched' = launched \cup {<<q.user, q.slug>>}
           /\ req' = [req EXCEPT ![r].pc = "served"]
        \/ /\ MayReach(q) /\ q.route # "launch"
           /\ req' = [req EXCEPT ![r].pc = IF q.route = "bundle" THEN "gated" ELSE "served"]
           /\ UNCHANGED <<tokens, launched>>
     /\ UNCHANGED <<admin, sessions, minted>>

\* _serve_app_subdomain_path looks for the app again; the ORM hands out the row it
\* has, so `enabled` is as fresh as the last commit of this request.
ServeBundle(r) ==
  LET a == app[req[r].slug]
  IN /\ req[r].pc = "gated"
     /\ \/ a.id # 0 /\ req' = [req EXCEPT ![r].pc = "served"]
        \/ ~ a.enabled /\ Refuse(r)
     /\ UNCHANGED <<admin, tables>>

Finish(r) ==
  /\ req[r].pc = "served" /\ Refuse(r)
  /\ UNCHANGED <<admin, tables>>

-----------------------------------------------------------------------------
\* What holds now of a request's user and app.  Nothing is claimed of the access to
\* an app that was deleted while the request ran: its id may be another app's now.
Facts(q) ==
  LET a == app[q.slug]
      deleted == q.id # 0 /\ a.id # q.id
      admin_now == q.user # None /\ role[q.user] = "admin"
  IN IF q.slug = None \/ q.pc = "routed" THEN {}
     ELSE {f \in {"access", "enabled", "approved"} :
             \/ f = "access" /\ (deleted \/ admin_now \/ <<q.user, a.id>> \in access)
             \/ f = "enabled" /\ a.enabled
             \/ f = "approved" /\ a.approved}

FactsOf(r) == Facts(req[r])

\* The ghost `seen`.
Watch == seen' = [r \in Request |->
                    IF req'[r].pc \in {"idle", "routed"} THEN {} ELSE seen[r] \cup FactsOf(r)']

AdminStep ==
  \/ \E j \in Job :
       \/ \E u \in User, as \in {"user", "admin"} : FlushUser(j, u, as)
       \/ \E s \in Slug : FlushApp(j, s) \/ ReadToggle(j, s) \/ BeginDelete(j, s)
       \/ \E u \in User, ids \in SUBSET {app[s].id : s \in Installed} : BeginSave(j, u, ids)
       \/ CommitUser(j) \/ CommitApp(j)
       \/ ReadPrior(j) \/ ReadExisting(j) \/ CommitSave(j) \/ RevokeLost(j)
       \/ CommitToggle(j) \/ CloseToggled(j)
       \/ ClearApp(j) \/ DeleteApp(j)
  \/ \E u \in User : DeleteUser(u) \/ \E as \in {"user", "admin"} : SetRole(u, as)
  \/ SetPolicy
  \/ \E s \in Slug : SetService(s)

UserStep ==
  \E r \in Request :
    \/ \E host \in Slug \cup {Portal} : \E path \in Path(host) :
         \E method \in {"GET"} \cup (IF path = "portal" THEN {"POST"} ELSE {}) : Arrive(r, host, path, method)
    \/ AuthenticateOnAppHost(r) \/ AuthenticateOnPortal(r)
    \/ OpenForm(r) \/ FindApp(r) \/ CheckAccess(r) \/ ServeBundle(r) \/ Finish(r)
    \/ \E t \in tokens : Exchange(r, t)

Next == (AdminStep \/ UserStep) /\ Watch

Spec == Init /\ [][Next]_vars

-----------------------------------------------------------------------------
\* Values are of their types; no two apps have one id; the write lock is held by
\* whoever has flushed; a session belongs to one minting.
TypeOK ==
  /\ role \in [User -> {"none", "user", "admin", "gone"}]
  /\ app \in [Slug -> [id : 0 .. MaxId, enabled : BOOLEAN, approved : BOOLEAN]]
  /\ \A s, t \in Installed : s # t => app[s].id # app[t].id
  /\ access \subseteq User \X Id
  /\ policy \in {"all", "none"}
  /\ tokens \subseteq [user : User, slug : Slug]
  /\ sessions \subseteq [id : 1 .. minted, user : User, slug : Slug]
  /\ minted \in 0 .. MaxSessions /\ changes \in 0 .. MaxChanges
  /\ launched \subseteq User \X Slug /\ owed \subseteq User \X Slug
  /\ writer \in Job \cup {None}
  /\ job \in [Job -> JobState] /\ req \in [Request -> RequestState]
  /\ \A j \in Job : job[j].pc = "flushed" <=> writer = j

Needs(route) ==
  CASE route \in {"launch", "icon", "bundle"} -> {"access", "enabled"}
    [] route = "service" -> {"access", "enabled", "approved"}
    [] route = "form"    -> {"enabled"}
    [] OTHER             -> {}

\* Whatever an administrator changes while a request runs, nobody is launched into
\* an app, or served its bundle, its icon or a service in its name, unless at some
\* moment since the request was authenticated the app was enabled, and at some moment
\* the user was an admin or had its access row, and for a service the service was
\* approved.  So what was withdrawn before a request began stays withdrawn
\* (user_can_access_app wherever an app is reached, whatever session or token is held).
\* An app that is deleted while the request runs counts as enabled and accessible:
\* the access row that is then read may be that of another app with its id.
ServedHadAccess ==
  \A r \in Request :
    req[r].pc = "served" /\ req[r].slug # None => Needs(req[r].route) \subseteq seen[r]

\* On an app's host the portal's pages never answer, and a request that is answered
\* for a user is one for a user who was launched into that very app; an app session
\* counts for nothing on the portal (AppHostGateMiddleware, session_exchange's and
\* current_user_or_token's comparison of slugs).
Confined ==
  \A r \in {r \in Request : req[r].pc = "served"} :
    IF req[r].host = Portal THEN req[r].by # "app_session"
    ELSE /\ req[r].route \in AllowedOnAppHost \cup {"bundle"}
         /\ req[r].slug = req[r].host
         /\ req[r].by = "anonymous" \/ <<req[r].user, req[r].host>> \in launched
         /\ req[r].by = "anonymous" => req[r].route \in {"form", "sdk"}

\* A user and an app of whom the later was created under the policy "all", the user
\* being no admin then, do not miss each other, however their creations overlap: the
\* user can reach the app until one of them is deleted or an administrator saves that
\* user's list (grant_default_access_for_new_user and _for_new_app read the other
\* table under the lock their flush took).  It promises nothing to an admin who is
\* demoted, nor about what was created under the other policy.
DefaultGrants == \A o \in owed : <<o[1], app[o[2]].id>> \in access

\* When a save of a user's apps, or a toggle that disables an app, returns, the app
\* sessions there were at its commit are revoked, unless what it took away has been
\* given back.  For a save that is the apps it knew and found granted; a toggled app may
\* have been deleted meanwhile, by a request that knew its id from an app before it.
WithdrawnClosed ==
  [][\A j \in Job : job[j].pc = "committed" /\ job'[j].pc = "idle" =>
       \A x \in {x \in sessions' : x.id \in job[j].lost} :
         IF job[j].op = "toggle" THEN app'[x.slug].enabled \/ app'[x.slug].id # job[j].id
         ELSE role'[x.user] = "admin" \/ <<x.user, app'[x.slug].id>> \in access']_vars

\* Not kept, and no run checks it (README).  admin.py users_apps_save: a save "can't
\* create a UserAppAccess row pointing at a nonexistent (or future-reused) app id".
RowsNamed == \A g \in access : \E s \in Slug : app[s].id = g[2]
=============================================================================
