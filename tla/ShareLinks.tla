------------------------------ MODULE ShareLinks ------------------------------
(***************************************************************************)
(* Public share links (/s/<token>) to a stored object or a rendered PDF:   *)
(* minting under the per-user PDF quota, viewing under a view cap,         *)
(* revocation, expiry, the purge, and the deletion of a link, of its       *)
(* creator and of its app.                                                 *)
(*                                                                         *)
(* The handlers are threads of the pool and share the database, the files  *)
(* and one lock.  The model is of the default deployment, SQLite:          *)
(*   - a SELECT opens no transaction, the first write of a handler does,   *)
(*     and from then to its commit no other request writes;                *)
(*   - no foreign key is enforced;                                         *)
(*   - App and ShareLink have no AUTOINCREMENT: a row gets the id after    *)
(*     the largest in the table, so the last one's id is given out again.  *)
(*                                                                         *)
(* Left out: access and service checks before a mint, the rate limit and   *)
(* the render slots (the PDF is there when the quota is looked at).  All   *)
(* PDFs have one size.  A stored object may be missing at any time.        *)
(***************************************************************************)
EXTENDS Integers, FiniteSets, FiniteSetsExt

CONSTANTS
  App, User,
  Link,        \* tokens; each is used once
  Request,     \* request slots
  None,
  Caps,        \* the max_views a link is minted with; 0 is no cap
  MaxPdfs,     \* MAX_PDF_SHARE_BYTES_PER_USER, in PDFs
  MaxServed,   \* bound on the views of one link
  MaxRestarts  \* bound on restarts of the portal

ASSUME NoneAssumption  == None \notin App \cup User \cup Link \cup Request
ASSUME CapsAssumption  == Caps \subseteq Nat /\ MaxPdfs \in Nat
ASSUME BoundAssumption == MaxServed \in Nat /\ MaxRestarts \in Nat

VARIABLES
  account,    \* users that exist
  app,        \* App table: id of each installed slug, 0 when not installed
  enabled,    \* slugs whose row is enabled
  link,       \* ShareLink table
  blob,       \* shares/<token>.pdf: tokens whose file is there
  served,     \* history: how often each link's content went out
  quotaLock,  \* holder of _pdf_share_quota_lock
  req, restarts

vars == <<account, app, enabled, link, blob, served, quotaLock, req, restarts>>

\* `id` is 0 while there is no row.  `slug` is history: the app it was minted in.
Row == [id : Nat, app : Nat, slug : App \cup {None}, creator : User \cup {None},
        kind : {"none", "storage", "pdf"}, cap : Caps \cup {0}, views : Nat,
        revoked : BOOLEAN, expired : BOOLEAN]

NoRow == [id |-> 0, app |-> 0, slug |-> None, creator |-> None, kind |-> "none",
          cap |-> 0, views |-> 0, revoked |-> FALSE, expired |-> FALSE]

Ops == {"none", "mint", "view", "revoke", "delete_link", "delete_app", "purge"}
PCs == {"idle", "rendered", "purging", "measuring", "inserting", "found",
        "resolved", "serving", "writing", "files", "rows", "app", "sweeping"}

\* `cap`, `id` and `app` are columns read earlier; `ids` are the rows the purge
\* selected and `files` the tokens whose files a deletion has removed.
RequestState ==
  [op : Ops, pc : PCs, slug : App \cup {None}, app : Nat, user : User \cup {None},
   kind : {"none", "storage", "pdf"}, cap : Caps \cup {0}, link : Link \cup {None},
   id : Nat, ids : SUBSET Nat, files : SUBSET Link]

Idle == [op |-> "none", pc |-> "idle", slug |-> None, app |-> 0, user |-> None,
         kind |-> "none", cap |-> 0, link |-> None, id |-> 0, ids |-> {}, files |-> {}]

Init ==
  /\ account = User
  /\ app = [s \in App |-> 0]
  /\ enabled = {}
  /\ link = [l \in Link |-> NoRow]
  /\ blob = {}
  /\ served = [l \in Link |-> 0]
  /\ quotaLock = None
  /\ req = [r \in Request |-> Idle]
  /\ restarts = 0

-----------------------------------------------------------------------------
Accept(r, rec) == req[r] = Idle /\ req' = [req EXCEPT ![r] = rec]
Goto(r, pc)    == req' = [req EXCEPT ![r].pc = pc]
Finish(r)      == req' = [req EXCEPT ![r] = Idle]
At(r, op, pc)  == req[r].op = op /\ req[r].pc = pc

Rows     == {l \in Link : link[l].id # 0}
ById(i)  == {l \in Rows : link[l].id = i}
Pdfs(L)  == {l \in L : link[l].kind = "pdf"}

NextId(ids) == Max(ids \cup {0}) + 1
NextLinkId  == NextId({link[l].id : l \in Rows})
NextAppId   == NextId({app[s] : s \in App})

\* lookup_active refuses, and purge_expired_shares deletes, exactly these.
Dead(l) ==
  \/ link[l].revoked \/ link[l].expired
  \/ link[l].cap > 0 /\ link[l].views >= link[l].cap

DeleteRows(L) ==
  link' = [l \in Link |-> IF l \in L THEN [link[l] EXCEPT !.id = 0] ELSE link[l]]

-----------------------------------------------------------------------------
\* Apps come and go; a slug may come back, and gets an id of the day.
InstallApp(s) ==
  /\ app[s] = 0
  /\ app' = [app EXCEPT ![s] = NextAppId]
  /\ enabled' = enabled \cup {s}
  /\ UNCHANGED <<account, link, blob, served, quotaLock, req, restarts>>

ToggleApp(s) ==
  /\ app[s] # 0
  /\ enabled' = IF s \in enabled THEN enabled \ {s} ELSE enabled \cup {s}
  /\ UNCHANGED <<account, app, link, blob, served, quotaLock, req, restarts>>

\* POST /api/v1/share/create: the app row is read, the PDF rendered.
BeginMint(r) ==
  /\ \E u \in account, s \in enabled, kind \in {"storage", "pdf"}, c \in Caps :
       Accept(r, [Idle EXCEPT !.op = "mint",
                    !.pc = IF kind = "pdf" THEN "rendered" ELSE "inserting",
                    !.slug = s, !.app = app[s], !.user = u, !.kind = kind, !.cap = c])
  /\ UNCHANGED <<account, app, enabled, link, blob, served, quotaLock, restarts>>

\* Mutant: tokens are kept where ids belong.
AcquireKeepTokens(r) ==
  LET dead == {l \in Rows : link[l].creator = req[r].user /\ Dead(l)} IN
  /\ At(r, "mint", "rendered")
  /\ quotaLock = None
  /\ quotaLock' = r
  /\ blob' = blob \ Pdfs(dead)
  /\ req' = [req EXCEPT ![r].pc = IF dead = {} THEN "measuring" ELSE "purging",
                        ![r].ids = dead]
  /\ UNCHANGED <<account, app, enabled, link, served, restarts>>

\* Mutant: no lock.
AcquireNothing(r) ==
  LET dead == {l \in Rows : link[l].creator = req[r].user /\ Dead(l)} IN
  /\ At(r, "mint", "rendered")
  /\ blob' = blob \ Pdfs(dead)
  /\ req' = [req EXCEPT ![r].pc = IF dead = {} THEN "measuring" ELSE "purging",
                        ![r].ids = {link[l].id : l \in dead}]
  /\ UNCHANGED <<account, app, enabled, link, quotaLock, served, restarts>>

\* Mutant: a link with one view left is purged.
AcquirePurgeLastView(r) ==
  LET dead == {l \in Rows : link[l].creator = req[r].user /\ (Dead(l) \/ link[l].views + 1 >= link[l].cap)} IN
  /\ At(r, "mint", "rendered")
  /\ quotaLock = None
  /\ quotaLock' = r
  /\ blob' = blob \ Pdfs(dead)
  /\ req' = [req EXCEPT ![r].pc = IF dead = {} THEN "measuring" ELSE "purging",
                        ![r].ids = {link[l].id : l \in dead}]
  /\ UNCHANGED <<account, app, enabled, link, served, restarts>>

\* create_pdf_share takes the lock and purges this user's dead links: their
\* files now, their rows (by id) in a commit of its own.
AcquireQuotaLock(r) ==
  LET dead == {l \in Rows : link[l].creator = req[r].user /\ Dead(l)} IN
  /\ At(r, "mint", "rendered")
  /\ quotaLock = None
  /\ quotaLock' = r
  /\ blob' = blob \ Pdfs(dead)
  /\ req' = [req EXCEPT ![r].pc = IF dead = {} THEN "measuring" ELSE "purging",
                        ![r].ids = {link[l].id : l \in dead}]
  /\ UNCHANGED <<account, app, enabled, link, served, restarts>>

PurgeRows(r) ==
  /\ At(r, "mint", "purging")
  /\ DeleteRows({l \in Rows : link[l].id \in req[r].ids})
  /\ req' = [req EXCEPT ![r].pc = "measuring", ![r].ids = {}]
  /\ UNCHANGED <<account, app, enabled, blob, served, quotaLock, restarts>>

Stored(u) == {l \in Pdfs(Rows) \cap blob : link[l].creator = u}

\* Over the quota it is a 413; otherwise the file is written under its token.
MeasureAndWrite(r) ==
  /\ At(r, "mint", "measuring")
  /\ IF Cardinality(Stored(req[r].user)) + 1 > MaxPdfs
       THEN blob' = blob /\ quotaLock' = None /\ Finish(r)
       ELSE /\ quotaLock' = quotaLock
            /\ \E l \in Link :
                 /\ link[l] = NoRow /\ l \notin blob
                 /\ blob' = blob \cup {l}
                 /\ req' = [req EXCEPT ![r].pc = "inserting", ![r].link = l]
  /\ UNCHANGED <<account, app, enabled, link, served, restarts>>

\* The row is written whatever became of the app and the user, and the lock
\* is released.
InsertLink(r) ==
  LET q == req[r] IN
  /\ At(r, "mint", "inserting")
  /\ \E l \in IF q.kind = "pdf" THEN {q.link} ELSE Link \ blob :
       /\ link[l] = NoRow
       /\ link' = [link EXCEPT ![l] =
            [NoRow EXCEPT !.id = NextLinkId, !.app = q.app, !.slug = q.slug,
                          !.creator = q.user, !.kind = q.kind, !.cap = q.cap]]
  /\ quotaLock' = IF quotaLock = r THEN None ELSE quotaLock
  /\ Finish(r)
  /\ UNCHANGED <<account, app, enabled, blob, served, restarts>>

Expire(l) ==
  /\ l \in Rows /\ ~link[l].expired
  /\ link' = [link EXCEPT ![l].expired = TRUE]
  /\ UNCHANGED <<account, app, enabled, blob, served, quotaLock, req, restarts>>

-----------------------------------------------------------------------------
\* GET /s/<token>: lookup_active ...
LookupActive(r) ==
  /\ \E l \in Rows :
       /\ ~Dead(l) /\ served[l] < MaxServed
       /\ Accept(r, [Idle EXCEPT !.op = "view", !.pc = "found", !.link = l,
                       !.id = link[l].id, !.app = link[l].app, !.cap = link[l].cap])
  /\ UNCHANGED <<account, app, enabled, link, blob, served, quotaLock, restarts>>

\* ... the app by its id, which names the namespace of a stored object, and
\* whether there is something to serve ...
ResolveTarget(r) ==
  LET q == req[r] IN
  /\ At(r, "view", "found")
  /\ \/ /\ link[q.link].kind = "pdf" => q.link \in blob
        /\ \E s \in enabled :
             app[s] = q.app /\ req' = [req EXCEPT ![r].pc = "resolved", ![r].slug = s]
     \/ /\ \/ link[q.link].kind = "storage" \/ q.link \notin blob
           \/ \A s \in enabled : app[s] # q.app
        /\ Finish(r)
  /\ UNCHANGED <<account, app, enabled, link, blob, served, quotaLock, restarts>>

\* Mutant: the UPDATE counts whatever the cap.
RecordViewUncapped(r) ==
  /\ At(r, "view", "resolved")
  /\ link' = [l \in Link |-> IF l \in ById(req[r].id)
                            THEN [link[l] EXCEPT !.views = @ + 1] ELSE link[l]]
  /\ IF ById(req[r].id) = {} THEN Finish(r) ELSE Goto(r, "serving")
  /\ UNCHANGED <<account, app, enabled, blob, served, quotaLock, restarts>>

\* ... record_view: one UPDATE, by id, that tests the cap ...
RecordView(r) ==
  LET q   == req[r]
      hit == {l \in ById(q.id) : q.cap > 0 => link[l].views < q.cap}
  IN
  /\ At(r, "view", "resolved")
  /\ link' = [l \in Link |-> IF l \in hit THEN [link[l] EXCEPT !.views = @ + 1] ELSE link[l]]
  /\ IF hit = {} THEN Finish(r) ELSE Goto(r, "serving")
  /\ UNCHANGED <<account, app, enabled, blob, served, quotaLock, restarts>>

\* ... and the content, unless it has gone meanwhile.
Serve(r) ==
  LET l == req[r].link IN
  /\ At(r, "view", "serving")
  /\ link[l].kind = "pdf" => l \in blob
  /\ served' = [served EXCEPT ![l] = @ + 1]
  /\ Finish(r)
  /\ UNCHANGED <<account, app, enabled, link, blob, quotaLock, restarts>>

ServeNothing(r) ==
  /\ At(r, "view", "serving")
  /\ link[req[r].link].kind = "storage" \/ req[r].link \notin blob
  /\ Finish(r)
  /\ UNCHANGED <<account, app, enabled, link, blob, served, quotaLock, restarts>>

-----------------------------------------------------------------------------
\* Admin pages.  The row is read, then updated or deleted by its id.
BeginRevoke(r) ==
  /\ \E l \in Rows :
       /\ ~link[l].revoked
       /\ Accept(r, [Idle EXCEPT !.op = "revoke", !.pc = "writing", !.id = link[l].id])
  /\ UNCHANGED <<account, app, enabled, link, blob, served, quotaLock, restarts>>

CommitRevoke(r) ==
  LET hit == ById(req[r].id) IN
  /\ At(r, "revoke", "writing")
  /\ link' = [l \in Link |-> IF l \in hit THEN [link[l] EXCEPT !.revoked = TRUE] ELSE link[l]]
  /\ Finish(r)
  /\ UNCHANGED <<account, app, enabled, blob, served, quotaLock, restarts>>

\* The file goes first.
BeginDelete(r) ==
  /\ \E l \in Rows :
       /\ blob' = blob \ {l}
       /\ Accept(r, [Idle EXCEPT !.op = "delete_link", !.pc = "writing",
                                 !.id = link[l].id, !.files = {l}])
  /\ UNCHANGED <<account, app, enabled, link, served, quotaLock, restarts>>

CommitDelete(r) ==
  /\ At(r, "delete_link", "writing")
  /\ DeleteRows(ById(req[r].id))
  /\ Finish(r)
  /\ UNCHANGED <<account, app, enabled, blob, served, quotaLock, restarts>>

\* _delete_user: one transaction, begun before the shares are looked at.
DeleteUser(u) ==
  LET own == {l \in Rows : link[l].creator = u} IN
  /\ u \in account
  /\ account' = account \ {u}
  /\ blob' = blob \ Pdfs(own)
  /\ DeleteRows(own)
  /\ UNCHANGED <<app, enabled, served, quotaLock, req, restarts>>

\* admin_apps_delete: the app row is read; the files of its PDF links go ...
BeginDeleteApp(r) ==
  /\ \E s \in App :
       /\ app[s] # 0
       /\ Accept(r, [Idle EXCEPT !.op = "delete_app", !.pc = "files",
                                 !.slug = s, !.app = app[s]])
  /\ UNCHANGED <<account, app, enabled, link, blob, served, quotaLock, restarts>>

LinksOf(a) == {l \in Rows : link[l].app = a}

DeleteAppFiles(r) ==
  /\ At(r, "delete_app", "files")
  /\ blob' = blob \ Pdfs(LinksOf(req[r].app))
  /\ req' = [req EXCEPT ![r].pc = "rows", ![r].files = Pdfs(LinksOf(req[r].app))]
  /\ UNCHANGED <<account, app, enabled, link, served, quotaLock, restarts>>

RemoveApp(a) ==
  /\ app' = [s \in App |-> IF app[s] = a THEN 0 ELSE app[s]]
  /\ enabled' = {s \in enabled : app[s] # a}

\* ... then its links and its row: one commit, or two when the app has open
\* sessions, whose revocation commits.
DeleteAppRows(r) ==
  LET a == req[r].app IN
  /\ At(r, "delete_app", "rows")
  /\ DeleteRows(LinksOf(a))
  /\ \/ RemoveApp(a) /\ Finish(r)
     \/ UNCHANGED <<app, enabled>> /\ Goto(r, "app")
  /\ UNCHANGED <<account, blob, served, quotaLock, restarts>>

DeleteAppRow(r) ==
  /\ At(r, "delete_app", "app")
  /\ RemoveApp(req[r].app)
  /\ Finish(r)
  /\ UNCHANGED <<account, link, blob, served, quotaLock, restarts>>

-----------------------------------------------------------------------------
\* init_db of a command of the CLI, beside the portal: it purges everyone's dead links
\* without the quota's lock, their files first.
BeginPurge(r) ==
  LET dead == {l \in Rows : Dead(l)} IN
  /\ dead # {}
  /\ Accept(r, [Idle EXCEPT !.op = "purge", !.pc = "sweeping", !.ids = {link[l].id : l \in dead}])
  /\ blob' = blob \ Pdfs(dead)
  /\ UNCHANGED <<account, app, enabled, link, served, quotaLock, restarts>>

CommitPurge(r) ==
  /\ At(r, "purge", "sweeping")
  /\ DeleteRows({l \in Rows : link[l].id \in req[r].ids})
  /\ Finish(r)
  /\ UNCHANGED <<account, app, enabled, blob, served, quotaLock, restarts>>

\* The process dies, a command of the CLI does not; at startup everyone's dead links
\* are purged.
Restart ==
  LET dead == {l \in Rows : Dead(l)} IN
  /\ restarts < MaxRestarts
  /\ restarts' = restarts + 1
  /\ req' = [r \in Request |-> IF req[r].op = "purge" THEN req[r] ELSE Idle]
  /\ quotaLock' = None
  /\ blob' = blob \ Pdfs(dead)
  /\ DeleteRows(dead)
  /\ UNCHANGED <<account, app, enabled, served>>

Mint(r) == \/ BeginMint(r) \/ AcquireQuotaLock(r) \/ PurgeRows(r)
           \/ MeasureAndWrite(r) \/ InsertLink(r)
View(r) == \/ LookupActive(r) \/ ResolveTarget(r) \/ RecordView(r)
           \/ Serve(r) \/ ServeNothing(r)
Manage(r) == \/ BeginRevoke(r) \/ CommitRevoke(r) \/ BeginDelete(r) \/ CommitDelete(r)
             \/ BeginDeleteApp(r) \/ DeleteAppFiles(r) \/ DeleteAppRows(r) \/ DeleteAppRow(r)
             \/ BeginPurge(r) \/ CommitPurge(r)

Next ==
  \/ \E r \in Request : Mint(r) \/ View(r) \/ Manage(r)
  \/ \E s \in App : InstallApp(s) \/ ToggleApp(s)
  \/ \E l \in Link : Expire(l)
  \/ \E u \in User : DeleteUser(u)
  \/ Restart

Spec == Init /\ [][Next]_vars

-----------------------------------------------------------------------------
\* Tables, files, requests and history stay within their types.
TypeOK ==
  /\ account \in SUBSET User
  /\ app \in [App -> Nat] /\ enabled \in SUBSET App
  /\ link \in [Link -> Row]
  /\ blob \in SUBSET Link
  /\ served \in [Link -> Nat]
  /\ quotaLock \in Request \cup {None}
  /\ req \in [Request -> RequestState]
  /\ restarts \in 0..MaxRestarts

\* While its row is there, a link's content never goes out more often than it
\* was counted, nor than its cap, however many viewers arrive at once
\* (shares.py record_view: the cap is tested by the UPDATE that counts).
CapHolds ==
  \A l \in Rows :
    /\ served[l] <= link[l].views
    /\ link[l].cap > 0 => served[l] <= link[l].cap

\* The PDFs stored for a user's links, with the one about to be linked, are
\* within the user's quota: two creations never measure the same headroom
\* (shares.py _pdf_share_quota_lock).
QuotaHeld ==
  \A u \in User :
    Cardinality(Stored(u))
      + Cardinality({r \in Request : At(r, "mint", "inserting")
                                       /\ req[r].kind = "pdf" /\ req[r].user = u})
    <= MaxPdfs

\* The purge, running beside everything else, never takes the file of a link
\* that can still be viewed; only the deletion of the link or of its app does,
\* just before its row.  A crash in between leaves a link without its file, so it
\* is said of runs without one.
LiveHasFile ==
  restarts = 0 =>
    \A l \in Pdfs(Rows) :
      ~Dead(l) => \/ l \in blob
                  \/ \E r \in Request : l \in req[r].files

\* Not kept, and no run checks it (README).  main.py share_view: "The share is bound
\* to (app, creator) at mint time".
ServesMintedApp ==
  [][\A r \in Request : Serve(r) /\ link[req[r].link].kind = "storage" =>
       req[r].slug = link[req[r].link].slug]_vars
=============================================================================
