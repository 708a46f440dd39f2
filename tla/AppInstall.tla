------------------------------ MODULE AppInstall ------------------------------
(***************************************************************************)
(* One app slug: its bundle of files, its row in the App table, and what   *)
(* its manifest may use.  Uploads install or replace the bundle and the    *)
(* row; admin pages save which origins and services the app is allowed,    *)
(* and delete the app.                                                     *)
(*                                                                         *)
(* Installs are coroutines under one lock and await between their steps;   *)
(* the admin pages are threads.  Each handler works on the copy of the row *)
(* it loaded first: SQLAlchemy's session returns that same object when it  *)
(* selects the row again, and writes back only the columns whose value     *)
(* differs from what it loaded.                                            *)
(*                                                                         *)
(* Lists of origins and services are sets.  A manifest stands for its      *)
(* version, name, icon, tools and forms too.  Uploads come from one        *)
(* browser session, and one stash waits at a time: to row and files the    *)
(* confirmation of any other is an install that may replace (BeginInstall).*)
(* Left out: access rows (AppAccess has them), services_ungated (older     *)
(* databases only), enabling and ordering (columns of their own).          *)
(***************************************************************************)
EXTENDS Integers, FiniteSets

CONSTANTS
  Origin, Service,
  Manifest,      \* the manifests that are uploaded
  Request,       \* request slots
  None,
  MaxId,         \* bound on row ids; the table may give any of them
  MaxRestarts    \* bound on restarts of the portal

ASSUME ManifestAssumption ==
  Manifest \subseteq [origins : SUBSET Origin, services : SUBSET Service]
ASSUME NoneAssumption  == None \notin Manifest \cup Request
ASSUME BoundAssumption == MaxId \in Nat /\ MaxRestarts \in Nat

VARIABLES
  row,       \* the App row of the slug; id 0 when there is none
  bundle,    \* the files under apps/<slug>: the manifest they came with, or None
  lock,      \* holder of _install_lock
  stash,     \* the upload that waits to be confirmed as an update, or None
  req,
  word,      \* history: what the admin last said and manifests asked, see Word
  raced,     \* history: a handler wrote from a copy of the row that was stale
  overlap,   \* history: a delete ran beside an install or another delete
  restarts

vars == <<row, bundle, lock, stash, req, word, raced, overlap, restarts>>

Row == [id : 0..MaxId,
        requested : SUBSET Origin, allowed : SUBSET Origin, revoked : SUBSET Origin,
        services : SUBSET Service, allowedServices : SUBSET Service,
        revokedServices : SUBSET Service]

NoRow == [id |-> 0, requested |-> {}, allowed |-> {}, revoked |-> {},
          services |-> {}, allowedServices |-> {}, revokedServices |-> {}]

\* `refused` and `refusedServices`: unchecked in the last form that showed them;
\* `added`: origins added by hand that no manifest ever asked for; `asked`:
\* origins some manifest of the row asked for.
Word == [refused : SUBSET Origin, refusedServices : SUBSET Service,
         added : SUBSET Origin, asked : SUBSET Origin]

NoWord == [refused |-> {}, refusedServices |-> {}, added |-> {}, asked |-> {}]

Ops == {"none", "install", "network", "services", "delete"}
PCs == {"idle", "waiting", "checking", "swapping", "committing", "editing", "files", "row"}

\* `loaded` is the handler's copy of the row, `replace` its allow_replace.
RequestState ==
  [op : Ops, pc : PCs, manifest : Manifest \cup {None}, replace : BOOLEAN, loaded : Row]

Idle == [op |-> "none", pc |-> "idle", manifest |-> None, replace |-> FALSE, loaded |-> NoRow]

Init ==
  /\ row = NoRow
  /\ bundle = None
  /\ lock = None
  /\ stash = None
  /\ req = [r \in Request |-> Idle]
  /\ word = NoWord
  /\ raced = FALSE
  /\ overlap = FALSE
  /\ restarts = 0

-----------------------------------------------------------------------------
Accept(r, rec) == req[r] = Idle /\ req' = [req EXCEPT ![r] = rec]
Goto(r, pc)    == req' = [req EXCEPT ![r].pc = pc]
Finish(r)      == req' = [req EXCEPT ![r] = Idle]
At(r, op, pc)  == req[r].op = op /\ req[r].pc = pc
Busy(op)       == \E r \in Request : req[r].op = op

\* A column keeps its present value unless the handler changed its own copy.  (A list
\* that differs in its order only is written too; that is noticed only where the row
\* changed meanwhile, and then `raced` is set.)
Column(name, r, new) == IF new = req[r].loaded[name] THEN row[name] ELSE new

\* UPDATE ... WHERE id finds the row the handler loaded.
RowIsThere(r) == row.id # 0 /\ row.id = req[r].loaded.id

NoteRace(r) == raced' = (raced \/ row # req[r].loaded)

-----------------------------------------------------------------------------
Arrive(r, m, replace, loaded) ==
  /\ Accept(r, [op |-> "install", pc |-> "waiting", manifest |-> m,
                replace |-> replace, loaded |-> loaded])
  /\ overlap' = (overlap \/ Busy("delete"))

\* From the API or an MCP tool, which may say that it replaces.
BeginInstall(r) ==
  /\ \E m \in Manifest, b \in BOOLEAN : Arrive(r, m, b, NoRow)
  /\ UNCHANGED <<row, bundle, lock, word, raced, stash, restarts>>

\* From the replace page or the API's PUT, which have loaded the row already.
BeginReplace(r) ==
  /\ row.id # 0
  /\ \E m \in Manifest : Arrive(r, m, TRUE, row)
  /\ UNCHANGED <<row, bundle, lock, word, raced, stash, restarts>>

\* From the upload page, when the slug is new ...
Upload(r) ==
  /\ row.id = 0
  /\ \E m \in Manifest : Arrive(r, m, FALSE, NoRow)
  /\ UNCHANGED <<row, bundle, lock, word, raced, stash, restarts>>

\* ... and when it is not: the upload waits, in the place of an earlier one, and the
\* admin is asked.
Stash ==
  /\ row.id # 0
  /\ stash' \in Manifest
  /\ UNCHANGED <<row, bundle, lock, req, word, raced, overlap, restarts>>

\* The admin says yes, by when the row may be another or gone: the stash is popped
\* and installed.
ConfirmUpload(r) ==
  /\ stash # None
  /\ Arrive(r, stash, TRUE, NoRow)
  /\ stash' = None
  /\ UNCHANGED <<row, bundle, lock, word, raced, restarts>>

DropStash ==
  /\ stash # None
  /\ stash' = None
  /\ UNCHANGED <<row, bundle, lock, req, word, raced, overlap, restarts>>

\* Or no ...
CancelUpload == DropStash

\* ... or it is half an hour old when a request of these prunes the stashes.
ExpireUpload == DropStash

\* Mutant: installs do not wait for each other.
LoadExistingUnlocked(r) ==
  /\ At(r, "install", "waiting")
  /\ IF row.id # 0 /\ ~req[r].replace
       THEN Finish(r)
       ELSE req' = [req EXCEPT ![r].loaded = IF RowIsThere(r) THEN req[r].loaded ELSE row,
                               ![r].pc = IF row.id = 0 THEN "checking" ELSE "swapping"]
  /\ UNCHANGED <<row, bundle, lock, word, raced, overlap, stash, restarts>>

\* The lock is taken and the row selected: an object the session holds already
\* is returned as it was.  An existing app needs allow_replace.
LoadExisting(r) ==
  LET loaded == IF RowIsThere(r) THEN req[r].loaded ELSE row IN
  /\ At(r, "install", "waiting")
  /\ lock = None
  /\ IF row.id # 0 /\ ~req[r].replace
       THEN lock' = lock /\ Finish(r)
       ELSE /\ lock' = r
            /\ req' = [req EXCEPT ![r].loaded = loaded,
                         ![r].pc = IF row.id = 0 THEN "checking" ELSE "swapping"]
  /\ UNCHANGED <<row, bundle, word, raced, overlap, stash, restarts>>

\* Orphan guard: a fresh install wants no files there.
CheckOrphan(r) ==
  /\ At(r, "install", "checking")
  /\ IF bundle # None
       THEN lock' = None /\ Finish(r)
       ELSE lock' = lock /\ Goto(r, "swapping")
  /\ UNCHANGED <<row, bundle, word, raced, overlap, stash, restarts>>

\* replace_tree.
SwapBundle(r) ==
  /\ At(r, "install", "swapping")
  /\ bundle' = req[r].manifest
  /\ Goto(r, "committing")
  /\ UNCHANGED <<row, lock, word, raced, overlap, stash, restarts>>

\* It may fail, and then leaves the old files.
FailSwap(r) ==
  /\ At(r, "install", "swapping")
  /\ lock' = None
  /\ Finish(r)
  /\ UNCHANGED <<row, bundle, word, raced, overlap, stash, restarts>>

Release(r) == lock' = (IF lock = r THEN None ELSE lock)

\* Mutant: origins and services are swapped.
SwappedRow(i, m) ==
  [NoRow EXCEPT !.id = i, !.requested = m.services, !.services = m.origins]

\* A new app is allowed all its manifest asks for.
NewRow(i, m) ==
  [id |-> i, requested |-> m.origins, allowed |-> m.origins, revoked |-> {},
   services |-> m.services, allowedServices |-> m.services, revokedServices |-> {}]

\* Mutant: the origins added by hand are dropped.
AskedOrigins(loaded, m) == m.origins \ loaded.revoked

\* A new version is allowed what it asks for and was not revoked, and what was
\* added by hand.
ReplacedOrigins(loaded, m) ==
  (m.origins \ loaded.revoked) \cup (loaded.allowed \ loaded.requested)

\* Fresh install.  The slug is unique; a commit that fails takes the files
\* with it.
InsertRow(r) ==
  LET m == req[r].manifest IN
  /\ At(r, "install", "committing") /\ req[r].loaded.id = 0
  /\ \/ /\ row.id = 0
        /\ \E i \in 1..MaxId : row' = NewRow(i, m)
        /\ bundle' = bundle
        /\ word' = [NoWord EXCEPT !.asked = m.origins]
     \/ row' = row /\ word' = word /\ bundle' = None
  /\ Release(r)
  /\ Finish(r)
  /\ UNCHANGED <<raced, overlap, stash, restarts>>

UpdateRow(r) ==
  LET m      == req[r].manifest
      loaded == req[r].loaded
  IN
  /\ At(r, "install", "committing") /\ loaded.id # 0
  /\ IF RowIsThere(r)
       THEN /\ row' = [row EXCEPT
                 !.requested = Column("requested", r, m.origins),
                 !.allowed = Column("allowed", r, ReplacedOrigins(loaded, m)),
                 !.services = Column("services", r, m.services),
                 !.allowedServices =
                   Column("allowedServices", r, m.services \ loaded.revokedServices)]
            /\ word' = [word EXCEPT !.asked = @ \cup m.origins, !.added = @ \ m.origins]
            /\ NoteRace(r)
       ELSE UNCHANGED <<row, word, raced>>
  /\ Release(r)
  /\ Finish(r)
  /\ UNCHANGED <<bundle, overlap, stash, restarts>>

-----------------------------------------------------------------------------
\* Admin pages: the row is loaded ...
BeginEdit(r) ==
  /\ row.id # 0
  /\ \E op \in {"network", "services"} :
       Accept(r, [Idle EXCEPT !.op = op, !.pc = "editing", !.loaded = row])
  /\ UNCHANGED <<row, bundle, lock, word, raced, overlap, stash, restarts>>

\* Mutant: revocations of what is not shown are forgotten.
RevokedNow(before, shown, checked) == shown \ checked

\* What a form shows and is left unchecked is revoked; other revocations stay.
Revoked(before, shown, checked) == (before \ shown) \cup (shown \ checked)

\* ... and saved: of the origins it requests, those checked; and any others.
SaveNetwork(r) ==
  LET loaded == req[r].loaded IN
  /\ At(r, "network", "editing")
  /\ \E checked \in SUBSET loaded.requested, extras \in SUBSET Origin :
       IF RowIsThere(r)
         THEN /\ row' = [row EXCEPT
                   !.allowed = Column("allowed", r, checked \cup extras),
                   !.revoked =
                     Column("revoked", r, Revoked(loaded.revoked, loaded.requested, checked))]
              /\ word' = [word EXCEPT
                   !.refused = ((@ \ checked) \cup (loaded.requested \ checked)) \ extras,
                   !.added = extras \ word.asked]
              /\ NoteRace(r)
         ELSE UNCHANGED <<row, word, raced>>
  /\ Finish(r)
  /\ UNCHANGED <<bundle, lock, overlap, stash, restarts>>

\* Mutant: whatever the form names.
Named(r) == SUBSET Service

\* The services a form may check.
Declared(r) == SUBSET req[r].loaded.services

SaveServices(r) ==
  LET loaded == req[r].loaded IN
  /\ At(r, "services", "editing")
  /\ \E checked \in Declared(r) :
       IF RowIsThere(r)
         THEN /\ row' = [row EXCEPT
                   !.allowedServices = Column("allowedServices", r, checked),
                   !.revokedServices =
                     Column("revokedServices", r,
                            Revoked(loaded.revokedServices, loaded.services, checked))]
              /\ word' = [word EXCEPT
                   !.refusedServices = (@ \ checked) \cup (loaded.services \ checked)]
              /\ NoteRace(r)
         ELSE UNCHANGED <<row, word, raced>>
  /\ Finish(r)
  /\ UNCHANGED <<bundle, lock, overlap, stash, restarts>>

-----------------------------------------------------------------------------
\* admin_apps_delete takes no lock: the files go, then the row, by its id.  (That its
\* commit is refused, which leaves the row alone as a crash would, is left out.)
BeginDelete(r) ==
  /\ row.id # 0
  /\ Accept(r, [Idle EXCEPT !.op = "delete", !.pc = "files", !.loaded = row])
  /\ overlap' = (overlap \/ Busy("delete") \/ Busy("install"))
  /\ UNCHANGED <<row, bundle, lock, word, raced, stash, restarts>>

DeleteFiles(r) ==
  /\ At(r, "delete", "files")
  /\ bundle' = None
  /\ Goto(r, "row")
  /\ UNCHANGED <<row, lock, word, raced, overlap, stash, restarts>>

DeleteRow(r) ==
  /\ At(r, "delete", "row")
  /\ IF RowIsThere(r) THEN row' = NoRow /\ word' = NoWord ELSE UNCHANGED <<row, word>>
  /\ Finish(r)
  /\ UNCHANGED <<bundle, lock, raced, overlap, stash, restarts>>

Restart ==
  /\ restarts < MaxRestarts
  /\ restarts' = restarts + 1
  /\ req' = [r \in Request |-> Idle]
  /\ lock' = None
  /\ stash' = None
  /\ UNCHANGED <<row, bundle, word, raced, overlap>>

Install(r) == \/ BeginInstall(r) \/ BeginReplace(r) \/ Upload(r) \/ ConfirmUpload(r)
              \/ LoadExisting(r) \/ CheckOrphan(r)
              \/ SwapBundle(r) \/ FailSwap(r) \/ InsertRow(r) \/ UpdateRow(r)
Edit(r)    == BeginEdit(r) \/ SaveNetwork(r) \/ SaveServices(r)
Delete(r)  == BeginDelete(r) \/ DeleteFiles(r) \/ DeleteRow(r)

Next == \/ \E r \in Request : Install(r) \/ Edit(r) \/ Delete(r)
        \/ Stash \/ CancelUpload \/ ExpireUpload \/ Restart

Spec == Init /\ [][Next]_vars

-----------------------------------------------------------------------------
\* The row, the files and the requests are what the code can make of them.
TypeOK ==
  /\ row \in Row
  /\ bundle \in Manifest \cup {None}
  /\ lock \in Request \cup {None}
  /\ stash \in Manifest \cup {None}
  /\ req \in [Request -> RequestState]
  /\ word \in Word
  /\ raced \in BOOLEAN /\ overlap \in BOOLEAN
  /\ restarts \in 0..MaxRestarts

Settled == ~(Busy("install") \/ Busy("delete"))

\* However many uploads of the slug run at once, each failing where it may, the
\* app has its row and its files or neither (apps.py _install_lock).  A delete
\* beside an upload, or a crash, breaks it: for no overlap and no restart.
RowAndFiles ==
  Settled /\ ~overlap /\ restarts = 0 => (row.id # 0 <=> bundle # None)

\* What the admin switched off stays off, through any number of new versions
\* that stop and start asking (models.py revoked_origins), as long as nobody
\* writes from a stale copy of the row.
RevocationStands ==
  ~raced => /\ word.refused \cap row.allowed = {}
            /\ word.refusedServices \cap row.allowedServices = {}

\* An origin added by hand that no manifest asks for stays allowed until the
\* admin saves the list without it (apps.py: "are kept too").
HandAddedKept == ~raced => word.added \subseteq row.allowed

\* An app is allowed services its manifest declares, and no others (apps.py
\* admin_apps_services_update): again without stale copies.
ServicesDeclared == ~raced => row.allowedServices \subseteq row.services

\* Not kept, and no run checks it (README).  models.py, revoked_origins: "Replace
\* auto-approves only what's newly declared AND not in here."
ReplaceKeepsNo ==
  [][\A r \in Request : UpdateRow(r) => (row'.allowed \ row.allowed) \cap row.revoked = {}]_vars
=============================================================================
