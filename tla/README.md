# A verification development for the portal

TLA+ models of the PWA portal (`src/portal/`), the TLC
configurations that check them on small instances, and theorems about them that
TLAPS checks for every instance. `PROJECT.json` links every definition to the
lines it models, every property to the hazard it is about, and every run to
what it shows.

- [The system](#the-system): what the portal consists of, and what is hard about it
- [Plan](#plan): what exists and what comes next
- [How the models are written](#how-the-models-are-written)
- [The modules](#the-modules) and [the runs](#the-runs)
- [What the code does not keep](#what-the-code-does-not-keep)
- [Proofs](#proofs)
- [What is not modelled](#what-is-not-modelled)

## The system

One Python process serves everything. Synchronous handlers run on a pool of 40
threads; coroutines (the OAuth provider, uploads, storage writes, form posts)
share one event loop; a ticker fires schedules from a worker thread. They share
a database (SQLite by default, PostgreSQL on AWS), a tree of files (or an S3
bucket), a few in-memory tables, and process-wide locks. The CLI is another
process on the same database. There is no queue and no second server: what is
hard is *several commits per request*, between which other requests run and the
process may die.

| component | state | operations | with whom |
|---|---|---|---|
| accounts and roles (`admin.py`, `main.py`, `cli.py`, `deps.py`) | `User`, `ApiToken`, setting `setup_complete`, two locks | setup, create, role, delete, mint and revoke tokens, promote | ends credentials, grants and links of a user |
| passwords and sessions (`sessions.py`, `main.py`, `api.py`) | `password_hash`, `UserSession`, `AppLaunchToken`, `AppSession` | login, logout, change, reset, open an app, exchange a launch token | every page is authenticated by it |
| OAuth server (`oauth.py`) | `OAuthClient`, `OAuthPendingAuthorization`, `OAuthCode`, `OAuthToken` | register, authorize, consent, exchange, refresh, revoke, prune | the `mcp` SDK calls the provider; sign-outs end its grants |
| share links (`shares.py`, `main.py`, `api.py`) | `ShareLink`, `shares/*.pdf`, the quota lock | mint, view, revoke, delete, purge | go with their creator and their app; read the creator's storage |
| app installation (`apps.py`, `storage_backend.py`) | `App`, `apps/<slug>/`, the install lock, stashed uploads | upload, confirm, replace, network and services forms, move, toggle, delete | approvals gate the SDK and the CSP |
| scheduler (`scheduler.py`) | `ScheduledRun` | tick, run now, create, toggle, delete | runs app tools as the owner |
| per-app access (`access.py`) | `UserAppAccess`, the default | grants on creation, the access form | closes app sessions |
| SDK services (`api.py`) | per-user storage and its lock, render slots, rate windows | storage, PDF, e-mail, share, exchange | authenticated by app sessions or tokens |
| admission limits (`main.py`, `forms.py`, `api.py`, `oauth.py`) | in-memory windows | reserve, clear, refund, prune | login, forms, PDF, e-mail |
| forms, MCP server, app tools (`forms.py`, `mcp_server.py`, `app_tools.py`) | `FormSubmission` | submit; the admin operations over MCP; render and deliver | call the components above |
| host routing (`middleware.py`) | none | which host reaches which path | in front of everything |
| start-up (`db.py`) | – | migrations, purges | purges sessions, links, OAuth rows |
| audit, health, settings, branding, mail | logs, key-value settings | append, read | – |

What makes each component correct:

- **Accounts**: an admin always remains; setup happens once; the id of a deleted
  account never returns; only admins hold API tokens.
- **Sessions**: what a password bought ends when the password is replaced, all of
  it and eventually; a launch token buys one session, for its own app and user.
- **OAuth**: a code or refresh token is spent once; a grant has one usable pair;
  an ended grant never comes back; parked requests are bounded and one client's
  flood does not cost another its request.
- **Share links**: never served beyond the cap; the quota holds; the purge takes
  dead links only; nothing outlives its creator or turns into another app's.
- **Installation**: row and files come and go together; an admin's "no" outlives
  any number of versions; an app is allowed what its manifest declares.
- **Scheduler**: no occurrence is passed over, run twice or made up for in bulk;
  what is due is run in the end, whatever happens to the other schedules.
- **Access**: nobody is served without access at some moment of the request;
  defaults reach every user and app; what is taken away closes its sessions; an
  app's host gives away nothing but that app.
- **Storage**: a write keeps the quota, beside deletes that take no lock.
- **Limits**: no window admits more than its limit, however requests overlap,
  but for what a success or a refund gives back; slots come back.

Hard behaviours: check-then-act across commits, rows held as objects while others
change them, ids that SQLite gives out again, files and rows that cannot change
together, sign-outs in several commits, crashes between commits, expiry at any
moment. `PROJECT.json` lists them as hazards, line by line.

## Plan

In the order of importance.

| | module | composes / implements | theorems |
|---|---|---|---|
| done | `AdminAccounts` | – | type correctness and all of its properties |
| done | `Credentials` | – | type correctness and all of its safety properties |
| done | `OAuthServer` | implements `OAuthGrant` | type correctness, all of its properties, the refinement |
| done | `ShareLinks` | – | type correctness and all of its properties |
| done | `AppInstall`, with the stash of the upload page | – | type correctness and all of its properties |
| done | `Scheduler` | takes `NextRun` as a parameter | type correctness and all of its safety properties |
| done | `NextRun` | `compute_next_run` against the definition of "first match after" | all of it |
| done | `AppAccess` | accounts, apps, access rows, host routing, launches and service requests together | type correctness and all of its properties |
| done | `StorageNamespace` | – | type correctness with the lock discipline, `WithinQuota` |
| done | `Admission` | – | type correctness and all of its properties |

`AppAccess` is the composition: what `AdminAccounts`, `Credentials` and
`AppInstall` each model in detail meets there, with one commit for what they take
in several steps. Every safety property of every module is proved; what is left are the
parts under [what is not modelled](#what-is-not-modelled) and, model-checked only, the
two liveness properties.

Runs have at most two concurrent requests (`StorageNamespace` and `AppAccess` three,
`Admission` four): every race found or excluded here needs two actors at a time. Bounds on ids and versions are
what each cfg says.

## How the models are written

**Steps.** A request is a sequence of steps, kept in `req`
(`attempt` in `Admission`). A step ends where
another request can notice or interfere: at a commit, at a read whose result is
used after somebody else may have committed, at the taking of a lock, at a change
of files. Several reads with nothing in between are one step. So are the reading of
a clock and the taking of the lock it is read for (`Admission`), the walk of a
namespace (`StorageNamespace`), and in `AppAccess`, the composition, what
`Credentials` and `AppInstall` split. `Accept` starts a
request in a free slot, `Finish` frees the slot; the slots bound concurrency.

**Database.** A commit is atomic and immediately visible. In `ShareLinks` the
order of a handler's first write and its reads is that of SQLite, where a
transaction begins with the first write. An `UPDATE` or `DELETE ... WHERE` of a
row that is gone changes nothing. A commit fails only where the code handles that
(`AppInstall.InsertRow`). Foreign keys are not enforced (`db.py` never
switches them on). `User.id` is `AUTOINCREMENT`; other ids are given out again.

**Objects.** Where a handler works on a row it loaded earlier, the copy is part
of the request (`AppInstall.loaded`), a second `SELECT` in one session returns
that same object, and a commit writes the columns that differ from it.

**Crashes.** `Restart` drops every request and lock and keeps database and files;
where the start-up purges matter they are part of it. `MaxRestarts` bounds it. The
commands of the CLI run the same purges beside the serving portal, without its locks
(`RunCli` of `OAuthServer`, `BeginPurge` and `CommitPurge` of `ShareLinks`).

**Time.** Expiry is a choice: whatever may have expired does or does not. Only
`Scheduler`, `NextRun` and `Admission` have a clock, because their properties
compare times.

**History.** Some variables exist to state a property: `founders`, `late`,
`root`, `cutoff`, `ended`, `served`, `slug` of a link, `word`, `raced`,
`overlap`, `tried`, `since`, `owed`, `seen`, `launched`, `lost`, `counted`, `netHit`,
`end`, `torn`. No guard of a modelled operation reads them, but for the bound
`MaxServed`.

**Mutants.** Definitions marked `Mutant:` or "As if" are not part of a
specification; each stands for a plausible bug and breaks one property.

## The modules

**AdminAccounts** – `role` is the `User` table, `issued` what `AUTOINCREMENT`
remembers, `apiTokens`, `setupComplete`, `setupLock` (`main._setup_lock`),
`adminLock` (`admin._admin_change_lock`). Setup: `SubmitSetup`,
`AcquireSetupLock`, `CheckNoAdmin`, `CompleteSetup`. `SubmitAdminRequest` is
`require_admin`, which reads the role once. `users_set_role` and `users_delete`
are `AcquireAdminLock`, `ReadTarget`, `CountAdmins`, then `CommitRole` and
`RevokeAdminCredentials`, or `CommitDelete`. The CLI's promote takes no lock and
survives a restart of the portal.

**Credentials** – `password` counts versions of a user's hash; `cred` holds the
rows of four tables by random id. `root` of a row is the version its holder
proved. `sign_out_everywhere` is `RevokeSessions`, `RevokeAppSessions`,
`DeleteGrants`, its three commits. One user is enough in an instance: no request
reads or writes rows of two users.

**OAuthServer** – the four tables, with `txn` numbered in the order of expiry.
The provider's coroutines never await, so only one is between two of its commits
(`LoopFree`); consent and admin pages are threads and interleave with it.
`BeginExchange`, `ClaimCode`, `Issue` are the read, the delete and the insert of
`exchange_authorization_code`; likewise for refresh. `ended` collects the grants that
a sign-out, the deletion of their client or a prune has ended: a sign-out those of
the user's codes, except one that a request carries between claim and pair; a
deletion those of the client's codes, except that and the code of an exchange whose
client was looked up before. A code minted after a sign-out, by a consent begun
before it, is not among them. `OAuthGrant` is what the tables promise: a grant is opened once, is handed from holder to holder, ends,
and stays ended. The refinement maps the holder to the live code, the request
between claim and issue, or the live pair.

**ShareLinks** – rows by token with the id SQLite gave them, the PDFs as `blob`,
`served` as what went out. Minting, viewing and managing are the three groups of
`Next`. `create_pdf_share` is `AcquireQuotaLock` (with the purge's file
deletions), `PurgeRows`, `MeasureAndWrite`, `InsertLink`. The CLI's purge takes no
lock and survives a restart of the portal.

**AppInstall** – one slug: `row`, `bundle` (the manifest its files came with),
`lock` (`_install_lock`). Uploads come from the API and MCP (`BeginInstall`), from
the replace page, which has loaded the row (`BeginReplace`), and from the upload
page, which installs a new slug and keeps a known one as `stash` until the admin
confirms (`Upload`, `Stash`, `ConfirmUpload`, `CancelUpload`, `ExpireUpload`); a restart
forgets the stash, and the row may be gone or another by the time it is confirmed.
`word` remembers what the admin last said, so that `RevocationStands` speaks of
the admin's decisions and not of the code's own columns.

**Scheduler** – `row` is the `ScheduledRun` table by the ids SQLite gives out,
`ticker` the session of `run_due_schedules`: the objects it loaded, which it has
yet to look at, and whether it committed, for after its first commit every object
is read again and one whose row is gone raises and ends the tick (`AbortTick`).
`Fire` and `Record` are the two ends of `_run_one`, with the tool running in
between. Requests are `Begin...`, where they load and compute, and `Commit...`.
`RecordRunNow` leaves the row as it is: `fire_schedule` writes only the
`last_*` columns, and that `next_run_at` stays is what the mutant
`RunNowAdvances` breaks. `tried` remembers when the ticker last ran a schedule,
`since` when the schedule was created or last resumed, and `raced` what went wrong
where its next run was last computed: for another schedule that had the id
("reused": with that schedule's cadence, `scheduler.py:156`), by a tick that began
before the resume ("resumed"), or by a resume computed before the tick ("overtaken").
The cadences are the parameter `NextRun(g, _)`, one for each schedule; of a cadence
the module uses only that the next run lies after its argument and that a later
argument gets no earlier one.

**NextRun** – `compute_next_run` over a calendar that is a parameter (which month
a day lies in, where a month begins), and the chain of runs one schedule makes
with it (`Chain`). `Matches` says what a cadence means day by day and knows nothing of how
the function gets there. The handlers offer days of the month up to 28; the
function takes them up to 31, and so does the module.

**AppAccess** – `role`, `app`, `access` and `policy` are the rows that decide;
`tokens` and `sessions` what a launch leaves behind. The administrators' side is
one job per handler: a creation flushes, and so holds SQLite's write lock
(`writer`), before it reads the other table; `users_apps_save` is its two reads,
its commit and the revocation after it; a toggle and a deletion of an app
likewise; changes of one commit are one action. The users' side follows a request
through `RouteOf` (which handler answers this path on this host, the two
middlewares' decision), the authentication of that handler, `FindApp`,
`CheckAccess` and, for a bundle, `ServeBundle`, each a query of its own. `seen`
collects what was true of the request's user and app at any moment since it was
authenticated; `ServedHadAccess` asks for nothing more, and nothing less.

**StorageNamespace** – `size` is the objects of one user's namespaces, `lock` the
`flock` on each lock file. A write opens the file, locks it, lists, measures the
object it replaces and writes; a PUT and a tool's `store` look in opposite orders,
and that is why they promise different things (`WithinQuota`). `DELETE` takes no
lock. Deleting the user is a commit and then a sweep of the namespaces found;
deleting an app removes its directory of lock files (`DeleteApp`), after which the
next writer opens another file.

**Admission** – the dicts (`loginFailures`, `loginNetHits`, `anonHits`), where `by`
names the attempt that inserted a key and so gives the order of insertion, the deques
of forms and hourly allowances, and `slots`. The code filters a list by a cutoff;
since a list only grows at its end and time does not run back, that is the rest of the
list from the first hit inside the window (`HitsSince`; `LimitsTypeOK` has that hits
are in order). Each admission is one step under its lock; between it and the outcome
(`LoginSucceeds`, `Fail`, `EndRender`, ...) the clock and other requests move on.
`attempt` keeps every request, so that the properties count requests and not the
code's own tables; `counted` and `netHit` of a request say what became of its hits: a
login's in its network's table may go with the key, when others fill the table, or
stand until a success takes back the newest.

`MC<module>` gives each its model values and symmetry sets.

## The runs

Every passing run is exhaustive for its constants. Sizes are distinct states.

| run | instance | shows |
|---|---|---|
| `AdminAccounts` | 3 ids, 2 requests, 1 restart (1.8 M) | `AdminRemains`, `SetupOnce`, `TokensFollowRole`, `NoResurrection` |
| `Credentials` | 2 apps, 2 passwords, 4 credentials (0.8 M) | `OneSessionPerLaunch`, `SignOutComplete` |
| `Credentials_live` | 1 password change, 3 credentials, 1 restart, fair (0.5 M) | `SignOutHappens` |
| `OAuthServer` | 2 clients, 2 codes, 3 pairs, 1 restart (0.1 M) | `OnePairPerGrant`, `DeadGrants`; `KeepsGrants`: it implements `OAuthGrant` |
| `OAuthServer_pending` | caps 2 and 3, 5 requests of 2 clients (1.2 M) | `PendingBounded`, `OthersUndisturbed` |
| `ShareLinks` | 2 links, cap 1, quota of 1, 2 requests or commands of the CLI, 1 restart (3.0 M) | `CapHolds`, `QuotaHeld`, `LiveHasFile` |
| `AppInstall` | 2 manifests, 2 requests, 2 ids, a stash, 1 restart (1.9 M) | `RowAndFiles`, `RevocationStands`, `HandAddedKept`, `ServicesDeclared` |
| `Scheduler` | 2 schedules, 1 request beside the ticker, clock to 2, 1 restart, fair (0.8 M) | `NothingSkipped`, `NeverTwice`, `NoBackfill`, `DueFires` |
| `NextRun` | 39 cadences, every day of 2024 and 2025, 3 times of day (87 k) | `NextIsFirst` |
| `Admission` | 3 networks, limits of 1 and 2, tables of 2 keys, 4 requests, clock to 3 (0.8 M) | `GuessesHeld`, `AnonymousHeld`, `AllowanceHeld`, `SlotsReturned` |
| `StorageNamespace` | 1 app, 2 objects, 3 requests, 1 deletion of the app, 1 restart (0.8 M) | `WithinQuota` and the lock discipline |
| `AppAccess` | 2 users, 2 slugs, 2 administrators' requests at a time and 3 in all, 1 user's request at a time (0.4 M) | `ServedHadAccess`, `Confined`, `DefaultGrants`, `WithdrawnClosed` |

One run per question, and the questions that share an instance share a run: every
run above ends within three minutes on two workers that have the machine to
themselves. Besides those named, the runs of `AdminAccounts`, `OAuthServer`,
`AppInstall`, `StorageNamespace` and `AppAccess` check their `TypeOK`, that of `NextRun`
its `ChainTypeOK`, that of `Admission` its `LimitsTypeOK`.

*Bounds.* Three ids allow an admin to be demoted by another while a third is
created or deleted, and an id to be missed if it were given out again. Four
credentials are a login, its launch token, its app session and one more that was
made late. Three pairs are a code's first pair and two rotations, or those of two
codes. A cap of one view and a quota of one PDF are where two requests collide;
two links allow an id to be given out again. Two manifests, one that asks for
everything and one that asks for nothing, start and stop asking in every order.
Two schedules are one that is deleted or raises and one that must get its turn
nevertheless, or one that gets the other's id and finds the other's cadence in its
row, for one has an occurrence at every moment and the other at odd ones; with a clock
of 0 to 2, one can be missed while a tick is busy and one more be due after it. The years 2024 and 2025 have every length of month, a leap day and
two ends of a year; a time of day before, at and after the cadence's suffices,
since the function compares with it and nothing else. Two objects
of sizes 1 and 2 against a cap of 2 are a write that fits, one that replaces and one
that is refused; the third request is a delete between the looks of two writers, a
sweep or a writer who waits. Namespaces share no lock and no object, so one app is
enough there. In `Admission` a window of two ticks opens, fills and closes within
the clock; in tables of two keys a third network pushes one out, which may be that of
a login that is being verified, while the other keeps its hits.

Three runs cut their graph with named constraints, which keep every race of two
actors. `ThirdChangeAlone` (`AppAccess`): two changes meet a user's request, a third
meets other changes only. `OneGroup`, `LoginsEnd`, `E1First` (`Admission`): a
behaviour stays with one of the five groups of tables, which share nothing, logins end a tick earlier than the rest,
whose windows are longer by the tick at their edge, and the first email a network
tries is called e1 (a symmetry: emails are only told apart within their network).
`OneAtATime` (`AppInstall`): while a stash waits, and after a crash, one request runs
at a time; the install of a confirmed stash meets others as any install does.
Symmetry is used in runs without a liveness property; the invariants and action
properties there single out no value of a symmetric set.

*Fairness.* `Credentials.FairSpec` assumes `WF` of `Continue(r)`: a request that
was accepted takes its next step. None of these steps waits for another request
(there is no lock), so a running thread is enough. Nothing makes users send
requests, and a process that dies is outside that run. `Scheduler.Spec` assumes
`WF` of the ticker's next step: `scheduler_loop` catches whatever a tick raises,
sleeps and goes on while the process lives (a restart starts it anew), its worker
thread waits for no request, and tools end. Requests and clock are not fair.

*Deadlock.* Checked for `AdminAccounts`, `AppInstall` and `Scheduler`. The others
stop when what their constants allow is used up: random ids, the calendar of
`NextRun`, the requests and ticks of `Admission`, the changes of `AppAccess` and,
in `StorageNamespace`, the account, so their cfgs switch it off.

*Preconditions.* `SignOutComplete`, `TokensFollowRole`, `LiveHasFile` and
`RowAndFiles` do not survive a crash between two commits, and nothing in the code
repairs it afterwards; they say `restarts = 0 =>` for what they promise, and
`SignOutHappens` ends in the credentials' end or a restart. `NeverTwice` is stated
without restarts as well: a run that a crash cut off is run again. `RowAndFiles`
further excludes deletes that overlap (`overlap`), and the approval and schedule
properties writes from stale copies (`raced`; each schedule property names which),
because of what is described next. `NoBackfill` speaks of a schedule as the tick sees
it. `DeadGrants` speaks of grants that were ended, and says which a request in flight
carries past a sign-out or a deletion.
`WithinQuota` says nothing of an app deleted under its writers (`torn`), nor
`ServedHadAccess` of the access to an app deleted while the request ran, whose id
may be another's by then. `AllowanceHeld` allows for charges that a failure took back
from a later window (`end`), and `GuessesHeld` for hits that were another guess's when
a success took them back (`Returned`) and for guesses whose key a full table dropped.

## What the code does not keep

These definitions state what the repository says and the code does not keep. No run
lists them; put one alone on the `INVARIANT` or `PROPERTY` line of the module's cfg
(for `ShareLinks` with `App <- TwoApps`) and TLC prints the counterexample.

| definition | says | happens |
|---|---|---|
| `Credentials!ResetLocksOut` | a reset ends every session (`sessions.py:275-281`) | a login or an exchange in flight across the reset (`main.py:767`, `api.py:430-453`) |
| `OAuthServer!DeletedClientsGone` | deleting a client revokes the tokens it issued (`docs/mcp.md:102`) | an exchange let in before, or a rotation past its claim, issues a pair after it (`oauth.py:304-310`) |
| `Scheduler!ResumedWaits` | a resumed schedule does not fire for a long-past `next_run_at` (`admin.py:1263-1264`) | it does when a tick loaded it before it was paused (`scheduler.py:194-201`), and the next run of a resume during a run is overwritten (`scheduler.py:156`) |
| `ShareLinks!ServesMintedApp` | a share is bound to its app (`main.py:884`) | it is bound to an id, which another app may have by then (`main.py:915`) |
| `AppInstall!ReplaceKeepsNo` | a replacement respects revocations (`models.py:79-82`) | not one saved while it ran (`apps.py:915`) |
| `StorageNamespace!CapNeverPassed` | a store is refused when it would pass the cap (`app_tools.py:376-388`) | the object it replaces is deleted between its looks and discounted twice |
| `StorageNamespace!NothingLandsAfter` | a write in flight cannot land after its user's deletion (`storage_backend.py:158-160`) | it can, when it waits for the lock or its namespace was empty when the sweep began |
| `StorageNamespace!OneHolder` | the lock is exclusive (`storage_backend.py:172-196`) | deleting the app removes the file under its holder (`apps.py:1530-1537`) and the next writer locks a new one |
| `AppAccess!RowsNamed` | no access row for an app that does not exist (`admin.py:863-866`) | one written while the app is deleted; whoever gets the id inherits it, or, under the policy "all", cannot be installed (the primary key) |

Other steps of the models go against what a reader may expect; the properties name
them as exceptions:

- a token mint authorised before a demotion inserts its token after it (`late` in
  `TokensFollowRole`; `admin.py:454`);
- a password change compares the old password with a hash read earlier, so a change
  verified before a reset overwrites the reset (`main.py:818-829`);
- a sign-out, or the deletion of a client, between the claim of a code and the
  issue of its pair leaves the pair (the request is the holder in `OAuthGrant`;
  `oauth.py:304-310`), and so does a deletion before the claim of an exchange whose
  client was already authenticated;
- a consent whose admin was authenticated before a sign-out mints its code after it
  (`Approve`), and the code is good;
- a view, or the purge, of a link deleted a moment ago falls on the link that got
  its id (`CapHolds` and `LiveHasFile` speak of rows; `shares.py:265`, `346-353`);
- a client that once had tokens is dropped by the prune (at start-up, or of any
  command of the CLI) when its last pair lapsed or
  was deleted (`Prune`; `oauth.py:486-490` says a completed connection always has a
  token row);
- of two replacements through the replace page the second commits against the row
  it loaded before the first, so the row may keep what the first manifest asked for
  beside the second's files (`UpdateRow`; `apps.py:826`, `models.py:71-73`);
- a schedule resumed while its tool runs, or one that got the id of a schedule
  deleted meanwhile, has its next run overwritten by the ticker's, which counts from
  before the resume, or with the other's cadence (`raced` in the schedule properties;
  `scheduler.py:156`); one paused and resumed while it waits in a tick's list runs
  for what the tick loaded (`ResumedWaits`);
- a share in flight outlives its creator's deletion (`shares.py:197`);
- the services form filters by the manifest it was loaded under (`raced` in
  `ServicesDeclared`; `apps.py:1401`);
- a delete beside a replacement leaves files without a row (`overlap` in
  `RowAndFiles`; `apps.py:1525`);
- a refund takes the newest entry, whoever made it, so an operation that began
  before an hour's edge and fails after it lets one more through (`Strays` in
  `AllowanceHeld`; `api.py:533-538`);
- where WeasyPrint is missing `/pdf/render` keeps its charge (`Unavailable`;
  `api.py:592-598`), although `api.py:629` says that a failed render costs nothing;
- two deletions of one app with an installation between them delete the app that
  got the id (`DeleteApp` of `AppAccess`; `apps.py:1567`) and close the sessions of
  the slug they were asked for only; a toggle that was disabling that app no longer
  finds it, and its sessions stay open (`WithdrawnClosed` excepts an app that went
  meanwhile). Every request of such a session is still refused, for the app is gone;
- an access form saved while another commits reads the prior rows and the rows it
  replaces apart, and closes the sessions of the difference to the first
  (`CommitSave`; `admin.py:869-877`, `access.py:127-147`);
- a launch token minted before access was withdrawn still buys an app session
  afterwards (`Exchange`); every request of that session is checked again;
- a client an admin registered and nobody used within a week goes at the next prune
  (`Prune`; `oauth.py:486-496`, which speaks of abandoned `/register` entries).

Most need two requests within milliseconds to seconds of each other; those that
involve an upload have the time an extraction takes.

## Proofs

Each theorem holds for every value of the constants that satisfies the assumptions
its module states: any number of accounts, apps, requests, restarts, and any caps. The
safety properties of all ten modules are proved; `[]` stands for "in every
state of every behaviour", and an action property speaks of every step.

| module | theorem | proves |
|---|---|---|
| `AdminAccountsProofs` | `TypeCorrect`, `AlwaysAnAdmin`, `OneFounder`, `TokensFollow` | `[]TypeOK`, `[]AdminRemains`, `[]SetupOnce`, `[]TokensFollowRole` |
| | `IdsNeverReused` | `NoResurrection`, of every step |
| `CredentialsProofs` | `TypeCorrect`, `OneSession`, `SignOut` | `[]TypeOK`, `[]OneSessionPerLaunch`, `[]SignOutComplete` |
| `OAuthServerProofs` | `TypeCorrect`, `OnePair`, `NoDeadGrants`, `Bounded` | `[]TypeOK`, `[]OnePairPerGrant`, `[]DeadGrants`, `[]PendingBounded` |
| | `Undisturbed`, `Implements` | `OthersUndisturbed`, of every step; `KeepsGrants`: the server implements `OAuthGrant` |
| `ShareLinksProofs` | `TypeCorrect`, `Capped`, `Quota`, `LiveFiles` | `[]TypeOK`, `[]CapHolds`, `[]QuotaHeld`, `[]LiveHasFile` |
| `AppInstallProofs` | `TypeCorrect`, `RowWithFiles`, `Revocations`, `HandAdded`, `Declares` | `[]TypeOK`, `[]RowAndFiles`, `[]RevocationStands`, `[]HandAddedKept`, `[]ServicesDeclared` |
| `AppAccessProofs` | `TypeCorrect`, `Served`, `Confinement`, `Grants` | `[]TypeOK`, `[]ServedHadAccess`, `[]Confined`, `[]DefaultGrants` |
| | `Withdrawn` | `WithdrawnClosed`, of every step |
| `LimitsProofs` | `LimitsTypeCorrect`, `Guesses`, `Anonymous` | of `Admission`: `[]LimitsTypeOK`, `[]GuessesHeld`, `[]AnonymousHeld` |
| | `Allowance`, `SlotsBack` | `[]AllowanceHeld`, `[]SlotsReturned` |
| | `TypeCorrect`, `Quota` | of `StorageNamespace`: `[]TypeOK`; `WithinQuota`, of every step |
| `SchedulerProofs` | `ComputeNextRunIsNext`, `ComputeNextRunMonotone` | the function's result is the first match after its argument, and no earlier for a later argument |
| | `ChainTypeCorrect`, `AlwaysFirst` | of `Chain`: `[]ChainTypeOK`, `[]NextIsFirst` |
| | `TypeCorrect`, `Skipped`, `Once`, `NoneMadeUp` | of the scheduler: `[]TypeOK`, `[]NothingSkipped`, `[]NeverTwice`; `NoBackfill`, of every step |

In each of these modules `Invariance` states the inductive invariant, `IInv` (in
`SchedulerProofs` `SchedInv`, and `LimitsInvariance` the `LimitsInv` of `Admission`): it
holds initially, every step keeps it, and the
properties follow from it. The properties are seldom inductive alone: they
say nothing of a request that has read and not yet written. What each invariant adds
is that knowledge.

**Accounts.** That an admin remains when a request commits depends on what it
counted before. `IInv` adds that a request which reads, counts or writes under a lock
holds it (`AdminLockInv`, `SetupLockInv`); that before it commits a demotion or a
deletion there is an admin other than its target (`OtherAdmin`), and stays so, since
only the lock's holder takes a role away; and where ids, requests and accounts come
from (`IdsIssued`, `PreSetup`, `Targets`, `Actors`). `AnotherElement` is the fact
about sets behind the count.

**Credentials.** An exchange holds its launch token from the claim on (`Held`,
`HeldOnce`): nobody else holds it, and nothing was bought with it yet. Every step
keeps the columns of a row but its status, and brings none back to life (`Keeps`).
Hence a live row of a replaced password was there when it was replaced, and the
request that replaced it has yet to come by (`Reaching`).

**OAuth.** A grant is carried by its code, by one request between claim and issue, or
by one live pair. `IInv` has the exclusions behind that: one coroutine at a time is
inside the provider (`OneInLoop`), a code that is still there has no pair
(`Codes`, `Tokens`), and a request which took a grant left no pair of it
(`TakenAlone`). Nobody carries an ended grant, nor can: its code is spent or refused
(`Over`). From `OneHolder` the refinement follows step by step: each action
offers, takes, hands on or drops grants, or changes nothing of them (`GrantStep`). The
assumption that codes, tokens and requests are different things is there for the
mapping, which has all three as holders. The bound on parked requests is a count of
ranks (`RankOrdered`, `RoomBelowCap`): making room keeps those that expire last.

**Share links.** Ids are given out again, so a request that knows a link by id may
find another. What is known is that the row of the token it looked up has that id
still or is gone for good (`Sound`); `Aged` says what the steps of everybody else may
do to a row in the meantime. `Counted` relates views that went out, views about to go
out, and the counter. The one who holds the quota's lock is the only one about to
link a PDF (`Locked`), so what it measured can only have shrunk.

**Installation.** An install holds the lock from its look at the row to its commit, so
the row has the id it found unless a delete ran beside it (`Exclusive`, `Located`);
row and files disagree only between a swap and its commit, or a delete's two steps
(`Files`). What the admin refused is in the columns the next install reads
(`Policy`).

**Access.** A job that has flushed holds the write lock, so the table it read is still
so when it commits (`JobSound`); this makes default grants complete. What a request
has come past is in `seen` (`ReqSeen`), and every token and session goes back to a
launch of its user into its app (`Tables`).

**Storage.** `WithinQuota` compares what a write measured with what it finds. Holders of
locks of a namespace that is not torn have one file, hence are one request
(`OneFile`); so between measuring and writing nobody adds to it (`Measured`).
The sum over a namespace is `MapThenSumSet`, which adds in an order of its own.
`TotalRemove`, that any order gives the same sum, is by a least counterexample among
the subsets of a finite set (`LeastSubset`).

`StorageNamespace` and `Admission` both add up charges, so one module holds both proofs
beside the lemmas on sums.

**Limits.** The properties compare a count of requests in the window that ends now with
a limit. They are not inductive: a refund takes the newest hit, whoever made it, and that
changes every window that sees it. `LimitsInv` speaks of each window that reaches no
further back than the limiter looks: whatever counts in it has a hit to itself among
the last of the table (`Covers`). Hits are added at the end (`CoversAppend`), taken back
at the end, where one stray request accounts for one hit of another (`RefundIs`), and
dropped at the front only when no such window sees them (`HitsSinceIs`,
`CoversSince`). For the allowances, whose operations cost different amounts, the counts
are sums (`Paid` less `Lost`). For a network's limit they are the guesses whose hit has
not gone with the key, less the successes that gave back another's (`Trying`, `Freed`):
a success that gives back its own hit of the window takes a guess and a hit away
together, and a key that is pushed out takes its hits and the `netHit` of its guesses.
A full table of the other kinds loses whole keys, whose requests lose their place in the
count with them; that the oldest keys make room for one more needs the order of
insertion to be strict, so each key was inserted by an attempt of its own (`ByOnce`,
`RoomIs`).

**Schedules.** One lemma per frequency: `DailyIsNext`; `WeeklyIsNext`, by
`WeekOffset` (of the next fourteen days exactly two have a given weekday, the first at
the offset the code computes); `MonthlyIsNext`, by `OneDayAMonth`. The proof
covers every calendar with months of 28 to 31 days, so century rules and leap years
need no bound. What `Scheduler` assumes of its parameter `NextRun` is what these two
theorems say of `compute_next_run`, of each cadence. `SchedInv` adds what the next run
of a row, and of a row a tick has loaded, was computed from (`Waiting`), that a new
schedule gets a number no row and no loaded object has (`Numbered`), and that a run
under way was due and noted (`Running`). The scheduler's theorems do not use its fairness.

What the proofs found: `WithdrawnClosed` held on its run and was false for more
changes than the run has (see the stale deletion above), and now says so;
`Scheduler` needed the second half of its assumption on `NextRun`, which the run's
cadence happens to satisfy.

What is a matter of fairness, `SignOutHappens` and `DueFires`, is only model-checked:
this proof system does not reach it. Sequences and sums of any length are reasoned about
without induction over data: `HitsSince` is a `SubSeq`, and sums go by a least
counterexample.

## What is not modelled

Rendering, templates, mail, PDF generation, CSP, CSRF tokens, body limits and
response headers (stateless); the same-origin mode of child apps, the certificate
hook, the order of apps; PKCE, redirect checks and client authentication (the `mcp`
SDK's); encryption of secrets; the recipient allowlist; the validation of manifests
and bundles; the fields of a form and its notification; uniqueness of e-mail
addresses; audit and health logs (append-only); migrations; PostgreSQL and S3
variants where they differ from SQLite and local files; infrastructure, example
apps and the skill.
