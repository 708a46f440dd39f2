---------------------------- MODULE AppAccessProofs ----------------------------
(***************************************************************************)
(* Who reaches which app: TypeOK, ServedHadAccess, Confined, DefaultGrants   *)
(* and WithdrawnClosed, for any users, slugs, hosts, administrators' jobs and *)
(* requests, and any bounds on changes and sessions.                          *)
(*                                                                         *)
(* A job that has flushed holds SQLite's write lock, so what it read under    *)
(* the lock is still so when it commits (JobSound): that is what makes the    *)
(* default grants complete.  What a request has found is in `seen` from the   *)
(* step that finds it (ReqSeen), and every app session and launch token goes  *)
(* back to a launch of its user into its app (Tables).                        *)
(***************************************************************************)
EXTENDS AppAccess, NaturalsInduction, WellFoundedInduction, TLAPS

FactNames == {"access", "enabled", "approved"}

\* What an administrator's job knows.  One that has flushed knows the tables as they are.
JobSound(q) ==
  /\ q.pc = "flushed" <=> q.op \in {"user", "app"}
  /\ q.op = "user" => /\ q.user \in User /\ q.as \in {"user", "admin"}
                      /\ q.apps = {<<s, app[s].id>> : s \in Installed}
  /\ q.op = "app" => /\ q.slug \in Slug \ Installed
                     /\ q.id # 0 /\ q.id <= 1 + changes
                     /\ \A s \in Installed : app[s].id < q.id
                     /\ q.users = {u \in User : role[u] = "user"}
  /\ q.op = "save" => q.user \in User
  /\ q.op \in {"toggle", "delete"} => q.slug \in Slug /\ q.id # 0
  /\ q.lost \subseteq 1 .. minted
  /\ q.op = "save" /\ q.pc = "committed" =>
       \A x \in sessions : x.id \in q.lost => x.user = q.user /\ x.slug \in RevokedSlugs(q)

Jobs == \A j \in Job : JobSound(job[j])

\* An app that is not there is not enabled, and no id is beyond the changes there were.
Apps == \A s \in Slug : /\ app[s].id <= 1 + changes
                        /\ app[s].id = 0 => ~app[s].enabled /\ ~app[s].approved

\* Every token and every session goes back to a launch; a session's user is there, and an
\* id names one session.
Tables ==
  /\ \A t \in tokens : <<t.user, t.slug>> \in launched
  /\ \A x \in sessions : <<x.user, x.slug>> \in launched /\ Known(x.user)
  /\ \A x, y \in sessions : x.id = y.id => x = y

PortalRoutes == {"portal", "launch", "icon", "service", "me", "form"}

\* Where a request is, what it is for and who it is for.
ReqRouted(q) ==
  /\ q.pc # "idle" => q.host \in Slug \cup {Portal}
  /\ q.pc # "idle" /\ q.host = Portal => q.by # "app_session" /\ q.route \in PortalRoutes
  /\ q.pc # "idle" /\ q.host # Portal =>
       /\ q.slug = q.host /\ q.route \in AllowedOnAppHost \cup {"bundle"}
       /\ q.by # "anonymous" => <<q.user, q.host>> \in launched
  /\ q.pc = "routed" => q.by = "anonymous" /\ q.route \notin {"none", "portal", "sdk"}
  /\ q.pc = "served" /\ q.by = "anonymous" /\ q.host # Portal => q.route \in {"form", "sdk"}
  /\ q.pc = "served" /\ q.route = "portal" => q.slug = None
  /\ q.pc \in {"known", "found", "gated"} =>
       /\ q.by # "anonymous" /\ q.user \in User /\ q.slug \in Slug
       /\ q.route \in {"launch", "icon", "service", "bundle"}
  /\ q.pc = "found" => q.id # 0
  /\ q.pc = "gated" => q.route = "bundle"

\* What a request has come past, it has seen (S).
ReqSeen(q, S) ==
  /\ q.pc \in {"known", "found", "gated"} /\ q.role = "admin" => "access" \in S
  /\ q.pc \in {"found", "gated"} => "enabled" \in S /\ (q.route = "service" => "approved" \in S)
  /\ q.pc = "gated" => "access" \in S
  /\ q.pc = "served" /\ q.slug # None => Needs(q.route) \subseteq S

Requests == \A r \in Request : ReqRouted(req[r]) /\ ReqSeen(req[r], seen[r])

SeenType == seen \in [Request -> SUBSET FactNames]

IInv == TypeOK /\ Jobs /\ Apps /\ Tables /\ SeenType /\ Requests /\ DefaultGrants

-----------------------------------------------------------------------------
USE HostAssumption, FirstAssumption, BoundAssumption

(***************************************************************************)
(* Ids of apps.                                                             *)
(***************************************************************************)
LEMMA LeastNumber ==
  ASSUME NEW B, B \subseteq Nat, B # {}
  PROVE  \E m \in B : \A k \in B : m <= k
<1>1. PICK R : R = OpToRel(<, Nat)
  OBVIOUS
<1>2. PICK m \in B : \A k \in B : ~(<<k, m>> \in R)
  BY <1>1, NatLessThanWellFounded, WFMin
<1>3. \A k \in B : <<k, m>> \in R <=> k < m
  <2>1. R = {ss \in Nat \X Nat : ss[1] < ss[2]}
    BY <1>1, Zenon DEF OpToRel
  <2> QED
    BY <2>1
<1>4. \A k \in B : ~(k < m)
  BY <1>2, <1>3, Zenon
<1>5. \A k \in B : k \in Nat
  OBVIOUS
<1>6. \A k \in B : m <= k
  BY <1>4, <1>5
<1> QED
  BY <1>6

LEMMA BelowIs == \A m, y \in Nat : y < m => y <= m - 1
  OBVIOUS

LEMMA MaxIs ==
  ASSUME NEW T, NEW n \in Nat, T \subseteq 0..n, T # {}
  PROVE  Max(T) \in T /\ \A y \in T : y <= Max(T)
<1>1. PICK B : B = {m \in Nat : \A y \in T : y <= m}
  OBVIOUS
<1>2. B \subseteq Nat /\ n \in B
  BY <1>1
<1>3. PICK m \in B : \A k \in B : m <= k
  BY <1>2, LeastNumber
<1>4. m \in T
  <2> SUFFICES ASSUME m \notin T PROVE FALSE
    OBVIOUS
  <2>1. m \in Nat /\ \A y \in T : y \in Nat /\ y < m
    BY <1>1, <1>3
  <2>9. PICK z : z \in T
    OBVIOUS
  <2>2. m # 0
    BY <2>1, <2>9
  <2>3. m - 1 \in Nat /\ \A y \in T : y <= m - 1
    <3>1. m - 1 \in Nat
      BY <2>1, <2>2
    <3>2. \A y \in T : y <= m - 1
      BY <2>1, BelowIs, Zenon
    <3> QED
      BY <3>1, <3>2
  <2>4. m - 1 \in B
    BY <1>1, <2>3
  <2> QED
    BY <1>3, <2>1, <2>4
<1>5. \E x \in T : \A y \in T : x >= y
  BY <1>1, <1>3, <1>4
<1>6. PICK x : x = Max(T)
  OBVIOUS
<1>7. x \in T /\ \A y \in T : x >= y
  BY <1>5, <1>6 DEF Max
<1>8. \A y \in T : y \in Nat
  OBVIOUS
<1>9. \A y \in T : y <= x
  BY <1>7, <1>8
<1> QED
  BY <1>6, <1>7, <1>9

AppRow == [id : 0 .. MaxId, enabled : BOOLEAN, approved : BOOLEAN]

LEMMA IdsAre ==
  /\ MaxId \in Nat \ {0} /\ MaxId = 1 + MaxChanges
  /\ \A i : i \in Id <=> i \in Nat /\ i # 0 /\ i <= MaxId
  BY DEF MaxId, Id

LEMMA AppIs ==
  ASSUME TypeOK, NEW s \in Slug
  PROVE  app[s] \in AppRow /\ app[s].id \in 0 .. MaxId /\ app[s].id \in Nat /\ app[s].id <= MaxId
         /\ (s \in Installed => app[s].id \in Id)
<1>1. app[s] \in AppRow
  BY DEF TypeOK, AppRow
<1>2. app[s].id \in 0 .. MaxId
  BY <1>1 DEF AppRow
<1>3. app[s].id \in Nat /\ app[s].id <= MaxId
  BY <1>2, IdsAre
<1> QED
  BY <1>1, <1>2, <1>3, IdsAre DEF Installed

LEMMA NextIdIs ==
  ASSUME TypeOK, Apps, changes < MaxChanges
  PROVE  NextId \in Id /\ NextId <= 2 + changes /\ \A s \in Slug : app[s].id < NextId
<1>1. PICK T : T = {app[s].id : s \in Slug}
  OBVIOUS
<1>2. changes \in Nat /\ MaxChanges \in Nat
  BY DEF TypeOK
<1>3. T \subseteq 0..(1 + changes)
  BY <1>1, <1>2, AppIs DEF Apps
<1>4. T # {}
  BY <1>1
<1>5. PICK m : m = Max(T)
  OBVIOUS
<1>6. m \in T /\ \A y \in T : y <= m
  <2>1. PICK n \in Nat : n = 1 + changes
    BY <1>2
  <2>2. T \subseteq 0..n
    BY <1>3, <2>1
  <2> QED
    BY <1>4, <1>5, <2>2, MaxIs
<1>7. NextId = 1 + m
  BY <1>1, <1>5 DEF NextId
<1>8. m \in Nat /\ m <= 1 + changes
  BY <1>2, <1>3, <1>6
<1>9. \A s \in Slug : app[s].id \in Nat /\ app[s].id <= m
  BY <1>1, <1>6, AppIs
<1> QED
  BY <1>2, <1>7, <1>8, <1>9, IdsAre

LEMMA NoJobTyped ==
  /\ NoJob \in JobState
  /\ NoJob.op = "none" /\ NoJob.pc = "idle" /\ NoJob.lost = {}
<1>1. NoJob \in JobState
  BY IdsAre DEF NoJob, JobState
<1> QED
  BY <1>1 DEF NoJob

LEMMA NoJobSound == JobSound(NoJob) /\ JobSound(NoJob)'
  BY NoJobTyped DEF JobSound

LEMMA NoRequestTyped ==
  /\ NoRequest \in RequestState
  /\ NoRequest.pc = "idle" /\ NoRequest.host = None /\ NoRequest.by = "anonymous"
  /\ NoRequest.slug = None /\ NoRequest.role = "none" /\ NoRequest.id = 0
<1>1. NoRequest \in RequestState
  BY IdsAre DEF NoRequest, RequestState
<1> QED
  BY <1>1 DEF NoRequest

-----------------------------------------------------------------------------
(***************************************************************************)
(* The administrators' jobs.                                                *)
(***************************************************************************)
\* What stays true for the jobs that a step does not touch.
Quiet(q) == q.pc = "flushed" => role' = role /\ app' = app

OnlyNewSessions ==
  /\ changes' \in Nat /\ changes <= changes'
  /\ minted' \in Nat /\ minted <= minted'
  /\ \A x \in sessions' : x \in sessions \/ x.id > minted

LEMMA JobSoundKept ==
  ASSUME TypeOK, NEW q \in JobState, JobSound(q), Quiet(q), OnlyNewSessions
  PROVE  JobSound(q)'
<1>1. q.pc = "flushed" => /\ Installed' = Installed
                          /\ {<<s, app[s].id>> : s \in Installed}' = {<<s, app[s].id>> : s \in Installed}
                          /\ {u \in User : role[u] = "user"}' = {u \in User : role[u] = "user"}
  BY DEF Quiet, Installed
<1>2. q.op = "user" => /\ q.user \in User /\ q.as \in {"user", "admin"}
                       /\ q.apps = {<<s, app[s].id>> : s \in Installed}'
  BY <1>1 DEF JobSound
<1>3. q.op = "app" => /\ q.slug \in Slug \ Installed'
                      /\ q.id # 0 /\ q.id <= 1 + changes'
                      /\ \A s \in Installed' : app'[s].id < q.id
                      /\ q.users = {u \in User : role[u] = "user"}'
  <2> HAVE q.op = "app"
  <2>1. q.pc = "flushed" /\ app' = app
    BY DEF JobSound, Quiet
  <2>2. q.id \in Nat /\ changes \in Nat /\ q.id <= 1 + changes
    BY IdsAre DEF JobSound, JobState, TypeOK
  <2>3. q.id <= 1 + changes'
    BY <2>2 DEF OnlyNewSessions
  <2> QED
    BY <1>1, <2>1, <2>3 DEF JobSound
<1>4. q.lost \subseteq 1 .. minted'
  BY DEF JobSound, OnlyNewSessions, TypeOK
<1>5. q.op = "save" /\ q.pc = "committed" =>
        \A x \in sessions' : x.id \in q.lost => x.user = q.user /\ x.slug \in RevokedSlugs(q)
  <2> SUFFICES ASSUME q.op = "save", q.pc = "committed", NEW x \in sessions', x.id \in q.lost
               PROVE  x.user = q.user /\ x.slug \in RevokedSlugs(q)
    OBVIOUS
  <2>1. x.id \in 1 .. minted /\ minted \in Nat
    BY DEF JobSound, TypeOK
  <2>2. x \in sessions
    BY <2>1 DEF OnlyNewSessions
  <2> QED
    BY <2>2 DEF JobSound
<1> QED
  BY <1>2, <1>3, <1>4, <1>5 DEF JobSound, RevokedSlugs

\* A job becomes q, and takes, keeps or gives up the write lock.
JobTurn(j, q) ==
  /\ q \in JobState /\ JobSound(q)'
  /\ job' = [job EXCEPT ![j] = q]
  /\ \/ writer = None /\ writer' = j /\ q.pc = "flushed"
     \/ writer = j /\ writer' = None /\ q.pc # "flushed"
     \/ writer' = writer /\ (q.pc = "flushed" <=> job[j].pc = "flushed")

LEMMA TurnReturn ==
  ASSUME NEW j \in Job, Return(j),
         \/ writer = j /\ writer' = None
         \/ writer' = writer /\ job[j].pc # "flushed"
  PROVE  JobTurn(j, NoJob)
  BY NoJobTyped, NoJobSound DEF Return, JobTurn

LEMMA JobIs ==
  ASSUME TypeOK, Jobs, NEW j \in Job
  PROVE  job[j] \in JobState /\ JobSound(job[j]) /\ (job[j].pc = "flushed" <=> writer = j) /\ j # None
  BY DEF TypeOK, Jobs

LEMMA InstalledPairs ==
  ASSUME TypeOK
  PROVE  {<<s, app[s].id>> : s \in Installed} \subseteq Slug \X Id
  BY AppIs DEF Installed

(***************************************************************************)
(* Jobs that begin.                                                         *)
(***************************************************************************)
LEMMA FlushTurns ==
  ASSUME TypeOK, Jobs, Apps, NEW j \in Job,
         \/ \E u \in User, as \in {"user", "admin"} : FlushUser(j, u, as)
         \/ \E s \in Slug : FlushApp(j, s)
  PROVE  \E q : JobTurn(j, q)
<1>0. /\ NoJob \in JobState /\ NoJob.op = "none" /\ NoJob.pc = "idle" /\ NoJob.lost = {}
      /\ changes \in Nat
  BY NoJobTyped DEF TypeOK
<1>1. ASSUME NEW u \in User, NEW as \in {"user", "admin"}, FlushUser(j, u, as)
      PROVE  \E q : JobTurn(j, q)
  <2>1. PICK apps : apps = {<<s, app[s].id>> : s \in Installed}
    OBVIOUS
  <2>2. PICK q : q = [NoJob EXCEPT !.op = "user", !.pc = "flushed", !.user = u, !.as = as,
                                   !.apps = apps]
    OBVIOUS
  <2>3. q \in JobState
    BY <1>0, <2>1, <2>2, InstalledPairs DEF JobState
  <2>4. q.op = "user" /\ q.pc = "flushed" /\ q.user = u /\ q.as = as /\ q.apps = apps /\ q.lost = {}
    BY <2>2 DEF NoJob
  <2>5. job' = [job EXCEPT ![j] = q] /\ writer = None /\ writer' = j /\ app' = app
    BY <1>1, <2>1, <2>2 DEF FlushUser, Accept
  <2>6. apps = {<<s, app[s].id>> : s \in Installed}'
    BY <2>1, <2>5 DEF Installed
  <2>7. JobSound(q)'
    BY <2>4, <2>6 DEF JobSound
  <2> QED
    BY <2>3, <2>4, <2>5, <2>7 DEF JobTurn
<1>2. ASSUME NEW s \in Slug, FlushApp(j, s)
      PROVE  \E q : JobTurn(j, q)
  <2>1. PICK users : users = {u \in User : role[u] = "user"}
    OBVIOUS
  <2>2. PICK q : q = [NoJob EXCEPT !.op = "app", !.pc = "flushed", !.slug = s, !.id = NextId,
                                   !.users = users]
    OBVIOUS
  <2>3. /\ job' = [job EXCEPT ![j] = q] /\ writer = None /\ writer' = j
        /\ app' = app /\ role' = role /\ changes' = changes + 1 /\ changes < MaxChanges
        /\ s \notin Installed
    BY <1>2, <2>1, <2>2 DEF FlushApp, Accept
  <2>4. NextId \in Id /\ NextId <= 2 + changes /\ \A t \in Slug : app[t].id < NextId
    BY <2>3, NextIdIs
  <2>5. NextId \in 0 .. MaxId /\ NextId # 0
    BY <2>4, IdsAre
  <2>6. q \in JobState
    BY <1>0, <2>1, <2>2, <2>5 DEF JobState
  <2>7. q.op = "app" /\ q.pc = "flushed" /\ q.slug = s /\ q.id = NextId /\ q.users = users /\ q.lost = {}
    BY <2>2 DEF NoJob
  <2>8. users = {u \in User : role[u] = "user"}' /\ Installed' = Installed
    BY <2>1, <2>3 DEF Installed
  <2>9. q.id <= 1 + changes' /\ \A t \in Installed' : app'[t].id < q.id
    BY <1>0, <2>3, <2>4, <2>7, IdsAre DEF Installed
  <2>10. JobSound(q)'
    BY <2>3, <2>5, <2>7, <2>8, <2>9 DEF JobSound
  <2> QED
    BY <2>3, <2>6, <2>7, <2>10 DEF JobTurn
<1> QED
  BY <1>1, <1>2

LEMMA BeginTurns ==
  ASSUME TypeOK, Jobs, NEW j \in Job,
         \/ \E u \in User, ids \in SUBSET {app[s].id : s \in Installed} : BeginSave(j, u, ids)
         \/ \E s \in Slug : ReadToggle(j, s) \/ BeginDelete(j, s)
  PROVE  \E q : JobTurn(j, q)
<1>0. /\ NoJob \in JobState /\ NoJob.op = "none" /\ NoJob.pc = "idle" /\ NoJob.lost = {}
  BY NoJobTyped
<1>1. ASSUME NEW u \in User, NEW ids \in SUBSET {app[s].id : s \in Installed}, BeginSave(j, u, ids)
      PROVE  \E q : JobTurn(j, q)
  <2>1. PICK apps : apps = {<<s, app[s].id>> : s \in Installed}
    OBVIOUS
  <2>2. PICK q : q = [NoJob EXCEPT !.op = "save", !.pc = "read", !.user = u, !.apps = apps,
                                   !.wanted = ids]
    OBVIOUS
  <2>3. ids \subseteq Id
    BY AppIs DEF Installed
  <2>4. q \in JobState
    BY <1>0, <2>1, <2>2, <2>3, InstalledPairs DEF JobState
  <2>5. q.op = "save" /\ q.pc = "read" /\ q.user = u /\ q.lost = {}
    BY <2>2 DEF NoJob
  <2>6. job' = [job EXCEPT ![j] = q] /\ job[j] = NoJob /\ writer' = writer
    BY <1>1, <2>1, <2>2 DEF BeginSave, Accept
  <2>7. JobSound(q)'
    BY <2>5 DEF JobSound
  <2> QED
    BY <1>0, <2>4, <2>5, <2>6, <2>7 DEF JobTurn
<1>2. ASSUME NEW s \in Slug, ReadToggle(j, s)
      PROVE  \E q : JobTurn(j, q)
  <2>1. PICK to : to = ~ app[s].enabled
    OBVIOUS
  <2>2. PICK q : q = [NoJob EXCEPT !.op = "toggle", !.pc = "read", !.slug = s, !.id = app[s].id,
                                   !.to = to]
    OBVIOUS
  <2>3. to \in BOOLEAN
    BY <2>1
  <2>4. app[s].id # 0 /\ app[s].id \in 0 .. MaxId
    <3>1. s \in Installed
      BY <1>2 DEF ReadToggle
    <3> QED
      BY <3>1, AppIs DEF Installed
  <2>5. q \in JobState
    BY <1>0, <2>2, <2>3, <2>4 DEF JobState
  <2>6. q.op = "toggle" /\ q.pc = "read" /\ q.slug = s /\ q.id = app[s].id /\ q.lost = {}
    BY <2>2 DEF NoJob
  <2>7. job' = [job EXCEPT ![j] = q] /\ job[j] = NoJob /\ writer' = writer
    BY <1>2, <2>1, <2>2 DEF ReadToggle, Accept
  <2>8. JobSound(q)'
    BY <2>4, <2>6 DEF JobSound
  <2> QED
    BY <1>0, <2>5, <2>6, <2>7, <2>8 DEF JobTurn
<1>3. ASSUME NEW s \in Slug, BeginDelete(j, s)
      PROVE  \E q : JobTurn(j, q)
  <2>1. PICK users : users = {u \in User : <<u, app[s].id>> \in access}
    OBVIOUS
  <2>2. PICK q : q = [NoJob EXCEPT !.op = "delete", !.pc = "read", !.slug = s, !.id = app[s].id,
                                   !.users = users]
    OBVIOUS
  <2>4. app[s].id # 0 /\ app[s].id \in 0 .. MaxId
    <3>1. s \in Installed
      BY <1>3 DEF BeginDelete
    <3> QED
      BY <3>1, AppIs DEF Installed
  <2>5. q \in JobState
    BY <1>0, <2>1, <2>2, <2>4 DEF JobState
  <2>6. q.op = "delete" /\ q.pc = "read" /\ q.slug = s /\ q.id = app[s].id /\ q.lost = {}
    BY <2>2 DEF NoJob
  <2>7. job' = [job EXCEPT ![j] = q] /\ job[j] = NoJob /\ writer' = writer
    BY <1>3, <2>1, <2>2 DEF BeginDelete, Accept
  <2>8. JobSound(q)'
    BY <2>4, <2>6 DEF JobSound
  <2> QED
    BY <1>0, <2>5, <2>6, <2>7, <2>8 DEF JobTurn
<1> QED
  BY <1>1, <1>2, <1>3

(***************************************************************************)
(* Jobs that go on.                                                         *)
(***************************************************************************)
LEMMA CommitTurns ==
  ASSUME TypeOK, Jobs, NEW j \in Job, CommitUser(j) \/ CommitApp(j)
  PROVE  JobTurn(j, NoJob) /\ writer = j
<1>1. job[j].op \in {"user", "app"} /\ Return(j) /\ writer' = None
  BY DEF CommitUser, CommitApp
<1>2. writer = j
  BY <1>1, JobIs DEF JobSound
<1> QED
  BY <1>1, <1>2, TurnReturn

LEMMA ReadTurns ==
  ASSUME TypeOK, Jobs, NEW j \in Job, ReadPrior(j) \/ ReadExisting(j)
  PROVE  \E q : JobTurn(j, q)
<1>0. job[j] \in JobState /\ JobSound(job[j]) /\ job[j].op = "save" /\ job[j].pc \in {"read", "prior"}
  BY JobIs DEF ReadPrior, ReadExisting
<1>1. PICK rows \in SUBSET Id : rows = RowsOf(job[j].user)
  BY DEF RowsOf
<1>2. PICK q \in JobState :
        /\ job' = [job EXCEPT ![j] = q]
        /\ q.op = job[j].op /\ q.user = job[j].user /\ q.lost = job[j].lost
        /\ q.pc \in {"prior", "compared"}
  <2>1. ASSUME ReadPrior(j)
        PROVE  \E q \in JobState :
                 /\ job' = [job EXCEPT ![j] = q]
                 /\ q.op = job[j].op /\ q.user = job[j].user /\ q.lost = job[j].lost
                 /\ q.pc \in {"prior", "compared"}
    <3>1. PICK q : q = [job[j] EXCEPT !.pc = "prior", !.prior = rows]
      OBVIOUS
    <3>2. q \in JobState
      BY <1>0, <3>1 DEF JobState
    <3>3. q.op = job[j].op /\ q.user = job[j].user /\ q.lost = job[j].lost /\ q.pc = "prior"
      BY <1>0, <3>1 DEF JobState
    <3>4. job' = [job EXCEPT ![j] = q]
      BY <1>0, <1>1, <2>1, <3>1 DEF ReadPrior, TypeOK
    <3> QED
      BY <3>2, <3>3, <3>4
  <2>2. ASSUME ReadExisting(j)
        PROVE  \E q \in JobState :
                 /\ job' = [job EXCEPT ![j] = q]
                 /\ q.op = job[j].op /\ q.user = job[j].user /\ q.lost = job[j].lost
                 /\ q.pc \in {"prior", "compared"}
    <3>1. PICK q : q = [job[j] EXCEPT !.pc = "compared", !.existing = rows]
      OBVIOUS
    <3>2. q \in JobState
      BY <1>0, <3>1 DEF JobState
    <3>3. q.op = job[j].op /\ q.user = job[j].user /\ q.lost = job[j].lost /\ q.pc = "compared"
      BY <1>0, <3>1 DEF JobState
    <3>4. job' = [job EXCEPT ![j] = q]
      BY <1>0, <1>1, <2>2, <3>1 DEF ReadExisting, TypeOK
    <3> QED
      BY <3>2, <3>3, <3>4
  <2> QED
    BY <2>1, <2>2
<1>3. writer' = writer /\ minted' = minted
  BY DEF ReadPrior, ReadExisting, requests, tables
<1>4. JobSound(q)'
  BY <1>0, <1>2, <1>3 DEF JobSound
<1> QED
  BY <1>0, <1>2, <1>3, <1>4 DEF JobTurn

LEMMA SessionIs ==
  ASSUME TypeOK, NEW x \in sessions
  PROVE  /\ x.id \in 1 .. minted /\ x.id \in 1 .. MaxSessions /\ x.user \in User /\ x.slug \in Slug
         /\ minted \in Nat
<1>1. x.id \in 1 .. minted /\ x.user \in User /\ x.slug \in Slug /\ minted \in 0 .. MaxSessions
  BY DEF TypeOK
<1> QED
  BY <1>1

LEMMA SaveTurns ==
  ASSUME TypeOK, Jobs, Tables, NEW j \in Job, CommitSave(j)
  PROVE  \E q : JobTurn(j, q)
<1>0. /\ job[j] \in JobState /\ JobSound(job[j]) /\ job[j].op = "save" /\ job[j].pc = "compared"
      /\ writer' = writer /\ sessions' = sessions /\ minted' = minted
  BY JobIs DEF CommitSave, requests, tables
<1>1. ASSUME Return(j) PROVE \E q : JobTurn(j, q)
  BY <1>0, <1>1, TurnReturn
<1>2. PICK xs : xs = {x \in sessions : x.user = job[j].user /\ <<x.slug, app[x.slug].id>> \in job[j].apps
                        /\ app[x.slug].id \in (job[j].prior \cap job[j].existing) \ job[j].wanted}
  OBVIOUS
<1>3. PICK lost : lost = IdsOf(xs)
  OBVIOUS
<1>4. lost \subseteq 1 .. minted /\ lost \subseteq 1 .. MaxSessions
  BY <1>2, <1>3, SessionIs DEF IdsOf
<1>5. ASSUME job' = [job EXCEPT ![j].pc = "committed", ![j].lost = lost] PROVE \E q : JobTurn(j, q)
  <2>1. PICK q : q = [job[j] EXCEPT !.pc = "committed", !.lost = lost]
    OBVIOUS
  <2>2. q \in JobState
    BY <1>0, <1>4, <2>1 DEF JobState
  <2>3. /\ q.op = "save" /\ q.user = job[j].user /\ q.lost = lost /\ q.pc = "committed"
        /\ q.apps = job[j].apps /\ q.prior = job[j].prior /\ q.wanted = job[j].wanted
    BY <1>0, <2>1 DEF JobState
  <2>4. job' = [job EXCEPT ![j] = q]
    BY <1>0, <1>5, <2>1 DEF TypeOK
  <2>5. ASSUME NEW x \in sessions, x.id \in lost
        PROVE  x.user = q.user /\ x.slug \in RevokedSlugs(q)
    <3>1. PICK y \in xs : y.id = x.id
      BY <1>3, <2>5 DEF IdsOf
    <3>2. x \in xs
      BY <1>2, <3>1 DEF Tables
    <3>3. PICK p : p = <<x.slug, app[x.slug].id>>
      OBVIOUS
    <3>4. p \in q.apps /\ p[2] \in q.prior \ q.wanted /\ p[1] = x.slug
      BY <1>2, <2>3, <3>2, <3>3
    <3> QED
      BY <1>2, <2>3, <3>2, <3>4 DEF RevokedSlugs
  <2>6. JobSound(q)'
    BY <1>0, <1>4, <2>3, <2>5 DEF JobSound, RevokedSlugs
  <2> QED
    BY <1>0, <2>2, <2>3, <2>4, <2>6 DEF JobTurn
<1> QED
  BY <1>1, <1>2, <1>3, <1>5 DEF CommitSave

LEMMA ToggleTurns ==
  ASSUME TypeOK, Jobs, NEW j \in Job, CommitToggle(j)
  PROVE  \E q : JobTurn(j, q)
<1>0. /\ job[j] \in JobState /\ JobSound(job[j]) /\ job[j].op = "toggle" /\ job[j].pc = "read"
      /\ writer' = writer /\ sessions' = sessions /\ minted' = minted
  BY JobIs DEF CommitToggle, requests, tables
<1>1. ASSUME Return(j) PROVE \E q : JobTurn(j, q)
  BY <1>0, <1>1, TurnReturn
<1>2. ASSUME NEW s \in Slug,
             job' = [job EXCEPT ![j].pc = "committed",
                                ![j].lost = IF job[j].to THEN {} ELSE IdsOf(OfSlug(s))]
      PROVE  \E q : JobTurn(j, q)
  <2>1. PICK lost : lost = IF job[j].to THEN {} ELSE IdsOf(OfSlug(s))
    OBVIOUS
  <2>2. lost \subseteq 1 .. minted /\ lost \subseteq 1 .. MaxSessions
    BY <2>1, SessionIs DEF IdsOf, OfSlug
  <2>3. PICK q : q = [job[j] EXCEPT !.pc = "committed", !.lost = lost]
    OBVIOUS
  <2>4. q \in JobState
    BY <1>0, <2>2, <2>3 DEF JobState
  <2>5. /\ q.op = "toggle" /\ q.slug = job[j].slug /\ q.id = job[j].id /\ q.lost = lost
        /\ q.pc = "committed"
    BY <1>0, <2>3 DEF JobState
  <2>6. job' = [job EXCEPT ![j] = q]
    BY <1>0, <1>2, <2>1, <2>3 DEF TypeOK
  <2>7. JobSound(q)'
    BY <1>0, <2>2, <2>5 DEF JobSound
  <2> QED
    BY <1>0, <2>4, <2>5, <2>6, <2>7 DEF JobTurn
<1> QED
  BY <1>1, <1>2 DEF CommitToggle, WithId

LEMMA ClearTurns ==
  ASSUME TypeOK, Jobs, NEW j \in Job, ClearApp(j)
  PROVE  \E q : JobTurn(j, q)
<1>0. /\ job[j] \in JobState /\ JobSound(job[j]) /\ job[j].op = "delete" /\ job[j].pc = "read"
      /\ writer' = writer /\ minted' = minted
  BY JobIs DEF ClearApp
<1>1. ASSUME Return(j) PROVE \E q : JobTurn(j, q)
  BY <1>0, <1>1, TurnReturn
<1>2. ASSUME job' = [job EXCEPT ![j].pc = "cleared"] PROVE \E q : JobTurn(j, q)
  <2>1. PICK q : q = [job[j] EXCEPT !.pc = "cleared"]
    OBVIOUS
  <2>2. q \in JobState
    BY <1>0, <2>1 DEF JobState
  <2>3. /\ q.op = "delete" /\ q.slug = job[j].slug /\ q.id = job[j].id /\ q.lost = job[j].lost
        /\ q.pc = "cleared"
    BY <1>0, <2>1 DEF JobState
  <2>4. job' = [job EXCEPT ![j] = q]
    BY <1>0, <1>2, <2>1 DEF TypeOK
  <2>5. JobSound(q)'
    BY <1>0, <2>3 DEF JobSound
  <2> QED
    BY <1>0, <2>2, <2>3, <2>4, <2>5 DEF JobTurn
<1> QED
  BY <1>1, <1>2 DEF ClearApp

LEMMA LastTurns ==
  ASSUME TypeOK, Jobs, NEW j \in Job, RevokeLost(j) \/ CloseToggled(j) \/ DeleteApp(j)
  PROVE  JobTurn(j, NoJob) /\ job[j].pc # "flushed" /\ writer = None
<1>1. job[j].pc # "flushed" /\ Return(j) /\ writer' = writer /\ writer = None
  BY DEF RevokeLost, CloseToggled, DeleteApp
<1> QED
  BY <1>1, TurnReturn

-----------------------------------------------------------------------------
\* The steps an administrator's job takes.
JobStep(j) ==
  \/ \E u \in User, as \in {"user", "admin"} : FlushUser(j, u, as)
  \/ \E s \in Slug : FlushApp(j, s) \/ ReadToggle(j, s) \/ BeginDelete(j, s)
  \/ \E u \in User, ids \in SUBSET {app[s].id : s \in Installed} : BeginSave(j, u, ids)
  \/ CommitUser(j) \/ CommitApp(j)
  \/ ReadPrior(j) \/ ReadExisting(j) \/ CommitSave(j) \/ RevokeLost(j)
  \/ CommitToggle(j) \/ CloseToggled(j)
  \/ ClearApp(j) \/ DeleteApp(j)

\* And those that are one commit.
OneCommit ==
  \/ \E u \in User : DeleteUser(u) \/ \E as \in {"user", "admin"} : SetRole(u, as)
  \/ SetPolicy
  \/ \E s \in Slug : SetService(s)

LEMMA AdminStepIs == AdminStep <=> (\E j \in Job : JobStep(j)) \/ OneCommit
  BY Zenon DEF AdminStep, JobStep, OneCommit

LEMMA Turns ==
  ASSUME TypeOK, Jobs, Apps, Tables, NEW j \in Job, JobStep(j)
  PROVE  \E q : JobTurn(j, q)
<1>1. (CommitUser(j) \/ CommitApp(j)) => \E q : JobTurn(j, q)
  BY CommitTurns, Zenon
<1>2. (RevokeLost(j) \/ CloseToggled(j) \/ DeleteApp(j)) => \E q : JobTurn(j, q)
  BY LastTurns, Zenon
<1>3. (ReadPrior(j) \/ ReadExisting(j)) => \E q : JobTurn(j, q)
  BY ReadTurns, Zenon
<1>4. (CommitSave(j) \/ CommitToggle(j) \/ ClearApp(j)) => \E q : JobTurn(j, q)
  BY SaveTurns, ToggleTurns, ClearTurns, Zenon
<1>5. (\/ \E u \in User, as \in {"user", "admin"} : FlushUser(j, u, as)
       \/ \E s \in Slug : FlushApp(j, s)) => \E q : JobTurn(j, q)
  BY FlushTurns, Zenon
<1>6. (\/ \E u \in User, ids \in SUBSET {app[s].id : s \in Installed} : BeginSave(j, u, ids)
       \/ \E s \in Slug : ReadToggle(j, s) \/ BeginDelete(j, s)) => \E q : JobTurn(j, q)
  BY BeginTurns, Zenon
<1> QED
  BY <1>1, <1>2, <1>3, <1>4, <1>5, <1>6, Zenon DEF JobStep

\* A commit of roles or apps waits for the write lock, or has it.
LEMMA LockedWhenWriting ==
  ASSUME TypeOK, Jobs, NEW j \in Job, JobStep(j)
  PROVE  \/ role' = role /\ app' = app
         \/ writer = None
         \/ writer = j
<1>1. (CommitUser(j) \/ CommitApp(j)) => writer = j
  BY CommitTurns
<1>2. (CommitToggle(j) \/ ClearApp(j) \/ DeleteApp(j)) => writer = None
  BY DEF CommitToggle, ClearApp, DeleteApp
<1>3. (\/ \E u \in User, as \in {"user", "admin"} : FlushUser(j, u, as)
       \/ \E s \in Slug : FlushApp(j, s) \/ ReadToggle(j, s) \/ BeginDelete(j, s)
       \/ \E u \in User, ids \in SUBSET {app[s].id : s \in Installed} : BeginSave(j, u, ids)
       \/ ReadPrior(j) \/ ReadExisting(j) \/ CommitSave(j) \/ RevokeLost(j) \/ CloseToggled(j))
      => role' = role /\ app' = app
  BY DEF FlushUser, FlushApp, ReadToggle, BeginDelete, BeginSave, ReadPrior, ReadExisting,
         CommitSave, RevokeLost, CloseToggled
<1> QED
  BY <1>1, <1>2, <1>3, Zenon DEF JobStep

\* No session is made by an administrator.
LEMMA AdminLeaves ==
  ASSUME TypeOK, AdminStep
  PROVE  /\ req' = req /\ launched' = launched /\ minted' = minted
         /\ tokens' \subseteq tokens /\ sessions' \subseteq sessions
<1>1. ASSUME NEW j \in Job, JobStep(j)
      PROVE  /\ req' = req /\ launched' = launched /\ minted' = minted
             /\ tokens' \subseteq tokens /\ sessions' \subseteq sessions
  BY <1>1 DEF JobStep, FlushUser, FlushApp, ReadToggle, BeginDelete, BeginSave, CommitUser, CommitApp,
     ReadPrior, ReadExisting, CommitSave, RevokeLost, CommitToggle, CloseToggled, ClearApp, DeleteApp,
     requests, tables, OfSlug
<1>2. ASSUME OneCommit
      PROVE  /\ req' = req /\ launched' = launched /\ minted' = minted
             /\ tokens' \subseteq tokens /\ sessions' \subseteq sessions
  BY <1>2 DEF OneCommit, DeleteUser, SetRole, SetPolicy, SetService, requests, tables
<1> QED
  BY <1>1, <1>2, AdminStepIs

\* changes only grows.
LEMMA ChangesStep ==
  ASSUME TypeOK, Next
  PROVE  changes' \in 0 .. MaxChanges /\ changes <= changes'
<1>0. changes \in 0 .. MaxChanges
  BY DEF TypeOK
<1>1. changes' = changes \/ (changes < MaxChanges /\ changes' = changes + 1)
  <2>1. ASSUME NEW j \in Job, JobStep(j)
        PROVE  changes' = changes \/ (changes < MaxChanges /\ changes' = changes + 1)
    BY <2>1 DEF JobStep, FlushUser, FlushApp, ReadToggle, BeginDelete, BeginSave, CommitUser, CommitApp,
       ReadPrior, ReadExisting, CommitSave, RevokeLost, CommitToggle, CloseToggled, ClearApp, DeleteApp,
       Accept
  <2>2. ASSUME OneCommit
        PROVE  changes' = changes \/ (changes < MaxChanges /\ changes' = changes + 1)
    BY <2>2 DEF OneCommit, DeleteUser, SetRole, SetPolicy, SetService, Change
  <2>3. ASSUME UserStep PROVE changes' = changes
    BY <2>3 DEF UserStep, Arrive, AuthenticateOnAppHost, AuthenticateOnPortal, OpenForm, FindApp,
       CheckAccess, ServeBundle, Finish, Exchange, admin
  <2> QED
    BY <2>1, <2>2, <2>3, AdminStepIs DEF Next
<1> QED
  BY <1>0, <1>1

\* An exchange is what makes a session, with a new id.
LEMMA UserLeaves ==
  ASSUME TypeOK, UserStep
  PROVE  /\ role' = role /\ app' = app /\ access' = access /\ policy' = policy /\ writer' = writer
         /\ job' = job /\ changes' = changes /\ owed' = owed
         /\ minted' \in 0 .. MaxSessions /\ minted <= minted'
         /\ \A x \in sessions' : x \in sessions \/ (x.id = minted + 1 /\ minted' = minted + 1)
<1>0. minted \in 0 .. MaxSessions
  BY DEF TypeOK
<1>1. UNCHANGED admin
  BY DEF UserStep, Arrive, AuthenticateOnAppHost, AuthenticateOnPortal, OpenForm, FindApp,
     CheckAccess, ServeBundle, Finish, Exchange
<1>2. ASSUME NEW r \in Request, NEW t \in tokens, Exchange(r, t)
      PROVE  /\ minted' \in 0 .. MaxSessions /\ minted <= minted'
             /\ \A x \in sessions' : x \in sessions \/ (x.id = minted + 1 /\ minted' = minted + 1)
  <2>1. minted' = minted \/ (minted < MaxSessions /\ minted' = minted + 1)
    BY <1>2 DEF Exchange
  <2>2. \A x \in sessions' : x \in sessions \/ (x.id = minted + 1 /\ minted' = minted + 1)
    BY <1>2 DEF Exchange
  <2> QED
    BY <1>0, <2>1, <2>2
<1>3. ASSUME UserStep, ~ \E r \in Request : \E t \in tokens : Exchange(r, t)
      PROVE  minted' = minted /\ sessions' = sessions
  BY <1>3 DEF UserStep, Arrive, AuthenticateOnAppHost, AuthenticateOnPortal, OpenForm, FindApp,
     CheckAccess, ServeBundle, Finish, tables
<1> QED
  BY <1>0, <1>1, <1>2, <1>3 DEF admin

LEMMA SessionsGrow ==
  ASSUME TypeOK, Next
  PROVE  OnlyNewSessions
<1>0. minted \in Nat /\ changes \in Nat /\ changes' \in Nat /\ changes <= changes'
  BY ChangesStep DEF TypeOK
<1>1. ASSUME AdminStep PROVE OnlyNewSessions
  BY <1>0, <1>1, AdminLeaves DEF OnlyNewSessions
<1>2. ASSUME UserStep PROVE OnlyNewSessions
  <2>1. minted' \in Nat /\ minted <= minted'
    BY <1>2, UserLeaves
  <2>2. \A x \in sessions' : x \in sessions \/ x.id > minted
    BY <1>0, <1>2, UserLeaves
  <2> QED
    BY <1>0, <2>1, <2>2 DEF OnlyNewSessions
<1> QED
  BY <1>1, <1>2 DEF Next

\* The jobs stay sound, and the write lock is the flushed one's.
LEMMA JobsStep ==
  ASSUME TypeOK, Jobs, Apps, Tables, Next
  PROVE  /\ Jobs' /\ job' \in [Job -> JobState] /\ writer' \in Job \cup {None}
         /\ \A j \in Job : job'[j].pc = "flushed" <=> writer' = j
<1>0. /\ job \in [Job -> JobState] /\ writer \in Job \cup {None} /\ None \notin Job /\ OnlyNewSessions
      /\ \A j \in Job : job[j].pc = "flushed" <=> writer = j
  BY SessionsGrow DEF TypeOK
<1>1. ASSUME NEW j \in Job, JobStep(j)
      PROVE  /\ Jobs' /\ job' \in [Job -> JobState] /\ writer' \in Job \cup {None}
             /\ \A k \in Job : job'[k].pc = "flushed" <=> writer' = k
  <2>1. PICK q : JobTurn(j, q)
    BY <1>1, Turns
  <2>2. job'[j] = q /\ q \in JobState /\ \A k \in Job : k # j => job'[k] = job[k]
    BY <1>0, <2>1 DEF JobTurn
  <2>3. ASSUME NEW k \in Job, k # j PROVE JobSound(job[k])'
    <3>1. PICK p : p = job[k]
      OBVIOUS
    <3>2. p \in JobState /\ JobSound(p)
      BY <3>1, JobIs
    <3>3. Quiet(p)
      BY <1>0, <1>1, <2>3, <3>1, LockedWhenWriting DEF Quiet
    <3>4. JobSound(p)'
      BY <1>0, <3>2, <3>3, JobSoundKept
    <3>5. job'[k] = p
      BY <2>2, <2>3, <3>1
    <3> QED
      BY <3>4, <3>5
  <2>4. JobSound(job[j])'
    <3>1. JobSound(q)' /\ q = job'[j]
      BY <2>1, <2>2 DEF JobTurn
    <3> QED
      BY <3>1
  <2>5. Jobs'
    BY <2>3, <2>4 DEF Jobs
  <2>6. job' \in [Job -> JobState]
    BY <1>0, <2>1, <2>2 DEF JobTurn
  <2>7. writer' \in Job \cup {None} /\ \A k \in Job : job'[k].pc = "flushed" <=> writer' = k
    BY <1>0, <2>1, <2>2 DEF JobTurn
  <2> QED
    BY <2>5, <2>6, <2>7
<1>2. ASSUME job' = job, writer' = writer, \A j \in Job : Quiet(job[j])
      PROVE  /\ Jobs' /\ job' \in [Job -> JobState] /\ writer' \in Job \cup {None}
             /\ \A k \in Job : job'[k].pc = "flushed" <=> writer' = k
  <2>1. ASSUME NEW k \in Job PROVE JobSound(job[k])'
    <3>1. PICK p : p = job[k]
      OBVIOUS
    <3>2. p \in JobState /\ JobSound(p) /\ Quiet(p)
      BY <1>2, <3>1, JobIs
    <3>4. JobSound(p)'
      BY <1>0, <3>2, JobSoundKept
    <3>5. job'[k] = p
      BY <1>2, <3>1
    <3> QED
      BY <3>4, <3>5
  <2>2. Jobs'
    BY <2>1 DEF Jobs
  <2> QED
    BY <1>0, <1>2, <2>2
<1>3. OneCommit => job' = job /\ writer' = writer /\ writer = None
  BY DEF OneCommit, DeleteUser, SetRole, SetPolicy, SetService, Change
<1>4. OneCommit => \A j \in Job : Quiet(job[j])
  BY <1>0, <1>3 DEF Quiet
<1>5. UserStep => job' = job /\ writer' = writer /\ \A j \in Job : Quiet(job[j])
  BY UserLeaves DEF Quiet
<1> QED
  BY <1>1, <1>2, <1>3, <1>4, <1>5, AdminStepIs DEF Next

-----------------------------------------------------------------------------
(***************************************************************************)
(* The tables.                                                              *)
(***************************************************************************)
DistinctIds == \A s, t \in Installed : s # t => app[s].id # app[t].id

LEMMA AppsKept ==
  ASSUME TypeOK, Apps, Next, app' \in [Slug -> AppRow],
         \A s \in Slug : \/ app'[s] = NoApp
                         \/ app'[s] = app[s]
                         \/ app[s].id # 0 /\ app'[s].id = app[s].id
  PROVE  DistinctIds' /\ Apps'
<1>0. /\ changes \in Nat /\ changes' \in Nat /\ changes <= changes'
      /\ NoApp.id = 0 /\ ~NoApp.enabled /\ ~NoApp.approved
      /\ DistinctIds
  BY ChangesStep DEF TypeOK, NoApp, DistinctIds
<1>1. ASSUME NEW s \in Installed' PROVE s \in Installed /\ app'[s].id = app[s].id
  BY <1>0, <1>1 DEF Installed
<1>2. DistinctIds'
  BY <1>0, <1>1 DEF DistinctIds
<1>3. ASSUME NEW s \in Slug
      PROVE  /\ app'[s].id <= 1 + changes'
             /\ app'[s].id = 0 => ~app'[s].enabled /\ ~app'[s].approved
  <2>1. /\ app[s].id \in Nat /\ app[s].id <= 1 + changes
        /\ app[s].id = 0 => ~app[s].enabled /\ ~app[s].approved
    BY AppIs DEF Apps
  <2>2. app'[s].id = 0 \/ app'[s].id = app[s].id
    BY <1>0, <1>3
  <2>3. app'[s].id <= 1 + changes'
    BY <1>0, <2>1, <2>2
  <2>4. app'[s].id = 0 => ~app'[s].enabled /\ ~app'[s].approved
    BY <1>0, <1>3, <2>1, Zenon
  <2> QED
    BY <2>3, <2>4
<1>4. Apps'
  BY <1>3 DEF Apps
<1> QED
  BY <1>2, <1>4

\* The app that a commit adds has an id no other has.
LEMMA AppsAdded ==
  ASSUME TypeOK, Apps, Jobs, Next, NEW j \in Job, CommitApp(j), app' # app
  PROVE  app' \in [Slug -> AppRow] /\ DistinctIds' /\ Apps'
<1>1. PICK s, i : s = job[j].slug /\ i = job[j].id
  OBVIOUS
<1>2. /\ s \in Slug \ Installed /\ i # 0 /\ i \in 0 .. MaxId /\ i <= 1 + changes
      /\ \A t \in Installed : app[t].id < i
  BY <1>1, JobIs DEF CommitApp, JobSound, JobState
<1>3. PICK row : row = [id |-> i, enabled |-> TRUE, approved |-> TRUE]
  OBVIOUS
<1>4. row \in AppRow /\ row.id = i
  BY <1>2, <1>3 DEF AppRow
<1>5. app' = [app EXCEPT ![s] = row] /\ app \in [Slug -> AppRow]
  BY <1>1, <1>3 DEF CommitApp, TypeOK, AppRow
<1>6. app' \in [Slug -> AppRow] /\ app'[s] = row /\ \A t \in Slug : t # s => app'[t] = app[t]
  BY <1>2, <1>4, <1>5
<1>7. \A t \in Installed' : t = s \/ (t \in Installed /\ app'[t].id = app[t].id /\ app[t].id < i)
  BY <1>2, <1>6 DEF Installed
<1>8. DistinctIds'
  <2> SUFFICES ASSUME NEW t \in Installed', NEW u \in Installed', t # u PROVE app'[t].id # app'[u].id
    BY DEF DistinctIds
  <2>1. CASE t # s /\ u # s
    BY <1>7, <2>1 DEF TypeOK
  <2>2. CASE t = s \/ u = s
    <3>1. i \in Nat /\ app'[s].id = i
      BY <1>2, <1>4, <1>6, IdsAre
    <3>2. \A v \in Installed' : v # s => app'[v].id < i /\ app'[v].id \in Nat
      BY <1>7, AppIs DEF Installed
    <3> QED
      BY <2>2, <3>1, <3>2
  <2> QED
    BY <2>1, <2>2
<1>9. Apps'
  <2>1. /\ changes \in Nat /\ changes' \in Nat /\ changes <= changes' /\ i \in Nat
    BY <1>2, ChangesStep, IdsAre DEF TypeOK
  <2>2. ASSUME NEW t \in Slug
        PROVE  /\ app'[t].id <= 1 + changes'
               /\ app'[t].id = 0 => ~app'[t].enabled /\ ~app'[t].approved
    <3>1. CASE t = s
      BY <1>2, <1>4, <1>6, <2>1, <3>1
    <3>2. CASE t # s
      <4>1. /\ app[t].id \in Nat /\ app[t].id <= 1 + changes /\ app'[t] = app[t]
            /\ app[t].id = 0 => ~app[t].enabled /\ ~app[t].approved
        BY <1>6, <3>2, AppIs DEF Apps
      <4> QED
        BY <2>1, <4>1
    <3> QED
      BY <3>1, <3>2
  <2> QED
    BY <2>2 DEF Apps
<1> QED
  BY <1>6, <1>8, <1>9

LEMMA AppsGone ==
  ASSUME TypeOK, NEW i, app' = [s \in Slug |-> IF app[s].id = i THEN NoApp ELSE app[s]]
  PROVE  /\ app' \in [Slug -> AppRow]
         /\ \A s \in Slug : app'[s] = NoApp \/ app'[s] = app[s]
<1>1. NoApp \in AppRow
  BY IdsAre DEF NoApp, AppRow
<1> QED
  BY <1>1 DEF TypeOK, AppRow

LEMMA AppsStep ==
  ASSUME TypeOK, Apps, Jobs, Next
  PROVE  app' \in [Slug -> AppRow] /\ DistinctIds' /\ Apps'
<1>0. app \in [Slug -> AppRow]
  BY DEF TypeOK, AppRow
<1>1. ASSUME app' = app PROVE app' \in [Slug -> AppRow] /\ DistinctIds' /\ Apps'
  BY <1>0, <1>1, AppsKept
<1>2. ASSUME NEW j \in Job, CommitApp(j) PROVE app' \in [Slug -> AppRow] /\ DistinctIds' /\ Apps'
  BY <1>1, <1>2, AppsAdded
<1>3. ASSUME NEW s \in Slug, NEW b \in BOOLEAN, app' = [app EXCEPT ![s].enabled = b], app[s].id # 0
      PROVE  app' \in [Slug -> AppRow] /\ DistinctIds' /\ Apps'
  <2>1. app' \in [Slug -> AppRow]
    BY <1>0, <1>3 DEF AppRow
  <2>2. app'[s].id = app[s].id /\ \A t \in Slug : t # s => app'[t] = app[t]
    BY <1>0, <1>3 DEF AppRow
  <2>3. \A t \in Slug : app'[t] = app[t] \/ (app[t].id # 0 /\ app'[t].id = app[t].id)
    BY <1>3, <2>2
  <2> QED
    BY <2>1, <2>3, AppsKept
<1>4. ASSUME NEW s \in Slug, SetService(s) PROVE app' \in [Slug -> AppRow] /\ DistinctIds' /\ Apps'
  <2>1. app' = [app EXCEPT ![s].approved = ~ @] /\ app[s].id # 0
    BY <1>4 DEF SetService, Installed
  <2>2. app' \in [Slug -> AppRow]
    BY <1>0, <2>1 DEF AppRow
  <2>3. app'[s].id = app[s].id /\ \A t \in Slug : t # s => app'[t] = app[t]
    BY <1>0, <2>1 DEF AppRow
  <2>4. \A t \in Slug : app'[t] = app[t] \/ (app[t].id # 0 /\ app'[t].id = app[t].id)
    BY <2>1, <2>3
  <2> QED
    BY <2>2, <2>4, AppsKept
<1>5. ASSUME NEW j \in Job, ClearApp(j) \/ DeleteApp(j)
      PROVE  app' \in [Slug -> AppRow] /\ DistinctIds' /\ Apps'
  <2>1. CASE app' = app
    BY <1>1, <2>1
  <2>2. CASE app' = [s \in Slug |-> IF app[s].id = job[j].id THEN NoApp ELSE app[s]]
    BY <2>2, AppsGone, AppsKept
  <2> QED
    BY <1>5, <2>1, <2>2 DEF ClearApp, DeleteApp
<1>6. ASSUME NEW j \in Job, CommitToggle(j) PROVE app' \in [Slug -> AppRow] /\ DistinctIds' /\ Apps'
  <2>1. job[j].id # 0 /\ job[j].to \in BOOLEAN
    BY <1>6, JobIs DEF CommitToggle, JobSound, JobState
  <2>2. CASE app' = app
    BY <1>1, <2>2
  <2>3. CASE \E s \in Slug : app[s].id = job[j].id /\ app' = [app EXCEPT ![s].enabled = job[j].to]
    BY <1>3, <2>1, <2>3
  <2> QED
    BY <1>6, <2>2, <2>3 DEF CommitToggle, WithId
<1>7. ASSUME NEW j \in Job, JobStep(j), ~CommitApp(j), ~CommitToggle(j), ~ClearApp(j), ~DeleteApp(j)
      PROVE  app' = app
  BY <1>7 DEF JobStep, FlushUser, FlushApp, ReadToggle, BeginDelete, BeginSave, CommitUser,
     ReadPrior, ReadExisting, CommitSave, RevokeLost, CloseToggled
<1>8. ASSUME OneCommit, ~ \E s \in Slug : SetService(s) PROVE app' = app
  BY <1>8 DEF OneCommit, DeleteUser, SetRole, SetPolicy
<1>9. UserStep => app' = app
  BY UserLeaves
<1>10. ASSUME AdminStep PROVE app' \in [Slug -> AppRow] /\ DistinctIds' /\ Apps'
  BY <1>1, <1>2, <1>4, <1>5, <1>6, <1>7, <1>8, <1>10, AdminStepIs
<1> QED
  BY <1>1, <1>9, <1>10 DEF Next

\* The rest of what administrators write.
LEMMA WritesTyped ==
  ASSUME TypeOK, Jobs, AdminStep
  PROVE  /\ role' \in [User -> {"none", "user", "admin", "gone"}]
         /\ access' \subseteq User \X Id /\ policy' \in {"all", "none"}
         /\ owed' \subseteq User \X Slug
<1>0. /\ role \in [User -> {"none", "user", "admin", "gone"}]
      /\ access \subseteq User \X Id /\ policy \in {"all", "none"}
      /\ owed \subseteq User \X Slug
  BY DEF TypeOK
<1>1. ASSUME NEW j \in Job, CommitUser(j)
      PROVE  /\ role' \in [User -> {"none", "user", "admin", "gone"}]
             /\ access' \subseteq User \X Id /\ policy' \in {"all", "none"}
             /\ owed' \subseteq User \X Slug
  <2>1. PICK u, as, apps : u = job[j].user /\ as = job[j].as /\ apps = job[j].apps
    OBVIOUS
  <2>2. u \in User /\ as \in {"user", "admin"} /\ apps \subseteq Slug \X Id
    BY <1>1, <2>1, JobIs DEF CommitUser, JobSound, JobState
  <2>3. role' = [role EXCEPT ![u] = as] /\ policy' = policy
    BY <1>1, <2>1 DEF CommitUser
  <2>4. \E granted \in SUBSET apps : access' = access \cup {<<u, p[2]>> : p \in granted}
    <3>1. PICK granted : granted = IF policy = "all" /\ as = "user" THEN apps ELSE {}
      OBVIOUS
    <3>2. access' = access \cup {<<u, p[2]>> : p \in granted}
      BY <1>1, <2>1, <3>1 DEF CommitUser
    <3>3. granted \in SUBSET apps
      BY <3>1
    <3> QED
      BY <3>2, <3>3
  <2>5. \A p \in apps : p[2] \in Id
    BY <2>2
  <2>6. access' \subseteq User \X Id
    BY <1>0, <2>2, <2>4, <2>5
  <2>7. owed' \subseteq User \X Slug
    BY <1>0, <1>1, <2>1, <2>2 DEF CommitUser, Installed
  <2> QED
    BY <1>0, <2>2, <2>3, <2>6, <2>7
<1>2. ASSUME NEW j \in Job, CommitApp(j)
      PROVE  /\ role' \in [User -> {"none", "user", "admin", "gone"}]
             /\ access' \subseteq User \X Id /\ policy' \in {"all", "none"}
             /\ owed' \subseteq User \X Slug
  <2>1. PICK s, i, users : s = job[j].slug /\ i = job[j].id /\ users = job[j].users
    OBVIOUS
  <2>2. s \in Slug /\ i \in Id /\ users \subseteq User
    BY <1>2, <2>1, JobIs, IdsAre DEF CommitApp, JobSound, JobState
  <2>3. access' = access \/ \E granted \in SUBSET users : access' = access \cup (granted \X {i})
    BY <1>2, <2>1 DEF CommitApp
  <2>4. owed' = owed \/ owed' = owed \cup ({u \in User : role[u] = "user"} \X {s})
    BY <1>2, <2>1 DEF CommitApp
  <2>5. role' = role /\ policy' = policy
    BY <1>2 DEF CommitApp
  <2> QED
    BY <1>0, <2>2, <2>3, <2>4, <2>5
<1>3. ASSUME NEW j \in Job, CommitSave(j)
      PROVE  /\ role' \in [User -> {"none", "user", "admin", "gone"}]
             /\ access' \subseteq User \X Id /\ policy' \in {"all", "none"}
             /\ owed' \subseteq User \X Slug
  <2>1. PICK u, wanted : u = job[j].user /\ wanted = job[j].wanted
    OBVIOUS
  <2>2. u \in User /\ wanted \subseteq Id
    BY <1>3, <2>1, JobIs DEF CommitSave, JobSound, JobState
  <2>3. access' \subseteq access \cup ({u} \X wanted) /\ owed' \subseteq owed
    BY <1>3, <2>1 DEF CommitSave
  <2>4. role' = role /\ policy' = policy
    BY <1>3 DEF CommitSave
  <2> QED
    BY <1>0, <2>2, <2>3, <2>4
<1>4. ASSUME NEW j \in Job, JobStep(j), ~CommitUser(j), ~CommitApp(j), ~CommitSave(j)
      PROVE  role' = role /\ policy' = policy /\ access' \subseteq access /\ owed' \subseteq owed
  BY <1>4 DEF JobStep, FlushUser, FlushApp, ReadToggle, BeginDelete, BeginSave,
     ReadPrior, ReadExisting, RevokeLost, CommitToggle, CloseToggled, ClearApp, DeleteApp
<1>5. ASSUME OneCommit
      PROVE  /\ role' \in [User -> {"none", "user", "admin", "gone"}]
             /\ access' \subseteq access /\ policy' \in {"all", "none"}
             /\ owed' \subseteq owed
  BY <1>0, <1>5 DEF OneCommit, DeleteUser, SetRole, SetPolicy, SetService
<1> QED
  BY <1>0, <1>1, <1>2, <1>3, <1>4, <1>5, AdminStepIs

-----------------------------------------------------------------------------
(***************************************************************************)
(* Requests.                                                                *)
(***************************************************************************)
Waiting == {"idle", "routed"}

\* What a request r that becomes q has seen, while no table changes but those of Tables.
Watched(r, q) == IF q.pc \in Waiting THEN {} ELSE seen[r] \cup Facts(q)

\* A request becomes q.
ReqTurn(r, q) ==
  /\ q \in RequestState /\ ReqRouted(q)' /\ ReqSeen(q, Watched(r, q))
  /\ req' = [req EXCEPT ![r] = q]

LEMMA RequestIs ==
  ASSUME TypeOK, Requests, NEW r \in Request
  PROVE  req[r] \in RequestState /\ ReqRouted(req[r]) /\ ReqSeen(req[r], seen[r])
  BY DEF TypeOK, Requests

LEMMA FactsAre ==
  ASSUME NEW q, q.slug \in Slug, q.pc # "routed"
  PROVE  /\ "access" \in Facts(q) <=>
               \/ q.id # 0 /\ app[q.slug].id # q.id
               \/ q.user # None /\ role[q.user] = "admin"
               \/ <<q.user, app[q.slug].id>> \in access
         /\ "enabled" \in Facts(q) <=> app[q.slug].enabled
         /\ "approved" \in Facts(q) <=> app[q.slug].approved
<1>1. q.slug # None
  OBVIOUS
<1> QED
  BY <1>1 DEF Facts

LEMMA Refused == ASSUME NEW r \in Request, Refuse(r) PROVE ReqTurn(r, NoRequest)
  BY NoRequestTyped DEF Refuse, ReqTurn, ReqRouted, ReqSeen

LEMMA ArriveTurns ==
  ASSUME TypeOK, Requests, NEW r \in Request, NEW host \in Slug \cup {Portal}, NEW path \in Path(host),
         NEW method \in {"GET", "POST"}, Arrive(r, host, path, method)
  PROVE  \E q : ReqTurn(r, q)
<1>1. PICK route : route = RouteOf(host, path, method)
  OBVIOUS
<1>2. PICK pc : pc = IF route \in {"portal", "sdk"} THEN "served" ELSE "routed"
  OBVIOUS
<1>3. PICK slug : slug = IF host = Portal THEN None ELSE host
  OBVIOUS
<1>4. PICK q : q = [NoRequest EXCEPT !.pc = pc, !.host = host, !.route = route, !.slug = slug]
  OBVIOUS
<1>5. req' = [req EXCEPT ![r] = q] /\ route # "none"
  BY <1>1, <1>2, <1>3, <1>4 DEF Arrive
<1>6. IF host = Portal THEN route \in PortalRoutes ELSE route \in AllowedOnAppHost \cup {"bundle"}
  BY <1>1, <1>5 DEF RouteOf, Path, PortalRoutes
<1>7. /\ slug \in Slug \cup {None} /\ pc \in {"served", "routed"}
      /\ (host # Portal => slug = host) /\ (host = Portal => slug = None)
  BY <1>2, <1>3
<1>8. q \in RequestState
  BY <1>4, <1>6, <1>7, NoRequestTyped DEF RequestState, PortalRoutes, AllowedOnAppHost
<1>9. /\ q.pc = pc /\ q.host = host /\ q.route = route /\ q.slug = slug
      /\ q.by = "anonymous" /\ q.user = None /\ q.role = "none"
  BY <1>4 DEF NoRequest
<1>10. ReqRouted(q)'
  BY <1>2, <1>5, <1>6, <1>7, <1>9 DEF ReqRouted, AllowedOnAppHost, PortalRoutes
<1>11. ReqSeen(q, Watched(r, q))
  BY <1>2, <1>6, <1>7, <1>9 DEF ReqSeen, Needs, AllowedOnAppHost
<1> QED
  BY <1>5, <1>8, <1>10, <1>11 DEF ReqTurn

\* A caller who is known: a session's user on its app's host, or a user on the portal.
LEMMA AuthenticatedTurns ==
  ASSUME TypeOK, Requests, Tables, NEW r \in Request, NEW u \in User, Known(u),
         NEW slug \in Slug \cup {None}, NEW by \in {"cookie", "token", "app_session"},
         req[r].pc = "routed", Authenticated(r, u, by, slug), launched' = launched,
         \/ /\ req[r].host = Portal /\ by # "app_session" /\ req[r].route # "form"
            /\ slug \in Named(req[r].route)
         \/ /\ req[r].host # Portal /\ slug = req[r].host
            /\ req[r].route \in {"service", "me", "bundle"} /\ <<u, slug>> \in launched
  PROVE  \E q : ReqTurn(r, q)
<1>1. req[r] \in RequestState /\ ReqRouted(req[r])
  BY RequestIs
<1>2. PICK pc : pc = FindFor(req[r].route, slug)
  OBVIOUS
<1>3. PICK as : as = role[u]
  OBVIOUS
<1>4. PICK q : q = [req[r] EXCEPT !.pc = pc, !.by = by, !.user = u, !.role = as, !.slug = slug]
  OBVIOUS
<1>5. req' = [req EXCEPT ![r] = q]
  BY <1>2, <1>3, <1>4 DEF Authenticated, TypeOK
<1>6. pc \in {"known", "served"} /\ as \in {"user", "admin"}
  BY <1>2, <1>3 DEF FindFor, Known
<1>7. q \in RequestState
  BY <1>1, <1>4, <1>6 DEF RequestState
<1>8. /\ q.pc = pc /\ q.by = by /\ q.user = u /\ q.role = as /\ q.slug = slug
      /\ q.host = req[r].host /\ q.route = req[r].route
  BY <1>1, <1>4 DEF RequestState
<1>9. CASE /\ req[r].host = Portal /\ by # "app_session" /\ req[r].route # "form"
           /\ slug \in Named(req[r].route)
  <2>1. /\ q.route \in {"launch", "icon", "service", "me"} /\ q.host = Portal
        /\ pc = "known" => slug \in Slug /\ q.route # "me"
        /\ pc = "served" => slug = None
    BY <1>1, <1>2, <1>8, <1>9 DEF ReqRouted, PortalRoutes, Named, FindFor
  <2>2. ReqRouted(q)'
    BY <1>6, <1>8, <1>9, <2>1 DEF ReqRouted, PortalRoutes
  <2>3. ASSUME pc = "known", as = "admin" PROVE "access" \in Watched(r, q)
    <3>1. "access" \in Facts(q)
      BY <1>3, <1>8, <2>1, <2>3, FactsAre
    <3> QED
      BY <1>8, <2>3, <3>1 DEF Watched, Waiting
  <2>4. ReqSeen(q, Watched(r, q))
    BY <1>6, <1>8, <2>1, <2>3 DEF ReqSeen
  <2> QED
    BY <1>5, <1>7, <2>2, <2>4 DEF ReqTurn
<1>10. CASE /\ req[r].host # Portal /\ slug = req[r].host
            /\ req[r].route \in {"service", "me", "bundle"} /\ <<u, slug>> \in launched
  <2>1. /\ slug \in Slug /\ slug # None /\ q.host = slug /\ q.host # Portal
        /\ q.route \in {"service", "me", "bundle"}
        /\ pc = "known" => q.route # "me"
        /\ pc = "served" => q.route = "me"
    BY <1>1, <1>2, <1>8, <1>10 DEF ReqRouted, FindFor
  <2>2. ReqRouted(q)'
    BY <1>6, <1>8, <1>10, <2>1 DEF ReqRouted, AllowedOnAppHost
  <2>3. ASSUME pc = "known", as = "admin" PROVE "access" \in Watched(r, q)
    <3>1. "access" \in Facts(q)
      BY <1>3, <1>8, <2>1, <2>3, FactsAre
    <3> QED
      BY <1>8, <2>3, <3>1 DEF Watched, Waiting
  <2>4. ReqSeen(q, Watched(r, q))
    BY <1>6, <1>8, <2>1, <2>3 DEF ReqSeen, Needs
  <2> QED
    BY <1>5, <1>7, <2>2, <2>4 DEF ReqTurn
<1> QED
  BY <1>9, <1>10

LEMMA AuthenticateTurns ==
  ASSUME TypeOK, Requests, Tables, NEW r \in Request,
         AuthenticateOnAppHost(r) \/ AuthenticateOnPortal(r)
  PROVE  \E q : ReqTurn(r, q)
<1>1. ASSUME Refuse(r) PROVE \E q : ReqTurn(r, q)
  BY <1>1, Refused
<1>2. launched' = launched /\ req[r].pc = "routed" /\ ReqRouted(req[r])
  BY RequestIs DEF AuthenticateOnAppHost, AuthenticateOnPortal, tables
<1>3. ASSUME AuthenticateOnAppHost(r), ~Refuse(r) PROVE \E q : ReqTurn(r, q)
  <2>1. PICK x \in sessions : x.slug = req[r].host /\ Authenticated(r, x.user, "app_session", req[r].host)
    BY <1>3 DEF AuthenticateOnAppHost
  <2>2. /\ req[r].host # Portal /\ req[r].route \in {"service", "me", "bundle"}
        /\ x.user \in User /\ Known(x.user) /\ <<x.user, x.slug>> \in launched /\ x.slug \in Slug
    BY <1>3, SessionIs DEF AuthenticateOnAppHost, Tables
  <2> QED
    BY <1>2, <2>1, <2>2, AuthenticatedTurns
<1>4. ASSUME AuthenticateOnPortal(r), ~Refuse(r) PROVE \E q : ReqTurn(r, q)
  <2>1. PICK u \in {u \in User : Known(u)}, slug \in Named(req[r].route) :
          Authenticated(r, u, "cookie", slug) \/ Authenticated(r, u, "token", slug)
    BY <1>4 DEF AuthenticateOnPortal
  <2>2. req[r].host = Portal /\ req[r].route # "form"
    BY <1>4 DEF AuthenticateOnPortal
  <2>3. slug \in Slug \cup {None}
    BY DEF Named
  <2> QED
    BY <1>2, <2>1, <2>2, <2>3, AuthenticatedTurns
<1> QED
  BY <1>1, <1>3, <1>4

LEMMA FormTurns ==
  ASSUME TypeOK, Requests, NEW r \in Request, OpenForm(r)
  PROVE  \E q : ReqTurn(r, q)
<1>1. ASSUME Refuse(r) PROVE \E q : ReqTurn(r, q)
  BY <1>1, Refused
<1>2. /\ req[r] \in RequestState /\ ReqRouted(req[r]) /\ req[r].pc = "routed" /\ req[r].route = "form"
      /\ launched' = launched
  BY RequestIs DEF OpenForm, tables
<1>3. ASSUME NEW s \in IF req[r].host = Portal THEN Slug ELSE {req[r].host},
             app[s].enabled, req' = [req EXCEPT ![r].pc = "served", ![r].slug = s]
      PROVE  \E q : ReqTurn(r, q)
  <2>1. s \in Slug /\ (req[r].host # Portal => s = req[r].host)
    BY <1>2, <1>3 DEF ReqRouted
  <2>2. PICK q : q = [req[r] EXCEPT !.pc = "served", !.slug = s]
    OBVIOUS
  <2>3. req' = [req EXCEPT ![r] = q]
    BY <1>3, <2>2 DEF TypeOK
  <2>4. q \in RequestState
    BY <1>2, <2>1, <2>2 DEF RequestState
  <2>5. /\ q.pc = "served" /\ q.slug = s /\ q.host = req[r].host /\ q.route = "form" /\ q.by = req[r].by
        /\ q.user = req[r].user
    BY <1>2, <2>2 DEF RequestState
  <2>6. ReqRouted(q)'
    BY <1>2, <2>1, <2>5 DEF ReqRouted
  <2>7. "enabled" \in Watched(r, q)
    BY <1>3, <2>1, <2>5, FactsAre DEF Watched, Waiting
  <2>8. ReqSeen(q, Watched(r, q))
    BY <2>5, <2>7 DEF ReqSeen, Needs
  <2> QED
    BY <2>3, <2>4, <2>6, <2>8 DEF ReqTurn
<1> QED
  BY <1>1, <1>3 DEF OpenForm

LEMMA FindTurns ==
  ASSUME TypeOK, Apps, Requests, NEW r \in Request, FindApp(r)
  PROVE  \E q : ReqTurn(r, q)
<1>1. ASSUME Refuse(r) PROVE \E q : ReqTurn(r, q)
  BY <1>1, Refused
<1>2. /\ req[r] \in RequestState /\ ReqRouted(req[r]) /\ ReqSeen(req[r], seen[r]) /\ req[r].pc = "known"
      /\ launched' = launched
  BY RequestIs DEF FindApp, tables
<1>3. PICK s : s = req[r].slug
  OBVIOUS
<1>4. ASSUME app[s].enabled, req[r].route = "service" => app[s].approved,
             req' = [req EXCEPT ![r].pc = "found", ![r].id = app[s].id]
      PROVE  \E q : ReqTurn(r, q)
  <2>1. s \in Slug
    BY <1>2, <1>3 DEF ReqRouted
  <2>2. app[s].id # 0 /\ app[s].id \in 0 .. MaxId
    BY <1>4, <2>1, AppIs DEF Apps
  <2>3. PICK q : q = [req[r] EXCEPT !.pc = "found", !.id = app[s].id]
    OBVIOUS
  <2>4. req' = [req EXCEPT ![r] = q]
    BY <1>4, <2>3 DEF TypeOK
  <2>5. q \in RequestState
    BY <1>2, <2>2, <2>3 DEF RequestState
  <2>6. /\ q.pc = "found" /\ q.id = app[s].id /\ q.slug = s /\ q.host = req[r].host
        /\ q.route = req[r].route /\ q.by = req[r].by /\ q.user = req[r].user /\ q.role = req[r].role
    BY <1>2, <1>3, <2>3 DEF RequestState
  <2>7. ReqRouted(q)'
    BY <1>2, <1>3, <2>2, <2>6 DEF ReqRouted
  <2>8. /\ seen[r] \subseteq Watched(r, q) /\ "enabled" \in Watched(r, q)
        /\ q.route = "service" => "approved" \in Watched(r, q)
    BY <1>4, <2>1, <2>6, FactsAre DEF Watched, Waiting
  <2>9. ReqSeen(q, Watched(r, q))
    BY <1>2, <2>6, <2>8 DEF ReqSeen
  <2> QED
    BY <2>4, <2>5, <2>7, <2>9 DEF ReqTurn
<1> QED
  BY <1>1, <1>3, <1>4 DEF FindApp

LEMMA CheckTurns ==
  ASSUME TypeOK, Requests, NEW r \in Request, CheckAccess(r)
  PROVE  \E q : ReqTurn(r, q)
<1>1. ASSUME Refuse(r) PROVE \E q : ReqTurn(r, q)
  BY <1>1, Refused
<1>2. /\ req[r] \in RequestState /\ ReqRouted(req[r]) /\ ReqSeen(req[r], seen[r]) /\ req[r].pc = "found"
      /\ launched \subseteq launched'
  BY RequestIs DEF CheckAccess
<1>3. ASSUME MayReach(req[r]), NEW pc, pc = IF req[r].route = "bundle" THEN "gated" ELSE "served",
             req' = [req EXCEPT ![r].pc = pc]
      PROVE  \E q : ReqTurn(r, q)
  <2>1. PICK q : q = [req[r] EXCEPT !.pc = pc]
    OBVIOUS
  <2>2. req' = [req EXCEPT ![r] = q] /\ pc \in {"gated", "served"}
    BY <1>3, <2>1 DEF TypeOK
  <2>3. q \in RequestState
    BY <1>2, <2>1, <2>2 DEF RequestState
  <2>4. /\ q.pc = pc /\ q.id = req[r].id /\ q.slug = req[r].slug /\ q.host = req[r].host
        /\ q.route = req[r].route /\ q.by = req[r].by /\ q.user = req[r].user /\ q.role = req[r].role
    BY <1>2, <2>1 DEF RequestState
  <2>5. ReqRouted(q)'
    BY <1>2, <1>3, <2>4 DEF ReqRouted
  <2>6. /\ q.slug \in Slug /\ q.user \in User /\ q.id # 0
        /\ q.route \in {"launch", "icon", "service", "bundle"}
    BY <1>2, <2>4 DEF ReqRouted
  <2>7. seen[r] \cup Facts(q) \subseteq Watched(r, q)
    BY <2>2, <2>4 DEF Watched, Waiting
  <2>8. "access" \in Watched(r, q)
    <3>1. CASE req[r].role = "admin"
      BY <1>2, <2>7, <3>1 DEF ReqSeen
    <3>2. CASE <<q.user, q.id>> \in access
      BY <2>2, <2>4, <2>6, <2>7, <3>2, FactsAre
    <3> QED
      BY <1>3, <2>4, <3>1, <3>2 DEF MayReach
  <2>9. /\ "enabled" \in Watched(r, q)
        /\ q.route = "service" => "approved" \in Watched(r, q)
    BY <1>2, <2>4, <2>7 DEF ReqSeen
  <2>10. ReqSeen(q, Watched(r, q))
    BY <2>2, <2>4, <2>6, <2>8, <2>9 DEF ReqSeen, Needs
  <2> QED
    BY <2>2, <2>3, <2>5, <2>10 DEF ReqTurn
<1>4. Refuse(r) \/ \E pc : /\ pc = IF req[r].route = "bundle" THEN "gated" ELSE "served"
                           /\ req' = [req EXCEPT ![r].pc = pc] /\ MayReach(req[r])
  BY DEF CheckAccess
<1> QED
  BY <1>1, <1>3, <1>4

LEMMA ServeTurns ==
  ASSUME TypeOK, Requests, NEW r \in Request, ServeBundle(r)
  PROVE  \E q : ReqTurn(r, q)
<1>1. ASSUME Refuse(r) PROVE \E q : ReqTurn(r, q)
  BY <1>1, Refused
<1>2. /\ req[r] \in RequestState /\ ReqRouted(req[r]) /\ ReqSeen(req[r], seen[r]) /\ req[r].pc = "gated"
      /\ launched' = launched
  BY RequestIs DEF ServeBundle, tables
<1>3. ASSUME req' = [req EXCEPT ![r].pc = "served"] PROVE \E q : ReqTurn(r, q)
  <2>1. PICK q : q = [req[r] EXCEPT !.pc = "served"]
    OBVIOUS
  <2>2. req' = [req EXCEPT ![r] = q]
    BY <1>3, <2>1 DEF TypeOK
  <2>3. q \in RequestState
    BY <1>2, <2>1 DEF RequestState
  <2>4. /\ q.pc = "served" /\ q.slug = req[r].slug /\ q.host = req[r].host
        /\ q.route = req[r].route /\ q.by = req[r].by /\ q.user = req[r].user
    BY <1>2, <2>1 DEF RequestState
  <2>5. ReqRouted(q)'
    BY <1>2, <2>4 DEF ReqRouted
  <2>6. seen[r] \subseteq Watched(r, q)
    BY <2>4 DEF Watched, Waiting
  <2>7. q.route = "bundle"
    BY <1>2, <2>4 DEF ReqRouted
  <2>8. ReqSeen(q, Watched(r, q))
    BY <1>2, <2>4, <2>6, <2>7 DEF ReqSeen, Needs
  <2> QED
    BY <2>2, <2>3, <2>5, <2>8 DEF ReqTurn
<1> QED
  BY <1>1, <1>3 DEF ServeBundle

LEMMA UserTurns ==
  ASSUME TypeOK, Apps, Tables, Requests, UserStep
  PROVE  \E r \in Request : \E q : ReqTurn(r, q)
<1>1. ASSUME NEW r \in Request, NEW host \in Slug \cup {Portal}, NEW path \in Path(host),
             NEW method \in {"GET"} \cup (IF path = "portal" THEN {"POST"} ELSE {}),
             Arrive(r, host, path, method)
      PROVE  \E q : ReqTurn(r, q)
  BY <1>1, ArriveTurns
<1>2. ASSUME NEW r \in Request, Finish(r) \/ \E t \in tokens : Exchange(r, t)
      PROVE  \E q : ReqTurn(r, q)
  BY <1>2, Refused DEF Finish, Exchange
<1>3. ASSUME NEW r \in Request, AuthenticateOnAppHost(r) \/ AuthenticateOnPortal(r)
      PROVE  \E q : ReqTurn(r, q)
  BY <1>3, AuthenticateTurns
<1>4. ASSUME NEW r \in Request, OpenForm(r) \/ FindApp(r) \/ CheckAccess(r) \/ ServeBundle(r)
      PROVE  \E q : ReqTurn(r, q)
  BY <1>4, FormTurns, FindTurns, CheckTurns, ServeTurns
<1> QED
  BY <1>1, <1>2, <1>3, <1>4, Zenon DEF UserStep

\* Facts stay seen while a request runs.
LEMMA SeenKept ==
  ASSUME TypeOK, SeenType, Next, NEW r \in Request, req'[r] = req[r]
  PROVE  req[r].pc \notin Waiting => seen[r] \subseteq seen'[r]
  BY DEF Next, Watch, Waiting

LEMMA LaunchedGrows == ASSUME TypeOK, Next PROVE launched \subseteq launched'
<1>1. UserStep => launched \subseteq launched'
  BY DEF UserStep, Arrive, AuthenticateOnAppHost, AuthenticateOnPortal, OpenForm, FindApp,
     CheckAccess, ServeBundle, Finish, Exchange, tables
<1> QED
  BY <1>1, AdminLeaves DEF Next

LEMMA StillSound ==
  ASSUME TypeOK, SeenType, Requests, Next, NEW r \in Request, req'[r] = req[r]
  PROVE  ReqRouted(req[r])' /\ ReqSeen(req[r], seen[r])'
<1>1. PICK q : q = req[r]
  OBVIOUS
<1>2. ReqRouted(q) /\ ReqSeen(q, seen[r]) /\ req'[r] = q
  BY <1>1, RequestIs
<1>3. ReqRouted(q)'
  BY <1>2, LaunchedGrows DEF ReqRouted
<1>4. ReqSeen(q, seen'[r])
  BY <1>1, <1>2, SeenKept DEF ReqSeen, Waiting
<1>5. ReqRouted(req[r])'
  BY <1>2, <1>3
<1>6. ReqSeen(req[r], seen[r])'
  BY <1>2, <1>4 DEF ReqSeen
<1> QED
  BY <1>5, <1>6

LEMMA RequestsStep ==
  ASSUME TypeOK, SeenType, Apps, Tables, Requests, Next
  PROVE  req' \in [Request -> RequestState] /\ Requests' /\ SeenType'
<1>0. req \in [Request -> RequestState]
  BY DEF TypeOK
<1>1. SeenType'
  <2>1. \A r \in Request : FactsOf(r)' \subseteq FactNames
    BY DEF FactsOf, Facts, FactNames
  <2> QED
    BY <2>1 DEF SeenType, Next, Watch
<1>2. ASSUME AdminStep PROVE req' \in [Request -> RequestState] /\ Requests'
  <2>1. req' = req
    BY <1>2, AdminLeaves
  <2> QED
    BY <1>0, <2>1, StillSound DEF Requests
<1>3. ASSUME NEW r \in Request, NEW q, ReqTurn(r, q), UserStep
      PROVE  req' \in [Request -> RequestState] /\ Requests'
  <2>1. req' \in [Request -> RequestState] /\ req'[r] = q /\ \A s \in Request : s # r => req'[s] = req[s]
    BY <1>0, <1>3 DEF ReqTurn
  <2>2. FactsOf(r)' = Facts(q)
    <3>1. role' = role /\ app' = app /\ access' = access /\ req'[r] = q
      BY <1>3, <2>1, UserLeaves
    <3> QED
      BY <3>1 DEF FactsOf, Facts
  <2>3. seen'[r] = Watched(r, q)
    BY <2>1, <2>2 DEF Next, Watch, Watched, Waiting
  <2>4. ReqRouted(req[r])' /\ ReqSeen(req[r], seen[r])'
    <3>1. ReqRouted(q)' /\ ReqSeen(q, seen'[r])
      BY <1>3, <2>3 DEF ReqTurn
    <3>2. ReqRouted(req[r])'
      BY <2>1, <3>1
    <3>3. ReqSeen(req[r], seen[r])'
      BY <2>1, <3>1 DEF ReqSeen
    <3> QED
      BY <3>2, <3>3
  <2>5. \A s \in Request : s # r => ReqRouted(req[s])' /\ ReqSeen(req[s], seen[s])'
    BY <2>1, StillSound
  <2> QED
    BY <2>1, <2>4, <2>5 DEF Requests
<1>4. ASSUME UserStep PROVE req' \in [Request -> RequestState] /\ Requests'
  BY <1>3, <1>4, UserTurns
<1> QED
  BY <1>1, <1>2, <1>4 DEF Next

(***************************************************************************)
(* Tokens and sessions.                                                     *)
(***************************************************************************)
LEMMA KnownStays ==
  ASSUME TypeOK, Jobs, Tables, AdminStep
  PROVE  \A x \in sessions' : x \in sessions /\ role'[x.user] \in {"user", "admin"}
<1>0. /\ role \in [User -> {"none", "user", "admin", "gone"}] /\ sessions' \subseteq sessions
      /\ \A x \in sessions : x.user \in User /\ role[x.user] \in {"user", "admin"}
  BY AdminLeaves, SessionIs DEF TypeOK, Tables, Known
<1>1. ASSUME NEW u \in User, NEW as \in {"user", "admin"}, role' = [role EXCEPT ![u] = as]
      PROVE  \A x \in sessions' : role'[x.user] \in {"user", "admin"}
  BY <1>0, <1>1
<1>2. ASSUME NEW j \in Job, CommitUser(j) PROVE \A x \in sessions' : role'[x.user] \in {"user", "admin"}
  <2>1. job[j].user \in User /\ job[j].as \in {"user", "admin"}
    BY <1>2, JobIs DEF CommitUser, JobSound
  <2>2. role' = [role EXCEPT ![job[j].user] = job[j].as]
    BY <1>2 DEF CommitUser
  <2> QED
    BY <1>1, <2>1, <2>2
<1>3. ASSUME NEW u \in User, DeleteUser(u) PROVE \A x \in sessions' : role'[x.user] \in {"user", "admin"}
  BY <1>0, <1>3 DEF DeleteUser
<1>4. ASSUME NEW u \in User, NEW as \in {"user", "admin"}, SetRole(u, as)
      PROVE  \A x \in sessions' : role'[x.user] \in {"user", "admin"}
  BY <1>1, <1>4 DEF SetRole
<1>5. ASSUME role' = role PROVE \A x \in sessions' : role'[x.user] \in {"user", "admin"}
  BY <1>0, <1>5
<1>6. ASSUME NEW j \in Job, JobStep(j), ~CommitUser(j) PROVE role' = role
  BY <1>6 DEF JobStep, FlushUser, FlushApp, ReadToggle, BeginDelete, BeginSave, CommitApp,
     ReadPrior, ReadExisting, CommitSave, RevokeLost, CommitToggle, CloseToggled, ClearApp, DeleteApp
<1>7. (SetPolicy \/ \E s \in Slug : SetService(s)) => role' = role
  BY DEF SetPolicy, SetService
<1>8. \A x \in sessions' : role'[x.user] \in {"user", "admin"}
  BY <1>2, <1>3, <1>4, <1>5, <1>6, <1>7, AdminStepIs DEF OneCommit
<1> QED
  BY <1>0, <1>8

LEMMA Launches ==
  ASSUME TypeOK, Tables, Requests, NEW r \in Request, CheckAccess(r)
  PROVE  /\ sessions' = sessions /\ minted' = minted /\ role' = role
         /\ \/ tokens' = tokens /\ launched' = launched
            \/ \E u \in User, s \in Slug : /\ tokens' = tokens \cup {[user |-> u, slug |-> s]}
                                           /\ launched' = launched \cup {<<u, s>>}
<1>1. req[r].user \in User /\ req[r].slug \in Slug
  BY RequestIs DEF CheckAccess, ReqRouted
<1> QED
  BY <1>1 DEF CheckAccess, admin

LEMMA Exchanges ==
  ASSUME TypeOK, Tables, Requests, NEW r \in Request, NEW t \in tokens, Exchange(r, t)
  PROVE  /\ tokens' \subseteq tokens /\ launched' = launched /\ role' = role
         /\ \/ sessions' = sessions /\ minted' = minted
            \/ /\ minted' = minted + 1 /\ t.user \in User /\ t.slug \in Slug /\ Known(t.user)
               /\ <<t.user, t.slug>> \in launched
               /\ sessions' = sessions \cup {[id |-> minted + 1, user |-> t.user, slug |-> t.slug]}
<1>1. t.user \in User /\ t.slug \in Slug /\ <<t.user, t.slug>> \in launched
  BY DEF TypeOK, Tables
<1> QED
  BY <1>1 DEF Exchange, admin

TablesTyped ==
  /\ tokens \subseteq [user : User, slug : Slug]
  /\ sessions \subseteq [id : 1 .. minted, user : User, slug : Slug]
  /\ minted \in 0 .. MaxSessions /\ launched \subseteq User \X Slug

LEMMA TablesStep ==
  ASSUME TypeOK, Jobs, Tables, Requests, Next
  PROVE  TablesTyped' /\ Tables'
<1>0. TablesTyped /\ minted \in Nat
  BY DEF TypeOK, TablesTyped
<1>1. ASSUME AdminStep PROVE TablesTyped' /\ Tables'
  <2>1. TablesTyped'
    BY <1>0, <1>1, AdminLeaves DEF TablesTyped
  <2>2. Tables'
    BY <1>1, AdminLeaves, KnownStays DEF Tables, Known
  <2> QED
    BY <2>1, <2>2
<1>2. ASSUME UNCHANGED <<tokens, launched, sessions, minted, role>> PROVE TablesTyped' /\ Tables'
  BY <1>0, <1>2 DEF TablesTyped, Tables, Known
<1>3. ASSUME NEW u \in User, NEW s \in Slug, tokens' = tokens \cup {[user |-> u, slug |-> s]},
             launched' = launched \cup {<<u, s>>}, UNCHANGED <<sessions, minted, role>>
      PROVE  TablesTyped' /\ Tables'
  <2>1. TablesTyped'
    BY <1>0, <1>3 DEF TablesTyped
  <2>2. \A t \in tokens' : <<t.user, t.slug>> \in launched'
    <3>1. PICK y : y = [user |-> u, slug |-> s]
      OBVIOUS
    <3>2. y.user = u /\ y.slug = s /\ tokens' = tokens \cup {y}
      BY <1>3, <3>1
    <3> QED
      BY <1>3, <3>2 DEF Tables
  <2>3. Tables'
    BY <1>3, <2>2 DEF Tables, Known
  <2> QED
    BY <2>1, <2>3
<1>4. ASSUME NEW r \in Request, NEW t \in tokens, Exchange(r, t) PROVE TablesTyped' /\ Tables'
  <2>0. tokens' \subseteq tokens /\ launched' = launched /\ role' = role
    BY <1>4, Exchanges
  <2>1. CASE sessions' = sessions /\ minted' = minted
    BY <1>0, <2>0, <2>1 DEF TablesTyped, Tables, Known
  <2>2. ASSUME minted' = minted + 1, t.user \in User, t.slug \in Slug, Known(t.user),
               <<t.user, t.slug>> \in launched,
               sessions' = sessions \cup {[id |-> minted + 1, user |-> t.user, slug |-> t.slug]}
        PROVE  TablesTyped' /\ Tables'
    <3>1. PICK y : y = [id |-> minted + 1, user |-> t.user, slug |-> t.slug]
      OBVIOUS
    <3>2. y.id = minted + 1 /\ y.user = t.user /\ y.slug = t.slug /\ sessions' = sessions \cup {y}
      BY <2>2, <3>1
    <3>3. minted' \in 0 .. MaxSessions
      BY <1>4, UserLeaves DEF UserStep
    <3>4. \A x \in sessions : x.id \in 1 .. minted /\ x.id # minted + 1
      BY <1>0, SessionIs
    <3>5. sessions' \subseteq [id : 1 .. minted', user : User, slug : Slug]
      <4>1. y \in [id : 1 .. minted', user : User, slug : Slug]
        BY <1>0, <2>2, <3>1
      <4>2. 1 .. minted \subseteq 1 .. minted'
        BY <1>0, <2>2
      <4>3. sessions \subseteq [id : 1 .. minted', user : User, slug : Slug]
        BY <1>0, <4>2 DEF TablesTyped
      <4> QED
        BY <3>2, <4>1, <4>3
    <3>6. TablesTyped'
      BY <1>0, <2>0, <3>3, <3>5 DEF TablesTyped
    <3>7. \A x, z \in sessions' : x.id = z.id => x = z
      BY <3>2, <3>4 DEF Tables
    <3>8. \A x \in sessions' : <<x.user, x.slug>> \in launched' /\ role'[x.user] \in {"user", "admin"}
      BY <2>0, <2>2, <3>2 DEF Tables, Known
    <3>9. \A x \in tokens' : <<x.user, x.slug>> \in launched'
      BY <2>0 DEF Tables
    <3>10. Tables'
      BY <3>7, <3>8, <3>9 DEF Tables, Known
    <3> QED
      BY <3>6, <3>10
  <2> QED
    BY <1>4, <2>1, <2>2, Exchanges
<1>5. ASSUME NEW r \in Request, CheckAccess(r) PROVE TablesTyped' /\ Tables'
  <2>1. sessions' = sessions /\ minted' = minted /\ role' = role
    BY <1>5, Launches
  <2>2. CASE tokens' = tokens /\ launched' = launched
    BY <1>2, <2>1, <2>2
  <2>3. CASE \E u \in User, s \in Slug : /\ tokens' = tokens \cup {[user |-> u, slug |-> s]}
                                         /\ launched' = launched \cup {<<u, s>>}
    BY <1>3, <2>1, <2>3
  <2> QED
    BY <1>5, <2>2, <2>3, Launches
<1>6. ASSUME UserStep, ~ \E r \in Request : CheckAccess(r) \/ \E t \in tokens : Exchange(r, t)
      PROVE  UNCHANGED <<tokens, launched, sessions, minted, role>>
  <2>1. UNCHANGED tables
    <3>1. ASSUME NEW r \in Request,
                 \/ \E host \in Slug \cup {Portal} : \E path \in Path(host) :
                      \E method \in {"GET"} \cup (IF path = "portal" THEN {"POST"} ELSE {}) :
                        Arrive(r, host, path, method)
                 \/ AuthenticateOnAppHost(r) \/ AuthenticateOnPortal(r)
                 \/ OpenForm(r) \/ FindApp(r) \/ ServeBundle(r) \/ Finish(r)
          PROVE  UNCHANGED tables
      BY <3>1 DEF Arrive, AuthenticateOnAppHost, AuthenticateOnPortal, OpenForm, FindApp,
         ServeBundle, Finish
    <3> QED
      BY <1>6, <3>1, Zenon DEF UserStep
  <2> QED
    BY <1>6, <2>1, UserLeaves DEF tables
<1>7. ASSUME UserStep PROVE TablesTyped' /\ Tables'
  BY <1>2, <1>4, <1>5, <1>6, <1>7
<1> QED
  BY <1>1, <1>7 DEF Next

LEMMA TypeStep ==
  ASSUME TypeOK, SeenType, Jobs, Apps, Tables, Requests, Next
  PROVE  TypeOK'
<1>1. /\ app' \in [Slug -> AppRow] /\ DistinctIds'
      /\ job' \in [Job -> JobState] /\ writer' \in Job \cup {None}
      /\ \A j \in Job : job'[j].pc = "flushed" <=> writer' = j
  BY AppsStep, JobsStep
<1>2. req' \in [Request -> RequestState] /\ TablesTyped' /\ changes' \in 0 .. MaxChanges
  BY RequestsStep, TablesStep, ChangesStep
<1>3. /\ role' \in [User -> {"none", "user", "admin", "gone"}]
      /\ access' \subseteq User \X Id /\ policy' \in {"all", "none"}
      /\ owed' \subseteq User \X Slug
  <2>1. CASE AdminStep
    BY <2>1, WritesTyped
  <2>2. CASE UserStep
    BY <2>2, UserLeaves DEF TypeOK
  <2> QED
    BY <2>1, <2>2 DEF Next
<1> QED
  BY <1>1, <1>2, <1>3 DEF TypeOK, AppRow, DistinctIds, TablesTyped

(***************************************************************************)
(* Default grants.                                                          *)
(***************************************************************************)
LEMMA GrantsKept ==
  ASSUME DefaultGrants, owed' \subseteq owed, access \subseteq access',
         \A o \in owed' : app'[o[2]].id = app[o[2]].id
  PROVE  DefaultGrants'
  BY DEF DefaultGrants

\* What a user's or an app's creation owes it grants, for it knows the other table.
LEMMA GrantsCreated ==
  ASSUME TypeOK, Jobs, DefaultGrants, NEW j \in Job, CommitUser(j) \/ CommitApp(j)
  PROVE  DefaultGrants'
<1>0. JobSound(job[j]) /\ job[j] \in JobState /\ DefaultGrants
  BY JobIs
<1>1. ASSUME CommitUser(j) PROVE DefaultGrants'
  <2>1. PICK u, apps : u = job[j].user /\ apps = job[j].apps
    OBVIOUS
  <2>2. apps = {<<s, app[s].id>> : s \in Installed} /\ app' = app
    BY <1>0, <1>1, <2>1 DEF CommitUser, JobSound
  <2>3. CASE policy = "all" /\ job[j].as = "user"
    <3>1. /\ access' = access \cup {<<u, p[2]>> : p \in apps}
          /\ owed' = owed \cup ({u} \X Installed)
      BY <1>1, <2>1, <2>3 DEF CommitUser
    <3>2. \A s \in Installed : <<u, app[s].id>> \in access'
      <4> TAKE s \in Installed
      <4>1. PICK p : p = <<s, app[s].id>>
        OBVIOUS
      <4>2. p \in apps /\ p[2] = app[s].id
        BY <2>2, <4>1
      <4> QED
        BY <3>1, <4>2
    <3> QED
      BY <1>0, <2>2, <3>1, <3>2 DEF DefaultGrants
  <2>4. CASE ~(policy = "all" /\ job[j].as = "user")
    <3>1. owed' = owed /\ access \subseteq access'
      BY <1>1, <2>4 DEF CommitUser
    <3> QED
      BY <1>0, <2>2, <3>1, GrantsKept
  <2> QED
    BY <2>3, <2>4
<1>2. ASSUME CommitApp(j) PROVE DefaultGrants'
  <2>1. PICK s, i, users : s = job[j].slug /\ i = job[j].id /\ users = job[j].users
    OBVIOUS
  <2>2. s \in Slug \ Installed /\ users = {u \in User : role[u] = "user"}
    BY <1>0, <1>2, <2>1 DEF CommitApp, JobSound
  <2>3. CASE UNCHANGED <<app, access, owed>>
    BY <1>0, <2>3, GrantsKept
  <2>4. ASSUME app' = [app EXCEPT ![s] = [id |-> i, enabled |-> TRUE, approved |-> TRUE]],
               access' = access \cup ((IF policy = "all" THEN users ELSE {}) \X {i}),
               owed' = IF policy = "all" THEN owed \cup (users \X {s}) ELSE owed
        PROVE  DefaultGrants'
    <3>1. app'[s].id = i /\ \A t \in Slug : t # s => app'[t] = app[t]
      BY <2>2, <2>4 DEF TypeOK
    <3>2. \A o \in owed : o[2] \in Slug /\ <<o[1], app[o[2]].id>> \in access
      BY DEF DefaultGrants, TypeOK
    <3>3. \A o \in owed : o[2] # s
      <4>1. app[s].id = 0
        BY <2>2 DEF Installed
      <4>2. \A u : <<u, 0>> \notin access
        BY IdsAre DEF TypeOK
      <4> QED
        BY <3>2, <4>1, <4>2
    <3>4. \A o \in owed : <<o[1], app'[o[2]].id>> \in access'
      BY <2>4, <3>1, <3>2, <3>3
    <3>5. CASE policy = "all"
      BY <2>4, <3>1, <3>4, <3>5 DEF DefaultGrants
    <3>6. CASE policy # "all"
      BY <2>4, <3>4, <3>6 DEF DefaultGrants
    <3> QED
      BY <3>5, <3>6
  <2> QED
    BY <1>2, <2>1, <2>2, <2>3, <2>4 DEF CommitApp
<1> QED
  BY <1>1, <1>2

\* What takes rows away ends what was owed.
LEMMA GrantsRevoked ==
  ASSUME TypeOK, DefaultGrants,
         \/ \E j \in Job : CommitSave(j) \/ ClearApp(j) \/ DeleteApp(j)
         \/ \E u \in User : DeleteUser(u)
  PROVE  DefaultGrants'
<1>0. \A o \in owed : o[2] \in Slug /\ <<o[1], app[o[2]].id>> \in access
  BY DEF DefaultGrants, TypeOK
<1>1. ASSUME NEW j \in Job, CommitSave(j) PROVE DefaultGrants'
  <2>1. app' = app
    BY <1>1 DEF CommitSave
  <2>2. CASE UNCHANGED <<access, owed>>
    BY <2>1, <2>2, GrantsKept
  <2>3. PICK u, keep, more : /\ u = job[j].user /\ keep = job[j].existing \ job[j].wanted
                             /\ more = {u} \X (job[j].wanted \ job[j].existing)
    OBVIOUS
  <2>4. CASE access' = (access \ ({u} \X keep)) \cup more /\ owed' = {o \in owed : o[1] # u}
    BY <1>0, <2>1, <2>4 DEF DefaultGrants
  <2>5. \/ UNCHANGED <<access, owed>>
        \/ access' = (access \ ({u} \X keep)) \cup more /\ owed' = {o \in owed : o[1] # u}
    BY <1>1, <2>3 DEF CommitSave
  <2> QED
    BY <2>2, <2>4, <2>5
<1>2. ASSUME NEW j \in Job, ClearApp(j) \/ DeleteApp(j) PROVE DefaultGrants'
  <2>1. PICK i : i = job[j].id
    OBVIOUS
  <2>2. owed' = {o \in owed : app[o[2]].id # i}
    BY <1>2, <2>1 DEF ClearApp, DeleteApp
  <2>3. access' = access \/ \E users : access' = access \ (users \X {i})
    BY <1>2, <2>1 DEF ClearApp, DeleteApp
  <2>4. app' = app \/ app' = [s \in Slug |-> IF app[s].id = i THEN NoApp ELSE app[s]]
    BY <1>2, <2>1 DEF ClearApp, DeleteApp
  <2>5. \A o \in owed' : app'[o[2]] = app[o[2]] /\ app[o[2]].id # i /\ o \in owed
    BY <1>0, <2>2, <2>4
  <2>6. \A o \in owed' : <<o[1], app[o[2]].id>> \in access'
    BY <1>0, <2>3, <2>5
  <2> QED
    BY <2>5, <2>6 DEF DefaultGrants
<1>3. ASSUME NEW u \in User, DeleteUser(u) PROVE DefaultGrants'
  BY <1>0, <1>3 DEF DeleteUser, DefaultGrants
<1> QED
  BY <1>1, <1>2, <1>3

LEMMA GrantsStep ==
  ASSUME TypeOK, Jobs, DefaultGrants, Next
  PROVE  DefaultGrants'
<1>1. ASSUME NEW j \in Job, JobStep(j), ~CommitUser(j), ~CommitApp(j), ~CommitSave(j), ~ClearApp(j),
             ~DeleteApp(j), ~CommitToggle(j)
      PROVE  UNCHANGED <<app, access, owed>>
  BY <1>1 DEF JobStep, FlushUser, FlushApp, ReadToggle, BeginDelete, BeginSave,
     ReadPrior, ReadExisting, RevokeLost, CloseToggled
<1>2. ASSUME UNCHANGED <<app, access, owed>> PROVE DefaultGrants'
  BY <1>2, GrantsKept
<1>3. ASSUME NEW j \in Job, CommitToggle(j) PROVE DefaultGrants'
  <2>1. access' = access /\ owed' = owed
    BY <1>3 DEF CommitToggle
  <2>2. \A o \in owed : o[2] \in Slug
    BY DEF TypeOK
  <2>3. \A s \in Slug : app'[s].id = app[s].id
    BY <1>3 DEF CommitToggle, TypeOK
  <2> QED
    BY <2>1, <2>2, <2>3, GrantsKept
<1>4. ASSUME NEW s \in Slug, SetService(s) PROVE DefaultGrants'
  <2>1. access' = access /\ owed' = owed
    BY <1>4 DEF SetService
  <2>2. \A o \in owed : o[2] \in Slug
    BY DEF TypeOK
  <2>3. \A t \in Slug : app'[t].id = app[t].id
    BY <1>4 DEF SetService, TypeOK
  <2> QED
    BY <2>1, <2>2, <2>3, GrantsKept
<1>5. (SetPolicy \/ \E u \in User, as \in {"user", "admin"} : SetRole(u, as)) => UNCHANGED <<app, access, owed>>
  BY DEF SetPolicy, SetRole
<1>6. UserStep => UNCHANGED <<app, access, owed>>
  BY UserLeaves
<1>7. ASSUME OneCommit PROVE DefaultGrants'
  BY <1>2, <1>4, <1>5, <1>7, GrantsRevoked DEF OneCommit
<1>8. ASSUME NEW j \in Job, JobStep(j) PROVE DefaultGrants'
  BY <1>1, <1>2, <1>3, <1>8, GrantsCreated, GrantsRevoked
<1> QED
  BY <1>2, <1>6, <1>7, <1>8, AdminStepIs DEF Next

-----------------------------------------------------------------------------
LEMMA InitInv == Init => IInv
<1> SUFFICES ASSUME Init PROVE IInv
  OBVIOUS
<1>1. \A s \in Slug : /\ app[s] = IF s = FirstApp
                                  THEN [id |-> 1, enabled |-> TRUE, approved |-> TRUE] ELSE NoApp
  BY DEF Init
<1>2. 1 \in Id /\ 1 \in 0 .. MaxId /\ 0 \in 0 .. MaxId
  BY IdsAre
<1>3. NoApp \in AppRow /\ [id |-> 1, enabled |-> TRUE, approved |-> TRUE] \in AppRow
  BY <1>2 DEF NoApp, AppRow
<1>4. app \in [Slug -> AppRow]
  BY <1>3 DEF Init
<1>5. Installed = {FirstApp} /\ app[FirstApp].id = 1
  BY <1>1 DEF Installed, NoApp
<1>6. /\ job = [j \in Job |-> NoJob] /\ req = [r \in Request |-> NoRequest] /\ writer = None
      /\ tokens = {} /\ sessions = {} /\ minted = 0 /\ launched = {} /\ changes = 0
      /\ access = {<<FirstUser, 1>>} /\ owed = {<<FirstUser, FirstApp>>}
      /\ role \in [User -> {"none", "user", "admin", "gone"}] /\ policy = "all"
      /\ seen = [r \in Request |-> {}]
  BY DEF Init
<1>7. TypeOK
  <2>1. /\ \A s, t \in Installed : s # t => app[s].id # app[t].id
        /\ access \subseteq User \X Id /\ policy \in {"all", "none"}
        /\ owed \subseteq User \X Slug /\ launched \subseteq User \X Slug
    BY <1>2, <1>5, <1>6
  <2>2. /\ tokens \subseteq [user : User, slug : Slug]
        /\ sessions \subseteq [id : 1 .. minted, user : User, slug : Slug]
        /\ minted \in 0 .. MaxSessions /\ changes \in 0 .. MaxChanges
        /\ writer \in Job \cup {None}
    BY <1>6
  <2>3. job \in [Job -> JobState] /\ req \in [Request -> RequestState]
    BY <1>6, NoJobTyped, NoRequestTyped
  <2>4. \A j \in Job : job[j].pc = "flushed" <=> writer = j
    BY <1>6, NoJobTyped
  <2> QED
    BY <1>4, <1>6, <2>1, <2>2, <2>3, <2>4 DEF TypeOK, AppRow
<1>8. Jobs
  BY <1>6, NoJobSound DEF Jobs
<1>9. Apps
  BY <1>1, <1>6 DEF Apps, NoApp
<1>10. Tables
  BY <1>6 DEF Tables
<1>11. SeenType
  BY <1>6 DEF SeenType
<1>12. Requests
  BY <1>6, NoRequestTyped DEF Requests, ReqRouted, ReqSeen
<1>13. DefaultGrants
  BY <1>5, <1>6 DEF DefaultGrants
<1> QED
  BY <1>7, <1>8, <1>9, <1>10, <1>11, <1>12, <1>13 DEF IInv

LEMMA NextInv == IInv /\ [Next]_vars => IInv'
<1>1. ASSUME IInv, Next PROVE IInv'
  <2>1. TypeOK /\ Jobs /\ Apps /\ Tables /\ SeenType /\ Requests /\ DefaultGrants
    BY <1>1 DEF IInv
  <2>2. TypeOK' /\ Jobs' /\ Apps' /\ Tables' /\ SeenType' /\ Requests' /\ DefaultGrants'
    BY <1>1, <2>1, TypeStep, JobsStep, AppsStep, TablesStep, RequestsStep, GrantsStep
  <2> QED
    BY <2>2 DEF IInv
<1>2. ASSUME IInv, UNCHANGED vars PROVE IInv'
  <2>1. /\ role' = role /\ app' = app /\ access' = access /\ policy' = policy /\ writer' = writer
        /\ job' = job /\ changes' = changes /\ owed' = owed /\ tokens' = tokens
        /\ sessions' = sessions /\ minted' = minted /\ launched' = launched /\ req' = req
        /\ seen' = seen
    BY <1>2 DEF vars, admin, requests, tables
  <2>2. Installed' = Installed
    BY <2>1 DEF Installed
  <2>3. TypeOK'
    BY <1>2, <2>1, <2>2 DEF IInv, TypeOK
  <2>4. Apps' /\ Tables' /\ SeenType' /\ DefaultGrants'
    BY <1>2, <2>1 DEF IInv, Apps, Tables, SeenType, DefaultGrants, Known
  <2>5. Requests'
    BY <1>2, <2>1 DEF IInv, Requests, ReqRouted, ReqSeen
  <2>6. Jobs'
    <3>1. TypeOK /\ Jobs /\ OnlyNewSessions
      BY <1>2, <2>1 DEF IInv, TypeOK, OnlyNewSessions
    <3>2. ASSUME NEW j \in Job PROVE JobSound(job[j])'
      <4>1. PICK q : q = job[j]
        OBVIOUS
      <4>2. q \in JobState /\ JobSound(q) /\ Quiet(q)
        BY <2>1, <3>1, <4>1, JobIs DEF Quiet
      <4>3. JobSound(q)' /\ job'[j] = q
        BY <2>1, <3>1, <4>1, <4>2, JobSoundKept
      <4> QED
        BY <4>3
    <3> QED
      BY <3>2 DEF Jobs
  <2> QED
    BY <2>3, <2>4, <2>5, <2>6 DEF IInv
<1> QED
  BY <1>1, <1>2

\* IInv is an invariant of who reaches which app.
THEOREM Invariance == Spec => []IInv
<1> QED
  BY InitInv, NextInv, PTL DEF Spec

\* Values are of their types; no two apps have one id; the write lock is held by
\* whoever has flushed; a session belongs to one minting.
THEOREM TypeCorrect == Spec => []TypeOK
<1>1. IInv => TypeOK
  BY DEF IInv
<1> QED
  BY Invariance, <1>1, PTL

\* Nobody reaches an app without access to it at some moment of the request
\* (user_can_access_app, _require_service and serve_subdomain_request).
THEOREM Served == Spec => []ServedHadAccess
<1>1. IInv => ServedHadAccess
  BY DEF IInv, ServedHadAccess, Requests, ReqSeen
<1> QED
  BY Invariance, <1>1, PTL

\* The portal's pages never answer on an app's host, and an app's session opens nothing
\* but the app (AppHostGateMiddleware and session_exchange).
THEOREM Confinement == Spec => []Confined
<1>1. ASSUME IInv PROVE Confined
  <2> SUFFICES ASSUME NEW r \in {r \in Request : req[r].pc = "served"}
               PROVE  IF req[r].host = Portal THEN req[r].by # "app_session"
                      ELSE /\ req[r].route \in AllowedOnAppHost \cup {"bundle"}
                           /\ req[r].slug = req[r].host
                           /\ req[r].by = "anonymous" \/ <<req[r].user, req[r].host>> \in launched
                           /\ req[r].by = "anonymous" => req[r].route \in {"form", "sdk"}
    BY DEF Confined
  <2>1. ReqRouted(req[r]) /\ req[r].pc = "served"
    BY <1>1 DEF IInv, Requests
  <2> QED
    BY <2>1 DEF ReqRouted
<1> QED
  BY Invariance, <1>1, PTL

\* Under the policy "all" every user has every app, however creations overlap
\* (grant_default_access_for_new_user and _for_new_app).
THEOREM Grants == Spec => []DefaultGrants
<1>1. IInv => DefaultGrants
  BY DEF IInv
<1> QED
  BY Invariance, <1>1, PTL

-----------------------------------------------------------------------------
\* A job that returns from its commit does so by revoking sessions.
LEMMA ReturnIs ==
  ASSUME TypeOK, Jobs, Apps, Tables, Next, NEW j \in Job, job[j].pc = "committed", job'[j].pc = "idle"
  PROVE  RevokeLost(j) \/ CloseToggled(j)
<1>0. job'[j] # job[j]
  OBVIOUS
<1>1. AdminStep /\ ~OneCommit
  BY <1>0, UserLeaves DEF Next, OneCommit, DeleteUser, SetRole, SetPolicy, SetService
<1>2. PICK k \in Job : JobStep(k)
  BY <1>1, AdminStepIs
<1>3. PICK q : JobTurn(k, q)
  BY <1>2, Turns
<1>4. k = j
  BY <1>0, <1>3 DEF JobTurn, TypeOK
<1>5. job[j] # NoJob
  BY NoJobTyped
<1>6. ~CommitUser(j) /\ ~CommitApp(j)
  BY JobIs DEF CommitUser, CommitApp, JobSound
<1> QED
  BY <1>2, <1>4, <1>5, <1>6 DEF JobStep, FlushUser, FlushApp, ReadToggle, BeginDelete, BeginSave, Accept,
     ReadPrior, ReadExisting, CommitSave, CommitToggle, ClearApp, DeleteApp

\* What a save or a toggle took away is closed when it returns (admin.py
\* revoke_app_sessions_for_user, apps.py admin_apps_toggle).
LEMMA Closed ==
  ASSUME IInv, Next, NEW j \in Job, job[j].pc = "committed", job'[j].pc = "idle",
         NEW x \in sessions', x.id \in job[j].lost
  PROVE  IF job[j].op = "toggle" THEN app'[x.slug].enabled \/ app'[x.slug].id # job[j].id
         ELSE role'[x.user] = "admin" \/ <<x.user, app'[x.slug].id>> \in access'
<1>0. TypeOK /\ Jobs /\ Apps /\ Tables /\ JobSound(job[j])
  BY JobIs DEF IInv
<1>1. CASE RevokeLost(j)
  <2>1. job[j].op = "save" /\ x \in sessions /\ ~(x.user = job[j].user /\ x.slug \in RevokedSlugs(job[j]))
    BY <1>1 DEF RevokeLost
  <2> QED
    BY <1>0, <2>1 DEF JobSound
<1>2. CASE CloseToggled(j)
  <2>1. job[j].op = "toggle" /\ app' = app /\ x \in sessions
        /\ x.slug \notin {s \in WithId(job[j].id) : ~ app[s].enabled}
    BY <1>2 DEF CloseToggled
  <2>2. x.slug \in Slug
    BY <1>0, <2>1, SessionIs
  <2> QED
    BY <2>1, <2>2 DEF WithId
<1> QED
  BY <1>0, <1>1, <1>2, ReturnIs

\* No app session that a save or a toggle of an administrator took the ground from
\* outlives it (WithdrawnClosed).
THEOREM Withdrawn == Spec => WithdrawnClosed
<1>1. IInv /\ Next => \A j \in Job : job[j].pc = "committed" /\ job'[j].pc = "idle" =>
        \A x \in {x \in sessions' : x.id \in job[j].lost} :
          IF job[j].op = "toggle" THEN app'[x.slug].enabled \/ app'[x.slug].id # job[j].id
          ELSE role'[x.user] = "admin" \/ <<x.user, app'[x.slug].id>> \in access'
  BY Closed
<1> QED
  BY Invariance, <1>1, PTL DEF WithdrawnClosed, Spec
=============================================================================
