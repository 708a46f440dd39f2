--------------------------- MODULE ShareLinksProofs ---------------------------
(***************************************************************************)
(* TypeOK, CapHolds, QuotaHeld and LiveHasFile of the share links, for any   *)
(* apps, users, tokens and requests, any caps and any quota.                 *)
(*                                                                         *)
(* The ids of rows are given out again, so a request that knows a link by its *)
(* id may find another: all that is known is that the row of its token has    *)
(* that id still or is gone for good (Sound).  A link's content has gone out, *)
(* or is about to, at most as often as it was counted (Counted); the one who  *)
(* holds the quota's lock is the one who is about to link a PDF (Locked).     *)
(***************************************************************************)
EXTENDS ShareLinks, FiniteSetTheorems, NaturalsInduction, TLAPS

\* A token is blank until its row is written, and never again.
Blank(l) == link[l] = NoRow
Blanks   == \A l \in Link : Blank(l) <=> link[l].creator = None

\* What a request in flight knows of the rows it works on.
Viewing(q) ==
  /\ q.link \in Link /\ q.id # 0
  /\ ~Blank(q.link) /\ link[q.link].id \in {0, q.id} /\ link[q.link].cap = q.cap

Inserting(q) == q.op = "mint" /\ q.pc = "inserting" /\ q.kind = "pdf"

Sound(q) ==
  /\ q.op = "mint" => q.user \in User /\ q.slug \in App
  /\ q.pc \in {"purging", "measuring"} => q.op = "mint" /\ q.kind = "pdf"
  /\ q.pc = "rendered" => q.kind = "pdf"
  /\ q.pc = "serving" => q.op = "view"
  /\ Inserting(q) => q.link \in blob /\ Blank(q.link)
  /\ q.op = "view" => Viewing(q)
  /\ q.op = "delete_link" =>
       q.id # 0 /\ \E l \in Link : q.files = {l} /\ ~Blank(l) /\ link[l].id \in {0, q.id}
  /\ q.op = "delete_app" => /\ q.pc \in {"files", "rows", "app"}
                            /\ \A l \in q.files : ~Blank(l) /\ q.pc # "files"
                            /\ q.pc = "rows" => \A l \in q.files : link[l].app = q.app
                            /\ q.pc = "app" => \A l \in q.files : link[l].id = 0
  /\ q.op \notin {"delete_link", "delete_app"} => q.files = {}

Requests == \A r \in Request : Sound(req[r])

\* The one who purges, measures and writes a PDF up to its row has the quota's lock.
HasLock(q) == q.pc \in {"purging", "measuring"} \/ Inserting(q)
Locked == \A r \in Request : HasLock(req[r]) => quotaLock = r

\* No two rows have one id, and the ids are bounded.
DistinctIds == \A l, m \in Rows : link[l].id = link[m].id => l = m
Bounded     == \E n \in Nat : /\ \A l \in Link : link[l].id <= n
                              /\ \A s \in App : app[s] <= n

\* There are finitely many rows, and finitely many requests in flight.
FinitelyMany == IsFiniteSet(Rows) /\ IsFiniteSet({r \in Request : req[r] # Idle})

\* Views that are counted and not yet served.
Serving(l) == {r \in Request : req[r].pc = "serving" /\ req[r].link = l}

Counted ==
  /\ \A l \in Link : Blank(l) => served[l] = 0
  /\ \A l \in Rows :
       LET out == served[l] + Cardinality(Serving(l)) IN
       out <= link[l].views /\ (link[l].cap > 0 => out <= link[l].cap)

IInv ==
  /\ TypeOK /\ Blanks /\ Requests /\ Locked
  /\ DistinctIds /\ Bounded /\ FinitelyMany
  /\ Counted /\ QuotaHeld /\ LiveHasFile
-----------------------------------------------------------------------------
(***************************************************************************)
(* Ids.  NextId is beyond every id of a bounded set.                        *)
(***************************************************************************)
LEMMA LeastNumber ==
  ASSUME NEW B, B \subseteq Nat, B # {}
  PROVE  \E m \in B : \A k \in B : m <= k
<1>1. PICK R : R = OpToRel(<, Nat)
  OBVIOUS
<1>2. PICK m \in B : \A k \in B : ~(<<k, m>> \in R)
  BY <1>1, NatLessThanWellFounded, WFMin
<1>3. \A k \in B : <<k, m>> \in R <=> k < m
  <2>1. R = {ss \in Nat \X Nat : ss[1] < ss[2]}
    BY <1>1, Zenon DEF OpToRel
  <2> QED
    BY <2>1
<1>4. \A k \in B : ~(k < m)
  BY <1>2, <1>3, Zenon
<1>5. \A k \in B : k \in Nat
  OBVIOUS
<1>6. \A k \in B : m <= k
  BY <1>4, <1>5
<1> QED
  BY <1>6

LEMMA NextIdIs ==
  ASSUME NEW S, NEW n \in Nat, S \subseteq 0..n
  PROVE  NextId(S) \in Nat \ {0} /\ NextId(S) <= n + 1 /\ \A x \in S : x < NextId(S)
<1>1. PICK T : T = S \cup {0}
  OBVIOUS
<1>2. T \subseteq 0..n /\ 0 \in T
  BY <1>1
<1>3. PICK B : B = {m \in Nat : \A y \in T : y <= m}
  OBVIOUS
<1>4. B \subseteq Nat /\ n \in B
  BY <1>2, <1>3
<1>5. PICK m \in B : \A k \in B : m <= k
  BY <1>4, LeastNumber
<1>6. m \in T
  <2> SUFFICES ASSUME m \notin T PROVE FALSE
    OBVIOUS
  <2>1. m \in Nat /\ \A y \in T : y \in Nat /\ y < m
    BY <1>2, <1>3, <1>5
  <2>2. m - 1 \in B
    BY <1>2, <1>3, <2>1
  <2> QED
    BY <1>5, <2>1, <2>2
<1>7. \E x \in T : \A y \in T : x >= y
  BY <1>2, <1>3, <1>5, <1>6
<1>8. PICK x : x = Max(T)
  OBVIOUS
<1>9. x \in T /\ \A y \in T : x >= y
  BY <1>7, <1>8 DEF Max
<1>10. NextId(S) = x + 1
  BY <1>1, <1>8 DEF NextId
<1>11. x \in Nat /\ x <= n
  BY <1>2, <1>9
<1>12. \A y \in S : y \in T /\ y \in Nat
  BY <1>1, <1>2
<1>13. \A y \in S : y < x + 1
  BY <1>9, <1>11, <1>12
<1> QED
  BY <1>10, <1>11, <1>13

-----------------------------------------------------------------------------
USE NoneAssumption, CapsAssumption, BoundAssumption

LEMMA NoRowTyped ==
  NoRow \in Row /\ NoRow.id = 0 /\ NoRow.creator = None /\ NoRow.views = 0 /\ NoRow.cap = 0
  BY DEF NoRow, Row

LEMMA IdleTyped ==
  /\ Idle \in RequestState
  /\ Idle.op = "none" /\ Idle.pc = "idle" /\ Idle.files = {} /\ Idle.kind = "none"
<1>1. Idle \in RequestState
  BY DEF Idle, RequestState, Ops, PCs
<1> QED
  BY <1>1 DEF Idle

LEMMA IdleSound == Sound(Idle) /\ Sound(Idle)' /\ ~HasLock(Idle)
  BY IdleTyped DEF Sound, Inserting, HasLock

(***************************************************************************)
(* What a step makes of the rows: an insertion writes one blank row, and     *)
(* every other step only lets the rows grow older.                           *)
(***************************************************************************)
Older(l) ==
  /\ Blank(l) => link'[l] = NoRow
  /\ link'[l].creator = link[l].creator /\ link'[l].app = link[l].app
  /\ link'[l].kind = link[l].kind /\ link'[l].cap = link[l].cap
  /\ link'[l].id \in {link[l].id, 0}
  /\ link[l].views <= link'[l].views
  /\ (link[l].revoked => link'[l].revoked) /\ (link[l].expired => link'[l].expired)

Aged == link' \in [Link -> Row] /\ \A l \in Link : Older(l)

\* A blank token keeps its file.
KeepsBlank == \A l \in Link : Blank(l) /\ l \in blob => l \in blob'

LEMMA RowsAre == Rows \subseteq Link /\ \A l \in Rows : ~Blank(l) /\ link[l].id # 0
  BY NoRowTyped DEF Rows, Blank

LEMMA RowWith ==
  ASSUME NEW x \in Row
  PROVE  /\ [x EXCEPT !.id = 0] \in Row /\ [x EXCEPT !.views = @ + 1] \in Row
         /\ [x EXCEPT !.revoked = TRUE] \in Row /\ [x EXCEPT !.expired = TRUE] \in Row
<1>1. [x EXCEPT !.id = 0] \in Row
  BY DEF Row
<1>2. [x EXCEPT !.views = @ + 1] \in Row
  <2>1. PICK n \in Nat : n = x.views + 1
    BY DEF Row
  <2>2. [x EXCEPT !.views = n] \in Row
    BY DEF Row
  <2> QED
    BY <2>1, <2>2
<1>3. \A b \in BOOLEAN : [x EXCEPT !.revoked = b] \in Row /\ [x EXCEPT !.expired = b] \in Row
  BY DEF Row
<1>4. TRUE \in BOOLEAN
  OBVIOUS
<1>5. [x EXCEPT !.revoked = TRUE] \in Row /\ [x EXCEPT !.expired = TRUE] \in Row
  BY <1>3, <1>4, Zenon
<1> QED
  BY <1>1, <1>2, <1>5

LEMMA OlderSame == ASSUME NEW l \in Link, link[l] \in Row, link'[l] = link[l] PROVE Older(l)
<1>1. link[l].views <= link'[l].views
  BY DEF Row
<1> QED
  BY <1>1, Zenon DEF Older, Blank

LEMMA AgedSame == ASSUME TypeOK, link' = link PROVE Aged
  BY DEF TypeOK, Aged, Older, Blank, Row

LEMMA AgedDeleted ==
  ASSUME TypeOK, NEW L, L \subseteq Rows, DeleteRows(L) PROVE Aged
<1>1. \A l \in Link : link[l] \in Row /\ [link[l] EXCEPT !.id = 0] \in Row
  BY RowWith DEF TypeOK
<1>2. link' \in [Link -> Row]
  BY <1>1 DEF DeleteRows
<1>3. ASSUME NEW l \in Link PROVE Older(l)
  <2>1. CASE l \in L
    <3>1. link'[l] = [link[l] EXCEPT !.id = 0] /\ ~Blank(l)
      BY <2>1, RowsAre DEF DeleteRows
    <3> QED
      BY <1>1, <3>1 DEF Older, Row
  <2>2. CASE l \notin L
    <3>1. link'[l] = link[l]
      BY <2>2 DEF DeleteRows
    <3> QED
      BY <1>1, <3>1, OlderSame
  <2> QED
    BY <2>1, <2>2
<1> QED
  BY <1>2, <1>3 DEF Aged

LEMMA AgedViews ==
  ASSUME TypeOK, NEW L, L \subseteq Rows,
         link' = [l \in Link |-> IF l \in L THEN [link[l] EXCEPT !.views = @ + 1] ELSE link[l]]
  PROVE  Aged
<1>1. \A l \in Link : link[l] \in Row /\ [link[l] EXCEPT !.views = @ + 1] \in Row
  BY RowWith DEF TypeOK
<1>2. link' \in [Link -> Row]
  BY <1>1
<1>3. ASSUME NEW l \in Link PROVE Older(l)
  <2>1. CASE l \in L
    <3>1. link'[l] = [link[l] EXCEPT !.views = @ + 1] /\ ~Blank(l)
      BY <2>1, RowsAre
    <3> QED
      BY <1>1, <3>1 DEF Older, Row
  <2>2. CASE l \notin L
    <3>1. link'[l] = link[l]
      BY <2>2
    <3> QED
      BY <1>1, <3>1, OlderSame
  <2> QED
    BY <2>1, <2>2
<1> QED
  BY <1>2, <1>3 DEF Aged

LEMMA AgedRevoked ==
  ASSUME TypeOK, NEW L, L \subseteq Rows,
         link' = [l \in Link |-> IF l \in L THEN [link[l] EXCEPT !.revoked = TRUE] ELSE link[l]]
  PROVE  Aged
<1>1. \A l \in Link : link[l] \in Row /\ [link[l] EXCEPT !.revoked = TRUE] \in Row
  BY RowWith DEF TypeOK
<1>2. link' \in [Link -> Row]
  BY <1>1
<1>3. ASSUME NEW l \in Link PROVE Older(l)
  <2>1. CASE l \in L
    <3>1. link'[l] = [link[l] EXCEPT !.revoked = TRUE] /\ ~Blank(l)
      BY <2>1, RowsAre
    <3> QED
      BY <1>1, <3>1 DEF Older, Row
  <2>2. CASE l \notin L
    <3>1. link'[l] = link[l]
      BY <2>2
    <3> QED
      BY <1>1, <3>1, OlderSame
  <2> QED
    BY <2>1, <2>2
<1> QED
  BY <1>2, <1>3 DEF Aged

LEMMA AgedExpired == ASSUME TypeOK, NEW x \in Link, Expire(x) PROVE Aged
<1>1. \A l \in Link : link[l] \in Row /\ [link[l] EXCEPT !.expired = TRUE] \in Row
  BY RowWith DEF TypeOK
<1>2. link' = [link EXCEPT ![x] = [link[x] EXCEPT !.expired = TRUE]] /\ ~Blank(x)
  BY RowsAre DEF Expire
<1>3. link' \in [Link -> Row]
  BY <1>1, <1>2 DEF TypeOK
<1>4. ASSUME NEW l \in Link PROVE Older(l)
  <2>1. CASE l = x
    <3>1. link'[l] = [link[l] EXCEPT !.expired = TRUE] /\ ~Blank(l)
      BY <1>2, <2>1 DEF TypeOK
    <3> QED
      BY <1>1, <3>1 DEF Older, Row
  <2>2. CASE l # x
    <3>1. link'[l] = link[l]
      BY <1>2, <2>2 DEF TypeOK
    <3> QED
      BY <1>1, <3>1, OlderSame
  <2> QED
    BY <2>1, <2>2
<1> QED
  BY <1>3, <1>4 DEF Aged

RequestStep(r) == Mint(r) \/ View(r) \/ Manage(r)

\* Every step of a request but the insertion of a row, and the steps of the others.
LEMMA Ages ==
  ASSUME TypeOK, NEW r \in Request, RequestStep(r), ~InsertLink(r)
  PROVE  Aged /\ KeepsBlank
<1>1. \A L : L \subseteq Rows => L \subseteq Rows /\ Pdfs(L) \subseteq L
  BY DEF Pdfs
<1>2. \A B : blob' = blob \ B /\ B \subseteq Rows => KeepsBlank
  BY RowsAre DEF KeepsBlank
<1>3. blob' = blob => KeepsBlank
  BY DEF KeepsBlank
<1>4. CASE PurgeRows(r)
  BY <1>3, <1>4, AgedDeleted DEF PurgeRows
<1>5. CASE RecordView(r)
  <2>1. PICK hit : hit \subseteq Rows /\
          link' = [l \in Link |-> IF l \in hit THEN [link[l] EXCEPT !.views = @ + 1] ELSE link[l]]
    BY <1>5 DEF RecordView, ById
  <2> QED
    BY <1>3, <1>5, <2>1, AgedViews DEF RecordView
<1>6. CASE CommitRevoke(r)
  <2>1. PICK hit : hit \subseteq Rows /\
          link' = [l \in Link |-> IF l \in hit THEN [link[l] EXCEPT !.revoked = TRUE] ELSE link[l]]
    BY <1>6 DEF CommitRevoke, ById
  <2> QED
    BY <1>3, <1>6, <2>1, AgedRevoked DEF CommitRevoke
<1>7. CASE CommitDelete(r)
  BY <1>3, <1>7, AgedDeleted DEF CommitDelete, ById
<1>8. CASE DeleteAppRows(r)
  BY <1>3, <1>8, AgedDeleted DEF DeleteAppRows, LinksOf
<1>9. CASE AcquireQuotaLock(r)
  <2>1. link' = link /\ \E B : blob' = blob \ B /\ B \subseteq Rows
    BY <1>9 DEF AcquireQuotaLock, Pdfs
  <2> QED
    BY <1>2, <2>1, AgedSame
<1>10. CASE BeginDelete(r)
  <2>1. link' = link /\ \E B : blob' = blob \ B /\ B \subseteq Rows
    BY <1>10 DEF BeginDelete
  <2> QED
    BY <1>2, <2>1, AgedSame
<1>11. CASE DeleteAppFiles(r)
  <2>1. link' = link /\ \E B : blob' = blob \ B /\ B \subseteq Rows
    BY <1>11 DEF DeleteAppFiles, Pdfs, LinksOf
  <2> QED
    BY <1>2, <2>1, AgedSame
<1>12. CASE MeasureAndWrite(r)
  <2>1. link' = link /\ blob \subseteq blob'
    BY <1>12 DEF MeasureAndWrite
  <2> QED
    BY <2>1, AgedSame DEF KeepsBlank
<1>13. CASE \/ BeginMint(r) \/ LookupActive(r) \/ ResolveTarget(r) \/ Serve(r)
            \/ ServeNothing(r) \/ BeginRevoke(r) \/ BeginDeleteApp(r) \/ DeleteAppRow(r)
  <2>1. link' = link /\ blob' = blob
    BY <1>13 DEF BeginMint, LookupActive, ResolveTarget, Serve, ServeNothing, BeginRevoke,
                 BeginDeleteApp, DeleteAppRow
  <2> QED
    BY <1>3, <2>1, AgedSame
<1>14. CASE BeginPurge(r)
  <2>1. link' = link /\ \E B : blob' = blob \ B /\ B \subseteq Rows
    BY <1>14 DEF BeginPurge, Pdfs
  <2> QED
    BY <1>2, <2>1, AgedSame
<1>15. CASE CommitPurge(r)
  BY <1>3, <1>15, AgedDeleted DEF CommitPurge
<1> QED
  BY <1>4, <1>5, <1>6, <1>7, <1>8, <1>9, <1>10, <1>11, <1>12, <1>13, <1>14, <1>15
  DEF RequestStep, Mint, View, Manage

\* The steps that no request takes.
World == \/ \E s \in App : InstallApp(s) \/ ToggleApp(s)
         \/ \E l \in Link : Expire(l)
         \/ \E u \in User : DeleteUser(u)

LEMMA AgesToo == ASSUME TypeOK, World \/ Restart \/ UNCHANGED vars PROVE Aged /\ KeepsBlank
<1>2. \A B : blob' = blob \ B /\ B \subseteq Rows => KeepsBlank
  BY RowsAre DEF KeepsBlank
<1>3. blob' = blob => KeepsBlank
  BY DEF KeepsBlank
<1>4. ASSUME NEW l \in Link, Expire(l) PROVE Aged /\ KeepsBlank
  BY <1>3, <1>4, AgedExpired DEF Expire
<1>5. ASSUME NEW u \in User, DeleteUser(u) PROVE Aged /\ KeepsBlank
  <2>1. PICK L : L \subseteq Rows /\ DeleteRows(L) /\ blob' = blob \ Pdfs(L)
    BY <1>5 DEF DeleteUser
  <2> QED
    BY <1>2, <2>1, AgedDeleted DEF Pdfs
<1>6. CASE Restart
  <2>1. PICK L : L \subseteq Rows /\ DeleteRows(L) /\ blob' = blob \ Pdfs(L)
    BY <1>6 DEF Restart
  <2> QED
    BY <1>2, <2>1, AgedDeleted DEF Pdfs
<1>7. CASE UNCHANGED vars \/ \E s \in App : InstallApp(s) \/ ToggleApp(s)
  <2>1. link' = link /\ blob' = blob
    BY <1>7 DEF vars, InstallApp, ToggleApp
  <2> QED
    BY <1>3, <2>1, AgedSame
<1> QED
  BY <1>4, <1>5, <1>6, <1>7 DEF World

\* The insertion of a row.
Inserted(r, l) ==
  /\ l \in Link /\ Blank(l)
  /\ IF req[r].kind = "pdf" THEN l = req[r].link ELSE l \notin blob
  /\ link' = [link EXCEPT ![l] = link'[l]] /\ link'[l] \in Row
  /\ link'[l].id = NextLinkId /\ link'[l].app = req[r].app
  /\ link'[l].creator = req[r].user /\ link'[l].kind = req[r].kind
  /\ link'[l].cap = req[r].cap /\ link'[l].views = 0
  /\ blob' = blob /\ req' = [req EXCEPT ![r] = Idle] /\ served' = served

LEMMA Inserts ==
  ASSUME TypeOK, Requests, Bounded, NEW r \in Request, InsertLink(r)
  PROVE  /\ \E l \in Link : Inserted(r, l)
         /\ NextLinkId \in Nat \ {0} /\ \A l \in Rows : link[l].id < NextLinkId
         /\ \A n \in Nat : (\A l \in Link : link[l].id <= n) => NextLinkId <= n + 1
<1>1. NextLinkId \in Nat \ {0} /\ \A l \in Rows : link[l].id < NextLinkId
  <2>1. PICK n \in Nat : \A l \in Link : link[l].id <= n
    BY DEF Bounded
  <2>2. PICK S : S = {link[l].id : l \in Rows}
    OBVIOUS
  <2>3. S \subseteq 0..n
    BY <2>1, <2>2, RowsAre DEF TypeOK, Row
  <2> QED
    BY <2>2, <2>3, NextIdIs DEF NextLinkId
<1>0. ASSUME NEW n \in Nat, \A l \in Link : link[l].id <= n PROVE NextLinkId <= n + 1
  <2>1. PICK S : S = {link[l].id : l \in Rows}
    OBVIOUS
  <2>2. S \subseteq 0..n
    BY <1>0, <2>1, RowsAre DEF TypeOK, Row
  <2> QED
    BY <2>1, <2>2, NextIdIs DEF NextLinkId
<1>2. PICK l \in IF req[r].kind = "pdf" THEN {req[r].link} ELSE Link \ blob :
        /\ link[l] = NoRow
        /\ link' = [link EXCEPT ![l] =
             [NoRow EXCEPT !.id = NextLinkId, !.app = req[r].app, !.slug = req[r].slug,
                           !.creator = req[r].user, !.kind = req[r].kind, !.cap = req[r].cap]]
  BY DEF InsertLink
<1>3. l \in Link
  <2>1. CASE req[r].kind = "pdf"
    <3>1. req[r].link \in blob
      BY <2>1 DEF Requests, Sound, Inserting, InsertLink, At
    <3> QED
      BY <1>2, <2>1, <3>1 DEF TypeOK
  <2> QED
    BY <1>2, <2>1
<1>4. req[r] \in RequestState
  BY DEF TypeOK
<1>5. PICK new : new = [NoRow EXCEPT !.id = NextLinkId, !.app = req[r].app, !.slug = req[r].slug,
                           !.creator = req[r].user, !.kind = req[r].kind, !.cap = req[r].cap]
  OBVIOUS
<1>6. /\ new \in Row /\ new.id = NextLinkId /\ new.app = req[r].app /\ new.creator = req[r].user
      /\ new.kind = req[r].kind /\ new.cap = req[r].cap /\ new.views = 0
  BY <1>1, <1>4, <1>5, NoRowTyped DEF Row, RequestState
<1>7. link' = [link EXCEPT ![l] = new] /\ link'[l] = new
  BY <1>2, <1>3, <1>5 DEF TypeOK
<1> QED
  BY <1>0, <1>1, <1>2, <1>3, <1>6, <1>7 DEF Inserted, InsertLink, Finish, Blank

-----------------------------------------------------------------------------
(***************************************************************************)
(* What a request knows stays true while the rows it knows grow older.      *)
(***************************************************************************)
Kept(q) ==
  \A l \in Link : /\ ~Blank(l) => Older(l)
                  /\ Inserting(q) /\ l = q.link => link'[l] = link[l] /\ l \in blob'

LEMMA StaysWritten ==
  ASSUME Blanks, NEW l \in Link, ~Blank(l), Older(l) PROVE link'[l] # NoRow
  BY NoRowTyped DEF Blanks, Older

LEMMA SoundKept ==
  ASSUME TypeOK, Blanks, NEW q \in RequestState, Sound(q), Kept(q) PROVE Sound(q)'
<1>1. \A l \in Link : ~Blank(l) => /\ ~Blank(l)' /\ link'[l].id \in {link[l].id, 0}
                                   /\ link'[l].app = link[l].app /\ link'[l].cap = link[l].cap
  BY StaysWritten DEF Kept, Older, Blank
<1>2. q.files \subseteq Link /\ (q.link \in blob => q.link \in Link)
  BY DEF RequestState, TypeOK
<1>3. Inserting(q) => q.link \in blob' /\ Blank(q.link)'
  BY <1>2 DEF Kept, Sound, Blank
<1>4. Viewing(q) => Viewing(q)'
  BY <1>1 DEF Viewing
<1>5. q.op = "delete_link" =>
        q.id # 0 /\ \E l \in Link : q.files = {l} /\ ~Blank(l)' /\ link'[l].id \in {0, q.id}
  BY <1>1 DEF Sound
<1>6. q.op = "delete_app" => /\ q.pc \in {"files", "rows", "app"}
                             /\ \A l \in q.files : ~Blank(l)' /\ q.pc # "files"
                             /\ q.pc = "rows" => \A l \in q.files : link'[l].app = q.app
                             /\ q.pc = "app" => \A l \in q.files : link'[l].id = 0
  BY <1>1, <1>2 DEF Sound
<1> QED
  BY <1>3, <1>4, <1>5, <1>6 DEF Sound, Inserting

\* A step that only ages the rows and keeps the files of blank tokens.
LEMMA KeptByAge == ASSUME TypeOK, Aged, KeepsBlank, NEW q, Sound(q) PROVE Kept(q)
<1> SUFFICES ASSUME NEW l \in Link
             PROVE  /\ ~Blank(l) => Older(l)
                    /\ Inserting(q) /\ l = q.link => link'[l] = link[l] /\ l \in blob'
  BY DEF Kept
<1>1. Older(l)
  BY DEF Aged
<1>2. Inserting(q) /\ l = q.link => l \in blob /\ Blank(l)
  BY DEF Sound
<1> QED
  BY <1>1, <1>2 DEF Older, KeepsBlank, Blank

\* The insertion leaves alone the token of every other PDF that waits for its row: two
\* PDFs wait for one lock, and a stored object gets a token without a file.
LEMMA KeptByInsertion ==
  ASSUME TypeOK, Requests, Locked, NEW r \in Request, At(r, "mint", "inserting"),
         NEW l \in Link, Inserted(r, l), NEW s \in Request, s # r
  PROVE  Kept(req[s])
<1> SUFFICES ASSUME NEW m \in Link
             PROVE  /\ ~Blank(m) => Older(m)
                    /\ Inserting(req[s]) /\ m = req[s].link => link'[m] = link[m] /\ m \in blob'
  BY DEF Kept
<1>1. m # l => link'[m] = link[m]
  BY DEF Inserted, TypeOK
<1>2. link[m] \in Row
  BY DEF TypeOK
<1>3. ~Blank(m) => Older(m)
  BY <1>1, <1>2, OlderSame DEF Inserted
<1>4. ASSUME Inserting(req[s]), m = req[s].link PROVE m # l /\ m \in blob'
  <2>1. m \in blob /\ blob' = blob
    BY <1>4 DEF Requests, Sound, Inserted
  <2>2. quotaLock = s
    BY <1>4 DEF Locked, HasLock
  <2>3. req[r].kind # "pdf"
    BY <2>2 DEF Locked, HasLock, Inserting, At
  <2> QED
    BY <2>1, <2>3 DEF Inserted
<1> QED
  BY <1>1, <1>3, <1>4

-----------------------------------------------------------------------------
(***************************************************************************)
(* The turns of a request: it becomes q.                                    *)
(***************************************************************************)
Locking(r, q) ==
  \/ quotaLock = None /\ quotaLock' = r
  \/ quotaLock' = quotaLock /\ (HasLock(q) => HasLock(req[r]))
  \/ quotaLock' = None /\ quotaLock = r /\ ~HasLock(q)

Turn(r, q) ==
  /\ q \in RequestState /\ Sound(q)'
  /\ req' = [req EXCEPT ![r] = q] /\ Locking(r, q)

LEMMA TurnIdle ==
  ASSUME NEW r \in Request, req' = [req EXCEPT ![r] = Idle],
         quotaLock' = quotaLock \/ (quotaLock' = None /\ quotaLock = r)
  PROVE  Turn(r, Idle)
  BY IdleTyped, IdleSound DEF Turn, Locking

LEMMA MintTurns ==
  ASSUME TypeOK, Blanks, Requests, Locked, Bounded, NEW r \in Request, Mint(r)
  PROVE  \E q : Turn(r, q)
<1>1. req[r] \in RequestState /\ Sound(req[r]) /\ (HasLock(req[r]) => quotaLock = r)
  BY DEF TypeOK, Requests, Locked
<1>2. CASE BeginMint(r)
  <2>1. PICK u \in account, s \in enabled, kind \in {"storage", "pdf"}, c \in Caps :
          req' = [req EXCEPT ![r] =
            [Idle EXCEPT !.op = "mint", !.pc = IF kind = "pdf" THEN "rendered" ELSE "inserting",
                         !.slug = s, !.app = app[s], !.user = u, !.kind = kind, !.cap = c]]
    BY <1>2 DEF BeginMint, Accept
  <2>2. u \in User /\ s \in App /\ app[s] \in Nat
    BY DEF TypeOK
  <2>3. PICK q : q =
            [Idle EXCEPT !.op = "mint", !.pc = IF kind = "pdf" THEN "rendered" ELSE "inserting",
                         !.slug = s, !.app = app[s], !.user = u, !.kind = kind, !.cap = c]
    OBVIOUS
  <2>4. q \in RequestState
    BY <2>2, <2>3, IdleTyped DEF RequestState, Ops, PCs
  <2>5. /\ q.op = "mint" /\ q.pc = IF kind = "pdf" THEN "rendered" ELSE "inserting"
        /\ q.kind = kind /\ q.user = u /\ q.slug = s /\ q.files = {}
    BY <2>3, IdleTyped DEF RequestState
  <2>6. Sound(q)' /\ ~HasLock(q)
    BY <2>2, <2>5 DEF Sound, Inserting, HasLock
  <2>7. Locking(r, q)
    BY <1>2, <2>6 DEF Locking, BeginMint
  <2> QED
    BY <2>1, <2>3, <2>4, <2>6, <2>7 DEF Turn
<1>3. CASE AcquireQuotaLock(r)
  <2>1. PICK dead : /\ dead \subseteq Rows
                    /\ req' = [req EXCEPT ![r].pc = IF dead = {} THEN "measuring" ELSE "purging",
                                          ![r].ids = {link[l].id : l \in dead}]
    BY <1>3 DEF AcquireQuotaLock
  <2>2. PICK ids : ids = {link[l].id : l \in dead}
    OBVIOUS
  <2>3. ids \in SUBSET Nat
    BY <2>1, <2>2, RowsAre DEF TypeOK, Row
  <2>4. PICK pc : pc = IF dead = {} THEN "measuring" ELSE "purging"
    OBVIOUS
  <2>5. PICK q : q = [req[r] EXCEPT !.pc = pc, !.ids = ids]
    OBVIOUS
  <2>6. req' = [req EXCEPT ![r] = q]
    BY <2>1, <2>2, <2>4, <2>5 DEF TypeOK
  <2>7. q \in RequestState
    BY <1>1, <2>3, <2>4, <2>5 DEF RequestState, PCs
  <2>8. /\ q.op = req[r].op /\ q.pc \in {"measuring", "purging"} /\ q.kind = req[r].kind
        /\ q.user = req[r].user /\ q.slug = req[r].slug /\ q.files = req[r].files
    BY <1>1, <2>4, <2>5 DEF RequestState
  <2>9. Sound(q)'
    BY <1>1, <1>3, <2>8 DEF Sound, Inserting, AcquireQuotaLock, At
  <2>10. Locking(r, q)
    BY <1>3 DEF Locking, AcquireQuotaLock
  <2> QED
    BY <2>6, <2>7, <2>9, <2>10 DEF Turn
<1>4. CASE PurgeRows(r)
  <2>1. PICK q : q = [req[r] EXCEPT !.pc = "measuring", !.ids = {}]
    OBVIOUS
  <2>2. req' = [req EXCEPT ![r] = q]
    BY <1>4, <2>1 DEF PurgeRows, TypeOK
  <2>3. q \in RequestState
    BY <1>1, <2>1 DEF RequestState, PCs
  <2>4. /\ q.op = req[r].op /\ q.pc = "measuring" /\ q.kind = req[r].kind
        /\ q.user = req[r].user /\ q.slug = req[r].slug /\ q.files = req[r].files
    BY <1>1, <2>1 DEF RequestState
  <2>5. Sound(q)'
    BY <1>1, <1>4, <2>4 DEF Sound, Inserting, PurgeRows, At
  <2>6. Locking(r, q)
    BY <1>4 DEF Locking, PurgeRows, At, HasLock
  <2> QED
    BY <2>2, <2>3, <2>5, <2>6 DEF Turn
<1>5. CASE MeasureAndWrite(r)
  <2>0. quotaLock = r
    BY <1>1, <1>5 DEF MeasureAndWrite, At, HasLock
  <2>1. CASE req' = [req EXCEPT ![r] = Idle] /\ quotaLock' = None
    BY <2>0, <2>1, TurnIdle
  <2>2. ASSUME NEW l \in Link, link[l] = NoRow, blob' = blob \cup {l}, quotaLock' = quotaLock,
               req' = [req EXCEPT ![r].pc = "inserting", ![r].link = l]
        PROVE  \E q : Turn(r, q)
    <3>1. PICK q : q = [req[r] EXCEPT !.pc = "inserting", !.link = l]
      OBVIOUS
    <3>2. req' = [req EXCEPT ![r] = q]
      BY <2>2, <3>1 DEF TypeOK
    <3>3. q \in RequestState
      BY <1>1, <3>1 DEF RequestState, PCs
    <3>4. /\ q.op = req[r].op /\ q.pc = "inserting" /\ q.kind = req[r].kind /\ q.link = l
          /\ q.user = req[r].user /\ q.slug = req[r].slug /\ q.files = req[r].files
      BY <1>1, <3>1 DEF RequestState
    <3>5. Blank(l)' /\ l \in blob'
      BY <1>5, <2>2 DEF Blank, MeasureAndWrite
    <3>6. Sound(q)'
      BY <1>1, <1>5, <3>4, <3>5 DEF Sound, Inserting, MeasureAndWrite, At
    <3>7. Locking(r, q)
      BY <1>5, <2>2 DEF Locking, MeasureAndWrite, At, HasLock
    <3> QED
      BY <3>2, <3>3, <3>6, <3>7 DEF Turn
  <2>3. \/ req' = [req EXCEPT ![r] = Idle] /\ quotaLock' = None
        \/ \E l \in Link : /\ link[l] = NoRow /\ blob' = blob \cup {l} /\ quotaLock' = quotaLock
                           /\ req' = [req EXCEPT ![r].pc = "inserting", ![r].link = l]
    BY <1>5 DEF MeasureAndWrite, Finish
  <2> QED
    BY <2>1, <2>2, <2>3
<1>6. CASE InsertLink(r)
  BY <1>6, TurnIdle DEF InsertLink, Finish
<1> QED
  BY <1>2, <1>3, <1>4, <1>5, <1>6 DEF Mint

LEMMA ViewTurns ==
  ASSUME TypeOK, Blanks, Requests, Locked, NEW r \in Request, View(r)
  PROVE  \E q : Turn(r, q)
<1>1. req[r] \in RequestState /\ Sound(req[r])
  BY DEF TypeOK, Requests
<1>2. CASE LookupActive(r)
  <2>1. PICK l \in Rows :
          req' = [req EXCEPT ![r] =
            [Idle EXCEPT !.op = "view", !.pc = "found", !.link = l,
                         !.id = link[l].id, !.app = link[l].app, !.cap = link[l].cap]]
    BY <1>2 DEF LookupActive, Accept
  <2>2. l \in Link /\ link[l] \in Row /\ link[l].id # 0 /\ ~Blank(l)
    BY RowsAre DEF TypeOK
  <2>3. PICK q : q = [Idle EXCEPT !.op = "view", !.pc = "found", !.link = l,
                         !.id = link[l].id, !.app = link[l].app, !.cap = link[l].cap]
    OBVIOUS
  <2>4. q \in RequestState
    BY <2>2, <2>3, IdleTyped DEF RequestState, Ops, PCs, Row
  <2>5. /\ q.op = "view" /\ q.pc = "found" /\ q.link = l /\ q.id = link[l].id
        /\ q.cap = link[l].cap /\ q.files = {}
    BY <2>3, IdleTyped DEF RequestState
  <2>6. Viewing(q)'
    BY <1>2, <2>2, <2>5 DEF Viewing, Blank, LookupActive
  <2>7. Sound(q)' /\ ~HasLock(q)
    BY <2>5, <2>6 DEF Sound, Inserting, HasLock
  <2>8. Locking(r, q)
    BY <1>2, <2>7 DEF Locking, LookupActive
  <2> QED
    BY <2>1, <2>3, <2>4, <2>7, <2>8 DEF Turn
<1>3. CASE ResolveTarget(r)
  <2>1. CASE req' = [req EXCEPT ![r] = Idle]
    BY <1>3, <2>1, TurnIdle DEF ResolveTarget
  <2>2. ASSUME NEW s \in enabled, req' = [req EXCEPT ![r].pc = "resolved", ![r].slug = s]
        PROVE  \E q : Turn(r, q)
    <3>1. PICK q : q = [req[r] EXCEPT !.pc = "resolved", !.slug = s]
      OBVIOUS
    <3>2. req' = [req EXCEPT ![r] = q]
      BY <2>2, <3>1 DEF TypeOK
    <3>3. s \in App
      BY DEF TypeOK
    <3>4. q \in RequestState
      BY <1>1, <3>1, <3>3 DEF RequestState, PCs
    <3>5. /\ q.op = req[r].op /\ q.pc = "resolved" /\ q.link = req[r].link /\ q.id = req[r].id
          /\ q.cap = req[r].cap /\ q.files = req[r].files
      BY <1>1, <3>1 DEF RequestState
    <3>6. Viewing(req[r]) /\ req[r].files = {} /\ req[r].op = "view"
      BY <1>1, <1>3 DEF Sound, ResolveTarget, At
    <3>7. Viewing(q)'
      BY <1>3, <3>5, <3>6 DEF Viewing, Blank, ResolveTarget
    <3>8. Sound(q)' /\ ~HasLock(q)
      BY <3>5, <3>6, <3>7 DEF Sound, Inserting, HasLock
    <3>9. Locking(r, q)
      BY <1>3, <3>8 DEF Locking, ResolveTarget
    <3> QED
      BY <3>2, <3>4, <3>8, <3>9 DEF Turn
  <2> QED
    BY <1>3, <2>1, <2>2 DEF ResolveTarget, Finish
<1>4. CASE RecordView(r)
  <2>1. CASE req' = [req EXCEPT ![r] = Idle]
    BY <1>4, <2>1, TurnIdle DEF RecordView
  <2>2. CASE req' = [req EXCEPT ![r].pc = "serving"]
    <3>1. PICK q : q = [req[r] EXCEPT !.pc = "serving"]
      OBVIOUS
    <3>2. req' = [req EXCEPT ![r] = q]
      BY <2>2, <3>1 DEF TypeOK
    <3>3. q \in RequestState
      BY <1>1, <3>1 DEF RequestState, PCs
    <3>4. /\ q.op = req[r].op /\ q.pc = "serving" /\ q.link = req[r].link /\ q.id = req[r].id
          /\ q.cap = req[r].cap /\ q.files = req[r].files
      BY <1>1, <3>1 DEF RequestState
    <3>5. Viewing(req[r]) /\ req[r].files = {} /\ req[r].op = "view" /\ req[r].pc = "resolved"
      BY <1>1, <1>4 DEF Sound, RecordView, At
    <3>6. RequestStep(r) /\ ~InsertLink(r)
      BY <1>4 DEF RequestStep, View, InsertLink, RecordView, At
    <3>7. Kept(req[r])
      BY <1>1, <3>6, Ages, KeptByAge
    <3>8. Viewing(req[r])'
      <4>1. \A l \in Link : ~Blank(l) => /\ ~Blank(l)' /\ link'[l].id \in {link[l].id, 0}
                                         /\ link'[l].cap = link[l].cap
        BY <3>7, StaysWritten DEF Kept, Older, Blank
      <4>2. PICK p : p = req[r]
        OBVIOUS
      <4>3. p.link \in Link /\ p.id # 0 /\ ~Blank(p.link) /\ link[p.link].id \in {0, p.id}
            /\ link[p.link].cap = p.cap
        BY <3>5, <4>2 DEF Viewing
      <4>4. req'[r].link = p.link /\ req'[r].id = p.id /\ req'[r].cap = p.cap
        BY <3>2, <3>4, <4>2 DEF TypeOK
      <4>5. ~Blank(p.link)' /\ link'[p.link].id \in {0, p.id} /\ link'[p.link].cap = p.cap
        BY <4>1, <4>3
      <4> QED
        BY <4>3, <4>4, <4>5 DEF Viewing, Blank
    <3>9. Viewing(q)'
      <4>1. req'[r] = q
        BY <3>2 DEF TypeOK
      <4> QED
        BY <3>8, <4>1 DEF Viewing, Blank
    <3>10. Sound(q)' /\ ~HasLock(q)
      BY <3>4, <3>5, <3>9 DEF Sound, Inserting, HasLock
    <3>11. Locking(r, q)
      BY <1>4, <3>10 DEF Locking, RecordView
    <3> QED
      BY <3>2, <3>3, <3>10, <3>11 DEF Turn
  <2> QED
    BY <1>4, <2>1, <2>2 DEF RecordView, Finish, Goto
<1>5. CASE Serve(r) \/ ServeNothing(r)
  BY <1>5, TurnIdle DEF Serve, ServeNothing, Finish
<1> QED
  BY <1>2, <1>3, <1>4, <1>5 DEF View

LEMMA ManageTurns ==
  ASSUME TypeOK, Blanks, Requests, Locked, NEW r \in Request, Manage(r)
  PROVE  \E q : Turn(r, q)
<1>1. req[r] \in RequestState /\ Sound(req[r])
  BY DEF TypeOK, Requests
<1>2. CASE BeginRevoke(r)
  <2>1. PICK l \in Rows :
          req' = [req EXCEPT ![r] =
            [Idle EXCEPT !.op = "revoke", !.pc = "writing", !.id = link[l].id]]
    BY <1>2 DEF BeginRevoke, Accept
  <2>2. link[l].id \in Nat
    BY RowsAre DEF TypeOK, Row
  <2>3. PICK q : q = [Idle EXCEPT !.op = "revoke", !.pc = "writing", !.id = link[l].id]
    OBVIOUS
  <2>4. q \in RequestState
    BY <2>2, <2>3, IdleTyped DEF RequestState, Ops, PCs
  <2>5. q.op = "revoke" /\ q.pc = "writing" /\ q.files = {}
    BY <2>3, IdleTyped DEF RequestState
  <2>6. Sound(q)' /\ ~HasLock(q)
    BY <2>5 DEF Sound, Inserting, HasLock
  <2>7. Locking(r, q)
    BY <1>2, <2>6 DEF Locking, BeginRevoke
  <2> QED
    BY <2>1, <2>3, <2>4, <2>6, <2>7 DEF Turn
<1>3. CASE BeginDelete(r)
  <2>1. PICK l \in Rows :
          req' = [req EXCEPT ![r] =
            [Idle EXCEPT !.op = "delete_link", !.pc = "writing", !.id = link[l].id, !.files = {l}]]
    BY <1>3 DEF BeginDelete, Accept
  <2>2. l \in Link /\ link[l].id \in Nat /\ link[l].id # 0 /\ ~Blank(l)
    BY RowsAre DEF TypeOK, Row
  <2>3. PICK q :
          q = [Idle EXCEPT !.op = "delete_link", !.pc = "writing", !.id = link[l].id, !.files = {l}]
    OBVIOUS
  <2>4. q \in RequestState
    BY <2>2, <2>3, IdleTyped DEF RequestState, Ops, PCs
  <2>5. q.op = "delete_link" /\ q.pc = "writing" /\ q.files = {l} /\ q.id = link[l].id
    BY <2>3, IdleTyped DEF RequestState
  <2>6. ~HasLock(q)
    BY <2>5 DEF Inserting, HasLock
  <2>7. ~Blank(l)' /\ link'[l].id \in {0, q.id} /\ q.id # 0
    BY <1>3, <2>2, <2>5 DEF BeginDelete, Blank
  <2>8. Sound(q)'
    BY <2>2, <2>5, <2>7 DEF Sound, Inserting
  <2>9. Locking(r, q)
    BY <1>3, <2>6 DEF Locking, BeginDelete
  <2> QED
    BY <2>1, <2>3, <2>4, <2>8, <2>9 DEF Turn
<1>4. CASE BeginDeleteApp(r)
  <2>1. PICK s \in App :
          req' = [req EXCEPT ![r] =
            [Idle EXCEPT !.op = "delete_app", !.pc = "files", !.slug = s, !.app = app[s]]]
    BY <1>4 DEF BeginDeleteApp, Accept
  <2>2. app[s] \in Nat
    BY DEF TypeOK
  <2>3. PICK q : q = [Idle EXCEPT !.op = "delete_app", !.pc = "files", !.slug = s, !.app = app[s]]
    OBVIOUS
  <2>4. q \in RequestState
    BY <2>2, <2>3, IdleTyped DEF RequestState, Ops, PCs
  <2>5. q.op = "delete_app" /\ q.pc = "files" /\ q.files = {}
    BY <2>3, IdleTyped DEF RequestState
  <2>6. Sound(q)' /\ ~HasLock(q)
    BY <2>5 DEF Sound, Inserting, HasLock
  <2>7. Locking(r, q)
    BY <1>4, <2>6 DEF Locking, BeginDeleteApp
  <2> QED
    BY <2>1, <2>3, <2>4, <2>6, <2>7 DEF Turn
<1>5. CASE DeleteAppFiles(r)
  <2>1. PICK F : F = Pdfs(LinksOf(req[r].app))
    OBVIOUS
  <2>2. F \subseteq Link /\ \A l \in F : ~Blank(l) /\ link[l].app = req[r].app
    BY <2>1, RowsAre DEF Pdfs, LinksOf
  <2>3. PICK q : q = [req[r] EXCEPT !.pc = "rows", !.files = F]
    OBVIOUS
  <2>4. req' = [req EXCEPT ![r] = q]
    BY <1>5, <2>1, <2>3 DEF DeleteAppFiles, TypeOK
  <2>5. q \in RequestState
    BY <1>1, <2>2, <2>3 DEF RequestState, PCs
  <2>6. q.op = req[r].op /\ q.pc = "rows" /\ q.files = F /\ q.app = req[r].app
    BY <1>1, <2>3 DEF RequestState
  <2>7. \A l \in F : ~Blank(l)' /\ link'[l].app = q.app
    BY <1>5, <2>2, <2>6 DEF Blank, DeleteAppFiles
  <2>8. Sound(q)' /\ ~HasLock(q)
    BY <1>5, <2>6, <2>7 DEF Sound, Inserting, HasLock, DeleteAppFiles, At
  <2>9. Locking(r, q)
    BY <1>5, <2>8 DEF Locking, DeleteAppFiles
  <2> QED
    BY <2>4, <2>5, <2>8, <2>9 DEF Turn
<1>6. CASE DeleteAppRows(r)
  <2>1. CASE req' = [req EXCEPT ![r] = Idle]
    BY <1>6, <2>1, TurnIdle DEF DeleteAppRows
  <2>2. CASE req' = [req EXCEPT ![r].pc = "app"]
    <3>1. PICK q : q = [req[r] EXCEPT !.pc = "app"]
      OBVIOUS
    <3>2. req' = [req EXCEPT ![r] = q]
      BY <2>2, <3>1 DEF TypeOK
    <3>3. q \in RequestState
      BY <1>1, <3>1 DEF RequestState, PCs
    <3>4. q.op = req[r].op /\ q.pc = "app" /\ q.files = req[r].files /\ q.app = req[r].app
      BY <1>1, <3>1 DEF RequestState
    <3>5. RequestStep(r) /\ ~InsertLink(r)
      BY <1>6 DEF RequestStep, Manage, InsertLink, DeleteAppRows, At
    <3>6. Kept(req[r])
      BY <1>1, <3>5, Ages, KeptByAge
    <3>7. \A l \in q.files : l \in Link /\ ~Blank(l) /\ link[l].app = req[r].app
      BY <1>1, <1>6, <3>3, <3>4 DEF Sound, DeleteAppRows, At, RequestState
    <3>8. \A l \in q.files : ~Blank(l)'
      BY <3>6, <3>7, StaysWritten DEF Kept, Blank
    <3>9. \A l \in q.files : link'[l].id = 0
      <4>1. DeleteRows(LinksOf(req[r].app))
        BY <1>6 DEF DeleteAppRows
      <4>2. ASSUME NEW l \in q.files, link[l].id = 0 PROVE link'[l].id = 0
        <5>1. link'[l] = link[l]
          BY <3>7, <4>1, <4>2 DEF DeleteRows, LinksOf, Rows
        <5> QED
          BY <4>2, <5>1
      <4>3. ASSUME NEW l \in q.files, link[l].id # 0 PROVE link'[l].id = 0
        <5>1. link'[l] = [link[l] EXCEPT !.id = 0] /\ link[l] \in Row
          BY <3>7, <4>1, <4>3 DEF DeleteRows, LinksOf, Rows, TypeOK
        <5> QED
          BY <5>1 DEF Row
      <4> QED
        BY <4>2, <4>3
    <3>10. Sound(q)' /\ ~HasLock(q)
      BY <1>6, <3>4, <3>8, <3>9 DEF Sound, Inserting, HasLock, DeleteAppRows, At
    <3>11. Locking(r, q)
      BY <1>6, <3>10 DEF Locking, DeleteAppRows
    <3> QED
      BY <3>2, <3>3, <3>10, <3>11 DEF Turn
  <2> QED
    BY <1>6, <2>1, <2>2 DEF DeleteAppRows, Finish, Goto
<1>7. CASE CommitRevoke(r) \/ CommitDelete(r) \/ DeleteAppRow(r) \/ CommitPurge(r)
  BY <1>7, TurnIdle DEF CommitRevoke, CommitDelete, DeleteAppRow, CommitPurge, Finish
<1>8. CASE BeginPurge(r)
  <2>1. PICK I : /\ I = {link[l].id : l \in {m \in Rows : Dead(m)}}
                 /\ req' = [req EXCEPT ![r] =
                      [Idle EXCEPT !.op = "purge", !.pc = "sweeping", !.ids = I]]
    BY <1>8 DEF BeginPurge, Accept
  <2>2. I \subseteq Nat
    BY <2>1, RowsAre DEF TypeOK, Row
  <2>3. PICK q : q = [Idle EXCEPT !.op = "purge", !.pc = "sweeping", !.ids = I]
    OBVIOUS
  <2>4. q \in RequestState
    BY <2>2, <2>3, IdleTyped DEF RequestState, Ops, PCs
  <2>5. q.op = "purge" /\ q.pc = "sweeping" /\ q.files = {}
    BY <2>3, IdleTyped DEF RequestState
  <2>6. Sound(q)' /\ ~HasLock(q)
    BY <2>5 DEF Sound, Inserting, HasLock
  <2>7. Locking(r, q)
    BY <1>8, <2>6 DEF Locking, BeginPurge
  <2> QED
    BY <2>1, <2>3, <2>4, <2>6, <2>7 DEF Turn
<1> QED
  BY <1>2, <1>3, <1>4, <1>5, <1>6, <1>7, <1>8 DEF Manage

LEMMA Turns ==
  ASSUME TypeOK, Blanks, Requests, Locked, Bounded, NEW r \in Request, RequestStep(r)
  PROVE  \E q : Turn(r, q)
  BY MintTurns, ViewTurns, ManageTurns DEF RequestStep

\* Only counting a view leaves a request about to serve, and only writing a PDF leaves one
\* that waits to insert its row.
LEMMA After ==
  ASSUME TypeOK, NEW r \in Request, RequestStep(r)
  PROVE  /\ ~RecordView(r) => req'[r].pc # "serving"
         /\ ~MeasureAndWrite(r) => ~Inserting(req'[r])
<1>1. req[r] \in RequestState
  BY DEF TypeOK
<1>2. CASE req' = [req EXCEPT ![r] = Idle]
  BY <1>2, IdleTyped DEF Inserting, TypeOK
<1>3. CASE BeginMint(r)
  <2>1. PICK u \in account, s \in enabled, kind \in {"storage", "pdf"}, c \in Caps :
          req' = [req EXCEPT ![r] =
            [Idle EXCEPT !.op = "mint", !.pc = IF kind = "pdf" THEN "rendered" ELSE "inserting",
                         !.slug = s, !.app = app[s], !.user = u, !.kind = kind, !.cap = c]]
    BY <1>3 DEF BeginMint, Accept
  <2>2. req'[r].pc = IF kind = "pdf" THEN "rendered" ELSE "inserting"
    BY <2>1, IdleTyped DEF RequestState, TypeOK
  <2>3. req'[r].kind = kind
    BY <2>1, IdleTyped DEF RequestState, TypeOK
  <2> QED
    BY <2>2, <2>3 DEF Inserting
<1>4. ASSUME NEW p \in PCs \ {"serving", "inserting"}, req'[r].pc = p
      PROVE  req'[r].pc # "serving" /\ ~Inserting(req'[r])
  BY <1>4 DEF Inserting
<1>5. CASE AcquireQuotaLock(r)
  <2>1. PICK p \in {"measuring", "purging"} : \E ids : req' = [req EXCEPT ![r].pc = p, ![r].ids = ids]
    BY <1>5 DEF AcquireQuotaLock
  <2>2. req'[r].pc = p
    BY <1>1, <2>1 DEF RequestState, TypeOK
  <2> QED
    BY <1>4, <2>2 DEF PCs
<1>6. CASE PurgeRows(r)
  <2>1. req'[r].pc = "measuring"
    BY <1>1, <1>6 DEF PurgeRows, RequestState, TypeOK
  <2> QED
    BY <1>4, <2>1 DEF PCs
<1>7. CASE MeasureAndWrite(r)
  <2>1. CASE req' = [req EXCEPT ![r] = Idle]
    BY <1>2, <2>1
  <2>2. ASSUME NEW l, req' = [req EXCEPT ![r].pc = "inserting", ![r].link = l]
        PROVE  req'[r].pc = "inserting"
    BY <1>1, <2>2 DEF RequestState, TypeOK
  <2> QED
    BY <1>2, <1>7, <2>1, <2>2 DEF MeasureAndWrite, Finish
<1>8. CASE LookupActive(r)
  <2>1. PICK l \in Rows :
          req' = [req EXCEPT ![r] =
            [Idle EXCEPT !.op = "view", !.pc = "found", !.link = l,
                         !.id = link[l].id, !.app = link[l].app, !.cap = link[l].cap]]
    BY <1>8 DEF LookupActive, Accept
  <2>2. req'[r].pc = "found"
    BY <2>1, IdleTyped DEF RequestState, TypeOK
  <2> QED
    BY <1>4, <2>2 DEF PCs
<1>9. CASE ResolveTarget(r)
  <2>1. ASSUME NEW s, req' = [req EXCEPT ![r].pc = "resolved", ![r].slug = s]
        PROVE  req'[r].pc = "resolved"
    BY <1>1, <2>1 DEF RequestState, TypeOK
  <2> QED
    BY <1>2, <1>4, <1>9, <2>1 DEF ResolveTarget, Finish, PCs
<1>10. CASE RecordView(r)
  <2>1. CASE req' = [req EXCEPT ![r].pc = "serving"]
    <3>1. req'[r].pc = "serving"
      BY <1>1, <2>1 DEF RequestState, TypeOK
    <3> QED
      BY <1>10, <3>1 DEF Inserting
  <2> QED
    BY <1>2, <1>10, <2>1 DEF RecordView, Finish, Goto
<1>11. CASE BeginRevoke(r)
  <2>1. PICK l \in Rows :
          req' = [req EXCEPT ![r] =
            [Idle EXCEPT !.op = "revoke", !.pc = "writing", !.id = link[l].id]]
    BY <1>11 DEF BeginRevoke, Accept
  <2>2. req'[r].pc = "writing"
    BY <2>1, IdleTyped DEF RequestState, TypeOK
  <2> QED
    BY <1>4, <2>2 DEF PCs
<1>12. CASE BeginDelete(r)
  <2>1. PICK l \in Rows :
          req' = [req EXCEPT ![r] =
            [Idle EXCEPT !.op = "delete_link", !.pc = "writing", !.id = link[l].id, !.files = {l}]]
    BY <1>12 DEF BeginDelete, Accept
  <2>2. req'[r].pc = "writing"
    BY <2>1, IdleTyped DEF RequestState, TypeOK
  <2> QED
    BY <1>4, <2>2 DEF PCs
<1>13. CASE BeginDeleteApp(r)
  <2>1. PICK s \in App :
          req' = [req EXCEPT ![r] =
            [Idle EXCEPT !.op = "delete_app", !.pc = "files", !.slug = s, !.app = app[s]]]
    BY <1>13 DEF BeginDeleteApp, Accept
  <2>2. req'[r].pc = "files"
    BY <2>1, IdleTyped DEF RequestState, TypeOK
  <2> QED
    BY <1>4, <2>2 DEF PCs
<1>14. CASE DeleteAppFiles(r)
  <2>1. PICK F : req' = [req EXCEPT ![r].pc = "rows", ![r].files = F]
    BY <1>14 DEF DeleteAppFiles
  <2>2. req'[r].pc = "rows"
    BY <1>1, <2>1 DEF RequestState, TypeOK
  <2> QED
    BY <1>4, <2>2 DEF PCs
<1>15. CASE DeleteAppRows(r)
  <2>1. CASE req' = [req EXCEPT ![r].pc = "app"]
    <3>1. req'[r].pc = "app"
      BY <1>1, <2>1 DEF RequestState, TypeOK
    <3> QED
      BY <1>4, <3>1 DEF PCs
  <2> QED
    BY <1>2, <1>15, <2>1 DEF DeleteAppRows, Finish, Goto
<1>16. CASE \/ InsertLink(r) \/ Serve(r) \/ ServeNothing(r)
            \/ CommitRevoke(r) \/ CommitDelete(r) \/ DeleteAppRow(r) \/ CommitPurge(r)
  BY <1>2, <1>16 DEF InsertLink, Serve, ServeNothing, CommitRevoke, CommitDelete, DeleteAppRow,
     CommitPurge, Finish
<1>17. CASE BeginPurge(r)
  <2>1. PICK I : req' = [req EXCEPT ![r] = [Idle EXCEPT !.op = "purge", !.pc = "sweeping", !.ids = I]]
    BY <1>17 DEF BeginPurge, Accept
  <2>2. req'[r].pc = "sweeping"
    BY <2>1, IdleTyped DEF RequestState, TypeOK
  <2> QED
    BY <1>4, <2>2 DEF PCs
<1> QED
  BY <1>3, <1>5, <1>6, <1>7, <1>8, <1>9, <1>10, <1>11, <1>12, <1>13, <1>14, <1>15, <1>16, <1>17
  DEF RequestStep, Mint, View, Manage

-----------------------------------------------------------------------------
(***************************************************************************)
(* What a request knows, and who has the lock.                              *)
(***************************************************************************)
LEMMA NextIs ==
  Next => (\E r \in Request : RequestStep(r)) \/ World \/ Restart
  BY DEF Next, RequestStep, World

LEMMA RequestsStep ==
  ASSUME TypeOK, Blanks, Requests, Locked, Bounded, [Next]_vars
  PROVE  Requests' /\ Locked'
<1>1. \A s \in Request : req[s] \in RequestState /\ Sound(req[s])
  BY DEF TypeOK, Requests
<1>2. ASSUME NEW r \in Request, RequestStep(r) PROVE Requests' /\ Locked'
  <2>1. PICK q : Turn(r, q)
    BY <1>2, Turns
  <2>2. \A s \in Request : s # r => Kept(req[s])
    <3>1. CASE InsertLink(r)
      <4>1. PICK l \in Link : Inserted(r, l)
        BY <3>1, Inserts
      <4>2. At(r, "mint", "inserting")
        BY <3>1 DEF InsertLink
      <4> QED
        BY <4>1, <4>2, KeptByInsertion
    <3>2. CASE ~InsertLink(r)
      BY <1>1, <1>2, <3>2, Ages, KeptByAge
    <3> QED
      BY <3>1, <3>2
  <2>3. req' = [req EXCEPT ![r] = q] /\ Sound(q)' /\ Locking(r, q)
    BY <2>1 DEF Turn
  <2>4. req'[r] = q /\ \A s \in Request : s # r => req'[s] = req[s]
    BY <2>3 DEF TypeOK
  <2>5. ASSUME NEW s \in Request PROVE Sound(req[s])'
    <3>1. PICK p : p = req'[s]
      OBVIOUS
    <3>2. CASE s = r
      BY <2>3, <2>4, <3>2
    <3>3. CASE s # r
      <4>1. PICK o : o = req[s]
        OBVIOUS
      <4>2. Sound(o)'
        BY <1>1, <2>2, <3>3, <4>1, SoundKept
      <4> QED
        BY <2>4, <3>3, <4>1, <4>2
    <3> QED
      BY <3>2, <3>3
  <2>6. ASSUME NEW s \in Request, HasLock(req'[s]) PROVE quotaLock' = s
    <3>1. CASE s = r
      BY <2>3, <2>4, <2>6, <3>1 DEF Locking, Locked
    <3>2. CASE s # r
      <4>1. quotaLock = s
        BY <2>4, <2>6, <3>2 DEF Locked
      <4> QED
        BY <2>3, <3>2, <4>1 DEF Locking
    <3> QED
      BY <3>1, <3>2
  <2> QED
    BY <2>5, <2>6 DEF Requests, Locked, HasLock, Inserting
<1>3. CASE World \/ UNCHANGED vars
  <2>1. req' = req /\ quotaLock' = quotaLock
    BY <1>3 DEF World, vars, InstallApp, ToggleApp, Expire, DeleteUser
  <2>2. ASSUME NEW s \in Request PROVE Sound(req[s])'
    <3>1. PICK o : o = req[s]
      OBVIOUS
    <3>2. Sound(o)'
      BY <1>1, <1>3, <3>1, AgesToo, KeptByAge, SoundKept
    <3> QED
      BY <2>1, <3>1, <3>2
  <2> QED
    BY <2>1, <2>2 DEF Requests, Locked, HasLock, Inserting
<1>4. CASE Restart
  <2>1. \A s \in Request : req'[s] = IF req[s].op = "purge" THEN req[s] ELSE Idle
    BY <1>4 DEF Restart
  <2>2. ASSUME NEW s \in Request PROVE Sound(req[s])'
    <3>1. PICK o : o = req[s]
      OBVIOUS
    <3>2. Sound(o)'
      BY <1>1, <1>4, <3>1, AgesToo, KeptByAge, SoundKept
    <3>3. CASE req[s].op = "purge"
      BY <2>1, <3>1, <3>2, <3>3
    <3>4. CASE req[s].op # "purge"
      BY <2>1, <3>4, IdleSound
    <3> QED
      BY <3>3, <3>4
  <2>3. \A s \in Request : req[s].op = "purge" => ~HasLock(req[s])
    BY <1>1 DEF Sound, HasLock, Inserting
  <2>4. \A s \in Request : ~HasLock(req'[s])
    BY <2>1, <2>3, IdleSound
  <2> QED
    BY <2>2, <2>4 DEF Requests, Locked, HasLock, Inserting
<1> QED
  BY <1>2, <1>3, <1>4, NextIs

LEMMA TypeStep ==
  ASSUME TypeOK, Blanks, Requests, Locked, Bounded, [Next]_vars
  PROVE  TypeOK'
<1>1. account' \in SUBSET User
  BY DEF TypeOK, Next, Mint, View, Manage, vars, InstallApp, ToggleApp, BeginMint,
     AcquireQuotaLock, PurgeRows, MeasureAndWrite, InsertLink, Expire, LookupActive,
     ResolveTarget, RecordView, Serve, ServeNothing, BeginRevoke, CommitRevoke, BeginDelete,
     CommitDelete, DeleteUser, BeginDeleteApp, DeleteAppFiles, DeleteAppRows, DeleteAppRow, BeginPurge,
     CommitPurge, Restart
<1>2. blob' \in SUBSET Link
  <2>1. \A l \in Rows : l \in Link
    BY RowsAre
  <2> QED
    BY <2>1 DEF TypeOK, Next, Mint, View, Manage, vars, InstallApp, ToggleApp, BeginMint,
     AcquireQuotaLock, PurgeRows, MeasureAndWrite, InsertLink, Expire, LookupActive,
     ResolveTarget, RecordView, Serve, ServeNothing, BeginRevoke, CommitRevoke, BeginDelete,
     CommitDelete, DeleteUser, BeginDeleteApp, DeleteAppFiles, DeleteAppRows, DeleteAppRow, BeginPurge,
     CommitPurge, Restart
<1>3. app' \in [App -> Nat] /\ enabled' \in SUBSET App
  <2>1. ASSUME NEW s \in App, InstallApp(s)
        PROVE  app' \in [App -> Nat] /\ enabled' \in SUBSET App
    <3>1. PICK n \in Nat : \A t \in App : app[t] <= n
      BY DEF Bounded
    <3>2. PICK S : S = {app[t] : t \in App}
      OBVIOUS
    <3>3. S \subseteq 0..n
      BY <3>1, <3>2 DEF TypeOK
    <3>4. NextAppId \in Nat
      BY <3>2, <3>3, NextIdIs DEF NextAppId
    <3> QED
      BY <2>1, <3>4 DEF InstallApp, TypeOK
  <2>2. ASSUME NEW s \in App, ToggleApp(s)
        PROVE  app' \in [App -> Nat] /\ enabled' \in SUBSET App
    BY <2>2 DEF ToggleApp, TypeOK
  <2>3. \A a : RemoveApp(a) => app' \in [App -> Nat] /\ enabled' \in SUBSET App
    BY DEF RemoveApp, TypeOK
  <2>4. app' = app /\ enabled' = enabled => app' \in [App -> Nat] /\ enabled' \in SUBSET App
    BY DEF TypeOK
  <2>5. ASSUME NEW r \in Request, RequestStep(r)
        PROVE  (\E a : RemoveApp(a)) \/ (app' = app /\ enabled' = enabled)
    BY <2>5 DEF RequestStep, Mint, View, Manage, BeginMint,
     AcquireQuotaLock, PurgeRows, MeasureAndWrite, InsertLink, LookupActive,
     ResolveTarget, RecordView, Serve, ServeNothing, BeginRevoke, CommitRevoke, BeginDelete,
     CommitDelete, BeginDeleteApp, DeleteAppFiles, DeleteAppRows, DeleteAppRow, BeginPurge, CommitPurge
  <2>6. CASE \/ Restart \/ UNCHANGED vars
             \/ \E l \in Link : Expire(l)
             \/ \E u \in User : DeleteUser(u)
    BY <2>4, <2>6 DEF Restart, vars, Expire, DeleteUser
  <2> QED
    BY <2>1, <2>2, <2>3, <2>4, <2>5, <2>6, NextIs DEF World
<1>4. served' \in [Link -> Nat]
  <2>1. ASSUME NEW r \in Request, Serve(r) PROVE served' \in [Link -> Nat]
    <3>1. PICK l : l = req[r].link
      OBVIOUS
    <3>2. l \in Link
      BY <2>1, <3>1 DEF Serve, At, Requests, Sound, Viewing
    <3>3. served' = [served EXCEPT ![l] = served[l] + 1]
      BY <2>1, <3>1 DEF Serve
    <3>4. served \in [Link -> Nat] /\ served[l] \in Nat
      BY <3>2 DEF TypeOK
    <3> QED
      BY <3>2, <3>3, <3>4
  <2>2. ASSUME NEW r \in Request, RequestStep(r), ~Serve(r) PROVE served' = served
    BY <2>2 DEF RequestStep, Mint, View, Manage, BeginMint,
     AcquireQuotaLock, PurgeRows, MeasureAndWrite, InsertLink, LookupActive,
     ResolveTarget, RecordView, Serve, ServeNothing, BeginRevoke, CommitRevoke, BeginDelete,
     CommitDelete, BeginDeleteApp, DeleteAppFiles, DeleteAppRows, DeleteAppRow, BeginPurge, CommitPurge
  <2>3. CASE World \/ Restart \/ UNCHANGED vars
    <3>1. served' = served
      BY <2>3 DEF World, Restart, vars, InstallApp, ToggleApp, Expire, DeleteUser
    <3> QED
      BY <3>1 DEF TypeOK
  <2>4. served' = served => served' \in [Link -> Nat]
    BY DEF TypeOK
  <2> QED
    BY <2>1, <2>2, <2>3, <2>4, NextIs
<1>5. link' \in [Link -> Row]
  <2>1. ASSUME NEW r \in Request, InsertLink(r) PROVE link' \in [Link -> Row]
    <3>1. PICK l \in Link : Inserted(r, l)
      BY <2>1, Inserts
    <3>2. PICK new : new = link'[l]
      OBVIOUS
    <3>3. link' = [link EXCEPT ![l] = new] /\ new \in Row
      BY <3>1, <3>2 DEF Inserted
    <3> QED
      BY <3>3 DEF TypeOK
  <2> QED
    BY <2>1, Ages, AgesToo, NextIs DEF Aged
<1>6. quotaLock' \in Request \cup {None} /\ req' \in [Request -> RequestState]
  <2>1. ASSUME NEW r \in Request, RequestStep(r)
        PROVE  quotaLock' \in Request \cup {None} /\ req' \in [Request -> RequestState]
    <3>1. PICK q : Turn(r, q)
      BY <2>1, Turns
    <3> QED
      BY <3>1 DEF Turn, Locking, TypeOK
  <2>2. CASE World \/ UNCHANGED vars
    <3>1. quotaLock' = quotaLock /\ req' = req
      BY <2>2 DEF World, vars, InstallApp, ToggleApp, Expire, DeleteUser
    <3> QED
      BY <3>1 DEF TypeOK
  <2>3. CASE Restart
    BY <2>3, IdleTyped DEF Restart, TypeOK
  <2> QED
    BY <2>1, <2>2, <2>3, NextIs
<1>7. restarts' \in 0..MaxRestarts
  <2>1. CASE Restart
    BY <2>1 DEF Restart, TypeOK
  <2>2. ASSUME NEW r \in Request, RequestStep(r) PROVE restarts' = restarts
    BY <2>2 DEF RequestStep, Mint, View, Manage, BeginMint,
     AcquireQuotaLock, PurgeRows, MeasureAndWrite, InsertLink, LookupActive,
     ResolveTarget, RecordView, Serve, ServeNothing, BeginRevoke, CommitRevoke, BeginDelete,
     CommitDelete, BeginDeleteApp, DeleteAppFiles, DeleteAppRows, DeleteAppRow, BeginPurge, CommitPurge
  <2>3. World \/ UNCHANGED vars => restarts' = restarts
    BY DEF World, vars, InstallApp, ToggleApp, Expire, DeleteUser
  <2>4. restarts' = restarts => restarts' \in 0..MaxRestarts
    BY DEF TypeOK
  <2> QED
    BY <2>1, <2>2, <2>3, <2>4, NextIs
<1> QED
  BY <1>1, <1>2, <1>3, <1>4, <1>5, <1>6, <1>7 DEF TypeOK

-----------------------------------------------------------------------------
(***************************************************************************)
(* The rows: which tokens are blank, that ids differ, that there are         *)
(* finitely many.                                                           *)
(***************************************************************************)
LEMMA OneOfTwo ==
  ASSUME TypeOK, Requests, Bounded, [Next]_vars
  PROVE  \/ Aged /\ KeepsBlank /\ ~\E r \in Request : InsertLink(r)
         \/ \E r \in Request : InsertLink(r)
  BY Ages, AgesToo, NextIs

LEMMA AgedRows ==
  ASSUME TypeOK, Blanks, Aged
  PROVE  /\ \A l \in Link : Blank(l)' <=> Blank(l)
         /\ Rows' \subseteq Rows
         /\ \A l \in Rows' : link'[l].id = link[l].id
<1>1. \A l \in Link : Older(l)
  BY DEF Aged
<1>2. \A l \in Link : ~Blank(l) => ~Blank(l)'
  BY <1>1, StaysWritten DEF Blank
<1>3. \A l \in Link : Blank(l) => Blank(l)'
  BY <1>1 DEF Older, Blank
<1>4. ASSUME NEW l \in Link, link'[l].id # 0 PROVE link'[l].id = link[l].id
  BY <1>1, <1>4 DEF Older
<1> QED
  BY <1>2, <1>3, <1>4 DEF Rows

LEMMA InsertedRows ==
  ASSUME TypeOK, Blanks, Requests, Bounded, NEW r \in Request, InsertLink(r)
  PROVE  \E l \in Link : /\ Inserted(r, l) /\ ~Blank(l)' /\ l \notin Rows
                         /\ \A m \in Link : m # l => link'[m] = link[m]
                         /\ Rows' = Rows \cup {l}
                         /\ \A m \in Rows : link[m].id < link'[l].id
                         /\ req[r].user \in User /\ req'[r] = Idle
<1>1. PICK l \in Link : Inserted(r, l)
  BY Inserts
<1>2. \A m \in Link : m # l => link'[m] = link[m]
  BY <1>1 DEF Inserted, TypeOK
<1>3. link'[l].id = NextLinkId /\ link'[l].id # 0
  BY <1>1, Inserts DEF Inserted
<1>4. l \notin Rows
  BY <1>1, RowsAre DEF Inserted
<1>5. ~Blank(l)'
  BY <1>3, NoRowTyped DEF Blank
<1>6. Rows' = Rows \cup {l}
  BY <1>2, <1>3 DEF Rows
<1>7. \A m \in Rows : link[m].id < link'[l].id
  BY <1>3, Inserts
<1>8. req[r].user \in User
  BY DEF Requests, Sound, InsertLink, At
<1>9. req'[r] = Idle
  BY <1>1 DEF Inserted, TypeOK
<1> QED
  BY <1>1, <1>2, <1>4, <1>5, <1>6, <1>7, <1>8, <1>9

LEMMA RowsStep ==
  ASSUME TypeOK, Blanks, Requests, Locked, DistinctIds, Bounded, FinitelyMany, [Next]_vars
  PROVE  Blanks' /\ DistinctIds' /\ IsFiniteSet(Rows)'
<1>1. CASE Aged
  <2>1. \A l \in Link : Blank(l)' <=> Blank(l)
    BY <1>1, AgedRows
  <2>2. \A l \in Link : link'[l].creator = link[l].creator
    BY <1>1 DEF Aged, Older
  <2>3. Rows' \subseteq Rows /\ \A l \in Rows' : link'[l].id = link[l].id
    BY <1>1, AgedRows
  <2>4. Blanks'
    BY <2>1, <2>2 DEF Blanks
  <2>5. DistinctIds'
    BY <2>3 DEF DistinctIds
  <2>6. IsFiniteSet(Rows')
    BY <2>3, FS_Subset DEF FinitelyMany
  <2> QED
    BY <2>4, <2>5, <2>6
<1>2. ASSUME NEW r \in Request, InsertLink(r) PROVE Blanks' /\ DistinctIds' /\ IsFiniteSet(Rows)'
  <2>1. PICK l \in Link :
          /\ Inserted(r, l) /\ ~Blank(l)' /\ l \notin Rows
          /\ \A m \in Link : m # l => link'[m] = link[m]
          /\ Rows' = Rows \cup {l}
          /\ \A m \in Rows : link[m].id < link'[l].id
          /\ req[r].user \in User /\ req'[r] = Idle
    BY <1>2, InsertedRows
  <2>2. link'[l].creator # None
    BY <2>1 DEF Inserted
  <2>3. Blanks'
    BY <2>1, <2>2 DEF Blanks, Blank
  <2>4. \A m \in Rows : m \in Link /\ m # l /\ link[m].id \in Nat /\ link'[m].id = link[m].id
    BY <2>1, RowsAre DEF TypeOK, Row
  <2>5. ASSUME NEW m \in Rows', NEW k \in Rows', link'[m].id = link'[k].id PROVE m = k
    <3>1. CASE m = l /\ k # l
      <4>1. link[k].id < link'[l].id /\ link[k].id = link'[l].id /\ link[k].id \in Nat
        BY <2>1, <2>4, <2>5, <3>1
      <4> QED
        BY <4>1
    <3>2. CASE m # l /\ k = l
      <4>1. link[m].id < link'[l].id /\ link[m].id = link'[l].id /\ link[m].id \in Nat
        BY <2>1, <2>4, <2>5, <3>2
      <4> QED
        BY <4>1
    <3>3. CASE m # l /\ k # l
      BY <2>1, <2>4, <2>5, <3>3 DEF DistinctIds
    <3> QED
      BY <3>1, <3>2, <3>3
  <2>6. IsFiniteSet(Rows')
    BY <2>1, FS_AddElement DEF FinitelyMany
  <2> QED
    BY <2>3, <2>5, <2>6 DEF DistinctIds
<1> QED
  BY <1>1, <1>2, OneOfTwo

LEMMA BoundedStep ==
  ASSUME TypeOK, Blanks, Requests, Bounded, [Next]_vars
  PROVE  Bounded'
<1>1. PICK n \in Nat : (\A l \in Link : link[l].id <= n) /\ \A s \in App : app[s] <= n
  BY DEF Bounded
<1>2. \A l \in Link : link'[l].id <= n + 1
  <2>1. CASE Aged
    <3>1. ASSUME NEW l \in Link PROVE link'[l].id <= n + 1
      <4>1. link[l].id \in Nat /\ link[l].id <= n
        BY <1>1 DEF TypeOK, Row
      <4>2. link'[l].id \in {link[l].id, 0}
        BY <2>1 DEF Aged, Older
      <4> QED
        BY <4>1, <4>2
    <3> QED
      BY <3>1
  <2>2. ASSUME NEW r \in Request, InsertLink(r), NEW m \in Link PROVE link'[m].id <= n + 1
    <3>1. PICK l \in Link : Inserted(r, l)
      BY <2>2, Inserts
    <3>2. NextLinkId <= n + 1
      BY <1>1, <2>2, Inserts
    <3>3. link[m].id \in Nat /\ link[m].id <= n
      BY <1>1 DEF TypeOK, Row
    <3>4. CASE m = l
      BY <3>1, <3>2, <3>4 DEF Inserted
    <3>5. CASE m # l
      <4>1. link'[m] = link[m]
        BY <3>1, <3>5 DEF Inserted, TypeOK
      <4> QED
        BY <3>3, <4>1
    <3> QED
      BY <3>4, <3>5
  <2> QED
    BY <2>1, <2>2, OneOfTwo
<1>3. \A s \in App : app'[s] <= n + 1
  <2>1. ASSUME NEW t \in App, InstallApp(t), NEW s \in App PROVE app'[s] <= n + 1
    <3>1. PICK S : S = {app[x] : x \in App}
      OBVIOUS
    <3>2. S \subseteq 0..n
      BY <1>1, <3>1 DEF TypeOK
    <3>3. NextAppId <= n + 1
      BY <3>1, <3>2, NextIdIs DEF NextAppId
    <3>4. app'[s] \in {app[s], NextAppId}
      BY <2>1 DEF InstallApp, TypeOK
    <3>5. app[s] \in Nat /\ app[s] <= n
      BY <1>1 DEF TypeOK
    <3> QED
      BY <3>3, <3>4, <3>5
  <2>2. ASSUME NEW s \in App, app'[s] \in {app[s], 0} PROVE app'[s] <= n + 1
    BY <1>1, <2>2 DEF TypeOK
  <2>3. \A a : RemoveApp(a) => \A s \in App : app'[s] \in {app[s], 0}
    BY DEF RemoveApp
  <2>4. ASSUME NEW r \in Request, RequestStep(r) PROVE (\E a : RemoveApp(a)) \/ app' = app
    BY <2>4 DEF RequestStep, Mint, View, Manage, BeginMint,
     AcquireQuotaLock, PurgeRows, MeasureAndWrite, InsertLink, LookupActive,
     ResolveTarget, RecordView, Serve, ServeNothing, BeginRevoke, CommitRevoke, BeginDelete,
     CommitDelete, BeginDeleteApp, DeleteAppFiles, DeleteAppRows, DeleteAppRow, BeginPurge, CommitPurge
  <2>5. Next => \/ \E t \in App : InstallApp(t)
                \/ (\E a : RemoveApp(a)) \/ app' = app
    BY <2>4, NextIs DEF World, Restart, ToggleApp, Expire, DeleteUser
  <2>6. UNCHANGED vars => app' = app
    BY DEF vars
  <2> QED
    BY <2>1, <2>2, <2>3, <2>5, <2>6
<1>4. n + 1 \in Nat
  OBVIOUS
<1> QED
  BY <1>2, <1>3, <1>4 DEF Bounded

LEMMA InFlightStep ==
  ASSUME TypeOK, Blanks, Requests, Locked, Bounded, FinitelyMany, [Next]_vars
  PROVE  IsFiniteSet({r \in Request : req'[r] # Idle})
<1>1. PICK F : F = {r \in Request : req[r] # Idle}
  OBVIOUS
<1>2. IsFiniteSet(F)
  BY <1>1 DEF FinitelyMany
<1>3. ASSUME NEW r \in Request, RequestStep(r)
      PROVE  IsFiniteSet({s \in Request : req'[s] # Idle})
  <2>1. PICK q : Turn(r, q)
    BY <1>3, Turns
  <2>2. \A s \in Request : s # r => req'[s] = req[s]
    BY <2>1 DEF Turn, TypeOK
  <2>3. {s \in Request : req'[s] # Idle} \subseteq F \cup {r}
    BY <1>1, <2>2
  <2>4. IsFiniteSet(F \cup {r})
    BY <1>2, FS_AddElement
  <2> QED
    BY <2>3, <2>4, FS_Subset
<1>4. CASE World \/ Restart \/ UNCHANGED vars
  <2>1. {s \in Request : req'[s] # Idle} \subseteq F
    BY <1>1, <1>4 DEF World, Restart, vars, InstallApp, ToggleApp, Expire, DeleteUser
  <2> QED
    BY <1>2, <2>1, FS_Subset
<1> QED
  BY <1>3, <1>4, NextIs

-----------------------------------------------------------------------------
(***************************************************************************)
(* The cap: what went out and what is about to go out was counted.           *)
(***************************************************************************)
LEMMA RowFields ==
  ASSUME NEW x \in Row
  PROVE  x.id \in Nat /\ x.views \in Nat /\ x.cap \in Nat
<1>1. x.cap \in Caps \cup {0} /\ x.id \in Nat /\ x.views \in Nat
  BY DEF Row
<1>2. Caps \subseteq Nat
  OBVIOUS
<1>3. \A c : c \in Caps \cup {0} => c \in Nat
  BY <1>2
<1>4. x.cap \in Nat
  BY <1>1, <1>3, Zenon
<1> QED
  BY <1>1, <1>4

LEMMA LinkFields ==
  ASSUME TypeOK, NEW l \in Link
  PROVE  link[l].id \in Nat /\ link[l].views \in Nat /\ link[l].cap \in Nat /\ served[l] \in Nat
<1>1. link[l] \in Row /\ served[l] \in Nat
  BY DEF TypeOK
<1> QED
  BY <1>1, RowFields

LEMMA ServingIs ==
  ASSUME TypeOK, FinitelyMany, NEW l
  PROVE  IsFiniteSet(Serving(l)) /\ Cardinality(Serving(l)) \in Nat
<1>1. Serving(l) \subseteq {r \in Request : req[r] # Idle}
  BY IdleTyped DEF Serving
<1>2. IsFiniteSet(Serving(l))
  BY <1>1, FS_Subset DEF FinitelyMany
<1> QED
  BY <1>2, FS_CardinalityType

LEMMA FewerServing ==
  ASSUME NEW A, NEW B, IsFiniteSet(B), A \subseteq B
  PROVE  IsFiniteSet(A) /\ Cardinality(A) \in Nat /\ Cardinality(B) \in Nat
         /\ Cardinality(A) <= Cardinality(B)
  BY FS_Subset, FS_CardinalityType

\* Rows that only age, with no one starting to serve and nothing going out.
LEMMA CountedAged ==
  ASSUME TypeOK, Blanks, FinitelyMany, Counted, Aged, served' = served,
         \A l \in Rows : Serving(l)' \subseteq Serving(l)
  PROVE  Counted'
<1>1. \A l \in Link : Blank(l)' => served'[l] = 0
  BY AgedRows DEF Counted
<1>2. ASSUME NEW l \in Rows'
      PROVE  LET out == served'[l] + Cardinality(Serving(l)') IN
             out <= link'[l].views /\ (link'[l].cap > 0 => out <= link'[l].cap)
  <2>1. l \in Rows /\ l \in Link
    BY AgedRows DEF Rows
  <2>2. PICK a, b : a = Cardinality(Serving(l)) /\ b = Cardinality(Serving(l)')
    OBVIOUS
  <2>3. a \in Nat /\ b \in Nat /\ b <= a
    BY <2>1, <2>2, ServingIs, FewerServing
  <2>4. /\ served[l] + a <= link[l].views
        /\ link[l].cap > 0 => served[l] + a <= link[l].cap
    BY <2>1, <2>2 DEF Counted
  <2>5. link[l].views <= link'[l].views /\ link'[l].cap = link[l].cap
    BY <2>1 DEF Aged, Older
  <2>6. /\ served[l] \in Nat /\ link[l].views \in Nat /\ link[l].cap \in Nat
        /\ link'[l].views \in Nat
    BY <2>1, LinkFields, RowFields DEF Aged
  <2>7. served[l] + b <= link'[l].views /\ (link'[l].cap > 0 => served[l] + b <= link'[l].cap)
    BY <2>3, <2>4, <2>5, <2>6
  <2> QED
    BY <2>2, <2>7
<1> QED
  BY <1>1, <1>2 DEF Counted

LEMMA CountedByView ==
  ASSUME TypeOK, Blanks, Requests, DistinctIds, FinitelyMany, Counted,
         NEW r \in Request, RecordView(r), req' = [req EXCEPT ![r].pc = "serving"]
  PROVE  Counted'
<1>1. /\ req[r] \in RequestState /\ Viewing(req[r]) /\ req[r].pc = "resolved"
  BY DEF TypeOK, Requests, Sound, RecordView, At
<1>2. PICK x : x = req[r].link
  OBVIOUS
<1>3. /\ x \in Link /\ req[r].id # 0 /\ ~Blank(x)
      /\ link[x].id \in {0, req[r].id} /\ link[x].cap = req[r].cap
  BY <1>1, <1>2 DEF Viewing
<1>4. PICK hit : /\ hit = {l \in ById(req[r].id) : req[r].cap > 0 => link[l].views < req[r].cap}
                 /\ link' = [l \in Link |-> IF l \in hit THEN [link[l] EXCEPT !.views = @ + 1]
                                            ELSE link[l]]
  BY DEF RecordView
<1>5. hit # {}
  <2>1. req'[r].pc = "serving"
    BY <1>1 DEF RequestState, TypeOK
  <2>2. req' # [req EXCEPT ![r] = Idle]
    BY <2>1, IdleTyped DEF TypeOK
  <2> QED
    BY <1>4, <2>2 DEF RecordView, Finish
<1>6. RequestStep(r) /\ ~InsertLink(r) /\ served' = served
  BY DEF RequestStep, View, InsertLink, RecordView, At
<1>7. Aged
  BY <1>6, Ages
<1>8. PICK q : q = [req[r] EXCEPT !.pc = "serving"]
  OBVIOUS
<1>9. q.link = x /\ q.pc = "serving" /\ req' = [req EXCEPT ![r] = q] /\ req'[r] = q
  BY <1>1, <1>2, <1>8 DEF RequestState, TypeOK
<1>10. \A l : Serving(l)' = Serving(l) \cup IF l = x THEN {r} ELSE {}
  <2>1. \A s \in Request : s # r => req'[s] = req[s]
    BY <1>9 DEF TypeOK
  <2>2. ASSUME NEW l PROVE Serving(l)' = Serving(l) \cup IF l = x THEN {r} ELSE {}
    <3>1. Serving(l)' = {s \in Request : req'[s].pc = "serving" /\ req'[s].link = l}
      BY DEF Serving
    <3>2. ASSUME NEW s \in Request, s # r PROVE s \in Serving(l)' <=> s \in Serving(l)
      BY <2>1, <3>1, <3>2 DEF Serving
    <3>3. r \in Serving(l)' <=> l = x
      BY <1>9, <3>1
    <3>4. r \notin Serving(l)
      BY <1>1 DEF Serving
    <3>5. Serving(l)' \subseteq Request /\ Serving(l) \subseteq Request
      BY <3>1 DEF Serving
    <3> QED
      BY <3>2, <3>3, <3>4, <3>5
  <2> QED
    BY <2>2
<1>11. \A l \in Link : Blank(l)' => served'[l] = 0
  BY <1>6, <1>7, AgedRows DEF Counted
<1>12. ASSUME NEW l \in Rows'
       PROVE  LET out == served'[l] + Cardinality(Serving(l)') IN
              out <= link'[l].views /\ (link'[l].cap > 0 => out <= link'[l].cap)
  <2>1. l \in Rows /\ l \in Link
    BY <1>7, AgedRows DEF Rows
  <2>2. PICK a, b : a = Cardinality(Serving(l)) /\ b = Cardinality(Serving(l)')
    OBVIOUS
  <2>3. /\ served[l] + a <= link[l].views
        /\ link[l].cap > 0 => served[l] + a <= link[l].cap
    BY <2>1, <2>2 DEF Counted
  <2>4. link[l].views <= link'[l].views /\ link'[l].cap = link[l].cap
    BY <1>7, <2>1 DEF Aged, Older
  <2>5. /\ served[l] \in Nat /\ link[l].views \in Nat /\ link[l].cap \in Nat
        /\ link'[l].views \in Nat /\ a \in Nat
    BY <1>7, <2>1, <2>2, ServingIs, LinkFields, RowFields DEF Aged
  <2>6. served[l] + b <= link'[l].views /\ (link'[l].cap > 0 => served[l] + b <= link'[l].cap)
    <3>1. CASE l # x
      <4>1. b = a
        BY <1>10, <2>2, <3>1
      <4> QED
        BY <2>3, <2>4, <2>5, <4>1
    <3>2. CASE l = x
      <4>1. PICK h \in hit : TRUE
        BY <1>5
      <4>2. h \in Rows /\ link[h].id = req[r].id /\ (req[r].cap > 0 => link[h].views < req[r].cap)
        BY <1>4, <4>1 DEF ById
      <4>3. h = l
        BY <1>3, <2>1, <3>2, <4>2 DEF DistinctIds, Rows
      <4>4. link'[l] = [link[l] EXCEPT !.views = @ + 1]
        BY <1>4, <2>1, <4>1, <4>3
      <4>5. link'[l].views = link[l].views + 1
        BY <2>1, <4>4 DEF TypeOK, Row
      <4>6. link[l].cap > 0 => link[l].views < link[l].cap
        BY <1>3, <3>2, <4>2, <4>3
      <4>7. b = a + 1 \/ b = a
        <5>1. Serving(l)' = Serving(l) \cup {r} /\ IsFiniteSet(Serving(l))
          BY <1>10, <3>2, ServingIs
        <5> QED
          BY <2>2, <5>1, FS_AddElement
      <4> QED
        BY <2>3, <2>4, <2>5, <4>5, <4>6, <4>7
    <3> QED
      BY <3>1, <3>2
  <2> QED
    BY <1>6, <2>2, <2>6
<1> QED
  BY <1>11, <1>12 DEF Counted

LEMMA CountedByServe ==
  ASSUME TypeOK, Blanks, Requests, FinitelyMany, Counted, NEW r \in Request, Serve(r)
  PROVE  Counted'
<1>1. PICK x : x = req[r].link
  OBVIOUS
<1>2. x \in Link /\ ~Blank(x) /\ req[r].pc = "serving"
  BY <1>1 DEF Requests, Sound, Viewing, Serve, At
<1>3. served' = [served EXCEPT ![x] = served[x] + 1] /\ link' = link
      /\ req' = [req EXCEPT ![r] = Idle]
  BY <1>1 DEF Serve, Finish
<1>4. \A l \in Link : Blank(l)' => served'[l] = 0
  BY <1>2, <1>3 DEF Counted, Blank, TypeOK
<1>5. \A l : Serving(l)' = Serving(l) \ {r}
  BY <1>3, IdleTyped DEF Serving, TypeOK
<1>6. r \in Serving(x)
  BY <1>1, <1>2 DEF Serving
<1>7. ASSUME NEW l \in Rows
      PROVE  LET out == served'[l] + Cardinality(Serving(l)') IN
             out <= link[l].views /\ (link[l].cap > 0 => out <= link[l].cap)
  <2>1. PICK a, b : a = Cardinality(Serving(l)) /\ b = Cardinality(Serving(l)')
    OBVIOUS
  <2>2. /\ served[l] + a <= link[l].views
        /\ link[l].cap > 0 => served[l] + a <= link[l].cap
    BY <2>1 DEF Counted
  <2>3. l \in Link /\ served[l] \in Nat /\ link[l].views \in Nat /\ link[l].cap \in Nat /\ a \in Nat
    BY <2>1, ServingIs, RowsAre, LinkFields
  <2>4. IsFiniteSet(Serving(l))
    BY ServingIs
  <2>5. served'[l] + b <= served[l] + a
    <3>1. CASE l = x
      <4>1. b = a - 1
        BY <1>5, <1>6, <2>1, <2>4, <3>1, FS_RemoveElement
      <4>2. served'[l] = served[l] + 1
        BY <1>3, <2>3, <3>1 DEF TypeOK
      <4> QED
        BY <2>3, <4>1, <4>2
    <3>2. CASE l # x
      <4>1. b \in Nat /\ b <= a
        BY <1>5, <2>1, <2>4, FewerServing
      <4>2. served'[l] = served[l]
        BY <1>3, <2>3, <3>2 DEF TypeOK
      <4> QED
        BY <2>3, <4>1, <4>2
    <3> QED
      BY <3>1, <3>2
  <2>6. b \in Nat /\ served'[l] \in Nat
    <3>1. b \in Nat
      BY <1>5, <2>1, <2>4, FewerServing
    <3>2. served'[l] \in Nat
      BY <1>2, <1>3, <2>3 DEF TypeOK
    <3> QED
      BY <3>1, <3>2
  <2> QED
    BY <2>1, <2>2, <2>3, <2>5, <2>6
<1>8. Rows' = Rows
  BY <1>3 DEF Rows
<1> QED
  BY <1>3, <1>4, <1>7, <1>8 DEF Counted

LEMMA CountedByInsertion ==
  ASSUME TypeOK, Blanks, Requests, Bounded, FinitelyMany, Counted,
         NEW r \in Request, InsertLink(r)
  PROVE  Counted'
<1>1. PICK x \in Link :
        /\ Inserted(r, x) /\ ~Blank(x)' /\ x \notin Rows
        /\ \A m \in Link : m # x => link'[m] = link[m]
        /\ Rows' = Rows \cup {x}
        /\ \A m \in Rows : link[m].id < link'[x].id
        /\ req[r].user \in User /\ req'[r] = Idle
  BY InsertedRows
<1>2. served' = served /\ link'[x].views = 0 /\ Blank(x)
      /\ req' = [req EXCEPT ![r] = Idle]
  BY <1>1 DEF Inserted
<1>3. \A l : Serving(l)' \subseteq Serving(l)
  BY <1>2, IdleTyped DEF Serving, TypeOK
<1>4. Serving(x) = {}
  BY <1>2 DEF Serving, Requests, Sound, Viewing
<1>5. \A l \in Link : Blank(l)' => served'[l] = 0
  BY <1>1, <1>2 DEF Counted, Blank
<1>6. ASSUME NEW l \in Rows'
      PROVE  LET out == served'[l] + Cardinality(Serving(l)') IN
             out <= link'[l].views /\ (link'[l].cap > 0 => out <= link'[l].cap)
  <2>1. CASE l = x
    <3>1. served'[l] = 0 /\ Serving(l)' = {}
      BY <1>2, <1>3, <1>4, <2>1 DEF Counted
    <3>2. Cardinality(Serving(l)') = 0
      BY <3>1, FS_EmptySet
    <3>3. link'[l].cap \in Nat /\ link'[l].views = 0
      BY <1>1, <1>2, <2>1 DEF Inserted, Row
    <3> QED
      BY <3>1, <3>2, <3>3
  <2>2. CASE l # x
    <3>1. l \in Rows /\ l \in Link /\ link'[l] = link[l]
      BY <1>1, <2>2, RowsAre
    <3>2. PICK a, b : a = Cardinality(Serving(l)) /\ b = Cardinality(Serving(l)')
      OBVIOUS
    <3>3. a \in Nat /\ b \in Nat /\ b <= a
      BY <1>3, <3>2, ServingIs, FewerServing
    <3>4. /\ served[l] + a <= link[l].views
          /\ link[l].cap > 0 => served[l] + a <= link[l].cap
      BY <3>1, <3>2 DEF Counted
    <3>5. served[l] \in Nat /\ link[l].views \in Nat /\ link[l].cap \in Nat
      BY <3>1, LinkFields
    <3> QED
      BY <1>2, <3>1, <3>2, <3>3, <3>4, <3>5
  <2> QED
    BY <2>1, <2>2
<1> QED
  BY <1>5, <1>6 DEF Counted

LEMMA CountedStep ==
  ASSUME TypeOK, Blanks, Requests, Locked, DistinctIds, Bounded, FinitelyMany, Counted, [Next]_vars
  PROVE  Counted'
<1>1. ASSUME NEW r \in Request, RequestStep(r) PROVE Counted'
  <2>1. CASE InsertLink(r)
    BY <2>1, CountedByInsertion
  <2>2. CASE Serve(r)
    BY <2>2, CountedByServe
  <2>3. CASE RecordView(r) /\ req' = [req EXCEPT ![r].pc = "serving"]
    BY <2>3, CountedByView
  <2>4. CASE /\ ~InsertLink(r) /\ ~Serve(r)
             /\ ~(RecordView(r) /\ req' = [req EXCEPT ![r].pc = "serving"])
    <3>1. Aged
      BY <1>1, <2>4, Ages
    <3>2. served' = served
      BY <1>1, <2>4 DEF RequestStep, Mint, View, Manage, BeginMint,
        AcquireQuotaLock, PurgeRows, MeasureAndWrite, InsertLink, LookupActive,
        ResolveTarget, RecordView, Serve, ServeNothing, BeginRevoke, CommitRevoke, BeginDelete,
        CommitDelete, BeginDeleteApp, DeleteAppFiles, DeleteAppRows, DeleteAppRow, BeginPurge, CommitPurge
    <3>3. req'[r].pc # "serving"
      <4>1. CASE RecordView(r)
        <5>1. req' = [req EXCEPT ![r] = Idle]
          BY <2>4, <4>1 DEF RecordView, Finish, Goto
        <5> QED
          BY <5>1, IdleTyped DEF TypeOK
      <4> QED
        BY <1>1, <4>1, After
    <3>4. PICK q : Turn(r, q)
      BY <1>1, Turns
    <3>5. \A s \in Request : s # r => req'[s] = req[s]
      BY <3>4 DEF Turn, TypeOK
    <3>6. \A l : Serving(l)' \subseteq Serving(l)
      BY <3>3, <3>5 DEF Serving
    <3> QED
      BY <3>1, <3>2, <3>6, CountedAged
  <2> QED
    BY <2>1, <2>2, <2>3, <2>4
<1>2. CASE World \/ Restart \/ UNCHANGED vars
  <2>1. Aged
    BY <1>2, AgesToo
  <2>2. served' = served
    BY <1>2 DEF World, Restart, vars, InstallApp, ToggleApp, Expire, DeleteUser
  <2>3. \A s \in Request : req'[s] = req[s] \/ req'[s] = Idle
    BY <1>2 DEF World, Restart, vars, InstallApp, ToggleApp, Expire, DeleteUser
  <2>4. \A l : Serving(l)' \subseteq Serving(l)
    BY <2>3, IdleTyped DEF Serving
  <2> QED
    BY <2>1, <2>2, <2>4, CountedAged
<1> QED
  BY <1>1, <1>2, NextIs

-----------------------------------------------------------------------------
(***************************************************************************)
(* The quota.                                                               *)
(***************************************************************************)
Waiting(u) == {r \in Request : Inserting(req[r]) /\ req[r].user = u}

Held(u) == Cardinality(Stored(u)) + Cardinality(Waiting(u))

LEMMA QuotaIs == QuotaHeld <=> \A u \in User : Held(u) <= MaxPdfs
<1>1. \A u \in User : Waiting(u) = {r \in Request : At(r, "mint", "inserting")
                                         /\ req[r].kind = "pdf" /\ req[r].user = u}
  BY DEF Waiting, Inserting, At
<1> QED
  BY <1>1 DEF QuotaHeld, Held

LEMMA HeldIs ==
  ASSUME TypeOK, Locked, FinitelyMany, NEW u
  PROVE  /\ IsFiniteSet(Stored(u)) /\ Cardinality(Stored(u)) \in Nat
         /\ IsFiniteSet(Waiting(u)) /\ Cardinality(Waiting(u)) \in Nat
<1>1. Stored(u) \subseteq Rows
  BY DEF Stored, Pdfs
<1>2. Waiting(u) \subseteq {r \in Request : req[r] # Idle}
  BY IdleTyped DEF Waiting, Inserting
<1>3. IsFiniteSet(Stored(u)) /\ IsFiniteSet(Waiting(u))
  BY <1>1, <1>2, FS_Subset DEF FinitelyMany
<1> QED
  BY <1>3, FS_CardinalityType

\* Fewer stored and fewer waiting.
LEMMA HeldLess ==
  ASSUME TypeOK, Locked, FinitelyMany, NEW u, Held(u) <= MaxPdfs,
         Stored(u)' \subseteq Stored(u), Waiting(u)' \subseteq Waiting(u)
  PROVE  Held(u)' <= MaxPdfs
<1>1. PICK a, b, c, d : /\ a = Cardinality(Stored(u)) /\ b = Cardinality(Waiting(u))
                        /\ c = Cardinality(Stored(u)') /\ d = Cardinality(Waiting(u)')
  OBVIOUS
<1>2. c \in Nat /\ a \in Nat /\ c <= a
  BY <1>1, HeldIs, FewerServing
<1>3. d \in Nat /\ b \in Nat /\ d <= b
  BY <1>1, HeldIs, FewerServing
<1>4. a + b <= MaxPdfs
  BY <1>1 DEF Held
<1>5. c + d <= MaxPdfs
  BY <1>2, <1>3, <1>4
<1> QED
  BY <1>1, <1>5 DEF Held

\* Rows that only age, with no new file under a token that has a row.
LEMMA StoredLess ==
  ASSUME TypeOK, Blanks, Aged, \A l \in Rows : l \in blob' => l \in blob, NEW u
  PROVE  Stored(u)' \subseteq Stored(u)
<1> SUFFICES ASSUME NEW l \in Link, l \in Rows', l \in blob',
                    link'[l].kind = "pdf", link'[l].creator = u
             PROVE  l \in Stored(u)
  BY DEF Stored, Pdfs, Rows
<1>1. l \in Rows
  BY AgedRows
<1>2. link[l].kind = "pdf" /\ link[l].creator = u
  BY DEF Aged, Older
<1> QED
  BY <1>1, <1>2 DEF Stored, Pdfs

\* No file appears but under a blank token, when a PDF is written.
LEMMA Files ==
  ASSUME TypeOK, Blanks, Requests, Locked, Bounded, [Next]_vars
  PROVE  \A l \in Rows : l \in blob' => l \in blob
<1>1. ASSUME NEW r \in Request, MeasureAndWrite(r)
      PROVE  \A l \in Rows : l \in blob' => l \in blob
  BY <1>1, RowsAre DEF MeasureAndWrite, Blank
<1>2. ASSUME NEW r \in Request, RequestStep(r), ~MeasureAndWrite(r)
      PROVE  blob' \subseteq blob
  BY <1>2 DEF RequestStep, Mint, View, Manage, BeginMint, AcquireQuotaLock, PurgeRows, InsertLink,
     LookupActive, ResolveTarget, RecordView, Serve, ServeNothing, BeginRevoke, CommitRevoke,
     BeginDelete, CommitDelete, BeginDeleteApp, DeleteAppFiles, DeleteAppRows, DeleteAppRow, BeginPurge, CommitPurge
<1>3. World \/ Restart \/ UNCHANGED vars => blob' \subseteq blob
  BY DEF World, Restart, vars, InstallApp, ToggleApp, Expire, DeleteUser
<1> QED
  BY <1>1, <1>2, <1>3, NextIs

\* The PDF that is written is the only one that waits, and there was room for it.
LEMMA QuotaByWrite ==
  ASSUME TypeOK, Blanks, Requests, Locked, Locked', Bounded, FinitelyMany, QuotaHeld,
         NEW r \in Request, MeasureAndWrite(r)
  PROVE  QuotaHeld'
<1>1. RequestStep(r) /\ ~InsertLink(r)
  BY DEF RequestStep, Mint, MeasureAndWrite, InsertLink, At
<1>2. Aged
  BY <1>1, Ages
<1>3. \A l \in Rows : l \in blob' => l \in blob
  BY <1>1, Files, NextIs DEF Next, RequestStep
<1>4. PICK q : Turn(r, q)
  BY <1>1, Turns
<1>5. req'[r] = q /\ \A s \in Request : s # r => req'[s] = req[s]
  BY <1>4 DEF Turn, TypeOK
<1>6. ASSUME NEW u \in User PROVE Held(u)' <= MaxPdfs
  <2>1. Stored(u)' \subseteq Stored(u) /\ Held(u) <= MaxPdfs
    BY <1>2, <1>3, <1>6, StoredLess, QuotaIs
  <2>2. CASE Inserting(q) /\ q.user = u
    <3>1. q.user = req[r].user /\ Cardinality(Stored(req[r].user)) + 1 <= MaxPdfs
      <4>1. req' # [req EXCEPT ![r] = Idle]
        BY <1>5, <2>2, IdleTyped DEF Inserting, TypeOK
      <4>2. PICK l : req' = [req EXCEPT ![r].pc = "inserting", ![r].link = l]
        BY <4>1 DEF MeasureAndWrite, Finish
      <4>3. req'[r].user = req[r].user
        BY <4>2 DEF TypeOK, RequestState
      <4>4. ~(Cardinality(Stored(req[r].user)) + 1 > MaxPdfs)
        BY <4>1 DEF MeasureAndWrite, Finish
      <4>5. Cardinality(Stored(req[r].user)) \in Nat
        BY HeldIs
      <4> QED
        BY <1>5, <4>3, <4>4, <4>5
    <3>2. quotaLock' = r
      BY <1>5, <2>2 DEF Locked, HasLock, Inserting
    <3>3. Waiting(u)' \subseteq {r}
      BY <3>2 DEF Waiting, Locked, HasLock, Inserting
    <3>4. PICK a, c, d : /\ a = Cardinality(Stored(u)) /\ c = Cardinality(Stored(u)')
                         /\ d = Cardinality(Waiting(u)')
      OBVIOUS
    <3>5. c \in Nat /\ a \in Nat /\ c <= a
      BY <2>1, <3>4, HeldIs, FewerServing
    <3>6. d \in Nat /\ d <= 1
      <4>1. IsFiniteSet({r}) /\ Cardinality({r}) = 1
        BY FS_Singleton
      <4> QED
        BY <3>3, <3>4, <4>1, FewerServing
    <3>7. a + 1 <= MaxPdfs
      BY <2>2, <3>1, <3>4
    <3>8. c + d <= MaxPdfs
      BY <3>5, <3>6, <3>7
    <3> QED
      BY <3>4, <3>8 DEF Held
  <2>3. CASE ~(Inserting(q) /\ q.user = u)
    <3>1. Waiting(u)' \subseteq Waiting(u)
      BY <1>5, <2>3 DEF Waiting, Inserting
    <3> QED
      BY <2>1, <3>1, HeldLess
  <2> QED
    BY <2>2, <2>3
<1>7. (\A u \in User : Held(u) <= MaxPdfs)'
  BY <1>6
<1>8. (QuotaHeld <=> \A u \in User : Held(u) <= MaxPdfs)'
  BY QuotaIs, PTL
<1> QED
  BY <1>7, <1>8

\* The PDF whose row is inserted was waiting, and is stored from then on.
LEMMA QuotaByInsertion ==
  ASSUME TypeOK, Blanks, Requests, Locked, Bounded, FinitelyMany, QuotaHeld,
         NEW r \in Request, InsertLink(r)
  PROVE  QuotaHeld'
<1>1. PICK x \in Link :
        /\ Inserted(r, x) /\ ~Blank(x)' /\ x \notin Rows
        /\ \A m \in Link : m # x => link'[m] = link[m]
        /\ Rows' = Rows \cup {x}
        /\ \A m \in Rows : link[m].id < link'[x].id
        /\ req[r].user \in User /\ req'[r] = Idle
  BY InsertedRows
<1>2. /\ blob' = blob /\ req' = [req EXCEPT ![r] = Idle]
      /\ link'[x].kind = req[r].kind /\ link'[x].creator = req[r].user
  BY <1>1 DEF Inserted
<1>3. \A s \in Request : s # r => req'[s] = req[s]
  BY <1>2 DEF TypeOK
<1>4. \A u : Waiting(u)' \subseteq Waiting(u) \ {r}
  BY <1>1, <1>3, IdleTyped DEF Waiting, Inserting
<1>5. ASSUME NEW u \in User PROVE Held(u)' <= MaxPdfs
  <2>1. Held(u) <= MaxPdfs
    BY <1>5, QuotaIs
  <2>2. CASE req[r].kind = "pdf" /\ req[r].user = u
    <3>1. Stored(u)' \subseteq Stored(u) \cup {x}
      BY <1>1, <1>2, RowsAre DEF Stored, Pdfs
    <3>2. r \in Waiting(u)
      BY <2>2 DEF Waiting, Inserting, InsertLink, At
    <3>3. PICK a, b, c, d : /\ a = Cardinality(Stored(u)) /\ b = Cardinality(Waiting(u))
                            /\ c = Cardinality(Stored(u)') /\ d = Cardinality(Waiting(u)')
      OBVIOUS
    <3>4. c \in Nat /\ a \in Nat /\ c <= a + 1
      <4>1. IsFiniteSet(Stored(u)) /\ a \in Nat
        BY <3>3, HeldIs
      <4>2. /\ IsFiniteSet(Stored(u) \cup {x})
            /\ Cardinality(Stored(u) \cup {x}) = a \/ Cardinality(Stored(u) \cup {x}) = a + 1
        BY <3>3, <4>1, FS_AddElement
      <4> QED
        BY <3>1, <3>3, <4>1, <4>2, FewerServing
    <3>5. d \in Nat /\ b \in Nat /\ d <= b - 1
      <4>1. IsFiniteSet(Waiting(u)) /\ b \in Nat
        BY <3>3, HeldIs
      <4>2. IsFiniteSet(Waiting(u) \ {r}) /\ Cardinality(Waiting(u) \ {r}) = b - 1
        BY <3>2, <3>3, <4>1, FS_RemoveElement
      <4> QED
        BY <1>4, <3>3, <4>1, <4>2, FewerServing
    <3>6. a + b <= MaxPdfs
      BY <2>1, <3>3 DEF Held
    <3>7. c + d <= MaxPdfs
      BY <3>4, <3>5, <3>6
    <3> QED
      BY <3>3, <3>7 DEF Held
  <2>3. CASE ~(req[r].kind = "pdf" /\ req[r].user = u)
    <3>1. Stored(u)' \subseteq Stored(u)
      BY <1>1, <1>2, <2>3, RowsAre DEF Stored, Pdfs
    <3>2. Waiting(u)' \subseteq Waiting(u)
      BY <1>4
    <3> QED
      BY <2>1, <3>1, <3>2, HeldLess
  <2> QED
    BY <2>2, <2>3
<1>6. (\A u \in User : Held(u) <= MaxPdfs)'
  BY <1>5
<1>7. (QuotaHeld <=> \A u \in User : Held(u) <= MaxPdfs)'
  BY QuotaIs, PTL
<1> QED
  BY <1>6, <1>7

LEMMA QuotaStep ==
  ASSUME TypeOK, Blanks, Requests, Locked, Locked', Bounded, FinitelyMany, QuotaHeld, [Next]_vars
  PROVE  QuotaHeld'
<1>1. ASSUME NEW r \in Request, MeasureAndWrite(r) PROVE QuotaHeld'
  BY <1>1, QuotaByWrite
<1>2. ASSUME NEW r \in Request, InsertLink(r) PROVE QuotaHeld'
  BY <1>2, QuotaByInsertion
<1>3. ASSUME Aged, \A u : Waiting(u)' \subseteq Waiting(u) PROVE QuotaHeld'
  <2>1. ASSUME NEW u \in User PROVE Held(u)' <= MaxPdfs
    BY <1>3, <2>1, Files, StoredLess, HeldLess, QuotaIs
  <2>2. (\A u \in User : Held(u) <= MaxPdfs)'
    BY <2>1
  <2>3. (QuotaHeld <=> \A u \in User : Held(u) <= MaxPdfs)'
    BY QuotaIs, PTL
  <2> QED
    BY <2>2, <2>3
<1>4. ASSUME NEW r \in Request, RequestStep(r), ~MeasureAndWrite(r), ~InsertLink(r)
      PROVE  QuotaHeld'
  <2>1. PICK q : Turn(r, q)
    BY <1>4, Turns
  <2>2. \A s \in Request : s # r => req'[s] = req[s]
    BY <2>1 DEF Turn, TypeOK
  <2>3. ~Inserting(req'[r])
    BY <1>4, After
  <2>4. \A u : Waiting(u)' \subseteq Waiting(u)
    BY <2>2, <2>3 DEF Waiting, Inserting
  <2> QED
    BY <1>3, <1>4, <2>4, Ages
<1>5. CASE World \/ Restart \/ UNCHANGED vars
  <2>1. \A s \in Request : req'[s] = req[s] \/ req'[s] = Idle
    BY <1>5 DEF World, Restart, vars, InstallApp, ToggleApp, Expire, DeleteUser
  <2>2. \A u : Waiting(u)' \subseteq Waiting(u)
    BY <2>1, IdleTyped DEF Waiting, Inserting
  <2> QED
    BY <1>3, <1>5, <2>2, AgesToo
<1> QED
  BY <1>1, <1>2, <1>4, <1>5, NextIs

-----------------------------------------------------------------------------
(***************************************************************************)
(* The files of live links.                                                 *)
(***************************************************************************)
\* A link that was live and is there still has its file, or someone who deletes it or its
\* app has taken the file.
Safe(r) ==
  \A l \in Link : /\ l \in Pdfs(Rows) /\ ~Dead(l) /\ link'[l].id # 0
                  /\ l \in blob \/ l \in req[r].files
                  => l \in blob' \/ l \in req'[r].files

LEMMA SafeTurn ==
  ASSUME TypeOK, Blanks, Requests, NEW r \in Request, RequestStep(r), ~InsertLink(r)
  PROVE  Safe(r)
<1>1. req[r] \in RequestState /\ Sound(req[r])
  BY DEF TypeOK, Requests
<1>2. \A l \in Rows : link[l] \in Row /\ link[l].id # 0 /\ l \in Link
  BY RowsAre DEF TypeOK
<1>3. ASSUME NEW L, DeleteRows(L), NEW l \in Link, l \in L PROVE link'[l].id = 0
  <2>1. link'[l] = [link[l] EXCEPT !.id = 0] /\ link[l] \in Row
    BY <1>3 DEF DeleteRows, TypeOK
  <2> QED
    BY <2>1 DEF Row
<1>4. CASE req[r].files = {} /\ blob \subseteq blob'
  BY <1>4 DEF Safe
<1>5. CASE AcquireQuotaLock(r)
  <2>1. req[r].files = {}
    BY <1>1, <1>5 DEF AcquireQuotaLock, At, Sound
  <2>2. \A l \in Link : l \in blob /\ ~Dead(l) => l \in blob'
    BY <1>5 DEF AcquireQuotaLock, Pdfs
  <2> QED
    BY <2>1, <2>2 DEF Safe
<1>6. CASE BeginDelete(r)
  <2>1. PICK l \in Rows :
          /\ blob' = blob \ {l}
          /\ req[r] = Idle
          /\ req' = [req EXCEPT ![r] =
            [Idle EXCEPT !.op = "delete_link", !.pc = "writing", !.id = link[l].id, !.files = {l}]]
    BY <1>6 DEF BeginDelete, Accept
  <2>2. req[r].files = {}
    BY <2>1, IdleTyped
  <2>3. req'[r].files = {l}
    BY <2>1, IdleTyped DEF RequestState, TypeOK
  <2> QED
    BY <2>1, <2>2, <2>3 DEF Safe
<1>7. CASE CommitDelete(r)
  <2>1. PICK x \in Link : req[r].files = {x} /\ req[r].id # 0 /\ link[x].id \in {0, req[r].id}
    BY <1>1, <1>7 DEF Sound, CommitDelete, At
  <2>2. DeleteRows(ById(req[r].id)) /\ blob' = blob
    BY <1>7 DEF CommitDelete
  <2>3. x \in Rows => link'[x].id = 0
    BY <1>2, <1>3, <2>1, <2>2 DEF ById
  <2> QED
    BY <2>1, <2>2, <2>3 DEF Safe, Pdfs
<1>8. CASE DeleteAppFiles(r)
  <2>1. req[r].files = {}
    BY <1>1, <1>8 DEF DeleteAppFiles, At, Sound
  <2>2. PICK F : F = Pdfs(LinksOf(req[r].app)) /\ blob' = blob \ F
                 /\ req' = [req EXCEPT ![r].pc = "rows", ![r].files = F]
    BY <1>8 DEF DeleteAppFiles
  <2>3. req'[r].files = F
    BY <1>1, <2>2 DEF RequestState, TypeOK
  <2> QED
    BY <2>1, <2>2, <2>3 DEF Safe
<1>9. CASE DeleteAppRows(r)
  <2>1. DeleteRows(LinksOf(req[r].app)) /\ blob' = blob
    BY <1>9 DEF DeleteAppRows
  <2>2. \A l \in req[r].files : l \in Link /\ link[l].app = req[r].app
    BY <1>1, <1>9 DEF DeleteAppRows, At, Sound, RequestState
  <2>3. \A l \in req[r].files : l \in Rows => link'[l].id = 0
    BY <1>3, <2>1, <2>2 DEF LinksOf
  <2> QED
    BY <2>1, <2>3 DEF Safe, Pdfs
<1>10. CASE DeleteAppRow(r)
  <2>1. \A l \in req[r].files : link[l].id = 0
    BY <1>1, <1>10 DEF DeleteAppRow, At, Sound
  <2>2. blob' = blob
    BY <1>10 DEF DeleteAppRow
  <2> QED
    BY <1>2, <2>1, <2>2 DEF Safe, Pdfs
<1>11. CASE \/ PurgeRows(r) \/ MeasureAndWrite(r) \/ ResolveTarget(r) \/ RecordView(r)
            \/ Serve(r) \/ ServeNothing(r) \/ CommitRevoke(r) \/ CommitPurge(r)
  <2>1. req[r].op \notin {"delete_link", "delete_app"}
    BY <1>11 DEF PurgeRows, MeasureAndWrite, ResolveTarget, RecordView, Serve, ServeNothing,
       CommitRevoke, CommitPurge, At
  <2>2. req[r].files = {}
    BY <1>1, <2>1 DEF Sound
  <2>3. blob \subseteq blob'
    BY <1>11 DEF PurgeRows, MeasureAndWrite, ResolveTarget, RecordView, Serve, ServeNothing,
       CommitRevoke, CommitPurge
  <2> QED
    BY <1>4, <2>2, <2>3
<1>12. CASE BeginMint(r) \/ LookupActive(r) \/ BeginRevoke(r) \/ BeginDeleteApp(r)
  <2>1. req[r] = Idle /\ blob' = blob
    BY <1>12 DEF BeginMint, LookupActive, BeginRevoke, BeginDeleteApp, Accept
  <2> QED
    BY <1>4, <2>1, IdleTyped
<1>13. CASE BeginPurge(r)
  <2>1. req[r].files = {}
    BY <1>13, IdleTyped DEF BeginPurge, Accept
  <2>2. \A l \in Link : l \in blob /\ ~Dead(l) => l \in blob'
    BY <1>13 DEF BeginPurge, Pdfs
  <2> QED
    BY <2>1, <2>2 DEF Safe
<1> QED
  BY <1>5, <1>6, <1>7, <1>8, <1>9, <1>10, <1>11, <1>12, <1>13 DEF RequestStep, Mint, View, Manage

\* A link that is live was live: what is dead stays dead.
LEMMA WasLive ==
  ASSUME TypeOK, Blanks, Aged, NEW l \in Link,
         l \in Rows', link'[l].kind = "pdf", ~Dead(l)'
  PROVE  l \in Pdfs(Rows) /\ ~Dead(l)
<1>1. l \in Rows /\ link[l].kind = "pdf"
  BY AgedRows DEF Aged, Older
<1>2. link[l].views \in Nat /\ link'[l].views \in Nat /\ link[l].views <= link'[l].views
      /\ link[l].cap \in Nat /\ link'[l].cap = link[l].cap
  BY LinkFields, RowFields DEF Aged, Older
<1>3. ~link'[l].revoked /\ ~link'[l].expired
      /\ ~(link'[l].cap > 0 /\ link'[l].views >= link'[l].cap)
  BY Zenon DEF Dead
<1>4. ~link[l].revoked /\ ~link[l].expired
  BY <1>3, Zenon DEF Aged, Older
<1>5. ~(link[l].cap > 0 /\ link[l].views >= link[l].cap)
  BY <1>2, <1>3
<1>6. ~Dead(l)
  BY <1>4, <1>5, Zenon DEF Dead
<1> QED
  BY <1>1, <1>6 DEF Pdfs

\* That l has its file, or someone who deletes it has it.
Filed(l) == l \in blob \/ \E r \in Request : l \in req[r].files

LEMMA FilesStep ==
  ASSUME TypeOK, Blanks, Requests, Locked, Bounded, LiveHasFile, [Next]_vars
  PROVE  LiveHasFile'
<1>1. CASE Restart
  <2>1. restarts' # 0
    BY <1>1 DEF Restart, TypeOK
  <2> QED
    BY <2>1 DEF LiveHasFile
<1>2. CASE ~Restart
  <2>1. restarts' = restarts
    <3>1. ASSUME NEW r \in Request, RequestStep(r) PROVE restarts' = restarts
      BY <3>1 DEF RequestStep, Mint, View, Manage, BeginMint,
        AcquireQuotaLock, PurgeRows, MeasureAndWrite, InsertLink, LookupActive,
        ResolveTarget, RecordView, Serve, ServeNothing, BeginRevoke, CommitRevoke, BeginDelete,
        CommitDelete, BeginDeleteApp, DeleteAppFiles, DeleteAppRows, DeleteAppRow, BeginPurge, CommitPurge
    <3>2. World \/ UNCHANGED vars => restarts' = restarts
      BY DEF World, vars, InstallApp, ToggleApp, Expire, DeleteUser
    <3> QED
      BY <1>2, <3>1, <3>2, NextIs
  <2> SUFFICES ASSUME restarts = 0, NEW l \in Link,
                      l \in Rows', link'[l].kind = "pdf", ~Dead(l)'
               PROVE  Filed(l)'
    BY <2>1 DEF LiveHasFile, Filed, Pdfs, Rows
  <2>2. link'[l].id # 0
    BY DEF Rows
  <2>3. ASSUME Aged PROVE l \in Pdfs(Rows) /\ ~Dead(l) /\ Filed(l)
    <3>1. l \in Pdfs(Rows) /\ ~Dead(l)
      BY <2>3, WasLive
    <3> QED
      BY <3>1 DEF LiveHasFile, Filed
  <2>4. ASSUME NEW r \in Request, RequestStep(r), ~InsertLink(r) PROVE Filed(l)'
    <3>1. l \in Pdfs(Rows) /\ ~Dead(l) /\ Filed(l)
      BY <2>3, <2>4, Ages
    <3>2. Safe(r)
      BY <2>4, SafeTurn
    <3>3. PICK q : Turn(r, q)
      BY <2>4, Turns
    <3>4. \A s \in Request : s # r => req'[s] = req[s]
      BY <3>3 DEF Turn, TypeOK
    <3>5. CASE l \in blob \/ l \in req[r].files
      <4>1. l \in blob' \/ l \in req'[r].files
        BY <2>2, <3>1, <3>2, <3>5 DEF Safe
      <4> QED
        BY <4>1 DEF Filed
    <3>6. CASE \E s \in Request : s # r /\ l \in req[s].files
      BY <3>4, <3>6 DEF Filed
    <3> QED
      BY <3>1, <3>5, <3>6 DEF Filed
  <2>5. ASSUME NEW r \in Request, InsertLink(r) PROVE Filed(l)'
    <3>1. PICK x \in Link :
            /\ Inserted(r, x) /\ ~Blank(x)' /\ x \notin Rows
            /\ \A m \in Link : m # x => link'[m] = link[m]
            /\ Rows' = Rows \cup {x}
            /\ \A m \in Rows : link[m].id < link'[x].id
            /\ req[r].user \in User /\ req'[r] = Idle
      BY <2>5, InsertedRows
    <3>2. blob' = blob /\ req' = [req EXCEPT ![r] = Idle]
      BY <3>1 DEF Inserted
    <3>3. req[r].files = {}
      BY <2>5 DEF Requests, Sound, InsertLink, At
    <3>4. CASE l = x
      <4>1. req[r].kind = "pdf" /\ l = req[r].link
        BY <3>1, <3>4 DEF Inserted
      <4>2. l \in blob
        BY <2>5, <4>1 DEF Requests, Sound, Inserting, InsertLink, At
      <4> QED
        BY <3>2, <4>2 DEF Filed
    <3>5. CASE l # x
      <4>1. l \in Rows /\ link'[l] = link[l]
        BY <3>1, <3>5
      <4>2. l \in Pdfs(Rows) /\ ~Dead(l)
        BY <4>1 DEF Pdfs, Dead
      <4>3. Filed(l)
        BY <4>2 DEF LiveHasFile, Filed
      <4>4. \A s \in Request : s # r => req'[s] = req[s]
        BY <3>2 DEF TypeOK
      <4> QED
        BY <3>2, <3>3, <4>3, <4>4 DEF Filed
    <3> QED
      BY <3>4, <3>5
  <2>6. CASE World \/ UNCHANGED vars
    <3>1. l \in Pdfs(Rows) /\ ~Dead(l) /\ Filed(l)
      BY <2>3, <2>6, AgesToo
    <3>2. req' = req
      BY <2>6 DEF World, vars, InstallApp, ToggleApp, Expire, DeleteUser
    <3>3. l \in blob => l \in blob'
      <4>1. ASSUME NEW u \in User, DeleteUser(u), l \in blob PROVE l \in blob'
        <5>1. PICK own : own \subseteq Rows /\ blob' = blob \ Pdfs(own) /\ DeleteRows(own)
          BY <4>1 DEF DeleteUser
        <5>2. l \notin own
          <6> SUFFICES ASSUME l \in own PROVE FALSE
            OBVIOUS
          <6>1. link'[l] = [link[l] EXCEPT !.id = 0] /\ link[l] \in Row
            BY <5>1 DEF DeleteRows, TypeOK
          <6> QED
            BY <2>2, <6>1 DEF Row
        <5> QED
          BY <4>1, <5>1, <5>2 DEF Pdfs
      <4> QED
        BY <2>6, <4>1 DEF World, vars, InstallApp, ToggleApp, Expire
    <3> QED
      BY <3>1, <3>2, <3>3 DEF Filed
  <2> QED
    BY <1>2, <2>4, <2>5, <2>6, NextIs
<1> QED
  BY <1>1, <1>2

-----------------------------------------------------------------------------
LEMMA InitInv == Init => IInv
<1> SUFFICES ASSUME Init PROVE IInv
  OBVIOUS
<1>1. TypeOK
  <2>1. req \in [Request -> RequestState] /\ link \in [Link -> Row]
    BY IdleTyped, NoRowTyped DEF Init
  <2> QED
    BY <2>1 DEF Init, TypeOK
<1>2. \A r \in Request : req[r] = Idle
  BY DEF Init
<1>3. \A l \in Link : link[l] = NoRow
  BY DEF Init
<1>4. Rows = {}
  BY <1>3, NoRowTyped DEF Rows
<1>5. Blanks
  BY <1>3, NoRowTyped DEF Blanks, Blank
<1>6. Requests /\ Locked
  BY <1>2, IdleSound DEF Requests, Locked
<1>7. DistinctIds
  BY <1>4 DEF DistinctIds
<1>8. Bounded
  <2>1. \A l \in Link : link[l].id <= 0
    BY <1>3, NoRowTyped
  <2>2. \A s \in App : app[s] <= 0
    BY DEF Init
  <2> QED
    BY <2>1, <2>2 DEF Bounded
<1>9. FinitelyMany
  <2>1. {r \in Request : req[r] # Idle} = {}
    BY <1>2
  <2> QED
    BY <1>4, <2>1, FS_EmptySet DEF FinitelyMany
<1>10. Counted
  BY <1>4 DEF Counted, Init
<1>11. QuotaHeld
  <2>1. ASSUME NEW u \in User PROVE Held(u) <= MaxPdfs
    <3>1. Stored(u) = {} /\ Waiting(u) = {}
      BY <1>2, <1>4, IdleTyped DEF Stored, Pdfs, Waiting, Inserting
    <3>2. Cardinality(Stored(u)) = 0 /\ Cardinality(Waiting(u)) = 0
      BY <3>1, FS_EmptySet
    <3> QED
      BY <3>2 DEF Held
  <2> QED
    BY <2>1, QuotaIs
<1>12. LiveHasFile
  BY <1>4 DEF LiveHasFile, Pdfs
<1> QED
  BY <1>1, <1>5, <1>6, <1>7, <1>8, <1>9, <1>10, <1>11, <1>12 DEF IInv

LEMMA NextInv == IInv /\ [Next]_vars => IInv'
<1> SUFFICES ASSUME IInv, [Next]_vars PROVE IInv'
  OBVIOUS
<1>1. /\ TypeOK /\ Blanks /\ Requests /\ Locked /\ DistinctIds /\ Bounded /\ FinitelyMany
      /\ Counted /\ QuotaHeld /\ LiveHasFile
  BY DEF IInv
<1>2. TypeOK'
  BY <1>1, TypeStep
<1>3. Requests' /\ Locked'
  BY <1>1, RequestsStep
<1>4. Blanks' /\ DistinctIds' /\ IsFiniteSet(Rows)'
  BY <1>1, RowsStep
<1>5. Bounded'
  BY <1>1, BoundedStep
<1>6. FinitelyMany'
  BY <1>1, <1>4, InFlightStep DEF FinitelyMany
<1>7. Counted'
  BY <1>1, CountedStep
<1>8. QuotaHeld'
  BY <1>1, <1>3, QuotaStep
<1>9. LiveHasFile'
  BY <1>1, FilesStep
<1> QED
  BY <1>2, <1>3, <1>4, <1>5, <1>6, <1>7, <1>8, <1>9 DEF IInv

\* The inductive invariant of the share links, for any apps, users, tokens, requests,
\* caps and quota.
THEOREM Invariance == Spec => []IInv
  BY InitInv, NextInv, PTL DEF Spec

\* The tables, the files, the lock and the requests stay within their types.
THEOREM TypeCorrect == Spec => []TypeOK
<1>1. IInv => TypeOK
  BY DEF IInv
<1> QED
  BY <1>1, Invariance, PTL

\* A link never goes out more often than it was counted, nor than its cap, however many
\* viewers arrive at once (shares.py record_view: the UPDATE that counts tests the cap).
THEOREM Capped == Spec => []CapHolds
<1>1. IInv => CapHolds
  <2> SUFFICES ASSUME IInv, NEW l \in Rows
               PROVE  served[l] <= link[l].views /\ (link[l].cap > 0 => served[l] <= link[l].cap)
    BY DEF CapHolds
  <2>1. TypeOK /\ FinitelyMany /\ Counted
    BY DEF IInv
  <2>2. PICK a : a = Cardinality(Serving(l))
    OBVIOUS
  <2>3. /\ served[l] + a <= link[l].views
        /\ link[l].cap > 0 => served[l] + a <= link[l].cap
    BY <2>1, <2>2 DEF Counted
  <2>4. a \in Nat /\ link[l].views \in Nat /\ link[l].cap \in Nat /\ served[l] \in Nat
    BY <2>1, <2>2, ServingIs, LinkFields, RowsAre
  <2> QED
    BY <2>3, <2>4
<1> QED
  BY <1>1, Invariance, PTL

\* The PDFs of a user's links and the one about to be linked are within the quota, however
\* many creations run at once (shares.py _pdf_share_quota_lock).
THEOREM Quota == Spec => []QuotaHeld
<1>1. IInv => QuotaHeld
  BY DEF IInv
<1> QED
  BY <1>1, Invariance, PTL

\* The purge never takes the file of a link that can still be viewed (shares.py
\* purge_expired_shares beside create, revoke and the deletions).
THEOREM LiveFiles == Spec => []LiveHasFile
<1>1. IInv => LiveHasFile
  BY DEF IInv
<1> QED
  BY <1>1, Invariance, PTL
=============================================================================
