--------------------------- MODULE AppInstallProofs ---------------------------
(***************************************************************************)
(* TypeOK, RowAndFiles, RevocationStands, HandAddedKept and ServicesDeclared *)
(* of one app slug, for any origins, services and manifests, any requests    *)
(* and any ids.                                                              *)
(*                                                                         *)
(* The files: an install holds the lock from the look at the row to the       *)
(* commit, so the row has the id it found, unless a delete ran beside it;     *)
(* the row and the files disagree only between an install's swap and its     *)
(* commit, or a delete's two steps.  The policy: an origin or a service the   *)
(* admin refused is among the revoked ones, and what was added by hand is     *)
(* none that a manifest asked for.                                            *)
(***************************************************************************)
EXTENDS AppInstall, TLAPS

Locked     == {"checking", "swapping", "committing"}
Installing == {"waiting"} \cup Locked
Deleting   == {"files", "row"}
Tracked    == Locked \cup Deleting

\* What a request in flight is about.
Sound(q) ==
  /\ q.op = "install" <=> q.pc \in Installing
  /\ q.op = "delete" <=> q.pc \in Deleting
  /\ q.op = "install" => q.manifest \in Manifest
  /\ q.op = "delete" => q.loaded.id # 0
  /\ q.pc = "checking" => q.loaded.id = 0

Requests == \A r \in Request : Sound(req[r])

\* One install is past the lock at a time.
Exclusive == \A r \in Request : req[r].pc \in Locked => lock = r

\* Until the history says so, no delete runs beside an install or another delete.
NoOverlap ==
  ~overlap =>
    \A r, s \in Request :
      r # s /\ req[r].op = "delete" => req[s].op \notin {"install", "delete"}

\* Then an install or a delete finds the row, or finds none, as when it loaded it.
Located ==
  ~overlap => \A r \in Request : req[r].pc \in Tracked => row.id = req[r].loaded.id

\* The row and the files agree, but in the middle of an install or of a delete.
Between == {"committing", "row"}

Files ==
  ~overlap /\ restarts = 0 =>
    /\ \A r \in Request : req[r].pc = "committing" => bundle # None
    /\ \A r \in Request : req[r].pc = "row" => bundle = None
    /\ (\A r \in Request : req[r].pc \notin Between) => (row.id # 0 <=> bundle # None)

\* What the admin said is in the columns that the next install reads.
Policy ==
  ~raced =>
    /\ word.refused \subseteq row.revoked
    /\ word.refusedServices \subseteq row.revokedServices
    /\ row.requested \subseteq word.asked
    /\ word.added \cap word.asked = {}

IInv ==
  /\ TypeOK /\ Requests
  /\ Exclusive /\ NoOverlap /\ Located /\ Files
  /\ Policy /\ RevocationStands /\ HandAddedKept /\ ServicesDeclared
-----------------------------------------------------------------------------
(***************************************************************************)
(* Steps.  A request's step is a turn of that request: what it makes of the  *)
(* request, of the lock, of the history of overlaps, and of row and files.   *)
(***************************************************************************)
USE NoneAssumption, ManifestAssumption, BoundAssumption

LEMMA NoRowTyped == NoRow \in Row /\ NoRow.id = 0
  BY DEF NoRow, Row

LEMMA IdleTyped ==
  /\ Idle \in RequestState /\ Sound(Idle)
  /\ Idle.pc = "idle" /\ Idle.op = "none"
<1>1. Idle \in RequestState
  BY NoRowTyped DEF Idle, RequestState, Ops, PCs
<1> QED
  BY <1>1 DEF Idle, Sound, Installing, Locked, Deleting

\* The request becomes q.
Becomes(r, q) ==
  /\ q \in RequestState /\ Sound(q)
  /\ req' = [req EXCEPT ![r] = q]

\* It takes the lock, keeps it, or gives up what it holds.
Locking(r, q) ==
  \/ q.pc \in Locked /\ req[r].pc \in Locked /\ lock' = lock
  \/ q.pc \in Locked /\ lock = None /\ lock' = r
  \/ q.pc \notin Locked /\ lock' = lock
  \/ q.pc \notin Locked /\ req[r].pc \in Locked /\ lock' = None

\* Who begins looks around.
Overlapping(r, q) ==
  ~overlap' =>
    /\ ~overlap
    /\ q.op \in {"install", "delete"} /\ q.op # req[r].op =>
         \A s \in Request : /\ req[s].op # "delete"
                            /\ q.op = "delete" => req[s].op # "install"

Neither(r, q)   == /\ row'.id = row.id /\ bundle' = bundle
                   /\ q.pc \notin Between /\ req[r].pc \notin Between
                   /\ q.pc \in Tracked =>
                        \/ q.loaded.id = row.id
                        \/ req[r].pc \in Tracked /\ q.loaded = req[r].loaded
Swapped(r, q)   == /\ row'.id = row.id /\ bundle' \in Manifest
                   /\ req[r].pc = "swapping" /\ q.pc = "committing" /\ q.loaded = req[r].loaded
Updated(r, q)   == /\ row'.id = row.id /\ bundle' = bundle
                   /\ req[r].pc = "committing" /\ req[r].loaded.id # 0 /\ q = Idle
Inserted(r, q)  == /\ \/ row.id = 0 /\ row'.id # 0 /\ bundle' = bundle
                      \/ row'.id = row.id /\ bundle' = None
                   /\ req[r].pc = "committing" /\ req[r].loaded.id = 0 /\ q = Idle
FilesGone(r, q) == /\ row'.id = row.id /\ bundle' = None
                   /\ req[r].pc = "files" /\ q.pc = "row" /\ q.loaded = req[r].loaded
RowGone(r, q)   == /\ row'.id = IF RowIsThere(r) THEN 0 ELSE row.id
                   /\ bundle' = bundle
                   /\ req[r].pc = "row" /\ q = Idle

Effect(r, q) == \/ Neither(r, q) \/ Swapped(r, q) \/ Updated(r, q)
                \/ Inserted(r, q) \/ FilesGone(r, q) \/ RowGone(r, q)

Turn(r, q) ==
  /\ Becomes(r, q) /\ Locking(r, q) /\ Overlapping(r, q) /\ Effect(r, q)
  /\ restarts' = restarts

RequestStep(r) == Install(r) \/ Edit(r) \/ Delete(r)

LEMMA Turns ==
  ASSUME TypeOK, Requests, NEW r \in Request, RequestStep(r)
  PROVE  \E q : Turn(r, q)
<1>0. /\ req[r] \in RequestState /\ Sound(req[r]) /\ req \in [Request -> RequestState]
      /\ Idle \in RequestState /\ Sound(Idle) /\ Idle.pc = "idle" /\ Idle.op = "none"
      /\ row \in Row /\ NoRow \in Row /\ NoRow.id = 0
  BY IdleTyped, NoRowTyped DEF TypeOK, Requests
<1>a. ASSUME NEW m \in Manifest, NEW b \in BOOLEAN, NEW loaded \in Row, Arrive(r, m, b, loaded),
             row' = row, bundle' = bundle, lock' = lock, restarts' = restarts
      PROVE  \E q : Turn(r, q)
  <2>1. PICK q : q = [op |-> "install", pc |-> "waiting", manifest |-> m,
                      replace |-> b, loaded |-> loaded]
    OBVIOUS
  <2>2. q \in RequestState /\ Sound(q) /\ q.pc = "waiting" /\ q.op = "install"
    BY <2>1 DEF RequestState, Ops, PCs, Sound, Installing, Locked, Deleting
  <2>3. req[r] = Idle /\ req' = [req EXCEPT ![r] = q]
    BY <1>a, <2>1 DEF Arrive, Accept
  <2>4. Overlapping(r, q)
    BY <1>a, <2>2 DEF Arrive, Overlapping, Busy
  <2>5. Locking(r, q) /\ Neither(r, q)
    BY <1>0, <1>a, <2>2, <2>3 DEF Locking, Locked, Neither, Between, Tracked, Deleting
  <2> QED
    BY <1>a, <2>2, <2>3, <2>4, <2>5 DEF Turn, Becomes, Effect
<1>1. ASSUME BeginInstall(r) PROVE \E q : Turn(r, q)
  BY <1>1, <1>0, <1>a DEF BeginInstall
<1>2. ASSUME BeginReplace(r) PROVE \E q : Turn(r, q)
  BY <1>2, <1>0, <1>a DEF BeginReplace
<1>3. ASSUME Upload(r) PROVE \E q : Turn(r, q)
  BY <1>3, <1>0, <1>a DEF Upload
<1>4. ASSUME ConfirmUpload(r) PROVE \E q : Turn(r, q)
  BY <1>4, <1>0, <1>a DEF ConfirmUpload, TypeOK
<1>5. ASSUME LoadExisting(r) PROVE \E q : Turn(r, q)
  <2> DEFINE loaded == IF RowIsThere(r) THEN req[r].loaded ELSE row
  <2>a. loaded \in Row /\ loaded.id = row.id
    BY <1>0 DEF RequestState, RowIsThere
  <2> HIDE DEF loaded
  <2>b. At(r, "install", "waiting") /\ lock = None /\ row' = row /\ bundle' = bundle
        /\ overlap' = overlap /\ restarts' = restarts
    BY <1>5 DEF LoadExisting
  <2>1. CASE row.id # 0 /\ ~req[r].replace
    <3>1. req' = [req EXCEPT ![r] = Idle] /\ lock' = lock
      BY <1>5, <2>1 DEF LoadExisting, Finish
    <3> QED
      BY <1>0, <2>b, <3>1 DEF Turn, Becomes, Locking, Overlapping, Effect, Neither, At,
                             Locked, Between, Tracked, Deleting
  <2>2. CASE ~(row.id # 0 /\ ~req[r].replace)
    <3>1. PICK pc : pc = IF row.id = 0 THEN "checking" ELSE "swapping"
      OBVIOUS
    <3>2. PICK q : q = [req[r] EXCEPT !.loaded = loaded, !.pc = pc]
      OBVIOUS
    <3>3. req' = [req EXCEPT ![r] = q] /\ lock' = r
      BY <1>5, <1>0, <2>2, <3>1, <3>2 DEF LoadExisting, loaded
    <3>4. q \in RequestState
      BY <1>0, <2>a, <3>1, <3>2 DEF RequestState, PCs
    <3>5. /\ q.op = req[r].op /\ q.loaded = loaded /\ q.manifest = req[r].manifest
          /\ q.pc = pc
      BY <1>0, <3>2 DEF RequestState
    <3>6. Sound(q)
      BY <1>0, <2>a, <2>b, <3>1, <3>5 DEF At, Sound, Installing, Locked, Deleting
    <3>7. Locking(r, q) /\ Overlapping(r, q)
      BY <2>b, <3>1, <3>3, <3>5 DEF At, Locking, Locked, Overlapping
    <3>8. Neither(r, q)
      BY <2>a, <2>b, <3>1, <3>5 DEF At, Neither, Between
    <3> QED
      BY <2>b, <3>3, <3>4, <3>6, <3>7, <3>8 DEF Turn, Becomes, Effect
  <2> QED
    BY <2>1, <2>2
<1>6. ASSUME CheckOrphan(r) PROVE \E q : Turn(r, q)
  <2>b. At(r, "install", "checking") /\ row' = row /\ bundle' = bundle
        /\ overlap' = overlap /\ restarts' = restarts
    BY <1>6 DEF CheckOrphan
  <2>1. CASE bundle # None
    <3>1. req' = [req EXCEPT ![r] = Idle] /\ lock' = None
      BY <1>6, <2>1 DEF CheckOrphan, Finish
    <3> QED
      BY <1>0, <2>b, <3>1 DEF Turn, Becomes, Locking, Overlapping, Effect, Neither, At,
                             Locked, Between, Tracked, Deleting
  <2>2. CASE bundle = None
    <3>1. PICK q : q = [req[r] EXCEPT !.pc = "swapping"]
      OBVIOUS
    <3>2. req' = [req EXCEPT ![r] = q] /\ lock' = lock
      BY <1>6, <1>0, <2>2, <3>1 DEF CheckOrphan, Goto
    <3>3. q \in RequestState
      BY <1>0, <3>1 DEF RequestState, PCs
    <3>4. /\ q.op = req[r].op /\ q.loaded = req[r].loaded /\ q.manifest = req[r].manifest
          /\ q.pc = "swapping"
      BY <1>0, <3>1 DEF RequestState
    <3>5. Sound(q)
      BY <1>0, <2>b, <3>4 DEF At, Sound, Installing, Locked, Deleting
    <3>6. Locking(r, q) /\ Overlapping(r, q)
      BY <2>b, <3>2, <3>4 DEF At, Locking, Locked, Overlapping
    <3>7. Neither(r, q)
      BY <2>b, <3>4 DEF At, Neither, Between, Tracked, Locked
    <3> QED
      BY <2>b, <3>2, <3>3, <3>5, <3>6, <3>7 DEF Turn, Becomes, Effect
  <2> QED
    BY <2>1, <2>2
<1>7. ASSUME SwapBundle(r) PROVE \E q : Turn(r, q)
  <2>1. PICK q : q = [req[r] EXCEPT !.pc = "committing"]
    OBVIOUS
  <2>2. q \in RequestState
    BY <1>0, <2>1 DEF RequestState, PCs
  <2>3. req' = [req EXCEPT ![r] = q]
    BY <1>7, <1>0, <2>1 DEF SwapBundle, Goto
  <2>4. /\ q.op = req[r].op /\ q.loaded = req[r].loaded /\ q.manifest = req[r].manifest
        /\ q.pc = "committing"
    BY <1>0, <2>1 DEF RequestState
  <2>5. Sound(q)
    BY <1>7, <1>0, <2>4 DEF SwapBundle, At, Sound, Installing, Locked, Deleting
  <2>6. Locking(r, q) /\ Overlapping(r, q)
    BY <1>7, <1>0, <2>4 DEF SwapBundle, At, Locking, Locked, Overlapping
  <2>7. Swapped(r, q)
    BY <1>7, <1>0, <2>4 DEF SwapBundle, At, Swapped, Between, Tracked, Deleting, Locked, Sound
  <2> QED
    BY <1>7, <2>2, <2>3, <2>5, <2>6, <2>7 DEF SwapBundle, Turn, Becomes, Effect
<1>8. ASSUME FailSwap(r) PROVE \E q : Turn(r, q)
  <2>1. PICK q : q = Idle
    OBVIOUS
  <2>2. q \in RequestState /\ Sound(q)
    BY <1>0, <2>1
  <2>3. req' = [req EXCEPT ![r] = q]
    BY <1>8, <1>0, <2>1 DEF FailSwap, Finish
  <2>6. Locking(r, q) /\ Overlapping(r, q)
    BY <1>8, <1>0, <2>1 DEF FailSwap, At, Locking, Locked, Overlapping
  <2>7. Neither(r, q)
    BY <1>8, <1>0, <2>1 DEF FailSwap, At, Neither, Between, Tracked, Deleting, Locked
  <2> QED
    BY <1>8, <2>2, <2>3, <2>6, <2>7 DEF FailSwap, Turn, Becomes, Effect
<1>9. ASSUME InsertRow(r) PROVE \E q : Turn(r, q)
  <2>1. PICK q : q = Idle
    OBVIOUS
  <2>2. q \in RequestState /\ Sound(q)
    BY <1>0, <2>1
  <2>3. req' = [req EXCEPT ![r] = q]
    BY <1>9, <1>0, <2>1 DEF InsertRow, Finish
  <2>6. Locking(r, q) /\ Overlapping(r, q)
    BY <1>9, <1>0, <2>1 DEF InsertRow, At, Locking, Locked, Overlapping, Release
  <2>7. Inserted(r, q)
    BY <1>9, <1>0, <2>1 DEF InsertRow, At, Inserted, Between, Tracked, Deleting, Locked, NewRow
  <2> QED
    BY <1>9, <2>2, <2>3, <2>6, <2>7 DEF InsertRow, Turn, Becomes, Effect
<1>10. ASSUME UpdateRow(r) PROVE \E q : Turn(r, q)
  <2>1. PICK q : q = Idle
    OBVIOUS
  <2>2. q \in RequestState /\ Sound(q)
    BY <1>0, <2>1
  <2>3. req' = [req EXCEPT ![r] = q]
    BY <1>10, <1>0, <2>1 DEF UpdateRow, Finish
  <2>6. Locking(r, q) /\ Overlapping(r, q)
    BY <1>10, <1>0, <2>1 DEF UpdateRow, At, Locking, Locked, Overlapping, Release
  <2>7. Updated(r, q)
    BY <1>10, <1>0, <2>1 DEF UpdateRow, At, Updated, Between, Tracked, Deleting, Locked, Row
  <2> QED
    BY <1>10, <2>2, <2>3, <2>6, <2>7 DEF UpdateRow, Turn, Becomes, Effect
<1>11. ASSUME BeginEdit(r) PROVE \E q : Turn(r, q)
  <2>1. PICK op \in {"network", "services"} :
          Accept(r, [Idle EXCEPT !.op = op, !.pc = "editing", !.loaded = row])
    BY <1>11 DEF BeginEdit
  <2>2. PICK q : q = [Idle EXCEPT !.op = op, !.pc = "editing", !.loaded = row]
    OBVIOUS
  <2>3. q \in RequestState
    BY <1>0, <2>2 DEF RequestState, Ops, PCs
  <2>4. q.op = op /\ q.pc = "editing"
    BY <2>2 DEF Idle
  <2>5. req[r] = Idle /\ req' = [req EXCEPT ![r] = q]
    BY <2>1, <2>2 DEF Accept
  <2>6. Sound(q)
    BY <2>4 DEF Sound, Installing, Locked, Deleting
  <2>7. Locking(r, q) /\ Overlapping(r, q) /\ Neither(r, q)
    BY <1>11, <1>0, <2>4, <2>5 DEF BeginEdit, Locking, Overlapping, Neither, Locked, Between,
                               Tracked, Deleting
  <2> QED
    BY <1>11, <2>3, <2>5, <2>6, <2>7 DEF BeginEdit, Turn, Becomes, Effect
<1>12. ASSUME SaveNetwork(r) PROVE \E q : Turn(r, q)
  <2>1. PICK q : q = Idle
    OBVIOUS
  <2>2. q \in RequestState /\ Sound(q)
    BY <1>0, <2>1
  <2>3. req' = [req EXCEPT ![r] = q]
    BY <1>12, <1>0, <2>1 DEF SaveNetwork, Finish
  <2>6. Locking(r, q) /\ Overlapping(r, q)
    BY <1>12, <1>0, <2>1 DEF SaveNetwork, At, Locking, Locked, Overlapping
  <2>7. Neither(r, q)
    BY <1>12, <1>0, <2>1 DEF SaveNetwork, At, Neither, Between, Tracked, Deleting, Locked, Row
  <2> QED
    BY <1>12, <2>2, <2>3, <2>6, <2>7 DEF SaveNetwork, Turn, Becomes, Effect
<1>13. ASSUME SaveServices(r) PROVE \E q : Turn(r, q)
  <2>1. PICK q : q = Idle
    OBVIOUS
  <2>2. q \in RequestState /\ Sound(q)
    BY <1>0, <2>1
  <2>3. req' = [req EXCEPT ![r] = q]
    BY <1>13, <1>0, <2>1 DEF SaveServices, Finish
  <2>6. Locking(r, q) /\ Overlapping(r, q)
    BY <1>13, <1>0, <2>1 DEF SaveServices, At, Locking, Locked, Overlapping
  <2>7. Neither(r, q)
    BY <1>13, <1>0, <2>1 DEF SaveServices, At, Neither, Between, Tracked, Deleting, Locked, Row
  <2> QED
    BY <1>13, <2>2, <2>3, <2>6, <2>7 DEF SaveServices, Turn, Becomes, Effect
<1>14. ASSUME BeginDelete(r) PROVE \E q : Turn(r, q)
  <2>1. PICK q : q = [Idle EXCEPT !.op = "delete", !.pc = "files", !.loaded = row]
    OBVIOUS
  <2>2. q \in RequestState
    BY <1>0, <2>1 DEF RequestState, Ops, PCs
  <2>3. q.op = "delete" /\ q.pc = "files" /\ q.loaded = row
    BY <2>1 DEF Idle
  <2>4. req[r] = Idle /\ req' = [req EXCEPT ![r] = q] /\ row.id # 0
    BY <1>14, <2>1 DEF BeginDelete, Accept
  <2>5. Sound(q)
    BY <2>3, <2>4 DEF Sound, Installing, Locked, Deleting
  <2>6. Locking(r, q) /\ Neither(r, q)
    BY <1>14, <1>0, <2>3, <2>4 DEF BeginDelete, Locking, Neither, Locked, Between
  <2>7. Overlapping(r, q)
    BY <1>14, <2>3 DEF BeginDelete, Overlapping, Busy
  <2> QED
    BY <1>14, <2>2, <2>4, <2>5, <2>6, <2>7 DEF BeginDelete, Turn, Becomes, Effect
<1>15. ASSUME DeleteFiles(r) PROVE \E q : Turn(r, q)
  <2>1. PICK q : q = [req[r] EXCEPT !.pc = "row"]
    OBVIOUS
  <2>2. q \in RequestState
    BY <1>0, <2>1 DEF RequestState, PCs
  <2>3. req' = [req EXCEPT ![r] = q]
    BY <1>15, <1>0, <2>1 DEF DeleteFiles, Goto
  <2>4. /\ q.op = req[r].op /\ q.loaded = req[r].loaded /\ q.manifest = req[r].manifest
        /\ q.pc = "row"
    BY <1>0, <2>1 DEF RequestState
  <2>5. Sound(q)
    BY <1>15, <1>0, <2>4 DEF DeleteFiles, At, Sound, Installing, Locked, Deleting
  <2>6. Locking(r, q) /\ Overlapping(r, q)
    BY <1>15, <1>0, <2>4 DEF DeleteFiles, At, Locking, Locked, Overlapping
  <2>7. FilesGone(r, q)
    BY <1>15, <1>0, <2>4 DEF DeleteFiles, At, FilesGone, Between, Tracked, Deleting, Locked
  <2> QED
    BY <1>15, <2>2, <2>3, <2>5, <2>6, <2>7 DEF DeleteFiles, Turn, Becomes, Effect
<1>16. ASSUME DeleteRow(r) PROVE \E q : Turn(r, q)
  <2>1. PICK q : q = Idle
    OBVIOUS
  <2>2. q \in RequestState /\ Sound(q)
    BY <1>0, <2>1
  <2>3. req' = [req EXCEPT ![r] = q]
    BY <1>16, <1>0, <2>1 DEF DeleteRow, Finish
  <2>6. Locking(r, q) /\ Overlapping(r, q)
    BY <1>16, <1>0, <2>1 DEF DeleteRow, At, Locking, Locked, Overlapping
  <2>7. RowGone(r, q)
    BY <1>16, <1>0, <2>1 DEF DeleteRow, At, RowGone, Between, Tracked, Deleting, Locked, RowIsThere
  <2> QED
    BY <1>16, <2>2, <2>3, <2>6, <2>7 DEF DeleteRow, Turn, Becomes, Effect
<1> QED
  BY <1>1, <1>2, <1>3, <1>4, <1>5, <1>6, <1>7, <1>8, <1>9, <1>10,
     <1>11, <1>12, <1>13, <1>14, <1>15, <1>16
  DEF RequestStep, Install, Edit, Delete

\* Steps that no request takes leave the requests and the row alone, or end them all.
Quiet == Stash \/ CancelUpload \/ ExpireUpload

LEMMA Steps ==
  ASSUME TypeOK, Requests, [Next]_vars
  PROVE  \/ \E r \in Request : \E q : RequestStep(r) /\ Turn(r, q)
         \/ UNCHANGED <<row, bundle, lock, req, word, raced, overlap, restarts>>
         \/ Restart
<1>1. ASSUME NEW r \in Request, RequestStep(r)
      PROVE  \E s \in Request : \E q : RequestStep(s) /\ Turn(s, q)
  BY <1>1, Turns
<1>2. Quiet \/ UNCHANGED vars
      => UNCHANGED <<row, bundle, lock, req, word, raced, overlap, restarts>>
  BY DEF Quiet, Stash, CancelUpload, ExpireUpload, DropStash, vars
<1> QED
  BY <1>1, <1>2 DEF Next, RequestStep, Quiet

\* A request turns, and the others stay as they are.
LEMMA Others ==
  ASSUME TypeOK, NEW r \in Request, NEW q, Turn(r, q)
  PROVE  req'[r] = q /\ \A s \in Request : s # r => req'[s] = req[s]
  BY DEF TypeOK, Turn, Becomes

-----------------------------------------------------------------------------
\* The fields of a row.
LEMMA RowFields ==
  ASSUME NEW x, x \in Row
  PROVE  /\ x.requested \subseteq Origin /\ x.allowed \subseteq Origin /\ x.revoked \subseteq Origin
         /\ x.services \subseteq Service /\ x.allowedServices \subseteq Service
         /\ x.revokedServices \subseteq Service /\ x.id \in 0..MaxId
  BY DEF Row

LEMMA TypeStep == ASSUME TypeOK, Requests, [Next]_vars PROVE TypeOK'
<1>0. /\ row \in Row /\ NoRow \in Row /\ word \in Word /\ NoWord \in Word
      /\ bundle \in Manifest \cup {None} /\ stash \in Manifest \cup {None}
  BY NoRowTyped DEF TypeOK, NoWord, Word
<1>1. ASSUME NEW r \in Request, NEW q, RequestStep(r), Turn(r, q)
      PROVE  /\ req' \in [Request -> RequestState] /\ lock' \in Request \cup {None}
             /\ bundle' \in Manifest \cup {None} /\ restarts' \in 0..MaxRestarts
  BY <1>1 DEF TypeOK, Turn, Becomes, Locking, Effect, Neither, Swapped, Updated, Inserted,
              FilesGone, RowGone
<1>2. ASSUME NEW r \in Request, RequestStep(r)
      PROVE  overlap' \in BOOLEAN /\ raced' \in BOOLEAN /\ stash' \in Manifest \cup {None}
  BY <1>0, <1>2 DEF TypeOK, RequestStep, Install, Edit, Delete, BeginInstall, BeginReplace,
    Upload, ConfirmUpload, LoadExisting, CheckOrphan, SwapBundle, FailSwap, InsertRow,
    UpdateRow, BeginEdit, SaveNetwork, SaveServices, BeginDelete, DeleteFiles, DeleteRow,
    Arrive, NoteRace
<1>3. ASSUME NEW r \in Request, RequestStep(r) PROVE row' \in Row /\ word' \in Word
  <2>0. /\ req[r] \in RequestState /\ req[r].loaded \in Row
        /\ req[r].op = "install" => /\ req[r].manifest.origins \subseteq Origin
                                    /\ req[r].manifest.services \subseteq Service
    BY DEF TypeOK, RequestState, Requests, Sound
  <2>1. CASE InsertRow(r)
    <3>1. PICK m : m = req[r].manifest /\ m.origins \subseteq Origin /\ m.services \subseteq Service
      BY <2>0, <2>1 DEF InsertRow, At
    <3>2. \A i \in 1..MaxId : NewRow(i, m) \in Row
      BY <3>1 DEF NewRow, Row
    <3>3. [NoWord EXCEPT !.asked = m.origins] \in Word
      BY <3>1 DEF NoWord, Word
    <3> QED
      BY <1>0, <2>1, <3>1, <3>2, <3>3 DEF InsertRow
  <2>2. CASE UpdateRow(r)
    <3>1. PICK m, loaded : /\ m = req[r].manifest /\ m.origins \subseteq Origin
                           /\ m.services \subseteq Service
                           /\ loaded = req[r].loaded /\ loaded \in Row
      BY <2>0, <2>2 DEF UpdateRow, At
    <3>2. PICK c1, c2, c3, c4 :
            /\ c1 = Column("requested", r, m.origins)
            /\ c2 = Column("allowed", r, ReplacedOrigins(loaded, m))
            /\ c3 = Column("services", r, m.services)
            /\ c4 = Column("allowedServices", r, m.services \ loaded.revokedServices)
      OBVIOUS
    <3>3. c1 \in SUBSET Origin /\ c3 \in SUBSET Service
      BY <1>0, <3>1, <3>2, RowFields DEF Column
    <3>4. c2 \in SUBSET Origin /\ c4 \in SUBSET Service
      BY <1>0, <3>1, <3>2, RowFields DEF Column, ReplacedOrigins
    <3>5. [row EXCEPT !.requested = c1, !.allowed = c2, !.services = c3, !.allowedServices = c4]
          \in Row
      BY <1>0, <3>3, <3>4 DEF Row
    <3>6. [word EXCEPT !.asked = @ \cup m.origins, !.added = @ \ m.origins] \in Word
      BY <1>0, <3>1 DEF Word
    <3> QED
      BY <1>0, <2>2, <3>1, <3>2, <3>5, <3>6 DEF UpdateRow
  <2>3. CASE SaveNetwork(r)
    <3>1. PICK checked \in SUBSET req[r].loaded.requested, extras \in SUBSET Origin, loaded \in Row :
            /\ loaded = req[r].loaded /\ loaded \in Row
            /\ IF RowIsThere(r)
                 THEN /\ row' = [row EXCEPT
                           !.allowed = Column("allowed", r, checked \cup extras),
                           !.revoked = Column("revoked", r,
                                         Revoked(loaded.revoked, loaded.requested, checked))]
                      /\ word' = [word EXCEPT
                           !.refused = ((@ \ checked) \cup (loaded.requested \ checked)) \ extras,
                           !.added = extras \ word.asked]
                 ELSE UNCHANGED <<row, word>>
      BY <2>0, <2>3 DEF SaveNetwork
    <3>2. PICK c1, c2 :
            /\ c1 = Column("allowed", r, checked \cup extras)
            /\ c2 = Column("revoked", r, Revoked(loaded.revoked, loaded.requested, checked))
      OBVIOUS
    <3>3. c1 \in SUBSET Origin /\ c2 \in SUBSET Origin
      BY <1>0, <3>1, <3>2, RowFields DEF Column, Revoked
    <3>4. [row EXCEPT !.allowed = c1, !.revoked = c2] \in Row
      BY <1>0, <3>3 DEF Row
    <3>5. [word EXCEPT !.refused = ((@ \ checked) \cup (loaded.requested \ checked)) \ extras,
                       !.added = extras \ word.asked] \in Word
      BY <1>0, <3>1, RowFields DEF Word
    <3> QED
      BY <1>0, <3>1, <3>2, <3>4, <3>5
  <2>4. CASE SaveServices(r)
    <3>1. PICK checked \in SUBSET req[r].loaded.services, loaded \in Row :
            /\ loaded = req[r].loaded /\ loaded \in Row
            /\ IF RowIsThere(r)
                 THEN /\ row' = [row EXCEPT
                           !.allowedServices = Column("allowedServices", r, checked),
                           !.revokedServices = Column("revokedServices", r,
                             Revoked(loaded.revokedServices, loaded.services, checked))]
                      /\ word' = [word EXCEPT
                           !.refusedServices = (@ \ checked) \cup (loaded.services \ checked)]
                 ELSE UNCHANGED <<row, word>>
      BY <2>0, <2>4 DEF SaveServices, Declared
    <3>2. PICK c1, c2 :
            /\ c1 = Column("allowedServices", r, checked)
            /\ c2 = Column("revokedServices", r,
                           Revoked(loaded.revokedServices, loaded.services, checked))
      OBVIOUS
    <3>3. c1 \in SUBSET Service /\ c2 \in SUBSET Service
      BY <1>0, <3>1, <3>2, RowFields DEF Column, Revoked
    <3>4. [row EXCEPT !.allowedServices = c1, !.revokedServices = c2] \in Row
      BY <1>0, <3>3 DEF Row
    <3>5. [word EXCEPT !.refusedServices = (@ \ checked) \cup (loaded.services \ checked)] \in Word
      BY <1>0, <3>1, RowFields DEF Word
    <3> QED
      BY <1>0, <3>1, <3>2, <3>4, <3>5
  <2>5. CASE DeleteRow(r)
    BY <1>0, <2>5 DEF DeleteRow
  <2> QED
    BY <1>0, <1>3, <2>1, <2>2, <2>3, <2>4, <2>5
    DEF RequestStep, Install, Edit, Delete, BeginInstall, BeginReplace,
      Upload, ConfirmUpload, LoadExisting, CheckOrphan, SwapBundle, FailSwap,
      BeginEdit, BeginDelete, DeleteFiles
<1>4. ASSUME NEW r \in Request, NEW q, RequestStep(r), Turn(r, q) PROVE TypeOK'
  BY <1>1, <1>2, <1>3, <1>4 DEF TypeOK
<1>5. CASE Quiet \/ UNCHANGED vars
  BY <1>5 DEF TypeOK, Quiet, Stash, CancelUpload, ExpireUpload, DropStash, vars
<1>6. CASE Restart
  BY <1>0, <1>6, IdleTyped DEF Restart, TypeOK
<1>7. ASSUME NEW r \in Request, RequestStep(r) PROVE TypeOK'
  BY <1>4, <1>7, Turns
<1> QED
  BY <1>5, <1>6, <1>7 DEF Next, RequestStep, Quiet

LEMMA RequestsStep == ASSUME TypeOK, Requests, [Next]_vars PROVE Requests'
<1>1. ASSUME NEW r \in Request, NEW q, Turn(r, q) PROVE Requests'
  <2>1. \A s \in Request : Sound(req'[s])
    BY <1>1, Others DEF Turn, Becomes, Requests
  <2> QED
    BY <2>1 DEF Requests, Sound
<1>2. ASSUME req' = req PROVE Requests'
  BY <1>2 DEF Requests, Sound
<1>3. ASSUME Restart PROVE Requests'
  <2>1. \A s \in Request : Sound(req'[s])
    BY <1>3, IdleTyped DEF Restart
  <2> QED
    BY <2>1 DEF Requests, Sound
<1> QED
  BY <1>1, <1>2, <1>3, Steps

-----------------------------------------------------------------------------
LEMMA ExclusiveStep ==
  ASSUME TypeOK, Requests, Exclusive, [Next]_vars PROVE Exclusive'
<1>1. ASSUME NEW r \in Request, NEW q, Turn(r, q) PROVE Exclusive'
  <2>1. /\ req'[r] = q /\ \A s \in Request : s # r => req'[s] = req[s]
        /\ Locking(r, q)
    BY <1>1, Others DEF Turn
  <2>2. \A s \in Request : req[s].pc \in Locked => lock = s /\ lock # None
    BY DEF Exclusive
  <2> QED
    BY <2>1, <2>2 DEF Exclusive, Locking
<1>2. ASSUME req' = req, lock' = lock PROVE Exclusive'
  BY <1>2 DEF Exclusive
<1>3. ASSUME Restart PROVE Exclusive'
  BY <1>3, IdleTyped DEF Restart, Exclusive, Locked
<1> QED
  BY <1>1, <1>2, <1>3, Steps

LEMMA NoOverlapStep ==
  ASSUME TypeOK, Requests, NoOverlap, [Next]_vars PROVE NoOverlap'
<1>1. ASSUME NEW r \in Request, NEW q, Turn(r, q) PROVE NoOverlap'
  <2> SUFFICES ASSUME ~overlap', NEW s \in Request, NEW t \in Request, s # t,
                      req'[s].op = "delete"
               PROVE  req'[t].op \notin {"install", "delete"}
    BY DEF NoOverlap
  <2>1. /\ req'[r] = q /\ \A u \in Request : u # r => req'[u] = req[u]
        /\ Overlapping(r, q)
    BY <1>1, Others DEF Turn
  <2>2. ~overlap /\ \A u, v \in Request :
                      u # v /\ req[u].op = "delete" => req[v].op \notin {"install", "delete"}
    BY <2>1 DEF NoOverlap, Overlapping
  <2>3. CASE q.op \in {"install", "delete"} /\ q.op # req[r].op
    BY <2>1, <2>2, <2>3 DEF Overlapping
  <2>4. CASE ~(q.op \in {"install", "delete"} /\ q.op # req[r].op)
    BY <2>1, <2>2, <2>4
  <2> QED
    BY <2>3, <2>4
<1>2. ASSUME req' = req, overlap' = overlap PROVE NoOverlap'
  BY <1>2 DEF NoOverlap
<1>3. ASSUME Restart PROVE NoOverlap'
  BY <1>3, IdleTyped DEF Restart, NoOverlap
<1> QED
  BY <1>1, <1>2, <1>3, Steps

\* No other request is past the lock, or deletes, beside one that commits or deletes.
LEMMA Alone ==
  ASSUME TypeOK, Requests, Exclusive, NoOverlap, ~overlap,
         NEW r \in Request, NEW s \in Request, r # s, req[r].pc \in Tracked
  PROVE  req[s].pc \notin Tracked
<1>1. CASE req[r].op = "delete" \/ req[s].op = "delete"
  BY <1>1 DEF Requests, Sound, NoOverlap, Tracked, Installing
<1>2. CASE req[r].op # "delete" /\ req[s].op # "delete"
  BY <1>2 DEF Requests, Sound, Exclusive, Tracked
<1> QED
  BY <1>1, <1>2

LEMMA LocatedStep ==
  ASSUME TypeOK, Requests, Exclusive, NoOverlap, Located, [Next]_vars PROVE Located'
<1>1. ASSUME NEW r \in Request, NEW q, Turn(r, q) PROVE Located'
  <2> SUFFICES ASSUME ~overlap', NEW s \in Request, req'[s].pc \in Tracked
               PROVE  row'.id = req'[s].loaded.id
    BY DEF Located
  <2>1. /\ req'[r] = q /\ (s # r => req'[s] = req[s]) /\ Effect(r, q)
        /\ ~overlap
    BY <1>1, Others DEF Turn, Overlapping
  <2>2. /\ req[s].pc \in Tracked => row.id = req[s].loaded.id
        /\ req[r].pc \in Tracked => row.id = req[r].loaded.id
    BY <2>1 DEF Located
  <2>3. Idle.pc \notin Tracked /\ Between \subseteq Tracked /\ "files" \in Tracked
        /\ "swapping" \in Tracked
    BY IdleTyped DEF Tracked, Between, Locked, Deleting
  <2>4. CASE Inserted(r, q) \/ RowGone(r, q)
    <3>1. req[r].pc \in Tracked /\ q = Idle
      BY <2>3, <2>4 DEF Inserted, RowGone, Between
    <3>2. s # r
      BY <2>1, <2>3, <3>1
    <3> QED
      BY <2>1, <3>1, <3>2, Alone
  <2>5. CASE Neither(r, q) \/ Swapped(r, q) \/ Updated(r, q) \/ FilesGone(r, q)
    BY <2>1, <2>2, <2>3, <2>5 DEF Neither, Swapped, Updated, FilesGone
  <2> QED
    BY <2>1, <2>4, <2>5 DEF Effect
<1>2. ASSUME req' = req, overlap' = overlap, row' = row PROVE Located'
  BY <1>2 DEF Located
<1>3. ASSUME Restart PROVE Located'
  BY <1>3, IdleTyped DEF Restart, Located, Tracked, Locked, Deleting
<1> QED
  BY <1>1, <1>2, <1>3, Steps

\* Row and files part in an install's swap and a delete's first step, and meet again
\* when it commits.
LEMMA FilesStep ==
  ASSUME TypeOK, Requests, Exclusive, NoOverlap, Located, Files, [Next]_vars PROVE Files'
<1>1. ASSUME NEW r \in Request, NEW q, Turn(r, q) PROVE Files'
  <2> SUFFICES ASSUME ~overlap', restarts' = 0
               PROVE  /\ \A s \in Request : req'[s].pc = "committing" => bundle' # None
                      /\ \A s \in Request : req'[s].pc = "row" => bundle' = None
                      /\ (\A s \in Request : req'[s].pc \notin Between)
                           => (row'.id # 0 <=> bundle' # None)
    BY DEF Files
  <2>1. /\ req'[r] = q /\ \A s \in Request : s # r => req'[s] = req[s]
        /\ Effect(r, q) /\ ~overlap /\ restarts = 0 /\ Sound(req[r])
    BY <1>1, Others DEF Turn, Overlapping, Requests
  <2>2. /\ \A s \in Request : req[s].pc = "committing" => bundle # None
        /\ \A s \in Request : req[s].pc = "row" => bundle = None
        /\ (\A s \in Request : req[s].pc \notin Between) => (row.id # 0 <=> bundle # None)
    BY <2>1 DEF Files
  <2>3. \A s \in Request : req[r].pc \in Tracked /\ s # r => req[s].pc \notin Between
    BY <2>1, Alone DEF Tracked, Between, Locked, Deleting
  <2>4. req[r].pc \in Tracked => row.id = req[r].loaded.id
    BY <2>1 DEF Located
  <2>5. /\ {"swapping", "committing", "files", "row"} \subseteq Tracked
        /\ Between = {"committing", "row"} /\ Idle.pc = "idle"
    BY IdleTyped DEF Tracked, Between, Locked, Deleting
  <2>6. CASE Neither(r, q)
    <3>1. row'.id = row.id /\ bundle' = bundle
      BY <2>6 DEF Neither
    <3>2. \A s \in Request : req'[s].pc \notin Between => req[s].pc \notin Between
      BY <2>1, <2>6 DEF Neither
    <3>3. \A s \in Request : req'[s].pc \in Between => req'[s] = req[s]
      BY <2>1, <2>6 DEF Neither
    <3> QED
      BY <2>2, <2>5, <3>1, <3>2, <3>3
  <2>7. CASE Swapped(r, q)
    <3>1. bundle' # None
      BY <2>7 DEF Swapped
    <3> QED
      BY <2>1, <2>3, <2>5, <2>7, <3>1 DEF Swapped
  <2>8. CASE Updated(r, q)
    BY <2>1, <2>2, <2>4, <2>5, <2>8 DEF Updated
  <2>9. CASE Inserted(r, q)
    BY <2>1, <2>2, <2>3, <2>4, <2>5, <2>9 DEF Inserted
  <2>10. CASE FilesGone(r, q)
    BY <2>1, <2>3, <2>5, <2>10 DEF FilesGone
  <2>11. CASE RowGone(r, q)
    <3>1. RowIsThere(r)
      BY <2>1, <2>4, <2>5, <2>11 DEF RowGone, RowIsThere, Sound, Deleting
    <3> QED
      BY <2>1, <2>2, <2>3, <2>5, <2>11, <3>1 DEF RowGone
  <2> QED
    BY <2>1, <2>6, <2>7, <2>8, <2>9, <2>10, <2>11 DEF Effect
<1>2. ASSUME req' = req, overlap' = overlap, row' = row, bundle' = bundle, restarts' = restarts
      PROVE  Files'
  BY <1>2 DEF Files
<1>3. ASSUME Restart PROVE Files'
  BY <1>3 DEF Restart, Files, TypeOK
<1> QED
  BY <1>1, <1>2, <1>3, Steps

-----------------------------------------------------------------------------
\* Policy with what the runs check of it.
Promises == Policy /\ RevocationStands /\ HandAddedKept /\ ServicesDeclared

\* The policy of a row x and a word w.
Consistent(x, w) ==
  /\ w.refused \subseteq x.revoked /\ w.refusedServices \subseteq x.revokedServices
  /\ x.requested \subseteq w.asked /\ w.added \cap w.asked = {}
  /\ w.refused \cap x.allowed = {} /\ w.refusedServices \cap x.allowedServices = {}
  /\ w.added \subseteq x.allowed /\ x.allowedServices \subseteq x.services

LEMMA PromisesConsistent ==
  /\ Promises <=> (~raced => Consistent(row, word))
  /\ Promises' <=> (~raced' => Consistent(row', word'))
  BY DEF Promises, Policy, RevocationStands, HandAddedKept, ServicesDeclared, Consistent

LEMMA PromisesStep == ASSUME TypeOK, Requests, Promises, [Next]_vars PROVE Promises'
<1>0. row \in Row /\ word \in Word
  BY DEF TypeOK
<1>1. ASSUME UNCHANGED <<row, word, raced>> PROVE Promises'
  BY <1>1, PromisesConsistent
<1>2. ASSUME Consistent(row', word') PROVE Promises'
  BY <1>2, PromisesConsistent
<1>3. ASSUME NEW r \in Request, InsertRow(r) PROVE Promises'
  <2>1. CASE UNCHANGED <<row, word>>
    BY <1>1, <1>3, <2>1 DEF InsertRow
  <2>2. ASSUME NEW i \in 1..MaxId, NEW m, row' = NewRow(i, m),
               word' = [NoWord EXCEPT !.asked = m.origins]
        PROVE  Promises'
    BY <1>2, <2>2 DEF NewRow, NoWord, Consistent
  <2> QED
    BY <1>3, <2>1, <2>2 DEF InsertRow
<1>5. ASSUME NEW r \in Request, UpdateRow(r) PROVE Promises'
  <2>1. CASE UNCHANGED <<row, word, raced>>
    BY <1>1, <2>1
  <2>2. ASSUME ~(UNCHANGED <<row, word, raced>>), row = req[r].loaded, ~raced PROVE Promises'
    <3>1. Consistent(row, word)
      BY <2>2, PromisesConsistent
    <3>c. \A name, new : Column(name, r, new) = new
      BY <2>2 DEF Column
    <3>d. RowIsThere(r)
      BY <1>5, <2>2 DEF UpdateRow
    <3>2. PICK m, loaded :
            /\ m = req[r].manifest /\ loaded = req[r].loaded
            /\ row' = [row EXCEPT
                 !.requested = Column("requested", r, m.origins),
                 !.allowed = Column("allowed", r, ReplacedOrigins(loaded, m)),
                 !.services = Column("services", r, m.services),
                 !.allowedServices =
                   Column("allowedServices", r, m.services \ loaded.revokedServices)]
            /\ word' = [word EXCEPT !.asked = @ \cup m.origins, !.added = @ \ m.origins]
      BY <1>5, <3>d DEF UpdateRow
    <3>3. /\ row'.requested = Column("requested", r, m.origins)
          /\ row'.allowed = Column("allowed", r, ReplacedOrigins(loaded, m))
          /\ row'.services = Column("services", r, m.services)
          /\ row'.allowedServices =
               Column("allowedServices", r, m.services \ loaded.revokedServices)
          /\ row'.revoked = row.revoked /\ row'.revokedServices = row.revokedServices
      BY <1>0, <3>2 DEF Row
    <3>4. /\ row'.requested = m.origins /\ row'.allowed = ReplacedOrigins(row, m)
          /\ row'.services = m.services /\ row'.allowedServices = m.services \ row.revokedServices
          /\ row'.revoked = row.revoked /\ row'.revokedServices = row.revokedServices
      BY <2>2, <3>2, <3>3, <3>c
    <3>5. /\ word'.asked = word.asked \cup m.origins /\ word'.added = word.added \ m.origins
          /\ word'.refused = word.refused /\ word'.refusedServices = word.refusedServices
      BY <1>0, <3>2 DEF Word
    <3> QED
      BY <1>2, <3>1, <3>4, <3>5 DEF Consistent, ReplacedOrigins
  <2>3. CASE raced'
    BY <2>3, PromisesConsistent
  <2> QED
    BY <1>5, <2>1, <2>2, <2>3 DEF UpdateRow, NoteRace
<1>6. ASSUME NEW r \in Request, SaveNetwork(r) PROVE Promises'
  <2>1. CASE UNCHANGED <<row, word, raced>>
    BY <1>1, <2>1
  <2>2. ASSUME ~(UNCHANGED <<row, word, raced>>), row = req[r].loaded, ~raced PROVE Promises'
    <3>1. Consistent(row, word)
      BY <2>2, PromisesConsistent
    <3>c. \A name, new : Column(name, r, new) = new
      BY <2>2 DEF Column
    <3>d. RowIsThere(r)
      BY <1>6, <2>2 DEF SaveNetwork
    <3>2. PICK checked \in SUBSET req[r].loaded.requested, extras \in SUBSET Origin, loaded \in Row :
            /\ loaded = req[r].loaded
            /\ row' = [row EXCEPT
                 !.allowed = Column("allowed", r, checked \cup extras),
                 !.revoked =
                   Column("revoked", r, Revoked(loaded.revoked, loaded.requested, checked))]
            /\ word' = [word EXCEPT
                 !.refused = ((@ \ checked) \cup (loaded.requested \ checked)) \ extras,
                 !.added = extras \ word.asked]
      BY <1>0, <1>6, <2>2, <3>d DEF SaveNetwork
    <3>a. /\ row'.allowed = Column("allowed", r, checked \cup extras)
          /\ row'.revoked =
               Column("revoked", r, Revoked(loaded.revoked, loaded.requested, checked))
          /\ row'.requested = row.requested /\ row'.services = row.services
          /\ row'.allowedServices = row.allowedServices
          /\ row'.revokedServices = row.revokedServices
      BY <1>0, <3>2 DEF Row
    <3>3. /\ row'.allowed = checked \cup extras
          /\ row'.revoked = Revoked(row.revoked, row.requested, checked)
          /\ loaded = row /\ checked \subseteq row.requested
      BY <2>2, <3>2, <3>a, <3>c
    <3>4. /\ word'.refused = ((word.refused \ checked) \cup (row.requested \ checked)) \ extras
          /\ word'.added = extras \ word.asked /\ word'.asked = word.asked
          /\ word'.refusedServices = word.refusedServices
      BY <1>0, <3>2, <3>3 DEF Word
    <3> QED
      BY <1>2, <3>1, <3>3, <3>4, <3>a DEF Consistent, Revoked
  <2>3. CASE raced'
    BY <2>3, PromisesConsistent
  <2> QED
    BY <1>6, <2>1, <2>2, <2>3 DEF SaveNetwork, NoteRace
<1>7. ASSUME NEW r \in Request, SaveServices(r) PROVE Promises'
  <2>1. CASE UNCHANGED <<row, word, raced>>
    BY <1>1, <2>1
  <2>2. ASSUME ~(UNCHANGED <<row, word, raced>>), row = req[r].loaded, ~raced PROVE Promises'
    <3>1. Consistent(row, word)
      BY <2>2, PromisesConsistent
    <3>c. \A name, new : Column(name, r, new) = new
      BY <2>2 DEF Column
    <3>d. RowIsThere(r)
      BY <1>7, <2>2 DEF SaveServices
    <3>2. PICK checked \in SUBSET req[r].loaded.services, loaded \in Row :
            /\ loaded = req[r].loaded
            /\ row' = [row EXCEPT
                 !.allowedServices = Column("allowedServices", r, checked),
                 !.revokedServices =
                   Column("revokedServices", r,
                          Revoked(loaded.revokedServices, loaded.services, checked))]
            /\ word' = [word EXCEPT
                 !.refusedServices = (@ \ checked) \cup (loaded.services \ checked)]
      BY <1>0, <1>7, <2>2, <3>d DEF SaveServices, Declared
    <3>a. /\ row'.allowedServices = Column("allowedServices", r, checked)
          /\ row'.revokedServices =
               Column("revokedServices", r,
                      Revoked(loaded.revokedServices, loaded.services, checked))
          /\ row'.requested = row.requested /\ row'.services = row.services
          /\ row'.allowed = row.allowed /\ row'.revoked = row.revoked
      BY <1>0, <3>2 DEF Row
    <3>3. /\ row'.allowedServices = checked
          /\ row'.revokedServices = Revoked(row.revokedServices, row.services, checked)
          /\ loaded = row /\ checked \subseteq row.services
      BY <2>2, <3>2, <3>a, <3>c
    <3>4. /\ word'.refusedServices = (word.refusedServices \ checked) \cup (row.services \ checked)
          /\ word'.added = word.added /\ word'.asked = word.asked
          /\ word'.refused = word.refused
      BY <1>0, <3>2, <3>3 DEF Word
    <3> QED
      BY <1>2, <3>1, <3>3, <3>4, <3>a DEF Consistent, Revoked
  <2>3. CASE raced'
    BY <2>3, PromisesConsistent
  <2> QED
    BY <1>7, <2>1, <2>2, <2>3 DEF SaveServices, NoteRace
<1>8. ASSUME NEW r \in Request, DeleteRow(r) PROVE Promises'
  <2>1. CASE UNCHANGED <<row, word>>
    BY <1>1, <1>8, <2>1 DEF DeleteRow
  <2>2. CASE row' = NoRow /\ word' = NoWord
    BY <1>2, <2>2 DEF NoRow, NoWord, Consistent
  <2> QED
    BY <1>8, <2>1, <2>2 DEF DeleteRow
<1>9. ASSUME NEW r \in Request, RequestStep(r), ~InsertRow(r), ~UpdateRow(r),
             ~SaveNetwork(r), ~SaveServices(r), ~DeleteRow(r)
      PROVE  UNCHANGED <<row, word, raced>>
  BY <1>9 DEF RequestStep, Install, Edit, Delete, BeginInstall, BeginReplace,
      Upload, ConfirmUpload, LoadExisting, CheckOrphan, SwapBundle, FailSwap,
      BeginEdit, BeginDelete, DeleteFiles
<1>10. ASSUME NEW r \in Request, RequestStep(r) PROVE Promises'
  BY <1>1, <1>3, <1>5, <1>6, <1>7, <1>8, <1>9, <1>10
<1> QED
  BY <1>1, <1>10, Steps DEF Restart

-----------------------------------------------------------------------------
LEMMA InitIInv == Init => IInv
<1> SUFFICES ASSUME Init PROVE IInv
  OBVIOUS
<1>0. \A r \in Request : req[r] = Idle
  BY DEF Init
<1>1. TypeOK
  <2>1. NoWord \in Word
    BY DEF NoWord, Word
  <2>2. req \in [Request -> RequestState]
    BY IdleTyped DEF Init
  <2>3. raced \in BOOLEAN /\ overlap \in BOOLEAN
    BY DEF Init
  <2>4. /\ row \in Row /\ word \in Word /\ restarts \in 0..MaxRestarts
        /\ bundle \in Manifest \cup {None} /\ lock \in Request \cup {None}
        /\ stash \in Manifest \cup {None}
    BY <2>1, NoRowTyped DEF Init
  <2> QED
    BY <2>1, <2>2, <2>3, <2>4 DEF TypeOK
<1>2. Requests /\ Exclusive /\ NoOverlap /\ Located
  BY <1>0, IdleTyped DEF Requests, Exclusive, NoOverlap, Located, Locked, Tracked, Deleting
<1>3. Files
  BY <1>0, IdleTyped, NoRowTyped DEF Init, Files
<1>4. Promises
  BY PromisesConsistent DEF Init, Consistent, NoRow, NoWord
<1> QED
  BY <1>1, <1>2, <1>3, <1>4 DEF IInv, Promises

\* IInv is an invariant of the app.
THEOREM Invariance == Spec => []IInv
<1>1. IInv /\ [Next]_vars => IInv'
  <2> SUFFICES ASSUME IInv, [Next]_vars PROVE IInv'
    OBVIOUS
  <2>1. TypeOK /\ Requests /\ Exclusive /\ NoOverlap /\ Located /\ Files /\ Promises
    BY DEF IInv, Promises
  <2>2. TypeOK' /\ Requests' /\ Exclusive' /\ NoOverlap' /\ Located' /\ Files' /\ Promises'
    BY <2>1, TypeStep, RequestsStep, ExclusiveStep, NoOverlapStep, LocatedStep, FilesStep,
       PromisesStep
  <2> QED
    BY <2>2 DEF IInv, Promises
<1> QED
  BY <1>1, InitIInv, PTL DEF Spec

\* The row, the files and the requests are what the code can make of them.
THEOREM TypeCorrect == Spec => []TypeOK
<1>1. IInv => TypeOK
  BY DEF IInv
<1> QED
  BY <1>1, Invariance, PTL

\* However many uploads run at once, the app has its row and its files or neither
\* (apps.py _install_lock), when no delete ran beside one and nothing crashed.
THEOREM RowWithFiles == Spec => []RowAndFiles
<1>1. IInv => RowAndFiles
  <2> SUFFICES ASSUME IInv, Settled, ~overlap, restarts = 0
               PROVE  row.id # 0 <=> bundle # None
    BY DEF RowAndFiles
  <2>1. \A r \in Request : req[r].pc \notin Between
    BY DEF IInv, Settled, Busy, Requests, Sound, Installing, Locked, Deleting, Between
  <2> QED
    BY <2>1 DEF IInv, Files
<1> QED
  BY <1>1, Invariance, PTL

\* What the admin switched off stays off through new versions (models.py
\* revoked_origins), unless a handler wrote from a stale copy of the row.
THEOREM Revocations == Spec => []RevocationStands
<1>1. IInv => RevocationStands
  BY DEF IInv
<1> QED
  BY <1>1, Invariance, PTL

\* An origin added by hand stays allowed until the admin takes it away (apps.py
\* "are kept too").
THEOREM HandAdded == Spec => []HandAddedKept
<1>1. IInv => HandAddedKept
  BY DEF IInv
<1> QED
  BY <1>1, Invariance, PTL

\* The services an app may use are among those its manifest declares (apps.py
\* admin_apps_services_update).
THEOREM Declares == Spec => []ServicesDeclared
<1>1. IInv => ServicesDeclared
  BY DEF IInv
<1> QED
  BY <1>1, Invariance, PTL
=============================================================================
