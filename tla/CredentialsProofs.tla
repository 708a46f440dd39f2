--------------------------- MODULE CredentialsProofs ---------------------------
(***************************************************************************)
(* What a password buys dies with it: TypeOK, OneSessionPerLaunch and        *)
(* SignOutComplete, for any users, apps, credential ids and requests, and     *)
(* any bounds on passwords and restarts.                                      *)
(*                                                                         *)
(* An exchange holds its launch token from the claim on (Held): nobody else   *)
(* holds it and no app session was bought with it, so what it buys is one     *)
(* session.  A row's columns but its status never change and no row comes     *)
(* back to life (Keeps), so a live row of a replaced password was there when  *)
(* it was replaced, and the request that replaced it has yet to come by.      *)
(***************************************************************************)
EXTENDS Credentials, TLAPS

\* Of every row: who it is for, and how a launch token ends.
Rows ==
  \A c \in Cid :
    /\ cred[c].kind # "none" => cred[c].user \in User
    /\ cred[c].kind = "none" => cred[c].status = "deleted"
    /\ cred[c].kind = "launch" => cred[c].status # "revoked"
    /\ cred[c].kind = "app" => cred[c].via \in Cid

\* Where a request can be, by its operation.
Sound(q) ==
  /\ q.pc \notin {"idle", "claimed"} => q.user \in User
  /\ q.pc \in {"sessions", "grants", "changing"} => q.op \in {"change", "reset"}
  /\ q.pc = "apps" => q.op \in {"logout", "change", "reset"}
  /\ q.op = "exchange" => q.cid \in Cid /\ q.pc \in {"claimed", "creating"}

\* The token an exchange has claimed.
Held(q) ==
  q.op = "exchange" =>
    /\ cred[q.cid].kind = "launch" /\ cred[q.cid].status \in {"consumed", "deleted"}
    /\ \A d \in Cid : cred[d].kind = "app" => cred[d].via # q.cid
    /\ q.pc = "creating" => q.user = cred[q.cid].user /\ q.app = cred[q.cid].app

Requests == \A r \in Request : Sound(req[r]) /\ Held(req[r])

HeldOnce ==
  \A r, s \in Request : req[r].op = "exchange" /\ req[s].op = "exchange" /\ req[r].cid = req[s].cid => r = s

IInv == TypeOK /\ Rows /\ Requests /\ HeldOnce /\ OneSessionPerLaunch /\ SignOutComplete

\* A sign-out run by a request in state q has still to reach these rows.
Reaching(q, kind, u) ==
  /\ q.user = u
  /\ q.op = "reset" \/ (q.op = "change" /\ kind # "api")
  /\ \/ q.pc = "sessions"
     \/ q.pc = "apps"     /\ kind # "portal"
     \/ q.pc = "grants"   /\ kind \notin {"portal", "app"}

\* Some request reaches them after the step.
ReachesNext(kind, u) == \E r \in Request : Reaching(req'[r], kind, u)

SupersededNext(kind, u, root) ==
  IF kind = "api" THEN root < cutoff'[u] ELSE root < password'[u]

\* What no step does to a row that is there.
Keeps(c) ==
  LET k == cred[c] IN
  /\ cred'[c].kind = k.kind /\ cred'[c].user = k.user /\ cred'[c].app = k.app
  /\ cred'[c].via = k.via /\ cred'[c].root = k.root /\ cred'[c].late = k.late
  /\ \/ cred'[c].status = k.status
     \/ /\ cred'[c].status # "live" /\ k.kind # "none"
        /\ k.kind = "launch" => cred'[c].status # "revoked"

Kept == cred' \in [Cid -> Row] /\ \A c \in Cid : Keeps(c)

\* What an exchange goes on with, request r being in state q next: the token it
\* holds already, or one it claims now.
Claims(r, q) ==
  q.op = "exchange" =>
    \/ /\ req[r].op = "exchange" /\ q.cid = req[r].cid
       /\ q.pc = "creating" => q.user = cred[q.cid].user /\ q.app = cred[q.cid].app
    \/ /\ cred[q.cid].kind = "launch" /\ cred[q.cid].status = "live"
       /\ cred'[q.cid].status = "consumed" /\ q.pc = "claimed"

USE NoneAssumption, BoundsAssumption

-----------------------------------------------------------------------------
LEMMA IdleTyped == Idle \in RequestState /\ Sound(Idle) /\ Idle.op = "none" /\ Idle.pc = "idle"
BY DEF Idle, RequestState, Ops, PCs, Sound

LEMMA RequestTyped ==
  ASSUME TypeOK, NEW r \in Request
  PROVE  req[r] \in RequestState
BY DEF TypeOK

\* A request that is given a state by its fields is at that state.
LEMMA Updated ==
  ASSUME TypeOK, NEW r \in Request, NEW q \in RequestState, req' = [req EXCEPT ![r] = q]
  PROVE  /\ req' \in [Request -> RequestState]
         /\ req'[r] = q
         /\ \A s \in Request : s # r => req'[s] = req[s]
BY DEF TypeOK

\* The rows of a set are ended: their other columns stay.
LEMMA EndedRows ==
  ASSUME TypeOK, NEW C \in SUBSET Cid, NEW status \in {"revoked", "consumed", "deleted"},
         SetStatus(C, status),
         \A c \in C : cred[c].kind # "none"
                        /\ (cred[c].kind = "launch" => status # "revoked")
  PROVE  /\ Kept
         /\ \A c \in C : cred'[c].status = status
<1>1. \A c \in Cid : cred[c] \in Row
  BY DEF TypeOK
<1>2. ASSUME NEW c \in Cid
      PROVE  cred'[c] \in Row /\ Keeps(c) /\ (c \in C => cred'[c].status = status)
  <2>1. cred'[c] = IF c \in C THEN [cred[c] EXCEPT !.status = status] ELSE cred[c]
    BY DEF SetStatus
  <2>2. cred[c] \in Row
    BY <1>1
  <2>3. CASE c \in C
    <3>1. cred'[c] = [cred[c] EXCEPT !.status = status]
      BY <2>1, <2>3
    <3>2. cred[c].kind # "none" /\ (cred[c].kind = "launch" => status # "revoked")
      BY <2>3
    <3>3. cred'[c] \in Row
      BY <3>1, <2>2 DEF Row
    <3>4. /\ cred'[c].kind = cred[c].kind /\ cred'[c].user = cred[c].user
          /\ cred'[c].app = cred[c].app /\ cred'[c].via = cred[c].via
          /\ cred'[c].root = cred[c].root /\ cred'[c].late = cred[c].late
          /\ cred'[c].status = status
      BY <3>1, <2>2 DEF Row
    <3> QED  BY <3>2, <3>3, <3>4 DEF Keeps
  <2>4. CASE c \notin C
    BY <2>1, <2>2, <2>4 DEF Keeps
  <2> QED  BY <2>3, <2>4
<1>3. cred' = [c \in Cid |-> cred'[c]]
  BY DEF SetStatus
<1> QED  BY <1>2, <1>3 DEF Kept

LEMMA SameRows ==
  ASSUME TypeOK, cred' = cred
  PROVE  Kept
BY DEF TypeOK, Kept, Keeps

-----------------------------------------------------------------------------
\* A step of request r that ends rows, or none, keeps what is said of the rows
\* and of the tokens held.
LEMMA KeptStep ==
  ASSUME IInv, NEW r \in Request, NEW q \in RequestState, Sound(q),
         req' = [req EXCEPT ![r] = q], Kept, Claims(r, q)
  PROVE  Rows' /\ Requests' /\ HeldOnce' /\ OneSessionPerLaunch'
<1>1. /\ req'[r] = q
      /\ \A s \in Request : s # r => req'[s] = req[s]
  BY Updated DEF IInv
<1>2. /\ \A c \in Cid : Keeps(c)
      /\ cred' \in [Cid -> Row]
  BY DEF Kept
<1>3. Rows'
  BY <1>2, Zenon DEF IInv, Rows, Keeps
<1>4. ASSUME NEW s \in Request, req[s].op = "exchange"
      PROVE  /\ req[s].cid \in Cid
             /\ cred'[req[s].cid].kind = "launch"
             /\ cred'[req[s].cid].status \in {"consumed", "deleted"}
             /\ \A d \in Cid : cred'[d].kind = "app" => cred'[d].via # req[s].cid
             /\ cred'[req[s].cid].user = cred[req[s].cid].user
             /\ cred'[req[s].cid].app = cred[req[s].cid].app
  <2>1. Sound(req[s]) /\ Held(req[s])
    BY DEF IInv, Requests
  <2>2. /\ req[s].cid \in Cid
        /\ cred[req[s].cid].kind = "launch"
        /\ cred[req[s].cid].status \in {"consumed", "deleted"}
        /\ \A d \in Cid : cred[d].kind = "app" => cred[d].via # req[s].cid
    BY <1>4, <2>1 DEF Sound, Held
  <2>3. Keeps(req[s].cid)
    BY <1>2, <2>2
  <2>4. cred'[req[s].cid] \in Row
    BY <1>2, <2>2
  <2>5. \A d \in Cid : cred'[d].kind = "app" => cred'[d].via # req[s].cid
    BY <1>2, <2>2 DEF Keeps
  <2>6. cred'[req[s].cid].status \in {"live", "revoked", "consumed", "deleted"}
    BY <2>4 DEF Row
  <2> QED  BY <2>2, <2>3, <2>5, <2>6 DEF Keeps
<1>5. ASSUME q.op # "exchange"
      PROVE  Requests' /\ HeldOnce'
  <2>1. Held(q)'
    BY <1>5 DEF Held
  <2>2. ASSUME NEW s \in Request
        PROVE  Sound(req'[s]) /\ Held(req[s])'
    <3>1. CASE s = r
      BY <1>1, <2>1, <3>1 DEF Held
    <3>2. CASE s # r
      <4>1. req'[s] = req[s]
        BY <1>1, <3>2
      <4>2. Sound(req[s]) /\ Held(req[s])
        BY DEF IInv, Requests
      <4> QED  BY <4>1, <4>2, <1>4 DEF Held
    <3> QED  BY <3>1, <3>2
  <2>3. Requests'
    BY <2>2 DEF Requests
  <2>4. HeldOnce'
    BY <1>1, <1>5 DEF HeldOnce, IInv
  <2> QED  BY <2>3, <2>4
<1>6. ASSUME q.op = "exchange"
      PROVE  Requests' /\ HeldOnce'
  <2>0. q.cid \in Cid /\ q.pc \in {"claimed", "creating"}
    BY <1>6 DEF Sound
  <2>1. Keeps(q.cid)
    BY <1>2, <2>0
  <2>2. /\ Held(q)'
        /\ \A s \in Request : s # r /\ req[s].op = "exchange" => req[s].cid # q.cid
    <3>1. CASE req[r].op = "exchange" /\ q.cid = req[r].cid
      <4>1. q.pc = "creating" => (q.user = cred[q.cid].user /\ q.app = cred[q.cid].app)
        <5>1. cred[req[r].cid].status \in {"consumed", "deleted"}
          BY <3>1 DEF IInv, Requests, Held
        <5> QED  BY <3>1, <5>1, <1>6 DEF Claims
      <4>2. Held(q)'
        BY <3>1, <1>4, <4>1 DEF Held
      <4>3. \A s \in Request : s # r /\ req[s].op = "exchange" => req[s].cid # q.cid
        BY <3>1 DEF IInv, HeldOnce
      <4> QED  BY <4>2, <4>3
    <3>2. CASE /\ cred[q.cid].kind = "launch" /\ cred[q.cid].status = "live"
               /\ cred'[q.cid].status = "consumed" /\ q.pc = "claimed"
      <4>1. ASSUME NEW d \in Cid, cred[d].kind = "app"
            PROVE  cred[d].via # q.cid
        BY <3>2, <4>1 DEF IInv, OneSessionPerLaunch
      <4>2. \A d \in Cid : cred'[d].kind = "app" => cred'[d].via # q.cid
        BY <4>1, <1>2 DEF Keeps
      <4>3. cred'[q.cid].kind = "launch"
        BY <2>1, <3>2 DEF Keeps
      <4>4. Held(q)'
        BY <3>2, <4>2, <4>3 DEF Held
      <4>5. \A s \in Request : s # r /\ req[s].op = "exchange" => req[s].cid # q.cid
        BY <3>2 DEF IInv, Requests, Held
      <4> QED  BY <4>4, <4>5
    <3> QED  BY <3>1, <3>2, <1>6 DEF Claims
  <2>3. ASSUME NEW s \in Request
        PROVE  Sound(req'[s]) /\ Held(req[s])'
    <3>1. CASE s = r
      BY <1>1, <2>2, <3>1 DEF Held
    <3>2. CASE s # r
      <4>1. req'[s] = req[s]
        BY <1>1, <3>2
      <4>2. Sound(req[s]) /\ Held(req[s])
        BY DEF IInv, Requests
      <4> QED  BY <4>1, <4>2, <1>4 DEF Held
    <3> QED  BY <3>1, <3>2
  <2>4. Requests'
    BY <2>3 DEF Requests
  <2>5. HeldOnce'
    <3>1. SUFFICES ASSUME NEW x \in Request, NEW y \in Request, req'[x].op = "exchange",
                          req'[y].op = "exchange", req'[x].cid = req'[y].cid, x # y
                   PROVE  FALSE
      BY DEF HeldOnce
    <3>2. CASE x = r
      BY <1>1, <2>2, <3>1, <3>2
    <3>3. CASE y = r
      BY <1>1, <2>2, <3>1, <3>3
    <3>4. CASE x # r /\ y # r
      BY <1>1, <3>1, <3>4 DEF IInv, HeldOnce
    <3> QED  BY <3>2, <3>3, <3>4
  <2> QED  BY <2>4, <2>5
<1>7. OneSessionPerLaunch'
  <2>1. SUFFICES ASSUME NEW c \in Cid, cred'[c].kind = "app"
                 PROVE  /\ cred'[cred'[c].via].kind = "launch"
                        /\ cred'[cred'[c].via].user = cred'[c].user
                        /\ cred'[cred'[c].via].app = cred'[c].app
                        /\ cred'[cred'[c].via].status \in {"consumed", "deleted"}
                        /\ \A d \in Cid : cred'[d].kind = "app" /\ cred'[d].via = cred'[c].via => d = c
    BY DEF OneSessionPerLaunch
  <2>2. cred'[c].via = cred[c].via /\ cred[c].kind = "app" /\ cred'[c].user = cred[c].user
          /\ cred'[c].app = cred[c].app
    BY <1>2, <2>1 DEF Keeps
  <2>3. cred[c].via \in Cid
    BY <2>2 DEF IInv, Rows
  <2>4. /\ cred[cred[c].via].kind = "launch"
        /\ cred[cred[c].via].user = cred[c].user
        /\ cred[cred[c].via].app = cred[c].app
        /\ cred[cred[c].via].status \in {"consumed", "deleted"}
        /\ \A d \in Cid : cred[d].kind = "app" /\ cred[d].via = cred[c].via => d = c
    BY <2>2 DEF IInv, OneSessionPerLaunch
  <2>5. Keeps(cred[c].via) /\ cred'[cred[c].via].status \in {"live", "revoked", "consumed", "deleted"}
    BY <1>2, <2>3 DEF Row
  <2>6. /\ cred'[cred[c].via].kind = "launch"
        /\ cred'[cred[c].via].user = cred[c].user
        /\ cred'[cred[c].via].app = cred[c].app
        /\ cred'[cred[c].via].status \in {"consumed", "deleted"}
    BY <2>4, <2>5 DEF Keeps
  <2>7. \A d \in Cid : cred'[d].kind = "app" /\ cred'[d].via = cred[c].via => d = c
    BY <1>2, <2>4 DEF Keeps
  <2> QED  BY <2>2, <2>6, <2>7
<1> QED  BY <1>3, <1>5, <1>6, <1>7

-----------------------------------------------------------------------------
\* The row a request writes with its last step; an app session is bought with
\* the token the request holds.
Inserts(r, c, kind, via) ==
  /\ cred[c] = Unused
  /\ cred' = [cred EXCEPT ![c] =
       [kind |-> kind, user |-> req[r].user, app |-> req[r].app, status |-> "live",
        via |-> via, root |-> req[r].root,
        late |-> Superseded(kind, req[r].user, req[r].root)]]
  /\ req' = [req EXCEPT ![r] = Idle]
  /\ req[r].user \in User
  /\ kind \in {"portal", "launch", "app", "api"} /\ via \in Cid \cup {None}
  /\ kind = "app" => req[r].op = "exchange" /\ req[r].pc = "creating" /\ via = req[r].cid

LEMMA InsertedRow ==
  ASSUME TypeOK, NEW r \in Request, NEW c \in Cid, NEW kind, NEW via, Inserts(r, c, kind, via)
  PROVE  /\ cred' \in [Cid -> Row]
         /\ cred[c].kind = "none"
         /\ cred'[c].kind = kind /\ cred'[c].user = req[r].user
         /\ cred'[c].app = req[r].app /\ cred'[c].via = via /\ cred'[c].status = "live"
         /\ cred'[c].root = req[r].root
         /\ cred'[c].late = Superseded(kind, req[r].user, req[r].root)
         /\ \A d \in Cid : d # c => cred'[d] = cred[d]
<1>1. req[r] \in RequestState
  BY RequestTyped
<1>2. Superseded(kind, req[r].user, req[r].root) \in BOOLEAN
  <2>1. /\ cutoff[req[r].user] \in Int /\ password[req[r].user] \in Int
        /\ req[r].root \in Int /\ req[r].user \in User
    BY <1>1 DEF Inserts, TypeOK, RequestState
  <2>2. /\ (req[r].root < cutoff[req[r].user]) \in BOOLEAN
        /\ (req[r].root < password[req[r].user]) \in BOOLEAN
    BY <2>1
  <2> QED  BY <2>2, Zenon DEF Superseded
<1>3. PICK k : k = [kind |-> kind, user |-> req[r].user, app |-> req[r].app, status |-> "live",
        via |-> via, root |-> req[r].root,
        late |-> Superseded(kind, req[r].user, req[r].root)]
  OBVIOUS
<1>4. k \in Row
  BY <1>1, <1>2, <1>3 DEF Inserts, Row, Kinds, RequestState
<1>5. cred' = [cred EXCEPT ![c] = k] /\ cred \in [Cid -> Row]
  BY <1>3 DEF Inserts, TypeOK
<1>6. cred' \in [Cid -> Row] /\ cred'[c] = k /\ \A d \in Cid : d # c => cred'[d] = cred[d]
  BY <1>4, <1>5
<1>7. cred[c].kind = "none"
  BY DEF Inserts, Unused
<1>8. /\ k.kind = kind /\ k.user = req[r].user /\ k.app = req[r].app /\ k.via = via
      /\ k.status = "live" /\ k.root = req[r].root
      /\ k.late = Superseded(kind, req[r].user, req[r].root)
  BY <1>3, Zenon
<1> QED  BY <1>6, <1>7, <1>8

LEMMA InsertStep ==
  ASSUME IInv, NEW r \in Request, NEW c \in Cid, NEW kind, NEW via, Inserts(r, c, kind, via)
  PROVE  Rows' /\ Requests' /\ HeldOnce' /\ OneSessionPerLaunch'
<1>1. /\ req'[r] = Idle
      /\ \A s \in Request : s # r => req'[s] = req[s]
  BY Updated, IdleTyped DEF IInv, Inserts
<1>2. /\ cred[c].kind = "none" /\ cred'[c].kind = kind /\ cred'[c].user = req[r].user
      /\ cred'[c].app = req[r].app /\ cred'[c].via = via /\ cred'[c].status = "live"
      /\ \A d \in Cid : d # c => cred'[d] = cred[d]
  BY InsertedRow DEF IInv
<1>3. /\ req[r].user \in User /\ kind # "none"
      /\ kind = "app" => (req[r].op = "exchange" /\ req[r].pc = "creating" /\ via = req[r].cid)
  BY DEF Inserts
<1>4. Sound(req[r]) /\ Held(req[r])
  BY DEF IInv, Requests
<1>5. Rows'
  <2>1. SUFFICES ASSUME NEW d \in Cid
                 PROVE  /\ cred'[d].kind # "none" => cred'[d].user \in User
                        /\ cred'[d].kind = "none" => cred'[d].status = "deleted"
                        /\ cred'[d].kind = "launch" => cred'[d].status # "revoked"
                        /\ cred'[d].kind = "app" => cred'[d].via \in Cid
    BY DEF Rows
  <2>2. CASE d = c
    BY <1>2, <1>3, <1>4, <2>2 DEF Sound
  <2>3. CASE d # c
    BY <1>2, <2>3 DEF IInv, Rows
  <2> QED  BY <2>2, <2>3
<1>6. ASSUME NEW s \in Request, req'[s].op = "exchange"
      PROVE  s # r /\ req'[s] = req[s] /\ req[s].op = "exchange" /\ req[s].cid \in Cid
  BY <1>1, <1>6, IdleTyped DEF IInv, Requests, Sound
<1>7. HeldOnce'
  BY <1>6 DEF IInv, HeldOnce
<1>8. ASSUME NEW s \in Request
      PROVE  Sound(req'[s]) /\ Held(req[s])'
  <2>1. CASE req'[s].op # "exchange"
    <3>1. Held(req[s])'
      BY <2>1 DEF Held
    <3>2. Sound(req'[s])
      BY <1>1, IdleTyped DEF IInv, Requests
    <3> QED  BY <3>1, <3>2
  <2>2. CASE req'[s].op = "exchange"
    <3>1. s # r /\ req'[s] = req[s] /\ req[s].op = "exchange" /\ req[s].cid \in Cid
      BY <1>6, <2>2
    <3>2. Sound(req[s]) /\ Held(req[s])
      BY DEF IInv, Requests
    <3>3. req[s].cid # c
      BY <1>2, <3>1, <3>2 DEF Held
    <3>4. cred'[req[s].cid] = cred[req[s].cid]
      BY <1>2, <3>1, <3>3
    <3>5. ASSUME NEW d \in Cid, cred'[d].kind = "app"
          PROVE  cred'[d].via # req[s].cid
      <4>1. CASE d = c
        BY <1>2, <1>3, <3>1, <3>5, <4>1 DEF IInv, HeldOnce
      <4>2. CASE d # c
        BY <1>2, <3>1, <3>2, <3>5, <4>2 DEF Held
      <4> QED  BY <4>1, <4>2
    <3> QED  BY <3>1, <3>2, <3>4, <3>5 DEF Held
  <2> QED  BY <2>1, <2>2
<1>9. Requests'
  BY <1>8 DEF Requests
<1>10. OneSessionPerLaunch'
  <2>1. SUFFICES ASSUME NEW d \in Cid, cred'[d].kind = "app"
                 PROVE  /\ cred'[cred'[d].via].kind = "launch"
                        /\ cred'[cred'[d].via].user = cred'[d].user
                        /\ cred'[cred'[d].via].app = cred'[d].app
                        /\ cred'[cred'[d].via].status \in {"consumed", "deleted"}
                        /\ \A e \in Cid : cred'[e].kind = "app" /\ cred'[e].via = cred'[d].via => e = d
    BY DEF OneSessionPerLaunch
  <2>2. CASE d = c
    <3>1. /\ req[r].op = "exchange" /\ req[r].pc = "creating" /\ via = req[r].cid
          /\ req[r].cid \in Cid /\ cred'[d].via = req[r].cid
      BY <1>2, <1>3, <1>4, <2>1, <2>2 DEF Sound
    <3>2. /\ cred[req[r].cid].kind = "launch" /\ cred[req[r].cid].status \in {"consumed", "deleted"}
          /\ \A e \in Cid : cred[e].kind = "app" => cred[e].via # req[r].cid
          /\ req[r].user = cred[req[r].cid].user /\ req[r].app = cred[req[r].cid].app
      BY <1>4, <3>1 DEF Held
    <3>3. cred'[req[r].cid] = cred[req[r].cid]
      BY <1>2, <3>1, <3>2
    <3>4. \A e \in Cid : cred'[e].kind = "app" /\ cred'[e].via = req[r].cid => e = d
      BY <1>2, <2>2, <3>2
    <3> QED  BY <1>2, <2>2, <3>1, <3>2, <3>3, <3>4
  <2>3. CASE d # c
    <3>1. cred'[d] = cred[d] /\ cred[d].kind = "app"
      BY <1>2, <2>1, <2>3
    <3>2. cred[d].via \in Cid
      BY <3>1 DEF IInv, Rows
    <3>3. /\ cred[cred[d].via].kind = "launch"
          /\ cred[cred[d].via].user = cred[d].user
          /\ cred[cred[d].via].app = cred[d].app
          /\ cred[cred[d].via].status \in {"consumed", "deleted"}
          /\ \A e \in Cid : cred[e].kind = "app" /\ cred[e].via = cred[d].via => e = d
      BY <3>1 DEF IInv, OneSessionPerLaunch
    <3>4. cred'[cred[d].via] = cred[cred[d].via]
      BY <1>2, <3>2, <3>3
    <3>5. ASSUME NEW e \in Cid, cred'[e].kind = "app", cred'[e].via = cred[d].via
          PROVE  e = d
      <4>1. CASE e = c
        <5>1. req[r].op = "exchange" /\ via = req[r].cid /\ cred'[e].via = via
          BY <1>2, <1>3, <3>5, <4>1
        <5>2. cred[d].via # req[r].cid
          BY <1>4, <3>1, <5>1 DEF Held
        <5> QED  BY <3>5, <5>1, <5>2
      <4>2. CASE e # c
        BY <1>2, <3>3, <3>5, <4>2
      <4> QED  BY <4>1, <4>2
    <3> QED  BY <3>1, <3>3, <3>4, <3>5
  <2> QED  BY <2>2, <2>3
<1> QED  BY <1>5, <1>7, <1>9, <1>10

-----------------------------------------------------------------------------
\* SignOutComplete, before a step and after it, of one row.
LEMMA SignOutIs ==
  /\ SignOutComplete <=>
       (restarts = 0 => \A c \in Cid :
          cred[c].status = "live" /\ ~cred[c].late
            /\ Superseded(cred[c].kind, cred[c].user, cred[c].root)
          => \E r \in Request : Reaching(req[r], cred[c].kind, cred[c].user))
  /\ SignOutComplete' <=>
       (restarts' = 0 => \A c \in Cid :
          cred'[c].status = "live" /\ ~cred'[c].late
            /\ SupersededNext(cred'[c].kind, cred'[c].user, cred'[c].root)
          => ReachesNext(cred'[c].kind, cred'[c].user))
<1>1. ASSUME NEW kind, NEW u
      PROVE  Reaches(kind, u) <=> \E r \in Request : Reaching(req[r], kind, u)
  BY DEF Reaches, Reaching
<1>2. SignOutComplete <=>
       (restarts = 0 => \A c \in Cid :
          cred[c].status = "live" /\ ~cred[c].late
            /\ Superseded(cred[c].kind, cred[c].user, cred[c].root)
          => \E r \in Request : Reaching(req[r], cred[c].kind, cred[c].user))
  BY <1>1 DEF SignOutComplete
<1>3. SignOutComplete' <=>
       (restarts' = 0 => \A c \in Cid :
          cred'[c].status = "live" /\ ~cred'[c].late
            /\ SupersededNext(cred'[c].kind, cred'[c].user, cred'[c].root)
          => ReachesNext(cred'[c].kind, cred'[c].user))
  BY DEF SignOutComplete, Reaches, Reaching, ReachesNext, Superseded, SupersededNext
<1> QED  BY <1>2, <1>3

\* A request gives up reaching what it reached only by its own step.
LEMMA ReachOn ==
  ASSUME TypeOK, NEW r \in Request, NEW q \in RequestState, req' = [req EXCEPT ![r] = q],
         NEW kind, NEW u
  PROVE  /\ (\E s \in Request : Reaching(req[s], kind, u)) =>
              (ReachesNext(kind, u) \/ (Reaching(req[r], kind, u) /\ ~Reaching(q, kind, u)))
         /\ Reaching(q, kind, u) => ReachesNext(kind, u)
<1>1. req'[r] = q /\ \A s \in Request : s # r => req'[s] = req[s]
  BY Updated
<1> QED  BY <1>1, Zenon DEF ReachesNext

\* SignOutComplete over a step of request r that ends rows or none: what it
\* passed over it ended, and what it replaced it goes on to reach.
LEMMA SignOutKept ==
  ASSUME IInv, NEW r \in Request, NEW q \in RequestState, req' = [req EXCEPT ![r] = q],
         Kept, restarts' = restarts,
         ASSUME NEW c \in Cid, cred'[c].status = "live",
                Reaching(req[r], cred[c].kind, cred[c].user)
         PROVE  Reaching(q, cred[c].kind, cred[c].user),
         ASSUME NEW kind \in Kinds, NEW u \in User, NEW root \in 0..MaxPasswords,
                SupersededNext(kind, u, root)
         PROVE  Superseded(kind, u, root) \/ Reaching(q, kind, u)
  PROVE  SignOutComplete'
<1>1. SUFFICES ASSUME restarts = 0, NEW c \in Cid, cred'[c].status = "live", ~cred'[c].late,
                      SupersededNext(cred'[c].kind, cred'[c].user, cred'[c].root)
               PROVE  ReachesNext(cred'[c].kind, cred'[c].user)
  BY SignOutIs
<1>2. PICK k : k = cred[c]
  OBVIOUS
<1>3. /\ cred'[c].kind = k.kind /\ cred'[c].user = k.user /\ cred'[c].root = k.root
      /\ k.status = "live" /\ ~k.late /\ k.kind \in Kinds /\ k.user \in User
      /\ k.root \in 0..MaxPasswords
  <2>1. Keeps(c) /\ k \in Row
    BY <1>2 DEF Kept, IInv, TypeOK
  <2>2. /\ cred'[c].kind = k.kind /\ cred'[c].user = k.user /\ cred'[c].root = k.root
        /\ k.status = "live" /\ ~k.late
    BY <1>1, <1>2, <2>1 DEF Keeps
  <2>3. k.kind # "none" /\ k.user \in User
    BY <1>2, <2>2 DEF IInv, Rows
  <2> QED  BY <2>1, <2>2, <2>3 DEF Row
<1>4. SupersededNext(k.kind, k.user, k.root)
  BY <1>1, <1>3
<1>5. CASE Reaching(q, k.kind, k.user)
  BY <1>3, <1>5, ReachOn DEF IInv
<1>6. CASE Superseded(k.kind, k.user, k.root)
  <2>1. \E s \in Request : Reaching(req[s], k.kind, k.user)
    BY <1>1, <1>2, <1>3, <1>6, SignOutIs DEF IInv
  <2>2. Reaching(req[r], k.kind, k.user) => Reaching(q, k.kind, k.user)
    BY <1>1, <1>2
  <2>3. ReachesNext(k.kind, k.user)
    BY <1>3, <2>1, <2>2, ReachOn DEF IInv
  <2> QED  BY <1>3, <2>3
<1> QED  BY <1>3, <1>4, <1>5, <1>6

\* And over a step that writes a row: it knows itself written late.
LEMMA SignOutInsert ==
  ASSUME IInv, NEW r \in Request, NEW c \in Cid, NEW kind, NEW via, Inserts(r, c, kind, via),
         req[r].pc = "creating", UNCHANGED <<password, cutoff, restarts>>
  PROVE  SignOutComplete'
<1>0. Sound(req[r]) /\ req' = [req EXCEPT ![r] = Idle]
  BY DEF IInv, Requests, Inserts
<1>1. SUFFICES ASSUME restarts = 0, NEW d \in Cid, cred'[d].status = "live", ~cred'[d].late,
                      SupersededNext(cred'[d].kind, cred'[d].user, cred'[d].root)
               PROVE  ReachesNext(cred'[d].kind, cred'[d].user)
  BY SignOutIs
<1>2. /\ cred'[c].kind = kind /\ cred'[c].user = req[r].user /\ cred'[c].root = req[r].root
      /\ cred'[c].late = Superseded(kind, req[r].user, req[r].root)
      /\ \A e \in Cid : e # c => cred'[e] = cred[e]
  BY InsertedRow DEF IInv
<1>3. Superseded(cred'[d].kind, cred'[d].user, cred'[d].root)
  BY <1>1 DEF Superseded, SupersededNext
<1>4. d # c
  BY <1>1, <1>2, <1>3
<1>5. PICK k : k = cred[d]
  OBVIOUS
<1>6. /\ cred'[d] = k /\ k.status = "live" /\ ~k.late /\ k.kind \in Kinds
      /\ Superseded(k.kind, k.user, k.root)
  <2>1. cred'[d] = k
    BY <1>2, <1>4, <1>5
  <2>2. k.kind # "none" /\ k \in Row
    BY <1>1, <1>5, <2>1 DEF IInv, Rows, TypeOK
  <2> QED  BY <1>1, <1>3, <2>1, <2>2 DEF Row
<1>7. \E s \in Request : Reaching(req[s], k.kind, k.user)
  BY <1>1, <1>5, <1>6, SignOutIs DEF IInv
<1>8. ~Reaching(req[r], k.kind, k.user)
  BY DEF Reaching
<1>9. ReachesNext(k.kind, k.user)
  BY <1>0, <1>6, <1>7, <1>8, ReachOn, IdleTyped DEF IInv
<1> QED  BY <1>6, <1>9

-----------------------------------------------------------------------------
\* What the step of an accepted request, or of its end, leaves to show.
LEMMA StepOf ==
  ASSUME IInv, NEW r \in Request, NEW q \in RequestState, Sound(q),
         req' = [req EXCEPT ![r] = q], Kept, Claims(r, q), restarts' = restarts,
         password' \in [User -> 0..MaxPasswords], cutoff' \in [User -> 0..MaxPasswords],
         SignOutComplete'
  PROVE  IInv'
<1>1. TypeOK'
  BY Updated DEF IInv, TypeOK, Kept
<1>2. Rows' /\ Requests' /\ HeldOnce' /\ OneSessionPerLaunch'
  BY KeptStep
<1> QED  BY <1>1, <1>2 DEF IInv

\* The passwords stay: what is replaced now was replaced before.
LEMMA SamePasswords ==
  ASSUME TypeOK, UNCHANGED <<password, cutoff>>
  PROVE  /\ password' \in [User -> 0..MaxPasswords] /\ cutoff' \in [User -> 0..MaxPasswords]
         /\ \A kind, u, root : SupersededNext(kind, u, root) <=> Superseded(kind, u, root)
BY DEF TypeOK, SupersededNext, Superseded

\* A request that reaches nothing moves on; no row ends and no password changes.
LEMMA QuietStep ==
  ASSUME IInv, NEW r \in Request, NEW q \in RequestState, Sound(q),
         req' = [req EXCEPT ![r] = q], Claims(r, q), Kept,
         req[r].pc \notin {"sessions", "apps", "grants"},
         UNCHANGED <<password, cutoff, restarts>>
  PROVE  IInv'
<1>1. \A kind, u : ~Reaching(req[r], kind, u)
  BY DEF Reaching
<1>2. SignOutComplete'
  BY <1>1, SamePasswords, SignOutKept DEF IInv
<1>3. TypeOK
  BY DEF IInv
<1> QED  BY <1>2, <1>3, StepOf, SamePasswords

\* A row is written and the request ends.
LEMMA InsertKeeps ==
  ASSUME IInv, NEW r \in Request, NEW kind \in Kinds, NEW via \in Cid \cup {None},
         Insert(r, kind, via), Finish(r), req[r].pc = "creating",
         kind = "app" => (req[r].op = "exchange" /\ via = req[r].cid),
         UNCHANGED <<password, cutoff, restarts>>
  PROVE  IInv'
<1>1. PICK c \in Cid : Inserts(r, c, kind, via)
  <2>1. req[r].user \in User
    BY DEF IInv, Requests, Sound
  <2>2. PICK c \in Cid :
          /\ cred[c] = Unused
          /\ cred' = [cred EXCEPT ![c] =
               [kind |-> kind, user |-> req[r].user, app |-> req[r].app, status |-> "live",
                via |-> via, root |-> req[r].root,
                late |-> Superseded(kind, req[r].user, req[r].root)]]
    BY DEF Insert
  <2> QED  BY <2>1, <2>2 DEF Inserts, Finish, Kinds
<1>2. TypeOK
  BY DEF IInv
<1>3. cred' \in [Cid -> Row]
  BY <1>1, <1>2, InsertedRow
<1>4. req' \in [Request -> RequestState]
  BY <1>2, Updated, IdleTyped DEF Finish
<1>5. TypeOK'
  BY <1>2, <1>3, <1>4, SamePasswords DEF TypeOK
<1>6. Rows' /\ Requests' /\ HeldOnce' /\ OneSessionPerLaunch'
  BY <1>1, InsertStep
<1>7. SignOutComplete'
  BY <1>1, SignOutInsert
<1> QED  BY <1>5, <1>6, <1>7 DEF IInv

-----------------------------------------------------------------------------
LEMMA VerifyLoginKeeps ==
  ASSUME IInv, NEW r \in Request, VerifyLogin(r)
  PROVE  IInv'
<1>1. PICK u \in User :
        Accept(r, [Idle EXCEPT !.op = "login", !.pc = "creating",
                               !.user = u, !.root = password[u]])
  BY DEF VerifyLogin
<1>2. PICK q : q = [Idle EXCEPT !.op = "login", !.pc = "creating", !.user = u, !.root = password[u]]
  OBVIOUS
<1>3. password[u] \in 0..MaxPasswords
  BY DEF IInv, TypeOK
<1>4. q \in RequestState /\ q.op = "login" /\ q.pc = "creating" /\ q.user = u
  BY <1>2, <1>3, IdleTyped DEF RequestState, Ops, PCs
<1>5. Sound(q) /\ Claims(r, q)
  BY <1>4 DEF Sound, Claims
<1>6. req' = [req EXCEPT ![r] = q] /\ req[r].pc = "idle"
  BY <1>1, <1>2, IdleTyped DEF Accept
<1>7. Kept /\ UNCHANGED <<password, cutoff, restarts>>
  BY SameRows DEF IInv, VerifyLogin
<1> QED  BY <1>4, <1>5, <1>6, <1>7, QuietStep

LEMMA BeginLogoutKeeps ==
  ASSUME IInv, NEW r \in Request, BeginLogout(r)
  PROVE  IInv'
<1>1. PICK c \in Live("portal") :
        Accept(r, [Idle EXCEPT !.op = "logout", !.pc = "apps",
                               !.user = cred[c].user, !.cid = c])
  BY DEF BeginLogout
<1>2. PICK u : u = cred[c].user
  OBVIOUS
<1>3. u \in User /\ c \in Cid
  BY <1>1, <1>2 DEF IInv, Rows, Live
<1>4. PICK q : q = [Idle EXCEPT !.op = "logout", !.pc = "apps", !.user = u, !.cid = c]
  OBVIOUS
<1>5. q \in RequestState /\ q.op = "logout" /\ q.pc = "apps" /\ q.user = u
  BY <1>3, <1>4, IdleTyped DEF RequestState, Ops, PCs
<1>6. Sound(q) /\ Claims(r, q)
  BY <1>3, <1>5 DEF Sound, Claims
<1>7. req' = [req EXCEPT ![r] = q] /\ req[r].pc = "idle"
  BY <1>1, <1>2, <1>4, IdleTyped DEF Accept
<1>8. Kept /\ UNCHANGED <<password, cutoff, restarts>>
  BY SameRows DEF IInv, BeginLogout
<1> QED  BY <1>5, <1>6, <1>7, <1>8, QuietStep

LEMMA BeginChangeKeeps ==
  ASSUME IInv, NEW r \in Request, BeginChange(r)
  PROVE  IInv'
<1>1. PICK c \in Live("portal") :
        Accept(r, [Idle EXCEPT !.op = "change", !.pc = "changing",
                               !.user = cred[c].user, !.root = password[cred[c].user]])
  BY DEF BeginChange
<1>2. PICK u : u = cred[c].user
  OBVIOUS
<1>3. u \in User /\ password[u] \in 0..MaxPasswords
  BY <1>1, <1>2 DEF IInv, Rows, Live, TypeOK
<1>4. PICK q : q = [Idle EXCEPT !.op = "change", !.pc = "changing", !.user = u, !.root = password[u]]
  OBVIOUS
<1>5. q \in RequestState /\ q.op = "change" /\ q.pc = "changing" /\ q.user = u
  BY <1>3, <1>4, IdleTyped DEF RequestState, Ops, PCs
<1>6. Sound(q) /\ Claims(r, q)
  BY <1>3, <1>5 DEF Sound, Claims
<1>7. req' = [req EXCEPT ![r] = q] /\ req[r].pc = "idle"
  BY <1>1, <1>2, <1>4, IdleTyped DEF Accept
<1>8. Kept /\ UNCHANGED <<password, cutoff, restarts>>
  BY SameRows DEF IInv, BeginChange
<1> QED  BY <1>5, <1>6, <1>7, <1>8, QuietStep

LEMMA BeginMintKeeps ==
  ASSUME IInv, NEW r \in Request, BeginMint(r)
  PROVE  IInv'
<1>1. PICK c \in Live("portal"), op \in {"open", "mint"}, a \in App \cup {None} :
        Accept(r, [op |-> op, pc |-> "creating", user |-> cred[c].user, app |-> a,
                   cid |-> None, root |-> cred[c].root])
  BY DEF BeginMint
<1>2. cred[c].user \in User /\ cred[c].root \in 0..MaxPasswords
  <2>1. c \in Cid /\ cred[c].kind = "portal"
    BY <1>1 DEF Live
  <2>2. cred[c] \in Row
    BY <2>1 DEF IInv, TypeOK
  <2> QED  BY <2>1, <2>2 DEF IInv, Rows, Row
<1>3. PICK q : q = [op |-> op, pc |-> "creating", user |-> cred[c].user, app |-> a,
                    cid |-> None, root |-> cred[c].root]
  OBVIOUS
<1>4. q \in RequestState
  BY <1>2, <1>3 DEF RequestState, Ops, PCs
<1>5. q.op \in {"open", "mint"} /\ q.pc = "creating" /\ q.user \in User
  BY <1>2, <1>3
<1>6. Sound(q) /\ Claims(r, q)
  BY <1>5 DEF Sound, Claims
<1>7. req' = [req EXCEPT ![r] = q] /\ req[r].pc = "idle"
  BY <1>1, <1>3, IdleTyped DEF Accept
<1>8. Kept /\ UNCHANGED <<password, cutoff, restarts>>
  BY SameRows DEF IInv, BeginMint
<1> QED  BY <1>4, <1>6, <1>7, <1>8, QuietStep

LEMMA CreateSessionKeeps ==
  ASSUME IInv, NEW r \in Request, CreateSession(r)
  PROVE  IInv'
BY InsertKeeps DEF CreateSession, At, Kinds

LEMMA MintLaunchTokenKeeps ==
  ASSUME IInv, NEW r \in Request, MintLaunchToken(r)
  PROVE  IInv'
BY InsertKeeps DEF MintLaunchToken, At, Kinds

LEMMA MintApiTokenKeeps ==
  ASSUME IInv, NEW r \in Request, MintApiToken(r)
  PROVE  IInv'
BY InsertKeeps DEF MintApiToken, At, Kinds

LEMMA CreateAppSessionKeeps ==
  ASSUME IInv, NEW r \in Request, CreateAppSession(r)
  PROVE  IInv'
<1>1. req[r].op = "exchange" /\ req[r].pc = "creating"
  BY DEF CreateAppSession, At
<1>2. req[r].cid \in Cid
  BY <1>1 DEF IInv, Requests, Sound
<1> QED  BY <1>1, <1>2, InsertKeeps DEF CreateAppSession, Kinds

LEMMA RevokeOwnSessionKeeps ==
  ASSUME IInv, NEW r \in Request, RevokeOwnSession(r)
  PROVE  IInv'
<1>1. req[r].pc = "own" /\ SetStatus({req[r].cid} \cap Live("portal"), "revoked")
        /\ UNCHANGED <<password, cutoff, restarts>> /\ req' = [req EXCEPT ![r] = Idle]
  BY DEF RevokeOwnSession, At, Finish
<1>2. PICK C \in SUBSET Cid : C = {req[r].cid} \cap Live("portal")
  BY DEF Live
<1>3. \A c \in C : cred[c].kind = "portal"
  BY <1>2 DEF Live
<1>4. Kept
  BY <1>1, <1>2, <1>3, EndedRows DEF IInv
<1>5. Claims(r, Idle)
  BY IdleTyped DEF Claims
<1> QED  BY <1>1, <1>4, <1>5, IdleTyped, QuietStep

LEMMA ValidateLaunchTokenKeeps ==
  ASSUME IInv, NEW r \in Request, ValidateLaunchToken(r)
  PROVE  IInv'
<1>1. /\ req[r].op = "exchange" /\ req[r].pc = "claimed" /\ req[r].cid \in Cid
      /\ UNCHANGED <<password, cutoff, restarts>> /\ Kept
  BY SameRows DEF ValidateLaunchToken, At, IInv, Requests, Sound
<1>2. CASE Finish(r)
  BY <1>1, <1>2, IdleTyped, QuietStep DEF Finish, Claims
<1>3. CASE /\ cred[req[r].cid].app = req[r].app
           /\ req' = [req EXCEPT ![r].pc = "creating", ![r].user = cred[req[r].cid].user,
                                 ![r].root = cred[req[r].cid].root]
  <2>1. PICK t : t = cred[req[r].cid]
    OBVIOUS
  <2>2. t.user \in User /\ t.root \in 0..MaxPasswords /\ t.app = req[r].app
    <3>1. cred[req[r].cid].kind = "launch"
      BY <1>1 DEF IInv, Requests, Held
    <3>2. t \in Row
      BY <1>1, <2>1 DEF IInv, TypeOK
    <3> QED  BY <1>1, <1>3, <2>1, <3>1, <3>2 DEF IInv, Rows, Row
  <2>3. PICK q : q = [req[r] EXCEPT !.pc = "creating", !.user = t.user, !.root = t.root]
    OBVIOUS
  <2>4. req[r] \in RequestState
    BY RequestTyped DEF IInv
  <2>5. q \in RequestState /\ q.op = "exchange" /\ q.pc = "creating" /\ q.user = t.user
          /\ q.cid = req[r].cid /\ q.app = req[r].app
    BY <1>1, <2>2, <2>3, <2>4 DEF RequestState, Ops, PCs
  <2>6. Sound(q) /\ Claims(r, q)
    BY <1>1, <2>1, <2>2, <2>5 DEF Sound, Claims
  <2>7. req' = [req EXCEPT ![r] = q]
    <3>1. req \in [Request -> RequestState]
      BY DEF IInv, TypeOK
    <3> QED  BY <1>3, <2>1, <2>3, <2>4, <3>1 DEF RequestState
  <2> QED  BY <1>1, <2>5, <2>6, <2>7, QuietStep
<1> QED  BY <1>2, <1>3 DEF ValidateLaunchToken

LEMMA ClaimLaunchTokenKeeps ==
  ASSUME IInv, NEW r \in Request, ClaimLaunchToken(r)
  PROVE  IInv'
<1>1. PICK c \in Live("launch"), h \in App :
        /\ SetStatus({c}, "consumed")
        /\ Accept(r, [Idle EXCEPT !.op = "exchange", !.pc = "claimed", !.app = h, !.cid = c])
        /\ UNCHANGED <<password, cutoff, restarts>>
  BY DEF ClaimLaunchToken
<1>2. c \in Cid /\ cred[c].kind = "launch" /\ cred[c].status = "live"
  BY <1>1 DEF Live
<1>3. Kept /\ cred'[c].status = "consumed"
  <2>1. {c} \in SUBSET Cid /\ \A d \in {c} : cred[d].kind = "launch"
    BY <1>2
  <2> QED  BY <1>1, <2>1, EndedRows DEF IInv
<1>4. PICK q : q = [Idle EXCEPT !.op = "exchange", !.pc = "claimed", !.app = h, !.cid = c]
  OBVIOUS
<1>5. q \in RequestState /\ q.op = "exchange" /\ q.pc = "claimed" /\ q.cid = c
  BY <1>2, <1>4, IdleTyped DEF RequestState, Ops, PCs
<1>6. Sound(q) /\ Claims(r, q)
  BY <1>2, <1>3, <1>5 DEF Sound, Claims
<1>7. req' = [req EXCEPT ![r] = q] /\ req[r].pc = "idle"
  BY <1>1, <1>4, IdleTyped DEF Accept
<1> QED  BY <1>1, <1>3, <1>5, <1>6, <1>7, QuietStep

-----------------------------------------------------------------------------
\* The new hash: from now on its writer is to sign the user out.
LEMMA CommitChangeKeeps ==
  ASSUME IInv, NEW r \in Request, CommitChange(r)
  PROVE  IInv'
<1>1. PICK u : u = req[r].user
  OBVIOUS
<1>2. /\ req[r].op = "change" /\ req[r].pc = "changing" /\ password[u] < MaxPasswords
      /\ password' = [password EXCEPT ![u] = @ + 1]
      /\ UNCHANGED <<cutoff, cred, restarts>>
      /\ req' = [req EXCEPT ![r].pc = "sessions", ![r].root = password[u] + 1]
  BY <1>1 DEF CommitChange, At
<1>3. u \in User
  BY <1>1, <1>2 DEF IInv, Requests, Sound
<1>4. password[u] + 1 \in 0..MaxPasswords
  <2>1. password[u] \in 0..MaxPasswords
    BY <1>3 DEF IInv, TypeOK
  <2> QED  BY <1>2, <2>1
<1>5. /\ password' \in [User -> 0..MaxPasswords] /\ cutoff' \in [User -> 0..MaxPasswords]
      /\ \A v \in User : v # u => password'[v] = password[v]
  BY <1>2, <1>4 DEF IInv, TypeOK
<1>6. PICK q : q = [req[r] EXCEPT !.pc = "sessions", !.root = password[u] + 1]
  OBVIOUS
<1>7. req[r] \in RequestState
  BY RequestTyped DEF IInv
<1>8. q \in RequestState /\ q.op = "change" /\ q.pc = "sessions" /\ q.user = u
  BY <1>1, <1>2, <1>4, <1>6, <1>7 DEF RequestState, PCs
<1>9. Sound(q) /\ Claims(r, q)
  BY <1>3, <1>8 DEF Sound, Claims
<1>10. req' = [req EXCEPT ![r] = q]
  <2>1. req \in [Request -> RequestState]
    BY DEF IInv, TypeOK
  <2> QED  BY <1>2, <1>6, <1>7, <2>1 DEF RequestState
<1>11. Kept
  BY <1>2, SameRows DEF IInv
<1>12. ASSUME NEW kind \in Kinds, NEW v \in User, NEW root \in 0..MaxPasswords,
              SupersededNext(kind, v, root)
       PROVE  Superseded(kind, v, root) \/ Reaching(q, kind, v)
  <2>1. CASE kind = "api" \/ v # u
    BY <1>2, <1>5, <1>12, <2>1 DEF Superseded, SupersededNext
  <2>2. CASE kind # "api" /\ v = u
    BY <1>8, <2>2 DEF Reaching
  <2> QED  BY <2>1, <2>2
<1>13. \A kind, v : ~Reaching(req[r], kind, v)
  BY <1>2 DEF Reaching
<1>14. SignOutComplete'
  BY <1>2, <1>8, <1>10, <1>11, <1>12, <1>13, SignOutKept
<1> QED  BY <1>2, <1>5, <1>8, <1>9, <1>10, <1>11, <1>14, StepOf

LEMMA CommitResetKeeps ==
  ASSUME IInv, NEW r \in Request, CommitReset(r)
  PROVE  IInv'
<1>1. PICK u \in User :
        /\ password[u] < MaxPasswords
        /\ password' = [password EXCEPT ![u] = @ + 1]
        /\ cutoff' = [cutoff EXCEPT ![u] = password[u] + 1]
        /\ Accept(r, [Idle EXCEPT !.op = "reset", !.pc = "sessions", !.user = u])
  BY DEF CommitReset
<1>2. UNCHANGED <<cred, restarts>>
  BY DEF CommitReset
<1>3. password[u] + 1 \in 0..MaxPasswords
  <2>1. password[u] \in 0..MaxPasswords
    BY DEF IInv, TypeOK
  <2> QED  BY <1>1, <2>1
<1>4. /\ password' \in [User -> 0..MaxPasswords] /\ cutoff' \in [User -> 0..MaxPasswords]
      /\ \A v \in User : v # u => password'[v] = password[v] /\ cutoff'[v] = cutoff[v]
  BY <1>1, <1>3 DEF IInv, TypeOK
<1>5. PICK q : q = [Idle EXCEPT !.op = "reset", !.pc = "sessions", !.user = u]
  OBVIOUS
<1>6. q \in RequestState /\ q.op = "reset" /\ q.pc = "sessions" /\ q.user = u
  BY <1>5, IdleTyped DEF RequestState, Ops, PCs
<1>7. Sound(q) /\ Claims(r, q)
  BY <1>6 DEF Sound, Claims
<1>8. req' = [req EXCEPT ![r] = q] /\ req[r].pc = "idle"
  BY <1>1, <1>5, IdleTyped DEF Accept
<1>9. Kept
  BY <1>2, SameRows DEF IInv
<1>10. ASSUME NEW kind \in Kinds, NEW v \in User, NEW root \in 0..MaxPasswords,
              SupersededNext(kind, v, root)
       PROVE  Superseded(kind, v, root) \/ Reaching(q, kind, v)
  <2>1. CASE v # u
    BY <1>4, <1>10, <2>1 DEF Superseded, SupersededNext
  <2>2. CASE v = u
    BY <1>6, <2>2 DEF Reaching
  <2> QED  BY <2>1, <2>2
<1>11. \A kind, v : ~Reaching(req[r], kind, v)
  BY <1>8 DEF Reaching
<1>12. SignOutComplete'
  BY <1>2, <1>6, <1>8, <1>9, <1>10, <1>11, SignOutKept
<1> QED  BY <1>2, <1>4, <1>6, <1>7, <1>8, <1>9, <1>12, StepOf

-----------------------------------------------------------------------------
\* One part of a sign-out: the request reaches less than before by the rows it
\* has just ended.
LEMMA SignOutPart ==
  ASSUME IInv, NEW r \in Request, NEW q \in RequestState, Sound(q), Claims(r, q),
         req' = [req EXCEPT ![r] = q], Kept, UNCHANGED <<password, cutoff, restarts>>,
         \A c \in Cid : cred'[c].status = "live" /\ Reaching(req[r], cred[c].kind, cred[c].user)
                          => Reaching(q, cred[c].kind, cred[c].user)
  PROVE  IInv'
<1>1. SignOutComplete'
  BY SamePasswords, SignOutKept DEF IInv
<1>2. TypeOK
  BY DEF IInv
<1> QED  BY <1>1, <1>2, StepOf, SamePasswords

\* A request that goes on to another place stays what it was.
LEMMA GoesOn ==
  ASSUME IInv, NEW r \in Request, NEW pc \in PCs, Goto(r, pc), req[r].op # "exchange",
         req[r].user \in User
  PROVE  \E q \in RequestState :
           /\ req' = [req EXCEPT ![r] = q] /\ q.pc = pc /\ q.op = req[r].op
           /\ q.user = req[r].user /\ Claims(r, q)
           /\ pc = "apps" /\ q.op \in {"change", "reset"} => Sound(q)
           /\ pc = "grants" /\ q.op \in {"change", "reset"} => Sound(q)
           /\ pc \in {"own", "creating"} => Sound(q)
<1>1. PICK q : q = [req[r] EXCEPT !.pc = pc]
  OBVIOUS
<1>2. req[r] \in RequestState /\ req \in [Request -> RequestState]
  BY DEF IInv, TypeOK
<1>3. q \in RequestState /\ q.pc = pc /\ q.op = req[r].op /\ q.user = req[r].user
  BY <1>1, <1>2 DEF RequestState
<1>4. req' = [req EXCEPT ![r] = q]
  BY <1>1, <1>2 DEF Goto, RequestState
<1>5. Claims(r, q)
  BY <1>3 DEF Claims
<1>6. /\ pc = "apps" /\ q.op \in {"change", "reset"} => Sound(q)
      /\ pc = "grants" /\ q.op \in {"change", "reset"} => Sound(q)
      /\ pc \in {"own", "creating"} => Sound(q)
  BY <1>3 DEF Sound
<1> QED  BY <1>3, <1>4, <1>5, <1>6

LEMMA RevokeSessionsKeeps ==
  ASSUME IInv, NEW r \in Request, RevokeSessions(r)
  PROVE  IInv'
<1>1. /\ req[r].pc = "sessions" /\ SetStatus(LiveOf("portal", req[r].user), "revoked")
      /\ Goto(r, "apps") /\ UNCHANGED <<password, cutoff, restarts>>
  BY DEF RevokeSessions
<1>2. req[r].op \in {"change", "reset"} /\ req[r].user \in User
  BY <1>1 DEF IInv, Requests, Sound
<1>3. "apps" \in PCs
  BY DEF PCs
<1>4. PICK q \in RequestState :
        /\ req' = [req EXCEPT ![r] = q] /\ q.pc = "apps" /\ q.op = req[r].op
        /\ q.user = req[r].user /\ Claims(r, q)
        /\ ("apps" \in {"sessions", "grants", "changing"} => q.op \in {"change", "reset"}) => Sound(q)
  BY <1>1, <1>2, <1>3, GoesOn
<1>5. Sound(q)
  BY <1>4
<1>6. PICK C \in SUBSET Cid : C = LiveOf("portal", req[r].user)
  BY DEF LiveOf, Live
<1>7. \A c \in Cid : c \in C <=>
        (cred[c].kind = "portal" /\ cred[c].status = "live" /\ cred[c].user = req[r].user)
  BY <1>6 DEF LiveOf, Live
<1>8. Kept /\ \A c \in C : cred'[c].status = "revoked"
  BY <1>1, <1>6, <1>7, EndedRows DEF IInv
<1>9. ASSUME NEW c \in Cid, cred'[c].status = "live", Reaching(req[r], cred[c].kind, cred[c].user)
      PROVE  Reaching(q, cred[c].kind, cred[c].user)
  <2>1. cred[c].status = "live" /\ c \notin C
    BY <1>8, <1>9 DEF Kept, Keeps
  <2>2. cred[c].user = req[r].user /\ cred[c].kind # "portal"
    BY <1>7, <1>9, <2>1 DEF Reaching
  <2> QED  BY <1>4, <1>9, <2>2 DEF Reaching
<1> QED  BY <1>1, <1>4, <1>5, <1>8, <1>9, SignOutPart

LEMMA RevokeAppSessionsKeeps ==
  ASSUME IInv, NEW r \in Request, RevokeAppSessions(r)
  PROVE  IInv'
<1>1. /\ req[r].pc = "apps" /\ SetStatus(LiveOf("app", req[r].user), "revoked")
      /\ Goto(r, IF req[r].op = "logout" THEN "own" ELSE "grants")
      /\ UNCHANGED <<password, cutoff, restarts>>
  BY DEF RevokeAppSessions
<1>2. req[r].op \in {"logout", "change", "reset"} /\ req[r].user \in User
  BY <1>1 DEF IInv, Requests, Sound
<1>3. PICK pc \in PCs : pc = IF req[r].op = "logout" THEN "own" ELSE "grants"
  BY DEF PCs
<1>4. PICK q \in RequestState :
        /\ req' = [req EXCEPT ![r] = q] /\ q.pc = pc /\ q.op = req[r].op
        /\ q.user = req[r].user /\ Claims(r, q)
        /\ pc = "grants" /\ q.op \in {"change", "reset"} => Sound(q)
        /\ pc \in {"own", "creating"} => Sound(q)
  BY <1>1, <1>2, <1>3, GoesOn
<1>5. Sound(q)
  BY <1>2, <1>3, <1>4
<1>6. PICK C \in SUBSET Cid : C = LiveOf("app", req[r].user)
  BY DEF LiveOf, Live
<1>7. \A c \in Cid : c \in C <=>
        (cred[c].kind = "app" /\ cred[c].status = "live" /\ cred[c].user = req[r].user)
  BY <1>6 DEF LiveOf, Live
<1>8. Kept /\ \A c \in C : cred'[c].status = "revoked"
  BY <1>1, <1>6, <1>7, EndedRows DEF IInv
<1>9. ASSUME NEW c \in Cid, cred'[c].status = "live", Reaching(req[r], cred[c].kind, cred[c].user)
      PROVE  Reaching(q, cred[c].kind, cred[c].user)
  <2>1. cred[c].status = "live" /\ c \notin C
    BY <1>8, <1>9 DEF Kept, Keeps
  <2>2. /\ cred[c].user = req[r].user /\ cred[c].kind \notin {"portal", "app"}
        /\ req[r].op # "logout"
    BY <1>1, <1>7, <1>9, <2>1 DEF Reaching
  <2> QED  BY <1>3, <1>4, <1>9, <2>2 DEF Reaching
<1> QED  BY <1>1, <1>4, <1>5, <1>8, <1>9, SignOutPart

LEMMA DeleteGrantsKeeps ==
  ASSUME IInv, NEW r \in Request, DeleteGrants(r)
  PROVE  IInv'
<1>1. PICK kinds : kinds = IF req[r].op = "reset" THEN {"launch", "api"} ELSE {"launch"}
  OBVIOUS
<1>2. PICK C \in SUBSET Cid : C = {c \in Cid : cred[c].kind \in kinds /\ cred[c].user = req[r].user}
  OBVIOUS
<1>3. /\ req[r].pc = "grants" /\ SetStatus(C, "deleted")
      /\ IF req[r].op = "change" THEN Goto(r, "creating") ELSE Finish(r)
      /\ UNCHANGED <<password, cutoff, restarts>>
  BY <1>1, <1>2 DEF DeleteGrants
<1>4. req[r].op \in {"change", "reset"} /\ req[r].user \in User
  BY <1>3 DEF IInv, Requests, Sound
<1>5. \E q \in RequestState : req' = [req EXCEPT ![r] = q] /\ Sound(q) /\ Claims(r, q)
  <2>1. CASE req[r].op = "change"
    <3>1. "creating" \in PCs
      BY DEF PCs
    <3> QED  BY <1>3, <1>4, <2>1, <3>1, GoesOn
  <2>2. CASE req[r].op # "change"
    BY <1>3, <2>2, IdleTyped DEF Finish, Claims
  <2> QED  BY <2>1, <2>2
<1>6. PICK q \in RequestState : req' = [req EXCEPT ![r] = q] /\ Sound(q) /\ Claims(r, q)
  BY <1>5
<1>7. \A c \in C : cred[c].kind # "none"
  BY <1>1, <1>2
<1>8. Kept /\ \A c \in C : cred'[c].status = "deleted"
  BY <1>3, <1>7, EndedRows DEF IInv
<1>9. ASSUME NEW c \in Cid, cred'[c].status = "live", Reaching(req[r], cred[c].kind, cred[c].user)
      PROVE  FALSE
  <2>1. cred[c].status = "live" /\ c \notin C
    BY <1>8, <1>9 DEF Kept, Keeps
  <2>2. /\ cred[c].user = req[r].user /\ cred[c].kind \notin {"portal", "app"}
        /\ cred[c].kind = "api" => req[r].op = "reset"
    BY <1>3, <1>9 DEF Reaching
  <2>3. cred[c].kind \in Kinds
    <3>1. cred[c].kind # "none"
      BY <2>1 DEF IInv, Rows
    <3> QED  BY <3>1 DEF IInv, TypeOK, Row
  <2>4. cred[c].kind \in kinds
    BY <1>1, <2>2, <2>3 DEF Kinds
  <2> QED  BY <1>2, <2>1, <2>2, <2>4
<1> QED  BY <1>3, <1>6, <1>8, <1>9, SignOutPart

-----------------------------------------------------------------------------
\* The portal dies and comes back: the rows stay, the requests are gone.
LEMMA RestartKeeps ==
  ASSUME IInv, Restart
  PROVE  IInv'
<1>1. /\ \A r \in Request : req'[r] = Idle
      /\ UNCHANGED <<password, cutoff, cred>> /\ restarts' = restarts + 1
      /\ restarts \in 0..MaxRestarts /\ restarts < MaxRestarts
  BY DEF IInv, TypeOK, Restart
<1>2. TypeOK'
  <2>1. req' \in [Request -> RequestState]
    BY IdleTyped DEF Restart
  <2>2. restarts' \in 0..MaxRestarts
    BY <1>1
  <2> QED  BY <1>1, <2>1, <2>2 DEF IInv, TypeOK
<1>3. Rows' /\ OneSessionPerLaunch'
  BY <1>1 DEF IInv, Rows, OneSessionPerLaunch
<1>4. Requests' /\ HeldOnce'
  <2>1. ASSUME NEW r \in Request
        PROVE  Sound(req'[r]) /\ Held(req[r])'
    BY <1>1, IdleTyped DEF Held
  <2> QED  BY <1>1, <2>1, IdleTyped DEF Requests, HeldOnce
<1>5. SignOutComplete'
  <2>1. restarts' # 0
    BY <1>1
  <2> QED  BY <2>1 DEF SignOutComplete
<1> QED  BY <1>2, <1>3, <1>4, <1>5 DEF IInv

LEMMA InitIInv == Init => IInv
<1> SUFFICES ASSUME Init PROVE IInv
  OBVIOUS
<1>1. Unused \in Row /\ Unused.kind = "none" /\ Unused.status = "deleted"
  BY DEF Unused, Row
<1>2. TypeOK
  BY <1>1, IdleTyped DEF Init, TypeOK
<1>3. Rows /\ OneSessionPerLaunch /\ SignOutComplete
  BY <1>1 DEF Init, Rows, OneSessionPerLaunch, SignOutComplete
<1>4. Requests /\ HeldOnce
  BY IdleTyped DEF Init, Requests, Held, HeldOnce
<1> QED  BY <1>2, <1>3, <1>4 DEF IInv

\* A step of any kind keeps the invariant.
LEMMA NextIInv == IInv /\ [Next]_vars => IInv'
<1> SUFFICES ASSUME IInv, [Next]_vars PROVE IInv'
  OBVIOUS
<1>1. CASE UNCHANGED vars
  <2>1. UNCHANGED <<password, cutoff, cred, req, restarts>>
    BY <1>1 DEF vars
  <2>2. TypeOK' /\ Rows' /\ Requests' /\ HeldOnce' /\ OneSessionPerLaunch'
    BY <2>1 DEF IInv, TypeOK, Rows, Requests, Held, HeldOnce, OneSessionPerLaunch
  <2>3. SignOutComplete'
    BY <2>1, SignOutIs, Zenon DEF IInv, ReachesNext, SupersededNext, Superseded
  <2> QED  BY <2>2, <2>3 DEF IInv
<1>2. CASE Restart
  BY <1>2, RestartKeeps
<1>3. ASSUME NEW r \in Request, Arrive(r)
      PROVE  IInv'
  BY <1>3, VerifyLoginKeeps, BeginLogoutKeeps, BeginChangeKeeps, CommitResetKeeps,
     BeginMintKeeps, ClaimLaunchTokenKeeps DEF Arrive
<1>4. ASSUME NEW r \in Request, Continue(r)
      PROVE  IInv'
  BY <1>4, CreateSessionKeeps, RevokeOwnSessionKeeps, CommitChangeKeeps, RevokeSessionsKeeps,
     RevokeAppSessionsKeeps, DeleteGrantsKeeps, MintLaunchTokenKeeps, MintApiTokenKeeps,
     ValidateLaunchTokenKeeps, CreateAppSessionKeeps DEF Continue
<1> QED  BY <1>1, <1>2, <1>3, <1>4 DEF Next

-----------------------------------------------------------------------------
\* The inductive invariant holds in every reachable state.
THEOREM Invariance == Spec => []IInv
BY InitIInv, NextIInv, PTL DEF Spec

\* Rows and requests hold what the tables and handlers can hold.
THEOREM TypeCorrect == Spec => []TypeOK
<1>1. IInv => TypeOK
  BY DEF IInv
<1> QED  BY <1>1, Invariance, PTL

\* A launch token buys one app session at most, for its user and its app, whoever
\* presents it at the same time (api.py session_exchange).
THEOREM OneSession == Spec => []OneSessionPerLaunch
<1>1. IInv => OneSessionPerLaunch
  BY DEF IInv
<1> QED  BY <1>1, Invariance, PTL

\* While the portal has not died, a live credential of a replaced password is one
\* that a running sign-out has yet to reach, or one written after its password was
\* gone (sessions.py sign_out_everywhere).
THEOREM SignOut == Spec => []SignOutComplete
<1>1. IInv => SignOutComplete
  BY DEF IInv
<1> QED  BY <1>1, Invariance, PTL
=============================================================================
