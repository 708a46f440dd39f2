------------------------- MODULE AdminAccountsProofs -------------------------
(***************************************************************************)
(* AdminRemains, SetupOnce, NoResurrection and TokensFollowRole for every  *)
(* set of ids, every number of requests and every number of restarts.      *)
(*                                                                         *)
(* AdminRemains is not inductive: it says nothing of the requests between  *)
(* the count and the commit.  IInv adds that a request in that window      *)
(* holds the lock, and that an admin other than its target exists.         *)
(***************************************************************************)
EXTENDS AdminAccounts, FiniteSetTheorems, TLAPS

\* An account row has an id that was given out; before setup there is no
\* account, hence nobody to ask for anything but setup.
IdsIssued == \A u \in UserId : role[u] # "absent" => u \in issued
PreSetup  ==
  ~setupComplete => /\ issued = {} /\ founders = {}
                    /\ \A r \in Request : req[r].op \in {"none", "setup"}

HoldsAdminLock(q) ==
  q.op \in {"set_role", "delete"} /\ q.pc \in {"locked", "counting", "writing"}
TakesAdmin(q) ==
  q.pc = "writing" /\ (q.op = "delete" \/ (q.op = "set_role" /\ q.want = "user"))

AdminLockInv == \A r \in Request : HoldsAdminLock(req[r]) => adminLock = r
OtherAdmin ==
  \A r \in Request : TakesAdmin(req[r]) => \E u \in Admins : u # req[r].target

HoldsSetupLock(q) == q.op = "setup" /\ q.pc \in {"locked", "writing"}
SetupLockInv ==
  \A r \in Request :
    /\ HoldsSetupLock(req[r]) => setupLock = r
    /\ req[r].op = "setup" /\ req[r].pc = "writing" => ~setupComplete

\* Requests aimed at an account name one.
Targets ==
  \A r \in Request : req[r].op \in {"set_role", "delete", "promote"} => req[r].target \in UserId
Actors == \A r \in Request : req[r].op = "mint" => req[r].actor \in UserId

IInv == /\ TypeOK /\ IdsIssued /\ PreSetup /\ AdminLockInv /\ OtherAdmin
        /\ SetupLockInv /\ Targets /\ Actors /\ AdminRemains /\ SetupOnce

-----------------------------------------------------------------------------
USE UserIdAssumption, RequestAssumption, RestartsAssumption

\* Every step keeps each variable within its type.
LEMMA TypeStep == TypeOK /\ Targets /\ Actors /\ [Next]_vars => TypeOK' /\ Targets' /\ Actors'
<1> SUFFICES ASSUME TypeOK, Targets, Actors, [Next]_vars
             PROVE  TypeOK' /\ Targets' /\ Actors'
  OBVIOUS
<1> USE DEF TypeOK, Targets, Actors, RequestState, Idle, Ops, PCs, Roles, Token,
            Accept, Goto, Finish, Refuse, UpdateRole, FreshIds, Admins
<1>1. ASSUME NEW r \in Request, SubmitSetup(r) PROVE TypeOK' /\ Targets' /\ Actors'
  BY <1>1 DEF SubmitSetup
<1>2. ASSUME NEW r \in Request, AcquireSetupLock(r) PROVE TypeOK' /\ Targets' /\ Actors'
  BY <1>2 DEF AcquireSetupLock
<1>3. ASSUME NEW r \in Request, CheckNoAdmin(r) PROVE TypeOK' /\ Targets' /\ Actors'
  BY <1>3 DEF CheckNoAdmin, AdminExists
<1>4. ASSUME NEW r \in Request, CompleteSetup(r) PROVE TypeOK' /\ Targets' /\ Actors'
  BY <1>4 DEF CompleteSetup
<1>5. ASSUME NEW r \in Request, SubmitAdminRequest(r) PROVE TypeOK' /\ Targets' /\ Actors'
  BY <1>5 DEF SubmitAdminRequest
<1>6. ASSUME NEW r \in Request, CreateUser(r) PROVE TypeOK' /\ Targets' /\ Actors'
  BY <1>6 DEF CreateUser
<1>7. ASSUME NEW r \in Request, RefuseCreate(r) PROVE TypeOK' /\ Targets' /\ Actors'
  BY <1>7 DEF RefuseCreate
<1>8. ASSUME NEW r \in Request, AcquireAdminLock(r) PROVE TypeOK' /\ Targets' /\ Actors'
  BY <1>8 DEF AcquireAdminLock
<1>9. ASSUME NEW r \in Request, ReadTarget(r) PROVE TypeOK' /\ Targets' /\ Actors'
  BY <1>9 DEF ReadTarget
<1>10. ASSUME NEW r \in Request, CountAdmins(r) PROVE TypeOK' /\ Targets' /\ Actors'
  BY <1>10 DEF CountAdmins
<1>11. ASSUME NEW r \in Request, CommitRole(r) PROVE TypeOK' /\ Targets' /\ Actors'
  BY <1>11 DEF CommitRole
<1>12. ASSUME NEW r \in Request, RevokeAdminCredentials(r) PROVE TypeOK' /\ Targets' /\ Actors'
  BY <1>12 DEF RevokeAdminCredentials
<1>13. ASSUME NEW r \in Request, CommitDelete(r) PROVE TypeOK' /\ Targets' /\ Actors'
  BY <1>13 DEF CommitDelete
<1>14. ASSUME NEW r \in Request, MintToken(r) PROVE TypeOK' /\ Targets' /\ Actors'
  <2>1. req[r].actor \in UserId
    BY <1>14 DEF MintToken
  <2>2. [owner |-> req[r].actor, late |-> role[req[r].actor] # "admin"] \in Token
    <3>1. (role[req[r].actor] # "admin") \in BOOLEAN
      OBVIOUS
    <3>2. QED
      BY <2>1, <3>1, Zenon DEF Token
  <2>3. apiTokens' \in SUBSET Token
    BY <1>14, <2>2, Zenon DEF MintToken, TypeOK
  <2>4. req' \in [Request -> RequestState]
    BY <1>14 DEF MintToken
  <2>5. Targets' /\ Actors'
    BY <1>14 DEF MintToken
  <2> QED
    BY <1>14, <2>3, <2>4, <2>5 DEF MintToken
<1>15. ASSUME NEW r \in Request, RevokeToken(r) PROVE TypeOK' /\ Targets' /\ Actors'
  BY <1>15 DEF RevokeToken
<1>16. ASSUME NEW r \in Request, PromoteRead(r) PROVE TypeOK' /\ Targets' /\ Actors'
  <2>1. PICK u \in UserId : role[u] # "absent" /\
               Accept(r, [Idle EXCEPT !.op = "promote", !.pc = "writing",
                                      !.target = u, !.was = role[u]])
    BY <1>16 DEF PromoteRead
  <2>2. role[u] \in Roles
    BY <2>1
  <2>3. [Idle EXCEPT !.op = "promote", !.pc = "writing",
                     !.target = u, !.was = role[u]] \in RequestState
    BY <2>2
  <2> QED
    BY <1>16, <2>1, <2>3 DEF PromoteRead
<1>17. ASSUME NEW r \in Request, PromoteCommit(r) PROVE TypeOK' /\ Targets' /\ Actors'
  BY <1>17 DEF PromoteCommit
<1>18. CASE Restart
  BY <1>18 DEF Restart
<1>19. CASE UNCHANGED vars
  BY <1>19 DEF vars
<1> QED
  BY <1>1, <1>2, <1>3, <1>4, <1>5, <1>6, <1>7, <1>8, <1>9, <1>10, <1>11, <1>12, <1>13, <1>14, <1>15, <1>16, <1>17, <1>18, <1>19 DEF Next, Setup, ChangeAccount, ChangeToken, Promote

-----------------------------------------------------------------------------
\* Who holds which lock, and that setup happens once, at the very beginning.
LEMMA LockStep ==
  TypeOK /\ IdsIssued /\ PreSetup /\ AdminLockInv /\ SetupLockInv /\ SetupOnce /\ Targets
    /\ [Next]_vars
  => IdsIssued' /\ PreSetup' /\ AdminLockInv' /\ SetupLockInv' /\ SetupOnce'
<1> SUFFICES ASSUME TypeOK, IdsIssued, PreSetup, AdminLockInv, SetupLockInv, SetupOnce, Targets,
                    [Next]_vars
             PROVE  IdsIssued' /\ PreSetup' /\ AdminLockInv' /\ SetupLockInv' /\ SetupOnce'
  OBVIOUS
<1> USE DEF IdsIssued, PreSetup, AdminLockInv, SetupLockInv, SetupOnce, Targets,
            TypeOK, RequestState, HoldsAdminLock, HoldsSetupLock, Idle,
            Accept, Goto, Finish, Refuse, UpdateRole, FreshIds, Admins
<1>1. ASSUME NEW r \in Request, SubmitSetup(r) PROVE IdsIssued' /\ PreSetup' /\ AdminLockInv' /\ SetupLockInv' /\ SetupOnce'
  BY <1>1 DEF SubmitSetup
<1>2. ASSUME NEW r \in Request, AcquireSetupLock(r) PROVE IdsIssued' /\ PreSetup' /\ AdminLockInv' /\ SetupLockInv' /\ SetupOnce'
  BY <1>2 DEF AcquireSetupLock
<1>3. ASSUME NEW r \in Request, CheckNoAdmin(r) PROVE IdsIssued' /\ PreSetup' /\ AdminLockInv' /\ SetupLockInv' /\ SetupOnce'
  BY <1>3 DEF CheckNoAdmin, AdminExists
<1>4. ASSUME NEW r \in Request, CompleteSetup(r) PROVE IdsIssued' /\ PreSetup' /\ AdminLockInv' /\ SetupLockInv' /\ SetupOnce'
  BY <1>4 DEF CompleteSetup
<1>5. ASSUME NEW r \in Request, SubmitAdminRequest(r) PROVE IdsIssued' /\ PreSetup' /\ AdminLockInv' /\ SetupLockInv' /\ SetupOnce'
  BY <1>5 DEF SubmitAdminRequest
<1>6. ASSUME NEW r \in Request, CreateUser(r) PROVE IdsIssued' /\ PreSetup' /\ AdminLockInv' /\ SetupLockInv' /\ SetupOnce'
  BY <1>6 DEF CreateUser
<1>7. ASSUME NEW r \in Request, RefuseCreate(r) PROVE IdsIssued' /\ PreSetup' /\ AdminLockInv' /\ SetupLockInv' /\ SetupOnce'
  BY <1>7 DEF RefuseCreate
<1>8. ASSUME NEW r \in Request, AcquireAdminLock(r) PROVE IdsIssued' /\ PreSetup' /\ AdminLockInv' /\ SetupLockInv' /\ SetupOnce'
  BY <1>8 DEF AcquireAdminLock
<1>9. ASSUME NEW r \in Request, ReadTarget(r) PROVE IdsIssued' /\ PreSetup' /\ AdminLockInv' /\ SetupLockInv' /\ SetupOnce'
  BY <1>9 DEF ReadTarget
<1>10. ASSUME NEW r \in Request, CountAdmins(r) PROVE IdsIssued' /\ PreSetup' /\ AdminLockInv' /\ SetupLockInv' /\ SetupOnce'
  BY <1>10 DEF CountAdmins
<1>11. ASSUME NEW r \in Request, CommitRole(r) PROVE IdsIssued' /\ PreSetup' /\ AdminLockInv' /\ SetupLockInv' /\ SetupOnce'
  BY <1>11 DEF CommitRole
<1>12. ASSUME NEW r \in Request, RevokeAdminCredentials(r) PROVE IdsIssued' /\ PreSetup' /\ AdminLockInv' /\ SetupLockInv' /\ SetupOnce'
  BY <1>12 DEF RevokeAdminCredentials
<1>13. ASSUME NEW r \in Request, CommitDelete(r) PROVE IdsIssued' /\ PreSetup' /\ AdminLockInv' /\ SetupLockInv' /\ SetupOnce'
  BY <1>13 DEF CommitDelete
<1>14. ASSUME NEW r \in Request, MintToken(r) PROVE IdsIssued' /\ PreSetup' /\ AdminLockInv' /\ SetupLockInv' /\ SetupOnce'
  BY <1>14 DEF MintToken
<1>15. ASSUME NEW r \in Request, RevokeToken(r) PROVE IdsIssued' /\ PreSetup' /\ AdminLockInv' /\ SetupLockInv' /\ SetupOnce'
  BY <1>15 DEF RevokeToken
<1>16. ASSUME NEW r \in Request, PromoteRead(r) PROVE IdsIssued' /\ PreSetup' /\ AdminLockInv' /\ SetupLockInv' /\ SetupOnce'
  BY <1>16 DEF PromoteRead
<1>17. ASSUME NEW r \in Request, PromoteCommit(r) PROVE IdsIssued' /\ PreSetup' /\ AdminLockInv' /\ SetupLockInv' /\ SetupOnce'
  BY <1>17 DEF PromoteCommit
<1>18. CASE Restart
  BY <1>18 DEF Restart
<1>19. CASE UNCHANGED vars
  BY <1>19 DEF vars
<1> QED
  BY <1>1, <1>2, <1>3, <1>4, <1>5, <1>6, <1>7, <1>8, <1>9, <1>10, <1>11, <1>12, <1>13, <1>14, <1>15, <1>16, <1>17, <1>18, <1>19 DEF Next, Setup, ChangeAccount, ChangeToken, Promote

-----------------------------------------------------------------------------
\* A finite set with more than one element has one other than t.
LEMMA AnotherElement ==
  ASSUME NEW S, IsFiniteSet(S), ~(Cardinality(S) <= 1), NEW t
  PROVE  \E u \in S : u # t
<1>1. IsFiniteSet({t}) /\ Cardinality({t}) = 1
  BY FS_Singleton
<1>2. ~(S \subseteq {t})
  BY <1>1, FS_Subset
<1> QED
  BY <1>2

\* While a request may still take the role of its target, an admin other than
\* the target exists, and nobody else can take that one's role.
LEMMA AdminStep ==
  TypeOK /\ IdsIssued /\ PreSetup /\ AdminLockInv /\ SetupLockInv /\ Targets
    /\ OtherAdmin /\ AdminRemains /\ [Next]_vars
  => OtherAdmin' /\ AdminRemains'
<1> SUFFICES ASSUME TypeOK, IdsIssued, PreSetup, AdminLockInv, SetupLockInv, Targets,
                    OtherAdmin, AdminRemains, [Next]_vars
             PROVE  OtherAdmin' /\ AdminRemains'
  OBVIOUS
<1> USE DEF IdsIssued, PreSetup, AdminLockInv, SetupLockInv, Targets, OtherAdmin, AdminRemains,
            TypeOK, RequestState, Roles, HoldsAdminLock, HoldsSetupLock, TakesAdmin, Idle,
            Accept, Goto, Finish, Refuse, UpdateRole, FreshIds, Admins
<1>1. ASSUME NEW r \in Request, SubmitSetup(r) PROVE OtherAdmin' /\ AdminRemains'
  BY <1>1 DEF SubmitSetup
<1>2. ASSUME NEW r \in Request, AcquireSetupLock(r) PROVE OtherAdmin' /\ AdminRemains'
  BY <1>2 DEF AcquireSetupLock
<1>3. ASSUME NEW r \in Request, CheckNoAdmin(r) PROVE OtherAdmin' /\ AdminRemains'
  BY <1>3 DEF CheckNoAdmin
<1>4. ASSUME NEW r \in Request, CompleteSetup(r) PROVE OtherAdmin' /\ AdminRemains'
  BY <1>4 DEF CompleteSetup
<1>5. ASSUME NEW r \in Request, SubmitAdminRequest(r) PROVE OtherAdmin' /\ AdminRemains'
  BY <1>5 DEF SubmitAdminRequest
<1>6. ASSUME NEW r \in Request, CreateUser(r) PROVE OtherAdmin' /\ AdminRemains'
  BY <1>6 DEF CreateUser
<1>7. ASSUME NEW r \in Request, RefuseCreate(r) PROVE OtherAdmin' /\ AdminRemains'
  BY <1>7 DEF RefuseCreate
<1>8. ASSUME NEW r \in Request, AcquireAdminLock(r) PROVE OtherAdmin' /\ AdminRemains'
  BY <1>8 DEF AcquireAdminLock
<1>9. ASSUME NEW r \in Request, ReadTarget(r) PROVE OtherAdmin' /\ AdminRemains'
  BY <1>9 DEF ReadTarget
<1>10. ASSUME NEW r \in Request, CountAdmins(r) PROVE OtherAdmin' /\ AdminRemains'
  <2>1. CASE Cardinality(Admins) <= 1
    BY <1>10, <2>1 DEF CountAdmins
  <2>2. CASE ~(Cardinality(Admins) <= 1)
    <3>1. IsFiniteSet(Admins)
      BY FS_Subset, UserIdAssumption
    <3>2. \E u \in Admins : u # req[r].target
      BY <2>2, <3>1, AnotherElement
    <3> QED
      BY <1>10, <2>2, <3>2 DEF CountAdmins
  <2> QED
    BY <2>1, <2>2
<1>11. ASSUME NEW r \in Request, CommitRole(r) PROVE OtherAdmin' /\ AdminRemains'
  BY <1>11 DEF CommitRole
<1>12. ASSUME NEW r \in Request, RevokeAdminCredentials(r) PROVE OtherAdmin' /\ AdminRemains'
  BY <1>12 DEF RevokeAdminCredentials
<1>13. ASSUME NEW r \in Request, CommitDelete(r) PROVE OtherAdmin' /\ AdminRemains'
  BY <1>13 DEF CommitDelete
<1>14. ASSUME NEW r \in Request, MintToken(r) PROVE OtherAdmin' /\ AdminRemains'
  BY <1>14 DEF MintToken
<1>15. ASSUME NEW r \in Request, RevokeToken(r) PROVE OtherAdmin' /\ AdminRemains'
  BY <1>15 DEF RevokeToken
<1>16. ASSUME NEW r \in Request, PromoteRead(r) PROVE OtherAdmin' /\ AdminRemains'
  BY <1>16 DEF PromoteRead
<1>17. ASSUME NEW r \in Request, PromoteCommit(r) PROVE OtherAdmin' /\ AdminRemains'
  BY <1>17 DEF PromoteCommit
<1>18. CASE Restart
  BY <1>18 DEF Restart
<1>19. CASE UNCHANGED vars
  BY <1>19 DEF vars
<1> QED
  BY <1>1, <1>2, <1>3, <1>4, <1>5, <1>6, <1>7, <1>8, <1>9, <1>10, <1>11, <1>12, <1>13, <1>14, <1>15, <1>16, <1>17, <1>18, <1>19 DEF Next, Setup, ChangeAccount, ChangeToken, Promote

-----------------------------------------------------------------------------
\* The invariant holds of the empty database the portal starts on.
LEMMA InitIInv == Init => IInv
<1> SUFFICES ASSUME Init PROVE IInv
  OBVIOUS
<1> USE DEF Init
<1>1. TypeOK
  <2>1. Idle \in RequestState
    BY DEF Idle, RequestState, Ops, PCs, Roles
  <2>2. req \in [Request -> RequestState] /\ restarts \in 0..MaxRestarts
    BY <2>1
  <2>3. setupComplete \in BOOLEAN
    OBVIOUS
  <2> QED
    BY <2>2, <2>3 DEF TypeOK, Token
<1>2. IdsIssued /\ PreSetup /\ AdminRemains /\ SetupOnce
  BY DEF IdsIssued, PreSetup, AdminRemains, SetupOnce, Idle
<1>3. AdminLockInv /\ OtherAdmin /\ SetupLockInv /\ Targets /\ Actors
  BY DEF AdminLockInv, OtherAdmin, SetupLockInv, Targets, Actors, HoldsAdminLock,
         HoldsSetupLock, TakesAdmin, Idle
<1> QED
  BY <1>1, <1>2, <1>3 DEF IInv

\* The inductive invariant holds throughout.
THEOREM Invariance == Spec => []IInv
<1>1. Init => IInv
  BY InitIInv
<1>2. IInv /\ [Next]_vars => IInv'
  BY TypeStep, LockStep, AdminStep DEF IInv
<1>3. QED
  BY <1>1, <1>2, PTL DEF Spec

\* The variables keep their types, whatever the number of ids and requests.
THEOREM TypeCorrect == Spec => []TypeOK
<1>1. IInv => TypeOK
  BY DEF IInv
<1>2. QED
  BY Invariance, <1>1, PTL

\* After setup there is always an admin: admin.py's check of the last admin is
\* sound because check and commit are under one lock.
THEOREM AlwaysAnAdmin == Spec => []AdminRemains
<1>1. IInv => AdminRemains
  BY DEF IInv
<1>2. QED
  BY Invariance, <1>1, PTL

\* First-run setup creates at most one account.
THEOREM OneFounder == Spec => []SetupOnce
<1>1. IInv => SetupOnce
  BY DEF IInv
<1>2. QED
  BY Invariance, <1>1, PTL

\* No step gives an id that once had an account to another account.
LEMMA ResurrectionStep ==
  [Next]_vars /\ TypeOK => \A u \in issued : role[u] = "absent" => role'[u] = "absent"
<1> SUFFICES ASSUME [Next]_vars, TypeOK, NEW x \in issued, role[x] = "absent"
             PROVE  role'[x] = "absent"
  OBVIOUS
<1> USE DEF TypeOK, FreshIds, UpdateRole
<1>1. ASSUME NEW r \in Request, SubmitSetup(r) PROVE role'[x] = "absent"
  BY <1>1 DEF SubmitSetup
<1>2. ASSUME NEW r \in Request, AcquireSetupLock(r) PROVE role'[x] = "absent"
  BY <1>2 DEF AcquireSetupLock
<1>3. ASSUME NEW r \in Request, CheckNoAdmin(r) PROVE role'[x] = "absent"
  BY <1>3 DEF CheckNoAdmin
<1>4. ASSUME NEW r \in Request, CompleteSetup(r) PROVE role'[x] = "absent"
  BY <1>4 DEF CompleteSetup
<1>5. ASSUME NEW r \in Request, SubmitAdminRequest(r) PROVE role'[x] = "absent"
  BY <1>5 DEF SubmitAdminRequest
<1>6. ASSUME NEW r \in Request, CreateUser(r) PROVE role'[x] = "absent"
  BY <1>6 DEF CreateUser
<1>7. ASSUME NEW r \in Request, RefuseCreate(r) PROVE role'[x] = "absent"
  BY <1>7 DEF RefuseCreate
<1>8. ASSUME NEW r \in Request, AcquireAdminLock(r) PROVE role'[x] = "absent"
  BY <1>8 DEF AcquireAdminLock
<1>9. ASSUME NEW r \in Request, ReadTarget(r) PROVE role'[x] = "absent"
  BY <1>9 DEF ReadTarget
<1>10. ASSUME NEW r \in Request, CountAdmins(r) PROVE role'[x] = "absent"
  BY <1>10 DEF CountAdmins
<1>11. ASSUME NEW r \in Request, CommitRole(r) PROVE role'[x] = "absent"
  BY <1>11 DEF CommitRole
<1>12. ASSUME NEW r \in Request, RevokeAdminCredentials(r) PROVE role'[x] = "absent"
  BY <1>12 DEF RevokeAdminCredentials
<1>13. ASSUME NEW r \in Request, CommitDelete(r) PROVE role'[x] = "absent"
  BY <1>13 DEF CommitDelete
<1>14. ASSUME NEW r \in Request, MintToken(r) PROVE role'[x] = "absent"
  BY <1>14 DEF MintToken
<1>15. ASSUME NEW r \in Request, RevokeToken(r) PROVE role'[x] = "absent"
  BY <1>15 DEF RevokeToken
<1>16. ASSUME NEW r \in Request, PromoteRead(r) PROVE role'[x] = "absent"
  BY <1>16 DEF PromoteRead
<1>17. ASSUME NEW r \in Request, PromoteCommit(r) PROVE role'[x] = "absent"
  BY <1>17 DEF PromoteCommit
<1>18. CASE Restart
  BY <1>18 DEF Restart
<1>19. CASE UNCHANGED vars
  BY <1>19 DEF vars
<1> QED
  BY <1>1, <1>2, <1>3, <1>4, <1>5, <1>6, <1>7, <1>8, <1>9, <1>10, <1>11, <1>12, <1>13, <1>14, <1>15, <1>16, <1>17, <1>18, <1>19 DEF Next, Setup, ChangeAccount, ChangeToken, Promote

\* A deleted account's id is never reused (models.py, sqlite_autoincrement).
THEOREM IdsNeverReused == Spec => NoResurrection
<1>1. [Next]_vars /\ TypeOK =>
        [\A u \in issued : role[u] = "absent" => role'[u] = "absent"]_vars
  BY ResurrectionStep
<1>2. QED
  BY TypeCorrect, <1>1, PTL DEF Spec, NoResurrection

-----------------------------------------------------------------------------
\* What TokensFollowRole says of a token that was not minted late.
Covered(t) ==
  \/ role[t.owner] = "admin"
  \/ \E p \in Request : req[p].pc = "revoking" /\ req[p].target = t.owner

\* Without a restart between the commit of a demotion and the deletion of the
\* tokens, only a token written after the demotion survives it.
LEMMA TokenStep == IInv /\ TokensFollowRole /\ [Next]_vars => TokensFollowRole'
<1> SUFFICES ASSUME IInv, TokensFollowRole, [Next]_vars, restarts' = 0,
                    NEW t \in apiTokens', ~t.late
             PROVE  Covered(t)'
  BY DEF TokensFollowRole, Covered
<1> USE DEF Covered, TokensFollowRole, IInv, IdsIssued, TypeOK, RequestState, Roles, Token, Idle, Targets,
            Actors, Accept, Goto, Finish, Refuse, UpdateRole, FreshIds
<1>1. ASSUME NEW r \in Request, SubmitSetup(r) PROVE Covered(t)'
  BY <1>1 DEF SubmitSetup
<1>2. ASSUME NEW r \in Request, AcquireSetupLock(r) PROVE Covered(t)'
  BY <1>2 DEF AcquireSetupLock
<1>3. ASSUME NEW r \in Request, CheckNoAdmin(r) PROVE Covered(t)'
  BY <1>3 DEF CheckNoAdmin
<1>4. ASSUME NEW r \in Request, CompleteSetup(r) PROVE Covered(t)'
  BY <1>4 DEF CompleteSetup
<1>5. ASSUME NEW r \in Request, SubmitAdminRequest(r) PROVE Covered(t)'
  BY <1>5 DEF SubmitAdminRequest
<1>6. ASSUME NEW r \in Request, CreateUser(r) PROVE Covered(t)'
  BY <1>6 DEF CreateUser
<1>7. ASSUME NEW r \in Request, RefuseCreate(r) PROVE Covered(t)'
  BY <1>7 DEF RefuseCreate
<1>8. ASSUME NEW r \in Request, AcquireAdminLock(r) PROVE Covered(t)'
  BY <1>8 DEF AcquireAdminLock
<1>9. ASSUME NEW r \in Request, ReadTarget(r) PROVE Covered(t)'
  BY <1>9 DEF ReadTarget
<1>10. ASSUME NEW r \in Request, CountAdmins(r) PROVE Covered(t)'
  BY <1>10 DEF CountAdmins
<1>11. ASSUME NEW r \in Request, CommitRole(r) PROVE Covered(t)'
  BY <1>11 DEF CommitRole
<1>12. ASSUME NEW r \in Request, RevokeAdminCredentials(r) PROVE Covered(t)'
  BY <1>12 DEF RevokeAdminCredentials
<1>13. ASSUME NEW r \in Request, CommitDelete(r) PROVE Covered(t)'
  BY <1>13 DEF CommitDelete
<1>14. ASSUME NEW r \in Request, MintToken(r) PROVE Covered(t)'
  <2>1. CASE t \in apiTokens
    BY <1>14, <2>1 DEF MintToken
  <2>2. CASE t \notin apiTokens
    <3>1. t = [owner |-> req[r].actor, late |-> role[req[r].actor] # "admin"]
      BY <1>14, <2>2, Zenon DEF MintToken
    <3>2. t.owner = req[r].actor /\ t.late = (role[req[r].actor] # "admin")
      BY <3>1, Zenon
    <3>3. role[t.owner] = "admin"
      BY <3>2, Zenon
    <3> QED
      BY <1>14, <3>3 DEF MintToken
  <2> QED
    BY <2>1, <2>2
<1>15. ASSUME NEW r \in Request, RevokeToken(r) PROVE Covered(t)'
  BY <1>15 DEF RevokeToken
<1>16. ASSUME NEW r \in Request, PromoteRead(r) PROVE Covered(t)'
  BY <1>16 DEF PromoteRead
<1>17. ASSUME NEW r \in Request, PromoteCommit(r) PROVE Covered(t)'
  BY <1>17 DEF PromoteCommit
<1>18. CASE Restart
  BY <1>18 DEF Restart
<1>19. CASE UNCHANGED vars
  BY <1>19 DEF vars
<1> QED
  BY <1>1, <1>2, <1>3, <1>4, <1>5, <1>6, <1>7, <1>8, <1>9, <1>10, <1>11, <1>12, <1>13, <1>14, <1>15, <1>16, <1>17, <1>18, <1>19 DEF Next, Setup, ChangeAccount, ChangeToken, Promote

\* A demotion deletes every token minted while the account was an admin.
THEOREM TokensFollow == Spec => []TokensFollowRole
<1>1. Init => TokensFollowRole
  BY DEF Init, TokensFollowRole
<1>2. IInv /\ TokensFollowRole /\ [Next]_vars => TokensFollowRole'
  BY TokenStep
<1>3. QED
  BY Invariance, <1>1, <1>2, PTL DEF Spec
=============================================================================
