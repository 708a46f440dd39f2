--------------------------- MODULE StorageNamespace ---------------------------
(***************************************************************************)
(* A user's storage: one namespace of keyed objects for each app, written    *)
(* by PUT /api/v1/storage and by an app tool that stores a PDF, emptied by     *)
(* DELETE, and swept when the user is deleted.                               *)
(*                                                                         *)
(* A write measures the namespace and writes under the namespace's lock, an  *)
(* flock on a file, which the operating system takes back when the process    *)
(* dies; DELETE takes no lock.  The file is opened first and locked then, and  *)
(* deleting an app deletes its lock files, held or not: who opens one after    *)
(* that opens another.  A body is read, and a PDF rendered, before the lock    *)
(* is waited for.  A write of an object is one step: it is renamed into place. *)
(*                                                                         *)
(* One user is modelled; namespaces of different users share nothing.  Left  *)
(* out: whether the app may use storage (AppAccess), reading and listing,    *)
(* which change nothing, and the S3 backend.                                 *)
(***************************************************************************)
EXTENDS Integers, FiniteSets, FiniteSetsExt

CONSTANTS
  App,         \* slugs; installed or not, a namespace outlives its app
  Object,      \* keys
  Request,     \* request slots
  None,
  Sizes,       \* sizes of bodies and PDFs; 0 is an empty object
  MaxBytes,    \* MAX_NAMESPACE_BYTES
  MaxObjects,  \* MAX_NAMESPACE_OBJECTS
  MaxDrops,    \* bound on the deletions of an app
  MaxRestarts  \* bound on restarts of the portal

ASSUME NoneAssumption == None \notin App \cup Object \cup Request \cup Nat
ASSUME SizeAssumption ==
  /\ Sizes \subseteq Nat /\ MaxBytes \in Nat /\ MaxObjects \in Nat
  /\ MaxDrops \in Nat /\ MaxRestarts \in Nat

VARIABLES
  account,   \* the user exists
  size,      \* size[a][k] of the object, None where there is none
  file,      \* which lock file a namespace has now; they are numbered
  lock,      \* lock[a][f]: holder of the lock on file f
  req, restarts,
  torn       \* apps deleted while somebody waited for or held a lock there

vars == <<account, size, file, lock, req, restarts, torn>>
disk == <<account, size>>
locks == <<file, lock>>

Ops == {"none", "put", "store", "delete", "delete_user"}
Waiting == {"opened", "chosen"}                \* for the flock
Holding == {"locked", "measured", "clearing"}
PCs     == Waiting \cup Holding \cup {"idle", "opening", "deleting", "listing", "sweeping"}
Files   == 0 .. MaxDrops

\* `bytes`, `objects` and `existing` were read from the namespace; `todo` are the
\* namespaces a deletion of the user has found.
RequestState ==
  [op : Ops, pc : PCs, app : App \cup {None}, key : Object \cup {None}, size : Nat,
   bytes : Nat, objects : Nat, existing : Nat \cup {None}, file : Files, todo : SUBSET App]

Idle == [op |-> "none", pc |-> "idle", app |-> None, key |-> None, size |-> 0,
         bytes |-> 0, objects |-> 0, existing |-> None, file |-> 0, todo |-> {}]

Init ==
  /\ account = TRUE
  /\ size = [a \in App |-> [k \in Object |-> None]]
  /\ file = [a \in App |-> 0]
  /\ lock = [a \in App |-> [f \in Files |-> None]]
  /\ req = [r \in Request |-> Idle]
  /\ restarts = 0
  /\ torn = {}

Accept(r, rec) == req[r] = Idle /\ req' = [req EXCEPT ![r] = rec]
Goto(r, pc)    == req' = [req EXCEPT ![r].pc = pc]
Finish(r)      == req' = [req EXCEPT ![r] = Idle]
At(r, op, pc)  == req[r].op = op /\ req[r].pc = pc

Present(a) == {k \in Object : size[a][k] # None}
Count(a)   == Cardinality(Present(a))
Usage(a)   == MapThenSumSet(LAMBDA k : size[a][k], Present(a))
Bytes(s)   == IF s = None THEN 0 ELSE s

Free(r)   == lock[req[r].app][req[r].file] = None
Lock(r)   == lock' = [lock EXCEPT ![req[r].app][req[r].file] = r]
Unlock(r) == lock' = IF Free(r) THEN lock ELSE [lock EXCEPT ![req[r].app][req[r].file] = None]

-----------------------------------------------------------------------------
\* PUT /storage/<key>, or a tool with a store delivery: the user is looked up,
\* and the bytes are at hand before the lock is asked for.
BeginWrite(r) ==
  /\ account
  /\ \E op \in {"put", "store"}, a \in App, k \in Object, s \in Sizes :
       Accept(r, [Idle EXCEPT !.op = op, !.pc = "opening", !.app = a, !.key = k, !.size = s])
  /\ UNCHANGED <<disk, locks, restarts>>

\* _acquire_lock: the file of the moment, and in the next step the lock on it.
OpenLock(r) ==
  /\ req[r].pc = "opening"
  /\ req' = [req EXCEPT ![r].pc = "opened", ![r].file = file[req[r].app]]
  /\ UNCHANGED <<disk, locks, restarts>>

\* Mutant: the lock is not asked for.
AcquireNothing(r) ==
  /\ req[r].pc = "opened"
  /\ Goto(r, "locked")
  /\ UNCHANGED <<disk, locks, restarts>>

AcquireLock(r) ==
  /\ req[r].pc = "opened"
  /\ Free(r) /\ Lock(r)
  /\ Goto(r, "locked")
  /\ UNCHANGED <<disk, file, restarts>>

\* _guarded_write lists the namespace first ...
ListNamespace(r) ==
  /\ At(r, "put", "locked")
  /\ req' = [req EXCEPT ![r].pc = "measured", ![r].bytes = Usage(req[r].app),
                        ![r].objects = Count(req[r].app)]
  /\ UNCHANGED <<disk, locks, restarts>>

\* Mutant: what was read is kept in the wrong place.
SizeSwapped(r) ==
  /\ At(r, "store", "locked")
  /\ req' = [req EXCEPT ![r].pc = "measured", ![r].bytes = size[req[r].app][req[r].key]]
  /\ UNCHANGED <<disk, locks, restarts>>

\* ... a store looks first at the object it may replace.
SizeExisting(r) ==
  /\ At(r, "store", "locked")
  /\ req' = [req EXCEPT ![r].pc = "measured", ![r].existing = size[req[r].app][req[r].key]]
  /\ UNCHANGED <<disk, locks, restarts>>

Write(r) == size' = [size EXCEPT ![req[r].app][req[r].key] = req[r].size]

\* Mutant: the lock is released only after a write.
GuardedWriteLeak(r) ==
  LET q        == req[r]
      existing == size[q.app][q.key]
      fits     == /\ existing # None \/ q.objects < MaxObjects
                  /\ q.bytes - Bytes(existing) + q.size <= MaxBytes
  IN
  /\ At(r, "put", "measured")
  /\ Finish(r)
  /\ \/ fits /\ Write(r) /\ Unlock(r)
     \/ UNCHANGED <<size, lock>>
  /\ UNCHANGED <<account, file, restarts>>

\* The rest of _guarded_write: the object it replaces, both caps (507), the write.
GuardedWrite(r) ==
  LET q        == req[r]
      existing == size[q.app][q.key]
      fits     == /\ existing # None \/ q.objects < MaxObjects
                  /\ q.bytes - Bytes(existing) + q.size <= MaxBytes
  IN
  /\ At(r, "put", "measured")
  /\ Unlock(r)
  /\ Finish(r)
  /\ \/ fits /\ Write(r)
     \/ UNCHANGED size   \* a write may fail: 409 on a folder
  /\ UNCHANGED <<account, file, restarts>>

\* The rest of the store: the namespace's usage, the byte cap, the write.
StoreWrite(r) ==
  LET q    == req[r]
      fits == Usage(q.app) - Bytes(q.existing) + q.size <= MaxBytes
  IN
  /\ At(r, "store", "measured")
  /\ Unlock(r)
  /\ Finish(r)
  /\ \/ fits /\ Write(r)
     \/ UNCHANGED size
  /\ UNCHANGED <<account, file, restarts>>

\* DELETE /storage/<key>.
BeginDelete(r) ==
  /\ account
  /\ \E a \in App, k \in Object :
       Accept(r, [Idle EXCEPT !.op = "delete", !.pc = "deleting", !.app = a, !.key = k])
  /\ UNCHANGED <<disk, locks, restarts>>

DeleteObject(r) ==
  /\ At(r, "delete", "deleting")
  /\ size' = [size EXCEPT ![req[r].app][req[r].key] = None]
  /\ Finish(r)
  /\ UNCHANGED <<account, locks, restarts>>

-----------------------------------------------------------------------------
\* _delete_user commits; then delete_user_namespaces lists what the user has ...
CommitDeleteUser(r) ==
  /\ account
  /\ account' = FALSE
  /\ Accept(r, [Idle EXCEPT !.op = "delete_user", !.pc = "listing"])
  /\ UNCHANGED <<size, locks, restarts>>

ListNamespaces(r) ==
  /\ At(r, "delete_user", "listing")
  /\ req' = [req EXCEPT ![r].pc = "sweeping", ![r].todo = {a \in App : Present(a) # {}}]
  /\ UNCHANGED <<disk, locks, restarts>>

\* ... and deletes each under its lock.
OpenForSweep(r) ==
  /\ At(r, "delete_user", "sweeping")
  /\ \E a \in req[r].todo :
       req' = [req EXCEPT ![r].pc = "chosen", ![r].app = a, ![r].file = file[a],
                          ![r].todo = @ \ {a}]
  /\ UNCHANGED <<disk, locks, restarts>>

LockForSweep(r) ==
  /\ req[r].pc = "chosen"
  /\ Free(r) /\ Lock(r)
  /\ Goto(r, "clearing")
  /\ UNCHANGED <<disk, file, restarts>>

DeletePrefix(r) ==
  /\ At(r, "delete_user", "clearing")
  /\ size' = [size EXCEPT ![req[r].app] = [k \in Object |-> None]]
  /\ Unlock(r)
  /\ req' = [req EXCEPT ![r].pc = "sweeping", ![r].app = None, ![r].file = 0]
  /\ UNCHANGED <<account, file, restarts>>

EndSweep(r) ==
  /\ At(r, "delete_user", "sweeping")
  /\ req[r].todo = {}
  /\ Finish(r)
  /\ UNCHANGED <<disk, locks, restarts>>

\* admin_apps_delete removes locks/<slug>; a flock stays with its file.  The objects
\* stay, and the app may be installed again.
DeleteApp(a) ==
  /\ file[a] < MaxDrops
  /\ file' = [file EXCEPT ![a] = @ + 1]
  /\ UNCHANGED <<disk, lock, req, restarts>>

\* The process dies and its locks with it.
Restart ==
  /\ restarts < MaxRestarts
  /\ restarts' = restarts + 1
  /\ req' = [r \in Request |-> Idle]
  /\ lock' = [a \in App |-> [f \in Files |-> None]]
  /\ UNCHANGED <<disk, file>>

WriteObject(r) == \/ BeginWrite(r) \/ OpenLock(r) \/ AcquireLock(r) \/ ListNamespace(r)
                  \/ SizeExisting(r) \/ GuardedWrite(r) \/ StoreWrite(r)
DeleteUser(r)  == \/ CommitDeleteUser(r) \/ ListNamespaces(r) \/ OpenForSweep(r)
                  \/ LockForSweep(r) \/ DeletePrefix(r) \/ EndSweep(r)

\* The ghost `torn`: until all who were there have left.
There(r, a) == req[r].app = a /\ req[r].pc \in Waiting \cup Holding

Watch == torn' = {a \in App : /\ a \in torn \/ file'[a] # file[a]
                              /\ \E r \in Request : There(r, a)'}

Next ==
  /\ \/ \E r \in Request : WriteObject(r) \/ BeginDelete(r) \/ DeleteObject(r) \/ DeleteUser(r)
     \/ \E a \in App : DeleteApp(a)
     \/ Restart
  /\ Watch

Spec == Init /\ [][Next]_vars

-----------------------------------------------------------------------------
\* The lock on a file is held by the one request that measures, writes or sweeps
\* under it, and by nobody once that is over, also when the write is refused, fails
\* or the process dies (storage_backend.py namespace_lock, namespace_lock_async).
LockDiscipline ==
  \A a \in App, f \in Files, r \in Request :
    lock[a][f] = r <=> req[r].app = a /\ req[r].file = f /\ req[r].pc \in Holding

\* Objects, locks and requests stay within their types, and the locks with their
\* holders.
TypeOK ==
  /\ account \in BOOLEAN
  /\ size \in [App -> [Object -> Nat \cup {None}]]
  /\ file \in [App -> Files]
  /\ lock \in [App -> [Files -> Request \cup {None}]]
  /\ req \in [Request -> RequestState]
  /\ restarts \in 0..MaxRestarts
  /\ torn \subseteq App
  /\ LockDiscipline

\* A PUT keeps the namespace within its bytes, and adds no object to a full one,
\* although objects may be deleted between its two looks: it lists first, so it
\* can only over-count.  A store looks at the object it replaces first, so one
\* that is deleted right then is discounted twice: it can take the namespace
\* over the cap by that object's size, and knows no cap on objects
\* (api.py _guarded_write, app_tools.py run_tool).  Nothing is claimed where an app
\* was deleted under its writers: two of them may then hold a lock each.
WithinQuota ==
  [][\A r \in Request, a \in App :
       req[r].app = a /\ a \notin torn /\ size' # size =>
         /\ GuardedWrite(r) => Usage(a)' <= MaxBytes
         /\ GuardedWrite(r) /\ Count(a)' > Count(a) => Count(a)' <= MaxObjects
         /\ StoreWrite(r) => Usage(a)' <= MaxBytes + Bytes(req[r].existing)]_vars

\* Not kept, and no run checks it (README).  storage_backend.py
\* delete_user_namespaces: "Each namespace is deleted under its
\* lock so a write that's mid-flight can't land after."
NothingLandsAfter ==
  [][\A r \in Request : (GuardedWrite(r) \/ StoreWrite(r)) /\ size' # size =>
       account \/ \E s \in Request : req[s].op = "delete_user"]_vars

\* Not kept, and no run checks it (README): the store is refused when it would pass
\* the cap (app_tools.py run_tool).
CapNeverPassed == \A a \in App : Usage(a) <= MaxBytes

\* Not kept, and no run checks it (README).  api.py namespace_lock: an exclusive
\* lock over the namespace (apps.py admin_apps_delete removes its file).
OneHolder ==
  \A a \in App, q, r \in Request :
    req[q].app = a /\ req[r].app = a /\ req[q].pc \in Holding /\ req[r].pc \in Holding => q = r
=============================================================================
