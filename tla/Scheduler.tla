------------------------------ MODULE Scheduler ------------------------------
(***************************************************************************)
(* The in-process scheduler: a ticker that fires the schedules that are    *)
(* due, one after the other and for as long as their tools take, beside    *)
(* the requests that create, pause, resume, delete and run schedules.      *)
(*                                                                         *)
(* The ticker loads all enabled rows in one session.  The session keeps    *)
(* the rows as objects: an object shows what was loaded until the session  *)
(* commits for the first time, from then on each is read again when it is  *)
(* looked at, and an object whose row is gone raises.  A commit writes the *)
(* columns that were set to the row that has the object's id, whoever's    *)
(* row that is by then, and raises when there is none.  SQLite gives the   *)
(* id of the last row out again.                                           *)
(*                                                                         *)
(* Left out: what a run delivers and the columns that record it (nothing   *)
(* reads them but the admin page), and the arguments.  A schedule keeps    *)
(* its cadence (no handler edits one), so compute_next_run with the        *)
(* cadence of the g-th schedule is the parameter NextRun(g, _);            *)
(* SchedulerProofs proves what is assumed of it.                           *)
(***************************************************************************)
EXTENDS Integers, FiniteSets

CONSTANTS
  MaxId,         \* bound: how many schedules exist at a time
  MaxCreated,    \* bound: how many are ever created
  MaxClock,      \* bound: how far time goes
  MaxRestarts,   \* bound: how often the process may die
  Request,       \* request slots
  NextRun(_, _)  \* the first occurrence of a schedule after a time

ASSUME BoundsAssumption  == {MaxId, MaxCreated, MaxClock, MaxRestarts} \subseteq Nat
ASSUME NextRunAssumption ==
  \A g \in 1..MaxCreated, t \in 0..MaxClock :
    /\ NextRun(g, t) \in Nat /\ NextRun(g, t) > t
    /\ \A s \in 0..t : NextRun(g, s) <= NextRun(g, t)

VARIABLES
  row,       \* ScheduledRun table by id; `gen` numbers the schedules, 0 is no row
  clock,
  ticker,    \* scheduler_loop and the session of its current tick
  req,       \* what each request is doing
  created,   \* how many schedules were created
  tried,     \* history: when the ticker last began a run of the schedule in a row
  restarts

vars == <<row, clock, ticker, req, created, tried, restarts>>

Id   == 1..MaxId
Time == 0..MaxClock

\* `since` and `raced` are history: when the schedule was created or last
\* resumed, and what went wrong where `next` was last computed (Stale, Overtaken).
Row   == [gen : 0..MaxCreated, enabled : BOOLEAN, next : Nat,
          since : Time, raced : SUBSET {"reused", "resumed", "overtaken"}]
NoRow == [gen |-> 0, enabled |-> FALSE, next |-> 0, since |-> 0, raced |-> {}]

\* `now` is when the tick began, `todo` the objects it has not looked at yet,
\* `loaded` what they showed then, `committed` whether the session committed.
Ticker == [pc : {"asleep", "scanning", "running"}, now : Time,
           todo : SUBSET Id, loaded : [Id -> Row], committed : BOOLEAN, id : 0..MaxId]

\* `gen` and `was` are the row's number and `enabled` as loaded at time `at`,
\* `want` what `enabled` is to become.
RequestState == [op : {"none", "create", "toggle", "delete", "run_now"}, id : 0..MaxId,
                 gen : 0..MaxCreated, was : BOOLEAN, want : BOOLEAN, at : Time]

Idle == [op |-> "none", id |-> 0, gen |-> 0, was |-> FALSE, want |-> FALSE, at |-> 0]

Exists(i) == row[i].gen # 0

Asleep == [pc |-> "asleep", now |-> 0, todo |-> {}, loaded |-> [i \in Id |-> NoRow],
           committed |-> FALSE, id |-> 0]

Init ==
  /\ row = [i \in Id |-> NoRow]
  /\ clock = 0
  /\ ticker = Asleep
  /\ req = [r \in Request |-> Idle]
  /\ created = 0
  /\ tried = [i \in Id |-> 0]
  /\ restarts = 0

\* `next` of a row was computed for another schedule, whose id this one got, ...
Stale(i, gen) == IF gen # row[i].gen THEN {"reused"} ELSE {}

\* ... or counts from a time t before something that has happened since.
Overtaken(by, t, mark) == IF by > t THEN {mark} ELSE {}

-----------------------------------------------------------------------------
\* run_due_schedules, in a worker thread of scheduler_loop.

Wake ==
  /\ ticker.pc = "asleep"
  /\ ticker' = [pc |-> "scanning", now |-> clock, loaded |-> row, committed |-> FALSE,
                todo |-> {i \in Id : Exists(i) /\ row[i].enabled}, id |-> 0]
  /\ UNCHANGED <<row, clock, req, created, tried, restarts>>

\* What the object of row i shows.
Shown(i) == IF ticker.committed THEN row[i] ELSE ticker.loaded[i]

\* Mutant: an exception ends the loop and not only the tick.
StopTicking == ticker' = [Asleep EXCEPT !.pc = "stopped"]

\* An exception ends the tick; scheduler_loop logs it and sleeps.
AbortTick == ticker' = Asleep

\* Nothing left to look at; the sleep until the next tick is a pause of any
\* length before Wake.
EndTick ==
  /\ ticker.pc = "scanning" /\ ticker.todo = {}
  /\ ticker' = Asleep
  /\ UNCHANGED <<row, clock, req, created, tried, restarts>>

\* One row is looked at, the order being the database's choice, and skipped when
\* it is not due; a row that is gone raises.
Skip(i) ==
  /\ ticker.pc = "scanning" /\ i \in ticker.todo
  /\ IF Shown(i).gen = 0 THEN AbortTick
       ELSE /\ Shown(i).next > ticker.now
            /\ ticker' = [ticker EXCEPT !.todo = @ \ {i}, !.loaded[i] = NoRow]
  /\ UNCHANGED <<row, clock, req, created, tried, restarts>>

\* Or its tool is run, for minutes perhaps.  A run that is refused (the app or
\* its tool gone or disabled, the owner no longer an admin) or that fails ends
\* as one that succeeds does, with another status.
Fire(i) ==
  /\ ticker.pc = "scanning" /\ i \in ticker.todo
  /\ Shown(i).gen # 0 /\ Shown(i).next <= ticker.now
  /\ ticker' = [ticker EXCEPT !.pc = "running", !.id = i, !.todo = @ \ {i},
                              !.loaded[i] = Shown(i)]
  /\ tried' = IF row[i].gen = Shown(i).gen THEN [tried EXCEPT ![i] = ticker.now] ELSE tried
  /\ UNCHANGED <<row, clock, req, created, restarts>>

\* A commit expires every object of the session.
ExpireAll ==
  ticker' = [ticker EXCEPT !.pc = "scanning", !.id = 0, !.committed = TRUE,
                           !.loaded = [i \in Id |-> NoRow]]

\* Mutant: the next run counts from the one that was missed.
RecordBackfill ==
  LET i == ticker.id IN
  /\ ticker.pc = "running"
  /\ IF Exists(i)
       THEN /\ row' = [row EXCEPT ![i].next = NextRun(ticker.loaded[i].gen, ticker.loaded[i].next),
                                  ![i].raced = {}]
            /\ ExpireAll
       ELSE AbortTick /\ row' = row
  /\ UNCHANGED <<clock, req, created, tried, restarts>>

\* The run is committed and next_run_at advanced, counting from the tick and
\* with the cadence of the object.
Record ==
  LET i   == ticker.id
      gen == ticker.loaded[i].gen
  IN
  /\ ticker.pc = "running"
  /\ IF Exists(i)
       THEN /\ row' = [row EXCEPT ![i].next = NextRun(gen, ticker.now),
                                  ![i].raced = Stale(i, gen)
                                    \cup Overtaken(row[i].since, ticker.now, "resumed")]
            /\ ExpireAll
       ELSE AbortTick /\ row' = row
  /\ UNCHANGED <<clock, req, created, tried, restarts>>

-----------------------------------------------------------------------------
\* The admin pages and the MCP tools: each loads what it needs, computes, and
\* commits in a step of its own.

Accept(r, rec) == req[r] = Idle /\ req' = [req EXCEPT ![r] = rec]
Finish(r)      == req' = [req EXCEPT ![r] = Idle]

BeginCreate(r) ==
  /\ Accept(r, [Idle EXCEPT !.op = "create", !.at = clock])
  /\ UNCHANGED <<row, clock, ticker, created, tried, restarts>>

\* The new row's id is one more than the highest.
CommitCreate(r) ==
  LET i == CHOOSE n \in 1..(MaxId + 1) :
             (n = 1 \/ Exists(n - 1)) /\ \A j \in n..MaxId : ~Exists(j)
  IN
  /\ req[r].op = "create"
  /\ created < MaxCreated /\ i <= MaxId
  /\ created' = created + 1
  /\ row' = [row EXCEPT ![i] = [gen |-> created + 1, enabled |-> TRUE, raced |-> {},
                                next |-> NextRun(created + 1, req[r].at), since |-> req[r].at]]
  /\ tried' = [tried EXCEPT ![i] = 0]
  /\ Finish(r)
  /\ UNCHANGED <<clock, ticker, restarts>>

\* The row is loaded, and the next run of a schedule that is resumed counts from now.
LoadToggle(r, i, want) ==
  Accept(r, [op |-> "toggle", id |-> i, gen |-> row[i].gen, was |-> row[i].enabled,
             want |-> want, at |-> clock])

\* The admin page turns a schedule over.
BeginToggle(r) ==
  /\ \E i \in Id : Exists(i) /\ LoadToggle(r, i, ~row[i].enabled)
  /\ UNCHANGED <<row, clock, ticker, created, tried, restarts>>

\* The MCP tool sets what it is told to, and so may resume what runs already;
\* pausing what is paused writes nothing.
BeginSetEnabled(r) ==
  /\ \E i \in Id : Exists(i) /\ row[i].enabled /\ LoadToggle(r, i, TRUE)
  /\ UNCHANGED <<row, clock, ticker, created, tried, restarts>>

\* Mutant: a resumed schedule keeps the next run it was paused with.
ToggleOnly(q) == [row[q.id] EXCEPT !.enabled = q.want]

\* `enabled` is written when it differs from what was loaded, next_run_at
\* whenever the schedule is resumed.
Toggled(q) ==
  [row[q.id] EXCEPT !.enabled = IF q.want # q.was THEN q.want ELSE @,
                    !.next    = IF q.want THEN NextRun(q.gen, q.at) ELSE @]

\* `row` with the history of a schedule that is resumed.
Resumed(q, new) ==
  [new EXCEPT !.since = q.at,
              !.raced = Stale(q.id, q.gen) \cup Overtaken(tried[q.id], q.at, "overtaken")]

CommitToggle(r) ==
  LET q == req[r] IN
  /\ q.op = "toggle"
  /\ row' = IF Exists(q.id)
              THEN [row EXCEPT ![q.id] = IF q.want THEN Resumed(q, Toggled(q)) ELSE Toggled(q)]
              ELSE row
  /\ Finish(r)
  /\ UNCHANGED <<clock, ticker, created, tried, restarts>>

BeginDelete(r) ==
  /\ \E i \in Id : Exists(i) /\ Accept(r, [Idle EXCEPT !.op = "delete", !.id = i])
  /\ UNCHANGED <<row, clock, ticker, created, tried, restarts>>

Remove(S) ==
  /\ row'  = [i \in Id |-> IF i \in S THEN NoRow ELSE row[i]]
  /\ tried' = [i \in Id |-> IF i \in S THEN 0 ELSE tried[i]]

CommitDelete(r) ==
  /\ req[r].op = "delete"
  /\ Remove({req[r].id})
  /\ Finish(r)
  /\ UNCHANGED <<clock, ticker, created, restarts>>

\* Deleting an app, or the account of an admin, deletes its schedules.
CascadeDelete ==
  /\ \E S \in SUBSET {i \in Id : Exists(i)} : S # {} /\ Remove(S)
  /\ UNCHANGED <<clock, ticker, req, created, restarts>>

\* "Run now": fire_schedule in a session of its own, leaving the cadence alone.
BeginRunNow(r) ==
  /\ \E i \in Id : Exists(i) /\ Accept(r, [Idle EXCEPT !.op = "run_now", !.id = i])
  /\ UNCHANGED <<row, clock, ticker, created, tried, restarts>>

\* Mutant: "run now" moves the schedule on.
RunNowAdvances(r) ==
  /\ req[r].op = "run_now"
  /\ row' = IF Exists(req[r].id)
              THEN [row EXCEPT ![req[r].id].next = NextRun(row[req[r].id].gen, @)] ELSE row
  /\ Finish(r)
  /\ UNCHANGED <<clock, ticker, created, tried, restarts>>

RecordRunNow(r) ==
  /\ req[r].op = "run_now"
  /\ Finish(r)
  /\ UNCHANGED <<row, clock, ticker, created, tried, restarts>>

-----------------------------------------------------------------------------
Tick ==
  /\ clock < MaxClock
  /\ clock' = clock + 1
  /\ UNCHANGED <<row, ticker, req, created, tried, restarts>>

Restart ==
  /\ restarts < MaxRestarts
  /\ restarts' = restarts + 1
  /\ ticker' = Asleep
  /\ req' = [r \in Request |-> Idle]
  /\ UNCHANGED <<row, clock, created, tried>>

Ticking == Wake \/ EndTick \/ (\E i \in Id : Skip(i) \/ Fire(i)) \/ Record

Handle(r) ==
  \/ BeginCreate(r) \/ CommitCreate(r)
  \/ BeginToggle(r) \/ BeginSetEnabled(r) \/ CommitToggle(r)
  \/ BeginDelete(r) \/ CommitDelete(r) \/ BeginRunNow(r) \/ RecordRunNow(r)

Next ==
  \/ Ticking
  \/ \E r \in Request : Handle(r)
  \/ CascadeDelete \/ Tick \/ Restart

\* The loop never ends while the process lives; users need not do anything.
Spec == Init /\ [][Next]_vars /\ WF_vars(Ticking)

-----------------------------------------------------------------------------
TypeOK ==
  /\ row \in [Id -> Row]
  /\ clock \in Time
  /\ ticker \in Ticker
  /\ req \in [Request -> RequestState]
  /\ created \in 0..MaxCreated
  /\ tried \in [Id -> Time]
  /\ restarts \in 0..MaxRestarts

\* No occurrence is passed over: a schedule's next run is never later than the
\* first one after the ticker last ran it, or after it was created or resumed,
\* whatever ran it by hand and whichever of the other schedules failed
\* (scheduler.py _run_one, fire_schedule with advance=False).  Not said of a
\* schedule whose next run was computed for the one that had its id before.
NothingSkipped ==
  \A i \in Id : Exists(i) /\ "reused" \notin row[i].raced =>
    \/ row[i].next <= NextRun(row[i].gen, tried[i])
    \/ row[i].next <= NextRun(row[i].gen, row[i].since)

\* The ticker does not run an occurrence twice, nor one it was too late for
\* after it made up for it ("fires once ... never replays a storm of missed
\* runs", scheduler.py): when no run of a schedule is under way and the process
\* never died during one, its next run lies after the last.  Excepted, beside the
\* reuse of ids, is a resume computed before a run that began before it committed.
NeverTwice ==
  restarts = 0 =>
    \A i \in Id :
      Exists(i) /\ row[i].raced \cap {"reused", "overtaken"} = {}
                /\ ~(ticker.pc = "running" /\ ticker.id = i) =>
        tried[i] = 0 \/ row[i].next > tried[i]

\* A tick never runs a schedule for an occurrence that passed before it was
\* created or last resumed, as the tick reads it ("doesn't immediately fire on a
\* long-past next_run_at", admin.py schedules_toggle).  So it is not said of a
\* resume that commits after the tick read the row: while the schedule waits its
\* turn, the tick may still run it for what it was due before (ResumedWaits); and
\* while its tool runs, the resume's next run is overwritten by one that counts
\* from the tick.  Nor of ids that were reused, as above.
NoBackfill ==
  [][\A i \in Id : Fire(i) /\ Shown(i).raced \cap {"reused", "resumed"} = {} =>
       Shown(i).next >= NextRun(Shown(i).gen, Shown(i).since)]_vars

\* Without what NoBackfill excepts.  Not kept: admin.py:1263-1264 says so of any
\* schedule that is resumed.
ResumedWaits ==
  [][\A i \in Id : Fire(i) /\ row[i].gen = Shown(i).gen =>
       Shown(i).next >= NextRun(row[i].gen, row[i].since)]_vars

Due(i) == Exists(i) /\ row[i].enabled /\ row[i].next <= clock

\* Whatever is deleted, paused or raises during a tick, a schedule that is due
\* does not stay due: the ticker gets to it (scheduler.py scheduler_loop).
DueFires == \A i \in Id : Due(i) ~> ~Due(i)
=============================================================================
