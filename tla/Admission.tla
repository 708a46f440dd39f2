------------------------------- MODULE Admission -------------------------------
(***************************************************************************)
(* What the portal admits: the limits on login attempts, public forms and   *)
(* OAuth registration, the hourly allowances of PDF renders and email       *)
(* recipients with their refunds, and the slots WeasyPrint renders in.      *)
(*                                                                         *)
(* All of it is memory of the one process, guarded by a lock per table (or   *)
(* by the event loop) and gone after a restart, which is not modelled.       *)
(* Reading the clock and taking the lock are one step: a tick is long         *)
(* against the wait between them.  How long an admitted operation takes is    *)
(* not bounded.                                                              *)
(*                                                                         *)
(* One user's allowances are modelled: no step of one user's request reads   *)
(* or writes another's.  The windows have a length each in the code and one   *)
(* here.  What an app may do before it gets here is AppAccess; what a PDF      *)
(* share does afterwards is ShareLinks.                                      *)
(***************************************************************************)
EXTENDS Integers, Sequences, FiniteSets, SequencesExt, FiniteSetsExt, Functions

CONSTANTS
  Net,         \* client networks: an IPv4 address, an IPv6 /64
  Email,       \* what is typed into the login form
  Nobody,
  MaxAttempts, \* bound on the requests, which are numbered as they arrive
  Window,      \* ticks a hit counts for
  PruneEvery,  \* the login tables are walked when the last walk is older
  LoginLimit,  \* _LOGIN_FAIL_LIMIT, per network and email
  NetLimit,    \* _LOGIN_NET_LIMIT, per network
  MaxKeys,     \* cap on the keys of the login and OAuth tables
  FormLimit,   \* _RATE_LIMIT of a public form, per address
  FormMaxKeys, \* above this many keys the form table is pruned
  AnonLimit,   \* limit of an _IPRateLimiter
  HourLimit,   \* [pdf, mail]: renders, and recipients, per user and hour
  Slots,       \* _PDF_CONCURRENCY
  MaxClock     \* bound on the ticks

ASSUME NobodyAssumption  == Nobody \notin Net \cup Email
ASSUME LimitAssumption ==
  /\ Window \in Nat /\ PruneEvery \in Nat /\ MaxClock \in Nat /\ MaxAttempts \in Nat
  /\ {LoginLimit, NetLimit, MaxKeys, FormLimit, FormMaxKeys, AnonLimit, Slots}
       \subseteq Nat \ {0}
  /\ HourLimit \in [{"pdf", "mail"} -> Nat]

VARIABLES
  clock,
  loginFailures, \* dict of (network, email)
  loginNetHits,  \* dict of networks
  lastPrune,
  formRate,      \* deque of each address, <<>> when it has no entry
  anonHits,      \* _hits of an OAuth limiter, a dict of networks
  log,           \* the user's _pdf_render_log and _email_send_log
  slots,         \* free render slots
  attempt

limitVars == <<clock, loginFailures, loginNetHits, lastPrune, formRate, anonHits,
               log, slots, attempt>>
loginVars == <<loginFailures, loginNetHits, lastPrune>>

Attempt == 1..MaxAttempts
Key     == Net \X Email
Hits    == Seq(Nat)

\* A dict holds the keys of its domain.  `by` is the attempt that inserted the key,
\* for a dict remembers the order of insertion.
Entry == [hits : Hits, by : Attempt]
IsDict(d, K) == DOMAIN d \subseteq K /\ d \in [DOMAIN d -> Entry]
EmptyDict == [k \in {} |-> Nobody]

Renders == {"render", "tool"}   \* /pdf/render; a PDF share or an app tool
AttemptOps == Renders \cup {"none", "login", "form", "anon", "mail"}
Stages  == {"new", "verifying", "reserved", "rendering", "delivering", "sending",
            "done", "failed", "refused"}

\* `end` is when a charge or a hit was taken back.  The rest is history.  `counted`: a
\* login, form or anonymous hit that neither a success nor a full table has wiped
\* since.  `netHit` of a login that is verifying or failed: "own" while its hit in
\* its network's table has not gone with the key; of one that succeeded: whether
\* the hit it took back stood for its "own" or for "another" guess.
AttemptState == [op : AttemptOps, pc : Stages, net : Net \cup {Nobody}, email : Email \cup {Nobody},
                 cost : Nat, at : Nat, end : Nat, counted : BOOLEAN,
                 netHit : {"none", "own", "another"}]

New == [op |-> "none", pc |-> "new", net |-> Nobody, email |-> Nobody,
        cost |-> 0, at |-> 0, end |-> 0, counted |-> FALSE, netHit |-> "none"]

StartLimits ==
  /\ clock = 0
  /\ loginFailures = EmptyDict /\ loginNetHits = EmptyDict /\ lastPrune = 0
  /\ formRate = [n \in Net |-> <<>>]
  /\ anonHits = EmptyDict
  /\ log = [k \in {"pdf", "mail"} |-> <<>>]
  /\ slots = Slots
  /\ attempt = [r \in Attempt |-> New]

Cutoff == clock - Window
Kind(op) == IF op = "mail" THEN "mail" ELSE "pdf"

-----------------------------------------------------------------------------
\* Hits are in the order of time, so those since `start` are the last of them.
HitsSince(hits, start) ==
  LET since == {i \in DOMAIN hits : hits[i] >= start}
  IN  IF since = {} THEN <<>> ELSE SubSeq(hits, Min(since), Len(hits))

\* What the login limiter and the OAuth limiters do to their dicts.
HitsOf(d, k) == IF k \in DOMAIN d THEN d[k].hits ELSE <<>>
Live(hits)   == HitsSince(hits, Cutoff + 1)
Pop(d, k)    == Restrict(d, DOMAIN d \ {k})

\* _fresh_hits: the table with k's entry trimmed, or dropped when nothing is left.
FreshHits(d, k) ==
  IF Live(HitsOf(d, k)) = <<>> THEN Pop(d, k)
  ELSE [d EXCEPT ![k].hits = Live(HitsOf(d, k))]

PruneAll(d) ==
  [k \in {k \in DOMAIN d : Live(d[k].hits) # <<>>} |-> [d[k] EXCEPT !.hits = Live(d[k].hits)]]

\* Mutant: no cap.
RoomAlways(d, k) == d

\* The oldest keys make room for a new one.
Newer(d, k) == {j \in DOMAIN d : d[j].by > d[k].by}
Room(d, k) ==
  IF k \in DOMAIN d \/ Cardinality(DOMAIN d) < MaxKeys THEN d
  ELSE Restrict(d, {j \in DOMAIN d : Cardinality(Newer(d, j)) < MaxKeys - 1})

Insert(d, k, entry) == [j \in DOMAIN d \cup {k} |-> IF j = k THEN entry ELSE d[j]]

\* Mutant: a new hit replaces the ones before it.
AddHitAnew(d, k, r) == Insert(Room(d, k), k, [hits |-> <<clock>>, by |-> r])

AddHit(d, k, r) ==
  IF k \in DOMAIN d THEN [d EXCEPT ![k].hits = Append(d[k].hits, clock)]
  ELSE Insert(Room(d, k), k, [hits |-> <<clock>>, by |-> r])

Evicted(d, k) == DOMAIN d \ DOMAIN Room(d, k)

-----------------------------------------------------------------------------
IsNext(r) == attempt[r] = New /\ \A q \in 1..(r - 1) : attempt[q] # New

KeyOf(r) == <<attempt[r].net, attempt[r].email>>

\* Requests of op whose key is in K lose their place in the count.
Forget(rs, op, K) ==
  [r \in Attempt |-> IF rs[r].op = op /\ <<rs[r].net, rs[r].email>> \in K
                     THEN [rs[r] EXCEPT !.counted = FALSE] ELSE rs[r]]

\* Logins of the networks in N lose theirs with the network's key.
Guessing(q) == q.op = "login" /\ q.pc \in {"verifying", "failed"}
ForgetNets(rs, N) ==
  [r \in Attempt |-> IF Guessing(rs[r]) /\ rs[r].net \in N
                     THEN [rs[r] EXCEPT !.netHit = "none"] ELSE rs[r]]

Arrive(op, net, email, cost, pc) ==
  [op |-> op, pc |-> pc, net |-> net, email |-> email, cost |-> cost, at |-> clock,
   end |-> 0, counted |-> pc # "refused",
   netHit |-> IF pc = "verifying" THEN "own" ELSE "none"]

Done(r) == attempt' = [attempt EXCEPT ![r].pc = "done"]

\* POST /login: _reserve_login_attempt checks and counts under one lock, before
\* the password is verified.
BeginLogin(r) ==
  \E k \in Key :
    LET due   == clock - lastPrune > PruneEvery
        fails == IF due THEN PruneAll(loginFailures) ELSE loginFailures
        nets  == FreshHits(IF due THEN PruneAll(loginNetHits) ELSE loginNetHits, k[1])
        spent == Len(HitsOf(nets, k[1])) >= NetLimit
        trim  == IF spent THEN fails ELSE FreshHits(fails, k)
        over  == spent \/ Len(HitsOf(trim, k)) >= LoginLimit
    IN
    /\ IsNext(r)
    /\ lastPrune' = IF due THEN clock ELSE lastPrune
    /\ loginFailures' = IF over THEN trim ELSE AddHit(trim, k, r)
    /\ loginNetHits'  = IF over THEN nets ELSE AddHit(nets, k[1], r)
    /\ attempt' = [ForgetNets(Forget(attempt, "login", IF over THEN {} ELSE Evicted(trim, k)),
                               IF over THEN {} ELSE Evicted(nets, k[1])) EXCEPT
                 ![r] = Arrive("login", k[1], k[2], 1,
                               IF over THEN "refused" ELSE "verifying")]
    /\ UNCHANGED <<clock, formRate, anonHits, log, slots>>

\* The password is wrong, and the attempt stays counted; or it is right, and
\* _clear_login_failures wipes the key and the network's newest hit.
LoginFails(r) ==
  /\ attempt[r].pc = "verifying"
  /\ attempt' = [attempt EXCEPT ![r].pc = "failed"]
  /\ UNCHANGED <<clock, loginVars, formRate, anonHits, log, slots>>

LoginSucceeds(r) ==
  LET net  == attempt[r].net
      hits == HitsOf(loginNetHits, net)
  IN
  /\ attempt[r].pc = "verifying"
  /\ loginFailures' = Pop(loginFailures, KeyOf(r))
  /\ loginNetHits' = IF hits = <<>> THEN loginNetHits
                     ELSE [loginNetHits EXCEPT ![net].hits = Front(hits)]
  /\ attempt' = [Forget(attempt, "login", {KeyOf(r)}) EXCEPT
               ![r].pc = "done", ![r].end = clock,
               ![r].netHit = IF hits = <<>> THEN "none" ELSE IF @ = "own" THEN @ ELSE "another"]
  /\ UNCHANGED <<clock, lastPrune, formRate, anonHits, log, slots>>

-----------------------------------------------------------------------------
\* POST of a public form: _rate_ok.  Whatever becomes of the submission, it counts.
Trim(hits) == HitsSince(hits, Cutoff)
\* Mutant: a hit as old as the window no longer counts.
DeadAtEdge(hits) == hits = <<>> \/ Last(hits) <= Cutoff

Dead(hits) == hits = <<>> \/ Last(hits) < Cutoff

PruneForms(table) ==
  IF Cardinality({n \in Net : table[n] # <<>>}) <= FormMaxKeys THEN table
  ELSE [n \in Net |-> IF Dead(table[n]) THEN <<>> ELSE table[n]]

SubmitForm(r) ==
  \E n \in Net :
    LET dq == Trim(formRate[n])
        ok == Len(dq) < FormLimit
    IN
    /\ IsNext(r)
    /\ formRate' = IF ok THEN PruneForms([formRate EXCEPT ![n] = Append(dq, clock)])
                         ELSE [formRate EXCEPT ![n] = dq]
    /\ attempt' = [attempt EXCEPT ![r] = Arrive("form", n, Nobody, 1, IF ok THEN "done" ELSE "refused")]
    /\ UNCHANGED <<clock, loginVars, anonHits, log, slots>>

\* POST /register and GET /authorize: _IPRateLimiter.limited, on the event loop.
AnonRequest(r) ==
  \E n \in Net :
    LET fresh == PruneAll(anonHits)
        over  == Len(HitsOf(fresh, n)) >= AnonLimit
    IN
    /\ IsNext(r)
    /\ anonHits' = IF over THEN fresh ELSE AddHit(fresh, n, r)
    /\ attempt' = [Forget(attempt, "anon", IF over THEN {} ELSE Evicted(fresh, n) \X {Nobody}) EXCEPT
                 ![r] = Arrive("anon", n, Nobody, 1, IF over THEN "refused" ELSE "done")]
    /\ UNCHANGED <<clock, loginVars, formRate, log, slots>>

-----------------------------------------------------------------------------
\* _check_pdf_rate and _check_email_rate: reserve cost, or 429.
Reserve(r, op, cost, pc) ==
  LET k  == Kind(op)
      dq == Trim(log[k])
      ok == Len(dq) + cost <= HourLimit[k]
  IN
  /\ IsNext(r)
  /\ log' = [log EXCEPT ![k] = IF ok THEN dq \o [i \in 1..cost |-> clock] ELSE dq]
  /\ attempt' = [attempt EXCEPT ![r] = Arrive(op, Nobody, Nobody, cost, IF ok THEN pc ELSE "refused")]

\* _refund_pdf_render and _refund_email_send: the newest entries, whoever made them.
Refund(k, cost) ==
  log' = [log EXCEPT ![k] = SubSeq(log[k], 1, Len(log[k]) - cost)]

\* Mutant: refunded by the callee and by the caller.
FailTwice(r) == /\ Refund(Kind(attempt[r].op), 2 * attempt[r].cost)
                /\ attempt' = [attempt EXCEPT ![r].pc = "failed", ![r].end = clock]

Fail(r) == /\ Refund(Kind(attempt[r].op), attempt[r].cost)
           /\ attempt' = [attempt EXCEPT ![r].pc = "failed", ![r].end = clock]

BeginRender(r) ==
  /\ \E op \in Renders : Reserve(r, op, 1, "reserved")
  /\ UNCHANGED <<clock, loginVars, formRate, anonHits, slots>>

\* WeasyPrint cannot be imported.  /pdf/render answers 503 and keeps the charge;
\* the others refund it.
Unavailable(r) ==
  /\ attempt[r].pc = "reserved"
  /\ IF attempt[r].op = "render" THEN Done(r) /\ UNCHANGED log ELSE Fail(r)
  /\ UNCHANGED <<clock, loginVars, formRate, anonHits, slots>>

TakeSlot(r) ==
  /\ attempt[r].pc = "reserved"
  /\ slots > 0
  /\ slots' = slots - 1
  /\ attempt' = [attempt EXCEPT ![r].pc = "rendering"]
  /\ UNCHANGED <<clock, loginVars, formRate, anonHits, log>>

\* Mutant: releases the slot it did not get.
GiveUpRelease(r) ==
  /\ attempt[r].pc = "reserved"
  /\ slots = 0
  /\ Fail(r)
  /\ slots' = slots + 1
  /\ UNCHANGED <<clock, loginVars, formRate, anonHits>>

\* No slot within _PDF_SLOT_WAIT_SECONDS.
GiveUp(r) ==
  /\ attempt[r].pc = "reserved"
  /\ slots = 0
  /\ Fail(r)
  /\ UNCHANGED <<clock, loginVars, formRate, anonHits, slots>>

\* The slot is released on every way out.
EndRender(r) ==
  /\ attempt[r].pc = "rendering"
  /\ slots' = slots + 1
  /\ \/ attempt[r].op = "render" /\ Done(r) /\ UNCHANGED log
     \/ attempt[r].op # "render" /\ attempt' = [attempt EXCEPT ![r].pc = "delivering"] /\ UNCHANGED log
     \/ Fail(r)
  /\ UNCHANGED <<clock, loginVars, formRate, anonHits>>

\* The share, object or download is made, or is over its own cap.
Deliver(r) ==
  /\ attempt[r].pc = "delivering"
  /\ \/ Done(r) /\ UNCHANGED log
     \/ Fail(r)
  /\ UNCHANGED <<clock, loginVars, formRate, anonHits, slots>>

\* POST /email/send and a tool that emails.
BeginMail(r) ==
  /\ \E cost \in 1..2 : Reserve(r, "mail", cost, "sending")
  /\ UNCHANGED <<clock, loginVars, formRate, anonHits, slots>>

EndMail(r) ==
  /\ attempt[r].pc = "sending"
  /\ \/ Done(r) /\ UNCHANGED log
     \/ Fail(r)
  /\ UNCHANGED <<clock, loginVars, formRate, anonHits, slots>>

Tick ==
  /\ clock < MaxClock
  /\ clock' = clock + 1
  /\ UNCHANGED <<loginVars, formRate, anonHits, log, slots, attempt>>

Login(r)  == BeginLogin(r) \/ LoginFails(r) \/ LoginSucceeds(r)
Render(r) == \/ BeginRender(r) \/ Unavailable(r) \/ TakeSlot(r) \/ GiveUp(r)
             \/ EndRender(r) \/ Deliver(r)
Mail(r)   == BeginMail(r) \/ EndMail(r)

Admit ==
  \/ \E r \in Attempt : Login(r) \/ SubmitForm(r) \/ AnonRequest(r) \/ Render(r) \/ Mail(r)
  \/ Tick

Limits == StartLimits /\ [][Admit]_limitVars

-----------------------------------------------------------------------------
InOrder(hits) ==
  \A i, j \in DOMAIN hits : i <= j => hits[i] <= hits[j] /\ hits[j] <= clock

\* Tables, logs, slots and requests stay within their types, hits are in the order of
\* time, and the capped tables within their cap.
LimitsTypeOK ==
  /\ clock \in 0..MaxClock /\ lastPrune \in 0..MaxClock
  /\ IsDict(loginFailures, Key) /\ Cardinality(DOMAIN loginFailures) <= MaxKeys
  /\ IsDict(loginNetHits, Net) /\ Cardinality(DOMAIN loginNetHits) <= MaxKeys
  /\ IsDict(anonHits, Net) /\ Cardinality(DOMAIN anonHits) <= MaxKeys
  /\ \A d \in {loginFailures, loginNetHits, anonHits} : \A k \in DOMAIN d : InOrder(d[k].hits)
  /\ formRate \in [Net -> Hits]
  /\ log \in [{"pdf", "mail"} -> Hits]
  /\ \A n \in Net : InOrder(formRate[n])
  /\ \A k \in DOMAIN log : InOrder(log[k])
  /\ slots \in 0..Slots
  /\ attempt \in [Attempt -> AttemptState]

\* The windows that end now: an earlier one only loses counted requests later.
Since(R, start) == {r \in R : attempt[r].at >= start}

Counted(op, net, email, start) ==
  Cardinality(Since({r \in Attempt : /\ attempt[r].op = op /\ attempt[r].counted
                                     /\ attempt[r].net = net /\ attempt[r].email = email}, start))

\* Those of R that arrived before the window and took a hit or a charge off the
\* table in it: it may have been another's.
Strays(R, pc, start) ==
  {r \in R : attempt[r].pc = pc /\ attempt[r].at < start /\ attempt[r].end >= start}

\* Logins that gave back in the window a hit that was not theirs, or not of it.
Returned(R, start) ==
  {r \in R : /\ attempt[r].pc = "done" /\ attempt[r].end >= start
             /\ \/ attempt[r].netHit = "own" /\ attempt[r].at < start
                \/ attempt[r].netHit = "another"}

\* However many logins run at once, from however many networks, and however long
\* their passwords take to verify, no window sees more than the limit for one
\* network and email, save for what a success of that email wiped or a table full
\* of other keys dropped; nor more guesses of one network than its limit, save for
\* those of before a full table dropped the network's key, and for one more for
\* each success that gave back another guess's hit, having come before the window
\* or lost its own with the key (main.py _reserve_login_attempt: "Checking and
\* counting under one lock acquisition is what makes the limit hold under
\* concurrency").
GuessesHeld ==
  \A n \in Net :
    LET start == clock - Window + 1
        own   == {r \in Attempt : attempt[r].op = "login" /\ attempt[r].net = n}
        tried == {r \in own : Guessing(attempt[r]) /\ attempt[r].netHit = "own"}
    IN
    /\ \A e \in Email : Counted("login", n, e, start) <= LoginLimit
    /\ Cardinality(Since(tried, start)) <= NetLimit + Cardinality(Returned(own, start))

\* The same of a form, per address, and of /register and /authorize, per network:
\* pruning the table of a form never frees a window that is still open.
AnonymousHeld ==
  \A n \in Net :
    /\ Counted("form", n, Nobody, Cutoff) <= FormLimit
    /\ Counted("anon", n, Nobody, Cutoff + 1) <= AnonLimit

\* The hourly allowance.  A refund takes the newest entry, which may be another
\* operation's, so an operation that was in flight when an hour began and failed
\* in it may let one more through; beyond those, nothing (api.py _check_pdf_rate,
\* _refund_pdf_render, _check_email_rate, _refund_email_send).
Costs == [r \in Attempt |-> attempt[r].cost]
Charged(k, R) ==
  MapThenSumSet(LAMBDA r : Costs[r],
    {r \in R : attempt[r].op \in IF k = "mail" THEN {"mail"} ELSE Renders})

AllowanceHeld ==
  \A k \in {"pdf", "mail"} :
    LET spent == {r \in Attempt : attempt[r].pc \notin {"new", "refused", "failed"}} IN
    Charged(k, Since(spent, Cutoff))
      <= HourLimit[k] + Charged(k, Strays(Attempt, "failed", Cutoff))

\* Every slot is free or in the hands of one render; a render that waits in vain
\* gives back none (api.py pdf_render_slot).
SlotsReturned ==
  slots + Cardinality({r \in Attempt : attempt[r].pc = "rendering"}) = Slots
=============================================================================
