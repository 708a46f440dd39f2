----------------------------- MODULE LimitsProofs -----------------------------
(***************************************************************************)
(* What the portal counts stays within its limits: Admission's, of requests *)
(* and renders, and StorageNamespace's, of bytes and objects.  Both add up   *)
(* charges, so their proofs share the lemmas on sums that come first.        *)
(*                                                                         *)
(* Admission.  GuessesHeld, AnonymousHeld and AllowanceHeld compare a count  *)
(* of requests in the window that ends now with a limit, and are not         *)
(* inductive: a hit that is added or taken back belongs to many windows.     *)
(* LimitsInv says of each window that reaches no further back than a limiter *)
(* looks that whatever counts in it has a hit to itself among the last of    *)
(* the table: hits are appended at the end, taken back at the end and        *)
(* dropped at the front only when no such window sees them.  That a full     *)
(* table makes room needs each key to have been inserted by an attempt of    *)
(* its own.                                                                  *)
(*                                                                         *)
(* StorageNamespace.  WithinQuota compares what a write measured with what   *)
(* it finds when it writes.  IInv adds that in between nobody adds to the    *)
(* namespace, unless an app was deleted under its writers: the holders of    *)
(* locks of a namespace that is not torn have one file, hence are one        *)
(* request.                                                                  *)
(***************************************************************************)
EXTENDS Admission, StorageNamespace, FiniteSetTheorems, NaturalsInduction, SequenceTheorems, TLAPS

-----------------------------------------------------------------------------
(***************************************************************************)
(* Sums.  Total(g, S) adds up g over S.  MapThenSumSet takes the elements   *)
(* in an order of its own; TotalRemove says that any order does.  The       *)
(* induction is over the finite subsets of a finite set, by a least         *)
(* counterexample.                                                          *)
(***************************************************************************)
Total(g, S) == MapThenSumSet(LAMBDA k : g[k], S)

First(s) == CHOOSE x \in s : TRUE

\* h gives the sum of g over each set of D, which holds what is left of its sets.
Adds(h, g, D) ==
  h = [s \in D |-> IF s = {} THEN 0 ELSE g[First(s)] + h[s \ {First(s)}]]

LEMMA FirstIn == ASSUME NEW s, s # {} PROVE First(s) \in s
  BY DEF First

\* Among the subsets of a finite set there is a least one with a property.
LEMMA LeastSubset ==
  ASSUME NEW S, NEW Bad, IsFiniteSet(S), Bad \subseteq SUBSET S, Bad # {}
  PROVE  \E s \in Bad : \A t \in Bad : t \subseteq s => t = s
<1>1. FiniteSubsetsOf(S) = SUBSET S
  BY FS_FiniteSubsetsOfFinite
<1>2. IsWellFoundedOn(StrictSubsetOrdering(S), SUBSET S)
  BY <1>1, FS_StrictSubsetOrderingWellFounded
<1>3. PICK s \in Bad : \A t \in Bad : <<t, s>> \notin StrictSubsetOrdering(S)
  BY <1>2, WFMin
<1> QED
  BY <1>3 DEF StrictSubsetOrdering

\* There is such an h: it is built from the smaller sets to the larger.
LEMMA AddsExists ==
  ASSUME NEW S, IsFiniteSet(S), NEW g
  PROVE  \E h : Adds(h, g, SUBSET S)
<1> DEFINE Upto(n) == {s \in SUBSET S : Cardinality(s) < n}
           Fails(n) == ~\E h : Adds(h, g, Upto(n))
<1>1. PICK N \in Nat : N = Cardinality(S) + 1
  BY FS_CardinalityType
<1>2. \A s \in SUBSET S : IsFiniteSet(s) /\ Cardinality(s) \in Nat /\ Cardinality(s) < N
  BY <1>1, FS_Subset, FS_CardinalityType
<1>3. \A s \in SUBSET S : s # {} => /\ s \ {First(s)} \in SUBSET S
                                    /\ Cardinality(s \ {First(s)}) < Cardinality(s)
  BY <1>2, FirstIn, FS_RemoveElement
<1>4. ~Fails(0)
  <2>1. Upto(0) = {}
    BY <1>2
  <2>2. Adds([s \in {} |-> 0], g, Upto(0))
    BY <2>1 DEF Adds
  <2> QED
    BY <2>2
<1>5. ASSUME NEW n \in Nat, ~Fails(n) PROVE ~Fails(n + 1)
  <2>1. PICK h : Adds(h, g, Upto(n))
    BY <1>5
  <2> DEFINE b == [s \in Upto(n + 1) |-> IF s = {} THEN 0 ELSE g[First(s)] + h[s \ {First(s)}]]
  <2>2. \A s \in Upto(n) : h[s] = IF s = {} THEN 0 ELSE g[First(s)] + h[s \ {First(s)}]
    BY <2>1 DEF Adds
  <2>3. \A s \in Upto(n) : s \in Upto(n + 1) /\ b[s] = h[s]
    BY <1>2, <2>2
  <2>4. \A s \in Upto(n + 1) : s # {} => s \ {First(s)} \in Upto(n)
    BY <1>2, <1>3
  <2>5. Adds(b, g, Upto(n + 1))
    BY <2>3, <2>4 DEF Adds
  <2> QED
    BY <2>5
<1> HIDE DEF Fails
<1>6. ~Fails(N)
  <2> SUFFICES ASSUME Fails(N) PROVE FALSE
    OBVIOUS
  <2> DEFINE Bad == {1..n : n \in {m \in 0..N : Fails(m)}}
  <2>1. Bad \subseteq SUBSET (1..N) /\ Bad # {}
    BY <1>1
  <2>2. PICK I : I = 1..N /\ IsFiniteSet(I)
    BY <1>1, FS_Interval
  <2>3. PICK s \in Bad : \A t \in Bad : t \subseteq s => t = s
    <3>1. IsFiniteSet(I) /\ Bad \subseteq SUBSET I /\ Bad # {}
      BY <2>1, <2>2
    <3> HIDE DEF Bad
    <3> QED
      BY <3>1, LeastSubset
  <2>4. PICK n \in 0..N : Fails(n) /\ s = 1..n
    BY <2>3
  <2>5. n # 0
    BY <1>4, <2>4
  <2>6. Fails(n - 1)
    BY <1>1, <1>5, <2>4, <2>5
  <2>7. 1..(n - 1) \in Bad /\ 1..(n - 1) \subseteq s /\ 1..(n - 1) # s
    BY <1>1, <2>4, <2>5, <2>6
  <2> QED
    BY <2>3, <2>7
<1>7. Upto(N) = SUBSET S
  BY <1>2
<1> QED
  BY <1>6, <1>7 DEF Fails

\* Any two agree.
LEMMA AddsAgree ==
  ASSUME NEW S, NEW T, NEW g, NEW h, NEW l,
         IsFiniteSet(S), T \subseteq S, Adds(h, g, SUBSET S), Adds(l, g, SUBSET T)
  PROVE  h[T] = l[T]
<1> DEFINE Bad == {s \in SUBSET T : h[s] # l[s]}
<1> SUFFICES ASSUME Bad # {} PROVE FALSE
  OBVIOUS
<1>1. IsFiniteSet(T)
  BY FS_Subset
<1>2. PICK s \in Bad : \A t \in Bad : t \subseteq s => t = s
  <2>1. Bad \subseteq SUBSET T
    OBVIOUS
  <2> HIDE DEF Bad
  <2> QED
    BY <2>1, <1>1, LeastSubset
<1>3. /\ h[s] = IF s = {} THEN 0 ELSE g[First(s)] + h[s \ {First(s)}]
      /\ l[s] = IF s = {} THEN 0 ELSE g[First(s)] + l[s \ {First(s)}]
  BY DEF Adds
<1>4. CASE s = {}
  BY <1>3, <1>4
<1>5. CASE s # {}
  <2>1. s \ {First(s)} \subseteq s /\ s \ {First(s)} # s
    BY <1>5, FirstIn
  <2>2. s \ {First(s)} \notin Bad
    BY <1>2, <2>1
  <2>3. h[s \ {First(s)}] = l[s \ {First(s)}]
    BY <2>1, <2>2
  <2> QED
    BY <1>3, <1>5, <2>3
<1> QED
  BY <1>4, <1>5

LEMMA TotalAdds ==
  ASSUME NEW S, IsFiniteSet(S), NEW g
  PROVE  \E h : Adds(h, g, SUBSET S) /\ Total(g, S) = h[S]
<1>1. \E h : Adds(h, g, SUBSET S)
  BY AddsExists
<1> QED
  BY <1>1, Zenon DEF Total, MapThenSumSet, MapThenFoldSet, Adds, First

LEMMA TotalFirst ==
  ASSUME NEW S, IsFiniteSet(S), NEW g
  PROVE  Total(g, S) = IF S = {} THEN 0 ELSE g[First(S)] + Total(g, S \ {First(S)})
<1>1. PICK h : Adds(h, g, SUBSET S) /\ Total(g, S) = h[S]
  BY TotalAdds
<1>2. h[S] = IF S = {} THEN 0 ELSE g[First(S)] + h[S \ {First(S)}]
  BY <1>1 DEF Adds
<1>3. PICK R \in SUBSET S : R = S \ {First(S)} /\ IsFiniteSet(R)
  BY FS_RemoveElement
<1>4. PICK l : Adds(l, g, SUBSET R) /\ Total(g, R) = l[R]
  BY <1>3, TotalAdds
<1>5. h[R] = l[R]
  <2>1. IsFiniteSet(S) /\ R \subseteq S /\ Adds(h, g, SUBSET S) /\ Adds(l, g, SUBSET R)
    BY <1>1, <1>3, <1>4
  <2> QED
    BY <2>1, AddsAgree
<1> QED
  BY <1>1, <1>2, <1>3, <1>4, <1>5

LEMMA TotalType ==
  ASSUME NEW S, IsFiniteSet(S), NEW g, \A k \in S : g[k] \in Nat
  PROVE  Total(g, S) \in Nat
<1> DEFINE Bad == {s \in SUBSET S : Total(g, s) \notin Nat}
<1> SUFFICES ASSUME Bad # {} PROVE FALSE
  OBVIOUS
<1>1. PICK s \in Bad : \A t \in Bad : t \subseteq s => t = s
  <2>1. Bad \subseteq SUBSET S
    OBVIOUS
  <2> HIDE DEF Bad
  <2> QED
    BY <2>1, LeastSubset
<1>2. IsFiniteSet(s)
  BY FS_Subset
<1>3. Total(g, s) = IF s = {} THEN 0 ELSE g[First(s)] + Total(g, s \ {First(s)})
  BY <1>2, TotalFirst
<1>4. s # {}
  BY <1>3
<1>5. First(s) \in s
  BY <1>4, FirstIn
<1>6. Total(g, s \ {First(s)}) \in Nat
  BY <1>1, <1>5
<1> QED
  BY <1>3, <1>5, <1>6

\* A total is the same whichever element is added last.
LEMMA TotalRemove ==
  ASSUME NEW S, IsFiniteSet(S), NEW g, \A k \in S : g[k] \in Nat, NEW x \in S
  PROVE  Total(g, S) = g[x] + Total(g, S \ {x})
<1> DEFINE Bad == {s \in SUBSET S : \E y \in s : Total(g, s) # g[y] + Total(g, s \ {y})}
<1> SUFFICES ASSUME Bad # {} PROVE FALSE
  OBVIOUS
<1>1. PICK s \in Bad : \A t \in Bad : t \subseteq s => t = s
  <2>1. Bad \subseteq SUBSET S
    OBVIOUS
  <2> HIDE DEF Bad
  <2> QED
    BY <2>1, LeastSubset
<1>2. PICK y \in s : Total(g, s) # g[y] + Total(g, s \ {y})
  BY <1>1
<1> DEFINE z == First(s)
<1>3. IsFiniteSet(s) /\ IsFiniteSet(s \ {y}) /\ IsFiniteSet(s \ {z}) /\ IsFiniteSet((s \ {y}) \ {z})
  BY FS_Subset
<1>4. z \in s
  BY FirstIn
<1>5. Total(g, s) = g[z] + Total(g, s \ {z})
  BY <1>3, TotalFirst
<1> HIDE DEF z
<1>6. y # z
  BY <1>2, <1>5
<1>7. s \ {y} \notin Bad /\ s \ {z} \notin Bad
  BY <1>1, <1>2, <1>4
<1>8. Total(g, s \ {z}) = g[y] + Total(g, (s \ {z}) \ {y})
  BY <1>2, <1>6, <1>7
<1>9. Total(g, s \ {y}) = g[z] + Total(g, (s \ {y}) \ {z})
  BY <1>4, <1>6, <1>7
<1>10. (s \ {z}) \ {y} = (s \ {y}) \ {z}
  OBVIOUS
<1>11. Total(g, (s \ {y}) \ {z}) \in Nat /\ g[y] \in Nat /\ g[z] \in Nat
  BY <1>3, <1>4, TotalType
<1> QED
  BY <1>2, <1>5, <1>8, <1>9, <1>10, <1>11

\* A total depends on nothing but the values it adds.
LEMMA TotalSame ==
  ASSUME NEW S, IsFiniteSet(S), NEW f, NEW g, \A k \in S : f[k] = g[k]
  PROVE  Total(f, S) = Total(g, S)
<1> DEFINE Bad == {s \in SUBSET S : Total(f, s) # Total(g, s)}
<1> SUFFICES ASSUME Bad # {} PROVE FALSE
  OBVIOUS
<1>1. PICK s \in Bad : \A t \in Bad : t \subseteq s => t = s
  <2>1. Bad \subseteq SUBSET S
    OBVIOUS
  <2> HIDE DEF Bad
  <2> QED
    BY <2>1, LeastSubset
<1>2. IsFiniteSet(s)
  BY FS_Subset
<1>3. /\ Total(f, s) = IF s = {} THEN 0 ELSE f[First(s)] + Total(f, s \ {First(s)})
      /\ Total(g, s) = IF s = {} THEN 0 ELSE g[First(s)] + Total(g, s \ {First(s)})
  BY <1>2, TotalFirst
<1>4. s # {}
  BY <1>3
<1>5. First(s) \in s
  BY <1>4, FirstIn
<1>6. Total(f, s \ {First(s)}) = Total(g, s \ {First(s)})
  BY <1>1, <1>5
<1> QED
  BY <1>3, <1>5, <1>6

-----------------------------------------------------------------------------
(***************************************************************************)
(* Admission.                                                               *)
(***************************************************************************)
\* m of the hits, the last ones, are no older than s.
Covers(hits, m, s) ==
  m <= Len(hits) /\ \A i \in 1..Len(hits) : i > Len(hits) - m => hits[i] >= s

\* What an attempt has become, by its operation.
SoundAttempt(q) ==
  /\ q.at <= clock /\ q.end <= clock
  /\ q.pc = "new" <=> q = New
  /\ q.op = "none" => q = New
  /\ q.op = "login" => /\ q.net \in Net /\ q.email \in Email
                       /\ q.pc \in {"verifying", "done", "failed", "refused"}
  /\ q.pc = "verifying" => q.op = "login"
  /\ q.pc \in {"reserved", "rendering"} => q.op \in Renders
  /\ q.pc = "delivering" => q.op = "tool"
  /\ q.pc = "sending" => q.op = "mail"

Attempts == \A r \in Attempt : SoundAttempt(attempt[r])

\* Every key was inserted by an attempt of its own.
ByOnce(d) ==
  \A k \in DOMAIN d : /\ attempt[d[k].by] # New
                      /\ \A j \in DOMAIN d : d[j].by = d[k].by => j = k

Table(d, K) ==
  /\ IsDict(d, K) /\ Cardinality(DOMAIN d) <= MaxKeys /\ ByOnce(d)
  /\ \A k \in DOMAIN d : InOrder(d[k].hits)

Tables ==
  Table(loginFailures, Key) /\ Table(loginNetHits, Net) /\ Table(anonHits, Net)

\* Of the attempts a, those a window that starts at s counts.
Hitting(a, op, n, e, s) ==
  {r \in Attempt : /\ a[r].op = op /\ a[r].counted /\ a[r].net = n /\ a[r].email = e
                   /\ a[r].at >= s}

Trying(a, n, s) ==
  {r \in Attempt : /\ a[r].op = "login" /\ a[r].net = n /\ Guessing(a[r])
                   /\ a[r].netHit = "own" /\ a[r].at >= s}
Freed(a, n, s) ==
  {r \in Attempt : /\ a[r].op = "login" /\ a[r].net = n /\ a[r].pc = "done" /\ a[r].end >= s
                   /\ \/ a[r].netHit = "own" /\ a[r].at < s
                      \/ a[r].netHit = "another"}

OpsOf(k) == IF k = "mail" THEN {"mail"} ELSE Renders
Paid(a, k, s) ==
  {r \in Attempt : /\ a[r].op \in OpsOf(k) /\ a[r].pc \notin {"new", "refused", "failed"}
                   /\ a[r].at >= s}
Lost(a, k, s) ==
  {r \in Attempt : /\ a[r].op \in OpsOf(k) /\ a[r].pc = "failed"
                   /\ a[r].at < s /\ a[r].end >= s}
CostIn(a) == [r \in Attempt |-> a[r].cost]

\* Every guess, submission, request and charge that counts has a hit to itself, in
\* every window.
LoginsCovered ==
  \A k \in Key :
    /\ Len(HitsOf(loginFailures, k)) <= LoginLimit
    /\ \A s \in Int : s > Cutoff =>
         Covers(HitsOf(loginFailures, k), Cardinality(Hitting(attempt, "login", k[1], k[2], s)), s)

NetsCovered ==
  \A n \in Net :
    /\ Len(HitsOf(loginNetHits, n)) <= NetLimit
    /\ \A s \in Int : s > Cutoff =>
         Covers(HitsOf(loginNetHits, n),
                Cardinality(Trying(attempt, n, s)) - Cardinality(Freed(attempt, n, s)), s)

FormsCovered ==
  \A n \in Net :
    /\ Len(formRate[n]) <= FormLimit
    /\ \A s \in Int : s >= Cutoff =>
         Covers(formRate[n], Cardinality(Hitting(attempt, "form", n, Nobody, s)), s)

AnonCovered ==
  \A n \in Net :
    /\ Len(HitsOf(anonHits, n)) <= AnonLimit
    /\ \A s \in Int : s > Cutoff =>
         Covers(HitsOf(anonHits, n), Cardinality(Hitting(attempt, "anon", n, Nobody, s)), s)

LogsCovered ==
  \A k \in {"pdf", "mail"} :
    /\ Len(log[k]) <= HourLimit[k]
    /\ \A s \in Int : s >= Cutoff =>
         Covers(log[k], Total(CostIn(attempt), Paid(attempt, k, s))
                          - Total(CostIn(attempt), Lost(attempt, k, s)), s)

LimitTypes ==
  /\ clock \in 0..MaxClock /\ lastPrune \in 0..MaxClock
  /\ formRate \in [Net -> Hits] /\ \A n \in Net : InOrder(formRate[n])
  /\ log \in [{"pdf", "mail"} -> Hits] /\ \A k \in {"pdf", "mail"} : InOrder(log[k])
  /\ slots \in 0..Slots
  /\ attempt \in [Attempt -> AttemptState]

LimitsInv ==
  /\ LimitTypes /\ Attempts /\ Tables
  /\ LoginsCovered /\ NetsCovered /\ FormsCovered /\ AnonCovered /\ LogsCovered
  /\ SlotsReturned
-----------------------------------------------------------------------------
-----------------------------------------------------------------------------
(***************************************************************************)
(* Hits.  Trimming a table's hits, adding one and taking some back keeps     *)
(* the last m of them no older than s, for the m that is left.               *)
(***************************************************************************)
LEMMA LeastNumber ==
  ASSUME NEW B, B \subseteq Nat, B # {}
  PROVE  \E m \in B : \A k \in B : m <= k
<1>1. PICK R : R = OpToRel(<, Nat)
  OBVIOUS
<1>2. PICK m \in B : \A k \in B : ~(<<k, m>> \in R)
  BY <1>1, NatLessThanWellFounded, WFMin
<1>3. \A k \in B : <<k, m>> \in R <=> k < m
  <2>1. R = {ss \in Nat \X Nat : ss[1] < ss[2]}
    BY <1>1, Zenon DEF OpToRel
  <2> QED
    BY <2>1
<1>4. \A k \in B : ~(k < m)
  BY <1>2, <1>3, Zenon
<1>5. \A k \in B : k \in Nat
  OBVIOUS
<1>6. \A k \in B : m <= k
  BY <1>4, <1>5
<1> QED
  BY <1>6

LEMMA HitsAre ==
  ASSUME NEW hits \in Hits
  PROVE  /\ hits \in Seq(Nat) /\ Len(hits) \in Nat /\ DOMAIN hits = 1..Len(hits)
         /\ \A i \in 1..Len(hits) : hits[i] \in Nat
  BY LenProperties DEF Hits

\* HitsSince takes off the hits before the first one since start.
LEMMA HitsSinceIs ==
  ASSUME NEW hits \in Hits, NEW start \in Int
  PROVE  \E n \in 0..Len(hits) :
              /\ HitsSince(hits, start) \in Hits
              /\ Len(HitsSince(hits, start)) = Len(hits) - n
              /\ \A i \in 1..(Len(hits) - n) : HitsSince(hits, start)[i] = hits[n + i]
              /\ \A i \in 1..n : hits[i] < start
              /\ n < Len(hits) => hits[n + 1] >= start
<1> DEFINE since == {i \in 1..Len(hits) : hits[i] >= start}
<1>1. /\ Len(hits) \in Nat /\ DOMAIN hits = 1..Len(hits) /\ hits \in Seq(Nat)
      /\ \A i \in 1..Len(hits) : hits[i] \in Nat
  BY HitsAre
<1>2. HitsSince(hits, start) = IF since = {} THEN <<>> ELSE SubSeq(hits, Min(since), Len(hits))
  BY <1>1 DEF HitsSince
<1>3. CASE since = {}
  <2>1. HitsSince(hits, start) = <<>>
    BY <1>2, <1>3
  <2>2. \A i \in 1..Len(hits) : hits[i] < start
    BY <1>1, <1>3
  <2>3. HitsSince(hits, start) \in Hits /\ Len(HitsSince(hits, start)) = 0
    BY <2>1, EmptySeq DEF Hits
  <2> HIDE DEF since
  <2> WITNESS Len(hits) \in 0..Len(hits)
  <2> QED
    BY <1>1, <2>2, <2>3
<1>4. CASE since # {}
  <2>1. since \subseteq Nat
    OBVIOUS
  <2>2. \E m \in since : \A k \in since : m <= k
    BY <1>4, <2>1, LeastNumber
  <2>3. PICK m : m = Min(since)
    OBVIOUS
  <2>4. m \in since /\ \A k \in since : m <= k
    BY <2>2, <2>3, Zenon DEF Min
  <2>5. m \in 1..Len(hits) /\ hits[m] >= start
    BY <2>4
  <2>6. HitsSince(hits, start) = SubSeq(hits, m, Len(hits))
    BY <1>2, <1>4, <2>3
  <2>7. \A i \in 1..(m - 1) : hits[i] < start
    <3> SUFFICES ASSUME NEW i \in 1..(m - 1), hits[i] >= start PROVE FALSE
      BY <1>1, <2>5
    <3>1. i \in since
      BY <2>5
    <3> QED
      BY <2>4, <2>5, <3>1
  <2> HIDE DEF since
  <2>8. /\ SubSeq(hits, m, Len(hits)) \in Seq(Nat)
        /\ Len(SubSeq(hits, m, Len(hits))) = Len(hits) - (m - 1)
        /\ \A i \in 1..(Len(hits) - (m - 1)) : SubSeq(hits, m, Len(hits))[i] = hits[(m - 1) + i]
    <3>1. \A i \in m..Len(hits) : hits[i] \in Nat
      BY <1>1, <2>5
    <3>2. /\ SubSeq(hits, m, Len(hits)) \in Seq(Nat)
          /\ Len(SubSeq(hits, m, Len(hits)))
               = IF m <= Len(hits) THEN Len(hits) - m + 1 ELSE 0
          /\ \A i \in 1..(Len(hits) - m + 1) :
               SubSeq(hits, m, Len(hits))[i] = hits[m + i - 1]
      BY <1>1, <2>5, <3>1, SubSeqProperties
    <3>3. Len(hits) - m + 1 = Len(hits) - (m - 1) /\ m <= Len(hits)
      BY <1>1, <2>5
    <3>4. \A i \in 1..(Len(hits) - (m - 1)) : m + i - 1 = (m - 1) + i
      BY <1>1, <2>5
    <3> QED
      BY <3>2, <3>3, <3>4
  <2>9. m - 1 \in 0..Len(hits) /\ (m - 1) + 1 = m
    BY <1>1, <2>5
  <2> QED
    BY <2>5, <2>6, <2>7, <2>8, <2>9 DEF Hits
<1> QED
  BY <1>3, <1>4

LEMMA HitsSinceLess ==
  ASSUME NEW hits \in Hits, NEW start \in Int
  PROVE  /\ HitsSince(hits, start) \in Hits /\ Len(HitsSince(hits, start)) <= Len(hits)
         /\ InOrder(hits) => InOrder(HitsSince(hits, start))
<1>1. PICK n \in 0..Len(hits) :
        /\ Len(HitsSince(hits, start)) = Len(hits) - n
        /\ \A i \in 1..(Len(hits) - n) : HitsSince(hits, start)[i] = hits[n + i]
  BY HitsSinceIs
<1>2. HitsSince(hits, start) \in Hits /\ Len(hits) \in Nat
  BY HitsSinceIs, HitsAre
<1>3. DOMAIN hits = 1..Len(hits) /\ DOMAIN HitsSince(hits, start) = 1..(Len(hits) - n)
  BY <1>1, <1>2, HitsAre
<1>4. ASSUME InOrder(hits) PROVE InOrder(HitsSince(hits, start))
  <2> SUFFICES ASSUME NEW i \in 1..(Len(hits) - n), NEW j \in 1..(Len(hits) - n), i <= j
               PROVE  hits[n + i] <= hits[n + j] /\ hits[n + j] <= clock
    BY <1>1, <1>3 DEF InOrder
  <2>1. n + i \in 1..Len(hits) /\ n + j \in 1..Len(hits) /\ n + i <= n + j
    BY <1>2
  <2> QED
    BY <1>3, <1>4, <2>1 DEF InOrder
<1> QED
  BY <1>1, <1>2, <1>4

LEMMA CoversSince ==
  ASSUME NEW hits \in Hits, NEW start \in Int, NEW s \in Int, start <= s, NEW m \in Int,
         Covers(hits, m, s)
  PROVE  Covers(HitsSince(hits, start), m, s)
<1>1. PICK n \in 0..Len(hits) :
        /\ Len(HitsSince(hits, start)) = Len(hits) - n
        /\ \A i \in 1..(Len(hits) - n) : HitsSince(hits, start)[i] = hits[n + i]
        /\ \A i \in 1..n : hits[i] < start
  BY HitsSinceIs
<1>2. Len(hits) \in Nat /\ \A i \in 1..Len(hits) : hits[i] \in Nat
  BY HitsAre
<1>3. m <= Len(hits) /\ \A i \in 1..Len(hits) : i > Len(hits) - m => hits[i] >= s
  BY DEF Covers
<1>4. m <= Len(hits) - n
  <2> SUFFICES ASSUME m > Len(hits) - n PROVE FALSE
    BY <1>2
  <2>1. n \in 1..n /\ n \in 1..Len(hits) /\ n > Len(hits) - m
    BY <1>2, <1>3
  <2> QED
    BY <1>1, <1>2, <1>3, <2>1
<1>5. ASSUME NEW i \in 1..(Len(hits) - n), i > (Len(hits) - n) - m
      PROVE  hits[n + i] >= s
  <2>1. n + i \in 1..Len(hits) /\ n + i > Len(hits) - m
    BY <1>2, <1>5
  <2> QED
    BY <1>3, <2>1
<1> QED
  BY <1>1, <1>4, <1>5 DEF Covers

LEMMA CoversLess ==
  ASSUME NEW hits \in Hits, NEW s \in Int, NEW m \in Int, NEW k \in Int, k <= m,
         Covers(hits, m, s)
  PROVE  Covers(hits, k, s)
<1>1. Len(hits) \in Nat
  BY HitsAre
<1> QED
  BY <1>1 DEF Covers

LEMMA CoversNone ==
  ASSUME NEW hits \in Hits, NEW s \in Int, NEW m \in Int, m <= 0
  PROVE  Covers(hits, m, s)
<1>1. Len(hits) \in Nat
  BY HitsAre
<1> QED
  BY <1>1 DEF Covers

\* Hits are appended as they are charged.
LEMMA CoversAppend ==
  ASSUME NEW hits \in Hits, NEW s \in Int, NEW t \in Nat, s <= t, NEW m \in Int, Covers(hits, m, s)
  PROVE  Covers(Append(hits, t), m + 1, s)
<1>1. /\ Len(hits) \in Nat /\ Len(Append(hits, t)) = Len(hits) + 1
      /\ \A i \in 1..Len(hits) : Append(hits, t)[i] = hits[i]
      /\ Append(hits, t)[Len(hits) + 1] = t
  BY HitsAre, AppendProperties
<1> QED
  BY <1>1 DEF Covers

LEMMA AppendIs ==
  ASSUME NEW hits \in Hits, NEW t \in Nat
  PROVE  /\ Append(hits, t) \in Hits /\ Len(Append(hits, t)) = Len(hits) + 1
         /\ InOrder(hits) /\ t = clock => InOrder(Append(hits, t))
<1>1. /\ Append(hits, t) \in Seq(Nat) /\ Len(Append(hits, t)) = Len(hits) + 1
      /\ \A i \in 1..Len(hits) : Append(hits, t)[i] = hits[i]
      /\ Append(hits, t)[Len(hits) + 1] = t
  BY HitsAre, AppendProperties
<1>2. Append(hits, t) \in Hits
  BY <1>1 DEF Hits
<1>3. /\ Len(hits) \in Nat /\ \A i \in 1..Len(hits) : hits[i] \in Nat
      /\ DOMAIN hits = 1..Len(hits) /\ DOMAIN Append(hits, t) = 1..(Len(hits) + 1)
  BY <1>1, <1>2, HitsAre
<1>4. ASSUME InOrder(hits), t = clock, NEW i \in 1..(Len(hits) + 1),
             NEW j \in 1..(Len(hits) + 1), i <= j
      PROVE  Append(hits, t)[i] <= Append(hits, t)[j] /\ Append(hits, t)[j] <= clock
  <2>1. CASE j \in 1..Len(hits)
    BY <1>1, <1>3, <1>4, <2>1 DEF InOrder
  <2>2. CASE j = Len(hits) + 1 /\ i \in 1..Len(hits)
    BY <1>1, <1>3, <1>4, <2>2 DEF InOrder
  <2>3. CASE j = Len(hits) + 1 /\ i = Len(hits) + 1
    BY <1>1, <1>4, <2>3
  <2> QED
    BY <1>3, <1>4, <2>1, <2>2, <2>3
<1> QED
  BY <1>1, <1>2, <1>3, <1>4 DEF InOrder

LEMMA ExtendIs ==
  ASSUME NEW hits \in Hits, NEW t \in Nat, NEW c \in Nat
  PROVE  LET more == hits \o [i \in 1..c |-> t] IN
         /\ more \in Hits /\ Len(more) = Len(hits) + c
         /\ InOrder(hits) /\ t = clock => InOrder(more)
         /\ \A s \in Int, m \in Int : s <= t /\ Covers(hits, m, s) => Covers(more, m + c, s)
<1>1. PICK cs : cs = [i \in 1..c |-> t]
  OBVIOUS
<1>2. cs \in Seq(Nat) /\ Len(cs) = c /\ \A i \in 1..c : cs[i] = t
  <2>1. cs \in [1..c -> Nat] /\ \A i \in 1..c : cs[i] = t
    BY <1>1
  <2>2. cs \in Seq(Nat)
    BY <2>1, SeqDef
  <2> QED
    BY <2>1, <2>2, LenProperties
<1>3. PICK more : more = hits \o cs
  OBVIOUS
<1>4. PICK n : n = Len(hits)
  OBVIOUS
<1>5. hits \in Seq(Nat) /\ n \in Nat /\ DOMAIN hits = 1..n /\ \A i \in 1..n : hits[i] \in Nat
  BY <1>4, HitsAre
<1>6. /\ more \in Seq(Nat) /\ Len(more) = n + c
      /\ \A i \in 1..(n + c) : more[i] = IF i <= n THEN hits[i] ELSE cs[i - n]
  <2>1. /\ more \in Seq(Nat) /\ Len(more) = Len(hits) + Len(cs)
        /\ \A i \in 1..(Len(hits) + Len(cs)) :
             more[i] = IF i <= Len(hits) THEN hits[i] ELSE cs[i - Len(hits)]
    BY <1>2, <1>3, <1>5, ConcatProperties
  <2> QED
    BY <1>2, <1>4, <2>1
<1>7. \A i \in 1..n : i \in 1..(n + c) /\ more[i] = hits[i]
  BY <1>5, <1>6
<1>8. \A i \in 1..(n + c) : ~(i <= n) => more[i] = t
  BY <1>2, <1>5, <1>6
<1>9. more \in Hits /\ DOMAIN more = 1..(n + c)
  <2>1. more \in Hits
    BY <1>6 DEF Hits
  <2> QED
    BY <1>6, <2>1, HitsAre
<1>10. ASSUME InOrder(hits), t = clock, NEW i \in 1..(n + c), NEW j \in 1..(n + c), i <= j
       PROVE  more[i] <= more[j] /\ more[j] <= clock
  <2>1. CASE j <= n
    <3>1. i \in 1..n /\ j \in 1..n
      BY <1>5, <1>10, <2>1
    <3>2. hits[i] <= hits[j] /\ hits[j] <= clock
      BY <1>5, <1>10, <3>1 DEF InOrder
    <3> QED
      BY <1>7, <3>1, <3>2
  <2>2. CASE ~(j <= n) /\ i <= n
    BY <1>4, <1>5, <1>7, <1>8, <1>10, <2>2 DEF InOrder
  <2>3. CASE ~(j <= n) /\ ~(i <= n)
    BY <1>8, <1>10, <2>3
  <2> QED
    BY <1>5, <2>1, <2>2, <2>3
<1>11. ASSUME NEW s \in Int, NEW m \in Int, s <= t, Covers(hits, m, s)
       PROVE  Covers(more, m + c, s)
  <2>1. m <= n /\ \A i \in 1..n : i > n - m => hits[i] >= s
    BY <1>4, <1>11 DEF Covers
  <2>2. ASSUME NEW i \in 1..(n + c), i > (n + c) - (m + c) PROVE more[i] >= s
    <3>1. i > n - m
      BY <1>5, <2>2
    <3> QED
      BY <1>5, <1>7, <1>8, <1>11, <2>1, <3>1
  <2> QED
    BY <1>5, <1>6, <2>1, <2>2 DEF Covers
<1>12. InOrder(hits) /\ t = clock => InOrder(more)
  BY <1>9, <1>10 DEF InOrder
<1> QED
  BY <1>1, <1>3, <1>4, <1>6, <1>9, <1>11, <1>12

\* A refund takes the newest.
LEMMA RefundIs ==
  ASSUME NEW hits \in Hits, NEW c \in Nat
  PROVE  LET less == SubSeq(hits, 1, Len(hits) - c) IN
         /\ less \in Hits /\ Len(less) <= Len(hits)
         /\ InOrder(hits) => InOrder(less)
         /\ \A s \in Int, m \in Int : Covers(hits, m, s) => Covers(less, m - c, s)
<1>1. PICK less : less = SubSeq(hits, 1, Len(hits) - c)
  OBVIOUS
<1>2. PICK n : n = Len(hits)
  OBVIOUS
<1>3. n \in Nat /\ DOMAIN hits = 1..n /\ \A i \in 1..n : hits[i] \in Nat
  BY <1>2, HitsAre
<1>4. PICK d : d = IF c <= n THEN n - c ELSE 0
  OBVIOUS
<1>5. d \in 0..n /\ n - d <= c
  BY <1>3, <1>4
<1>6. less \in Seq(Nat) /\ Len(less) = d /\ \A i \in 1..d : less[i] = hits[i]
  <2>1. \A i \in 1..(n - c) : i \in 1..n
    BY <1>3
  <2>2. /\ less \in Seq(Nat) /\ Len(less) = IF 1 <= n - c THEN n - c - 1 + 1 ELSE 0
        /\ \A i \in 1..(n - c - 1 + 1) : less[i] = hits[1 + i - 1]
    <3>1. n - c \in Int /\ 1 \in Int /\ \A i \in 1..(n - c) : hits[i] \in Nat
      BY <1>3, <2>1
    <3> QED
      BY <1>1, <1>2, <3>1, SubSeqProperties
  <2>3. Len(less) = d
    BY <1>3, <1>4, <2>2
  <2>4. \A i \in 1..d : i \in 1..(n - c - 1 + 1) /\ 1 + i - 1 = i
    BY <1>3, <1>4
  <2> QED
    BY <2>2, <2>3, <2>4
<1>7. less \in Hits /\ DOMAIN less = 1..d
  BY <1>6, HitsAre DEF Hits
<1>8. InOrder(hits) => InOrder(less)
  <2>1. \A i \in 1..d : i \in 1..n
    BY <1>3, <1>5
  <2> QED
    BY <1>3, <1>6, <1>7, <2>1 DEF InOrder
<1>9. ASSUME NEW s \in Int, NEW m \in Int, Covers(hits, m, s) PROVE Covers(less, m - c, s)
  <2>1. m <= n /\ \A i \in 1..n : i > n - m => hits[i] >= s
    BY <1>2, <1>9 DEF Covers
  <2>2. m - c <= d
    BY <1>3, <1>5, <2>1
  <2>3. ASSUME NEW i \in 1..d, i > d - (m - c) PROVE less[i] >= s
    <3>1. i \in 1..n /\ i > n - m
      BY <1>3, <1>5, <2>3
    <3> QED
      BY <1>6, <2>1, <3>1
  <2> QED
    BY <1>6, <2>2, <2>3 DEF Covers
<1> QED
  BY <1>1, <1>2, <1>3, <1>5, <1>6, <1>7, <1>8, <1>9

LEMMA FrontIs == ASSUME NEW hits \in Hits PROVE Front(hits) = SubSeq(hits, 1, Len(hits) - 1)
  BY DEF Front

\* Where no hit is left, or the last is too old, nothing is covered.
LEMMA CoversDead ==
  ASSUME NEW hits \in Hits, NEW s \in Int, NEW m \in Int, Covers(hits, m, s),
         hits = <<>> \/ Last(hits) < s
  PROVE  m <= 0
<1>1. Len(hits) \in Nat /\ \A i \in 1..Len(hits) : hits[i] \in Nat
  BY HitsAre
<1>2. CASE hits = <<>>
  <2>1. Len(hits) = 0
    BY <1>2
  <2> QED
    BY <2>1 DEF Covers
<1>3. CASE hits[Len(hits)] < s
  <2>1. ASSUME m > 0 PROVE FALSE
    <3>1. Len(hits) \in 1..Len(hits) /\ Len(hits) > Len(hits) - m
      BY <1>1, <2>1 DEF Covers
    <3>2. hits[Len(hits)] >= s
      BY <3>1 DEF Covers
    <3> QED
      BY <1>1, <1>3, <3>1, <3>2
  <2> QED
    BY <2>1
<1> QED
  BY <1>2, <1>3 DEF Last
-----------------------------------------------------------------------------
(***************************************************************************)
(* Dicts.  Trimming and pruning a table, and making room in it, leave it a   *)
(* table, whose hits cover what they covered.                                *)
(***************************************************************************)
LEMMA AttemptsFinite ==
  /\ MaxAttempts \in Nat /\ MaxKeys \in Nat \ {0} /\ Window \in Nat
  /\ IsFiniteSet(Attempt) /\ \A r \in Attempt : r \in Nat
<1>1. MaxAttempts \in Nat /\ MaxKeys \in Nat \ {0} /\ Window \in Nat
  BY LimitAssumption
<1> QED
  BY <1>1, FS_Interval DEF Attempt

LEMMA TableIs ==
  ASSUME NEW d, NEW K, Table(d, K)
  PROVE  /\ IsFiniteSet(DOMAIN d) /\ DOMAIN d \subseteq K
         /\ \A k \in DOMAIN d : /\ d[k] \in Entry /\ d[k].hits \in Hits /\ d[k].by \in Attempt
                                /\ InOrder(d[k].hits)
         /\ \A k : HitsOf(d, k) \in Hits /\ InOrder(HitsOf(d, k))
<1>1. DOMAIN d \subseteq K /\ d \in [DOMAIN d -> Entry]
  BY DEF Table, IsDict
<1>2. \A k \in DOMAIN d : d[k] \in Entry /\ d[k].hits \in Hits /\ d[k].by \in Attempt
  BY <1>1 DEF Entry
<1>3. IsFiniteSet(DOMAIN d)
  <2> DEFINE f == [k \in DOMAIN d |-> d[k].by]
  <2>1. f \in [DOMAIN d -> Attempt]
    BY <1>2
  <2>2. \A j, k \in DOMAIN d : f[j] = f[k] => j = k
    BY DEF Table, ByOnce
  <2> HIDE DEF f
  <2>3. f \in Injection(DOMAIN d, Attempt)
    BY <2>1, <2>2 DEF Injection, IsInjective
  <2> QED
    BY <2>3, AttemptsFinite, FS_Injection
<1>4. <<>> \in Hits /\ InOrder(<<>>)
  BY EmptySeq DEF Hits, InOrder
<1>5. \A k \in DOMAIN d : InOrder(d[k].hits)
  BY DEF Table
<1> QED
  BY <1>1, <1>2, <1>3, <1>4, <1>5 DEF HitsOf

LEMMA SubTable ==
  ASSUME NEW d, NEW K, Table(d, K), NEW e, IsDict(e, K), DOMAIN e \subseteq DOMAIN d,
         \A k \in DOMAIN e : e[k].by = d[k].by /\ InOrder(e[k].hits)
  PROVE  Table(e, K) /\ Cardinality(DOMAIN e) <= Cardinality(DOMAIN d)
<1>1. IsFiniteSet(DOMAIN d) /\ Cardinality(DOMAIN d) <= MaxKeys /\ ByOnce(d)
  BY TableIs DEF Table
<1>2. /\ Cardinality(DOMAIN e) <= Cardinality(DOMAIN d)
      /\ Cardinality(DOMAIN e) \in Nat /\ Cardinality(DOMAIN d) \in Nat
  BY <1>1, FS_Subset, FS_CardinalityType
<1>3. Cardinality(DOMAIN e) <= MaxKeys
  BY <1>1, <1>2, AttemptsFinite
<1>4. ByOnce(e)
  BY <1>1 DEF ByOnce
<1> QED
  BY <1>2, <1>3, <1>4 DEF Table

\* What is left of d where old hits were dropped.
Trims(e, d, K) ==
  /\ Table(e, K) /\ DOMAIN e \subseteq DOMAIN d
  /\ \A j \in K :
       /\ Len(HitsOf(e, j)) <= Len(HitsOf(d, j))
       /\ \A s \in Int, m \in Int :
            s > Cutoff /\ Covers(HitsOf(d, j), m, s) => Covers(HitsOf(e, j), m, s)

LEMMA TrimsTrims ==
  ASSUME NEW K, NEW d, Table(d, K), NEW e, Trims(e, d, K), NEW f, Trims(f, e, K)
  PROVE  Trims(f, d, K)
<1>1. \A j \in K : /\ HitsOf(d, j) \in Hits /\ HitsOf(e, j) \in Hits /\ HitsOf(f, j) \in Hits
                   /\ Len(HitsOf(d, j)) \in Nat /\ Len(HitsOf(e, j)) \in Nat
                   /\ Len(HitsOf(f, j)) \in Nat
  BY TableIs, HitsAre DEF Trims
<1>2. ASSUME NEW j \in K
      PROVE  /\ Len(HitsOf(f, j)) <= Len(HitsOf(d, j))
             /\ \A s \in Int, m \in Int :
                  s > Cutoff /\ Covers(HitsOf(d, j), m, s) => Covers(HitsOf(f, j), m, s)
  <2>1. Len(HitsOf(f, j)) <= Len(HitsOf(e, j)) /\ Len(HitsOf(e, j)) <= Len(HitsOf(d, j))
    BY DEF Trims
  <2>2. \A s \in Int, m \in Int :
          /\ s > Cutoff /\ Covers(HitsOf(d, j), m, s) => Covers(HitsOf(e, j), m, s)
          /\ s > Cutoff /\ Covers(HitsOf(e, j), m, s) => Covers(HitsOf(f, j), m, s)
    BY Zenon DEF Trims
  <2> QED
    BY <1>1, <2>1, <2>2
<1>3. Table(f, K) /\ DOMAIN f \subseteq DOMAIN d
  BY DEF Trims
<1> QED
  BY <1>2, <1>3, Zenon DEF Trims

LEMMA TrimsItself == ASSUME NEW K, NEW d, Table(d, K) PROVE Trims(d, d, K)
<1>1. \A j \in K : HitsOf(d, j) \in Hits /\ Len(HitsOf(d, j)) \in Nat
  BY TableIs, HitsAre
<1> QED
  BY <1>1 DEF Trims

LEMMA LiveIs ==
  ASSUME clock \in Int, NEW hits \in Hits
  PROVE  /\ Live(hits) \in Hits /\ Len(Live(hits)) <= Len(hits)
         /\ InOrder(hits) => InOrder(Live(hits))
         /\ \A s \in Int, m \in Int : s > Cutoff /\ Covers(hits, m, s) => Covers(Live(hits), m, s)
<1>1. Cutoff + 1 \in Int /\ \A s \in Int : s > Cutoff => Cutoff + 1 <= s
  BY AttemptsFinite DEF Cutoff
<1> QED
  BY <1>1, HitsSinceLess, CoversSince DEF Live

\* A table each of whose keys has the hits of d, those that are live, or, where d
\* has none that is live, none.
LEMMA TrimsIf ==
  ASSUME clock \in Int, NEW K, NEW d, Table(d, K), NEW e, IsDict(e, K), DOMAIN e \subseteq DOMAIN d,
         \A k \in DOMAIN e : /\ e[k].by = d[k].by
                             /\ e[k].hits = d[k].hits \/ e[k].hits = Live(d[k].hits),
         \A k \in DOMAIN d : k \notin DOMAIN e => Live(d[k].hits) = <<>>
  PROVE  Trims(e, d, K)
<1>1. \A k \in DOMAIN d : d[k].hits \in Hits /\ InOrder(d[k].hits)
  BY TableIs
<1>2. \A k \in DOMAIN e : InOrder(e[k].hits)
  BY <1>1, LiveIs
<1>3. Table(e, K)
  BY <1>2, SubTable
<1>4. ASSUME NEW j \in K
      PROVE  HitsOf(e, j) = HitsOf(d, j) \/ HitsOf(e, j) = Live(HitsOf(d, j))
  <2>1. CASE j \in DOMAIN e
    BY <2>1 DEF HitsOf
  <2>2. CASE j \notin DOMAIN e /\ j \in DOMAIN d
    BY <2>2 DEF HitsOf
  <2>3. CASE j \notin DOMAIN d
    BY <2>3 DEF HitsOf
  <2> QED
    BY <2>1, <2>2, <2>3
<1>5. \A j \in K : HitsOf(d, j) \in Hits /\ Len(HitsOf(d, j)) \in Nat
  BY TableIs, HitsAre
<1> QED
  BY <1>3, <1>4, <1>5, LiveIs DEF Trims

LEMMA FreshTrims ==
  ASSUME clock \in Int, NEW K, NEW d, Table(d, K), NEW k \in K
  PROVE  Trims(FreshHits(d, k), d, K)
<1>1. /\ DOMAIN d \subseteq K /\ d \in [DOMAIN d -> Entry]
      /\ \A j \in DOMAIN d : d[j].hits \in Hits
  BY TableIs DEF Table, IsDict
<1>2. CASE Live(HitsOf(d, k)) = <<>>
  <2>1. FreshHits(d, k) = [x \in DOMAIN d \ {k} |-> d[x]]
    BY <1>2 DEF FreshHits, Pop, Restrict
  <2>2. PICK e : e = FreshHits(d, k)
    OBVIOUS
  <2>3. /\ DOMAIN e = DOMAIN d \ {k} /\ e = [x \in DOMAIN d \ {k} |-> d[x]]
        /\ \A x \in DOMAIN e : e[x] = d[x]
    BY <2>1, <2>2
  <2>4. IsDict(e, K)
    BY <1>1, <2>3 DEF IsDict
  <2>5. \A j \in DOMAIN d : j \notin DOMAIN e => Live(d[j].hits) = <<>>
    BY <1>2, <2>3 DEF HitsOf
  <2>6. Trims(e, d, K)
    BY <2>3, <2>4, <2>5, TrimsIf
  <2> QED
    BY <2>2, <2>6
<1>3. CASE Live(HitsOf(d, k)) # <<>>
  <2>1. k \in DOMAIN d
    <3>1. DOMAIN <<>> = {} /\ HitsSince(<<>>, Cutoff + 1) = <<>>
      BY DEF HitsSince
    <3> QED
      BY <1>3, <3>1 DEF HitsOf, Live
  <2>2. PICK e : e = FreshHits(d, k)
    OBVIOUS
  <2>3. e = [d EXCEPT ![k].hits = Live(HitsOf(d, k))]
    BY <1>3, <2>2 DEF FreshHits
  <2>4. /\ DOMAIN e = DOMAIN d /\ \A j \in DOMAIN d : j # k => e[j] = d[j]
        /\ e[k] = [d[k] EXCEPT !.hits = Live(d[k].hits)]
        /\ e = [j \in DOMAIN d |-> e[j]]
    BY <1>1, <2>1, <2>3 DEF HitsOf
  <2>5. Live(d[k].hits) \in Hits
    BY <1>1, <2>1, LiveIs
  <2>6. d[k] \in Entry /\ e[k] \in Entry /\ e[k].by = d[k].by /\ e[k].hits = Live(d[k].hits)
    BY <1>1, <2>1, <2>4, <2>5 DEF Entry
  <2>7. IsDict(e, K)
    BY <1>1, <2>4, <2>6 DEF IsDict
  <2>8. Trims(e, d, K)
    BY <2>4, <2>6, <2>7, TrimsIf
  <2> QED
    BY <2>2, <2>8
<1> QED
  BY <1>2, <1>3

LEMMA PruneTrims ==
  ASSUME clock \in Int, NEW K, NEW d, Table(d, K)
  PROVE  Trims(PruneAll(d), d, K)
<1>1. /\ DOMAIN d \subseteq K /\ d \in [DOMAIN d -> Entry]
      /\ \A j \in DOMAIN d : d[j] \in Entry /\ d[j].hits \in Hits
  BY TableIs DEF Table, IsDict
<1> DEFINE left == {k \in DOMAIN d : Live(d[k].hits) # <<>>}
<1>2. PICK e : e = PruneAll(d)
  OBVIOUS
<1>3. /\ DOMAIN e = left /\ e = [k \in left |-> e[k]]
      /\ \A k \in left : e[k] = [d[k] EXCEPT !.hits = Live(d[k].hits)]
  BY <1>2 DEF PruneAll
<1>4. \A k \in left : e[k] \in Entry /\ e[k].by = d[k].by /\ e[k].hits = Live(d[k].hits)
  <2> SUFFICES ASSUME NEW k \in left
               PROVE  e[k] \in Entry /\ e[k].by = d[k].by /\ e[k].hits = Live(d[k].hits)
    OBVIOUS
  <2>1. Live(d[k].hits) \in Hits
    BY <1>1, LiveIs
  <2> QED
    BY <1>1, <1>3, <2>1 DEF Entry
<1>5. IsDict(e, K)
  BY <1>1, <1>3, <1>4 DEF IsDict
<1>6. Trims(e, d, K)
  BY <1>1, <1>3, <1>4, <1>5, TrimsIf
<1> QED
  BY <1>2, <1>6

\* Popping a key leaves the others' hits.
LEMMA PopIs ==
  ASSUME NEW K, NEW d, Table(d, K), NEW k
  PROVE  /\ Table(Pop(d, k), K) /\ HitsOf(Pop(d, k), k) = <<>>
         /\ \A j : j # k => HitsOf(Pop(d, k), j) = HitsOf(d, j)
<1>1. PICK e : e = Pop(d, k)
  OBVIOUS
<1>2. /\ DOMAIN e = DOMAIN d \ {k} /\ e = [x \in DOMAIN d \ {k} |-> d[x]]
      /\ \A x \in DOMAIN e : e[x] = d[x]
  BY <1>1 DEF Pop, Restrict
<1>3. /\ DOMAIN d \subseteq K /\ d \in [DOMAIN d -> Entry]
      /\ \A j \in DOMAIN d : InOrder(d[j].hits)
  BY TableIs DEF Table, IsDict
<1>4. IsDict(e, K)
  BY <1>2, <1>3 DEF IsDict
<1>5. Table(e, K)
  BY <1>2, <1>3, <1>4, SubTable
<1> QED
  BY <1>1, <1>2, <1>5 DEF HitsOf

-----------------------------------------------------------------------------
\* A full table keeps at most MaxKeys - 1 keys, the newest, when a new one comes.
LEMMA RoomIs ==
  ASSUME NEW K, NEW d, Table(d, K), NEW k \in K, k \notin DOMAIN d
  PROVE  /\ Table(Room(d, k), K) /\ DOMAIN Room(d, k) \subseteq DOMAIN d
         /\ \A j \in DOMAIN Room(d, k) : Room(d, k)[j] = d[j]
         /\ Cardinality(DOMAIN Room(d, k)) < MaxKeys
<1>1. /\ IsFiniteSet(DOMAIN d) /\ DOMAIN d \subseteq K /\ d \in [DOMAIN d -> Entry]
      /\ \A j \in DOMAIN d : InOrder(d[j].hits) /\ d[j].by \in Nat
      /\ MaxKeys \in Nat \ {0} /\ Cardinality(DOMAIN d) \in Nat
      /\ \A i, j \in DOMAIN d : d[i].by = d[j].by => i = j
  BY TableIs, AttemptsFinite, FS_CardinalityType DEF Table, IsDict, ByOnce
<1>2. CASE Cardinality(DOMAIN d) < MaxKeys
  <2>1. Room(d, k) = d
    BY <1>2 DEF Room
  <2> QED
    BY <1>2, <2>1
<1>3. CASE ~(Cardinality(DOMAIN d) < MaxKeys)
  <2> DEFINE kept == {j \in DOMAIN d : Cardinality(Newer(d, j)) < MaxKeys - 1}
  <2>1. PICK e : e = Room(d, k)
    OBVIOUS
  <2>2. e = [x \in kept |-> d[x]]
    BY <1>3, <2>1 DEF Room, Restrict
  <2>3. DOMAIN e = kept /\ DOMAIN e \subseteq DOMAIN d /\ \A j \in DOMAIN e : e[j] = d[j]
    BY <2>2
  <2>4. IsDict(e, K)
    BY <1>1, <2>2, <2>3 DEF IsDict
  <2>5. Table(e, K)
    BY <1>1, <2>3, <2>4, SubTable
  <2>6. IsFiniteSet(kept) /\ Cardinality(kept) \in Nat
    BY <1>1, FS_Subset, FS_CardinalityType
  <2>7. Cardinality(kept) < MaxKeys
    <3>1. CASE kept = {}
      <4>1. Cardinality(kept) = 0
        BY <3>1, FS_EmptySet
      <4> HIDE DEF kept
      <4> QED
        BY <1>1, <4>1
    <3>2. CASE kept # {}
      <4> DEFINE bys == {d[j].by : j \in kept}
      <4>1. bys \subseteq Nat /\ bys # {}
        BY <1>1, <3>2
      <4>2. PICK m \in bys : \A b \in bys : m <= b
        <5> HIDE DEF bys
        <5> QED
          BY <4>1, LeastNumber
      <4>3. PICK oldest \in kept : d[oldest].by = m
        BY <4>2
      <4>4. \A j \in kept : d[oldest].by <= d[j].by
        BY <4>2, <4>3
      <4>5. kept \ {oldest} \subseteq Newer(d, oldest)
        BY <1>1, <4>4 DEF Newer
      <4>6. /\ IsFiniteSet(Newer(d, oldest)) /\ Cardinality(Newer(d, oldest)) \in Nat
            /\ Newer(d, oldest) \in SUBSET DOMAIN d
        BY <1>1, FS_Subset, FS_CardinalityType DEF Newer
      <4>7. Cardinality(kept \ {oldest}) <= Cardinality(Newer(d, oldest))
        BY <4>5, <4>6, FS_Subset
      <4>8. Cardinality(kept \ {oldest}) = Cardinality(kept) - 1
        BY <2>6, <4>3, FS_RemoveElement
      <4>9. Cardinality(Newer(d, oldest)) < MaxKeys - 1
        BY <4>3
      <4> HIDE DEF kept
      <4> QED
        BY <1>1, <2>6, <4>6, <4>7, <4>8, <4>9
    <3> QED
      BY <3>1, <3>2
  <2> HIDE DEF kept
  <2> QED
    BY <2>1, <2>3, <2>5, <2>7
<1> QED
  BY <1>2, <1>3

\* A hit is added to the table of key k by attempt r, which was new and is not now.
LEMMA AddHitIs ==
  ASSUME clock \in Nat, clock' = clock, NEW K, NEW d, Table(d, K), NEW k \in K,
         NEW r \in Attempt, attempt[r] = New, attempt'[r] # New,
         \A q \in Attempt : attempt[q] # New => attempt'[q] # New
  PROVE  /\ IsDict(AddHit(d, k, r), K) /\ Cardinality(DOMAIN AddHit(d, k, r)) <= MaxKeys
         /\ \A j \in DOMAIN AddHit(d, k, r) :
              /\ InOrder(AddHit(d, k, r)[j].hits)
              /\ attempt'[AddHit(d, k, r)[j].by] # New
              /\ \A i \in DOMAIN AddHit(d, k, r) :
                   AddHit(d, k, r)[i].by = AddHit(d, k, r)[j].by => i = j
         /\ HitsOf(AddHit(d, k, r), k) = Append(HitsOf(d, k), clock)
         /\ \A j \in K : j # k => HitsOf(AddHit(d, k, r), j)
                                    = IF j \in Evicted(d, k) THEN <<>> ELSE HitsOf(d, j)
<1>1. /\ d \in [DOMAIN d -> Entry] /\ DOMAIN d \subseteq K /\ Cardinality(DOMAIN d) <= MaxKeys
      /\ \A j \in DOMAIN d : /\ d[j] \in Entry /\ d[j].hits \in Hits /\ d[j].by \in Attempt
                             /\ InOrder(d[j].hits) /\ attempt[d[j].by] # New
                             /\ \A i \in DOMAIN d : d[i].by = d[j].by => i = j
  BY TableIs DEF Table, IsDict, ByOnce
<1>2. PICK e : e = AddHit(d, k, r)
  OBVIOUS
<1>3. CASE k \in DOMAIN d
  <2>1. e = [d EXCEPT ![k].hits = Append(d[k].hits, clock)]
    BY <1>2, <1>3 DEF AddHit
  <2>2. /\ DOMAIN e = DOMAIN d /\ e = [j \in DOMAIN d |-> e[j]]
        /\ \A j \in DOMAIN d : j # k => e[j] = d[j]
        /\ e[k] = [d[k] EXCEPT !.hits = Append(d[k].hits, clock)]
    BY <1>1, <1>3, <2>1
  <2>3. Append(d[k].hits, clock) \in Hits /\ InOrder(Append(d[k].hits, clock))
    BY <1>1, <1>3, AppendIs
  <2>4. /\ e[k] \in Entry /\ e[k].by = d[k].by /\ e[k].hits = Append(d[k].hits, clock)
    BY <1>1, <1>3, <2>2, <2>3 DEF Entry
  <2>5. IsDict(e, K)
    BY <1>1, <2>2, <2>4 DEF IsDict
  <2>6. \A j \in DOMAIN e : /\ InOrder(e[j].hits) /\ attempt'[e[j].by] # New
                            /\ \A i \in DOMAIN e : e[i].by = e[j].by => i = j
    <3>1. \A j \in DOMAIN e : j \in DOMAIN d /\ e[j].by = d[j].by /\ InOrder(e[j].hits)
      BY <1>1, <2>2, <2>3, <2>4
    <3>2. \A j \in DOMAIN e : attempt'[e[j].by] # New
      BY <1>1, <3>1
    <3>3. \A j \in DOMAIN e, i \in DOMAIN e : e[i].by = e[j].by => i = j
      BY <1>1, <3>1
    <3> QED
      BY <3>1, <3>2, <3>3
  <2>7. HitsOf(e, k) = Append(HitsOf(d, k), clock) /\ Evicted(d, k) = {}
    BY <1>3, <2>2, <2>4 DEF HitsOf, Evicted, Room
  <2>8. \A j \in K : j # k => HitsOf(e, j) = HitsOf(d, j)
    BY <2>2 DEF HitsOf
  <2> QED
    BY <1>1, <1>2, <2>2, <2>5, <2>6, <2>7, <2>8
<1>4. CASE k \notin DOMAIN d
  <2>1. PICK rest : rest = Room(d, k)
    OBVIOUS
  <2>2. /\ Table(rest, K) /\ DOMAIN rest \subseteq DOMAIN d /\ Cardinality(DOMAIN rest) < MaxKeys
        /\ \A j \in DOMAIN rest : rest[j] = d[j]
    BY <1>4, <2>1, RoomIs
  <2>3. PICK entry : entry = [hits |-> <<clock>>, by |-> r]
    OBVIOUS
  <2>4. e = [j \in DOMAIN rest \cup {k} |-> IF j = k THEN entry ELSE rest[j]]
    BY <1>2, <1>4, <2>1, <2>3 DEF AddHit, Insert
  <2>5. /\ DOMAIN e = DOMAIN rest \cup {k} /\ e[k] = entry
        /\ \A j \in DOMAIN rest : j # k /\ e[j] = d[j]
        /\ e = [j \in DOMAIN e |-> e[j]]
    BY <1>4, <2>2, <2>4
  <2>6. <<clock>> \in Hits /\ <<clock>> = Append(<<>>, clock) /\ InOrder(<<clock>>)
    <3>1. <<>> \in Hits /\ InOrder(<<>>)
      BY EmptySeq DEF Hits, InOrder
    <3>2. <<clock>> = Append(<<>>, clock)
      OBVIOUS
    <3> QED
      BY <3>1, <3>2, AppendIs
  <2>7. entry \in Entry /\ entry.by = r /\ entry.hits = <<clock>>
    BY <2>3, <2>6 DEF Entry
  <2>8. IsDict(e, K)
    BY <1>1, <2>2, <2>5, <2>7 DEF IsDict
  <2>9. \A j \in DOMAIN e : /\ InOrder(e[j].hits) /\ attempt'[e[j].by] # New
                            /\ \A i \in DOMAIN e : e[i].by = e[j].by => i = j
    <3>1. \A j \in DOMAIN rest : d[j].by # r /\ attempt'[d[j].by] # New
      BY <1>1, <2>2
    <3> QED
      BY <1>1, <2>2, <2>5, <2>6, <2>7, <3>1
  <2>10. Cardinality(DOMAIN e) <= MaxKeys
    <3>1. PICK keys : keys = DOMAIN rest
      OBVIOUS
    <3>2. IsFiniteSet(keys) /\ Cardinality(keys) \in Nat /\ Cardinality(keys) < MaxKeys
      BY <2>2, <3>1, TableIs, FS_CardinalityType
    <3>3. /\ Cardinality(keys \cup {k}) = IF k \in keys THEN Cardinality(keys)
                                                         ELSE Cardinality(keys) + 1
      BY <3>2, FS_AddElement
    <3> QED
      BY <2>5, <3>1, <3>2, <3>3, AttemptsFinite
  <2>11. HitsOf(e, k) = Append(HitsOf(d, k), clock)
    BY <1>4, <2>5, <2>6, <2>7 DEF HitsOf
  <2>12. \A j \in K : j # k => HitsOf(e, j) = IF j \in Evicted(d, k) THEN <<>> ELSE HitsOf(d, j)
    <3>1. Evicted(d, k) = DOMAIN d \ DOMAIN rest
      BY <2>1 DEF Evicted
    <3> QED
      BY <2>2, <2>5, <3>1 DEF HitsOf
  <2> QED
    BY <1>2, <2>8, <2>9, <2>10, <2>11, <2>12
<1> QED
  BY <1>3, <1>4
-----------------------------------------------------------------------------
(***************************************************************************)
(* Counts.  a and b are the attempts before and after a step.                *)
(***************************************************************************)
LEMMA Fewer ==
  ASSUME NEW A \in SUBSET Attempt, NEW B \in SUBSET A
  PROVE  /\ Cardinality(A) \in Nat /\ Cardinality(B) \in Nat
         /\ Cardinality(B) <= Cardinality(A)
  BY AttemptsFinite, FS_Subset, FS_CardinalityType

LEMMA OneMore ==
  ASSUME NEW A \in SUBSET Attempt, NEW r \in Attempt, NEW B \in SUBSET (A \cup {r})
  PROVE  /\ Cardinality(A) \in Nat /\ Cardinality(B) \in Nat
         /\ Cardinality(B) <= Cardinality(A) + 1
<1>1. /\ IsFiniteSet(A) /\ IsFiniteSet(A \cup {r})
      /\ Cardinality(A) \in Nat /\ Cardinality(A \cup {r}) \in Nat
  BY AttemptsFinite, FS_Subset, FS_CardinalityType, FS_AddElement
<1>2. Cardinality(A \cup {r}) <= Cardinality(A) + 1
  BY <1>1, FS_AddElement
<1>3. Cardinality(B) \in Nat /\ Cardinality(B) <= Cardinality(A \cup {r})
  BY <1>1, FS_Subset, FS_CardinalityType
<1> QED
  BY <1>1, <1>2, <1>3

LEMMA OneLess ==
  ASSUME NEW A \in SUBSET Attempt, NEW r \in A, NEW B \in SUBSET (A \ {r})
  PROVE  /\ Cardinality(A) \in Nat /\ Cardinality(B) \in Nat
         /\ Cardinality(B) <= Cardinality(A) - 1
<1>1. /\ IsFiniteSet(A) /\ IsFiniteSet(A \ {r})
      /\ Cardinality(A) \in Nat /\ Cardinality(A \ {r}) = Cardinality(A) - 1
  BY AttemptsFinite, FS_Subset, FS_CardinalityType, FS_RemoveElement
<1>2. Cardinality(B) \in Nat /\ Cardinality(B) <= Cardinality(A \ {r})
  BY <1>1, FS_Subset, FS_CardinalityType
<1> QED
  BY <1>1, <1>2

LEMMA CountTypes ==
  \A a, op, k, n, e, s :
    /\ Hitting(a, op, n, e, s) \in SUBSET Attempt
    /\ Trying(a, n, s) \in SUBSET Attempt /\ Freed(a, n, s) \in SUBSET Attempt
    /\ Paid(a, k, s) \in SUBSET Attempt /\ Lost(a, k, s) \in SUBSET Attempt
    /\ Cardinality(Hitting(a, op, n, e, s)) \in Nat
    /\ Cardinality(Trying(a, n, s)) \in Nat /\ Cardinality(Freed(a, n, s)) \in Nat
<1>1. \A a, op, k, n, e, s :
        /\ Hitting(a, op, n, e, s) \in SUBSET Attempt
        /\ Trying(a, n, s) \in SUBSET Attempt /\ Freed(a, n, s) \in SUBSET Attempt
        /\ Paid(a, k, s) \in SUBSET Attempt /\ Lost(a, k, s) \in SUBSET Attempt
  BY DEF Hitting, Trying, Freed, Paid, Lost
<1>2. \A A : A \in SUBSET Attempt => Cardinality(A) \in Nat
  BY Fewer
<1> QED
  <2> TAKE a, op, k, n, e, s
  <2>1. Cardinality(Hitting(a, op, n, e, s)) \in Nat
    BY <1>1, <1>2, Zenon
  <2>2. Cardinality(Trying(a, n, s)) \in Nat /\ Cardinality(Freed(a, n, s)) \in Nat
    BY <1>1, <1>2, Zenon
  <2> QED
    BY <1>1, <2>1, <2>2, Zenon

\* A window that starts after now holds none.
Ages(a) == \A r \in Attempt : a[r].at \in Nat /\ a[r].at <= clock /\ a[r].end \in Nat /\ a[r].end <= clock

LEMMA NoneYet ==
  ASSUME clock \in Nat, NEW a, Ages(a), NEW s \in Int, s > clock
  PROVE  \A op, k, n, e :
           /\ Cardinality(Hitting(a, op, n, e, s)) = 0
           /\ Cardinality(Trying(a, n, s)) = 0
           /\ Paid(a, k, s) = {}
<1>1. \A op, k, n, e : Hitting(a, op, n, e, s) = {} /\ Trying(a, n, s) = {} /\ Paid(a, k, s) = {}
  BY DEF Hitting, Trying, Paid, Ages
<1> QED
  BY <1>1, FS_EmptySet

\* q is p, but may have lost its place in the count, or its hit with its network's.
Loses(p, q) ==
  /\ q.op = p.op /\ q.pc = p.pc /\ q.net = p.net /\ q.email = p.email
  /\ q.cost = p.cost /\ q.at = p.at /\ q.end = p.end
  /\ q.counted => p.counted
  /\ q.netHit = p.netHit \/ (q.netHit = "none" /\ p.pc # "done")

\* The step leaves the attempts of ops where they were.
Stays(a, b, ops) ==
  \A q \in Attempt : Loses(a[q], b[q]) \/ (a[q].op \notin ops /\ b[q].op \notin ops)

LEMMA HittingStays ==
  ASSUME NEW a, NEW b, NEW op, Stays(a, b, {op})
  PROVE  \A n, e, s : Cardinality(Hitting(b, op, n, e, s)) <= Cardinality(Hitting(a, op, n, e, s))
<1>1. \A n, e, s : Hitting(b, op, n, e, s) \in SUBSET Hitting(a, op, n, e, s)
  BY DEF Stays, Loses, Hitting
<1> QED
  BY <1>1, CountTypes, Fewer

LEMMA TryingStays ==
  ASSUME NEW a, NEW b, Stays(a, b, {"login"})
  PROVE  \A n, s : Trying(b, n, s) \in SUBSET Trying(a, n, s) /\ Freed(b, n, s) = Freed(a, n, s)
  BY DEF Stays, Loses, Trying, Freed, Guessing

LEMMA BillStays ==
  ASSUME NEW a, NEW b, NEW k, Stays(a, b, OpsOf(k))
  PROVE  \A s : /\ Paid(b, k, s) = Paid(a, k, s) /\ Lost(b, k, s) = Lost(a, k, s)
                /\ Total(CostIn(b), Paid(b, k, s)) = Total(CostIn(a), Paid(a, k, s))
                /\ Total(CostIn(b), Lost(b, k, s)) = Total(CostIn(a), Lost(a, k, s))
<1> SUFFICES ASSUME NEW s
             PROVE  /\ Paid(b, k, s) = Paid(a, k, s) /\ Lost(b, k, s) = Lost(a, k, s)
                    /\ Total(CostIn(b), Paid(b, k, s)) = Total(CostIn(a), Paid(a, k, s))
                    /\ Total(CostIn(b), Lost(b, k, s)) = Total(CostIn(a), Lost(a, k, s))
  OBVIOUS
<1>1. Paid(b, k, s) = Paid(a, k, s) /\ Lost(b, k, s) = Lost(a, k, s)
  BY DEF Stays, Loses, Paid, Lost
<1>2. \A q \in Paid(a, k, s) \cup Lost(a, k, s) : CostIn(b)[q] = CostIn(a)[q]
  BY DEF Stays, Loses, Paid, Lost, CostIn
<1>3. IsFiniteSet(Paid(a, k, s)) /\ IsFiniteSet(Lost(a, k, s))
  BY CountTypes, AttemptsFinite, FS_Subset
<1>4. /\ Total(CostIn(b), Paid(a, k, s)) = Total(CostIn(a), Paid(a, k, s))
      /\ Total(CostIn(b), Lost(a, k, s)) = Total(CostIn(a), Lost(a, k, s))
  BY <1>2, <1>3, TotalSame
<1> QED
  BY <1>1, <1>4

LEMMA BillType ==
  ASSUME NEW a \in [Attempt -> AttemptState], NEW k, NEW s
  PROVE  Total(CostIn(a), Paid(a, k, s)) \in Nat /\ Total(CostIn(a), Lost(a, k, s)) \in Nat
<1>1. IsFiniteSet(Paid(a, k, s)) /\ IsFiniteSet(Lost(a, k, s))
  BY CountTypes, AttemptsFinite, FS_Subset
<1>2. \A q \in Paid(a, k, s) \cup Lost(a, k, s) : CostIn(a)[q] \in Nat
  BY CountTypes DEF CostIn, AttemptState
<1> QED
  BY <1>1, <1>2, TotalType
-----------------------------------------------------------------------------
(***************************************************************************)
(* What a step leaves alone stays covered: the table is the same, and so are *)
(* the attempts that count in it; time may pass.                             *)
(***************************************************************************)
Onward == clock \in Nat /\ (clock' = clock \/ clock' = clock + 1)

LEMMA LaterWindows ==
  ASSUME Onward
  PROVE  \A s \in Int : (s > Cutoff' => s > Cutoff) /\ (s >= Cutoff' => s >= Cutoff)
<1>1. clock \in Int /\ Window \in Int
  BY AttemptsFinite DEF Onward
<1>2. CASE clock' = clock
  BY <1>1, <1>2 DEF Cutoff
<1>3. CASE clock' = clock + 1
  BY <1>1, <1>3 DEF Cutoff
<1> QED
  BY <1>2, <1>3 DEF Onward

LEMMA LoginsFrame ==
  ASSUME Onward, Table(loginFailures, Key), LoginsCovered, loginFailures' = loginFailures,
         Stays(attempt, attempt', {"login"})
  PROVE  LoginsCovered'
<1> SUFFICES ASSUME NEW k \in Key
             PROVE  /\ Len(HitsOf(loginFailures, k)) <= LoginLimit
                    /\ \A s \in Int : s > Cutoff' =>
                         Covers(HitsOf(loginFailures, k),
                                Cardinality(Hitting(attempt', "login", k[1], k[2], s)), s)
  BY DEF LoginsCovered
<1>1. HitsOf(loginFailures, k) \in Hits
  BY TableIs
<1>2. ASSUME NEW s \in Int, s > Cutoff'
      PROVE  Covers(HitsOf(loginFailures, k),
                    Cardinality(Hitting(attempt', "login", k[1], k[2], s)), s)
  <2>1. Covers(HitsOf(loginFailures, k), Cardinality(Hitting(attempt, "login", k[1], k[2], s)), s)
    BY <1>2, LaterWindows DEF LoginsCovered
  <2>2. Cardinality(Hitting(attempt', "login", k[1], k[2], s))
          <= Cardinality(Hitting(attempt, "login", k[1], k[2], s))
    BY HittingStays
  <2>3. /\ Cardinality(Hitting(attempt', "login", k[1], k[2], s)) \in Nat
        /\ Cardinality(Hitting(attempt, "login", k[1], k[2], s)) \in Nat
    BY CountTypes, Zenon
  <2> QED
    BY <1>1, <2>1, <2>2, <2>3, CoversLess
<1> QED
  BY <1>2 DEF LoginsCovered

LEMMA NetsFrame ==
  ASSUME Onward, Table(loginNetHits, Net), NetsCovered, loginNetHits' = loginNetHits,
         Stays(attempt, attempt', {"login"})
  PROVE  NetsCovered'
<1> SUFFICES ASSUME NEW n \in Net
             PROVE  /\ Len(HitsOf(loginNetHits, n)) <= NetLimit
                    /\ \A s \in Int : s > Cutoff' =>
                         Covers(HitsOf(loginNetHits, n),
                                Cardinality(Trying(attempt', n, s))
                                  - Cardinality(Freed(attempt', n, s)), s)
  BY DEF NetsCovered
<1>1. ASSUME NEW s \in Int, s > Cutoff'
      PROVE  Covers(HitsOf(loginNetHits, n), Cardinality(Trying(attempt', n, s))
                                               - Cardinality(Freed(attempt', n, s)), s)
  <2>1. /\ s > Cutoff
        /\ Trying(attempt', n, s) \in SUBSET Trying(attempt, n, s)
        /\ Freed(attempt', n, s) = Freed(attempt, n, s)
    BY <1>1, TryingStays, LaterWindows
  <2>2. Trying(attempt, n, s) \in SUBSET Attempt
    BY CountTypes, Zenon
  <2>3. Cardinality(Trying(attempt', n, s)) <= Cardinality(Trying(attempt, n, s))
    BY <2>1, <2>2, Fewer
  <2>4. PICK t, tt, g \in Nat : /\ t = Cardinality(Trying(attempt, n, s))
                                /\ tt = Cardinality(Trying(attempt', n, s))
                                /\ g = Cardinality(Freed(attempt, n, s))
    <3>1. /\ Cardinality(Trying(attempt, n, s)) \in Nat /\ Cardinality(Trying(attempt', n, s)) \in Nat
          /\ Cardinality(Freed(attempt, n, s)) \in Nat
      BY CountTypes, Zenon
    <3> QED
      BY <3>1
  <2>5. Covers(HitsOf(loginNetHits, n), t - g, s)
    BY <2>1, <2>4 DEF NetsCovered
  <2>6. t - g \in Int /\ tt - g \in Int /\ tt - g <= t - g /\ HitsOf(loginNetHits, n) \in Hits
    BY <2>3, <2>4, TableIs
  <2>7. Covers(HitsOf(loginNetHits, n), tt - g, s)
    BY <1>1, <2>5, <2>6, CoversLess
  <2> QED
    BY <2>1, <2>4, <2>7
<1> QED
  BY <1>1 DEF NetsCovered

LEMMA FormsFrame ==
  ASSUME Onward, formRate \in [Net -> Hits], FormsCovered, formRate' = formRate,
         Stays(attempt, attempt', {"form"})
  PROVE  FormsCovered'
<1> SUFFICES ASSUME NEW n \in Net
             PROVE  /\ Len(formRate[n]) <= FormLimit
                    /\ \A s \in Int : s >= Cutoff' =>
                         Covers(formRate[n], Cardinality(Hitting(attempt', "form", n, Nobody, s)), s)
  BY DEF FormsCovered
<1>1. ASSUME NEW s \in Int, s >= Cutoff'
      PROVE  Covers(formRate[n], Cardinality(Hitting(attempt', "form", n, Nobody, s)), s)
  <2>1. Covers(formRate[n], Cardinality(Hitting(attempt, "form", n, Nobody, s)), s)
    BY <1>1, LaterWindows DEF FormsCovered
  <2>2. Cardinality(Hitting(attempt', "form", n, Nobody, s))
          <= Cardinality(Hitting(attempt, "form", n, Nobody, s))
    BY HittingStays
  <2>3. /\ Cardinality(Hitting(attempt', "form", n, Nobody, s)) \in Nat
        /\ Cardinality(Hitting(attempt, "form", n, Nobody, s)) \in Nat
    BY CountTypes, Zenon
  <2> QED
    BY <2>1, <2>2, <2>3, CoversLess
<1> QED
  BY <1>1 DEF FormsCovered

LEMMA AnonFrame ==
  ASSUME Onward, Table(anonHits, Net), AnonCovered, anonHits' = anonHits,
         Stays(attempt, attempt', {"anon"})
  PROVE  AnonCovered'
<1> SUFFICES ASSUME NEW n \in Net
             PROVE  /\ Len(HitsOf(anonHits, n)) <= AnonLimit
                    /\ \A s \in Int : s > Cutoff' =>
                         Covers(HitsOf(anonHits, n),
                                Cardinality(Hitting(attempt', "anon", n, Nobody, s)), s)
  BY DEF AnonCovered
<1>1. HitsOf(anonHits, n) \in Hits
  BY TableIs
<1>2. ASSUME NEW s \in Int, s > Cutoff'
      PROVE  Covers(HitsOf(anonHits, n), Cardinality(Hitting(attempt', "anon", n, Nobody, s)), s)
  <2>1. Covers(HitsOf(anonHits, n), Cardinality(Hitting(attempt, "anon", n, Nobody, s)), s)
    BY <1>2, LaterWindows DEF AnonCovered
  <2>2. Cardinality(Hitting(attempt', "anon", n, Nobody, s))
          <= Cardinality(Hitting(attempt, "anon", n, Nobody, s))
    BY HittingStays
  <2>3. /\ Cardinality(Hitting(attempt', "anon", n, Nobody, s)) \in Nat
        /\ Cardinality(Hitting(attempt, "anon", n, Nobody, s)) \in Nat
    BY CountTypes, Zenon
  <2> QED
    BY <1>1, <2>1, <2>2, <2>3, CoversLess
<1> QED
  BY <1>2 DEF AnonCovered

\* Of one log: that of the renders or that of the mails.
LogCovered(k) ==
  /\ Len(log[k]) <= HourLimit[k]
  /\ \A s \in Int : s >= Cutoff =>
       Covers(log[k], Total(CostIn(attempt), Paid(attempt, k, s))
                        - Total(CostIn(attempt), Lost(attempt, k, s)), s)

LEMMA LogsSplit ==
  /\ LogsCovered <=> \A k \in {"pdf", "mail"} : LogCovered(k)
  /\ LogsCovered' <=> \A k \in {"pdf", "mail"} : LogCovered(k)'
  BY DEF LogsCovered, LogCovered

LEMMA LogFrame ==
  ASSUME Onward, NEW k \in {"pdf", "mail"}, LogCovered(k), log'[k] = log[k],
         Stays(attempt, attempt', OpsOf(k))
  PROVE  LogCovered(k)'
<1> SUFFICES /\ Len(log[k]) <= HourLimit[k]
             /\ \A s \in Int : s >= Cutoff' =>
                  Covers(log[k], Total(CostIn(attempt'), Paid(attempt', k, s))
                                   - Total(CostIn(attempt'), Lost(attempt', k, s)), s)
  BY DEF LogCovered
<1>1. \A s \in Int : s >= Cutoff' =>
        Covers(log[k], Total(CostIn(attempt'), Paid(attempt', k, s))
                         - Total(CostIn(attempt'), Lost(attempt', k, s)), s)
  BY LaterWindows, BillStays DEF LogCovered
<1> QED
  BY <1>1 DEF LogCovered
-----------------------------------------------------------------------------
(***************************************************************************)
(* Steps.  A step moves one attempt, of one kind of operation, to q; others   *)
(* of the kind may lose their place in the count.                            *)
(***************************************************************************)
Moves(r, q, ops) ==
  /\ clock' = clock
  /\ attempt' \in [Attempt -> AttemptState] /\ attempt'[r] = q
  /\ SoundAttempt(q) /\ q # New
  /\ \A s \in Attempt \ {r} :
       attempt'[s] = attempt[s] \/ (attempt[s].op \in ops /\ Loses(attempt[s], attempt'[s]))
  /\ ops \subseteq AttemptOps \ {"none"}
  /\ attempt[r].op \in ops \cup {"none"} /\ q.op \in ops

LEMMA LimitTypesAre ==
  ASSUME LimitTypes, Attempts
  PROVE  /\ clock \in Nat /\ clock \in Int /\ attempt \in [Attempt -> AttemptState]
         /\ Ages(attempt)
<1>1. MaxClock \in Nat
  BY LimitAssumption
<1> QED
  BY <1>1 DEF LimitTypes, Attempts, SoundAttempt, AttemptState, Ages

LEMMA MovesIs ==
  ASSUME LimitTypes, Attempts, NEW r \in Attempt, NEW q, NEW ops, Moves(r, q, ops)
  PROVE  /\ Onward /\ Attempts'
         /\ \A s \in Attempt : attempt[s] # New => attempt'[s] # New
         /\ \A s \in Attempt \ {r} : Loses(attempt[s], attempt'[s])
         /\ \A o : o \cap (ops \cup {"none"}) = {} => Stays(attempt, attempt', o)
<1>1. \A s \in Attempt \ {r} : Loses(attempt[s], attempt'[s])
  BY DEF Moves, Loses
<1>2. ASSUME NEW s \in Attempt PROVE SoundAttempt(attempt'[s])
  <2>1. CASE s = r
    BY <2>1 DEF Moves
  <2>2. CASE s # r /\ attempt'[s] = attempt[s]
    BY <2>2 DEF Attempts
  <2>3. CASE s # r /\ attempt[s].op \in ops /\ Loses(attempt[s], attempt'[s])
    <3>1. attempt[s].op # "none" /\ SoundAttempt(attempt[s])
      BY <2>3 DEF Moves, Attempts
    <3>2. attempt[s].pc # "new" /\ attempt'[s].pc = attempt[s].pc /\ attempt'[s].op = attempt[s].op
      BY <2>3, <3>1 DEF Loses, SoundAttempt, New
    <3>3. attempt'[s] # New
      BY <3>2 DEF New
    <3> QED
      BY <2>3, <3>1, <3>2, <3>3 DEF Loses, SoundAttempt
  <2> QED
    BY <2>1, <2>2, <2>3 DEF Moves
<1>3. Attempts'
  BY <1>2 DEF Attempts, SoundAttempt, Moves
<1>4. \A s \in Attempt : attempt[s] # New => attempt'[s] # New
  <2> SUFFICES ASSUME NEW s \in Attempt, attempt[s] # New PROVE attempt'[s] # New
    OBVIOUS
  <2>1. CASE s = r
    BY <2>1 DEF Moves
  <2>2. CASE s # r
    <3>1. attempt[s].pc # "new" /\ attempt'[s].pc = attempt[s].pc
      BY <1>1, <2>2 DEF Attempts, SoundAttempt, Loses
    <3> QED
      BY <3>1 DEF New
  <2> QED
    BY <2>1, <2>2
<1>5. \A o : o \cap (ops \cup {"none"}) = {} => Stays(attempt, attempt', o)
  <2> SUFFICES ASSUME NEW o, o \cap (ops \cup {"none"}) = {}, NEW s \in Attempt
               PROVE  \/ Loses(attempt[s], attempt'[s])
                      \/ attempt[s].op \notin o /\ attempt'[s].op \notin o
    BY DEF Stays
  <2> QED
    BY <1>1 DEF Moves
<1>6. Onward
  BY LimitTypesAre DEF Onward, Moves
<1> QED
  BY <1>1, <1>3, <1>4, <1>5, <1>6

\* A step that moves no render and leaves the slots.
LEMMA SlotsFrame ==
  ASSUME Attempts, Attempts', SlotsReturned, slots' = slots, Stays(attempt, attempt', Renders)
  PROVE  SlotsReturned'
<1>1. {r \in Attempt : attempt'[r].pc = "rendering"} = {r \in Attempt : attempt[r].pc = "rendering"}
  <2> SUFFICES ASSUME NEW r \in Attempt
               PROVE  attempt'[r].pc = "rendering" <=> attempt[r].pc = "rendering"
    OBVIOUS
  <2>1. /\ attempt'[r].pc = "rendering" => attempt'[r].op \in Renders
        /\ attempt[r].pc = "rendering" => attempt[r].op \in Renders
    BY DEF Attempts, SoundAttempt
  <2> QED
    BY <2>1 DEF Stays, Loses
<1> QED
  BY <1>1 DEF SlotsReturned

LEMMA Forgets ==
  ASSUME NEW a \in [Attempt -> AttemptState], NEW op, NEW K, NEW r \in Attempt, NEW q \in AttemptState
  PROVE  LET b == [Forget(a, op, K) EXCEPT ![r] = q] IN
         /\ b \in [Attempt -> AttemptState] /\ b[r] = q
         /\ \A s \in Attempt \ {r} :
              /\ b[s] = a[s] \/ (a[s].op = op /\ Loses(a[s], b[s]))
              /\ a[s].op = op /\ <<a[s].net, a[s].email>> \in K => ~b[s].counted
<1>1. PICK f : f = Forget(a, op, K)
  OBVIOUS
<1>2. ASSUME NEW s \in Attempt
      PROVE  /\ f[s] \in AttemptState
             /\ f[s] = a[s] \/ (a[s].op = op /\ Loses(a[s], f[s]))
             /\ a[s].op = op /\ <<a[s].net, a[s].email>> \in K => ~f[s].counted
  <2>1. f[s] = IF a[s].op = op /\ <<a[s].net, a[s].email>> \in K
               THEN [a[s] EXCEPT !.counted = FALSE] ELSE a[s]
    BY <1>1 DEF Forget
  <2>2. a[s] \in AttemptState
    OBVIOUS
  <2>3. CASE a[s].op = op /\ <<a[s].net, a[s].email>> \in K
    <3>1. f[s] = [a[s] EXCEPT !.counted = FALSE]
      BY <2>1, <2>3
    <3> QED
      BY <2>2, <2>3, <3>1 DEF AttemptState, Loses
  <2>4. CASE ~(a[s].op = op /\ <<a[s].net, a[s].email>> \in K)
    BY <2>1, <2>2, <2>4
  <2> QED
    BY <2>3, <2>4
<1>3. f = [s \in Attempt |-> f[s]]
  BY <1>1 DEF Forget
<1>4. [f EXCEPT ![r] = q] \in [Attempt -> AttemptState]
  BY <1>2, <1>3
<1> QED
  BY <1>1, <1>2, <1>3, <1>4

\* The same when the networks in N lose their hits too.
LEMMA ForgetsNets ==
  ASSUME NEW a \in [Attempt -> AttemptState], NEW K, NEW N, NEW r \in Attempt, NEW q \in AttemptState
  PROVE  LET b == [ForgetNets(Forget(a, "login", K), N) EXCEPT ![r] = q] IN
         /\ b \in [Attempt -> AttemptState] /\ b[r] = q
         /\ \A s \in Attempt \ {r} :
              /\ b[s] = a[s] \/ (a[s].op = "login" /\ Loses(a[s], b[s]))
              /\ a[s].op = "login" /\ <<a[s].net, a[s].email>> \in K => ~b[s].counted
              /\ Guessing(a[s]) /\ a[s].net \in N => b[s].netHit = "none"
<1>1. PICK f : f = Forget(a, "login", K)
  OBVIOUS
<1>2. PICK g : g = ForgetNets(f, N)
  OBVIOUS
<1>3. ASSUME NEW s \in Attempt
      PROVE  /\ f[s] \in AttemptState
             /\ f[s] = a[s] \/ (a[s].op = "login" /\ Loses(a[s], f[s]))
             /\ a[s].op = "login" /\ <<a[s].net, a[s].email>> \in K => ~f[s].counted
             /\ Guessing(f[s]) <=> Guessing(a[s])
             /\ f[s].net = a[s].net
  <2>1. f[s] = IF a[s].op = "login" /\ <<a[s].net, a[s].email>> \in K
               THEN [a[s] EXCEPT !.counted = FALSE] ELSE a[s]
    BY <1>1 DEF Forget
  <2>2. a[s] \in AttemptState
    OBVIOUS
  <2>3. CASE a[s].op = "login" /\ <<a[s].net, a[s].email>> \in K
    <3>1. f[s] = [a[s] EXCEPT !.counted = FALSE]
      BY <2>1, <2>3
    <3> QED
      BY <2>2, <2>3, <3>1 DEF AttemptState, Loses, Guessing
  <2>4. CASE ~(a[s].op = "login" /\ <<a[s].net, a[s].email>> \in K)
    BY <2>1, <2>2, <2>4
  <2> QED
    BY <2>3, <2>4
<1>4. ASSUME NEW s \in Attempt
      PROVE  /\ g[s] \in AttemptState
             /\ g[s] = a[s] \/ (a[s].op = "login" /\ Loses(a[s], g[s]))
             /\ a[s].op = "login" /\ <<a[s].net, a[s].email>> \in K => ~g[s].counted
             /\ Guessing(a[s]) /\ a[s].net \in N => g[s].netHit = "none"
  <2>1. g[s] = IF Guessing(f[s]) /\ f[s].net \in N THEN [f[s] EXCEPT !.netHit = "none"] ELSE f[s]
    BY <1>2 DEF ForgetNets
  <2>2. f[s] \in AttemptState
    BY <1>3
  <2>3. CASE Guessing(f[s]) /\ f[s].net \in N
    <3>1. g[s] = [f[s] EXCEPT !.netHit = "none"]
      BY <2>1, <2>3
    <3>2. /\ g[s] \in AttemptState /\ g[s].netHit = "none" /\ g[s].counted = f[s].counted
          /\ g[s].op = f[s].op /\ g[s].pc = f[s].pc /\ g[s].net = f[s].net /\ g[s].email = f[s].email
          /\ g[s].cost = f[s].cost /\ g[s].at = f[s].at /\ g[s].end = f[s].end
      BY <2>2, <3>1 DEF AttemptState
    <3>3. a[s].op = "login" /\ a[s].pc # "done"
      BY <1>3, <2>3 DEF Guessing
    <3>4. Loses(a[s], g[s])
      BY <1>3, <3>2, <3>3 DEF Loses
    <3> QED
      BY <1>3, <3>2, <3>3, <3>4
  <2>4. CASE ~(Guessing(f[s]) /\ f[s].net \in N)
    BY <1>3, <2>1, <2>2, <2>4
  <2> QED
    BY <2>3, <2>4
<1>5. g = [s \in Attempt |-> g[s]]
  BY <1>2 DEF ForgetNets
<1>6. [g EXCEPT ![r] = q] \in [Attempt -> AttemptState]
  BY <1>4, <1>5
<1> QED
  BY <1>1, <1>2, <1>4, <1>5, <1>6

LEMMA ArriveIs ==
  ASSUME clock \in Nat, NEW op \in AttemptOps \ {"none"}, NEW net \in Net \cup {Nobody},
         NEW email \in Email \cup {Nobody}, NEW cost \in Nat, NEW pc \in Stages \ {"new"},
         op = "login" => net \in Net /\ email \in Email /\ pc \in {"verifying", "refused"},
         pc = "verifying" => op = "login", pc \in {"reserved", "rendering"} => op \in Renders,
         pc = "delivering" => op = "tool", pc = "sending" => op = "mail"
  PROVE  LET q == Arrive(op, net, email, cost, pc) IN
         /\ q \in AttemptState /\ SoundAttempt(q) /\ q # New
         /\ q.op = op /\ q.net = net /\ q.email = email /\ q.pc = pc /\ q.cost = cost
         /\ q.at = clock /\ q.end = 0 /\ (pc = "refused" => ~q.counted)
<1>1. PICK q : q = Arrive(op, net, email, cost, pc)
  OBVIOUS
<1>2. /\ q.op = op /\ q.net = net /\ q.email = email /\ q.pc = pc /\ q.cost = cost
      /\ q.at = clock /\ q.end = 0 /\ q.counted = (pc # "refused")
  BY <1>1 DEF Arrive
<1>3. q \in AttemptState
  BY <1>1 DEF Arrive, AttemptState
<1>4. q # New
  BY <1>2 DEF New
<1>5. SoundAttempt(q)
  BY <1>2, <1>4 DEF SoundAttempt
<1> QED
  BY <1>1, <1>2, <1>3, <1>4, <1>5
-----------------------------------------------------------------------------
(***************************************************************************)
(* Charges.  A step of one attempt changes what its kind of operation is      *)
(* billed by that attempt's cost.                                            *)
(***************************************************************************)
LEMMA Bill ==
  ASSUME NEW a \in [Attempt -> AttemptState], NEW b \in [Attempt -> AttemptState],
         NEW r \in Attempt, \A q \in Attempt \ {r} : b[q] = a[q], NEW k, NEW s
  PROVE  \E p \in Nat, l \in Nat :
           /\ Total(CostIn(a), Paid(a, k, s)) = p + (IF r \in Paid(a, k, s) THEN a[r].cost ELSE 0)
           /\ Total(CostIn(b), Paid(b, k, s)) = p + (IF r \in Paid(b, k, s) THEN b[r].cost ELSE 0)
           /\ Total(CostIn(a), Lost(a, k, s)) = l + (IF r \in Lost(a, k, s) THEN a[r].cost ELSE 0)
           /\ Total(CostIn(b), Lost(b, k, s)) = l + (IF r \in Lost(b, k, s) THEN b[r].cost ELSE 0)
<1>1. \A c \in [Attempt -> AttemptState], x \in Attempt : c[x].cost \in Nat /\ CostIn(c)[x] = c[x].cost
  BY DEF AttemptState, CostIn
<1>2. ASSUME NEW c \in [Attempt -> AttemptState], NEW S \in SUBSET Attempt
      PROVE  /\ Total(CostIn(c), S \ {r}) \in Nat
             /\ Total(CostIn(c), S) = Total(CostIn(c), S \ {r}) + (IF r \in S THEN c[r].cost ELSE 0)
  <2>1. IsFiniteSet(S) /\ IsFiniteSet(S \ {r}) /\ \A x \in S : CostIn(c)[x] \in Nat
    BY <1>1, AttemptsFinite, FS_Subset, FS_RemoveElement
  <2>2. Total(CostIn(c), S \ {r}) \in Nat
    BY <2>1, TotalType
  <2>3. CASE r \in S
    <3>1. Total(CostIn(c), S) = CostIn(c)[r] + Total(CostIn(c), S \ {r})
      BY <2>1, <2>3, TotalRemove
    <3> QED
      BY <1>1, <2>2, <2>3, <3>1
  <2>4. CASE r \notin S
    <3>1. S \ {r} = S
      BY <2>4
    <3> QED
      BY <2>2, <2>4, <3>1
  <2> QED
    BY <2>2, <2>3, <2>4
<1>3. ASSUME NEW S \in SUBSET Attempt
      PROVE  Total(CostIn(a), S \ {r}) = Total(CostIn(b), S \ {r})
  <2>1. IsFiniteSet(S \ {r}) /\ \A x \in S \ {r} : CostIn(a)[x] = CostIn(b)[x]
    BY <1>1, AttemptsFinite, FS_Subset, FS_RemoveElement
  <2> QED
    BY <2>1, TotalSame
<1>4. Paid(a, k, s) \ {r} = Paid(b, k, s) \ {r} /\ Lost(a, k, s) \ {r} = Lost(b, k, s) \ {r}
  BY DEF Paid, Lost
<1>5. /\ Paid(a, k, s) \in SUBSET Attempt /\ Paid(b, k, s) \in SUBSET Attempt
      /\ Lost(a, k, s) \in SUBSET Attempt /\ Lost(b, k, s) \in SUBSET Attempt
  BY CountTypes, Zenon
<1>6. PICK p \in Nat : p = Total(CostIn(a), Paid(a, k, s) \ {r})
  BY <1>2, <1>5
<1>7. PICK l \in Nat : l = Total(CostIn(a), Lost(a, k, s) \ {r})
  BY <1>2, <1>5
<1>8. /\ p = Total(CostIn(b), Paid(b, k, s) \ {r})
      /\ l = Total(CostIn(b), Lost(b, k, s) \ {r})
  BY <1>3, <1>4, <1>5, <1>6, <1>7
<1>9. /\ Total(CostIn(a), Paid(a, k, s)) = p + (IF r \in Paid(a, k, s) THEN a[r].cost ELSE 0)
      /\ Total(CostIn(a), Lost(a, k, s)) = l + (IF r \in Lost(a, k, s) THEN a[r].cost ELSE 0)
  BY <1>2, <1>5, <1>6, <1>7
<1>10. /\ Total(CostIn(b), Paid(b, k, s)) = p + (IF r \in Paid(b, k, s) THEN b[r].cost ELSE 0)
       /\ Total(CostIn(b), Lost(b, k, s)) = l + (IF r \in Lost(b, k, s) THEN b[r].cost ELSE 0)
  BY <1>2, <1>5, <1>8
<1> QED
  BY <1>9, <1>10, Zenon

\* A step of attempt r, of kind k, leaves everything but the log of k.
Charges(r, k) ==
  /\ \E q : Moves(r, q, OpsOf(k))
  /\ \A s \in Attempt \ {r} : attempt'[s] = attempt[s]
  /\ log' \in [{"pdf", "mail"} -> Hits] /\ InOrder(log'[k])
  /\ \A j \in {"pdf", "mail"} \ {k} : log'[j] = log[j]
  /\ LogCovered(k)'

\* What a new attempt reserves, if there is room for it, it is billed for.
LEMMA ReserveCharges ==
  ASSUME LimitTypes, Attempts, LogsCovered, clock' = clock, NEW r \in Attempt,
         NEW op \in Renders \cup {"mail"}, NEW cost \in Nat, NEW pc,
         pc = (IF op = "mail" THEN "sending" ELSE "reserved"), Reserve(r, op, cost, pc)
  PROVE  Charges(r, Kind(op)) /\ attempt[r] = New /\ attempt'[r].pc # "rendering"
<1>1. PICK k \in {"pdf", "mail"} : k = Kind(op) /\ op \in OpsOf(k)
  BY DEF Kind, OpsOf
<1>2. PICK dq : dq = Trim(log[k])
  OBVIOUS
<1> DEFINE ok == Len(dq) + cost <= HourLimit[k]
<1>3. ok => Len(dq) + cost <= HourLimit[k]
  OBVIOUS
<1>4. PICK q : q = Arrive(op, Nobody, Nobody, cost, IF ok THEN pc ELSE "refused")
  OBVIOUS
<1>5. /\ attempt[r] = New
      /\ log' = [log EXCEPT ![k] = IF ok THEN dq \o [i \in 1..cost |-> clock] ELSE dq]
      /\ attempt' = [attempt EXCEPT ![r] = q]
  BY <1>1, <1>2, <1>4 DEF Reserve, IsNext
<1> HIDE DEF ok
<1>6. /\ clock \in Nat /\ clock \in Int /\ attempt \in [Attempt -> AttemptState] /\ Ages(attempt)
      /\ log \in [{"pdf", "mail"} -> Hits] /\ InOrder(log[k])
      /\ Cutoff \in Int /\ HourLimit[k] \in Nat
  BY <1>1, LimitTypesAre, LimitAssumption DEF LimitTypes, Cutoff
<1>7. /\ q \in AttemptState /\ SoundAttempt(q) /\ q # New /\ q.op = op /\ q.cost = cost
      /\ q.pc = (IF ok THEN pc ELSE "refused") /\ q.at = clock /\ q.end = 0
  <2>1. /\ op \in AttemptOps \ {"none"} /\ op # "login"
        /\ (IF ok THEN pc ELSE "refused") \in Stages \ {"new"}
        /\ (IF ok THEN pc ELSE "refused") \notin {"verifying", "rendering", "delivering"}
        /\ (IF ok THEN pc ELSE "refused") = "reserved" => op \in Renders
        /\ (IF ok THEN pc ELSE "refused") = "sending" => op = "mail"
    BY DEF AttemptOps, Renders, Stages
  <2> QED
    BY <1>4, <1>6, <2>1, ArriveIs
<1>8. /\ attempt' \in [Attempt -> AttemptState] /\ attempt'[r] = q
      /\ \A s \in Attempt \ {r} : attempt'[s] = attempt[s]
  BY <1>5, <1>6, <1>7
<1>9. Moves(r, q, OpsOf(k))
  BY <1>1, <1>5, <1>7, <1>8 DEF Moves, New, OpsOf, AttemptOps, Renders
<1>10. dq \in Hits /\ Len(dq) <= Len(log[k]) /\ InOrder(dq) /\ Len(dq) \in Nat
  BY <1>1, <1>2, <1>6, HitsSinceLess, HitsAre DEF Trim
<1>11. PICK hits : hits = IF ok THEN dq \o [i \in 1..cost |-> clock] ELSE dq
  OBVIOUS
<1>12. hits \in Hits /\ InOrder(hits) /\ Len(hits) <= HourLimit[k]
  <2>1. CASE ok
    BY <1>3, <1>6, <1>10, <1>11, <2>1, ExtendIs
  <2>2. CASE ~ok
    <3>1. Len(log[k]) <= HourLimit[k] /\ Len(log[k]) \in Nat
      BY <1>1, <1>6, HitsAre DEF LogsCovered
    <3> QED
      BY <1>6, <1>10, <1>11, <2>2, <3>1
  <2> QED
    BY <2>1, <2>2
<1>13. /\ log'[k] = hits /\ log' \in [{"pdf", "mail"} -> Hits]
       /\ \A j \in {"pdf", "mail"} \ {k} : log'[j] = log[j]
  BY <1>1, <1>5, <1>6, <1>11, <1>12
<1>14. ASSUME NEW s \in Int, s >= Cutoff
       PROVE  Covers(hits, Total(CostIn(attempt'), Paid(attempt', k, s))
                             - Total(CostIn(attempt'), Lost(attempt', k, s)), s)
  <2>1. PICK p \in Nat, l \in Nat :
          /\ Total(CostIn(attempt), Paid(attempt, k, s))
               = p + (IF r \in Paid(attempt, k, s) THEN attempt[r].cost ELSE 0)
          /\ Total(CostIn(attempt'), Paid(attempt', k, s))
               = p + (IF r \in Paid(attempt', k, s) THEN attempt'[r].cost ELSE 0)
          /\ Total(CostIn(attempt), Lost(attempt, k, s))
               = l + (IF r \in Lost(attempt, k, s) THEN attempt[r].cost ELSE 0)
          /\ Total(CostIn(attempt'), Lost(attempt', k, s))
               = l + (IF r \in Lost(attempt', k, s) THEN attempt'[r].cost ELSE 0)
    BY <1>6, <1>8, Bill
  <2>2. /\ r \notin Paid(attempt, k, s) /\ r \notin Lost(attempt, k, s)
        /\ r \notin Lost(attempt', k, s)
        /\ r \in Paid(attempt', k, s) <=> ok /\ s <= clock
    BY <1>1, <1>5, <1>6, <1>7, <1>8 DEF Paid, Lost, New
  <2>3. Covers(log[k], p - l, s)
    BY <1>1, <1>14, <2>1, <2>2 DEF LogsCovered
  <2>4. Covers(dq, p - l, s)
    BY <1>1, <1>2, <1>6, <1>14, <2>3, CoversSince DEF Trim
  <2>5. CASE ok /\ s <= clock
    <3>1. Covers(hits, (p - l) + cost, s)
      <4>1. hits = dq \o [i \in 1..cost |-> clock] /\ p - l \in Int
        BY <1>11, <2>5
      <4> QED
        BY <1>6, <1>10, <2>4, <2>5, <4>1, ExtendIs
    <3>2. /\ Total(CostIn(attempt'), Paid(attempt', k, s)) = p + cost
          /\ Total(CostIn(attempt'), Lost(attempt', k, s)) = l
      BY <1>7, <1>8, <2>1, <2>2, <2>5
    <3>3. (p - l) + cost = (p + cost) - l
      OBVIOUS
    <3> QED
      BY <3>1, <3>2, <3>3
  <2>6. CASE ok /\ ~(s <= clock)
    <3>1. Paid(attempt, k, s) = {}
      BY <1>6, <2>6, NoneYet
    <3>2. Total(CostIn(attempt), Paid(attempt, k, s)) = 0
      BY <3>1, TotalFirst, FS_EmptySet
    <3>3. /\ Total(CostIn(attempt'), Paid(attempt', k, s)) = p
          /\ Total(CostIn(attempt'), Lost(attempt', k, s)) = l /\ p = 0
      BY <2>1, <2>2, <2>6, <3>2
    <3>4. p - l <= 0 /\ p - l \in Int
      BY <3>3
    <3> QED
      BY <1>12, <3>3, <3>4, CoversNone
  <2>7. CASE ~ok
    BY <1>11, <2>1, <2>2, <2>4, <2>7
  <2> QED
    BY <2>5, <2>6, <2>7
<1>15. LogCovered(k)'
  BY <1>12, <1>13, <1>14 DEF LogCovered, Cutoff
<1>16. q.pc # "rendering"
  BY <1>7
<1> QED
  BY <1>1, <1>5, <1>8, <1>9, <1>12, <1>13, <1>15, <1>16 DEF Charges

\* An admitted render or mail, of which kind it is, and what it is billed for.
Admitted == {"reserved", "rendering", "delivering", "sending"}

LEMMA AdmittedIs ==
  ASSUME LimitTypes, Attempts, NEW r \in Attempt, attempt[r].pc \in Admitted
  PROVE  /\ attempt[r] \in AttemptState /\ attempt[r] # New /\ attempt[r].pc # "new"
         /\ attempt[r].op \in Renders \cup {"mail"} /\ Kind(attempt[r].op) \in {"pdf", "mail"}
         /\ attempt[r].op \in OpsOf(Kind(attempt[r].op)) /\ attempt[r].cost \in Nat
         /\ attempt[r].at \in Nat /\ attempt[r].at <= clock /\ SoundAttempt(attempt[r])
         /\ \A s : /\ r \notin Lost(attempt, Kind(attempt[r].op), s)
                   /\ r \in Paid(attempt, Kind(attempt[r].op), s) <=> attempt[r].at >= s
<1>1. attempt[r] \in AttemptState /\ SoundAttempt(attempt[r])
  BY DEF LimitTypes, Attempts
<1>2. attempt[r].op \in Renders \cup {"mail"}
  BY <1>1 DEF Admitted, SoundAttempt, Renders
<1>3. attempt[r].pc # "new" /\ attempt[r] # New
  BY <1>1 DEF Admitted, SoundAttempt
<1>4. Kind(attempt[r].op) \in {"pdf", "mail"} /\ attempt[r].op \in OpsOf(Kind(attempt[r].op))
  BY <1>2 DEF Kind, OpsOf, Renders
<1> QED
  BY <1>1, <1>2, <1>3, <1>4 DEF AttemptState, SoundAttempt, Paid, Lost, Admitted

\* An attempt that fails takes back what it is billed for: it was charged in this
\* window, or is lost to it.
LEMMA FailCharges ==
  ASSUME LimitTypes, Attempts, LogsCovered, clock' = clock, NEW r \in Attempt,
         attempt[r].pc \in Admitted, Fail(r)
  PROVE  Charges(r, Kind(attempt[r].op)) /\ attempt'[r].pc = "failed"
<1>1. PICK k \in {"pdf", "mail"} : k = Kind(attempt[r].op)
  BY AdmittedIs
<1>2. PICK c \in Nat : c = attempt[r].cost
  BY AdmittedIs
<1>3. PICK q : q = [attempt[r] EXCEPT !.pc = "failed", !.end = clock]
  OBVIOUS
<1>4. PICK less : less = SubSeq(log[k], 1, Len(log[k]) - c)
  OBVIOUS
<1>5. /\ clock \in Nat /\ clock \in Int /\ attempt \in [Attempt -> AttemptState] /\ Ages(attempt)
      /\ log \in [{"pdf", "mail"} -> Hits] /\ log[k] \in Hits /\ InOrder(log[k])
      /\ Cutoff \in Int /\ HourLimit[k] \in Nat /\ Len(log[k]) <= HourLimit[k]
      /\ Len(log[k]) \in Nat
  <2>1. clock \in Nat /\ clock \in Int /\ attempt \in [Attempt -> AttemptState] /\ Ages(attempt)
    BY LimitTypesAre
  <2>2. /\ log \in [{"pdf", "mail"} -> Hits] /\ log[k] \in Hits /\ InOrder(log[k])
        /\ HourLimit[k] \in Nat /\ Len(log[k]) <= HourLimit[k]
    BY LimitAssumption DEF LimitTypes, LogsCovered
  <2>3. Cutoff \in Int
    BY <2>1, LimitAssumption DEF Cutoff
  <2> QED
    BY <2>1, <2>2, <2>3, HitsAre
<1>6. /\ log' = [log EXCEPT ![k] = less]
      /\ attempt' = [attempt EXCEPT ![r] = q]
  BY <1>1, <1>2, <1>3, <1>4, <1>5 DEF Fail, Refund
<1>7. /\ q \in AttemptState /\ q.op = attempt[r].op /\ q.pc = "failed" /\ q.cost = c
      /\ q.at = attempt[r].at /\ q.end = clock
  <2>1. attempt[r] \in AttemptState /\ clock \in Nat
    BY <1>5
  <2> QED
    BY <1>2, <1>3, <2>1 DEF AttemptState, Stages
<1>8. q # New /\ SoundAttempt(q)
  BY <1>5, <1>7, AdmittedIs DEF SoundAttempt, New, Renders
<1>9. /\ attempt' \in [Attempt -> AttemptState] /\ attempt'[r] = q
      /\ \A s \in Attempt \ {r} : attempt'[s] = attempt[s]
  BY <1>5, <1>6, <1>7
<1>10. Moves(r, q, OpsOf(k))
  BY <1>1, <1>7, <1>8, <1>9, AdmittedIs DEF Moves, OpsOf, AttemptOps, Renders
<1>11. /\ less \in Hits /\ Len(less) \in Nat /\ Len(less) <= Len(log[k]) /\ InOrder(less)
       /\ \A s \in Int, m \in Int : Covers(log[k], m, s) => Covers(less, m - c, s)
  BY <1>4, <1>5, RefundIs, HitsAre
<1>12. Len(less) <= HourLimit[k]
  BY <1>5, <1>11
<1>13. /\ log'[k] = less /\ log' \in [{"pdf", "mail"} -> Hits]
       /\ \A j \in {"pdf", "mail"} \ {k} : log'[j] = log[j]
  BY <1>1, <1>5, <1>6, <1>11
<1>14. ASSUME NEW s \in Int, s >= Cutoff
       PROVE  Covers(less, Total(CostIn(attempt'), Paid(attempt', k, s))
                             - Total(CostIn(attempt'), Lost(attempt', k, s)), s)
  <2>1. PICK p \in Nat, l \in Nat :
          /\ Total(CostIn(attempt), Paid(attempt, k, s))
               = p + (IF r \in Paid(attempt, k, s) THEN attempt[r].cost ELSE 0)
          /\ Total(CostIn(attempt'), Paid(attempt', k, s))
               = p + (IF r \in Paid(attempt', k, s) THEN attempt'[r].cost ELSE 0)
          /\ Total(CostIn(attempt), Lost(attempt, k, s))
               = l + (IF r \in Lost(attempt, k, s) THEN attempt[r].cost ELSE 0)
          /\ Total(CostIn(attempt'), Lost(attempt', k, s))
               = l + (IF r \in Lost(attempt', k, s) THEN attempt'[r].cost ELSE 0)
    BY <1>5, <1>9, Bill
  <2>2. /\ r \in Paid(attempt, k, s) <=> attempt[r].at >= s
        /\ r \notin Lost(attempt, k, s) /\ r \notin Paid(attempt', k, s)
        /\ r \in Lost(attempt', k, s) <=> attempt[r].at < s /\ clock >= s
    <3>1. r \notin Paid(attempt', k, s)
      BY <1>7, <1>9 DEF Paid
    <3>2. r \in Lost(attempt', k, s) <=> attempt[r].at < s /\ clock >= s
      BY <1>1, <1>7, <1>9, AdmittedIs DEF Lost
    <3> QED
      BY <1>1, <3>1, <3>2, AdmittedIs
  <2>3. attempt'[r].cost = c /\ attempt[r].at \in Nat /\ attempt[r].at <= clock
    BY <1>7, <1>9, AdmittedIs
  <2>4. CASE attempt[r].at >= s
    <3>1. /\ Total(CostIn(attempt), Paid(attempt, k, s)) = p + c
          /\ Total(CostIn(attempt), Lost(attempt, k, s)) = l
          /\ Total(CostIn(attempt'), Paid(attempt', k, s)) = p
          /\ Total(CostIn(attempt'), Lost(attempt', k, s)) = l
      BY <1>2, <2>1, <2>2, <2>3, <2>4
    <3>2. Covers(log[k], (p + c) - l, s)
      BY <1>1, <1>14, <3>1 DEF LogsCovered
    <3>3. ((p + c) - l) - c = p - l
      OBVIOUS
    <3>4. Covers(less, ((p + c) - l) - c, s)
      BY <1>11, <3>2
    <3> QED
      BY <3>1, <3>3, <3>4
  <2>5. CASE ~(attempt[r].at >= s) /\ clock >= s
    <3>1. /\ Total(CostIn(attempt), Paid(attempt, k, s)) = p
          /\ Total(CostIn(attempt), Lost(attempt, k, s)) = l
          /\ Total(CostIn(attempt'), Paid(attempt', k, s)) = p
          /\ Total(CostIn(attempt'), Lost(attempt', k, s)) = l + c
      BY <1>2, <2>1, <2>2, <2>3, <2>5
    <3>2. Covers(log[k], p - l, s)
      BY <1>1, <1>14, <3>1 DEF LogsCovered
    <3>3. (p - l) - c = p - (l + c)
      OBVIOUS
    <3>4. Covers(less, (p - l) - c, s)
      BY <1>11, <3>2
    <3> QED
      BY <3>1, <3>3, <3>4
  <2>6. CASE ~(clock >= s)
    <3>1. Paid(attempt, k, s) = {}
      BY <1>5, <2>6, NoneYet
    <3>2. Total(CostIn(attempt), Paid(attempt, k, s)) = 0
      BY <3>1, TotalFirst, FS_EmptySet
    <3>3. /\ Total(CostIn(attempt'), Paid(attempt', k, s)) = p
          /\ Total(CostIn(attempt'), Lost(attempt', k, s)) = l /\ p = 0
      BY <2>1, <2>2, <2>3, <2>6, <3>1, <3>2
    <3>4. p - l <= 0 /\ p - l \in Int
      BY <3>3
    <3> QED
      BY <1>11, <3>3, <3>4, CoversNone
  <2> QED
    BY <2>4, <2>5, <2>6
<1>15. LogCovered(k)'
  BY <1>12, <1>13, <1>14 DEF LogCovered, Cutoff
<1> QED
  BY <1>1, <1>7, <1>9, <1>10, <1>11, <1>13, <1>15 DEF Charges

\* Whatever else becomes of it leaves the log and the bill.
Becoming(r, pc) == attempt' = [attempt EXCEPT ![r].pc = pc]

LEMMA GoesCharges ==
  ASSUME LimitTypes, Attempts, LogsCovered, clock' = clock, NEW r \in Attempt,
         attempt[r].pc \in Admitted, NEW pc \in {"done", "rendering", "delivering"},
         pc = "rendering" => attempt[r].op \in Renders, pc = "delivering" => attempt[r].op = "tool",
         Becoming(r, pc), log' = log
  PROVE  Charges(r, Kind(attempt[r].op)) /\ attempt'[r].pc = pc
<1>1. PICK k \in {"pdf", "mail"} : k = Kind(attempt[r].op)
  BY AdmittedIs
<1>2. PICK q : q = [attempt[r] EXCEPT !.pc = pc]
  OBVIOUS
<1>3. /\ clock \in Nat /\ clock \in Int /\ attempt \in [Attempt -> AttemptState]
      /\ log \in [{"pdf", "mail"} -> Hits] /\ InOrder(log[k]) /\ Cutoff \in Int
  BY <1>1, LimitTypesAre, LimitAssumption DEF LimitTypes, Cutoff
<1>4. attempt' = [attempt EXCEPT ![r] = q]
  BY <1>2, <1>3 DEF Becoming
<1>5. /\ q \in AttemptState /\ q.op = attempt[r].op /\ q.pc = pc /\ q.cost = attempt[r].cost
      /\ q.at = attempt[r].at /\ q.end = attempt[r].end
  BY <1>2, <1>3, AdmittedIs DEF AttemptState, Stages
<1>6. q # New /\ SoundAttempt(q)
  BY <1>5, AdmittedIs DEF SoundAttempt, New, Renders
<1>7. /\ attempt' \in [Attempt -> AttemptState] /\ attempt'[r] = q
      /\ \A s \in Attempt \ {r} : attempt'[s] = attempt[s]
  BY <1>3, <1>4, <1>5
<1>8. Moves(r, q, OpsOf(k))
  BY <1>1, <1>5, <1>6, <1>7, AdmittedIs DEF Moves, OpsOf, AttemptOps, Renders
<1>9. ASSUME NEW s \in Int, s >= Cutoff
      PROVE  Covers(log[k], Total(CostIn(attempt'), Paid(attempt', k, s))
                              - Total(CostIn(attempt'), Lost(attempt', k, s)), s)
  <2>1. PICK p \in Nat, l \in Nat :
          /\ Total(CostIn(attempt), Paid(attempt, k, s))
               = p + (IF r \in Paid(attempt, k, s) THEN attempt[r].cost ELSE 0)
          /\ Total(CostIn(attempt'), Paid(attempt', k, s))
               = p + (IF r \in Paid(attempt', k, s) THEN attempt'[r].cost ELSE 0)
          /\ Total(CostIn(attempt), Lost(attempt, k, s))
               = l + (IF r \in Lost(attempt, k, s) THEN attempt[r].cost ELSE 0)
          /\ Total(CostIn(attempt'), Lost(attempt', k, s))
               = l + (IF r \in Lost(attempt', k, s) THEN attempt'[r].cost ELSE 0)
    BY <1>3, <1>7, Bill
  <2>2. /\ r \in Paid(attempt, k, s) <=> r \in Paid(attempt', k, s)
        /\ r \notin Lost(attempt, k, s) /\ r \notin Lost(attempt', k, s)
    <3>1. r \notin Lost(attempt', k, s)
      BY <1>5, <1>7 DEF Lost
    <3>2. r \in Paid(attempt', k, s) <=> attempt[r].at >= s
      BY <1>1, <1>5, <1>7, AdmittedIs DEF Paid
    <3> QED
      BY <1>1, <3>1, <3>2, AdmittedIs
  <2>3. /\ Total(CostIn(attempt'), Paid(attempt', k, s)) = Total(CostIn(attempt), Paid(attempt, k, s))
        /\ Total(CostIn(attempt'), Lost(attempt', k, s)) = Total(CostIn(attempt), Lost(attempt, k, s))
    BY <1>5, <1>7, <2>1, <2>2
  <2> QED
    BY <1>1, <1>9, <2>3 DEF LogsCovered
<1>10. LogCovered(k)'
  BY <1>1, <1>9 DEF LogCovered, LogsCovered, Cutoff
<1> QED
  BY <1>1, <1>3, <1>5, <1>7, <1>8, <1>10 DEF Charges
-----------------------------------------------------------------------------
(***************************************************************************)
(* What a step makes of the types and of the tables.                         *)
(***************************************************************************)
LEMMA OrderNext ==
  ASSUME Onward, NEW hits \in Hits, InOrder(hits)
  PROVE  \A i, j \in DOMAIN hits : i <= j => hits[i] <= hits[j] /\ hits[j] <= clock'
<1> SUFFICES ASSUME NEW i \in DOMAIN hits, NEW j \in DOMAIN hits, i <= j
             PROVE  hits[i] <= hits[j] /\ hits[j] <= clock'
  OBVIOUS
<1>1. hits[i] <= hits[j] /\ hits[j] <= clock /\ hits[j] \in Nat /\ clock \in Nat
  BY HitsAre DEF InOrder, Onward
<1>2. CASE clock' = clock
  BY <1>1, <1>2
<1>3. CASE clock' = clock + 1
  BY <1>1, <1>3
<1> QED
  BY <1>2, <1>3 DEF Onward

LEMMA LimitTypesNext ==
  ASSUME Onward, clock' \in 0..MaxClock, lastPrune' \in 0..MaxClock,
         formRate' \in [Net -> Hits], \A n \in Net : InOrder(formRate'[n]),
         log' \in [{"pdf", "mail"} -> Hits], \A k \in {"pdf", "mail"} : InOrder(log'[k]),
         slots' \in 0..Slots, attempt' \in [Attempt -> AttemptState]
  PROVE  LimitTypes'
<1>1. \A n \in Net : \A i, j \in DOMAIN formRate'[n] :
        i <= j => formRate'[n][i] <= formRate'[n][j] /\ formRate'[n][j] <= clock'
  BY OrderNext
<1>2. \A k \in {"pdf", "mail"} : \A i, j \in DOMAIN log'[k] :
        i <= j => log'[k][i] <= log'[k][j] /\ log'[k][j] <= clock'
  BY OrderNext
<1> QED
  BY <1>1, <1>2 DEF LimitTypes, InOrder

\* d is a table when the step is over.
TableThen(d, K) ==
  /\ IsDict(d, K) /\ Cardinality(DOMAIN d) <= MaxKeys
  /\ \A k \in DOMAIN d :
       /\ attempt'[d[k].by] # New
       /\ \A j \in DOMAIN d : d[j].by = d[k].by => j = k
       /\ \A i, j \in DOMAIN d[k].hits :
            i <= j => d[k].hits[i] <= d[k].hits[j] /\ d[k].hits[j] <= clock'

LEMMA TableNext ==
  ASSUME Onward, NEW K, NEW d, Table(d, K), \A s \in Attempt : attempt[s] # New => attempt'[s] # New
  PROVE  TableThen(d, K)
<1>1. IsDict(d, K) /\ Cardinality(DOMAIN d) <= MaxKeys
  BY DEF Table
<1>2. \A k \in DOMAIN d : /\ d[k].by \in Attempt /\ attempt[d[k].by] # New
                          /\ \A j \in DOMAIN d : d[j].by = d[k].by => j = k
                          /\ d[k].hits \in Hits /\ InOrder(d[k].hits)
  BY TableIs DEF Table, ByOnce
<1>3. \A k \in DOMAIN d : \A i, j \in DOMAIN d[k].hits :
        i <= j => d[k].hits[i] <= d[k].hits[j] /\ d[k].hits[j] <= clock'
  BY <1>2, OrderNext
<1> QED
  BY <1>1, <1>2, <1>3 DEF TableThen

LEMMA TablesNext ==
  ASSUME TableThen(loginFailures', Key), TableThen(loginNetHits', Net), TableThen(anonHits', Net)
  PROVE  Tables'
<1>1. Table(loginFailures, Key)'
  BY DEF Table, TableThen, IsDict, ByOnce, InOrder
<1>2. Table(loginNetHits, Net)'
  BY DEF Table, TableThen, IsDict, ByOnce, InOrder
<1>3. Table(anonHits, Net)'
  BY DEF Table, TableThen, IsDict, ByOnce, InOrder
<1> QED
  BY <1>1, <1>2, <1>3 DEF Tables

-----------------------------------------------------------------------------
(***************************************************************************)
(* Renders and mails.                                                       *)
(***************************************************************************)
LEMMA ChargesKeep ==
  ASSUME LimitsInv, NEW r \in Attempt, NEW k \in {"pdf", "mail"}, Charges(r, k),
         UNCHANGED <<loginVars, formRate, anonHits>>, slots' \in 0..Slots, SlotsReturned'
  PROVE  LimitsInv'
<1>1. PICK q : Moves(r, q, OpsOf(k))
  BY DEF Charges
<1>2. /\ LimitTypes /\ Attempts /\ Table(loginFailures, Key) /\ Table(loginNetHits, Net)
      /\ Table(anonHits, Net) /\ formRate \in [Net -> Hits]
  BY DEF LimitsInv, Tables, LimitTypes
<1>3. /\ Onward /\ Attempts' /\ \A s \in Attempt : attempt[s] # New => attempt'[s] # New
      /\ \A o : o \cap (OpsOf(k) \cup {"none"}) = {} => Stays(attempt, attempt', o)
  BY <1>1, <1>2, MovesIs
<1>4. /\ loginFailures' = loginFailures /\ loginNetHits' = loginNetHits /\ lastPrune' = lastPrune
      /\ formRate' = formRate /\ anonHits' = anonHits /\ clock' = clock
      /\ attempt' \in [Attempt -> AttemptState]
  BY <1>1 DEF loginVars, Moves
<1>5. /\ Stays(attempt, attempt', {"login"}) /\ Stays(attempt, attempt', {"form"})
      /\ Stays(attempt, attempt', {"anon"})
      /\ \A j \in {"pdf", "mail"} \ {k} : Stays(attempt, attempt', OpsOf(j))
  BY <1>3 DEF OpsOf, Renders
<1>6. LimitTypes'
  <2>1. log' \in [{"pdf", "mail"} -> Hits] /\ \A j \in {"pdf", "mail"} : InOrder(log'[j])
    BY <1>2 DEF Charges, LimitTypes
  <2>2. /\ clock' \in 0..MaxClock /\ lastPrune' \in 0..MaxClock
        /\ formRate' \in [Net -> Hits] /\ \A n \in Net : InOrder(formRate'[n])
    BY <1>2, <1>4 DEF LimitTypes
  <2> QED
    BY <1>3, <1>4, <2>1, <2>2, LimitTypesNext
<1>7. Tables'
  BY <1>2, <1>3, <1>4, TableNext, TablesNext
<1>8. LoginsCovered' /\ NetsCovered'
  BY <1>2, <1>3, <1>4, <1>5, LoginsFrame, NetsFrame DEF LimitsInv
<1>9. FormsCovered' /\ AnonCovered'
  BY <1>2, <1>3, <1>4, <1>5, FormsFrame, AnonFrame DEF LimitsInv
<1>10. LogsCovered'
  <2>1. LogCovered(k)'
    BY DEF Charges
  <2>2. ASSUME NEW j \in {"pdf", "mail"} \ {k} PROVE LogCovered(j)'
    BY <1>3, <1>5, LogFrame, LogsSplit DEF Charges, LimitsInv
  <2> QED
    BY <2>1, <2>2, LogsSplit
<1> QED
  BY <1>3, <1>6, <1>7, <1>8, <1>9, <1>10 DEF LimitsInv

\* The slots in use, before and after a step of r.
LEMMA SlotsStep ==
  ASSUME LimitTypes, SlotsReturned, NEW r \in Attempt,
         \A s \in Attempt \ {r} : attempt'[s] = attempt[s], slots' \in Nat,
         slots' + (IF attempt'[r].pc = "rendering" THEN 1 ELSE 0)
           = slots + (IF attempt[r].pc = "rendering" THEN 1 ELSE 0)
  PROVE  SlotsReturned' /\ slots' \in 0..Slots
<1> DEFINE old == {s \in Attempt : attempt[s].pc = "rendering"}
           now == {s \in Attempt : attempt'[s].pc = "rendering"}
<1>1. old \in SUBSET Attempt /\ now \in SUBSET Attempt /\ old \ {r} = now \ {r}
      /\ (r \in old <=> attempt[r].pc = "rendering")
      /\ (r \in now <=> attempt'[r].pc = "rendering")
  OBVIOUS
<1>2. slots \in Nat /\ slots + Cardinality(old) = Slots /\ Slots \in Nat
  BY LimitAssumption DEF LimitTypes, SlotsReturned
<1> HIDE DEF old, now
<1>3. /\ IsFiniteSet(old) /\ IsFiniteSet(now)
      /\ Cardinality(old) \in Nat /\ Cardinality(now) \in Nat
  BY <1>1, AttemptsFinite, FS_Subset, FS_CardinalityType
<1>4. /\ Cardinality(old \ {r}) = IF r \in old THEN Cardinality(old) - 1 ELSE Cardinality(old)
      /\ Cardinality(now \ {r}) = IF r \in now THEN Cardinality(now) - 1 ELSE Cardinality(now)
  BY <1>3, FS_RemoveElement
<1>5. slots' + Cardinality(now) = Slots
  <2>1. PICK c \in Nat, d \in Nat, z \in Nat : c = Cardinality(old) /\ d = Cardinality(now) /\ z = slots'
    BY <1>3
  <2>2. (IF r \in old THEN c - 1 ELSE c) = (IF r \in now THEN d - 1 ELSE d)
    BY <1>1, <1>4, <2>1
  <2>3. z + (IF r \in now THEN 1 ELSE 0) = slots + (IF r \in old THEN 1 ELSE 0)
    BY <1>1, <2>1
  <2>4. z + d = slots + c
    BY <1>2, <2>2, <2>3
  <2> QED
    BY <1>2, <2>1, <2>4
<1>6. SlotsReturned'
  BY <1>5 DEF SlotsReturned, now
<1> QED
  BY <1>2, <1>3, <1>5, <1>6

LEMMA MoneyKeeps ==
  ASSUME LimitsInv, NEW r \in Attempt, NEW k \in {"pdf", "mail"}, Charges(r, k),
         clock' = clock, UNCHANGED <<loginVars, formRate, anonHits>>, slots' \in Nat,
         slots' + (IF attempt'[r].pc = "rendering" THEN 1 ELSE 0)
           = slots + (IF attempt[r].pc = "rendering" THEN 1 ELSE 0)
  PROVE  LimitsInv'
<1>1. SlotsReturned' /\ slots' \in 0..Slots
  BY SlotsStep DEF Charges, LimitsInv
<1> QED
  BY <1>1, ChargesKeep

LEMMA RenderKeeps == ASSUME LimitsInv, NEW r \in Attempt, Render(r) PROVE LimitsInv'
<1>1. LimitTypes /\ Attempts /\ LogsCovered /\ slots \in Nat
  BY LimitAssumption DEF LimitsInv, LimitTypes
<1>2. CASE BeginRender(r)
  <2>1. PICK op \in Renders : Reserve(r, op, 1, "reserved")
    BY <1>2 DEF BeginRender
  <2>2. clock' = clock /\ slots' = slots /\ UNCHANGED <<loginVars, formRate, anonHits>>
    BY <1>2 DEF BeginRender
  <2>3. op \in Renders \cup {"mail"} /\ op # "mail" /\ Kind(op) \in {"pdf", "mail"}
    BY DEF Renders, Kind
  <2>4. Charges(r, Kind(op)) /\ attempt[r] = New /\ attempt'[r].pc # "rendering"
    BY <1>1, <2>1, <2>2, <2>3, ReserveCharges
  <2>5. attempt[r].pc # "rendering"
    BY <2>4 DEF New
  <2> QED
    BY <1>1, <2>2, <2>3, <2>4, <2>5, MoneyKeeps
<1>3. CASE ~BeginRender(r)
  <2>1. /\ attempt[r].pc \in Admitted /\ clock' = clock
        /\ UNCHANGED <<loginVars, formRate, anonHits>>
    BY <1>3 DEF Render, Unavailable, TakeSlot, GiveUp, EndRender, Deliver, Admitted
  <2>2. /\ Kind(attempt[r].op) \in {"pdf", "mail"} /\ SoundAttempt(attempt[r])
    BY <1>1, <2>1, AdmittedIs
  <2>3. \/ Becoming(r, "done") /\ log' = log
        \/ Becoming(r, "rendering") /\ log' = log /\ attempt[r].op \in Renders
        \/ Becoming(r, "delivering") /\ log' = log /\ attempt[r].op = "tool"
        \/ Fail(r)
    <3>1. CASE Unavailable(r)
      BY <3>1 DEF Unavailable, Done, Becoming
    <3>2. CASE TakeSlot(r)
      BY <2>2, <3>2 DEF TakeSlot, Becoming, SoundAttempt
    <3>3. CASE GiveUp(r)
      BY <3>3 DEF GiveUp
    <3>4. CASE EndRender(r)
      <4>1. attempt[r].op \in Renders
        BY <2>2, <3>4 DEF EndRender, SoundAttempt
      <4> QED
        BY <3>4, <4>1 DEF EndRender, Done, Becoming, Renders
    <3>5. CASE Deliver(r)
      BY <3>5 DEF Deliver, Done, Becoming
    <3> QED
      BY <1>3, <3>1, <3>2, <3>3, <3>4, <3>5 DEF Render
  <2>4. Charges(r, Kind(attempt[r].op))
    BY <1>1, <2>1, <2>3, GoesCharges, FailCharges
  <2>5. /\ slots' \in Nat
        /\ slots' + (IF attempt'[r].pc = "rendering" THEN 1 ELSE 0)
             = slots + (IF attempt[r].pc = "rendering" THEN 1 ELSE 0)
    <3>6. /\ Becoming(r, "done") => attempt'[r].pc = "done"
          /\ Becoming(r, "delivering") => attempt'[r].pc = "delivering"
          /\ Becoming(r, "rendering") => attempt'[r].pc = "rendering"
          /\ Fail(r) => attempt'[r].pc = "failed"
      <4>1. Fail(r) => attempt'[r].pc = "failed"
        BY <1>1, <2>1, FailCharges
      <4>2. attempt \in [Attempt -> AttemptState]
        BY <1>1 DEF LimitTypes
      <4>3. \A pc : Becoming(r, pc) => attempt'[r].pc = pc
        BY <4>2 DEF Becoming, AttemptState
      <4> QED
        BY <4>1, <4>3
    <3>1. CASE Unavailable(r)
      BY <1>1, <3>6, <3>1 DEF Unavailable, Done, Becoming
    <3>2. CASE TakeSlot(r)
      BY <1>1, <3>6, <3>2 DEF TakeSlot, Becoming
    <3>3. CASE GiveUp(r)
      BY <1>1, <3>6, <3>3 DEF GiveUp
    <3>4. CASE EndRender(r)
      BY <1>1, <3>6, <3>4 DEF EndRender, Done, Becoming
    <3>5. CASE Deliver(r)
      BY <1>1, <3>6, <3>5 DEF Deliver, Done, Becoming
    <3> QED
      BY <1>3, <3>1, <3>2, <3>3, <3>4, <3>5 DEF Render
  <2> QED
    BY <2>1, <2>2, <2>4, <2>5, MoneyKeeps
<1> QED
  BY <1>2, <1>3

LEMMA MailKeeps == ASSUME LimitsInv, NEW r \in Attempt, Mail(r) PROVE LimitsInv'
<1>1. LimitTypes /\ Attempts /\ LogsCovered /\ slots \in Nat
  BY LimitAssumption DEF LimitsInv, LimitTypes
<1>2. CASE BeginMail(r)
  <2>1. PICK cost \in 1..2 : Reserve(r, "mail", cost, "sending")
    BY <1>2 DEF BeginMail
  <2>2. clock' = clock /\ slots' = slots /\ UNCHANGED <<loginVars, formRate, anonHits>>
    BY <1>2 DEF BeginMail
  <2>3. Kind("mail") \in {"pdf", "mail"} /\ cost \in Nat
    BY DEF Kind
  <2>4. Charges(r, Kind("mail")) /\ attempt[r] = New /\ attempt'[r].pc # "rendering"
    BY <1>1, <2>1, <2>2, <2>3, ReserveCharges
  <2>5. attempt[r].pc # "rendering"
    BY <2>4 DEF New
  <2> QED
    BY <1>1, <2>2, <2>3, <2>4, <2>5, MoneyKeeps
<1>3. CASE EndMail(r)
  <2>1. /\ attempt[r].pc = "sending" /\ attempt[r].pc \in Admitted /\ clock' = clock
        /\ slots' = slots /\ UNCHANGED <<loginVars, formRate, anonHits>>
    BY <1>3 DEF EndMail, Admitted
  <2>2. Kind(attempt[r].op) \in {"pdf", "mail"}
    BY <1>1, <2>1, AdmittedIs
  <2>3. (Becoming(r, "done") /\ log' = log) \/ Fail(r)
    BY <1>3 DEF EndMail, Done, Becoming
  <2>4. Charges(r, Kind(attempt[r].op)) /\ attempt'[r].pc # "rendering"
    BY <1>1, <2>1, <2>3, GoesCharges, FailCharges
  <2> QED
    BY <1>1, <2>1, <2>2, <2>4, MoneyKeeps
<1> QED
  BY <1>2, <1>3 DEF Mail
-----------------------------------------------------------------------------
(***************************************************************************)
(* Forms and anonymous requests.                                            *)
(***************************************************************************)
\* What a new hit of r in its own class makes of the count, and what is too late
\* to count.
LEMMA HittingNext ==
  ASSUME NEW a, NEW b, NEW r \in Attempt, NEW op,
         \A q \in Attempt \ {r} : Loses(a[q], b[q]), NEW n, NEW e, NEW s
  PROVE  /\ Cardinality(Hitting(b, op, n, e, s)) <= Cardinality(Hitting(a, op, n, e, s)) + 1
         /\ ~(b[r].op = op /\ b[r].counted /\ b[r].net = n /\ b[r].email = e) =>
              Cardinality(Hitting(b, op, n, e, s)) <= Cardinality(Hitting(a, op, n, e, s))
         /\ Cardinality(Hitting(a, op, n, e, s)) \in Nat
         /\ Cardinality(Hitting(b, op, n, e, s)) \in Nat
<1>1. Hitting(a, op, n, e, s) \in SUBSET Attempt
  BY DEF Hitting
<1>2. Hitting(b, op, n, e, s) \in SUBSET (Hitting(a, op, n, e, s) \cup {r})
  BY DEF Hitting, Loses
<1>3. ~(b[r].op = op /\ b[r].counted /\ b[r].net = n /\ b[r].email = e) =>
        Hitting(b, op, n, e, s) \in SUBSET Hitting(a, op, n, e, s)
  BY DEF Hitting, Loses
<1> QED
  BY <1>1, <1>2, <1>3, OneMore, Fewer

LEMMA PruneFormsIs ==
  ASSUME NEW table \in [Net -> Hits], NEW n \in Net
  PROVE  /\ PruneForms(table) \in [Net -> Hits]
         /\ \/ PruneForms(table)[n] = table[n]
            \/ PruneForms(table)[n] = <<>> /\ Dead(table[n])
<1>1. <<>> \in Hits
  BY EmptySeq DEF Hits
<1>2. CASE Cardinality({m \in Net : table[m] # <<>>}) <= FormMaxKeys
  BY <1>2 DEF PruneForms
<1>3. CASE ~(Cardinality({m \in Net : table[m] # <<>>}) <= FormMaxKeys)
  <2>1. PruneForms(table) = [m \in Net |-> IF Dead(table[m]) THEN <<>> ELSE table[m]]
    BY <1>3 DEF PruneForms
  <2> QED
    BY <1>1, <2>1
<1> QED
  BY <1>2, <1>3

LEMMA SubmitFormKeeps == ASSUME LimitsInv, NEW r \in Attempt, SubmitForm(r) PROVE LimitsInv'
<1> DEFINE dq(n) == Trim(formRate[n])
           ok(n) == Len(dq(n)) < FormLimit
           q(n)  == Arrive("form", n, Nobody, 1, IF ok(n) THEN "done" ELSE "refused")
           hits(n) == IF ok(n) THEN Append(dq(n), clock) ELSE dq(n)
           table(n) == [formRate EXCEPT ![n] = hits(n)]
<1>1. PICK n \in Net :
        /\ attempt[r] = New
        /\ formRate' = IF ok(n) THEN PruneForms(table(n)) ELSE table(n)
        /\ attempt' = [attempt EXCEPT ![r] = q(n)]
        /\ clock' = clock /\ UNCHANGED <<loginVars, anonHits, log, slots>>
  BY DEF SubmitForm, IsNext
<1>2. /\ LimitTypes /\ Attempts /\ Table(loginFailures, Key) /\ Table(loginNetHits, Net)
      /\ Table(anonHits, Net) /\ FormsCovered
  BY DEF LimitsInv, Tables
<1>3. /\ clock \in Nat /\ clock \in Int /\ attempt \in [Attempt -> AttemptState] /\ Ages(attempt)
      /\ formRate \in [Net -> Hits] /\ \A m \in Net : InOrder(formRate[m])
      /\ Cutoff \in Int /\ FormLimit \in Nat
  BY <1>2, LimitTypesAre, LimitAssumption DEF LimitTypes, Cutoff
<1>4. /\ q(n) \in AttemptState /\ SoundAttempt(q(n)) /\ q(n) # New /\ q(n).op = "form"
      /\ q(n).net = n /\ q(n).email = Nobody /\ q(n).at = clock
      /\ ~ok(n) => ~q(n).counted
  <2>1. PICK pc : pc = IF ok(n) THEN "done" ELSE "refused"
    OBVIOUS
  <2>2. pc \in {"done", "refused"} /\ (~ok(n) => pc = "refused")
    BY <2>1
  <2>3. /\ "form" \in AttemptOps \ {"none"} /\ pc \in Stages \ {"new"} /\ n \in Net \cup {Nobody}
        /\ Nobody \in Email \cup {Nobody} /\ 1 \in Nat
        /\ pc \notin {"verifying", "reserved", "rendering", "delivering", "sending"}
    BY <2>2 DEF AttemptOps, Stages
  <2>4. q(n) = Arrive("form", n, Nobody, 1, pc)
    BY <2>1
  <2> HIDE DEF q, ok
  <2> QED
    BY <1>3, <2>2, <2>3, <2>4, ArriveIs
<1>5. /\ attempt' \in [Attempt -> AttemptState] /\ attempt'[r] = q(n)
      /\ \A s \in Attempt \ {r} : attempt'[s] = attempt[s]
  BY <1>1, <1>3, <1>4
<1>6. Moves(r, q(n), {"form"})
  BY <1>1, <1>4, <1>5 DEF Moves, New, AttemptOps, Renders
<1>7. /\ Onward /\ Attempts' /\ \A s \in Attempt : attempt[s] # New => attempt'[s] # New
      /\ \A s \in Attempt \ {r} : Loses(attempt[s], attempt'[s])
      /\ \A o : o \cap ({"form"} \cup {"none"}) = {} => Stays(attempt, attempt', o)
  BY <1>2, <1>6, MovesIs
<1>8. /\ dq(n) \in Hits /\ Len(dq(n)) \in Nat /\ Len(dq(n)) <= Len(formRate[n]) /\ InOrder(dq(n))
      /\ Len(formRate[n]) \in Nat
  BY <1>3, HitsSinceLess, HitsAre DEF Trim
<1>9. /\ hits(n) \in Hits /\ InOrder(hits(n)) /\ Len(hits(n)) <= FormLimit
  <2>1. Len(formRate[n]) <= FormLimit
    BY <1>2 DEF FormsCovered
  <2> QED
    BY <1>3, <1>8, <2>1, AppendIs
<1> HIDE DEF dq, ok, q, hits
<1>10. /\ table(n) \in [Net -> Hits] /\ table(n)[n] = hits(n)
       /\ \A m \in Net \ {n} : table(n)[m] = formRate[m]
  BY <1>3, <1>9
<1> HIDE DEF table
<1>11. formRate' \in [Net -> Hits]
  BY <1>1, <1>10, PruneFormsIs
<1>12. ASSUME NEW m \in Net
       PROVE  formRate'[m] = table(n)[m] \/ (formRate'[m] = <<>> /\ Dead(table(n)[m]))
  BY <1>1, <1>10, PruneFormsIs
<1>13. ASSUME NEW m \in Net, NEW s \in Int, s >= Cutoff
       PROVE  Covers(table(n)[m], Cardinality(Hitting(attempt', "form", m, Nobody, s)), s)
  <2>1. /\ Covers(formRate[m], Cardinality(Hitting(attempt, "form", m, Nobody, s)), s)
        /\ formRate[m] \in Hits
    BY <1>2, <1>3, <1>13 DEF FormsCovered
  <2>2. PICK i \in Nat, j \in Nat :
          /\ i = Cardinality(Hitting(attempt, "form", m, Nobody, s))
          /\ j = Cardinality(Hitting(attempt', "form", m, Nobody, s))
          /\ j <= i + 1
          /\ ~(attempt'[r].counted /\ attempt'[r].net = m) => j <= i
    <3>1. /\ Cardinality(Hitting(attempt', "form", m, Nobody, s))
               <= Cardinality(Hitting(attempt, "form", m, Nobody, s)) + 1
          /\ ~(attempt'[r].counted /\ attempt'[r].net = m) =>
               Cardinality(Hitting(attempt', "form", m, Nobody, s))
                 <= Cardinality(Hitting(attempt, "form", m, Nobody, s))
          /\ Cardinality(Hitting(attempt, "form", m, Nobody, s)) \in Nat
          /\ Cardinality(Hitting(attempt', "form", m, Nobody, s)) \in Nat
      BY <1>7, HittingNext
    <3> QED
      BY <3>1
  <2>3. CASE m # n
    BY <1>4, <1>5, <1>10, <2>1, <2>2, <2>3, CoversLess
  <2>4. CASE m = n
    <3>1. Covers(dq(n), i, s)
      BY <1>3, <1>13, <2>1, <2>2, <2>4, CoversSince DEF dq, Trim
    <3>2. CASE ok(n) /\ s <= clock
      <4>1. hits(n) = Append(dq(n), clock)
        BY <3>2 DEF hits
      <4>2. Covers(hits(n), i + 1, s)
        BY <1>3, <1>8, <3>1, <3>2, <4>1, CoversAppend
      <4> QED
        BY <1>9, <1>10, <2>2, <2>4, <4>2, CoversLess
    <3>3. CASE ~ok(n)
      <4>1. hits(n) = dq(n) /\ j <= i
        BY <1>4, <1>5, <2>2, <3>3 DEF hits
      <4> QED
        BY <1>9, <1>10, <2>2, <2>4, <3>1, <4>1, CoversLess
    <3>4. CASE ~(s <= clock)
      <4>1. j = 0
        <5>1. \A x \in Attempt : attempt'[x].at \in Nat /\ attempt'[x].at <= clock
          BY <1>3, <1>4, <1>5 DEF Ages
        <5>2. Hitting(attempt', "form", m, Nobody, s) = {}
          BY <1>3, <3>4, <5>1 DEF Hitting
        <5> QED
          BY <2>2, <5>2, FS_EmptySet
      <4> QED
        BY <1>9, <1>10, <2>2, <2>4, <4>1, CoversNone
    <3> QED
      BY <3>2, <3>3, <3>4
  <2> QED
    BY <2>3, <2>4
<1>14. FormsCovered'
  <2> SUFFICES ASSUME NEW m \in Net
               PROVE  /\ Len(formRate'[m]) <= FormLimit
                      /\ \A s \in Int : s >= Cutoff =>
                           Covers(formRate'[m],
                                  Cardinality(Hitting(attempt', "form", m, Nobody, s)), s)
    BY <1>1 DEF FormsCovered, Cutoff
  <2>1. table(n)[m] \in Hits /\ Len(table(n)[m]) <= FormLimit /\ <<>> \in Hits /\ Len(<<>>) = 0
    BY <1>2, <1>9, <1>10, EmptySeq DEF FormsCovered, Hits
  <2>2. Len(formRate'[m]) <= FormLimit
    BY <1>3, <1>12, <2>1
  <2>3. ASSUME NEW s \in Int, s >= Cutoff, formRate'[m] = <<>>, Dead(table(n)[m])
        PROVE  Covers(formRate'[m], Cardinality(Hitting(attempt', "form", m, Nobody, s)), s)
    <3>1. PICK j \in Nat : j = Cardinality(Hitting(attempt', "form", m, Nobody, s))
      BY <1>7, HittingNext
    <3>2. Covers(table(n)[m], j, s)
      BY <1>13, <2>3, <3>1
    <3>3. table(n)[m] = <<>> \/ Last(table(n)[m]) < s
      <4>1. CASE table(n)[m] # <<>>
        <5>1. Len(table(n)[m]) \in 1..Len(table(n)[m])
          BY <2>1, <4>1, EmptySeq, HitsAre DEF Hits
        <5>2. Last(table(n)[m]) \in Nat
          BY <2>1, <5>1, HitsAre DEF Last
        <5> QED
          BY <1>3, <2>3, <4>1, <5>2 DEF Dead
      <4> QED
        BY <4>1
    <3>4. j <= 0
      BY <2>1, <3>2, <3>3, CoversDead
    <3> QED
      BY <2>1, <2>3, <3>1, <3>4, CoversNone
  <2> QED
    BY <1>12, <1>13, <2>2, <2>3
<1>15. /\ loginFailures' = loginFailures /\ loginNetHits' = loginNetHits /\ lastPrune' = lastPrune
       /\ anonHits' = anonHits /\ clock' = clock /\ log' = log /\ slots' = slots
  BY <1>1 DEF loginVars
<1>16. LimitTypes'
  <2>1. \A m \in Net : InOrder(formRate'[m])
    BY <1>3, <1>9, <1>10, <1>12 DEF InOrder
  <2>2. /\ clock' \in 0..MaxClock /\ lastPrune' \in 0..MaxClock /\ slots' \in 0..Slots
        /\ log' \in [{"pdf", "mail"} -> Hits] /\ \A k \in {"pdf", "mail"} : InOrder(log'[k])
    BY <1>2, <1>15 DEF LimitTypes
  <2> QED
    BY <1>5, <1>7, <1>11, <2>1, <2>2, LimitTypesNext
<1>17. Tables'
  BY <1>2, <1>7, <1>15, TableNext, TablesNext
<1>18. /\ Stays(attempt, attempt', {"login"}) /\ Stays(attempt, attempt', Renders)
       /\ Stays(attempt, attempt', {"anon"})
       /\ \A k \in {"pdf", "mail"} : Stays(attempt, attempt', OpsOf(k))
  BY <1>7 DEF OpsOf, Renders
<1>19. LoginsCovered' /\ NetsCovered' /\ AnonCovered'
  BY <1>2, <1>7, <1>15, <1>18, LoginsFrame, NetsFrame, AnonFrame DEF LimitsInv
<1>20. LogsCovered'
  BY <1>7, <1>15, <1>18, LogFrame, LogsSplit DEF LimitsInv
<1>21. SlotsReturned'
  BY <1>2, <1>7, <1>15, <1>18, SlotsFrame DEF LimitsInv
<1> QED
  BY <1>7, <1>14, <1>16, <1>17, <1>19, <1>20, <1>21 DEF LimitsInv
-----------------------------------------------------------------------------
(***************************************************************************)
(* Logins and OAuth requests: the attempts of op are counted by key k, which  *)
(* is a network and what was typed, or a network alone.                      *)
(***************************************************************************)
NetOf(op, k)   == IF op = "login" THEN k[1] ELSE k
EmailOf(op, k) == IF op = "login" THEN k[2] ELSE Nobody
HitBy(a, op, k, s) == Hitting(a, op, NetOf(op, k), EmailOf(op, k), s)

KeyCovered(d, op, K, limit) ==
  \A k \in K :
    /\ Len(HitsOf(d, k)) <= limit
    /\ \A s \in Int : s > Cutoff =>
         Covers(HitsOf(d, k), Cardinality(HitBy(attempt, op, k, s)), s)

KeyCoveredThen(d, op, K, limit) ==
  \A k \in K :
    /\ Len(HitsOf(d, k)) <= limit
    /\ \A s \in Int : s > Cutoff =>
         Covers(HitsOf(d, k), Cardinality(HitBy(attempt', op, k, s)), s)

LEMMA KeysCovered ==
  /\ LoginsCovered => KeyCovered(loginFailures, "login", Key, LoginLimit)
  /\ AnonCovered => KeyCovered(anonHits, "anon", Net, AnonLimit)
  /\ clock' = clock /\ KeyCoveredThen(loginFailures', "login", Key, LoginLimit) => LoginsCovered'
  /\ clock' = clock /\ KeyCoveredThen(anonHits', "anon", Net, AnonLimit) => AnonCovered'
<1>1. /\ \A a, k, s : HitBy(a, "login", k, s) = Hitting(a, "login", k[1], k[2], s)
      /\ \A a, k, s : HitBy(a, "anon", k, s) = Hitting(a, "anon", k, Nobody, s)
  BY DEF HitBy, NetOf, EmailOf
<1>2. LoginsCovered => KeyCovered(loginFailures, "login", Key, LoginLimit)
  BY <1>1 DEF LoginsCovered, KeyCovered
<1>3. AnonCovered => KeyCovered(anonHits, "anon", Net, AnonLimit)
  BY <1>1 DEF AnonCovered, KeyCovered
<1>4. clock' = clock /\ KeyCoveredThen(loginFailures', "login", Key, LoginLimit) => LoginsCovered'
  BY <1>1 DEF LoginsCovered, KeyCoveredThen, Cutoff
<1>5. clock' = clock /\ KeyCoveredThen(anonHits', "anon", Net, AnonLimit) => AnonCovered'
  BY <1>1 DEF AnonCovered, KeyCoveredThen, Cutoff
<1> QED
  BY <1>2, <1>3, <1>4, <1>5

\* The new attempt r of key k finds the trimmed table e over its limit, or adds a
\* hit to it, which pushes other keys out.
LEMMA KeyHit ==
  ASSUME LimitTypes, Attempts, NEW op \in {"login", "anon"}, NEW K, NEW limit \in Nat,
         \A i, j \in K : NetOf(op, i) = NetOf(op, j) /\ EmailOf(op, i) = EmailOf(op, j) => i = j,
         NEW d, Table(d, K), KeyCovered(d, op, K, limit), NEW e, Trims(e, d, K), NEW k \in K,
         NEW r \in Attempt, attempt[r] = New, NEW q, Moves(r, q, {op}),
         q.net = NetOf(op, k), q.email = EmailOf(op, k), q.at = clock, NEW over \in BOOLEAN,
         over => ~q.counted, ~over => Len(HitsOf(e, k)) < limit,
         \A s \in Attempt \ {r}, j \in K :
           ~over /\ j \in Evicted(e, k) /\ attempt[s].op = op /\ attempt[s].net = NetOf(op, j)
             /\ attempt[s].email = EmailOf(op, j) => ~attempt'[s].counted
  PROVE  /\ TableThen(IF over THEN e ELSE AddHit(e, k, r), K)
         /\ KeyCoveredThen(IF over THEN e ELSE AddHit(e, k, r), op, K, limit)
<1>1. /\ Onward /\ clock' = clock /\ clock \in Nat /\ clock \in Int /\ attempt'[r] = q /\ q # New
      /\ \A s \in Attempt : attempt[s] # New => attempt'[s] # New
      /\ \A s \in Attempt \ {r} : Loses(attempt[s], attempt'[s])
      /\ q.op = op
  BY MovesIs, LimitTypesAre DEF Moves
<1>2. Table(e, K)
  BY DEF Trims
<1>3. \A j \in K : HitsOf(d, j) \in Hits /\ HitsOf(e, j) \in Hits /\ Len(HitsOf(d, j)) \in Nat
                   /\ Len(HitsOf(e, j)) \in Nat
  BY <1>2, TableIs, HitsAre
<1>4. \A j \in K : Len(HitsOf(e, j)) <= limit
  BY <1>3 DEF Trims, KeyCovered
<1>5. ASSUME NEW j \in K, NEW s \in Int, s > Cutoff
      PROVE  Covers(HitsOf(e, j), Cardinality(HitBy(attempt, op, j, s)), s)
  <2>1. Cardinality(HitBy(attempt, op, j, s)) \in Nat
    BY CountTypes, Zenon DEF HitBy
  <2>2. PICK m \in Int : m = Cardinality(HitBy(attempt, op, j, s))
    BY <2>1
  <2>3. Covers(HitsOf(d, j), m, s)
    BY <1>5, <2>2 DEF KeyCovered
  <2>4. Covers(HitsOf(e, j), m, s)
    BY <1>5, <2>3 DEF Trims
  <2> QED
    BY <2>2, <2>4
<1>6. ASSUME NEW j \in K, NEW s \in Int
      PROVE  /\ Cardinality(HitBy(attempt', op, j, s)) <= Cardinality(HitBy(attempt, op, j, s)) + 1
             /\ j # k \/ over => Cardinality(HitBy(attempt', op, j, s))
                                   <= Cardinality(HitBy(attempt, op, j, s))
             /\ Cardinality(HitBy(attempt, op, j, s)) \in Int
             /\ Cardinality(HitBy(attempt', op, j, s)) \in Int
  <2>1. /\ Cardinality(HitBy(attempt', op, j, s)) <= Cardinality(HitBy(attempt, op, j, s)) + 1
        /\ ~(q.op = op /\ q.counted /\ q.net = NetOf(op, j) /\ q.email = EmailOf(op, j)) =>
             Cardinality(HitBy(attempt', op, j, s)) <= Cardinality(HitBy(attempt, op, j, s))
        /\ Cardinality(HitBy(attempt, op, j, s)) \in Nat
        /\ Cardinality(HitBy(attempt', op, j, s)) \in Nat
    BY <1>1, HittingNext DEF HitBy
  <2> QED
    BY <2>1
<1>7. ASSUME NEW j \in K, NEW s \in Int, s > Cutoff, j # k \/ over
      PROVE  Covers(HitsOf(e, j), Cardinality(HitBy(attempt', op, j, s)), s)
  BY <1>3, <1>5, <1>6, <1>7, CoversLess
<1>8. CASE over
  <2>1. TableThen(e, K)
    BY <1>1, <1>2, TableNext
  <2> QED
    BY <1>4, <1>7, <1>8, <2>1 DEF KeyCoveredThen
<1>9. CASE ~over
  <2>1. PICK f : f = AddHit(e, k, r)
    OBVIOUS
  <2>2. /\ IsDict(f, K) /\ Cardinality(DOMAIN f) <= MaxKeys
        /\ \A j \in DOMAIN f :
             /\ InOrder(f[j].hits) /\ attempt'[f[j].by] # New
             /\ \A i \in DOMAIN f : f[i].by = f[j].by => i = j
        /\ HitsOf(f, k) = Append(HitsOf(e, k), clock)
        /\ \A j \in K : j # k => HitsOf(f, j) = IF j \in Evicted(e, k) THEN <<>> ELSE HitsOf(e, j)
    BY <1>1, <1>2, <2>1, AddHitIs
  <2>3. TableThen(f, K)
    <3>1. \A j \in DOMAIN f : f[j].hits \in Hits
      BY <2>2 DEF IsDict, Entry
    <3>2. \A j \in DOMAIN f : \A x, y \in DOMAIN f[j].hits :
            x <= y => f[j].hits[x] <= f[j].hits[y] /\ f[j].hits[y] <= clock'
      BY <1>1, <2>2, <3>1, OrderNext
    <3> QED
      BY <2>2, <3>2 DEF TableThen
  <2>4. ASSUME NEW j \in K
        PROVE  /\ Len(HitsOf(f, j)) <= limit
               /\ \A s \in Int : s > Cutoff =>
                    Covers(HitsOf(f, j), Cardinality(HitBy(attempt', op, j, s)), s)
    <3>1. CASE j = k
      <4>1. /\ Append(HitsOf(e, k), clock) \in Hits
            /\ Len(Append(HitsOf(e, k), clock)) = Len(HitsOf(e, k)) + 1
        BY <1>1, <1>3, AppendIs
      <4>2. Len(HitsOf(f, k)) <= limit
        BY <1>3, <1>9, <2>2, <4>1
      <4>3. ASSUME NEW s \in Int, s > Cutoff, s <= clock
            PROVE  Covers(HitsOf(f, k), Cardinality(HitBy(attempt', op, k, s)), s)
        <5>1. PICK m \in Int, n \in Int :
                /\ m = Cardinality(HitBy(attempt, op, k, s))
                /\ n = Cardinality(HitBy(attempt', op, k, s)) /\ n <= m + 1
          BY <1>6
        <5>2. Covers(HitsOf(e, k), m, s)
          BY <1>5, <4>3, <5>1
        <5>3. Covers(Append(HitsOf(e, k), clock), m + 1, s)
          BY <1>1, <1>3, <4>3, <5>2, CoversAppend
        <5>4. Covers(Append(HitsOf(e, k), clock), n, s)
          BY <4>1, <5>1, <5>3, CoversLess
        <5> QED
          BY <2>2, <5>1, <5>4
      <4>4. ASSUME NEW s \in Int, s > clock
            PROVE  Covers(HitsOf(f, k), Cardinality(HitBy(attempt', op, k, s)), s)
        <5>1. \A x \in Attempt : attempt'[x].at \in Nat /\ attempt'[x].at <= clock
          BY <1>1, LimitTypesAre DEF Ages, Loses
        <5>2. HitBy(attempt', op, k, s) = {}
          BY <1>1, <4>4, <5>1 DEF HitBy, Hitting
        <5>3. Cardinality(HitBy(attempt', op, k, s)) = 0
          BY <5>2, FS_EmptySet
        <5>4. Covers(Append(HitsOf(e, k), clock), 0, s)
          BY <4>1, CoversNone
        <5> QED
          BY <2>2, <5>3, <5>4
      <4> QED
        BY <1>1, <3>1, <4>2, <4>3, <4>4
    <3>2. CASE j # k /\ j \notin Evicted(e, k)
      BY <1>4, <1>7, <2>2, <3>2
    <3>3. CASE j # k /\ j \in Evicted(e, k)
      <4>1. HitsOf(f, j) = <<>> /\ <<>> \in Hits /\ Len(<<>>) = 0
        BY <2>2, <3>3, EmptySeq DEF Hits
      <4>2. ASSUME NEW s \in Int PROVE HitBy(attempt', op, j, s) = {}
        <5> SUFFICES ASSUME NEW x \in Attempt, x \in HitBy(attempt', op, j, s) PROVE FALSE
          BY DEF HitBy, Hitting
        <5>1. /\ attempt'[x].op = op /\ attempt'[x].counted
              /\ attempt'[x].net = NetOf(op, j) /\ attempt'[x].email = EmailOf(op, j)
          BY DEF HitBy, Hitting
        <5>2. x # r
          BY <1>1, <3>3, <5>1
        <5>3. /\ attempt[x].op = op /\ attempt[x].net = NetOf(op, j)
              /\ attempt[x].email = EmailOf(op, j)
          BY <1>1, <5>1, <5>2 DEF Loses
        <5> QED
          BY <1>9, <3>3, <5>1, <5>2, <5>3
      <4>3. ASSUME NEW s \in Int PROVE Covers(<<>>, Cardinality(HitBy(attempt', op, j, s)), s)
        <5>1. Cardinality(HitBy(attempt', op, j, s)) = 0
          BY <4>2, FS_EmptySet
        <5>2. Covers(<<>>, 0, s)
          BY <4>1, CoversNone
        <5> QED
          BY <5>1, <5>2
      <4> QED
        BY <4>1, <4>3
    <3> QED
      BY <3>1, <3>2, <3>3
  <2> QED
    BY <1>9, <2>1, <2>3, <2>4 DEF KeyCoveredThen
<1> QED
  BY <1>8, <1>9

LEMMA AnonRequestKeeps == ASSUME LimitsInv, NEW r \in Attempt, AnonRequest(r) PROVE LimitsInv'
<1> DEFINE fresh == PruneAll(anonHits)
           over(n) == Len(HitsOf(fresh, n)) >= AnonLimit
           q(n)  == Arrive("anon", n, Nobody, 1, IF over(n) THEN "refused" ELSE "done")
           out(n) == IF over(n) THEN {} ELSE Evicted(fresh, n) \X {Nobody}
<1>1. PICK n \in Net :
        /\ attempt[r] = New
        /\ anonHits' = IF over(n) THEN fresh ELSE AddHit(fresh, n, r)
        /\ attempt' = [Forget(attempt, "anon", out(n)) EXCEPT ![r] = q(n)]
        /\ clock' = clock /\ UNCHANGED <<loginVars, formRate, log, slots>>
  BY DEF AnonRequest, IsNext
<1>2. /\ LimitTypes /\ Attempts /\ Table(loginFailures, Key) /\ Table(loginNetHits, Net)
      /\ Table(anonHits, Net) /\ AnonCovered
  BY DEF LimitsInv, Tables
<1>3. /\ clock \in Nat /\ clock \in Int /\ attempt \in [Attempt -> AttemptState]
      /\ AnonLimit \in Nat /\ formRate \in [Net -> Hits]
  BY <1>2, LimitTypesAre, LimitAssumption DEF LimitTypes
<1>4. Trims(fresh, anonHits, Net)
  BY <1>2, <1>3, PruneTrims
<1>5. Len(HitsOf(fresh, n)) \in Nat
  BY <1>4, TableIs, HitsAre DEF Trims
<1>6. \E ov \in BOOLEAN : (ov <=> over(n)) /\ (~ov => Len(HitsOf(fresh, n)) < AnonLimit)
  <2>1. CASE over(n)
    <3> WITNESS TRUE \in BOOLEAN
    <3> QED
      BY <2>1
  <2>2. CASE ~over(n)
    <3>1. Len(HitsOf(fresh, n)) < AnonLimit
      BY <1>3, <1>5, <2>2
    <3> WITNESS FALSE \in BOOLEAN
    <3> QED
      BY <2>2, <3>1
  <2> QED
    BY <2>1, <2>2
<1>7. PICK ov \in BOOLEAN : (ov <=> over(n)) /\ (~ov => Len(HitsOf(fresh, n)) < AnonLimit)
  BY <1>6, Zenon
<1> HIDE DEF fresh, over
<1>8. /\ q(n) \in AttemptState /\ SoundAttempt(q(n)) /\ q(n) # New /\ q(n).op = "anon"
      /\ q(n).net = n /\ q(n).email = Nobody /\ q(n).at = clock
      /\ ov => ~q(n).counted
  <2>1. PICK pc : pc = IF over(n) THEN "refused" ELSE "done"
    OBVIOUS
  <2>2. pc \in {"done", "refused"} /\ (ov => pc = "refused")
    BY <1>7, <2>1
  <2>3. /\ "anon" \in AttemptOps \ {"none"} /\ pc \in Stages \ {"new"} /\ n \in Net \cup {Nobody}
        /\ Nobody \in Email \cup {Nobody} /\ 1 \in Nat
        /\ pc \notin {"verifying", "reserved", "rendering", "delivering", "sending"}
    BY <2>2 DEF AttemptOps, Stages
  <2>4. q(n) = Arrive("anon", n, Nobody, 1, pc)
    BY <2>1
  <2> HIDE DEF q
  <2> QED
    BY <1>3, <2>2, <2>3, <2>4, ArriveIs
<1> HIDE DEF q
<1>9. /\ attempt' \in [Attempt -> AttemptState] /\ attempt'[r] = q(n)
      /\ \A s \in Attempt \ {r} :
           /\ attempt'[s] = attempt[s] \/ (attempt[s].op = "anon" /\ Loses(attempt[s], attempt'[s]))
           /\ attempt[s].op = "anon" /\ <<attempt[s].net, attempt[s].email>> \in out(n) =>
                ~attempt'[s].counted
  <2> HIDE DEF out
  <2> QED
    BY <1>1, <1>3, <1>8, Forgets
<1>10. Moves(r, q(n), {"anon"})
  <2>1. attempt[r].op = "none" /\ clock' = clock
    BY <1>1 DEF New
  <2> QED
    BY <1>8, <1>9, <2>1 DEF Moves, AttemptOps, Renders
<1>11. /\ Onward /\ Attempts' /\ \A s \in Attempt : attempt[s] # New => attempt'[s] # New
       /\ \A s \in Attempt \ {r} : Loses(attempt[s], attempt'[s])
       /\ \A o : o \cap ({"anon"} \cup {"none"}) = {} => Stays(attempt, attempt', o)
  BY <1>2, <1>10, MovesIs
<1>12. \A s \in Attempt \ {r}, j \in Net :
         ~ov /\ j \in Evicted(fresh, n) /\ attempt[s].op = "anon"
           /\ attempt[s].net = NetOf("anon", j) /\ attempt[s].email = EmailOf("anon", j) =>
           ~attempt'[s].counted
  <2> SUFFICES ASSUME NEW s \in Attempt \ {r}, NEW j \in Net, ~ov, j \in Evicted(fresh, n),
                      attempt[s].op = "anon", attempt[s].net = j, attempt[s].email = Nobody
               PROVE  ~attempt'[s].counted
    BY DEF NetOf, EmailOf
  <2>1. <<attempt[s].net, attempt[s].email>> \in out(n)
    BY <1>7
  <2> QED
    BY <1>9, <2>1
<1>13. /\ TableThen(IF ov THEN fresh ELSE AddHit(fresh, n, r), Net)
       /\ KeyCoveredThen(IF ov THEN fresh ELSE AddHit(fresh, n, r), "anon", Net, AnonLimit)
  <2>1. \A i, j \in Net : NetOf("anon", i) = NetOf("anon", j) /\ EmailOf("anon", i) = EmailOf("anon", j)
                            => i = j
    BY DEF NetOf
  <2>2. q(n).net = NetOf("anon", n) /\ q(n).email = EmailOf("anon", n)
    BY <1>8 DEF NetOf, EmailOf
  <2>3. KeyCovered(anonHits, "anon", Net, AnonLimit)
    BY <1>2, KeysCovered
  <2>4. attempt[r] = New
    BY <1>1
  <2> QED
    BY <1>2, <1>3, <1>4, <1>7, <1>8, <1>10, <1>12, <2>1, <2>2, <2>3, <2>4, KeyHit
<1>14. anonHits' = IF ov THEN fresh ELSE AddHit(fresh, n, r)
  BY <1>1, <1>7
<1>15. AnonCovered' /\ TableThen(anonHits', Net)
  BY <1>1, <1>13, <1>14, KeysCovered
<1>16. /\ loginFailures' = loginFailures /\ loginNetHits' = loginNetHits /\ lastPrune' = lastPrune
       /\ formRate' = formRate /\ clock' = clock /\ log' = log /\ slots' = slots
  BY <1>1 DEF loginVars
<1>17. LimitTypes'
  BY <1>2, <1>9, <1>11, <1>16, LimitTypesNext DEF LimitTypes
<1>18. Tables'
  BY <1>2, <1>11, <1>15, <1>16, TableNext, TablesNext
<1>19. /\ Stays(attempt, attempt', {"login"}) /\ Stays(attempt, attempt', Renders)
       /\ Stays(attempt, attempt', {"form"})
       /\ \A k \in {"pdf", "mail"} : Stays(attempt, attempt', OpsOf(k))
  BY <1>11 DEF OpsOf, Renders
<1>20. LoginsCovered' /\ NetsCovered' /\ FormsCovered'
  BY <1>2, <1>3, <1>11, <1>16, <1>19, LoginsFrame, NetsFrame, FormsFrame DEF LimitsInv
<1>21. LogsCovered'
  BY <1>11, <1>16, <1>19, LogFrame, LogsSplit DEF LimitsInv
<1>22. SlotsReturned'
  BY <1>2, <1>11, <1>16, <1>19, SlotsFrame DEF LimitsInv
<1> QED
  BY <1>11, <1>15, <1>17, <1>18, <1>20, <1>21, <1>22 DEF LimitsInv
-----------------------------------------------------------------------------
(***************************************************************************)
(* Logins.  A network has a hit for each guess it made since its key was last *)
(* dropped, save those that a success took back.                             *)
(***************************************************************************)
\* A new attempt r of network n finds the trimmed table e over its limit, or adds a
\* hit to it.
LEMMA NetHit ==
  ASSUME LimitTypes, Attempts, Table(loginNetHits, Net), NetsCovered,
         NEW e, Trims(e, loginNetHits, Net), NEW n \in Net, NEW r \in Attempt, attempt[r] = New,
         NEW q, Moves(r, q, {"login"}), q.net = n, q.pc \in {"verifying", "refused"},
         NEW over \in BOOLEAN, over => q.pc = "refused", ~over => Len(HitsOf(e, n)) < NetLimit,
         \A x \in Attempt \ {r} : ~over /\ Guessing(attempt[x]) /\ attempt[x].net \in Evicted(e, n)
                                    => attempt'[x].netHit = "none",
         NEW f, f = (IF over THEN e ELSE AddHit(e, n, r))
  PROVE  TableThen(f, Net) /\ (loginNetHits' = f => NetsCovered')
<1>1. /\ Onward /\ clock' = clock /\ clock \in Nat /\ clock \in Int /\ attempt'[r] = q /\ q # New
      /\ \A s \in Attempt : attempt[s] # New => attempt'[s] # New
      /\ \A s \in Attempt \ {r} : Loses(attempt[s], attempt'[s])
      /\ q.op = "login" /\ attempt' \in [Attempt -> AttemptState] /\ Attempts'
      /\ NetLimit \in Nat
  BY MovesIs, LimitTypesAre, LimitAssumption DEF Moves
<1>2. Table(e, Net)
  BY DEF Trims
<1>3. \A j \in Net : HitsOf(loginNetHits, j) \in Hits /\ HitsOf(e, j) \in Hits
                     /\ Len(HitsOf(loginNetHits, j)) \in Nat /\ Len(HitsOf(e, j)) \in Nat
  BY <1>2, TableIs, HitsAre
<1>4. \A j \in Net : Len(HitsOf(e, j)) <= NetLimit
  BY <1>1, <1>3 DEF Trims, NetsCovered
<1>5. attempt[r].op = "none" /\ attempt[r].pc = "new"
  BY DEF New
<1>6. ASSUME NEW m \in Net, NEW s \in Int
      PROVE  \E t, g, tt, gg \in Nat :
               /\ t = Cardinality(Trying(attempt, m, s)) /\ tt = Cardinality(Trying(attempt', m, s))
               /\ g = Cardinality(Freed(attempt, m, s)) /\ gg = Cardinality(Freed(attempt', m, s))
               /\ tt <= t + 1 /\ g <= gg /\ (q.pc = "refused" \/ m # n => tt <= t)
               /\ (s > clock => tt = 0) /\ (~over /\ m \in Evicted(e, n) /\ m # n => tt = 0)
  <2>1. /\ Trying(attempt', m, s) \in SUBSET (Trying(attempt, m, s) \cup {r})
        /\ q.pc = "refused" \/ m # n => Trying(attempt', m, s) \in SUBSET Trying(attempt, m, s)
        /\ Freed(attempt, m, s) \in SUBSET Freed(attempt', m, s)
    BY <1>1, <1>5 DEF Trying, Freed, Loses, Guessing
  <2>2. s > clock => Trying(attempt', m, s) = {}
    <3>1. \A x \in Attempt : attempt'[x].at \in Nat /\ attempt'[x].at <= clock
      BY <1>1 DEF AttemptState, Attempts, SoundAttempt
    <3> QED
      BY <1>1, <3>1 DEF Trying
  <2>3. ~over /\ m \in Evicted(e, n) /\ m # n => Trying(attempt', m, s) = {}
    <3> SUFFICES ASSUME ~over, m \in Evicted(e, n), m # n, NEW x \in Trying(attempt', m, s)
                 PROVE  FALSE
      OBVIOUS
    <3>1. x \in Attempt \ {r} /\ attempt'[x].net = m /\ attempt'[x].netHit = "own" /\ Guessing(attempt'[x])
      BY <1>1 DEF Trying
    <3>2. Guessing(attempt[x]) /\ attempt[x].net = m
      BY <1>1, <3>1 DEF Loses, Guessing
    <3> QED
      BY <3>1, <3>2
  <2>4. /\ Trying(attempt, m, s) \in SUBSET Attempt /\ Freed(attempt', m, s) \in SUBSET Attempt
    BY CountTypes, Zenon
  <2>5. /\ Cardinality(Trying(attempt, m, s)) \in Nat /\ Cardinality(Trying(attempt', m, s)) \in Nat
        /\ Cardinality(Freed(attempt, m, s)) \in Nat /\ Cardinality(Freed(attempt', m, s)) \in Nat
    BY CountTypes, Zenon
  <2>6. /\ Cardinality(Trying(attempt', m, s)) <= Cardinality(Trying(attempt, m, s)) + 1
        /\ Cardinality(Freed(attempt, m, s)) <= Cardinality(Freed(attempt', m, s))
    BY <2>1, <2>4, OneMore, Fewer
  <2>7. q.pc = "refused" \/ m # n =>
          Cardinality(Trying(attempt', m, s)) <= Cardinality(Trying(attempt, m, s))
    BY <2>1, <2>4, Fewer
  <2>8. /\ s > clock => Cardinality(Trying(attempt', m, s)) = 0
        /\ ~over /\ m \in Evicted(e, n) /\ m # n => Cardinality(Trying(attempt', m, s)) = 0
    BY <2>2, <2>3, FS_EmptySet
  <2> QED
    BY <2>5, <2>6, <2>7, <2>8
<1>7. ASSUME NEW m \in Net, NEW s \in Int, s > Cutoff
      PROVE  Covers(HitsOf(e, m),
                    Cardinality(Trying(attempt, m, s)) - Cardinality(Freed(attempt, m, s)), s)
  <2>1. /\ Cardinality(Trying(attempt, m, s)) \in Nat
        /\ Cardinality(Freed(attempt, m, s)) \in Nat
    BY CountTypes, Zenon
  <2>2. PICK d \in Int : d = Cardinality(Trying(attempt, m, s)) - Cardinality(Freed(attempt, m, s))
    BY <2>1
  <2>3. Covers(HitsOf(loginNetHits, m), d, s)
    BY <1>7, <2>2 DEF NetsCovered
  <2>4. Covers(HitsOf(e, m), d, s)
    BY <1>7, <2>3 DEF Trims
  <2> QED
    BY <2>2, <2>4
<1>8. /\ TableThen(f, Net)
      /\ \A j \in Net : Len(HitsOf(f, j)) <= NetLimit
      /\ HitsOf(f, n) = (IF over THEN HitsOf(e, n) ELSE Append(HitsOf(e, n), clock))
      /\ \A j \in Net : j # n =>
           HitsOf(f, j) = IF ~over /\ j \in Evicted(e, n) THEN <<>> ELSE HitsOf(e, j)
  <2>1. CASE over
    BY <1>1, <1>2, <1>4, <2>1, TableNext
  <2>2. CASE ~over
    <3>1. /\ IsDict(f, Net) /\ Cardinality(DOMAIN f) <= MaxKeys
          /\ \A j \in DOMAIN f :
               /\ InOrder(f[j].hits) /\ attempt'[f[j].by] # New
               /\ \A i \in DOMAIN f : f[i].by = f[j].by => i = j
          /\ HitsOf(f, n) = Append(HitsOf(e, n), clock)
          /\ \A j \in Net : j # n => HitsOf(f, j) = IF j \in Evicted(e, n) THEN <<>> ELSE HitsOf(e, j)
      BY <1>1, <1>2, <2>2, AddHitIs
    <3>2. \A j \in DOMAIN f : f[j].hits \in Hits
      BY <3>1 DEF IsDict, Entry
    <3>3. \A j \in DOMAIN f : \A x, y \in DOMAIN f[j].hits :
            x <= y => f[j].hits[x] <= f[j].hits[y] /\ f[j].hits[y] <= clock'
      BY <1>1, <3>1, <3>2, OrderNext
    <3>4. TableThen(f, Net)
      BY <3>1, <3>3 DEF TableThen
    <3>5. Len(HitsOf(f, n)) <= NetLimit
      <4>1. Len(Append(HitsOf(e, n), clock)) = Len(HitsOf(e, n)) + 1
        BY <1>1, <1>3, AppendIs
      <4> QED
        BY <1>1, <1>3, <2>2, <3>1, <4>1
    <3>6. \A j \in Net : Len(HitsOf(f, j)) <= NetLimit
      <4>1. <<>> \in Hits /\ Len(<<>>) = 0
        BY EmptySeq DEF Hits
      <4> QED
        BY <1>1, <1>4, <3>1, <3>5, <4>1
    <3> QED
      BY <2>2, <3>1, <3>4, <3>6
  <2> QED
    BY <2>1, <2>2
<1>9. ASSUME NEW s \in Int, s > Cutoff
      PROVE  Covers(HitsOf(f, n),
                    Cardinality(Trying(attempt', n, s)) - Cardinality(Freed(attempt', n, s)), s)
  <2>1. PICK t, g, tt, gg \in Nat :
          /\ t = Cardinality(Trying(attempt, n, s)) /\ tt = Cardinality(Trying(attempt', n, s))
          /\ g = Cardinality(Freed(attempt, n, s)) /\ gg = Cardinality(Freed(attempt', n, s))
          /\ tt <= t + 1 /\ g <= gg /\ (q.pc = "refused" => tt <= t) /\ (s > clock => tt = 0)
    BY <1>6
  <2>2. Covers(HitsOf(e, n), t - g, s)
    BY <1>7, <1>9, <2>1
  <2>3. t - g \in Int /\ tt - gg \in Int /\ (t - g) + 1 \in Int /\ tt - gg <= (t - g) + 1
    BY <2>1
  <2>4. Covers(HitsOf(f, n), tt - gg, s)
    <3>1. CASE over
      <4>1. tt - gg <= t - g
        BY <2>1, <3>1
      <4> QED
        BY <1>3, <1>8, <2>2, <2>3, <3>1, <4>1, CoversLess
    <3>2. CASE ~over /\ s <= clock
      <4>1. Covers(Append(HitsOf(e, n), clock), (t - g) + 1, s)
        BY <1>1, <1>3, <2>2, <2>3, <3>2, CoversAppend
      <4>2. Append(HitsOf(e, n), clock) \in Hits
        BY <1>1, <1>3, AppendIs
      <4>3. Covers(Append(HitsOf(e, n), clock), tt - gg, s)
        BY <2>3, <4>1, <4>2, CoversLess
      <4> QED
        BY <1>8, <3>2, <4>3
    <3>3. CASE ~over /\ s > clock
      <4>1. tt - gg <= 0
        BY <2>1, <3>3
      <4>2. Append(HitsOf(e, n), clock) \in Hits
        BY <1>1, <1>3, AppendIs
      <4>3. Covers(Append(HitsOf(e, n), clock), tt - gg, s)
        BY <2>3, <4>1, <4>2, CoversNone
      <4> QED
        BY <1>8, <3>3, <4>3
    <3> QED
      BY <1>1, <3>1, <3>2, <3>3
  <2> QED
    BY <2>1, <2>4
<1>10. ASSUME NEW m \in Net, m # n, NEW s \in Int, s > Cutoff
       PROVE  Covers(HitsOf(f, m),
                     Cardinality(Trying(attempt', m, s)) - Cardinality(Freed(attempt', m, s)), s)
  <2>1. PICK t, g, tt, gg \in Nat :
          /\ t = Cardinality(Trying(attempt, m, s)) /\ tt = Cardinality(Trying(attempt', m, s))
          /\ g = Cardinality(Freed(attempt, m, s)) /\ gg = Cardinality(Freed(attempt', m, s))
          /\ tt <= t + 1 /\ g <= gg /\ (q.pc = "refused" \/ m # n => tt <= t)
          /\ (s > clock => tt = 0) /\ (~over /\ m \in Evicted(e, n) /\ m # n => tt = 0)
    BY <1>6
  <2>2. /\ t - g \in Int /\ tt - gg \in Int /\ tt - gg <= t - g
        /\ (~over /\ m \in Evicted(e, n) => tt = 0)
    BY <1>10, <2>1
  <2>3. Covers(HitsOf(f, m), tt - gg, s)
    <3>1. CASE ~over /\ m \in Evicted(e, n)
      <4>1. tt - gg <= 0 /\ <<>> \in Hits
        BY <2>1, <2>2, <3>1, EmptySeq DEF Hits
      <4>2. Covers(<<>>, tt - gg, s)
        BY <1>10, <2>2, <4>1, CoversNone
      <4> QED
        BY <1>8, <1>10, <3>1, <4>2
    <3>2. CASE ~(~over /\ m \in Evicted(e, n))
      <4>1. Covers(HitsOf(e, m), t - g, s)
        BY <1>7, <1>10, <2>1
      <4>2. Covers(HitsOf(e, m), tt - gg, s)
        BY <1>3, <1>10, <2>2, <4>1, CoversLess
      <4>3. HitsOf(f, m) = HitsOf(e, m)
        BY <1>8, <1>10, <3>2
      <4> QED
        BY <4>2, <4>3
    <3> QED
      BY <3>1, <3>2
  <2> QED
    BY <2>1, <2>3
<1>11. ASSUME loginNetHits' = f PROVE NetsCovered'
  <2> SUFFICES ASSUME NEW m \in Net
               PROVE  /\ Len(HitsOf(f, m)) <= NetLimit
                      /\ \A s \in Int : s > Cutoff =>
                           Covers(HitsOf(f, m), Cardinality(Trying(attempt', m, s))
                                                  - Cardinality(Freed(attempt', m, s)), s)
    BY <1>1, <1>11 DEF NetsCovered, Cutoff
  <2> QED
    BY <1>8, <1>9, <1>10
<1> QED
  BY <1>8, <1>11

\* What a login that is done with its own tables leaves alone.
LEMMA LoginKeeps ==
  ASSUME LimitsInv, NEW r \in Attempt, NEW q, Moves(r, q, {"login"}), lastPrune' \in 0..MaxClock,
         TableThen(loginFailures', Key), TableThen(loginNetHits', Net),
         LoginsCovered', NetsCovered', UNCHANGED <<formRate, anonHits, log, slots>>
  PROVE  LimitsInv'
<1>1. LimitTypes /\ Attempts /\ Table(anonHits, Net) /\ formRate \in [Net -> Hits]
  BY DEF LimitsInv, Tables, LimitTypes
<1>2. /\ Onward /\ Attempts' /\ \A s \in Attempt : attempt[s] # New => attempt'[s] # New
      /\ \A o : o \cap ({"login"} \cup {"none"}) = {} => Stays(attempt, attempt', o)
  BY <1>1, MovesIs
<1>3. /\ Stays(attempt, attempt', {"form"}) /\ Stays(attempt, attempt', {"anon"})
      /\ Stays(attempt, attempt', Renders)
      /\ \A k \in {"pdf", "mail"} : Stays(attempt, attempt', OpsOf(k))
  BY <1>2 DEF OpsOf, Renders
<1>4. /\ formRate' = formRate /\ anonHits' = anonHits /\ log' = log /\ slots' = slots
      /\ clock' = clock /\ attempt' \in [Attempt -> AttemptState]
  BY DEF Moves
<1>5. LimitTypes'
  BY <1>1, <1>2, <1>4, LimitTypesNext DEF LimitTypes
<1>6. Tables'
  BY <1>1, <1>2, <1>4, TableNext, TablesNext
<1>7. FormsCovered' /\ AnonCovered'
  BY <1>1, <1>2, <1>3, <1>4, FormsFrame, AnonFrame DEF LimitsInv
<1>8. LogsCovered'
  BY <1>2, <1>3, <1>4, LogFrame, LogsSplit DEF LimitsInv
<1>9. SlotsReturned'
  BY <1>1, <1>2, <1>3, <1>4, SlotsFrame DEF LimitsInv
<1> QED
  BY <1>2, <1>5, <1>6, <1>7, <1>8, <1>9 DEF LimitsInv

LEMMA BeginLoginKeeps == ASSUME LimitsInv, NEW r \in Attempt, BeginLogin(r) PROVE LimitsInv'
<1> DEFINE due     == clock - lastPrune > PruneEvery
           fails   == IF due THEN PruneAll(loginFailures) ELSE loginFailures
           pruned  == IF due THEN PruneAll(loginNetHits) ELSE loginNetHits
           nets(k) == FreshHits(pruned, k[1])
           spent(k) == Len(HitsOf(nets(k), k[1])) >= NetLimit
           trim(k) == IF spent(k) THEN fails ELSE FreshHits(fails, k)
           over(k) == spent(k) \/ Len(HitsOf(trim(k), k)) >= LoginLimit
           out(k)  == IF over(k) THEN {} ELSE Evicted(trim(k), k)
           gone(k) == IF over(k) THEN {} ELSE Evicted(nets(k), k[1])
           q(k)    == Arrive("login", k[1], k[2], 1, IF over(k) THEN "refused" ELSE "verifying")
<1>1. PICK k \in Key :
        /\ attempt[r] = New /\ clock' = clock
        /\ lastPrune' = IF due THEN clock ELSE lastPrune
        /\ loginFailures' = IF over(k) THEN trim(k) ELSE AddHit(trim(k), k, r)
        /\ loginNetHits'  = IF over(k) THEN nets(k) ELSE AddHit(nets(k), k[1], r)
        /\ attempt' = [ForgetNets(Forget(attempt, "login", out(k)), gone(k)) EXCEPT ![r] = q(k)]
        /\ UNCHANGED <<formRate, anonHits, log, slots>>
  BY DEF BeginLogin, IsNext
<1>2. /\ LimitTypes /\ Attempts /\ Table(loginFailures, Key) /\ Table(loginNetHits, Net)
      /\ LoginsCovered /\ NetsCovered
  BY DEF LimitsInv, Tables
<1>3. /\ clock \in Nat /\ clock \in Int /\ attempt \in [Attempt -> AttemptState]
      /\ LoginLimit \in Nat /\ NetLimit \in Nat
      /\ k[1] \in Net /\ k[2] \in Email /\ k = <<k[1], k[2]>>
  BY <1>2, LimitTypesAre, LimitAssumption DEF Key
<1>4. lastPrune' \in 0..MaxClock
  <2>1. clock \in 0..MaxClock /\ lastPrune \in 0..MaxClock
    BY <1>2 DEF LimitTypes
  <2> HIDE DEF due
  <2> QED
    BY <1>1, <2>1
<1>5. Trims(fails, loginFailures, Key) /\ Trims(pruned, loginNetHits, Net)
  BY <1>2, <1>3, PruneTrims, TrimsItself
<1> HIDE DEF fails, pruned
<1>6. Trims(nets(k), loginNetHits, Net)
  <2>1. Table(pruned, Net)
    BY <1>5 DEF Trims
  <2>2. Trims(nets(k), pruned, Net)
    BY <1>3, <2>1, FreshTrims
  <2> QED
    BY <1>2, <1>5, <2>2, TrimsTrims
<1>7. Trims(trim(k), loginFailures, Key)
  <2>1. Table(fails, Key)
    BY <1>5 DEF Trims
  <2>2. Trims(FreshHits(fails, k), fails, Key)
    BY <1>3, <2>1, FreshTrims
  <2>3. Trims(FreshHits(fails, k), loginFailures, Key)
    BY <1>2, <1>5, <2>2, TrimsTrims
  <2> QED
    BY <1>5, <2>3
<1> HIDE DEF nets, trim
<1>8. \E ov \in BOOLEAN :
        /\ ov <=> over(k)
        /\ ~ov => /\ Len(HitsOf(nets(k), k[1])) < NetLimit
                  /\ Len(HitsOf(trim(k), k)) < LoginLimit
  <2>1. Len(HitsOf(nets(k), k[1])) \in Nat /\ Len(HitsOf(trim(k), k)) \in Nat
    BY <1>6, <1>7, TableIs, HitsAre DEF Trims
  <2>2. CASE over(k)
    <3> WITNESS TRUE \in BOOLEAN
    <3> QED
      BY <2>2
  <2>3. CASE ~over(k)
    <3>1. /\ Len(HitsOf(nets(k), k[1])) < NetLimit
          /\ Len(HitsOf(trim(k), k)) < LoginLimit
      BY <1>3, <2>1, <2>3
    <3> WITNESS FALSE \in BOOLEAN
    <3> QED
      BY <2>3, <3>1
  <2> QED
    BY <2>2, <2>3
<1>9. PICK ov \in BOOLEAN :
        /\ ov <=> over(k)
        /\ ~ov => /\ Len(HitsOf(nets(k), k[1])) < NetLimit
                  /\ Len(HitsOf(trim(k), k)) < LoginLimit
  BY <1>8, Zenon
<1> HIDE DEF over
<1>10. /\ q(k) \in AttemptState /\ SoundAttempt(q(k)) /\ q(k) # New /\ q(k).op = "login"
       /\ q(k).net = k[1] /\ q(k).email = k[2] /\ q(k).at = clock
       /\ q(k).pc \in {"verifying", "refused"} /\ (ov => q(k).pc = "refused" /\ ~q(k).counted)
  <2>1. PICK pc : pc = IF over(k) THEN "refused" ELSE "verifying"
    OBVIOUS
  <2>2. pc \in {"verifying", "refused"} /\ (ov => pc = "refused")
    BY <1>9, <2>1
  <2>3. /\ "login" \in AttemptOps \ {"none"} /\ pc \in Stages \ {"new"}
        /\ k[1] \in Net \cup {Nobody} /\ k[2] \in Email \cup {Nobody} /\ 1 \in Nat
        /\ pc \notin {"reserved", "rendering", "delivering", "sending"}
    BY <1>3, <2>2 DEF AttemptOps, Stages
  <2>4. q(k) = Arrive("login", k[1], k[2], 1, pc)
    BY <2>1
  <2> HIDE DEF q
  <2> QED
    BY <1>3, <2>2, <2>3, <2>4, ArriveIs
<1> HIDE DEF q
<1>11. /\ attempt' \in [Attempt -> AttemptState] /\ attempt'[r] = q(k)
       /\ \A s \in Attempt \ {r} :
            /\ attempt'[s] = attempt[s] \/ (attempt[s].op = "login" /\ Loses(attempt[s], attempt'[s]))
            /\ attempt[s].op = "login" /\ <<attempt[s].net, attempt[s].email>> \in out(k) =>
                 ~attempt'[s].counted
            /\ Guessing(attempt[s]) /\ attempt[s].net \in gone(k) => attempt'[s].netHit = "none"
  <2> HIDE DEF out, gone
  <2> QED
    BY <1>1, <1>3, <1>10, ForgetsNets
<1>12. Moves(r, q(k), {"login"})
  <2>1. attempt[r].op = "none" /\ clock' = clock
    BY <1>1 DEF New
  <2> QED
    BY <1>10, <1>11, <2>1 DEF Moves, AttemptOps, Renders
<1>13. attempt[r] = New
  BY <1>1
<1>14. /\ TableThen(IF ov THEN trim(k) ELSE AddHit(trim(k), k, r), Key)
       /\ KeyCoveredThen(IF ov THEN trim(k) ELSE AddHit(trim(k), k, r), "login", Key, LoginLimit)
  <2>1. \A i, j \in Key : NetOf("login", i) = NetOf("login", j) /\ EmailOf("login", i) = EmailOf("login", j)
                            => i = j
    BY DEF NetOf, EmailOf, Key
  <2>2. q(k).net = NetOf("login", k) /\ q(k).email = EmailOf("login", k)
    BY <1>10 DEF NetOf, EmailOf
  <2>3. KeyCovered(loginFailures, "login", Key, LoginLimit)
    BY <1>2, KeysCovered
  <2>4. \A s \in Attempt \ {r}, j \in Key :
          ~ov /\ j \in Evicted(trim(k), k) /\ attempt[s].op = "login"
            /\ attempt[s].net = NetOf("login", j) /\ attempt[s].email = EmailOf("login", j) =>
            ~attempt'[s].counted
    <3> SUFFICES ASSUME NEW s \in Attempt \ {r}, NEW j \in Key, ~ov, j \in Evicted(trim(k), k),
                        attempt[s].op = "login", attempt[s].net = j[1], attempt[s].email = j[2]
                 PROVE  ~attempt'[s].counted
      BY DEF NetOf, EmailOf
    <3>1. j = <<j[1], j[2]>>
      BY DEF Key
    <3>2. <<attempt[s].net, attempt[s].email>> \in out(k)
      BY <1>9, <3>1
    <3> QED
      BY <1>11, <3>2
  <2> QED
    BY <1>2, <1>3, <1>7, <1>9, <1>10, <1>12, <1>13, <2>1, <2>2, <2>3, <2>4, KeyHit
<1>15. loginFailures' = IF ov THEN trim(k) ELSE AddHit(trim(k), k, r)
  BY <1>1, <1>9
<1>16. LoginsCovered' /\ TableThen(loginFailures', Key)
  BY <1>1, <1>14, <1>15, KeysCovered
<1>17. loginNetHits' = IF ov THEN nets(k) ELSE AddHit(nets(k), k[1], r)
  BY <1>1, <1>9
<1>18. TableThen(loginNetHits', Net) /\ NetsCovered'
  <2>1. PICK f : f = IF ov THEN nets(k) ELSE AddHit(nets(k), k[1], r)
    OBVIOUS
  <2>2. \A x \in Attempt \ {r} :
          ~ov /\ Guessing(attempt[x]) /\ attempt[x].net \in Evicted(nets(k), k[1])
            => attempt'[x].netHit = "none"
    BY <1>9, <1>11
  <2>3. TableThen(f, Net) /\ (loginNetHits' = f => NetsCovered')
    BY <1>2, <1>3, <1>6, <1>9, <1>10, <1>12, <1>13, <2>1, <2>2, NetHit
  <2> QED
    BY <1>17, <2>1, <2>3
<1>19. UNCHANGED <<formRate, anonHits, log, slots>>
  BY <1>1
<1> QED
  BY <1>4, <1>12, <1>16, <1>18, <1>19, LoginKeeps

\* The logins that are verified change no table but their own.
LEMMA LoginFailsKeeps == ASSUME LimitsInv, NEW r \in Attempt, LoginFails(r) PROVE LimitsInv'
<1>1. /\ LimitTypes /\ Attempts /\ Table(loginFailures, Key) /\ Table(loginNetHits, Net)
      /\ LoginsCovered /\ NetsCovered
  BY DEF LimitsInv, Tables
<1>2. /\ clock \in Nat /\ clock \in Int /\ attempt \in [Attempt -> AttemptState]
      /\ lastPrune \in 0..MaxClock
  BY <1>1, LimitTypesAre DEF LimitTypes
<1>3. PICK q : q = [attempt[r] EXCEPT !.pc = "failed"]
  OBVIOUS
<1>4. /\ attempt[r] \in AttemptState /\ SoundAttempt(attempt[r]) /\ attempt[r].pc = "verifying"
      /\ attempt[r].op = "login"
  BY <1>1, <1>2 DEF LoginFails, Attempts, SoundAttempt
<1>5. /\ q \in AttemptState /\ q.op = "login" /\ q.pc = "failed" /\ q.net = attempt[r].net
      /\ q.email = attempt[r].email /\ q.at = attempt[r].at /\ q.end = attempt[r].end
      /\ q.counted = attempt[r].counted /\ q.netHit = attempt[r].netHit
  BY <1>3, <1>4 DEF AttemptState, Stages
<1>6. q # New /\ SoundAttempt(q)
  BY <1>4, <1>5 DEF SoundAttempt, New
<1>7. attempt' = [attempt EXCEPT ![r] = q]
  BY <1>2, <1>3 DEF LoginFails
<1>8. /\ attempt' \in [Attempt -> AttemptState] /\ attempt'[r] = q
      /\ \A s \in Attempt \ {r} : attempt'[s] = attempt[s]
  BY <1>2, <1>5, <1>7
<1>9. /\ clock' = clock /\ loginFailures' = loginFailures /\ loginNetHits' = loginNetHits
      /\ lastPrune' = lastPrune /\ UNCHANGED <<formRate, anonHits, log, slots>>
  BY DEF LoginFails, loginVars
<1>10. Moves(r, q, {"login"})
  BY <1>4, <1>5, <1>6, <1>8, <1>9 DEF Moves, AttemptOps, Renders
<1>11. TableThen(loginFailures', Key) /\ TableThen(loginNetHits', Net)
  BY <1>1, <1>9, <1>10, MovesIs, TableNext
<1>12. LoginsCovered'
  <2>1. \A n, e, s : Hitting(attempt', "login", n, e, s) = Hitting(attempt, "login", n, e, s)
    BY <1>4, <1>5, <1>8 DEF Hitting
  <2> QED
    BY <1>1, <1>9, <2>1 DEF LoginsCovered, Cutoff
<1>13. NetsCovered'
  <2>1. \A n, s : /\ Trying(attempt', n, s) = Trying(attempt, n, s)
                  /\ Freed(attempt', n, s) = Freed(attempt, n, s)
    BY <1>4, <1>5, <1>8 DEF Trying, Freed, Guessing
  <2> QED
    BY <1>1, <1>9, <2>1 DEF NetsCovered, Cutoff
<1> QED
  BY <1>2, <1>9, <1>10, <1>11, <1>12, <1>13, LoginKeeps

\* What a success leaves to count of its network: one guess less, or none that this
\* window covers, if there was a hit to take back; and no more guesses in any case.
Guessed(a, n, s) == Cardinality(Trying(a, n, s)) - Cardinality(Freed(a, n, s))

Succeeded(p, q, n) ==
  /\ p.op = "login" /\ p.net = n /\ p.pc = "verifying" /\ p.at \in Nat
  /\ q.op = "login" /\ q.net = n /\ q.pc = "done" /\ q.at = p.at /\ q.end = clock
  /\ q.netHit # "none" => q.netHit = IF p.netHit = "own" THEN "own" ELSE "another"

LEMMA OneBack ==
  ASSUME clock \in Nat, NEW a, NEW b, Ages(b), NEW r \in Attempt, NEW n,
         \A x \in Attempt \ {r} : Loses(a[x], b[x]), Succeeded(a[r], b[r], n), NEW s \in Int
  PROVE  /\ Guessed(a, n, s) \in Int /\ Guessed(b, n, s) \in Int
         /\ Guessed(b, n, s) <= Guessed(a, n, s)
         /\ b[r].netHit # "none" =>
              Guessed(b, n, s) <= Guessed(a, n, s) - 1 \/ Guessed(b, n, s) <= 0
<1>1. /\ Trying(b, n, s) \in SUBSET (Trying(a, n, s) \ {r})
      /\ Freed(a, n, s) \in SUBSET (Freed(b, n, s) \ {r})
  BY DEF Trying, Freed, Loses, Succeeded, Guessing
<1>2. /\ Trying(a, n, s) \in SUBSET Attempt /\ Freed(b, n, s) \in SUBSET Attempt
      /\ Cardinality(Trying(a, n, s)) \in Nat /\ Cardinality(Trying(b, n, s)) \in Nat
      /\ Cardinality(Freed(a, n, s)) \in Nat /\ Cardinality(Freed(b, n, s)) \in Nat
  <2>1. /\ Trying(a, n, s) \in SUBSET Attempt /\ Freed(b, n, s) \in SUBSET Attempt
    BY CountTypes, Zenon
  <2>2. /\ Cardinality(Trying(a, n, s)) \in Nat /\ Cardinality(Trying(b, n, s)) \in Nat
        /\ Cardinality(Freed(a, n, s)) \in Nat /\ Cardinality(Freed(b, n, s)) \in Nat
    BY CountTypes, Zenon
  <2> QED
    BY <2>1, <2>2
<1>3. /\ Cardinality(Trying(b, n, s)) <= Cardinality(Trying(a, n, s))
      /\ Cardinality(Freed(a, n, s)) <= Cardinality(Freed(b, n, s))
  <2>1. /\ Trying(b, n, s) \in SUBSET Trying(a, n, s)
        /\ Freed(a, n, s) \in SUBSET Freed(b, n, s)
    BY <1>1
  <2> QED
    BY <1>2, <2>1, Fewer
<1>4. PICK t, g, tt, gg \in Nat :
        /\ t = Cardinality(Trying(a, n, s)) /\ tt = Cardinality(Trying(b, n, s))
        /\ g = Cardinality(Freed(a, n, s)) /\ gg = Cardinality(Freed(b, n, s))
  BY <1>2
<1>5. tt <= t /\ g <= gg
  BY <1>3, <1>4
<1>6. ASSUME b[r].netHit # "none"
      PROVE  tt - gg <= (t - g) - 1 \/ tt - gg <= 0
  <2>1. CASE a[r].at >= s /\ a[r].netHit = "own"
    <3>1. r \in Trying(a, n, s)
      BY <2>1 DEF Trying, Succeeded, Guessing
    <3>2. tt <= t - 1
      BY <1>1, <1>2, <1>4, <3>1, OneLess
    <3> QED
      BY <1>5, <3>2
  <2>2. CASE (a[r].at < s \/ a[r].netHit # "own") /\ s <= clock
    <3>1. r \in Freed(b, n, s)
      BY <1>6, <2>2 DEF Freed, Succeeded
    <3>2. g <= gg - 1
      BY <1>1, <1>2, <1>4, <3>1, OneLess
    <3> QED
      BY <1>5, <3>2
  <2>3. CASE s > clock
    <3>1. tt = 0
      BY <1>4, <2>3, NoneYet
    <3> QED
      BY <3>1
  <2> QED
    BY <2>1, <2>2, <2>3 DEF Succeeded
<1> QED
  BY <1>4, <1>5, <1>6 DEF Guessed

LEMMA LoginSucceedsKeeps == ASSUME LimitsInv, NEW r \in Attempt, LoginSucceeds(r) PROVE LimitsInv'
<1>1. /\ LimitTypes /\ Attempts /\ Table(loginFailures, Key) /\ Table(loginNetHits, Net)
      /\ LoginsCovered /\ NetsCovered
  BY DEF LimitsInv, Tables
<1>2. /\ clock \in Nat /\ clock \in Int /\ attempt \in [Attempt -> AttemptState]
      /\ lastPrune \in 0..MaxClock /\ LoginLimit \in Nat /\ NetLimit \in Nat
  BY <1>1, LimitTypesAre, LimitAssumption DEF LimitTypes
<1>3. /\ attempt[r] \in AttemptState /\ SoundAttempt(attempt[r]) /\ attempt[r].pc = "verifying"
      /\ attempt[r].op = "login" /\ attempt[r].net \in Net /\ attempt[r].email \in Email
      /\ attempt[r].at \in Nat /\ attempt[r].at <= clock
  BY <1>1, <1>2 DEF LoginSucceeds, Attempts, SoundAttempt, AttemptState
<1> PICK n \in Net : n = attempt[r].net
  BY <1>3
<1> PICK k \in Key : k = KeyOf(r)
  BY <1>3 DEF Key, KeyOf
<1>4. n = attempt[r].net /\ k = KeyOf(r) /\ k[1] = n /\ k[2] = attempt[r].email
  BY DEF KeyOf
<1> PICK mark : mark = IF HitsOf(loginNetHits, n) = <<>> THEN "none"
                       ELSE IF attempt[r].netHit = "own" THEN "own" ELSE "another"
  OBVIOUS
<1>5. PICK q : q = [attempt[r] EXCEPT !.pc = "done", !.end = clock, !.counted = FALSE,
                                      !.netHit = mark]
  OBVIOUS
<1>6. /\ q \in AttemptState /\ q.op = "login" /\ q.pc = "done" /\ q.net = n
      /\ q.email = k[2] /\ q.at = attempt[r].at /\ q.end = clock /\ ~q.counted
      /\ q.netHit = mark
  BY <1>2, <1>3, <1>4, <1>5 DEF AttemptState, Stages
<1>7. q # New /\ SoundAttempt(q)
  BY <1>2, <1>3, <1>4, <1>6 DEF SoundAttempt, New
<1>8. attempt' = [Forget(attempt, "login", {k}) EXCEPT ![r] = q]
  <2>1. PICK f : f = Forget(attempt, "login", {k})
    OBVIOUS
  <2>2. f = [f EXCEPT ![r] = f[r]] /\ r \in DOMAIN f
    BY <2>1 DEF Forget
  <2>3. f[r] = [attempt[r] EXCEPT !.counted = FALSE]
    BY <1>3, <1>4, <2>1 DEF Forget, KeyOf
  <2>4. f[r].netHit = attempt[r].netHit
    BY <1>3, <2>3 DEF AttemptState
  <2>5. attempt' = [f EXCEPT ![r] = [f[r] EXCEPT !.pc = "done", !.end = clock, !.netHit = mark]]
    <3>1. attempt' = [f EXCEPT ![r].pc = "done", ![r].end = clock,
                               ![r].netHit = IF HitsOf(loginNetHits, n) = <<>> THEN "none"
                                             ELSE IF @ = "own" THEN @ ELSE "another"]
      BY <1>4, <2>1 DEF LoginSucceeds
    <3> QED
      BY <2>2, <2>4, <3>1
  <2>6. [f[r] EXCEPT !.pc = "done", !.end = clock, !.netHit = mark] = q
    BY <1>3, <1>5, <2>3 DEF AttemptState
  <2> QED
    BY <2>1, <2>5, <2>6
<1>9. /\ attempt' \in [Attempt -> AttemptState] /\ attempt'[r] = q
      /\ \A s \in Attempt \ {r} :
           /\ attempt'[s] = attempt[s] \/ (attempt[s].op = "login" /\ Loses(attempt[s], attempt'[s]))
           /\ attempt[s].op = "login" /\ <<attempt[s].net, attempt[s].email>> \in {k} =>
                ~attempt'[s].counted
  <2>1. PICK K : K = {k}
    OBVIOUS
  <2>2. attempt' = [Forget(attempt, "login", K) EXCEPT ![r] = q]
    BY <1>8, <2>1
  <2>3. /\ attempt' \in [Attempt -> AttemptState] /\ attempt'[r] = q
        /\ \A s \in Attempt \ {r} :
             /\ attempt'[s] = attempt[s] \/ (attempt[s].op = "login" /\ Loses(attempt[s], attempt'[s]))
             /\ attempt[s].op = "login" /\ <<attempt[s].net, attempt[s].email>> \in K =>
                  ~attempt'[s].counted
    BY <1>2, <1>6, <2>2, Forgets
  <2> QED
    BY <2>1, <2>3
<1>10. /\ clock' = clock /\ lastPrune' = lastPrune /\ UNCHANGED <<formRate, anonHits, log, slots>>
       /\ loginFailures' = Pop(loginFailures, k)
       /\ loginNetHits' = IF HitsOf(loginNetHits, n) = <<>> THEN loginNetHits
                          ELSE [loginNetHits EXCEPT ![n].hits = Front(HitsOf(loginNetHits, n))]
  BY <1>4 DEF LoginSucceeds
<1>11. Moves(r, q, {"login"})
  BY <1>3, <1>6, <1>7, <1>9, <1>10 DEF Moves, AttemptOps, Renders
<1>12. /\ Onward /\ Attempts' /\ \A s \in Attempt : attempt[s] # New => attempt'[s] # New
       /\ \A s \in Attempt \ {r} : Loses(attempt[s], attempt'[s])
  BY <1>1, <1>11, MovesIs
<1>13. TableThen(loginFailures', Key)
  <2>1. Table(Pop(loginFailures, k), Key)
    BY <1>1, PopIs
  <2> QED
    BY <1>10, <1>12, <2>1, TableNext
<1>14. LoginsCovered'
  <2>1. \A j \in Key, s \in Int :
          /\ Hitting(attempt', "login", j[1], j[2], s) \in SUBSET Hitting(attempt, "login", j[1], j[2], s)
          /\ j = k => Hitting(attempt', "login", j[1], j[2], s) = {}
    <3> SUFFICES ASSUME NEW j \in Key, NEW s \in Int, NEW x \in Hitting(attempt', "login", j[1], j[2], s)
                 PROVE  x \in Hitting(attempt, "login", j[1], j[2], s) /\ j # k
      OBVIOUS
    <3>1. x \in Attempt /\ x # r
      BY <1>6, <1>9 DEF Hitting
    <3>2. x \in Hitting(attempt, "login", j[1], j[2], s)
      BY <1>12, <3>1 DEF Hitting, Loses
    <3>3. j # k
      <4>1. j = <<j[1], j[2]>> /\ attempt'[x].counted
        BY DEF Key, Hitting
      <4>2. attempt[x].op = "login" /\ <<attempt[x].net, attempt[x].email>> = j
        BY <3>2, <4>1 DEF Hitting
      <4> QED
        BY <1>9, <3>1, <4>1, <4>2
    <3> QED
      BY <3>2, <3>3
  <2>2. /\ HitsOf(Pop(loginFailures, k), k) = <<>> /\ <<>> \in Hits /\ Len(<<>>) = 0
        /\ \A j \in Key : j # k => HitsOf(Pop(loginFailures, k), j) = HitsOf(loginFailures, j)
    BY <1>1, PopIs, EmptySeq DEF Hits
  <2> SUFFICES ASSUME NEW j \in Key
               PROVE  /\ Len(HitsOf(Pop(loginFailures, k), j)) <= LoginLimit
                      /\ \A s \in Int : s > Cutoff =>
                           Covers(HitsOf(Pop(loginFailures, k), j),
                                  Cardinality(Hitting(attempt', "login", j[1], j[2], s)), s)
    BY <1>10 DEF LoginsCovered, Cutoff
  <2>3. CASE j = k
    <3>1. Len(HitsOf(Pop(loginFailures, k), j)) <= LoginLimit
      BY <1>2, <2>2, <2>3
    <3>2. \A s \in Int : Covers(<<>>, Cardinality(Hitting(attempt', "login", j[1], j[2], s)), s)
      <4>1. \A s \in Int : Cardinality(Hitting(attempt', "login", j[1], j[2], s)) = 0
        BY <2>1, <2>3, FS_EmptySet
      <4>2. \A s \in Int : Covers(<<>>, 0, s)
        BY <2>2, CoversNone
      <4> QED
        BY <4>1, <4>2
    <3> QED
      BY <2>2, <2>3, <3>1, <3>2
  <2>4. CASE j # k
    <3>1. HitsOf(loginFailures, j) \in Hits
      BY <1>1, TableIs
    <3>2. ASSUME NEW s \in Int, s > Cutoff
          PROVE  Covers(HitsOf(loginFailures, j),
                        Cardinality(Hitting(attempt', "login", j[1], j[2], s)), s)
      <4>1. Covers(HitsOf(loginFailures, j), Cardinality(Hitting(attempt, "login", j[1], j[2], s)), s)
        BY <1>1, <3>2 DEF LoginsCovered
      <4>2. Hitting(attempt, "login", j[1], j[2], s) \in SUBSET Attempt
        BY CountTypes, Zenon
      <4>3. /\ Cardinality(Hitting(attempt', "login", j[1], j[2], s)) \in Nat
            /\ Cardinality(Hitting(attempt, "login", j[1], j[2], s)) \in Nat
            /\ Cardinality(Hitting(attempt', "login", j[1], j[2], s))
                 <= Cardinality(Hitting(attempt, "login", j[1], j[2], s))
        BY <2>1, <4>2, Fewer
      <4> QED
        BY <3>1, <4>1, <4>3, CoversLess
    <3> QED
      BY <1>1, <2>2, <2>4, <3>2 DEF LoginsCovered
  <2> QED
    BY <2>3, <2>4
<1>15. PICK hits : hits = HitsOf(loginNetHits, n)
  OBVIOUS
<1>16. hits \in Hits /\ InOrder(hits) /\ Len(hits) \in Nat /\ Len(hits) <= NetLimit
  BY <1>1, <1>15, TableIs, HitsAre DEF NetsCovered
<1>17. PICK less : less = IF hits = <<>> THEN hits ELSE Front(hits)
  OBVIOUS
<1>18. /\ less \in Hits /\ InOrder(less) /\ Len(less) <= NetLimit
       /\ \A s \in Int, m \in Int : Covers(hits, m, s) => Covers(less, m - 1, s)
  <2>1. CASE hits = <<>>
    <3>1. ASSUME NEW s \in Int, NEW m \in Int, Covers(hits, m, s) PROVE Covers(hits, m - 1, s)
      <4>1. m - 1 \in Int /\ m - 1 <= m
        OBVIOUS
      <4> QED
        BY <1>16, <3>1, <4>1, CoversLess
    <3> QED
      BY <1>16, <1>17, <2>1, <3>1
  <2>2. CASE hits # <<>>
    <3>1. less = SubSeq(hits, 1, Len(hits) - 1) /\ 1 \in Nat
      BY <1>16, <1>17, <2>2, FrontIs
    <3>2. /\ less \in Hits /\ Len(less) <= Len(hits) /\ InOrder(less)
          /\ \A s \in Int, m \in Int : Covers(hits, m, s) => Covers(less, m - 1, s)
      BY <1>16, <3>1, RefundIs
    <3>3. Len(less) \in Nat
      BY <3>2, HitsAre
    <3> QED
      BY <1>2, <1>16, <3>2, <3>3
  <2> QED
    BY <2>1, <2>2
<1>19. PICK e : e = loginNetHits'
  OBVIOUS
<1>20. Table(e, Net) /\ HitsOf(e, n) = less /\ \A m : m # n => HitsOf(e, m) = HitsOf(loginNetHits, m)
  <2>1. CASE hits = <<>>
    BY <1>1, <1>10, <1>15, <1>17, <1>19, <2>1
  <2>2. CASE hits # <<>>
    <3>1. n \in DOMAIN loginNetHits
      BY <1>15, <2>2 DEF HitsOf
    <3>2. /\ loginNetHits \in [DOMAIN loginNetHits -> Entry] /\ DOMAIN loginNetHits \subseteq Net
          /\ \A j \in DOMAIN loginNetHits : InOrder(loginNetHits[j].hits)
      BY <1>1, TableIs DEF Table, IsDict
    <3>3. e = [loginNetHits EXCEPT ![n].hits = less]
      BY <1>10, <1>15, <1>17, <1>19, <2>2
    <3>4. /\ DOMAIN e = DOMAIN loginNetHits /\ e = [j \in DOMAIN e |-> e[j]]
          /\ \A j \in DOMAIN e : j # n => e[j] = loginNetHits[j]
          /\ e[n] = [loginNetHits[n] EXCEPT !.hits = less]
      BY <3>1, <3>2, <3>3
    <3>5. e[n] \in Entry /\ e[n].by = loginNetHits[n].by /\ e[n].hits = less
      BY <1>18, <3>1, <3>2, <3>4 DEF Entry
    <3>6. IsDict(e, Net)
      BY <3>2, <3>4, <3>5 DEF IsDict
    <3>7. Table(e, Net)
      <4>1. /\ DOMAIN e \subseteq DOMAIN loginNetHits
            /\ \A j \in DOMAIN e : e[j].by = loginNetHits[j].by /\ InOrder(e[j].hits)
        BY <1>18, <3>2, <3>4, <3>5
      <4> QED
        BY <1>1, <3>6, <4>1, SubTable
    <3> QED
      BY <3>1, <3>4, <3>5, <3>7 DEF HitsOf
  <2> QED
    BY <2>1, <2>2
<1>21. TableThen(loginNetHits', Net)
  BY <1>12, <1>19, <1>20, TableNext
<1>22. ASSUME NEW s \in Int, s > Cutoff
       PROVE  Covers(less, Cardinality(Trying(attempt', n, s)) - Cardinality(Freed(attempt', n, s)), s)
  <2>1. Ages(attempt')
    BY <1>9, <1>10, <1>12 DEF Ages, Attempts, SoundAttempt, AttemptState
  <2>2. PICK m, mm \in Int :
          /\ m = Cardinality(Trying(attempt, n, s)) - Cardinality(Freed(attempt, n, s))
          /\ mm = Cardinality(Trying(attempt', n, s)) - Cardinality(Freed(attempt', n, s))
          /\ mm <= m
          /\ hits # <<>> => mm <= m - 1 \/ mm <= 0
    <3>1. Succeeded(attempt[r], attempt'[r], n)
      BY <1>3, <1>4, <1>6, <1>9 DEF Succeeded
    <3>2. /\ Guessed(attempt, n, s) \in Int /\ Guessed(attempt', n, s) \in Int
          /\ Guessed(attempt', n, s) <= Guessed(attempt, n, s)
          /\ attempt'[r].netHit # "none" =>
               Guessed(attempt', n, s) <= Guessed(attempt, n, s) - 1 \/ Guessed(attempt', n, s) <= 0
      BY <1>2, <1>12, <2>1, <3>1, OneBack
    <3>3. hits # <<>> => attempt'[r].netHit # "none"
      BY <1>6, <1>9, <1>15
    <3> QED
      BY <3>2, <3>3 DEF Guessed
  <2>3. Covers(hits, m, s)
    BY <1>1, <1>15, <1>22, <2>2 DEF NetsCovered
  <2>4. CASE mm <= 0
    BY <1>18, <2>2, <2>4, CoversNone
  <2>5. CASE hits # <<>> /\ mm <= m - 1
    <3>1. Covers(less, m - 1, s) /\ m - 1 \in Int
      BY <1>18, <2>3
    <3>2. Covers(less, mm, s)
      BY <1>18, <2>5, <3>1, CoversLess
    <3> QED
      BY <2>2, <3>2
  <2>6. CASE hits = <<>>
    <3>1. less = hits
      BY <1>17, <2>6
    <3>2. Covers(less, mm, s)
      BY <1>18, <2>2, <2>3, <3>1, CoversLess
    <3> QED
      BY <2>2, <3>2
  <2> QED
    BY <2>2, <2>4, <2>5, <2>6
<1>23. NetsCovered'
  <2>1. \A m \in Net : Len(HitsOf(e, m)) <= NetLimit
    BY <1>1, <1>18, <1>20 DEF NetsCovered
  <2>2. \A m \in Net, s \in Int : m # n =>
          Trying(attempt', m, s) \in SUBSET Trying(attempt, m, s)
            /\ Freed(attempt, m, s) \in SUBSET Freed(attempt', m, s)
    BY <1>3, <1>4, <1>6, <1>9, <1>12 DEF Trying, Freed, Loses, Guessing
  <2> SUFFICES ASSUME NEW m \in Net, NEW s \in Int, s > Cutoff
               PROVE  Covers(HitsOf(e, m), Cardinality(Trying(attempt', m, s))
                                             - Cardinality(Freed(attempt', m, s)), s)
    BY <1>10, <1>19, <2>1 DEF NetsCovered, Cutoff
  <2>3. CASE m = n
    BY <1>20, <1>22, <2>3
  <2>4. CASE m # n
    <3>1. Trying(attempt, m, s) \in SUBSET Attempt /\ Freed(attempt', m, s) \in SUBSET Attempt
      BY CountTypes, Zenon
    <3>2. PICK t, g, tt, gg \in Nat :
            /\ t = Cardinality(Trying(attempt, m, s)) /\ tt = Cardinality(Trying(attempt', m, s))
            /\ g = Cardinality(Freed(attempt, m, s)) /\ gg = Cardinality(Freed(attempt', m, s))
      <4>1. /\ Cardinality(Trying(attempt, m, s)) \in Nat /\ Cardinality(Trying(attempt', m, s)) \in Nat
            /\ Cardinality(Freed(attempt, m, s)) \in Nat /\ Cardinality(Freed(attempt', m, s)) \in Nat
        BY CountTypes, Zenon
      <4> QED
        BY <4>1
    <3>3. tt <= t /\ g <= gg
      BY <2>2, <2>4, <3>1, <3>2, Fewer
    <3>4. t - g \in Int /\ tt - gg \in Int /\ tt - gg <= t - g /\ HitsOf(loginNetHits, m) \in Hits
      BY <1>1, <3>2, <3>3, TableIs
    <3>5. Covers(HitsOf(loginNetHits, m), t - g, s)
      BY <1>1, <3>2 DEF NetsCovered
    <3>6. Covers(HitsOf(loginNetHits, m), tt - gg, s)
      BY <3>4, <3>5, CoversLess
    <3> QED
      BY <1>20, <2>4, <3>2, <3>6
  <2> QED
    BY <2>3, <2>4
<1> QED
  BY <1>2, <1>10, <1>11, <1>13, <1>14, <1>21, <1>23, LoginKeeps
-----------------------------------------------------------------------------
(***************************************************************************)
(* The invariant.                                                           *)
(***************************************************************************)
\* Time alone takes windows away and adds none.
LEMMA TimeKeeps ==
  ASSUME LimitsInv, clock' = clock \/ clock' = clock + 1, clock' \in 0..MaxClock,
         UNCHANGED <<loginVars, formRate, anonHits, log, slots, attempt>>
  PROVE  LimitsInv'
<1>1. /\ LimitTypes /\ Attempts /\ Table(loginFailures, Key) /\ Table(loginNetHits, Net)
      /\ Table(anonHits, Net) /\ formRate \in [Net -> Hits]
  BY DEF LimitsInv, Tables, LimitTypes
<1>2. Onward
  BY <1>1, LimitTypesAre DEF Onward
<1>3. /\ loginFailures' = loginFailures /\ loginNetHits' = loginNetHits /\ lastPrune' = lastPrune
      /\ formRate' = formRate /\ anonHits' = anonHits /\ log' = log /\ slots' = slots
      /\ attempt' = attempt
  BY DEF loginVars
<1>4. \A o : Stays(attempt, attempt', o)
  BY <1>3 DEF Stays, Loses
<1>5. Attempts'
  <2>1. \A r \in Attempt : /\ attempt[r].at \in Nat /\ attempt[r].end \in Nat /\ clock \in Nat
                           /\ attempt[r].at <= clock /\ attempt[r].end <= clock
    BY <1>1, LimitTypesAre DEF Ages
  <2>2. \A r \in Attempt : attempt[r].at <= clock' /\ attempt[r].end <= clock'
    <3>1. CASE clock' = clock
      BY <2>1, <3>1
    <3>2. CASE clock' = clock + 1
      BY <2>1, <3>2
    <3> QED
      BY <3>1, <3>2
  <2> QED
    BY <1>1, <1>3, <2>2 DEF Attempts, SoundAttempt
<1>6. LimitTypes'
  BY <1>1, <1>2, <1>3, LimitTypesNext DEF LimitTypes
<1>7. Tables'
  BY <1>1, <1>2, <1>3, TableNext, TablesNext
<1>8. LoginsCovered' /\ NetsCovered' /\ FormsCovered' /\ AnonCovered'
  BY <1>1, <1>2, <1>3, <1>4, LoginsFrame, NetsFrame, FormsFrame, AnonFrame DEF LimitsInv
<1>9. LogsCovered'
  BY <1>2, <1>3, <1>4, LogFrame, LogsSplit DEF LimitsInv
<1>10. SlotsReturned'
  BY <1>3 DEF LimitsInv, SlotsReturned
<1> QED
  BY <1>5, <1>6, <1>7, <1>8, <1>9, <1>10 DEF LimitsInv

LEMMA StartKeeps == ASSUME StartLimits PROVE LimitsInv
<1>1. /\ MaxClock \in Nat /\ MaxKeys \in Nat /\ Slots \in Nat /\ LoginLimit \in Nat /\ NetLimit \in Nat
      /\ FormLimit \in Nat /\ AnonLimit \in Nat /\ \A k \in {"pdf", "mail"} : HourLimit[k] \in Nat
  BY LimitAssumption
<1>2. <<>> \in Hits /\ Len(<<>>) = 0 /\ InOrder(<<>>)
  BY EmptySeq DEF Hits, InOrder
<1>3. New \in AttemptState
  BY DEF New, AttemptState, AttemptOps, Stages
<1>4. LimitTypes
  BY <1>1, <1>2, <1>3 DEF StartLimits, LimitTypes
<1>5. Attempts
  BY DEF StartLimits, Attempts, SoundAttempt, New, Renders
<1>6. /\ \A K : Table(EmptyDict, K)
      /\ \A k : HitsOf(EmptyDict, k) = <<>>
  <2>1. DOMAIN EmptyDict = {} /\ EmptyDict \in [{} -> Entry]
    BY DEF EmptyDict
  <2>2. Cardinality({}) <= MaxKeys
    BY <1>1, FS_EmptySet
  <2> QED
    BY <2>1, <2>2 DEF Table, IsDict, ByOnce, HitsOf
<1>7. Tables
  BY <1>6 DEF StartLimits, Tables
<1>8. \A op, k, n, e, s :
        /\ op # "none" => Cardinality(Hitting(attempt, op, n, e, s)) = 0
        /\ Cardinality(Trying(attempt, n, s)) = 0 /\ Cardinality(Freed(attempt, n, s)) = 0
        /\ Total(CostIn(attempt), Paid(attempt, k, s)) = 0
        /\ Total(CostIn(attempt), Lost(attempt, k, s)) = 0
  <2>1. \A op, k, n, e, s :
          /\ op # "none" => Hitting(attempt, op, n, e, s) = {}
          /\ Trying(attempt, n, s) = {} /\ Freed(attempt, n, s) = {}
          /\ Paid(attempt, k, s) = {} /\ Lost(attempt, k, s) = {}
    BY DEF StartLimits, New, Hitting, Trying, Freed, Guessing, Paid, Lost, OpsOf, Renders
  <2> QED
    BY <2>1, FS_EmptySet, TotalFirst
<1>9. \A s \in Int : Covers(<<>>, 0, s) /\ Covers(<<>>, 0 - 0, s)
  BY <1>2, CoversNone
<1>10. LoginsCovered
  BY <1>1, <1>2, <1>6, <1>8, <1>9 DEF StartLimits, LoginsCovered
<1>11. NetsCovered
  BY <1>1, <1>2, <1>6, <1>8, <1>9 DEF StartLimits, NetsCovered
<1>12. FormsCovered
  BY <1>1, <1>2, <1>8, <1>9 DEF StartLimits, FormsCovered
<1>13. AnonCovered
  BY <1>1, <1>2, <1>6, <1>8, <1>9 DEF StartLimits, AnonCovered
<1>14. LogsCovered
  BY <1>1, <1>2, <1>8, <1>9 DEF StartLimits, LogsCovered
<1>15. SlotsReturned
  <2>1. {r \in Attempt : attempt[r].pc = "rendering"} = {}
    BY DEF StartLimits, New
  <2> QED
    BY <1>1, <2>1, FS_EmptySet DEF StartLimits, SlotsReturned
<1> QED
  BY <1>4, <1>5, <1>7, <1>10, <1>11, <1>12, <1>13, <1>14, <1>15 DEF LimitsInv

LEMMA AdmitKeeps == ASSUME LimitsInv, [Admit]_limitVars PROVE LimitsInv'
<1>1. CASE \E r \in Attempt : Login(r) \/ SubmitForm(r) \/ AnonRequest(r) \/ Render(r) \/ Mail(r)
  BY <1>1, BeginLoginKeeps, LoginFailsKeeps, LoginSucceedsKeeps, SubmitFormKeeps,
     AnonRequestKeeps, RenderKeeps, MailKeeps DEF Login
<1>2. CASE Tick
  <2>1. clock' \in 0..MaxClock
    BY <1>2, LimitAssumption DEF Tick, LimitsInv, LimitTypes
  <2> QED
    BY <1>2, <2>1, TimeKeeps DEF Tick
<1>3. CASE UNCHANGED limitVars
  <2>1. clock' \in 0..MaxClock
    BY <1>3 DEF limitVars, LimitsInv, LimitTypes
  <2> QED
    BY <1>3, <2>1, TimeKeeps DEF limitVars, loginVars
<1> QED
  BY <1>1, <1>2, <1>3 DEF Admit

\* Whatever the portal admits, in whatever order, the tables, logs and slots stay
\* what the limits need them to be.
THEOREM LimitsInvariance == Limits => []LimitsInv
<1>1. StartLimits => LimitsInv
  BY StartKeeps
<1>2. LimitsInv /\ [Admit]_limitVars => LimitsInv'
  BY AdmitKeeps
<1> QED
  BY <1>1, <1>2, PTL DEF Limits

\* Every table, log, request and the clock has its type, hits are in the order of
\* time, and the capped tables hold no more keys than their cap (main.py
\* _LOGIN_MAX_KEYS, oauth.py _IPRateLimiter).
THEOREM LimitsTypeCorrect == Limits => []LimitsTypeOK
<1>1. LimitsInv => LimitsTypeOK
  BY DEF LimitsInv, LimitTypes, Tables, Table, LimitsTypeOK
<1> QED
  BY <1>1, LimitsInvariance, PTL

\* What covers m hits has no fewer.
LEMMA CoversAtMost ==
  ASSUME NEW hits \in Hits, NEW limit \in Nat, Len(hits) <= limit, NEW m \in Int, NEW s,
         Covers(hits, m, s)
  PROVE  m <= limit
<1>1. Len(hits) \in Nat /\ m <= Len(hits)
  BY HitsAre DEF Covers
<1> QED
  BY <1>1

\* No window sees more logins of one network and email than the limit, nor more
\* guesses of one network than its own, whatever the others do: save for the guesses
\* whose hits a full table dropped and for one for each success that gave back a hit
\* of another's (main.py _reserve_login_attempt, _add_hit, _clear_login_failures).
THEOREM Guesses == Limits => []GuessesHeld
<1>1. ASSUME LimitsInv PROVE GuessesHeld
  <2>1. /\ LimitTypes /\ Attempts /\ Table(loginFailures, Key) /\ Table(loginNetHits, Net)
        /\ LoginsCovered /\ NetsCovered
    BY <1>1 DEF LimitsInv, Tables
  <2>2. /\ clock \in Int /\ Window \in Nat /\ LoginLimit \in Nat /\ NetLimit \in Nat
    BY <2>1, LimitTypesAre, LimitAssumption
  <2>3. PICK start \in Int : start = clock - Window + 1
    BY <2>2
  <2>4. start > Cutoff
    BY <2>2, <2>3 DEF Cutoff
  <2> SUFFICES ASSUME NEW n \in Net
               PROVE  LET own   == {r \in Attempt : attempt[r].op = "login" /\ attempt[r].net = n}
                          tried == {r \in own : Guessing(attempt[r]) /\ attempt[r].netHit = "own"}
                      IN
                      /\ \A e \in Email : Counted("login", n, e, start) <= LoginLimit
                      /\ Cardinality(Since(tried, start))
                           <= NetLimit + Cardinality(Returned(own, start))
    BY <2>3 DEF GuessesHeld
  <2> DEFINE own   == {r \in Attempt : attempt[r].op = "login" /\ attempt[r].net = n}
             tried == {r \in own : Guessing(attempt[r]) /\ attempt[r].netHit = "own"}
  <2>5. ASSUME NEW e \in Email PROVE Counted("login", n, e, start) <= LoginLimit
    <3> PICK k \in Key : k = <<n, e>>
      BY DEF Key
    <3>1. k[1] = n /\ k[2] = e
      OBVIOUS
    <3>2. Counted("login", n, e, start) = Cardinality(Hitting(attempt, "login", k[1], k[2], start))
      <4>1. Since({r \in Attempt : /\ attempt[r].op = "login" /\ attempt[r].counted
                                   /\ attempt[r].net = n /\ attempt[r].email = e}, start)
              = Hitting(attempt, "login", n, e, start)
        BY DEF Since, Hitting
      <4> QED
        BY <3>1, <4>1 DEF Counted
    <3>3. PICK m \in Int : m = Cardinality(Hitting(attempt, "login", k[1], k[2], start))
      <4>1. Cardinality(Hitting(attempt, "login", k[1], k[2], start)) \in Nat
        BY CountTypes, Zenon
      <4> QED
        BY <4>1
    <3>4. /\ HitsOf(loginFailures, k) \in Hits /\ Len(HitsOf(loginFailures, k)) <= LoginLimit
          /\ Covers(HitsOf(loginFailures, k), m, start)
      BY <2>1, <2>4, <3>3, TableIs DEF LoginsCovered
    <3> QED
      BY <2>2, <3>2, <3>3, <3>4, CoversAtMost
  <2>6. Cardinality(Since(tried, start)) <= NetLimit + Cardinality(Returned(own, start))
    <3>1. /\ Since(tried, start) = Trying(attempt, n, start)
          /\ Returned(own, start) = Freed(attempt, n, start)
      BY DEF Since, Returned, Trying, Freed
    <3>2. PICK t, g \in Nat : /\ t = Cardinality(Since(tried, start))
                              /\ g = Cardinality(Returned(own, start))
      <4>1. /\ Cardinality(Trying(attempt, n, start)) \in Nat
            /\ Cardinality(Freed(attempt, n, start)) \in Nat
        BY CountTypes, Zenon
      <4> QED
        BY <3>1, <4>1
    <3>4. /\ HitsOf(loginNetHits, n) \in Hits /\ Len(HitsOf(loginNetHits, n)) <= NetLimit
          /\ Covers(HitsOf(loginNetHits, n), t - g, start)
      <4>1. Covers(HitsOf(loginNetHits, n), Cardinality(Trying(attempt, n, start))
                                              - Cardinality(Freed(attempt, n, start)), start)
        BY <2>1, <2>4 DEF NetsCovered
      <4> QED
        BY <2>1, <3>1, <3>2, <4>1, TableIs DEF NetsCovered
    <3>5. t - g <= NetLimit
      <4>1. t - g \in Int
        BY <3>2
      <4> QED
        BY <2>2, <3>4, <4>1, CoversAtMost
    <3>6. t <= NetLimit + g
      BY <2>2, <3>2, <3>5
    <3> QED
      BY <3>2, <3>6
  <2> HIDE DEF own, tried
  <2> QED
    BY <2>5, <2>6 DEF own, tried
<1> QED
  BY <1>1, LimitsInvariance, PTL

\* No window sees more submissions of one address, or more anonymous requests of one
\* network, than the limit (forms.py _rate_ok, oauth.py _IPRateLimiter.limited).
THEOREM Anonymous == Limits => []AnonymousHeld
<1>1. ASSUME LimitsInv PROVE AnonymousHeld
  <2>1. /\ LimitTypes /\ Attempts /\ Table(anonHits, Net) /\ formRate \in [Net -> Hits]
        /\ FormsCovered /\ AnonCovered
    BY <1>1 DEF LimitsInv, Tables, LimitTypes
  <2>2. /\ Cutoff \in Int /\ Cutoff + 1 \in Int /\ Cutoff + 1 > Cutoff /\ Cutoff >= Cutoff
        /\ FormLimit \in Nat /\ AnonLimit \in Nat
    <3>1. clock \in Int /\ Window \in Nat /\ FormLimit \in Nat /\ AnonLimit \in Nat
      BY <2>1, LimitTypesAre, LimitAssumption
    <3> QED
      BY <3>1 DEF Cutoff
  <2>3. ASSUME NEW n \in Net, NEW op, NEW s
        PROVE  /\ Counted(op, n, Nobody, s) = Cardinality(Hitting(attempt, op, n, Nobody, s))
               /\ Counted(op, n, Nobody, s) \in Int
    <3>1. Since({r \in Attempt : /\ attempt[r].op = op /\ attempt[r].counted
                                 /\ attempt[r].net = n /\ attempt[r].email = Nobody}, s)
            = Hitting(attempt, op, n, Nobody, s)
      BY DEF Since, Hitting
    <3>2. Cardinality(Hitting(attempt, op, n, Nobody, s)) \in Nat
      BY CountTypes, Zenon
    <3> QED
      BY <3>1, <3>2 DEF Counted
  <2> SUFFICES ASSUME NEW n \in Net
               PROVE  /\ Counted("form", n, Nobody, Cutoff) <= FormLimit
                      /\ Counted("anon", n, Nobody, Cutoff + 1) <= AnonLimit
    BY DEF AnonymousHeld
  <2>4. PICK c, d \in Int : c = Cutoff /\ d = Cutoff + 1 /\ d > Cutoff /\ c >= Cutoff
    BY <2>2
  <2>5. PICK f, a \in Int : /\ f = Counted("form", n, Nobody, c) /\ a = Counted("anon", n, Nobody, d)
                            /\ f = Cardinality(Hitting(attempt, "form", n, Nobody, c))
                            /\ a = Cardinality(Hitting(attempt, "anon", n, Nobody, d))
    BY <2>3
  <2>6. Covers(formRate[n], f, c) /\ Len(formRate[n]) <= FormLimit /\ formRate[n] \in Hits
    BY <2>1, <2>4, <2>5 DEF FormsCovered
  <2>7. /\ Covers(HitsOf(anonHits, n), a, d) /\ Len(HitsOf(anonHits, n)) <= AnonLimit
        /\ HitsOf(anonHits, n) \in Hits
    BY <2>1, <2>4, <2>5, TableIs DEF AnonCovered
  <2>8. f <= FormLimit /\ a <= AnonLimit
    BY <2>2, <2>6, <2>7, CoversAtMost
  <2> QED
    BY <2>4, <2>5, <2>8
<1> QED
  BY <1>1, LimitsInvariance, PTL

\* No hour is charged more renders or recipients than the allowance, save for what a
\* failure gave back that was another's (api.py _check_pdf_rate, _refund_pdf_render,
\* _check_email_rate, _refund_email_send).
THEOREM Allowance == Limits => []AllowanceHeld
<1>1. ASSUME LimitsInv PROVE AllowanceHeld
  <2>1. /\ LimitTypes /\ Attempts /\ LogsCovered /\ log \in [{"pdf", "mail"} -> Hits]
        /\ attempt \in [Attempt -> AttemptState]
    BY <1>1 DEF LimitsInv, LimitTypes
  <2>2. PICK c \in Int : c = Cutoff /\ c >= Cutoff
    <3>1. clock \in Int /\ Window \in Nat
      BY <2>1, LimitTypesAre, LimitAssumption
    <3> QED
      BY <3>1 DEF Cutoff
  <2> SUFFICES ASSUME NEW k \in {"pdf", "mail"}
               PROVE  LET spent == {r \in Attempt : attempt[r].pc \notin {"new", "refused", "failed"}} IN
                      Charged(k, Since(spent, c))
                        <= HourLimit[k] + Charged(k, Strays(Attempt, "failed", c))
    BY <2>2 DEF AllowanceHeld
  <2> DEFINE spent == {r \in Attempt : attempt[r].pc \notin {"new", "refused", "failed"}}
  <2>3. Costs = CostIn(attempt)
    BY DEF Costs, CostIn
  <2>4. \A R : Charged(k, R) = Total(CostIn(attempt), {r \in R : attempt[r].op \in OpsOf(k)})
    BY <2>3 DEF Charged, Total, OpsOf
  <2>5. /\ {r \in Since(spent, c) : attempt[r].op \in OpsOf(k)} = Paid(attempt, k, c)
        /\ {r \in Strays(Attempt, "failed", c) : attempt[r].op \in OpsOf(k)} = Lost(attempt, k, c)
    BY DEF Since, Strays, Paid, Lost
  <2>6. PICK p, l \in Nat : /\ p = Total(CostIn(attempt), Paid(attempt, k, c))
                            /\ l = Total(CostIn(attempt), Lost(attempt, k, c))
    BY <2>1, BillType
  <2>7. Charged(k, Since(spent, c)) = p /\ Charged(k, Strays(Attempt, "failed", c)) = l
    BY <2>4, <2>5, <2>6
  <2> HIDE DEF spent
  <2>8. Covers(log[k], p - l, c) /\ Len(log[k]) <= HourLimit[k] /\ log[k] \in Hits
    BY <2>1, <2>2, <2>6 DEF LogsCovered
  <2>9. HourLimit[k] \in Nat /\ p - l \in Int
    BY <2>6, LimitAssumption
  <2>10. p - l <= HourLimit[k]
    BY <2>8, <2>9, CoversAtMost
  <2>11. p <= HourLimit[k] + l
    BY <2>6, <2>9, <2>10
  <2> QED
    BY <2>7, <2>11 DEF spent
<1> QED
  BY <1>1, LimitsInvariance, PTL

\* Every slot is free or one render's (api.py pdf_render_slot).
THEOREM SlotsBack == Limits => []SlotsReturned
<1>1. LimitsInv => SlotsReturned
  BY DEF LimitsInv
<1> QED
  BY <1>1, LimitsInvariance, PTL

-----------------------------------------------------------------------------
(***************************************************************************)
(* StorageNamespace: TypeOK, with the discipline of the namespace locks, and *)
(* WithinQuota.                                                              *)
(***************************************************************************)
Writing  == {"opening", "opened", "locked", "measured"}
Clearing == {"chosen", "clearing"}

\* What a request in flight is about.
Sound(q) ==
  /\ q.pc \in Writing => q.op \in {"put", "store"}
  /\ q.pc = "deleting" => q.op = "delete"
  /\ q.pc \in Writing \cup {"deleting"} => q.app \in App /\ q.key \in Object
  /\ q.pc \in Clearing => q.op = "delete_user" /\ q.app \in App

Requests == \A r \in Request : Sound(req[r])

\* Whoever waits for or holds a lock of a namespace has the file of the moment,
\* unless the app was deleted meanwhile.
OneFile ==
  \A r \in Request, a \in App : There(r, a) /\ a \notin torn => req[r].file = file[a]

\* A namespace has finitely many objects.
FinitelyMany == \A a \in App : IsFiniteSet(Present(a))

\* What a PUT measured is at least what there is when it writes.
Measured ==
  \A r \in Request, a \in App :
    At(r, "put", "measured") /\ req[r].app = a /\ a \notin torn =>
      Usage(a) <= req[r].bytes /\ Count(a) <= req[r].objects

IInv == TypeOK /\ Requests /\ OneFile /\ FinitelyMany /\ Measured

USE NoneAssumption, SizeAssumption

LEMMA UsageTotal == \A a : Usage(a) = Total(size[a], Present(a))
  BY Zenon DEF Usage, Total

LEMMA UsageTotalNext == \A a : Usage(a)' = Total(size'[a], Present(a)')
<1>1. (\A a : Usage(a) = Total(size[a], Present(a)))'
  BY UsageTotal, PTL
<1> QED
  BY <1>1

\* The keys of a namespace g that have an object, and what an update of one of
\* them does to the namespace's usage and count.
Keys(g) == {k \in Object : g[k] # None}

Effect(f, g, x, v) ==
  /\ IsFiniteSet(Keys(f))
  /\ Total(f, Keys(f)) = Total(g, Keys(g)) - Bytes(g[x]) + Bytes(v)
  /\ Cardinality(Keys(f)) <= Cardinality(Keys(g)) + 1
  /\ g[x] # None \/ v = None => Cardinality(Keys(f)) <= Cardinality(Keys(g))

LEMMA Updated ==
  ASSUME NEW g \in [Object -> Nat \cup {None}], NEW x \in Object, NEW v \in Nat \cup {None},
         NEW f \in [Object -> Nat \cup {None}], f[x] = v, \A k \in Object \ {x} : f[k] = g[k],
         IsFiniteSet(Keys(g))
  PROVE  Effect(f, g, x, v)
<1>1. PICK Q : Q = Keys(g) \ {x}
  OBVIOUS
<1>2. /\ IsFiniteSet(Q) /\ Cardinality(Q) \in Nat /\ Cardinality(Keys(g)) \in Nat
      /\ Cardinality(Q) = IF x \in Keys(g) THEN Cardinality(Keys(g)) - 1 ELSE Cardinality(Keys(g))
  BY <1>1, FS_RemoveElement, FS_CardinalityType
<1>3. /\ x \notin Q /\ Keys(g) = (IF g[x] = None THEN Q ELSE Q \cup {x})
      /\ Keys(f) = (IF v = None THEN Q ELSE Q \cup {x})
      /\ f[x] = v /\ \A k \in Q : f[k] = g[k] /\ g[k] \in Nat
  BY <1>1 DEF Keys
<1>4. /\ IsFiniteSet(Q \cup {x}) /\ Cardinality(Q \cup {x}) = Cardinality(Q) + 1
      /\ (Q \cup {x}) \ {x} = Q
  <2>1. /\ IsFiniteSet(Q \cup {x}) /\ Cardinality(Q \cup {x}) = Cardinality(Q) + 1
    BY <1>2, <1>3, FS_AddElement
  <2>2. (Q \cup {x}) \ {x} = Q
    BY <1>3
  <2> QED
    BY <2>1, <2>2
<1>5. Total(f, Q) = Total(g, Q) /\ Total(g, Q) \in Nat
  BY <1>2, <1>3, TotalSame, TotalType
<1>6. Total(g, Keys(g)) = Total(g, Q) + Bytes(g[x])
  <2>1. CASE g[x] = None
    BY <1>3, <1>5, <2>1 DEF Bytes
  <2>2. CASE g[x] # None
    <3>1. \A k \in Q \cup {x} : g[k] \in Nat
      BY <1>3, <2>2
    <3>2. Total(g, Q \cup {x}) = g[x] + Total(g, Q)
      BY <1>4, <3>1, TotalRemove
    <3> QED
      BY <1>3, <1>5, <2>2, <3>1, <3>2 DEF Bytes
  <2> QED
    BY <2>1, <2>2
<1>7. Total(f, Keys(f)) = Total(g, Q) + Bytes(v)
  <2>1. CASE v = None
    BY <1>3, <1>5, <2>1 DEF Bytes
  <2>2. CASE v # None
    <3>1. \A k \in Q \cup {x} : f[k] \in Nat
      BY <1>3, <2>2
    <3>2. Total(f, Q \cup {x}) = f[x] + Total(f, Q)
      BY <1>4, <3>1, TotalRemove
    <3> QED
      BY <1>3, <1>5, <2>2, <3>1, <3>2 DEF Bytes
  <2> QED
    BY <2>1, <2>2
<1>8. Bytes(g[x]) \in Nat /\ Bytes(v) \in Nat
  BY DEF Bytes
<1>9. IsFiniteSet(Keys(f))
  BY <1>2, <1>3, <1>4
<1>10. /\ Cardinality(Keys(f)) <= Cardinality(Keys(g)) + 1
       /\ g[x] # None \/ v = None => Cardinality(Keys(f)) <= Cardinality(Keys(g))
  BY <1>2, <1>3, <1>4
<1> QED
  BY <1>5, <1>6, <1>7, <1>8, <1>9, <1>10 DEF Effect

LEMMA UsageType ==
  ASSUME NEW a \in App, size[a] \in [Object -> Nat \cup {None}], IsFiniteSet(Present(a))
  PROVE  Usage(a) \in Nat /\ Count(a) \in Nat
<1>1. \A k \in Present(a) : size[a][k] \in Nat
  BY DEF Present
<1>2. Total(size[a], Present(a)) \in Nat
  BY <1>1, TotalType
<1> QED
  BY <1>2, UsageTotal, FS_CardinalityType DEF Count

-----------------------------------------------------------------------------
(***************************************************************************)
(* Steps.  A request's step is a turn of that request: what it makes of the  *)
(* request, of the lock it waits for or holds, and of the objects.           *)
(***************************************************************************)

\* TypeOK without the locks' discipline.
Types ==
  /\ account \in BOOLEAN
  /\ size \in [App -> [Object -> Nat \cup {None}]]
  /\ file \in [App -> Files]
  /\ lock \in [App -> [Files -> Request \cup {None}]]
  /\ req \in [Request -> RequestState]
  /\ restarts \in 0..MaxRestarts
  /\ torn \subseteq App

LEMMA TypeParts == (TypeOK <=> Types /\ LockDiscipline) /\ (TypeOK' <=> Types' /\ LockDiscipline')
  BY DEF TypeOK, Types

LEMMA IdleTyped == Idle \in RequestState /\ Sound(Idle) /\ Idle.pc = "idle"
  BY DEF Idle, RequestState, Ops, PCs, Waiting, Holding, Files, Sound, Writing, Clearing

Involved == Waiting \cup Holding
InPlace(r, q) == q.app = req[r].app /\ q.file = req[r].file

Takes(r, q)    == /\ req[r].pc \in Waiting /\ q.pc \in Holding /\ InPlace(r, q)
                  /\ Free(r) /\ Lock(r)
Releases(r, q) == req[r].pc \in Holding /\ q.pc \notin Holding /\ Unlock(r)
Keeps(r, q)    == /\ lock' = lock
                  /\ req[r].pc \in Holding <=> q.pc \in Holding
                  /\ q.pc \in Holding => InPlace(r, q)

\* The request becomes q.
Becomes(r, q) ==
  /\ q \in RequestState /\ Sound(q)
  /\ req' = [req EXCEPT ![r] = q]
  /\ q.pc \in Involved => \/ (req[r].pc \in Involved /\ InPlace(r, q))
                          \/ (q.app \in App /\ q.file = file[q.app])
  /\ Takes(r, q) \/ Releases(r, q) \/ Keeps(r, q)

\* It writes an object under the lock and is over, deletes one, or clears a namespace.
Puts(r, a, k, v) == /\ size' = [size EXCEPT ![a][k] = v]
                    /\ v # None => req[r].app = a /\ req[r].pc = "measured" /\ req'[r] = Idle
Clears(a) == size' = [size EXCEPT ![a] = [k \in Object |-> None]]

Turn(r) ==
  /\ \E q : Becomes(r, q)
  /\ \/ size' = size
     \/ \E a \in App, k \in Object, v \in Nat \cup {None} : Puts(r, a, k, v)
     \/ \E a \in App : Clears(a)
  /\ account' \in BOOLEAN /\ file' = file /\ restarts' = restarts

RequestStep(r) == WriteObject(r) \/ BeginDelete(r) \/ DeleteObject(r) \/ DeleteUser(r)

LEMMA Turns ==
  ASSUME Types, Requests, FinitelyMany, NEW r \in Request, RequestStep(r)
  PROVE  Turn(r)
<1>0. /\ req[r] \in RequestState /\ Sound(req[r])
      /\ Idle \in RequestState /\ Sound(Idle) /\ Idle.pc = "idle"
      /\ file \in [App -> Files] /\ account \in BOOLEAN
  BY IdleTyped DEF Types, Requests
<1>1. ASSUME BeginWrite(r) PROVE Turn(r)
  <2>0. PICK op \in {"put", "store"}, a \in App, k \in Object, s \in Sizes :
          Accept(r, [Idle EXCEPT !.op = op, !.pc = "opening", !.app = a, !.key = k, !.size = s])
    BY <1>1, <1>0 DEF BeginWrite, Accept, RequestState
  <2>1. PICK q : q = [Idle EXCEPT !.op = op, !.pc = "opening", !.app = a, !.key = k, !.size = s]
    OBVIOUS
  <2>2. s \in Nat
    BY SizeAssumption
  <2>3. q \in RequestState
    BY <1>0, <2>0, <2>1, <2>2 DEF RequestState, Ops, PCs, Waiting, Holding, Files
  <2>4. req' = [req EXCEPT ![r] = q] /\ req'[r] = q
    BY <1>1, <1>0, <2>0, <2>1 DEF BeginWrite, Accept, Types
  <2>5. Sound(q)
    BY <1>1, <1>0, <2>0, <2>1, <2>2
    DEF BeginWrite, Accept, Sound, Writing, Clearing, RequestState, Idle
  <2>6. Keeps(r, q)
    BY <1>1, <1>0, <2>0, <2>1
    DEF BeginWrite, Accept, Keeps, InPlace, Waiting, Holding, RequestState, locks,
        Idle
  <2>7. q.pc \in Involved => \/ (req[r].pc \in Involved /\ InPlace(r, q))
                              \/ (q.app \in App /\ q.file = file[q.app])
    BY <1>1, <1>0, <2>0, <2>1, <2>2
    DEF BeginWrite, Accept, Involved, InPlace, Sound, Writing, Clearing, Waiting,
        Holding, RequestState, Idle
  <2> QED
    BY <1>1, <1>0, <2>3, <2>4, <2>5, <2>6, <2>7 DEF BeginWrite, Turn, Becomes, disk, locks
<1>2. ASSUME OpenLock(r) PROVE Turn(r)
  <2>1. PICK q : q = [req[r] EXCEPT !.pc = "opened", !.file = file[req[r].app]]
    OBVIOUS
  <2>2. file[req[r].app] \in Files
    BY <1>2, <1>0 DEF OpenLock, Sound, Writing, Types
  <2>3. q \in RequestState
    BY <1>0, <2>1, <2>2 DEF RequestState, Ops, PCs, Waiting, Holding, Files
  <2>4. req' = [req EXCEPT ![r] = q] /\ req'[r] = q
    BY <1>2, <1>0, <2>1 DEF OpenLock, Types
  <2>5. Sound(q)
    BY <1>2, <1>0, <2>1, <2>2 DEF OpenLock, Sound, Writing, Clearing, RequestState
  <2>6. Keeps(r, q)
    BY <1>2, <1>0, <2>1 DEF OpenLock, Keeps, InPlace, Waiting, Holding, RequestState, locks
  <2>7. q.pc \in Involved => \/ (req[r].pc \in Involved /\ InPlace(r, q))
                              \/ (q.app \in App /\ q.file = file[q.app])
    BY <1>2, <1>0, <2>1, <2>2
    DEF OpenLock, Involved, InPlace, Sound, Writing, Clearing, Waiting, Holding,
        RequestState
  <2> QED
    BY <1>2, <1>0, <2>3, <2>4, <2>5, <2>6, <2>7 DEF OpenLock, Turn, Becomes, disk, locks
<1>3. ASSUME AcquireLock(r) PROVE Turn(r)
  <2>1. PICK q : q = [req[r] EXCEPT !.pc = "locked"]
    OBVIOUS
  <2>3. q \in RequestState
    BY <1>0, <2>1 DEF RequestState, Ops, PCs, Waiting, Holding, Files
  <2>4. req' = [req EXCEPT ![r] = q] /\ req'[r] = q
    BY <1>3, <1>0, <2>1 DEF AcquireLock, Goto, Types
  <2>5. Sound(q)
    BY <1>3, <1>0, <2>1 DEF AcquireLock, Goto, Sound, Writing, Clearing, RequestState
  <2>6. Takes(r, q)
    BY <1>3, <1>0, <2>1
    DEF AcquireLock, Goto, Takes, InPlace, Waiting, Holding, RequestState, locks
  <2>7. q.pc \in Involved => \/ (req[r].pc \in Involved /\ InPlace(r, q))
                              \/ (q.app \in App /\ q.file = file[q.app])
    BY <2>6 DEF Takes, Involved
  <2> QED
    BY <1>3, <1>0, <2>3, <2>4, <2>5, <2>6, <2>7 DEF AcquireLock, Turn, Becomes, disk, locks
<1>4. ASSUME ListNamespace(r) PROVE Turn(r)
  <2>1. PICK q : q = [req[r] EXCEPT !.pc = "measured", !.bytes = Usage(req[r].app),
                          !.objects = Count(req[r].app)]
    OBVIOUS
  <2>2. Usage(req[r].app) \in Nat /\ Count(req[r].app) \in Nat
    BY <1>4, <1>0, UsageType DEF ListNamespace, At, Sound, Writing, Types, FinitelyMany
  <2>3. q \in RequestState
    BY <1>0, <2>1, <2>2 DEF RequestState, Ops, PCs, Waiting, Holding, Files
  <2>4. req' = [req EXCEPT ![r] = q] /\ req'[r] = q
    BY <1>4, <1>0, <2>1 DEF ListNamespace, At, Types
  <2>5. Sound(q)
    BY <1>4, <1>0, <2>1, <2>2 DEF ListNamespace, At, Sound, Writing, Clearing, RequestState
  <2>6. Keeps(r, q)
    BY <1>4, <1>0, <2>1
    DEF ListNamespace, At, Keeps, InPlace, Waiting, Holding, RequestState, locks
  <2>7. q.pc \in Involved => \/ (req[r].pc \in Involved /\ InPlace(r, q))
                              \/ (q.app \in App /\ q.file = file[q.app])
    BY <1>4, <1>0, <2>1, <2>6 DEF ListNamespace, At, Keeps, Involved, Holding, RequestState
  <2> QED
    BY <1>4, <1>0, <2>3, <2>4, <2>5, <2>6, <2>7
    DEF ListNamespace, Turn, Becomes, disk, locks
<1>5. ASSUME SizeExisting(r) PROVE Turn(r)
  <2>1. PICK q : q = [req[r] EXCEPT !.pc = "measured", !.existing = size[req[r].app][req[r].key]]
    OBVIOUS
  <2>2. size[req[r].app][req[r].key] \in Nat \cup {None}
    BY <1>5, <1>0 DEF SizeExisting, At, Sound, Writing, Types
  <2>3. q \in RequestState
    BY <1>0, <2>1, <2>2 DEF RequestState, Ops, PCs, Waiting, Holding, Files
  <2>4. req' = [req EXCEPT ![r] = q] /\ req'[r] = q
    BY <1>5, <1>0, <2>1 DEF SizeExisting, At, Types
  <2>5. Sound(q)
    BY <1>5, <1>0, <2>1, <2>2 DEF SizeExisting, At, Sound, Writing, Clearing, RequestState
  <2>6. Keeps(r, q)
    BY <1>5, <1>0, <2>1
    DEF SizeExisting, At, Keeps, InPlace, Waiting, Holding, RequestState, locks
  <2>7. q.pc \in Involved => \/ (req[r].pc \in Involved /\ InPlace(r, q))
                              \/ (q.app \in App /\ q.file = file[q.app])
    BY <1>5, <1>0, <2>1, <2>6 DEF SizeExisting, At, Keeps, Involved, Holding, RequestState
  <2> QED
    BY <1>5, <1>0, <2>3, <2>4, <2>5, <2>6, <2>7 DEF SizeExisting, Turn, Becomes, disk, locks
<1>6. ASSUME GuardedWrite(r) PROVE Turn(r)
  <2>1. PICK q : q = Idle
    OBVIOUS
  <2>3. q \in RequestState
    BY <1>0, <2>1
  <2>4. req' = [req EXCEPT ![r] = q] /\ req'[r] = q
    BY <1>6, <1>0, <2>1 DEF GuardedWrite, Finish, At, Types
  <2>5. Sound(q)
    BY <1>0, <2>1
  <2>6. Releases(r, q)
    BY <1>6, <1>0, <2>1
    DEF GuardedWrite, Finish, At, Releases, InPlace, Waiting, Holding, RequestState,
        locks
  <2>7. q.pc \in Involved => \/ (req[r].pc \in Involved /\ InPlace(r, q))
                              \/ (q.app \in App /\ q.file = file[q.app])
    BY <1>6, <1>0, <2>1
    DEF GuardedWrite, Finish, At, Involved, InPlace, Sound, Writing, Clearing,
        Waiting, Holding, RequestState
  <2>8. size' = size \/ Puts(r, req[r].app, req[r].key, req[r].size)
    BY <1>6, <2>1, <2>4 DEF GuardedWrite, Write, Puts, At
  <2>9. req[r].app \in App /\ req[r].key \in Object /\ req[r].size \in Nat
    BY <1>6, <1>0 DEF GuardedWrite, At, Sound, Writing, RequestState
  <2> QED
    BY <1>6, <1>0, <2>3, <2>4, <2>5, <2>6, <2>7, <2>8, <2>9
    DEF GuardedWrite, Turn, Becomes, disk, locks
<1>7. ASSUME StoreWrite(r) PROVE Turn(r)
  <2>1. PICK q : q = Idle
    OBVIOUS
  <2>3. q \in RequestState
    BY <1>0, <2>1
  <2>4. req' = [req EXCEPT ![r] = q] /\ req'[r] = q
    BY <1>7, <1>0, <2>1 DEF StoreWrite, Finish, At, Types
  <2>5. Sound(q)
    BY <1>0, <2>1
  <2>6. Releases(r, q)
    BY <1>7, <1>0, <2>1
    DEF StoreWrite, Finish, At, Releases, InPlace, Waiting, Holding, RequestState,
        locks
  <2>7. q.pc \in Involved => \/ (req[r].pc \in Involved /\ InPlace(r, q))
                              \/ (q.app \in App /\ q.file = file[q.app])
    BY <1>7, <1>0, <2>1
    DEF StoreWrite, Finish, At, Involved, InPlace, Sound, Writing, Clearing, Waiting,
        Holding, RequestState
  <2>8. size' = size \/ Puts(r, req[r].app, req[r].key, req[r].size)
    BY <1>7, <2>1, <2>4 DEF StoreWrite, Write, Puts, At
  <2>9. req[r].app \in App /\ req[r].key \in Object /\ req[r].size \in Nat
    BY <1>7, <1>0 DEF StoreWrite, At, Sound, Writing, RequestState
  <2> QED
    BY <1>7, <1>0, <2>3, <2>4, <2>5, <2>6, <2>7, <2>8, <2>9
    DEF StoreWrite, Turn, Becomes, disk, locks
<1>8. ASSUME BeginDelete(r) PROVE Turn(r)
  <2>0. PICK a \in App, k \in Object :
          Accept(r, [Idle EXCEPT !.op = "delete", !.pc = "deleting", !.app = a, !.key = k])
    BY <1>8, <1>0 DEF BeginDelete, Accept, RequestState
  <2>1. PICK q : q = [Idle EXCEPT !.op = "delete", !.pc = "deleting", !.app = a, !.key = k]
    OBVIOUS
  <2>3. q \in RequestState
    BY <1>0, <2>0, <2>1 DEF RequestState, Ops, PCs, Waiting, Holding, Files
  <2>4. req' = [req EXCEPT ![r] = q] /\ req'[r] = q
    BY <1>8, <1>0, <2>0, <2>1 DEF BeginDelete, Accept, Types
  <2>5. Sound(q)
    BY <1>8, <1>0, <2>0, <2>1
    DEF BeginDelete, Accept, Sound, Writing, Clearing, RequestState, Idle
  <2>6. Keeps(r, q)
    BY <1>8, <1>0, <2>0, <2>1
    DEF BeginDelete, Accept, Keeps, InPlace, Waiting, Holding, RequestState, locks,
        Idle
  <2>7. q.pc \in Involved => \/ (req[r].pc \in Involved /\ InPlace(r, q))
                              \/ (q.app \in App /\ q.file = file[q.app])
    BY <1>8, <1>0, <2>0, <2>1
    DEF BeginDelete, Accept, Involved, InPlace, Sound, Writing, Clearing, Waiting,
        Holding, RequestState, Idle
  <2> QED
    BY <1>8, <1>0, <2>3, <2>4, <2>5, <2>6, <2>7 DEF BeginDelete, Turn, Becomes, disk, locks
<1>9. ASSUME DeleteObject(r) PROVE Turn(r)
  <2>1. PICK q : q = Idle
    OBVIOUS
  <2>3. q \in RequestState
    BY <1>0, <2>1
  <2>4. req' = [req EXCEPT ![r] = q] /\ req'[r] = q
    BY <1>9, <1>0, <2>1 DEF DeleteObject, Finish, At, Types
  <2>5. Sound(q)
    BY <1>0, <2>1
  <2>6. Keeps(r, q)
    BY <1>9, <1>0, <2>1
    DEF DeleteObject, Finish, At, Keeps, InPlace, Waiting, Holding, RequestState,
        locks
  <2>7. q.pc \in Involved => \/ (req[r].pc \in Involved /\ InPlace(r, q))
                              \/ (q.app \in App /\ q.file = file[q.app])
    BY <1>9, <1>0, <2>1
    DEF DeleteObject, Finish, At, Involved, InPlace, Sound, Writing, Clearing,
        Waiting, Holding, RequestState
  <2>8. Puts(r, req[r].app, req[r].key, None)
    <3>1. size' = [size EXCEPT ![req[r].app][req[r].key] = None]
      BY <1>9 DEF DeleteObject
    <3> QED
      BY <3>1 DEF Puts
  <2>9. req[r].app \in App /\ req[r].key \in Object
    BY <1>9, <1>0 DEF DeleteObject, At, Sound, Writing
  <2> QED
    BY <1>9, <1>0, <2>3, <2>4, <2>5, <2>6, <2>7, <2>8, <2>9
    DEF DeleteObject, Turn, Becomes, disk, locks
<1>10. ASSUME CommitDeleteUser(r) PROVE Turn(r)
  <2>1. PICK q : q = [Idle EXCEPT !.op = "delete_user", !.pc = "listing"]
    OBVIOUS
  <2>3. q \in RequestState
    BY <1>0, <2>1 DEF RequestState, Ops, PCs, Waiting, Holding, Files
  <2>4. req' = [req EXCEPT ![r] = q] /\ req'[r] = q
    BY <1>10, <1>0, <2>1 DEF CommitDeleteUser, Accept, Types
  <2>5. Sound(q)
    BY <1>10, <1>0, <2>1
    DEF CommitDeleteUser, Accept, Sound, Writing, Clearing, RequestState, Idle
  <2>6. Keeps(r, q)
    BY <1>10, <1>0, <2>1
    DEF CommitDeleteUser, Accept, Keeps, InPlace, Waiting, Holding, RequestState,
        locks, Idle
  <2>7. q.pc \in Involved => \/ (req[r].pc \in Involved /\ InPlace(r, q))
                              \/ (q.app \in App /\ q.file = file[q.app])
    BY <1>10, <1>0, <2>1
    DEF CommitDeleteUser, Accept, Involved, InPlace, Sound, Writing, Clearing,
        Waiting, Holding, RequestState, Idle
  <2> QED
    BY <1>10, <1>0, <2>3, <2>4, <2>5, <2>6, <2>7
    DEF CommitDeleteUser, Turn, Becomes, disk, locks
<1>11. ASSUME ListNamespaces(r) PROVE Turn(r)
  <2>1. PICK q : q = [req[r] EXCEPT !.pc = "sweeping", !.todo = {a \in App : Present(a) # {}}]
    OBVIOUS
  <2>3. q \in RequestState
    BY <1>0, <2>1 DEF RequestState, Ops, PCs, Waiting, Holding, Files
  <2>4. req' = [req EXCEPT ![r] = q] /\ req'[r] = q
    BY <1>11, <1>0, <2>1 DEF ListNamespaces, At, Types
  <2>5. Sound(q)
    BY <1>11, <1>0, <2>1 DEF ListNamespaces, At, Sound, Writing, Clearing, RequestState
  <2>6. Keeps(r, q)
    BY <1>11, <1>0, <2>1
    DEF ListNamespaces, At, Keeps, InPlace, Waiting, Holding, RequestState, locks
  <2>7. q.pc \in Involved => \/ (req[r].pc \in Involved /\ InPlace(r, q))
                              \/ (q.app \in App /\ q.file = file[q.app])
    BY <1>11, <1>0, <2>1
    DEF ListNamespaces, At, Involved, InPlace, Sound, Writing, Clearing, Waiting,
        Holding, RequestState
  <2> QED
    BY <1>11, <1>0, <2>3, <2>4, <2>5, <2>6, <2>7
    DEF ListNamespaces, Turn, Becomes, disk, locks
<1>12. ASSUME OpenForSweep(r) PROVE Turn(r)
  <2>0. PICK a \in req[r].todo :
          req' = [req EXCEPT ![r].pc = "chosen", ![r].app = a, ![r].file = file[a],
                             ![r].todo = @ \ {a}]
    BY <1>12 DEF OpenForSweep
  <2>1. PICK q : q = [req[r] EXCEPT !.pc = "chosen", !.app = a, !.file = file[a],
                          !.todo = req[r].todo \ {a}]
    OBVIOUS
  <2>2. a \in App /\ file[a] \in Files
    BY <1>0, <2>0 DEF RequestState
  <2>3. q \in RequestState
    BY <1>0, <2>0, <2>1, <2>2 DEF RequestState, Ops, PCs, Waiting, Holding, Files
  <2>4. req' = [req EXCEPT ![r] = q] /\ req'[r] = q
    BY <1>12, <1>0, <2>0, <2>1 DEF OpenForSweep, At, Types
  <2>5. Sound(q)
    BY <1>12, <1>0, <2>0, <2>1, <2>2
    DEF OpenForSweep, At, Sound, Writing, Clearing, RequestState
  <2>6. Keeps(r, q)
    BY <1>12, <1>0, <2>0, <2>1
    DEF OpenForSweep, At, Keeps, InPlace, Waiting, Holding, RequestState, locks
  <2>7. q.pc \in Involved => \/ (req[r].pc \in Involved /\ InPlace(r, q))
                              \/ (q.app \in App /\ q.file = file[q.app])
    BY <1>12, <1>0, <2>0, <2>1, <2>2
    DEF OpenForSweep, At, Involved, InPlace, Sound, Writing, Clearing, Waiting,
        Holding, RequestState
  <2> QED
    BY <1>12, <1>0, <2>3, <2>4, <2>5, <2>6, <2>7
    DEF OpenForSweep, Turn, Becomes, disk, locks
<1>13. ASSUME LockForSweep(r) PROVE Turn(r)
  <2>1. PICK q : q = [req[r] EXCEPT !.pc = "clearing"]
    OBVIOUS
  <2>3. q \in RequestState
    BY <1>0, <2>1 DEF RequestState, Ops, PCs, Waiting, Holding, Files
  <2>4. req' = [req EXCEPT ![r] = q] /\ req'[r] = q
    BY <1>13, <1>0, <2>1 DEF LockForSweep, Goto, Types
  <2>5. Sound(q)
    BY <1>13, <1>0, <2>1 DEF LockForSweep, Goto, Sound, Writing, Clearing, RequestState
  <2>6. Takes(r, q)
    BY <1>13, <1>0, <2>1
    DEF LockForSweep, Goto, Takes, InPlace, Waiting, Holding, RequestState, locks
  <2>7. q.pc \in Involved => \/ (req[r].pc \in Involved /\ InPlace(r, q))
                              \/ (q.app \in App /\ q.file = file[q.app])
    BY <2>6 DEF Takes, Involved
  <2> QED
    BY <1>13, <1>0, <2>3, <2>4, <2>5, <2>6, <2>7
    DEF LockForSweep, Turn, Becomes, disk, locks
<1>14. ASSUME DeletePrefix(r) PROVE Turn(r)
  <2>1. PICK q : q = [req[r] EXCEPT !.pc = "sweeping", !.app = None, !.file = 0]
    OBVIOUS
  <2>3. q \in RequestState
    <3>1. 0 \in Files
      BY DEF Files
    <3> QED
      BY <1>0, <2>1, <3>1 DEF RequestState, PCs
  <2>4. req' = [req EXCEPT ![r] = q] /\ req'[r] = q
    BY <1>14, <1>0, <2>1 DEF DeletePrefix, At, Types
  <2>5. Sound(q)
    BY <1>14, <1>0, <2>1 DEF DeletePrefix, At, Sound, Writing, Clearing, RequestState
  <2>6. Releases(r, q)
    BY <1>14, <1>0, <2>1
    DEF DeletePrefix, At, Releases, InPlace, Waiting, Holding, RequestState, locks
  <2>7. q.pc \in Involved => \/ (req[r].pc \in Involved /\ InPlace(r, q))
                              \/ (q.app \in App /\ q.file = file[q.app])
    BY <1>14, <1>0, <2>1
    DEF DeletePrefix, At, Involved, InPlace, Sound, Writing, Clearing, Waiting,
        Holding, RequestState
  <2>8. Clears(req[r].app) /\ req[r].app \in App
    BY <1>14, <1>0 DEF DeletePrefix, At, Sound, Clearing, Clears
  <2> QED
    BY <1>14, <1>0, <2>3, <2>4, <2>5, <2>6, <2>7, <2>8
    DEF DeletePrefix, Turn, Becomes, disk, locks
<1>15. ASSUME EndSweep(r) PROVE Turn(r)
  <2>1. PICK q : q = Idle
    OBVIOUS
  <2>3. q \in RequestState
    BY <1>0, <2>1
  <2>4. req' = [req EXCEPT ![r] = q] /\ req'[r] = q
    BY <1>15, <1>0, <2>1 DEF EndSweep, Finish, At, Types
  <2>5. Sound(q)
    BY <1>0, <2>1
  <2>6. Keeps(r, q)
    BY <1>15, <1>0, <2>1
    DEF EndSweep, Finish, At, Keeps, InPlace, Waiting, Holding, RequestState, locks
  <2>7. q.pc \in Involved => \/ (req[r].pc \in Involved /\ InPlace(r, q))
                              \/ (q.app \in App /\ q.file = file[q.app])
    BY <1>15, <1>0, <2>1
    DEF EndSweep, Finish, At, Involved, InPlace, Sound, Writing, Clearing, Waiting,
        Holding, RequestState
  <2> QED
    BY <1>15, <1>0, <2>3, <2>4, <2>5, <2>6, <2>7 DEF EndSweep, Turn, Becomes, disk, locks
<1> QED
  BY <1>1, <1>2, <1>3, <1>4, <1>5, <1>6, <1>7, <1>8, <1>9, <1>10, <1>11, <1>12, <1>13, <1>14, <1>15
  DEF RequestStep, WriteObject, DeleteUser

\* The steps: a turn of a request, the deletion of an app, a restart.
LEMMA Steps ==
  ASSUME Types, Requests, FinitelyMany, [Next]_vars
  PROVE  \/ \E r \in Request : RequestStep(r) /\ Turn(r) /\ Watch
         \/ \E a \in App : DeleteApp(a) /\ Watch
         \/ Restart /\ Watch
         \/ UNCHANGED vars
  BY Turns DEF Next, RequestStep

\* Every step keeps each variable within its type.
LEMMA TypeStep == ASSUME Types, Requests, FinitelyMany, [Next]_vars PROVE Types'
<1>1. ASSUME NEW r \in Request, Turn(r), Watch PROVE Types'
  <2>1. PICK q : Becomes(r, q)
    BY <1>1 DEF Turn
  <2>2. req' \in [Request -> RequestState]
    BY <2>1 DEF Becomes, Types
  <2>3. size' \in [App -> [Object -> Nat \cup {None}]]
    <3>1. ASSUME NEW a \in App, NEW k \in Object, NEW v \in Nat \cup {None}, Puts(r, a, k, v)
          PROVE  size' \in [App -> [Object -> Nat \cup {None}]]
      <4>1. [size[a] EXCEPT ![k] = v] \in [Object -> Nat \cup {None}]
        BY DEF Types
      <4>2. size' = [size EXCEPT ![a] = [size[a] EXCEPT ![k] = v]]
        BY <3>1 DEF Puts
      <4> QED
        BY <4>1, <4>2 DEF Types
    <3>2. ASSUME NEW a \in App, Clears(a) PROVE size' \in [App -> [Object -> Nat \cup {None}]]
      <4>1. [k \in Object |-> None] \in [Object -> Nat \cup {None}]
        OBVIOUS
      <4> QED
        BY <3>2, <4>1 DEF Clears, Types
    <3> QED
      BY <1>1, <3>1, <3>2 DEF Turn, Types
  <2>4. lock' \in [App -> [Files -> Request \cup {None}]]
    <3>1. ASSUME NEW w \in Request \cup {None},
                 lock' = [lock EXCEPT ![req[r].app][req[r].file] = w]
          PROVE  lock' \in [App -> [Files -> Request \cup {None}]]
      <4>1. \A a \in App : [lock[a] EXCEPT ![req[r].file] = w] \in [Files -> Request \cup {None}]
        BY DEF Types
      <4>2. lock' = [lock EXCEPT ![req[r].app] = [lock[req[r].app] EXCEPT ![req[r].file] = w]]
        BY <3>1
      <4> QED
        BY <4>1, <4>2 DEF Types
    <3> QED
      BY <2>1, <3>1 DEF Becomes, Takes, Releases, Keeps, Lock, Unlock, Types
  <2> QED
    BY <1>1, <2>2, <2>3, <2>4 DEF Turn, Watch, Types
<1>2. ASSUME NEW a \in App, DeleteApp(a), Watch PROVE Types'
  BY <1>2 DEF DeleteApp, Watch, Types, Files, disk
<1>3. ASSUME Restart, Watch PROVE Types'
  BY <1>3, IdleTyped DEF Restart, Watch, Types, disk
<1>4. CASE UNCHANGED vars
  BY <1>4 DEF vars, Types
<1> QED
  BY <1>1, <1>2, <1>3, <1>4, Steps

\* A request turns, and the others stay as they are.
LEMMA Others ==
  ASSUME Types, NEW r \in Request, NEW q, Becomes(r, q)
  PROVE  req'[r] = q /\ \A s \in Request \ {r} : req'[s] = req[s]
  BY DEF Types, Becomes

LEMMA RequestsStep == ASSUME Types, Requests, FinitelyMany, [Next]_vars PROVE Requests'
<1>1. ASSUME NEW r \in Request, Turn(r) PROVE Requests'
  <2>1. PICK q : Becomes(r, q)
    BY <1>1 DEF Turn
  <2>2. \A s \in Request : Sound(req'[s])
    BY <2>1, Others DEF Becomes, Requests
  <2> QED
    BY <2>2 DEF Requests, Sound
<1>2. ASSUME NEW a \in App, DeleteApp(a) PROVE Requests'
  BY <1>2 DEF DeleteApp, Requests, Sound
<1>3. ASSUME Restart PROVE Requests'
  <2>1. \A s \in Request : Sound(req'[s])
    BY <1>3, IdleTyped DEF Restart
  <2> QED
    BY <2>1 DEF Requests, Sound
<1>4. CASE UNCHANGED vars
  BY <1>4 DEF vars, Requests, Sound
<1> QED
  BY <1>1, <1>2, <1>3, <1>4, Steps

\* The lock on a file goes to who takes it and from who releases it.
LEMMA LockStep ==
  ASSUME Types, Requests, FinitelyMany, LockDiscipline, [Next]_vars PROVE LockDiscipline'
<1>0. \A s \in Request : s # None
  BY NoneAssumption
<1>1. ASSUME NEW r \in Request, RequestStep(r), Turn(r) PROVE LockDiscipline'
  <2>1. PICK q : Becomes(r, q)
    BY <1>1 DEF Turn
  <2> SUFFICES ASSUME NEW a \in App, NEW f \in Files, NEW s \in Request
               PROVE  lock'[a][f] = s <=>
                        req'[s].app = a /\ req'[s].file = f /\ req'[s].pc \in Holding
    BY DEF LockDiscipline
  <2>2. lock[a][f] = s <=> req[s].app = a /\ req[s].file = f /\ req[s].pc \in Holding
    BY DEF LockDiscipline
  <2>3. lock[a][f] = r <=> req[r].app = a /\ req[r].file = f /\ req[r].pc \in Holding
    BY DEF LockDiscipline
  <2>4. req'[s] = IF s = r THEN q ELSE req[s]
    BY <2>1, Others
  <2>5. Waiting \cap Holding = {}
    BY DEF Waiting, Holding
  <2>6. CASE Takes(r, q)
    <3>1. lock'[a][f] = IF a = req[r].app /\ f = req[r].file THEN r ELSE lock[a][f]
      BY <2>6 DEF Takes, Lock, Types
    <3>2. lock[req[r].app][req[r].file] = None
      BY <2>6 DEF Takes, Free
    <3> QED
      BY <1>0, <2>2, <2>3, <2>4, <2>5, <2>6, <3>1, <3>2 DEF Takes, InPlace
  <2>7. CASE Releases(r, q)
    <3>1. lock'[a][f] = IF a = req[r].app /\ f = req[r].file THEN None ELSE lock[a][f]
      BY <2>7 DEF Releases, Unlock, Free, Types
    <3> QED
      BY <1>0, <2>2, <2>3, <2>4, <2>7, <3>1 DEF Releases
  <2>8. CASE Keeps(r, q)
    BY <2>2, <2>3, <2>4, <2>8 DEF Keeps, InPlace
  <2> QED
    BY <2>1, <2>6, <2>7, <2>8 DEF Becomes
<1>2. ASSUME NEW a \in App, DeleteApp(a) PROVE LockDiscipline'
  BY <1>2 DEF DeleteApp, LockDiscipline
<1>3. ASSUME Restart PROVE LockDiscipline'
  <2>1. "idle" \notin Holding
    BY DEF Holding
  <2> QED
    BY <1>0, <1>3, <2>1, IdleTyped DEF Restart, LockDiscipline
<1>4. CASE UNCHANGED vars
  BY <1>4 DEF vars, LockDiscipline
<1> QED
  BY <1>1, <1>2, <1>3, <1>4, Steps

LEMMA TypesInvariant ==
  ASSUME TypeOK, Requests, FinitelyMany, [Next]_vars PROVE TypeOK'
  BY TypeParts, TypeStep, LockStep

-----------------------------------------------------------------------------
\* There(r, a) in the next state, and what Watch makes of it.
LEMMA Watched ==
  ASSUME Watch, NEW r \in Request, NEW a \in App, There(r, a)', a \notin torn'
  PROVE  a \notin torn /\ file'[a] = file[a]
  BY DEF Watch

LEMMA OneFileStep ==
  ASSUME Types, Requests, FinitelyMany, OneFile, [Next]_vars PROVE OneFile'
<1>0. \A s \in Request, a \in App :
        /\ There(s, a)  <=> req[s].app = a /\ req[s].pc \in Involved
        /\ There(s, a)' <=> req'[s].app = a /\ req'[s].pc \in Involved
  BY DEF There, Involved
<1>1. ASSUME NEW r \in Request, RequestStep(r), Turn(r), Watch PROVE OneFile'
  <2>1. PICK q : Becomes(r, q)
    BY <1>1 DEF Turn
  <2> SUFFICES ASSUME NEW s \in Request, NEW a \in App, There(s, a)', a \notin torn'
               PROVE  req'[s].file = file'[a]
    BY DEF OneFile
  <2>2. a \notin torn /\ file'[a] = file[a]
    BY <1>1, Watched
  <2>3. req'[r] = q /\ (s # r => req'[s] = req[s])
    BY <2>1, Others
  <2>4. CASE s = r
    BY <1>0, <2>1, <2>2, <2>3, <2>4 DEF Becomes, InPlace, OneFile
  <2>5. CASE s # r
    BY <1>0, <2>2, <2>3, <2>5 DEF OneFile
  <2> QED
    BY <2>4, <2>5
<1>2. ASSUME NEW b \in App, DeleteApp(b), Watch PROVE OneFile'
  <2> SUFFICES ASSUME NEW s \in Request, NEW a \in App, There(s, a)', a \notin torn'
               PROVE  req'[s].file = file'[a]
    BY DEF OneFile
  <2>1. a \notin torn /\ file'[a] = file[a]
    BY <1>2, Watched
  <2> QED
    BY <1>0, <1>2, <2>1 DEF DeleteApp, OneFile
<1>3. ASSUME Restart PROVE OneFile'
  <2>1. "idle" \notin Involved
    BY DEF Involved, Waiting, Holding
  <2> QED
    BY <1>0, <1>3, <2>1, IdleTyped DEF Restart, OneFile
<1>4. CASE UNCHANGED vars
  BY <1>4 DEF vars, OneFile, There
<1> QED
  BY <1>1, <1>2, <1>3, <1>4, Steps
-----------------------------------------------------------------------------
\* A namespace keeps finitely many objects.
LEMMA FiniteStep ==
  ASSUME Types, Requests, FinitelyMany, [Next]_vars PROVE FinitelyMany'
<1> USE DEF FinitelyMany
<1>0. \A a : Present(a) = Keys(size[a]) /\ Present(a)' = Keys(size'[a])
  BY DEF Present, Keys
<1>1. ASSUME NEW r \in Request, Turn(r) PROVE FinitelyMany'
  <2>1. CASE size' = size
    BY <1>0, <2>1
  <2>2. ASSUME NEW a \in App, NEW k \in Object, NEW v \in Nat \cup {None}, Puts(r, a, k, v),
               NEW b \in App
        PROVE  IsFiniteSet(Keys(size'[b]))
    <3>1. b # a => size'[b] = size[b]
      BY <2>2 DEF Puts, Types
    <3>2. CASE b = a
      <4>1. PICK g, f : g = size[a] /\ f = size'[a]
        OBVIOUS
      <4>2. g \in [Object -> Nat \cup {None}] /\ IsFiniteSet(Keys(g))
        BY <1>0, <4>1 DEF Types
      <4>3. f = [g EXCEPT ![k] = v]
        BY <2>2, <4>1 DEF Puts, Types
      <4>4. /\ f \in [Object -> Nat \cup {None}]
            /\ f[k] = v /\ \A o \in Object \ {k} : f[o] = g[o]
        BY <4>2, <4>3
      <4>5. Effect(f, g, k, v)
        BY <4>2, <4>4, Updated
      <4> QED
        BY <3>2, <4>1, <4>5 DEF Effect
    <3> QED
      BY <1>0, <3>1, <3>2
  <2>3. ASSUME NEW a \in App, Clears(a), NEW b \in App PROVE IsFiniteSet(Keys(size'[b]))
    <3>1. Keys([k \in Object |-> None]) = {}
      BY DEF Keys
    <3>2. size'[b] = IF b = a THEN [k \in Object |-> None] ELSE size[b]
      BY <2>3 DEF Clears, Types
    <3> QED
      BY <1>0, <3>1, <3>2, FS_EmptySet
  <2> QED
    BY <1>0, <1>1, <2>1, <2>2, <2>3 DEF Turn
<1>2. ASSUME size' = size PROVE FinitelyMany'
  BY <1>0, <1>2
<1> QED
  BY <1>1, <1>2, Steps DEF DeleteApp, Restart, disk, vars

\* In a namespace whose app was not deleted meanwhile there is one holder at a time.
LEMMA OneAtATime ==
  ASSUME TypeOK, OneFile, NEW r \in Request, NEW s \in Request, NEW a \in App, a \notin torn,
         req[r].app = a, req[s].app = a, req[r].pc \in Holding, req[s].pc \in Holding
  PROVE  r = s
<1>1. req[r].file = file[a] /\ req[s].file = file[a] /\ file[a] \in Files
  BY DEF OneFile, There, TypeOK
<1>2. lock[a][file[a]] = r /\ lock[a][file[a]] = s
  BY <1>1 DEF TypeOK, LockDiscipline
<1> QED
  BY <1>2

\* The turn of another request adds nothing to the namespace of a request that
\* has measured.
LEMMA NothingAdded ==
  ASSUME TypeOK, FinitelyMany, OneFile, NEW r \in Request, Turn(r),
         NEW s \in Request, s # r, NEW a \in App, a \notin torn,
         At(s, "put", "measured"), req[s].app = a
  PROVE  Usage(a)' <= Usage(a) /\ Count(a)' <= Count(a)
<1>0. /\ Present(a) = Keys(size[a]) /\ Present(a)' = Keys(size'[a])
      /\ Types /\ size[a] \in [Object -> Nat \cup {None}] /\ IsFiniteSet(Present(a))
  BY DEF Present, Keys, TypeOK, Types, FinitelyMany
<1>1. Usage(a) \in Nat /\ Count(a) \in Nat
  BY <1>0, UsageType
<1>2. /\ Usage(a) = Total(size[a], Keys(size[a])) /\ Usage(a)' = Total(size'[a], Keys(size'[a]))
      /\ Count(a) = Cardinality(Keys(size[a])) /\ Count(a)' = Cardinality(Keys(size'[a]))
  BY <1>0, UsageTotal, UsageTotalNext DEF Count
<1>3. CASE size'[a] = size[a]
  BY <1>1, <1>2, <1>3
<1>4. ASSUME NEW k \in Object, size'[a] = [size[a] EXCEPT ![k] = None]
      PROVE  Usage(a)' <= Usage(a) /\ Count(a)' <= Count(a)
  <2>1. PICK g, f, v : g = size[a] /\ f = size'[a] /\ v = None
    OBVIOUS
  <2>2. g \in [Object -> Nat \cup {None}] /\ IsFiniteSet(Keys(g))
    BY <1>0, <2>1
  <2>3. /\ k \in Object /\ v \in Nat \cup {None} /\ f \in [Object -> Nat \cup {None}]
        /\ f[k] = v /\ \A o \in Object \ {k} : f[o] = g[o]
    BY <1>4, <2>1, <2>2
  <2>4. Effect(f, g, k, v)
    BY <2>2, <2>3, Updated
  <2>5. Bytes(g[k]) \in Nat /\ Bytes(v) = 0
    BY <2>1, <2>2 DEF Bytes
  <2> QED
    BY <1>1, <1>2, <2>1, <2>4, <2>5 DEF Effect
<1>5. CASE size'[a] = [k \in Object |-> None]
  <2>1. Keys(size'[a]) = {}
    BY <1>5 DEF Keys
  <2>2. Usage(a)' = 0 /\ Count(a)' = 0
    BY <1>2, <2>1, FS_EmptySet, TotalFirst
  <2> QED
    BY <1>1, <2>2
<1>6. ASSUME NEW b \in App, NEW k \in Object, NEW v \in Nat \cup {None}, Puts(r, b, k, v)
      PROVE  size'[a] = size[a] \/ (b = a /\ v = None)
  <2>1. b # a => size'[a] = size[a]
    BY <1>0, <1>6 DEF Puts, Types
  <2>2. ASSUME b = a, v # None PROVE FALSE
    <3>1. req[r].app = a /\ req[r].pc \in Holding /\ req[s].pc \in Holding
      BY <1>6, <2>2 DEF Puts, At, Holding
    <3> QED
      BY <3>1, OneAtATime
  <2> QED
    BY <2>1, <2>2
<1>7. ASSUME NEW b \in App, NEW k \in Object, NEW v \in Nat \cup {None}, Puts(r, b, k, v)
      PROVE  Usage(a)' <= Usage(a) /\ Count(a)' <= Count(a)
  <2>1. CASE b = a /\ v = None
    BY <1>0, <1>4, <1>7, <2>1 DEF Puts, Types
  <2> QED
    BY <1>3, <1>6, <1>7, <2>1
<1>8. ASSUME NEW b \in App, Clears(b) PROVE Usage(a)' <= Usage(a) /\ Count(a)' <= Count(a)
  BY <1>0, <1>3, <1>5, <1>8 DEF Clears, Types
<1> QED
  BY <1>3, <1>7, <1>8 DEF Turn

\* Only the listing of its namespace makes a PUT one that has measured.
LEMMA MeasuredByListing ==
  ASSUME Types, NEW r \in Request, RequestStep(r),
         req'[r].op = "put", req'[r].pc = "measured"
  PROVE  ListNamespace(r)
<1> USE DEF Types, Accept, Finish, Goto, At
<1>0. Idle.pc = "idle" /\ Idle.op = "none"
  BY DEF Idle
<1>1. BeginWrite(r) => req'[r].pc = "opening"
  BY DEF BeginWrite, Idle
<1>2. SizeExisting(r) => req'[r].op = "store"
  BY DEF SizeExisting, RequestState
<1>3. \/ OpenLock(r) \/ AcquireLock(r) \/ ListNamespaces(r) \/ DeletePrefix(r)
      \/ OpenForSweep(r) \/ LockForSweep(r) \/ BeginDelete(r) \/ CommitDeleteUser(r)
      => req'[r].pc # "measured"
  <2>1. OpenLock(r) => req'[r].pc = "opened"
    BY DEF OpenLock, RequestState
  <2>2. AcquireLock(r) => req'[r].pc = "locked"
    BY DEF AcquireLock, RequestState
  <2>3. ListNamespaces(r) => req'[r].pc = "sweeping"
    BY DEF ListNamespaces, RequestState
  <2>4. DeletePrefix(r) => req'[r].pc = "sweeping"
    BY DEF DeletePrefix, RequestState
  <2>5. OpenForSweep(r) => req'[r].pc = "chosen"
    BY DEF OpenForSweep, RequestState
  <2>6. LockForSweep(r) => req'[r].pc = "clearing"
    BY DEF LockForSweep, RequestState
  <2>7. BeginDelete(r) => req'[r].pc = "deleting"
    BY DEF BeginDelete, Idle
  <2>8. CommitDeleteUser(r) => req'[r].pc = "listing"
    BY DEF CommitDeleteUser, Idle
  <2> QED
    BY <2>1, <2>2, <2>3, <2>4, <2>5, <2>6, <2>7, <2>8
<1>5. GuardedWrite(r) \/ StoreWrite(r) \/ DeleteObject(r) \/ EndSweep(r) => req'[r] = Idle
  BY DEF GuardedWrite, StoreWrite, DeleteObject, EndSweep
<1> QED
  BY <1>0, <1>1, <1>2, <1>3, <1>5 DEF RequestStep, WriteObject, DeleteUser

\* What a PUT measures it keeps, and only less is in the namespace when it writes.
LEMMA MeasuredStep == ASSUME IInv, [Next]_vars PROVE Measured'
<1>0. Types /\ Types' /\ Requests /\ FinitelyMany /\ FinitelyMany' /\ Requests'
  BY TypeParts, TypeStep, FiniteStep, RequestsStep DEF IInv
<1>a. /\ \A a : Present(a) = Keys(size[a]) /\ Present(a)' = Keys(size'[a])
      /\ \A a \in App : /\ Usage(a) \in Nat /\ Count(a) \in Nat
                        /\ size' = size => Usage(a)' = Usage(a) /\ Count(a)' = Count(a)
  <2>1. \A a : Present(a) = Keys(size[a]) /\ Present(a)' = Keys(size'[a])
    BY DEF Present, Keys
  <2>2. \A a \in App : Usage(a) \in Nat /\ Count(a) \in Nat
    BY <1>0, UsageType DEF Types, FinitelyMany
  <2>3. \A a \in App : size' = size => Usage(a)' = Usage(a) /\ Count(a)' = Count(a)
    BY <2>1, UsageTotal, UsageTotalNext DEF Count
  <2> QED
    BY <2>1, <2>2, <2>3
<1>b. \A s \in Request : /\ At(s, "put", "measured") <=> req[s].op = "put" /\ req[s].pc = "measured"
                         /\ At(s, "put", "measured")' <=> req'[s].op = "put" /\ req'[s].pc = "measured"
                         /\ req[s].bytes \in Nat /\ req[s].objects \in Nat
  BY <1>0 DEF At, Types, RequestState
<1>c. \A s \in Request, a \in App :
        At(s, "put", "measured")' /\ req'[s].app = a => There(s, a)'
  BY DEF At, There, Holding
<1>1. ASSUME NEW r \in Request, RequestStep(r), Turn(r), Watch,
             NEW s \in Request, NEW a \in App, At(s, "put", "measured")', req'[s].app = a,
             a \notin torn'
      PROVE  Usage(a)' <= req'[s].bytes /\ Count(a)' <= req'[s].objects
  <2>1. PICK q : Becomes(r, q)
    BY <1>1 DEF Turn
  <2>2. req'[r] = q /\ (s # r => req'[s] = req[s])
    BY <1>0, <2>1, Others
  <2>3. a \notin torn
    BY <1>1, <1>c, Watched
  <2>4. CASE s # r
    <3>1. At(s, "put", "measured") /\ req[s].app = a
      BY <1>1, <1>b, <2>2, <2>4
    <3>2. Usage(a)' <= Usage(a) /\ Count(a)' <= Count(a)
      BY <1>1, <2>3, <2>4, <3>1, NothingAdded DEF IInv
    <3>3. Usage(a) <= req[s].bytes /\ Count(a) <= req[s].objects
      BY <2>3, <3>1 DEF IInv, Measured
    <3>4. Usage(a)' \in Nat /\ Count(a)' \in Nat
      BY <1>0, <1>a, UsageTotalNext, TotalType, FS_CardinalityType
      DEF Types, FinitelyMany, Keys, Count
    <3> QED
      BY <1>a, <1>b, <2>2, <2>4, <3>2, <3>3, <3>4
  <2>5. CASE s = r
    <3>1. ListNamespace(r)
      BY <1>0, <1>1, <1>b, <2>2, <2>5, MeasuredByListing
    <3>2. /\ size' = size /\ req'[r].bytes = Usage(req[r].app)
          /\ req'[r].objects = Count(req[r].app) /\ req'[r].app = req[r].app
      BY <1>0, <3>1 DEF ListNamespace, Types, RequestState, disk
    <3> QED
      BY <1>1, <1>a, <2>5, <3>2
  <2> QED
    BY <2>4, <2>5
<1>2. ASSUME size' = size, req' = req, Watch,
             NEW s \in Request, NEW a \in App, At(s, "put", "measured")', req'[s].app = a,
             a \notin torn'
      PROVE  Usage(a)' <= req'[s].bytes /\ Count(a)' <= req'[s].objects
  <2>1. a \notin torn
    BY <1>2, <1>c, Watched
  <2> QED
    BY <1>2, <1>a, <1>b, <2>1 DEF IInv, Measured
<1>3. ASSUME Restart PROVE \A s \in Request : ~At(s, "put", "measured")'
  BY <1>3, <1>b, IdleTyped DEF Restart
<1>4. CASE UNCHANGED vars
  BY <1>4, <1>a, <1>b DEF vars, IInv, Measured
<1>5. CASE \E r \in Request : RequestStep(r) /\ Turn(r) /\ Watch
  BY <1>1, <1>5 DEF Measured
<1>6. CASE \E a \in App : DeleteApp(a) /\ Watch
  BY <1>2, <1>6 DEF Measured, DeleteApp, disk
<1>7. CASE Restart
  BY <1>3, <1>7 DEF Measured
<1> QED
  BY <1>0, <1>4, <1>5, <1>6, <1>7, Steps
-----------------------------------------------------------------------------
LEMMA InitIInv == Init => IInv
<1> SUFFICES ASSUME Init PROVE IInv
  OBVIOUS
<1>0. \A r \in Request : r # None /\ req[r] = Idle
  BY NoneAssumption DEF Init
<1>1. Types
  BY IdleTyped, SizeAssumption DEF Init, Types, Files
<1>2. LockDiscipline
  BY <1>0, IdleTyped DEF Init, LockDiscipline, Holding
<1>3. Requests
  BY <1>0, IdleTyped DEF Requests
<1>4. OneFile /\ Measured
  BY <1>0, IdleTyped DEF OneFile, Measured, There, At, Waiting, Holding
<1>5. FinitelyMany
  <2>1. \A a \in App : Present(a) = {}
    BY DEF Init, Present
  <2> QED
    BY <2>1, FS_EmptySet DEF FinitelyMany
<1> QED
  BY <1>1, <1>2, <1>3, <1>4, <1>5, TypeParts DEF IInv

\* IInv is an invariant of the storage of a user.
THEOREM Invariance == Spec => []IInv
<1>1. IInv /\ [Next]_vars => IInv'
  <2> SUFFICES ASSUME IInv, [Next]_vars PROVE IInv'
    OBVIOUS
  <2>1. TypeOK /\ Types /\ Requests /\ OneFile /\ FinitelyMany
    BY TypeParts DEF IInv
  <2>2. TypeOK' /\ Requests' /\ OneFile' /\ FinitelyMany' /\ Measured'
    BY <2>1, TypesInvariant, RequestsStep, OneFileStep, FiniteStep, MeasuredStep
  <2> QED
    BY <2>2 DEF IInv
<1> QED
  BY <1>1, InitIInv, PTL DEF Spec

\* Objects, locks and requests stay within their types, and the lock on a file is
\* held by the one request that measures, writes or sweeps under it
\* (storage_backend.py namespace_lock, namespace_lock_async).
THEOREM TypeCorrect == Spec => []TypeOK
<1>1. IInv => TypeOK
  BY DEF IInv
<1> QED
  BY <1>1, Invariance, PTL

\* A PUT keeps its namespace within both caps, and a store within its bytes but
\* for the object it looked at (api.py _guarded_write, app_tools.py run_tool).
THEOREM Quota == Spec => WithinQuota
<1> DEFINE Kept(r, a) ==
             req[r].app = a /\ a \notin torn /\ size' # size =>
               /\ GuardedWrite(r) => Usage(a)' <= MaxBytes
               /\ GuardedWrite(r) /\ Count(a)' > Count(a) => Count(a)' <= MaxObjects
               /\ StoreWrite(r) => Usage(a)' <= MaxBytes + Bytes(req[r].existing)
<1>1. ASSUME IInv, NEW r \in Request, NEW a \in App PROVE Kept(r, a)
  <2> SUFFICES ASSUME req[r].app = a, a \notin torn, size' # size,
                      GuardedWrite(r) \/ StoreWrite(r)
               PROVE  /\ GuardedWrite(r) => Usage(a)' <= MaxBytes
                      /\ GuardedWrite(r) /\ Count(a)' > Count(a) => Count(a)' <= MaxObjects
                      /\ StoreWrite(r) => Usage(a)' <= MaxBytes + Bytes(req[r].existing)
    OBVIOUS
  <2>0. /\ Types /\ size[a] \in [Object -> Nat \cup {None}] /\ IsFiniteSet(Keys(size[a]))
        /\ Present(a) = Keys(size[a]) /\ Present(a)' = Keys(size'[a])
    BY <1>1, TypeParts DEF IInv, Types, FinitelyMany, Present, Keys
  <2>1. PICK g, f, k, v : g = size[a] /\ f = size'[a] /\ k = req[r].key /\ v = req[r].size
    OBVIOUS
  <2>2. /\ k \in Object /\ v \in Nat
        /\ req[r].bytes \in Nat /\ req[r].objects \in Nat /\ req[r].existing \in Nat \cup {None}
    BY <1>1, <2>0, <2>1 DEF IInv, Requests, Sound, Writing, Types, RequestState,
                            GuardedWrite, StoreWrite, At
  <2>3. size' = [size EXCEPT ![a][k] = v]
    BY <2>1 DEF GuardedWrite, StoreWrite, Write
  <2>4. f = [g EXCEPT ![k] = v]
    BY <2>0, <2>1, <2>3 DEF Types
  <2>5. /\ g \in [Object -> Nat \cup {None}] /\ IsFiniteSet(Keys(g))
        /\ v \in Nat \cup {None} /\ f \in [Object -> Nat \cup {None}]
        /\ f[k] = v /\ \A o \in Object \ {k} : f[o] = g[o]
    BY <2>0, <2>1, <2>2, <2>4
  <2>e. Effect(f, g, k, v)
    BY <2>2, <2>5, Updated
  <2>6. /\ Total(f, Keys(f)) = Total(g, Keys(g)) - Bytes(g[k]) + Bytes(v)
        /\ Cardinality(Keys(f)) <= Cardinality(Keys(g)) + 1
        /\ g[k] # None => Cardinality(Keys(f)) <= Cardinality(Keys(g))
        /\ IsFiniteSet(Keys(f))
    BY <2>e DEF Effect
  <2>7. /\ Usage(a)' = Usage(a) - Bytes(g[k]) + v
        /\ Usage(a) = Total(g, Keys(g)) /\ Usage(a)' = Total(f, Keys(f))
        /\ Count(a) = Cardinality(Keys(g)) /\ Count(a)' = Cardinality(Keys(f))
    <3>1. Bytes(v) = v
      BY <2>2, NoneAssumption DEF Bytes
    <3> QED
      BY <2>0, <2>1, <2>6, <3>1, UsageTotal, UsageTotalNext DEF Count
  <2>8. /\ Usage(a) \in Nat /\ Count(a) \in Nat /\ Count(a)' \in Nat
        /\ Bytes(g[k]) \in Nat /\ Bytes(req[r].existing) \in Nat
    <3>1. Usage(a) \in Nat /\ Count(a) \in Nat
      BY <2>0, UsageType
    <3>2. Count(a)' \in Nat
      BY <2>6, <2>7, FS_CardinalityType
    <3>3. Bytes(g[k]) \in Nat /\ Bytes(req[r].existing) \in Nat
      BY <2>2, <2>5 DEF Bytes
    <3> QED
      BY <3>1, <3>2, <3>3
  <2>9. CASE GuardedWrite(r)
    <3>1. Usage(a) <= req[r].bytes /\ Count(a) <= req[r].objects
      BY <1>1, <2>9 DEF IInv, Measured, GuardedWrite
    <3>2. /\ g[k] # None \/ req[r].objects < MaxObjects
          /\ req[r].bytes - Bytes(g[k]) + v <= MaxBytes
      BY <2>1, <2>9 DEF GuardedWrite
    <3>3. ~StoreWrite(r)
      BY <2>9 DEF GuardedWrite, StoreWrite, At
    <3>4. Usage(a)' <= MaxBytes
      BY <2>2, <2>7, <2>8, <3>1, <3>2, SizeAssumption
    <3>5. Count(a)' > Count(a) => Count(a)' <= MaxObjects
      BY <2>2, <2>6, <2>7, <2>8, <3>1, <3>2, SizeAssumption
    <3> QED
      BY <3>3, <3>4, <3>5
  <2>10. CASE StoreWrite(r)
    <3>1. Usage(a) - Bytes(req[r].existing) + v <= MaxBytes
      BY <2>1, <2>10 DEF StoreWrite
    <3>2. ~GuardedWrite(r)
      BY <2>10 DEF GuardedWrite, StoreWrite, At
    <3>3. Usage(a)' <= MaxBytes + Bytes(req[r].existing)
      BY <2>2, <2>7, <2>8, <3>1, SizeAssumption
    <3> QED
      BY <3>2, <3>3
  <2> QED
    BY <2>9, <2>10
<1>2. IInv => [\A r \in Request, a \in App : Kept(r, a)]_vars
  BY <1>1
<1> QED
  BY <1>2, Invariance, PTL DEF WithinQuota
=============================================================================
