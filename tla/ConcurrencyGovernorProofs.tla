---------------------- MODULE ConcurrencyGovernorProofs ----------------------
(***************************************************************************)
(* Proofs about ConcurrencyGovernor for any runs, ceiling and threshold:   *)
(* the in-flight count, that nobody waits for nothing, and that one burst  *)
(* lowers the cap once.                                                    *)
(*                                                                         *)
(* The operations are functions of the bucket; each gets a lemma that says *)
(* what it keeps.  A drain is a recursive function of its rounds, so that  *)
(* it ends where nothing can be granted is an induction over them.         *)
(***************************************************************************)
EXTENDS ConcurrencyGovernor, SetInduction, SequenceTheorems

(* The rounds of a drain exist: the definition by recursion has a solution. *)
LEMMA RoundsStep ==
  ASSUME NEW s
  PROVE  Rounds(s) = [n \in 0..Ceiling |->
            IF n = 0 THEN {[s |-> IdleReset(s), granted |-> {}]}
            ELSE {GrantOne(p) : p \in Rounds(s)[n - 1]}]
<1> DEFINE F(g, n) == IF n = 0 THEN {[s |-> IdleReset(s), granted |-> {}]}
                      ELSE {GrantOne(p) : p \in g[n - 1]}
           Has == {m \in Nat : \E g : g = [n \in 0..m |-> F(g, n)]}
<1>1. 0 \in Has
  <2>1. [n \in 0..0 |-> {[s |-> IdleReset(s), granted |-> {}]}]
          = [n \in 0..0 |-> F([k \in 0..0 |-> {[s |-> IdleReset(s), granted |-> {}]}], n)]
    OBVIOUS
  <2> QED
    BY <2>1
<1>2. ASSUME NEW m \in Nat, m \in Has PROVE m + 1 \in Has
  <2>1. PICK g : g = [n \in 0..m |-> F(g, n)]
    BY <1>2
  <2> DEFINE h == [n \in 0..(m + 1) |-> IF n = m + 1 THEN {GrantOne(p) : p \in g[m]} ELSE g[n]]
  <2>2. ASSUME NEW n \in 0..(m + 1) PROVE h[n] = F(h, n)
    <3>1. CASE n = 0
      BY <2>1, <3>1
    <3>2. CASE n # 0 /\ n # m + 1
      <4>1. n \in 0..m /\ n - 1 \in 0..(m + 1) /\ n - 1 # m + 1
        BY <3>2
      <4> QED
        BY <2>1, <3>2, <4>1
    <3>3. CASE n = m + 1
      <4>1. n - 1 = m /\ h[m] = g[m] /\ n # 0
        BY <3>3
      <4> QED
        BY <3>3, <4>1
    <3> QED
      BY <3>1, <3>2, <3>3
  <2> HIDE DEF F
  <2>3. h = [n \in 0..(m + 1) |-> F(h, n)]
    BY <2>2
  <2> HIDE DEF h
  <2> QED
    BY <2>3
<1> HIDE DEF F, Has
<1>3. Ceiling \in Has
  BY <1>1, <1>2, InductionOnSets, GovernorAssumption
<1>4. PICK g : g = [n \in 0..Ceiling |-> F(g, n)]
  BY <1>3 DEF Has
<1> QED
  BY <1>4 DEF Rounds, F

(* A run has one queue. *)
Distinct(s) == \A m, n \in DOMAIN s.queues : s.queues[m].run = s.queues[n].run => m = n

(* What every operation keeps of a bucket. *)
Good(s) == s \in Buckets /\ Distinct(s) /\ s.inFlight = s.new + s.old

-----------------------------------------------------------------------------
(* Ranges that the typing of a bucket needs.                                *)
LEMMA Ranges ==
  /\ Ceiling \in 1..Ceiling /\ 0 \in 0..Ceiling /\ 0 \in 0..IncreaseAfter
  /\ Ceiling \in Nat /\ IncreaseAfter \in Nat
BY GovernorAssumption

\* The fields of a bucket.
LEMMA Fields ==
  ASSUME NEW s \in Buckets
  PROVE  /\ s.cap \in 1..Ceiling /\ s.inFlight \in Nat /\ s.streak \in 0..IncreaseAfter
         /\ s.lastGood \in 0..Ceiling /\ s.queues \in RunQueues
         /\ s.new \in Nat /\ s.old \in Nat
BY DEF Buckets

\* A new epoch makes every open ticket an old one.
LEMMA NewEpochIsGood ==
  ASSUME NEW s, Good(s)
  PROVE  /\ Good(NewEpoch(s))
         /\ NewEpoch(s).new = 0 /\ NewEpoch(s).cap = s.cap
         /\ NewEpoch(s).inFlight = s.inFlight /\ NewEpoch(s).queues = s.queues
         /\ NewEpoch(s).last = s.last /\ NewEpoch(s).wake = s.wake
         /\ NewEpoch(s).cooldown = s.cooldown
<1>1. s \in Buckets /\ s.old + s.new \in Nat /\ s.old \in Nat /\ s.new \in Nat /\ 0 \in Nat
  BY Fields DEF Good
<1> DEFINE x == NewEpoch(s)
<1>2. /\ x \in Buckets
      /\ x.new = 0 /\ x.old = s.old + s.new /\ x.inFlight = s.inFlight
      /\ x.queues = s.queues /\ x.cap = s.cap /\ x.last = s.last /\ x.wake = s.wake
      /\ x.cooldown = s.cooldown
  BY <1>1 DEF NewEpoch, Buckets
<1> HIDE DEF x
<1>3. Good(x)
  BY <1>1, <1>2 DEF Good, Distinct
<1> QED
  BY <1>2, <1>3 DEF x

\* The idle reset only raises the cap and leaves queues and counts alone.
LEMMA ResetIsGood ==
  ASSUME NEW s, Good(s)
  PROVE  /\ Good(IdleReset(s))
         /\ IdleReset(s).cap >= s.cap
         /\ IdleReset(s).new <= s.new
         /\ IdleReset(s).queues = s.queues
         /\ IdleReset(s).inFlight = s.inFlight
         /\ IdleReset(s).last = s.last
         /\ IdleReset(s).wake = s.wake
<1> DEFINE x == [s EXCEPT !.cap = Ceiling, !.streak = 0, !.cooldown = "none", !.lastGood = 0]
<1>1. /\ Good(x)
      /\ x.cap = Ceiling /\ x.queues = s.queues /\ x.last = s.last /\ x.wake = s.wake
      /\ x.inFlight = s.inFlight
  BY Ranges DEF Good, Distinct, Buckets
<1>2. s.cap \in 1..Ceiling /\ s.new \in Nat
  BY Fields DEF Good
<1> HIDE DEF x
<1>3. IdleReset(s) \in {s, NewEpoch(x)}
  BY DEF IdleReset, x
<1>4. s.cap <= Ceiling /\ s.cap >= s.cap /\ s.new <= s.new /\ 0 <= s.new
  BY <1>2, Ranges
<1> QED
  BY <1>1, <1>3, <1>4, NewEpochIsGood

\* A grant opens one ticket.
LEMMA GrantIsGood ==
  ASSUME NEW s, Good(s), NEW h \in Runs \cup {Observer}
  PROVE  /\ Good(Grant(s, h))
         /\ Grant(s, h).cap >= s.cap
         /\ Grant(s, h).queues = s.queues
         /\ Grant(s, h).inFlight = s.inFlight + 1
         /\ Grant(s, h).wake = s.wake
<1> DEFINE x == IdleReset(s)
<1>1. /\ Good(x) /\ x.cap >= s.cap /\ x.queues = s.queues /\ x.inFlight = s.inFlight
      /\ x.wake = s.wake
  BY ResetIsGood
<1> HIDE DEF x
<1>2. /\ x \in Buckets /\ x.new \in Nat /\ x.old \in Nat /\ x.inFlight \in Nat
      /\ x.new + 1 \in Nat /\ x.inFlight + 1 \in Nat
  BY <1>1, Fields DEF Good
<1> DEFINE y == [x EXCEPT !.asked = "recent", !.inFlight = @ + 1, !.last = h, !.new = @ + 1]
<1>3. /\ y \in Buckets /\ y.queues = x.queues /\ y.inFlight = x.inFlight + 1
      /\ y.new = x.new + 1 /\ y.old = x.old /\ y.cap = x.cap /\ y.wake = x.wake
  BY <1>2 DEF Buckets
<1>4. y = Grant(s, h)
  BY DEF Grant, x
<1> HIDE DEF y
<1>5. Good(y)
  BY <1>1, <1>2, <1>3 DEF Good, Distinct
<1> QED
  BY <1>1, <1>3, <1>4, <1>5

\* The bucket s with the queues q.
Requeued(s, q) == [s EXCEPT !.queues = q]

LEMMA RequeueIsGood ==
  ASSUME NEW s, Good(s), NEW q \in RunQueues,
         \A m, n \in DOMAIN q : q[m].run = q[n].run => m = n
  PROVE  /\ Good(Requeued(s, q)) /\ Requeued(s, q).cap = s.cap
         /\ Requeued(s, q).inFlight = s.inFlight
         /\ Requeued(s, q).new = s.new /\ Requeued(s, q).cooldown = s.cooldown
<1>1. PICK x : x = Requeued(s, q)
  OBVIOUS
<1>2. /\ x \in Buckets /\ x.queues = q /\ x.cap = s.cap /\ x.inFlight = s.inFlight
      /\ x.new = s.new /\ x.old = s.old /\ x.cooldown = s.cooldown
  BY <1>1 DEF Good, Buckets, Requeued
<1>3. Good(x)
  BY <1>2 DEF Good, Distinct
<1> QED
  BY <1>1, <1>2, <1>3

\* The sequence without its i-th element.
LEMMA RemovedAt ==
  ASSUME NEW S, NEW q \in Seq(S), NEW i \in 1..Len(q)
  PROVE  /\ RemoveAt(q, i) \in Seq(S)
         /\ DOMAIN RemoveAt(q, i) = 1..(Len(q) - 1)
         /\ \A n \in 1..(Len(q) - 1) : RemoveAt(q, i)[n] = IF n < i THEN q[n] ELSE q[n + 1]
<1> DEFINE f == SubSeq(q, 1, i - 1)
           g == SubSeq(q, i + 1, Len(q))
<1>1. Len(q) \in Nat /\ i \in Nat /\ i >= 1 /\ i <= Len(q)
  OBVIOUS
<1>2. /\ f \in Seq(S) /\ Len(f) = i - 1
      /\ \A n \in 1..(i - 1) : f[n] = q[n]
  BY <1>1, SubSeqProperties
<1>3. g \in Seq(S)
  BY <1>1, SubSeqProperties
<1>4. Len(g) = Len(q) - i /\ \A n \in 1..(Len(q) - i) : g[n] = q[i + n]
  BY <1>1, SubSeqProperties
<1> HIDE DEF f, g
<1>5. /\ f \o g \in Seq(S) /\ Len(f \o g) = Len(f) + Len(g)
      /\ \A n \in 1..(Len(f) + Len(g)) : (f \o g)[n] = IF n <= Len(f) THEN f[n] ELSE g[n - Len(f)]
  BY <1>2, <1>3, ConcatProperties
<1>5a. Len(f) + Len(g) = Len(q) - 1
  BY <1>1, <1>2, <1>4
<1>6. RemoveAt(q, i) = f \o g
  BY DEF RemoveAt, f, g
<1>7. ASSUME NEW n \in 1..(Len(q) - 1)
      PROVE  (f \o g)[n] = IF n < i THEN q[n] ELSE q[n + 1]
  <2>1. CASE n < i
    BY <1>1, <1>2, <1>5, <1>5a, <2>1
  <2>2. CASE n >= i
    <3>1. (f \o g)[n] = g[n - Len(f)]
      BY <1>1, <1>2, <1>5, <1>5a, <2>2
    <3>2. n - Len(f) \in 1..(Len(q) - i) /\ i + (n - Len(f)) = n + 1
      BY <1>1, <1>2, <2>2
    <3> QED
      BY <1>1, <1>4, <2>2, <3>1, <3>2
  <2>3. n < i \/ n >= i
    BY <1>1
  <2> QED
    BY <2>1, <2>2, <2>3
<1> QED
  BY <1>5, <1>5a, <1>6, <1>7, LenProperties

\* One waiter leaves.
LEMMA DequeueIsGood ==
  ASSUME NEW s, Good(s), NEW r \in Runs, Waiting(s, r)
  PROVE  /\ Good(Dequeue(s, r))
         /\ Dequeue(s, r).cap = s.cap
         /\ Dequeue(s, r).inFlight = s.inFlight
         /\ Dequeue(s, r).new = s.new
         /\ Dequeue(s, r).cooldown = s.cooldown
<1> DEFINE Entry == [run : Runs, n : 1..MaxWaiters]
<1>1. PICK q \in Seq(Entry) : q = s.queues
  BY Fields DEF Good, RunQueues
<1>2. PICK i \in DOMAIN q : i = Queue(s, r)
  BY <1>1 DEF Waiting, Queue
<1> DEFINE out == Shifted(q, i)
           Fine == out \in Seq(Entry)
                   /\ \A m, n \in DOMAIN out : out[m].run = out[n].run => m = n
<1>a. i \in 1..Len(q) /\ Len(q) \in Nat /\ q[i] \in Entry
  BY <1>2, LenProperties
<1>b. \A m, n \in 1..Len(q) : q[m].run = q[n].run => m = n
  BY <1>1 DEF Good, Distinct
<1>3. ASSUME q[i].n = 1 PROVE Fine
  <2>1. /\ RemoveAt(q, i) \in Seq(Entry)
        /\ DOMAIN RemoveAt(q, i) = 1..(Len(q) - 1)
        /\ \A n \in 1..(Len(q) - 1) : RemoveAt(q, i)[n] = IF n < i THEN q[n] ELSE q[n + 1]
    BY <1>a, RemovedAt
  <2>2. ASSUME NEW m \in 1..(Len(q) - 1), NEW n \in 1..(Len(q) - 1),
               RemoveAt(q, i)[m].run = RemoveAt(q, i)[n].run
        PROVE  m = n
    <3> DEFINE m1 == IF m < i THEN m ELSE m + 1
               n1 == IF n < i THEN n ELSE n + 1
    <3>1. m1 \in 1..Len(q) /\ n1 \in 1..Len(q)
      BY <1>a
    <3>2. q[m1].run = q[n1].run
      BY <2>1, <2>2
    <3>3. m1 = n1
      BY <3>1, <3>2, <1>b
    <3> QED
      BY <3>3, <1>a
  <2>3. out = RemoveAt(q, i)
    BY <1>3 DEF Shifted
  <2> HIDE DEF out
  <2> QED
    BY <2>1, <2>2, <2>3
<1>4. ASSUME q[i].n # 1 PROVE Fine
  <2>1. q[i].n \in 1..MaxWaiters /\ q[i].n - 1 \in 1..MaxWaiters
    BY <1>a, <1>4, GovernorAssumption
  <2>2. PICK e : e = [q[i] EXCEPT !.n = @ - 1]
    OBVIOUS
  <2>3. e \in Entry /\ e.run = q[i].run
    BY <1>a, <2>1, <2>2
  <2>4. out = [q EXCEPT ![i] = e]
    BY <1>4, <2>2 DEF Shifted
  <2> HIDE DEF out
  <2>5. out \in Seq(Entry) /\ DOMAIN out = 1..Len(q)
    BY <2>3, <2>4, <1>a, ExceptSeq
  <2>6. \A m \in 1..Len(q) : out[m].run = q[m].run
    BY <2>3, <2>4, <1>a
  <2> QED
    BY <2>5, <2>6, <1>b
<1> HIDE DEF out
<1>5. PICK z \in Seq(Entry) : z = out /\ \A m, n \in DOMAIN z : z[m].run = z[n].run => m = n
  BY <1>3, <1>4
<1>5a. z \in RunQueues
  BY DEF RunQueues
<1>6. Dequeue(s, r) = Requeued(s, z)
  BY <1>1, <1>2, <1>5 DEF Dequeue, out, Requeued
<1> QED
  BY <1>5, <1>5a, <1>6, RequeueIsGood

\* One waiter joins, within the bound.
LEMMA EnqueueIsGood ==
  ASSUME NEW s, Good(s), NEW r \in Runs,
         \A n \in DOMAIN s.queues : s.queues[n].run = r => s.queues[n].n < MaxWaiters
  PROVE  /\ Good(Enqueue(s, r))
         /\ Enqueue(s, r).cap = s.cap
         /\ Enqueue(s, r).inFlight = s.inFlight
         /\ Enqueue(s, r).new = s.new
<1> DEFINE Entry == [run : Runs, n : 1..MaxWaiters]
<1>1. PICK q \in Seq(Entry) : q = s.queues
  BY Fields DEF Good, RunQueues
<1>2. /\ DOMAIN q = 1..Len(q) /\ Len(q) \in Nat
      /\ \A m \in 1..Len(q) : q[m] \in Entry /\ q[m].n \in 1..MaxWaiters
  <2>1. DOMAIN q = 1..Len(q) /\ Len(q) \in Nat /\ q \in [1..Len(q) -> Entry]
    BY LenProperties
  <2> QED
    BY <2>1
<1>3. /\ \A m, n \in 1..Len(q) : q[m].run = q[n].run => m = n
      /\ \A m \in 1..Len(q) : q[m].run = r => q[m].n < MaxWaiters
  BY <1>1, <1>2 DEF Good, Distinct
<1>4. CASE Waiting(s, r)
  <2>1. PICK i \in 1..Len(q) : i = Queue(s, r) /\ q[i].run = r
    BY <1>1, <1>2, <1>4 DEF Waiting, Queue
  <2>2. q[i] \in Entry /\ q[i].n \in 1..MaxWaiters /\ q[i].n < MaxWaiters
    BY <1>2, <1>3, <2>1
  <2>3. q[i].n + 1 \in 1..MaxWaiters
    BY <2>2, GovernorAssumption
  <2>4. PICK e : e = [q[i] EXCEPT !.n = @ + 1]
    OBVIOUS
  <2>5. e \in Entry /\ e.run = q[i].run
    BY <2>2, <2>3, <2>4
  <2>6. PICK z : z = [q EXCEPT ![i] = e]
    OBVIOUS
  <2>7. z \in Seq(Entry) /\ DOMAIN z = 1..Len(q) /\ \A m \in 1..Len(q) : z[m].run = q[m].run
    <3>1. /\ z \in Seq(Entry) /\ Len(z) = Len(q)
          /\ \A m \in 1..Len(q) : z[m] = IF m = i THEN e ELSE q[m]
      BY <2>1, <2>5, <2>6, ExceptSeq
    <3> QED
      BY <2>5, <3>1, LenProperties
  <2>7a. z \in RunQueues
    BY <2>7 DEF RunQueues
  <2>8. Enqueue(s, r) = Requeued(s, z)
    BY <1>1, <1>4, <2>1, <2>4, <2>6 DEF Enqueue, Requeued
  <2> QED
    <3>1. \A m, n \in DOMAIN z : z[m].run = z[n].run => m = n
      BY <1>3, <2>7
    <3> QED
      BY <2>7a, <2>8, <3>1, RequeueIsGood
<1>5. CASE ~Waiting(s, r)
  <2>1. PICK e : e = [run |-> r, n |-> 1]
    OBVIOUS
  <2>2. 1 \in 1..MaxWaiters
    BY GovernorAssumption
  <2>3. e \in Entry /\ e.run = r
    BY <2>1, <2>2
  <2>4. PICK z : z = Append(q, e)
    OBVIOUS
  <2>5. /\ z \in Seq(Entry) /\ Len(z) = Len(q) + 1 /\ z[Len(q) + 1] = e
        /\ \A m \in 1..Len(q) : z[m] = q[m]
    BY <2>3, <2>4, AppendProperties
  <2>6. DOMAIN z = 1..(Len(q) + 1)
    BY <2>5, LenProperties
  <2>7. \A m \in 1..Len(q) : q[m].run # r
    BY <1>1, <1>2, <1>5 DEF Waiting
  <2>8. ASSUME NEW m \in 1..(Len(q) + 1), NEW n \in 1..(Len(q) + 1), z[m].run = z[n].run
        PROVE  m = n
    <3>1. (m \in 1..Len(q) \/ m = Len(q) + 1) /\ (n \in 1..Len(q) \/ n = Len(q) + 1)
      BY <1>2
    <3> QED
      BY <3>1, <1>3, <2>3, <2>5, <2>7, <2>8
  <2>8a. z \in RunQueues
    BY <2>5 DEF RunQueues
  <2>9. Enqueue(s, r) = Requeued(s, z)
    BY <1>1, <1>5, <2>1, <2>4 DEF Enqueue, Requeued
  <2> QED
    BY <2>6, <2>8, <2>8a, <2>9, RequeueIsGood
<1> QED
  BY <1>4, <1>5

\* The run granted next has a queue.
LEMMA NextWaits ==
  ASSUME NEW s, Good(s), ~NoWaiter(s)
  PROVE  NextRunWithWaiters(s) \in Runs /\ Waiting(s, NextRunWithWaiters(s))
<1> DEFINE n == Len(s.queues)
           at == {i \in 1..n : s.queues[i].run = s.last}
<1>0. PICK q \in Seq([run : Runs, n : 1..MaxWaiters]) : q = s.queues
  BY Fields DEF Good, RunQueues
<1>1. /\ n \in Nat /\ n > 0 /\ DOMAIN s.queues = 1..n
      /\ \A i \in 1..n : s.queues[i].run \in Runs
  <2>1. DOMAIN q = 1..Len(q) /\ Len(q) \in Nat /\ q \in [1..Len(q) -> [run : Runs, n : 1..MaxWaiters]]
    BY LenProperties
  <2>2. Len(q) # 0
    BY <1>0, EmptySeq DEF NoWaiter
  <2> QED
    BY <1>0, <2>1, <2>2
<1>2. \E i \in 1..n : NextRunWithWaiters(s) = s.queues[i].run
  <2>1. CASE at = {}
    BY <1>1, <2>1 DEF NextRunWithWaiters
  <2>2. CASE at # {}
    <3>1. PICK i \in at : i = CHOOSE j \in at : TRUE
      BY <2>2
    <3>2. (i % n) + 1 \in 1..n
      BY <1>1, <3>1
    <3>3. NextRunWithWaiters(s) = s.queues[(i % n) + 1].run
      BY <2>2, <3>1 DEF NextRunWithWaiters
    <3> QED
      BY <3>2, <3>3
  <2> QED
    BY <2>1, <2>2
<1> QED
  BY <1>1, <1>2 DEF Waiting

-----------------------------------------------------------------------------
(* The drain.  A pack is the bucket and the runs granted so far.            *)

Stuck(p) == NoWaiter(p.s) \/ ~CanAdmit(p.s)

\* What n rounds of a drain from bucket s can have led to.
DrainedTo(s, p) ==
    /\ Good(p.s) /\ p.granted \in SUBSET Runs
    /\ p.s.cap >= s.cap
    /\ p.granted = {} => p.s.new <= s.new

\* A round grants one request unless the drain is over.
LEMMA GrantOneIsGood ==
  ASSUME NEW s, Good(s), NEW p, DrainedTo(s, p)
  PROVE  /\ DrainedTo(s, GrantOne(p))
         /\ Stuck(p) => GrantOne(p) = p
         /\ ~Stuck(p) => GrantOne(p).s.inFlight = p.s.inFlight + 1
<1>1. CASE Stuck(p)
  BY <1>1 DEF Stuck, GrantOne
<1>2. CASE ~Stuck(p)
  <2>1. PICK r : r = NextRunWithWaiters(p.s)
    OBVIOUS
  <2>2. Good(p.s) /\ ~NoWaiter(p.s) /\ r \in Runs /\ Waiting(p.s, r)
    BY <1>2, <2>1, NextWaits DEF Stuck, DrainedTo
  <2>3. PICK x : x = Dequeue(p.s, r)
    OBVIOUS
  <2>4. Good(x) /\ x.cap = p.s.cap /\ x.inFlight = p.s.inFlight
    BY <2>2, <2>3, DequeueIsGood
  <2>5. PICK y : y = Grant(x, r)
    OBVIOUS
  <2>6. Good(y) /\ y.cap >= x.cap /\ y.inFlight = x.inFlight + 1
    BY <2>2, <2>4, <2>5, GrantIsGood
  <2>7. PICK g : g = p.granted \cup {r}
    OBVIOUS
  <2>8. GrantOne(p) = [s |-> y, granted |-> g]
    BY <1>2, <2>1, <2>3, <2>5, <2>7 DEF GrantOne, Stuck
  <2>9. GrantOne(p).s = y /\ GrantOne(p).granted = g
    BY <2>8
  <2>10. g \in SUBSET Runs /\ g # {}
    BY <2>2, <2>7 DEF DrainedTo
  <2>11. s.cap \in 1..Ceiling /\ x.cap \in 1..Ceiling /\ y.cap \in 1..Ceiling
    BY <2>4, <2>6, Fields DEF Good
  <2>12. y.cap >= s.cap
    BY <2>4, <2>6, <2>11, Ranges DEF DrainedTo
  <2> QED
    BY <1>2, <2>4, <2>6, <2>9, <2>10, <2>12 DEF DrainedTo
<1> QED
  BY <1>1, <1>2

(* A drain ends where nothing can be granted: Ceiling rounds are enough.    *)
LEMMA DrainedIsGood ==
  ASSUME NEW s, Good(s), NEW p \in Drained(s)
  PROVE  DrainedTo(s, p) /\ Stuck(p)
<1> DEFINE F == Rounds(s)
           At(n) == \A q \in F[n] : DrainedTo(s, q) /\ (Stuck(q) \/ q.s.inFlight >= n)
           Fine == {n \in Nat : n \in 0..Ceiling => At(n)}
<1>1. /\ F[0] = {[s |-> IdleReset(s), granted |-> {}]}
      /\ \A n \in 1..Ceiling : F[n] = {GrantOne(q) : q \in F[n - 1]}
  <2>1. PICK g : g = [n \in 0..Ceiling |->
            IF n = 0 THEN {[s |-> IdleReset(s), granted |-> {}]}
            ELSE {GrantOne(q) : q \in F[n - 1]}]
    OBVIOUS
  <2>2. F = g
    BY <2>1, RoundsStep
  <2>3. 0 \in 0..Ceiling /\ \A n \in 1..Ceiling : n \in 0..Ceiling /\ n # 0
    BY Ranges
  <2> HIDE DEF F
  <2> QED
    BY <2>1, <2>2, <2>3
<1> HIDE DEF F
<1>2. 0 \in Fine
  <2>1. ASSUME NEW q \in F[0] PROVE DrainedTo(s, q) /\ (Stuck(q) \/ q.s.inFlight >= 0)
    <3>1. q.s = IdleReset(s) /\ q.granted = {}
      BY <1>1, <2>1
    <3>2. Good(q.s) /\ q.s.cap >= s.cap /\ q.s.new <= s.new
      BY <3>1, ResetIsGood
    <3>3. q.s.inFlight \in Nat
      BY <3>2, Fields DEF Good
    <3> QED
      BY <3>1, <3>2, <3>3 DEF DrainedTo
  <2> QED
    BY <2>1
<1>3. ASSUME NEW n \in Nat, n \in Fine PROVE n + 1 \in Fine
  <2>1. SUFFICES ASSUME n + 1 \in 0..Ceiling, NEW q \in F[n + 1]
                 PROVE  DrainedTo(s, q) /\ (Stuck(q) \/ q.s.inFlight >= n + 1)
    OBVIOUS
  <2>2. n \in 0..Ceiling /\ n + 1 \in 1..Ceiling /\ (n + 1) - 1 = n
    BY <2>1, Ranges
  <2>3. PICK o \in F[n] : q = GrantOne(o)
    BY <1>1, <2>1, <2>2
  <2>4. DrainedTo(s, o) /\ (Stuck(o) \/ o.s.inFlight >= n)
    BY <1>3, <2>2, <2>3
  <2>5. o.s.inFlight \in Nat
    BY <2>4, Fields DEF DrainedTo, Good
  <2> QED
    BY <2>3, <2>4, <2>5, GrantOneIsGood
<1> HIDE DEF Fine
<1>4. Ceiling \in Fine
  BY <1>2, <1>3, InductionOnSets, Ranges
<1>5. DrainedTo(s, p) /\ (Stuck(p) \/ p.s.inFlight >= Ceiling)
  BY <1>4, Ranges DEF Fine, Drained, F
<1>6. p.s.cap \in 1..Ceiling /\ p.s.inFlight \in Nat
  BY <1>5, Fields DEF DrainedTo, Good
<1>7. p.s.inFlight >= Ceiling => ~CanAdmit(p.s)
  BY <1>6, Ranges DEF CanAdmit
<1> QED
  BY <1>5, <1>7 DEF Stuck

-----------------------------------------------------------------------------
(* The end of a ticket.                                                     *)

\* The counts and the queues decide whether a typed bucket is good.
LEMMA SameCounts ==
  ASSUME NEW s, Good(s), NEW x \in Buckets, x.new = s.new, x.old = s.old,
         x.inFlight = s.inFlight, x.queues = s.queues
  PROVE  Good(x)
BY DEF Good, Distinct

\* lastGood is raised to the cap.
LEMMA ProvenIsGood ==
  ASSUME NEW s, Good(s)
  PROVE  Good(Proven(s)) /\ Proven(s).cap = s.cap /\ Proven(s).new = s.new
         /\ Proven(s).old = s.old
<1>1. PICK v : v = IF s.cap > s.lastGood THEN s.cap ELSE s.lastGood
  OBVIOUS
<1>2. s.cap \in 1..Ceiling /\ s.lastGood \in 0..Ceiling /\ s \in Buckets
  BY Fields DEF Good
<1>3. v \in 0..Ceiling
  BY <1>1, <1>2, Ranges
<1>4. PICK x : x = [s EXCEPT !.lastGood = v]
  OBVIOUS
<1>5. /\ x \in Buckets /\ x.new = s.new /\ x.old = s.old /\ x.inFlight = s.inFlight
      /\ x.queues = s.queues /\ x.cap = s.cap
  BY <1>2, <1>3, <1>4 DEF Buckets
<1>6. Proven(s) = x
  BY <1>1, <1>4 DEF Proven
<1> QED
  BY <1>5, <1>6, SameCounts

\* A verdict leaves the cap between 1 and Ceiling and starts an epoch.
LEMMA VerdictIsGood ==
  ASSUME NEW s, Good(s)
  PROVE  Good(Verdict(s)) /\ Verdict(s).new = 0
<1>1. s.cap \in 1..Ceiling /\ s.lastGood \in 0..Ceiling /\ s \in Buckets
  BY Fields DEF Good
<1>2. PICK x : x = [s EXCEPT !.cap = s.lastGood]
  OBVIOUS
<1>3. PICK v : v = IF s.cap = 1 THEN 1 ELSE (3 * s.cap) \div 4
  OBVIOUS
<1>4. v \in 1..Ceiling
  BY <1>1, <1>3, Ranges
<1>5. PICK y : y = [s EXCEPT !.cap = v, !.lastGood = 0]
  OBVIOUS
<1>6. ASSUME s.lastGood # 0 PROVE Good(x)
  <2>1. s.lastGood \in 1..Ceiling
    BY <1>1, <1>6, Ranges
  <2>2. /\ x \in Buckets /\ x.new = s.new /\ x.old = s.old /\ x.inFlight = s.inFlight
        /\ x.queues = s.queues
    BY <1>1, <1>2, <2>1 DEF Buckets
  <2> QED
    BY <2>2, SameCounts
<1>7. Good(y)
  <2>1. /\ y \in Buckets /\ y.new = s.new /\ y.old = s.old /\ y.inFlight = s.inFlight
        /\ y.queues = s.queues
    BY <1>1, <1>4, <1>5, Ranges DEF Buckets
  <2> QED
    BY <2>1, SameCounts
<1>8. \/ s.lastGood # 0 /\ Verdict(s) = NewEpoch(x)
      \/ Verdict(s) = NewEpoch(y)
  BY <1>2, <1>3, <1>5 DEF Verdict
<1> QED
  BY <1>6, <1>7, <1>8, NewEpochIsGood

\* A verdict on the cap: the only end of a ticket that may lower it.
IsVerdict(kind, outcome) == kind = "new" /\ outcome \in {"throttled", "retryAfter"}

\* A success never lowers the cap.
LEMMA SucceededIsGood ==
  ASSUME NEW m \in Buckets, Good(Left(m)), Left(m).cap = m.cap, NEW kind \in {"new", "old"}
  PROVE  /\ Good(Succeeded(m, kind)) /\ Succeeded(m, kind).cap >= m.cap
         /\ Succeeded(m, kind).new = Left(m).new
<1>1. PICK l : l = Left(m)
  OBVIOUS
<1>2. Good(l) /\ l \in Buckets /\ l.cap = m.cap /\ l.streak \in 0..IncreaseAfter /\ l.cap \in 1..Ceiling
  BY <1>1, Fields DEF Good
<1>3. PICK v : v = IF l.streak < IncreaseAfter THEN l.streak + 1 ELSE l.streak
  OBVIOUS
<1>4. v \in 0..IncreaseAfter
  BY <1>2, <1>3, Ranges
<1>5. PICK x : x = [l EXCEPT !.streak = v]
  OBVIOUS
<1>6. /\ x \in Buckets /\ x.new = l.new /\ x.old = l.old /\ x.inFlight = l.inFlight
      /\ x.queues = l.queues /\ x.cap = l.cap
  BY <1>2, <1>4, <1>5 DEF Buckets
<1>7. Good(x)
  BY <1>2, <1>6, SameCounts
<1>8. PICK y : y = Proven(x)
  OBVIOUS
<1>9. Good(y) /\ y \in Buckets /\ y.cap = x.cap /\ y.new = x.new
  BY <1>7, <1>8, ProvenIsGood DEF Good
<1>10. PICK z : z = [y EXCEPT !.cap = @ + 1, !.streak = 0]
  OBVIOUS
<1>11. ASSUME m.cap < Ceiling PROVE Good(z) /\ z.cap = y.cap + 1 /\ z.new = y.new
  <2>1. y.cap + 1 \in 1..Ceiling
    BY <1>2, <1>6, <1>9, <1>11, Ranges
  <2>2. /\ z \in Buckets /\ z.new = y.new /\ z.old = y.old /\ z.inFlight = y.inFlight
        /\ z.queues = y.queues /\ z.cap = y.cap + 1
    BY <1>9, <1>10, <2>1, Ranges DEF Buckets
  <2> QED
    BY <1>9, <2>2, SameCounts
<1>12. m.cap < Ceiling \/ m.cap >= Ceiling
  BY <1>2, Ranges
<1>13. x = [Left(m) EXCEPT !.streak = IF @ < IncreaseAfter THEN @ + 1 ELSE @]
  BY <1>1, <1>3, <1>5
<1>14. \/ Succeeded(m, kind) = l
       \/ Succeeded(m, kind) = x
       \/ Succeeded(m, kind) = y
       \/ m.cap < Ceiling /\ Succeeded(m, kind) = z
  <2>1. CASE kind = "old"
    BY <2>1, <1>1 DEF Succeeded
  <2>2. CASE kind = "new"
    BY <2>2, <1>8, <1>10, <1>12, <1>13 DEF Succeeded
  <2> QED
    BY <2>1, <2>2
<1>15. l.cap >= m.cap /\ x.cap >= m.cap /\ y.cap >= m.cap /\ y.cap + 1 >= m.cap
  BY <1>2, <1>6, <1>9, Ranges
<1> QED
  BY <1>1, <1>2, <1>6, <1>7, <1>9, <1>11, <1>14, <1>15

\* A rate limit lowers it only for a ticket of the current epoch.
LEMMA ThrottledIsGood ==
  ASSUME NEW m \in Buckets, Good(Left(m)), Left(m).cap = m.cap, NEW kind \in {"new", "old"},
         NEW after \in BOOLEAN
  PROVE  /\ Good(Throttled(m, kind, after))
         /\ kind = "old" => Throttled(m, kind, after).cap = m.cap
                            /\ Throttled(m, kind, after).new = Left(m).new
         /\ kind = "new" => Throttled(m, kind, after).new = 0
<1>1. PICK l : l = Left(m)
  OBVIOUS
<1>2. Good(l) /\ l \in Buckets /\ l.cap = m.cap /\ l.cooldown \in {"none", "running", "over"}
  BY <1>1 DEF Good, Buckets
<1>3. PICK c \in {"none", "running", "over"} : c = IF after THEN "running" ELSE l.cooldown
  BY <1>2
<1>4. PICK x : x = [l EXCEPT !.streak = 0, !.cooldown = c]
  OBVIOUS
<1>5. /\ x \in Buckets /\ x.new = l.new /\ x.old = l.old /\ x.inFlight = l.inFlight
      /\ x.queues = l.queues /\ x.cap = l.cap
  BY <1>2, <1>4, Ranges DEF Buckets
<1>6. Good(x)
  BY <1>2, <1>5, SameCounts
<1>7. x = [Left(m) EXCEPT !.streak = 0, !.cooldown = IF after THEN "running" ELSE @]
  BY <1>1, <1>3, <1>4
<1>8. Throttled(m, kind, after) = IF kind = "new" THEN Verdict(x) ELSE x
  BY <1>7 DEF Throttled
<1> QED
  BY <1>1, <1>2, <1>5, <1>6, <1>8, VerdictIsGood

\* Every end of a ticket; the ticket is open when the end arrives.
LEMMA JudgedIsGood ==
  ASSUME NEW t, Good(t), NEW kind \in {"new", "old"}, t[kind] > 0, NEW outcome \in Outcomes,
         NEW j, j = Judged(IdleReset([t EXCEPT ![kind] = @ - 1]), kind, outcome)
  PROVE  /\ Good(j) /\ j.new <= t.new
         /\ IsVerdict(kind, outcome) => j.new = 0 /\ t.new > 0
         /\ ~IsVerdict(kind, outcome) => j.cap >= t.cap
<1>1. /\ t \in Buckets /\ t.new \in Nat /\ t.old \in Nat /\ t.inFlight = t.new + t.old
      /\ t.cap \in 1..Ceiling
  BY Fields DEF Good
<1>2. PICK m : m = [t EXCEPT ![kind] = @ - 1]
  OBVIOUS
<1>3. /\ m \in Buckets /\ m.inFlight = t.inFlight /\ m.cap = t.cap /\ m.queues = t.queues
      /\ m.inFlight = m.new + m.old + 1 /\ m.new \in Nat /\ m.old \in Nat /\ m.new <= t.new
  <2>1. CASE kind = "new"
    <3>1. t.new > 0 /\ t.new - 1 \in Nat
      BY <1>1, <2>1
    <3>2. m = [t EXCEPT !.new = @ - 1]
      BY <1>2, <2>1
    <3>3. /\ m \in Buckets /\ m.inFlight = t.inFlight /\ m.cap = t.cap /\ m.queues = t.queues
          /\ m.new = t.new - 1 /\ m.old = t.old
      BY <1>1, <3>1, <3>2 DEF Buckets
    <3> QED
      BY <1>1, <3>1, <3>3
  <2>2. CASE kind = "old"
    <3>1. t.old > 0 /\ t.old - 1 \in Nat
      BY <1>1, <2>2
    <3>2. m = [t EXCEPT !.old = @ - 1]
      BY <1>2, <2>2
    <3>3. /\ m \in Buckets /\ m.inFlight = t.inFlight /\ m.cap = t.cap /\ m.queues = t.queues
          /\ m.new = t.new /\ m.old = t.old - 1
      BY <1>1, <3>1, <3>2 DEF Buckets
    <3> QED
      BY <1>1, <3>1, <3>3
  <2> QED
    BY <2>1, <2>2
<1>4. IdleReset(m) = m
  <2>1. m.inFlight # 0
    BY <1>3
  <2> QED
    BY <2>1 DEF IdleReset
<1>5. /\ Good(Left(m)) /\ Left(m).cap = m.cap /\ Left(m).new = m.new
  <2>1. m.inFlight # 0 /\ m.inFlight - 1 \in Nat /\ m.inFlight - 1 = m.new + m.old
    BY <1>3
  <2>2. PICK l : l = [m EXCEPT !.inFlight = @ - 1]
    OBVIOUS
  <2>3. l = Left(m)
    BY <2>1, <2>2 DEF Left
  <2>4. /\ l \in Buckets /\ l.inFlight = m.inFlight - 1 /\ l.new = m.new /\ l.old = m.old
        /\ l.cap = m.cap /\ l.queues = m.queues
    BY <1>3, <2>1, <2>2 DEF Buckets
  <2>5. Good(l)
    BY <1>3, <2>1, <2>4 DEF Good, Distinct
  <2> QED
    BY <2>3, <2>4, <2>5
<1>6. j = Judged(m, kind, outcome)
  BY <1>2, <1>4
<1>7. CASE outcome = "completed"
  BY <1>1, <1>3, <1>5, <1>6, <1>7, SucceededIsGood DEF Judged, IsVerdict
<1>8. CASE outcome \in {"throttled", "retryAfter"}
  <2>1. PICK after \in BOOLEAN : j = Throttled(m, kind, after)
    BY <1>6, <1>8 DEF Judged
  <2>2. kind = "new" => t.new > 0
    OBVIOUS
  <2>3. t.cap >= t.cap /\ 0 <= t.new
    BY <1>1
  <2> QED
    BY <1>3, <1>5, <1>8, <2>1, <2>2, <2>3, ThrottledIsGood DEF IsVerdict
<1>9. CASE outcome = "transient"
  <2>1. PICK l : l = Left(m)
    OBVIOUS
  <2>2. PICK x : x = [l EXCEPT !.streak = 0]
    OBVIOUS
  <2>3. Good(l) /\ l \in Buckets
    BY <1>5, <2>1 DEF Good
  <2>4. /\ x \in Buckets /\ x.new = l.new /\ x.old = l.old /\ x.inFlight = l.inFlight
        /\ x.queues = l.queues /\ x.cap = l.cap
    BY <2>2, <2>3, Ranges DEF Buckets
  <2>5. j = x
    BY <1>6, <1>9, <2>1, <2>2 DEF Judged, FailedTransient
  <2>6. Good(x)
    BY <2>3, <2>4, SameCounts
  <2> QED
    BY <1>1, <1>3, <1>5, <1>9, <2>1, <2>4, <2>5, <2>6 DEF IsVerdict
<1>10. CASE outcome = "ended"
  <2>1. j = Left(m)
    BY <1>6, <1>10 DEF Judged, Ended
  <2> QED
    BY <1>1, <1>3, <1>5, <1>10, <2>1 DEF IsVerdict
<1> QED
  BY <1>7, <1>8, <1>9, <1>10 DEF Outcomes

-----------------------------------------------------------------------------
(* The inductive invariant, step by step.                                   *)

\* A request in flight since the last verdict is a probe of the cap.
NewIsProbed == b.new > 0 => probed

IInv == TypeOK /\ EveryWaiterWaitsForSomething /\ NewIsProbed

\* TypeOK is the good bucket and the other types.
LEMMA TypeIsGood ==
  TypeOK <=> /\ Good(b)
             /\ late \in BOOLEAN
             /\ served \subseteq Runs
             /\ probed \in BOOLEAN /\ stranded \in BOOLEAN
BY DEF TypeOK, Good, Distinct

\* Arming touches the wake alone.
LEMMA ArmIsGood ==
  ASSUME NEW s, Good(s), NEW x, x = Arm(s)
  PROVE  /\ Good(x) /\ x.cap = s.cap /\ x.new = s.new /\ x.inFlight = s.inFlight
         /\ x.queues = s.queues
         /\ x.wake = (~NoWaiter(s) /\ s.cooldown # "none")
<1>1. PICK w \in BOOLEAN : w = (~NoWaiter(s) /\ s.cooldown # "none")
  OBVIOUS
<1>2. x = [s EXCEPT !.wake = w]
  BY <1>1 DEF Arm
<1>3. /\ x \in Buckets /\ x.new = s.new /\ x.old = s.old /\ x.inFlight = s.inFlight
      /\ x.queues = s.queues /\ x.cap = s.cap /\ x.wake = w
  BY <1>2 DEF Good, Buckets
<1> QED
  BY <1>1, <1>3, SameCounts

\* Whoever is left waiting after a drain waits for a settlement or a wake.
LEMMA ArmedWaits ==
  ASSUME NEW s, Good(s), NoWaiter(s) \/ ~CanAdmit(s), NEW x, x = Arm(s)
  PROVE  NoWaiter(x) \/ x.inFlight >= x.cap \/ x.wake
<1>1. s.inFlight \in Nat /\ s.cap \in 1..Ceiling
  BY Fields DEF Good
<1>2. /\ x.cap = s.cap /\ x.inFlight = s.inFlight
      /\ x.wake = (~NoWaiter(s) /\ s.cooldown # "none") /\ x.queues = s.queues
  BY ArmIsGood
<1>3. CASE s.inFlight < s.cap
  <2>1. NoWaiter(s) \/ s.cooldown = "running"
    BY <1>3 DEF CanAdmit
  <2> QED
    BY <1>2, <2>1 DEF NoWaiter
<1>4. CASE ~(s.inFlight < s.cap)
  <2>1. s.inFlight >= s.cap
    BY <1>1, <1>4, Ranges
  <2> QED
    BY <1>2, <2>1
<1> QED
  BY <1>3, <1>4

\* A drain keeps the invariant.
LEMMA DrainIsGood ==
  ASSUME NEW s, Good(s), NEW seen \in BOOLEAN, Drain(s, seen), s.new > 0 => seen
  PROVE  /\ Good(b') /\ b'.cap >= s.cap
         /\ served' \subseteq Runs /\ probed' \in BOOLEAN /\ stranded' \in BOOLEAN
         /\ EveryWaiterWaitsForSomething'
         /\ NewIsProbed'
<1>1. PICK p \in Drained(s) :
        /\ b' = Arm(p.s)
        /\ served' = p.granted
        /\ probed' = (seen \/ p.granted # {})
        /\ stranded' = FALSE
  BY DEF Drain
<1>2. DrainedTo(s, p) /\ Stuck(p)
  BY DrainedIsGood
<1>3. /\ Good(b') /\ b'.cap = p.s.cap /\ b'.new = p.s.new
      /\ NoWaiter(b') \/ b'.inFlight >= b'.cap \/ b'.wake
  BY <1>1, <1>2, ArmIsGood, ArmedWaits DEF DrainedTo, Stuck
<1>4. s.new \in Nat /\ p.s.new \in Nat
  BY <1>2, Fields DEF DrainedTo, Good
<1>5. NewIsProbed'
  <2>1. CASE p.granted = {}
    <3>1. p.s.new <= s.new
      BY <1>2, <2>1 DEF DrainedTo
    <3>2. b'.new > 0 => seen
      BY <1>3, <1>4, <3>1
    <3> QED
      BY <1>1, <3>2 DEF NewIsProbed
  <2>2. CASE p.granted # {}
    BY <1>1, <2>2 DEF NewIsProbed
  <2> QED
    BY <2>1, <2>2
<1> QED
  BY <1>1, <1>2, <1>3, <1>5 DEF DrainedTo, EveryWaiterWaitsForSomething

LEMMA InitGood == Init => IInv
<1> SUFFICES ASSUME Init PROVE IInv
  OBVIOUS
<1>1. <<>> \in RunQueues /\ DOMAIN b.queues = {}
  BY EmptySeq, LenProperties DEF RunQueues, Init
<1>2. b \in Buckets
  BY <1>1, Ranges DEF Init, Buckets
<1>3. Good(b)
  BY <1>1, <1>2 DEF Good, Distinct, Init
<1>4. NoWaiter(b) /\ ~(b.new > 0)
  BY DEF NoWaiter, Init
<1> QED
  BY <1>3, <1>4, TypeIsGood DEF Init, IInv, EveryWaiterWaitsForSomething, NewIsProbed

(* Every step keeps the invariant, and lowers the cap only by the verdict   *)
(* of a probe.                                                              *)
LEMMA NextGood ==
  ASSUME IInv, [Next]_vars
  PROVE  IInv' /\ (b'.cap < b.cap => probed)
<1> USE DEF IInv
<1>1. /\ Good(b) /\ b \in Buckets /\ late \in BOOLEAN
      /\ served \subseteq Runs /\ probed \in BOOLEAN /\ stranded \in BOOLEAN
      /\ b.cap \in 1..Ceiling /\ b.new \in Nat /\ b.inFlight \in Nat
  BY TypeIsGood, Fields DEF Good
<1> DEFINE Fine == /\ Good(b') /\ (b'.cap < b.cap => probed)
                   /\ served' \subseteq Runs /\ probed' \in BOOLEAN /\ stranded' \in BOOLEAN
                   /\ late' \in BOOLEAN
                   /\ EveryWaiterWaitsForSomething' /\ NewIsProbed'
<1> SUFFICES Fine
  BY TypeIsGood DEF TypeOK, Good, Distinct
<1> HIDE DEF IInv
<1>2. NewIsProbed /\ EveryWaiterWaitsForSomething
  BY DEF IInv
<1>3. PICK s : s = IdleReset(b)
  OBVIOUS
<1>4. /\ Good(s) /\ s.cap >= b.cap /\ s.new <= b.new /\ s.queues = b.queues
      /\ s.inFlight = b.inFlight /\ s.cap \in 1..Ceiling /\ s.new \in Nat
  BY <1>1, <1>3, ResetIsGood, Fields DEF Good
<1>5. s.new > 0 => probed
  BY <1>1, <1>2, <1>4 DEF NewIsProbed
<1>6. ASSUME NEW r \in Runs, Acquire(r) PROVE Fine
  <2>1. UNCHANGED late
    BY <1>6 DEF Acquire
  <2>2. CASE NoWaiter(s) /\ CanAdmit(s)
    <3>1. b' = Grant(s, r) /\ served' = {r} /\ probed' = TRUE /\ stranded' = stranded
      BY <1>3, <1>6, <2>2 DEF Acquire
    <3>2. Good(b') /\ b'.cap >= s.cap /\ b'.queues = s.queues
      BY <1>4, <3>1, GrantIsGood
    <3>3. b'.cap \in 1..Ceiling
      BY <3>2, Fields DEF Good
    <3> QED
      BY <1>1, <1>4, <2>1, <2>2, <3>1, <3>2, <3>3, Ranges
         DEF EveryWaiterWaitsForSomething, NewIsProbed, NoWaiter
  <2>3. CASE ~(NoWaiter(s) /\ CanAdmit(s))
    <3>1. PICK e : e = Enqueue(s, r)
      OBVIOUS
    <3>2. /\ Drain(e, probed)
          /\ \A n \in DOMAIN b.queues : b.queues[n].run = r => b.queues[n].n < MaxWaiters
      BY <1>3, <1>6, <2>3, <3>1 DEF Acquire
    <3>3. Good(e) /\ e.cap = s.cap /\ e.new = s.new
      BY <1>4, <3>1, <3>2, EnqueueIsGood
    <3>4. /\ Good(b') /\ b'.cap >= e.cap
          /\ served' \subseteq Runs /\ probed' \in BOOLEAN /\ stranded' \in BOOLEAN
          /\ EveryWaiterWaitsForSomething' /\ NewIsProbed'
      BY <1>1, <1>5, <3>2, <3>3, DrainIsGood
    <3>5. b'.cap \in 1..Ceiling
      BY <3>4, Fields DEF Good
    <3> QED
      BY <1>1, <1>4, <2>1, <3>3, <3>4, <3>5, Ranges
  <2> QED
    BY <2>2, <2>3
<1>7. ASSUME NEW r \in Runs, Abort(r) PROVE Fine
  <2>1. PICK d : d = Dequeue(b, r)
    OBVIOUS
  <2>2. PICK i : i = IdleReset(d)
    OBVIOUS
  <2>3. /\ Waiting(b, r) /\ b' = Arm(i) /\ served' = {}
        /\ stranded' = (stranded \/ (~NoWaiter(i) /\ CanAdmit(i)))
        /\ UNCHANGED <<late, probed>>
    BY <1>7, <2>1, <2>2 DEF Abort
  <2>4. Good(d) /\ d.cap = b.cap /\ d.new = b.new
    BY <1>1, <2>1, <2>3, DequeueIsGood
  <2>5. Good(i) /\ i.cap >= d.cap /\ i.new <= d.new /\ i.cap \in 1..Ceiling /\ i.new \in Nat
    BY <2>2, <2>4, ResetIsGood, Fields DEF Good
  <2>6. Good(b') /\ b'.cap = i.cap /\ b'.new = i.new /\ b'.queues = i.queues
    BY <2>3, <2>5, ArmIsGood
  <2>7. stranded' \/ NoWaiter(b') \/ b'.inFlight >= b'.cap \/ b'.wake
    BY <2>3, <2>5, ArmedWaits
  <2>8. ~(b'.cap < b.cap)
    BY <1>1, <2>4, <2>5, <2>6, Ranges
  <2>9. NewIsProbed'
    BY <1>1, <1>2, <2>3, <2>4, <2>5, <2>6 DEF NewIsProbed
  <2> QED
    BY <1>1, <2>3, <2>6, <2>7, <2>8, <2>9 DEF EveryWaiterWaitsForSomething
<1>8. ASSUME Observe PROVE Fine
  <2>1. /\ b' = Grant(b, Observer) /\ served' = {} /\ probed' = TRUE
        /\ UNCHANGED <<late, stranded>>
    BY <1>8 DEF Observe
  <2>2. /\ Good(b') /\ b'.cap >= b.cap /\ b'.queues = b.queues /\ b'.wake = b.wake
        /\ b'.inFlight = b.inFlight + 1
    BY <1>1, <2>1, GrantIsGood
  <2>3. b'.cap \in 1..Ceiling
    BY <2>2, Fields DEF Good
  <2>4. b.inFlight >= b.cap => b'.cap = b.cap
    <3>1. b.inFlight >= b.cap => s = b
      BY <1>1, <1>3, Ranges DEF IdleReset
    <3> QED
      BY <1>3, <2>1, <3>1, <1>1 DEF Grant, Buckets
  <2>5. EveryWaiterWaitsForSomething'
    BY <1>1, <1>2, <2>1, <2>2, <2>3, <2>4, Ranges DEF EveryWaiterWaitsForSomething, NoWaiter
  <2>6. ~(b'.cap < b.cap)
    BY <1>1, <2>2, <2>3, Ranges
  <2> QED
    BY <1>1, <2>1, <2>2, <2>5, <2>6 DEF NewIsProbed
<1>9. ASSUME NEW kind \in {"new", "old"}, NEW outcome \in Outcomes, Settle(kind, outcome)
      PROVE  Fine
  <2>1. PICK j : j = Judged(IdleReset([b EXCEPT ![kind] = @ - 1]), kind, outcome)
    OBVIOUS
  <2>2. PICK seen \in BOOLEAN : seen = (probed /\ ~IsVerdict(kind, outcome))
    OBVIOUS
  <2>3. b[kind] > 0 /\ Drain(j, seen) /\ late' = TRUE
    BY <1>9, <2>1, <2>2 DEF Settle, IsVerdict
  <2>4. /\ Good(j) /\ j.new <= b.new
        /\ IsVerdict(kind, outcome) => j.new = 0 /\ b.new > 0
        /\ ~IsVerdict(kind, outcome) => j.cap >= b.cap
    BY <1>1, <2>1, <2>3, JudgedIsGood
  <2>5. j.new \in Nat /\ j.cap \in 1..Ceiling
    BY <2>4, Fields DEF Good
  <2>6. j.new > 0 => seen
    BY <1>1, <1>2, <2>2, <2>4, <2>5 DEF NewIsProbed
  <2>7. /\ Good(b') /\ b'.cap >= j.cap
        /\ served' \subseteq Runs /\ probed' \in BOOLEAN /\ stranded' \in BOOLEAN
        /\ EveryWaiterWaitsForSomething' /\ NewIsProbed'
    BY <2>3, <2>4, <2>6, DrainIsGood
  <2>8. b'.cap \in 1..Ceiling
    BY <2>7, Fields DEF Good
  <2>9. b'.cap < b.cap => probed
    BY <1>1, <1>2, <2>4, <2>5, <2>7, <2>8, Ranges DEF NewIsProbed
  <2> QED
    BY <1>1, <2>3, <2>7, <2>9
<1>10. ASSUME LateRelease \/ CooldownEnds \/ FiveMinutes \/ UNCHANGED vars PROVE Fine
  <2>1. /\ UNCHANGED <<probed, stranded>> /\ late' \in BOOLEAN
        /\ served' \subseteq Runs
    BY <1>1, <1>10 DEF LateRelease, CooldownEnds, FiveMinutes, vars
  <2>2. /\ b' \in Buckets /\ b'.new = b.new /\ b'.old = b.old /\ b'.inFlight = b.inFlight
        /\ b'.queues = b.queues /\ b'.cap = b.cap /\ b'.wake = b.wake
    BY <1>1, <1>10 DEF LateRelease, CooldownEnds, FiveMinutes, vars, Buckets
  <2>3. Good(b')
    BY <1>1, <2>2, SameCounts
  <2>4. ~(b'.cap < b.cap)
    BY <1>1, <2>2, Ranges
  <2> QED
    BY <1>1, <1>2, <2>1, <2>2, <2>3, <2>4 DEF EveryWaiterWaitsForSomething, NewIsProbed, NoWaiter
<1>11. ASSUME Wake PROVE Fine
  <2>1. Drain(b, probed) /\ UNCHANGED late
    BY <1>11 DEF Wake
  <2>2. /\ Good(b') /\ b'.cap >= b.cap
        /\ served' \subseteq Runs /\ probed' \in BOOLEAN /\ stranded' \in BOOLEAN
        /\ EveryWaiterWaitsForSomething' /\ NewIsProbed'
    BY <1>1, <1>2, <2>1, DrainIsGood DEF NewIsProbed
  <2>3. b'.cap \in 1..Ceiling
    BY <2>2, Fields DEF Good
  <2> QED
    BY <1>1, <2>1, <2>2, <2>3, Ranges
<1> HIDE DEF Fine
<1> QED
  BY <1>6, <1>7, <1>8, <1>9, <1>10, <1>11 DEF Next, SettleAny

-----------------------------------------------------------------------------
(* The controller and the governor keep their types, and inFlight counts    *)
(* exactly the open tickets, for any runs, ceiling and threshold.           *)
THEOREM TypeCorrect == Spec => []TypeOK
<1>1. IInv => TypeOK
  BY DEF IInv
<1> QED
  BY <1>1, InitGood, NextGood, PTL DEF Spec

(* A queued request always waits for a settlement or an armed wake, except  *)
(* behind an abort that reset an idle controller.                           *)
THEOREM WaitersAreAccounted == Spec => []EveryWaiterWaitsForSomething
<1>1. IInv => EveryWaiterWaitsForSomething
  BY DEF IInv
<1> QED
  BY <1>1, InitGood, NextGood, PTL DEF Spec

(* The cap is lowered only by the answer to a request admitted since the    *)
(* last time it was lowered: one burst counts once.                         *)
THEOREM CutsNeedProbes == Spec => CutNeedsAProbe
<1>1. IInv /\ [Next]_vars => IInv' /\ [b'.cap < b.cap => probed]_vars
  BY NextGood
<1> QED
  BY <1>1, InitGood, PTL DEF Spec, CutNeedsAProbe
=============================================================================
