-------------------------- MODULE WorkflowRunLemmas --------------------------
(***************************************************************************)
(* Lemmas about the operators WorkflowRun is built from: positions of a    *)
(* sequence, the pump, the admission of asks.                              *)
(***************************************************************************)
EXTENDS WorkflowRun, SetInduction, SequenceTheorems

-----------------------------------------------------------------------------
(* Positions.                                                              *)

LEMMA UpTo ==
  ASSUME NEW k \in Nat
  PROVE  IsFiniteSet(1..k) /\ Cardinality(1..k) = k
BY FS_Interval

\* The place of i among the elements of S.
Rank(S, i) == Cardinality({j \in S : j <= i})

LEMMA RankOrder ==
  ASSUME NEW S \in SUBSET Int, IsFiniteSet(S), NEW i \in S
  PROVE  /\ Rank(S, i) \in 1..Cardinality(S)
         /\ \A k \in S : k < i => Rank(S, k) < Rank(S, i)
<1> DEFINE L(x) == {j \in S : j <= x}
<1>1. \A x \in S : IsFiniteSet(L(x)) /\ Cardinality(L(x)) \in Nat /\ Cardinality(L(x)) <= Cardinality(S)
  BY FS_Subset, FS_CardinalityType
<1>2. Cardinality(S) \in Nat
  BY FS_CardinalityType
<1>3. Cardinality(L(i)) # 0
  BY <1>1, FS_EmptySet
<1>4. ASSUME NEW k \in S, k < i PROVE Cardinality(L(k)) < Cardinality(L(i))
  <2>0. i \in L(i) /\ i \notin L(k) /\ \A j \in S : j <= k => j <= i
    BY <1>4
  <2>1. L(k) \in SUBSET L(i) /\ L(k) # L(i)
    BY <2>0
  <2>2. Cardinality(L(k)) <= Cardinality(L(i)) /\ Cardinality(L(k)) # Cardinality(L(i))
    BY <1>1, <2>1, FS_Subset
  <2> QED
    BY <1>1, <2>2
<1> QED
  BY <1>1, <1>2, <1>3, <1>4 DEF Rank

\* Every number up to the size of S is the rank of one element.
LEMMA NthIs ==
  ASSUME NEW S \in SUBSET Int, IsFiniteSet(S), NEW n \in 1..Cardinality(S)
  PROVE  Nth(S, n) \in S /\ Rank(S, Nth(S, n)) = n
<1> DEFINE N == 1..Cardinality(S)
           f == [i \in S |-> Rank(S, i)]
<1>1. Cardinality(S) \in Nat /\ IsFiniteSet(N) /\ Cardinality(N) = Cardinality(S)
  BY FS_CardinalityType, FS_Interval
<1>2. f \in [S -> N]
  BY RankOrder
<1>3. ASSUME NEW i \in S, NEW k \in S, f[i] = f[k] PROVE i = k
  <2>1. Rank(S, i) \in Nat /\ Rank(S, k) \in Nat /\ Rank(S, i) = Rank(S, k)
    BY <1>1, <1>3, RankOrder
  <2>2. ~(i < k) /\ ~(k < i)
    BY <2>1, RankOrder
  <2> QED
    BY <2>2
<1>4. f \in Injection(S, N)
  BY <1>2, <1>3 DEF Injection, IsInjective
<1>5. f \in Surjection(S, N)
  BY <1>1, <1>4, FS_Injection
<1>6. PICK i \in S : Rank(S, i) = n
  BY <1>5 DEF Surjection
<1> QED
  BY <1>6 DEF Nth, Rank

\* At(s, S) lists the elements of s at the positions of S in order.
LEMMA AtIs ==
  ASSUME NEW s, NEW S \in SUBSET Int, IsFiniteSet(S)
  PROVE  /\ DOMAIN At(s, S) = 1..Cardinality(S)
         /\ Cardinality(S) \in Nat
         /\ \A n \in DOMAIN At(s, S) : Nth(S, n) \in S /\ At(s, S)[n] = s[Nth(S, n)]
         /\ \A m, n \in DOMAIN At(s, S) : m < n => Nth(S, m) < Nth(S, n)
         /\ \A i \in S : \E n \in DOMAIN At(s, S) : At(s, S)[n] = s[i]
<1>1. Cardinality(S) \in Nat
  BY FS_CardinalityType
<1>2. DOMAIN At(s, S) = 1..Cardinality(S) /\ \A n \in 1..Cardinality(S) : At(s, S)[n] = s[Nth(S, n)]
  BY DEF At
<1>3. ASSUME NEW m \in 1..Cardinality(S), NEW n \in 1..Cardinality(S), m < n
      PROVE  Nth(S, m) < Nth(S, n)
  <2>1. PICK a \in S : a = Nth(S, m) /\ Rank(S, a) = m
    BY NthIs
  <2>2. PICK b \in S : b = Nth(S, n) /\ Rank(S, b) = n
    BY NthIs
  <2>3. b < a => Rank(S, b) < Rank(S, a)
    BY RankOrder
  <2>4. ~(b < a) /\ a # b
    BY <1>1, <1>3, <2>1, <2>2, <2>3
  <2>5. a < b
    BY <2>4
  <2> QED
    BY <2>1, <2>2, <2>5
<1>4. ASSUME NEW i \in S PROVE \E n \in 1..Cardinality(S) : At(s, S)[n] = s[i]
  <2>1. Rank(S, i) \in 1..Cardinality(S)
    BY RankOrder
  <2>2. PICK k : k = Nth(S, Rank(S, i))
    OBVIOUS
  <2>3. k \in S /\ Rank(S, k) = Rank(S, i)
    BY <2>1, <2>2, NthIs
  <2>4. ~(i < k) /\ ~(k < i)
    BY <1>1, <2>1, <2>3, RankOrder
  <2>5. k = i
    BY <2>3, <2>4
  <2> QED
    BY <1>2, <2>1, <2>2, <2>5
<1> QED
  BY <1>1, <1>2, <1>3, <1>4, NthIs

-----------------------------------------------------------------------------
(* The shape of the engine's memory.                                       *)

Asks == AskSites \X (Nat \ {0})
ActorRefs == Range(ActorSite) \X (Nat \ {0})
Texts == UNION {{Script[s][n].text : n \in 1..Len(Script[s])} : s \in Strands}
Calls == [inst : Asks, strand : Strands, text : Texts]
Nodes == [strand : Strands, actor : ActorRefs, repairs : Nat, nudges : Nat, dispatched : BOOLEAN]

ActorShape(a) ==
    /\ a \in [recorded : Nat, next : Nat, held : {a.held}, fresh : Seq(Calls),
              queue : Seq(Asks), current : Asks \cup {None},
              session : {"none", "pending", "ready", "failed"}]
    /\ DOMAIN a.held \subseteq Nat /\ IsFiniteSet(DOMAIN a.held)
    /\ \A p \in DOMAIN a.held : a.held[p] \in Calls

EngineShape(e) ==
    /\ e \in [ordinals : [Sites -> Nat], handle : [Agents -> ActorRefs \cup {None}],
              order : Seq(ActorRefs), actor : {e.actor}, live : {e.live}, active : Nat]
    /\ DOMAIN e.actor \subseteq ActorRefs /\ IsFiniteSet(DOMAIN e.actor)
    /\ \A r \in DOMAIN e.actor : ActorShape(e.actor[r])
    /\ \A i \in DOMAIN e.live : i \in Asks /\ e.live[i] \in Nodes

-----------------------------------------------------------------------------
(* What every operation keeps of it.                                       *)

\* The actors are the refs in order, each once, named below the counters.
Roster(e) ==
    /\ \A m, n \in DOMAIN e.order : e.order[m] = e.order[n] => m = n
    /\ DOMAIN e.actor = Range(e.order)
    /\ \A r \in DOMAIN e.actor : r[2] <= e.ordinals[r[1]]
    /\ \A g \in Agents : e.handle[g] # None => e.handle[g] \in DOMAIN e.actor

\* The asks that wait for a sequence number.
Waiting(a) == {a.held[p].inst : p \in DOMAIN a.held} \cup {a.fresh[n].inst : n \in DOMAIN a.fresh}
Single(a) ==
    /\ \A p, q \in DOMAIN a.held : a.held[p].inst = a.held[q].inst => p = q
    /\ \A m, n \in DOMAIN a.fresh : a.fresh[m].inst = a.fresh[n].inst => m = n
    /\ \A p \in DOMAIN a.held, n \in DOMAIN a.fresh : a.held[p].inst # a.fresh[n].inst

\* An ask is named once, and waits or is live once.
Names(e) ==
    /\ \A i \in DOMAIN e.live : i[2] <= e.ordinals[i[1]]
    /\ \A r \in DOMAIN e.actor :
          /\ Single(e.actor[r])
          /\ \A i \in Waiting(e.actor[r]) : i \notin DOMAIN e.live /\ i[2] <= e.ordinals[i[1]]
    /\ \A r, q \in DOMAIN e.actor :
          r # q => Waiting(e.actor[r]) \cap Waiting(e.actor[q]) = {}

\* The ask in flight and the queued ones are live asks of their actor; only
\* the one in flight has been dispatched.
Holds(e, r) ==
    LET a == e.actor[r] IN
    /\ a.current # None => a.current \in DOMAIN e.live /\ e.live[a.current].actor = r
    /\ \A n \in DOMAIN a.queue :
          /\ a.queue[n] \in DOMAIN e.live /\ a.queue[n] # a.current
          /\ e.live[a.queue[n]].actor = r /\ ~e.live[a.queue[n]].dispatched
    /\ \A m, n \in DOMAIN a.queue : a.queue[m] = a.queue[n] => m = n
Flights(e) ==
    /\ \A r \in DOMAIN e.actor : Holds(e, r)
    /\ \A i \in DOMAIN e.live :
          /\ e.live[i].actor \in DOMAIN e.actor
          /\ e.live[i].dispatched => e.actor[e.live[i].actor].current = i

Busy(e) == {r \in DOMAIN e.actor : e.actor[r].current # None}
Slots(e, c) == e.active = Cardinality(Busy(e)) /\ e.active <= c

EngineInv(e, c) == EngineShape(e) /\ Roster(e) /\ Names(e) /\ Flights(e) /\ Slots(e, c)

NoIdle(e, c) == e.active < c => \A r \in DOMAIN e.actor : ~Idle(e, r)

\* The asks named so far that no longer wait for a sequence number.
Past(e) == {i \in Asks : i[2] <= e.ordinals[i[1]] /\ \A r \in DOMAIN e.actor : i \notin Waiting(e.actor[r])}

\* What the driver may rely on while the engine goes from e to x: a known ask
\* does not come back, an ask in flight keeps its actor, a session is ready
\* only by the driver's word.
Evolves(e, x) ==
    /\ Past(e) \subseteq Past(x)
    /\ \A i \in Past(e) : i \in DOMAIN x.live =>
          /\ i \in DOMAIN e.live /\ x.live[i].actor = e.live[i].actor
          /\ e.live[i].dispatched => x.live[i].dispatched
    /\ DOMAIN e.actor \subseteq DOMAIN x.actor
    /\ \A r \in DOMAIN x.actor : x.actor[r].session = "ready" =>
          r \in DOMAIN e.actor /\ e.actor[r].session = "ready"

-----------------------------------------------------------------------------
(* The pump.                                                               *)

\* A pump takes idle actors only, as many as slots are free, and leaves an
\* idle actor out only when the slots are gone.
LEMMA TakenIs ==
  ASSUME NEW e, NEW D, NEW refs \in Seq(D), cap \in Nat, e.active \in Nat, e.active <= cap
  PROVE  /\ IsFiniteSet(Taken(e, refs))
         /\ Cardinality(Taken(e, refs)) \in Nat
         /\ e.active + Cardinality(Taken(e, refs)) <= cap
         /\ \A r \in Taken(e, refs) : r \in D /\ Idle(e, r)
         /\ (\A m, n \in DOMAIN refs : refs[m] = refs[n] => m = n)
             /\ e.active + Cardinality(Taken(e, refs)) < cap
             => \A n \in DOMAIN refs : Idle(e, refs[n]) => refs[n] \in Taken(e, refs)
<1> DEFINE idle == {n \in DOMAIN refs : Idle(e, refs[n])}
           free == cap - e.active
           T == {m \in idle : Rank(idle, m) <= free}
           f == [m \in T |-> refs[m]]
           g == [m \in T |-> Rank(idle, m)]
<1>1. free \in Nat /\ Len(refs) \in Nat /\ DOMAIN refs = 1..Len(refs)
      /\ \A n \in DOMAIN refs : refs[n] \in D
  BY LenProperties
<1>2. IsFiniteSet(DOMAIN refs) /\ idle \in SUBSET DOMAIN refs /\ idle \in SUBSET Int
  BY <1>1, FS_Interval
<1>3. IsFiniteSet(idle) /\ IsFiniteSet(T) /\ T \in SUBSET idle
  BY <1>2, FS_Subset
<1>4. Taken(e, refs) = {refs[m] : m \in T}
  BY DEF Taken, Rank
<1> HIDE DEF idle, T
<1>5. f \in Surjection(T, Taken(e, refs))
  BY <1>4 DEF Surjection
<1>6. IsFiniteSet(Taken(e, refs)) /\ Cardinality(Taken(e, refs)) <= Cardinality(T)
  BY <1>3, <1>5, FS_Surjection
<1>7. \A m \in T : Rank(idle, m) \in 1..free
  BY <1>1, <1>2, <1>3, RankOrder, FS_CardinalityType DEF T
<1>8. ASSUME NEW i \in T, NEW k \in T, g[i] = g[k] PROVE i = k
  <2>1. i \in idle /\ k \in idle /\ i \in Int /\ k \in Int
    BY <1>2, <1>3
  <2>2. Rank(idle, i) \in Nat /\ Rank(idle, k) = Rank(idle, i)
    BY <1>7, <1>8
  <2>3. ~(i < k) /\ ~(k < i)
    BY <1>2, <1>3, <2>1, <2>2, RankOrder
  <2> QED
    BY <2>1, <2>3
<1>9. g \in Injection(T, 1..free)
  BY <1>7, <1>8 DEF Injection, IsInjective
<1>10. Cardinality(T) <= free
  <2>1. IsFiniteSet(1..free) /\ Cardinality(1..free) = free
    <3>1. PICK k \in Nat : k = free
      BY <1>1
    <3>2. IsFiniteSet(1..k) /\ Cardinality(1..k) = k
      BY UpTo
    <3> QED
      BY <3>1, <3>2
  <2> QED
    BY <1>9, <2>1, FS_Injection
<1>11. Cardinality(T) \in Nat /\ Cardinality(Taken(e, refs)) \in Nat
  BY <1>3, <1>6, FS_CardinalityType
<1>12. ASSUME NEW r \in Taken(e, refs) PROVE r \in D /\ Idle(e, r)
  BY <1>1, <1>3, <1>4 DEF idle
<1>13. ASSUME \A m, n \in DOMAIN refs : refs[m] = refs[n] => m = n,
              e.active + Cardinality(Taken(e, refs)) < cap,
              NEW n \in DOMAIN refs, Idle(e, refs[n])
       PROVE  refs[n] \in Taken(e, refs)
  <2>1. f \in Injection(T, Taken(e, refs))
    BY <1>3, <1>5, <1>13 DEF Injection, IsInjective, Surjection, idle
  <2>2. Cardinality(T) = Cardinality(Taken(e, refs))
    BY <1>3, <1>5, <2>1, FS_Surjection
  <2>3. Cardinality(T) < free
    BY <1>11, <1>13, <2>2
  <2>4. SUFFICES ASSUME idle \ T # {} PROVE FALSE
    BY <1>4, <1>13 DEF idle
  <2>5. idle \ T \in SUBSET Nat
    BY <1>1, <1>2
  <2>6. PICK m \in idle \ T : \A k \in idle \ T : m <= k
    BY <2>4, <2>5, LeastElement
  <2>7. Rank(idle, m) \in Nat /\ Rank(idle, m) > free
    BY <1>1, <1>2, <1>3, <2>6, RankOrder, FS_CardinalityType DEF T
  <2>8. {j \in idle : j <= m} \in SUBSET (T \cup {m})
    BY <1>2, <2>5, <2>6
  <2>9. /\ IsFiniteSet(T \cup {m}) /\ Cardinality(T \cup {m}) <= Cardinality(T) + 1
    <3>1. m \notin T
      BY <2>6
    <3>2. IsFiniteSet(T \cup {m}) /\ Cardinality(T \cup {m}) = Cardinality(T) + 1
      BY <1>3, <3>1, FS_AddElement
    <3> QED
      BY <1>11, <3>2
  <2>10. Rank(idle, m) <= Cardinality(T) + 1
    <3>1. Rank(idle, m) <= Cardinality(T \cup {m}) /\ Cardinality(T \cup {m}) \in Nat
      BY <2>8, <2>9, FS_Subset, FS_CardinalityType DEF Rank
    <3> QED
      BY <1>11, <2>7, <2>9, <3>1
  <2> QED
    BY <1>1, <1>11, <2>3, <2>7, <2>10
<1> QED
  BY <1>1, <1>6, <1>10, <1>11, <1>12, <1>13

LEMMA NoneIsNoName == None \notin Asks /\ None \notin ActorRefs
BY NoneAssumption DEF Asks, ActorRefs, Sites

\* An idle actor takes the first ask of its queue.
LEMMA TakeTurnIs ==
  ASSUME NEW a, ActorShape(a), a.queue # <<>>
  PROVE  /\ ActorShape(TakeTurn(a))
         /\ TakeTurn(a).held = a.held /\ TakeTurn(a).fresh = a.fresh
         /\ TakeTurn(a).recorded = a.recorded /\ TakeTurn(a).next = a.next
         /\ TakeTurn(a).current = a.queue[1] /\ a.queue[1] \in Asks /\ 1 \in DOMAIN a.queue
         /\ Len(a.queue) \in Nat /\ DOMAIN a.queue = 1..Len(a.queue)
         /\ DOMAIN TakeTurn(a).queue = 1..(Len(a.queue) - 1)
         /\ \A n \in 1..(Len(a.queue) - 1) : TakeTurn(a).queue[n] = a.queue[n + 1]
         /\ TakeTurn(a).session = IF a.session = "none" THEN "pending" ELSE a.session
<1>1. a.queue \in Seq(Asks) /\ a.session \in {"none", "pending", "ready", "failed"}
  BY DEF ActorShape
<1>2. PICK h : h = Head(a.queue)
  OBVIOUS
<1>3. PICK t : t = Tail(a.queue)
  OBVIOUS
<1>4. /\ h \in Asks /\ t \in Seq(Asks) /\ h = a.queue[1] /\ Len(t) = Len(a.queue) - 1
      /\ \A n \in 1..Len(t) : t[n] = a.queue[n + 1]
      /\ Len(a.queue) \in Nat \ {0} /\ DOMAIN a.queue = 1..Len(a.queue) /\ DOMAIN t = 1..Len(t)
  BY <1>1, <1>2, <1>3, HeadTailProperties, LenProperties, EmptySeq
<1>5. PICK v \in {"none", "pending", "ready", "failed"} :
        v = IF a.session = "none" THEN "pending" ELSE a.session
  BY <1>1
<1>6. PICK x : x = [a EXCEPT !.current = h, !.queue = t, !.session = v]
  OBVIOUS
<1>7. x = TakeTurn(a)
  BY <1>2, <1>3, <1>5, <1>6 DEF TakeTurn
<1>8. /\ x.held = a.held /\ x.fresh = a.fresh /\ x.recorded = a.recorded /\ x.next = a.next
      /\ x.current = h /\ x.queue = t /\ x.session = v
  BY <1>6 DEF ActorShape
<1>9. ActorShape(x)
  BY <1>4, <1>6, <1>8 DEF ActorShape
<1> QED
  BY <1>4, <1>5, <1>7, <1>8, <1>9

LEMMA PumpIs ==
  ASSUME NEW e, EngineShape(e), NEW refs \in Seq(DOMAIN e.actor), cap \in Nat, e.active <= cap,
         NEW x, x = Pump(e, refs)
  PROVE  /\ EngineShape(x)
         /\ x.ordinals = e.ordinals /\ x.handle = e.handle /\ x.order = e.order /\ x.live = e.live
         /\ x.active = e.active + Cardinality(Taken(e, refs))
         /\ DOMAIN x.actor = DOMAIN e.actor
         /\ \A r \in DOMAIN e.actor :
               x.actor[r] = IF r \in Taken(e, refs) THEN TakeTurn(e.actor[r]) ELSE e.actor[r]
<1>1. /\ e.active \in Nat
      /\ \A r \in DOMAIN e.actor : ActorShape(e.actor[r])
  BY DEF EngineShape
<1>2. PICK T : T = Taken(e, refs)
  OBVIOUS
<1>3. Cardinality(T) \in Nat /\ \A r \in T : r \in DOMAIN e.actor /\ e.actor[r].queue # <<>>
  BY <1>1, <1>2, TakenIs DEF Idle
<1>4. PICK k \in Nat : k = e.active + Cardinality(T)
  BY <1>1, <1>3
<1>5. PICK f : f = [r \in DOMAIN e.actor |-> IF r \in T THEN TakeTurn(e.actor[r]) ELSE e.actor[r]]
  OBVIOUS
<1>6. x = [e EXCEPT !.active = k, !.actor = f]
  BY <1>2, <1>4, <1>5 DEF Pump
<1>7. /\ x.ordinals = e.ordinals /\ x.handle = e.handle /\ x.order = e.order /\ x.live = e.live
      /\ x.active = k /\ x.actor = f /\ DOMAIN f = DOMAIN e.actor
  BY <1>5, <1>6 DEF EngineShape
<1>8. \A r \in DOMAIN e.actor : ActorShape(f[r])
  BY <1>1, <1>3, <1>5, TakeTurnIs
<1>9. x \in [ordinals : [Sites -> Nat], handle : [Agents -> ActorRefs \cup {None}],
             order : Seq(ActorRefs), actor : {x.actor}, live : {x.live}, active : Nat]
  BY <1>6, <1>7 DEF EngineShape
<1>10. EngineShape(x)
  BY <1>7, <1>8, <1>9 DEF EngineShape
<1> QED
  BY <1>2, <1>4, <1>5, <1>7, <1>10

\* A pump keeps the invariant, and uses every free slot it can.
LEMMA PumpKeeps ==
  ASSUME NEW e, cap \in Nat, EngineInv(e, cap), NEW refs \in Seq(DOMAIN e.actor),
         NEW x, x = Pump(e, refs)
  PROVE  EngineInv(x, cap) /\ Evolves(e, x)
<1> DEFINE T == Taken(e, refs)
<1>1. /\ EngineShape(e) /\ e.active \in Nat /\ e.active <= cap
      /\ e.active = Cardinality(Busy(e)) /\ IsFiniteSet(DOMAIN e.actor)
      /\ \A r \in DOMAIN e.actor : ActorShape(e.actor[r])
  BY DEF EngineInv, EngineShape, Slots
<1>2. /\ IsFiniteSet(T) /\ Cardinality(T) \in Nat /\ e.active + Cardinality(T) <= cap
      /\ \A r \in T : r \in DOMAIN e.actor /\ Idle(e, r)
  BY <1>1, TakenIs
<1>3. /\ EngineShape(x)
      /\ x.ordinals = e.ordinals /\ x.handle = e.handle /\ x.order = e.order /\ x.live = e.live
      /\ x.active = e.active + Cardinality(T)
      /\ DOMAIN x.actor = DOMAIN e.actor
      /\ \A r \in DOMAIN e.actor :
            x.actor[r] = IF r \in T THEN TakeTurn(e.actor[r]) ELSE e.actor[r]
  BY <1>1, PumpIs
<1> HIDE DEF T
<1>4. \A r \in T : e.actor[r].current = None /\ e.actor[r].queue # <<>>
  BY <1>2 DEF Idle
<1>5. \A r \in DOMAIN e.actor :
        /\ x.actor[r].held = e.actor[r].held /\ x.actor[r].fresh = e.actor[r].fresh
        /\ x.actor[r].session = "ready" => e.actor[r].session = "ready"
  BY <1>1, <1>3, <1>4, TakeTurnIs
<1>6. \A r \in DOMAIN e.actor :
        /\ Waiting(x.actor[r]) = Waiting(e.actor[r])
        /\ Single(e.actor[r]) => Single(x.actor[r])
  BY <1>5 DEF Waiting, Single
<1>7. Roster(x)
  <2>1. Roster(e)
    BY DEF EngineInv
  <2> QED
    BY <1>3, <2>1 DEF Roster
<1>8. Names(x)
  <2>1. Names(e)
    BY DEF EngineInv
  <2> QED
    BY ZenonT(40), <1>3, <1>6, <2>1 DEF Names
<1>9. \A r \in T :
        /\ x.actor[r].current = e.actor[r].queue[1] /\ 1 \in DOMAIN e.actor[r].queue
        /\ x.actor[r].current # None
        /\ \A n \in DOMAIN x.actor[r].queue :
              /\ n + 1 \in DOMAIN e.actor[r].queue /\ n \in Nat \ {0}
              /\ x.actor[r].queue[n] = e.actor[r].queue[n + 1]
  <2>1. ASSUME NEW r \in T PROVE
        /\ x.actor[r].current = e.actor[r].queue[1] /\ 1 \in DOMAIN e.actor[r].queue
        /\ x.actor[r].current # None
        /\ \A n \in DOMAIN x.actor[r].queue :
              /\ n + 1 \in DOMAIN e.actor[r].queue /\ n \in Nat \ {0}
              /\ x.actor[r].queue[n] = e.actor[r].queue[n + 1]
    <3>1. PICK a : a = e.actor[r]
      OBVIOUS
    <3>2. ActorShape(a) /\ a.queue # <<>> /\ x.actor[r] = TakeTurn(a)
      BY <1>1, <1>2, <1>3, <1>4, <3>1
    <3>3. /\ TakeTurn(a).current = a.queue[1] /\ a.queue[1] \in Asks /\ 1 \in DOMAIN a.queue
          /\ Len(a.queue) \in Nat /\ DOMAIN a.queue = 1..Len(a.queue)
          /\ DOMAIN TakeTurn(a).queue = 1..(Len(a.queue) - 1)
          /\ \A n \in 1..(Len(a.queue) - 1) : TakeTurn(a).queue[n] = a.queue[n + 1]
      BY <3>2, TakeTurnIs
    <3>4. TakeTurn(a).current # None
      BY <3>3, NoneIsNoName
    <3>5. ASSUME NEW n \in DOMAIN TakeTurn(a).queue
          PROVE  n + 1 \in DOMAIN a.queue /\ n \in Nat \ {0} /\ TakeTurn(a).queue[n] = a.queue[n + 1]
      BY <3>3, <3>5
    <3> QED
      BY <3>1, <3>2, <3>3, <3>4, <3>5
  <2> QED
    BY <2>1
<1>10. Flights(x)
  <2>1. Flights(e)
    BY DEF EngineInv
  <2>2. ASSUME NEW r \in DOMAIN x.actor PROVE Holds(x, r)
    <3>1. Holds(e, r) /\ r \in DOMAIN e.actor
      BY <1>3, <2>1, <2>2 DEF Flights
    <3>2. CASE r \in T
      <4>1. \A m, n \in DOMAIN x.actor[r].queue : m + 1 = n + 1 => m = n
        BY <1>9, <3>2
      <4>2. \A n \in DOMAIN x.actor[r].queue : n + 1 # 1
        BY <1>9, <3>2
      <4> QED
        BY SMTT(20), <1>3, <1>9, <3>1, <3>2, <4>1, <4>2 DEF Holds
    <3>3. CASE r \notin T
      BY SMTT(20), <1>3, <3>1, <3>3 DEF Holds
    <3> QED
      BY <3>2, <3>3
  <2>3. ASSUME NEW i \in DOMAIN x.live
        PROVE  /\ x.live[i].actor \in DOMAIN x.actor
               /\ x.live[i].dispatched => x.actor[x.live[i].actor].current = i
    <3>1. /\ e.live[i].actor \in DOMAIN e.actor
          /\ e.live[i].dispatched => e.actor[e.live[i].actor].current = i
      BY <1>3, <2>1, <2>3 DEF Flights
    <3>2. i \in Asks
      BY <1>3 DEF EngineShape
    <3> QED
      BY <1>3, <1>4, <3>1, <3>2, NoneIsNoName
  <2> QED
    BY <2>2, <2>3 DEF Flights
<1>11. Slots(x, cap)
  <2>1. Busy(x) = Busy(e) \cup T /\ Busy(e) \cap T = {}
    BY <1>2, <1>3, <1>4, <1>9 DEF Busy
  <2>2. IsFiniteSet(Busy(e))
    BY <1>1, FS_Subset DEF Busy
  <2>3. Cardinality(Busy(x)) = Cardinality(Busy(e)) + Cardinality(T)
    <3>1. Cardinality(Busy(e)) \in Nat /\ Cardinality(Busy(e) \cap T) = 0
      BY <2>1, <2>2, FS_EmptySet, FS_CardinalityType
    <3>2. Cardinality(Busy(x)) = Cardinality(Busy(e)) + Cardinality(T) - Cardinality(Busy(e) \cap T)
      BY <1>2, <2>1, <2>2, FS_Union
    <3> QED
      BY <1>2, <3>1, <3>2
  <2> QED
    BY <1>1, <1>2, <1>3, <2>3 DEF Slots
<1>12. Past(x) = Past(e)
  BY <1>3, <1>6 DEF Past
<1>13. Evolves(e, x)
  BY <1>3, <1>5, <1>12 DEF Evolves
<1> QED
  BY <1>3, <1>7, <1>8, <1>10, <1>11, <1>13 DEF EngineInv

LEMMA PumpFills ==
  ASSUME NEW e, cap \in Nat, EngineInv(e, cap), NEW refs \in Seq(DOMAIN e.actor),
         \A m, n \in DOMAIN refs : refs[m] = refs[n] => m = n,
         e.active < cap =>
            \A r \in DOMAIN e.actor : Idle(e, r) => \E n \in DOMAIN refs : r = refs[n],
         NEW x, x = Pump(e, refs)
  PROVE  NoIdle(x, cap)
<1> DEFINE T == Taken(e, refs)
<1>1. /\ EngineShape(e) /\ e.active \in Nat /\ e.active <= cap
      /\ \A r \in DOMAIN e.actor : ActorShape(e.actor[r])
  BY DEF EngineInv, EngineShape, Slots
<1>2. /\ x.active = e.active + Cardinality(T) /\ Cardinality(T) \in Nat
      /\ DOMAIN x.actor = DOMAIN e.actor
      /\ \A r \in DOMAIN e.actor :
            x.actor[r] = IF r \in T THEN TakeTurn(e.actor[r]) ELSE e.actor[r]
      /\ \A r \in T : Idle(e, r) /\ r \in DOMAIN e.actor
  BY <1>1, PumpIs, TakenIs
<1>3. SUFFICES ASSUME x.active < cap, NEW r \in DOMAIN e.actor, Idle(x, r) PROVE FALSE
  BY <1>2 DEF NoIdle
<1>4. r \notin T
  <2>1. SUFFICES ASSUME r \in T PROVE FALSE
    OBVIOUS
  <2>2. x.actor[r].current \in Asks
    BY <1>1, <1>2, <2>1, TakeTurnIs DEF Idle
  <2> QED
    BY <1>3, <2>2, NoneIsNoName DEF Idle
<1>5. Idle(e, r)
  BY <1>2, <1>3, <1>4 DEF Idle
<1>6. e.active < cap
  BY <1>1, <1>2, <1>3
<1>7. PICK n \in DOMAIN refs : r = refs[n]
  BY <1>5, <1>6
<1>8. r \in T
  BY <1>1, <1>2, <1>3, <1>5, <1>7, TakenIs
<1> QED
  BY <1>4, <1>8

-----------------------------------------------------------------------------
(* The end of an ask.                                                      *)

\* The engine without the ask i in flight, before anything is pumped.
FreeSlot(e, i) ==
    [e EXCEPT !.live = Drop(@, {i}), !.active = @ - 1, !.actor[e.live[i].actor].current = None]

LEMMA FreeSlotIs ==
  ASSUME NEW e, EngineShape(e), NEW i \in DOMAIN e.live,
         e.live[i].actor \in DOMAIN e.actor, e.active # 0,
         NEW x, x = FreeSlot(e, i)
  PROVE  /\ EngineShape(x)
         /\ x.ordinals = e.ordinals /\ x.handle = e.handle /\ x.order = e.order
         /\ x.active = e.active - 1
         /\ DOMAIN x.live = DOMAIN e.live \ {i} /\ \A j \in DOMAIN x.live : x.live[j] = e.live[j]
         /\ DOMAIN x.actor = DOMAIN e.actor
         /\ \A r \in DOMAIN e.actor :
               /\ r # e.live[i].actor => x.actor[r] = e.actor[r]
               /\ x.actor[r].held = e.actor[r].held /\ x.actor[r].fresh = e.actor[r].fresh
               /\ x.actor[r].queue = e.actor[r].queue /\ x.actor[r].session = e.actor[r].session
         /\ x.actor[e.live[i].actor].current = None
<1>1. PICK ref : ref = e.live[i].actor
  OBVIOUS
<1>2. PICK k \in Nat : k = e.active - 1
  BY DEF EngineShape
<1>3. PICK a : a = [e.actor[ref] EXCEPT !.current = None]
  OBVIOUS
<1>4. ActorShape(e.actor[ref]) /\ ref \in DOMAIN e.actor
  BY <1>1 DEF EngineShape
<1>5. /\ ActorShape(a) /\ a.held = e.actor[ref].held /\ a.fresh = e.actor[ref].fresh
      /\ a.queue = e.actor[ref].queue /\ a.session = e.actor[ref].session /\ a.current = None
  BY <1>3, <1>4 DEF ActorShape
<1>6. PICK f : f = [e.actor EXCEPT ![ref] = a]
  OBVIOUS
<1>7. PICK l : l = Drop(e.live, {i})
  OBVIOUS
<1>8. x = [e EXCEPT !.live = l, !.active = k, !.actor = f]
  BY <1>1, <1>2, <1>3, <1>6, <1>7 DEF FreeSlot
<1>9. DOMAIN l = DOMAIN e.live \ {i} /\ \A j \in DOMAIN l : l[j] = e.live[j]
  BY <1>7 DEF Drop
<1>10. /\ DOMAIN f = DOMAIN e.actor /\ f[ref] = a
       /\ \A r \in DOMAIN e.actor : r # ref => f[r] = e.actor[r]
  BY <1>4, <1>6
<1>11. /\ x.ordinals = e.ordinals /\ x.handle = e.handle /\ x.order = e.order
       /\ x.active = k /\ x.live = l /\ x.actor = f
  BY <1>8 DEF EngineShape
<1>12. x \in [ordinals : [Sites -> Nat], handle : [Agents -> ActorRefs \cup {None}],
              order : Seq(ActorRefs), actor : {x.actor}, live : {x.live}, active : Nat]
  BY <1>8, <1>11 DEF EngineShape
<1>13. \A r \in DOMAIN f : ActorShape(f[r])
  BY <1>5, <1>10 DEF EngineShape
<1>14. \A j \in DOMAIN l : j \in Asks /\ l[j] \in Nodes
  BY <1>9 DEF EngineShape
<1>15. DOMAIN f \subseteq ActorRefs /\ IsFiniteSet(DOMAIN f)
  BY <1>10 DEF EngineShape
<1>16. EngineShape(x)
  BY <1>11, <1>12, <1>13, <1>14, <1>15 DEF EngineShape
<1> QED
  BY <1>1, <1>2, <1>5, <1>9, <1>10, <1>11, <1>16

LEMMA FreeSlotKeeps ==
  ASSUME NEW e, cap \in Nat, EngineInv(e, cap), NEW i \in DOMAIN e.live,
         e.actor[e.live[i].actor].current = i, NEW x, x = FreeSlot(e, i)
  PROVE  EngineInv(x, cap) /\ Evolves(e, x) /\ x.order = e.order /\ e.active # 0
<1> DEFINE ref == e.live[i].actor
<1>1. /\ EngineShape(e) /\ Roster(e) /\ Names(e) /\ Flights(e)
      /\ e.active \in Nat /\ e.active <= cap
      /\ e.active = Cardinality(Busy(e)) /\ IsFiniteSet(DOMAIN e.actor)
      /\ i \in Asks /\ ref \in DOMAIN e.actor
  BY DEF EngineInv, EngineShape, Slots, Flights
<1>2. IsFiniteSet(Busy(e)) /\ ref \in Busy(e)
  <2>1. i # None
    BY <1>1, NoneIsNoName
  <2> QED
    BY <1>1, <2>1, FS_Subset DEF Busy
<1>3. e.active # 0
  BY <1>1, <1>2, FS_EmptySet
<1>4. /\ EngineShape(x)
      /\ x.ordinals = e.ordinals /\ x.handle = e.handle /\ x.order = e.order
      /\ x.active = e.active - 1
      /\ DOMAIN x.live = DOMAIN e.live \ {i} /\ \A j \in DOMAIN x.live : x.live[j] = e.live[j]
      /\ DOMAIN x.actor = DOMAIN e.actor
      /\ \A r \in DOMAIN e.actor :
            /\ r # ref => x.actor[r] = e.actor[r]
            /\ x.actor[r].held = e.actor[r].held /\ x.actor[r].fresh = e.actor[r].fresh
            /\ x.actor[r].queue = e.actor[r].queue /\ x.actor[r].session = e.actor[r].session
      /\ x.actor[ref].current = None
  BY <1>1, <1>3, FreeSlotIs
<1>5. \A r \in DOMAIN e.actor :
        /\ Waiting(x.actor[r]) = Waiting(e.actor[r])
        /\ Single(e.actor[r]) => Single(x.actor[r])
  BY <1>4 DEF Waiting, Single
<1> HIDE DEF ref
<1>6. Roster(x)
  BY <1>1, <1>4 DEF Roster
<1>7. Names(x)
  <2>1. \A j \in DOMAIN x.live : j[2] <= x.ordinals[j[1]]
    BY <1>1, <1>4 DEF Names
  <2>2. \A r \in DOMAIN x.actor :
          /\ Single(x.actor[r])
          /\ \A j \in Waiting(x.actor[r]) : j \notin DOMAIN x.live /\ j[2] <= x.ordinals[j[1]]
    <3>1. \A r \in DOMAIN e.actor :
            /\ Single(e.actor[r])
            /\ \A j \in Waiting(e.actor[r]) : j \notin DOMAIN e.live /\ j[2] <= e.ordinals[j[1]]
      BY <1>1 DEF Names
    <3> QED
      BY <1>4, <1>5, <3>1
  <2>3. \A r, q \in DOMAIN x.actor :
          r # q => Waiting(x.actor[r]) \cap Waiting(x.actor[q]) = {}
    <3>1. \A r, q \in DOMAIN e.actor :
            r # q => Waiting(e.actor[r]) \cap Waiting(e.actor[q]) = {}
      BY <1>1 DEF Names
    <3>2. \A r \in DOMAIN e.actor : Waiting(x.actor[r]) = Waiting(e.actor[r])
      BY <1>5
    <3> QED
      BY <1>4, <3>1, <3>2
  <2> QED
    BY <2>1, <2>2, <2>3 DEF Names
<1>8. \A r \in DOMAIN e.actor : \A n \in DOMAIN e.actor[r].queue : e.actor[r].queue[n] \in Asks
  <2>1. ASSUME NEW r \in DOMAIN e.actor, NEW n \in DOMAIN e.actor[r].queue
        PROVE  e.actor[r].queue[n] \in Asks
    <3>1. e.actor[r].queue \in Seq(Asks)
      BY <1>1 DEF EngineShape, ActorShape
    <3> QED
      BY <2>1, <3>1, LenProperties, ElementOfSeq
  <2> QED
    BY <2>1
<1>9. ASSUME NEW r \in DOMAIN x.actor PROVE Holds(x, r)
  <2>1. r \in DOMAIN e.actor /\ Holds(e, r)
    BY <1>1, <1>4, <1>9 DEF Flights
  <2>2. \A n \in DOMAIN e.actor[r].queue :
          e.actor[r].queue[n] # i /\ e.actor[r].queue[n] # None
    BY <1>8, <2>1, NoneIsNoName DEF Holds, ref
  <2>3. CASE r = ref
    BY SMTT(20), <1>4, <2>1, <2>2, <2>3 DEF Holds
  <2>4. CASE r # ref
    <3>1. e.actor[r].current # i
      BY <1>1, <2>1, <2>4, NoneIsNoName DEF Holds, ref
    <3> QED
      BY SMTT(20), <1>4, <2>1, <2>2, <2>4, <3>1 DEF Holds
  <2> QED
    BY <2>3, <2>4
<1>10. ASSUME NEW j \in DOMAIN x.live
       PROVE  /\ x.live[j].actor \in DOMAIN x.actor
              /\ x.live[j].dispatched => x.actor[x.live[j].actor].current = j
  BY <1>1, <1>4, <1>10 DEF Flights, ref
<1>11. Slots(x, cap)
  <2>1. Busy(x) = Busy(e) \ {ref}
    BY <1>1, <1>4 DEF Busy
  <2>2. Cardinality(Busy(x)) = Cardinality(Busy(e)) - 1
    BY <1>2, <2>1, FS_RemoveElement
  <2> QED
    BY <1>1, <1>3, <1>4, <2>2 DEF Slots
<1>12. Past(x) = Past(e)
  BY <1>4, <1>5 DEF Past
<1>13. Evolves(e, x)
  BY <1>4, <1>12 DEF Evolves
<1>14. Flights(x)
  BY <1>9, <1>10 DEF Flights
<1> QED
  BY <1>3, <1>4, <1>6, <1>7, <1>11, <1>13, <1>14 DEF EngineInv

LEMMA EvolvesOn ==
  ASSUME NEW e, NEW x, NEW y, Evolves(e, x), Evolves(x, y)
  PROVE  Evolves(e, y)
BY DEF Evolves

LEMMA FinishNodeKeeps ==
  ASSUME NEW e, cap \in Nat, EngineInv(e, cap), NEW i \in DOMAIN e.live,
         e.actor[e.live[i].actor].current = i, NEW x, x = FinishNode(e, i)
  PROVE  /\ EngineInv(x, cap) /\ NoIdle(x, cap) /\ Evolves(e, x)
         /\ x.ordinals = e.ordinals /\ x.handle = e.handle
         /\ DOMAIN x.actor = DOMAIN e.actor /\ DOMAIN x.live = DOMAIN e.live \ {i}
<1>1. PICK y : y = FreeSlot(e, i)
  OBVIOUS
<1>2. EngineInv(y, cap) /\ Evolves(e, y) /\ y.order = e.order /\ e.active # 0
  BY <1>1, FreeSlotKeeps
<1>3. x = Pump(y, y.order)
  BY <1>1 DEF FinishNode, FreeSlot
<1>4. EngineShape(y) /\ Roster(y) /\ y.order \in Seq(ActorRefs) /\ DOMAIN y.actor = Range(y.order)
  BY <1>2 DEF EngineInv, EngineShape, Roster
<1>5. y.order \in Seq(DOMAIN y.actor)
  BY <1>4, SeqOfRange
<1>6. /\ \A m, n \in DOMAIN y.order : y.order[m] = y.order[n] => m = n
      /\ \A r \in DOMAIN y.actor : \E n \in DOMAIN y.order : r = y.order[n]
  BY <1>4 DEF Roster, Range
<1>7. EngineInv(x, cap) /\ Evolves(y, x)
  BY <1>2, <1>3, <1>5, PumpKeeps
<1>8. NoIdle(x, cap)
  BY <1>2, <1>3, <1>5, <1>6, PumpFills
<1>9. /\ x.ordinals = y.ordinals /\ x.handle = y.handle /\ x.live = y.live
      /\ DOMAIN x.actor = DOMAIN y.actor
  BY <1>2, <1>3, <1>5, PumpIs DEF EngineInv, Slots
<1>10. /\ y.ordinals = e.ordinals /\ y.handle = e.handle
       /\ DOMAIN y.actor = DOMAIN e.actor /\ DOMAIN y.live = DOMAIN e.live \ {i}
  BY <1>1, <1>2, FreeSlotIs DEF EngineInv, Flights
<1> QED
  BY <1>2, <1>7, <1>8, <1>9, <1>10, EvolvesOn

-----------------------------------------------------------------------------
(* The arrival of an ask: its actor, its name, its place in the line.      *)

LEMMA SitesDiffer == AskSites \cap Range(ActorSite) = {} /\ AskSites \subseteq Sites /\ Range(ActorSite) \subseteq Sites
BY ScriptAssumption DEF Sites

LEMMA AppendIs ==
  ASSUME NEW S, NEW s \in Seq(S), NEW v \in S, NEW q, q = Append(s, v)
  PROVE  /\ q \in Seq(S) /\ Len(s) \in Nat /\ Len(q) = Len(s) + 1
         /\ DOMAIN s = 1..Len(s) /\ DOMAIN q = 1..(Len(s) + 1)
         /\ \A n \in 1..Len(s) : q[n] = s[n]
         /\ q[Len(s) + 1] = v
BY AppendProperties, LenProperties

LEMMA WaitingAreAsks ==
  ASSUME NEW a, ActorShape(a)
  PROVE  Waiting(a) \subseteq Asks
<1>1. a.fresh \in Seq(Calls)
  BY DEF ActorShape
<1>2. \A n \in DOMAIN a.fresh : a.fresh[n] \in Calls
  BY <1>1, LenProperties, ElementOfSeq
<1>3. \A c \in Calls : c.inst \in Asks
  BY DEF Calls
<1>4. \A p \in DOMAIN a.held : a.held[p] \in Calls
  BY DEF ActorShape
<1> QED
  BY <1>2, <1>3, <1>4 DEF Waiting

LEMMA FreshActorIs ==
  ASSUME NEW ref, IsFiniteSet(DOMAIN rows)
  PROVE  /\ ActorShape(FreshActor(ref)) /\ Waiting(FreshActor(ref)) = {} /\ Single(FreshActor(ref))
         /\ FreshActor(ref).queue = <<>> /\ FreshActor(ref).current = None
         /\ FreshActor(ref).session = "none"
<1>1. PICK n \in Nat : n = Cardinality({i \in DOMAIN rows : rows[i].actor = ref})
  BY FS_Subset, FS_CardinalityType
<1>2. DOMAIN EmptyMap = {}
  BY DEF EmptyMap
<1>3. PICK a : a = FreshActor(ref)
  OBVIOUS
<1>4. a = [recorded |-> n, next |-> 0, held |-> EmptyMap, fresh |-> <<>>, queue |-> <<>>,
           current |-> None, session |-> "none"]
  BY <1>1, <1>3 DEF FreshActor
<1>5. <<>> \in Seq(Calls) /\ <<>> \in Seq(Asks) /\ DOMAIN <<>> = {}
  BY EmptySeq
<1>6. IsFiniteSet(DOMAIN a.held) /\ DOMAIN a.held = {} /\ DOMAIN a.fresh = {}
  BY <1>2, <1>4, <1>5, FS_EmptySet
<1>7. ActorShape(a)
  BY <1>4, <1>5, <1>6 DEF ActorShape
<1> QED
  BY <1>3, <1>4, <1>6, <1>7 DEF Waiting, Single

LEMMA CreateActorIs ==
  ASSUME NEW e, EngineShape(e), Roster(e), IsFiniteSet(DOMAIN rows),
         NEW agent \in Agents, e.handle[agent] = None,
         NEW ref, ref = <<ActorSite[agent], e.ordinals[ActorSite[agent]] + 1>>,
         NEW x, x = CreateActor(e, agent)
  PROVE  /\ EngineShape(x) /\ Roster(x)
         /\ ref \in ActorRefs /\ ref \notin DOMAIN e.actor
         /\ x.live = e.live /\ x.active = e.active
         /\ \A t \in Sites : x.ordinals[t] = IF t = ActorSite[agent] THEN e.ordinals[t] + 1 ELSE e.ordinals[t]
         /\ \A g \in Agents : x.handle[g] = IF g = agent THEN ref ELSE e.handle[g]
         /\ DOMAIN x.actor = DOMAIN e.actor \cup {ref}
         /\ x.actor[ref] = FreshActor(ref)
         /\ \A r \in DOMAIN e.actor : x.actor[r] = e.actor[r]
<1>1. PICK site \in Range(ActorSite) : site = ActorSite[agent]
  BY DEF Range, Agents
<1>2. site \in Sites /\ e.ordinals \in [Sites -> Nat] /\ e.order \in Seq(ActorRefs)
      /\ e.handle \in [Agents -> ActorRefs \cup {None}]
  BY <1>1, SitesDiffer DEF EngineShape
<1>3. PICK k \in Nat \ {0} : k = e.ordinals[site] + 1
  BY <1>2
<1>4. ref = <<site, k>> /\ ref \in ActorRefs
  BY <1>1, <1>3 DEF ActorRefs
<1>5. ref \notin DOMAIN e.actor
  BY <1>2, <1>3, <1>4 DEF Roster
<1>6. PICK o : o = [e.ordinals EXCEPT ![site] = k]
  OBVIOUS
<1>7. PICK h : h = [e.handle EXCEPT ![agent] = ref]
  OBVIOUS
<1>8. PICK q : q = Append(e.order, ref)
  OBVIOUS
<1>9. PICK f : f = Put(e.actor, ref, FreshActor(ref))
  OBVIOUS
<1>10. x = [e EXCEPT !.ordinals = o, !.handle = h, !.order = q, !.actor = f]
  BY <1>1, <1>3, <1>4, <1>6, <1>7, <1>8, <1>9 DEF CreateActor
<1>11. o \in [Sites -> Nat] /\ \A t \in Sites : o[t] = IF t = site THEN e.ordinals[t] + 1 ELSE e.ordinals[t]
  BY <1>2, <1>3, <1>6
<1>12. h \in [Agents -> ActorRefs \cup {None}] /\ \A g \in Agents : h[g] = IF g = agent THEN ref ELSE e.handle[g]
  BY <1>2, <1>4, <1>7
<1>13. /\ q \in Seq(ActorRefs) /\ Len(e.order) \in Nat /\ Len(q) = Len(e.order) + 1
       /\ DOMAIN e.order = 1..Len(e.order) /\ DOMAIN q = 1..(Len(e.order) + 1)
       /\ \A n \in 1..Len(e.order) : q[n] = e.order[n]
       /\ q[Len(e.order) + 1] = ref
  <2>1. e.order \in Seq(ActorRefs) /\ ref \in ActorRefs
    BY <1>2, <1>4
  <2> QED
    BY <1>8, <2>1, AppendIs
<1>131. Len(e.order) \in Nat
  BY <1>13
<1>132. \A n : n \in 1..(Len(e.order) + 1) <=> n \in 1..Len(e.order) \/ n = Len(e.order) + 1
  <2>1. PICK l \in Nat : l = Len(e.order)
    BY <1>131
  <2>2. \A n : n \in 1..(l + 1) <=> n \in 1..l \/ n = l + 1
    OBVIOUS
  <2> QED
    BY <2>1, <2>2
<1>14. /\ DOMAIN f = DOMAIN e.actor \cup {ref} /\ f[ref] = FreshActor(ref)
       /\ \A r \in DOMAIN e.actor : f[r] = e.actor[r]
  BY <1>5, <1>9 DEF Put
<1>15. /\ x.ordinals = o /\ x.handle = h /\ x.order = q /\ x.actor = f /\ x.live = e.live
       /\ x.active = e.active
  BY <1>10 DEF EngineShape
<1>16. x \in [ordinals : [Sites -> Nat], handle : [Agents -> ActorRefs \cup {None}],
              order : Seq(ActorRefs), actor : {x.actor}, live : {x.live}, active : Nat]
  BY <1>10, <1>11, <1>12, <1>13, <1>15 DEF EngineShape
<1>17. DOMAIN f \subseteq ActorRefs /\ IsFiniteSet(DOMAIN f)
  <2>1. DOMAIN e.actor \subseteq ActorRefs /\ IsFiniteSet(DOMAIN e.actor)
    BY DEF EngineShape
  <2>2. IsFiniteSet(DOMAIN e.actor \cup {ref})
    BY <2>1, FS_AddElement
  <2> QED
    BY <1>4, <1>14, <2>1, <2>2
<1>18. \A r \in DOMAIN f : ActorShape(f[r])
  <2>1. ActorShape(FreshActor(ref))
    BY FreshActorIs
  <2>2. \A r \in DOMAIN e.actor : ActorShape(e.actor[r])
    BY DEF EngineShape
  <2> QED
    BY <1>14, <2>1, <2>2
<1>19. EngineShape(x)
  BY <1>15, <1>16, <1>17, <1>18 DEF EngineShape
<1>20. Roster(x)
  <2>1. \A m, n \in DOMAIN q : q[m] = q[n] => m = n
    <3>1. \A n \in DOMAIN e.order : e.order[n] # ref
      BY <1>5 DEF Roster, Range
    <3>2. \A m, n \in DOMAIN e.order : e.order[m] = e.order[n] => m = n
      BY DEF Roster
    <3>3. SUFFICES ASSUME NEW m \in 1..(Len(e.order) + 1), NEW n \in 1..(Len(e.order) + 1),
                          q[m] = q[n]
                   PROVE  m = n
      BY <1>13
    <3>4. /\ m \in 1..Len(e.order) \/ m = Len(e.order) + 1
          /\ n \in 1..Len(e.order) \/ n = Len(e.order) + 1
      BY <1>132
    <3> QED
      BY <1>13, <3>1, <3>2, <3>3, <3>4
  <2>2. DOMAIN f = Range(q)
    <3>1. \A r : r \in Range(e.order) <=> \E n \in 1..Len(e.order) : r = e.order[n]
      BY <1>13 DEF Range
    <3>2. \A r : r \in Range(q) <=> \E n \in 1..(Len(e.order) + 1) : r = q[n]
      BY <1>13 DEF Range
    <3>4. \A r : r \in Range(q) <=> r \in Range(e.order) \/ r = ref
      <4>1. ASSUME NEW r PROVE r \in Range(q) <=> r \in Range(e.order) \/ r = ref
        <5>1. (\E n \in 1..(Len(e.order) + 1) : r = q[n])
              <=> (\E n \in 1..Len(e.order) : r = q[n]) \/ r = q[Len(e.order) + 1]
          BY <1>132
        <5>2. (\E n \in 1..Len(e.order) : r = q[n]) <=> r \in Range(e.order)
          BY <1>13, <3>1
        <5> QED
          BY <1>13, <3>2, <5>1, <5>2
      <4> QED
        BY <4>1
    <3> QED
      BY <1>14, <3>4 DEF Roster
  <2>3. \A r \in DOMAIN f : r[2] <= o[r[1]]
    <3>1. ref[2] <= o[ref[1]]
      BY <1>3, <1>4, <1>6, <1>2
    <3>2. ASSUME NEW r \in DOMAIN e.actor PROVE r[2] <= o[r[1]]
      <4>1. r \in ActorRefs /\ r[2] <= e.ordinals[r[1]]
        BY DEF EngineShape, Roster
      <4>2. r[1] \in Sites /\ r[2] \in Nat /\ e.ordinals[r[1]] \in Nat
        BY <1>2, <4>1, SitesDiffer DEF ActorRefs
      <4> QED
        BY <1>11, <4>1, <4>2
    <3> QED
      BY <1>14, <3>1, <3>2
  <2>4. \A g \in Agents : h[g] # None => h[g] \in DOMAIN f
    BY <1>12, <1>14 DEF Roster
  <2> QED
    BY <1>15, <2>1, <2>2, <2>3, <2>4 DEF Roster
<1> QED
  BY <1>1, <1>4, <1>5, <1>11, <1>12, <1>14, <1>15, <1>19, <1>20

\* The first use of a handle adds an actor with nothing to do.
LEMMA CreateActorKeeps ==
  ASSUME NEW e, cap \in Nat, EngineInv(e, cap), NoIdle(e, cap), IsFiniteSet(DOMAIN rows),
         NEW agent \in Agents, NEW x, x = CreateActor(e, agent)
  PROVE  /\ EngineInv(x, cap) /\ NoIdle(x, cap) /\ Evolves(e, x)
         /\ x.handle[agent] \in DOMAIN x.actor
         /\ x.live = e.live
         /\ \A t \in AskSites : x.ordinals[t] = e.ordinals[t]
<1>1. /\ EngineShape(e) /\ Roster(e) /\ Names(e) /\ Flights(e) /\ Slots(e, cap)
  BY DEF EngineInv
<1>2. CASE e.handle[agent] # None
  <2>1. x = e
    BY <1>2 DEF CreateActor
  <2> QED
    BY <1>1, <1>2, <2>1 DEF Roster, Evolves
<1>3. CASE e.handle[agent] = None
  <2>1. PICK ref : ref = <<ActorSite[agent], e.ordinals[ActorSite[agent]] + 1>>
    OBVIOUS
  <2>2. /\ EngineShape(x) /\ Roster(x)
        /\ ref \in ActorRefs /\ ref \notin DOMAIN e.actor
        /\ x.live = e.live /\ x.active = e.active
        /\ \A t \in Sites : x.ordinals[t] = IF t = ActorSite[agent] THEN e.ordinals[t] + 1 ELSE e.ordinals[t]
        /\ \A g \in Agents : x.handle[g] = IF g = agent THEN ref ELSE e.handle[g]
        /\ DOMAIN x.actor = DOMAIN e.actor \cup {ref}
        /\ x.actor[ref] = FreshActor(ref)
        /\ \A r \in DOMAIN e.actor : x.actor[r] = e.actor[r]
    BY <1>1, <1>3, <2>1, CreateActorIs
  <2>3. \A t \in AskSites : x.ordinals[t] = e.ordinals[t]
    <3>1. ActorSite[agent] \in Range(ActorSite)
      BY DEF Range, Agents
    <3> QED
      BY <2>2, <3>1, SitesDiffer
  <2>4. /\ Waiting(x.actor[ref]) = {} /\ Single(x.actor[ref])
        /\ x.actor[ref].queue = <<>> /\ x.actor[ref].current = None
        /\ x.actor[ref].session = "none"
    BY <2>2, FreshActorIs
  <2>5. \A r \in DOMAIN e.actor : \A i \in Waiting(e.actor[r]) : i \in Asks
    BY <1>1, WaitingAreAsks DEF EngineShape
  <2>6. Names(x)
    <3>1. \A i \in Asks : x.ordinals[i[1]] = e.ordinals[i[1]]
      BY <2>3 DEF Asks
    <3>2. \A i \in DOMAIN x.live : i[2] <= x.ordinals[i[1]]
      BY <1>1, <2>2, <3>1 DEF Names, EngineShape
    <3>3. ASSUME NEW r \in DOMAIN x.actor
          PROVE  /\ Single(x.actor[r])
                 /\ \A i \in Waiting(x.actor[r]) : i \notin DOMAIN x.live /\ i[2] <= x.ordinals[i[1]]
      BY <1>1, <2>2, <2>4, <2>5, <3>1, <3>3 DEF Names
    <3>4. \A r, q \in DOMAIN x.actor :
            r # q => Waiting(x.actor[r]) \cap Waiting(x.actor[q]) = {}
      <4>1. \A r, q \in DOMAIN e.actor :
              r # q => Waiting(e.actor[r]) \cap Waiting(e.actor[q]) = {}
        BY <1>1 DEF Names
      <4>2. ASSUME NEW r \in DOMAIN x.actor, NEW q \in DOMAIN x.actor, r # q
            PROVE  Waiting(x.actor[r]) \cap Waiting(x.actor[q]) = {}
        BY <2>2, <2>4, <4>1, <4>2
      <4> QED
        BY <4>2
    <3> QED
      BY <3>2, <3>3, <3>4 DEF Names
  <2>7. Flights(x)
    <3>1. ASSUME NEW r \in DOMAIN x.actor PROVE Holds(x, r)
      <4>1. CASE r = ref
        BY <2>4, <4>1, EmptySeq DEF Holds
      <4>2. CASE r # ref
        <5>1. r \in DOMAIN e.actor /\ Holds(e, r)
          BY <1>1, <2>2, <3>1, <4>2 DEF Flights
        <5> QED
          BY SMTT(20), <2>2, <5>1 DEF Holds
      <4> QED
        BY <4>1, <4>2
    <3>2. ASSUME NEW i \in DOMAIN x.live
          PROVE  /\ x.live[i].actor \in DOMAIN x.actor
                 /\ x.live[i].dispatched => x.actor[x.live[i].actor].current = i
      BY <1>1, <2>2, <3>2 DEF Flights
    <3> QED
      BY <3>1, <3>2 DEF Flights
  <2>8. Slots(x, cap) /\ NoIdle(x, cap)
    <3>1. Busy(x) = Busy(e)
      BY <2>2, <2>4 DEF Busy
    <3> QED
      BY <1>1, <2>2, <2>4, <3>1 DEF Slots, NoIdle, Idle
  <2>9. Past(x) = Past(e)
    BY <2>2, <2>3, <2>4 DEF Past, Asks
  <2>10. Evolves(e, x)
    BY <2>2, <2>4, <2>9 DEF Evolves
  <2> QED
    BY <2>2, <2>3, <2>6, <2>7, <2>8, <2>10 DEF EngineInv
<1> QED
  BY <1>2, <1>3

\* A call takes the last place among the fresh ones.
LEMMA FreshCallIs ==
  ASSUME NEW b, ActorShape(b), Single(b), NEW c \in Calls, c.inst \notin Waiting(b),
         NEW a, a = [b EXCEPT !.fresh = Append(@, c)]
  PROVE  /\ ActorShape(a) /\ Single(a) /\ Waiting(a) = Waiting(b) \cup {c.inst}
         /\ a.queue = b.queue /\ a.current = b.current /\ a.session = b.session
<1>1. b.fresh \in Seq(Calls)
  BY DEF ActorShape
<1>2. PICK q : q = Append(b.fresh, c)
  OBVIOUS
<1>3. PICK l \in Nat : l = Len(b.fresh)
  BY <1>1, LenProperties
<1>4. /\ q \in Seq(Calls) /\ DOMAIN b.fresh = 1..l /\ DOMAIN q = 1..(l + 1)
      /\ \A n \in 1..l : q[n] = b.fresh[n]
      /\ q[l + 1] = c
  BY <1>1, <1>2, <1>3, AppendIs
<1>5. a = [b EXCEPT !.fresh = q]
  BY <1>2
<1>6. /\ a.recorded = b.recorded /\ a.next = b.next /\ a.held = b.held /\ a.fresh = q
      /\ a.queue = b.queue /\ a.current = b.current /\ a.session = b.session
  BY <1>5 DEF ActorShape
<1>7. ActorShape(a)
  BY <1>4, <1>5, <1>6 DEF ActorShape
<1>8. \A n : n \in 1..(l + 1) <=> n \in 1..l \/ n = l + 1
  OBVIOUS
<1>9. Waiting(a) = Waiting(b) \cup {c.inst}
  <2>1. {q[n].inst : n \in 1..(l + 1)} = {b.fresh[n].inst : n \in 1..l} \cup {c.inst}
    BY <1>4, <1>8
  <2> QED
    BY <1>4, <1>6, <2>1 DEF Waiting
<1>10. Single(a)
  <2>1. \A n \in 1..l : b.fresh[n].inst # c.inst
    BY <1>4 DEF Waiting
  <2>2. \A p \in DOMAIN b.held : b.held[p].inst # c.inst
    BY DEF Waiting
  <2>3. ASSUME NEW m \in DOMAIN q, NEW n \in DOMAIN q, q[m].inst = q[n].inst PROVE m = n
    BY <1>4, <1>8, <2>1, <2>3 DEF Single
  <2>4. ASSUME NEW p \in DOMAIN b.held, NEW n \in DOMAIN q PROVE b.held[p].inst # q[n].inst
    BY <1>4, <1>8, <2>2, <2>4 DEF Single
  <2> QED
    BY <1>6, <2>3, <2>4 DEF Single
<1> QED
  BY <1>6, <1>7, <1>9, <1>10

\* A call waits at the position its row has in the journal.
LEMMA HeldCallIs ==
  ASSUME NEW b, ActorShape(b), Single(b), NEW c \in Calls, c.inst \notin Waiting(b), NEW p \in Nat,
         NEW a, a = [b EXCEPT !.held = Put(@, p, c)]
  PROVE  /\ ActorShape(a) /\ Single(a) /\ Waiting(a) \subseteq Waiting(b) \cup {c.inst}
         /\ a.queue = b.queue /\ a.current = b.current /\ a.session = b.session
<1>1. PICK h : h = Put(b.held, p, c)
  OBVIOUS
<1>2. /\ DOMAIN h = DOMAIN b.held \cup {p} /\ h[p] = c
      /\ \A q \in DOMAIN b.held : q # p => h[q] = b.held[q]
  BY <1>1 DEF Put
<1>3. a = [b EXCEPT !.held = h]
  BY <1>1
<1>4. /\ a.recorded = b.recorded /\ a.next = b.next /\ a.held = h /\ a.fresh = b.fresh
      /\ a.queue = b.queue /\ a.current = b.current /\ a.session = b.session
  BY <1>3 DEF ActorShape
<1>5. DOMAIN h \subseteq Nat /\ IsFiniteSet(DOMAIN h)
  <2>1. DOMAIN b.held \subseteq Nat /\ IsFiniteSet(DOMAIN b.held)
    BY DEF ActorShape
  <2>2. IsFiniteSet(DOMAIN b.held \cup {p})
    BY <2>1, FS_AddElement
  <2> QED
    BY <1>2, <2>1, <2>2
<1>6. \A q \in DOMAIN h : h[q] \in Calls
  BY <1>2 DEF ActorShape
<1>7. ActorShape(a)
  BY <1>3, <1>4, <1>5, <1>6 DEF ActorShape
<1>8. Waiting(a) \subseteq Waiting(b) \cup {c.inst}
  BY <1>2, <1>4 DEF Waiting
<1>9. Single(a)
  <2>1. \A q \in DOMAIN b.held : b.held[q].inst # c.inst
    BY DEF Waiting
  <2>2. \A n \in DOMAIN b.fresh : b.fresh[n].inst # c.inst
    BY DEF Waiting
  <2>3. ASSUME NEW m \in DOMAIN h, NEW n \in DOMAIN h, h[m].inst = h[n].inst PROVE m = n
    BY <1>2, <2>1, <2>3 DEF Single
  <2>4. ASSUME NEW q \in DOMAIN h, NEW n \in DOMAIN b.fresh PROVE h[q].inst # b.fresh[n].inst
    BY <1>2, <2>2, <2>4 DEF Single
  <2> QED
    BY <1>4, <2>3, <2>4 DEF Single
<1> QED
  BY <1>4, <1>7, <1>8, <1>9

\* An ask is named after site t and waits with its actor, which becomes a.
Joined(e, t, ref, a) == [e EXCEPT !.ordinals[t] = @ + 1, !.actor[ref] = a]

LEMMA JoinKeeps ==
  ASSUME NEW e, cap \in Nat, EngineInv(e, cap), NoIdle(e, cap),
         NEW t \in AskSites, NEW ref \in DOMAIN e.actor,
         NEW i, i = <<t, e.ordinals[t] + 1>>,
         NEW a, ActorShape(a), Single(a), Waiting(a) \subseteq Waiting(e.actor[ref]) \cup {i},
         a.queue = e.actor[ref].queue, a.current = e.actor[ref].current,
         a.session = e.actor[ref].session,
         NEW x, x = Joined(e, t, ref, a)
  PROVE  /\ EngineInv(x, cap) /\ NoIdle(x, cap) /\ Evolves(e, x)
         /\ x.live = e.live /\ x.handle = e.handle /\ x.order = e.order
         /\ DOMAIN x.actor = DOMAIN e.actor /\ x.actor[ref] = a
         /\ \A u \in Sites : x.ordinals[u] = IF u = t THEN e.ordinals[u] + 1 ELSE e.ordinals[u]
         /\ i \in Asks
<1>1. /\ EngineShape(e) /\ Roster(e) /\ Names(e) /\ Flights(e) /\ Slots(e, cap)
  BY DEF EngineInv
<1>2. t \in Sites /\ e.ordinals \in [Sites -> Nat]
  BY <1>1, SitesDiffer DEF EngineShape
<1>3. PICK k \in Nat \ {0} : k = e.ordinals[t] + 1
  BY <1>2
<1>4. i = <<t, k>> /\ i \in Asks
  BY <1>3 DEF Asks
<1>5. PICK o : o = [e.ordinals EXCEPT ![t] = k]
  OBVIOUS
<1>6. PICK f : f = [e.actor EXCEPT ![ref] = a]
  OBVIOUS
<1>7. x = [e EXCEPT !.ordinals = o, !.actor = f]
  BY <1>1, <1>3, <1>5, <1>6 DEF Joined, EngineShape
<1>8. o \in [Sites -> Nat] /\ \A u \in Sites : o[u] = IF u = t THEN e.ordinals[u] + 1 ELSE e.ordinals[u]
  BY <1>2, <1>3, <1>5
<1>9. /\ DOMAIN f = DOMAIN e.actor /\ f[ref] = a
      /\ \A r \in DOMAIN e.actor : r # ref => f[r] = e.actor[r]
  BY <1>6
<1>10. /\ x.ordinals = o /\ x.handle = e.handle /\ x.order = e.order /\ x.actor = f /\ x.live = e.live
       /\ x.active = e.active
  BY <1>1, <1>7 DEF EngineShape
<1>11. x \in [ordinals : [Sites -> Nat], handle : [Agents -> ActorRefs \cup {None}],
              order : Seq(ActorRefs), actor : {x.actor}, live : {x.live}, active : Nat]
  BY <1>1, <1>7, <1>8, <1>10 DEF EngineShape
<1>12. \A r \in DOMAIN f : ActorShape(f[r])
  BY <1>1, <1>9 DEF EngineShape
<1>13. EngineShape(x)
  BY <1>1, <1>9, <1>10, <1>11, <1>12 DEF EngineShape
<1>14. \A u \in Sites : e.ordinals[u] \in Nat /\ e.ordinals[u] <= o[u] /\ o[u] \in Nat
  BY <1>2, <1>8
<1>15. \A j \in Asks : j[1] \in Sites /\ j[2] \in Nat
  BY SitesDiffer DEF Asks
<1>16. \A j \in Asks : j[2] <= e.ordinals[j[1]] => j[2] <= o[j[1]] /\ j # i
  <2>1. i[1] = t /\ i[2] = k
    BY <1>4
  <2>2. ASSUME NEW j \in Asks, j[2] <= e.ordinals[j[1]] PROVE j[2] <= o[j[1]] /\ j # i
    <3>1. j[1] \in Sites /\ j[2] \in Nat /\ e.ordinals[j[1]] \in Nat /\ o[j[1]] \in Nat
          /\ e.ordinals[j[1]] <= o[j[1]]
      BY <1>14, <1>15
    <3>2. j[2] <= o[j[1]]
      BY <2>2, <3>1
    <3>3. j # i
      BY <1>3, <2>1, <2>2, <3>1
    <3> QED
      BY <3>2, <3>3
  <2> QED
    BY <2>2
<1>17. Roster(x)
  <2>1. ASSUME NEW r \in DOMAIN e.actor PROVE r[2] <= o[r[1]]
    <3>1. r \in ActorRefs /\ r[2] <= e.ordinals[r[1]]
      BY <1>1 DEF EngineShape, Roster
    <3>2. r[1] \in Sites /\ r[2] \in Nat
      BY <3>1, SitesDiffer DEF ActorRefs
    <3> QED
      BY <1>14, <3>1, <3>2
  <2> QED
    BY <1>1, <1>9, <1>10, <2>1 DEF Roster
<1>18. Names(x)
  <2>1. \A r \in DOMAIN e.actor : \A j \in Waiting(e.actor[r]) :
          j \in Asks /\ j \notin DOMAIN e.live /\ j[2] <= e.ordinals[j[1]] /\ j # i
    <3>1. \A r \in DOMAIN e.actor : \A j \in Waiting(e.actor[r]) :
            j \in Asks /\ j \notin DOMAIN e.live /\ j[2] <= e.ordinals[j[1]]
      BY <1>1, WaitingAreAsks DEF EngineShape, Names
    <3> QED
      BY <1>16, <3>1
  <2>2. \A j \in DOMAIN e.live : j \in Asks /\ j[2] <= e.ordinals[j[1]] /\ j # i
    <3>1. \A j \in DOMAIN e.live : j \in Asks /\ j[2] <= e.ordinals[j[1]]
      BY <1>1 DEF EngineShape, Names
    <3> QED
      BY <1>16, <3>1
  <2>3. \A j \in DOMAIN x.live : j[2] <= x.ordinals[j[1]]
    BY <1>10, <1>16, <2>2
  <2>4. i[2] <= o[i[1]]
    BY <1>2, <1>3, <1>4, <1>8
  <2>5. ASSUME NEW r \in DOMAIN x.actor
        PROVE  /\ Single(x.actor[r])
               /\ \A j \in Waiting(x.actor[r]) : j \notin DOMAIN x.live /\ j[2] <= x.ordinals[j[1]]
    <3>1. r \in DOMAIN e.actor /\ x.actor[r] = f[r]
      BY <1>9, <1>10, <2>5
    <3>2. Single(f[r])
      BY <1>1, <1>9, <3>1 DEF Names
    <3>3. \A j \in Waiting(f[r]) : j = i \/ j \in Waiting(e.actor[r])
      BY <1>9, <3>1
    <3> QED
      BY <1>10, <1>16, <2>1, <2>2, <2>4, <3>1, <3>2, <3>3
  <2>6. ASSUME NEW r \in DOMAIN x.actor, NEW q \in DOMAIN x.actor, r # q
        PROVE  Waiting(x.actor[r]) \cap Waiting(x.actor[q]) = {}
    <3>1. r \in DOMAIN e.actor /\ q \in DOMAIN e.actor /\ x.actor = f
      BY <1>9, <1>10, <2>6
    <3>2. Waiting(e.actor[r]) \cap Waiting(e.actor[q]) = {}
      BY <1>1, <2>6, <3>1 DEF Names
    <3>3. i \notin Waiting(e.actor[r]) /\ i \notin Waiting(e.actor[q])
      BY <2>1, <3>1
    <3> QED
      BY <1>9, <2>6, <3>1, <3>2, <3>3
  <2> QED
    BY <2>3, <2>5, <2>6 DEF Names
<1>19. \A r \in DOMAIN e.actor :
         /\ x.actor[r].queue = e.actor[r].queue /\ x.actor[r].current = e.actor[r].current
         /\ x.actor[r].session = e.actor[r].session
  BY <1>9, <1>10
<1>20. Flights(x)
  <2>1. ASSUME NEW r \in DOMAIN x.actor PROVE Holds(x, r)
    <3>1. r \in DOMAIN e.actor /\ Holds(e, r)
      BY <1>1, <1>9, <1>10, <2>1 DEF Flights
    <3>2. x.actor[r].queue = e.actor[r].queue /\ x.actor[r].current = e.actor[r].current
      BY <1>19, <3>1
    <3>3. x.live = e.live
      BY <1>10
    <3> QED
      BY ZenonT(40), <3>1, <3>2, <3>3 DEF Holds
  <2> QED
    BY <1>1, <1>9, <1>10, <1>19, <2>1 DEF Flights
<1>21. Slots(x, cap) /\ NoIdle(x, cap)
  <2>1. Busy(x) = Busy(e)
    BY <1>9, <1>10, <1>19 DEF Busy
  <2> QED
    BY <1>1, <1>9, <1>10, <1>19, <2>1 DEF Slots, NoIdle, Idle
<1>22. Past(e) \subseteq Past(x)
  <2>1. ASSUME NEW j \in Past(e) PROVE j \in Past(x)
    <3>1. j \in Asks /\ j[2] <= e.ordinals[j[1]] /\ \A r \in DOMAIN e.actor : j \notin Waiting(e.actor[r])
      BY DEF Past
    <3>2. j # i /\ j[2] <= o[j[1]]
      BY <1>16, <3>1
    <3>3. \A r \in DOMAIN f : j \notin Waiting(f[r])
      BY <1>9, <3>1, <3>2
    <3> QED
      BY <1>10, <3>1, <3>2, <3>3 DEF Past
  <2> QED
    BY <2>1
<1>23. Evolves(e, x)
  BY <1>9, <1>10, <1>19, <1>22 DEF Evolves
<1> QED
  BY <1>4, <1>8, <1>9, <1>10, <1>13, <1>17, <1>18, <1>20, <1>21, <1>23 DEF EngineInv

-----------------------------------------------------------------------------
(* The drain: which of the waiting asks get their sequence numbers.        *)

LEMMA Between ==
  ASSUME NEW m \in Int, NEW n \in Int
  PROVE  IsFiniteSet(m..n) /\ Cardinality(m..n) \in Nat /\ (m <= n => Cardinality(m..n) = n - m + 1)
BY FS_Interval

LEMMA FreshBeforeIs ==
  ASSUME NEW a, ActorShape(a), NEW p \in Nat, NEW q \in Nat, a.next <= p, p <= q
  PROVE  /\ FreshBefore(a, p) \in Nat /\ FreshBefore(a, q) \in Nat
         /\ FreshBefore(a, p) <= FreshBefore(a, q)
         /\ p < q /\ p \notin DOMAIN a.held => FreshBefore(a, p) < FreshBefore(a, q)
<1> DEFINE L(x) == {y \in a.next..(x - 1) : y \notin DOMAIN a.held}
<1>1. a.next \in Nat
  BY DEF ActorShape
<1>2. IsFiniteSet(L(p)) /\ IsFiniteSet(L(q))
  <2>1. IsFiniteSet(a.next..(p - 1)) /\ IsFiniteSet(a.next..(q - 1))
    <3>1. a.next \in Int /\ p - 1 \in Int /\ q - 1 \in Int
      BY <1>1
    <3> QED
      BY <3>1, Between
  <2> QED
    BY <2>1, FS_Subset
<1>3. L(p) \in SUBSET L(q)
  BY <1>1
<1>4. Cardinality(L(p)) \in Nat /\ Cardinality(L(q)) \in Nat /\ Cardinality(L(p)) <= Cardinality(L(q))
  BY <1>2, <1>3, FS_Subset, FS_CardinalityType
<1>5. ASSUME p < q, p \notin DOMAIN a.held PROVE Cardinality(L(p)) < Cardinality(L(q))
  <2>1. p \in L(q) /\ p \notin L(p)
    BY <1>1, <1>5
  <2>2. Cardinality(L(p)) # Cardinality(L(q))
    BY <1>2, <1>3, <2>1, FS_Subset
  <2> QED
    BY <1>4, <2>2
<1> QED
  BY <1>4, <1>5 DEF FreshBefore

\* A drain always comes to an empty position: there are fewer waiting asks
\* than positions up to the last.
LEMMA SomePositionIsBlocked ==
  ASSUME NEW a, ActorShape(a),
         NEW last, last = a.next + Cardinality(DOMAIN a.held) + Len(a.fresh)
  PROVE  last \in Nat /\ \E p \in a.next..last : Blocked(a, p)
<1> DEFINE H == DOMAIN a.held
           M == a.next..last
           N == {p \in M : p \notin H}
           f == [p \in N |-> FreshBefore(a, p) + 1]
<1>1. a.next \in Nat /\ Len(a.fresh) \in Nat /\ IsFiniteSet(H) /\ Cardinality(H) \in Nat
  <2>1. a.fresh \in Seq(Calls) /\ a.next \in Nat /\ IsFiniteSet(H)
    BY DEF ActorShape
  <2> QED
    BY <2>1, LenProperties, FS_CardinalityType
<1>2. PICK k \in Nat : k = Len(a.fresh)
  BY <1>1
<1>3. last \in Nat /\ a.next <= last /\ last - a.next + 1 = Cardinality(H) + k + 1
  BY <1>1, <1>2
<1>4. IsFiniteSet(M) /\ Cardinality(M) = Cardinality(H) + k + 1
  <2>1. a.next \in Int /\ last \in Int /\ a.next <= last
    BY <1>1, <1>3
  <2>2. IsFiniteSet(M) /\ Cardinality(M) = last - a.next + 1
    BY <2>1, Between
  <2> QED
    BY <1>3, <2>2
<1>5. SUFFICES ASSUME \A p \in M : ~Blocked(a, p) PROVE FALSE
  BY <1>3
<1>6. ASSUME NEW p \in N PROVE FreshBefore(a, p) + 1 \in 1..k
  <2>1. p \in Nat /\ a.next <= p /\ ~Blocked(a, p) /\ p \notin H
    BY <1>1, <1>5
  <2>2. FreshBefore(a, p) \in Nat /\ ~(FreshBefore(a, p) >= k)
    BY <1>1, <1>2, <2>1, FreshBeforeIs DEF Blocked
  <2> QED
    BY <2>2
<1>7. ASSUME NEW p \in N, NEW q \in N, f[p] = f[q] PROVE p = q
  <2>1. p \in Nat /\ q \in Nat /\ a.next <= p /\ a.next <= q /\ p \notin H /\ q \notin H
    BY <1>1
  <2>2. FreshBefore(a, p) \in Nat /\ FreshBefore(a, q) \in Nat /\ FreshBefore(a, p) = FreshBefore(a, q)
    <3>1. FreshBefore(a, p) \in Nat /\ FreshBefore(a, q) \in Nat
      BY <2>1, FreshBeforeIs
    <3>2. FreshBefore(a, p) + 1 = FreshBefore(a, q) + 1
      BY <1>7
    <3> QED
      BY <3>1, <3>2
  <2>3. ~(p < q) /\ ~(q < p)
    BY <2>1, <2>2, FreshBeforeIs
  <2> QED
    BY <2>1, <2>3
<1>8. f \in Injection(N, 1..k)
  BY <1>6, <1>7 DEF Injection, IsInjective
<1>9. IsFiniteSet(N) /\ Cardinality(N) \in Nat /\ Cardinality(N) <= k
  BY <1>8, UpTo, FS_Injection, FS_CardinalityType
<1>10. M \in SUBSET (N \cup H)
  OBVIOUS
<1>11. /\ IsFiniteSet(N \cup H) /\ Cardinality(N \cup H) \in Nat
       /\ Cardinality(N \cup H) <= Cardinality(N) + Cardinality(H)
  <2>1. /\ IsFiniteSet(N \cup H) /\ IsFiniteSet(N \cap H)
        /\ Cardinality(N \cup H) = Cardinality(N) + Cardinality(H) - Cardinality(N \cap H)
    BY <1>1, <1>9, FS_Union, FS_Intersection
  <2>2. Cardinality(N \cap H) \in Nat /\ Cardinality(N \cup H) \in Nat
    BY <2>1, FS_CardinalityType
  <2> QED
    BY <1>1, <1>9, <2>1, <2>2
<1>12. Cardinality(M) <= Cardinality(N \cup H)
  BY <1>10, <1>11, FS_Subset
<1> QED
  BY <1>1, <1>4, <1>9, <1>11, <1>12

LEMMA DrainEndIs ==
  ASSUME NEW a, ActorShape(a)
  PROVE  /\ DrainEnd(a) \in Nat /\ a.next <= DrainEnd(a)
         /\ \A p \in a.next..(DrainEnd(a) - 1) : ~Blocked(a, p)
<1>1. PICK last : last = a.next + Cardinality(DOMAIN a.held) + Len(a.fresh)
  OBVIOUS
<1>2. a.next \in Nat /\ last \in Nat /\ \E p \in a.next..last : Blocked(a, p)
  BY <1>1, SomePositionIsBlocked DEF ActorShape
<1> DEFINE B == {p \in a.next..last : Blocked(a, p)}
<1>3. B \in SUBSET Nat /\ B # {}
  BY <1>2
<1>4. PICK e \in B : \A p \in B : e <= p
  BY <1>3, LeastElement
<1>5. \A q \in a.next..(e - 1) : ~Blocked(a, q)
  BY <1>2, <1>4
<1>6. \E p \in a.next..last : Blocked(a, p) /\ \A q \in a.next..(p - 1) : ~Blocked(a, q)
  BY <1>4, <1>5
<1>7. DrainEnd(a) = CHOOSE p \in a.next..last : Blocked(a, p) /\ \A q \in a.next..(p - 1) : ~Blocked(a, q)
  BY <1>1 DEF DrainEnd
<1>8. DrainEnd(a) \in a.next..last /\ \A q \in a.next..(DrainEnd(a) - 1) : ~Blocked(a, q)
  BY <1>6, <1>7
<1> QED
  BY <1>2, <1>8

\* A drained position holds a recorded call, or a fresh one in the order of
\* arrival.
LEMMA CallAtIs ==
  ASSUME NEW a, ActorShape(a), NEW p \in a.next..(DrainEnd(a) - 1)
  PROVE  /\ p \in Nat /\ FreshBefore(a, p) \in Nat
         /\ p \in DOMAIN a.held => CallAt(a, p) = a.held[p]
         /\ p \notin DOMAIN a.held =>
               /\ FreshBefore(a, p) + 1 \in DOMAIN a.fresh
               /\ FreshBefore(a, p) + 1 <= FreshBefore(a, DrainEnd(a))
               /\ CallAt(a, p) = a.fresh[FreshBefore(a, p) + 1]
         /\ CallAt(a, p) \in Calls
<1>1. /\ a.next \in Nat /\ a.fresh \in Seq(Calls)
      /\ \A q \in DOMAIN a.held : a.held[q] \in Calls
  BY DEF ActorShape
<1>2. PICK k \in Nat : k = Len(a.fresh)
  BY <1>1, LenProperties
<1>3. DOMAIN a.fresh = 1..k /\ \A n \in 1..k : a.fresh[n] \in Calls
  BY <1>1, <1>2, LenProperties, ElementOfSeq
<1>4. PICK e \in Nat : e = DrainEnd(a)
  BY DrainEndIs
<1>5. p \in Nat /\ a.next <= p /\ p < e
  BY <1>1, <1>4
<1>6. FreshBefore(a, p) \in Nat /\ FreshBefore(a, e) \in Nat
  BY <1>4, <1>5, FreshBeforeIs
<1>7. CASE p \in DOMAIN a.held
  BY <1>1, <1>5, <1>6, <1>7 DEF CallAt
<1>8. CASE p \notin DOMAIN a.held
  <2>1. ~(FreshBefore(a, p) >= k)
    BY <1>2, <1>8, DrainEndIs DEF Blocked
  <2>2. FreshBefore(a, p) + 1 \in 1..k
    BY <1>6, <2>1
  <2>3. FreshBefore(a, p) < FreshBefore(a, e)
    BY <1>5, <1>8, FreshBeforeIs
  <2> QED
    BY <1>3, <1>4, <1>5, <1>6, <1>8, <2>2, <2>3 DEF CallAt
<1> QED
  BY <1>7, <1>8

LEMMA ReleasedIs ==
  ASSUME NEW a, ActorShape(a), Single(a), NEW out, out = Released(a)
  PROVE  /\ DOMAIN out \in SUBSET Nat /\ IsFiniteSet(DOMAIN out)
         /\ \A n \in DOMAIN out :
               /\ n + a.next - 1 \in a.next..(DrainEnd(a) - 1)
               /\ out[n].call = CallAt(a, n + a.next - 1)
               /\ out[n].call \in Calls /\ out[n].call.inst \in Waiting(a)
               /\ out[n].seq \in Nat
         /\ \A m, n \in DOMAIN out : out[m].call.inst = out[n].call.inst => m = n
<1>1. PICK z \in Nat : z = a.next
  BY DEF ActorShape
<1>2. PICK e \in Nat : e = DrainEnd(a) /\ z <= e
  BY <1>1, DrainEndIs
<1>3. PICK l \in Nat : l = e - z
  BY <1>2
<1>4. out = [n \in 1..l |-> [call |-> CallAt(a, z + n - 1), seq |-> z + n - 1]]
  BY <1>1, <1>2, <1>3 DEF Released
<1>5. DOMAIN out = 1..l /\ IsFiniteSet(DOMAIN out)
  BY <1>4, UpTo
<1>6. \A n \in 1..l : out[n].call = CallAt(a, z + n - 1) /\ out[n].seq = z + n - 1
  BY <1>4
<1>7. \A n \in 1..l : z + n - 1 = n + z - 1 /\ n + z - 1 \in z..(e - 1) /\ n + z - 1 \in Nat
  BY <1>3
<1>8. ASSUME NEW p \in z..(e - 1) PROVE CallAt(a, p).inst \in Waiting(a)
  BY <1>1, <1>2, CallAtIs DEF Waiting
<1>9. ASSUME NEW p \in z..(e - 1), NEW q \in z..(e - 1), CallAt(a, p).inst = CallAt(a, q).inst
      PROVE  p = q
  <2>1. /\ \A u, v \in DOMAIN a.held : a.held[u].inst = a.held[v].inst => u = v
        /\ \A m, n \in DOMAIN a.fresh : a.fresh[m].inst = a.fresh[n].inst => m = n
        /\ \A u \in DOMAIN a.held, n \in DOMAIN a.fresh : a.held[u].inst # a.fresh[n].inst
    BY DEF Single
  <2>2. p \in Nat /\ q \in Nat /\ z <= p /\ z <= q
    BY <1>1, <1>9
  <2>3. CASE p \in DOMAIN a.held /\ q \in DOMAIN a.held
    BY <1>1, <1>2, <1>9, <2>1, <2>3, CallAtIs
  <2>4. CASE p \notin DOMAIN a.held /\ q \notin DOMAIN a.held
    <3>1. FreshBefore(a, p) + 1 = FreshBefore(a, q) + 1
      BY <1>1, <1>2, <1>9, <2>1, <2>4, CallAtIs
    <3>2. FreshBefore(a, p) \in Nat /\ FreshBefore(a, q) \in Nat
      BY <1>1, <1>2, <1>9, CallAtIs
    <3>3. ~(FreshBefore(a, p) < FreshBefore(a, q)) /\ ~(FreshBefore(a, q) < FreshBefore(a, p))
      BY <3>1, <3>2
    <3>4. ~(p < q) /\ ~(q < p)
      BY <1>1, <2>2, <2>4, <3>3, FreshBeforeIs
    <3> QED
      BY <2>2, <3>4
  <2>5. CASE p \in DOMAIN a.held /\ q \notin DOMAIN a.held
    BY <1>1, <1>2, <1>9, <2>1, <2>5, CallAtIs
  <2>6. CASE p \notin DOMAIN a.held /\ q \in DOMAIN a.held
    BY <1>1, <1>2, <1>9, <2>1, <2>6, CallAtIs
  <2> QED
    BY <2>3, <2>4, <2>5, <2>6
<1>10. ASSUME NEW n \in DOMAIN out
       PROVE  /\ n + a.next - 1 \in a.next..(DrainEnd(a) - 1)
              /\ out[n].call = CallAt(a, n + a.next - 1)
              /\ out[n].call \in Calls /\ out[n].call.inst \in Waiting(a)
              /\ out[n].seq \in Nat
  <2>1. /\ n \in 1..l /\ n + z - 1 \in z..(e - 1) /\ out[n].call = CallAt(a, n + z - 1)
        /\ out[n].seq = n + z - 1 /\ n + z - 1 \in Nat
    BY <1>5, <1>6, <1>7
  <2>2. CallAt(a, n + z - 1) \in Calls
    BY <1>1, <1>2, <2>1, CallAtIs
  <2> QED
    BY <1>1, <1>2, <1>8, <2>1, <2>2
<1>11. ASSUME NEW m \in DOMAIN out, NEW n \in DOMAIN out, out[m].call.inst = out[n].call.inst
       PROVE  m = n
  <2>1. m \in 1..l /\ n \in 1..l
    BY <1>5
  <2>2. m + z - 1 = n + z - 1
    BY <1>6, <1>7, <1>9, <1>11, <2>1
  <2> QED
    BY <2>1, <2>2
<1> QED
  BY <1>5, <1>10, <1>11

\* The asks that begin are opened once, and each has its entry.
LEMMA OpenedIs ==
  ASSUME NEW a, ActorShape(a), Single(a), NEW out, out = Released(a)
  PROVE  /\ Opened(out) \subseteq Waiting(a) /\ Opened(out) \subseteq Asks
         /\ \A i \in Opened(out) :
               Entry(out, i).call \in Calls /\ Entry(out, i).call.inst = i /\ Entry(out, i).seq \in Nat
<1>1. \A n \in Begun(out) : n \in DOMAIN out
  BY DEF Begun
<1>2. \A n \in DOMAIN out :
        out[n].call \in Calls /\ out[n].call.inst \in Waiting(a) /\ out[n].seq \in Nat
  BY ReleasedIs
<1>3. ASSUME NEW i \in Opened(out)
      PROVE  Entry(out, i).call \in Calls /\ Entry(out, i).call.inst = i /\ Entry(out, i).seq \in Nat
  <2>1. \E n \in Begun(out) : out[n].call.inst = i
    BY <1>3 DEF Opened
  <2>2. PICK n \in Begun(out) : n = (CHOOSE k \in Begun(out) : out[k].call.inst = i) /\ out[n].call.inst = i
    BY <2>1
  <2> QED
    BY <1>1, <1>2, <2>2 DEF Entry
<1> QED
  BY <1>1, <1>2, <1>3, WaitingAreAsks DEF Opened

\* What was released no longer waits; the asks that begin join the queue in
\* the order of their numbers.
Remains(a, out, x) ==
    /\ x.next = DrainEnd(a) /\ x.recorded = a.recorded
    /\ \A p \in DOMAIN x.held :
          p \in DOMAIN a.held /\ p \notin a.next..(DrainEnd(a) - 1) /\ x.held[p] = a.held[p]
    /\ \A n \in DOMAIN x.fresh : \E k \in DOMAIN a.fresh : x.fresh[n] = a.fresh[k]
Joins(a, out, x) ==
    /\ \A m, n \in DOMAIN x.queue : m < n =>
          \/ /\ m \in DOMAIN a.queue /\ n \in DOMAIN a.queue
             /\ x.queue[m] = a.queue[m] /\ x.queue[n] = a.queue[n]
          \/ m \in DOMAIN a.queue /\ x.queue[m] = a.queue[m] /\ x.queue[n] \in Opened(out)
          \/ \E u, v \in Begun(out) :
                u < v /\ x.queue[m] = out[u].call.inst /\ x.queue[n] = out[v].call.inst
    /\ \A n \in DOMAIN a.queue : n \in DOMAIN x.queue /\ x.queue[n] = a.queue[n]
    /\ \A i \in Opened(out) : \E n \in DOMAIN x.queue : x.queue[n] = i

LEMMA DrainedHas ==
  ASSUME NEW a, ActorShape(a), Single(a), NEW out, out = Released(a), NEW x, x = Drained(a)
  PROVE  /\ ActorShape(x) /\ Single(x) /\ Waiting(x) \subseteq Waiting(a)
         /\ \A n \in DOMAIN out : out[n].call.inst \notin Waiting(x)
         /\ x.current = a.current /\ x.session = a.session
         /\ \A n \in DOMAIN x.queue :
               \/ n \in DOMAIN a.queue /\ x.queue[n] = a.queue[n]
               \/ x.queue[n] \in Opened(out)
         /\ (\A m, n \in DOMAIN a.queue : a.queue[m] = a.queue[n] => m = n)
             /\ (\A n \in DOMAIN a.queue : a.queue[n] \notin Opened(out))
             => \A m, n \in DOMAIN x.queue : x.queue[m] = x.queue[n] => m = n
         /\ Remains(a, out, x) /\ Joins(a, out, x)
<1> DEFINE B == Begun(out)
<1>1. /\ a.next \in Nat /\ a.fresh \in Seq(Calls) /\ a.queue \in Seq(Asks)
      /\ DOMAIN a.held \subseteq Nat /\ IsFiniteSet(DOMAIN a.held)
      /\ \A p \in DOMAIN a.held : a.held[p] \in Calls
  BY DEF ActorShape
<1>2. /\ DOMAIN out \in SUBSET Nat /\ IsFiniteSet(DOMAIN out)
      /\ \A n \in DOMAIN out :
            /\ n + a.next - 1 \in a.next..(DrainEnd(a) - 1)
            /\ out[n].call = CallAt(a, n + a.next - 1)
            /\ out[n].call \in Calls
      /\ \A m, n \in DOMAIN out : out[m].call.inst = out[n].call.inst => m = n
  BY ReleasedIs
<1>3. B \in SUBSET DOMAIN out /\ B \in SUBSET Int /\ IsFiniteSet(B)
  <2>1. B \in SUBSET DOMAIN out
    BY DEF Begun
  <2> QED
    BY <1>2, <2>1, FS_Subset
<1>4. PICK begun : begun = At(out, B)
  OBVIOUS
<1>5. PICK c \in Nat : c = Cardinality(B)
  BY <1>3, FS_CardinalityType
<1>6. /\ DOMAIN begun = 1..c
      /\ \A n \in 1..c : Nth(B, n) \in B /\ begun[n] = out[Nth(B, n)]
      /\ \A m, n \in 1..c : m < n => Nth(B, m) < Nth(B, n)
  BY <1>3, <1>4, <1>5, AtIs
<1>7. PICK s : s = [n \in 1..c |-> begun[n].call.inst]
  OBVIOUS
<1>8. /\ DOMAIN s = 1..c
      /\ \A n \in 1..c : s[n] = out[Nth(B, n)].call.inst /\ s[n] \in Opened(out) /\ s[n] \in Asks
  <2>1. \A n \in 1..c : s[n] = out[Nth(B, n)].call.inst
    BY <1>6, <1>7
  <2>2. \A n \in 1..c : s[n] \in Opened(out)
    BY <1>6, <2>1 DEF Opened
  <2> QED
    BY <1>7, <2>1, <2>2, OpenedIs
<1>9. \A m, n \in 1..c : s[m] = s[n] => m = n
  <2>1. ASSUME NEW m \in 1..c, NEW n \in 1..c, s[m] = s[n] PROVE m = n
    <3>1. Nth(B, m) = Nth(B, n)
      <4>1. PICK u \in B : u = Nth(B, m)
        BY <1>6, <2>1
      <4>2. PICK v \in B : v = Nth(B, n)
        BY <1>6, <2>1
      <4>3. out[u].call.inst = out[v].call.inst /\ u \in DOMAIN out /\ v \in DOMAIN out
        BY <1>3, <1>8, <2>1, <4>1, <4>2
      <4>4. u = v
        BY <1>2, <4>3
      <4> QED
        BY <4>1, <4>2, <4>4
    <3>2. Nth(B, m) \in Int /\ Nth(B, n) \in Int
      BY <1>3, <1>6
    <3>3. ~(m < n) /\ ~(n < m)
      BY <1>6, <3>1, <3>2
    <3> QED
      BY <3>3
  <2> QED
    BY <2>1
<1>10. s \in Seq(Asks) /\ Len(s) = c
  <2>1. s \in [1..c -> Asks]
    BY <1>7, <1>8
  <2> QED
    BY <2>1
<1>11. PICK q : q = a.queue \o s
  OBVIOUS
<1>12. PICK l \in Nat : l = Len(a.queue)
  BY <1>1, LenProperties
<1>13. /\ q \in Seq(Asks) /\ DOMAIN q = 1..(l + c) /\ DOMAIN a.queue = 1..l
       /\ \A n \in 1..l : q[n] = a.queue[n]
       /\ \A n \in 1..(l + c) : n > l => q[n] = s[n - l]
  <2>1. q \in Seq(Asks) /\ Len(q) = l + c
    BY <1>1, <1>10, <1>11, <1>12, ConcatProperties
  <2>2. DOMAIN q = 1..(l + c) /\ DOMAIN a.queue = 1..l
    BY <1>1, <1>12, <2>1, LenProperties
  <2>3. \A n \in 1..(l + c) : q[n] = IF n <= l THEN a.queue[n] ELSE s[n - l]
    BY <1>1, <1>10, <1>11, <1>12, ConcatProperties
  <2> QED
    BY <2>1, <2>2, <2>3
<1>14. PICK e \in Nat : e = DrainEnd(a) /\ a.next <= e
  BY DrainEndIs
<1>15. PICK h : h = Drop(a.held, a.next..(e - 1))
  OBVIOUS
<1>16. DOMAIN h = DOMAIN a.held \ (a.next..(e - 1)) /\ \A p \in DOMAIN h : h[p] = a.held[p]
  BY <1>15 DEF Drop
<1>17. PICK b \in Nat : b = FreshBefore(a, e)
  BY <1>1, <1>14, FreshBeforeIs
<1>18. PICK k \in Nat : k = Len(a.fresh)
  BY <1>1, LenProperties
<1>19. PICK w : w = SubSeq(a.fresh, b + 1, k)
  OBVIOUS
<1>20. /\ w \in Seq(Calls) /\ DOMAIN a.fresh = 1..k
       /\ \A n \in DOMAIN w : n \in Nat \ {0} /\ b + n \in 1..k /\ w[n] = a.fresh[b + n]
  <2>1. DOMAIN a.fresh = 1..k /\ \A n \in 1..k : a.fresh[n] \in Calls
    BY <1>1, <1>18, LenProperties, ElementOfSeq
  <2>2. \A n \in (b + 1)..k : a.fresh[n] \in Calls
    BY <2>1
  <2>3. b + 1 \in Int /\ k \in Int
    OBVIOUS
  <2>4. /\ w \in Seq(Calls) /\ Len(w) = IF b + 1 <= k THEN k - (b + 1) + 1 ELSE 0
        /\ \A i \in 1..(k - (b + 1) + 1) : w[i] = a.fresh[(b + 1) + i - 1]
    BY <1>19, <2>2, <2>3, SubSeqProperties
  <2>5. DOMAIN w = 1..Len(w)
    BY <2>4, LenProperties
  <2>6. ASSUME NEW n \in DOMAIN w PROVE n \in Nat \ {0} /\ b + n \in 1..k /\ w[n] = a.fresh[b + n]
    <3>1. b + 1 <= k /\ n \in 1..(k - (b + 1) + 1)
      BY <2>4, <2>5, <2>6
    <3>2. (b + 1) + n - 1 = b + n /\ b + n \in 1..k /\ n \in Nat \ {0}
      BY <3>1
    <3> QED
      BY <2>4, <3>1, <3>2
  <2> QED
    BY <2>1, <2>4, <2>6
<1>21. x = [a EXCEPT !.next = e, !.held = h, !.fresh = w, !.queue = q]
  BY <1>4, <1>6, <1>7, <1>11, <1>14, <1>15, <1>17, <1>18, <1>19 DEF Drained
<1>22. /\ x.next = e /\ x.held = h /\ x.fresh = w /\ x.queue = q /\ x.recorded = a.recorded
       /\ x.current = a.current /\ x.session = a.session
  BY <1>21 DEF ActorShape
<1>23. DOMAIN h \subseteq Nat /\ IsFiniteSet(DOMAIN h) /\ \A p \in DOMAIN h : h[p] \in Calls
  <2>1. DOMAIN h \in SUBSET DOMAIN a.held
    BY <1>16
  <2> QED
    BY <1>1, <1>16, <2>1, FS_Subset
<1>24. ActorShape(x)
  BY <1>13, <1>14, <1>20, <1>21, <1>22, <1>23 DEF ActorShape
<1>25. Waiting(x) \subseteq Waiting(a)
  BY SMTT(20), <1>16, <1>20, <1>22 DEF Waiting
<1>26. Single(x)
  <2>1. \A p, r \in DOMAIN h : h[p].inst = h[r].inst => p = r
    BY <1>16 DEF Single
  <2>2. ASSUME NEW m \in DOMAIN w, NEW n \in DOMAIN w, w[m].inst = w[n].inst PROVE m = n
    <3>1. b + m = b + n
      BY <1>20, <2>2 DEF Single
    <3> QED
      BY <1>20, <3>1
  <2>3. ASSUME NEW p \in DOMAIN h, NEW n \in DOMAIN w PROVE h[p].inst # w[n].inst
    <3>1. p \in DOMAIN a.held /\ h[p] = a.held[p]
      BY <1>16
    <3>2. b + n \in DOMAIN a.fresh /\ w[n] = a.fresh[b + n]
      BY <1>20
    <3> QED
      BY <3>1, <3>2 DEF Single
  <2> QED
    BY <1>22, <2>1, <2>2, <2>3 DEF Single
<1>27. ASSUME NEW n \in DOMAIN out PROVE out[n].call.inst \notin Waiting(x)
  <2>1. PICK p \in a.next..(e - 1) : out[n].call = CallAt(a, p)
    BY <1>2, <1>14
  <2>2. CASE p \in DOMAIN a.held
    <3>1. out[n].call = a.held[p] /\ p \notin DOMAIN h
      BY <1>14, <1>16, <2>1, <2>2, CallAtIs
    <3>2. \A r \in DOMAIN h : h[r].inst # a.held[p].inst
      BY <1>16, <2>2, <3>1 DEF Single
    <3>3. ASSUME NEW m \in DOMAIN w PROVE w[m].inst # a.held[p].inst
      <4>1. b + m \in DOMAIN a.fresh /\ w[m] = a.fresh[b + m]
        BY <1>20
      <4> QED
        BY <2>2, <4>1 DEF Single
    <3> QED
      BY <1>22, <3>1, <3>2, <3>3 DEF Waiting
  <2>3. CASE p \notin DOMAIN a.held
    <3>1. PICK m \in DOMAIN a.fresh : m = FreshBefore(a, p) + 1 /\ m <= b
      BY <1>14, <1>17, <2>1, <2>3, CallAtIs
    <3>2. out[n].call = a.fresh[m]
      BY <1>14, <2>1, <2>3, <3>1, CallAtIs
    <3>3. \A r \in DOMAIN h : h[r].inst # a.fresh[m].inst
      BY <1>16, <3>1 DEF Single
    <3>4. ASSUME NEW i \in DOMAIN w PROVE w[i].inst # a.fresh[m].inst
      <4>1. m \in Nat /\ b + i # m /\ b + i \in DOMAIN a.fresh
        BY <1>20, <3>1
      <4> QED
        BY <1>20, <3>1, <4>1 DEF Single
    <3> QED
      BY <1>22, <3>2, <3>3, <3>4 DEF Waiting
  <2> QED
    BY <2>2, <2>3
<1>28. ASSUME NEW n \in DOMAIN q
       PROVE  \/ n \in DOMAIN a.queue /\ q[n] = a.queue[n]
              \/ n > l /\ n - l \in 1..c /\ q[n] = s[n - l]
  <2>1. CASE n <= l
    BY <1>13, <1>28, <2>1
  <2>2. CASE n > l
    BY <1>13, <1>28, <2>2
  <2> QED
    BY <1>13, <1>28, <2>1, <2>2
<1>29. ASSUME \A m, n \in DOMAIN a.queue : a.queue[m] = a.queue[n] => m = n,
              \A n \in DOMAIN a.queue : a.queue[n] \notin Opened(out),
              NEW m \in DOMAIN q, NEW n \in DOMAIN q, q[m] = q[n]
       PROVE  m = n
  <2>1. m \in Nat /\ n \in Nat
    BY <1>13, <1>29
  <2>2. CASE m \in DOMAIN a.queue /\ q[m] = a.queue[m] /\ n \in DOMAIN a.queue /\ q[n] = a.queue[n]
    BY <1>29, <2>2
  <2>3. CASE m - l \in 1..c /\ q[m] = s[m - l] /\ n - l \in 1..c /\ q[n] = s[n - l]
    <3>1. m - l = n - l
      BY <1>9, <1>29, <2>3
    <3> QED
      BY <2>1, <3>1
  <2>4. CASE m \in DOMAIN a.queue /\ q[m] = a.queue[m] /\ n - l \in 1..c /\ q[n] = s[n - l]
    BY <1>8, <1>29, <2>4
  <2>5. CASE n \in DOMAIN a.queue /\ q[n] = a.queue[n] /\ m - l \in 1..c /\ q[m] = s[m - l]
    BY <1>8, <1>29, <2>5
  <2> QED
    BY <1>28, <2>2, <2>3, <2>4, <2>5
<1>30. \A n \in DOMAIN q : (n \in DOMAIN a.queue /\ q[n] = a.queue[n]) \/ q[n] \in Opened(out)
  BY <1>8, <1>28
<1>31. Remains(a, out, x)
  BY <1>14, <1>16, <1>20, <1>22 DEF Remains
<1>32. ASSUME NEW m \in DOMAIN q, NEW n \in DOMAIN q, m < n
       PROVE  \/ /\ m \in DOMAIN a.queue /\ n \in DOMAIN a.queue
                 /\ q[m] = a.queue[m] /\ q[n] = a.queue[n]
              \/ m \in DOMAIN a.queue /\ q[m] = a.queue[m] /\ q[n] \in Opened(out)
              \/ \E u, v \in B : u < v /\ q[m] = out[u].call.inst /\ q[n] = out[v].call.inst
  <2>1. CASE m > l
    <3>1. m - l \in 1..c /\ n - l \in 1..c /\ m - l < n - l
      BY <1>13, <1>32, <2>1
    <3>2. q[m] = s[m - l] /\ q[n] = s[n - l]
      BY <1>13, <1>32, <2>1, <3>1
    <3>3. PICK u \in B, v \in B : u = Nth(B, m - l) /\ v = Nth(B, n - l) /\ u < v
      BY <1>6, <3>1
    <3>4. q[m] = out[u].call.inst /\ q[n] = out[v].call.inst
      BY <1>8, <3>1, <3>2, <3>3
    <3> QED
      BY <3>3, <3>4
  <2>2. CASE m <= l
    <3>1. m \in DOMAIN a.queue /\ q[m] = a.queue[m]
      BY <1>13, <2>2
    <3> QED
      BY <1>30, <3>1
  <2> QED
    BY <1>13, <2>1, <2>2
<1>33. \A n \in DOMAIN a.queue : n \in DOMAIN q /\ q[n] = a.queue[n]
  BY <1>13
<1>34. ASSUME NEW i \in Opened(out) PROVE \E n \in DOMAIN q : q[n] = i
  <2>1. PICK u \in B : out[u].call.inst = i
    BY <1>34 DEF Opened
  <2>2. PICK k1 \in 1..c : begun[k1] = out[u]
    BY <1>3, <1>4, <1>6, <2>1, AtIs
  <2>3. s[k1] = i /\ l + k1 \in 1..(l + c) /\ l + k1 > l /\ (l + k1) - l = k1
    BY <1>7, <2>1, <2>2
  <2>4. q[l + k1] = i
    BY <1>13, <2>3
  <2> QED
    BY <1>13, <2>3, <2>4
<1>35. Joins(a, out, x)
  BY <1>22, <1>32, <1>33, <1>34 DEF Joins
<1> QED
  BY <1>22, <1>24, <1>25, <1>26, <1>27, <1>29, <1>30, <1>31, <1>35

LEMMA DrainedIs ==
  ASSUME NEW a, ActorShape(a), Single(a), NEW out, out = Released(a), NEW x, x = Drained(a)
  PROVE  /\ ActorShape(x) /\ Single(x) /\ Waiting(x) \subseteq Waiting(a)
         /\ \A n \in DOMAIN out : out[n].call.inst \notin Waiting(x)
         /\ x.current = a.current /\ x.session = a.session
         /\ \A n \in DOMAIN x.queue :
               \/ n \in DOMAIN a.queue /\ x.queue[n] = a.queue[n]
               \/ x.queue[n] \in Opened(out)
         /\ (\A m, n \in DOMAIN a.queue : a.queue[m] = a.queue[n] => m = n)
             /\ (\A n \in DOMAIN a.queue : a.queue[n] \notin Opened(out))
             => \A m, n \in DOMAIN x.queue : x.queue[m] = x.queue[n] => m = n
BY DrainedHas

LEMMA EnteredIs ==
  ASSUME NEW e, EngineShape(e), NEW ref \in DOMAIN e.actor, Single(e.actor[ref]),
         NEW x, x = Entered(e, ref), NEW out, out = Released(e.actor[ref])
  PROVE  /\ EngineShape(x)
         /\ x.ordinals = e.ordinals /\ x.handle = e.handle /\ x.order = e.order /\ x.active = e.active
         /\ DOMAIN x.actor = DOMAIN e.actor /\ x.actor[ref] = Drained(e.actor[ref])
         /\ \A r \in DOMAIN e.actor : r # ref => x.actor[r] = e.actor[r]
         /\ DOMAIN x.live = DOMAIN e.live \cup Opened(out)
         /\ \A i \in DOMAIN e.live : i \notin Opened(out) => x.live[i] = e.live[i]
         /\ \A i \in Opened(out) : x.live[i].actor = ref /\ ~x.live[i].dispatched
<1>1. ActorShape(e.actor[ref]) /\ ref \in ActorRefs
  BY DEF EngineShape
<1>2. PICK a : a = Drained(e.actor[ref])
  OBVIOUS
<1>3. ActorShape(a)
  BY <1>1, <1>2, DrainedIs
<1>4. PICK O : O = Opened(out)
  OBVIOUS
<1>5. O \subseteq Asks /\ \A i \in O : Entry(out, i).call \in Calls
  BY <1>1, <1>4, OpenedIs
<1>6. PICK l : l = [i \in DOMAIN e.live \cup O |->
                      IF i \in O THEN NewNode(Entry(out, i).call.strand, ref) ELSE e.live[i]]
  OBVIOUS
<1>7. PICK f : f = [e.actor EXCEPT ![ref] = a]
  OBVIOUS
<1>8. x = [e EXCEPT !.actor = f, !.live = l]
  BY <1>2, <1>4, <1>6, <1>7 DEF Entered
<1>9. /\ DOMAIN f = DOMAIN e.actor /\ f[ref] = a
      /\ \A r \in DOMAIN e.actor : r # ref => f[r] = e.actor[r]
  BY <1>7
<1>10. ASSUME NEW i \in O PROVE l[i] \in Nodes /\ l[i].actor = ref /\ ~l[i].dispatched
  <2>1. PICK s \in Strands : s = Entry(out, i).call.strand
    BY <1>5, <1>10 DEF Calls
  <2>2. l[i] = NewNode(s, ref)
    BY <1>6, <1>10, <2>1
  <2> QED
    BY <1>1, <2>2, CapAssumption DEF NewNode, Nodes
<1>11. /\ DOMAIN l = DOMAIN e.live \cup O
       /\ \A i \in DOMAIN e.live : i \notin O => l[i] = e.live[i]
  BY <1>6
<1>12. /\ x.ordinals = e.ordinals /\ x.handle = e.handle /\ x.order = e.order
       /\ x.active = e.active /\ x.live = l /\ x.actor = f
  BY <1>8 DEF EngineShape
<1>13. x \in [ordinals : [Sites -> Nat], handle : [Agents -> ActorRefs \cup {None}],
              order : Seq(ActorRefs), actor : {x.actor}, live : {x.live}, active : Nat]
  BY <1>8, <1>12 DEF EngineShape
<1>14. \A r \in DOMAIN f : ActorShape(f[r])
  BY <1>3, <1>9 DEF EngineShape
<1>15. \A i \in DOMAIN l : i \in Asks /\ l[i] \in Nodes
  BY <1>5, <1>10, <1>11 DEF EngineShape
<1>16. EngineShape(x)
  BY <1>9, <1>12, <1>13, <1>14, <1>15 DEF EngineShape
<1> QED
  BY <1>2, <1>4, <1>9, <1>10, <1>11, <1>12, <1>16

LEMMA EnteredKeeps ==
  ASSUME NEW e, cap \in Nat, EngineInv(e, cap), NEW ref \in DOMAIN e.actor,
         NEW x, x = Entered(e, ref)
  PROVE  /\ EngineInv(x, cap) /\ Evolves(e, x)
         /\ Opened(Released(e.actor[ref])) \cap DOMAIN e.live = {}
<1>1. /\ EngineShape(e) /\ Roster(e) /\ Names(e) /\ Flights(e) /\ Slots(e, cap)
      /\ Single(e.actor[ref]) /\ ActorShape(e.actor[ref]) /\ Holds(e, ref)
  BY DEF EngineInv, EngineShape, Names, Flights
<1>2. PICK out : out = Released(e.actor[ref])
  OBVIOUS
<1>3. PICK O : O = Opened(out)
  OBVIOUS
<1>4. PICK a : a = e.actor[ref]
  OBVIOUS
<1>5. PICK b : b = Drained(a)
  OBVIOUS
<1>6. O \subseteq Waiting(a) /\ O \subseteq Asks
  BY <1>1, <1>2, <1>3, <1>4, OpenedIs
<1>7. \A i \in O : i \notin DOMAIN e.live /\ i[2] <= e.ordinals[i[1]] /\ i \in Asks /\ i # None
  BY <1>1, <1>4, <1>6, NoneIsNoName DEF Names
<1>8. /\ EngineShape(x)
      /\ x.ordinals = e.ordinals /\ x.handle = e.handle /\ x.order = e.order /\ x.active = e.active
      /\ DOMAIN x.actor = DOMAIN e.actor /\ x.actor[ref] = b
      /\ \A r \in DOMAIN e.actor : r # ref => x.actor[r] = e.actor[r]
      /\ DOMAIN x.live = DOMAIN e.live \cup O
      /\ \A i \in DOMAIN e.live : i \notin O => x.live[i] = e.live[i]
      /\ \A i \in O : x.live[i].actor = ref /\ ~x.live[i].dispatched
  BY <1>1, <1>2, <1>3, <1>4, <1>5, EnteredIs
<1>9. \A i \in DOMAIN e.live : x.live[i] = e.live[i]
  BY <1>7, <1>8
<1>10. /\ Single(b) /\ Waiting(b) \subseteq Waiting(a)
       /\ b.current = a.current /\ b.session = a.session
       /\ \A n \in DOMAIN b.queue :
             (n \in DOMAIN a.queue /\ b.queue[n] = a.queue[n]) \/ b.queue[n] \in O
       /\ (\A m, n \in DOMAIN a.queue : a.queue[m] = a.queue[n] => m = n)
             /\ (\A n \in DOMAIN a.queue : a.queue[n] \notin O)
             => \A m, n \in DOMAIN b.queue : b.queue[m] = b.queue[n] => m = n
  BY <1>1, <1>2, <1>3, <1>4, <1>5, DrainedIs
<1>11. \A i \in O : i \notin Waiting(b)
  <2>1. \A n \in DOMAIN out : out[n].call.inst \notin Waiting(b)
    BY <1>1, <1>2, <1>4, <1>5, DrainedIs
  <2> QED
    BY <1>3, <2>1 DEF Opened, Begun
<1>12. \A r \in DOMAIN e.actor : Waiting(x.actor[r]) \subseteq Waiting(e.actor[r])
  BY <1>4, <1>8, <1>10
<1>13. Roster(x)
  BY <1>1, <1>8 DEF Roster
<1>14. Names(x)
  <2>1. \A i \in DOMAIN x.live : i[2] <= x.ordinals[i[1]]
    BY <1>1, <1>7, <1>8 DEF Names
  <2>2. ASSUME NEW r \in DOMAIN x.actor
        PROVE  /\ Single(x.actor[r])
               /\ \A i \in Waiting(x.actor[r]) : i \notin DOMAIN x.live /\ i[2] <= x.ordinals[i[1]]
    <3>1. r \in DOMAIN e.actor
      BY <1>8, <2>2
    <3>2. Single(x.actor[r])
      BY <1>1, <1>8, <1>10, <3>1 DEF Names
    <3>3. \A i \in Waiting(x.actor[r]) : i \notin DOMAIN e.live /\ i[2] <= e.ordinals[i[1]]
      BY <1>1, <1>12, <3>1 DEF Names
    <3>4. \A i \in Waiting(x.actor[r]) : i \notin O
      <4>1. CASE r = ref
        BY <1>8, <1>11, <4>1
      <4>2. CASE r # ref
        <5>1. Waiting(e.actor[r]) \cap Waiting(e.actor[ref]) = {}
          BY <1>1, <3>1, <4>2 DEF Names
        <5> QED
          BY <1>4, <1>6, <1>12, <3>1, <5>1
      <4> QED
        BY <4>1, <4>2
    <3> QED
      BY <1>8, <3>2, <3>3, <3>4
  <2>3. ASSUME NEW r \in DOMAIN x.actor, NEW q \in DOMAIN x.actor, r # q
        PROVE  Waiting(x.actor[r]) \cap Waiting(x.actor[q]) = {}
    <3>1. r \in DOMAIN e.actor /\ q \in DOMAIN e.actor
      BY <1>8, <2>3
    <3>2. Waiting(e.actor[r]) \cap Waiting(e.actor[q]) = {}
      BY <1>1, <2>3, <3>1 DEF Names
    <3> QED
      BY <1>12, <3>1, <3>2
  <2> QED
    BY <2>1, <2>2, <2>3 DEF Names
<1>15. ASSUME NEW r \in DOMAIN x.actor PROVE Holds(x, r)
  <2>1. r \in DOMAIN e.actor /\ Holds(e, r)
    BY <1>1, <1>8, <1>15 DEF Flights
  <2>2. CASE r # ref
    <3>1. x.actor[r] = e.actor[r]
      BY <1>8, <2>1, <2>2
    <3> QED
      BY SMTT(20), <1>8, <1>9, <2>1, <3>1 DEF Holds
  <2>3. CASE r = ref
    <3>1. /\ a.current # None => a.current \in DOMAIN e.live /\ e.live[a.current].actor = ref
          /\ \A n \in DOMAIN a.queue :
                /\ a.queue[n] \in DOMAIN e.live /\ a.queue[n] # a.current
                /\ e.live[a.queue[n]].actor = ref /\ ~e.live[a.queue[n]].dispatched
          /\ \A m, n \in DOMAIN a.queue : a.queue[m] = a.queue[n] => m = n
      BY <1>1, <1>4 DEF Holds
    <3>2. \A m, n \in DOMAIN b.queue : b.queue[m] = b.queue[n] => m = n
      BY <1>7, <1>10, <3>1
    <3>3. b.current # None => b.current \in DOMAIN x.live /\ x.live[b.current].actor = ref
      BY <1>8, <1>9, <1>10, <3>1
    <3>4. ASSUME NEW n \in DOMAIN b.queue
          PROVE  /\ b.queue[n] \in DOMAIN x.live /\ b.queue[n] # b.current
                 /\ x.live[b.queue[n]].actor = ref /\ ~x.live[b.queue[n]].dispatched
      <4>1. CASE n \in DOMAIN a.queue /\ b.queue[n] = a.queue[n]
        BY <1>8, <1>9, <1>10, <3>1, <4>1
      <4>2. CASE b.queue[n] \in O
        BY <1>7, <1>8, <1>10, <3>1, <4>2
      <4> QED
        BY <1>10, <3>4, <4>1, <4>2
    <3>5. x.actor[r] = b
      BY <1>8, <2>3
    <3> QED
      BY <2>3, <3>2, <3>3, <3>4, <3>5 DEF Holds
  <2> QED
    BY <2>2, <2>3
<1>16. \A r \in DOMAIN e.actor :
         x.actor[r].current = e.actor[r].current /\ x.actor[r].session = e.actor[r].session
  BY <1>4, <1>8, <1>10
<1>17. ASSUME NEW i \in DOMAIN x.live
       PROVE  /\ x.live[i].actor \in DOMAIN x.actor
              /\ x.live[i].dispatched => x.actor[x.live[i].actor].current = i
  <2>1. CASE i \in O
    BY <1>8, <2>1
  <2>2. CASE i \notin O
    <3>1. i \in DOMAIN e.live /\ x.live[i] = e.live[i]
      BY <1>8, <1>17, <2>2
    <3>2. /\ e.live[i].actor \in DOMAIN e.actor
          /\ e.live[i].dispatched => e.actor[e.live[i].actor].current = i
      BY <1>1, <3>1 DEF Flights
    <3> QED
      BY <1>8, <1>16, <3>1, <3>2
  <2> QED
    BY <2>1, <2>2
<1>18. Slots(x, cap)
  <2>1. Busy(x) = Busy(e)
    BY <1>8, <1>16 DEF Busy
  <2> QED
    BY <1>1, <1>8, <2>1 DEF Slots
<1>19. Past(e) \subseteq Past(x) /\ Past(e) \cap O = {}
  <2>1. Past(e) \cap O = {}
    BY <1>4, <1>6 DEF Past
  <2> QED
    BY <1>8, <1>12, <2>1 DEF Past
<1>20. Evolves(e, x)
  BY <1>8, <1>9, <1>16, <1>19 DEF Evolves
<1>21. Flights(x)
  BY <1>15, <1>17 DEF Flights
<1>22. O \cap DOMAIN e.live = {}
  BY <1>7
<1> QED
  BY <1>2, <1>3, <1>8, <1>13, <1>14, <1>18, <1>20, <1>21, <1>22 DEF EngineInv

LEMMA OneElement ==
  ASSUME NEW D, NEW r \in D
  PROVE  <<r>> \in Seq(D) /\ DOMAIN <<r>> = {1} /\ <<r>>[1] = r
<1>1. <<r>> \in Seq(D) /\ Len(<<r>>) = 1 /\ <<r>>[1] = r
  OBVIOUS
<1>2. DOMAIN <<r>> = 1..1
  BY <1>1, LenProperties
<1> QED
  BY <1>1, <1>2

\* An admission: the drain, the actor's own pump, the pump of the others.
LEMMA AdmitKeeps ==
  ASSUME NEW e, cap \in Nat, EngineInv(e, cap), NoIdle(e, cap), NEW ref \in DOMAIN e.actor,
         NEW others, others = e.order \/ others = <<>>,
         NEW x, x = Pump(Pump(Entered(e, ref), <<ref>>), others)
  PROVE  /\ EngineInv(x, cap) /\ NoIdle(x, cap) /\ Evolves(e, x)
         /\ x.ordinals = e.ordinals /\ x.handle = e.handle
         /\ DOMAIN x.actor = DOMAIN e.actor
         /\ DOMAIN x.live = DOMAIN e.live \cup Opened(Released(e.actor[ref]))
         /\ Opened(Released(e.actor[ref])) \cap DOMAIN e.live = {}
<1>1. /\ EngineShape(e) /\ Roster(e) /\ e.order \in Seq(ActorRefs) /\ Single(e.actor[ref])
  BY DEF EngineInv, EngineShape, Names
<1>2. PICK y : y = Entered(e, ref)
  OBVIOUS
<1>3. PICK z : z = Pump(y, <<ref>>)
  OBVIOUS
<1>4. x = Pump(z, others)
  BY <1>2, <1>3
<1>5. /\ EngineInv(y, cap) /\ Evolves(e, y)
      /\ Opened(Released(e.actor[ref])) \cap DOMAIN e.live = {}
  BY <1>2, EnteredKeeps
<1>6. /\ y.ordinals = e.ordinals /\ y.handle = e.handle /\ y.order = e.order /\ y.active = e.active
      /\ DOMAIN y.actor = DOMAIN e.actor
      /\ \A r \in DOMAIN e.actor : r # ref => y.actor[r] = e.actor[r]
      /\ DOMAIN y.live = DOMAIN e.live \cup Opened(Released(e.actor[ref]))
  BY <1>1, <1>2, EnteredIs
<1>7. /\ <<ref>> \in Seq(DOMAIN y.actor) /\ DOMAIN <<ref>> = {1} /\ <<ref>>[1] = ref
  <2>1. ref \in DOMAIN y.actor
    BY <1>6
  <2> QED
    BY <2>1, OneElement
<1>8. EngineInv(z, cap) /\ Evolves(y, z)
  BY <1>3, <1>5, <1>7, PumpKeeps
<1>9. /\ z.ordinals = y.ordinals /\ z.handle = y.handle /\ z.order = y.order /\ z.live = y.live
      /\ DOMAIN z.actor = DOMAIN y.actor
  BY <1>3, <1>5, <1>7, PumpIs DEF EngineInv, Slots
<1>10. NoIdle(z, cap)
  <2>1. y.active < cap => \A r \in DOMAIN y.actor : Idle(y, r) => \E n \in DOMAIN <<ref>> : r = <<ref>>[n]
    <3>1. SUFFICES ASSUME y.active < cap, NEW r \in DOMAIN y.actor, Idle(y, r), r # ref PROVE FALSE
      BY <1>7
    <3>2. Idle(e, r) /\ e.active < cap /\ r \in DOMAIN e.actor
      BY <1>6, <3>1 DEF Idle
    <3> QED
      BY <3>2 DEF NoIdle
  <2>2. \A m, n \in DOMAIN <<ref>> : <<ref>>[m] = <<ref>>[n] => m = n
    BY <1>7
  <2> QED
    BY <1>3, <1>5, <1>7, <2>1, <2>2, PumpFills
<1>11. others \in Seq(DOMAIN z.actor) /\ \A m, n \in DOMAIN others : others[m] = others[n] => m = n
  <2>1. CASE others = <<>>
    BY <2>1, EmptySeq
  <2>2. CASE others = e.order
    <3>1. Range(e.order) = DOMAIN z.actor
      BY <1>1, <1>6, <1>9 DEF Roster
    <3>2. e.order \in Seq(Range(e.order))
      BY <1>1, SeqOfRange
    <3> QED
      BY <1>1, <2>2, <3>1, <3>2 DEF Roster
  <2> QED
    BY <2>1, <2>2
<1>12. EngineInv(x, cap) /\ Evolves(z, x)
  BY <1>4, <1>8, <1>11, PumpKeeps
<1>13. /\ x.ordinals = z.ordinals /\ x.handle = z.handle /\ x.live = z.live
       /\ DOMAIN x.actor = DOMAIN z.actor
  BY <1>4, <1>8, <1>11, PumpIs DEF EngineInv, Slots
<1>14. NoIdle(x, cap)
  <2>1. z.active < cap => \A r \in DOMAIN z.actor : Idle(z, r) => \E n \in DOMAIN others : r = others[n]
    BY <1>10 DEF NoIdle
  <2> QED
    BY <1>4, <1>8, <1>11, <2>1, PumpFills
<1>15. Evolves(e, x)
  BY <1>5, <1>8, <1>12, EvolvesOn
<1> QED
  BY <1>5, <1>6, <1>9, <1>12, <1>13, <1>14, <1>15

-----------------------------------------------------------------------------
(* A dispatch, a repair, a nudge; the end of a session's creation.         *)

\* The record of a live ask changes; it may become the dispatched one.
LEMMA NodeKeeps ==
  ASSUME NEW e, cap \in Nat, EngineInv(e, cap), NoIdle(e, cap), NEW i \in DOMAIN e.live,
         NEW v \in Nodes, v.actor = e.live[i].actor, e.live[i].dispatched => v.dispatched,
         v.dispatched => e.actor[v.actor].current = i,
         NEW x, x = [e EXCEPT !.live[i] = v]
  PROVE  /\ EngineInv(x, cap) /\ NoIdle(x, cap) /\ Evolves(e, x)
         /\ x.ordinals = e.ordinals /\ x.handle = e.handle /\ x.order = e.order
         /\ x.actor = e.actor /\ x.active = e.active
         /\ DOMAIN x.live = DOMAIN e.live /\ x.live[i] = v
         /\ \A j \in DOMAIN e.live : j # i => x.live[j] = e.live[j]
<1>1. /\ EngineShape(e) /\ Roster(e) /\ Names(e) /\ Flights(e) /\ Slots(e, cap)
  BY DEF EngineInv
<1>2. PICK l : l = [e.live EXCEPT ![i] = v]
  OBVIOUS
<1>3. x = [e EXCEPT !.live = l]
  BY <1>2
<1>4. /\ DOMAIN l = DOMAIN e.live /\ l[i] = v
      /\ \A j \in DOMAIN e.live : j # i => l[j] = e.live[j]
  BY <1>2
<1>5. /\ x.ordinals = e.ordinals /\ x.handle = e.handle /\ x.order = e.order
      /\ x.active = e.active /\ x.live = l /\ x.actor = e.actor
  BY <1>1, <1>3 DEF EngineShape
<1>6. x \in [ordinals : [Sites -> Nat], handle : [Agents -> ActorRefs \cup {None}],
             order : Seq(ActorRefs), actor : {x.actor}, live : {x.live}, active : Nat]
  BY <1>1, <1>3, <1>5 DEF EngineShape
<1>7. \A j \in DOMAIN l : j \in Asks /\ l[j] \in Nodes
  BY <1>1, <1>4 DEF EngineShape
<1>8. EngineShape(x)
  BY <1>1, <1>5, <1>6, <1>7 DEF EngineShape
<1>9. \A j \in DOMAIN e.live : x.live[j].actor = e.live[j].actor /\ (e.live[j].dispatched => x.live[j].dispatched)
  BY <1>4, <1>5
<1>10. ASSUME NEW r \in DOMAIN x.actor PROVE Holds(x, r)
  <2>1. r \in DOMAIN e.actor /\ Holds(e, r)
    BY <1>1, <1>5, <1>10 DEF Flights
  <2>2. PICK a : a = e.actor[r]
    OBVIOUS
  <2>3. /\ a.current # None => a.current \in DOMAIN e.live /\ e.live[a.current].actor = r
        /\ \A n \in DOMAIN a.queue :
              /\ a.queue[n] \in DOMAIN e.live /\ a.queue[n] # a.current
              /\ e.live[a.queue[n]].actor = r /\ ~e.live[a.queue[n]].dispatched
        /\ \A m, n \in DOMAIN a.queue : a.queue[m] = a.queue[n] => m = n
    BY <2>1, <2>2 DEF Holds
  <2>4. ASSUME NEW n \in DOMAIN a.queue PROVE ~x.live[a.queue[n]].dispatched
    <3>1. CASE a.queue[n] = i
      <4>1. e.live[i].actor = r /\ a.current # i
        BY <2>3, <3>1
      <4> QED
        BY <1>4, <1>5, <2>2, <3>1, <4>1
    <3>2. CASE a.queue[n] # i
      BY <1>4, <1>5, <2>3, <3>2
    <3> QED
      BY <3>1, <3>2
  <2>5. x.actor[r] = a
    BY <1>5, <2>2
  <2> QED
    BY <1>4, <1>5, <1>9, <2>3, <2>4, <2>5 DEF Holds
<1>11. ASSUME NEW j \in DOMAIN x.live
       PROVE  /\ x.live[j].actor \in DOMAIN x.actor
              /\ x.live[j].dispatched => x.actor[x.live[j].actor].current = j
  <2>1. CASE j = i
    BY <1>1, <1>4, <1>5, <2>1 DEF Flights
  <2>2. CASE j # i
    BY <1>1, <1>4, <1>5, <1>11, <2>2 DEF Flights
  <2> QED
    BY <2>1, <2>2
<1>12. Flights(x)
  BY <1>10, <1>11 DEF Flights
<1>13. Roster(x) /\ Names(x) /\ Slots(x, cap) /\ NoIdle(x, cap)
  <2>1. Roster(x)
    BY <1>1, <1>5 DEF Roster
  <2>2. Names(x)
    BY <1>1, <1>4, <1>5 DEF Names
  <2>3. Busy(x) = Busy(e) /\ \A r : Idle(x, r) = Idle(e, r)
    BY <1>5 DEF Busy, Idle
  <2> QED
    BY <1>1, <1>5, <2>1, <2>2, <2>3 DEF Slots, NoIdle
<1>14. Past(x) = Past(e)
  BY <1>5 DEF Past
<1>15. Evolves(e, x)
  BY <1>4, <1>5, <1>9, <1>14 DEF Evolves
<1> QED
  BY <1>4, <1>5, <1>8, <1>12, <1>13, <1>15 DEF EngineInv

LEMMA SessionSetIs ==
  ASSUME NEW e, EngineShape(e), Roster(e), NEW r \in DOMAIN e.actor, NEW s \in {"ready", "failed"},
         NEW x, x = [e EXCEPT !.actor[r].session = s]
  PROVE  /\ EngineShape(x) /\ Roster(x)
         /\ x.ordinals = e.ordinals /\ x.handle = e.handle /\ x.order = e.order
         /\ x.live = e.live /\ x.active = e.active
         /\ DOMAIN x.actor = DOMAIN e.actor
         /\ \A q \in DOMAIN e.actor :
               /\ x.actor[q].held = e.actor[q].held /\ x.actor[q].fresh = e.actor[q].fresh
               /\ x.actor[q].queue = e.actor[q].queue /\ x.actor[q].current = e.actor[q].current
               /\ x.actor[q].session = IF q = r THEN s ELSE e.actor[q].session
         /\ Past(x) = Past(e)
<1>1. ActorShape(e.actor[r])
  BY DEF EngineShape
<1>2. PICK a : a = [e.actor[r] EXCEPT !.session = s]
  OBVIOUS
<1>3. /\ a.held = e.actor[r].held /\ a.fresh = e.actor[r].fresh /\ a.queue = e.actor[r].queue
      /\ a.current = e.actor[r].current /\ a.session = s
  BY <1>1, <1>2 DEF ActorShape
<1>4. ActorShape(a)
  BY <1>1, <1>2, <1>3 DEF ActorShape
<1>5. PICK f : f = [e.actor EXCEPT ![r] = a]
  OBVIOUS
<1>6. x = [e EXCEPT !.actor = f]
  BY <1>2, <1>5
<1>7. /\ DOMAIN f = DOMAIN e.actor /\ f[r] = a
      /\ \A q \in DOMAIN e.actor : q # r => f[q] = e.actor[q]
  BY <1>5
<1>8. /\ x.ordinals = e.ordinals /\ x.handle = e.handle /\ x.order = e.order
      /\ x.active = e.active /\ x.live = e.live /\ x.actor = f
  BY <1>6 DEF EngineShape
<1>9. x \in [ordinals : [Sites -> Nat], handle : [Agents -> ActorRefs \cup {None}],
             order : Seq(ActorRefs), actor : {x.actor}, live : {x.live}, active : Nat]
  BY <1>6, <1>8 DEF EngineShape
<1>10. \A q \in DOMAIN f : ActorShape(f[q])
  BY <1>4, <1>7 DEF EngineShape
<1>11. EngineShape(x)
  BY <1>7, <1>8, <1>9, <1>10 DEF EngineShape
<1>12. Roster(x)
  BY <1>7, <1>8 DEF Roster
<1>13. \A q \in DOMAIN e.actor :
               /\ x.actor[q].held = e.actor[q].held /\ x.actor[q].fresh = e.actor[q].fresh
               /\ x.actor[q].queue = e.actor[q].queue /\ x.actor[q].current = e.actor[q].current
               /\ x.actor[q].session = IF q = r THEN s ELSE e.actor[q].session
  BY <1>3, <1>7, <1>8
<1>14. Past(x) = Past(e)
  <2>1. \A q \in DOMAIN e.actor : Waiting(x.actor[q]) = Waiting(e.actor[q])
    BY <1>13 DEF Waiting
  <2> QED
    BY <1>7, <1>8, <2>1 DEF Past
<1> QED
  BY <1>7, <1>8, <1>11, <1>12, <1>13, <1>14

LEMMA SessionSetKeeps ==
  ASSUME NEW e, cap \in Nat, EngineInv(e, cap), NoIdle(e, cap), NEW r \in DOMAIN e.actor,
         NEW s \in {"ready", "failed"}, NEW x, x = [e EXCEPT !.actor[r].session = s]
  PROVE  EngineInv(x, cap) /\ NoIdle(x, cap)
<1>1. /\ EngineShape(e) /\ Roster(e) /\ Names(e) /\ Flights(e) /\ Slots(e, cap)
  BY DEF EngineInv
<1>2. /\ EngineShape(x) /\ Roster(x)
      /\ x.ordinals = e.ordinals /\ x.live = e.live /\ x.active = e.active
      /\ DOMAIN x.actor = DOMAIN e.actor
      /\ \A q \in DOMAIN e.actor :
            /\ x.actor[q].held = e.actor[q].held /\ x.actor[q].fresh = e.actor[q].fresh
            /\ x.actor[q].queue = e.actor[q].queue /\ x.actor[q].current = e.actor[q].current
  BY <1>1, SessionSetIs
<1>3. \A q \in DOMAIN e.actor :
        Waiting(x.actor[q]) = Waiting(e.actor[q]) /\ (Single(e.actor[q]) => Single(x.actor[q]))
  BY SMTT(20), <1>2 DEF Waiting, Single
<1>4. Names(x)
  <2>1. /\ \A q \in DOMAIN e.actor :
              /\ Single(e.actor[q])
              /\ \A i \in Waiting(e.actor[q]) : i \notin DOMAIN e.live /\ i[2] <= e.ordinals[i[1]]
        /\ \A p, q \in DOMAIN e.actor : p # q => Waiting(e.actor[p]) \cap Waiting(e.actor[q]) = {}
        /\ \A i \in DOMAIN e.live : i[2] <= e.ordinals[i[1]]
    BY <1>1 DEF Names
  <2>2. ASSUME NEW p \in DOMAIN x.actor, NEW q \in DOMAIN x.actor, p # q
        PROVE  Waiting(x.actor[p]) \cap Waiting(x.actor[q]) = {}
    BY <1>2, <1>3, <2>1, <2>2
  <2>3. ASSUME NEW q \in DOMAIN x.actor
        PROVE  /\ Single(x.actor[q])
               /\ \A i \in Waiting(x.actor[q]) : i \notin DOMAIN x.live /\ i[2] <= x.ordinals[i[1]]
    BY <1>2, <1>3, <2>1, <2>3
  <2> QED
    BY <1>2, <2>1, <2>2, <2>3 DEF Names
<1>5. ASSUME NEW q \in DOMAIN x.actor PROVE Holds(x, q)
  <2>1. q \in DOMAIN e.actor /\ Holds(e, q)
    BY <1>1, <1>2, <1>5 DEF Flights
  <2>2. x.actor[q].queue = e.actor[q].queue /\ x.actor[q].current = e.actor[q].current /\ x.live = e.live
    BY <1>2, <2>1
  <2> QED
    BY ZenonT(40), <2>1, <2>2 DEF Holds
<1>6. Flights(x)
  BY <1>1, <1>2, <1>5 DEF Flights
<1>7. Busy(x) = Busy(e)
  BY <1>2 DEF Busy
<1>8. Slots(x, cap) /\ NoIdle(x, cap)
  BY <1>1, <1>2, <1>7 DEF Slots, NoIdle, Idle
<1> QED
  BY <1>2, <1>4, <1>6, <1>8 DEF EngineInv

-----------------------------------------------------------------------------
(* The sessions of the driver.                                             *)

Turns == [inst : Asks, mode : {"run", "stopping", "aborted"}]
SessionShape(ss) ==
    ss \in [current : Asks \cup {None}, accepted : BOOLEAN, cancelled : BOOLEAN,
            redrive : Asks \cup {None}, turns : Seq(Turns), reporting : SUBSET Asks,
            disposed : BOOLEAN, closed : BOOLEAN]

\* A session of a settled or an earlier engine only winds down.
NoRun(ss) == \A n \in DOMAIN ss.turns : ss.turns[n].mode # "run"
Quiet(ss) == ss.redrive = None /\ NoRun(ss)

\* The asks a session has been given.
Known(ss) ==
    ({ss.current} \ {None}) \cup {ss.turns[n].inst : n \in DOMAIN ss.turns} \cup ss.reporting

\* A session of the running engine e works on its current ask, and for no ask
\* twice at a time.
TurnFits(e, ss, n) ==
    IF ss.turns[n].mode = "run"
    THEN /\ ss.turns[n].inst = ss.current /\ ss.current \in DOMAIN e.live
         /\ n = Len(ss.turns) /\ ss.redrive = None
         /\ ss.current \notin ss.reporting
    ELSE ss.turns[n].inst \notin DOMAIN e.live
Serves(e, ss, r) ==
    /\ Known(ss) \subseteq Past(e)
    /\ ss.current \in DOMAIN e.live =>
          /\ e.live[ss.current].dispatched /\ e.live[ss.current].actor = r
          /\ ~ss.accepted /\ ~ss.cancelled
    /\ \A n \in DOMAIN ss.turns : TurnFits(e, ss, n)
    /\ ss.redrive # None =>
          ss.redrive = ss.current /\ ss.current \in DOMAIN e.live /\ ss.current \notin ss.reporting
    /\ ss.reporting \cap DOMAIN e.live \subseteq {ss.current}

\* A step of the engine leaves a session in order, if its ask stays in flight
\* or the session has nothing left to do for it.
LEMMA ServesOn ==
  ASSUME NEW e, NEW x, Evolves(e, x), NEW ss, SessionShape(ss), NEW r, Serves(e, ss, r),
         EngineShape(x),
         (ss.current \in DOMAIN e.live => ss.current \in DOMAIN x.live) \/ Quiet(ss)
  PROVE  Serves(x, ss, r)
<1>1. Known(ss) \subseteq Past(e) /\ Past(e) \subseteq Past(x)
  BY DEF Serves, Evolves
<1>2. \A i \in Known(ss) : i \in DOMAIN x.live =>
        /\ i \in DOMAIN e.live /\ x.live[i].actor = e.live[i].actor
        /\ e.live[i].dispatched => x.live[i].dispatched
  BY <1>1 DEF Evolves
<1>3. ss.current \in DOMAIN x.live => ss.current \in Known(ss)
  <2>1. None \notin DOMAIN x.live
    BY NoneIsNoName DEF EngineShape
  <2> QED
    BY <2>1 DEF Known
<1>4. ss.current \in DOMAIN x.live =>
          /\ x.live[ss.current].dispatched /\ x.live[ss.current].actor = r
          /\ ~ss.accepted /\ ~ss.cancelled
  BY <1>2, <1>3 DEF Serves
<1>5. ASSUME NEW n \in DOMAIN ss.turns PROVE TurnFits(x, ss, n)
  <2>1. TurnFits(e, ss, n)
    BY <1>5 DEF Serves
  <2>2. ss.turns[n].inst \in Known(ss)
    BY <1>5 DEF Known
  <2>3. CASE ss.turns[n].mode = "run"
    BY <1>5, <2>1, <2>3 DEF TurnFits, Quiet, NoRun
  <2>4. CASE ss.turns[n].mode # "run"
    BY <1>2, <2>1, <2>2, <2>4 DEF TurnFits
  <2> QED
    BY <2>3, <2>4
<1>6. ss.redrive # None =>
          ss.redrive = ss.current /\ ss.current \in DOMAIN x.live /\ ss.current \notin ss.reporting
  BY DEF Serves, Quiet
<1>7. ss.reporting \cap DOMAIN x.live \subseteq {ss.current}
  BY <1>2 DEF Serves, Known
<1> QED
  BY <1>1, <1>4, <1>5, <1>6, <1>7 DEF Serves

LEMMA FreshSessionIs ==
  ASSUME NEW e, EngineShape(e), NEW r
  PROVE  SessionShape(FreshSession) /\ Quiet(FreshSession) /\ Serves(e, FreshSession, r)
<1>1. <<>> \in Seq(Turns) /\ DOMAIN <<>> = {}
  BY EmptySeq
<1>2. PICK ss : ss = FreshSession
  OBVIOUS
<1>3. ss = [current |-> None, accepted |-> FALSE, cancelled |-> FALSE, redrive |-> None,
            turns |-> <<>>, reporting |-> {}, disposed |-> FALSE, closed |-> FALSE]
  BY <1>2 DEF FreshSession
<1>4. SessionShape(ss)
  BY <1>1, <1>3 DEF SessionShape
<1>5. /\ ss.current = None /\ ss.redrive = None /\ ss.turns = <<>> /\ ss.reporting = {}
      /\ DOMAIN ss.turns = {}
  BY <1>1, <1>3
<1>6. Quiet(ss)
  BY <1>5 DEF Quiet, NoRun
<1>7. Serves(e, ss, r)
  BY <1>5, NoneIsNoName DEF Serves, Known, EngineShape
<1> QED
  BY <1>2, <1>4, <1>6, <1>7

\* A turn for the current ask is put at the end of the queue.
LEMMA RunTurnIs ==
  ASSUME NEW ss, SessionShape(ss), NEW i \in Asks, NEW x, x = RunTurn(ss, i)
  PROVE  /\ SessionShape(x)
         /\ x.current = ss.current /\ x.accepted = ss.accepted /\ x.cancelled = ss.cancelled
         /\ x.redrive = ss.redrive /\ x.reporting = ss.reporting
         /\ Len(ss.turns) \in Nat /\ Len(x.turns) = Len(ss.turns) + 1
         /\ DOMAIN ss.turns = 1..Len(ss.turns) /\ DOMAIN x.turns = 1..(Len(ss.turns) + 1)
         /\ \A n \in 1..Len(ss.turns) : x.turns[n] = ss.turns[n]
         /\ x.turns[Len(ss.turns) + 1].inst = i /\ x.turns[Len(ss.turns) + 1].mode = "run"
<1>1. ss.turns \in Seq(Turns)
  BY DEF SessionShape
<1>2. PICK v \in Turns : v = [inst |-> i, mode |-> "run"]
  BY DEF Turns
<1>3. PICK q : q = Append(ss.turns, v)
  OBVIOUS
<1>4. /\ q \in Seq(Turns) /\ Len(ss.turns) \in Nat /\ Len(q) = Len(ss.turns) + 1
      /\ DOMAIN ss.turns = 1..Len(ss.turns) /\ DOMAIN q = 1..(Len(ss.turns) + 1)
      /\ \A n \in 1..Len(ss.turns) : q[n] = ss.turns[n]
      /\ q[Len(ss.turns) + 1] = v
  BY <1>1, <1>3, AppendIs
<1>5. x = [ss EXCEPT !.turns = q]
  BY <1>2, <1>3 DEF RunTurn
<1>6. /\ x.current = ss.current /\ x.accepted = ss.accepted /\ x.cancelled = ss.cancelled
      /\ x.redrive = ss.redrive /\ x.reporting = ss.reporting /\ x.turns = q
  BY <1>5 DEF SessionShape
<1>7. SessionShape(x)
  BY <1>4, <1>5 DEF SessionShape
<1> QED
  BY <1>2, <1>4, <1>6, <1>7

\* A turn of the current ask may start when nothing else is done for it.
LEMMA RunTurnServes ==
  ASSUME NEW e, EngineShape(e), NEW ss, SessionShape(ss), NEW r, Serves(e, ss, r),
         ss.current \in DOMAIN e.live, Quiet(ss), ss.current \notin ss.reporting,
         NEW x, x = RunTurn(ss, ss.current)
  PROVE  SessionShape(x) /\ Serves(e, x, r)
<1>1. ss.current \in Asks
  BY DEF EngineShape
<1>2. PICK l : l = Len(ss.turns)
  OBVIOUS
<1>3. /\ SessionShape(x)
      /\ x.current = ss.current /\ x.accepted = ss.accepted /\ x.cancelled = ss.cancelled
      /\ x.redrive = ss.redrive /\ x.reporting = ss.reporting
      /\ l \in Nat /\ Len(x.turns) = l + 1
      /\ DOMAIN ss.turns = 1..l /\ DOMAIN x.turns = 1..(l + 1)
      /\ \A n \in 1..l : x.turns[n] = ss.turns[n]
      /\ x.turns[l + 1].inst = ss.current /\ x.turns[l + 1].mode = "run"
  BY <1>1, <1>2, RunTurnIs
<1>4. \A n \in 1..(l + 1) : n \in 1..l \/ n = l + 1
  BY <1>3
<1>5. ss.redrive = None /\ \A n \in 1..l : ss.turns[n].mode # "run"
  BY <1>3 DEF Quiet, NoRun
<1>6. ASSUME NEW n \in DOMAIN x.turns PROVE TurnFits(e, x, n)
  <2>1. CASE n \in 1..l
    <3>1. TurnFits(e, ss, n) /\ x.turns[n] = ss.turns[n]
      BY <1>3, <2>1 DEF Serves
    <3> QED
      BY <1>5, <2>1, <3>1 DEF TurnFits
  <2>2. CASE n = l + 1
    BY <1>3, <1>5, <2>2 DEF TurnFits
  <2> QED
    BY <1>3, <1>4, <1>6, <2>1, <2>2
<1>7. Known(x) \subseteq Known(ss)
  <2>1. ss.current \in Known(ss)
    BY <1>1, NoneIsNoName DEF Known
  <2>2. ASSUME NEW n \in DOMAIN x.turns PROVE x.turns[n].inst \in Known(ss)
    <3>1. CASE n \in 1..l
      BY <1>3, <3>1 DEF Known
    <3>2. CASE n = l + 1
      BY <1>3, <2>1, <3>2
    <3> QED
      BY <1>3, <1>4, <2>2, <3>1, <3>2
  <2> QED
    BY <1>3, <2>2 DEF Known
<1> QED
  BY <1>3, <1>5, <1>6, <1>7 DEF Serves

\* A session without a live ask takes a new one.
LEMMA StartAskServes ==
  ASSUME NEW e, EngineShape(e), NEW ss, SessionShape(ss), NEW r, Serves(e, ss, r),
         ss.current \notin DOMAIN e.live, NEW i \in DOMAIN e.live, i \in Past(e),
         e.live[i].dispatched, e.live[i].actor = r, NEW x, x = StartAsk(ss, i)
  PROVE  SessionShape(x) /\ Serves(e, x, r)
<1>1. i \in Asks
  BY DEF EngineShape
<1>2. PICK y : y = [ss EXCEPT !.current = i, !.accepted = FALSE, !.cancelled = FALSE, !.redrive = None]
  OBVIOUS
<1>3. SessionShape(y)
  BY <1>1, <1>2 DEF SessionShape
<1>4. /\ y.current = i /\ ~y.accepted /\ ~y.cancelled /\ y.redrive = None
      /\ y.turns = ss.turns /\ y.reporting = ss.reporting
  BY <1>2 DEF SessionShape
<1>5. ss.reporting \cap DOMAIN e.live = {}
  BY DEF Serves
<1>6. \A n \in DOMAIN ss.turns : ss.turns[n].mode # "run" /\ ss.turns[n].inst \notin DOMAIN e.live
  BY DEF Serves, TurnFits
<1>7. Serves(e, y, r)
  BY <1>4, <1>5, <1>6 DEF Serves, TurnFits, Known
<1>8. Quiet(y) /\ y.current \notin y.reporting
  BY <1>4, <1>5, <1>6 DEF Quiet, NoRun
<1>9. x = RunTurn(y, y.current)
  BY <1>2, <1>4 DEF StartAsk
<1> QED
  BY <1>3, <1>4, <1>7, <1>8, <1>9, RunTurnServes

\* A cancelled session has nothing left to run.
LEMMA CancelAskIs ==
  ASSUME NEW ss, SessionShape(ss), NEW x, x = CancelAsk(ss)
  PROVE  /\ SessionShape(x) /\ x.redrive = None
         /\ x.current = ss.current /\ x.accepted = ss.accepted /\ x.reporting = ss.reporting
         /\ DOMAIN x.turns = DOMAIN ss.turns
         /\ \A n \in DOMAIN ss.turns :
               /\ x.turns[n].inst = ss.turns[n].inst
               /\ x.turns[n].mode = IF ss.turns[n].inst = ss.current THEN "aborted" ELSE ss.turns[n].mode
<1>1. PICK t : t = [n \in DOMAIN ss.turns |->
                     IF ss.turns[n].inst = ss.current THEN [ss.turns[n] EXCEPT !.mode = "aborted"]
                     ELSE ss.turns[n]]
  OBVIOUS
<1>2. PICK l \in Nat : l = Len(ss.turns)
  BY LenProperties DEF SessionShape
<1>3. DOMAIN ss.turns = 1..l /\ \A n \in 1..l : ss.turns[n] \in Turns
  <2>1. ss.turns \in Seq(Turns)
    BY DEF SessionShape
  <2> QED
    BY <1>2, <2>1, LenProperties, ElementOfSeq
<1>4. \A n \in 1..l :
        /\ t[n] \in Turns /\ t[n].inst = ss.turns[n].inst
        /\ t[n].mode = IF ss.turns[n].inst = ss.current THEN "aborted" ELSE ss.turns[n].mode
  BY <1>1, <1>3 DEF Turns
<1>5. t \in Seq(Turns) /\ DOMAIN t = 1..l
  <2>1. t \in [1..l -> Turns]
    BY <1>1, <1>3, <1>4
  <2> QED
    BY <2>1
<1>6. x = [ss EXCEPT !.cancelled = TRUE, !.redrive = None, !.turns = t]
  BY <1>1 DEF CancelAsk
<1>7. /\ x.redrive = None /\ x.current = ss.current /\ x.reporting = ss.reporting /\ x.turns = t
      /\ x.accepted = ss.accepted
  BY <1>6 DEF SessionShape
<1>8. SessionShape(x)
  BY <1>5, <1>6 DEF SessionShape
<1> QED
  BY <1>3, <1>4, <1>5, <1>7, <1>8

\* The head turn is over.
LEMMA TurnLandsIs ==
  ASSUME NEW ss, SessionShape(ss), ss.turns # <<>>, NEW x, x = TurnLands(ss)
  PROVE  /\ SessionShape(x)
         /\ x.current = ss.current /\ x.accepted = ss.accepted /\ x.cancelled = ss.cancelled
         /\ x.redrive = ss.redrive /\ x.reporting = ss.reporting
         /\ Len(ss.turns) \in Nat \ {0} /\ DOMAIN ss.turns = 1..Len(ss.turns)
         /\ 1 \in DOMAIN ss.turns /\ ss.turns[1] \in Turns /\ Head(ss.turns) = ss.turns[1]
         /\ Len(x.turns) = Len(ss.turns) - 1 /\ DOMAIN x.turns = 1..(Len(ss.turns) - 1)
         /\ \A n \in 1..(Len(ss.turns) - 1) : x.turns[n] = ss.turns[n + 1]
<1>1. ss.turns \in Seq(Turns) /\ ss.disposed \in BOOLEAN /\ ss.closed \in BOOLEAN
  BY DEF SessionShape
<1>2. PICK h : h = Head(ss.turns)
  OBVIOUS
<1>3. PICK t : t = Tail(ss.turns)
  OBVIOUS
<1>4. /\ h \in Turns /\ t \in Seq(Turns) /\ h = ss.turns[1] /\ Len(t) = Len(ss.turns) - 1
      /\ \A n \in 1..Len(t) : t[n] = ss.turns[n + 1]
      /\ Len(ss.turns) \in Nat \ {0} /\ DOMAIN ss.turns = 1..Len(ss.turns) /\ DOMAIN t = 1..Len(t)
  BY <1>1, <1>2, <1>3, HeadTailProperties, LenProperties, EmptySeq
<1>5. PICK c \in BOOLEAN : c = (ss.closed \/ (ss.disposed /\ Len(ss.turns) = 1))
  OBVIOUS
<1>6. x = [ss EXCEPT !.turns = t, !.closed = c]
  BY <1>3, <1>5 DEF TurnLands
<1>7. /\ x.current = ss.current /\ x.accepted = ss.accepted /\ x.cancelled = ss.cancelled
      /\ x.redrive = ss.redrive /\ x.reporting = ss.reporting /\ x.turns = t
  BY <1>6 DEF SessionShape
<1>8. SessionShape(x)
  BY <1>4, <1>5, <1>6 DEF SessionShape
<1> QED
  BY <1>2, <1>4, <1>7, <1>8

LEMMA DisposeIs ==
  ASSUME NEW ss, SessionShape(ss), NEW x, x = Dispose(ss)
  PROVE  SessionShape(x) /\ x.redrive = None /\ x.turns = ss.turns
<1>1. PICK c \in BOOLEAN : c = (ss.turns = <<>>)
  OBVIOUS
<1>2. x = [ss EXCEPT !.redrive = None, !.disposed = TRUE, !.closed = c]
  BY <1>1 DEF Dispose
<1> QED
  BY <1>2 DEF SessionShape

\* Of the asks a session knows only the current one can be in flight.
LEMMA OneLive ==
  ASSUME NEW e, NEW ss, NEW r, Serves(e, ss, r)
  PROVE  Known(ss) \cap DOMAIN e.live \subseteq {ss.current}
BY DEF Serves, Known, TurnFits

\* When its ask has left the engine, a quiet session is in order.
LEMMA ServesDone ==
  ASSUME NEW e, NEW x, Evolves(e, x), NEW ss, NEW r, Serves(e, ss, r),
         ss.current \notin DOMAIN x.live,
         NEW y, Quiet(y), y.current = ss.current, Known(y) \subseteq Known(ss)
  PROVE  Serves(x, y, r)
<1>1. Known(ss) \subseteq Past(e) /\ Past(e) \subseteq Past(x)
  BY DEF Serves, Evolves
<1>2. Known(ss) \cap DOMAIN x.live \subseteq Known(ss) \cap DOMAIN e.live
  BY <1>1 DEF Evolves
<1>3. Known(ss) \cap DOMAIN x.live = {}
  BY <1>2, OneLive
<1>4. /\ \A n \in DOMAIN y.turns : y.turns[n].inst \notin DOMAIN x.live /\ y.turns[n].mode # "run"
      /\ y.reporting \cap DOMAIN x.live = {}
  BY <1>3 DEF Known, Quiet, NoRun
<1> QED
  BY <1>1, <1>4 DEF Serves, TurnFits, Quiet

LEMMA TurnLandsServes ==
  ASSUME NEW ss, SessionShape(ss), ss.turns # <<>>, NEW x, x = TurnLands(ss)
  PROVE  /\ SessionShape(x) /\ Known(x) \subseteq Known(ss)
         /\ Quiet(ss) => Quiet(x)
         /\ \A e, r : Serves(e, ss, r) => Serves(e, x, r)
         /\ \A e, r : Serves(e, ss, r) /\ ss.turns[1].mode = "run" =>
               Quiet(x) /\ ss.turns[1].inst = ss.current /\ ss.current \in DOMAIN e.live
                        /\ ss.current \notin ss.reporting
<1>1. PICK l \in Nat : l = Len(ss.turns) - 1
  <2>1. Len(ss.turns) \in Nat \ {0}
    BY TurnLandsIs
  <2> QED
    BY SMTT(20), <2>1
<1>2. /\ SessionShape(x)
      /\ x.current = ss.current /\ x.accepted = ss.accepted /\ x.cancelled = ss.cancelled
      /\ x.redrive = ss.redrive /\ x.reporting = ss.reporting
      /\ Len(ss.turns) = l + 1 /\ DOMAIN ss.turns = 1..(l + 1)
      /\ Len(x.turns) = l /\ DOMAIN x.turns = 1..l
      /\ \A n \in 1..l : x.turns[n] = ss.turns[n + 1]
  <2>1. Len(ss.turns) \in Nat \ {0} /\ DOMAIN ss.turns = 1..Len(ss.turns)
    BY TurnLandsIs
  <2> QED
    BY <1>1, <2>1, TurnLandsIs
<1>3. \A n \in 1..l : n + 1 \in 1..(l + 1) /\ n \in Nat
  OBVIOUS
<1>4. Known(x) \subseteq Known(ss)
  <2>1. \A n \in DOMAIN x.turns : \E m \in DOMAIN ss.turns : x.turns[n].inst = ss.turns[m].inst
    BY <1>2, <1>3
  <2> QED
    BY <1>2, <2>1 DEF Known
<1>5. Quiet(ss) => Quiet(x)
  BY ZenonT(40), <1>2, <1>3 DEF Quiet, NoRun
<1>6. ASSUME NEW e, NEW r, Serves(e, ss, r) PROVE Serves(e, x, r)
  <2>1. ASSUME NEW n \in DOMAIN x.turns PROVE TurnFits(e, x, n)
    <3>1. n + 1 \in DOMAIN ss.turns /\ x.turns[n] = ss.turns[n + 1] /\ n \in Nat
      BY <1>2, <1>3, <2>1
    <3>2. TurnFits(e, ss, n + 1)
      BY <1>6, <3>1 DEF Serves
    <3>3. n + 1 = Len(ss.turns) => n = Len(x.turns)
      BY <1>2, <3>1
    <3> QED
      BY <1>2, <3>1, <3>2, <3>3 DEF TurnFits
  <2> QED
    BY <1>2, <1>4, <1>6, <2>1 DEF Serves
<1>7. ASSUME NEW e, NEW r, Serves(e, ss, r), ss.turns[1].mode = "run"
      PROVE  Quiet(x) /\ ss.turns[1].inst = ss.current /\ ss.current \in DOMAIN e.live
             /\ ss.current \notin ss.reporting
  <2>1. 1 \in DOMAIN ss.turns
    BY <1>2
  <2>2. /\ ss.turns[1].inst = ss.current /\ ss.current \in DOMAIN e.live
        /\ 1 = Len(ss.turns) /\ ss.redrive = None /\ ss.current \notin ss.reporting
    BY <1>7, <2>1 DEF Serves, TurnFits
  <2>3. l = 0
    BY <1>2, <2>2
  <2> QED
    BY <1>2, <2>2, <2>3 DEF Quiet, NoRun
<1> QED
  BY <1>2, <1>4, <1>5, <1>6, <1>7

\* The turn resolves and waits to be reported.
LEMMA ResolvedServes ==
  ASSUME NEW ss, SessionShape(ss), ss.turns # <<>>,
         NEW x, x = [TurnLands(ss) EXCEPT !.reporting = @ \cup {Head(ss.turns).inst}]
  PROVE  /\ SessionShape(x) /\ (Quiet(ss) => Quiet(x))
         /\ \A e, r : Serves(e, ss, r) => Serves(e, x, r)
<1>1. PICK y : y = TurnLands(ss)
  OBVIOUS
<1>2. /\ SessionShape(y) /\ Known(y) \subseteq Known(ss) /\ (Quiet(ss) => Quiet(y))
      /\ y.current = ss.current /\ y.redrive = ss.redrive /\ y.reporting = ss.reporting
      /\ 1 \in DOMAIN ss.turns /\ ss.turns[1] \in Turns /\ Head(ss.turns) = ss.turns[1]
  BY <1>1, TurnLandsIs, TurnLandsServes
<1>3. PICK i \in Asks : i = ss.turns[1].inst
  BY <1>2 DEF Turns
<1>4. PICK R \in SUBSET Asks : R = y.reporting \cup {i}
  BY <1>2, <1>3 DEF SessionShape
<1>5. x = [y EXCEPT !.reporting = R]
  BY <1>1, <1>2, <1>3, <1>4
<1>6. /\ SessionShape(x) /\ x.reporting = R /\ x.current = y.current /\ x.redrive = y.redrive
      /\ x.turns = y.turns /\ x.accepted = y.accepted /\ x.cancelled = y.cancelled
  BY <1>2, <1>5 DEF SessionShape
<1>7. Quiet(ss) => Quiet(x)
  BY <1>2, <1>6 DEF Quiet, NoRun
<1>8. ASSUME NEW e, NEW r, Serves(e, ss, r) PROVE Serves(e, x, r)
  <2>1. Serves(e, y, r)
    BY <1>1, <1>8, TurnLandsServes
  <2>2. TurnFits(e, ss, 1)
    BY <1>2, <1>8 DEF Serves
  <2>3. Known(x) \subseteq Past(e)
    <3>1. i \in Known(ss)
      BY <1>2, <1>3 DEF Known
    <3>2. Known(x) \subseteq Known(y) \cup {i}
      BY <1>4, <1>6 DEF Known
    <3> QED
      BY <1>2, <1>8, <3>1, <3>2 DEF Serves
  <2>4. CASE ss.turns[1].mode = "run"
    <3>1. Quiet(y) /\ i = ss.current /\ ss.current \in DOMAIN e.live
      BY <1>1, <1>3, <1>8, <2>4, TurnLandsServes
    <3>2. \A n \in DOMAIN x.turns : x.turns[n].mode # "run"
      BY <1>6, <3>1 DEF Quiet, NoRun
    <3>3. ASSUME NEW n \in DOMAIN x.turns PROVE TurnFits(e, x, n)
      BY <1>6, <2>1, <3>2, <3>3 DEF Serves, TurnFits
    <3> QED
      BY <1>2, <1>4, <1>6, <2>1, <2>3, <3>1, <3>3 DEF Serves, Quiet
  <2>5. CASE ss.turns[1].mode # "run"
    <3>1. i \notin DOMAIN e.live
      BY <1>3, <2>2, <2>5 DEF TurnFits
    <3>2. ASSUME NEW n \in DOMAIN x.turns PROVE TurnFits(e, x, n)
      BY <1>4, <1>6, <2>1, <3>1, <3>2 DEF Serves, TurnFits
    <3> QED
      BY <1>4, <1>6, <2>1, <2>3, <3>1, <3>2 DEF Serves
  <2> QED
    BY <2>4, <2>5
<1> QED
  BY <1>6, <1>7, <1>8

\* The report of a turn has been told.
LEMMA ToldServes ==
  ASSUME NEW ss, SessionShape(ss), NEW i, NEW x, x = [ss EXCEPT !.reporting = @ \ {i}]
  PROVE  /\ SessionShape(x) /\ Known(x) \subseteq Known(ss) /\ x.current = ss.current
         /\ x.reporting = ss.reporting \ {i} /\ x.turns = ss.turns /\ x.redrive = ss.redrive
         /\ Quiet(ss) => Quiet(x)
         /\ \A e, r : Serves(e, ss, r) => Serves(e, x, r)
         /\ \A e, r : Serves(e, ss, r) /\ i \in ss.reporting /\ i \in DOMAIN e.live =>
               i = ss.current /\ Quiet(x)
<1>1. PICK R \in SUBSET Asks : R = ss.reporting \ {i}
  BY DEF SessionShape
<1>2. x = [ss EXCEPT !.reporting = R]
  BY <1>1
<1>3. /\ SessionShape(x) /\ x.reporting = R /\ x.current = ss.current /\ x.redrive = ss.redrive
      /\ x.turns = ss.turns /\ x.accepted = ss.accepted /\ x.cancelled = ss.cancelled
  BY <1>2 DEF SessionShape
<1>4. Known(x) \subseteq Known(ss)
  BY <1>1, <1>3 DEF Known
<1>5. ASSUME NEW e, NEW r, Serves(e, ss, r) PROVE Serves(e, x, r)
  <2>1. ASSUME NEW n \in DOMAIN x.turns PROVE TurnFits(e, x, n)
    BY <1>1, <1>3, <1>5, <2>1 DEF Serves, TurnFits
  <2> QED
    BY <1>1, <1>3, <1>4, <1>5, <2>1 DEF Serves
<1>6. ASSUME NEW e, NEW r, Serves(e, ss, r), i \in ss.reporting, i \in DOMAIN e.live
      PROVE  i = ss.current /\ Quiet(x)
  BY <1>3, <1>6 DEF Serves, TurnFits, Quiet, NoRun
<1> QED
  BY <1>1, <1>3, <1>4, <1>5, <1>6 DEF Quiet, NoRun

\* The result of the current ask is taken; the turn is told to stop.
LEMMA AcceptedIs ==
  ASSUME NEW e, NEW ss, SessionShape(ss), NEW r, Serves(e, ss, r), ss.turns # <<>>,
         ss.turns[1].mode = "run",
         NEW x, x = [ss EXCEPT !.accepted = TRUE, !.turns[1].mode = "stopping"]
  PROVE  /\ SessionShape(x) /\ Quiet(x) /\ x.current = ss.current /\ Known(x) \subseteq Known(ss)
         /\ DOMAIN x.turns = DOMAIN ss.turns
<1>1. ss.turns \in Seq(Turns) /\ 1 \in 1..Len(ss.turns) /\ DOMAIN ss.turns = 1..Len(ss.turns)
      /\ ss.turns[1] \in Turns
  <2>1. /\ Len(ss.turns) \in Nat \ {0} /\ DOMAIN ss.turns = 1..Len(ss.turns)
        /\ 1 \in DOMAIN ss.turns /\ ss.turns[1] \in Turns
    BY TurnLandsIs
  <2> QED
    BY <2>1 DEF SessionShape
<1>2. PICK v \in Turns : v = [ss.turns[1] EXCEPT !.mode = "stopping"]
  BY <1>1 DEF Turns
<1>3. v.inst = ss.turns[1].inst /\ v.mode = "stopping"
  BY <1>1, <1>2 DEF Turns
<1>4. PICK t : t = [ss.turns EXCEPT ![1] = v]
  OBVIOUS
<1>5. t \in Seq(Turns) /\ DOMAIN t = DOMAIN ss.turns /\ t[1] = v
      /\ \A n \in DOMAIN ss.turns : n # 1 => t[n] = ss.turns[n]
  <2>1. t \in Seq(Turns)
    BY <1>1, <1>4, ExceptSeq
  <2> QED
    BY <1>1, <1>4, <2>1
<1>6. x = [ss EXCEPT !.accepted = TRUE, !.turns = t]
  BY <1>2, <1>4
<1>7. /\ SessionShape(x) /\ x.current = ss.current /\ x.redrive = ss.redrive /\ x.turns = t
      /\ x.reporting = ss.reporting
  BY <1>5, <1>6 DEF SessionShape
<1>8. 1 = Len(ss.turns) /\ ss.redrive = None
  BY <1>1 DEF Serves, TurnFits
<1>9. DOMAIN t = {1}
  BY <1>1, <1>5, <1>8
<1> QED
  BY <1>1, <1>3, <1>5, <1>7, <1>8, <1>9 DEF Quiet, NoRun, Known

\* A cancelled session is quiet, if it is only for its current ask that it
\* could run.
LEMMA CancelAskQuiet ==
  ASSUME NEW e, NEW ss, SessionShape(ss), NEW r, Serves(e, ss, r) \/ Quiet(ss),
         NEW x, x = CancelAsk(ss)
  PROVE  SessionShape(x) /\ Quiet(x) /\ x.current = ss.current /\ Known(x) \subseteq Known(ss)
<1>1. /\ SessionShape(x) /\ x.redrive = None
      /\ x.current = ss.current /\ x.accepted = ss.accepted /\ x.reporting = ss.reporting
      /\ DOMAIN x.turns = DOMAIN ss.turns
      /\ \A n \in DOMAIN ss.turns :
            /\ x.turns[n].inst = ss.turns[n].inst
            /\ x.turns[n].mode = IF ss.turns[n].inst = ss.current THEN "aborted" ELSE ss.turns[n].mode
  BY CancelAskIs
<1>2. \A n \in DOMAIN ss.turns : ss.turns[n].mode = "run" => ss.turns[n].inst = ss.current
  BY DEF Serves, TurnFits, Quiet, NoRun
<1>3. Quiet(x)
  BY <1>1, <1>2 DEF Quiet, NoRun
<1>4. Known(x) \subseteq Known(ss)
  BY <1>1 DEF Known
<1> QED
  BY <1>1, <1>3, <1>4

\* A transient failure leaves a backoff timer behind.
LEMMA RedriveServes ==
  ASSUME NEW e, EngineShape(e), NEW ss, SessionShape(ss), NEW r, Serves(e, ss, r), ss.turns # <<>>,
         ss.turns[1].mode = "run",
         NEW x, x = [TurnLands(ss) EXCEPT !.redrive = ss.turns[1].inst]
  PROVE  SessionShape(x) /\ Serves(e, x, r)
<1>1. PICK y : y = TurnLands(ss)
  OBVIOUS
<1>2. /\ SessionShape(y) /\ Known(y) \subseteq Known(ss) /\ Quiet(y) /\ Serves(e, y, r)
      /\ y.current = ss.current /\ y.reporting = ss.reporting
      /\ ss.turns[1].inst = ss.current /\ ss.current \in DOMAIN e.live
      /\ ss.current \notin ss.reporting
  BY <1>1, TurnLandsIs, TurnLandsServes
<1>3. PICK i \in Asks : i = ss.turns[1].inst
  BY <1>2 DEF EngineShape
<1>4. x = [y EXCEPT !.redrive = i]
  BY <1>1, <1>3
<1>5. /\ SessionShape(x) /\ x.reporting = y.reporting /\ x.current = y.current /\ x.redrive = i
      /\ x.turns = y.turns /\ x.accepted = y.accepted /\ x.cancelled = y.cancelled
  BY <1>2, <1>4 DEF SessionShape
<1>6. ASSUME NEW n \in DOMAIN x.turns PROVE TurnFits(e, x, n)
  BY <1>2, <1>5, <1>6 DEF Serves, TurnFits, Quiet, NoRun
<1> QED
  BY <1>2, <1>3, <1>5, <1>6 DEF Serves, Known

\* The timer fires: the turn of the current ask runs again.
LEMMA FiresServes ==
  ASSUME NEW e, EngineShape(e), NEW ss, SessionShape(ss), NEW r, Serves(e, ss, r), ss.redrive # None,
         NEW y, y = [ss EXCEPT !.redrive = None],
         NEW x, x = y \/ x = RunTurn(y, ss.redrive)
  PROVE  SessionShape(x) /\ Serves(e, x, r)
<1>1. /\ SessionShape(y) /\ y.reporting = ss.reporting /\ y.current = ss.current /\ y.redrive = None
      /\ y.turns = ss.turns /\ y.accepted = ss.accepted /\ y.cancelled = ss.cancelled
  BY DEF SessionShape
<1>2. ss.redrive = ss.current /\ ss.current \in DOMAIN e.live /\ ss.current \notin ss.reporting
  BY DEF Serves
<1>3. Quiet(y)
  BY <1>1 DEF Serves, TurnFits, Quiet, NoRun
<1>4. Serves(e, y, r)
  <2>1. ASSUME NEW n \in DOMAIN y.turns PROVE TurnFits(e, y, n)
    BY <1>1, <1>3, <2>1 DEF Serves, TurnFits, Quiet, NoRun
  <2> QED
    BY <1>1, <2>1 DEF Serves, Known
<1> QED
  BY <1>1, <1>2, <1>3, <1>4, RunTurnServes
=============================================================================
