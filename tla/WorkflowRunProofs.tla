-------------------------- MODULE WorkflowRunProofs --------------------------
(***************************************************************************)
(* Proofs about WorkflowRun: its types, the slots of the scheduler, the    *)
(* turns of the driver and the refinement of RunLedger, for any script;    *)
(* and, for scripts that pass every site once, that names and numbers do   *)
(* not depend on the order of arrival, so that the asks of an actor run in *)
(* the order of their numbers and a step of the script hears again what it *)
(* has heard.                                                              *)
(***************************************************************************)
EXTENDS WorkflowRunLemmas

-----------------------------------------------------------------------------
(* The inductive invariant.                                                *)

RunStatuses == {"running", "completed", "errored", "stopped"}
Mails == [strand : Strands, status : {"start"} \cup Statuses, answer : Nat]

\* What is true with any engine, of a running run or not.
Bounded ==
    /\ cap \in Nat /\ life \in 1..MaxLives
    /\ crashes \in 0..MaxCrashes /\ faults \in 0..MaxFaults
Answers == pc \in [Strands -> Nat] /\ mail \in Seq(Mails)
Memory == EngineShape(eng) /\ Roster(eng)

\* The journal: a row is open until it is answered, and a live ask is open.
RowShape(i) ==
    /\ rows[i] = [actor |-> rows[i].actor, seq |-> rows[i].seq, text |-> rows[i].text,
                  status |-> rows[i].status, answer |-> rows[i].answer]
    /\ rows[i].actor \in Refs /\ rows[i].seq \in Nat /\ rows[i].status \in Statuses
    /\ rows[i].answer \in 0..life
    /\ rows[i].status = "running" => rows[i].answer = 0
Journal ==
    /\ DOMAIN rows \subseteq Instances
    /\ \A i \in DOMAIN rows : RowShape(i)
    /\ DOMAIN eng.live \subseteq DOMAIN rows
    /\ \A i \in DOMAIN eng.live : rows[i].status = "running"
RunRecord ==
    /\ engine \in {"running", "settled", "none"}
    /\ runRow = [status |-> runRow.status, code |-> runRow.code]
    /\ runRow.status \in RunStatuses
    /\ Running => runRow.status = "running"
    /\ runRow.status = "running" => runRow.code = None

\* Names are counted by what the script has done in this lifetime.
Steps == UNION {{<<s, n>> : n \in 1..Len(Script[s])} : s \in Strands}
Made == {x \in Steps : x[2] <= pc[x[1]]}
Handles(e) == {g \in Agents : e.handle[g] # None}
CountedAsks == \A t \in AskSites : eng.ordinals[t] <= Cardinality(Made)
CountedActors(e) == \A t \in Range(ActorSite) : e.ordinals[t] <= Cardinality(Handles(e))

\* The driver's table, and the creations in flight.
Sessions ==
    /\ DOMAIN sessions \subseteq Keys
    /\ \A k \in DOMAIN sessions : SessionShape(sessions[k]) /\ k[1] <= life
    /\ \A r \in DOMAIN eng.actor :
          eng.actor[r].session = "ready" => <<life, r>> \in DOMAIN sessions
Creations ==
    /\ creating \subseteq Keys
    /\ \A k \in creating : k[1] <= life /\ (k[1] = life => k[2] \in DOMAIN eng.actor)
InOrder(k) ==
    IF Running /\ k[1] = life THEN Serves(eng, sessions[k], k[2]) ELSE Quiet(sessions[k])
Driver == \A k \in DOMAIN sessions : InOrder(k)

Scheduler == Running => EngineInv(eng, cap) /\ NoIdle(eng, cap)

IInv ==
    /\ Bounded /\ Answers /\ Memory /\ Journal /\ RunRecord
    /\ CountedAsks /\ CountedActors(eng)
    /\ Sessions /\ Creations /\ Driver /\ Scheduler

-----------------------------------------------------------------------------
(* The names fit their bounds.                                             *)

LEMMA StepsAreFinite ==
  /\ IsFiniteSet(Steps) /\ Cardinality(Steps) \in Nat
  /\ \A s \in Strands : Script[s] \in Seq(Range(Script[s])) /\ Len(Script[s]) \in Nat
                        /\ DOMAIN Script[s] = 1..Len(Script[s])
<1>1. \A s \in Strands : Script[s] \in Seq(Range(Script[s])) /\ Len(Script[s]) \in Nat
                         /\ DOMAIN Script[s] = 1..Len(Script[s])
  BY ScriptAssumption, LenProperties
<1>2. IsFiniteSet(Strands)
  <2>1. Order \in Seq(Strands)
    BY ScriptAssumption
  <2>2. PICK n \in Nat : n = Len(Order)
    BY <2>1, LenProperties
  <2>3. DOMAIN Order = 1..n
    BY <2>1, <2>2, LenProperties
  <2>4. Order \in Surjection(1..n, Strands)
    BY <2>1, <2>2, <2>3, LenProperties DEF Surjection, Strands, Range
  <2> QED
    BY <2>4, UpTo, FS_Surjection
<1> DEFINE Of(s) == {<<s, n>> : n \in 1..Len(Script[s])}
           S == {Of(s) : s \in Strands}
<1>3. \A s \in Strands : IsFiniteSet(Of(s))
  <2>1. ASSUME NEW s \in Strands PROVE IsFiniteSet(Of(s))
    <3>1. PICK l \in Nat : l = Len(Script[s])
      BY <1>1
    <3>2. [n \in 1..l |-> <<s, n>>] \in Surjection(1..l, Of(s))
      BY <3>1 DEF Surjection
    <3> QED
      BY <3>2, UpTo, FS_Surjection
  <2> QED
    BY <2>1
<1>4. IsFiniteSet(S)
  <2>1. [s \in Strands |-> Of(s)] \in Surjection(Strands, S)
    BY DEF Surjection
  <2> QED
    BY <1>2, <2>1, FS_Surjection
<1>5. IsFiniteSet(UNION S)
  BY <1>3, <1>4, FS_UNION
<1>6. Steps = UNION S
  BY DEF Steps
<1> QED
  BY <1>1, <1>5, <1>6, FS_CardinalityType

LEMMA MadeIsFinite ==
  /\ IsFiniteSet(Made) /\ Cardinality(Made) \in Nat /\ Cardinality(Made) <= Cardinality(Steps)
<1>1. Made \in SUBSET Steps
  BY DEF Made
<1> QED
  BY <1>1, StepsAreFinite, FS_Subset, FS_CardinalityType

LEMMA HandlesAreFinite ==
  ASSUME NEW e
  PROVE  /\ IsFiniteSet(Handles(e)) /\ Cardinality(Handles(e)) \in Nat
         /\ Cardinality(Handles(e)) <= Cardinality(Agents) /\ Cardinality(Agents) \in Nat
<1>1. Handles(e) \in SUBSET Agents /\ IsFiniteSet(Agents)
  BY ScriptAssumption DEF Handles
<1> QED
  BY <1>1, FS_Subset, FS_CardinalityType

LEMMA ActorsAreRefs ==
  ASSUME NEW e, EngineShape(e), Roster(e), CountedActors(e)
  PROVE  DOMAIN e.actor \subseteq Refs
<1>1. ASSUME NEW r \in DOMAIN e.actor PROVE r \in Refs
  <2>1. r \in ActorRefs /\ r[2] <= e.ordinals[r[1]] /\ e.ordinals \in [Sites -> Nat]
    BY <1>1 DEF EngineShape, Roster
  <2>2. PICK t \in Range(ActorSite), n \in Nat \ {0} : r = <<t, n>>
    BY <2>1 DEF ActorRefs
  <2>3. n <= e.ordinals[t] /\ e.ordinals[t] \in Nat
    BY <2>1, <2>2, SitesDiffer
  <2>4. n <= Cardinality(Agents)
    BY <2>3, HandlesAreFinite DEF CountedActors
  <2>5. Cardinality(Agents) \in Nat
    BY HandlesAreFinite
  <2> QED
    BY <2>2, <2>4, <2>5 DEF Refs
<1> QED
  BY <1>1

LEMMA CreateActorCounts ==
  ASSUME NEW e, EngineShape(e), Roster(e), CountedActors(e), IsFiniteSet(DOMAIN rows),
         NEW agent \in Agents, NEW x, x = CreateActor(e, agent)
  PROVE  CountedActors(x)
<1>1. CASE e.handle[agent] # None
  BY <1>1 DEF CreateActor
<1>2. CASE e.handle[agent] = None
  <2>1. PICK ref : ref = <<ActorSite[agent], e.ordinals[ActorSite[agent]] + 1>>
    OBVIOUS
  <2>2. /\ ref \in ActorRefs
        /\ \A t \in Sites : x.ordinals[t] = IF t = ActorSite[agent] THEN e.ordinals[t] + 1 ELSE e.ordinals[t]
        /\ \A g \in Agents : x.handle[g] = IF g = agent THEN ref ELSE e.handle[g]
    BY <1>2, <2>1, CreateActorIs
  <2>3. Handles(x) = Handles(e) \cup {agent} /\ agent \notin Handles(e)
    BY <1>2, <2>2, NoneIsNoName DEF Handles
  <2>4. Cardinality(Handles(x)) = Cardinality(Handles(e)) + 1
    BY <2>3, HandlesAreFinite, FS_AddElement
  <2>5. ASSUME NEW t \in Range(ActorSite) PROVE x.ordinals[t] <= Cardinality(Handles(x))
    <3>1. /\ e.ordinals[t] \in Nat /\ e.ordinals[t] <= Cardinality(Handles(e))
          /\ Cardinality(Handles(e)) \in Nat
      BY SitesDiffer, HandlesAreFinite DEF CountedActors, EngineShape
    <3>2. x.ordinals[t] = e.ordinals[t] \/ x.ordinals[t] = e.ordinals[t] + 1
      BY <2>2, SitesDiffer
    <3> QED
      BY <2>4, <3>1, <3>2
  <2> QED
    BY <2>5 DEF CountedActors
<1> QED
  BY <1>1, <1>2

LEMMA RowsAreFinite ==
  ASSUME Journal
  PROVE  IsFiniteSet(DOMAIN rows)
<1> DEFINE f == [x \in Steps |-> Script[x[1]][x[2]].site]
<1>1. f \in Surjection(Steps, AskSites)
  <2>1. ASSUME NEW x \in Steps PROVE f[x] \in AskSites
    <3>1. PICK s \in Strands : \E n \in 1..Len(Script[s]) : x = <<s, n>>
      BY DEF Steps
    <3> QED
      BY <3>1 DEF AskSites
  <2>2. ASSUME NEW t \in AskSites PROVE \E x \in Steps : f[x] = t
    <3>0. PICK s \in Strands : \E n \in 1..Len(Script[s]) : t = Script[s][n].site
      BY DEF AskSites
    <3>1. PICK n \in 1..Len(Script[s]) : t = Script[s][n].site
      BY <3>0
    <3>2. <<s, n>> \in Steps
      BY DEF Steps
    <3> QED
      BY <3>1, <3>2
  <2> QED
    BY <2>1, <2>2 DEF Surjection
<1>2. IsFiniteSet(AskSites)
  BY <1>1, StepsAreFinite, FS_Surjection
<1>3. IsFiniteSet(1..Cardinality(Steps))
  BY StepsAreFinite, UpTo
<1>4. IsFiniteSet(AskSites \X (1..Cardinality(Steps)))
  BY <1>2, <1>3, FS_Product
<1>5. DOMAIN rows \in SUBSET (AskSites \X (1..Cardinality(Steps)))
  BY DEF Journal, Instances, Steps
<1> QED
  BY <1>4, <1>5, FS_Subset

\* The ask a strand makes next has a name, a call and a place in the journal.
LEMMA NextCallIs ==
  ASSUME IInv, NEW m, Oldest(m), pc[m.strand] < Len(Script[m.strand])
  PROVE  /\ m \in Mails /\ m.strand \in Strands /\ Tail(mail) \in Seq(Mails)
         /\ AskOf(m).site \in AskSites /\ AskOf(m).agent \in Agents
         /\ Call(m) \in Calls /\ Call(m).inst = InstanceOf(m)
         /\ InstanceOf(m) \in Instances /\ InstanceOf(m) \in Asks
         /\ pc[m.strand] \in Nat
         /\ <<m.strand, pc[m.strand] + 1>> \in Steps \ Made
<1>1. m \in Mails /\ m.strand \in Strands /\ Tail(mail) \in Seq(Mails)
  <2>1. mail \in Seq(Mails) /\ mail # <<>> /\ m = Head(mail)
    BY DEF IInv, Answers, Oldest
  <2>2. m \in Mails /\ Tail(mail) \in Seq(Mails)
    BY <2>1, HeadTailProperties
  <2> QED
    BY <2>2 DEF Mails
<1>2. PICK s \in Strands, n \in Nat : s = m.strand /\ n = pc[s]
  BY <1>1 DEF IInv, Answers
<1>3. n + 1 \in 1..Len(Script[s]) /\ Len(Script[s]) \in Nat
  BY <1>2, StepsAreFinite
<1>4. AskOf(m) = Script[s][n + 1]
  BY <1>2 DEF AskOf
<1>5. AskOf(m).site \in AskSites /\ AskOf(m).agent \in Agents /\ AskOf(m).text \in Texts
  BY <1>3, <1>4, ScriptAssumption DEF AskSites, Texts
<1>6. <<s, n + 1>> \in Steps \ Made
  BY <1>2, <1>3 DEF Steps, Made
<1>7. PICK o \in Nat : o = eng.ordinals[AskOf(m).site]
  BY <1>5, SitesDiffer DEF IInv, Memory, EngineShape
<1>8. o + 1 <= Cardinality(Steps) /\ Cardinality(Steps) \in Nat
  <2>1. Made \cup {<<s, n + 1>>} \in SUBSET Steps
    BY <1>6 DEF Made
  <2>2. Cardinality(Made \cup {<<s, n + 1>>}) = Cardinality(Made) + 1
    BY <1>6, MadeIsFinite, FS_AddElement
  <2>3. Cardinality(Made \cup {<<s, n + 1>>}) <= Cardinality(Steps)
    BY <2>1, StepsAreFinite, FS_Subset
  <2>4. o <= Cardinality(Made)
    BY <1>5, <1>7 DEF IInv, CountedAsks
  <2> QED
    BY <2>2, <2>3, <2>4, MadeIsFinite, StepsAreFinite
<1>9. InstanceOf(m) = <<AskOf(m).site, o + 1>>
  BY <1>7 DEF InstanceOf
<1>10. InstanceOf(m) \in Instances /\ InstanceOf(m) \in Asks
  BY <1>5, <1>8, <1>9 DEF Instances, Asks, Steps
<1> QED
  BY <1>1, <1>2, <1>5, <1>6, <1>10 DEF Call, Calls

LEMMA MadeGrows ==
  ASSUME NEW s \in Strands, pc \in [Strands -> Nat], NEW n, pc' = [pc EXCEPT ![s] = n],
         n \in Nat, n >= pc[s] \/ n > Len(Script[s])
  PROVE  /\ Made \subseteq Made' /\ Cardinality(Made) <= Cardinality(Made')
         /\ n = pc[s] + 1 /\ <<s, n>> \in Steps => Cardinality(Made') = Cardinality(Made) + 1
<1>1. Made' = {x \in Steps : x[2] <= pc'[x[1]]}
  BY DEF Made, Steps, Strands
<1>2. \A x \in Steps : /\ x[1] \in Strands /\ x[2] \in Nat /\ x = <<x[1], x[2]>>
                       /\ Len(Script[x[1]]) \in Nat /\ x[2] <= Len(Script[x[1]])
  BY StepsAreFinite DEF Steps
<1>3. \A t \in Strands : pc'[t] = IF t = s THEN n ELSE pc[t]
  OBVIOUS
<1>4. Made \subseteq Made'
  BY <1>1, <1>2, <1>3 DEF Made
<1>5. IsFiniteSet(Made') /\ Cardinality(Made') \in Nat
  <2>1. Made' \in SUBSET Steps
    BY <1>1
  <2> QED
    BY <2>1, StepsAreFinite, FS_Subset, FS_CardinalityType
<1>6. Cardinality(Made) <= Cardinality(Made')
  BY <1>4, <1>5, FS_Subset
<1>7. ASSUME n = pc[s] + 1, <<s, n>> \in Steps PROVE Cardinality(Made') = Cardinality(Made) + 1
  <2>1. Made' = Made \cup {<<s, n>>}
    BY <1>1, <1>2, <1>3, <1>7 DEF Made
  <2>2. <<s, n>> \notin Made
    BY <1>7 DEF Made
  <2> QED
    BY <2>1, <2>2, MadeIsFinite, FS_AddElement
<1> QED
  BY <1>4, <1>6, <1>7

-----------------------------------------------------------------------------
(* What a step of the engine leaves of the driver's table.                 *)

LEMMA EvolvesSelf ==
  ASSUME NEW e
  PROVE  Evolves(e, e)
BY DEF Evolves

\* A live ask has been named and waits no more.
LEMMA LiveIsPast ==
  ASSUME NEW e, EngineShape(e), Names(e), NEW i \in DOMAIN e.live
  PROVE  i \in Past(e)
BY DEF EngineShape, Names, Past

\* Two engines with the same live asks and the same past serve alike.
LEMMA ServesSame ==
  ASSUME NEW e, NEW x, x.live = e.live, Past(x) = Past(e), NEW ss, NEW r, Serves(e, ss, r)
  PROVE  Serves(x, ss, r)
BY DEF Serves, TurnFits

\* While the run goes on, its sessions follow the engine: one session, k, may
\* change; the others keep their ask in flight.
LEMMA TableKeeps ==
  ASSUME IInv, Running, UNCHANGED <<engine, life>>,
         EngineShape(eng'), Evolves(eng, eng'),
         NEW k, DOMAIN sessions' = DOMAIN sessions,
         \A j \in DOMAIN sessions : j # k =>
            /\ sessions'[j] = sessions[j]
            /\ j[1] = life /\ sessions[j].current \in DOMAIN eng.live =>
                  sessions[j].current \in DOMAIN eng'.live,
         k \in DOMAIN sessions =>
            /\ SessionShape(sessions'[k])
            /\ k[1] = life => Serves(eng', sessions'[k], k[2])
            /\ k[1] # life => Quiet(sessions'[k])
  PROVE  Sessions' /\ Driver'
<1>1. Running' /\ life' = life
  BY DEF Running
<1>2. ASSUME NEW j \in DOMAIN sessions
      PROVE  SessionShape(sessions'[j]) /\ j[1] <= life' /\ InOrder(j)'
  <2>1. SessionShape(sessions[j]) /\ j[1] <= life
        /\ (j[1] = life => Serves(eng, sessions[j], j[2]))
        /\ (j[1] # life => Quiet(sessions[j]))
    BY DEF IInv, Sessions, Driver, InOrder
  <2>2. ASSUME j # k PROVE j[1] = life => Serves(eng', sessions'[j], j[2])
    BY <2>1, <2>2, ServesOn
  <2> QED
    BY <1>1, <2>1, <2>2 DEF InOrder
<1>3. ASSUME NEW r \in DOMAIN eng'.actor, eng'.actor[r].session = "ready"
      PROVE  <<life', r>> \in DOMAIN sessions'
  BY <1>1, <1>3 DEF Evolves, IInv, Sessions
<1>4. DOMAIN sessions' \subseteq Keys
  BY DEF IInv, Sessions
<1> QED
  BY <1>2, <1>3, <1>4 DEF Sessions, Driver

\* When no run goes on, a session that changes stays quiet.
LEMMA QuietTableKeeps ==
  ASSUME IInv, ~Running', UNCHANGED life,
         \A r \in DOMAIN eng'.actor : eng'.actor[r].session = "ready" => <<life, r>> \in DOMAIN sessions',
         DOMAIN sessions' \subseteq Keys,
         \A j \in DOMAIN sessions' :
            SessionShape(sessions'[j]) /\ j[1] <= life /\ Quiet(sessions'[j])
  PROVE  Sessions' /\ Driver'
BY DEF Sessions, Driver, InOrder

\* The ask a session of the running engine works on is its actor's.
LEMMA ServedAsk ==
  ASSUME IInv, Running, NEW k \in DOMAIN sessions, k[1] = life,
         sessions[k].current \in DOMAIN eng.live
  PROVE  /\ eng.live[sessions[k].current].dispatched
         /\ eng.live[sessions[k].current].actor = k[2]
         /\ k[2] \in DOMAIN eng.actor
         /\ eng.actor[k[2]].current = sessions[k].current
         /\ k = <<life, k[2]>>
<1>1. Serves(eng, sessions[k], k[2])
  BY DEF IInv, Driver, InOrder
<1>2. Flights(eng)
  BY DEF IInv, Scheduler, EngineInv
<1>3. k \in Keys
  BY DEF IInv, Sessions
<1> QED
  BY <1>1, <1>2, <1>3 DEF Serves, Flights, Keys

\* Creations asked for by the actors of an engine that has not lost any.
LEMMA AskedIs ==
  ASSUME IInv, UNCHANGED life, DOMAIN eng.actor \subseteq DOMAIN eng'.actor,
         EngineShape(eng'), Roster(eng'), CountedActors(eng'), creating' = Asked(eng')
  PROVE  Creations'
<1>1. DOMAIN eng'.actor \subseteq Refs
  BY ActorsAreRefs
<1>2. ASSUME NEW k \in creating'
      PROVE  k \in Keys /\ k[1] <= life /\ (k[1] = life => k[2] \in DOMAIN eng'.actor)
  <2>1. CASE k \in creating
    BY <2>1 DEF IInv, Creations
  <2>2. CASE \E r \in DOMAIN eng'.actor : k = <<life, r>>
    BY <1>1, <2>2 DEF Keys, IInv, Bounded
  <2> QED
    BY <1>2, <2>1, <2>2 DEF Asked
<1> QED
  BY <1>2 DEF Creations

-----------------------------------------------------------------------------
(* The end of an ask and the end of a run.                                 *)

\* All but the bounds and the driver's table.
RunSide ==
    /\ Answers /\ Memory /\ Journal /\ RunRecord
    /\ CountedAsks /\ CountedActors(eng) /\ Creations /\ Scheduler

LEMMA NodeSettles ==
  ASSUME IInv, Running, NEW i \in DOMAIN eng.live, eng.actor[eng.live[i].actor].current = i,
         NEW status \in {"completed", "failed"}, SettleNode(i, status),
         UNCHANGED <<runRow, engine, pc, cap, life>>
  PROVE  /\ RunSide' /\ Evolves(eng, eng')
         /\ DOMAIN eng'.live = DOMAIN eng.live \ {i}
<1>1. cap \in Nat /\ life \in Nat /\ EngineInv(eng, cap) /\ Running'
  BY DEF IInv, Bounded, Scheduler, Running
<1>2. PICK x : x = FinishNode(eng, i)
  OBVIOUS
<1>3. eng' = x
  BY <1>2 DEF SettleNode
<1>4. /\ EngineInv(x, cap) /\ NoIdle(x, cap) /\ Evolves(eng, x)
      /\ x.ordinals = eng.ordinals /\ x.handle = eng.handle
      /\ DOMAIN x.actor = DOMAIN eng.actor /\ DOMAIN x.live = DOMAIN eng.live \ {i}
  BY <1>1, <1>2, FinishNodeKeeps
<1>5. Memory' /\ Scheduler'
  BY <1>1, <1>3, <1>4 DEF EngineInv, Memory, Scheduler
<1>6. CountedAsks' /\ CountedActors(eng')
  BY <1>3, <1>4 DEF IInv, CountedAsks, CountedActors, Handles, Made
<1>7. Creations'
  BY <1>3, <1>4, <1>6, AskedIs DEF EngineInv, SettleNode
<1>8. Journal'
  <2>1. /\ DOMAIN rows \subseteq Instances /\ i \in DOMAIN rows
        /\ DOMAIN eng.live \subseteq DOMAIN rows
        /\ \A j \in DOMAIN eng.live : rows[j].status = "running"
        /\ \A j \in DOMAIN rows : RowShape(j)
    BY DEF IInv, Journal
  <2>2. rows' = [rows EXCEPT ![i].status = status, ![i].answer = life]
    BY DEF SettleNode
  <2>3. DOMAIN rows' = DOMAIN rows /\ \A j \in DOMAIN rows : j # i => rows'[j] = rows[j]
    BY <2>2
  <2>4. rows'[i] = [actor |-> rows[i].actor, seq |-> rows[i].seq, text |-> rows[i].text,
                    status |-> status, answer |-> life]
    <3>1. PICK b : b = rows[i]
      OBVIOUS
    <3>2. b = [actor |-> b.actor, seq |-> b.seq, text |-> b.text, status |-> b.status, answer |-> b.answer]
      BY <2>1, <3>1 DEF RowShape
    <3>3. rows'[i] = [b EXCEPT !.status = status, !.answer = life]
      BY <2>1, <2>2, <3>1
    <3> QED
      BY <3>1, <3>2, <3>3
  <2>5. ASSUME NEW j \in DOMAIN rows' PROVE RowShape(j)'
    <3>1. CASE j = i
      BY <1>1, <2>1, <2>4, <3>1 DEF RowShape, Statuses
    <3>2. CASE j # i
      BY <2>1, <2>3, <3>2 DEF RowShape
    <3> QED
      BY <3>1, <3>2
  <2>6. DOMAIN eng'.live = DOMAIN eng.live \ {i}
    BY <1>3, <1>4
  <2> QED
    BY <2>1, <2>3, <2>5, <2>6 DEF Journal
<1>9. RunRecord'
  BY DEF IInv, RunRecord, Running
<1>10. Answers'
  <2>1. PICK b : b = [strand |-> eng.live[i].strand, status |-> status, answer |-> life]
    OBVIOUS
  <2>2. eng.live[i].strand \in Strands
    BY <1>1 DEF EngineInv, EngineShape, Nodes
  <2>3. b \in Mails
    BY <1>1, <2>1, <2>2 DEF Mails, Statuses
  <2>4. mail' = Append(mail, b) /\ mail \in Seq(Mails)
    BY <2>1 DEF SettleNode, IInv, Answers
  <2>5. mail' \in Seq(Mails)
    BY <2>3, <2>4, AppendProperties
  <2> QED
    BY <2>5 DEF IInv, Answers
<1> QED
  BY <1>3, <1>4, <1>5, <1>6, <1>7, <1>8, <1>9, <1>10 DEF RunSide

\* Settling the run leaves no session of its engine anything to run.
LEMMA RunSettles ==
  ASSUME IInv, Running, NEW ss, DOMAIN ss = DOMAIN sessions,
         \A k \in DOMAIN ss :
            /\ SessionShape(ss[k])
            /\ k[1] # life => Quiet(ss[k])
            /\ k[1] = life => Serves(eng, ss[k], k[2]),
         NEW status \in RunStatuses \ {"running"}, NEW code, SettleRun(ss, status, code),
         pc' \in [Strands -> Nat], Cardinality(Made) <= Cardinality(Made'),
         Cardinality(Made') \in Nat, UNCHANGED <<cap, life>>
  PROVE  RunSide' /\ Sessions' /\ Driver' /\ ~Running'
<1>1. ~Running' /\ life' = life /\ rows' = rows /\ creating' = creating
  BY DEF SettleRun, Running
<1>2. PICK x : x = [eng EXCEPT !.live = EmptyMap, !.active = 0]
  OBVIOUS
<1>3. eng' = x
  BY <1>2 DEF SettleRun
<1>4. EngineShape(eng) /\ Roster(eng)
  BY DEF IInv, Memory
<1>5. /\ x.ordinals = eng.ordinals /\ x.handle = eng.handle /\ x.order = eng.order
      /\ x.actor = eng.actor /\ DOMAIN x.live = {} /\ x.active = 0
  BY <1>2, <1>4 DEF EngineShape, EmptyMap
<1>6. EngineShape(x)
  <2>1. PICK l : l = EmptyMap
    OBVIOUS
  <2>2. x = [eng EXCEPT !.live = l, !.active = 0]
    BY <1>2, <2>1
  <2>3. x \in [ordinals : [Sites -> Nat], handle : [Agents -> ActorRefs \cup {None}],
              order : Seq(ActorRefs), actor : {x.actor}, live : {x.live}, active : Nat]
    <3>1. /\ eng.ordinals \in [Sites -> Nat] /\ eng.handle \in [Agents -> ActorRefs \cup {None}]
          /\ eng.order \in Seq(ActorRefs)
          /\ eng = [ordinals |-> eng.ordinals, handle |-> eng.handle, order |-> eng.order,
                    actor |-> eng.actor, live |-> eng.live, active |-> eng.active]
      BY <1>4 DEF EngineShape
    <3>2. x = [ordinals |-> eng.ordinals, handle |-> eng.handle, order |-> eng.order,
               actor |-> eng.actor, live |-> l, active |-> 0]
      BY <2>2, <3>1
    <3> QED
      BY <3>1, <3>2
  <2> QED
    BY <1>4, <1>5, <2>3 DEF EngineShape
<1>7. Memory'
  BY <1>3, <1>4, <1>5, <1>6 DEF Memory, Roster
<1>8. Journal'
  BY <1>1, <1>3, <1>5 DEF IInv, Journal, RowShape
<1>9. RunRecord'
  BY <1>1 DEF SettleRun, RunRecord, RunStatuses
<1>10. CountedAsks' /\ CountedActors(eng')
  <2>1. ASSUME NEW t \in AskSites PROVE eng'.ordinals[t] <= Cardinality(Made')
    <3>1. eng'.ordinals[t] <= Cardinality(Made) /\ eng'.ordinals[t] \in Nat
      BY <1>3, <1>4, <1>5, SitesDiffer DEF IInv, CountedAsks, EngineShape
    <3> QED
      BY <3>1, MadeIsFinite
  <2> QED
    BY <2>1, <1>3, <1>5 DEF IInv, CountedAsks, CountedActors, Handles
<1>11. Creations' /\ Scheduler'
  BY <1>1, <1>3, <1>5 DEF IInv, Creations, Scheduler
<1>12. Answers'
  <2>1. mail' = <<>>
    BY DEF SettleRun
  <2> QED
    BY <2>1, EmptySeq DEF Answers
<1>13. ASSUME NEW k \in DOMAIN sessions'
       PROVE  SessionShape(sessions'[k]) /\ k[1] <= life /\ Quiet(sessions'[k])
  <2>1. /\ k \in DOMAIN ss /\ k[1] <= life /\ SessionShape(ss[k])
        /\ sessions'[k] = IF k[1] # life THEN ss[k]
                          ELSE IF ss[k].current \in DOMAIN eng.live
                          THEN Dispose(CancelAsk(ss[k])) ELSE Dispose(ss[k])
    BY <1>13 DEF SettleRun, IInv, Sessions
  <2>2. CASE k[1] # life
    BY <2>1, <2>2
  <2>3. CASE k[1] = life /\ ss[k].current \in DOMAIN eng.live
    <3>1. PICK y : y = CancelAsk(ss[k])
      OBVIOUS
    <3>2. SessionShape(y) /\ Quiet(y)
      BY <2>1, <2>3, <3>1, CancelAskQuiet
    <3>3. SessionShape(Dispose(y)) /\ Dispose(y).redrive = None /\ Dispose(y).turns = y.turns
      BY <3>2, DisposeIs
    <3> QED
      BY <2>1, <2>3, <3>1, <3>2, <3>3 DEF Quiet, NoRun
  <2>4. CASE k[1] = life /\ ss[k].current \notin DOMAIN eng.live
    <3>1. Serves(eng, ss[k], k[2])
      BY <2>1, <2>4
    <3>2. NoRun(ss[k])
      BY <2>4, <3>1 DEF Serves, TurnFits, NoRun
    <3>3. SessionShape(Dispose(ss[k])) /\ Dispose(ss[k]).redrive = None
          /\ Dispose(ss[k]).turns = ss[k].turns
      BY <2>1, DisposeIs
    <3> QED
      BY <2>1, <2>4, <3>2, <3>3 DEF Quiet, NoRun
  <2> QED
    BY <2>2, <2>3, <2>4
<1>14. DOMAIN sessions' = DOMAIN sessions /\ DOMAIN sessions \subseteq Keys
  BY DEF SettleRun, IInv, Sessions
<1>15. \A r \in DOMAIN eng'.actor : eng'.actor[r].session = "ready" => <<life, r>> \in DOMAIN sessions'
  BY <1>3, <1>5, <1>14 DEF IInv, Sessions
<1>16. Sessions' /\ Driver'
  BY <1>1, <1>13, <1>14, <1>15, QuietTableKeeps
<1> QED
  BY <1>1, <1>7, <1>8, <1>9, <1>10, <1>11, <1>12, <1>16 DEF RunSide

-----------------------------------------------------------------------------
(* The steps of the script.                                                *)

LEMMA TableIs ==
  ASSUME IInv, Running, NEW k \in DOMAIN sessions
  PROVE  /\ SessionShape(sessions[k]) /\ k[1] <= life
         /\ k[1] # life => Quiet(sessions[k])
         /\ k[1] = life => Serves(eng, sessions[k], k[2])
BY DEF IInv, Sessions, Driver, InOrder

LEMMA ScriptThrowsKeeps ==
  ASSUME IInv, NEW m, ScriptThrows(m)
  PROVE  IInv'
<1>1. Running /\ UNCHANGED <<pc, cap, life, crashes, faults>>
      /\ SettleRun(sessions, "errored", "DriverError")
  BY DEF ScriptThrows, Oldest, bounds
<1>2. Made' = Made
  BY <1>1 DEF Made
<1>3. "errored" \in RunStatuses \ {"running"}
  BY DEF RunStatuses
<1>4. RunSide' /\ Sessions' /\ Driver'
  BY <1>1, <1>2, <1>3, TableIs, RunSettles, MadeIsFinite DEF IInv, Answers
<1> QED
  BY <1>1, <1>4 DEF IInv, RunSide, Bounded

LEMMA StrandEndsKeeps ==
  ASSUME IInv, NEW m, StrandEnds(m)
  PROVE  IInv'
<1>1. Running /\ UNCHANGED <<cap, life, crashes, faults>> /\ mail # <<>> /\ m = Head(mail)
      /\ pc' = [pc EXCEPT ![m.strand] = Len(Script[m.strand]) + 1]
  BY DEF StrandEnds, Oldest, bounds
<1>2. m.strand \in Strands /\ Tail(mail) \in Seq(Mails)
  <2>1. mail \in Seq(Mails)
    BY DEF IInv, Answers
  <2>2. m \in Mails /\ Tail(mail) \in Seq(Mails)
    BY <1>1, <2>1, HeadTailProperties
  <2> QED
    BY <2>2 DEF Mails
<1>3. PICK n \in Nat : n = Len(Script[m.strand]) + 1
  BY <1>2, StepsAreFinite
<1>4. n > Len(Script[m.strand])
  BY <1>2, <1>3, StepsAreFinite
<1>5. pc \in [Strands -> Nat] /\ pc' = [pc EXCEPT ![m.strand] = n]
  BY <1>1, <1>3 DEF IInv, Answers
<1>6. pc' \in [Strands -> Nat]
  BY <1>5
<1>7. Cardinality(Made) <= Cardinality(Made')
  BY <1>2, <1>4, <1>5, MadeGrows
<1>8. Cardinality(Made') \in Nat
  <2>1. Made' \in SUBSET Steps
    BY DEF Made, Steps, Strands
  <2> QED
    BY <2>1, StepsAreFinite, FS_Subset, FS_CardinalityType
<1>9. CASE SettleRun(sessions, "completed", None)
  <2>1. "completed" \in RunStatuses \ {"running"}
    BY DEF RunStatuses
  <2>2. RunSide' /\ Sessions' /\ Driver'
    BY <1>1, <1>6, <1>7, <1>8, <1>9, <2>1, TableIs, RunSettles
  <2> QED
    BY <1>1, <2>2 DEF IInv, RunSide, Bounded
<1>10. CASE mail' = Tail(mail) /\ UNCHANGED <<rows, runRow, engine, eng, sessions, creating>>
  <2>1. Answers'
    BY <1>2, <1>6, <1>10 DEF Answers
  <2>2. CountedAsks'
    <3>1. ASSUME NEW t \in AskSites PROVE eng'.ordinals[t] <= Cardinality(Made')
      <4>1. eng.ordinals[t] <= Cardinality(Made) /\ eng.ordinals[t] \in Nat /\ eng' = eng
        BY <1>10, SitesDiffer DEF IInv, CountedAsks, Memory, EngineShape
      <4> QED
        BY <4>1, <1>7, <1>8, MadeIsFinite
    <3> QED
      BY <3>1 DEF CountedAsks
  <2>3. Memory' /\ Journal' /\ RunRecord' /\ CountedActors(eng')
    BY <1>1, <1>10 DEF IInv, Memory, Journal, RowShape, RunRecord, CountedActors, Handles, Running
  <2>4. Sessions' /\ Creations' /\ Driver' /\ Scheduler'
    BY <1>1, <1>10 DEF IInv, Sessions, Creations, Driver, InOrder, Scheduler, Running
  <2> QED
    BY <1>1, <2>1, <2>2, <2>3, <2>4 DEF IInv, Bounded
<1> QED
  BY <1>9, <1>10 DEF StrandEnds

LEMMA AskMismatchedKeeps ==
  ASSUME IInv, NEW m, AskMismatched(m)
  PROVE  IInv'
<1>1. /\ Running /\ Oldest(m) /\ pc[m.strand] < Len(Script[m.strand])
      /\ UNCHANGED <<cap, life, crashes, faults>>
      /\ SettleRun(sessions, "errored", "InputHashMismatch")
      /\ pc' = [pc EXCEPT ![m.strand] = @ + 1]
  BY DEF AskMismatched, StrandAsks, Oldest, bounds
<1>2. m.strand \in Strands /\ pc[m.strand] \in Nat
  BY <1>1, NextCallIs
<1>3. PICK n \in Nat : n = pc[m.strand] + 1
  BY <1>2
<1>4. pc \in [Strands -> Nat] /\ pc' = [pc EXCEPT ![m.strand] = n]
  BY <1>1, <1>3 DEF IInv, Answers
<1>5. pc' \in [Strands -> Nat] /\ n >= pc[m.strand]
  BY <1>2, <1>3, <1>4
<1>6. Cardinality(Made) <= Cardinality(Made')
  BY <1>2, <1>4, <1>5, MadeGrows
<1>7. Cardinality(Made') \in Nat
  <2>1. Made' \in SUBSET Steps
    BY DEF Made, Steps, Strands
  <2> QED
    BY <2>1, StepsAreFinite, FS_Subset, FS_CardinalityType
<1>8. "errored" \in RunStatuses \ {"running"}
  BY DEF RunStatuses
<1>9. RunSide' /\ Sessions' /\ Driver'
  BY <1>1, <1>5, <1>6, <1>7, <1>8, TableIs, RunSettles
<1> QED
  BY <1>1, <1>9 DEF IInv, RunSide, Bounded

\* An ask that waits is counted among those the script has made.
LEMMA WaitingFit ==
  ASSUME NEW e, EngineShape(e), Roster(e), Names(e), NEW n \in Nat, n <= Cardinality(Steps),
         \A t \in AskSites : e.ordinals[t] <= n, NEW r \in DOMAIN e.actor
  PROVE  Waiting(e.actor[r]) \subseteq Instances
<1>1. ASSUME NEW i \in Waiting(e.actor[r]) PROVE i \in Instances
  <2>1. ActorShape(e.actor[r])
    BY DEF EngineShape
  <2>2. i \in Asks /\ i[2] <= e.ordinals[i[1]]
    BY <2>1, WaitingAreAsks DEF Names
  <2>3. PICK t \in AskSites, o \in Nat \ {0} : i = <<t, o>>
    BY <2>2 DEF Asks
  <2>4. o <= n /\ e.ordinals[t] \in Nat
    BY <2>2, <2>3, SitesDiffer DEF EngineShape
  <2>5. o \in 1..Cardinality(Steps)
    BY <2>4, StepsAreFinite
  <2> QED
    BY <2>3, <2>5 DEF Instances, Steps
<1> QED
  BY <1>1

\* The answers of the recorded asks a drain releases.
LEMMA HitsAreMails ==
  ASSUME IInv, NEW a, ActorShape(a), Single(a), NEW rest \in Seq(Mails),
         NEW out, out = Released(a), NEW hits, hits = At(out, DOMAIN out \ Begun(out))
  PROVE  rest \o [n \in DOMAIN hits |->
                [strand |-> hits[n].call.strand, status |-> rows[hits[n].call.inst].status,
                 answer |-> rows[hits[n].call.inst].answer]] \in Seq(Mails)
<1>1. DOMAIN out \in SUBSET Nat /\ IsFiniteSet(DOMAIN out)
      /\ \A n \in DOMAIN out : out[n].call \in Calls
  BY ReleasedIs
<1>2. PICK S : S = DOMAIN out \ Begun(out)
  OBVIOUS
<1>3. S \in SUBSET DOMAIN out
  BY <1>2
<1>4. S \in SUBSET Int
  <2>1. ASSUME NEW n \in S PROVE n \in Int
    <3>1. n \in Nat
      BY <1>1, <1>3
    <3> QED
      BY <3>1
  <2> QED
    BY <2>1
<1>5. IsFiniteSet(S)
  BY <1>1, <1>3, FS_Subset
<1>6. PICK l \in Nat : l = Cardinality(S)
  BY <1>5, FS_CardinalityType
<1>7. DOMAIN hits = 1..l /\ \A n \in 1..l : Nth(S, n) \in S /\ hits[n] = out[Nth(S, n)]
  <2>1. hits = At(out, S)
    BY <1>2
  <2>2. /\ DOMAIN At(out, S) = 1..Cardinality(S)
        /\ \A n \in DOMAIN At(out, S) : Nth(S, n) \in S /\ At(out, S)[n] = out[Nth(S, n)]
    BY <1>4, <1>5, AtIs
  <2> QED
    BY <1>6, <2>1, <2>2
<1> DEFINE mailOf(n) == [strand |-> hits[n].call.strand, status |-> rows[hits[n].call.inst].status,
                         answer |-> rows[hits[n].call.inst].answer]
<1>8. ASSUME NEW n \in 1..l PROVE mailOf(n) \in Mails
  <2>1. Nth(S, n) \in DOMAIN out /\ Nth(S, n) \notin Begun(out) /\ hits[n] = out[Nth(S, n)]
    BY <1>2, <1>7
  <2>2. hits[n].call \in Calls /\ hits[n].call.inst \in DOMAIN rows
    BY <1>1, <2>1 DEF Begun, Cached, Final
  <2>3. hits[n].call.strand \in Strands /\ RowShape(hits[n].call.inst)
    BY <2>2 DEF Calls, IInv, Journal
  <2>4. /\ rows[hits[n].call.inst].status \in Statuses
        /\ rows[hits[n].call.inst].answer \in Nat
    <3>1. PICK i : i = hits[n].call.inst
      OBVIOUS
    <3>2. rows[i].status \in Statuses /\ rows[i].answer \in 0..life /\ life \in 1..MaxLives
      BY <2>3, <3>1 DEF RowShape, IInv, Bounded
    <3>3. rows[i].answer \in Nat
      <4>1. PICK v : v = rows[i].answer
        OBVIOUS
      <4>2. v \in 0..life /\ life \in Nat
        BY <3>2, <4>1, CapAssumption
      <4>3. v \in Nat
        BY <4>2
      <4> QED
        BY <4>1, <4>3
    <3> QED
      BY <3>1, <3>2, <3>3
  <2> QED
    BY <2>3, <2>4 DEF Mails
<1>9. PICK f : f = [n \in 1..l |-> mailOf(n)]
  OBVIOUS
<1>10. f \in [1..l -> Mails]
  BY <1>8, <1>9
<1>11. f \in Seq(Mails)
  <2>1. Seq(Mails) = UNION {[1..n -> Mails] : n \in Nat}
    BY SeqDef
  <2> QED
    BY <1>10, <2>1
<1>12. rest \o f \in Seq(Mails)
  BY <1>11, ConcatProperties
<1> QED
  BY <1>7, <1>9, <1>12

\* An engine e in which an ask has been named and waits goes on to the next.
LEMMA Admits ==
  ASSUME IInv, Running, UNCHANGED <<engine, runRow, sessions, cap, life, crashes, faults>>,
         pc' \in [Strands -> Nat], Cardinality(Made') \in Nat,
         NEW e, EngineInv(e, cap), NoIdle(e, cap), Evolves(eng, e), CountedActors(e),
         e.live = eng.live, \A t \in AskSites : e.ordinals[t] <= Cardinality(Made'),
         NEW ref \in DOMAIN e.actor, NEW rest \in Seq(Mails),
         NEW others, others = e.order \/ others = <<>>,
         Admit(e, ref, rest, others)
  PROVE  IInv'
<1> DEFINE out == Released(e.actor[ref])
           opened == Opened(out)
<1>1. /\ cap \in Nat /\ life \in Nat /\ life' = life /\ Running'
      /\ EngineShape(e) /\ Roster(e) /\ Names(e)
  BY DEF IInv, Bounded, Running, EngineInv
<1>2. PICK x : x = Pump(Pump(Entered(e, ref), <<ref>>), others)
  OBVIOUS
<1>3. eng' = x
  BY <1>2 DEF Admit
<1>4. /\ EngineInv(x, cap) /\ NoIdle(x, cap) /\ Evolves(e, x)
      /\ x.ordinals = e.ordinals /\ x.handle = e.handle
      /\ DOMAIN x.actor = DOMAIN e.actor /\ DOMAIN x.live = DOMAIN e.live \cup opened
  BY <1>1, <1>2, AdmitKeeps
<1>5. Evolves(eng, x)
  BY <1>4, EvolvesOn
<1>6. Memory' /\ Scheduler'
  BY <1>1, <1>3, <1>4 DEF EngineInv, Memory, Scheduler
<1>7. CountedAsks' /\ CountedActors(eng')
  BY <1>3, <1>4 DEF CountedAsks, CountedActors, Handles
<1>8. Creations'
  BY <1>3, <1>4, <1>5, <1>7, AskedIs DEF EngineInv, Admit, Evolves
<1>9. ActorShape(e.actor[ref]) /\ Single(e.actor[ref])
  BY <1>1 DEF EngineShape, Names
<1>10. opened \subseteq Waiting(e.actor[ref]) /\ \A i \in opened : Entry(out, i).seq \in Nat
  BY <1>9, OpenedIs
<1>11. Made' \in SUBSET Steps
  BY DEF Made, Steps, Strands
<1>12. Cardinality(Made') <= Cardinality(Steps)
  BY <1>11, StepsAreFinite, FS_Subset
<1>13. opened \subseteq Instances
  BY <1>1, <1>10, <1>12, WaitingFit
<1>14. Journal'
  <2>1. /\ DOMAIN rows \subseteq Instances /\ DOMAIN eng.live \subseteq DOMAIN rows
        /\ \A j \in DOMAIN eng.live : rows[j].status = "running"
        /\ \A j \in DOMAIN rows : RowShape(j)
    BY DEF IInv, Journal
  <2>2. /\ DOMAIN rows' = DOMAIN rows \cup opened
        /\ \A i \in DOMAIN rows \cup opened : rows'[i] =
              IF i \in opened
              THEN [actor |-> ref, seq |-> Entry(out, i).seq, text |-> Entry(out, i).call.text,
                    status |-> "running", answer |-> 0]
              ELSE rows[i]
    BY DEF Admit
  <2>3. ref \in Refs
    BY <1>1, ActorsAreRefs
  <2>4. ASSUME NEW i \in DOMAIN rows' PROVE RowShape(i)'
    <3>1. CASE i \in opened
      <4>1. PICK b : b = [actor |-> ref, seq |-> Entry(out, i).seq, text |-> Entry(out, i).call.text,
                          status |-> "running", answer |-> 0]
        OBVIOUS
      <4>2. rows'[i] = b
        BY <2>2, <3>1, <4>1
      <4>3. Entry(out, i).seq \in Nat
        BY <1>10, <3>1
      <4>4. /\ b = [actor |-> b.actor, seq |-> b.seq, text |-> b.text, status |-> b.status, answer |-> b.answer]
            /\ b.actor \in Refs /\ b.seq \in Nat /\ b.status = "running" /\ b.answer = 0
        BY <2>3, <4>1, <4>3
      <4>5. 0 \in 0..life'
        BY <1>1
      <4> QED
        BY <4>2, <4>4, <4>5 DEF RowShape, Statuses
    <3>2. CASE i \notin opened
      BY <1>1, <2>1, <2>2, <3>2 DEF RowShape
    <3> QED
      BY <3>1, <3>2
  <2>5. ASSUME NEW i \in DOMAIN eng'.live PROVE i \in DOMAIN rows' /\ rows'[i].status = "running"
    <3>1. i \in DOMAIN eng.live \cup opened
      BY <1>3, <1>4
    <3>2. CASE i \in opened
      <4>1. PICK b : b = [actor |-> ref, seq |-> Entry(out, i).seq, text |-> Entry(out, i).call.text,
                          status |-> "running", answer |-> 0]
        OBVIOUS
      <4>2. i \in DOMAIN rows' /\ rows'[i] = b
        BY <2>2, <3>2, <4>1
      <4> QED
        BY <4>1, <4>2
    <3>3. CASE i \notin opened
      BY <2>1, <2>2, <3>1, <3>3
    <3> QED
      BY <3>2, <3>3
  <2> QED
    BY <1>13, <2>1, <2>2, <2>4, <2>5 DEF Journal
<1>15. RunRecord'
  BY DEF IInv, RunRecord, Running
<1>16. mail' \in Seq(Mails)
  BY <1>9, HitsAreMails DEF Admit
<1>17. Sessions' /\ Driver'
  BY <1>3, <1>4, <1>5, TableIs, TableKeeps, ServesOn DEF EngineInv
<1> QED
  BY <1>6, <1>7, <1>8, <1>14, <1>15, <1>16, <1>17 DEF IInv, Answers, Bounded

\* The engine in which the actor of an ask exists; the ask is none it knows.
LEMMA CreatedIs ==
  ASSUME IInv, NEW m, Oldest(m), pc[m.strand] < Len(Script[m.strand]),
         NEW e, e = CreatedFor(m), NEW ref, ref = ActorOf(m)
  PROVE  /\ EngineInv(e, cap) /\ NoIdle(e, cap) /\ Evolves(eng, e)
         /\ CountedActors(e) /\ e.live = eng.live
         /\ ref \in DOMAIN e.actor
         /\ \A t \in AskSites : e.ordinals[t] = eng.ordinals[t]
         /\ ActorShape(e.actor[ref]) /\ Single(e.actor[ref])
         /\ InstanceOf(m) = <<AskOf(m).site, e.ordinals[AskOf(m).site] + 1>>
         /\ Call(m).inst \notin Waiting(e.actor[ref])
<1>1. /\ cap \in Nat /\ EngineInv(eng, cap) /\ NoIdle(eng, cap) /\ CountedActors(eng)
      /\ EngineShape(eng) /\ Roster(eng)
  BY DEF IInv, Bounded, Scheduler, Oldest, Memory
<1>2. IsFiniteSet(DOMAIN rows)
  BY RowsAreFinite DEF IInv
<1>3. PICK agent : agent = AskOf(m).agent
  OBVIOUS
<1>4. agent \in Agents /\ AskOf(m).site \in AskSites /\ Call(m).inst = InstanceOf(m)
  BY <1>3, NextCallIs
<1>5. e = CreateActor(eng, agent) /\ ref = e.handle[agent]
  BY <1>3 DEF CreatedFor, ActorOf
<1>6. /\ EngineInv(e, cap) /\ NoIdle(e, cap) /\ Evolves(eng, e)
      /\ ref \in DOMAIN e.actor /\ e.live = eng.live
      /\ \A t \in AskSites : e.ordinals[t] = eng.ordinals[t]
  BY <1>1, <1>2, <1>4, <1>5, CreateActorKeeps
<1>7. CountedActors(e)
  BY <1>1, <1>2, <1>4, <1>5, CreateActorCounts
<1>8. ActorShape(e.actor[ref]) /\ Single(e.actor[ref]) /\ Names(e) /\ EngineShape(e)
  BY <1>6 DEF EngineInv, EngineShape, Names
<1>9. InstanceOf(m) = <<AskOf(m).site, e.ordinals[AskOf(m).site] + 1>>
  BY <1>4, <1>6 DEF InstanceOf
<1>10. InstanceOf(m) \notin Waiting(e.actor[ref])
  <2>1. PICK o \in Nat : o = e.ordinals[AskOf(m).site]
    BY <1>4, <1>8, SitesDiffer DEF EngineShape
  <2>2. ASSUME InstanceOf(m) \in Waiting(e.actor[ref]) PROVE FALSE
    <3>1. InstanceOf(m)[2] <= e.ordinals[InstanceOf(m)[1]]
      BY <1>6, <1>8, <2>2 DEF Names
    <3>2. o + 1 <= o
      BY <1>9, <2>1, <3>1
    <3> QED
      BY <3>2
  <2> QED
    BY <2>2
<1> QED
  BY <1>4, <1>6, <1>7, <1>8, <1>9, <1>10

\* The ask takes its name, and waits with its actor.
LEMMA AskWaits ==
  ASSUME IInv, NEW m, Oldest(m), pc[m.strand] < Len(Script[m.strand]),
         pc' = [pc EXCEPT ![m.strand] = @ + 1],
         UNCHANGED <<engine, runRow, sessions, cap, life, crashes, faults>>,
         NEW e, e = CreatedFor(m), NEW ref, ref = ActorOf(m),
         NEW a, ActorShape(a), Single(a),
         Waiting(a) \subseteq Waiting(e.actor[ref]) \cup {Call(m).inst},
         a.queue = e.actor[ref].queue, a.current = e.actor[ref].current,
         a.session = e.actor[ref].session,
         NEW x, x = Joined(e, AskOf(m).site, ref, a),
         NEW others, others = x.order \/ others = <<>>,
         Admit(x, ref, Tail(mail), others)
  PROVE  IInv'
<1>1. PICK t \in AskSites : t = AskOf(m).site
  BY NextCallIs
<1>2. PICK i : i = <<t, e.ordinals[t] + 1>>
  OBVIOUS
<1>3. /\ EngineInv(e, cap) /\ NoIdle(e, cap) /\ Evolves(eng, e)
      /\ CountedActors(e) /\ e.live = eng.live /\ ref \in DOMAIN e.actor
      /\ \A u \in AskSites : e.ordinals[u] = eng.ordinals[u]
      /\ Call(m).inst = i
  BY ZenonT(40), <1>1, <1>2, CreatedIs, NextCallIs
<1>4. cap \in Nat
  BY DEF IInv, Bounded
<1>5. x = Joined(e, t, ref, a)
  BY <1>1
<1>6. /\ EngineInv(x, cap) /\ NoIdle(x, cap) /\ Evolves(e, x)
      /\ x.live = e.live /\ x.handle = e.handle /\ DOMAIN x.actor = DOMAIN e.actor
      /\ \A u \in Sites : x.ordinals[u] = IF u = t THEN e.ordinals[u] + 1 ELSE e.ordinals[u]
  BY <1>2, <1>3, <1>4, <1>5, JoinKeeps
<1>7. Evolves(eng, x)
  BY <1>3, <1>6, EvolvesOn
<1>8. \A u \in Range(ActorSite) : x.ordinals[u] = e.ordinals[u]
  BY <1>6, SitesDiffer
<1>9. CountedActors(x)
  BY <1>3, <1>6, <1>8 DEF CountedActors, Handles
<1>10. m.strand \in Strands /\ pc[m.strand] \in Nat /\ <<m.strand, pc[m.strand] + 1>> \in Steps
       /\ Tail(mail) \in Seq(Mails)
  BY NextCallIs
<1>11. PICK n \in Nat : n = pc[m.strand] + 1
  BY <1>10
<1>12. pc' = [pc EXCEPT ![m.strand] = n] /\ n >= pc[m.strand]
  BY <1>10, <1>11
<1>13. pc \in [Strands -> Nat] /\ pc' \in [Strands -> Nat]
  BY <1>10, <1>11, <1>12 DEF IInv, Answers
<1>14. Cardinality(Made') = Cardinality(Made) + 1
  BY <1>13, <1>10, <1>11, <1>12, MadeGrows
<1>15. Cardinality(Made') \in Nat
  BY <1>14, MadeIsFinite
<1>16. ASSUME NEW u \in AskSites PROVE x.ordinals[u] <= Cardinality(Made')
  <2>1. /\ eng.ordinals[u] \in Nat /\ eng.ordinals[u] <= Cardinality(Made)
        /\ Cardinality(Made) \in Nat
    BY SitesDiffer, MadeIsFinite DEF IInv, Memory, EngineShape, CountedAsks
  <2>2. x.ordinals[u] = eng.ordinals[u] \/ x.ordinals[u] = eng.ordinals[u] + 1
    BY <1>3, <1>6, SitesDiffer
  <2> QED
    BY <1>14, <2>1, <2>2
<1>17. Running /\ x.live = eng.live /\ ref \in DOMAIN x.actor
  BY <1>3, <1>6 DEF Oldest
<1> QED
  BY <1>6, <1>7, <1>9, <1>13, <1>10, <1>15, <1>16, <1>17, Admits

LEMMA AskFreshKeeps ==
  ASSUME IInv, NEW m, AskFresh(m)
  PROVE  IInv'
<1>1. /\ Oldest(m) /\ pc[m.strand] < Len(Script[m.strand])
      /\ pc' = [pc EXCEPT ![m.strand] = @ + 1]
      /\ UNCHANGED <<engine, runRow, sessions, cap, life, crashes, faults>>
  BY DEF AskFresh, StrandAsks, bounds
<1>2. PICK e : e = CreatedFor(m)
  OBVIOUS
<1>3. PICK ref : ref = ActorOf(m)
  OBVIOUS
<1>4. /\ ref \in DOMAIN e.actor /\ ActorShape(e.actor[ref]) /\ Single(e.actor[ref])
      /\ Call(m).inst \notin Waiting(e.actor[ref])
      /\ Call(m) \in Calls /\ AskOf(m).site \in Sites /\ EngineShape(e)
  BY <1>1, <1>2, <1>3, CreatedIs, NextCallIs, SitesDiffer DEF EngineInv
<1>5. PICK a : a = [e.actor[ref] EXCEPT !.fresh = Append(@, Call(m))]
  OBVIOUS
<1>6. /\ ActorShape(a) /\ Single(a) /\ Waiting(a) = Waiting(e.actor[ref]) \cup {Call(m).inst}
      /\ a.queue = e.actor[ref].queue /\ a.current = e.actor[ref].current
      /\ a.session = e.actor[ref].session
  BY <1>4, <1>5, FreshCallIs
<1>7. PICK x : x = [Minted(m) EXCEPT !.actor[ActorOf(m)].fresh = Append(@, Call(m))]
  OBVIOUS
<1>8. x = Joined(e, AskOf(m).site, ref, a)
  BY <1>2, <1>3, <1>4, <1>5, <1>7 DEF Joined, Minted, EngineShape
<1>9. Admit(x, ref, Tail(mail), x.order)
  BY <1>3, <1>7 DEF AskFresh
<1> QED
  BY <1>1, <1>2, <1>3, <1>6, <1>8, <1>9, AskWaits

LEMMA AskRecordedKeeps ==
  ASSUME IInv, NEW m, AskRecorded(m)
  PROVE  IInv'
<1>1. /\ Oldest(m) /\ pc[m.strand] < Len(Script[m.strand])
      /\ pc' = [pc EXCEPT ![m.strand] = @ + 1]
      /\ UNCHANGED <<engine, runRow, sessions, cap, life, crashes, faults>>
      /\ InstanceOf(m) \in DOMAIN rows
  BY DEF AskRecorded, StrandAsks, bounds
<1>2. PICK e : e = CreatedFor(m)
  OBVIOUS
<1>3. PICK ref : ref = ActorOf(m)
  OBVIOUS
<1>4. /\ ref \in DOMAIN e.actor /\ ActorShape(e.actor[ref]) /\ Single(e.actor[ref])
      /\ Call(m).inst \notin Waiting(e.actor[ref])
      /\ Call(m) \in Calls /\ AskOf(m).site \in Sites /\ EngineShape(e)
  BY <1>1, <1>2, <1>3, CreatedIs, NextCallIs, SitesDiffer DEF EngineInv
<1>5. PICK p \in Nat : p = rows[InstanceOf(m)].seq
  BY <1>1 DEF IInv, Journal, RowShape
<1>6. PICK a : a = [e.actor[ref] EXCEPT !.held = Put(@, p, Call(m))]
  OBVIOUS
<1>7. /\ ActorShape(a) /\ Single(a) /\ Waiting(a) \subseteq Waiting(e.actor[ref]) \cup {Call(m).inst}
      /\ a.queue = e.actor[ref].queue /\ a.current = e.actor[ref].current
      /\ a.session = e.actor[ref].session
  BY <1>4, <1>6, HeldCallIs
<1>8. PICK x : x = [Minted(m) EXCEPT !.actor[ActorOf(m)].held =
                       Put(@, rows[InstanceOf(m)].seq, Call(m))]
  OBVIOUS
<1>9. x = Joined(e, AskOf(m).site, ref, a)
  BY <1>2, <1>3, <1>4, <1>5, <1>6, <1>8 DEF Joined, Minted, EngineShape
<1>10. Admit(x, ref, Tail(mail), <<>>)
  BY <1>3, <1>8 DEF AskRecorded
<1> QED
  BY <1>1, <1>2, <1>3, <1>7, <1>9, <1>10, AskWaits

-----------------------------------------------------------------------------
(* The creation of a session, and the dispatch of an ask to it.            *)

LEMMA CreationLands ==
  ASSUME IInv, NEW k \in creating, NEW s \in {"ready", "failed"}, creating' = creating \ {k},
         eng' = IF k[1] = life THEN [eng EXCEPT !.actor[k[2]].session = s] ELSE eng,
         UNCHANGED <<rows, runRow, engine, mail, pc, cap, life>>
  PROVE  /\ RunSide' /\ EngineShape(eng')
         /\ eng'.live = eng.live /\ Past(eng') = Past(eng)
         /\ DOMAIN eng'.actor = DOMAIN eng.actor
         /\ \A q \in DOMAIN eng.actor : eng'.actor[q].session = "ready" =>
               eng.actor[q].session = "ready" \/ (s = "ready" /\ k = <<life, q>>)
<1>1. /\ k \in Keys /\ k[1] <= life /\ (k[1] = life => k[2] \in DOMAIN eng.actor)
      /\ cap \in Nat /\ EngineShape(eng) /\ Roster(eng) /\ (Running' <=> Running)
  BY DEF IInv, Creations, Bounded, Memory, Running
<1>2. k = <<k[1], k[2]>>
  BY <1>1 DEF Keys
<1>3. /\ EngineShape(eng') /\ Roster(eng')
      /\ eng'.ordinals = eng.ordinals /\ eng'.handle = eng.handle /\ eng'.live = eng.live
      /\ Past(eng') = Past(eng) /\ DOMAIN eng'.actor = DOMAIN eng.actor
      /\ \A q \in DOMAIN eng.actor : eng'.actor[q].session = "ready" =>
            eng.actor[q].session = "ready" \/ (s = "ready" /\ k = <<life, q>>)
  <2>1. CASE k[1] = life
    <3>1. PICK x : x = [eng EXCEPT !.actor[k[2]].session = s]
      OBVIOUS
    <3>2. eng' = x
      BY <2>1, <3>1
    <3>3. /\ EngineShape(x) /\ Roster(x)
          /\ x.ordinals = eng.ordinals /\ x.handle = eng.handle /\ x.live = eng.live
          /\ Past(x) = Past(eng) /\ DOMAIN x.actor = DOMAIN eng.actor
          /\ \A q \in DOMAIN eng.actor :
                x.actor[q].session = IF q = k[2] THEN s ELSE eng.actor[q].session
      BY <1>1, <2>1, <3>1, SessionSetIs
    <3> QED
      BY <1>2, <2>1, <3>2, <3>3
  <2>2. CASE k[1] # life
    BY <1>1, <2>2
  <2> QED
    BY <2>1, <2>2
<1>4. Scheduler'
  <2>1. ASSUME Running PROVE EngineInv(eng', cap) /\ NoIdle(eng', cap)
    <3>1. EngineInv(eng, cap) /\ NoIdle(eng, cap)
      BY <2>1 DEF IInv, Scheduler
    <3>2. CASE k[1] = life
      <4>1. PICK x : x = [eng EXCEPT !.actor[k[2]].session = s]
        OBVIOUS
      <4>2. EngineInv(x, cap) /\ NoIdle(x, cap)
        BY <1>1, <3>1, <3>2, <4>1, SessionSetKeeps
      <4> QED
        BY <3>2, <4>1, <4>2
    <3>3. CASE k[1] # life
      BY <3>1, <3>3
    <3> QED
      BY <3>2, <3>3
  <2> QED
    BY <1>1, <2>1 DEF Scheduler
<1>5. Memory' /\ RunRecord' /\ Answers'
  BY <1>1, <1>3 DEF IInv, Memory, RunRecord, Answers
<1>6. Journal'
  BY <1>3 DEF IInv, Journal, RowShape
<1>7. CountedAsks' /\ CountedActors(eng')
  BY <1>3 DEF IInv, CountedAsks, CountedActors, Handles, Made
<1>8. Creations'
  BY <1>3 DEF IInv, Creations
<1> QED
  BY <1>3, <1>4, <1>5, <1>6, <1>7, <1>8 DEF RunSide

LEMMA SessionReadyKeeps ==
  ASSUME IInv, NEW k, SessionReady(k)
  PROVE  IInv'
<1>1. /\ k \in creating /\ creating' = creating \ {k}
      /\ sessions' = Put(sessions, k, FreshSession)
      /\ eng' = IF k[1] = life THEN [eng EXCEPT !.actor[k[2]].session = "ready"] ELSE eng
      /\ UNCHANGED <<rows, runRow, engine, mail, pc, cap, life, crashes, faults>>
  BY DEF SessionReady, bounds
<1>2. /\ RunSide' /\ EngineShape(eng')
      /\ eng'.live = eng.live /\ Past(eng') = Past(eng)
      /\ DOMAIN eng'.actor = DOMAIN eng.actor
      /\ \A q \in DOMAIN eng.actor : eng'.actor[q].session = "ready" =>
            eng.actor[q].session = "ready" \/ k = <<life, q>>
  BY <1>1, CreationLands
<1>3. /\ DOMAIN sessions' = DOMAIN sessions \cup {k} /\ sessions'[k] = FreshSession
      /\ \A j \in DOMAIN sessions : j # k => sessions'[j] = sessions[j]
  BY <1>1 DEF Put
<1>4. k \in Keys /\ k[1] <= life /\ (Running' <=> Running) /\ life' = life
  BY <1>1 DEF IInv, Creations, Running
<1>5. ASSUME NEW j \in DOMAIN sessions'
      PROVE  SessionShape(sessions'[j]) /\ j[1] <= life' /\ InOrder(j)'
  <2>1. CASE j = k
    BY <1>2, <1>3, <1>4, <2>1, FreshSessionIs DEF InOrder
  <2>2. CASE j # k
    <3>1. j \in DOMAIN sessions /\ sessions'[j] = sessions[j]
      BY <1>3, <2>2
    <3>2. SessionShape(sessions[j]) /\ j[1] <= life /\ InOrder(j)
      BY <3>1 DEF IInv, Sessions, Driver
    <3>3. Serves(eng, sessions[j], j[2]) => Serves(eng', sessions[j], j[2])
      BY <1>2, ServesSame
    <3> QED
      BY <1>4, <3>1, <3>2, <3>3 DEF InOrder
  <2> QED
    BY <2>1, <2>2
<1>6. DOMAIN sessions' \subseteq Keys
  BY <1>3, <1>4 DEF IInv, Sessions
<1>7. \A q \in DOMAIN eng'.actor : eng'.actor[q].session = "ready" => <<life', q>> \in DOMAIN sessions'
  BY <1>2, <1>3, <1>4 DEF IInv, Sessions
<1> QED
  BY <1>1, <1>2, <1>5, <1>6, <1>7 DEF IInv, RunSide, Bounded, Sessions, Driver

LEMMA SessionFailsKeeps ==
  ASSUME IInv, NEW k, SessionFails(k)
  PROVE  IInv'
<1>1. /\ k \in creating /\ creating' = creating \ {k} /\ faults' = faults + 1 /\ faults < MaxFaults
      /\ eng' = IF k[1] = life THEN [eng EXCEPT !.actor[k[2]].session = "failed"] ELSE eng
      /\ UNCHANGED <<rows, runRow, engine, mail, pc, cap, life, crashes, sessions>>
  BY DEF SessionFails
<1>2. /\ RunSide' /\ EngineShape(eng')
      /\ eng'.live = eng.live /\ Past(eng') = Past(eng)
      /\ DOMAIN eng'.actor = DOMAIN eng.actor
      /\ \A q \in DOMAIN eng.actor : eng'.actor[q].session = "ready" =>
            eng.actor[q].session = "ready"
  BY <1>1, CreationLands
<1>3. (Running' <=> Running) /\ life' = life
  BY <1>1 DEF Running
<1>4. ASSUME NEW j \in DOMAIN sessions'
      PROVE  SessionShape(sessions'[j]) /\ j[1] <= life' /\ InOrder(j)'
  <2>1. j \in DOMAIN sessions /\ sessions'[j] = sessions[j]
    BY <1>1
  <2>2. SessionShape(sessions[j]) /\ j[1] <= life /\ InOrder(j)
    BY <2>1 DEF IInv, Sessions, Driver
  <2>3. Serves(eng, sessions[j], j[2]) => Serves(eng', sessions[j], j[2])
    BY <1>2, ServesSame
  <2> QED
    BY <1>3, <2>1, <2>2, <2>3 DEF InOrder
<1>5. Sessions'
  BY <1>1, <1>2, <1>3, <1>4 DEF IInv, Sessions
<1>6. Bounded'
  BY <1>1, CapAssumption DEF IInv, Bounded
<1> QED
  BY <1>2, <1>4, <1>5, <1>6 DEF IInv, RunSide, Driver

\* The record of a live ask changes: a dispatch, a repair, a nudge.
LEMMA NodeChanges ==
  ASSUME IInv, Running, NEW i \in DOMAIN eng.live,
         NEW v \in Nodes, v.actor = eng.live[i].actor, eng.live[i].dispatched => v.dispatched,
         v.dispatched => eng.actor[v.actor].current = i,
         NEW x, x = [eng EXCEPT !.live[i] = v], eng' = x,
         UNCHANGED <<rows, runRow, engine, mail, pc, creating, cap, life>>
  PROVE  /\ RunSide' /\ Evolves(eng, eng') /\ EngineShape(eng') /\ i \in Past(eng')
         /\ DOMAIN eng'.live = DOMAIN eng.live /\ eng'.live[i] = v
<1>1. cap \in Nat /\ EngineInv(eng, cap) /\ NoIdle(eng, cap) /\ (Running' <=> Running)
  BY DEF IInv, Bounded, Scheduler, Running
<1>2. /\ EngineInv(x, cap) /\ NoIdle(x, cap) /\ Evolves(eng, x)
      /\ x.ordinals = eng.ordinals /\ x.handle = eng.handle /\ x.actor = eng.actor
      /\ DOMAIN x.live = DOMAIN eng.live /\ x.live[i] = v
  BY <1>1, NodeKeeps
<1>3. EngineShape(x) /\ Names(x) /\ i \in Past(x)
  BY <1>2, LiveIsPast DEF EngineInv
<1>4. Memory' /\ RunRecord' /\ Answers' /\ Scheduler'
  BY <1>1, <1>2 DEF IInv, Memory, RunRecord, Answers, Scheduler, EngineInv
<1>5. Journal'
  BY <1>2 DEF IInv, Journal, RowShape
<1>6. CountedAsks' /\ CountedActors(eng')
  BY <1>2 DEF IInv, CountedAsks, CountedActors, Handles, Made
<1>7. Creations'
  BY <1>2 DEF IInv, Creations
<1> QED
  BY <1>2, <1>3, <1>4, <1>5, <1>6, <1>7 DEF RunSide

LEMMA DispatchKeeps ==
  ASSUME IInv, NEW r, Dispatch(r)
  PROVE  IInv'
<1>1. PICK i : i = eng.actor[r].current
  OBVIOUS
<1>2. /\ Running /\ r \in DOMAIN eng.actor /\ i \in DOMAIN eng.live /\ ~eng.live[i].dispatched
      /\ UNCHANGED <<runRow, engine, pc, cap, life, crashes, faults>>
  BY <1>1 DEF Dispatch, bounds
<1>3. EngineShape(eng) /\ Flights(eng)
  BY <1>2 DEF IInv, Scheduler, EngineInv
<1>4. eng.live[i] \in Nodes /\ eng.live[i].actor = r /\ i \in Asks /\ i # None
  BY <1>1, <1>2, <1>3, NoneIsNoName DEF EngineShape, Flights, Holds
<1>5. ASSUME NEW k \in DOMAIN sessions, k[1] = life
      PROVE  sessions[k].current # i /\ (k[2] = r => sessions[k].current \notin DOMAIN eng.live)
  BY <1>1, <1>2, <1>5, ServedAsk
<1>6. ASSUME eng.actor[r].session = "ready",
             eng' = [eng EXCEPT !.live[i].dispatched = TRUE],
             sessions' = [sessions EXCEPT ![<<life, r>>] = StartAsk(@, i)],
             UNCHANGED <<rows, mail, creating>>
      PROVE  IInv'
  <2>1. PICK k : k = <<life, r>>
    OBVIOUS
  <2>2. k \in DOMAIN sessions
    BY <1>2, <1>6, <2>1 DEF IInv, Sessions
  <2>3. PICK n : n = eng.live[i]
    OBVIOUS
  <2>4. PICK v : v = [n EXCEPT !.dispatched = TRUE]
    OBVIOUS
  <2>5. v \in Nodes /\ v.actor = eng.live[i].actor /\ v.dispatched
    BY <1>4, <2>3, <2>4 DEF Nodes
  <2>6. PICK x : x = [eng EXCEPT !.live[i] = v]
    OBVIOUS
  <2>7. eng' = x
    BY <1>2, <1>3, <1>6, <2>3, <2>4, <2>6 DEF EngineShape
  <2>8. /\ RunSide' /\ Evolves(eng, eng') /\ EngineShape(eng') /\ i \in Past(eng')
        /\ DOMAIN eng'.live = DOMAIN eng.live /\ eng'.live[i] = v
    <3>1. eng.actor[v.actor].current = i
      BY <1>1, <1>4, <2>5
    <3>2. UNCHANGED <<rows, runRow, engine, mail, pc, creating, cap, life>>
      BY <1>2, <1>6
    <3> QED
      BY <1>2, <2>5, <2>6, <2>7, <3>1, <3>2, NodeChanges
  <2>9. SessionShape(sessions[k]) /\ Serves(eng, sessions[k], r)
    BY <1>2, <2>1, <2>2, TableIs
  <2>10. Serves(eng', sessions[k], r)
    BY <2>8, <2>9, ServesOn
  <2>11. PICK y : y = StartAsk(sessions[k], i)
    OBVIOUS
  <2>12. sessions[k].current \notin DOMAIN eng'.live
    BY <1>5, <2>1, <2>2, <2>8
  <2>13. SessionShape(y) /\ Serves(eng', y, r)
    BY <1>2, <1>4, <2>5, <2>8, <2>9, <2>10, <2>11, <2>12, StartAskServes
  <2>14. /\ DOMAIN sessions' = DOMAIN sessions /\ sessions'[k] = y
         /\ \A j \in DOMAIN sessions : j # k => sessions'[j] = sessions[j]
    BY <1>6, <2>1, <2>2, <2>11
  <2>15. Sessions' /\ Driver'
    BY <1>2, <2>1, <2>8, <2>13, <2>14, TableKeeps
  <2> QED
    BY <1>2, <2>8, <2>15 DEF IInv, RunSide, Bounded
<1>7. ASSUME SettleNode(i, "failed"), UNCHANGED sessions PROVE IInv'
  <2>1. RunSide' /\ Evolves(eng, eng') /\ DOMAIN eng'.live = DOMAIN eng.live \ {i}
    BY <1>1, <1>2, <1>4, <1>7, NodeSettles
  <2>2. EngineShape(eng')
    BY <2>1 DEF RunSide, Memory
  <2>3. \A j \in DOMAIN sessions :
           /\ sessions'[j] = sessions[j]
           /\ j[1] = life /\ sessions[j].current \in DOMAIN eng.live =>
                 sessions[j].current \in DOMAIN eng'.live
    BY <1>5, <1>7, <2>1
  <2>4. \A j \in DOMAIN sessions :
           /\ SessionShape(sessions'[j])
           /\ j[1] = life => Serves(eng', sessions'[j], j[2])
           /\ j[1] # life => Quiet(sessions'[j])
    BY <1>2, <2>1, <2>2, <2>3, TableIs, ServesOn
  <2>5. Sessions' /\ Driver'
    BY <1>2, <1>7, <2>1, <2>2, <2>3, <2>4, TableKeeps
  <2> QED
    BY <1>2, <2>1, <2>5 DEF IInv, RunSide, Bounded
<1> QED
  BY <1>1, <1>6, <1>7 DEF Dispatch

-----------------------------------------------------------------------------
(* Turns.                                                                  *)

\* A session changes by itself.
LEMMA SessionChanges ==
  ASSUME IInv, Bounded', UNCHANGED <<rows, runRow, engine, eng, mail, pc, creating, cap, life>>,
         NEW k \in DOMAIN sessions, NEW y, sessions' = [sessions EXCEPT ![k] = y],
         SessionShape(y),
         Running /\ k[1] = life => Serves(eng, y, k[2]),
         ~(Running /\ k[1] = life) => Quiet(y)
  PROVE  IInv'
<1>1. (Running' <=> Running) /\ life' = life
  BY DEF Running
<1>2. /\ DOMAIN sessions' = DOMAIN sessions /\ sessions'[k] = y
      /\ \A j \in DOMAIN sessions : j # k => sessions'[j] = sessions[j]
  OBVIOUS
<1>3. ASSUME NEW j \in DOMAIN sessions'
      PROVE  SessionShape(sessions'[j]) /\ j[1] <= life' /\ InOrder(j)'
  <2>1. j \in DOMAIN sessions /\ SessionShape(sessions[j]) /\ j[1] <= life /\ InOrder(j)
    BY <1>2 DEF IInv, Sessions, Driver
  <2>2. CASE j = k
    BY <1>1, <1>2, <2>1, <2>2 DEF InOrder
  <2>3. CASE j # k
    BY <1>1, <1>2, <2>1, <2>3 DEF InOrder
  <2> QED
    BY <2>2, <2>3
<1>4. Sessions'
  BY <1>1, <1>2, <1>3 DEF IInv, Sessions
<1>5. Answers' /\ Memory' /\ RunRecord' /\ Creations' /\ Scheduler'
  BY <1>1 DEF IInv, Answers, Memory, RunRecord, Creations, Scheduler
<1>6. Journal'
  BY DEF IInv, Journal, RowShape
<1>7. CountedAsks' /\ CountedActors(eng')
  BY DEF IInv, CountedAsks, CountedActors, Handles, Made
<1> QED
  BY <1>3, <1>4, <1>5, <1>6, <1>7 DEF IInv, Driver

\* The current ask of session k is settled, and the session winds down.
LEMMA AskEnds ==
  ASSUME IInv, Bounded', Running, NEW k \in DOMAIN sessions, k[1] = life,
         NEW i, i = sessions[k].current, i \in DOMAIN eng.live,
         NEW status \in {"completed", "failed"}, SettleNode(i, status),
         UNCHANGED <<runRow, engine, pc, cap, life>>,
         NEW y, sessions' = [sessions EXCEPT ![k] = y],
         SessionShape(y), Quiet(y), y.current = i, Known(y) \subseteq Known(sessions[k])
  PROVE  IInv'
<1>1. /\ eng.live[i].actor = k[2] /\ k[2] \in DOMAIN eng.actor
      /\ eng.actor[k[2]].current = i /\ k = <<life, k[2]>>
  BY ServedAsk
<1>2. RunSide' /\ Evolves(eng, eng') /\ DOMAIN eng'.live = DOMAIN eng.live \ {i}
  BY <1>1, NodeSettles
<1>3. EngineShape(eng')
  BY <1>2 DEF RunSide, Memory
<1>4. /\ DOMAIN sessions' = DOMAIN sessions /\ sessions'[k] = y
      /\ \A j \in DOMAIN sessions : j # k => sessions'[j] = sessions[j]
  OBVIOUS
<1>5. Serves(eng, sessions[k], k[2])
  BY TableIs
<1>6. Serves(eng', y, k[2])
  BY <1>2, <1>5, ServesDone
<1>7. ASSUME NEW j \in DOMAIN sessions, j # k, j[1] = life, sessions[j].current \in DOMAIN eng.live
      PROVE  sessions[j].current \in DOMAIN eng'.live
  <2>1. eng.live[sessions[j].current].actor = j[2] /\ j = <<life, j[2]>>
    BY <1>7, ServedAsk
  <2>2. sessions[j].current # i
    BY <1>1, <1>7, <2>1
  <2> QED
    BY <1>2, <1>7, <2>2
<1>8. Sessions' /\ Driver'
  BY <1>2, <1>3, <1>4, <1>6, <1>7, TableKeeps
<1> QED
  BY <1>2, <1>8 DEF IInv, RunSide

\* A turn of a session that only winds down never runs.
LEMMA RunningTurn ==
  ASSUME IInv, NEW k \in DOMAIN sessions,
         (InTurn(k) /\ Turn(k).mode = "run") \/ sessions[k].redrive # None
  PROVE  Running /\ k[1] = life /\ SessionShape(sessions[k]) /\ Serves(eng, sessions[k], k[2])
<1>1. SessionShape(sessions[k]) /\ InOrder(k)
  BY DEF IInv, Sessions, Driver
<1>2. ~Quiet(sessions[k])
  <2>1. CASE InTurn(k) /\ Turn(k).mode = "run"
    <3>1. 1 \in DOMAIN sessions[k].turns /\ Turn(k) = sessions[k].turns[1]
      BY <1>1, <2>1, TurnLandsIs DEF InTurn, Turn
    <3> QED
      BY <2>1, <3>1 DEF Quiet, NoRun
  <2>2. CASE sessions[k].redrive # None
    BY <2>2 DEF Quiet
  <2> QED
    BY <2>1, <2>2
<1> QED
  BY <1>1, <1>2 DEF InOrder

LEMMA SubmitAcceptedKeeps ==
  ASSUME IInv, NEW k, SubmitAccepted(k)
  PROVE  IInv'
<1>1. /\ k \in DOMAIN sessions /\ InTurn(k) /\ Turn(k).mode = "run"
      /\ Running /\ k[1] = life /\ sessions[k].current \in DOMAIN eng.live
      /\ UNCHANGED <<runRow, engine, pc, cap, life, crashes, faults>>
      /\ SettleNode(sessions[k].current, "completed")
  BY DEF SubmitAccepted, Submits, Reaches, bounds
<1>2. SessionShape(sessions[k]) /\ Serves(eng, sessions[k], k[2])
  BY <1>1, TableIs
<1>3. sessions[k].turns # <<>> /\ sessions[k].turns[1].mode = "run"
  BY <1>1, <1>2, TurnLandsIs DEF InTurn, Turn
<1>4. PICK ss : ss = sessions[k]
  OBVIOUS
<1>5. PICK y : y = [ss EXCEPT !.accepted = TRUE, !.turns[1].mode = "stopping"]
  OBVIOUS
<1>6. SessionShape(y) /\ Quiet(y) /\ y.current = sessions[k].current /\ Known(y) \subseteq Known(sessions[k])
  <2>1. ss.turns # <<>> /\ ss.turns[1].mode = "run" /\ SessionShape(ss) /\ Serves(eng, ss, k[2])
    BY <1>2, <1>3, <1>4
  <2>2. SessionShape(y) /\ Quiet(y) /\ y.current = ss.current /\ Known(y) \subseteq Known(ss)
    BY <2>1, <1>5, AcceptedIs
  <2> QED
    BY <2>2, <1>4
<1>7. sessions' = [sessions EXCEPT ![k] = y]
  BY <1>1, <1>4, <1>5 DEF SubmitAccepted
<1>8. Bounded'
  BY <1>1 DEF IInv, Bounded
<1> QED
  BY <1>1, <1>6, <1>7, <1>8, AskEnds

LEMMA SubmitRejectedKeeps ==
  ASSUME IInv, NEW k, SubmitRejected(k)
  PROVE  IInv'
<1>1. PICK i : i = sessions[k].current
  OBVIOUS
<1>2. /\ k \in DOMAIN sessions /\ Running /\ k[1] = life /\ i \in DOMAIN eng.live
      /\ UNCHANGED <<runRow, engine, pc, cap, life, crashes, faults>>
  BY <1>1 DEF SubmitRejected, Submits, Reaches, bounds
<1>3. SessionShape(sessions[k]) /\ Serves(eng, sessions[k], k[2])
  BY <1>2, TableIs
<1>4. /\ eng.live[i].actor = k[2] /\ eng.actor[k[2]].current = i
      /\ EngineShape(eng) /\ eng.live[i] \in Nodes
  BY <1>1, <1>2, ServedAsk DEF IInv, Memory, EngineShape
<1>5. Bounded'
  BY <1>2 DEF IInv, Bounded
<1>6. ASSUME eng.live[i].repairs > 0, eng' = [eng EXCEPT !.live[i].repairs = @ - 1],
             UNCHANGED <<rows, mail, sessions, creating>>
      PROVE  IInv'
  <2>1. PICK n : n = eng.live[i]
    OBVIOUS
  <2>2. PICK v : v = [n EXCEPT !.repairs = n.repairs - 1]
    OBVIOUS
  <2>3. n \in Nodes /\ n.repairs \in Nat /\ n.repairs > 0
    BY <1>4, <1>6, <2>1 DEF Nodes
  <2>4. v \in Nodes /\ v.actor = n.actor /\ v.dispatched = n.dispatched
    BY <2>2, <2>3 DEF Nodes
  <2>5. PICK x : x = [eng EXCEPT !.live[i] = v]
    OBVIOUS
  <2>6. eng' = x
    BY <1>2, <1>4, <1>6, <2>1, <2>2, <2>5 DEF EngineShape
  <2>7. eng.actor[v.actor].current = i
    BY <1>4, <2>1, <2>4
  <2>8. UNCHANGED <<rows, runRow, engine, mail, pc, creating, cap, life>>
    BY <1>2, <1>6
  <2>9. RunSide' /\ Evolves(eng, eng') /\ EngineShape(eng') /\ DOMAIN eng'.live = DOMAIN eng.live
    BY <1>2, <2>1, <2>4, <2>5, <2>6, <2>7, <2>8, NodeChanges
  <2>10. Serves(eng', sessions[k], k[2])
    BY <1>3, <2>9, ServesOn
  <2>11. Sessions' /\ Driver'
    BY <1>2, <1>3, <1>6, <2>9, <2>10, TableKeeps
  <2> QED
    BY <1>5, <2>9, <2>11 DEF IInv, RunSide
<1>7. ASSUME sessions' = [sessions EXCEPT ![k] = CancelAsk(@)], SettleNode(i, "failed")
      PROVE  IInv'
  <2>1. PICK y : y = CancelAsk(sessions[k])
    OBVIOUS
  <2>2. SessionShape(y) /\ Quiet(y) /\ y.current = i /\ Known(y) \subseteq Known(sessions[k])
    BY <1>1, <1>3, <2>1, CancelAskQuiet
  <2>3. sessions' = [sessions EXCEPT ![k] = y]
    BY <1>7, <2>1
  <2> QED
    BY <1>1, <1>2, <1>5, <1>7, <2>2, <2>3, AskEnds
<1> QED
  BY <1>1, <1>6, <1>7 DEF SubmitRejected

LEMMA TurnResolvesKeeps ==
  ASSUME IInv, NEW k, TurnResolves(k)
  PROVE  IInv'
<1>1. /\ k \in DOMAIN sessions /\ sessions[k].turns # <<>>
      /\ UNCHANGED <<rows, runRow, engine, eng, mail, pc, creating, cap, life, crashes, faults>>
  BY DEF TurnResolves, InTurn, bounds
<1>2. PICK y : y = [TurnLands(sessions[k]) EXCEPT !.reporting = @ \cup {Head(sessions[k].turns).inst}]
  OBVIOUS
<1>3. sessions' = [sessions EXCEPT ![k] = y]
  <2>1. PICK t : t = TurnLands(sessions[k])
    OBVIOUS
  <2>2. PICK r : r = t.reporting \cup {Turn(k).inst}
    OBVIOUS
  <2>3. y = [t EXCEPT !.reporting = r]
    BY <1>2, <2>1, <2>2 DEF Turn
  <2>4. sessions' = [sessions EXCEPT ![k] = [t EXCEPT !.reporting = r]]
    BY <2>1, <2>2 DEF TurnResolves
  <2> QED
    BY <2>3, <2>4
<1>4. SessionShape(sessions[k]) /\ InOrder(k)
  BY <1>1 DEF IInv, Sessions, Driver
<1>5. /\ SessionShape(y) /\ (Quiet(sessions[k]) => Quiet(y))
      /\ Serves(eng, sessions[k], k[2]) => Serves(eng, y, k[2])
  BY <1>1, <1>2, <1>4, ResolvedServes
<1>6. Bounded'
  BY <1>1 DEF IInv, Bounded
<1> QED
  BY <1>1, <1>3, <1>4, <1>5, <1>6, SessionChanges DEF InOrder

LEMMA TurnCancelledKeeps ==
  ASSUME IInv, NEW k, TurnCancelled(k)
  PROVE  IInv'
<1>1. /\ k \in DOMAIN sessions /\ sessions[k].turns # <<>>
      /\ UNCHANGED <<rows, runRow, engine, eng, mail, pc, creating, cap, life, crashes, faults>>
  BY DEF TurnCancelled, InTurn, bounds
<1>2. PICK y : y = TurnLands(sessions[k])
  OBVIOUS
<1>3. sessions' = [sessions EXCEPT ![k] = y]
  BY <1>2 DEF TurnCancelled
<1>4. SessionShape(sessions[k]) /\ InOrder(k)
  BY <1>1 DEF IInv, Sessions, Driver
<1>5. /\ SessionShape(y) /\ (Quiet(sessions[k]) => Quiet(y))
      /\ Serves(eng, sessions[k], k[2]) => Serves(eng, y, k[2])
  BY <1>1, <1>2, <1>4, TurnLandsServes
<1>6. Bounded'
  BY <1>1 DEF IInv, Bounded
<1> QED
  BY <1>1, <1>3, <1>4, <1>5, <1>6, SessionChanges DEF InOrder

LEMMA TurnErrsKeeps ==
  ASSUME IInv, NEW k, TurnErrs(k)
  PROVE  IInv'
<1>1. /\ k \in DOMAIN sessions /\ sessions[k].turns # <<>>
      /\ faults < MaxFaults /\ faults' = faults + 1
      /\ UNCHANGED <<runRow, engine, pc, cap, life, crashes>>
  BY DEF TurnErrs, TurnFails, InTurn
<1>2. PICK y : y = TurnLands(sessions[k])
  OBVIOUS
<1>3. sessions' = [sessions EXCEPT ![k] = y]
  BY <1>2 DEF TurnErrs
<1>4. SessionShape(sessions[k]) /\ InOrder(k)
  BY <1>1 DEF IInv, Sessions, Driver
<1>5. Bounded'
  BY <1>1, CapAssumption DEF IInv, Bounded
<1>6. ASSUME UNCHANGED <<rows, eng, mail, creating>> PROVE IInv'
  <2>1. /\ SessionShape(y) /\ (Quiet(sessions[k]) => Quiet(y))
        /\ Serves(eng, sessions[k], k[2]) => Serves(eng, y, k[2])
    BY <1>1, <1>2, <1>4, TurnLandsServes
  <2> QED
    BY <1>1, <1>3, <1>4, <1>5, <1>6, <2>1, SessionChanges DEF InOrder
<1>7. ASSUME Reaches(k, Turn(k).inst), SettleNode(Turn(k).inst, "failed") PROVE IInv'
  <2>1. Running /\ k[1] = life /\ Turn(k).inst \in DOMAIN eng.live
    BY <1>7 DEF Reaches
  <2>2. Serves(eng, sessions[k], k[2])
    BY <1>1, <2>1, TableIs
  <2>3. 1 \in DOMAIN sessions[k].turns /\ Turn(k) = sessions[k].turns[1]
    BY <1>1, <1>4, TurnLandsIs DEF Turn
  <2>4. sessions[k].turns[1].mode = "run"
    BY <2>1, <2>2, <2>3 DEF Serves, TurnFits
  <2>5. /\ SessionShape(y) /\ Quiet(y) /\ Turn(k).inst = sessions[k].current
        /\ Known(y) \subseteq Known(sessions[k]) /\ y.current = sessions[k].current
    BY <1>1, <1>2, <1>4, <2>2, <2>3, <2>4, TurnLandsServes, TurnLandsIs
  <2> QED
    BY <1>1, <1>3, <1>5, <1>7, <2>1, <2>5, AskEnds
<1> QED
  BY <1>6, <1>7 DEF TurnErrs

LEMMA TurnStopsRunKeeps ==
  ASSUME IInv, NEW k, TurnStopsRun(k)
  PROVE  IInv'
<1>1. PICK ss : ss = [sessions EXCEPT ![k] = TurnLands(@)]
  OBVIOUS
<1>2. /\ k \in DOMAIN sessions /\ sessions[k].turns # <<>> /\ Running /\ k[1] = life
      /\ faults < MaxFaults /\ faults' = faults + 1
      /\ UNCHANGED <<pc, cap, life, crashes>>
      /\ SettleRun(ss, "stopped", "provider")
  BY <1>1 DEF TurnStopsRun, TurnFails, InTurn
<1>3. /\ DOMAIN ss = DOMAIN sessions /\ ss[k] = TurnLands(sessions[k])
      /\ \A j \in DOMAIN sessions : j # k => ss[j] = sessions[j]
  BY <1>1, <1>2
<1>4. ASSUME NEW j \in DOMAIN ss
      PROVE  /\ SessionShape(ss[j])
             /\ j[1] # life => Quiet(ss[j])
             /\ j[1] = life => Serves(eng, ss[j], j[2])
  <2>1. j \in DOMAIN sessions
    BY <1>3
  <2>2. /\ SessionShape(sessions[j]) /\ (j[1] # life => Quiet(sessions[j]))
        /\ (j[1] = life => Serves(eng, sessions[j], j[2]))
    BY <1>2, <2>1, TableIs
  <2>3. CASE j = k
    BY <1>2, <1>3, <2>2, <2>3, TurnLandsServes
  <2>4. CASE j # k
    BY <1>3, <2>1, <2>2, <2>4
  <2> QED
    BY <2>3, <2>4
<1>5. Made' = Made /\ pc' \in [Strands -> Nat]
  BY <1>2 DEF Made, IInv, Answers
<1>6. "stopped" \in RunStatuses \ {"running"}
  BY DEF RunStatuses
<1>7. RunSide' /\ Sessions' /\ Driver'
  BY <1>2, <1>3, <1>4, <1>5, <1>6, MadeIsFinite, RunSettles
<1>8. Bounded'
  BY <1>2, CapAssumption DEF IInv, Bounded
<1> QED
  BY <1>7, <1>8 DEF IInv, RunSide

LEMMA TurnIsTransientKeeps ==
  ASSUME IInv, NEW k, TurnIsTransient(k)
  PROVE  IInv'
<1>1. /\ k \in DOMAIN sessions /\ InTurn(k) /\ Turn(k).mode = "run"
      /\ faults < MaxFaults /\ faults' = faults + 1
      /\ UNCHANGED <<rows, runRow, engine, eng, mail, pc, creating, cap, life, crashes>>
  BY DEF TurnIsTransient, TurnFails
<1>2. Running /\ k[1] = life /\ SessionShape(sessions[k]) /\ Serves(eng, sessions[k], k[2])
  BY <1>1, RunningTurn
<1>3. Turn(k) = sessions[k].turns[1] /\ sessions[k].turns # <<>>
  BY <1>1, <1>2, TurnLandsIs DEF Turn, InTurn
<1>4. PICK y : y = [TurnLands(sessions[k]) EXCEPT !.redrive = sessions[k].turns[1].inst]
  OBVIOUS
<1>5. sessions' = [sessions EXCEPT ![k] = y]
  <2>1. PICK t : t = TurnLands(sessions[k])
    OBVIOUS
  <2>2. PICK r : r = Turn(k).inst
    OBVIOUS
  <2>3. y = [t EXCEPT !.redrive = r]
    BY <1>3, <1>4, <2>1, <2>2
  <2>4. sessions' = [sessions EXCEPT ![k] = [t EXCEPT !.redrive = r]]
    BY <2>1, <2>2 DEF TurnIsTransient
  <2> QED
    BY <2>3, <2>4
<1>6. EngineShape(eng)
  BY DEF IInv, Memory
<1>7. SessionShape(y) /\ Serves(eng, y, k[2])
  BY <1>1, <1>2, <1>3, <1>4, <1>6, RedriveServes
<1>8. Bounded'
  BY <1>1, CapAssumption DEF IInv, Bounded
<1> QED
  BY <1>1, <1>2, <1>5, <1>7, <1>8, SessionChanges

LEMMA RedriveFiresKeeps ==
  ASSUME IInv, NEW k, RedriveFires(k)
  PROVE  IInv'
<1>1. /\ k \in DOMAIN sessions /\ sessions[k].redrive # None
      /\ UNCHANGED <<rows, runRow, engine, eng, mail, pc, creating, cap, life, crashes, faults>>
  BY DEF RedriveFires, bounds
<1>2. Running /\ k[1] = life /\ SessionShape(sessions[k]) /\ Serves(eng, sessions[k], k[2])
  BY <1>1, RunningTurn
<1>3. PICK s : s = [sessions[k] EXCEPT !.redrive = None]
  OBVIOUS
<1>4. PICK y : /\ y = s \/ y = RunTurn(s, sessions[k].redrive)
               /\ sessions' = [sessions EXCEPT ![k] = y]
  BY <1>3 DEF RedriveFires
<1>5. EngineShape(eng)
  BY DEF IInv, Memory
<1>6. SessionShape(y) /\ Serves(eng, y, k[2])
  BY <1>1, <1>2, <1>3, <1>4, <1>5, FiresServes
<1>7. Bounded'
  BY <1>1 DEF IInv, Bounded
<1> QED
  BY <1>1, <1>2, <1>4, <1>6, <1>7, SessionChanges

LEMMA ReportKeeps ==
  ASSUME IInv, NEW k, NEW i, Report(k, i)
  PROVE  IInv'
<1>1. PICK told : told = [sessions[k] EXCEPT !.reporting = @ \ {i}]
  OBVIOUS
<1>2. /\ k \in DOMAIN sessions /\ i \in sessions[k].reporting
      /\ UNCHANGED <<runRow, engine, pc, cap, life, crashes, faults>>
  BY DEF Report, bounds
<1>3. SessionShape(sessions[k]) /\ InOrder(k)
  BY <1>2 DEF IInv, Sessions, Driver
<1>4. /\ SessionShape(told) /\ Known(told) \subseteq Known(sessions[k])
      /\ told.current = sessions[k].current /\ told.reporting = sessions[k].reporting \ {i}
      /\ Quiet(sessions[k]) => Quiet(told)
      /\ Serves(eng, sessions[k], k[2]) => Serves(eng, told, k[2])
      /\ Serves(eng, sessions[k], k[2]) /\ i \in DOMAIN eng.live => i = sessions[k].current /\ Quiet(told)
  <2>1. PICK ss : ss = sessions[k]
    OBVIOUS
  <2>2. told = [ss EXCEPT !.reporting = @ \ {i}]
    BY <1>1, <2>1
  <2>3. SessionShape(ss) /\ i \in ss.reporting
    BY <1>2, <1>3, <2>1
  <2>4. /\ SessionShape(told) /\ Known(told) \subseteq Known(ss)
        /\ told.current = ss.current /\ told.reporting = ss.reporting \ {i}
        /\ Quiet(ss) => Quiet(told)
        /\ Serves(eng, ss, k[2]) => Serves(eng, told, k[2])
        /\ Serves(eng, ss, k[2]) /\ i \in DOMAIN eng.live => i = ss.current /\ Quiet(told)
    BY <2>2, <2>3, ToldServes
  <2> QED
    BY <2>1, <2>4
<1>5. Bounded'
  BY <1>2 DEF IInv, Bounded
<1>6. ASSUME sessions' = [sessions EXCEPT ![k] = told], UNCHANGED <<rows, eng, mail, creating>>
      PROVE  IInv'
  BY <1>2, <1>3, <1>4, <1>5, <1>6, SessionChanges DEF InOrder
<1>7. ASSUME Reaches(k, i)
      PROVE  /\ Running /\ k[1] = life /\ i \in DOMAIN eng.live
             /\ Serves(eng, sessions[k], k[2]) /\ Serves(eng, told, k[2])
             /\ i = sessions[k].current /\ Quiet(told)
  BY <1>3, <1>4, <1>7 DEF Reaches, InOrder
<1>8. ASSUME Reaches(k, i), sessions' = [sessions EXCEPT ![k] = told], SettleNode(i, "completed")
      PROVE  IInv'
  BY <1>2, <1>4, <1>5, <1>7, <1>8, AskEnds
<1>9. ASSUME Reaches(k, i), sessions' = [sessions EXCEPT ![k] = CancelAsk(told)],
             SettleNode(i, "failed")
      PROVE  IInv'
  <2>1. PICK y : y = CancelAsk(told)
    OBVIOUS
  <2>2. /\ Running /\ k[1] = life /\ i \in DOMAIN eng.live
        /\ i = sessions[k].current /\ Quiet(told)
    BY <1>7, <1>9
  <2>3. SessionShape(y) /\ Quiet(y) /\ y.current = told.current /\ Known(y) \subseteq Known(told)
    BY <1>4, <2>1, <2>2, CancelAskQuiet
  <2>4. sessions' = [sessions EXCEPT ![k] = y]
    BY <1>9, <2>1
  <2>5. y.current = i /\ Known(y) \subseteq Known(sessions[k])
    BY <1>4, <2>2, <2>3
  <2> QED
    BY <1>2, <1>5, <1>9, <2>2, <2>3, <2>4, <2>5, AskEnds
<1>10. ASSUME Reaches(k, i), eng.live[i].nudges > 0,
              sessions' = [sessions EXCEPT ![k] = RunTurn(told, i)],
              eng' = [eng EXCEPT !.live[i].nudges = @ - 1],
              UNCHANGED <<rows, mail, creating>>
       PROVE  IInv'
  <2>1. /\ Running /\ k[1] = life /\ i \in DOMAIN eng.live
        /\ Serves(eng, told, k[2]) /\ i = sessions[k].current /\ Quiet(told)
    BY <1>7, <1>10
  <2>2. /\ eng.live[i].actor = k[2] /\ eng.actor[k[2]].current = i
        /\ EngineShape(eng) /\ eng.live[i] \in Nodes
    BY <1>2, <2>1, ServedAsk DEF IInv, Memory, EngineShape
  <2>3. PICK n : n = eng.live[i]
    OBVIOUS
  <2>4. PICK v : v = [n EXCEPT !.nudges = n.nudges - 1]
    OBVIOUS
  <2>5. n \in Nodes /\ n.nudges \in Nat /\ n.nudges > 0
    BY <1>10, <2>2, <2>3 DEF Nodes
  <2>6. v \in Nodes /\ v.actor = n.actor /\ v.dispatched = n.dispatched
    BY <2>4, <2>5 DEF Nodes
  <2>7. PICK x : x = [eng EXCEPT !.live[i] = v]
    OBVIOUS
  <2>8. eng' = x
    BY <1>10, <2>1, <2>2, <2>3, <2>4, <2>7 DEF EngineShape
  <2>9. eng.actor[v.actor].current = i
    BY <2>2, <2>3, <2>6
  <2>10. UNCHANGED <<rows, runRow, engine, mail, pc, creating, cap, life>>
    BY <1>2, <1>10
  <2>11. RunSide' /\ Evolves(eng, eng') /\ EngineShape(eng') /\ DOMAIN eng'.live = DOMAIN eng.live
    BY <2>1, <2>3, <2>6, <2>7, <2>8, <2>9, <2>10, NodeChanges
  <2>12. Serves(eng', told, k[2])
    BY <1>4, <2>1, <2>11, ServesOn
  <2>13. PICK y : y = RunTurn(told, i)
    OBVIOUS
  <2>14. told.current = i /\ i \notin told.reporting
    BY <1>4, <2>1
  <2>15. SessionShape(y) /\ Serves(eng', y, k[2])
    BY <1>4, <2>1, <2>11, <2>12, <2>13, <2>14, RunTurnServes
  <2>16. /\ DOMAIN sessions' = DOMAIN sessions /\ sessions'[k] = y
         /\ \A j \in DOMAIN sessions : j # k => sessions'[j] = sessions[j]
    BY <1>2, <1>10, <2>13
  <2>17. Sessions' /\ Driver'
    BY <2>1, <2>10, <2>11, <2>15, <2>16, TableKeeps
  <2> QED
    BY <1>5, <2>11, <2>17 DEF IInv, RunSide
<1>11. \/ sessions' = [sessions EXCEPT ![k] = told] /\ UNCHANGED <<rows, eng, mail, creating>>
       \/ Reaches(k, i) /\ sessions' = [sessions EXCEPT ![k] = told] /\ SettleNode(i, "completed")
       \/ /\ Reaches(k, i) /\ eng.live[i].nudges > 0
          /\ sessions' = [sessions EXCEPT ![k] = RunTurn(told, i)]
          /\ eng' = [eng EXCEPT !.live[i].nudges = @ - 1]
          /\ UNCHANGED <<rows, mail, creating>>
       \/ /\ Reaches(k, i) /\ sessions' = [sessions EXCEPT ![k] = CancelAsk(told)]
          /\ SettleNode(i, "failed")
  BY <1>1, Zenon DEF Report
<1> QED
  BY <1>6, <1>8, <1>9, <1>10, <1>11

-----------------------------------------------------------------------------
(* The lifetimes of the run.                                               *)

LEMMA StopKeeps ==
  ASSUME IInv, NEW reason, Stop(reason)
  PROVE  IInv'
<1>1. Running /\ SettleRun(sessions, "stopped", reason) /\ UNCHANGED <<pc, cap, life, crashes, faults>>
  BY DEF Stop, bounds
<1>2. Made' = Made
  BY <1>1 DEF Made
<1>3. "stopped" \in RunStatuses \ {"running"}
  BY DEF RunStatuses
<1>4. RunSide' /\ Sessions' /\ Driver'
  BY <1>1, <1>2, <1>3, TableIs, RunSettles, MadeIsFinite DEF IInv, Answers
<1> QED
  BY <1>1, <1>4 DEF IInv, RunSide, Bounded

\* A new engine knows nothing.
LEMMA FreshEngineIs ==
  ASSUME NEW c \in Nat
  PROVE  /\ EngineInv(FreshEngine, c) /\ NoIdle(FreshEngine, c)
         /\ DOMAIN FreshEngine.live = {} /\ DOMAIN FreshEngine.actor = {}
         /\ \A t \in Sites : FreshEngine.ordinals[t] = 0
<1>1. PICK e : e = FreshEngine
  OBVIOUS
<1>2. PICK m : m = EmptyMap
  OBVIOUS
<1>3. DOMAIN m = {}
  BY <1>2 DEF EmptyMap
<1>4. /\ e.ordinals = [t \in Sites |-> 0] /\ e.handle = [a \in Agents |-> None] /\ e.order = <<>>
      /\ e.actor = m /\ e.live = m /\ e.active = 0
      /\ e = [ordinals |-> e.ordinals, handle |-> e.handle, order |-> e.order,
              actor |-> e.actor, live |-> e.live, active |-> e.active]
  BY <1>1, <1>2 DEF FreshEngine
<1>5. e.order \in Seq(ActorRefs) /\ Range(e.order) = {} /\ DOMAIN e.order = {}
  BY <1>4, EmptySeq DEF Range
<1>6. e.ordinals \in [Sites -> Nat] /\ e.handle \in [Agents -> ActorRefs \cup {None}]
  BY <1>4
<1>7. EngineShape(e)
  <2>1. e \in [ordinals : [Sites -> Nat], handle : [Agents -> ActorRefs \cup {None}],
               order : Seq(ActorRefs), actor : {e.actor}, live : {e.live}, active : Nat]
    <3>1. PICK o, h, q : o = e.ordinals /\ h = e.handle /\ q = e.order
      OBVIOUS
    <3>2. e = [ordinals |-> o, handle |-> h, order |-> q, actor |-> m, live |-> m, active |-> 0]
      BY <1>4, <3>1
    <3>3. o \in [Sites -> Nat] /\ h \in [Agents -> ActorRefs \cup {None}] /\ q \in Seq(ActorRefs)
      BY <1>5, <1>6, <3>1
    <3> QED
      BY <3>2, <3>3
  <2>2. IsFiniteSet(DOMAIN e.actor)
    BY <1>3, <1>4, FS_EmptySet
  <2> QED
    BY <1>3, <1>4, <2>1, <2>2 DEF EngineShape
<1>8. Roster(e) /\ Names(e) /\ Flights(e)
  BY <1>3, <1>4, <1>5 DEF Roster, Names, Flights
<1>9. Slots(e, c)
  <2>1. Busy(e) = {}
    BY <1>3, <1>4 DEF Busy
  <2> QED
    BY <1>4, <2>1, FS_EmptySet DEF Slots
<1>10. NoIdle(e, c)
  BY <1>3, <1>4 DEF NoIdle
<1> QED
  BY <1>1, <1>3, <1>4, <1>7, <1>8, <1>9, <1>10 DEF EngineInv

LEMMA StartedIs ==
  Started \in Seq(Mails)
<1>1. Order \in Seq(Strands)
  BY ScriptAssumption
<1>2. PICK l \in Nat : l = Len(Order) /\ DOMAIN Order = 1..l
  BY <1>1, LenProperties
<1> DEFINE first(n) == [strand |-> Order[n], status |-> "start", answer |-> 0]
<1>3. ASSUME NEW n \in 1..l PROVE first(n) \in Mails
  <2>1. Order[n] \in Strands
    BY <1>1, <1>2, ElementOfSeq
  <2> QED
    BY <2>1 DEF Mails
<1>4. PICK f : f = [n \in 1..l |-> first(n)]
  OBVIOUS
<1>5. f \in [1..l -> Mails]
  BY <1>3, <1>4
<1>6. f \in Seq(Mails)
  <2>1. Seq(Mails) = UNION {[1..n -> Mails] : n \in Nat}
    BY SeqDef
  <2> QED
    BY <1>5, <2>1
<1>7. Started = f
  BY <1>2, <1>4 DEF Started
<1> QED
  BY <1>6, <1>7

\* What a fresh engine owes the script, the journal and its names.
LEMMA FreshEngineFits ==
  ASSUME cap' \in Nat, eng' = FreshEngine, pc' = [s \in Strands |-> 0]
  PROVE  /\ Memory' /\ CountedAsks' /\ CountedActors(eng')
         /\ EngineInv(eng', cap') /\ NoIdle(eng', cap')
         /\ DOMAIN eng'.live = {} /\ DOMAIN eng'.actor = {}
         /\ pc' \in [Strands -> Nat]
<1>1. /\ EngineInv(FreshEngine, cap') /\ NoIdle(FreshEngine, cap')
      /\ DOMAIN FreshEngine.live = {} /\ DOMAIN FreshEngine.actor = {}
      /\ \A t \in Sites : FreshEngine.ordinals[t] = 0
  BY FreshEngineIs
<1>2. EngineShape(eng') /\ Roster(eng')
  BY <1>1 DEF EngineInv
<1>3. Cardinality(Made') \in Nat
  <2>1. Made' \in SUBSET Steps
    BY DEF Made, Steps, Strands
  <2> QED
    BY <2>1, StepsAreFinite, FS_Subset, FS_CardinalityType
<1>4. CountedAsks'
  BY <1>1, <1>3, SitesDiffer DEF CountedAsks
<1>5. CountedActors(eng')
  <2>1. \A t \in Range(ActorSite) : eng'.ordinals[t] = 0
    BY <1>1, SitesDiffer
  <2>2. Cardinality(Handles(eng')) \in Nat
    BY HandlesAreFinite
  <2> QED
    BY <2>1, <2>2 DEF CountedActors
<1> QED
  BY <1>1, <1>2, <1>4, <1>5 DEF Memory

LEMMA CrashKeeps ==
  ASSUME IInv, Crash
  PROVE  IInv'
<1>1. /\ crashes < MaxCrashes /\ crashes' = crashes + 1
      /\ engine' = "none" /\ eng' = FreshEngine /\ mail' = <<>> /\ pc' = [s \in Strands |-> 0]
      /\ sessions' = EmptyMap /\ creating' = {}
      /\ UNCHANGED <<rows, runRow, cap, life, faults>>
  BY DEF Crash
<1>2. cap' \in Nat
  BY <1>1 DEF IInv, Bounded
<1>3. /\ Memory' /\ CountedAsks' /\ CountedActors(eng') /\ pc' \in [Strands -> Nat]
      /\ DOMAIN eng'.live = {} /\ DOMAIN eng'.actor = {}
  BY <1>1, <1>2, FreshEngineFits
<1>4. ~Running' /\ DOMAIN sessions' = {}
  BY <1>1 DEF Running, EmptyMap
<1>5. Answers'
  BY <1>1, <1>3, EmptySeq DEF Answers
<1>6. Journal' /\ RunRecord'
  BY <1>1, <1>3, <1>4 DEF IInv, Journal, RowShape, RunRecord
<1>7. Sessions' /\ Driver' /\ Creations' /\ Scheduler'
  BY <1>1, <1>3, <1>4 DEF Sessions, Driver, Creations, Scheduler
<1>8. Bounded'
  BY <1>1, CapAssumption DEF IInv, Bounded
<1> QED
  BY <1>3, <1>5, <1>6, <1>7, <1>8 DEF IInv

LEMMA ReconcileKeeps ==
  ASSUME IInv, Reconcile
  PROVE  IInv'
<1>1. /\ engine = "none" /\ runRow' = [status |-> "stopped", code |-> "interrupted"]
      /\ UNCHANGED <<rows, engine, eng, mail, pc, sessions, creating, cap, life, crashes, faults>>
  BY DEF Reconcile, bounds
<1>2. ~Running /\ ~Running'
  BY <1>1 DEF Running
<1>3. RunRecord'
  BY <1>1, <1>2 DEF RunRecord, RunStatuses
<1>4. Answers' /\ Memory' /\ Creations' /\ Scheduler' /\ Bounded'
  BY <1>1, <1>2 DEF IInv, Answers, Memory, Creations, Scheduler, Bounded
<1>5. Journal'
  BY <1>1 DEF IInv, Journal, RowShape
<1>6. CountedAsks' /\ CountedActors(eng')
  BY <1>1 DEF IInv, CountedAsks, CountedActors, Handles, Made
<1>7. Sessions' /\ Driver'
  BY <1>1, <1>2 DEF IInv, Sessions, Driver, InOrder
<1> QED
  BY <1>3, <1>4, <1>5, <1>6, <1>7 DEF IInv

\* The sessions an earlier engine left only wind down.
LEMMA ResumeKeeps ==
  ASSUME IInv, Resume
  PROVE  IInv'
<1>1. /\ ~Running /\ life < MaxLives /\ life' = life + 1
      /\ engine' = "running" /\ eng' = FreshEngine
      /\ runRow' = [status |-> "running", code |-> None]
      /\ mail' = Started /\ pc' = [s \in Strands |-> 0]
      /\ sessions' = Drop(sessions, {k \in DOMAIN sessions : sessions[k].closed})
      /\ UNCHANGED <<rows, creating, cap, crashes, faults>>
  BY DEF Resume
<1>2. cap \in Nat /\ life \in 1..MaxLives /\ MaxLives \in Nat
  BY CapAssumption DEF IInv, Bounded
<1>3. cap' \in Nat
  BY <1>1, <1>2
<1>4. /\ Memory' /\ CountedAsks' /\ CountedActors(eng') /\ pc' \in [Strands -> Nat]
      /\ EngineInv(eng', cap') /\ NoIdle(eng', cap')
      /\ DOMAIN eng'.live = {} /\ DOMAIN eng'.actor = {}
  BY <1>1, <1>3, FreshEngineFits
<1>5. Bounded'
  BY <1>1, <1>2 DEF IInv, Bounded
<1>6. Answers' /\ Scheduler'
  BY <1>1, <1>4, StartedIs DEF Answers, Scheduler
<1>7. Journal'
  <2>1. ASSUME NEW i \in DOMAIN rows PROVE RowShape(i)'
    <3>1. RowShape(i)
      BY DEF IInv, Journal
    <3>2. rows[i].answer \in 0..life'
      <4>1. PICK v : v = rows[i].answer
        OBVIOUS
      <4>2. v \in 0..life
        BY <3>1, <4>1 DEF RowShape
      <4>3. v \in 0..life'
        BY <1>1, <1>2, <4>2
      <4> QED
        BY <4>1, <4>3
    <3> QED
      BY <1>1, <3>1, <3>2 DEF RowShape
  <2> QED
    BY <1>1, <1>4, <2>1 DEF IInv, Journal
<1>8. RunRecord'
  BY <1>1 DEF RunRecord, RunStatuses
<1>9. Creations'
  <2>1. ASSUME NEW k \in creating' PROVE k \in Keys /\ k[1] <= life' /\ k[1] # life'
    <3>1. k \in Keys /\ k[1] <= life
      BY <1>1 DEF IInv, Creations
    <3>2. k[1] \in Int
      BY <3>1 DEF Keys
    <3> QED
      BY <1>1, <1>2, <3>1, <3>2
  <2> QED
    BY <2>1 DEF Creations
<1>10. ASSUME NEW k \in DOMAIN sessions'
       PROVE  k \in Keys /\ SessionShape(sessions'[k]) /\ k[1] <= life' /\ InOrder(k)'
  <2>1. k \in DOMAIN sessions /\ sessions'[k] = sessions[k]
    BY <1>1 DEF Drop
  <2>2. k \in Keys /\ SessionShape(sessions[k]) /\ k[1] <= life /\ Quiet(sessions[k])
    BY <1>1, <2>1 DEF IInv, Sessions, Driver, InOrder
  <2>3. k[1] \in Int
    BY <2>2 DEF Keys
  <2>4. k[1] <= life' /\ k[1] # life'
    BY <1>1, <1>2, <2>2, <2>3
  <2> QED
    BY <2>1, <2>2, <2>4 DEF InOrder
<1>11. Sessions' /\ Driver'
  BY <1>4, <1>10 DEF Sessions, Driver
<1> QED
  BY <1>4, <1>5, <1>6, <1>7, <1>8, <1>9, <1>11 DEF IInv

-----------------------------------------------------------------------------
(* The invariant holds in every reachable state.                           *)

LEMMA RunStarts ==
  ASSUME Init
  PROVE  IInv
<1>1. /\ rows = EmptyMap /\ runRow = [status |-> "running", code |-> None] /\ engine = "running"
      /\ eng = FreshEngine /\ mail = Started /\ pc = [s \in Strands |-> 0]
      /\ sessions = EmptyMap /\ creating = {} /\ cap \in Caps /\ life = 1 /\ crashes = 0 /\ faults = 0
  BY DEF Init
<1>2. cap \in Nat /\ Bounded
  BY <1>1, CapAssumption DEF Bounded
<1>3. /\ EngineInv(eng, cap) /\ NoIdle(eng, cap) /\ EngineShape(eng) /\ Roster(eng)
      /\ DOMAIN eng.live = {} /\ DOMAIN eng.actor = {}
      /\ \A t \in Sites : eng.ordinals[t] = 0
  BY <1>1, <1>2, FreshEngineIs DEF EngineInv
<1>4. DOMAIN rows = {} /\ DOMAIN sessions = {}
  BY <1>1 DEF EmptyMap
<1>5. Answers
  BY <1>1, StartedIs DEF Answers
<1>6. Memory /\ Scheduler
  BY <1>3 DEF Memory, Scheduler
<1>7. Journal /\ RunRecord
  BY <1>1, <1>3, <1>4 DEF Journal, RunRecord, RunStatuses
<1>8. CountedAsks /\ CountedActors(eng)
  <2>1. \A t \in AskSites \cup Range(ActorSite) : eng.ordinals[t] = 0
    BY <1>3, SitesDiffer
  <2>2. Cardinality(Handles(eng)) \in Nat
    BY HandlesAreFinite
  <2> QED
    BY <2>1, <2>2, MadeIsFinite DEF CountedAsks, CountedActors
<1>9. Sessions /\ Creations /\ Driver
  BY <1>1, <1>3, <1>4 DEF Sessions, Creations, Driver
<1> QED
  BY <1>2, <1>5, <1>6, <1>7, <1>8, <1>9 DEF IInv

LEMMA NothingChanges ==
  ASSUME IInv, UNCHANGED vars
  PROVE  IInv'
<1>1. /\ UNCHANGED <<rows, runRow, engine, eng, mail, pc, sessions, creating>>
      /\ UNCHANGED <<cap, life, crashes, faults>>
  BY DEF vars
<1>2. Bounded' /\ Answers' /\ Memory' /\ RunRecord' /\ Creations' /\ Scheduler'
  BY <1>1 DEF IInv, Bounded, Answers, Memory, RunRecord, Creations, Scheduler, Running
<1>3. Journal'
  BY <1>1 DEF IInv, Journal, RowShape
<1>4. CountedAsks' /\ CountedActors(eng')
  BY <1>1 DEF IInv, CountedAsks, CountedActors, Handles, Made
<1>5. Sessions' /\ Driver'
  BY <1>1 DEF IInv, Sessions, Driver, InOrder, Running
<1> QED
  BY <1>2, <1>3, <1>4, <1>5 DEF IInv

LEMMA StepKeeps ==
  ASSUME IInv, [Next]_vars
  PROVE  IInv'
<1>1. ASSUME Sandbox PROVE IInv'
  <2>1. PICK m \in Range(mail) :
           ScriptThrows(m) \/ StrandEnds(m) \/ AskFresh(m) \/ AskRecorded(m) \/ AskMismatched(m)
    BY <1>1 DEF Sandbox
  <2> QED
    BY <2>1, ScriptThrowsKeeps, StrandEndsKeeps, AskFreshKeeps, AskRecordedKeeps, AskMismatchedKeeps
<1>2. ASSUME NEW k \in creating, SessionReady(k) \/ SessionFails(k) PROVE IInv'
  BY <1>2, SessionReadyKeeps, SessionFailsKeeps
<1>3. ASSUME NEW r \in DOMAIN eng.actor, Dispatch(r) PROVE IInv'
  BY <1>3, DispatchKeeps
<1>4. ASSUME NEW k \in DOMAIN sessions, TurnStep(k) PROVE IInv'
  BY <1>4, SubmitAcceptedKeeps, SubmitRejectedKeeps, TurnResolvesKeeps, TurnCancelledKeeps,
     TurnErrsKeeps, TurnStopsRunKeeps, TurnIsTransientKeeps DEF TurnStep
<1>5. ASSUME NEW k \in DOMAIN sessions, RedriveFires(k) \/ Reports(k) PROVE IInv'
  BY <1>5, RedriveFiresKeeps, ReportKeeps DEF Reports
<1>6. ASSUME Lifecycle PROVE IInv'
  BY <1>6, StopKeeps, CrashKeeps, ReconcileKeeps, ResumeKeeps DEF Lifecycle
<1>7. CASE UNCHANGED vars
  BY <1>7, NothingChanges
<1> QED
  BY <1>1, <1>2, <1>3, <1>4, <1>5, <1>6, <1>7 DEF Next, Progress

\* The inductive invariant: what the journal, the engine, the scheduler and
\* the driver's sessions know of one ask agrees, in every lifetime of the run.
THEOREM RunInvariant == Spec => []IInv
<1>1. Init => IInv
  BY RunStarts
<1>2. IInv /\ [Next]_vars => IInv'
  BY StepKeeps
<1> QED
  BY <1>1, <1>2, PTL DEF Spec

\* Types: of the journal, the run's record, the script's answers, the
\* sessions and the actors of the scheduler.
THEOREM RunTypes == Spec => []TypeOK
<1>1. IInv => TypeOK
  <2> SUFFICES ASSUME IInv PROVE TypeOK
    OBVIOUS
  <2>1. /\ DOMAIN rows \subseteq Instances
        /\ \A i \in DOMAIN rows :
              rows[i].actor \in Refs /\ rows[i].seq \in Nat /\ rows[i].status \in Statuses
              /\ rows[i].answer \in 0..life
        /\ DOMAIN eng.live \subseteq DOMAIN rows
    BY DEF IInv, Journal, RowShape
  <2>2. /\ runRow.status \in {"running", "completed", "errored", "stopped"}
        /\ engine \in {"running", "settled", "none"}
    BY DEF IInv, RunRecord, RunStatuses
  <2>3. life \in 1..MaxLives /\ crashes \in 0..MaxCrashes /\ faults \in 0..MaxFaults
    BY DEF IInv, Bounded
  <2>4. pc \in [Strands -> Nat] /\ mail \in Seq(Mails)
    BY DEF IInv, Answers
  <2>5. ASSUME NEW n \in DOMAIN mail PROVE mail[n].strand \in Strands
    <3>1. n \in 1..Len(mail)
      BY <2>4, LenProperties
    <3>2. mail[n] \in Mails
      BY <2>4, <3>1, ElementOfSeq
    <3> QED
      BY <3>2 DEF Mails
  <2>6. DOMAIN sessions \subseteq Keys /\ creating \subseteq Keys
    BY DEF IInv, Sessions, Creations
  <2>7. DOMAIN eng.actor \subseteq Refs
    BY ActorsAreRefs DEF IInv, Memory
  <2>8. \A r \in DOMAIN eng.actor : eng.actor[r].session \in {"none", "pending", "ready", "failed"}
    BY DEF IInv, Memory, EngineShape, ActorShape
  <2> QED
    BY <2>1, <2>2, <2>3, <2>4, <2>5, <2>6, <2>7, <2>8 DEF TypeOK
<1> QED
  BY <1>1, RunInvariant, PTL

-----------------------------------------------------------------------------
(* The safety properties.                                                  *)

\* The slots in use are the asks in flight, at most the cap, each a live ask
\* of its own actor.
THEOREM SlotsAreCounted == Spec => []SlotsAreAccounted
<1>1. IInv => SlotsAreAccounted
  <2> SUFFICES ASSUME IInv, Running PROVE SlotsAreAccounted
    BY DEF SlotsAreAccounted
  <2>1. EngineInv(eng, cap)
    BY DEF IInv, Scheduler
  <2> QED
    BY <2>1 DEF EngineInv, Slots, Busy, Flights, Holds, SlotsAreAccounted
<1> QED
  BY <1>1, RunInvariant, PTL

\* While a slot is free, no actor waits idle with a queued ask.
THEOREM PumpsWasteNothing == Spec => []NoIdleSlot
<1>1. IInv => NoIdleSlot
  BY DEF IInv, Scheduler, NoIdle, Idle, NoIdleSlot
<1> QED
  BY <1>1, RunInvariant, PTL

\* A turn that may still submit belongs to the ask its session, its actor and
\* the engine hold in flight.
THEOREM TurnsServeTheirAsks == Spec => []TurnServesItsAsk
<1>1. IInv => TurnServesItsAsk
  <2> SUFFICES ASSUME IInv, NEW k \in DOMAIN sessions, InTurn(k), Turn(k).mode = "run"
               PROVE  LET i == Turn(k).inst IN
                      /\ Running /\ k[1] = life
                      /\ sessions[k].current = i /\ i \in DOMAIN eng.live
                      /\ eng.live[i].dispatched /\ eng.actor[k[2]].current = i
    BY DEF TurnServesItsAsk
  <2>1. Running /\ k[1] = life /\ SessionShape(sessions[k]) /\ Serves(eng, sessions[k], k[2])
    BY RunningTurn
  <2>2. 1 \in DOMAIN sessions[k].turns /\ Turn(k) = sessions[k].turns[1]
    BY <2>1, TurnLandsIs DEF InTurn, Turn
  <2>3. Turn(k).inst = sessions[k].current /\ sessions[k].current \in DOMAIN eng.live
    BY <2>1, <2>2 DEF Serves, TurnFits
  <2>4. eng.live[sessions[k].current].dispatched /\ eng.actor[k[2]].current = sessions[k].current
    BY <2>1, <2>3, ServedAsk
  <2> QED
    BY <2>1, <2>3, <2>4
<1> QED
  BY <1>1, RunInvariant, PTL

-----------------------------------------------------------------------------
(* Turns start for open asks only.                                         *)

Grows(k) == Len(sessions'[k].turns) > Len(sessions[k].turns)

\* What a turn may start for.
OpenAsk(k, i) == Running /\ k[1] = life /\ i \in DOMAIN rows /\ ~Final(i)
StartsFor(k) == OpenAsk(k, sessions'[k].turns[Len(sessions'[k].turns)].inst)

LEMMA LiveIsOpen ==
  ASSUME IInv, NEW i \in DOMAIN eng.live
  PROVE  i \in DOMAIN rows /\ ~Final(i)
BY DEF IInv, Journal, Final

LEMMA SameTurns ==
  ASSUME IInv, NEW k \in DOMAIN sessions, sessions'[k].turns = sessions[k].turns
  PROVE  ~Grows(k)
<1>1. sessions[k].turns \in Seq(Turns)
  BY DEF IInv, Sessions, SessionShape
<1>2. PICK n \in Nat : n = Len(sessions[k].turns)
  BY <1>1, LenProperties
<1> QED
  BY <1>2 DEF Grows

\* A session whose turns are those of a sequence no longer than before.
LEMMA NoLonger ==
  ASSUME IInv, NEW k \in DOMAIN sessions, SessionShape(sessions'[k]),
         DOMAIN sessions'[k].turns \subseteq DOMAIN sessions[k].turns
  PROVE  ~Grows(k)
<1>1. sessions[k].turns \in Seq(Turns) /\ sessions'[k].turns \in Seq(Turns)
  BY DEF IInv, Sessions, SessionShape
<1>2. PICK n \in Nat : n = Len(sessions[k].turns) /\ DOMAIN sessions[k].turns = 1..n
  BY <1>1, LenProperties
<1>3. PICK m \in Nat : m = Len(sessions'[k].turns) /\ DOMAIN sessions'[k].turns = 1..m
  BY <1>1, LenProperties
<1>4. 1..m \subseteq 1..n
  BY <1>2, <1>3
<1>5. m <= n
  BY <1>4
<1> QED
  BY <1>2, <1>3, <1>5 DEF Grows

\* Settling the run starts nothing.
LEMMA SettleStartsNothing ==
  ASSUME IInv, NEW ss, DOMAIN ss = DOMAIN sessions, NEW status, NEW code,
         SettleRun(ss, status, code), NEW k \in DOMAIN sessions,
         SessionShape(ss[k]), DOMAIN ss[k].turns \subseteq DOMAIN sessions[k].turns
  PROVE  ~Grows(k)
<1>1. sessions'[k] = IF k[1] # life THEN ss[k]
                     ELSE IF ss[k].current \in DOMAIN eng.live
                     THEN Dispose(CancelAsk(ss[k])) ELSE Dispose(ss[k])
  BY DEF SettleRun
<1>2. /\ SessionShape(Dispose(ss[k])) /\ Dispose(ss[k]).turns = ss[k].turns
  BY DisposeIs
<1>3. SessionShape(CancelAsk(ss[k])) /\ DOMAIN CancelAsk(ss[k]).turns = DOMAIN ss[k].turns
  BY CancelAskIs
<1>4. /\ SessionShape(Dispose(CancelAsk(ss[k])))
      /\ Dispose(CancelAsk(ss[k])).turns = CancelAsk(ss[k]).turns
  BY <1>3, DisposeIs
<1> QED
  BY <1>1, <1>2, <1>3, <1>4, NoLonger

\* A turn put at the end of a session's queue is the one that starts.
LEMMA LastTurn ==
  ASSUME NEW ss, SessionShape(ss), NEW i \in Asks,
         NEW y, y.turns = ss.turns, SessionShape(y), NEW x, x = RunTurn(y, i)
  PROVE  x.turns[Len(x.turns)].inst = i
<1>1. /\ Len(y.turns) \in Nat /\ Len(x.turns) = Len(y.turns) + 1
      /\ x.turns[Len(y.turns) + 1].inst = i
  BY RunTurnIs
<1> QED
  BY <1>1

LEMMA DispatchStarts ==
  ASSUME IInv, NEW r, Dispatch(r), NEW k \in DOMAIN sessions, Grows(k)
  PROVE  StartsFor(k)
<1>1. PICK i : i = eng.actor[r].current
  OBVIOUS
<1>2. Running /\ i \in DOMAIN eng.live
  BY <1>1 DEF Dispatch
<1>3. sessions' # sessions
  BY SameTurns
<1>4. sessions' = [sessions EXCEPT ![<<life, r>>] = StartAsk(@, i)]
  BY <1>1, <1>3 DEF Dispatch
<1>5. k = <<life, r>>
  <2>1. ASSUME k # <<life, r>> PROVE FALSE
    <3>1. sessions'[k].turns = sessions[k].turns
      BY <1>4, <2>1
    <3> QED
      BY <3>1, SameTurns
  <2> QED
    BY <2>1
<1>6. PICK ss : ss = sessions[k]
  OBVIOUS
<1>7. SessionShape(ss) /\ i \in Asks
  BY <1>2, <1>6 DEF IInv, Sessions, Memory, EngineShape
<1>8. PICK y : y = [ss EXCEPT !.current = i, !.accepted = FALSE, !.cancelled = FALSE, !.redrive = None]
  OBVIOUS
<1>9. SessionShape(y) /\ y.turns = ss.turns
  BY <1>7, <1>8 DEF SessionShape
<1>10. sessions'[k] = RunTurn(y, i)
  BY <1>4, <1>5, <1>6, <1>8 DEF StartAsk
<1>11. sessions'[k].turns[Len(sessions'[k].turns)].inst = i
  BY <1>7, <1>9, <1>10, LastTurn
<1>12. k[1] = life
  BY <1>5
<1> QED
  BY <1>2, <1>11, <1>12, LiveIsOpen DEF StartsFor, OpenAsk

\* When one session changes and its queue grows no longer, nothing starts.
LEMMA OneSession ==
  ASSUME IInv, NEW j \in DOMAIN sessions, NEW y, sessions' = [sessions EXCEPT ![j] = y],
         SessionShape(y), DOMAIN y.turns \subseteq DOMAIN sessions[j].turns,
         NEW k \in DOMAIN sessions
  PROVE  ~Grows(k)
<1>1. CASE k = j
  BY <1>1, NoLonger
<1>2. CASE k # j
  BY <1>2, SameTurns
<1> QED
  BY <1>1, <1>2

LEMMA Landed ==
  ASSUME NEW ss, SessionShape(ss), ss.turns # <<>>
  PROVE  SessionShape(TurnLands(ss)) /\ DOMAIN TurnLands(ss).turns \subseteq DOMAIN ss.turns
<1>1. /\ SessionShape(TurnLands(ss)) /\ Len(ss.turns) \in Nat \ {0}
      /\ DOMAIN ss.turns = 1..Len(ss.turns) /\ DOMAIN TurnLands(ss).turns = 1..(Len(ss.turns) - 1)
  BY TurnLandsIs
<1>2. PICK n \in Nat \ {0} : n = Len(ss.turns)
  BY <1>1
<1>3. 1..(n - 1) \subseteq 1..n
  BY <1>2
<1> QED
  BY <1>1, <1>2, <1>3

LEMMA ReportStarts ==
  ASSUME IInv, NEW j, NEW i, Report(j, i), NEW k \in DOMAIN sessions, Grows(k)
  PROVE  StartsFor(k)
<1>1. PICK ss : ss = sessions[j]
  OBVIOUS
<1>2. PICK told : told = [ss EXCEPT !.reporting = @ \ {i}]
  OBVIOUS
<1>3. told = [sessions[j] EXCEPT !.reporting = @ \ {i}]
  BY <1>1, <1>2
<1>4. j \in DOMAIN sessions /\ i \in ss.reporting /\ SessionShape(ss)
  BY <1>1 DEF Report, IInv, Sessions
<1>5. SessionShape(told) /\ told.turns = ss.turns
  BY <1>2, <1>4, ToldServes
<1>6. \/ sessions' = [sessions EXCEPT ![j] = told]
      \/ Reaches(j, i) /\ sessions' = [sessions EXCEPT ![j] = RunTurn(told, i)]
      \/ sessions' = [sessions EXCEPT ![j] = CancelAsk(told)]
  BY <1>3, Zenon DEF Report
<1>7. sessions' # [sessions EXCEPT ![j] = told]
  BY <1>1, <1>4, <1>5, OneSession
<1>8. sessions' # [sessions EXCEPT ![j] = CancelAsk(told)]
  <2>1. PICK y : y = CancelAsk(told)
    OBVIOUS
  <2>2. SessionShape(y) /\ DOMAIN y.turns = DOMAIN told.turns
    BY <1>5, <2>1, CancelAskIs
  <2> QED
    BY <1>1, <1>4, <1>5, <2>1, <2>2, OneSession
<1>9. Reaches(j, i) /\ sessions' = [sessions EXCEPT ![j] = RunTurn(told, i)]
  BY <1>6, <1>7, <1>8
<1>10. k = j
  BY <1>9, SameTurns
<1>11. i \in Asks
  BY <1>4 DEF SessionShape
<1>12. sessions'[k].turns[Len(sessions'[k].turns)].inst = i
  BY <1>4, <1>5, <1>9, <1>10, <1>11, LastTurn
<1> QED
  BY <1>9, <1>10, <1>12, LiveIsOpen DEF Reaches, StartsFor, OpenAsk

LEMMA RedriveStarts ==
  ASSUME IInv, NEW j, RedriveFires(j), NEW k \in DOMAIN sessions, Grows(k)
  PROVE  StartsFor(k)
<1>1. j \in DOMAIN sessions /\ sessions[j].redrive # None
  BY DEF RedriveFires
<1>2. Running /\ j[1] = life /\ SessionShape(sessions[j]) /\ Serves(eng, sessions[j], j[2])
  BY <1>1, RunningTurn
<1>3. PICK ss : ss = sessions[j]
  OBVIOUS
<1>4. PICK y : y = [ss EXCEPT !.redrive = None]
  OBVIOUS
<1>5. PICK i : i = ss.redrive
  OBVIOUS
<1>6. SessionShape(y) /\ y.turns = ss.turns /\ i \in Asks /\ i \in DOMAIN eng.live
  BY <1>1, <1>2, <1>3, <1>4, <1>5 DEF SessionShape, Serves
<1>7. sessions' = [sessions EXCEPT ![j] = y] \/ sessions' = [sessions EXCEPT ![j] = RunTurn(y, i)]
  BY <1>3, <1>4, <1>5 DEF RedriveFires
<1>8. sessions' = [sessions EXCEPT ![j] = RunTurn(y, i)]
  BY <1>1, <1>3, <1>6, <1>7, OneSession
<1>9. k = j
  BY <1>8, SameTurns
<1>10. sessions'[k].turns[Len(sessions'[k].turns)].inst = i
  BY <1>2, <1>3, <1>6, <1>8, <1>9, LastTurn
<1> QED
  BY <1>2, <1>6, <1>9, <1>10, LiveIsOpen DEF StartsFor, OpenAsk

\* Submitting a result and the end of a turn start nothing.
LEMMA TurnStepStartsNothing ==
  ASSUME IInv, NEW j, TurnStep(j), NEW k \in DOMAIN sessions
  PROVE  ~Grows(k)
<1>1. PICK ss : ss = sessions[j]
  OBVIOUS
<1>2. j \in DOMAIN sessions /\ ss.turns # <<>> /\ SessionShape(ss)
  BY <1>1 DEF TurnStep, SubmitAccepted, SubmitRejected, Submits, TurnResolves, TurnCancelled,
              TurnErrs, TurnStopsRun, TurnIsTransient, TurnFails, InTurn, IInv, Sessions
<1>3. PICK t : t = TurnLands(ss)
  OBVIOUS
<1>4. SessionShape(t) /\ DOMAIN t.turns \subseteq DOMAIN ss.turns
  BY <1>2, <1>3, Landed
<1>5. \A n \in DOMAIN ss.turns : ss.turns[n] \in Turns
  <2>1. ss.turns \in Seq(Turns)
    BY <1>2 DEF SessionShape
  <2> QED
    BY <2>1, LenProperties, ElementOfSeq
<1>6. Turn(j) = ss.turns[1] /\ Turn(j).inst \in Asks
  <2>1. Turn(j) = ss.turns[1] /\ ss.turns[1] \in Turns
    BY <1>1, <1>2, TurnLandsIs DEF Turn
  <2> QED
    BY <2>1 DEF Turns
<1>7. CASE SubmitAccepted(j)
  <2>1. PICK y : y = [ss EXCEPT !.accepted = TRUE, !.turns[1].mode = "stopping"]
    OBVIOUS
  <2>2. Turn(j).mode = "run" /\ Running /\ j[1] = life
    BY <1>7 DEF SubmitAccepted, Submits, Reaches
  <2>3. Serves(eng, ss, j[2])
    BY <1>1, <1>2, <2>2, TableIs
  <2>4. SessionShape(y) /\ DOMAIN y.turns = DOMAIN ss.turns
    BY <1>2, <1>6, <2>1, <2>2, <2>3, AcceptedIs
  <2>5. sessions' = [sessions EXCEPT ![j] = y]
    BY <1>1, <1>2, <1>7, <2>1 DEF SubmitAccepted
  <2> QED
    BY <1>1, <1>2, <2>4, <2>5, OneSession
<1>8. CASE SubmitRejected(j)
  <2>1. CASE sessions' = sessions
    BY <2>1, SameTurns
  <2>2. CASE sessions' = [sessions EXCEPT ![j] = CancelAsk(@)]
    <3>1. PICK y : y = CancelAsk(ss)
      OBVIOUS
    <3>2. SessionShape(y) /\ DOMAIN y.turns = DOMAIN ss.turns
      BY <1>2, <3>1, CancelAskIs
    <3> QED
      BY <1>1, <1>2, <2>2, <3>1, <3>2, OneSession
  <2> QED
    BY <1>8, <2>1, <2>2 DEF SubmitRejected
<1>9. CASE TurnResolves(j)
  <2>1. PICK r : r = t.reporting \cup {Turn(j).inst}
    OBVIOUS
  <2>2. PICK y : y = [t EXCEPT !.reporting = r]
    OBVIOUS
  <2>3. sessions' = [sessions EXCEPT ![j] = y]
    BY <1>1, <1>3, <1>9, <2>1, <2>2 DEF TurnResolves
  <2>4. SessionShape(y) /\ y.turns = t.turns
    BY <1>4, <1>6, <2>1, <2>2 DEF SessionShape
  <2> QED
    BY <1>1, <1>2, <1>4, <2>3, <2>4, OneSession
<1>10. CASE TurnCancelled(j) \/ TurnErrs(j)
  <2>1. sessions' = [sessions EXCEPT ![j] = t]
    BY <1>1, <1>3, <1>10 DEF TurnCancelled, TurnErrs
  <2> QED
    BY <1>1, <1>2, <1>4, <2>1, OneSession
<1>11. CASE TurnStopsRun(j)
  <2>1. PICK tt : tt = [sessions EXCEPT ![j] = TurnLands(@)]
    OBVIOUS
  <2>2. SettleRun(tt, "stopped", "provider")
    BY <1>11, <2>1 DEF TurnStopsRun
  <2>3. DOMAIN tt = DOMAIN sessions /\ tt[j] = t /\ (k # j => tt[k] = sessions[k])
    BY <1>1, <1>2, <1>3, <2>1
  <2>4. SessionShape(tt[k]) /\ DOMAIN tt[k].turns \subseteq DOMAIN sessions[k].turns
    <3>1. CASE k = j
      BY <1>1, <1>4, <2>3, <3>1
    <3>2. CASE k # j
      BY <2>3, <3>2 DEF IInv, Sessions
    <3> QED
      BY <3>1, <3>2
  <2> QED
    BY <2>2, <2>3, <2>4, SettleStartsNothing
<1>12. CASE TurnIsTransient(j)
  <2>1. PICK r : r = Turn(j).inst
    OBVIOUS
  <2>2. PICK y : y = [t EXCEPT !.redrive = r]
    OBVIOUS
  <2>3. sessions' = [sessions EXCEPT ![j] = y]
    BY <1>1, <1>3, <1>12, <2>1, <2>2 DEF TurnIsTransient
  <2>4. SessionShape(y) /\ y.turns = t.turns
    BY <1>4, <1>6, <2>1, <2>2 DEF SessionShape
  <2> QED
    BY <1>1, <1>2, <1>4, <2>3, <2>4, OneSession
<1> QED
  BY <1>7, <1>8, <1>9, <1>10, <1>11, <1>12 DEF TurnStep

LEMMA StepStarts ==
  ASSUME IInv, [Next]_vars, NEW k \in DOMAIN sessions, k \in DOMAIN sessions', Grows(k)
  PROVE  StartsFor(k)
<1>1. sessions'[k].turns # sessions[k].turns
  BY SameTurns
<1>2. SessionShape(sessions[k])
  BY DEF IInv, Sessions
<1>3. \A status, code : ~SettleRun(sessions, status, code)
  BY <1>2, SettleStartsNothing
<1>4. ASSUME Sandbox PROVE FALSE
  <2>1. PICK m \in Range(mail) :
           ScriptThrows(m) \/ StrandEnds(m) \/ AskFresh(m) \/ AskRecorded(m) \/ AskMismatched(m)
    BY <1>4 DEF Sandbox
  <2>2. sessions' = sessions \/ \E status, code : SettleRun(sessions, status, code)
    BY <2>1 DEF ScriptThrows, StrandEnds, AskFresh, AskRecorded, AskMismatched
  <2> QED
    BY <1>1, <1>3, <2>2
<1>5. ASSUME NEW j \in creating, SessionReady(j) \/ SessionFails(j) PROVE FALSE
  <2>1. sessions' = sessions \/ sessions' = Put(sessions, j, FreshSession)
    BY <1>5 DEF SessionReady, SessionFails
  <2>2. sessions'[k] = FreshSession
    BY <1>1, <2>1 DEF Put
  <2>3. SessionShape(FreshSession)
    BY FreshSessionIs DEF IInv, Memory
  <2>4. DOMAIN FreshSession.turns = {}
    <3>1. FreshSession.turns = <<>>
      BY DEF FreshSession
    <3> QED
      BY <3>1, EmptySeq
  <2> QED
    BY <2>2, <2>3, <2>4, NoLonger
<1>6. ASSUME NEW r \in DOMAIN eng.actor, Dispatch(r) PROVE StartsFor(k)
  BY <1>6, DispatchStarts
<1>7. ASSUME NEW j \in DOMAIN sessions, TurnStep(j) PROVE FALSE
  BY <1>7, TurnStepStartsNothing
<1>8. ASSUME NEW j \in DOMAIN sessions, RedriveFires(j) \/ Reports(j) PROVE StartsFor(k)
  BY <1>8, RedriveStarts, ReportStarts DEF Reports
<1>9. ASSUME Lifecycle PROVE FALSE
  <2>1. sessions' = sessions \/ (\E reason : SettleRun(sessions, "stopped", reason))
        \/ sessions' = EmptyMap \/ \E S : sessions' = Drop(sessions, S)
    BY <1>9 DEF Lifecycle, Stop, Crash, Reconcile, Resume
  <2>2. sessions' # EmptyMap
    BY DEF EmptyMap
  <2>3. ~\E S : sessions' = Drop(sessions, S)
    BY <1>1 DEF Drop
  <2> QED
    BY <1>1, <1>3, <2>1, <2>2, <2>3
<1>10. CASE UNCHANGED vars
  BY <1>1, <1>10 DEF vars
<1> QED
  BY <1>4, <1>5, <1>6, <1>7, <1>8, <1>9, <1>10 DEF Next, Progress

\* No timer, late report or continuation starts a turn for an ask that is
\* final or whose engine has settled.
THEOREM TurnsAreForOpenAsks == Spec => TurnsStartForOpenAsks
<1>1. ASSUME IInv, [Next]_vars
      PROVE  [\A k \in DOMAIN sessions \cap DOMAIN sessions' :
                 Len(sessions'[k].turns) > Len(sessions[k].turns) =>
                   LET i == sessions'[k].turns[Len(sessions'[k].turns)].inst IN
                   Running /\ k[1] = life /\ i \in DOMAIN rows /\ ~Final(i)]_vars
  BY <1>1, StepStarts DEF Grows, StartsFor, OpenAsk
<1> QED
  BY <1>1, RunInvariant, PTL DEF Spec, TurnsStartForOpenAsks

-----------------------------------------------------------------------------
(* The journal is the ledger of RunLedger.                                 *)

Records == [i \in DOMAIN rows |-> [status |-> rows[i].status, answer |-> rows[i].answer]]
RunState == IF runRow.code = "superseded" THEN "superseded" ELSE runRow.status

\* A run that goes on has no code in its row yet.
LEMMA RunGoesOn ==
  ASSUME IInv, Running
  PROVE  RunState = "running"
BY NoneAssumption DEF IInv, RunRecord, RunState

LEMMA NothingRecorded ==
  ASSUME UNCHANGED <<rows, runRow>>
  PROVE  [Ledger!Next]_<<Records, RunState>>
BY DEF Records, RunState

\* The end of an ask changes its own record only.
LEMMA NodeRecorded ==
  ASSUME IInv, Running, NEW i \in DOMAIN eng.live, NEW status \in {"completed", "failed"},
         SettleNode(i, status), UNCHANGED runRow
  PROVE  Ledger!Settle
<1>1. i \in DOMAIN rows /\ rows[i].status = "running"
  BY DEF IInv, Journal
<1>2. rows' = [rows EXCEPT ![i].status = status, ![i].answer = life]
  BY DEF SettleNode
<1>3. DOMAIN rows' = DOMAIN rows /\ \A j \in DOMAIN rows : j # i => rows'[j] = rows[j]
  BY <1>2
<1>4. rows'[i].status = status
  <2>1. PICK b : b = rows[i]
    OBVIOUS
  <2>2. b = [actor |-> b.actor, seq |-> b.seq, text |-> b.text, status |-> b.status, answer |-> b.answer]
    BY <1>1, <2>1 DEF IInv, Journal, RowShape
  <2>3. rows'[i] = [b EXCEPT !.status = status, !.answer = life]
    BY <1>1, <1>2, <2>1
  <2> QED
    BY <2>2, <2>3
<1>5. RunState = "running" /\ RunState' = RunState
  BY RunGoesOn DEF RunState
<1>6. /\ DOMAIN Records' = DOMAIN Records /\ i \in DOMAIN Records
      /\ Records[i].status = "running" /\ Records'[i].status = status
      /\ \A j \in DOMAIN Records \ {i} : Records'[j] = Records[j]
  BY <1>1, <1>3, <1>4 DEF Records
<1>7. status \notin Ledger!Open
  BY DEF Ledger!Open
<1> QED
  BY <1>5, <1>6, <1>7 DEF Ledger!Settle, Ledger!Open, Records, RunState

\* The end of the run changes no ask.
LEMMA RunRecorded ==
  ASSUME IInv, Running, NEW ss, NEW status \in RunStatuses \ {"running"}, NEW code,
         SettleRun(ss, status, code)
  PROVE  Ledger!End
<1>1. RunState = "running"
  BY RunGoesOn
<1>2. runRow'.status = status /\ runRow'.code = code /\ rows' = rows
  BY DEF SettleRun
<1>3. RunState' \in Ledger!Ends /\ Records' = Records
  BY <1>2 DEF RunState, Records, RunStatuses, Ledger!Ends
<1> QED
  BY <1>1, <1>3 DEF Ledger!End, Records, RunState

\* A drain opens asks that are new or were open, and leaves the others alone.
LEMMA DrainRecorded ==
  ASSUME IInv, Running, NEW e, NEW ref, NEW rest, NEW others, Admit(e, ref, rest, others),
         UNCHANGED runRow
  PROVE  Ledger!OpenAsks
<1>1. PICK out : out = Released(e.actor[ref])
  OBVIOUS
<1>2. PICK new : new = Opened(out)
  OBVIOUS
<1>3. /\ DOMAIN rows' = DOMAIN rows \cup new
      /\ \A i \in DOMAIN rows' : rows'[i] =
            IF i \in new
            THEN [actor |-> ref, seq |-> Entry(out, i).seq, text |-> Entry(out, i).call.text,
                  status |-> "running", answer |-> 0]
            ELSE rows[i]
  BY <1>1, <1>2 DEF Admit
<1>4. ASSUME NEW i \in new PROVE rows'[i].status = "running" /\ rows'[i].answer = 0
  <2>1. PICK b : b = [actor |-> ref, seq |-> Entry(out, i).seq, text |-> Entry(out, i).call.text,
                      status |-> "running", answer |-> 0]
    OBVIOUS
  <2>2. rows'[i] = b
    BY <1>3, <2>1
  <2> QED
    BY <2>1, <2>2
<1>5. ASSUME NEW i \in new, i \in DOMAIN rows PROVE rows[i].status = "running" /\ rows[i].answer = 0
  <2>1. ~Final(i)
    BY <1>2 DEF Opened, Begun, Cached
  <2> QED
    BY <1>5, <2>1 DEF Final, IInv, Journal, RowShape
<1>6. RunState = "running" /\ RunState' = RunState
  BY RunGoesOn DEF RunState
<1>7. DOMAIN Records = DOMAIN rows /\ DOMAIN Records' = DOMAIN rows'
  BY DEF Records
<1>8. ASSUME NEW i \in DOMAIN rows' 
      PROVE  IF i \in DOMAIN rows THEN Records'[i] = Records[i] ELSE Records'[i].status = "running"
  <2>1. CASE i \in new
    BY <1>4, <1>5, <2>1 DEF Records
  <2>2. CASE i \notin new
    BY <1>3, <2>2 DEF Records
  <2> QED
    BY <2>1, <2>2
<1>9. DOMAIN rows \subseteq DOMAIN rows'
  BY <1>3
<1> QED
  BY <1>6, <1>7, <1>8, <1>9 DEF Ledger!OpenAsks, Ledger!Open, Records, RunState

\* Every step of the run is one of the ledger's steps, or none.
LEMMA StepRecorded ==
  ASSUME IInv, [Next]_vars
  PROVE  [Ledger!Next]_<<Records, RunState>>
<1> DEFINE Recorded == [Ledger!Next]_<<Records, RunState>>
<1>1. ASSUME Running, NEW i \in DOMAIN eng.live, NEW status \in {"completed", "failed"},
             SettleNode(i, status), UNCHANGED runRow
      PROVE  Recorded
  BY <1>1, NodeRecorded DEF Ledger!Next
<1>2. ASSUME Running, NEW ss, NEW status \in RunStatuses \ {"running"}, NEW code,
             SettleRun(ss, status, code)
      PROVE  Recorded
  BY <1>2, RunRecorded DEF Ledger!Next
<1>3. ASSUME Sandbox PROVE Recorded
  <2>1. PICK m \in Range(mail) :
           ScriptThrows(m) \/ StrandEnds(m) \/ AskFresh(m) \/ AskRecorded(m) \/ AskMismatched(m)
    BY <1>3 DEF Sandbox
  <2>2. Running
    BY <2>1 DEF ScriptThrows, StrandEnds, AskFresh, AskRecorded, AskMismatched, StrandAsks, Oldest
  <2>3. \/ \E status \in RunStatuses \ {"running"} : \E code : SettleRun(sessions, status, code)
        \/ UNCHANGED runRow /\ \E e, ref, rest, others : Admit(e, ref, rest, others)
        \/ UNCHANGED <<rows, runRow>>
    BY <2>1 DEF ScriptThrows, StrandEnds, AskFresh, AskRecorded, AskMismatched, RunStatuses
  <2> QED
    BY <1>2, <2>2, <2>3, NothingRecorded, DrainRecorded DEF Ledger!Next
<1>4. ASSUME NEW k \in creating, SessionReady(k) \/ SessionFails(k) PROVE Recorded
  BY <1>4, NothingRecorded DEF SessionReady, SessionFails
<1>5. ASSUME NEW r \in DOMAIN eng.actor, Dispatch(r) PROVE Recorded
  BY <1>1, <1>5, NothingRecorded DEF Dispatch
<1>6. ASSUME NEW k \in DOMAIN sessions, TurnStep(k) PROVE Recorded
  <2>1. CASE SubmitAccepted(k) \/ SubmitRejected(k)
    BY <1>1, <2>1, NothingRecorded DEF SubmitAccepted, SubmitRejected, Submits, Reaches
  <2>2. CASE TurnResolves(k) \/ TurnCancelled(k) \/ TurnIsTransient(k)
    BY <2>2, NothingRecorded DEF TurnResolves, TurnCancelled, TurnIsTransient
  <2>3. CASE TurnErrs(k)
    BY <1>1, <2>3, NothingRecorded DEF TurnErrs, Reaches
  <2>4. CASE TurnStopsRun(k)
    BY <1>2, <2>4 DEF TurnStopsRun, RunStatuses
  <2> QED
    BY <1>6, <2>1, <2>2, <2>3, <2>4 DEF TurnStep
<1>7. ASSUME NEW k \in DOMAIN sessions, RedriveFires(k) \/ Reports(k) PROVE Recorded
  <2>1. CASE RedriveFires(k)
    BY <2>1, NothingRecorded DEF RedriveFires
  <2>2. ASSUME NEW i, Report(k, i) PROVE Recorded
    BY <1>1, <2>2, NothingRecorded DEF Report, Reaches
  <2> QED
    BY <1>7, <2>1, <2>2 DEF Reports
<1>8. ASSUME Lifecycle PROVE Recorded
  <2>1. ASSUME NEW reason, Stop(reason) PROVE Recorded
    BY <1>2, <2>1 DEF Stop, RunStatuses
  <2>2. CASE Crash
    BY <2>2, NothingRecorded DEF Crash
  <2>3. CASE Reconcile
    <3>1. runRow.status = "running" /\ runRow.code # "superseded"
      BY <2>3, NoneAssumption DEF Reconcile, IInv, RunRecord
    <3>2. runRow'.status = "stopped" /\ runRow'.code = "interrupted" /\ rows' = rows
      BY <2>3 DEF Reconcile
    <3> QED
      BY <3>1, <3>2 DEF Records, RunState, Ledger!Next, Ledger!End, Ledger!Ends
  <2>4. CASE Resume
    <3>1. runRow.status = "stopped" /\ runRow.code # "superseded"
      BY <2>4 DEF Resume, Resumable
    <3>2. runRow'.status = "running" /\ runRow'.code = None /\ rows' = rows
      BY <2>4 DEF Resume
    <3>3. RunState = "stopped" /\ RunState' = "running" /\ Records' = Records
      BY <3>1, <3>2, NoneAssumption DEF Records, RunState
    <3> QED
      BY <3>3 DEF Records, RunState, Ledger!Next, Ledger!Resume
  <2> QED
    BY <1>8, <2>1, <2>2, <2>3, <2>4 DEF Lifecycle
<1>9. CASE UNCHANGED vars
  BY <1>9, NothingRecorded DEF vars
<1> QED
  BY <1>3, <1>4, <1>5, <1>6, <1>7, <1>8, <1>9 DEF Next, Progress

\* The journal implements the ledger: an ask is opened once, settled at most
\* once and never changed again, through every stop, crash and resume, and only
\* a run that was stopped and not superseded goes back to running.
THEOREM JournalIsALedger == Spec => LedgerSpec
<1>1. Init => Ledger!Init
  BY NoneAssumption DEF Init, EmptyMap, Ledger!Init
<1>2. IInv /\ [Next]_vars => [Ledger!Next]_<<Records, RunState>>
  BY StepRecorded
<1> QED
  BY <1>1, <1>2, RunInvariant, PTL DEF Spec, LedgerSpec, Ledger!Spec, Records, RunState

-----------------------------------------------------------------------------
(* Scripts that pass every site once.                                      *)
(*                                                                         *)
(* A name is a site and a count, and the count follows the order of        *)
(* arrival.  A script that runs each agent() and each ask() site at most   *)
(* once has names that do not depend on it, so that a resume finds every   *)
(* ask in its own row.  (A site in a loop or a fan-out has no such names:  *)
(* see the run workflow_chain.)                                            *)

AskAt(x) == Script[x[1]][x[2]]
OnePass ==
    /\ \A x, y \in Steps : AskAt(x).site = AskAt(y).site => x = y
    /\ \A g, h \in Agents : ActorSite[g] = ActorSite[h] => g = h

\* An ask of this name, text and actor is a step of the script.
Matches(i, text, r) ==
    \A x \in Steps : i[1] = AskAt(x).site =>
        i[2] = 1 /\ text = AskAt(x).text /\ r = <<ActorSite[AskAt(x).agent], 1>>
Named(R, e) ==
    /\ \A g \in Agents : /\ e.handle[g] = None => e.ordinals[ActorSite[g]] = 0
                         /\ e.handle[g] # None => e.handle[g] = <<ActorSite[g], 1>>
    /\ \A i \in DOMAIN R : Matches(i, R[i].text, R[i].actor)
    /\ \A r \in DOMAIN e.actor :
          /\ \A p \in DOMAIN e.actor[r].held :
                Matches(e.actor[r].held[p].inst, e.actor[r].held[p].text, r)
          /\ \A n \in DOMAIN e.actor[r].fresh :
                Matches(e.actor[r].fresh[n].inst, e.actor[r].fresh[n].text, r)
\* A site that was not passed has given no name.
Unasked == \A x \in Steps : x \notin Made => eng.ordinals[AskAt(x).site] = 0

\* The rows of an actor are numbered 0, 1, ..., n - 1.
RowsOf(R, r) == {i \in DOMAIN R : R[i].actor = r}
Filled(R, r, n) ==
    /\ \A i \in RowsOf(R, r) : R[i].seq \in 0..(n - 1)
    /\ \A p \in 0..(n - 1) : \E i \in RowsOf(R, r) : R[i].seq = p
    /\ \A i, j \in RowsOf(R, r) : R[i].seq = R[j].seq => i = j
\* The number after the last one an actor of this engine knows.
Width(a) == IF a.recorded <= a.next THEN a.next ELSE a.recorded
Numbering(R, e, r) ==
    LET a == e.actor[r] IN
    /\ Filled(R, r, Width(a))
    /\ \A p \in DOMAIN a.held :
          p >= a.next /\ a.held[p].inst \in RowsOf(R, r) /\ R[a.held[p].inst].seq = p
    /\ \A n \in DOMAIN a.fresh : a.fresh[n].inst \notin DOMAIN R
    /\ \A i \in RowsOf(R, r) : R[i].seq < a.next => i[2] <= e.ordinals[i[1]]
Numbered(R, e) ==
    /\ \A r \in ActorRefs : r \notin DOMAIN e.actor => Filled(R, r, Cardinality(RowsOf(R, r)))
    /\ \A r \in DOMAIN e.actor : Numbering(R, e, r)

\* The actor of a row has let it through.
Passed(R, e, i) == R[i].actor \in DOMAIN e.actor /\ R[i].seq < e.actor[R[i].actor].next
\* Asks are live in the order of their numbers, and each has its place.
Queued(R, a) ==
    /\ \A m, n \in DOMAIN a.queue : m < n => R[a.queue[m]].seq < R[a.queue[n]].seq
    /\ a.current # None => \A n \in DOMAIN a.queue : R[a.current].seq < R[a.queue[n]].seq
Lined(a, i) == a.current = i \/ \E n \in DOMAIN a.queue : a.queue[n] = i
InLine(e) == \A i \in DOMAIN e.live : e.live[i].actor \in DOMAIN e.actor /\ Lined(e.actor[e.live[i].actor], i)
Ordered(R, e) ==
    /\ InLine(e)
    /\ \A i \in DOMAIN e.live : i \in DOMAIN R /\ R[i].actor = e.live[i].actor /\ Passed(R, e, i)
    /\ \A r \in DOMAIN e.actor : Queued(R, e.actor[r])
    /\ \A i \in DOMAIN R : Passed(R, e, i) /\ R[i].status = "running" => i \in DOMAIN e.live

OrderInv ==
    /\ Named(rows, eng) /\ Unasked /\ Numbered(rows, eng)
    /\ Running => Ordered(rows, eng)

-----------------------------------------------------------------------------
(* Two engines, two journals that agree on all this.                       *)

Alike(e, x) ==
    /\ x.ordinals = e.ordinals /\ x.handle = e.handle /\ DOMAIN x.actor = DOMAIN e.actor
    /\ \A r \in DOMAIN e.actor :
          /\ x.actor[r].held = e.actor[r].held /\ x.actor[r].fresh = e.actor[r].fresh
          /\ x.actor[r].recorded = e.actor[r].recorded /\ x.actor[r].next = e.actor[r].next
SameRows(R, Q) ==
    /\ DOMAIN Q = DOMAIN R
    /\ \A i \in DOMAIN R : Q[i].actor = R[i].actor /\ Q[i].seq = R[i].seq /\ Q[i].text = R[i].text

LEMMA AlikeSelf ==
  ASSUME NEW e
  PROVE  Alike(e, e)
BY DEF Alike

LEMMA AlikeOn ==
  ASSUME NEW e, NEW x, NEW y, Alike(e, x), Alike(x, y)
  PROVE  Alike(e, y)
BY DEF Alike

LEMMA SameRowsOf ==
  ASSUME NEW R, NEW Q, SameRows(R, Q), NEW r
  PROVE  RowsOf(Q, r) = RowsOf(R, r) /\ \A n : Filled(R, r, n) => Filled(Q, r, n)
<1>1. RowsOf(Q, r) = RowsOf(R, r)
  BY DEF SameRows, RowsOf
<1>2. \A i \in RowsOf(R, r) : Q[i].seq = R[i].seq
  BY DEF SameRows, RowsOf
<1>3. ASSUME NEW n, Filled(R, r, n) PROVE Filled(Q, r, n)
  BY <1>1, <1>2, <1>3 DEF Filled
<1> QED
  BY <1>1, <1>3

LEMMA NamedSame ==
  ASSUME NEW R, NEW Q, SameRows(R, Q), NEW e, NEW x, Alike(e, x), Named(R, e)
  PROVE  Named(Q, x)
<1>1. \A g \in Agents : /\ x.handle[g] = None => x.ordinals[ActorSite[g]] = 0
                        /\ x.handle[g] # None => x.handle[g] = <<ActorSite[g], 1>>
  BY DEF Named, Alike
<1>2. \A i \in DOMAIN Q : Matches(i, Q[i].text, Q[i].actor)
  BY DEF Named, SameRows
<1>3. ASSUME NEW r \in DOMAIN x.actor
      PROVE  /\ \A p \in DOMAIN x.actor[r].held :
                   Matches(x.actor[r].held[p].inst, x.actor[r].held[p].text, r)
             /\ \A n \in DOMAIN x.actor[r].fresh :
                   Matches(x.actor[r].fresh[n].inst, x.actor[r].fresh[n].text, r)
  BY DEF Named, Alike
<1> QED
  BY <1>1, <1>2, <1>3 DEF Named

LEMMA NumberedSame ==
  ASSUME NEW R, NEW Q, SameRows(R, Q), NEW e, NEW x, Alike(e, x), Numbered(R, e)
  PROVE  Numbered(Q, x)
<1>1. ASSUME NEW r \in ActorRefs, r \notin DOMAIN x.actor
      PROVE  Filled(Q, r, Cardinality(RowsOf(Q, r)))
  <2>1. Filled(R, r, Cardinality(RowsOf(R, r)))
    BY <1>1 DEF Numbered, Alike
  <2> QED
    BY <2>1, SameRowsOf
<1>2. ASSUME NEW r \in DOMAIN x.actor PROVE Numbering(Q, x, r)
  <2>1. PICK a : a = e.actor[r]
    OBVIOUS
  <2>2. PICK b : b = x.actor[r]
    OBVIOUS
  <2>3. /\ r \in DOMAIN e.actor /\ x.ordinals = e.ordinals
        /\ b.held = a.held /\ b.fresh = a.fresh /\ b.recorded = a.recorded /\ b.next = a.next
    BY <2>1, <2>2 DEF Alike
  <2>4. /\ Filled(R, r, Width(a))
        /\ \A p \in DOMAIN a.held :
              p >= a.next /\ a.held[p].inst \in RowsOf(R, r) /\ R[a.held[p].inst].seq = p
        /\ \A n \in DOMAIN a.fresh : a.fresh[n].inst \notin DOMAIN R
        /\ \A i \in RowsOf(R, r) : R[i].seq < a.next => i[2] <= e.ordinals[i[1]]
    BY <2>1, <2>3 DEF Numbered, Numbering
  <2>5. RowsOf(Q, r) = RowsOf(R, r) /\ DOMAIN Q = DOMAIN R /\ \A i \in RowsOf(R, r) : Q[i].seq = R[i].seq
    BY SameRowsOf DEF SameRows, RowsOf
  <2>6. Filled(Q, r, Width(b))
    BY <2>3, <2>4, SameRowsOf DEF Width
  <2>7. /\ \A p \in DOMAIN b.held :
              p >= b.next /\ b.held[p].inst \in RowsOf(Q, r) /\ Q[b.held[p].inst].seq = p
        /\ \A n \in DOMAIN b.fresh : b.fresh[n].inst \notin DOMAIN Q
        /\ \A i \in RowsOf(Q, r) : Q[i].seq < b.next => i[2] <= x.ordinals[i[1]]
    BY <2>3, <2>4, <2>5
  <2> QED
    BY <2>2, <2>6, <2>7 DEF Numbering
<1> QED
  BY <1>1, <1>2 DEF Numbered

\* n rows numbered from 0 are n rows.
LEMMA FilledIs ==
  ASSUME NEW R, NEW r, NEW n \in Nat, Filled(R, r, n), IsFiniteSet(DOMAIN R)
  PROVE  Cardinality(RowsOf(R, r)) = n
<1>1. IsFiniteSet(RowsOf(R, r))
  <2>1. RowsOf(R, r) \in SUBSET DOMAIN R
    BY DEF RowsOf
  <2> QED
    BY <2>1, FS_Subset
<1> DEFINE f == [i \in RowsOf(R, r) |-> R[i].seq]
<1>2. f \in Injection(RowsOf(R, r), 0..(n - 1)) /\ f \in Surjection(RowsOf(R, r), 0..(n - 1))
  BY DEF Filled, Injection, IsInjective, Surjection
<1>3. IsFiniteSet(0..(n - 1)) /\ Cardinality(0..(n - 1)) = n
  BY FS_Interval
<1> QED
  BY <1>1, <1>2, <1>3, FS_Surjection

-----------------------------------------------------------------------------
(* Slots, sessions and settlements keep the order.                         *)

LEMMA PumpOrders ==
  ASSUME NEW R, NEW e, EngineShape(e), cap \in Nat, e.active <= cap,
         NEW refs \in Seq(DOMAIN e.actor), NEW x, x = Pump(e, refs)
  PROVE  Alike(e, x) /\ (Ordered(R, e) => Ordered(R, x))
<1> DEFINE T == Taken(e, refs)
<1>1. e.active \in Nat /\ \A r \in DOMAIN e.actor : ActorShape(e.actor[r])
  BY DEF EngineShape
<1>2. /\ x.ordinals = e.ordinals /\ x.handle = e.handle /\ x.live = e.live
      /\ DOMAIN x.actor = DOMAIN e.actor
      /\ \A r \in DOMAIN e.actor : x.actor[r] = IF r \in T THEN TakeTurn(e.actor[r]) ELSE e.actor[r]
  BY PumpIs
<1>3. \A r \in T : r \in DOMAIN e.actor /\ e.actor[r].queue # <<>> /\ e.actor[r].current = None
  BY <1>1, TakenIs DEF Idle
<1> HIDE DEF T
<1>4. \A r \in DOMAIN e.actor :
         /\ x.actor[r].held = e.actor[r].held /\ x.actor[r].fresh = e.actor[r].fresh
         /\ x.actor[r].recorded = e.actor[r].recorded /\ x.actor[r].next = e.actor[r].next
  BY <1>1, <1>2, <1>3, TakeTurnIs
<1>5. Alike(e, x)
  BY <1>2, <1>4 DEF Alike
<1>6. ASSUME NEW r \in DOMAIN e.actor, Queued(R, e.actor[r]) PROVE Queued(R, x.actor[r])
  <2>1. CASE r \notin T
    BY <1>2, <1>6, <2>1
  <2>2. CASE r \in T
    <3>1. PICK a : a = e.actor[r]
      OBVIOUS
    <3>2. PICK b : b = TakeTurn(a)
      OBVIOUS
    <3>3. PICK l \in Nat : l = Len(a.queue)
      BY <1>1, <1>3, <2>2, <3>1, TakeTurnIs
    <3>4. /\ b.current = a.queue[1] /\ 1 \in DOMAIN a.queue /\ DOMAIN a.queue = 1..l
          /\ DOMAIN b.queue = 1..(l - 1)
          /\ \A n \in 1..(l - 1) : b.queue[n] = a.queue[n + 1]
      BY <1>1, <1>3, <2>2, <3>1, <3>2, <3>3, TakeTurnIs
    <3>5. \A n \in 1..(l - 1) : n + 1 \in 1..l /\ 1 < n + 1
      BY <3>3
    <3>6. \A m, n \in 1..(l - 1) : m < n => m + 1 < n + 1
      BY <3>3
    <3>7. \A m, n \in DOMAIN a.queue : m < n => R[a.queue[m]].seq < R[a.queue[n]].seq
      BY <1>6, <3>1 DEF Queued
    <3>8. ASSUME NEW m \in DOMAIN b.queue, NEW n \in DOMAIN b.queue, m < n
          PROVE  R[b.queue[m]].seq < R[b.queue[n]].seq
      <4>1. PICK u \in 1..l, v \in 1..l : u = m + 1 /\ v = n + 1 /\ u < v
        BY <3>4, <3>5, <3>6, <3>8
      <4>2. b.queue[m] = a.queue[u] /\ b.queue[n] = a.queue[v]
        BY <3>4, <4>1
      <4> QED
        BY <3>4, <3>7, <4>1, <4>2
    <3>9. \A n \in DOMAIN b.queue : R[b.current].seq < R[b.queue[n]].seq
      BY <3>4, <3>5, <3>7
    <3>10. Queued(R, b)
      BY <3>8, <3>9 DEF Queued
    <3> QED
      BY <1>2, <2>2, <3>1, <3>2, <3>10
  <2> QED
    BY <2>1, <2>2
<1>7. \A i : Passed(R, x, i) <=> Passed(R, e, i)
  BY <1>2, <1>4 DEF Passed
<1>8. ASSUME InLine(e) PROVE InLine(x)
  <2>1. ASSUME NEW i \in DOMAIN x.live
        PROVE  x.live[i].actor \in DOMAIN x.actor /\ Lined(x.actor[x.live[i].actor], i)
    <3>1. PICK r \in DOMAIN e.actor : r = e.live[i].actor /\ Lined(e.actor[r], i) /\ i \in Asks
      BY <1>2, <1>8, <2>1 DEF InLine, EngineShape
    <3>2. ASSUME r \notin T PROVE Lined(x.actor[r], i)
      <4>1. x.actor[r] = e.actor[r]
        BY <1>2, <3>2
      <4> QED
        BY <3>1, <4>1
    <3>3. ASSUME r \in T PROVE Lined(x.actor[r], i)
      <4>1. PICK a : a = e.actor[r]
        OBVIOUS
      <4>2. PICK b : b = TakeTurn(a)
        OBVIOUS
      <4>3. PICK l \in Nat : l = Len(a.queue)
        BY <1>1, <1>3, <3>3, <4>1, TakeTurnIs
      <4>4. /\ b.current = a.queue[1] /\ DOMAIN a.queue = 1..l /\ DOMAIN b.queue = 1..(l - 1)
            /\ \A n \in 1..(l - 1) : b.queue[n] = a.queue[n + 1]
        BY <1>1, <1>3, <3>3, <4>1, <4>2, <4>3, TakeTurnIs
      <4>5. a.current # i
        BY <1>3, <3>1, <3>3, <4>1, NoneIsNoName
      <4>6. PICK n \in 1..l : a.queue[n] = i
        BY <3>1, <4>1, <4>4, <4>5 DEF Lined
      <4>7. ASSUME n = 1 PROVE Lined(b, i)
        BY <4>4, <4>6, <4>7 DEF Lined
      <4>8. ASSUME n # 1 PROVE Lined(b, i)
        <5>1. PICK k \in 1..(l - 1) : k + 1 = n
          <6>1. n - 1 \in 1..(l - 1) /\ (n - 1) + 1 = n
            BY <4>8
          <6> QED
            BY <6>1
        <5>2. k \in DOMAIN b.queue /\ b.queue[k] = i
          BY <4>4, <4>6, <5>1
        <5> QED
          BY <5>2 DEF Lined
      <4>9. Lined(b, i)
        BY <4>7, <4>8
      <4>10. x.actor[r] = b
        BY <1>2, <3>3, <4>1, <4>2
      <4> QED
        BY <4>9, <4>10
    <3>4. x.live[i].actor = r /\ r \in DOMAIN x.actor
      BY <1>2, <3>1
    <3> QED
      BY <3>2, <3>3, <3>4
  <2> QED
    BY <2>1 DEF InLine
<1>9. ASSUME Ordered(R, e) PROVE Ordered(R, x)
  BY <1>2, <1>6, <1>7, <1>8, <1>9 DEF Ordered
<1> QED
  BY <1>5, <1>9

\* The slot of an ask is freed, and its row is answered.
LEMMA FreeSlotOrders ==
  ASSUME NEW R, NEW Q, SameRows(R, Q), NEW e, EngineShape(e), Flights(e), NEW i \in DOMAIN e.live,
         e.live[i].actor \in DOMAIN e.actor, e.active # 0, e.actor[e.live[i].actor].current = i,
         Q[i].status # "running", \A j \in DOMAIN R : j # i => Q[j].status = R[j].status,
         NEW x, x = FreeSlot(e, i)
  PROVE  Alike(e, x) /\ (Ordered(R, e) => Ordered(Q, x))
<1>1. PICK ref : ref = e.live[i].actor
  OBVIOUS
<1>2. /\ x.ordinals = e.ordinals /\ x.handle = e.handle
      /\ DOMAIN x.live = DOMAIN e.live \ {i} /\ \A j \in DOMAIN x.live : x.live[j] = e.live[j]
      /\ DOMAIN x.actor = DOMAIN e.actor
      /\ \A r \in DOMAIN e.actor :
            /\ r # ref => x.actor[r] = e.actor[r]
            /\ x.actor[r].held = e.actor[r].held /\ x.actor[r].fresh = e.actor[r].fresh
            /\ x.actor[r].queue = e.actor[r].queue
      /\ x.actor[ref].current = None
  BY <1>1, FreeSlotIs
<1>3. x.actor[ref].recorded = e.actor[ref].recorded /\ x.actor[ref].next = e.actor[ref].next
  <2>1. ActorShape(e.actor[ref])
    BY <1>1 DEF EngineShape
  <2>2. PICK b : b = [e.actor[ref] EXCEPT !.current = None]
    OBVIOUS
  <2>3. x.actor = [e.actor EXCEPT ![ref] = b]
    BY <1>1, <2>2 DEF FreeSlot, EngineShape
  <2>4. x.actor[ref] = b
    BY <1>1, <2>3
  <2> QED
    BY <2>1, <2>2, <2>4 DEF ActorShape
<1>4. Alike(e, x)
  BY <1>2, <1>3 DEF Alike
<1>5. \A j : Q[j].status = "running" /\ j \in DOMAIN R => j # i /\ R[j].status = "running"
  OBVIOUS
<1>6. ASSUME Ordered(R, e) PROVE Ordered(Q, x)
  <2>1. \A j \in DOMAIN R : Passed(Q, x, j) <=> Passed(R, e, j)
    BY <1>4 DEF Passed, Alike, SameRows
  <2>2. ASSUME NEW r \in DOMAIN x.actor PROVE Queued(Q, x.actor[r])
    <3>1. PICK a : a = e.actor[r]
      OBVIOUS
    <3>2. PICK b : b = x.actor[r]
      OBVIOUS
    <3>3. b.queue = a.queue /\ (b.current = a.current \/ b.current = None)
      BY <1>2, <3>1, <3>2
    <3>4. Queued(R, a)
      BY <1>2, <1>6, <3>1 DEF Ordered
    <3>5. \A j \in DOMAIN e.live : Q[j].seq = R[j].seq
      BY <1>6 DEF Ordered, SameRows
    <3>6. /\ a.current # None => a.current \in DOMAIN e.live
          /\ \A n \in DOMAIN a.queue : a.queue[n] \in DOMAIN e.live
      BY <1>2, <3>1 DEF Flights, Holds
    <3>7. \A n \in DOMAIN a.queue : Q[a.queue[n]].seq = R[a.queue[n]].seq
      BY <3>5, <3>6
    <3>8. a.current # None => Q[a.current].seq = R[a.current].seq
      BY <3>5, <3>6
    <3>9. Queued(Q, b)
      BY <3>3, <3>4, <3>7, <3>8 DEF Queued
    <3> QED
      BY <3>2, <3>9
  <2>3. /\ \A j \in DOMAIN x.live : j \in DOMAIN Q /\ Q[j].actor = x.live[j].actor /\ Passed(Q, x, j)
        /\ \A j \in DOMAIN Q : Passed(Q, x, j) /\ Q[j].status = "running" => j \in DOMAIN x.live
    BY <1>2, <1>5, <1>6, <2>1 DEF Ordered, SameRows
  <2>4. InLine(x)
    <3>1. ASSUME NEW j \in DOMAIN x.live
          PROVE  x.live[j].actor \in DOMAIN x.actor /\ Lined(x.actor[x.live[j].actor], j)
      <4>1. PICK r \in DOMAIN e.actor : r = e.live[j].actor /\ Lined(e.actor[r], j) /\ j # i
        BY <1>2, <1>6, <3>1 DEF Ordered, InLine
      <4>2. r # ref => x.actor[r] = e.actor[r]
        BY <1>2, <4>1
      <4>3. r = ref => e.actor[r].current # j /\ x.actor[r].queue = e.actor[r].queue
        BY <1>1, <1>2, <4>1
      <4>4. Lined(x.actor[r], j)
        BY <4>1, <4>2, <4>3 DEF Lined
      <4> QED
        BY <1>2, <3>1, <4>1, <4>4
    <3> QED
      BY <3>1 DEF InLine
  <2> QED
    BY <2>2, <2>3, <2>4 DEF Ordered
<1> QED
  BY <1>4, <1>6

\* A step that gives no new name or number.
LEMMA OrderKeeps ==
  ASSUME OrderInv, Alike(eng, eng'), SameRows(rows, rows'), Made \subseteq Made',
         Running' => Ordered(rows', eng')
  PROVE  OrderInv'
<1>1. Named(rows', eng') /\ Numbered(rows', eng')
  BY NamedSame, NumberedSame DEF OrderInv
<1>2. ASSUME NEW x \in Steps, x \notin Made' PROVE eng'.ordinals[AskAt(x).site] = 0
  <2>1. eng'.ordinals = eng.ordinals /\ x \notin Made
    BY <1>2 DEF Alike
  <2> QED
    BY <1>2, <2>1 DEF OrderInv, Unasked
<1>3. Unasked'
  BY <1>2 DEF Unasked, Steps, Strands, AskAt
<1> QED
  BY <1>1, <1>3 DEF OrderInv, Named, Matches, Steps, Strands, AskAt, Agents,
     Numbered, Numbering, Filled, RowsOf, Width, Ordered, InLine, Lined, Passed, Queued, ActorRefs

LEMMA RowsSelf ==
  ASSUME NEW R
  PROVE  SameRows(R, R)
BY DEF SameRows

\* An ask is settled: its slot goes to the next.
LEMMA SettleOrders ==
  ASSUME IInv, OrderInv, Running, NEW i \in DOMAIN eng.live, eng.actor[eng.live[i].actor].current = i,
         NEW status \in {"completed", "failed"}, SettleNode(i, status), UNCHANGED pc
  PROVE  OrderInv'
<1>1. cap \in Nat /\ EngineInv(eng, cap) /\ EngineShape(eng) /\ Flights(eng)
      /\ eng.live[i].actor \in DOMAIN eng.actor
  BY DEF IInv, Bounded, Scheduler, EngineInv, Flights
<1>2. i \in DOMAIN rows /\ \A j \in DOMAIN rows : RowShape(j)
  BY DEF IInv, Journal
<1>3. rows' = [rows EXCEPT ![i].status = status, ![i].answer = life]
  BY DEF SettleNode
<1>4. DOMAIN rows' = DOMAIN rows /\ \A j \in DOMAIN rows : j # i => rows'[j] = rows[j]
  BY <1>3
<1>5. rows'[i].actor = rows[i].actor /\ rows'[i].seq = rows[i].seq /\ rows'[i].text = rows[i].text
      /\ rows'[i].status = status
  <2>1. PICK b : b = rows[i]
    OBVIOUS
  <2>2. b = [actor |-> b.actor, seq |-> b.seq, text |-> b.text, status |-> b.status, answer |-> b.answer]
    BY <1>2, <2>1 DEF RowShape
  <2>3. rows'[i] = [b EXCEPT !.status = status, !.answer = life]
    BY <1>2, <1>3, <2>1
  <2> QED
    BY <2>1, <2>2, <2>3
<1>6. SameRows(rows, rows')
  BY <1>4, <1>5 DEF SameRows
<1>7. rows'[i].status # "running" /\ \A j \in DOMAIN rows : j # i => rows'[j].status = rows[j].status
  BY <1>4, <1>5
<1>8. PICK y : y = FreeSlot(eng, i)
  OBVIOUS
<1>9. EngineInv(y, cap) /\ y.order = eng.order /\ eng.active # 0
  BY <1>1, <1>8, FreeSlotKeeps
<1>10. Alike(eng, y) /\ Ordered(rows', y)
  BY <1>1, <1>6, <1>7, <1>8, <1>9, FreeSlotOrders DEF OrderInv
<1>11. eng' = Pump(y, y.order)
  BY <1>8 DEF SettleNode, FinishNode, FreeSlot
<1>12. EngineShape(y) /\ Roster(y) /\ y.order \in Seq(ActorRefs) /\ DOMAIN y.actor = Range(y.order)
       /\ y.active <= cap
  BY <1>9 DEF EngineInv, EngineShape, Roster, Slots
<1>13. y.order \in Seq(DOMAIN y.actor)
  BY <1>12, SeqOfRange
<1>14. Alike(y, eng') /\ Ordered(rows', eng')
  BY <1>1, <1>10, <1>11, <1>12, <1>13, PumpOrders
<1>15. Alike(eng, eng') /\ Made' = Made
  BY <1>10, <1>14, AlikeOn DEF Made, Steps, Strands
<1> QED
  BY <1>6, <1>14, <1>15, OrderKeeps

-----------------------------------------------------------------------------
(* The arrival of an ask.                                                  *)

\* Only the counts of ask sites are asked of a row.
LEMMA CountsGrow ==
  ASSUME Journal, NEW e, NEW x, EngineShape(e), EngineShape(x),
         \A t \in AskSites : e.ordinals[t] <= x.ordinals[t],
         NEW i \in DOMAIN rows, i[2] <= e.ordinals[i[1]]
  PROVE  i[2] <= x.ordinals[i[1]]
<1>1. i[1] \in AskSites /\ i[2] \in Nat
  <2>1. PICK k \in Nat : k = Cardinality(Steps)
    BY StepsAreFinite
  <2>2. i \in AskSites \X (1..k)
    BY <2>1 DEF Journal, Instances, Steps
  <2> QED
    BY <2>2
<1>2. e.ordinals[i[1]] \in Nat /\ x.ordinals[i[1]] \in Nat /\ e.ordinals[i[1]] <= x.ordinals[i[1]]
  BY <1>1, SitesDiffer DEF EngineShape
<1> QED
  BY <1>1, <1>2

LEMMA CreateActorOrders ==
  ASSUME OnePass, Journal, NEW e, EngineShape(e), Roster(e), NEW agent \in Agents,
         NEW x, x = CreateActor(e, agent), Named(rows, e), Numbered(rows, e), Ordered(rows, e)
  PROVE  /\ Named(rows, x) /\ Numbered(rows, x) /\ Ordered(rows, x)
         /\ x.handle[agent] = <<ActorSite[agent], 1>>
<1>1. CASE e.handle[agent] # None
  <2>1. x = e
    BY <1>1 DEF CreateActor
  <2> QED
    BY <1>1, <2>1 DEF Named
<1>2. CASE e.handle[agent] = None
  <2>1. IsFiniteSet(DOMAIN rows)
    BY RowsAreFinite
  <2>2. PICK ref : ref = <<ActorSite[agent], e.ordinals[ActorSite[agent]] + 1>>
    OBVIOUS
  <2>3. /\ EngineShape(x) /\ ref \in ActorRefs /\ ref \notin DOMAIN e.actor
        /\ x.live = e.live
        /\ \A t \in Sites : x.ordinals[t] = IF t = ActorSite[agent] THEN e.ordinals[t] + 1 ELSE e.ordinals[t]
        /\ \A g \in Agents : x.handle[g] = IF g = agent THEN ref ELSE e.handle[g]
        /\ DOMAIN x.actor = DOMAIN e.actor \cup {ref}
        /\ x.actor[ref] = FreshActor(ref)
        /\ \A r \in DOMAIN e.actor : x.actor[r] = e.actor[r]
    BY <1>2, <2>1, <2>2, CreateActorIs
  <2>4. e.ordinals[ActorSite[agent]] = 0 /\ ref = <<ActorSite[agent], 1>>
    BY <1>2, <2>2 DEF Named
  <2>5. ref # None
    BY <2>3, NoneIsNoName
  <2>6. ASSUME NEW g \in Agents
        PROVE  /\ x.handle[g] = None => x.ordinals[ActorSite[g]] = 0
               /\ x.handle[g] # None => x.handle[g] = <<ActorSite[g], 1>>
    <3>1. CASE g = agent
      BY <2>3, <2>4, <2>5, <3>1
    <3>2. CASE g # agent
      <4>1. ActorSite[g] # ActorSite[agent]
        BY <3>2 DEF OnePass
      <4>2. ActorSite[g] \in Sites
        BY SitesDiffer DEF Range, Agents
      <4>3. x.ordinals[ActorSite[g]] = e.ordinals[ActorSite[g]] /\ x.handle[g] = e.handle[g]
        BY <2>3, <3>2, <4>1, <4>2
      <4> QED
        BY <4>3 DEF Named
    <3> QED
      BY <3>1, <3>2
  <2>7. PICK b : b = FreshActor(ref)
    OBVIOUS
  <2>8. /\ b.held = EmptyMap /\ b.fresh = <<>> /\ b.queue = <<>> /\ b.current = None
        /\ b.next = 0 /\ b.recorded = Cardinality(RowsOf(rows, ref))
    BY <2>7 DEF FreshActor, RowsOf
  <2>9. DOMAIN b.held = {} /\ DOMAIN b.fresh = {} /\ DOMAIN b.queue = {}
    BY <2>8 DEF EmptyMap
  <2>10. Named(rows, x)
    <3>1. ASSUME NEW r \in DOMAIN x.actor
          PROVE  /\ \A p \in DOMAIN x.actor[r].held :
                       Matches(x.actor[r].held[p].inst, x.actor[r].held[p].text, r)
                 /\ \A n \in DOMAIN x.actor[r].fresh :
                       Matches(x.actor[r].fresh[n].inst, x.actor[r].fresh[n].text, r)
      <4>1. CASE r = ref
        BY <2>3, <2>7, <2>9, <4>1
      <4>2. CASE r \in DOMAIN e.actor
        BY <2>3, <4>2 DEF Named
      <4> QED
        BY <2>3, <4>1, <4>2
    <3>2. \A i \in DOMAIN rows : Matches(i, rows[i].text, rows[i].actor)
      BY DEF Named
    <3> QED
      BY <2>6, <3>1, <3>2 DEF Named
  <2>11. \A i \in DOMAIN rows : rows[i].seq \in Nat /\ ~(rows[i].seq < 0)
    BY DEF Journal, RowShape
  <2>12. \A t \in AskSites : e.ordinals[t] <= x.ordinals[t]
    <3>1. ASSUME NEW t \in AskSites PROVE e.ordinals[t] <= x.ordinals[t]
      <4>1. t # ActorSite[agent] /\ t \in Sites /\ e.ordinals[t] \in Nat
        BY SitesDiffer DEF EngineShape, Range, Agents
      <4> QED
        BY <2>3, <4>1
    <3> QED
      BY <3>1
  <2>13. Numbered(rows, x)
    <3>1. ASSUME NEW r \in DOMAIN x.actor PROVE Numbering(rows, x, r)
      <4>1. CASE r = ref
        <5>1. PICK n \in Nat : n = Cardinality(RowsOf(rows, ref))
          <6>1. RowsOf(rows, ref) \in SUBSET DOMAIN rows
            BY DEF RowsOf
          <6> QED
            BY <2>1, <6>1, FS_Subset, FS_CardinalityType
        <5>2. Width(b) = n
          BY <2>8, <5>1 DEF Width
        <5>3. Filled(rows, ref, Width(b))
          BY <2>3, <5>1, <5>2 DEF Numbered
        <5>4. \A i \in RowsOf(rows, ref) : ~(rows[i].seq < b.next)
          BY <2>8, <2>11 DEF RowsOf
        <5> QED
          BY <2>3, <2>7, <2>9, <4>1, <5>3, <5>4 DEF Numbering
      <4>2. CASE r \in DOMAIN e.actor
        <5>1. Numbering(rows, e, r) /\ x.actor[r] = e.actor[r]
          BY <2>3, <4>2 DEF Numbered
        <5>2. \A i \in RowsOf(rows, r) : i[2] <= e.ordinals[i[1]] => i[2] <= x.ordinals[i[1]]
          BY <2>3, <2>12, CountsGrow DEF RowsOf
        <5> QED
          BY <5>1, <5>2 DEF Numbering
      <4> QED
        BY <2>3, <4>1, <4>2
    <3>2. \A r \in ActorRefs : r \notin DOMAIN x.actor => Filled(rows, r, Cardinality(RowsOf(rows, r)))
      BY <2>3 DEF Numbered
    <3> QED
      BY <3>1, <3>2 DEF Numbered
  <2>14. Ordered(rows, x)
    <3>1. \A i \in DOMAIN rows : Passed(rows, x, i) <=> Passed(rows, e, i)
      BY <2>3, <2>7, <2>8, <2>11 DEF Passed
    <3>2. Queued(rows, b)
      BY <2>8, <2>9 DEF Queued
    <3>3. \A r \in DOMAIN x.actor : Queued(rows, x.actor[r])
      BY <2>3, <2>7, <3>2 DEF Ordered
    <3>4. InLine(x)
      BY <2>3 DEF Ordered, InLine
    <3> QED
      BY <2>3, <3>1, <3>3, <3>4 DEF Ordered
  <2> QED
    BY <2>3, <2>4, <2>10, <2>13, <2>14
<1> QED
  BY <1>1, <1>2

\* The ask waits with its actor, which may number it later.
LEMMA JoinOrders ==
  ASSUME Journal, cap \in Nat, NEW e, EngineInv(e, cap), NoIdle(e, cap),
         Named(rows, e), Numbered(rows, e), Ordered(rows, e),
         NEW t \in AskSites, NEW ref \in DOMAIN e.actor,
         NEW a, ActorShape(a), Single(a),
         Waiting(a) \subseteq Waiting(e.actor[ref]) \cup {<<t, e.ordinals[t] + 1>>},
         a.queue = e.actor[ref].queue, a.current = e.actor[ref].current,
         a.session = e.actor[ref].session, a.recorded = e.actor[ref].recorded,
         a.next = e.actor[ref].next,
         \A p \in DOMAIN a.held :
            /\ p >= a.next /\ a.held[p].inst \in RowsOf(rows, ref) /\ rows[a.held[p].inst].seq = p
            /\ Matches(a.held[p].inst, a.held[p].text, ref),
         \A n \in DOMAIN a.fresh :
            a.fresh[n].inst \notin DOMAIN rows /\ Matches(a.fresh[n].inst, a.fresh[n].text, ref),
         NEW x, x = Joined(e, t, ref, a)
  PROVE  Named(rows, x) /\ Numbered(rows, x) /\ Ordered(rows, x)
<1>0. PICK inst : inst = <<t, e.ordinals[t] + 1>>
  OBVIOUS
<1>1. /\ EngineInv(x, cap) /\ x.live = e.live /\ x.handle = e.handle
      /\ DOMAIN x.actor = DOMAIN e.actor /\ x.actor[ref] = a
      /\ \A u \in Sites : x.ordinals[u] = IF u = t THEN e.ordinals[u] + 1 ELSE e.ordinals[u]
  BY <1>0, JoinKeeps
<1>2. EngineShape(e) /\ EngineShape(x)
  BY <1>1 DEF EngineInv
<1>3. \A r \in DOMAIN e.actor : r # ref => x.actor[r] = e.actor[r]
  <2>1. x.actor = [e.actor EXCEPT ![ref] = a]
    BY <1>2 DEF Joined, EngineShape
  <2> QED
    BY <2>1
<1>4. \A u \in AskSites : e.ordinals[u] <= x.ordinals[u]
  <2>1. \A u \in AskSites : u \in Sites /\ e.ordinals[u] \in Nat
    BY <1>2, SitesDiffer DEF EngineShape
  <2> QED
    BY <1>1, <2>1
<1>5. \A g \in Agents : x.ordinals[ActorSite[g]] = e.ordinals[ActorSite[g]]
  <2>1. ASSUME NEW g \in Agents PROVE ActorSite[g] \in Sites /\ ActorSite[g] # t
    BY SitesDiffer DEF Range, Agents
  <2> QED
    BY <1>1, <2>1
<1>6. Named(rows, x)
  BY <1>1, <1>3, <1>5 DEF Named
<1>7. ASSUME NEW r \in DOMAIN x.actor PROVE Numbering(rows, x, r)
  <2>1. Numbering(rows, e, r)
    BY <1>1 DEF Numbered
  <2>2. \A i \in RowsOf(rows, r) : i[2] <= e.ordinals[i[1]] => i[2] <= x.ordinals[i[1]]
    BY <1>2, <1>4, CountsGrow DEF RowsOf
  <2>3. CASE r = ref
    <3>1. Filled(rows, ref, Width(a)) /\ \A i \in RowsOf(rows, ref) : rows[i].seq < a.next => i[2] <= e.ordinals[i[1]]
      BY <2>1, <2>3 DEF Numbering, Width
    <3> QED
      BY <1>1, <2>2, <2>3, <3>1 DEF Numbering
  <2>4. CASE r # ref
    BY <1>1, <1>3, <2>1, <2>2, <2>4 DEF Numbering
  <2> QED
    BY <2>3, <2>4
<1>8. Numbered(rows, x)
  BY <1>1, <1>7 DEF Numbered
<1>9. Ordered(rows, x)
  <2>1. \A i \in DOMAIN rows : Passed(rows, x, i) <=> Passed(rows, e, i)
    BY <1>1, <1>3 DEF Passed
  <2>2. \A r \in DOMAIN x.actor : Queued(rows, x.actor[r])
    BY SMTT(20), <1>1, <1>3 DEF Ordered, Queued
  <2>3. InLine(x)
    BY SMTT(20), <1>1, <1>3 DEF Ordered, InLine, Lined
  <2> QED
    BY <1>1, <2>1, <2>2, <2>3 DEF Ordered
<1> QED
  BY <1>6, <1>8, <1>9

-----------------------------------------------------------------------------
(* What an actor lets through.                                             *)

\* The released positions follow each other from the next one on.
LEMMA ReleasedAt ==
  ASSUME NEW a, ActorShape(a), NEW out, out = Released(a)
  PROVE  /\ \A n \in DOMAIN out :
               /\ n \in Nat /\ out[n].seq = n + a.next - 1
               /\ out[n].seq \in a.next..(DrainEnd(a) - 1)
               /\ out[n].call = CallAt(a, out[n].seq)
         /\ \A p \in a.next..(DrainEnd(a) - 1) : \E n \in DOMAIN out : out[n].seq = p
<1>1. PICK z \in Nat : z = a.next
  BY DEF ActorShape
<1>2. PICK e \in Nat : e = DrainEnd(a) /\ z <= e
  BY <1>1, DrainEndIs
<1>3. PICK l \in Nat : l = e - z
  BY <1>2
<1>4. out = [n \in 1..l |-> [call |-> CallAt(a, z + n - 1), seq |-> z + n - 1]]
  BY <1>1, <1>2, <1>3 DEF Released
<1>5. DOMAIN out = 1..l
  BY <1>4
<1>6. \A n \in 1..l : out[n].call = CallAt(a, out[n].seq) /\ out[n].seq = z + n - 1
  BY <1>4
<1>7. \A n \in 1..l : z + n - 1 = n + z - 1 /\ z + n - 1 \in z..(e - 1)
  BY <1>3
<1>8. ASSUME NEW p \in z..(e - 1) PROVE \E n \in 1..l : out[n].seq = p
  <2>1. PICK n \in 1..l : n = p - z + 1
    BY <1>3
  <2>2. z + n - 1 = p
    BY <2>1
  <2> QED
    BY <1>6, <2>2
<1>9. ASSUME NEW n \in DOMAIN out
      PROVE  /\ n \in Nat /\ out[n].seq = n + z - 1 /\ out[n].seq \in z..(e - 1)
             /\ out[n].call = CallAt(a, out[n].seq)
  <2>1. n \in 1..l
    BY <1>5
  <2> QED
    BY <1>6, <1>7, <2>1
<1>10. \A p \in z..(e - 1) : \E n \in DOMAIN out : out[n].seq = p
  BY <1>5, <1>8
<1> QED
  BY <1>1, <1>2, <1>9, <1>10

\* A released ask has the row of its position, or, past the last row, none.
Placed(ref, a, c, p) ==
    /\ Matches(c.inst, c.text, ref) /\ c.inst \in Waiting(a)
    /\ \/ p < Width(a) /\ c.inst \in RowsOf(rows, ref) /\ rows[c.inst].seq = p
       \/ Width(a) <= p /\ c.inst \notin DOMAIN rows

LEMMA ReleasedFits ==
  ASSUME NEW e, EngineShape(e), Names(e), Named(rows, e), Numbered(rows, e), NEW ref \in DOMAIN e.actor,
         NEW a, a = e.actor[ref], NEW out, out = Released(a)
  PROVE  /\ Width(a) \in Nat /\ a.next <= Width(a) /\ a.recorded <= Width(a)
         /\ \A n \in DOMAIN out : Placed(ref, a, out[n].call, out[n].seq)
         /\ \A p \in Width(a)..(DrainEnd(a) - 1) : \E n \in Begun(out) : out[n].seq = p
<1>1. ActorShape(a) /\ Single(a) /\ Numbering(rows, e, ref)
  BY DEF EngineShape, Names, Numbered
<1>2. PICK z \in Nat, w \in Nat : z = a.next /\ w = Width(a) /\ z <= w /\ a.recorded <= w
  BY <1>1 DEF ActorShape, Width
<1>3. Filled(rows, ref, w)
  BY <1>1, <1>2 DEF Numbering
<1>4. ASSUME NEW n \in DOMAIN out PROVE Placed(ref, a, out[n].call, out[n].seq)
  <2>1. PICK p \in z..(DrainEnd(a) - 1) : p = out[n].seq
    BY <1>1, <1>2, ReleasedAt
  <2>2. PICK c : c = out[n].call
    OBVIOUS
  <2>3. c = CallAt(a, p) /\ p \in Nat /\ c.inst \in Waiting(a)
    BY <1>1, <1>2, <2>1, <2>2, ReleasedAt, ReleasedIs
  <2>4. CASE p \in DOMAIN a.held
    <3>1. c = a.held[p]
      BY <1>1, <1>2, <2>1, <2>3, <2>4, CallAtIs
    <3>2. Matches(c.inst, c.text, ref)
      BY <2>4, <3>1 DEF Named
    <3>3. c.inst \in RowsOf(rows, ref) /\ rows[c.inst].seq = p
      BY <1>1, <2>4, <3>1 DEF Numbering
    <3>4. p < w
      BY <1>2, <1>3, <2>3, <3>3 DEF Filled
    <3> QED
      BY <1>2, <2>1, <2>2, <2>3, <3>2, <3>3, <3>4 DEF Placed
  <2>5. CASE p \notin DOMAIN a.held
    <3>1. PICK k \in DOMAIN a.fresh : c = a.fresh[k]
      BY <1>1, <1>2, <2>1, <2>3, <2>5, CallAtIs
    <3>2. Matches(c.inst, c.text, ref)
      BY <3>1 DEF Named
    <3>3. c.inst \notin DOMAIN rows
      BY <1>1, <3>1 DEF Numbering
    <3>4. ~Blocked(a, p)
      BY <1>1, <1>2, <2>1, DrainEndIs
    <3>5. ~(p < a.recorded) /\ a.recorded \in Nat /\ z <= p
      BY <1>1, <1>2, <2>1, <2>5, <3>4 DEF Blocked, ActorShape
    <3>6. w <= p
      BY <1>2, <2>3, <3>5 DEF Width
    <3> QED
      BY <1>2, <2>1, <2>2, <2>3, <3>2, <3>3, <3>6 DEF Placed
  <2> QED
    BY <2>4, <2>5
<1>5. ASSUME NEW p \in w..(DrainEnd(a) - 1) PROVE \E n \in Begun(out) : out[n].seq = p
  <2>1. DrainEnd(a) \in Nat
    BY <1>1, DrainEndIs
  <2>2. p \in z..(DrainEnd(a) - 1)
    BY <1>2, <2>1
  <2>3. PICK n \in DOMAIN out : out[n].seq = p
    BY <1>1, <1>2, <2>2, ReleasedAt
  <2>4. ~(p < w)
    BY <2>1
  <2>5. out[n].call.inst \notin DOMAIN rows
    BY <1>2, <1>4, <2>3, <2>4 DEF Placed
  <2>6. n \in Begun(out)
    BY <2>5 DEF Begun, Cached, Final
  <2> QED
    BY <2>3, <2>6
<1> QED
  BY <1>2, <1>4, <1>5

\* The journal with the rows of the asks that begin.
Written(ref, out) ==
    [i \in DOMAIN rows \cup Opened(out) |->
        IF i \in Opened(out)
        THEN [actor |-> ref, seq |-> Entry(out, i).seq, text |-> Entry(out, i).call.text,
              status |-> "running", answer |-> 0]
        ELSE rows[i]]

Extends(ref, a, out, Q) ==
    /\ DOMAIN Q = DOMAIN rows \cup Opened(out)
    /\ \A i \in DOMAIN rows : Q[i].actor = rows[i].actor /\ Q[i].seq = rows[i].seq
    /\ \A i \in DOMAIN rows : i \notin Opened(out) => Q[i] = rows[i]
    /\ \A i \in Opened(out) :
          /\ Q[i].actor = ref /\ Matches(i, Q[i].text, ref) /\ i \in Waiting(a)
          /\ Q[i].seq \in a.next..(DrainEnd(a) - 1)
          /\ i \notin DOMAIN rows => Width(a) <= Q[i].seq
    /\ \A n \in Begun(out) : Q[out[n].call.inst].seq = out[n].seq
    /\ \A r : r # ref => RowsOf(Q, r) = RowsOf(rows, r)
    /\ RowsOf(Q, ref) = RowsOf(rows, ref) \cup Opened(out)

LEMMA WrittenIs ==
  ASSUME NEW e, EngineShape(e), Names(e), Named(rows, e), Numbered(rows, e), NEW ref \in DOMAIN e.actor,
         NEW a, a = e.actor[ref], NEW out, out = Released(a), NEW Q, Q = Written(ref, out)
  PROVE  Extends(ref, a, out, Q)
<1> DEFINE O == Opened(out)
<1>1. ActorShape(a) /\ Single(a)
  BY DEF EngineShape, Names
<1>2. /\ DOMAIN Q = DOMAIN rows \cup O
      /\ \A i \in DOMAIN rows : i \notin O => Q[i] = rows[i]
      /\ \A i \in O : Q[i].actor = ref /\ Q[i].seq = Entry(out, i).seq /\ Q[i].text = Entry(out, i).call.text
  BY DEF Written
<1>3. \A m, n \in DOMAIN out : out[m].call.inst = out[n].call.inst => m = n
  BY <1>1, ReleasedIs
<1>4. \A n \in Begun(out) : n \in DOMAIN out /\ out[n].call.inst \in O
  BY DEF Begun, Opened
<1>5. ASSUME NEW n \in Begun(out) PROVE Entry(out, out[n].call.inst) = out[n]
  <2>1. PICK i : i = out[n].call.inst
    OBVIOUS
  <2>2. PICK k \in Begun(out) : k = (CHOOSE j \in Begun(out) : out[j].call.inst = i) /\ out[k].call.inst = i
    BY <2>1
  <2>3. k = n
    BY <1>3, <1>4, <2>1, <2>2
  <2> QED
    BY <2>1, <2>2, <2>3 DEF Entry
<1>6. ASSUME NEW i \in O PROVE \E n \in Begun(out) : out[n].call.inst = i /\ Entry(out, i) = out[n]
  <2>1. PICK n \in Begun(out) : out[n].call.inst = i
    BY DEF Opened
  <2> QED
    BY <1>5, <2>1
<1>7. ASSUME NEW i \in O
      PROVE  /\ Q[i].actor = ref /\ Matches(i, Q[i].text, ref) /\ i \in Waiting(a)
             /\ Q[i].seq \in a.next..(DrainEnd(a) - 1)
             /\ i \notin DOMAIN rows => Width(a) <= Q[i].seq
             /\ i \in DOMAIN rows => rows[i].actor = ref /\ rows[i].seq = Q[i].seq
  <2>1. PICK n \in Begun(out) : out[n].call.inst = i /\ Entry(out, i) = out[n]
    BY <1>6
  <2>2. n \in DOMAIN out /\ Placed(ref, a, out[n].call, out[n].seq)
    BY <1>4, ReleasedFits
  <2>3. out[n].seq \in a.next..(DrainEnd(a) - 1)
    BY <1>1, <2>2, ReleasedAt
  <2>4. Q[i].actor = ref /\ Q[i].seq = out[n].seq /\ Q[i].text = out[n].call.text
    BY <1>2, <2>1
  <2> QED
    BY <2>1, <2>2, <2>3, <2>4 DEF Placed, RowsOf
<1>8. \A n \in Begun(out) : Q[out[n].call.inst].seq = out[n].seq
  BY <1>2, <1>4, <1>5
<1>9. \A i \in DOMAIN rows : Q[i].actor = rows[i].actor /\ Q[i].seq = rows[i].seq
  BY <1>2, <1>7
<1>10. \A r : r # ref => RowsOf(Q, r) = RowsOf(rows, r)
  BY <1>2, <1>7, <1>9 DEF RowsOf
<1>11. RowsOf(Q, ref) = RowsOf(rows, ref) \cup O
  BY <1>2, <1>7, <1>9 DEF RowsOf
<1> QED
  BY <1>2, <1>7, <1>8, <1>9, <1>10, <1>11 DEF Extends

\* One actor's asks are let through: the names, the numbers and the order
\* hold of the new journal.
LEMMA EnteredNumbers ==
  ASSUME cap \in Nat, NEW e, EngineInv(e, cap),
         Named(rows, e), Numbered(rows, e), NEW ref \in DOMAIN e.actor,
         NEW a, a = e.actor[ref], NEW out, out = Released(a), NEW Q, Q = Written(ref, out),
         NEW x, x = Entered(e, ref)
  PROVE  Named(Q, x) /\ Numbered(Q, x)
<1>1. /\ EngineShape(e) /\ Names(e) /\ Single(e.actor[ref]) /\ ActorShape(e.actor[ref])
  BY DEF EngineInv, EngineShape, Names
<1>2. ActorShape(a) /\ Single(a)
  BY <1>1
<1>3. PICK b : b = Drained(a)
  OBVIOUS
<1> DEFINE O == Opened(out)
<1>4. /\ x.ordinals = e.ordinals /\ x.handle = e.handle
      /\ DOMAIN x.actor = DOMAIN e.actor /\ x.actor[ref] = b
      /\ \A r \in DOMAIN e.actor : r # ref => x.actor[r] = e.actor[r]
  BY <1>1, <1>2, <1>3, EnteredIs
<1>5. PICK z \in Nat, w \in Nat, d \in Nat :
         z = a.next /\ w = Width(a) /\ d = DrainEnd(a) /\ z <= w /\ z <= d /\ a.recorded <= w
  BY <1>1, <1>2, ReleasedFits, DrainEndIs DEF ActorShape
<1>6. /\ b.next = d /\ b.recorded = a.recorded
      /\ \A p \in DOMAIN b.held : p \in DOMAIN a.held /\ p \notin z..(d - 1) /\ b.held[p] = a.held[p]
      /\ \A n \in DOMAIN b.fresh : \E k \in DOMAIN a.fresh : b.fresh[n] = a.fresh[k]
      /\ \A n \in DOMAIN out : out[n].call.inst \notin Waiting(b)
  BY <1>1, <1>2, <1>3, <1>5, DrainedHas DEF Remains
<1>7. /\ DOMAIN Q = DOMAIN rows \cup O
      /\ \A i \in DOMAIN rows : Q[i].actor = rows[i].actor /\ Q[i].seq = rows[i].seq
      /\ \A i \in DOMAIN rows : i \notin O => Q[i] = rows[i]
      /\ \A i \in O :
            /\ Q[i].actor = ref /\ Matches(i, Q[i].text, ref) /\ i \in Waiting(a)
            /\ Q[i].seq \in z..(d - 1)
            /\ i \notin DOMAIN rows => w <= Q[i].seq
      /\ \A n \in Begun(out) : Q[out[n].call.inst].seq = out[n].seq
      /\ \A r : r # ref => RowsOf(Q, r) = RowsOf(rows, r)
      /\ RowsOf(Q, ref) = RowsOf(rows, ref) \cup O
  <2>1. EngineShape(e) /\ Names(e)
    BY <1>1
  <2>2. Extends(ref, a, out, Q)
    BY <2>1, WrittenIs
  <2> QED
    BY <1>5, <2>2 DEF Extends
<1>8. /\ \A n \in DOMAIN out : Placed(ref, a, out[n].call, out[n].seq)
      /\ \A p \in w..(d - 1) : \E n \in Begun(out) : out[n].seq = p
      /\ \A p \in z..(d - 1) : \E n \in DOMAIN out : out[n].seq = p
      /\ \A n \in DOMAIN out : n \in Nat /\ out[n].seq = n + z - 1
  <2>1. EngineShape(e) /\ Names(e)
    BY <1>1
  <2>2. \A n \in DOMAIN out : Placed(ref, a, out[n].call, out[n].seq)
    BY <2>1, ReleasedFits
  <2>4. \A p \in Width(a)..(DrainEnd(a) - 1) : \E n \in Begun(out) : out[n].seq = p
    BY <2>1, ReleasedFits
  <2>3. /\ \A p \in a.next..(DrainEnd(a) - 1) : \E n \in DOMAIN out : out[n].seq = p
        /\ \A n \in DOMAIN out : n \in Nat /\ out[n].seq = n + a.next - 1
    BY <1>2, ReleasedAt
  <2> QED
    BY <1>5, <2>2, <2>3, <2>4
<1>9. /\ \A n \in Begun(out) : n \in DOMAIN out /\ out[n].call.inst \in O
      /\ \A i \in O : \E n \in Begun(out) : i = out[n].call.inst
  BY DEF Begun, Opened
<1> HIDE DEF O
<1>10. Numbering(rows, e, ref) /\ Filled(rows, ref, w)
  BY <1>2, <1>5 DEF Numbered, Numbering
<1>11. Named(Q, x)
  <2>1. ASSUME NEW i \in DOMAIN Q PROVE Matches(i, Q[i].text, Q[i].actor)
    BY <1>7 DEF Named
  <2>2. ASSUME NEW r \in DOMAIN x.actor
        PROVE  /\ \A p \in DOMAIN x.actor[r].held :
                     Matches(x.actor[r].held[p].inst, x.actor[r].held[p].text, r)
               /\ \A n \in DOMAIN x.actor[r].fresh :
                     Matches(x.actor[r].fresh[n].inst, x.actor[r].fresh[n].text, r)
    <3>1. CASE r = ref
      <4>1. /\ \A p \in DOMAIN a.held : Matches(a.held[p].inst, a.held[p].text, r)
            /\ \A n \in DOMAIN a.fresh : Matches(a.fresh[n].inst, a.fresh[n].text, r)
        BY <1>2, <3>1 DEF Named
      <4> QED
        BY <1>4, <1>6, <3>1, <4>1
    <3>2. CASE r # ref
      BY <1>4, <3>2 DEF Named
    <3> QED
      BY <3>1, <3>2
  <2> QED
    BY <1>4, <2>1, <2>2 DEF Named
<1>12. Filled(Q, ref, Width(b))
  <2>1. PICK v \in Nat : v = Width(b) /\ v = IF d <= w THEN w ELSE d
    BY <1>1, <1>2, <1>5, <1>6 DEF Width, ActorShape
  <2>2. \A i \in RowsOf(rows, ref) : i \in DOMAIN rows /\ Q[i].seq = rows[i].seq /\ Q[i].seq \in 0..(w - 1)
    BY <1>7, <1>10 DEF Filled, RowsOf
  <2>3. \A i \in O : i \notin RowsOf(rows, ref) => Q[i].seq \in w..(d - 1)
    <3>1. ASSUME NEW i \in O, i \in DOMAIN rows PROVE i \in RowsOf(rows, ref)
      BY <1>7, <3>1 DEF RowsOf
    <3> QED
      BY <1>7, <3>1
  <2>4. \A i \in RowsOf(Q, ref) : Q[i].seq \in 0..(v - 1)
    BY <1>7, <2>1, <2>2, <2>3
  <2>5. ASSUME NEW p \in 0..(v - 1) PROVE \E i \in RowsOf(Q, ref) : Q[i].seq = p
    <3>1. CASE p < w
      <4>1. PICK i \in RowsOf(rows, ref) : rows[i].seq = p
        BY <1>10, <3>1 DEF Filled
      <4> QED
        BY <1>7, <2>2, <4>1
    <3>2. CASE ~(p < w)
      <4>1. p \in w..(d - 1)
        BY <2>1, <3>2
      <4>2. PICK n \in Begun(out) : out[n].seq = p
        BY <1>8, <4>1
      <4> QED
        BY <1>7, <1>9, <4>2
    <3> QED
      BY <3>1, <3>2
  <2>6. ASSUME NEW i \in RowsOf(Q, ref), NEW j \in RowsOf(Q, ref), Q[i].seq = Q[j].seq PROVE i = j
    <3>1. CASE i \in RowsOf(rows, ref) /\ j \in RowsOf(rows, ref)
      BY <1>10, <2>2, <2>6, <3>1 DEF Filled
    <3>2. CASE i \in RowsOf(rows, ref) /\ j \notin RowsOf(rows, ref)
      BY <1>7, <2>2, <2>3, <2>6, <3>2
    <3>3. CASE i \notin RowsOf(rows, ref) /\ j \in RowsOf(rows, ref)
      BY <1>7, <2>2, <2>3, <2>6, <3>3
    <3>4. CASE i \in O /\ j \in O
      <4>1. PICK m \in Begun(out), n \in Begun(out) : i = out[m].call.inst /\ j = out[n].call.inst
        BY <1>9, <3>4
      <4>2. out[m].seq = out[n].seq
        BY <1>7, <2>6, <4>1
      <4>3. m + z - 1 = n + z - 1 /\ m \in Nat /\ n \in Nat
        BY <1>8, <1>9, <4>2
      <4> QED
        BY <4>1, <4>3
    <3> QED
      BY <1>7, <3>1, <3>2, <3>3, <3>4
  <2> QED
    BY <2>1, <2>4, <2>5, <2>6 DEF Filled
<1>13. Numbering(Q, x, ref)
  <2>1. ASSUME NEW p \in DOMAIN b.held
        PROVE  p >= d /\ b.held[p].inst \in RowsOf(Q, ref) /\ Q[b.held[p].inst].seq = p
    <3>1. /\ p \in DOMAIN a.held /\ p \notin z..(d - 1) /\ b.held[p] = a.held[p] /\ p \in Nat
      BY <1>1, <1>2, <1>6 DEF ActorShape
    <3>2. p >= z /\ a.held[p].inst \in RowsOf(rows, ref) /\ rows[a.held[p].inst].seq = p
      BY <1>2, <1>5, <1>10, <3>1 DEF Numbering
    <3>3. p >= d
      BY <3>1, <3>2
    <3>4. a.held[p].inst \in DOMAIN rows
      BY <3>2 DEF RowsOf
    <3> QED
      BY <1>7, <3>1, <3>2, <3>3, <3>4
  <2>2. ASSUME NEW n \in DOMAIN b.fresh PROVE b.fresh[n].inst \notin DOMAIN Q
    <3>1. PICK k \in DOMAIN a.fresh : b.fresh[n] = a.fresh[k]
      BY <1>6
    <3>2. a.fresh[k].inst \notin DOMAIN rows
      BY <1>2, <1>10 DEF Numbering
    <3>3. b.fresh[n].inst \in Waiting(b)
      BY DEF Waiting
    <3>4. b.fresh[n].inst \notin O
      BY <1>6, <1>9, <3>3
    <3> QED
      BY <1>7, <3>1, <3>2, <3>4
  <2>3. ASSUME NEW i \in RowsOf(Q, ref), Q[i].seq < d PROVE i[2] <= e.ordinals[i[1]]
    <3>1. CASE i \in O
      <4>1. i \in Waiting(a)
        BY <1>7, <3>1
      <4> QED
        BY <1>1, <1>2, <4>1 DEF Names
    <3>2. CASE i \in RowsOf(rows, ref) /\ i \notin O
      <4>1. PICK p \in 0..(w - 1) : p = rows[i].seq /\ p = Q[i].seq
        BY <1>7, <1>10, <3>2 DEF Filled, RowsOf
      <4>2. CASE p < z
        BY <1>2, <1>5, <1>10, <3>2, <4>1, <4>2 DEF Numbering
      <4>3. CASE ~(p < z)
        <5>1. p \in z..(d - 1)
          BY <2>3, <4>1, <4>3
        <5>2. PICK n \in DOMAIN out : out[n].seq = p
          BY <1>8, <5>1
        <5>3. out[n].call.inst \in RowsOf(rows, ref) /\ rows[out[n].call.inst].seq = p
              /\ out[n].call.inst \in Waiting(a)
          BY <1>5, <1>8, <4>1, <5>2 DEF Placed
        <5>4. out[n].call.inst = i
          <6>1. PICK j \in RowsOf(rows, ref) : j = out[n].call.inst /\ rows[j].seq = rows[i].seq
            BY <4>1, <5>3
          <6> QED
            BY <1>10, <3>2, <6>1 DEF Filled
        <5> QED
          BY <1>1, <1>2, <5>3, <5>4 DEF Names
      <4> QED
        BY <4>2, <4>3
    <3> QED
      BY <1>7, <3>1, <3>2
  <2> QED
    BY <1>4, <1>6, <1>12, <2>1, <2>2, <2>3 DEF Numbering
<1>14. ASSUME NEW r \in DOMAIN x.actor, r # ref PROVE Numbering(Q, x, r)
  <2>1. PICK c : c = e.actor[r]
    OBVIOUS
  <2>2. x.actor[r] = c /\ Numbering(rows, e, r)
    BY <1>4, <1>14, <2>1 DEF Numbered
  <2>3. RowsOf(Q, r) = RowsOf(rows, r) /\ \A i \in RowsOf(rows, r) : Q[i].seq = rows[i].seq
    BY <1>7, <1>14 DEF RowsOf
  <2>4. Waiting(c) \cap Waiting(a) = {}
    BY <1>1, <1>2, <1>4, <1>14, <2>1 DEF Names
  <2>5. ASSUME NEW n \in DOMAIN c.fresh PROVE c.fresh[n].inst \notin DOMAIN Q
    <3>1. c.fresh[n].inst \in Waiting(c)
      BY DEF Waiting
    <3>2. c.fresh[n].inst \notin DOMAIN rows
      BY <2>1, <2>2 DEF Numbering
    <3> QED
      BY <1>7, <2>4, <3>1, <3>2
  <2>6. Filled(Q, r, Width(c))
    BY <2>1, <2>2, <2>3 DEF Numbering, Filled
  <2> QED
    BY <1>4, <2>1, <2>2, <2>3, <2>5, <2>6 DEF Numbering
<1>15. ASSUME NEW r \in ActorRefs, r \notin DOMAIN x.actor PROVE Filled(Q, r, Cardinality(RowsOf(Q, r)))
  <2>1. r # ref /\ Filled(rows, r, Cardinality(RowsOf(rows, r)))
    BY <1>4, <1>15 DEF Numbered
  <2>2. RowsOf(Q, r) = RowsOf(rows, r) /\ \A i \in RowsOf(rows, r) : Q[i].seq = rows[i].seq
    BY <1>7, <2>1 DEF RowsOf
  <2> QED
    BY <2>1, <2>2 DEF Filled
<1> QED
  BY <1>11, <1>13, <1>14, <1>15 DEF Numbered

LEMMA EnteredOrders ==
  ASSUME cap \in Nat, NEW e, EngineInv(e, cap), \A i \in DOMAIN e.live : i \in DOMAIN rows,
         Named(rows, e), Numbered(rows, e), Ordered(rows, e), NEW ref \in DOMAIN e.actor,
         NEW a, a = e.actor[ref], NEW out, out = Released(a), NEW Q, Q = Written(ref, out),
         NEW x, x = Entered(e, ref)
  PROVE  Ordered(Q, x)
<1>1. /\ EngineShape(e) /\ Names(e) /\ Flights(e) /\ Single(a) /\ ActorShape(a)
  BY DEF EngineInv, EngineShape, Names
<1>2. PICK b : b = Drained(a)
  OBVIOUS
<1> DEFINE O == Opened(out)
<1>3. /\ DOMAIN x.actor = DOMAIN e.actor /\ x.actor[ref] = b
      /\ \A r \in DOMAIN e.actor : r # ref => x.actor[r] = e.actor[r]
      /\ DOMAIN x.live = DOMAIN e.live \cup O
      /\ \A i \in DOMAIN e.live : i \notin O => x.live[i] = e.live[i]
      /\ \A i \in O : x.live[i].actor = ref
  BY <1>1, <1>2, EnteredIs
<1>4. O \cap DOMAIN e.live = {}
  BY EnteredKeeps
<1>5. PICK z \in Nat, w \in Nat, d \in Nat :
         z = a.next /\ w = Width(a) /\ d = DrainEnd(a) /\ z <= w /\ z <= d
  BY <1>1, ReleasedFits, DrainEndIs DEF ActorShape
<1>6. /\ b.next = d /\ b.current = a.current /\ Joins(a, out, b)
      /\ \A n \in DOMAIN b.queue :
            (n \in DOMAIN a.queue /\ b.queue[n] = a.queue[n]) \/ b.queue[n] \in O
  BY <1>1, <1>2, <1>5, DrainedHas DEF Remains
<1>7. /\ DOMAIN Q = DOMAIN rows \cup O
      /\ \A i \in DOMAIN rows : Q[i].actor = rows[i].actor /\ Q[i].seq = rows[i].seq
      /\ \A i \in DOMAIN rows : i \notin O => Q[i] = rows[i]
      /\ \A i \in O : Q[i].actor = ref /\ Q[i].seq \in z..(d - 1)
      /\ \A n \in Begun(out) : Q[out[n].call.inst].seq = out[n].seq
  <2>1. Extends(ref, a, out, Q)
    BY <1>1, WrittenIs
  <2> QED
    BY <1>5, <2>1 DEF Extends
<1>8. /\ \A n \in DOMAIN out : Placed(ref, a, out[n].call, out[n].seq)
      /\ \A p \in z..(d - 1) : \E n \in DOMAIN out : out[n].seq = p
      /\ \A n \in DOMAIN out : n \in Nat /\ out[n].seq = n + z - 1
  <2>1. \A n \in DOMAIN out : Placed(ref, a, out[n].call, out[n].seq)
    BY <1>1, ReleasedFits
  <2>2. /\ \A p \in a.next..(DrainEnd(a) - 1) : \E n \in DOMAIN out : out[n].seq = p
        /\ \A n \in DOMAIN out : n \in Nat /\ out[n].seq = n + a.next - 1
    BY <1>1, ReleasedAt
  <2> QED
    BY <1>5, <2>1, <2>2
<1>9. \A n \in DOMAIN out : n \in Begun(out) \/ Final(out[n].call.inst)
  BY DEF Begun, Cached
<1>10. \A n \in Begun(out) : n \in DOMAIN out /\ out[n].call.inst \in O
  BY DEF Begun, Opened
<1> HIDE DEF O
<1>11. Filled(rows, ref, w)
  BY <1>5 DEF Numbered, Numbering
<1>12. /\ \A i \in DOMAIN e.live : rows[i].actor = e.live[i].actor /\ Passed(rows, e, i)
       /\ \A r \in DOMAIN e.actor : Queued(rows, e.actor[r])
       /\ \A i \in DOMAIN rows : Passed(rows, e, i) /\ rows[i].status = "running" => i \in DOMAIN e.live
  BY DEF Ordered
<1>13. ASSUME NEW i \in DOMAIN rows, Passed(rows, e, i) PROVE Passed(Q, x, i)
  <2>1. CASE rows[i].actor = ref
    <3>1. i \in RowsOf(rows, ref)
      BY <2>1 DEF RowsOf
    <3>2. rows[i].seq \in Nat /\ rows[i].seq < z
      BY <1>5, <1>11, <1>13, <2>1, <3>1 DEF Filled, Passed
    <3>3. rows[i].seq < d
      BY <1>5, <3>2
    <3> QED
      BY <1>3, <1>6, <1>7, <2>1, <3>3 DEF Passed
  <2>2. CASE rows[i].actor # ref
    BY <1>3, <1>7, <1>13, <2>2 DEF Passed
  <2> QED
    BY <2>1, <2>2
<1>14. ASSUME NEW i \in O PROVE Passed(Q, x, i)
  <2>1. Q[i].seq < d
    BY <1>5, <1>7
  <2> QED
    BY <1>3, <1>6, <1>7, <2>1 DEF Passed
<1>15. ASSUME NEW i \in DOMAIN x.live PROVE i \in DOMAIN Q /\ Q[i].actor = x.live[i].actor /\ Passed(Q, x, i)
  <2>1. CASE i \in O
    BY <1>3, <1>7, <1>14, <2>1
  <2>2. CASE i \in DOMAIN e.live /\ i \notin O
    BY <1>3, <1>7, <1>12, <1>13, <2>2
  <2> QED
    BY <1>3, <2>1, <2>2
\* What was live before has a smaller number.
<1>16. ASSUME NEW i \in DOMAIN e.live, e.live[i].actor = ref PROVE Q[i].seq \in Nat /\ Q[i].seq < z
  <2>1. i \in RowsOf(rows, ref) /\ rows[i].seq < z
    BY <1>5, <1>12, <1>16 DEF Passed, RowsOf
  <2>2. rows[i].seq \in Nat
    BY <1>5, <1>11, <2>1 DEF Filled
  <2> QED
    BY <1>7, <2>1, <2>2
<1>17. ASSUME NEW r \in DOMAIN x.actor PROVE Queued(Q, x.actor[r])
  <2>1. PICK c : c = e.actor[r]
    OBVIOUS
  <2>2. /\ c.current # None => c.current \in DOMAIN e.live /\ e.live[c.current].actor = r
        /\ \A n \in DOMAIN c.queue : c.queue[n] \in DOMAIN e.live /\ e.live[c.queue[n]].actor = r
    BY <1>1, <1>3, <2>1 DEF Flights, Holds
  <2>3. Queued(rows, c)
    BY <1>3, <1>12, <2>1
  <2>4. /\ c.current # None => Q[c.current].seq = rows[c.current].seq
        /\ \A n \in DOMAIN c.queue : Q[c.queue[n]].seq = rows[c.queue[n]].seq
    BY <1>7, <2>2
  <2>5. Queued(Q, c)
    BY <2>3, <2>4 DEF Queued
  <2>6. CASE r # ref
    BY <1>3, <2>1, <2>5, <2>6
  <2>7. CASE r = ref
    <3>1. c = a
      BY <2>1, <2>7
    <3>2. \A i \in O : Q[i].seq \in Nat /\ z <= Q[i].seq
      BY <1>5, <1>7
    <3>3. /\ \A n \in DOMAIN a.queue : Q[a.queue[n]].seq \in Nat /\ Q[a.queue[n]].seq < z
          /\ a.current # None => Q[a.current].seq \in Nat /\ Q[a.current].seq < z
      BY <1>16, <2>2, <2>7, <3>1
    <3>4. ASSUME NEW m \in DOMAIN b.queue, NEW n \in DOMAIN b.queue, m < n
          PROVE  Q[b.queue[m]].seq < Q[b.queue[n]].seq
      <4>1. CASE /\ m \in DOMAIN a.queue /\ n \in DOMAIN a.queue
                 /\ b.queue[m] = a.queue[m] /\ b.queue[n] = a.queue[n]
        BY <2>5, <3>1, <3>4, <4>1 DEF Queued
      <4>2. CASE m \in DOMAIN a.queue /\ b.queue[m] = a.queue[m] /\ b.queue[n] \in O
        BY <1>5, <3>2, <3>3, <4>2
      <4>3. CASE \E u, v \in Begun(out) :
                    u < v /\ b.queue[m] = out[u].call.inst /\ b.queue[n] = out[v].call.inst
        <5>1. PICK u \in Begun(out), v \in Begun(out) :
                    u < v /\ b.queue[m] = out[u].call.inst /\ b.queue[n] = out[v].call.inst
          BY <4>3
        <5>2. Q[b.queue[m]].seq = u + z - 1 /\ Q[b.queue[n]].seq = v + z - 1 /\ u \in Nat /\ v \in Nat
          BY SMTT(20), <1>7, <1>8, <1>10, <5>1
        <5> QED
          BY <1>5, <5>1, <5>2
      <4> QED
        BY <1>6, <3>4, <4>1, <4>2, <4>3 DEF Joins, O
    <3>5. ASSUME b.current # None, NEW n \in DOMAIN b.queue
          PROVE  Q[b.current].seq < Q[b.queue[n]].seq
      <4>1. b.current = a.current
        BY <1>6
      <4>2. CASE n \in DOMAIN a.queue /\ b.queue[n] = a.queue[n]
        BY <2>5, <3>1, <3>5, <4>1, <4>2 DEF Queued
      <4>3. CASE b.queue[n] \in O
        BY <1>5, <3>2, <3>3, <3>5, <4>1, <4>3
      <4> QED
        BY <1>6, <4>2, <4>3
    <3> QED
      BY <1>3, <2>7, <3>4, <3>5 DEF Queued
  <2> QED
    BY <2>6, <2>7
<1>18. ASSUME NEW i \in DOMAIN Q, Passed(Q, x, i), Q[i].status = "running" PROVE i \in DOMAIN x.live
  <2>1. SUFFICES ASSUME i \notin O PROVE i \in DOMAIN e.live
    BY <1>3
  <2>2. i \in DOMAIN rows /\ Q[i] = rows[i] /\ rows[i].status = "running"
    BY <1>7, <1>18, <2>1
  <2>3. SUFFICES Passed(rows, e, i)
    BY <1>12, <2>2
  <2>4. CASE rows[i].actor # ref
    BY <1>3, <1>18, <2>2, <2>4 DEF Passed
  <2>5. CASE rows[i].actor = ref
    <3>1. PICK p \in 0..(w - 1) : p = rows[i].seq
      BY <1>11, <2>2, <2>5 DEF Filled, RowsOf
    <3>2. p < d
      BY <1>3, <1>6, <1>18, <2>2, <2>5, <3>1 DEF Passed
    <3>3. CASE p < z
      BY <1>5, <2>5, <3>1, <3>3 DEF Passed
    <3>4. CASE ~(p < z)
      <4>1. p \in z..(d - 1)
        BY <3>1, <3>2, <3>4
      <4>2. PICK n \in DOMAIN out : out[n].seq = p
        BY <1>8, <4>1
      <4>3. PICK j \in RowsOf(rows, ref) : j = out[n].call.inst /\ rows[j].seq = p
        BY <1>5, <1>8, <3>1, <4>2 DEF Placed
      <4>4. i \in RowsOf(rows, ref)
        BY <2>2, <2>5 DEF RowsOf
      <4>5. j = i
        BY <1>11, <3>1, <4>3, <4>4 DEF Filled
      <4>6. FALSE
        BY <1>9, <1>10, <2>1, <2>2, <4>3, <4>5 DEF Final
      <4> QED
        BY <4>6
    <3> QED
      BY <3>3, <3>4
  <2> QED
    BY <2>4, <2>5
<1>19. ASSUME NEW i \in DOMAIN x.live
       PROVE  x.live[i].actor \in DOMAIN x.actor /\ Lined(x.actor[x.live[i].actor], i)
  <2>1. CASE i \in O
    <3>1. \E n \in DOMAIN b.queue : b.queue[n] = i
      BY <1>6, <2>1 DEF Joins, O
    <3> QED
      BY <1>3, <2>1, <3>1 DEF Lined
  <2>2. CASE i \in DOMAIN e.live /\ i \notin O
    <3>1. PICK r \in DOMAIN e.actor : r = e.live[i].actor /\ Lined(e.actor[r], i)
      BY <2>2 DEF Ordered, InLine
    <3>2. CASE r = ref
      <4>1. \A n \in DOMAIN a.queue : n \in DOMAIN b.queue /\ b.queue[n] = a.queue[n]
        BY <1>6 DEF Joins
      <4>2. Lined(b, i)
        BY <1>6, <3>1, <3>2, <4>1 DEF Lined
      <4> QED
        BY <1>3, <2>2, <3>1, <3>2, <4>2
    <3>3. CASE r # ref
      BY <1>3, <2>2, <3>1, <3>3
    <3> QED
      BY <3>2, <3>3
  <2> QED
    BY <1>3, <2>1, <2>2
<1>20. InLine(x)
  BY <1>19 DEF InLine
<1> QED
  BY <1>15, <1>17, <1>18, <1>20 DEF Ordered

\* An actor lets its asks through, and the free slots are filled.
LEMMA AdmitOrders ==
  ASSUME cap \in Nat, NEW e, EngineInv(e, cap), \A i \in DOMAIN e.live : i \in DOMAIN rows,
         Named(rows, e), Numbered(rows, e), Ordered(rows, e), NEW ref \in DOMAIN e.actor,
         NEW rest, NEW others, others = e.order \/ others = <<>>,
         Admit(e, ref, rest, others)
  PROVE  /\ Named(rows', eng') /\ Numbered(rows', eng') /\ Ordered(rows', eng')
         /\ eng'.ordinals = e.ordinals /\ eng'.handle = e.handle
<1>1. PICK a : a = e.actor[ref]
  OBVIOUS
<1>2. PICK out : out = Released(a)
  OBVIOUS
<1>3. PICK Q : Q = Written(ref, out)
  OBVIOUS
<1>4. PICK y : y = Entered(e, ref)
  OBVIOUS
<1>5. PICK u : u = Pump(y, <<ref>>)
  OBVIOUS
<1>6. rows' = Q /\ eng' = Pump(u, others)
  BY <1>1, <1>2, <1>3, <1>4, <1>5 DEF Admit, Written
<1>7. /\ EngineShape(e) /\ Roster(e) /\ e.order \in Seq(ActorRefs) /\ Single(e.actor[ref])
  BY DEF EngineInv, EngineShape, Names
<1>8. EngineInv(y, cap)
  BY <1>4, EnteredKeeps
<1>9. /\ y.ordinals = e.ordinals /\ y.handle = e.handle /\ y.order = e.order
      /\ DOMAIN y.actor = DOMAIN e.actor
  BY <1>4, <1>7, EnteredIs
<1>10. Named(Q, y) /\ Numbered(Q, y)
  BY <1>1, <1>2, <1>3, <1>4, EnteredNumbers
<1>11. Ordered(Q, y)
  BY <1>1, <1>2, <1>3, <1>4, EnteredOrders
<1>12. <<ref>> \in Seq(DOMAIN y.actor)
  BY <1>9, OneElement
<1>13. EngineShape(y) /\ y.active <= cap
  BY <1>8 DEF EngineInv, Slots
<1>14. Alike(y, u) /\ Ordered(Q, u)
  BY <1>5, <1>11, <1>12, <1>13, PumpOrders
<1>15. EngineInv(u, cap)
  BY <1>5, <1>8, <1>12, PumpKeeps
<1>16. others \in Seq(DOMAIN u.actor)
  <2>1. CASE others = <<>>
    BY <2>1, EmptySeq
  <2>2. CASE others = e.order
    <3>1. Range(e.order) = DOMAIN u.actor
      BY <1>7, <1>9, <1>14 DEF Roster, Alike
    <3>2. e.order \in Seq(Range(e.order))
      BY <1>7, SeqOfRange
    <3> QED
      BY <2>2, <3>1, <3>2
  <2> QED
    BY <2>1, <2>2
<1>17. EngineShape(u) /\ u.active <= cap
  BY <1>15 DEF EngineInv, Slots
<1>18. Alike(u, eng') /\ Ordered(Q, eng')
  BY <1>6, <1>14, <1>16, <1>17, PumpOrders
<1>19. Alike(y, eng')
  BY <1>14, <1>18, AlikeOn
<1>20. Named(Q, eng') /\ Numbered(Q, eng')
  BY <1>10, <1>19, RowsSelf, NamedSame, NumberedSame
<1> QED
  BY <1>6, <1>9, <1>18, <1>19, <1>20 DEF Alike

-----------------------------------------------------------------------------
(* The asks of the script.                                                 *)

\* A site that is passed for the first time names the ask of its only step.
LEMMA NewAsk ==
  ASSUME OnePass, IInv, OrderInv, NEW m, Oldest(m), pc[m.strand] < Len(Script[m.strand]),
         NEW e, e = CreatedFor(m), NEW ref, ref = ActorOf(m), NEW i, i = InstanceOf(m)
  PROVE  /\ Named(rows, e) /\ Numbered(rows, e) /\ Ordered(rows, e)
         /\ Matches(i, AskOf(m).text, ref)
         /\ i = <<AskOf(m).site, 1>> /\ e.ordinals[AskOf(m).site] = 0
         /\ i \in DOMAIN rows => rows[i].text = AskOf(m).text /\ rows[i].actor = ref
         /\ \A x \in Steps : AskAt(x).site = AskOf(m).site => x = <<m.strand, pc[m.strand] + 1>>
<1>1. PICK x0 \in Steps : x0 = <<m.strand, pc[m.strand] + 1>> /\ x0 \notin Made
  BY NextCallIs
<1>2. AskAt(x0) = AskOf(m)
  BY <1>1 DEF AskAt, AskOf
<1>3. PICK ask : ask = AskOf(m)
  OBVIOUS
<1>4. ask.site \in AskSites /\ ask.agent \in Agents
  BY <1>3, NextCallIs
<1>5. eng.ordinals[ask.site] = 0
  BY <1>1, <1>2, <1>3 DEF OrderInv, Unasked
<1>6. i = <<ask.site, 1>>
  BY <1>3, <1>5 DEF InstanceOf
<1>7. EngineShape(eng) /\ Roster(eng) /\ Journal /\ Running
  BY DEF IInv, Memory, Oldest
<1>8. e = CreateActor(eng, ask.agent) /\ ref = e.handle[ask.agent]
  BY <1>3 DEF CreatedFor, ActorOf
<1>9. /\ Named(rows, e) /\ Numbered(rows, e) /\ Ordered(rows, e)
      /\ ref = <<ActorSite[ask.agent], 1>>
  BY <1>4, <1>7, <1>8, CreateActorOrders DEF OrderInv
<1>10. e.ordinals[ask.site] = 0
  <2>1. \A t \in AskSites : e.ordinals[t] = eng.ordinals[t]
    BY CreatedIs
  <2> QED
    BY <1>4, <1>5, <2>1
<1>11. ASSUME NEW x \in Steps, AskAt(x).site = ask.site PROVE x = x0
  BY <1>2, <1>3, <1>11 DEF OnePass
<1>12. ASSUME NEW x \in Steps, i[1] = AskAt(x).site
       PROVE  i[2] = 1 /\ ask.text = AskAt(x).text /\ ref = <<ActorSite[AskAt(x).agent], 1>>
  <2>1. x = x0
    BY <1>6, <1>11, <1>12
  <2> QED
    BY <1>2, <1>3, <1>6, <1>9, <2>1
<1>13. Matches(i, ask.text, ref)
  BY <1>12 DEF Matches
<1>14. ASSUME i \in DOMAIN rows PROVE rows[i].text = ask.text /\ rows[i].actor = ref
  <2>1. Matches(i, rows[i].text, rows[i].actor)
    BY <1>14 DEF OrderInv, Named
  <2>2. i[1] = AskAt(x0).site
    BY <1>2, <1>3, <1>6
  <2> QED
    BY <1>2, <1>3, <1>9, <2>1, <2>2 DEF Matches
<1> QED
  BY <1>1, <1>3, <1>6, <1>9, <1>10, <1>11, <1>13, <1>14

\* The ask waits with its actor a, which lets through what it can.
LEMMA AskOrders ==
  ASSUME OnePass, IInv, OrderInv, NEW m, Oldest(m), pc[m.strand] < Len(Script[m.strand]),
         pc' = [pc EXCEPT ![m.strand] = @ + 1],
         NEW e, e = CreatedFor(m), NEW ref, ref = ActorOf(m),
         NEW a, ActorShape(a), Single(a),
         Waiting(a) \subseteq Waiting(e.actor[ref]) \cup {InstanceOf(m)},
         a.queue = e.actor[ref].queue, a.current = e.actor[ref].current,
         a.session = e.actor[ref].session, a.recorded = e.actor[ref].recorded,
         a.next = e.actor[ref].next,
         \A p \in DOMAIN a.held :
            /\ p >= a.next /\ a.held[p].inst \in RowsOf(rows, ref) /\ rows[a.held[p].inst].seq = p
            /\ Matches(a.held[p].inst, a.held[p].text, ref),
         \A n \in DOMAIN a.fresh :
            a.fresh[n].inst \notin DOMAIN rows /\ Matches(a.fresh[n].inst, a.fresh[n].text, ref),
         NEW x, x = Joined(e, AskOf(m).site, ref, a),
         NEW others, others = x.order \/ others = <<>>,
         Admit(x, ref, Tail(mail), others)
  PROVE  OrderInv'
<1>1. PICK t \in AskSites : t = AskOf(m).site
  BY NextCallIs
<1>2. /\ EngineInv(e, cap) /\ NoIdle(e, cap) /\ e.live = eng.live /\ ref \in DOMAIN e.actor
      /\ InstanceOf(m) = <<t, e.ordinals[t] + 1>>
      /\ \A u \in AskSites : e.ordinals[u] = eng.ordinals[u]
  BY <1>1, CreatedIs
<1>3. cap \in Nat /\ Journal
  BY DEF IInv, Bounded
<1>4. Named(rows, e) /\ Numbered(rows, e) /\ Ordered(rows, e)
  BY NewAsk
<1>5. x = Joined(e, t, ref, a)
  BY <1>1
<1>6. /\ EngineInv(x, cap) /\ x.live = e.live /\ DOMAIN x.actor = DOMAIN e.actor
      /\ \A u \in Sites : x.ordinals[u] = IF u = t THEN e.ordinals[u] + 1 ELSE e.ordinals[u]
  BY <1>2, <1>3, <1>5, JoinKeeps
<1>7. Waiting(a) \subseteq Waiting(e.actor[ref]) \cup {<<t, e.ordinals[t] + 1>>}
  BY <1>2
<1>8. Named(rows, x) /\ Numbered(rows, x) /\ Ordered(rows, x)
  BY <1>2, <1>3, <1>4, <1>5, <1>7, JoinOrders
<1>9. \A i \in DOMAIN x.live : i \in DOMAIN rows
  BY <1>2, <1>3, <1>6 DEF Journal
<1>10. /\ Named(rows', eng') /\ Numbered(rows', eng') /\ Ordered(rows', eng')
       /\ eng'.ordinals = x.ordinals
  BY <1>2, <1>3, <1>6, <1>8, <1>9, AdmitOrders
<1>11. PICK y \in Steps : y = <<m.strand, pc[m.strand] + 1>>
  BY NextCallIs
<1>12. y \in Made' /\ Made \subseteq Made'
  <2>1. m.strand \in Strands /\ pc[m.strand] \in Nat /\ pc \in [Strands -> Nat]
    BY NextCallIs DEF IInv, Answers
  <2>2. pc'[m.strand] = pc[m.strand] + 1
    BY <2>1
  <2>3. y \in Made'
    BY <1>11, <2>1, <2>2 DEF Made, Steps, Strands
  <2>4. PICK k \in Nat, n \in Nat : k = pc[m.strand] /\ n = k + 1
    BY <2>1
  <2>5. pc' = [pc EXCEPT ![m.strand] = n] /\ n >= pc[m.strand]
    BY <2>4
  <2> QED
    BY <2>1, <2>3, <2>4, <2>5, MadeGrows
<1>13. ASSUME NEW z \in Steps, z \notin Made' PROVE eng'.ordinals[AskAt(z).site] = 0
  <2>1. z # y /\ z \notin Made
    BY <1>12, <1>13
  <2>2. AskAt(z).site # t
    BY <1>1, <1>11, <2>1, NewAsk
  <2>3. AskAt(z).site \in AskSites
    BY DEF Steps, AskAt, AskSites
  <2>4. eng.ordinals[AskAt(z).site] = 0
    BY <2>1 DEF OrderInv, Unasked
  <2> QED
    BY <1>2, <1>6, <1>10, <2>2, <2>3, <2>4, SitesDiffer
<1>14. Unasked'
  BY <1>13 DEF Unasked, Steps, Strands, AskAt
<1> QED
  BY <1>10, <1>14 DEF OrderInv, Named, Matches, Steps, Strands, AskAt, Agents,
     Numbered, Numbering, Filled, RowsOf, Width, Ordered, InLine, Lined, Passed, Queued, ActorRefs

LEMMA AskFreshOrders ==
  ASSUME OnePass, IInv, OrderInv, NEW m, AskFresh(m)
  PROVE  OrderInv'
<1>1. /\ Oldest(m) /\ pc[m.strand] < Len(Script[m.strand])
      /\ pc' = [pc EXCEPT ![m.strand] = @ + 1]
      /\ InstanceOf(m) \notin DOMAIN rows
  BY DEF AskFresh, StrandAsks
<1>2. PICK e : e = CreatedFor(m)
  OBVIOUS
<1>3. PICK ref : ref = ActorOf(m)
  OBVIOUS
<1>4. PICK b : b = e.actor[ref]
  OBVIOUS
<1>5. PICK c : c = Call(m)
  OBVIOUS
<1>6. /\ ref \in DOMAIN e.actor /\ ActorShape(b) /\ Single(b)
      /\ c.inst \notin Waiting(b) /\ c \in Calls /\ AskOf(m).site \in Sites /\ EngineShape(e)
      /\ c.inst = InstanceOf(m) /\ c.text = AskOf(m).text
  BY <1>1, <1>2, <1>3, <1>4, <1>5, CreatedIs, NextCallIs, SitesDiffer DEF EngineInv, Call
<1>7. PICK a : a = [b EXCEPT !.fresh = Append(@, c)]
  OBVIOUS
<1>8. /\ ActorShape(a) /\ Single(a) /\ Waiting(a) = Waiting(b) \cup {c.inst}
      /\ a.queue = b.queue /\ a.current = b.current /\ a.session = b.session
  BY <1>6, <1>7, FreshCallIs
<1>9. a.held = b.held /\ a.next = b.next /\ a.recorded = b.recorded /\ a.fresh = Append(b.fresh, c)
  BY <1>6, <1>7 DEF ActorShape
<1>10. Named(rows, e) /\ Numbered(rows, e) /\ Matches(c.inst, c.text, ref)
  BY <1>1, <1>2, <1>3, <1>6, NewAsk
<1>11. \A p \in DOMAIN a.held :
          /\ p >= a.next /\ a.held[p].inst \in RowsOf(rows, ref) /\ rows[a.held[p].inst].seq = p
          /\ Matches(a.held[p].inst, a.held[p].text, ref)
  BY <1>4, <1>6, <1>9, <1>10 DEF Named, Numbered, Numbering
<1>12. \A n \in DOMAIN b.fresh :
          b.fresh[n].inst \notin DOMAIN rows /\ Matches(b.fresh[n].inst, b.fresh[n].text, ref)
  BY <1>4, <1>6, <1>10 DEF Named, Numbered, Numbering
<1>13. \A n \in DOMAIN a.fresh : a.fresh[n] = c \/ \E k \in DOMAIN b.fresh : a.fresh[n] = b.fresh[k]
  <2>1. b.fresh \in Seq(Calls)
    BY <1>6 DEF ActorShape
  <2>2. PICK l \in Nat : l = Len(b.fresh)
    BY <2>1, LenProperties
  <2>3. /\ DOMAIN b.fresh = 1..l /\ DOMAIN a.fresh = 1..(l + 1) /\ a.fresh[l + 1] = c
        /\ \A n \in 1..l : a.fresh[n] = b.fresh[n]
    BY <1>6, <1>9, <2>1, <2>2, AppendIs
  <2> QED
    BY <2>3
<1>14. \A n \in DOMAIN a.fresh :
          a.fresh[n].inst \notin DOMAIN rows /\ Matches(a.fresh[n].inst, a.fresh[n].text, ref)
  BY <1>1, <1>6, <1>10, <1>12, <1>13
<1>15. PICK x : x = [Minted(m) EXCEPT !.actor[ActorOf(m)].fresh = Append(@, Call(m))]
  OBVIOUS
<1>16. x = Joined(e, AskOf(m).site, ref, a)
  BY <1>2, <1>3, <1>4, <1>5, <1>6, <1>7, <1>15 DEF Joined, Minted, EngineShape
<1>17. Admit(x, ref, Tail(mail), x.order)
  BY <1>3, <1>15 DEF AskFresh
<1> QED
  BY <1>1, <1>2, <1>3, <1>4, <1>6, <1>8, <1>9, <1>11, <1>14, <1>16, <1>17, AskOrders

LEMMA AskRecordedOrders ==
  ASSUME OnePass, IInv, OrderInv, NEW m, AskRecorded(m)
  PROVE  OrderInv'
<1>1. /\ Oldest(m) /\ pc[m.strand] < Len(Script[m.strand])
      /\ pc' = [pc EXCEPT ![m.strand] = @ + 1]
      /\ InstanceOf(m) \in DOMAIN rows
  BY DEF AskRecorded, StrandAsks
<1>2. PICK e : e = CreatedFor(m)
  OBVIOUS
<1>3. PICK ref : ref = ActorOf(m)
  OBVIOUS
<1>4. PICK b : b = e.actor[ref]
  OBVIOUS
<1>5. PICK c : c = Call(m)
  OBVIOUS
<1>6. /\ ref \in DOMAIN e.actor /\ ActorShape(b) /\ Single(b)
      /\ c.inst \notin Waiting(b) /\ c \in Calls /\ AskOf(m).site \in AskSites /\ EngineShape(e)
      /\ c.inst = InstanceOf(m) /\ c.text = AskOf(m).text
  BY <1>1, <1>2, <1>3, <1>4, <1>5, CreatedIs, NextCallIs DEF EngineInv, Call
<1>7. PICK p \in Nat : p = rows[c.inst].seq
  BY <1>1, <1>6 DEF IInv, Journal, RowShape
<1>8. PICK a : a = [b EXCEPT !.held = Put(@, p, c)]
  OBVIOUS
<1>9. /\ ActorShape(a) /\ Single(a) /\ Waiting(a) \subseteq Waiting(b) \cup {c.inst}
      /\ a.queue = b.queue /\ a.current = b.current /\ a.session = b.session
  BY <1>6, <1>8, HeldCallIs
<1>10. a.held = Put(b.held, p, c) /\ a.next = b.next /\ a.recorded = b.recorded /\ a.fresh = b.fresh
  BY <1>6, <1>8 DEF ActorShape
<1>11. /\ Named(rows, e) /\ Numbered(rows, e) /\ Matches(c.inst, c.text, ref)
       /\ c.inst = <<AskOf(m).site, 1>> /\ e.ordinals[AskOf(m).site] = 0
       /\ rows[c.inst].actor = ref
  BY <1>1, <1>2, <1>3, <1>6, NewAsk
<1>12. c.inst \in RowsOf(rows, ref)
  BY <1>1, <1>6, <1>11 DEF RowsOf
<1>13. Numbering(rows, e, ref) /\ b.next \in Nat
  BY <1>6, <1>11 DEF Numbered, ActorShape
\* A row the actor has passed was asked for in this lifetime.
<1>14. p >= b.next
  <2>1. SUFFICES ASSUME p < b.next PROVE FALSE
    BY <1>13
  <2>2. c.inst[2] <= e.ordinals[c.inst[1]]
    BY <1>4, <1>7, <1>12, <1>13, <2>1 DEF Numbering
  <2> QED
    BY <1>11, <2>2
<1>15. \A q \in DOMAIN a.held : (q = p /\ a.held[q] = c) \/ (q \in DOMAIN b.held /\ a.held[q] = b.held[q])
  BY <1>10 DEF Put
<1>16. \A q \in DOMAIN b.held :
          /\ q >= b.next /\ b.held[q].inst \in RowsOf(rows, ref) /\ rows[b.held[q].inst].seq = q
          /\ Matches(b.held[q].inst, b.held[q].text, ref)
  BY <1>4, <1>6, <1>11, <1>13 DEF Named, Numbering
<1>17. \A q \in DOMAIN a.held :
          /\ q >= a.next /\ a.held[q].inst \in RowsOf(rows, ref) /\ rows[a.held[q].inst].seq = q
          /\ Matches(a.held[q].inst, a.held[q].text, ref)
  BY <1>7, <1>10, <1>11, <1>12, <1>14, <1>15, <1>16
<1>18. \A n \in DOMAIN a.fresh :
          a.fresh[n].inst \notin DOMAIN rows /\ Matches(a.fresh[n].inst, a.fresh[n].text, ref)
  BY <1>4, <1>6, <1>10, <1>11, <1>13 DEF Named, Numbering
<1>19. PICK x : x = [Minted(m) EXCEPT !.actor[ActorOf(m)].held =
                        Put(@, rows[InstanceOf(m)].seq, Call(m))]
  OBVIOUS
<1>20. x = Joined(e, AskOf(m).site, ref, a)
  BY <1>2, <1>3, <1>4, <1>5, <1>6, <1>7, <1>8, <1>19, SitesDiffer DEF Joined, Minted, EngineShape
<1>21. Admit(x, ref, Tail(mail), <<>>)
  BY <1>3, <1>19 DEF AskRecorded
<1> QED
  BY <1>1, <1>2, <1>3, <1>4, <1>6, <1>9, <1>10, <1>17, <1>18, <1>20, <1>21, AskOrders

\* The row of an ask has the input of the ask.
LEMMA NothingMismatches ==
  ASSUME OnePass, IInv, OrderInv, NEW m
  PROVE  ~AskMismatched(m)
<1>1. SUFFICES ASSUME AskMismatched(m) PROVE FALSE
  OBVIOUS
<1>2. /\ Oldest(m) /\ pc[m.strand] < Len(Script[m.strand])
      /\ InstanceOf(m) \in DOMAIN rows /\ rows[InstanceOf(m)].text # AskOf(m).text
  BY <1>1 DEF AskMismatched, StrandAsks
<1> QED
  BY <1>2, NewAsk

-----------------------------------------------------------------------------
(* The other steps.                                                        *)

\* Names, numbers and the flights of the actors stay as they are.
LEMMA OrderStays ==
  ASSUME OrderInv, Alike(eng, eng'), UNCHANGED rows, Made \subseteq Made', Running' => Running,
         DOMAIN eng'.live = DOMAIN eng.live,
         \A i \in DOMAIN eng.live : eng'.live[i].actor = eng.live[i].actor,
         \A r \in DOMAIN eng.actor :
            eng'.actor[r].queue = eng.actor[r].queue /\ eng'.actor[r].current = eng.actor[r].current
  PROVE  OrderInv'
<1>1. ASSUME Running' PROVE Ordered(rows', eng')
  <2>1. Ordered(rows, eng)
    BY <1>1 DEF OrderInv
  <2>2. \A i : Passed(rows', eng', i) <=> Passed(rows, eng, i)
    BY DEF Passed, Alike
  <2>3. \A r \in DOMAIN eng'.actor : r \in DOMAIN eng.actor /\ Queued(rows', eng'.actor[r])
    <3>1. ASSUME NEW r \in DOMAIN eng'.actor PROVE r \in DOMAIN eng.actor /\ Queued(rows', eng'.actor[r])
      <4>1. r \in DOMAIN eng.actor
        BY DEF Alike
      <4>2. Queued(rows, eng.actor[r])
        BY <2>1, <4>1 DEF Ordered
      <4> QED
        BY <4>1, <4>2 DEF Queued
    <3> QED
      BY <3>1
  <2>4. InLine(eng')
    <3>1. ASSUME NEW i \in DOMAIN eng'.live
          PROVE  eng'.live[i].actor \in DOMAIN eng'.actor /\ Lined(eng'.actor[eng'.live[i].actor], i)
      <4>1. PICK r \in DOMAIN eng.actor : r = eng.live[i].actor /\ Lined(eng.actor[r], i)
        BY <2>1 DEF Ordered, InLine
      <4>2. Lined(eng'.actor[r], i)
        BY <4>1 DEF Lined
      <4>3. eng'.live[i].actor = r /\ r \in DOMAIN eng'.actor
        BY <4>1 DEF Alike
      <4> QED
        BY <4>2, <4>3
    <3> QED
      BY <3>1 DEF InLine
  <2> QED
    BY <2>1, <2>2, <2>3, <2>4 DEF Ordered
<1>2. SameRows(rows, rows')
  BY RowsSelf
<1> QED
  BY <1>1, <1>2, OrderKeeps

LEMMA EngineStays ==
  ASSUME OrderInv, UNCHANGED <<rows, eng>>, Made \subseteq Made', Running' => Running
  PROVE  OrderInv'
<1>1. Alike(eng, eng')
  BY AlikeSelf
<1> QED
  BY <1>1, OrderStays

LEMMA SameSteps ==
  ASSUME UNCHANGED pc
  PROVE  Made' = Made
BY DEF Made, Steps, Strands

\* The run is over: no ask is in flight any more.
LEMMA RunOverOrders ==
  ASSUME IInv, OrderInv, NEW ss, NEW status, NEW code, SettleRun(ss, status, code), Made \subseteq Made'
  PROVE  OrderInv'
<1>1. ~Running' /\ rows' = rows /\ eng' = [eng EXCEPT !.live = EmptyMap, !.active = 0]
  BY DEF SettleRun, Running
<1>2. eng'.ordinals = eng.ordinals /\ eng'.handle = eng.handle /\ eng'.actor = eng.actor
  BY <1>1 DEF IInv, Memory, EngineShape
<1>3. Alike(eng, eng')
  BY <1>2 DEF Alike
<1>4. SameRows(rows, rows')
  BY <1>1, RowsSelf
<1> QED
  BY <1>1, <1>3, <1>4, OrderKeeps

\* A new engine numbers the rows it finds again.
LEMMA FreshOrders ==
  ASSUME NEW R, NEW e, e = FreshEngine,
         \A r \in ActorRefs : Filled(R, r, Cardinality(RowsOf(R, r))),
         \A i \in DOMAIN R : Matches(i, R[i].text, R[i].actor)
  PROVE  /\ Named(R, e) /\ Numbered(R, e) /\ Ordered(R, e)
         /\ \A x \in Steps : e.ordinals[AskAt(x).site] = 0
<1>1. DOMAIN e.live = {} /\ DOMAIN e.actor = {} /\ \A t \in Sites : e.ordinals[t] = 0
  <2>1. 0 \in Nat
    OBVIOUS
  <2> QED
    BY <2>1, FreshEngineIs
<1>2. \A g \in Agents : e.handle[g] = None /\ e.ordinals[ActorSite[g]] = 0
  <2>1. \A g \in Agents : ActorSite[g] \in Sites
    BY SitesDiffer DEF Range, Agents
  <2> QED
    BY <1>1, <2>1 DEF FreshEngine
<1>3. \A x \in Steps : AskAt(x).site \in Sites
  BY SitesDiffer DEF Steps, AskAt, AskSites
<1>4. Named(R, e)
  BY <1>1, <1>2 DEF Named
<1>5. Numbered(R, e)
  BY <1>1 DEF Numbered
<1>6. InLine(e)
  BY <1>1 DEF InLine
<1>7. Ordered(R, e)
  BY <1>1, <1>6 DEF Ordered, Passed
<1> QED
  BY <1>1, <1>3, <1>4, <1>5, <1>7

\* The rows an engine leaves are numbered without gaps.
LEMMA RowsAreNumbered ==
  ASSUME Journal, Memory, Numbered(rows, eng), NEW r \in ActorRefs
  PROVE  Filled(rows, r, Cardinality(RowsOf(rows, r)))
<1>1. CASE r \in DOMAIN eng.actor
  <2>1. PICK a : a = eng.actor[r]
    OBVIOUS
  <2>2. ActorShape(a)
    BY <1>1, <2>1 DEF Memory, EngineShape
  <2>3. PICK w \in Nat : w = Width(a)
    BY <2>2 DEF Width, ActorShape
  <2>4. Filled(rows, r, w)
    BY <1>1, <2>1, <2>3 DEF Numbered, Numbering
  <2>5. Cardinality(RowsOf(rows, r)) = w
    BY <2>4, RowsAreFinite, FilledIs
  <2> QED
    BY <2>4, <2>5
<1>2. CASE r \notin DOMAIN eng.actor
  BY <1>2 DEF Numbered
<1> QED
  BY <1>1, <1>2

LEMMA EngineIsNew ==
  ASSUME IInv, OrderInv, eng' = FreshEngine, UNCHANGED rows
  PROVE  OrderInv'
<1>1. \A r \in ActorRefs : Filled(rows, r, Cardinality(RowsOf(rows, r)))
  BY RowsAreNumbered DEF IInv, OrderInv
<1>2. \A i \in DOMAIN rows : Matches(i, rows[i].text, rows[i].actor)
  BY DEF OrderInv, Named
<1>3. /\ Named(rows, eng') /\ Numbered(rows, eng') /\ Ordered(rows, eng')
      /\ \A x \in Steps : eng'.ordinals[AskAt(x).site] = 0
  BY <1>1, <1>2, FreshOrders
<1>4. Unasked'
  BY <1>3 DEF Unasked, Steps, Strands, AskAt
<1>5. Named(rows', eng') /\ Numbered(rows', eng') /\ Ordered(rows', eng')
  <2>1. rows' = rows
    OBVIOUS
  <2> QED
    BY <1>3, <2>1
<1> QED
  BY <1>4, <1>5 DEF OrderInv, Named, Matches, Steps, Strands, AskAt, Agents,
     Numbered, Numbering, Filled, RowsOf, Width, Ordered, InLine, Lined, Passed, Queued, ActorRefs

LEMMA OrderStarts ==
  ASSUME Init
  PROVE  OrderInv
<1>1. DOMAIN rows = {} /\ eng = FreshEngine
  BY DEF Init, EmptyMap
<1>2. \A r \in ActorRefs : RowsOf(rows, r) = {}
  BY <1>1 DEF RowsOf
<1>3. Cardinality({}) = 0
  BY FS_EmptySet
<1>4. \A r \in ActorRefs : Filled(rows, r, Cardinality(RowsOf(rows, r)))
  BY <1>2, <1>3 DEF Filled
<1>5. /\ Named(rows, eng) /\ Numbered(rows, eng) /\ Ordered(rows, eng)
      /\ \A x \in Steps : eng.ordinals[AskAt(x).site] = 0
  BY <1>1, <1>4, FreshOrders
<1> QED
  BY <1>5 DEF OrderInv, Unasked

LEMMA StrandEndsOrders ==
  ASSUME IInv, OrderInv, NEW m, StrandEnds(m)
  PROVE  OrderInv'
<1>1. /\ Running /\ mail # <<>> /\ m = Head(mail)
      /\ pc' = [pc EXCEPT ![m.strand] = Len(Script[m.strand]) + 1]
  BY DEF StrandEnds, Oldest
<1>2. m.strand \in Strands
  <2>1. mail \in Seq(Mails)
    BY DEF IInv, Answers
  <2>2. m \in Mails
    BY <1>1, <2>1, HeadTailProperties
  <2> QED
    BY <2>2 DEF Mails
<1>3. PICK n \in Nat : n = Len(Script[m.strand]) + 1
  BY <1>2, StepsAreFinite
<1>4. n > Len(Script[m.strand])
  BY <1>2, <1>3, StepsAreFinite
<1>5. pc \in [Strands -> Nat] /\ pc' = [pc EXCEPT ![m.strand] = n]
  BY <1>1, <1>3 DEF IInv, Answers
<1>6. Made \subseteq Made'
  BY <1>2, <1>4, <1>5, MadeGrows
<1>7. CASE SettleRun(sessions, "completed", None)
  BY <1>6, <1>7, RunOverOrders
<1>8. CASE UNCHANGED <<rows, engine, eng>>
  BY <1>6, <1>8, EngineStays DEF Running
<1> QED
  BY <1>7, <1>8 DEF StrandEnds

\* A session is ready or has failed.
LEMMA SessionOrders ==
  ASSUME IInv, OrderInv, NEW k \in creating, NEW s \in {"ready", "failed"},
         eng' = IF k[1] = life THEN [eng EXCEPT !.actor[k[2]].session = s] ELSE eng,
         UNCHANGED <<rows, engine, pc>>
  PROVE  OrderInv'
<1>1. k[1] = life => k[2] \in DOMAIN eng.actor
  BY DEF IInv, Creations
<1>2. Made' = Made /\ (Running' => Running)
  BY SameSteps DEF Running
<1>3. CASE k[1] # life
  BY <1>2, <1>3, EngineStays
<1>4. CASE k[1] = life
  <2>1. EngineShape(eng) /\ Roster(eng)
    BY DEF IInv, Memory
  <2>2. PICK r \in DOMAIN eng.actor : r = k[2]
    BY <1>1, <1>4
  <2>3. PICK a : a = [eng.actor[r] EXCEPT !.session = s]
    OBVIOUS
  <2>4. PICK f : f = [eng.actor EXCEPT ![r] = a]
    OBVIOUS
  <2>5. eng' = [eng EXCEPT !.actor = f]
    BY <1>4, <2>2, <2>3, <2>4
  <2>6. eng'.ordinals = eng.ordinals /\ eng'.handle = eng.handle /\ eng'.live = eng.live /\ eng'.actor = f
    BY <2>1, <2>5 DEF EngineShape
  <2>7. ActorShape(eng.actor[r])
    BY <2>1 DEF EngineShape
  <2>8. /\ a.held = eng.actor[r].held /\ a.fresh = eng.actor[r].fresh
        /\ a.recorded = eng.actor[r].recorded /\ a.next = eng.actor[r].next
        /\ a.queue = eng.actor[r].queue /\ a.current = eng.actor[r].current
    BY <2>3, <2>7 DEF ActorShape
  <2>9. DOMAIN f = DOMAIN eng.actor /\ f[r] = a /\ \A q \in DOMAIN eng.actor : q # r => f[q] = eng.actor[q]
    BY <2>4
  <2>10. \A q \in DOMAIN eng.actor :
            /\ f[q].held = eng.actor[q].held /\ f[q].fresh = eng.actor[q].fresh
            /\ f[q].recorded = eng.actor[q].recorded /\ f[q].next = eng.actor[q].next
            /\ f[q].queue = eng.actor[q].queue /\ f[q].current = eng.actor[q].current
    BY <2>8, <2>9
  <2>11. Alike(eng, eng')
    BY <2>6, <2>9, <2>10 DEF Alike
  <2> QED
    BY <1>2, <2>6, <2>10, <2>11, OrderStays
<1> QED
  BY <1>3, <1>4

\* The record of a live ask changes.
LEMMA NodeOrders ==
  ASSUME IInv, OrderInv, Running, NEW i \in DOMAIN eng.live, NEW v, v.actor = eng.live[i].actor,
         eng' = [eng EXCEPT !.live[i] = v], UNCHANGED <<rows, engine, pc>>
  PROVE  OrderInv'
<1>1. Made' = Made /\ (Running' => Running)
  BY SameSteps DEF Running
<1>2. PICK l : l = [eng.live EXCEPT ![i] = v]
  OBVIOUS
<1>3. eng' = [eng EXCEPT !.live = l]
  BY <1>2
<1>4. eng'.ordinals = eng.ordinals /\ eng'.handle = eng.handle /\ eng'.actor = eng.actor /\ eng'.live = l
  BY <1>3 DEF IInv, Memory, EngineShape
<1>5. Alike(eng, eng')
  BY <1>4 DEF Alike
<1>6. DOMAIN l = DOMAIN eng.live /\ \A j \in DOMAIN eng.live : l[j].actor = eng.live[j].actor
  BY <1>2
<1> QED
  BY <1>1, <1>4, <1>5, <1>6, OrderStays

\* What a dispatch or a turn does to the engine: nothing, a change in the
\* record of a live ask, or the end of an ask in flight.
NodeChanged(i) ==
    \E v : /\ v.actor = eng.live[i].actor /\ v.strand = eng.live[i].strand
           /\ eng' = [eng EXCEPT !.live[i] = v]
AskMoves ==
    /\ UNCHANGED <<engine, pc>>
    /\ \/ UNCHANGED <<rows, eng, mail>>
       \/ /\ Running /\ UNCHANGED <<rows, mail>>
          /\ \E i \in DOMAIN eng.live : NodeChanged(i)
       \/ /\ Running
          /\ \E i \in DOMAIN eng.live : \E status \in {"completed", "failed"} :
                eng.actor[eng.live[i].actor].current = i /\ SettleNode(i, status)

LEMMA DispatchMoves ==
  ASSUME IInv, NEW r, Dispatch(r)
  PROVE  AskMoves
<1>1. PICK i : i = eng.actor[r].current
  OBVIOUS
<1>2. /\ Running /\ r \in DOMAIN eng.actor /\ i \in DOMAIN eng.live
      /\ UNCHANGED <<engine, pc>>
  BY <1>1 DEF Dispatch
<1>3. EngineShape(eng) /\ Flights(eng)
  BY <1>2 DEF IInv, Scheduler, EngineInv
<1>4. eng.live[i] \in Nodes /\ eng.live[i].actor = r
  BY <1>1, <1>2, <1>3, NoneIsNoName DEF EngineShape, Flights, Holds
<1>5. ASSUME eng' = [eng EXCEPT !.live[i].dispatched = TRUE] PROVE NodeChanged(i)
  <2>1. PICK n : n = eng.live[i]
    OBVIOUS
  <2>2. PICK v : v = [n EXCEPT !.dispatched = TRUE]
    OBVIOUS
  <2>3. v.actor = eng.live[i].actor /\ v.strand = eng.live[i].strand
    BY <1>4, <2>1, <2>2 DEF Nodes
  <2>4. eng' = [eng EXCEPT !.live[i] = v]
    BY <1>5, <2>1, <2>2
  <2> QED
    BY <2>3, <2>4 DEF NodeChanged
<1>6. eng.actor[eng.live[i].actor].current = i
  BY <1>1, <1>4
<1>7. \/ eng' = [eng EXCEPT !.live[i].dispatched = TRUE] /\ UNCHANGED <<rows, mail>>
      \/ SettleNode(i, "failed")
  BY <1>1 DEF Dispatch
<1> QED
  BY <1>2, <1>5, <1>6, <1>7 DEF AskMoves

LEMMA SubmitMoves ==
  ASSUME IInv, NEW k, SubmitAccepted(k) \/ SubmitRejected(k)
  PROVE  AskMoves
<1>1. PICK i : i = sessions[k].current
  OBVIOUS
<1>2. /\ k \in DOMAIN sessions /\ Running /\ k[1] = life /\ i \in DOMAIN eng.live
      /\ UNCHANGED <<engine, pc>>
  BY <1>1 DEF SubmitAccepted, SubmitRejected, Submits, Reaches
<1>3. eng.actor[eng.live[i].actor].current = i /\ eng.live[i] \in Nodes
  BY <1>1, <1>2, ServedAsk DEF IInv, Memory, EngineShape
<1>4. ASSUME eng' = [eng EXCEPT !.live[i].repairs = @ - 1] PROVE NodeChanged(i)
  <2>1. PICK n : n = eng.live[i]
    OBVIOUS
  <2>2. PICK v : v = [n EXCEPT !.repairs = n.repairs - 1]
    OBVIOUS
  <2>3. v.actor = eng.live[i].actor /\ v.strand = eng.live[i].strand
    BY <1>3, <2>1, <2>2 DEF Nodes
  <2>4. eng' = [eng EXCEPT !.live[i] = v]
    BY <1>2, <1>4, <2>1, <2>2 DEF IInv, Memory, EngineShape
  <2> QED
    BY <2>3, <2>4 DEF NodeChanged
<1>5. \/ eng' = [eng EXCEPT !.live[i].repairs = @ - 1] /\ UNCHANGED <<rows, mail>>
      \/ SettleNode(i, "completed") \/ SettleNode(i, "failed")
  BY <1>1 DEF SubmitAccepted, SubmitRejected
<1> QED
  BY <1>2, <1>3, <1>4, <1>5 DEF AskMoves

LEMMA TurnErrsMoves ==
  ASSUME IInv, NEW k, TurnErrs(k)
  PROVE  AskMoves
<1>1. k \in DOMAIN sessions /\ sessions[k].turns # <<>> /\ UNCHANGED <<engine, pc>>
  BY DEF TurnErrs, TurnFails, InTurn
<1>2. CASE UNCHANGED <<rows, eng, mail>>
  BY <1>1, <1>2 DEF AskMoves
<1>3. CASE Reaches(k, Turn(k).inst) /\ SettleNode(Turn(k).inst, "failed")
  <2>1. PICK i : i = Turn(k).inst
    OBVIOUS
  <2>2. Running /\ k[1] = life /\ i \in DOMAIN eng.live
    BY <1>3, <2>1 DEF Reaches
  <2>3. SessionShape(sessions[k]) /\ Serves(eng, sessions[k], k[2])
    BY <1>1, <2>2, TableIs
  <2>4. 1 \in DOMAIN sessions[k].turns /\ Turn(k) = sessions[k].turns[1]
    BY <1>1, <2>3, TurnLandsIs DEF Turn
  <2>5. sessions[k].turns[1].mode = "run"
    BY <2>1, <2>2, <2>3, <2>4 DEF Serves, TurnFits
  <2>6. i = sessions[k].current
    BY <1>1, <2>1, <2>3, <2>4, <2>5, TurnLandsServes
  <2>7. eng.actor[eng.live[i].actor].current = i
    BY <1>1, <2>2, <2>6, ServedAsk
  <2> QED
    BY <1>1, <1>3, <2>1, <2>2, <2>7 DEF AskMoves
<1> QED
  BY <1>2, <1>3 DEF TurnErrs

LEMMA ReportMoves ==
  ASSUME IInv, NEW k, NEW i, Report(k, i)
  PROVE  AskMoves
<1>1. k \in DOMAIN sessions /\ i \in sessions[k].reporting /\ UNCHANGED <<engine, pc>>
  BY DEF Report
<1>2. ASSUME Reaches(k, i)
      PROVE  /\ Running /\ i \in DOMAIN eng.live /\ eng.live[i] \in Nodes
             /\ eng.actor[eng.live[i].actor].current = i
  <2>1. Running /\ k[1] = life /\ i \in DOMAIN eng.live
    BY <1>2 DEF Reaches
  <2>2. PICK ss : ss = sessions[k]
    OBVIOUS
  <2>3. SessionShape(ss) /\ Serves(eng, ss, k[2]) /\ i \in ss.reporting
    BY <1>1, <2>1, <2>2, TableIs
  <2>4. PICK told : told = [ss EXCEPT !.reporting = @ \ {i}]
    OBVIOUS
  <2>5. i = ss.current
    BY <2>1, <2>3, <2>4, ToldServes
  <2> QED
    BY <1>1, <2>1, <2>2, <2>5, ServedAsk DEF IInv, Memory, EngineShape
<1>3. ASSUME Reaches(k, i), eng' = [eng EXCEPT !.live[i].nudges = @ - 1] PROVE NodeChanged(i)
  <2>1. PICK n : n = eng.live[i]
    OBVIOUS
  <2>2. PICK v : v = [n EXCEPT !.nudges = n.nudges - 1]
    OBVIOUS
  <2>3. v.actor = eng.live[i].actor /\ v.strand = eng.live[i].strand
    BY <1>2, <1>3, <2>1, <2>2 DEF Nodes
  <2>4. eng' = [eng EXCEPT !.live[i] = v]
    BY <1>2, <1>3, <2>1, <2>2 DEF IInv, Memory, EngineShape
  <2> QED
    BY <2>3, <2>4 DEF NodeChanged
<1>4. \/ UNCHANGED <<rows, eng, mail>>
      \/ Reaches(k, i) /\ (SettleNode(i, "completed") \/ SettleNode(i, "failed"))
      \/ Reaches(k, i) /\ eng' = [eng EXCEPT !.live[i].nudges = @ - 1] /\ UNCHANGED <<rows, mail>>
  BY Zenon DEF Report
<1> QED
  BY <1>1, <1>2, <1>3, <1>4 DEF AskMoves

LEMMA AskSteps ==
  ASSUME IInv,
         \/ \E r \in DOMAIN eng.actor : Dispatch(r)
         \/ \E k \in DOMAIN sessions :
               (TurnStep(k) /\ ~TurnStopsRun(k)) \/ RedriveFires(k) \/ Reports(k)
  PROVE  AskMoves
<1>1. ASSUME NEW k, TurnResolves(k) \/ TurnCancelled(k) \/ TurnIsTransient(k) \/ RedriveFires(k)
      PROVE  AskMoves
  BY <1>1 DEF AskMoves, TurnResolves, TurnCancelled, TurnIsTransient, TurnFails, RedriveFires
<1> QED
  BY <1>1, DispatchMoves, SubmitMoves, TurnErrsMoves, ReportMoves DEF TurnStep, Reports

LEMMA MovesOrder ==
  ASSUME IInv, OrderInv, AskMoves
  PROVE  OrderInv'
<1>1. Made' = Made /\ (Running' => Running) /\ UNCHANGED pc
  BY SameSteps DEF AskMoves, Running
<1>2. CASE UNCHANGED <<rows, eng>>
  BY <1>1, <1>2, EngineStays
<1>3. ASSUME Running, UNCHANGED <<rows, engine, pc>>, NEW i \in DOMAIN eng.live, NodeChanged(i) PROVE OrderInv'
  BY <1>3, NodeOrders DEF NodeChanged
<1>4. ASSUME Running, NEW i \in DOMAIN eng.live, NEW status \in {"completed", "failed"},
             eng.actor[eng.live[i].actor].current = i, SettleNode(i, status)
      PROVE  OrderInv'
  BY <1>1, <1>4, SettleOrders
<1> QED
  BY <1>1, <1>2, <1>3, <1>4 DEF AskMoves

LEMMA StepOrders ==
  ASSUME OnePass, IInv, OrderInv, [Next]_vars
  PROVE  OrderInv'
<1>1. ASSUME Sandbox PROVE OrderInv'
  <2>1. PICK m \in Range(mail) :
           ScriptThrows(m) \/ StrandEnds(m) \/ AskFresh(m) \/ AskRecorded(m) \/ AskMismatched(m)
    BY <1>1 DEF Sandbox
  <2>2. ASSUME ScriptThrows(m) PROVE OrderInv'
    <3>1. SettleRun(sessions, "errored", "DriverError") /\ Made' = Made
      BY <2>2, SameSteps DEF ScriptThrows
    <3> QED
      BY <3>1, RunOverOrders
  <2> QED
    BY <2>1, <2>2, StrandEndsOrders, AskFreshOrders, AskRecordedOrders, NothingMismatches
<1>2. ASSUME NEW k \in creating, SessionReady(k) \/ SessionFails(k) PROVE OrderInv'
  <2>1. CASE SessionReady(k)
    BY <2>1, SessionOrders DEF SessionReady
  <2>2. CASE SessionFails(k)
    BY <2>2, SessionOrders DEF SessionFails
  <2> QED
    BY <1>2, <2>1, <2>2
<1>3. ASSUME \/ \E r \in DOMAIN eng.actor : Dispatch(r)
             \/ \E k \in DOMAIN sessions :
                   (TurnStep(k) /\ ~TurnStopsRun(k)) \/ RedriveFires(k) \/ Reports(k)
      PROVE  OrderInv'
  BY <1>3, AskSteps, MovesOrder
<1>4. ASSUME NEW k, TurnStopsRun(k) PROVE OrderInv'
  <2>1. SettleRun([sessions EXCEPT ![k] = TurnLands(@)], "stopped", "provider") /\ Made' = Made
    BY <1>4, SameSteps DEF TurnStopsRun, TurnFails
  <2> QED
    BY <2>1, RunOverOrders
<1>5. ASSUME NEW reason, Stop(reason) PROVE OrderInv'
  <2>1. SettleRun(sessions, "stopped", reason) /\ Made' = Made
    BY <1>5, SameSteps DEF Stop
  <2> QED
    BY <2>1, RunOverOrders
<1>6. ASSUME Crash \/ Resume PROVE OrderInv'
  BY <1>6, EngineIsNew DEF Crash, Resume
<1>7. ASSUME Reconcile \/ UNCHANGED vars PROVE OrderInv'
  <2>1. UNCHANGED <<rows, engine, eng, pc>>
    BY <1>7 DEF Reconcile, vars
  <2> QED
    BY <2>1, SameSteps, EngineStays DEF Running
<1> QED
  BY <1>1, <1>2, <1>3, <1>4, <1>5, <1>6, <1>7 DEF Next, Progress, Lifecycle

\* Scripts that pass every site once: the names and the numbers of the asks
\* are the same in every lifetime, and follow the script.
THEOREM NamesAndNumbers == OnePass => (Spec => []OrderInv)
<1> SUFFICES ASSUME OnePass PROVE Spec => []OrderInv
  OBVIOUS
<1>1. Init => OrderInv
  BY OrderStarts
<1>2. IInv /\ OrderInv /\ [Next]_vars => OrderInv'
  BY StepOrders
<1> QED
  BY <1>1, <1>2, RunInvariant, PTL DEF Spec

\* The hold rule, for scripts that pass every site once: an ask takes a slot
\* only after every ask of its actor with a smaller number is final, also the
\* ones an earlier lifetime left open.
THEOREM AsksAreInOrder == OnePass => (Spec => []AsksRunInOrder)
<1> SUFFICES ASSUME OnePass PROVE Spec => []AsksRunInOrder
  OBVIOUS
<1>1. IInv /\ OrderInv => AsksRunInOrder
  <2> SUFFICES ASSUME IInv, OrderInv, Running,
                      NEW i \in DOMAIN rows, NEW j \in DOMAIN rows,
                      i # j, rows[i].actor = rows[j].actor
               PROVE  /\ rows[i].seq # rows[j].seq
                      /\ (rows[j].seq < rows[i].seq /\ rows[i].actor \in DOMAIN eng.actor
                           /\ eng.actor[rows[i].actor].current = i) => Final(j)
    BY DEF AsksRunInOrder
  <2>1. PICK r : r = rows[i].actor
    OBVIOUS
  <2>2. /\ r \in ActorRefs /\ rows[i].seq \in Nat /\ rows[j].seq \in Nat
        /\ rows[j].status \in Statuses
    <3>1. RowShape(i) /\ RowShape(j)
      BY DEF IInv, Journal
    <3>2. PICK n \in Nat : n = Cardinality(Agents)
      BY ScriptAssumption, FS_CardinalityType
    <3> QED
      BY <2>1, <3>1, <3>2 DEF RowShape, Refs, ActorRefs
  <2>3. Filled(rows, r, Cardinality(RowsOf(rows, r)))
    BY <2>2, RowsAreNumbered DEF IInv, OrderInv
  <2>4. rows[i].seq # rows[j].seq
    BY <2>1, <2>3 DEF Filled, RowsOf
  <2>5. ASSUME rows[j].seq < rows[i].seq, r \in DOMAIN eng.actor, eng.actor[r].current = i,
               rows[j].status = "running"
        PROVE  FALSE
    <3>1. Ordered(rows, eng) /\ Flights(eng) /\ EngineShape(eng)
      BY DEF OrderInv, IInv, Scheduler, EngineInv
    <3>2. i # None
      <4>1. PICK k \in Nat : k = Cardinality(Steps)
        BY StepsAreFinite
      <4>2. i \in AskSites \X (1..k)
        BY <4>1 DEF IInv, Journal, Instances, Steps
      <4>3. i \in Asks
        BY <4>1, <4>2 DEF Asks
      <4> QED
        BY <4>3, NoneIsNoName
    <3>3. i \in DOMAIN eng.live
      BY <2>5, <3>1, <3>2 DEF Flights, Holds
    <3>4. Passed(rows, eng, i)
      BY <3>1, <3>3 DEF Ordered
    <3>5. rows[i].seq < eng.actor[r].next /\ eng.actor[r].next \in Nat
      BY <2>1, <2>5, <3>1, <3>4 DEF Passed, EngineShape, ActorShape
    <3>6. rows[j].seq < eng.actor[r].next
      BY <2>2, <2>5, <3>5
    <3>7. Passed(rows, eng, j)
      BY <2>1, <2>5, <3>6 DEF Passed
    <3>8. j \in DOMAIN eng.live /\ eng.live[j].actor = r
      BY <2>1, <2>5, <3>1, <3>7 DEF Ordered
    <3>9. Lined(eng.actor[r], j) /\ Queued(rows, eng.actor[r])
      BY <2>5, <3>1, <3>8 DEF Ordered, InLine
    <3>10. PICK n \in DOMAIN eng.actor[r].queue : eng.actor[r].queue[n] = j
      BY <2>5, <3>9 DEF Lined
    <3>11. rows[i].seq < rows[j].seq
      BY <2>5, <3>2, <3>9, <3>10 DEF Queued
    <3> QED
      BY <2>2, <2>5, <3>11
  <2> QED
    BY <2>1, <2>4, <2>5 DEF Final
<1> QED
  BY <1>1, NamesAndNumbers, RunInvariant, PTL

-----------------------------------------------------------------------------
(* Whom an engine owes an answer, and what the answers say.                *)

\* The strand waits for the answer to the ask of its current step.
Awaits(p, s, i) == s \in Strands /\ p[s] \in 1..Len(Script[s]) /\ i = <<Script[s][p[s]].site, 1>>

CallsOf(a) == {a.held[p] : p \in DOMAIN a.held} \cup {a.fresh[n] : n \in DOMAIN a.fresh}
\* The unanswered asks, each with the strand that gets its answer.
Owed(e) ==
    {<<e.live[i].strand, i>> : i \in DOMAIN e.live}
    \cup UNION {{<<c.strand, c.inst>> : c \in CallsOf(e.actor[r])} : r \in DOMAIN e.actor}
Kept(p, e) == \A o \in Owed(e) : Awaits(p, o[1], o[2])

\* A message starts its strand, or brings it the record of the ask it awaits.
Brings(p, R, e, m) ==
    /\ m.strand \in Strands
    /\ \/ m.status = "start" /\ p[m.strand] = 0
       \/ /\ m.status # "start"
          /\ \E i \in DOMAIN R :
                /\ Awaits(p, m.strand, i) /\ i \in Past(e)
                /\ R[i].status # "running" /\ R[i].status = m.status /\ R[i].answer = m.answer
\* No strand has two messages.
Posted(p, R, e, ms) ==
    /\ \A n \in DOMAIN ms : Brings(p, R, e, ms[n])
    /\ \A k, n \in DOMAIN ms : ms[k].strand = ms[n].strand => k = n

\* What a step has heard is the record of its ask.
Recalls(R, s, n, h) ==
    LET i == <<Script[s][n].site, 1>>
    IN  i \in DOMAIN R /\ R[i].status # "running" /\ h = [status |-> R[i].status, answer |-> R[i].answer]
Heard ==
    /\ DOMAIN heard = Strands
    /\ \A s \in Strands : DOMAIN heard[s] = 1..Len(Script[s])
    /\ \A s \in Strands : \A n \in DOMAIN heard[s] :
          heard[s][n].status # "none" => Recalls(rows, s, n, heard[s][n])

AnswerInv ==
    /\ Heard
    /\ Running => Kept(pc, eng) /\ Posted(pc, rows, eng, mail)

LEMMA AwaitsIs ==
  ASSUME NEW p, NEW s, NEW i, Awaits(p, s, i)
  PROVE  p[s] # 0
<1>1. PICK l \in Nat : l = Len(Script[s])
  BY StepsAreFinite DEF Awaits
<1> QED
  BY <1>1 DEF Awaits

LEMMA OwedIs ==
  ASSUME NEW e
  PROVE  /\ \A i \in DOMAIN e.live : <<e.live[i].strand, i>> \in Owed(e)
         /\ \A r \in DOMAIN e.actor : \A c \in CallsOf(e.actor[r]) : <<c.strand, c.inst>> \in Owed(e)
         /\ \A o \in Owed(e) :
               \/ \E i \in DOMAIN e.live : o = <<e.live[i].strand, i>>
               \/ \E r \in DOMAIN e.actor : \E c \in CallsOf(e.actor[r]) : o = <<c.strand, c.inst>>
BY DEF Owed

LEMMA WaitingIs ==
  ASSUME NEW a
  PROVE  Waiting(a) = {c.inst : c \in CallsOf(a)}
BY DEF Waiting, CallsOf

-----------------------------------------------------------------------------
(* What the engine does with it.                                           *)

\* Nothing is named, and the asks that are live or wait are as before.
Follows(e, x) ==
    /\ x.ordinals = e.ordinals /\ DOMAIN x.actor = DOMAIN e.actor
    /\ \A r \in DOMAIN e.actor : x.actor[r].held = e.actor[r].held /\ x.actor[r].fresh = e.actor[r].fresh
    /\ \A i \in DOMAIN x.live : i \in DOMAIN e.live /\ x.live[i].strand = e.live[i].strand

LEMMA FollowsOwes ==
  ASSUME NEW e, NEW x, Follows(e, x)
  PROVE  Owed(x) \subseteq Owed(e) /\ Past(x) = Past(e)
<1>1. \A r \in DOMAIN e.actor : CallsOf(x.actor[r]) = CallsOf(e.actor[r])
  BY DEF Follows, CallsOf
<1>2. ASSUME NEW o \in Owed(x) PROVE o \in Owed(e)
  <2>1. ASSUME NEW i \in DOMAIN x.live, o = <<x.live[i].strand, i>> PROVE o \in Owed(e)
    BY <2>1, OwedIs DEF Follows
  <2>2. ASSUME NEW r \in DOMAIN x.actor, NEW c \in CallsOf(x.actor[r]), o = <<c.strand, c.inst>>
        PROVE  o \in Owed(e)
    <3>1. r \in DOMAIN e.actor /\ c \in CallsOf(e.actor[r])
      BY <1>1, <2>2 DEF Follows
    <3> QED
      BY <2>2, <3>1, OwedIs
  <2> QED
    BY <2>1, <2>2, OwedIs
<1>3. \A r \in DOMAIN e.actor : Waiting(x.actor[r]) = Waiting(e.actor[r])
  BY <1>1, WaitingIs
<1>4. Past(x) = Past(e)
  BY <1>3 DEF Past, Follows
<1> QED
  BY <1>2, <1>4

LEMMA FollowsOn ==
  ASSUME NEW e, NEW x, NEW y, Follows(e, x), Follows(x, y)
  PROVE  Follows(e, y)
BY DEF Follows

LEMMA PumpFollows ==
  ASSUME NEW e, EngineShape(e), cap \in Nat, e.active <= cap, NEW refs \in Seq(DOMAIN e.actor),
         NEW x, x = Pump(e, refs)
  PROVE  Follows(e, x)
<1>1. /\ x.ordinals = e.ordinals /\ x.live = e.live
      /\ DOMAIN x.actor = DOMAIN e.actor
  BY PumpIs
<1>2. Alike(e, x)
  BY PumpOrders
<1> QED
  BY <1>1, <1>2 DEF Follows, Alike

LEMMA FinishFollows ==
  ASSUME NEW e, cap \in Nat, EngineInv(e, cap), NEW i \in DOMAIN e.live,
         e.actor[e.live[i].actor].current = i, NEW x, x = FinishNode(e, i)
  PROVE  Follows(e, x)
<1>1. PICK y : y = FreeSlot(e, i)
  OBVIOUS
<1>2. EngineInv(y, cap) /\ e.active # 0
  BY <1>1, FreeSlotKeeps
<1>3. x = Pump(y, y.order)
  BY <1>1 DEF FinishNode, FreeSlot
<1>4. EngineShape(y) /\ y.active <= cap /\ y.order \in Seq(ActorRefs) /\ DOMAIN y.actor = Range(y.order)
  BY <1>2 DEF EngineInv, EngineShape, Roster, Slots
<1>5. y.order \in Seq(DOMAIN y.actor)
  BY <1>4, SeqOfRange
<1>6. Follows(y, x)
  BY <1>2, <1>3, <1>4, <1>5, PumpFollows DEF EngineInv
<1>7. Follows(e, y)
  <2>1. EngineShape(e) /\ e.live[i].actor \in DOMAIN e.actor
    BY DEF EngineInv, Flights
  <2>2. /\ y.ordinals = e.ordinals /\ DOMAIN y.live = DOMAIN e.live \ {i}
        /\ \A j \in DOMAIN y.live : y.live[j] = e.live[j]
        /\ DOMAIN y.actor = DOMAIN e.actor
        /\ \A r \in DOMAIN e.actor :
              y.actor[r].held = e.actor[r].held /\ y.actor[r].fresh = e.actor[r].fresh
    BY <1>1, <1>2, <2>1, FreeSlotIs
  <2> QED
    BY <2>2 DEF Follows
<1> QED
  BY <1>6, <1>7, FollowsOn
LEMMA CreateActorOwes ==
  ASSUME NEW e, EngineShape(e), Roster(e), IsFiniteSet(DOMAIN rows), NEW agent \in Agents,
         NEW x, x = CreateActor(e, agent)
  PROVE  Owed(x) \subseteq Owed(e)
<1>1. CASE e.handle[agent] # None
  BY <1>1 DEF CreateActor
<1>2. CASE e.handle[agent] = None
  <2>1. PICK ref : ref = <<ActorSite[agent], e.ordinals[ActorSite[agent]] + 1>>
    OBVIOUS
  <2>2. /\ x.live = e.live /\ DOMAIN x.actor = DOMAIN e.actor \cup {ref}
        /\ x.actor[ref] = FreshActor(ref)
        /\ \A r \in DOMAIN e.actor : x.actor[r] = e.actor[r]
    BY <1>2, <2>1, CreateActorIs
  <2>3. CallsOf(FreshActor(ref)) = {}
    BY DEF CallsOf, FreshActor, EmptyMap
  <2>4. ASSUME NEW o \in Owed(x) PROVE o \in Owed(e)
    <3>1. ASSUME NEW i \in DOMAIN x.live, o = <<x.live[i].strand, i>> PROVE o \in Owed(e)
      BY <2>2, <3>1, OwedIs
    <3>2. ASSUME NEW r \in DOMAIN x.actor, NEW c \in CallsOf(x.actor[r]), o = <<c.strand, c.inst>>
          PROVE  o \in Owed(e)
      <4>1. r \in DOMAIN e.actor /\ x.actor[r] = e.actor[r]
        BY <2>2, <2>3, <3>2
      <4> QED
        BY <3>2, <4>1, OwedIs
    <3> QED
      BY <3>1, <3>2, OwedIs
  <2> QED
    BY <2>4
<1> QED
  BY <1>1, <1>2

LEMMA JoinOwes ==
  ASSUME NEW e, EngineShape(e), NEW t, NEW ref \in DOMAIN e.actor, NEW a, NEW c,
         CallsOf(a) \subseteq CallsOf(e.actor[ref]) \cup {c}, NEW x, x = Joined(e, t, ref, a)
  PROVE  Owed(x) \subseteq Owed(e) \cup {<<c.strand, c.inst>>}
<1>1. PICK f : f = [e.actor EXCEPT ![ref] = a]
  OBVIOUS
<1>2. PICK g : g = [e.ordinals EXCEPT ![t] = @ + 1]
  OBVIOUS
<1>3. x = [e EXCEPT !.ordinals = g, !.actor = f]
  BY <1>1, <1>2 DEF Joined
<1>4. x.live = e.live /\ x.actor = f
  BY <1>3 DEF EngineShape
<1>5. /\ DOMAIN f = DOMAIN e.actor /\ f[ref] = a
      /\ \A r \in DOMAIN e.actor : r # ref => f[r] = e.actor[r]
  BY <1>1
<1>6. ASSUME NEW o \in Owed(x) PROVE o \in Owed(e) \cup {<<c.strand, c.inst>>}
  <2>1. ASSUME NEW i \in DOMAIN x.live, o = <<x.live[i].strand, i>> PROVE o \in Owed(e)
    BY <1>4, <2>1, OwedIs
  <2>2. ASSUME NEW r \in DOMAIN x.actor, NEW d \in CallsOf(x.actor[r]), o = <<d.strand, d.inst>>
        PROVE  o \in Owed(e) \cup {<<c.strand, c.inst>>}
    <3>1. r \in DOMAIN e.actor /\ (d \in CallsOf(e.actor[r]) \/ d = c)
      BY <1>4, <1>5, <2>2
    <3> QED
      BY <2>2, <3>1, OwedIs
  <2> QED
    BY <2>1, <2>2, OwedIs
<1> QED
  BY <1>6

\* Every released call is one of the actor's, and none of them waits on.
LEMMA ReleasedOwes ==
  ASSUME NEW a, ActorShape(a), Single(a), NEW out, out = Released(a)
  PROVE  /\ \A n \in DOMAIN out : out[n].call \in CallsOf(a)
         /\ CallsOf(Drained(a)) \subseteq CallsOf(a)
<1>1. ASSUME NEW n \in DOMAIN out PROVE out[n].call \in CallsOf(a)
  <2>1. PICK p \in a.next..(DrainEnd(a) - 1) : out[n].call = CallAt(a, p)
    BY ReleasedIs
  <2>2. /\ p \in DOMAIN a.held => CallAt(a, p) = a.held[p]
        /\ p \notin DOMAIN a.held => \E k \in DOMAIN a.fresh : CallAt(a, p) = a.fresh[k]
    BY CallAtIs
  <2> QED
    BY <2>1, <2>2 DEF CallsOf
<1>2. Remains(a, out, Drained(a))
  BY DrainedHas
<1> QED
  BY <1>1, <1>2 DEF Remains, CallsOf

LEMMA EnteredOwes ==
  ASSUME cap \in Nat, NEW e, EngineInv(e, cap), NEW ref \in DOMAIN e.actor,
         NEW out, out = Released(e.actor[ref]), NEW x, x = Entered(e, ref)
  PROVE  /\ Owed(x) \subseteq Owed(e)
         /\ \A n \in DOMAIN out : /\ out[n].call.inst \in Past(x)
                                  /\ <<out[n].call.strand, out[n].call.inst>> \in Owed(e)
<1>1. PICK a : a = e.actor[ref]
  OBVIOUS
<1>2. EngineShape(e) /\ ActorShape(a) /\ Single(a) /\ Names(e)
  BY <1>1 DEF EngineInv, EngineShape, Names
<1>3. PICK O : O = Opened(out)
  OBVIOUS
<1>4. /\ x.ordinals = e.ordinals /\ DOMAIN x.actor = DOMAIN e.actor /\ x.actor[ref] = Drained(a)
      /\ \A r \in DOMAIN e.actor : r # ref => x.actor[r] = e.actor[r]
      /\ DOMAIN x.live = DOMAIN e.live \cup O
      /\ \A i \in DOMAIN e.live : i \notin O => x.live[i] = e.live[i]
  BY <1>1, <1>2, <1>3, EnteredIs
<1>5. /\ \A n \in DOMAIN out : out[n].call \in CallsOf(a)
      /\ CallsOf(Drained(a)) \subseteq CallsOf(a)
  BY <1>1, <1>2, ReleasedOwes
<1>6. \A n \in DOMAIN out : <<out[n].call.strand, out[n].call.inst>> \in Owed(e)
  BY <1>1, <1>5, OwedIs
<1>7. ASSUME NEW i \in O PROVE <<x.live[i].strand, i>> \in Owed(e)
  <2>1. \E n \in Begun(out) : out[n].call.inst = i
    BY <1>3 DEF Opened
  <2>2. PICK n \in Begun(out) : n = CHOOSE k \in Begun(out) : out[k].call.inst = i
    BY <2>1
  <2>3. out[n].call.inst = i /\ Entry(out, i) = out[n] /\ n \in DOMAIN out
    BY <2>1, <2>2 DEF Entry, Begun
  <2>4. x.live[i].strand = out[n].call.strand
    <3>1. PICK l : l = [j \in DOMAIN e.live \cup O |->
                          IF j \in O THEN NewNode(Entry(out, j).call.strand, ref) ELSE e.live[j]]
      OBVIOUS
    <3>2. PICK f : f = [e.actor EXCEPT ![ref] = Drained(@)]
      OBVIOUS
    <3>3. x = [e EXCEPT !.actor = f, !.live = l]
      BY <1>3, <3>1, <3>2 DEF Entered
    <3>4. x.live = l
      BY <1>2, <3>3 DEF EngineShape
    <3>5. l[i] = NewNode(out[n].call.strand, ref)
      BY <2>3, <3>1
    <3> QED
      BY <3>4, <3>5 DEF NewNode
  <2> QED
    BY <1>6, <2>3, <2>4
<1>8. ASSUME NEW o \in Owed(x) PROVE o \in Owed(e)
  <2>1. ASSUME NEW i \in DOMAIN x.live, o = <<x.live[i].strand, i>> PROVE o \in Owed(e)
    BY <1>4, <1>7, <2>1, OwedIs
  <2>2. ASSUME NEW r \in DOMAIN x.actor, NEW c \in CallsOf(x.actor[r]), o = <<c.strand, c.inst>>
        PROVE  o \in Owed(e)
    <3>1. r \in DOMAIN e.actor /\ c \in CallsOf(e.actor[r])
      BY <1>1, <1>4, <1>5, <2>2
    <3> QED
      BY <2>2, <3>1, OwedIs
  <2> QED
    BY <2>1, <2>2, OwedIs
<1>9. ASSUME NEW n \in DOMAIN out PROVE out[n].call.inst \in Past(x)
  <2>1. PICK i : i = out[n].call.inst
    OBVIOUS
  <2>2. i \in Waiting(a) /\ i \notin Waiting(Drained(a))
    BY <1>1, <1>2, <2>1, ReleasedIs, DrainedIs
  <2>3. i \in Asks /\ i[2] <= e.ordinals[i[1]]
    BY <1>1, <1>2, <2>2, WaitingAreAsks DEF Names
  <2>4. \A r \in DOMAIN e.actor : r # ref => i \notin Waiting(e.actor[r])
    BY <1>1, <1>2, <2>2 DEF Names
  <2> QED
    BY <1>4, <2>1, <2>2, <2>3, <2>4 DEF Past
<1> QED
  BY <1>6, <1>8, <1>9

LEMMA AdmitOwes ==
  ASSUME cap \in Nat, NEW e, EngineInv(e, cap), NEW ref \in DOMAIN e.actor,
         NEW out, out = Released(e.actor[ref]),
         NEW others, others = e.order \/ others = <<>>,
         NEW x, x = Pump(Pump(Entered(e, ref), <<ref>>), others)
  PROVE  /\ Owed(x) \subseteq Owed(e) /\ Past(e) \subseteq Past(x)
         /\ \A n \in DOMAIN out : /\ out[n].call.inst \in Past(x)
                                  /\ <<out[n].call.strand, out[n].call.inst>> \in Owed(e)
<1>1. PICK y : y = Entered(e, ref)
  OBVIOUS
<1>2. PICK u : u = Pump(y, <<ref>>)
  OBVIOUS
<1>3. EngineInv(y, cap) /\ Past(e) \subseteq Past(y)
  BY <1>1, EnteredKeeps DEF Evolves
<1>4. /\ EngineShape(e) /\ Roster(e) /\ e.order \in Seq(ActorRefs) /\ Single(e.actor[ref])
  BY DEF EngineInv, EngineShape, Names
<1>5. y.order = e.order /\ DOMAIN y.actor = DOMAIN e.actor
  BY <1>1, <1>4, EnteredIs
<1>6. <<ref>> \in Seq(DOMAIN y.actor)
  BY <1>5, OneElement
<1>7. EngineInv(u, cap)
  BY <1>2, <1>3, <1>6, PumpKeeps
<1>8. EngineShape(y) /\ y.active <= cap /\ EngineShape(u) /\ u.active <= cap
  BY <1>3, <1>7 DEF EngineInv, Slots
<1>9. Follows(y, u)
  BY <1>2, <1>6, <1>8, PumpFollows
<1>10. others \in Seq(DOMAIN u.actor)
  <2>1. CASE others = <<>>
    BY <2>1, EmptySeq
  <2>2. CASE others = e.order
    <3>1. Range(e.order) = DOMAIN u.actor
      BY <1>4, <1>5, <1>9 DEF Roster, Follows
    <3>2. e.order \in Seq(Range(e.order))
      BY <1>4, SeqOfRange
    <3> QED
      BY <2>2, <3>1, <3>2
  <2> QED
    BY <2>1, <2>2
<1>11. x = Pump(u, others)
  BY <1>1, <1>2
<1>12. Follows(u, x)
  BY <1>8, <1>10, <1>11, PumpFollows
<1>13. Owed(x) \subseteq Owed(y) /\ Past(x) = Past(y)
  BY <1>9, <1>12, FollowsOn, FollowsOwes
<1>14. /\ Owed(y) \subseteq Owed(e)
       /\ \A n \in DOMAIN out : /\ out[n].call.inst \in Past(y)
                                /\ <<out[n].call.strand, out[n].call.inst>> \in Owed(e)
  BY <1>1, EnteredOwes
<1> QED
  BY <1>3, <1>13, <1>14
-----------------------------------------------------------------------------
(* What the script hears.                                                  *)

LEMMA AnswerHolds ==
  ASSUME Heard', Running' => Kept(pc', eng') /\ Posted(pc', rows', eng', mail')
  PROVE  AnswerInv'
BY DEF AnswerInv, Kept, Posted, Brings, Awaits, Owed, CallsOf, Past, Waiting, Asks, AskSites, Strands

\* An answered ask keeps its record.
LEMMA RecordsStay ==
  ASSUME IInv, [Next]_vars, NEW i \in DOMAIN rows, rows[i].status # "running"
  PROVE  i \in DOMAIN rows' /\ rows'[i].status = rows[i].status /\ rows'[i].answer = rows[i].answer
<1>1. [Ledger!Next]_<<Records, RunState>>
  BY StepRecorded
<1>2. PICK R : R = Records
  OBVIOUS
<1>3. PICK Q : Q = Records'
  OBVIOUS
<1>4. /\ DOMAIN R = DOMAIN rows /\ DOMAIN Q = DOMAIN rows'
      /\ \A j \in DOMAIN rows : R[j] = [status |-> rows[j].status, answer |-> rows[j].answer]
      /\ \A j \in DOMAIN rows' : Q[j] = [status |-> rows'[j].status, answer |-> rows'[j].answer]
  BY <1>2, <1>3 DEF Records
<1>5. R[i].status # "running"
  BY <1>4
<1>6. i \in DOMAIN Q /\ Q[i] = R[i]
  <2>1. CASE Ledger!OpenAsks
    BY <1>2, <1>3, <1>4, <2>1 DEF Ledger!OpenAsks, Records
  <2>2. CASE Ledger!Settle
    BY <1>2, <1>3, <1>4, <1>5, <2>2 DEF Ledger!Settle, Ledger!Open, Records
  <2>3. CASE Records' = Records
    BY <1>2, <1>3, <1>4, <2>3
  <2> QED
    BY <1>1, <2>1, <2>2, <2>3 DEF Ledger!Next, Ledger!End, Ledger!Resume, Records
<1> QED
  BY <1>4, <1>6

LEMMA RecallsStay ==
  ASSUME IInv, [Next]_vars, NEW s, NEW n, NEW h, Recalls(rows, s, n, h)
  PROVE  Recalls(rows', s, n, h)
BY RecordsStay DEF Recalls

LEMMA HeardStays ==
  ASSUME IInv, Heard, [Next]_vars, UNCHANGED heard
  PROVE  Heard'
<1>1. \A s \in Strands : \A n \in DOMAIN heard[s] :
         heard[s][n].status # "none" => Recalls(rows', s, n, heard[s][n])
  BY RecallsStay DEF Heard
<1> QED
  BY <1>1 DEF Heard, Recalls, Strands

\* What a step hears again it has heard before.
HeardAgain ==
    \A s \in Strands : \A n \in DOMAIN heard[s] :
        heard[s][n].status # "none" => heard'[s][n] = heard[s][n]

LEMMA OldestIs ==
  ASSUME IInv, NEW m, Oldest(m)
  PROVE  /\ m \in Mails /\ m.strand \in Strands /\ Tail(mail) \in Seq(Mails)
         /\ 1 \in DOMAIN mail /\ m = mail[1]
         /\ \A n \in DOMAIN Tail(mail) : n + 1 \in DOMAIN mail /\ Tail(mail)[n] = mail[n + 1] /\ n + 1 # 1
<1>1. mail \in Seq(Mails) /\ mail # <<>> /\ m = Head(mail)
  BY DEF IInv, Answers, Oldest
<1>2. PICK l \in Nat : l = Len(mail) /\ DOMAIN mail = 1..l
  BY <1>1, LenProperties
<1>3. l # 0
  BY <1>1, <1>2, EmptySeq
<1>4. m \in Mails /\ Tail(mail) \in Seq(Mails) /\ m = mail[1]
  BY <1>1, HeadTailProperties
<1>5. PICK k \in Nat : k = Len(Tail(mail)) /\ DOMAIN Tail(mail) = 1..k
  BY <1>4, LenProperties
<1>6. k = l - 1 /\ \A n \in 1..k : Tail(mail)[n] = mail[n + 1]
  BY <1>1, <1>2, <1>5, HeadTailProperties
<1> QED
  BY <1>2, <1>3, <1>4, <1>5, <1>6 DEF Mails

LEMMA HeardGrows ==
  ASSUME IInv, AnswerInv, [Next]_vars, NEW m, Oldest(m), heard' = Observed(m)
  PROVE  Heard' /\ HeardAgain
<1>1. Heard /\ Brings(pc, rows, eng, m) /\ m.strand \in Strands
  BY OldestIs DEF AnswerInv, Posted, Oldest
<1>2. CASE m.status = "start"
  BY <1>1, <1>2, HeardStays DEF Observed, HeardAgain
<1>3. CASE m.status # "start"
  <2>1. PICK t \in Strands : t = m.strand
    BY <1>1
  <2>2. PICK k : k = pc[t]
    OBVIOUS
  <2>3. PICK h : h = [status |-> m.status, answer |-> m.answer]
    OBVIOUS
  <2>4. heard' = [heard EXCEPT ![t][k] = h]
    BY <1>3, <2>1, <2>2, <2>3 DEF Observed
  <2>5. Recalls(rows, t, k, h) /\ k \in 1..Len(Script[t])
    BY <1>1, <1>3, <2>1, <2>2, <2>3 DEF Brings, Awaits, Recalls
  <2>6. PICK g : g = [heard[t] EXCEPT ![k] = h]
    OBVIOUS
  <2>7. heard' = [heard EXCEPT ![t] = g]
    BY <2>4, <2>6
  <2>8. /\ DOMAIN heard = Strands /\ DOMAIN heard[t] = 1..Len(Script[t])
        /\ DOMAIN heard' = Strands /\ heard'[t] = g
        /\ \A s \in Strands : s # t => heard'[s] = heard[s]
    BY <1>1, <2>7 DEF Heard
  <2>9. /\ DOMAIN g = 1..Len(Script[t]) /\ g[k] = h
        /\ \A n \in 1..Len(Script[t]) : n # k => g[n] = heard[t][n]
    BY <2>5, <2>6, <2>8
  <2>10. ASSUME NEW s \in Strands, NEW n \in DOMAIN heard[s], heard[s][n].status # "none"
         PROVE  heard'[s][n] = heard[s][n]
    <3>1. CASE s = t /\ n = k
      <4>1. Recalls(rows, t, k, heard[t][k])
        BY <1>1, <2>10, <3>1 DEF Heard
      <4>2. heard[t][k] = h
        BY <2>5, <4>1 DEF Recalls
      <4> QED
        BY <2>8, <2>9, <3>1, <4>2
    <3>2. CASE ~(s = t /\ n = k)
      BY <2>8, <2>9, <2>10, <3>2
    <3> QED
      BY <3>1, <3>2
  <2>11. \A s \in Strands : DOMAIN heard'[s] = 1..Len(Script[s])
    BY <1>1, <2>8, <2>9 DEF Heard
  <2>12. ASSUME NEW s \in Strands, NEW n \in DOMAIN heard'[s], heard'[s][n].status # "none"
         PROVE  Recalls(rows', s, n, heard'[s][n])
    <3>1. CASE s = t /\ n = k
      BY <2>5, <2>8, <2>9, <3>1, RecallsStay
    <3>2. CASE ~(s = t /\ n = k)
      <4>1. n \in DOMAIN heard[s] /\ heard'[s][n] = heard[s][n]
        BY <1>1, <2>8, <2>9, <2>11, <2>12, <3>2 DEF Heard
      <4>2. Recalls(rows, s, n, heard[s][n])
        BY <1>1, <2>12, <4>1 DEF Heard
      <4> QED
        BY <4>1, <4>2, RecallsStay
    <3> QED
      BY <3>1, <3>2
  <2>13. Heard'
    BY <2>8, <2>11, <2>12 DEF Heard, Recalls, Strands
  <2> QED
    BY <2>10, <2>13 DEF HeardAgain
<1> QED
  BY <1>2, <1>3

-----------------------------------------------------------------------------
(* The answers on their way.                                               *)

\* The strand that reads a message waits for nothing else.
LEMMA MessageRead ==
  ASSUME IInv, AnswerInv, NEW m, Oldest(m), NEW p, \A s \in Strands : s # m.strand => p[s] = pc[s]
  PROVE  Kept(p, eng) /\ Posted(p, rows, eng, Tail(mail))
<1>1. /\ Kept(pc, eng) /\ Posted(pc, rows, eng, mail) /\ Brings(pc, rows, eng, m)
  BY OldestIs DEF AnswerInv, Posted, Oldest
<1>2. \A i \in DOMAIN eng.live : i \in DOMAIN rows /\ rows[i].status = "running"
  BY DEF IInv, Journal
<1>3. ASSUME NEW o \in Owed(eng) PROVE o[1] # m.strand
  <2>1. SUFFICES ASSUME o[1] = m.strand PROVE FALSE
    OBVIOUS
  <2>2. Awaits(pc, m.strand, o[2])
    BY <1>1, <2>1 DEF Kept
  <2>3. PICK i \in DOMAIN rows : Awaits(pc, m.strand, i) /\ i \in Past(eng) /\ rows[i].status # "running"
    BY <1>1, <2>2 DEF Brings, Awaits
  <2>4. o[2] = i
    BY <2>2, <2>3 DEF Awaits
  <2>5. i \notin DOMAIN eng.live
    BY <1>2, <2>3
  <2>6. PICK r \in DOMAIN eng.actor : \E c \in CallsOf(eng.actor[r]) : o = <<c.strand, c.inst>>
    BY <2>4, <2>5, OwedIs
  <2>7. i \in Waiting(eng.actor[r])
    BY <2>4, <2>6, WaitingIs
  <2> QED
    BY <2>3, <2>7 DEF Past
<1>4. Kept(p, eng)
  BY <1>1, <1>3 DEF Kept, Awaits
<1>5. ASSUME NEW n \in DOMAIN Tail(mail) PROVE Brings(p, rows, eng, Tail(mail)[n])
  <2>1. n + 1 \in DOMAIN mail /\ Tail(mail)[n] = mail[n + 1] /\ n + 1 # 1 /\ 1 \in DOMAIN mail /\ m = mail[1]
    BY OldestIs
  <2>2. PICK w : w = Tail(mail)[n]
    OBVIOUS
  <2>3. w.strand # m.strand /\ Brings(pc, rows, eng, w)
    BY <1>1, <2>1, <2>2 DEF Posted
  <2>4. p[w.strand] = pc[w.strand]
    BY <2>3 DEF Brings
  <2>5. Brings(p, rows, eng, w)
    BY <2>3, <2>4 DEF Brings, Awaits
  <2> QED
    BY <2>2, <2>5
<1>6. ASSUME NEW k \in DOMAIN Tail(mail), NEW n \in DOMAIN Tail(mail),
             Tail(mail)[k].strand = Tail(mail)[n].strand
      PROVE  k = n
  <2>1. /\ k + 1 \in DOMAIN mail /\ Tail(mail)[k] = mail[k + 1]
        /\ n + 1 \in DOMAIN mail /\ Tail(mail)[n] = mail[n + 1]
        /\ Tail(mail) \in Seq(Mails)
    BY OldestIs
  <2>2. k + 1 = n + 1
    BY <1>1, <1>6, <2>1 DEF Posted
  <2>3. k \in Int /\ n \in Int
    BY <2>1, LenProperties
  <2> QED
    BY <2>2, <2>3
<1> QED
  BY <1>4, <1>5, <1>6 DEF Posted
\* A settled ask answers its strand.
LEMMA NodeAnswers ==
  ASSUME IInv, AnswerInv, Heard', Running, NEW i \in DOMAIN eng.live,
         eng.actor[eng.live[i].actor].current = i, NEW status \in {"completed", "failed"},
         SettleNode(i, status), UNCHANGED pc
  PROVE  AnswerInv'
<1>1. Kept(pc, eng) /\ Posted(pc, rows, eng, mail) /\ Journal /\ mail \in Seq(Mails)
  BY DEF AnswerInv, IInv, Answers
<1>2. EngineInv(eng, cap) /\ EngineShape(eng) /\ Names(eng) /\ cap \in Nat
  BY DEF IInv, Scheduler, EngineInv, Bounded
<1>3. eng' = FinishNode(eng, i)
  BY DEF SettleNode
<1>4. Owed(eng') \subseteq Owed(eng) /\ Past(eng') = Past(eng)
  BY <1>2, <1>3, FinishFollows, FollowsOwes
<1>5. PICK Q : Q = rows'
  OBVIOUS
<1>6. /\ i \in DOMAIN rows /\ rows[i].status = "running" /\ RowShape(i)
      /\ \A j \in DOMAIN eng.live : rows[j].status = "running"
  BY <1>1 DEF Journal
<1>7. /\ DOMAIN Q = DOMAIN rows /\ Q[i].status = status /\ Q[i].answer = life
      /\ \A j \in DOMAIN rows : j # i => Q[j] = rows[j]
  <2>1. PICK v : v = [rows[i] EXCEPT !.status = status, !.answer = life]
    OBVIOUS
  <2>2. Q = [rows EXCEPT ![i] = v]
    BY <1>5, <1>6, <2>1 DEF SettleNode, RowShape
  <2>3. v.status = status /\ v.answer = life
    BY <1>6, <2>1 DEF RowShape
  <2> QED
    BY <1>6, <2>2, <2>3
<1>8. PICK s : s = eng.live[i].strand
  OBVIOUS
<1>9. PICK w : w = [strand |-> s, status |-> status, answer |-> life]
  OBVIOUS
<1>10. Awaits(pc, s, i) /\ i \in Past(eng)
  <2>1. <<s, i>> \in Owed(eng)
    BY <1>8, OwedIs
  <2>2. i \in Past(eng)
    BY <1>2, LiveIsPast
  <2> QED
    BY <1>1, <2>1, <2>2 DEF Kept
<1>11. Brings(pc, Q, eng', w)
  BY <1>4, <1>6, <1>7, <1>9, <1>10 DEF Brings, Awaits
<1>12. ASSUME NEW n \in DOMAIN mail
       PROVE  Brings(pc, Q, eng', mail[n]) /\ mail[n].strand # s
  <2>1. PICK x : x = mail[n]
    OBVIOUS
  <2>2. Brings(pc, rows, eng, x)
    BY <1>1, <2>1 DEF Posted
  <2>3. CASE x.status = "start"
    <3>1. pc[x.strand] = 0
      BY <2>2, <2>3 DEF Brings
    <3>2. x.strand # s
      BY <1>10, <3>1, AwaitsIs
    <3> QED
      BY <2>1, <2>2, <2>3, <3>1, <3>2 DEF Brings
  <2>4. CASE x.status # "start"
    <3>1. PICK j \in DOMAIN rows : /\ Awaits(pc, x.strand, j) /\ j \in Past(eng) /\ rows[j].status # "running"
                                   /\ rows[j].status = x.status /\ rows[j].answer = x.answer
      BY <2>2, <2>4 DEF Brings
    <3>2. j # i
      BY <1>6, <3>1
    <3>3. x.strand # s
      BY <1>10, <3>1, <3>2 DEF Awaits
    <3> QED
      BY <1>4, <1>7, <2>1, <2>2, <2>4, <3>1, <3>2, <3>3 DEF Brings
  <2> QED
    BY <2>3, <2>4
<1>13. PICK ms : ms = Append(mail, w)
  OBVIOUS
<1>14. mail' = ms
  BY <1>8, <1>9, <1>13 DEF SettleNode
<1>15. PICK l \in Nat : l = Len(mail) /\ DOMAIN mail = 1..l
  BY <1>1, LenProperties
<1>16. DOMAIN ms = 1..(l + 1) /\ ms[l + 1] = w /\ \A n \in 1..l : ms[n] = mail[n]
  <2>1. s \in Strands
    BY <1>10 DEF Awaits
  <2>2. life \in Nat
    BY CapAssumption DEF IInv, Bounded
  <2>3. w \in Mails
    BY <1>9, <2>1, <2>2 DEF Mails, Statuses
  <2> QED
    BY <1>1, <1>13, <1>15, <2>3, AppendIs
<1>17. Posted(pc, Q, eng', ms)
  <2>1. \A n \in DOMAIN ms : Brings(pc, Q, eng', ms[n])
    BY <1>11, <1>12, <1>15, <1>16
  <2>2. \A n \in 1..l : ms[n].strand # s
    BY <1>12, <1>15, <1>16
  <2>3. ms[l + 1].strand = s
    BY <1>9, <1>16
  <2>4. ASSUME NEW k \in 1..l, NEW n \in 1..l, ms[k].strand = ms[n].strand PROVE k = n
    BY <1>1, <1>15, <1>16, <2>4 DEF Posted
  <2>5. ASSUME NEW k \in DOMAIN ms, NEW n \in DOMAIN ms, ms[k].strand = ms[n].strand PROVE k = n
    <3>1. (k \in 1..l \/ k = l + 1) /\ (n \in 1..l \/ n = l + 1)
      BY <1>16
    <3> QED
      BY <2>2, <2>3, <2>4, <2>5, <3>1
  <2> QED
    BY <2>1, <2>5 DEF Posted
<1>18. Kept(pc, eng')
  BY <1>1, <1>4 DEF Kept
<1> QED
  BY <1>5, <1>14, <1>17, <1>18, AnswerHolds

\* An ask the journal answers is answered as it is released.
LEMMA AdmitAnswers ==
  ASSUME IInv, [Next]_vars, NEW p, NEW e, EngineInv(e, cap), Kept(p, e),
         NEW ref \in DOMAIN e.actor, NEW rest \in Seq(Mails), Posted(p, rows, e, rest),
         NEW others, others = e.order \/ others = <<>>,
         Admit(e, ref, rest, others)
  PROVE  Kept(p, eng') /\ Posted(p, rows', eng', mail')
<1>1. PICK a : a = e.actor[ref]
  OBVIOUS
<1>2. PICK out : out = Released(a)
  OBVIOUS
<1>3. PICK S : S = DOMAIN out \ Begun(out)
  OBVIOUS
<1>4. cap \in Nat /\ ActorShape(a) /\ Single(a)
  BY <1>1 DEF IInv, Bounded, EngineInv, EngineShape, Names
<1>5. eng' = Pump(Pump(Entered(e, ref), <<ref>>), others)
  BY DEF Admit
<1>6. /\ Owed(eng') \subseteq Owed(e) /\ Past(e) \subseteq Past(eng')
      /\ \A n \in DOMAIN out : /\ out[n].call.inst \in Past(eng')
                               /\ <<out[n].call.strand, out[n].call.inst>> \in Owed(e)
  BY <1>1, <1>2, <1>4, <1>5, AdmitOwes
<1>7. /\ DOMAIN out \in SUBSET Nat /\ IsFiniteSet(DOMAIN out)
      /\ \A n \in DOMAIN out : out[n].call.inst \in Waiting(a)
      /\ \A m, n \in DOMAIN out : out[m].call.inst = out[n].call.inst => m = n
  BY <1>2, <1>4, ReleasedIs
<1>8. S \in SUBSET Int /\ IsFiniteSet(S)
  <2>1. S \subseteq DOMAIN out
    BY <1>3
  <2>2. IsFiniteSet(S)
    BY <1>7, <2>1, FS_Subset
  <2>3. ASSUME NEW n \in S PROVE n \in Int
    <3>1. n \in Nat
      BY <1>7, <2>1
    <3> QED
      BY <3>1
  <2> QED
    BY <2>2, <2>3
<1>9. PICK hits : hits = At(out, S)
  OBVIOUS
<1>10. PICK l \in Nat : l = Cardinality(S)
  BY <1>8, FS_CardinalityType
<1>11. /\ DOMAIN hits = 1..l
       /\ \A n \in 1..l : Nth(S, n) \in S /\ hits[n] = out[Nth(S, n)]
       /\ \A m, n \in 1..l : m < n => Nth(S, m) < Nth(S, n)
  <2>1. /\ DOMAIN At(out, S) = 1..Cardinality(S)
        /\ \A n \in DOMAIN At(out, S) : Nth(S, n) \in S /\ At(out, S)[n] = out[Nth(S, n)]
        /\ \A m, n \in DOMAIN At(out, S) : m < n => Nth(S, m) < Nth(S, n)
    BY <1>8, AtIs
  <2> QED
    BY <1>9, <1>10, <2>1
<1>12. PICK f : f = [n \in 1..l |->
                       [strand |-> hits[n].call.strand, status |-> rows[hits[n].call.inst].status,
                        answer |-> rows[hits[n].call.inst].answer]]
  OBVIOUS
<1>13. mail' = rest \o f
  BY <1>1, <1>2, <1>3, <1>9, <1>11, <1>12 DEF Admit
<1>14. ASSUME NEW n \in 1..l
       PROVE  \E i \in DOMAIN rows :
                 /\ Awaits(p, f[n].strand, i) /\ i \in Past(eng') /\ i \in Waiting(a)
                 /\ i = out[Nth(S, n)].call.inst
                 /\ rows[i].status # "running" /\ rows[i].status = f[n].status
                 /\ rows[i].answer = f[n].answer
  <2>1. PICK k \in DOMAIN out : k = Nth(S, n) /\ k \notin Begun(out) /\ hits[n] = out[k]
    BY <1>3, <1>11
  <2>2. PICK c : c = out[k].call
    OBVIOUS
  <2>3. c.inst \in DOMAIN rows /\ rows[c.inst].status # "running"
    BY <2>1, <2>2 DEF Begun, Cached, Final
  <2>4. /\ f[n].strand = c.strand /\ f[n].status = rows[c.inst].status
        /\ f[n].answer = rows[c.inst].answer
    BY <1>12, <2>1, <2>2
  <2>5. <<c.strand, c.inst>> \in Owed(e) /\ c.inst \in Past(eng') /\ c.inst \in Waiting(a)
    BY <1>6, <1>7, <2>2
  <2>6. Awaits(p, c.strand, c.inst)
    BY <2>5 DEF Kept
  <2> QED
    BY <2>1, <2>2, <2>3, <2>4, <2>5, <2>6
\* A final row is a mail's status, hence no start.
<1>15. ASSUME NEW i \in DOMAIN rows PROVE rows[i].status # "start"
  BY <1>15 DEF IInv, Journal, RowShape, Statuses
<1>16. ASSUME NEW n \in 1..l PROVE Brings(p, rows', eng', f[n])
  <2>1. PICK i \in DOMAIN rows :
           /\ Awaits(p, f[n].strand, i) /\ i \in Past(eng')
           /\ rows[i].status # "running" /\ rows[i].status = f[n].status /\ rows[i].answer = f[n].answer
    BY <1>14
  <2>2. i \in DOMAIN rows' /\ rows'[i].status = rows[i].status /\ rows'[i].answer = rows[i].answer
    BY <2>1, RecordsStay
  <2> QED
    BY <1>15, <2>1, <2>2 DEF Brings, Awaits
<1>17. ASSUME NEW n \in DOMAIN rest
       PROVE  Brings(p, rows', eng', rest[n]) /\ \A k \in 1..l : rest[n].strand # f[k].strand
  <2>1. PICK x : x = rest[n]
    OBVIOUS
  <2>2. Brings(p, rows, e, x)
    BY <2>1 DEF Posted
  <2>3. CASE x.status = "start"
    <3>1. p[x.strand] = 0
      BY <2>2, <2>3 DEF Brings
    <3>2. Brings(p, rows', eng', x)
      BY <2>2, <2>3, <3>1 DEF Brings
    <3>3. \A k \in 1..l : x.strand # f[k].strand
      BY <1>14, <3>1 DEF Awaits
    <3> QED
      BY <2>1, <3>2, <3>3
  <2>4. CASE x.status # "start"
    <3>1. PICK j \in DOMAIN rows : /\ Awaits(p, x.strand, j) /\ j \in Past(e) /\ rows[j].status # "running"
                                   /\ rows[j].status = x.status /\ rows[j].answer = x.answer
      BY <2>2, <2>4 DEF Brings
    <3>2. j \in DOMAIN rows' /\ rows'[j].status = rows[j].status /\ rows'[j].answer = rows[j].answer
      BY <3>1, RecordsStay
    <3>3. Brings(p, rows', eng', x)
      BY <1>6, <2>2, <2>4, <3>1, <3>2 DEF Brings
    <3>4. j \notin Waiting(a)
      BY <1>1, <3>1 DEF Past
    <3>5. ASSUME NEW k \in 1..l, x.strand = f[k].strand PROVE FALSE
      <4>1. PICK i \in Waiting(a) : Awaits(p, f[k].strand, i)
        BY <1>14
      <4>2. i = j
        BY <3>1, <3>5, <4>1 DEF Awaits
      <4> QED
        BY <3>4, <4>1, <4>2
    <3> QED
      BY <2>1, <3>3, <3>5
  <2> QED
    BY <2>3, <2>4
<1>18. ASSUME NEW m \in 1..l, NEW n \in 1..l, f[m].strand = f[n].strand PROVE m = n
  <2>1. Awaits(p, f[m].strand, out[Nth(S, m)].call.inst) /\ Awaits(p, f[n].strand, out[Nth(S, n)].call.inst)
    BY <1>14
  <2>2. out[Nth(S, m)].call.inst = out[Nth(S, n)].call.inst
    BY <1>18, <2>1 DEF Awaits
  <2>3. Nth(S, m) \in S /\ Nth(S, n) \in S
    BY <1>11
  <2>4. Nth(S, m) = Nth(S, n)
    BY <1>3, <1>7, <2>2, <2>3
  <2>5. Nth(S, m) \in Int
    BY <1>8, <2>3
  <2>6. ~(m < n) /\ ~(n < m)
    BY <1>11, <2>4, <2>5
  <2> QED
    BY <2>6
<1>19. PICK k \in Nat : k = Len(rest) /\ DOMAIN rest = 1..k
  BY LenProperties
<1>20. PICK ms : ms = rest \o f
  OBVIOUS
<1>21. DOMAIN ms = 1..(k + l) /\ \A n \in 1..(k + l) : ms[n] = IF n <= k THEN rest[n] ELSE f[n - k]
  <2>1. PICK T : T = Mails \cup {f[n] : n \in 1..l}
    OBVIOUS
  <2>2. f \in [1..l -> T]
    BY <1>12, <2>1
  <2>3. f \in Seq(T) /\ Len(f) = l
    BY <2>2, SeqDef, LenProperties
  <2>4. rest \in Seq(T)
    <3>1. rest \in [1..k -> Mails]
      BY <1>19, LenProperties
    <3>2. rest \in [1..k -> T]
      BY <2>1, <3>1
    <3> QED
      BY <3>2, SeqDef
  <2>5. ms \in Seq(T) /\ Len(ms) = k + l
        /\ \A n \in 1..(k + l) : ms[n] = IF n <= k THEN rest[n] ELSE f[n - k]
    BY <1>19, <1>20, <2>3, <2>4, ConcatProperties
  <2> QED
    BY <2>5, LenProperties
<1>22. ASSUME NEW n \in DOMAIN ms
       PROVE  \/ n \in DOMAIN rest /\ ms[n] = rest[n]
              \/ n - k \in 1..l /\ ms[n] = f[n - k]
  BY <1>19, <1>21
<1>23. ASSUME NEW m \in DOMAIN ms, NEW n \in DOMAIN ms, ms[m].strand = ms[n].strand PROVE m = n
  <2>1. CASE m \in DOMAIN rest /\ ms[m] = rest[m] /\ n \in DOMAIN rest /\ ms[n] = rest[n]
    BY <1>23, <2>1 DEF Posted
  <2>2. CASE m - k \in 1..l /\ ms[m] = f[m - k] /\ n - k \in 1..l /\ ms[n] = f[n - k]
    <3>1. m - k = n - k
      BY <1>18, <1>23, <2>2
    <3>2. m \in Int /\ n \in Int
      BY <1>21
    <3> QED
      BY <3>1, <3>2
  <2> QED
    BY <1>17, <1>22, <1>23, <2>1, <2>2
<1>24. \A n \in DOMAIN ms : Brings(p, rows', eng', ms[n])
  BY <1>16, <1>17, <1>22
<1>25. Posted(p, rows', eng', ms)
  BY <1>23, <1>24 DEF Posted
<1>26. Kept(p, eng')
  BY <1>6 DEF Kept
<1> QED
  BY <1>13, <1>20, <1>25, <1>26
-----------------------------------------------------------------------------
(* The steps.                                                              *)

LEMMA PostedOn ==
  ASSUME NEW p, NEW R, NEW e, NEW x, NEW ms, Posted(p, R, e, ms), Past(e) \subseteq Past(x)
  PROVE  Posted(p, R, x, ms)
<1>1. ASSUME NEW m, Brings(p, R, e, m) PROVE Brings(p, R, x, m)
  BY <1>1 DEF Brings
<1> QED
  BY <1>1 DEF Posted

\* The strand goes on to its next step and waits for the answer to that.
LEMMA AskAnswers ==
  ASSUME OnePass, IInv, OrderInv, AnswerInv, Heard', [Next]_vars,
         NEW m, Oldest(m), pc[m.strand] < Len(Script[m.strand]),
         pc' = [pc EXCEPT ![m.strand] = @ + 1],
         NEW e, e = CreatedFor(m), NEW ref, ref = ActorOf(m),
         NEW a, ActorShape(a), Single(a), CallsOf(a) \subseteq CallsOf(e.actor[ref]) \cup {Call(m)},
         a.queue = e.actor[ref].queue, a.current = e.actor[ref].current,
         a.session = e.actor[ref].session,
         NEW x, x = Joined(e, AskOf(m).site, ref, a),
         NEW others, others = x.order \/ others = <<>>,
         Admit(x, ref, Tail(mail), others)
  PROVE  AnswerInv'
<1>1. PICK t \in AskSites : t = AskOf(m).site
  BY NextCallIs
<1>2. PICK i : i = InstanceOf(m)
  OBVIOUS
<1>3. PICK s \in Strands : s = m.strand
  BY NextCallIs
<1>4. /\ EngineInv(e, cap) /\ NoIdle(e, cap) /\ Evolves(eng, e) /\ ref \in DOMAIN e.actor
      /\ i = <<t, e.ordinals[t] + 1>>
  BY <1>1, <1>2, CreatedIs
<1>5. /\ cap \in Nat /\ EngineShape(eng) /\ Roster(eng) /\ EngineShape(e) /\ IsFiniteSet(DOMAIN rows)
      /\ AskOf(m).agent \in Agents /\ Tail(mail) \in Seq(Mails) /\ pc[s] \in Nat /\ pc \in [Strands -> Nat]
  BY <1>3, <1>4, NextCallIs, RowsAreFinite DEF IInv, Bounded, Memory, Answers, EngineInv
<1>6. Call(m).strand = s /\ Call(m).inst = i
  BY <1>2, <1>3 DEF Call
<1>7. Waiting(a) \subseteq Waiting(e.actor[ref]) \cup {<<t, e.ordinals[t] + 1>>}
  BY <1>4, <1>6, WaitingIs
<1>8. x = Joined(e, t, ref, a)
  BY <1>1
<1>9. EngineInv(x, cap) /\ Evolves(e, x) /\ DOMAIN x.actor = DOMAIN e.actor
  <2>1. NoIdle(e, cap) /\ t \in AskSites /\ EngineInv(e, cap) /\ cap \in Nat
    BY <1>4, <1>5
  <2> QED
    BY <1>4, <1>7, <1>8, <2>1, JoinKeeps
<1>10. Owed(e) \subseteq Owed(eng)
  <2>1. e = CreateActor(eng, AskOf(m).agent)
    BY DEF CreatedFor
  <2> QED
    BY <1>5, <2>1, CreateActorOwes
<1>11. Owed(x) \subseteq Owed(e) \cup {<<s, i>>}
  <2>1. PICK c : c = Call(m)
    OBVIOUS
  <2>2. CallsOf(a) \subseteq CallsOf(e.actor[ref]) \cup {c}
    BY <2>1
  <2>3. EngineShape(e) /\ ref \in DOMAIN e.actor
    BY <1>4, <1>5
  <2>4. Owed(x) \subseteq Owed(e) \cup {<<c.strand, c.inst>>}
    BY <1>8, <2>2, <2>3, JoinOwes
  <2> QED
    BY <1>6, <2>1, <2>4
<1>12. Past(eng) \subseteq Past(x)
  BY <1>4, <1>9 DEF Evolves
<1>13. \A u \in Strands : u # m.strand => pc'[u] = pc[u]
  BY <1>5
<1>14. Kept(pc', eng) /\ Posted(pc', rows, eng, Tail(mail))
  BY <1>13, MessageRead
<1>15. Awaits(pc', s, i)
  <2>1. i = <<t, 1>>
    BY <1>1, <1>2, NewAsk
  <2>2. PICK l \in Nat : l = Len(Script[s])
    BY StepsAreFinite
  <2>3. pc'[s] = pc[s] + 1
    BY <1>3, <1>5
  <2>4. pc'[s] \in 1..l
    BY <1>3, <1>5, <2>2, <2>3
  <2>5. t = Script[s][pc'[s]].site
    BY <1>1, <1>3, <2>3 DEF AskOf
  <2> QED
    BY <2>1, <2>2, <2>4, <2>5 DEF Awaits
<1>16. Kept(pc', x)
  <2>1. ASSUME NEW o \in Owed(x) PROVE Awaits(pc', o[1], o[2])
    <3>1. o \in Owed(eng) \/ o = <<s, i>>
      BY <1>10, <1>11
    <3>2. CASE o \in Owed(eng)
      BY <1>14, <3>2 DEF Kept
    <3>3. CASE o = <<s, i>>
      BY <1>15, <3>3
    <3> QED
      BY <3>1, <3>2, <3>3
  <2> QED
    BY <2>1 DEF Kept
<1>17. Posted(pc', rows, x, Tail(mail))
  BY <1>12, <1>14, PostedOn
<1>18. ref \in DOMAIN x.actor
  BY <1>4, <1>9
<1>19. Kept(pc', eng') /\ Posted(pc', rows', eng', mail')
  BY <1>5, <1>9, <1>16, <1>17, <1>18, AdmitAnswers
<1> QED
  BY <1>19, AnswerHolds

LEMMA AskFreshAnswers ==
  ASSUME OnePass, IInv, OrderInv, AnswerInv, Heard', [Next]_vars, NEW m, AskFresh(m)
  PROVE  AnswerInv'
<1>1. /\ Oldest(m) /\ pc[m.strand] < Len(Script[m.strand])
      /\ pc' = [pc EXCEPT ![m.strand] = @ + 1]
  BY DEF AskFresh, StrandAsks
<1>2. PICK e : e = CreatedFor(m)
  OBVIOUS
<1>3. PICK ref : ref = ActorOf(m)
  OBVIOUS
<1>4. PICK b : b = e.actor[ref]
  OBVIOUS
<1>5. PICK c : c = Call(m)
  OBVIOUS
<1>6. /\ ref \in DOMAIN e.actor /\ ActorShape(b) /\ Single(b)
      /\ c.inst \notin Waiting(b) /\ c \in Calls /\ AskOf(m).site \in Sites /\ EngineShape(e)
  BY <1>1, <1>2, <1>3, <1>4, <1>5, CreatedIs, NextCallIs, SitesDiffer DEF EngineInv
<1>7. PICK a : a = [b EXCEPT !.fresh = Append(@, c)]
  OBVIOUS
<1>8. /\ ActorShape(a) /\ Single(a)
      /\ a.queue = b.queue /\ a.current = b.current /\ a.session = b.session
  BY <1>6, <1>7, FreshCallIs
<1>9. a.held = b.held /\ a.fresh = Append(b.fresh, c)
  BY <1>6, <1>7 DEF ActorShape
<1>10. \A n \in DOMAIN a.fresh : a.fresh[n] = c \/ \E k \in DOMAIN b.fresh : a.fresh[n] = b.fresh[k]
  <2>1. b.fresh \in Seq(Calls)
    BY <1>6 DEF ActorShape
  <2>2. PICK l \in Nat : l = Len(b.fresh)
    BY <2>1, LenProperties
  <2>3. /\ DOMAIN b.fresh = 1..l /\ DOMAIN a.fresh = 1..(l + 1) /\ a.fresh[l + 1] = c
        /\ \A n \in 1..l : a.fresh[n] = b.fresh[n]
    BY <1>6, <1>9, <2>1, <2>2, AppendIs
  <2> QED
    BY <2>3
<1>11. CallsOf(a) \subseteq CallsOf(b) \cup {c}
  BY <1>9, <1>10 DEF CallsOf
<1>12. PICK x : x = [Minted(m) EXCEPT !.actor[ActorOf(m)].fresh = Append(@, Call(m))]
  OBVIOUS
<1>13. x = Joined(e, AskOf(m).site, ref, a)
  BY <1>2, <1>3, <1>4, <1>5, <1>6, <1>7, <1>12 DEF Joined, Minted, EngineShape
<1>14. Admit(x, ref, Tail(mail), x.order)
  BY <1>3, <1>12 DEF AskFresh
<1> QED
  BY <1>1, <1>2, <1>3, <1>4, <1>5, <1>8, <1>11, <1>13, <1>14, AskAnswers

LEMMA AskRecordedAnswers ==
  ASSUME OnePass, IInv, OrderInv, AnswerInv, Heard', [Next]_vars, NEW m, AskRecorded(m)
  PROVE  AnswerInv'
<1>1. /\ Oldest(m) /\ pc[m.strand] < Len(Script[m.strand])
      /\ pc' = [pc EXCEPT ![m.strand] = @ + 1]
      /\ InstanceOf(m) \in DOMAIN rows
  BY DEF AskRecorded, StrandAsks
<1>2. PICK e : e = CreatedFor(m)
  OBVIOUS
<1>3. PICK ref : ref = ActorOf(m)
  OBVIOUS
<1>4. PICK b : b = e.actor[ref]
  OBVIOUS
<1>5. PICK c : c = Call(m)
  OBVIOUS
<1>6. /\ ref \in DOMAIN e.actor /\ ActorShape(b) /\ Single(b)
      /\ c.inst \notin Waiting(b) /\ c \in Calls /\ AskOf(m).site \in AskSites /\ EngineShape(e)
      /\ c.inst = InstanceOf(m)
  BY <1>1, <1>2, <1>3, <1>4, <1>5, CreatedIs, NextCallIs DEF EngineInv
<1>7. PICK p \in Nat : p = rows[c.inst].seq
  BY <1>1, <1>6 DEF IInv, Journal, RowShape
<1>8. PICK a : a = [b EXCEPT !.held = Put(@, p, c)]
  OBVIOUS
<1>9. /\ ActorShape(a) /\ Single(a)
      /\ a.queue = b.queue /\ a.current = b.current /\ a.session = b.session
  BY <1>6, <1>8, HeldCallIs
<1>10. a.held = Put(b.held, p, c) /\ a.fresh = b.fresh
  BY <1>6, <1>8 DEF ActorShape
<1>11. \A q \in DOMAIN a.held : a.held[q] = c \/ (q \in DOMAIN b.held /\ a.held[q] = b.held[q])
  BY <1>10 DEF Put
<1>12. CallsOf(a) \subseteq CallsOf(b) \cup {c}
  BY <1>10, <1>11 DEF CallsOf
<1>13. PICK x : x = [Minted(m) EXCEPT !.actor[ActorOf(m)].held =
                        Put(@, rows[InstanceOf(m)].seq, Call(m))]
  OBVIOUS
<1>14. x = Joined(e, AskOf(m).site, ref, a)
  BY <1>2, <1>3, <1>4, <1>5, <1>6, <1>7, <1>8, <1>13, SitesDiffer DEF Joined, Minted, EngineShape
<1>15. Admit(x, ref, Tail(mail), <<>>)
  BY <1>3, <1>13 DEF AskRecorded
<1> QED
  BY <1>1, <1>2, <1>3, <1>4, <1>5, <1>9, <1>12, <1>14, <1>15, AskAnswers

LEMMA StrandEndsAnswers ==
  ASSUME IInv, AnswerInv, Heard', NEW m, StrandEnds(m)
  PROVE  AnswerInv'
<1>1. Oldest(m) /\ pc' = [pc EXCEPT ![m.strand] = Len(Script[m.strand]) + 1]
  BY DEF StrandEnds
<1>2. CASE SettleRun(sessions, "completed", None)
  BY <1>2, AnswerHolds DEF SettleRun, Running
<1>3. CASE mail' = Tail(mail) /\ UNCHANGED <<rows, engine, eng>>
  <2>1. \A u \in Strands : u # m.strand => pc'[u] = pc[u]
    BY <1>1 DEF IInv, Answers
  <2>2. Kept(pc', eng) /\ Posted(pc', rows, eng, Tail(mail))
    BY <1>1, <2>1, MessageRead
  <2> QED
    BY <1>3, <2>2, AnswerHolds
<1> QED
  BY <1>2, <1>3 DEF StrandEnds

\* Nobody is answered, nobody asks.
LEMMA AnswersStay ==
  ASSUME AnswerInv, Heard', Follows(eng, eng'), UNCHANGED <<rows, mail, pc>>, Running' => Running
  PROVE  AnswerInv'
<1>1. Owed(eng') \subseteq Owed(eng) /\ Past(eng') = Past(eng)
  BY FollowsOwes
<1>2. ASSUME Running PROVE Kept(pc, eng') /\ Posted(pc, rows, eng', mail)
  <2>1. Kept(pc, eng) /\ Posted(pc, rows, eng, mail)
    BY <1>2 DEF AnswerInv
  <2>2. Kept(pc, eng')
    BY <1>1, <2>1 DEF Kept
  <2> QED
    BY <1>1, <2>1, <2>2, PostedOn
<1> QED
  BY <1>2, AnswerHolds

LEMMA RunOverAnswers ==
  ASSUME Heard', NEW ss, NEW status, NEW code, SettleRun(ss, status, code)
  PROVE  AnswerInv'
BY AnswerHolds DEF SettleRun, Running

\* A run starts, or starts again, with one message for each strand.
LEMMA StartedOnce ==
  ASSUME NEW p, p = [s \in Strands |-> 0], NEW R, NEW e, e = FreshEngine
  PROVE  Kept(p, e) /\ Posted(p, R, e, Started)
<1>1. Owed(e) = {}
  <2>1. DOMAIN e.live = {} /\ DOMAIN e.actor = {}
    BY FreshEngineIs, CapAssumption
  <2> QED
    BY <2>1, OwedIs
<1>2. PICK l \in Nat : l = Len(Order) /\ DOMAIN Order = 1..l /\ Order \in [1..l -> Strands]
  BY ScriptAssumption, LenProperties
<1>3. Order \in Surjection(1..l, Strands)
  <2>1. \A s \in Strands : \E n \in 1..l : Order[n] = s
    BY <1>2 DEF Strands, Range
  <2> QED
    BY <1>2, <2>1 DEF Surjection
<1>4. \A m, n \in 1..l : Order[m] = Order[n] => m = n
  <2>1. IsFiniteSet(1..l) /\ Cardinality(1..l) = Cardinality(Strands)
    BY <1>2, UpTo, ScriptAssumption
  <2>2. Order \in Injection(1..l, Strands)
    BY <1>3, <2>1, FS_SurjSameCardinalityImpliesInj
  <2> QED
    BY <1>2, <2>2 DEF Injection, IsInjective
<1>5. /\ DOMAIN Started = 1..l
      /\ \A n \in 1..l : Started[n].strand = Order[n] /\ Started[n].status = "start"
  BY <1>2 DEF Started
<1>6. ASSUME NEW n \in 1..l PROVE Brings(p, R, e, Started[n])
  BY <1>2, <1>5 DEF Brings
<1> QED
  BY <1>1, <1>4, <1>5, <1>6 DEF Kept, Posted
LEMMA NodeFollows ==
  ASSUME EngineShape(eng), NEW i \in DOMAIN eng.live, NodeChanged(i)
  PROVE  Follows(eng, eng')
<1>1. PICK v : /\ v.strand = eng.live[i].strand
               /\ eng' = [eng EXCEPT !.live[i] = v]
  BY DEF NodeChanged
<1>2. PICK l : l = [eng.live EXCEPT ![i] = v]
  OBVIOUS
<1>3. eng' = [eng EXCEPT !.live = l]
  BY <1>1, <1>2
<1>4. eng'.ordinals = eng.ordinals /\ eng'.actor = eng.actor /\ eng'.live = l
  BY <1>3 DEF EngineShape
<1>5. DOMAIN l = DOMAIN eng.live /\ \A j \in DOMAIN eng.live : l[j].strand = eng.live[j].strand
  BY <1>1, <1>2
<1> QED
  BY <1>4, <1>5 DEF Follows

LEMMA AskMovesAnswer ==
  ASSUME IInv, AnswerInv, Heard', AskMoves
  PROVE  AnswerInv'
<1>1. UNCHANGED <<engine, pc>> /\ (Running' => Running)
  BY DEF AskMoves, Running
<1>2. CASE UNCHANGED <<rows, eng, mail>>
  <2>1. Follows(eng, eng')
    BY <1>2 DEF Follows
  <2> QED
    BY <1>1, <1>2, <2>1, AnswersStay
<1>3. ASSUME Running, UNCHANGED <<rows, mail>>, NEW i \in DOMAIN eng.live, NodeChanged(i)
      PROVE  AnswerInv'
  <2>1. Follows(eng, eng')
    BY <1>3, NodeFollows DEF IInv, Memory
  <2> QED
    BY <1>1, <1>3, <2>1, AnswersStay
<1>4. ASSUME Running, NEW i \in DOMAIN eng.live, NEW status \in {"completed", "failed"},
             eng.actor[eng.live[i].actor].current = i, SettleNode(i, status)
      PROVE  AnswerInv'
  BY <1>1, <1>4, NodeAnswers
<1> QED
  BY <1>2, <1>3, <1>4 DEF AskMoves

LEMMA SessionAnswers ==
  ASSUME IInv, AnswerInv, Heard', NEW k \in creating, NEW s \in {"ready", "failed"},
         eng' = IF k[1] = life THEN [eng EXCEPT !.actor[k[2]].session = s] ELSE eng,
         UNCHANGED <<rows, engine, mail, pc>>
  PROVE  AnswerInv'
<1>1. Running' => Running
  BY DEF Running
<1>2. Follows(eng, eng')
  <2>1. CASE k[1] # life
    BY <2>1 DEF Follows
  <2>2. CASE k[1] = life
    <3>1. PICK r \in DOMAIN eng.actor : r = k[2]
      BY <2>2 DEF IInv, Creations
    <3>2. eng' = [eng EXCEPT !.actor[r].session = s]
      BY <2>2, <3>1
    <3>3. EngineShape(eng) /\ Roster(eng)
      BY DEF IInv, Memory
    <3>4. /\ eng'.ordinals = eng.ordinals /\ eng'.live = eng.live
          /\ DOMAIN eng'.actor = DOMAIN eng.actor
          /\ \A q \in DOMAIN eng.actor :
                eng'.actor[q].held = eng.actor[q].held /\ eng'.actor[q].fresh = eng.actor[q].fresh
      BY <3>2, <3>3, SessionSetIs
    <3> QED
      BY <3>4 DEF Follows
  <2> QED
    BY <2>1, <2>2
<1> QED
  BY <1>1, <1>2, AnswersStay

LEMMA StepHears ==
  ASSUME IInv, AnswerInv, [Next]_vars
  PROVE  Heard' /\ HeardAgain
<1>1. ASSUME NEW m, Oldest(m), heard' = Observed(m) PROVE Heard' /\ HeardAgain
  BY <1>1, HeardGrows
<1>2. ASSUME UNCHANGED heard PROVE Heard' /\ HeardAgain
  BY <1>2, HeardStays DEF HeardAgain, AnswerInv
<1>3. CASE Sandbox
  <2>1. PICK m : Oldest(m) /\ heard' = Observed(m)
    BY <1>3 DEF Sandbox, ScriptThrows, StrandEnds, AskFresh, AskRecorded, AskMismatched, StrandAsks
  <2> QED
    BY <1>1, <2>1
<1>4. CASE \/ \E k \in creating : SessionReady(k) \/ SessionFails(k)
           \/ \E r \in DOMAIN eng.actor : Dispatch(r)
           \/ \E k \in DOMAIN sessions : RedriveFires(k) \/ Reports(k)
  BY <1>2, <1>4 DEF SessionReady, SessionFails, Dispatch, RedriveFires, Reports, Report
<1>5. ASSUME NEW k, TurnStep(k) PROVE UNCHANGED heard
  BY <1>5 DEF TurnStep, SubmitAccepted, SubmitRejected, Submits, TurnResolves, TurnCancelled,
     TurnErrs, TurnStopsRun, TurnIsTransient, TurnFails
<1>6. CASE Lifecycle \/ UNCHANGED vars
  BY <1>2, <1>6 DEF Lifecycle, Stop, Crash, Reconcile, Resume, vars
<1> QED
  BY <1>2, <1>3, <1>4, <1>5, <1>6 DEF Next, Progress

LEMMA StepAnswers ==
  ASSUME OnePass, IInv, OrderInv, AnswerInv, [Next]_vars
  PROVE  AnswerInv'
<1>1. Heard'
  BY StepHears
<1>2. ASSUME Sandbox PROVE AnswerInv'
  <2>1. PICK m \in Range(mail) :
           ScriptThrows(m) \/ StrandEnds(m) \/ AskFresh(m) \/ AskRecorded(m) \/ AskMismatched(m)
    BY <1>2 DEF Sandbox
  <2>2. ASSUME ScriptThrows(m) PROVE AnswerInv'
    BY <1>1, <2>2, RunOverAnswers DEF ScriptThrows
  <2> QED
    BY <1>1, <2>1, <2>2, StrandEndsAnswers, AskFreshAnswers, AskRecordedAnswers, NothingMismatches
<1>3. ASSUME NEW k \in creating, SessionReady(k) \/ SessionFails(k) PROVE AnswerInv'
  <2>1. CASE SessionReady(k)
    BY <1>1, <2>1, SessionAnswers DEF SessionReady
  <2>2. CASE SessionFails(k)
    BY <1>1, <2>2, SessionAnswers DEF SessionFails
  <2> QED
    BY <1>3, <2>1, <2>2
<1>4. ASSUME \/ \E r \in DOMAIN eng.actor : Dispatch(r)
             \/ \E k \in DOMAIN sessions :
                   (TurnStep(k) /\ ~TurnStopsRun(k)) \/ RedriveFires(k) \/ Reports(k)
      PROVE  AnswerInv'
  BY <1>1, <1>4, AskSteps, AskMovesAnswer
<1>5. ASSUME NEW ss, NEW status, NEW code, SettleRun(ss, status, code) PROVE AnswerInv'
  BY <1>1, <1>5, RunOverAnswers
<1>6. ASSUME NEW k, TurnStopsRun(k) PROVE AnswerInv'
  BY <1>5, <1>6 DEF TurnStopsRun
<1>7. ASSUME NEW reason, Stop(reason) PROVE AnswerInv'
  BY <1>5, <1>7 DEF Stop
<1>8. ASSUME Crash PROVE AnswerInv'
  BY <1>1, <1>8, AnswerHolds DEF Crash, Running
<1>9. ASSUME Resume PROVE AnswerInv'
  <2>1. eng' = FreshEngine /\ mail' = Started /\ pc' = [s \in Strands |-> 0]
    BY <1>9 DEF Resume
  <2>2. Kept(pc', eng') /\ Posted(pc', rows', eng', mail')
    BY <2>1, StartedOnce
  <2> QED
    BY <1>1, <2>2, AnswerHolds
<1>10. ASSUME Reconcile \/ UNCHANGED vars PROVE AnswerInv'
  <2>1. UNCHANGED <<rows, engine, eng, mail, pc>>
    BY <1>10 DEF Reconcile, vars
  <2>2. Follows(eng, eng') /\ (Running' => Running)
    BY <2>1 DEF Follows, Running
  <2> QED
    BY <1>1, <2>1, <2>2, AnswersStay
<1> QED
  BY <1>2, <1>3, <1>4, <1>6, <1>7, <1>8, <1>9, <1>10 DEF Next, Progress, Lifecycle

LEMMA AnswersStart ==
  ASSUME Init
  PROVE  AnswerInv
<1>1. eng = FreshEngine /\ mail = Started /\ pc = [s \in Strands |-> 0]
  BY DEF Init
<1>2. Kept(pc, eng) /\ Posted(pc, rows, eng, mail)
  BY <1>1, StartedOnce
<1>3. Heard
  BY DEF Init, Heard
<1> QED
  BY <1>2, <1>3 DEF AnswerInv

\* Scripts that pass every site once: what a step of the script has been
\* answered is what it hears on every resume, however the answers overtake
\* each other and wherever the lifetimes before were cut off.
THEOREM AnswersAreRepeated == OnePass => (Spec => AnswersRepeat)
<1> SUFFICES ASSUME OnePass PROVE Spec => AnswersRepeat
  OBVIOUS
<1>1. Init => AnswerInv
  BY AnswersStart
<1>2. IInv /\ OrderInv /\ AnswerInv /\ [Next]_vars => AnswerInv'
  BY StepAnswers
<1>3. IInv /\ AnswerInv /\ [Next]_vars => HeardAgain
  BY StepHears
<1>4. HeardAgain => [\A s \in Strands : \A n \in DOMAIN heard[s] :
                       heard[s][n].status # "none" => heard'[s][n] = heard[s][n]]_vars
  BY DEF HeardAgain
<1> QED
  BY <1>1, <1>2, <1>3, <1>4, NamesAndNumbers, RunInvariant, PTL DEF Spec, AnswersRepeat
=============================================================================
