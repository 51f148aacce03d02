------------------------- MODULE CommandInboxProofs -------------------------
(***************************************************************************)
(* Proofs about CommandInbox for every set of sessions, commands and       *)
(* deliveries, any table limit and any bound on crashes: type correctness, *)
(* serial execution of a session, the refinement of SerialExecution, and   *)
(* what becomes of a command.                                              *)
(*                                                                         *)
(* The argument is about the two FIFO gates.  A delivery that waits for a  *)
(* gate is in its queue (KeyWaiter, SessWaiter), one that passed it is the *)
(* head of the queue until it leaves (KeyHolder, SessHolder).  Two heads   *)
(* of one queue are the same delivery, hence SessionSerial.  The life of a *)
(* command (LifeInv, below) rests on the gates too: who looks a command up *)
(* keeps everybody else from admitting it.                                 *)
(***************************************************************************)
EXTENDS CommandInbox, TLAPS

Holds(r, Q) == Q # <<>> /\ Head(Q) = r
Waits(r, Q) == \E i \in 1..Len(Q) : Q[i] = r

KeyQ(r)  == keyQ[CmdOf[r]]
SessQ(r) == sessQ[S(r)]

KeyHolder  == \A r \in Req : pc[r] \in {"await", "lookup", "sessWait", "relookup"}
                             => Holds(r, KeyQ(r))
KeyWaiter  == \A r \in Req : pc[r] = "keyWait" => Waits(r, KeyQ(r))
SessHolder == \A r \in Req : pc[r] \in Gated => Holds(r, SessQ(r))
SessWaiter == \A r \in Req : pc[r] = "sessWait" => Waits(r, SessQ(r))
\* A queue of a session holds deliveries of that session only.
SessOwn    == \A s \in Session : \A i \in 1..Len(sessQ[s]) : S(sessQ[s][i]) = s

KeyGates  == KeyHolder /\ KeyWaiter
SessGates == SessHolder /\ SessWaiter /\ SessOwn
Gates     == KeyGates /\ SessGates

\* A delivery that awaits a final finds one, and a remembered ack is an ack.
Awaited    == \A r \in Req : pc[r] = "await" =>
                CmdOf[r] \in inFlight \/ final[CmdOf[r]] \in Ack
Remembered == \A c \in Cmd : lru[c] # 0 => settledAck[c] \in Ack

IInv == TypeOK /\ Gates /\ Awaited /\ Remembered
-----------------------------------------------------------------------------
(* Queues.                                                                 *)

\* Popping the head of a queue: what is left, and who still waits.
LEMMA PopQueue ==
  ASSUME NEW T, NEW Q \in Seq(T), Q # <<>>
  PROVE  /\ Tail(Q) \in Seq(T)
         /\ \A q : Waits(q, Q) /\ q # Head(Q) => Waits(q, Tail(Q))
         /\ \A i \in 1..Len(Tail(Q)) : i + 1 \in 1..Len(Q) /\ Tail(Q)[i] = Q[i + 1]
<1>1. /\ Tail(Q) \in Seq(T)
      /\ Len(Tail(Q)) = Len(Q) - 1
      /\ \A i \in 1..Len(Q) - 1 : Tail(Q)[i] = Q[i + 1]
      /\ Len(Q) \in Nat \ {0}
      /\ Head(Q) = Q[1]
  OBVIOUS
<1>2. ASSUME NEW q, Waits(q, Q), q # Head(Q)
      PROVE  Waits(q, Tail(Q))
  <2>1. PICK i \in 1..Len(Q) : Q[i] = q
    BY <1>2 DEF Waits
  <2>2. i # 1
    BY <1>1, <1>2, <2>1
  <2>3. i - 1 \in 1..Len(Q) - 1 /\ (i - 1) + 1 = i
    BY <1>1, <2>1, <2>2
  <2>4. Tail(Q)[i - 1] = q
    BY <1>1, <2>1, <2>3
  <2> QED
    BY <1>1, <2>3, <2>4 DEF Waits
<1>3. \A i \in 1..Len(Tail(Q)) : i + 1 \in 1..Len(Q) /\ Tail(Q)[i] = Q[i + 1]
  BY <1>1
<1> QED
  BY <1>1, <1>2, <1>3

\* Appending to a queue: the head stays, everyone waits on, the last waits.
LEMMA PushQueue ==
  ASSUME NEW T, NEW Q \in Seq(T), NEW r \in T
  PROVE  /\ Append(Q, r) \in Seq(T)
         /\ Append(Q, r) # <<>>
         /\ \A q : Holds(q, Q) => Holds(q, Append(Q, r))
         /\ \A q : Waits(q, Q) => Waits(q, Append(Q, r))
         /\ Waits(r, Append(Q, r))
         /\ Q = <<>> => Head(Append(Q, r)) = r
         /\ \A i \in 1..Len(Append(Q, r)) :
              (i \in 1..Len(Q) /\ Append(Q, r)[i] = Q[i]) \/ Append(Q, r)[i] = r
<1>1. /\ Append(Q, r) \in Seq(T)
      /\ Len(Append(Q, r)) = Len(Q) + 1
      /\ Len(Q) \in Nat
      /\ \A i \in 1..Len(Q) : Append(Q, r)[i] = Q[i]
      /\ Append(Q, r)[Len(Q) + 1] = r
  OBVIOUS
<1>2. Append(Q, r) # <<>>
  BY <1>1
<1>3. Q # <<>> => Head(Append(Q, r)) = Head(Q)
  BY <1>1
<1>4. \A q : Waits(q, Q) => Waits(q, Append(Q, r))
  BY <1>1 DEF Waits
<1>5. Waits(r, Append(Q, r))
  BY <1>1 DEF Waits
<1>6. Q = <<>> => Head(Append(Q, r)) = r
  OBVIOUS
<1>7. \A i \in 1..Len(Append(Q, r)) :
        (i \in 1..Len(Q) /\ Append(Q, r)[i] = Q[i]) \/ Append(Q, r)[i] = r
  BY <1>1
<1> QED
  BY <1>1, <1>2, <1>3, <1>4, <1>5, <1>6, <1>7 DEF Holds

\* Whoever waits for a gate waits in a queue that is not empty.
LEMMA WaitsNonempty ==
  ASSUME NEW T, NEW Q \in Seq(T), NEW r, Waits(r, Q)
  PROVE  Q # <<>>
  BY DEF Waits
-----------------------------------------------------------------------------
(* The gates.  One lemma per way an action treats the queues.              *)

GateTypes ==
  /\ pc \in [Req -> PC]
  /\ keyQ \in [Cmd -> Seq(Req)]
  /\ sessQ \in [Session -> Seq(Req)]

\* A delivery moves on and the queue of its key stays.
LEMMA MoveKeepsKey ==
  ASSUME GateTypes, KeyGates, NEW r \in Req, NEW p \in PC,
         pc' = [pc EXCEPT ![r] = p], UNCHANGED keyQ,
         p \in {"await", "lookup", "sessWait", "relookup"} => Holds(r, KeyQ(r)),
         p # "keyWait"
  PROVE  KeyGates'
<1> USE DEF GateTypes, KeyQ, S, KeyGates
<1>1. KeyHolder'
  BY DEF KeyHolder
<1>2. KeyWaiter'
  BY DEF KeyWaiter
<1> QED
  BY <1>1, <1>2

\* A delivery moves on and the queue of its session stays.
LEMMA MoveKeepsSession ==
  ASSUME GateTypes, SessGates, NEW r \in Req, NEW p \in PC,
         pc' = [pc EXCEPT ![r] = p], UNCHANGED sessQ,
         p # "sessWait",
         p \in Gated => Holds(r, SessQ(r))
  PROVE  SessGates'
<1> USE DEF GateTypes, SessQ, S, Gated, SessGates
<1>1. SessHolder'
  BY DEF SessHolder
<1>2. SessWaiter'
  BY DEF SessWaiter
<1>3. SessOwn'
  BY DEF SessOwn
<1> QED
  BY <1>1, <1>2, <1>3

\* A delivery that passed the key gate leaves the queue of its key.
LEMMA PopKey ==
  ASSUME ConstantsOK, GateTypes, KeyGates, NEW r \in Req, NEW p \in PC,
         pc' = [pc EXCEPT ![r] = p], ReleaseKey(r), Holds(r, KeyQ(r)),
         p \notin {"await", "lookup", "sessWait", "relookup", "keyWait"}
  PROVE  KeyGates' /\ keyQ' \in [Cmd -> Seq(Req)]
<1> USE DEF GateTypes, KeyQ, S, ReleaseKey, ConstantsOK, KeyGates
<1> DEFINE Q == keyQ[CmdOf[r]]
<1>0. /\ CmdOf[r] \in Cmd /\ Q \in Seq(Req) /\ Q # <<>> /\ Head(Q) = r
      /\ \A q \in Req : CmdOf[q] \in Cmd
      /\ \A c \in Cmd : keyQ'[c] = IF c = CmdOf[r] THEN Tail(Q) ELSE keyQ[c]
  BY DEF Holds
<1>q. /\ Tail(Q) \in Seq(Req)
      /\ \A q : Waits(q, Q) /\ q # Head(Q) => Waits(q, Tail(Q))
  <2> HIDE DEF Q
  <2> QED  BY <1>0, PopQueue
<1> HIDE DEF Q
<1>1. KeyHolder'
  <2> SUFFICES ASSUME NEW q \in Req,
                      pc'[q] \in {"await", "lookup", "sessWait", "relookup"}
               PROVE  Holds(q, keyQ'[CmdOf[q]])
    BY DEF KeyHolder
  <2>1. q # r /\ pc[q] = pc'[q]
    OBVIOUS
  <2>2. Holds(q, keyQ[CmdOf[q]])
    BY <2>1 DEF KeyHolder
  <2>3. CmdOf[q] # CmdOf[r]
    BY <2>1, <2>2, <1>0 DEF Holds, Q
  <2> QED
    BY <2>2, <2>3, <1>0
<1>2. KeyWaiter'
  <2> SUFFICES ASSUME NEW q \in Req, pc'[q] = "keyWait"
               PROVE  Waits(q, keyQ'[CmdOf[q]])
    BY DEF KeyWaiter
  <2>1. q # r /\ pc[q] = "keyWait"
    OBVIOUS
  <2>2. Waits(q, keyQ[CmdOf[q]])
    BY <2>1 DEF KeyWaiter
  <2>3. CASE CmdOf[q] = CmdOf[r]
    BY <2>1, <2>2, <2>3, <1>0, <1>q DEF Q
  <2>4. CASE CmdOf[q] # CmdOf[r]
    BY <2>2, <2>4, <1>0
  <2> QED  BY <2>3, <2>4
<1>3. keyQ' \in [Cmd -> Seq(Req)]
  BY <1>0, <1>q
<1> QED
  BY <1>1, <1>2, <1>3

\* A delivery that passed the session gate leaves the queue of its session.
LEMMA PopSession ==
  ASSUME ConstantsOK, GateTypes, SessGates, NEW r \in Req, NEW p \in PC,
         pc' = [pc EXCEPT ![r] = p], ReleaseSession(r), Holds(r, SessQ(r)),
         p # "sessWait", p \notin Gated
  PROVE  SessGates' /\ sessQ' \in [Session -> Seq(Req)]
<1> USE DEF GateTypes, SessQ, S, Gated, ReleaseSession, ConstantsOK, SessGates
<1> DEFINE Q == sessQ[SessOf[CmdOf[r]]]
<1>0. /\ SessOf[CmdOf[r]] \in Session /\ Q \in Seq(Req) /\ Q # <<>> /\ Head(Q) = r
      /\ \A q \in Req : SessOf[CmdOf[q]] \in Session
      /\ \A s \in Session :
           sessQ'[s] = IF s = SessOf[CmdOf[r]] THEN Tail(Q) ELSE sessQ[s]
  BY DEF Holds
<1>q. /\ Tail(Q) \in Seq(Req)
      /\ \A q : Waits(q, Q) /\ q # Head(Q) => Waits(q, Tail(Q))
      /\ \A i \in 1..Len(Tail(Q)) : i + 1 \in 1..Len(Q) /\ Tail(Q)[i] = Q[i + 1]
  <2> HIDE DEF Q
  <2> QED  BY <1>0, PopQueue
<1> HIDE DEF Q
<1>3. SessHolder'
  <2> SUFFICES ASSUME NEW q \in Req, pc'[q] \in Gated
               PROVE  Holds(q, sessQ'[SessOf[CmdOf[q]]])
    BY DEF SessHolder
  <2>1. q # r /\ pc[q] = pc'[q]
    OBVIOUS
  <2>2. Holds(q, sessQ[SessOf[CmdOf[q]]])
    BY <2>1 DEF SessHolder
  <2>3. SessOf[CmdOf[q]] # SessOf[CmdOf[r]]
    BY <2>1, <2>2, <1>0 DEF Holds, Q
  <2> QED
    BY <2>2, <2>3, <1>0
<1>4. SessWaiter'
  <2> SUFFICES ASSUME NEW q \in Req, pc'[q] = "sessWait"
               PROVE  Waits(q, sessQ'[SessOf[CmdOf[q]]])
    BY DEF SessWaiter
  <2>1. q # r /\ pc[q] = "sessWait"
    OBVIOUS
  <2>2. Waits(q, sessQ[SessOf[CmdOf[q]]])
    BY <2>1 DEF SessWaiter
  <2>3. CASE SessOf[CmdOf[q]] = SessOf[CmdOf[r]]
    BY <2>1, <2>2, <2>3, <1>0, <1>q DEF Q
  <2>4. CASE SessOf[CmdOf[q]] # SessOf[CmdOf[r]]
    BY <2>2, <2>4, <1>0
  <2> QED  BY <2>3, <2>4
<1>5. SessOwn'
  <2> SUFFICES ASSUME NEW s \in Session, NEW i \in 1..Len(sessQ'[s])
               PROVE  SessOf[CmdOf[sessQ'[s][i]]] = s
    BY DEF SessOwn
  <2>1. CASE s = SessOf[CmdOf[r]]
    <3>1. i \in 1..Len(Tail(Q)) /\ sessQ'[s] = Tail(Q)
      BY <2>1, <1>0
    <3>2. i + 1 \in 1..Len(Q) /\ Tail(Q)[i] = Q[i + 1]
      BY <3>1, <1>q
    <3>3. SessOf[CmdOf[sessQ[s][i + 1]]] = s
      BY <2>1, <3>2 DEF SessOwn, Q
    <3> QED
      BY <2>1, <3>1, <3>2, <3>3 DEF Q
  <2>2. CASE s # SessOf[CmdOf[r]]
    BY <2>2, <1>0 DEF SessOwn
  <2> QED  BY <2>1, <2>2
<1>6. sessQ' \in [Session -> Seq(Req)]
  BY <1>0, <1>q
<1> QED
  BY <1>3, <1>4, <1>5, <1>6
-----------------------------------------------------------------------------
(* The steps of handle().                                                  *)

\* Whoever runs on from a gate is the head of its queue.
LEMMA RunsOn ==
  ASSUME IInv, NEW r \in Req
  PROVE  /\ AtKeyGate(r) => Holds(r, KeyQ(r))
         /\ AtSessionGate(r) => Holds(r, KeyQ(r)) /\ Holds(r, SessQ(r))
         /\ GateTypes /\ KeyGates /\ SessGates
<1>1. GateTypes /\ KeyGates /\ SessGates
  BY DEF IInv, TypeOK, GateTypes, Gates
<1>2. AtKeyGate(r) => Holds(r, KeyQ(r))
  BY <1>1 DEF AtKeyGate, Holds, KeyQ, KeyGates, KeyWaiter, Waits
<1>3. AtSessionGate(r) => Holds(r, KeyQ(r)) /\ Holds(r, SessQ(r))
  BY <1>1 DEF AtSessionGate, Holds, KeyQ, SessQ, KeyGates, KeyHolder,
              SessGates, SessWaiter, Waits
<1> QED
  BY <1>1, <1>2, <1>3

ReqTypes ==
  /\ pc \in [Req -> PC]
  /\ answer \in [Req -> Answers]
  /\ held \in [Req -> Ack \cup {NoAck}]

\* A delivery is answered and gives back the gates it holds.
LEMMA ReplyKeeps ==
  ASSUME ConstantsOK, IInv, NEW r \in Req, NEW a \in Answers,
         Reply(r, a), ReleaseGates(r), Holds(r, KeyQ(r)),
         pc[r] \in {"sessWait", "relookup"} => Holds(r, SessQ(r))
  PROVE  Gates' /\ GateTypes' /\ ReqTypes'
<1>0. GateTypes /\ KeyGates /\ SessGates
  BY RunsOn
<1>1. "done" \in PC /\ "done" \notin Gated /\ pc' = [pc EXCEPT ![r] = "done"]
  BY DEF PC, Gated, Reply
<1>2. KeyGates' /\ keyQ' \in [Cmd -> Seq(Req)]
  <2>1. ReleaseKey(r)
    BY DEF ReleaseGates
  <2> QED
    BY <1>0, <1>1, <2>1, PopKey
<1>3. SessGates' /\ sessQ' \in [Session -> Seq(Req)]
  <2>1. CASE pc[r] \in {"sessWait", "relookup"}
    <3>1. ReleaseSession(r) /\ Holds(r, SessQ(r))
      BY <2>1 DEF ReleaseGates
    <3> QED
      BY <1>0, <1>1, <3>1, PopSession
  <2>2. CASE pc[r] \notin {"sessWait", "relookup"}
    <3>1. UNCHANGED sessQ
      BY <2>2 DEF ReleaseGates
    <3> QED
      BY <1>0, <1>1, <3>1, MoveKeepsSession DEF GateTypes
  <2> QED  BY <2>1, <2>2
<1>4. ReqTypes'
  BY <1>1 DEF ReqTypes, IInv, TypeOK, Reply
<1>5. GateTypes'
  BY <1>2, <1>3, <1>4 DEF GateTypes, ReqTypes
<1> QED
  BY <1>2, <1>3, <1>4, <1>5 DEF Gates

\* What a delivery is answered is an answer.
LEMMA FoundIsAnswer ==
  ASSUME NEW r, NEW a \in Ack
  PROVE  Found(r, a) \in Answers
  BY DEF Found, RetryAck, Ack, Answers

\* Moving an entry to the newest end of the settled table.
LEMMA NewestTyped ==
  ASSUME ConstantsOK, NEW f \in [Cmd -> 0..LruLimit], NEW c \in Cmd
  PROVE  /\ Newest(f, c) \in [Cmd -> 0..LruLimit]
         /\ \A d \in Cmd : Newest(f, c)[d] # 0 => d = c \/ f[d] # 0
  BY DEF Newest, ConstantsOK

\* Taking an entry out of the settled table.
LEMMA WithoutTyped ==
  ASSUME ConstantsOK, NEW f \in [Cmd -> 0..LruLimit], NEW c \in Cmd
  PROVE  /\ Without(f, c) \in [Cmd -> 0..LruLimit]
         /\ \A d \in Cmd : Without(f, c)[d] # 0 => f[d] # 0
  BY DEF Without, ConstantsOK

\* The rest of a state that an answer leaves as it was.
LEMMA AnswerKeeps ==
  ASSUME ConstantsOK, IInv, Gates', GateTypes', ReqTypes',
         NEW r \in Req, pc' = [pc EXCEPT ![r] = "done"],
         UNCHANGED <<live, settledAck, admVars, idxVars, timeline, countVars,
                     owned, active, runs>>,
         ledger' \in [Cmd -> Ledger],
         lru' \in [Cmd -> 0..LruLimit],
         \A d \in Cmd : lru'[d] # 0 => settledAck[d] \in Ack
  PROVE  IInv'
<1> USE DEF admVars, idxVars, countVars
<1>1. TypeOK'
  BY DEF IInv, TypeOK, GateTypes, ReqTypes
<1>2. Awaited'
  BY DEF IInv, Awaited, GateTypes, TypeOK
<1>3. Remembered'
  BY DEF Remembered
<1> QED
  BY <1>1, <1>2, <1>3 DEF IInv

LEMMA SweptTyped ==
  ASSUME TypeOK, NEW rows
  PROVE  Swept(rows) \in [Cmd -> Ledger]
  BY DEF Swept, TypeOK, Ledger

LEMMA FactTyped ==
  ASSUME NEW led, NEW c
  PROVE  DurableFact(led, c) \in Ack \cup {NoAck}
  BY DEF DurableFact, Ack

LEMMA EnsureIndexTyped ==
  ASSUME TypeOK, NEW s \in Session, EnsureIndex(s)
  PROVE  /\ ledger' \in [Cmd -> Ledger]
         /\ idxLoaded' \in [Session -> BOOLEAN]
         /\ idxFact' \in [Cmd -> Ack \cup {NoAck}]
<1>1. CASE idxLoaded[s]
  BY <1>1 DEF EnsureIndex, TypeOK, idxVars
<1>2. CASE ~idxLoaded[s]
  <2> DEFINE led == IF active[s] THEN ledger ELSE Swept(Admitted(s))
  <2>1. /\ ledger' = led
        /\ idxLoaded' = [idxLoaded EXCEPT ![s] = TRUE]
        /\ idxFact' = [c \in Cmd |-> IF SessOf[c] = s THEN DurableFact(led, c)
                                     ELSE idxFact[c]]
    BY <1>2 DEF EnsureIndex
  <2>2. led \in [Cmd -> Ledger]
    BY SweptTyped DEF TypeOK
  <2> HIDE DEF led
  <2> QED
    BY <2>1, <2>2, FactTyped DEF TypeOK
<1> QED
  BY <1>1, <1>2

\* Every answer handle() or queryOne() gives before admission.
LEMMA AnswerStep ==
  ASSUME ConstantsOK, IInv, NEW r \in Req,
         \/ AwaitFinal(r) \/ ReplyFromMemory(r) \/ LookupHit(r)
         \/ LookupFault(r) \/ QueryMiss(r) \/ Reject(r)
  PROVE  IInv'
<1> DEFINE c == CmdOf[r]
<1>0. /\ c \in Cmd /\ TypeOK /\ Remembered /\ Awaited
      /\ pc \in [Req -> PC]
      /\ \A d \in Cmd : lru[d] # 0 => settledAck[d] \in Ack
      /\ lru \in [Cmd -> 0..LruLimit]
      /\ ledger \in [Cmd -> Ledger]
  BY DEF ConstantsOK, IInv, TypeOK, Remembered
<1>h. /\ pc[r] \in {"await", "lookup", "relookup"} => Holds(r, KeyQ(r))
      /\ pc[r] = "relookup" => Holds(r, SessQ(r))
  BY RunsOn DEF KeyGates, KeyHolder, SessGates, SessHolder, Gated
<1> HIDE DEF c
<1>1. CASE AwaitFinal(r)
  <2>1. final[c] \in Ack
    BY <1>0, <1>1 DEF AwaitFinal, Awaited, c
  <2>2. Found(r, final[c]) \in Answers /\ Reply(r, Found(r, final[c]))
    BY <1>1, <2>1, FoundIsAnswer DEF AwaitFinal, c
  <2>3. Gates' /\ GateTypes' /\ ReqTypes'
    <3>1. ReleaseGates(r) /\ pc[r] = "await"
      BY <1>1 DEF AwaitFinal
    <3> QED
      BY <1>h, <2>2, <3>1, ReplyKeeps
  <2> QED
    BY <1>0, <1>1, <2>3, AnswerKeeps DEF AwaitFinal, Reply, memVars, diskVars
<1>2. CASE ReplyFromMemory(r)
  <2>1. /\ Holds(r, KeyQ(r)) /\ ReleaseGates(r)
        /\ pc[r] \in {"sessWait", "relookup"} => Holds(r, SessQ(r))
    BY <1>2, RunsOn DEF ReplyFromMemory, AtKeyGate, AtSessionGate
  <2>2. CASE live[c] # NoAck
    <3>1. live[c] \in Ack
      BY <1>0, <2>2 DEF TypeOK
    <3>2. Found(r, live[c]) \in Answers /\ Reply(r, Found(r, live[c]))
      BY <1>2, <2>2, <3>1, FoundIsAnswer DEF ReplyFromMemory, c
    <3>3. Gates' /\ GateTypes' /\ ReqTypes'
      BY <2>1, <3>2, ReplyKeeps
    <3> QED
      BY <1>0, <1>2, <2>2, <3>3, AnswerKeeps
         DEF ReplyFromMemory, Reply, memVars, diskVars, c
  <2>3. CASE live[c] = NoAck
    <3>1. settledAck[c] \in Ack
      BY <1>0, <1>2, <2>3 DEF ReplyFromMemory, c
    <3>2. Found(r, settledAck[c]) \in Answers /\ Reply(r, Found(r, settledAck[c]))
      BY <1>2, <2>3, <3>1, FoundIsAnswer DEF ReplyFromMemory, c
    <3>3. Gates' /\ GateTypes' /\ ReqTypes'
      BY <2>1, <3>2, ReplyKeeps
    <3>4. lru' = Newest(lru, c) /\ UNCHANGED <<live, settledAck>>
      BY <1>2, <2>3 DEF ReplyFromMemory, c
    <3>5. /\ lru' \in [Cmd -> 0..LruLimit]
          /\ \A d \in Cmd : lru'[d] # 0 => settledAck[d] \in Ack
      BY <1>0, <3>1, <3>4, NewestTyped
    <3> QED
      BY <1>0, <1>2, <3>3, <3>4, <3>5, AnswerKeeps
         DEF ReplyFromMemory, Reply, diskVars
  <2> QED  BY <2>2, <2>3
<1>3. CASE LookupHit(r)
  <2>1. held[r] \in Ack
    BY <1>0, <1>3 DEF LookupHit, TypeOK
  <2>2. Found(r, held[r]) \in Answers /\ Reply(r, Found(r, held[r]))
    BY <1>3, <2>1, FoundIsAnswer DEF LookupHit
  <2>3. Gates' /\ GateTypes' /\ ReqTypes'
    <3>1. ReleaseGates(r) /\ pc[r] \in {"lookup", "relookup"}
      BY <1>3 DEF LookupHit
    <3> QED
      BY <1>h, <2>2, <3>1, ReplyKeeps
  <2> QED
    BY <1>0, <1>3, <2>3, AnswerKeeps DEF LookupHit, Reply, memVars, diskVars
<1>4. CASE LookupFault(r)
  <2>1. /\ Holds(r, KeyQ(r)) /\ ReleaseGates(r) /\ Reply(r, "unavailable")
        /\ pc[r] \in {"sessWait", "relookup"} => Holds(r, SessQ(r))
    BY <1>4, RunsOn DEF LookupFault, AtKeyGate, AtSessionGate
  <2>2. Gates' /\ GateTypes' /\ ReqTypes'
    <3>1. "unavailable" \in Answers
      BY DEF Answers
    <3> QED
      BY <2>1, <3>1, ReplyKeeps
  <2>3. ledger' \in [Cmd -> Ledger]
    BY <1>0, <1>4, SweptTyped DEF LookupFault
  <2> QED
    BY <1>0, <1>4, <2>2, <2>3, AnswerKeeps DEF LookupFault, Reply, memVars
<1>5. CASE QueryMiss(r)
  <2>1. Gates' /\ GateTypes' /\ ReqTypes'
    <3>1. ReleaseGates(r) /\ pc[r] = "lookup" /\ Reply(r, "unknown")
      BY <1>5 DEF QueryMiss
    <3>2. "unknown" \in Answers
      BY DEF Answers
    <3> QED
      BY <1>h, <3>1, <3>2, ReplyKeeps
  <2> QED
    BY <1>0, <1>5, <2>1, AnswerKeeps DEF QueryMiss, Reply, memVars, diskVars
<1>6. CASE Reject(r)
  <2>1. Gates' /\ GateTypes' /\ ReqTypes'
    <3>1. ReleaseGates(r) /\ pc[r] = "relookup" /\ Reply(r, "rejected")
      BY <1>6 DEF Reject
    <3>2. "rejected" \in Answers
      BY DEF Answers
    <3> QED
      BY <1>h, <3>1, <3>2, ReplyKeeps
  <2> QED
    BY <1>0, <1>6, <2>1, AnswerKeeps DEF Reject, Reply, memVars, diskVars
<1> QED
  BY <1>1, <1>2, <1>3, <1>4, <1>5, <1>6

\* A delivery arrives, joins an execution, looks up, or goes to the session
\* gate.
LEMMA WaitStep ==
  ASSUME ConstantsOK, IInv, NEW r \in Req,
         Arrive(r) \/ JoinInFlight(r) \/ StartLookup(r) \/ WaitForSession(r)
  PROVE  IInv'
<1> DEFINE c == CmdOf[r]
<1>0. /\ c \in Cmd /\ S(r) \in Session /\ TypeOK /\ Remembered /\ Awaited
      /\ GateTypes /\ KeyGates /\ SessGates
      /\ keyQ[c] \in Seq(Req) /\ sessQ[S(r)] \in Seq(Req)
  BY RunsOn DEF ConstantsOK, IInv, TypeOK, S, GateTypes
<1> HIDE DEF c
<1> USE DEF memVars, admVars, idxVars, diskVars, countVars, gateVars
<1>1. CASE Arrive(r)
  <2>1. /\ pc' = [pc EXCEPT ![r] = "keyWait"] /\ UNCHANGED sessQ
        /\ keyQ' = [keyQ EXCEPT ![c] = Append(keyQ[c], r)]
        /\ "keyWait" \in PC /\ "keyWait" \notin Gated
    BY <1>1 DEF Arrive, PC, Gated, c
  <2>2. /\ Append(keyQ[c], r) \in Seq(Req)
        /\ \A q : Holds(q, keyQ[c]) => Holds(q, Append(keyQ[c], r))
        /\ \A q : Waits(q, keyQ[c]) => Waits(q, Append(keyQ[c], r))
        /\ Waits(r, Append(keyQ[c], r))
    BY <1>0, PushQueue
  <2>3. SessGates'
    BY <1>0, <2>1, MoveKeepsSession
  <2>4. KeyHolder'
    BY <1>0, <2>1, <2>2 DEF KeyHolder, KeyGates, KeyQ, GateTypes, ConstantsOK
  <2>5. KeyWaiter'
    BY <1>0, <2>1, <2>2 DEF KeyWaiter, KeyGates, KeyQ, GateTypes, ConstantsOK, c
  <2>6. TypeOK'
    <3>1. UNCHANGED <<answer, held, sessQ, live, lru, settledAck, inFlight,
                     final, seq, order, idxLoaded, idxFact, ledger, timeline,
                     orphans, crashes, idles, owned, active, runs>>
      BY <1>1 DEF Arrive
    <3>2. /\ pc' \in [Req -> PC]
          /\ keyQ' \in [Cmd -> Seq(Req)]
      BY <1>0, <2>1, <2>2 DEF TypeOK
    <3> QED
      BY <1>0, <2>1, <2>2, <3>1, <3>2 DEF TypeOK
  <2>7. Awaited' /\ Remembered'
    BY <1>0, <1>1 DEF Arrive, Awaited, Remembered, TypeOK
  <2> QED
    BY <2>3, <2>4, <2>5, <2>6, <2>7 DEF IInv, Gates, KeyGates
<1>2. CASE JoinInFlight(r)
  <2>1. /\ pc' = [pc EXCEPT ![r] = "await"] /\ UNCHANGED <<keyQ, sessQ>>
        /\ "await" \in PC /\ "await" \notin Gated /\ Holds(r, KeyQ(r))
    BY <1>2, RunsOn DEF JoinInFlight, PC, Gated
  <2>2. KeyGates' /\ SessGates'
    BY <1>0, <2>1, MoveKeepsKey, MoveKeepsSession
  <2>3. TypeOK'
    <3>1. UNCHANGED <<answer, held, keyQ, sessQ, live, lru, settledAck,
                      inFlight, final, seq, order, idxLoaded, idxFact, ledger,
                      timeline, orphans, crashes, idles, owned, active, runs>>
      BY <1>2 DEF JoinInFlight
    <3>2. pc' \in [Req -> PC]
      BY <1>0, <2>1 DEF TypeOK
    <3> QED
      BY <1>0, <3>1, <3>2 DEF TypeOK
  <2>4. Awaited' /\ Remembered'
    BY <1>0, <1>2 DEF JoinInFlight, Awaited, Remembered, TypeOK
  <2> QED
    BY <2>2, <2>3, <2>4 DEF IInv, Gates
<1>3. CASE StartLookup(r)
  <2> DEFINE p == IF AtKeyGate(r) THEN "lookup" ELSE "relookup"
  <2>1. /\ pc' = [pc EXCEPT ![r] = p] /\ UNCHANGED <<keyQ, sessQ>>
        /\ p \in PC /\ p # "keyWait" /\ p # "sessWait" /\ Holds(r, KeyQ(r))
        /\ p \in Gated => Holds(r, SessQ(r))
    BY <1>3, RunsOn DEF StartLookup, PC, Gated
  <2> HIDE DEF p
  <2>2. KeyGates' /\ SessGates'
    BY <1>0, <2>1, MoveKeepsKey, MoveKeepsSession
  <2>3. /\ ledger' \in [Cmd -> Ledger]
        /\ idxLoaded' \in [Session -> BOOLEAN]
        /\ idxFact' \in [Cmd -> Ack \cup {NoAck}]
    BY <1>0, <1>3, EnsureIndexTyped DEF StartLookup
  <2>4. TypeOK'
    <3>1. UNCHANGED <<answer, keyQ, sessQ, live, lru, settledAck, inFlight,
                     final, seq, order, timeline, orphans, crashes, idles,
                     owned, active, runs>>
      BY <1>3 DEF StartLookup
    <3>2. /\ pc' \in [Req -> PC]
          /\ held' \in [Req -> Ack \cup {NoAck}]
      BY <1>0, <1>3, <2>1, <2>3 DEF TypeOK, StartLookup, c
    <3> QED
      BY <1>0, <2>3, <3>1, <3>2 DEF TypeOK
  <2>5. Awaited' /\ Remembered'
    BY <1>0, <1>3 DEF StartLookup, Awaited, Remembered, TypeOK
  <2> QED
    BY <2>2, <2>4, <2>5 DEF IInv, Gates
<1>4. CASE WaitForSession(r)
  <2>1. /\ pc' = [pc EXCEPT ![r] = "sessWait"] /\ UNCHANGED keyQ
        /\ sessQ' = [sessQ EXCEPT ![S(r)] = Append(sessQ[S(r)], r)]
        /\ "sessWait" \in PC /\ "sessWait" \notin Gated /\ Holds(r, KeyQ(r))
    BY <1>0, <1>4 DEF WaitForSession, PC, Gated, KeyGates, KeyHolder
  <2>2. /\ Append(sessQ[S(r)], r) \in Seq(Req)
        /\ \A q : Holds(q, sessQ[S(r)]) => Holds(q, Append(sessQ[S(r)], r))
        /\ \A q : Waits(q, sessQ[S(r)]) => Waits(q, Append(sessQ[S(r)], r))
        /\ Waits(r, Append(sessQ[S(r)], r))
        /\ \A i \in 1..Len(Append(sessQ[S(r)], r)) :
             \/ i \in 1..Len(sessQ[S(r)])
                /\ Append(sessQ[S(r)], r)[i] = sessQ[S(r)][i]
             \/ Append(sessQ[S(r)], r)[i] = r
    BY <1>0, PushQueue
  <2>3. KeyGates'
    BY <1>0, <2>1, MoveKeepsKey
  <2>4. SessHolder'
    BY <1>0, <2>1, <2>2
       DEF SessHolder, SessGates, SessQ, GateTypes, ConstantsOK, S
  <2>5. SessWaiter'
    BY <1>0, <2>1, <2>2
       DEF SessWaiter, SessGates, SessQ, GateTypes, ConstantsOK, S
  <2>6. SessOwn'
    <3> SUFFICES ASSUME NEW s \in Session, NEW i \in 1..Len(sessQ'[s])
                 PROVE  S(sessQ'[s][i]) = s
      BY DEF SessOwn, S
    <3>1. CASE s = S(r)
      <4>1. sessQ'[s] = Append(sessQ[S(r)], r)
        BY <1>0, <2>1, <3>1 DEF GateTypes
      <4> QED
        BY <1>0, <2>2, <3>1, <4>1 DEF SessGates, SessOwn
    <3>2. CASE s # S(r)
      BY <1>0, <2>1, <3>2 DEF SessGates, SessOwn, GateTypes
    <3> QED  BY <3>1, <3>2
  <2>7. TypeOK'
    <3>1. UNCHANGED <<answer, held, keyQ, live, lru, settledAck, inFlight,
                     final, seq, order, idxLoaded, idxFact, ledger, timeline,
                     orphans, crashes, idles, owned, active, runs>>
      BY <1>4 DEF WaitForSession
    <3>2. /\ pc' \in [Req -> PC]
          /\ sessQ' \in [Session -> Seq(Req)]
      BY <1>0, <2>1, <2>2 DEF TypeOK
    <3> QED
      BY <1>0, <2>1, <2>2, <3>1, <3>2 DEF TypeOK
  <2>8. Awaited' /\ Remembered'
    BY <1>0, <1>4 DEF WaitForSession, Awaited, Remembered, TypeOK
  <2> QED
    BY <2>3, <2>4, <2>5, <2>6, <2>7, <2>8 DEF IInv, Gates, SessGates
<1> QED
  BY <1>1, <1>2, <1>3, <1>4
-----------------------------------------------------------------------------
(* Admission and execution.                                                *)

LEMMA AdmitStep ==
  ASSUME ConstantsOK, IInv, NEW r \in Req, Admit(r)
  PROVE  IInv'
<1> DEFINE c == CmdOf[r]
<1>0. /\ c \in Cmd /\ S(r) \in Session /\ TypeOK /\ Remembered /\ Awaited
      /\ GateTypes /\ KeyGates /\ SessGates
      /\ seq[S(r)] \in Nat
  BY RunsOn DEF ConstantsOK, IInv, TypeOK, S
<1> HIDE DEF c
<1> USE DEF memVars, idxVars, diskVars, countVars
<1>1. /\ pc' = [pc EXCEPT ![r] = "admitted"] /\ UNCHANGED sessQ
      /\ ReleaseKey(r) /\ "admitted" \in PC
      /\ "admitted" \in Gated => Holds(r, SessQ(r))
      /\ Holds(r, KeyQ(r))
  BY <1>0 DEF Admit, PC, Gated, KeyGates, KeyHolder, SessGates, SessHolder
<1>2. KeyGates' /\ keyQ' \in [Cmd -> Seq(Req)]
  BY <1>0, <1>1, PopKey
<1>3. SessGates'
  BY <1>0, <1>1, MoveKeepsSession
<1>4. /\ seq' \in [Session -> Nat] /\ order' \in [Cmd -> Nat]
      /\ inFlight' \subseteq Cmd
  BY <1>0 DEF Admit, TypeOK, c
<1>5. TypeOK'
  <2>1. UNCHANGED <<answer, held, sessQ, live, lru, settledAck, final,
                   idxLoaded, idxFact, ledger, timeline, orphans, crashes,
                   idles, owned, active, runs>>
    BY <1>1 DEF Admit
  <2>2. /\ pc' \in [Req -> PC]
    BY <1>0, <1>1 DEF TypeOK
  <2> QED
    BY <1>0, <1>2, <1>4, <2>1, <2>2 DEF TypeOK
<1>6. Awaited' /\ Remembered'
  BY <1>0 DEF Admit, Awaited, Remembered, TypeOK
<1> QED
  BY <1>2, <1>3, <1>5, <1>6 DEF IInv, Gates

\* The command settles: the session gate is given back.
LEMMA SettleKeeps ==
  ASSUME ConstantsOK, IInv, NEW r \in Req, pc[r] \in Executing,
         NEW a \in Ack, Settle(r, a),
         lru' \in [Cmd -> 0..LruLimit],
         live' \in [Cmd -> Ack \cup {NoAck}],
         settledAck' \in [Cmd -> Ack \cup {NoAck}],
         \A d \in Cmd : lru'[d] # 0 => settledAck'[d] \in Ack,
         UNCHANGED <<idxVars, diskVars, countVars, owned, active, runs>>
  PROVE  IInv'
<1>0. /\ CmdOf[r] \in Cmd /\ TypeOK /\ Remembered /\ Awaited
      /\ GateTypes /\ KeyGates /\ SessGates
  BY RunsOn DEF ConstantsOK, IInv, TypeOK
<1> USE DEF idxVars, diskVars, countVars
<1>1. /\ pc' = [pc EXCEPT ![r] = "done"] /\ ReleaseSession(r) /\ UNCHANGED keyQ
      /\ "done" \in PC /\ "done" \notin Gated /\ Holds(r, SessQ(r))
  BY <1>0 DEF Settle, Reply, PC, Gated, Executing, SessGates, SessHolder
<1>2. KeyGates'
  BY <1>0, <1>1, MoveKeepsKey
<1>3. SessGates' /\ sessQ' \in [Session -> Seq(Req)]
  BY <1>0, <1>1, PopSession
<1>4. TypeOK'
  <2>1. UNCHANGED <<keyQ, seq, order, idxLoaded, idxFact, ledger, timeline,
                   orphans, crashes, idles, owned, active, runs>>
    BY <1>1 DEF Settle
  <2>2. /\ pc' \in [Req -> PC]
        /\ answer' \in [Req -> Answers]
        /\ held' \in [Req -> Ack \cup {NoAck}]
        /\ final' \in [Cmd -> Ack \cup {NoAck}]
        /\ inFlight' \subseteq Cmd
    BY <1>0, <1>1 DEF TypeOK, Settle, Reply, Answers
  <2> QED
    BY <1>0, <1>3, <2>1, <2>2 DEF TypeOK
<1>5. Awaited'
  BY <1>0 DEF Settle, Reply, Awaited, TypeOK
<1>6. Remembered'
  BY DEF Remembered
<1> QED
  BY <1>2, <1>3, <1>4, <1>5, <1>6 DEF IInv, Gates

LEMMA RememberTyped ==
  ASSUME ConstantsOK, TypeOK, Remembered, NEW c \in Cmd, NEW a \in Ack,
         Remember(c, a)
  PROVE  /\ lru' \in [Cmd -> 0..LruLimit]
         /\ settledAck' \in [Cmd -> Ack \cup {NoAck}]
         /\ \A d \in Cmd : lru'[d] # 0 => settledAck'[d] \in Ack
<1>1. lru \in [Cmd -> 0..LruLimit] /\ settledAck \in [Cmd -> Ack \cup {NoAck}]
  BY DEF TypeOK
<1>2. /\ Newest(lru, c) \in [Cmd -> 0..LruLimit]
      /\ \A d \in Cmd : Newest(lru, c)[d] # 0 => d = c \/ lru[d] # 0
  BY <1>1, NewestTyped
<1> QED
  BY <1>1, <1>2 DEF Remember, Remembered

LEMMA SettleFaultStep ==
  ASSUME ConstantsOK, IInv, NEW r \in Req, pc[r] \in Executing,
         NEW a \in Ack, SettleFault(r, a)
  PROVE  IInv'
<1>0. CmdOf[r] \in Cmd /\ TypeOK /\ Remembered
  BY DEF ConstantsOK, IInv
<1>1. /\ lru' \in [Cmd -> 0..LruLimit]
      /\ settledAck' \in [Cmd -> Ack \cup {NoAck}]
      /\ \A d \in Cmd : lru'[d] # 0 => settledAck'[d] \in Ack
  BY <1>0, RememberTyped DEF SettleFault
<1>2. live' \in [Cmd -> Ack \cup {NoAck}]
  BY <1>0 DEF SettleFault, TypeOK
<1> QED
  BY <1>1, <1>2, SettleKeeps DEF SettleFault

LEMMA ExecuteStep ==
  ASSUME ConstantsOK, IInv, NEW r \in Req, Execute(r)
  PROVE  IInv'
<1> DEFINE c == CmdOf[r]
<1>0. /\ c \in Cmd /\ TypeOK /\ Remembered /\ Awaited
      /\ GateTypes /\ KeyGates /\ SessGates
      /\ pc[r] \in Executing => Holds(r, SessQ(r))
  BY RunsOn DEF ConstantsOK, IInv, SessGates, SessHolder, Gated, Executing
<1> HIDE DEF c
<1> USE DEF idxVars, diskVars, countVars, admVars, memVars, gateVars
<1>1. CASE StartExecute(r)
  <2>1. /\ pc' = [pc EXCEPT ![r] = "running"] /\ UNCHANGED <<keyQ, sessQ>>
        /\ "running" \in PC /\ pc[r] \in Executing
    BY <1>1 DEF StartExecute, PC, Executing
  <2>2. KeyGates' /\ SessGates'
    BY <1>0, <2>1, MoveKeepsKey, MoveKeepsSession
  <2>3. lru \in [Cmd -> 0..LruLimit]
    BY <1>0 DEF TypeOK
  <2>4. /\ lru' \in [Cmd -> 0..LruLimit]
        /\ \A d \in Cmd : lru'[d] # 0 => lru[d] # 0
    BY <1>0, <1>1, <2>3, WithoutTyped DEF StartExecute, c
  <2>5. /\ ledger' \in [Cmd -> Ledger] /\ live' \in [Cmd -> Ack \cup {NoAck}]
        /\ runs' \in [Cmd -> Nat] /\ orphans' \subseteq Cmd
    <3>1. CASE c \in Inputs
      <4>1. /\ ledger' = [ledger EXCEPT ![c] = IF @ = "none" THEN "admitted" ELSE @]
            /\ live' = [live EXCEPT ![c] = "accepted"]
            /\ runs' = [runs EXCEPT ![c] = @ + 1]
            /\ orphans' = orphans \ {c}
        BY <1>1, <3>1 DEF StartExecute, c
      <4> QED
        BY SMTT(20), <1>0, <4>1 DEF TypeOK, Ledger, Ack
    <3>2. CASE c \notin Inputs
      <4>1. /\ UNCHANGED <<ledger, live>>
            /\ runs' = [runs EXCEPT ![c] = @ + 1]
            /\ orphans' = orphans \ {c}
        BY <1>1, <3>2 DEF StartExecute, c
      <4> QED
        BY SMTT(20), <1>0, <4>1 DEF TypeOK
    <3> QED  BY <3>1, <3>2
  <2>6. TypeOK'
    <3>1. UNCHANGED <<answer, held, keyQ, sessQ, settledAck, inFlight, final,
                     seq, order, idxLoaded, idxFact, timeline, crashes, idles,
                     owned, active>>
      BY <1>1 DEF StartExecute
    <3>2. /\ pc' \in [Req -> PC]
      BY <1>0, <2>1 DEF TypeOK
    <3> QED
      BY <1>0, <2>4, <2>5, <3>1, <3>2 DEF TypeOK
  <2>7. Awaited' /\ Remembered'
    BY <1>0, <1>1, <2>4 DEF StartExecute, Awaited, Remembered, TypeOK
  <2> QED
    BY <2>2, <2>6, <2>7 DEF IInv, Gates
<1>2. CASE HandOff(r)
  <2>1. /\ pc' = [pc EXCEPT ![r] = "handed"] /\ UNCHANGED <<keyQ, sessQ>>
        /\ "handed" \in PC /\ pc[r] \in Executing
    BY <1>2 DEF HandOff, PC, Executing
  <2>2. KeyGates' /\ SessGates'
    BY <1>0, <2>1, MoveKeepsKey, MoveKeepsSession
  <2>3. TypeOK'
    <3>1. UNCHANGED <<answer, held, keyQ, sessQ, live, lru, settledAck,
                     inFlight, final, seq, order, idxLoaded, idxFact, ledger,
                     timeline, orphans, crashes, idles, active, runs>>
      BY <1>2 DEF HandOff
    <3>2. /\ pc' \in [Req -> PC]
          /\ owned' \in [Cmd -> {"no", "queued", "leaving"}]
      BY <1>0, <1>2, <2>1 DEF TypeOK, HandOff, c
    <3> QED
      BY <1>0, <3>1, <3>2 DEF TypeOK
  <2>4. Awaited' /\ Remembered'
    BY <1>0, <1>2, <2>1 DEF HandOff, TypeOK, Awaited, Remembered
  <2> QED
    BY <2>2, <2>3, <2>4 DEF IInv, Gates
<1>3. CASE AdmitFault(r)
  BY <1>3, SettleFaultStep DEF AdmitFault, Executing, Ack
<1>4. CASE ExecuteOk(r)
  <2>1. /\ pc[r] \in Executing /\ Settle(r, "accepted") /\ "accepted" \in Ack
        /\ UNCHANGED <<idxVars, diskVars, countVars, owned, active, runs>>
    BY <1>4 DEF ExecuteOk, Executing, Ack
  <2>2. /\ lru' \in [Cmd -> 0..LruLimit]
        /\ settledAck' \in [Cmd -> Ack \cup {NoAck}]
        /\ \A d \in Cmd : lru'[d] # 0 => settledAck'[d] \in Ack
        /\ live' \in [Cmd -> Ack \cup {NoAck}]
    <3>1. CASE live[c] # NoAck
      BY <1>0, <1>4, <3>1 DEF ExecuteOk, TypeOK, Remembered, Ack, c
    <3>2. CASE live[c] = NoAck
      <4>1. Remember(c, "accepted") /\ UNCHANGED live
        BY <1>4, <3>2 DEF ExecuteOk, c
      <4> QED
        BY <1>0, <2>1, <4>1, RememberTyped DEF TypeOK
    <3> QED  BY <3>1, <3>2
  <2> QED
    BY <2>1, <2>2, SettleKeeps
<1>5. CASE ExecuteFault(r)
  <2>1. /\ pc' = [pc EXCEPT ![r] = "cancelling"] /\ UNCHANGED <<keyQ, sessQ>>
        /\ "cancelling" \in PC /\ pc[r] \in Executing
    BY <1>5 DEF ExecuteFault, PC, Executing
  <2>2. KeyGates' /\ SessGates'
    BY <1>0, <2>1, MoveKeepsKey, MoveKeepsSession
  <2>3. ledger' \in [Cmd -> Ledger]
    BY ZenonT(40), <1>0, <1>5 DEF ExecuteFault, TypeOK, Ledger
  <2>4. TypeOK'
    <3>1. UNCHANGED <<answer, held, keyQ, sessQ, live, lru, settledAck,
                     inFlight, final, seq, order, idxLoaded, idxFact, timeline,
                     orphans, crashes, idles, owned, active, runs>>
      BY <1>5 DEF ExecuteFault
    <3>2. /\ pc' \in [Req -> PC]
      BY <1>0, <2>1 DEF TypeOK
    <3> QED
      BY <1>0, <2>3, <3>1, <3>2 DEF TypeOK
  <2>5. Awaited' /\ Remembered'
    BY <1>0, <1>5, <2>1 DEF ExecuteFault, TypeOK, Awaited, Remembered
  <2> QED
    BY <2>2, <2>4, <2>5 DEF IInv, Gates
<1>6. CASE SettleExecuteFault(r)
  BY <1>6, SettleFaultStep DEF SettleExecuteFault, Executing, Ack
<1> QED
  BY <1>1, <1>2, <1>3, <1>4, <1>5, <1>6 DEF Execute
-----------------------------------------------------------------------------
(* The runtime, residency and crashes: the gates are out of their reach.   *)

LEMMA SameGates ==
  ASSUME Gates, UNCHANGED <<pc, gateVars>>
  PROVE  Gates'
<1> USE DEF gateVars, KeyQ, SessQ, S
<1>1. KeyHolder' /\ KeyWaiter'
  BY DEF Gates, KeyGates, KeyHolder, KeyWaiter
<1>2. SessHolder' /\ SessWaiter' /\ SessOwn'
  BY DEF Gates, SessGates, SessHolder, SessWaiter, SessOwn
<1> QED
  BY <1>1, <1>2 DEF Gates, KeyGates, SessGates

LEMMA RuntimeStep ==
  ASSUME ConstantsOK, IInv, NEW c \in Cmd, Runtime(c)
  PROVE  IInv'
<1>0. TypeOK /\ Gates /\ Awaited /\ Remembered /\ SessOf[c] \in Session
  BY DEF IInv, ConstantsOK
<1> USE DEF reqVars, idxVars, diskVars, countVars, admVars, memVars, gateVars
<1>1. Gates'
  BY <1>0, SameGates DEF Runtime, Promote, EndUnpersisted, RemoveByUser, ReleaseLiveInput,
                         FinishCompact
<1>2. Awaited'
  BY <1>0 DEF Runtime, Promote, EndUnpersisted, RemoveByUser, ReleaseLiveInput,
              FinishCompact, Awaited
<1>3. CASE Promote(c) \/ EndUnpersisted(c) \/ RemoveByUser(c)
  <2>1. UNCHANGED <<pc, answer, held, keyQ, sessQ, live, lru, settledAck,
                   inFlight, final, seq, order, idxLoaded, idxFact, timeline,
                   orphans, crashes, idles, active, runs>>
    BY <1>3 DEF Promote, EndUnpersisted, RemoveByUser
  <2>2. /\ ledger' \in [Cmd -> Ledger]
        /\ owned' \in [Cmd -> {"no", "queued", "leaving"}]
    BY <1>0, <1>3 DEF Promote, EndUnpersisted, RemoveByUser, TypeOK, Ledger
  <2>3. TypeOK' /\ Remembered'
    BY <1>0, <2>1, <2>2 DEF TypeOK, Remembered
  <2> QED
    BY <1>1, <1>2, <2>3 DEF IInv
<1>4. CASE ReleaseLiveInput(c)
  <2>1. UNCHANGED <<pc, answer, held, keyQ, sessQ, inFlight, final, seq, order,
                   ledger, timeline, orphans, crashes, idles, active, runs>>
    BY <1>4 DEF ReleaseLiveInput
  <2>2. /\ live' \in [Cmd -> Ack \cup {NoAck}]
        /\ owned' \in [Cmd -> {"no", "queued", "leaving"}]
        /\ idxLoaded' \in [Session -> BOOLEAN]
        /\ idxFact' \in [Cmd -> Ack \cup {NoAck}]
    BY <1>0, <1>4 DEF ReleaseLiveInput, Invalidate, TypeOK
  <2>3. /\ lru' \in [Cmd -> 0..LruLimit]
        /\ settledAck' \in [Cmd -> Ack \cup {NoAck}]
        /\ \A d \in Cmd : lru'[d] # 0 => settledAck'[d] \in Ack
    <3>1. CASE live[c] # NoAck
      <4>1. live[c] \in Ack /\ Remember(c, live[c])
        BY <1>0, <1>4, <3>1 DEF ReleaseLiveInput, TypeOK
      <4> QED
        BY <1>0, <4>1, RememberTyped
    <3>2. CASE live[c] = NoAck
      BY <1>0, <1>4, <3>2 DEF ReleaseLiveInput, TypeOK, Remembered
    <3> QED  BY <3>1, <3>2
  <2>4. TypeOK' /\ Remembered'
    BY <1>0, <2>1, <2>2, <2>3 DEF TypeOK, Remembered
  <2> QED
    BY <1>1, <1>2, <2>4 DEF IInv
<1>5. CASE FinishCompact(c)
  <2>1. UNCHANGED <<pc, answer, held, keyQ, sessQ, live, lru, settledAck,
                   inFlight, final, seq, order, ledger, orphans, crashes,
                   idles, active, runs>>
    BY <1>5 DEF FinishCompact
  <2>2. /\ owned' \in [Cmd -> {"no", "queued", "leaving"}]
        /\ timeline' \subseteq Cmd
    BY <1>0, <1>5 DEF FinishCompact, TypeOK
  <2>3. idxLoaded' \in [Session -> BOOLEAN]
    BY <1>0, <1>5 DEF FinishCompact, TypeOK
  <2>4. idxFact' \in [Cmd -> Ack \cup {NoAck}]
    <3>1. "accepted" \in Ack /\ idxFact \in [Cmd -> Ack \cup {NoAck}]
      BY <1>0 DEF TypeOK, Ack
    <3> QED
      BY <1>5, <3>1, FactTyped DEF FinishCompact
  <2>5. TypeOK' /\ Remembered'
    BY <1>0, <2>1, <2>2, <2>3, <2>4 DEF TypeOK, Remembered
  <2> QED
    BY <1>1, <1>2, <2>5 DEF IInv
<1> QED
  BY <1>3, <1>4, <1>5 DEF Runtime

LEMMA ResidencyStep ==
  ASSUME ConstantsOK, IInv, NEW s \in Session, Deactivate(s) \/ Resume(s)
  PROVE  IInv'
<1>0. TypeOK /\ Gates /\ Awaited /\ Remembered /\ LruLimit \in Nat
  BY DEF IInv, ConstantsOK
<1> USE DEF reqVars, idxVars, diskVars, countVars, admVars, memVars, gateVars
<1>1. Gates' /\ Awaited'
  BY <1>0, SameGates DEF Deactivate, Resume, Awaited
<1>2. CASE Deactivate(s)
  <2>1. UNCHANGED <<pc, answer, held, keyQ, sessQ, live, settledAck, inFlight,
                   final, order, idxLoaded, idxFact, ledger, timeline, orphans,
                   crashes, owned, runs>>
    BY <1>2 DEF Deactivate
  <2>2. /\ lru' \in [Cmd -> 0..LruLimit]
        /\ \A d \in Cmd : lru'[d] # 0 => lru[d] # 0
        /\ seq' \in [Session -> Nat] /\ idles' \in Nat
        /\ active' \in [Session -> BOOLEAN]
    BY <1>0, <1>2 DEF Deactivate, TypeOK
  <2>3. TypeOK' /\ Remembered'
    BY <1>0, <2>1, <2>2 DEF TypeOK, Remembered
  <2> QED
    BY <1>1, <2>3 DEF IInv
<1>3. CASE Resume(s)
  <2>1. UNCHANGED <<pc, answer, held, keyQ, sessQ, live, lru, settledAck,
                   inFlight, final, seq, order, idxLoaded, idxFact, timeline,
                   crashes, idles, owned, runs>>
    BY <1>3 DEF Resume
  <2>2. ledger' \in [Cmd -> Ledger]
    BY <1>0, <1>3, SweptTyped DEF Resume
  <2>3. active' \in [Session -> BOOLEAN] /\ orphans' \subseteq Cmd
    BY <1>0, <1>3 DEF Resume, TypeOK
  <2>4. TypeOK' /\ Remembered'
    BY <1>0, <2>1, <2>2, <2>3 DEF TypeOK, Remembered
  <2> QED
    BY <1>1, <2>4 DEF IInv
<1> QED
  BY <1>2, <1>3

LEMMA CrashStep ==
  ASSUME ConstantsOK, IInv, Crash
  PROVE  IInv'
<1>0. TypeOK /\ LruLimit \in Nat
  BY DEF IInv, ConstantsOK
<1>1. \A r \in Req : pc'[r] \in {"new", "done", "lost"}
  BY DEF Crash
<1>2. pc' \in [Req -> PC]
  BY <1>0 DEF Crash, TypeOK, PC
<1>3. sessQ' = [s \in Session |-> <<>>] /\ keyQ' = [c \in Cmd |-> <<>>]
  BY DEF Crash
<1>4. KeyHolder' /\ KeyWaiter' /\ SessHolder' /\ SessWaiter' /\ Awaited'
  BY <1>1 DEF KeyHolder, KeyWaiter, SessHolder, SessWaiter, Awaited, Gated
<1>5. SessOwn'
  BY <1>3 DEF SessOwn
<1>6. UNCHANGED <<answer, final, order, ledger, timeline, idles, runs>>
  BY DEF Crash, diskVars
<1>7. /\ held' \in [Req -> Ack \cup {NoAck}]
      /\ keyQ' \in [Cmd -> Seq(Req)] /\ sessQ' \in [Session -> Seq(Req)]
      /\ inFlight' \subseteq Cmd
      /\ live' \in [Cmd -> Ack \cup {NoAck}]
      /\ lru' \in [Cmd -> 0..LruLimit]
      /\ settledAck' \in [Cmd -> Ack \cup {NoAck}]
      /\ seq' \in [Session -> Nat]
      /\ owned' \in [Cmd -> {"no", "queued", "leaving"}]
  BY <1>0 DEF Crash
<1>8. /\ active' \in [Session -> BOOLEAN]
      /\ idxLoaded' \in [Session -> BOOLEAN]
      /\ idxFact' \in [Cmd -> Ack \cup {NoAck}]
      /\ orphans' \subseteq Cmd /\ crashes' \in Nat
  BY <1>0 DEF Crash, TypeOK
<1>9. TypeOK'
  BY <1>0, <1>2, <1>6, <1>7, <1>8 DEF TypeOK
<1>10. Remembered'
  BY DEF Crash, Remembered
<1> QED
  BY <1>4, <1>5, <1>9, <1>10 DEF IInv, Gates, KeyGates, SessGates
-----------------------------------------------------------------------------
(* The theorems.                                                           *)

LEMMA InitIInv == ConstantsOK /\ Init => IInv
<1> SUFFICES ASSUME ConstantsOK, Init PROVE IInv
  OBVIOUS
<1>1. TypeOK
  BY DEF Init, TypeOK, PC, Answers, Ledger, ConstantsOK
<1>2. Gates
  BY DEF Init, Gates, KeyGates, SessGates, KeyHolder, KeyWaiter, SessHolder,
         SessWaiter, SessOwn, Gated
<1>3. Awaited /\ Remembered
  BY DEF Init, Awaited, Remembered
<1> QED
  BY <1>1, <1>2, <1>3 DEF IInv

LEMMA NextIInv == ConstantsOK /\ IInv /\ [Next]_vars => IInv'
<1> SUFFICES ASSUME ConstantsOK, IInv, [Next]_vars PROVE IInv'
  OBVIOUS
<1>1. ASSUME NEW r \in Req,
             Arrive(r) \/ Handle(r) \/ LookupFault(r) \/ Decide(r) \/ Execute(r)
      PROVE  IInv'
  BY <1>1, WaitStep, AnswerStep, AdmitStep, ExecuteStep DEF Handle, Decide
<1>2. ASSUME NEW c \in Cmd, Runtime(c)
      PROVE  IInv'
  BY <1>2, RuntimeStep
<1>3. ASSUME NEW s \in Session, Deactivate(s) \/ Resume(s)
      PROVE  IInv'
  BY <1>3, ResidencyStep
<1>4. ASSUME Crash
      PROVE  IInv'
  BY <1>4, CrashStep
<1>5. ASSUME UNCHANGED vars
      PROVE  IInv'
  <2> USE DEF reqVars, idxVars, diskVars, countVars, admVars, memVars, gateVars
  <2>1. Gates'
    BY <1>5, SameGates DEF IInv, vars
  <2>2. TypeOK' /\ Awaited' /\ Remembered'
    BY <1>5 DEF vars, IInv, TypeOK, Awaited, Remembered
  <2> QED
    BY <2>1, <2>2 DEF IInv
<1> QED
  BY <1>1, <1>2, <1>3, <1>4, <1>5 DEF Next

\* The inductive invariant holds of every reachable state.
THEOREM Invariance == Spec => []IInv
<1>1. Init => IInv
  BY InitIInv, ConstantsOK
<1>2. IInv /\ [Next]_vars => IInv'
  BY NextIInv, ConstantsOK
<1> QED
  BY <1>1, <1>2, PTL DEF Spec

\* Every variable of the admission path keeps its type; in particular the
\* settled table never holds more than LruLimit acks of a session's ranks.
THEOREM TypeCorrect == Spec => []TypeOK
<1>1. IInv => TypeOK
  BY DEF IInv
<1> QED
  BY <1>1, Invariance, PTL

\* A session executes one command at a time: the session gate is held from
\* admission to settle(), whatever else is delivered, evicted or restarted.
THEOREM SerialExecutionOfASession == Spec => []SessionSerial
<1>1. IInv => SessionSerial
  <2> SUFFICES ASSUME IInv, NEW q \in Req, NEW r \in Req,
                      pc[q] \in Executing, pc[r] \in Executing, S(q) = S(r)
               PROVE  q = r
    BY DEF SessionSerial
  <2>1. Holds(q, SessQ(q)) /\ Holds(r, SessQ(r))
    BY DEF IInv, Gates, SessGates, SessHolder, Gated, Executing
  <2> QED
    BY <2>1 DEF Holds, SessQ
<1> QED
  BY <1>1, Invariance, PTL
-----------------------------------------------------------------------------
(* Refinement.  What a session runs is the command of the one delivery of  *)
(* it that executes, so a step is read off who starts or stops executing.  *)

RunningIsExecuting ==
  /\ \A r \in Req : pc[r] \in Executing => Running(S(r)) = CmdOf[r]
  /\ \A s \in Session : \/ Running(s) = NoAck
                        \/ \E r \in Req : pc[r] \in Executing /\ S(r) = s

LEMMA RunningIs == IInv => RunningIsExecuting
<1> SUFFICES ASSUME IInv PROVE RunningIsExecuting
  OBVIOUS
<1>1. \A r \in Req : pc[r] \in Executing => Running(S(r)) = CmdOf[r]
  BY DEF IInv, Gates, SessGates, SessHolder, Gated, Executing, Holds, SessQ,
         Running
<1>2. ASSUME NEW s \in Session, Running(s) # NoAck
      PROVE  \E r \in Req : pc[r] \in Executing /\ S(r) = s
  <2>1. sessQ[s] # <<>> /\ pc[Head(sessQ[s])] \in Executing
    BY <1>2 DEF Running
  <2>2. /\ Head(sessQ[s]) \in Req /\ Head(sessQ[s]) = sessQ[s][1]
        /\ 1 \in 1..Len(sessQ[s])
    BY <2>1 DEF IInv, TypeOK
  <2>3. S(sessQ[s][1]) = s
    BY <2>2 DEF IInv, Gates, SessGates, SessOwn
  <2> QED
    BY <2>1, <2>2, <2>3
<1> QED
  BY <1>1, <1>2 DEF RunningIsExecuting

\* The delivery r is the only one to start or stop executing.
OnlyMover(r) ==
  \A q \in Req : q # r => (pc'[q] \in Executing <=> pc[q] \in Executing)

\* Other sessions run what they ran; so does r's when r changes nothing.
LEMMA OthersRun ==
  ASSUME ConstantsOK, IInv, IInv', NEW r \in Req, OnlyMover(r)
  PROVE  /\ \A s \in Session : s # S(r) => Running(s)' = Running(s)
         /\ (pc'[r] \in Executing <=> pc[r] \in Executing)
              => \A s \in Session : Running(s)' = Running(s)
<1>a. RunningIsExecuting
  BY RunningIs
<1>b. RunningIsExecuting'
  BY RunningIs, PTL
<1>1. ASSUME NEW s \in Session,
             \A q \in Req : S(q) = s =>
                (pc'[q] \in Executing <=> pc[q] \in Executing)
      PROVE  Running(s)' = Running(s)
  BY <1>1, <1>a, <1>b DEF RunningIsExecuting, S
<1> QED
  BY <1>1 DEF OnlyMover

\* Nothing of the abstract state changes.
LEMMA SerialStutter ==
  ASSUME ConstantsOK, IInv, IInv', NEW r \in Req, OnlyMover(r),
         pc'[r] \in Executing <=> pc[r] \in Executing, UNCHANGED runs
  PROVE  UNCHANGED <<[s \in Session |-> Running(s)], runs>>
  BY OthersRun

\* settle() ends what the session runs.
LEMMA SerialEnd ==
  ASSUME ConstantsOK, IInv, IInv', NEW r \in Req, OnlyMover(r),
         pc[r] \in Executing, pc'[r] \notin Executing, UNCHANGED runs
  PROVE  Serial!End(S(r))
<1>0. S(r) \in Session /\ CmdOf[r] \in Cmd
  BY DEF ConstantsOK, S
<1>1. Running(S(r)) = CmdOf[r] /\ Running(S(r)) # NoAck
  BY <1>0, RunningIs DEF RunningIsExecuting, ConstantsOK
<1>2. Running(S(r))' = NoAck
  <2>1. RunningIsExecuting'
    BY RunningIs, PTL
  <2>2. \A q \in Req : pc'[q] \in Executing => S(q) # S(r)
    <3> SUFFICES ASSUME NEW q \in Req, pc'[q] \in Executing, S(q) = S(r)
                 PROVE  FALSE
      OBVIOUS
    <3>1. q # r /\ pc[q] \in Executing
      BY DEF OnlyMover
    <3>2. Holds(q, SessQ(q)) /\ Holds(r, SessQ(r))
      BY <3>1 DEF IInv, Gates, SessGates, SessHolder, Gated, Executing
    <3> QED
      BY <3>1, <3>2 DEF Holds, SessQ
  <2> QED
    BY <1>0, <2>1, <2>2 DEF RunningIsExecuting, S
<1>3. \A s \in Session : s # S(r) => Running(s)' = Running(s)
  BY OthersRun
<1> QED
  BY <1>0, <1>1, <1>2, <1>3 DEF Serial!End

\* Admission begins a command in a session that runs none.
LEMMA SerialBegin ==
  ASSUME ConstantsOK, IInv, IInv', NEW r \in Req, Admit(r)
  PROVE  Serial!Begin(CmdOf[r])
<1>0. /\ S(r) \in Session /\ pc[r] = "relookup" /\ pc'[r] = "admitted"
      /\ OnlyMover(r) /\ UNCHANGED runs
  BY DEF ConstantsOK, S, Admit, IInv, TypeOK, OnlyMover
<1>1. Running(S(r)) = NoAck
  <2>1. Holds(r, SessQ(r)) /\ pc[r] \notin Executing
    BY <1>0 DEF IInv, Gates, SessGates, SessHolder, Gated, Executing
  <2> QED
    BY <2>1 DEF Running, Holds, SessQ
<1>2. Running(S(r))' = CmdOf[r]
  <2>1. RunningIsExecuting'
    BY RunningIs, PTL
  <2> QED
    BY <1>0, <2>1 DEF RunningIsExecuting, S, Executing
<1>3. \A s \in Session : s # S(r) => Running(s)' = Running(s)
  BY <1>0, OthersRun
<1> QED
  BY <1>0, <1>1, <1>2, <1>3 DEF Serial!Begin, S

\* executeCommand is called for the command the session runs.
LEMMA SerialRun ==
  ASSUME ConstantsOK, IInv, IInv', NEW r \in Req, StartExecute(r)
  PROVE  Serial!Run(CmdOf[r])
<1>0. /\ S(r) \in Session /\ pc[r] \in Executing /\ pc'[r] \in Executing
      /\ OnlyMover(r) /\ runs' = [runs EXCEPT ![CmdOf[r]] = @ + 1]
  BY DEF ConstantsOK, S, StartExecute, IInv, TypeOK, OnlyMover, Executing
<1>1. \A s \in Session : Running(s)' = Running(s)
  BY <1>0, OthersRun
<1>2. Running(S(r)) = CmdOf[r]
  BY <1>0, RunningIs DEF RunningIsExecuting
<1> QED
  BY <1>0, <1>1, <1>2 DEF Serial!Run, S

\* Every step of the admission path is a step of SerialExecution or none.
LEMMA StepRefines ==
  ASSUME ConstantsOK, IInv, IInv', [Next]_vars
  PROVE  [Serial!Next]_<<[s \in Session |-> Running(s)], runs>>
<1> USE DEF reqVars, idxVars, diskVars, countVars, admVars, memVars, gateVars
<1>t. pc \in [Req -> PC]
  BY DEF IInv, TypeOK
<1>1. ASSUME NEW r \in Req, Arrive(r) \/ Handle(r) \/ LookupFault(r) \/ Reject(r)
      PROVE  UNCHANGED <<[s \in Session |-> Running(s)], runs>>
  <2>1. /\ OnlyMover(r) /\ UNCHANGED runs
        /\ pc'[r] \notin Executing /\ pc[r] \notin Executing
    BY <1>1, <1>t
       DEF Arrive, Handle, JoinInFlight, AwaitFinal, ReplyFromMemory,
           StartLookup, LookupHit, LookupFault, QueryMiss, WaitForSession,
           Reject, Reply, OnlyMover, Executing, AtKeyGate, AtSessionGate
  <2> QED
    BY <2>1, SerialStutter
<1>2. ASSUME NEW r \in Req, Admit(r)
      PROVE  Serial!Next
  BY <1>2, SerialBegin DEF Serial!Next, ConstantsOK
<1>3. ASSUME NEW r \in Req, StartExecute(r)
      PROVE  Serial!Next
  BY <1>3, SerialRun DEF Serial!Next, ConstantsOK
<1>4. ASSUME NEW r \in Req, HandOff(r) \/ ExecuteFault(r)
      PROVE  UNCHANGED <<[s \in Session |-> Running(s)], runs>>
  <2>1. /\ OnlyMover(r) /\ UNCHANGED runs
        /\ pc'[r] \in Executing /\ pc[r] \in Executing
    BY <1>4, <1>t DEF HandOff, ExecuteFault, OnlyMover, Executing
  <2> QED
    BY <2>1, SerialStutter
<1>5. ASSUME NEW r \in Req,
             AdmitFault(r) \/ ExecuteOk(r) \/ SettleExecuteFault(r)
      PROVE  Serial!Next
  <2>1. /\ OnlyMover(r) /\ UNCHANGED runs
        /\ pc'[r] \notin Executing /\ pc[r] \in Executing
    BY <1>5, <1>t DEF AdmitFault, ExecuteOk, SettleExecuteFault, SettleFault,
                      Settle, Reply, OnlyMover, Executing
  <2> QED
    BY <2>1, SerialEnd DEF Serial!Next, ConstantsOK, S
<1>6. ASSUME UNCHANGED <<pc, sessQ, runs>>
      PROVE  UNCHANGED <<[s \in Session |-> Running(s)], runs>>
  BY <1>6 DEF Running
<1>7. ASSUME Crash
      PROVE  Serial!Next
  <2>1. \A s \in Session : Running(s)' = NoAck
    BY <1>7 DEF Crash, Running
  <2> QED
    BY <1>7, <2>1 DEF Crash, Serial!Next, Serial!Crash
<1>8. ASSUME NEW c \in Cmd, Runtime(c)
      PROVE  UNCHANGED <<pc, sessQ, runs>>
  BY <1>8 DEF Runtime, Promote, EndUnpersisted, RemoveByUser, ReleaseLiveInput, FinishCompact
<1>9. ASSUME NEW s \in Session, Deactivate(s) \/ Resume(s)
      PROVE  UNCHANGED <<pc, sessQ, runs>>
  BY <1>9 DEF Deactivate, Resume
<1> QED
  BY <1>1, <1>2, <1>3, <1>4, <1>5, <1>6, <1>7, <1>8, <1>9
     DEF Next, Decide, Execute, vars

\* Command admission with its gates, promises, tables and crashes implements
\* the serial execution of a session's commands.
THEOREM AdmissionIsSerial == Spec => ImplementsSerial
<1>1. Init => Serial!Init
  BY DEF Init, Running, Serial!Init
<1>2. IInv /\ IInv' /\ [Next]_vars
        => [Serial!Next]_<<[s \in Session |-> Running(s)], runs>>
  BY StepRefines, ConstantsOK
<1> QED
  BY <1>1, <1>2, Invariance, PTL DEF Spec, ImplementsSerial, Serial!Spec

-----------------------------------------------------------------------------
(* The life of a command: in flight, pinned, recorded, left by a crash.     *)

Pin(c) == c \in inFlight \/ live[c] # NoAck

\* Nothing the process or the store remembers speaks against running c.
Untouched(c) == live[c] = NoAck /\ ~Recorded(c) /\ c \notin orphans
\* A delivery that has found nothing, up to the call of executeCommand.
NotYet(r) == pc[r] = "admitted" \/ (pc[r] \in {"lookup", "relookup"} /\ held[r] = NoAck)

\* A command that executes is in flight; a delivery that looks its key up
\* keeps anybody else from admitting it.
InFlight ==
  \A r \in Req : /\ pc[r] \in Executing => CmdOf[r] \in inFlight
                 /\ pc[r] \in {"lookup", "sessWait", "relookup"} => CmdOf[r] \notin inFlight
\* A pinned command belongs to a resident session, whose counter is not
\* behind its number.
PinnedOk ==
  \A c \in Cmd : Pin(c) => active[SessOf[c]] /\ order[c] <= seq[SessOf[c]]
\* What the runtime owns is pinned, and what is pinned is no orphan.
LiveOk ==
  \A c \in Cmd : /\ owned[c] # "no" => live[c] # NoAck
                 /\ live[c] # NoAck => c \notin orphans
Fresh == \A r \in Req : NotYet(r) => Untouched(CmdOf[r])
\* While the handler runs nothing is recorded of its command.
InHand ==
  \A r \in Req : pc[r] \in {"running", "cancelling"} =>
     ~Recorded(CmdOf[r]) /\ owned[CmdOf[r]] = "no" /\ CmdOf[r] \notin orphans
     /\ (CmdOf[r] \in Inputs => live[CmdOf[r]] # NoAck)
\* What a loaded index does not know is neither recorded nor an orphan, unless
\* it is pinned: the pin goes only with the index.
Indexed ==
  \A c \in Cmd : idxLoaded[SessOf[c]] /\ idxFact[c] = NoAck /\ live[c] = NoAck
                 => ~Recorded(c) /\ c \notin orphans
\* An orphan of a resident session has been swept.
Orphaned ==
  \A c \in orphans : /\ ledger[c] \in {"admitted", "discarded"}
                     /\ active[SessOf[c]] => ledger[c] = "discarded"

LifeInv ==
  /\ InFlight /\ PinnedOk /\ PinnedInOrder /\ LiveOk /\ Fresh /\ InHand
  /\ Indexed /\ Orphaned

\* What the types and the gates say of one command and its deliveries.
LEMMA LifeTypes ==
  ASSUME ConstantsOK, IInv
  PROVE  /\ pc \in [Req -> PC] /\ held \in [Req -> Ack \cup {NoAck}]
         /\ ledger \in [Cmd -> Ledger] /\ live \in [Cmd -> Ack \cup {NoAck}]
         /\ owned \in [Cmd -> {"no", "queued", "leaving"}] /\ active \in [Session -> BOOLEAN]
         /\ idxLoaded \in [Session -> BOOLEAN] /\ idxFact \in [Cmd -> Ack \cup {NoAck}]
         /\ seq \in [Session -> Nat] /\ order \in [Cmd -> Nat]
         /\ inFlight \subseteq Cmd /\ orphans \subseteq Cmd /\ NoAck \notin Ack
         /\ \A r \in Req : CmdOf[r] \in Cmd
         /\ \A c \in Cmd : SessOf[c] \in Session
BY DEF ConstantsOK, IInv, TypeOK, Ack

\* Two deliveries of a session do not execute at once, and of two deliveries
\* of one key only one is past its gate.
LEMMA Alone ==
  ASSUME ConstantsOK, IInv, NEW q \in Req, NEW r \in Req, q # r
  PROVE  /\ pc[q] \in Executing /\ pc[r] \in Executing => S(q) # S(r) /\ CmdOf[q] # CmdOf[r]
         /\ pc[q] \in {"await", "lookup", "sessWait", "relookup"}
              /\ pc[r] \in {"await", "lookup", "sessWait", "relookup"} => CmdOf[q] # CmdOf[r]
<1>1. ASSUME pc[q] \in Executing, pc[r] \in Executing, S(q) = S(r) PROVE FALSE
  <2>1. Holds(q, SessQ(q)) /\ Holds(r, SessQ(r))
    BY <1>1 DEF IInv, Gates, SessGates, SessHolder, Gated, Executing
  <2> QED
    BY <1>1, <2>1 DEF Holds, SessQ
<1>2. ASSUME pc[q] \in {"await", "lookup", "sessWait", "relookup"},
             pc[r] \in {"await", "lookup", "sessWait", "relookup"}, CmdOf[q] = CmdOf[r]
      PROVE  FALSE
  <2>1. Holds(q, KeyQ(q)) /\ Holds(r, KeyQ(r))
    BY <1>2 DEF IInv, Gates, KeyGates, KeyHolder
  <2> QED
    BY <1>2, <2>1 DEF Holds, KeyQ
<1> QED
  BY <1>1, <1>2 DEF S

lifeVars == <<inFlight, live, seq, order, owned, active, idxLoaded, idxFact,
              ledger, timeline, orphans>>

\* A delivery moves on and what is known of the commands stays.
LEMMA MoveKeepsLife ==
  ASSUME ConstantsOK, IInv, LifeInv, NEW r \in Req, NEW p, pc' = [pc EXCEPT ![r] = p],
         \A q \in Req : q # r => held'[q] = held[q], UNCHANGED lifeVars,
         p \notin Executing, p \notin {"lookup", "relookup"},
         p = "sessWait" => CmdOf[r] \notin inFlight
  PROVE  LifeInv'
<1>0. /\ pc \in [Req -> PC] /\ UNCHANGED <<inFlight, live, seq, order, owned, active>>
      /\ UNCHANGED <<idxLoaded, idxFact, ledger, timeline, orphans>>
      /\ \A q \in Req : q # r => pc'[q] = pc[q]
      /\ pc'[r] = p
  BY LifeTypes DEF lifeVars
<1>1. InFlight'
  BY <1>0 DEF LifeInv, InFlight
<1>2. PinnedOk' /\ PinnedInOrder' /\ LiveOk' /\ Orphaned' /\ Indexed'
  BY <1>0 DEF LifeInv, PinnedOk, Pin, PinnedInOrder, LiveOk, Orphaned, Indexed, Recorded
<1>3. Fresh'
  BY <1>0 DEF LifeInv, Fresh, NotYet, Untouched, Recorded, Executing
<1>4. InHand'
  BY <1>0 DEF LifeInv, InHand, Recorded, Executing
<1> QED
  BY <1>1, <1>2, <1>3, <1>4 DEF LifeInv

\* Steps of a delivery up to its admission that touch no command.
LEMMA WaitKeepsLife ==
  ASSUME ConstantsOK, IInv, LifeInv, NEW r \in Req,
         \/ Arrive(r) \/ JoinInFlight(r) \/ AwaitFinal(r) \/ ReplyFromMemory(r) \/ LookupHit(r)
         \/ QueryMiss(r) \/ WaitForSession(r) \/ Reject(r)
  PROVE  LifeInv'
<1> USE DEF lifeVars, memVars, admVars, idxVars, diskVars, countVars
<1>1. CASE Arrive(r) \/ JoinInFlight(r)
  <2>1. UNCHANGED <<lifeVars, held>>
    BY <1>1 DEF Arrive, JoinInFlight
  <2>2. pc' = [pc EXCEPT ![r] = "keyWait"] \/ pc' = [pc EXCEPT ![r] = "await"]
    BY <1>1 DEF Arrive, JoinInFlight
  <2> QED
    BY <2>1, <2>2, MoveKeepsLife DEF Executing
<1>2. CASE AwaitFinal(r) \/ ReplyFromMemory(r) \/ LookupHit(r) \/ QueryMiss(r) \/ Reject(r)
  <2>1. UNCHANGED lifeVars
    BY <1>2 DEF AwaitFinal, ReplyFromMemory, LookupHit, QueryMiss, Reject
  <2>2. pc' = [pc EXCEPT ![r] = "done"] /\ held' = [held EXCEPT ![r] = NoAck]
    BY <1>2 DEF AwaitFinal, ReplyFromMemory, LookupHit, QueryMiss, Reject, Reply
  <2>3. \A q \in Req : q # r => held'[q] = held[q]
    BY <2>2, LifeTypes
  <2> QED
    BY ZenonT(40), <2>1, <2>2, <2>3, MoveKeepsLife DEF Executing
<1>3. CASE WaitForSession(r)
  <2>1. /\ CmdOf[r] \notin inFlight /\ UNCHANGED <<lifeVars, held>>
        /\ pc' = [pc EXCEPT ![r] = "sessWait"]
    BY <1>3 DEF WaitForSession, LifeInv, InFlight
  <2> QED
    BY <2>1, MoveKeepsLife DEF Executing
<1> QED
  BY <1>1, <1>2, <1>3

-----------------------------------------------------------------------------
(* Sweeps and loads.                                                       *)

\* A sweep settles admitted rows only: nothing is recorded by it.
LEMMA SweptIs ==
  ASSUME ledger \in [Cmd -> Ledger], NEW s, NEW rows \in SUBSET Admitted(s),
         NEW led, led = Swept(rows), NEW c \in Cmd
  PROVE  /\ led[c] = ledger[c] \/ (ledger[c] = "admitted" /\ led[c] = "discarded")
         /\ c \in rows => led[c] = "discarded"
         /\ led[c] \in {"promoted", "removed"} <=> ledger[c] \in {"promoted", "removed"}
BY DEF Swept, Admitted

\* What a load makes of a command it has no fact for.
LEMMA UnknownFact ==
  ASSUME ConstantsOK, NEW led \in [Cmd -> Ledger], NEW c \in Cmd, DurableFact(led, c) = NoAck
  PROVE  c \notin timeline /\ led[c] \in {"none", "admitted"}
<1>1. NoAck # "accepted" /\ NoAck # "failed" /\ led[c] \in Ledger
  BY DEF ConstantsOK
<1> QED
  BY <1>1 DEF DurableFact, Ledger

\* A sweep of a session without a runtime, as far as it got.
LEMMA SweepKeeps ==
  ASSUME ConstantsOK, IInv, LifeInv, NEW s \in Session, ~active[s], NEW rows \in SUBSET Admitted(s),
         ledger' = Swept(rows) \/ UNCHANGED ledger,
         UNCHANGED <<inFlight, live, seq, order, owned, active, timeline, orphans>>
  PROVE  /\ PinnedOk' /\ PinnedInOrder' /\ LiveOk' /\ Orphaned'
         /\ \A c \in Cmd : Recorded(c)' <=> Recorded(c)
         /\ \A c \in Cmd : Untouched(c) => Untouched(c)'
<1>0. ledger \in [Cmd -> Ledger] /\ orphans \subseteq Cmd
  BY LifeTypes
<1>1. \A c \in Cmd : /\ ledger'[c] = ledger[c] \/ (ledger[c] = "admitted" /\ ledger'[c] = "discarded")
                     /\ ledger'[c] \in {"promoted", "removed"} <=> ledger[c] \in {"promoted", "removed"}
  BY <1>0, SweptIs
<1>2. \A c \in Cmd : Recorded(c)' <=> Recorded(c)
  BY <1>1 DEF Recorded
<1>3. PinnedOk' /\ PinnedInOrder' /\ LiveOk'
  BY DEF LifeInv, PinnedOk, Pin, PinnedInOrder, LiveOk
<1>4. Orphaned'
  BY <1>0, <1>1 DEF LifeInv, Orphaned
<1> QED
  BY <1>2, <1>3, <1>4 DEF Untouched

LEMMA FaultyLoadKeeps ==
  ASSUME ConstantsOK, IInv, LifeInv, NEW r \in Req, LookupFault(r)
  PROVE  LifeInv'
<1> USE DEF memVars, admVars, idxVars, countVars
<1>1. /\ pc' = [pc EXCEPT ![r] = "done"] /\ held' = [held EXCEPT ![r] = NoAck]
      /\ UNCHANGED <<inFlight, live, seq, order, owned, active, idxLoaded, idxFact, timeline, orphans>>
      /\ S(r) \in Session
  BY LifeTypes DEF LookupFault, Reply, S
<1>2. PICK rows \in SUBSET Admitted(S(r)) :
         (ledger' = Swept(rows) /\ ~active[S(r)]) \/ UNCHANGED ledger
  BY DEF LookupFault
<1>3. CASE UNCHANGED ledger
  <2>1. \A q \in Req : q # r => held'[q] = held[q]
    BY <1>1, LifeTypes
  <2> QED
    BY ZenonT(40), <1>1, <1>3, <2>1, MoveKeepsLife DEF lifeVars, Executing
<1>4. CASE ledger' = Swept(rows) /\ ~active[S(r)]
  <2>1. /\ PinnedOk' /\ PinnedInOrder' /\ LiveOk' /\ Orphaned'
        /\ \A c \in Cmd : Recorded(c)' <=> Recorded(c)
        /\ \A c \in Cmd : Untouched(c) => Untouched(c)'
    BY <1>1, <1>4, SweepKeeps
  <2>2. \A q \in Req : pc'[q] = IF q = r THEN "done" ELSE pc[q]
    BY <1>1, LifeTypes
  <2>3. InFlight'
    BY <1>1, <2>2 DEF LifeInv, InFlight, Executing
  <2>4. Fresh'
    <3>1. \A q \in Req : NotYet(q)' => NotYet(q)
      BY <1>1, <2>2, LifeTypes DEF NotYet
    <3> QED
      BY <2>1, <3>1, LifeTypes DEF LifeInv, Fresh
  <2>5. InHand'
    BY <1>1, <2>1, <2>2, LifeTypes DEF LifeInv, InHand
  <2>6. Indexed'
    BY <1>1, <2>1 DEF LifeInv, Indexed
  <2> QED
    BY <2>1, <2>3, <2>4, <2>5, <2>6 DEF LifeInv
<1> QED
  BY <1>2, <1>3, <1>4

\* A load that succeeds knows everything that was recorded of the session, and
\* whatever it does not know was never left behind by a crash.
LEMMA LoadKeeps ==
  ASSUME ConstantsOK, IInv, LifeInv, NEW s \in Session, EnsureIndex(s),
         UNCHANGED <<inFlight, live, seq, order, owned, active, timeline, orphans>>
  PROVE  /\ PinnedOk' /\ PinnedInOrder' /\ LiveOk' /\ Orphaned' /\ Indexed'
         /\ \A c \in Cmd : Recorded(c)' <=> Recorded(c)
         /\ \A c \in Cmd : Untouched(c) => Untouched(c)'
         /\ idxLoaded'[s]
<1>0. /\ ledger \in [Cmd -> Ledger] /\ idxLoaded \in [Session -> BOOLEAN] /\ orphans \subseteq Cmd
      /\ \A c \in Cmd : SessOf[c] \in Session
  BY LifeTypes
<1>1. CASE idxLoaded[s]
  <2>1. UNCHANGED <<idxLoaded, idxFact, ledger>>
    BY <1>1 DEF EnsureIndex, idxVars
  <2> QED
    BY <1>1, <2>1 DEF LifeInv, PinnedOk, Pin, PinnedInOrder, LiveOk, Orphaned, Indexed, Recorded, Untouched
<1>2. CASE ~idxLoaded[s]
  <2>1. PICK led : led = IF active[s] THEN ledger ELSE Swept(Admitted(s))
    OBVIOUS
  <2>2. /\ ledger' = led /\ idxLoaded' = [idxLoaded EXCEPT ![s] = TRUE]
        /\ idxFact' = [c \in Cmd |-> IF SessOf[c] = s THEN DurableFact(led, c) ELSE idxFact[c]]
    BY <1>2, <2>1 DEF EnsureIndex
  <2>3. led \in [Cmd -> Ledger]
    BY <1>0, <2>1, SweptTyped DEF IInv
  <2>4. /\ PinnedOk' /\ PinnedInOrder' /\ LiveOk' /\ Orphaned'
        /\ \A c \in Cmd : Recorded(c)' <=> Recorded(c)
        /\ \A c \in Cmd : Untouched(c) => Untouched(c)'
    <3>1. CASE active[s]
      BY <2>1, <2>2, <3>1 DEF LifeInv, PinnedOk, Pin, PinnedInOrder, LiveOk, Orphaned, Recorded, Untouched
    <3>2. CASE ~active[s]
      BY <2>1, <2>2, <3>2, SweepKeeps
    <3> QED
      BY <3>1, <3>2
  <2>5. ASSUME NEW c \in Cmd, idxLoaded'[SessOf[c]], idxFact'[c] = NoAck, live'[c] = NoAck
        PROVE  ~Recorded(c)' /\ c \notin orphans'
    <3>1. CASE SessOf[c] = s
      <4>1. DurableFact(led, c) = NoAck
        BY <2>2, <2>5, <3>1
      <4>2. c \notin timeline /\ led[c] \in {"none", "admitted"}
        BY <2>3, <4>1, UnknownFact
      <4>3. ~Recorded(c)'
        BY <2>2, <4>2 DEF Recorded
      <4>4. ASSUME ~active[s] PROVE led[c] # "admitted"
        <5>1. led = Swept(Admitted(s))
          BY <2>1, <4>4
        <5> QED
          BY <3>1, <5>1 DEF Swept, Admitted
      <4>5. c \notin orphans
        <5>1. led[c] = ledger'[c] /\ (c \in orphans' => ledger'[c] \in {"admitted", "discarded"}
                 /\ (active[s] => ledger'[c] = "discarded"))
          BY <2>2, <2>4, <3>1 DEF Orphaned
        <5> QED
          BY <4>2, <4>4, <5>1
      <4> QED
        BY <4>3, <4>5
    <3>2. CASE SessOf[c] # s
      BY <1>0, <2>2, <2>4, <2>5, <3>2 DEF LifeInv, Indexed
    <3> QED
      BY <3>1, <3>2
  <2>6. idxLoaded'[s]
    BY <1>0, <2>2
  <2> QED
    BY <2>4, <2>5, <2>6 DEF Indexed
<1> QED
  BY <1>1, <1>2

LEMMA LookupKeeps ==
  ASSUME ConstantsOK, IInv, LifeInv, NEW r \in Req, StartLookup(r)
  PROVE  LifeInv'
<1> USE DEF memVars, admVars, countVars
<1>1. /\ EnsureIndex(S(r)) /\ CmdOf[r] \notin inFlight /\ live[CmdOf[r]] = NoAck
      /\ UNCHANGED <<inFlight, live, seq, order, owned, active, timeline, orphans>>
      /\ S(r) \in Session /\ S(r) = SessOf[CmdOf[r]] /\ CmdOf[r] \in Cmd
  BY LifeTypes DEF StartLookup, S
<1>2. /\ PinnedOk' /\ PinnedInOrder' /\ LiveOk' /\ Orphaned' /\ Indexed'
      /\ \A c \in Cmd : Recorded(c)' <=> Recorded(c)
      /\ \A c \in Cmd : Untouched(c) => Untouched(c)'
      /\ idxLoaded'[S(r)]
  BY <1>1, LoadKeeps
<1>3. /\ \A q \in Req : q # r => pc'[q] = pc[q] /\ held'[q] = held[q]
      /\ pc'[r] \in {"lookup", "relookup"} /\ held'[r] = idxFact'[CmdOf[r]]
  BY LifeTypes DEF StartLookup
<1>4. InFlight'
  BY <1>1, <1>3 DEF LifeInv, InFlight, Executing
<1>5. Fresh'
  <2>1. ASSUME held'[r] = NoAck PROVE Untouched(CmdOf[r])'
    BY <1>1, <1>2, <1>3, <2>1 DEF Indexed, Untouched
  <2>2. \A q \in Req : q # r /\ NotYet(q)' => NotYet(q)
    BY <1>3 DEF NotYet
  <2>3. NotYet(r)' => held'[r] = NoAck
    BY <1>3 DEF NotYet
  <2> QED
    BY <1>2, <2>1, <2>2, <2>3, LifeTypes DEF LifeInv, Fresh
<1>6. InHand'
  BY <1>1, <1>2, <1>3, LifeTypes DEF LifeInv, InHand
<1> QED
  BY <1>2, <1>4, <1>5, <1>6 DEF LifeInv

-----------------------------------------------------------------------------
(* Admission and execution.                                                *)

LEMMA AdmitKeeps ==
  ASSUME ConstantsOK, IInv, LifeInv, NEW r \in Req, Admit(r)
  PROVE  LifeInv'
<1> DEFINE c == CmdOf[r]
<1> USE DEF memVars, idxVars, diskVars, countVars
<1>1. /\ pc[r] = "relookup" /\ held[r] = NoAck /\ active[SessOf[c]]
      /\ UNCHANGED <<held, live, owned, active, idxLoaded, idxFact, ledger, timeline, orphans>>
      /\ inFlight' = inFlight \cup {c} /\ c \in Cmd /\ SessOf[c] \in Session
      /\ Untouched(c)
  BY LifeTypes DEF Admit, S, LifeInv, Fresh, NotYet
<1>2. \A q \in Req : pc'[q] = IF q = r THEN "admitted" ELSE pc[q]
  BY LifeTypes DEF Admit
<1>3. PICK n \in Nat : n = seq[SessOf[c]]
  BY <1>1, LifeTypes
<1>4. /\ \A d \in Cmd : order'[d] = IF d = c THEN n + 1 ELSE order[d]
      /\ \A s \in Session : seq'[s] = IF s = SessOf[c] THEN n + 1 ELSE seq[s]
  <2>1. seq' = [seq EXCEPT ![SessOf[c]] = n + 1]
    BY <1>3 DEF Admit, S
  <2>2. order' = [order EXCEPT ![c] = n + 1]
    BY <1>1, <2>1, LifeTypes DEF Admit, S
  <2> QED
    BY <2>1, <2>2, LifeTypes
<1>5. \A d \in Cmd : d # c => (Pin(d)' <=> Pin(d))
  BY <1>1 DEF Pin
<1>6. InFlight'
  <2>1. ASSUME NEW q \in Req, pc'[q] \in {"lookup", "sessWait", "relookup"}
        PROVE  CmdOf[q] \notin inFlight'
    <3>1. q # r /\ pc[q] \in {"lookup", "sessWait", "relookup"}
      BY <1>2, <2>1
    <3>2. CmdOf[q] # c
      BY <1>1, <3>1, Alone
    <3> QED
      BY <1>1, <3>1, <3>2 DEF LifeInv, InFlight
  <2>2. ASSUME NEW q \in Req, pc'[q] \in Executing PROVE CmdOf[q] \in inFlight'
    BY <1>1, <1>2, <2>2 DEF LifeInv, InFlight
  <2> QED
    BY <2>1, <2>2 DEF InFlight
<1>7. PinnedOk'
  <2>1. ASSUME NEW d \in Cmd, Pin(d)' PROVE active'[SessOf[d]] /\ order'[d] <= seq'[SessOf[d]]
    <3>1. CASE d = c
      BY <1>1, <1>3, <1>4, <3>1
    <3>2. CASE d # c
      <4>1. active[SessOf[d]] /\ order[d] <= seq[SessOf[d]] /\ order[d] \in Nat /\ SessOf[d] \in Session
        BY <1>5, <2>1, <3>2, LifeTypes DEF LifeInv, PinnedOk
      <4> QED
        BY <1>1, <1>3, <1>4, <3>2, <4>1
    <3> QED
      BY <3>1, <3>2
  <2> QED
    BY <2>1 DEF PinnedOk
<1>8. PinnedInOrder'
  <2>1. ASSUME NEW d \in Cmd, d # c, SessOf[d] = SessOf[c], Pin(d)' PROVE order'[d] < order'[c]
    <3>1. order[d] <= n /\ order[d] \in Nat
      BY <1>3, <1>5, <2>1, LifeTypes DEF LifeInv, PinnedOk
    <3> QED
      BY <1>1, <1>3, <1>4, <2>1, <3>1
  <2>2. \A d \in Cmd : order'[d] \in Nat
    BY <1>3, <1>4, LifeTypes
  <2>3. ASSUME NEW d \in Cmd, NEW e \in Cmd, d # e, SessOf[d] = SessOf[e], Pin(d)', Pin(e)'
        PROVE  order'[d] # order'[e]
    <3>1. CASE d = c
      BY <1>1, <2>1, <2>2, <2>3, <3>1
    <3>2. CASE e = c
      BY <1>1, <2>1, <2>2, <2>3, <3>2
    <3>3. CASE d # c /\ e # c
      BY <1>4, <1>5, <2>3, <3>3 DEF LifeInv, PinnedInOrder, Pin
    <3> QED
      BY <3>1, <3>2, <3>3
  <2> QED
    BY <2>3 DEF PinnedInOrder, Pin
<1>9. LiveOk' /\ Indexed' /\ Orphaned'
  BY <1>1 DEF LifeInv, LiveOk, Indexed, Orphaned, Recorded
<1>10. Fresh'
  BY <1>1, <1>2 DEF LifeInv, Fresh, NotYet, Untouched, Recorded
<1>11. InHand'
  BY <1>1, <1>2 DEF LifeInv, InHand, Recorded
<1> QED
  BY <1>6, <1>7, <1>8, <1>9, <1>10, <1>11 DEF LifeInv

\* The command whose handler runs is nobody else's: not looked up, not
\* admitted by another delivery.
LEMMA Mine ==
  ASSUME ConstantsOK, IInv, LifeInv, NEW r \in Req, pc[r] \in Executing, NEW q \in Req, q # r,
         NotYet(q) \/ pc[q] \in Executing
  PROVE  CmdOf[q] # CmdOf[r]
BY Alone DEF LifeInv, InFlight, NotYet, Executing

LEMMA ExecutionStarts ==
  ASSUME ConstantsOK, IInv, LifeInv, NEW r \in Req, StartExecute(r)
  PROVE  LifeInv'
<1> DEFINE c == CmdOf[r]
<1> USE DEF memVars, admVars, idxVars
<1>1. /\ pc[r] = "admitted" /\ c \in inFlight /\ c \in Cmd
      /\ UNCHANGED <<held, inFlight, seq, order, owned, active, idxLoaded, idxFact, timeline>>
      /\ orphans' = orphans \ {c} /\ Untouched(c) /\ owned[c] = "no"
      /\ NoAck # "accepted"
  BY LifeTypes DEF StartExecute, LifeInv, Fresh, NotYet, InFlight, Executing, LiveOk, Untouched, Ack
<1>2. \A q \in Req : pc'[q] = IF q = r THEN "running" ELSE pc[q]
  BY LifeTypes DEF StartExecute
<1>3. /\ \A d \in Cmd : d # c => live'[d] = live[d] /\ ledger'[d] = ledger[d]
      /\ c \in Inputs => live'[c] = "accepted"
      /\ c \notin Inputs => live'[c] = live[c]
      /\ ledger'[c] = ledger[c] \/ ledger'[c] = "admitted"
  BY LifeTypes DEF StartExecute
<1>4. ~Recorded(c)'
  BY <1>1, <1>3 DEF Untouched, Recorded
<1>5. \A d \in Cmd : d # c => (Recorded(d)' <=> Recorded(d)) /\ (Untouched(d) => Untouched(d)')
  BY <1>1, <1>3 DEF Recorded, Untouched
<1>6. InFlight'
  BY <1>1, <1>2 DEF LifeInv, InFlight, Executing
<1>7. \A d \in Cmd : Pin(d)' <=> Pin(d)
  BY <1>1, <1>3 DEF Pin
<1>8. PinnedOk'
  BY <1>1, <1>7 DEF LifeInv, PinnedOk
<1>9. PinnedInOrder'
  BY <1>1, <1>7 DEF LifeInv, PinnedInOrder, Pin
<1>10. LiveOk'
  BY <1>1, <1>3 DEF LifeInv, LiveOk
<1>11. Fresh'
  <2>1. \A q \in Req : NotYet(q)' => NotYet(q) /\ q # r
    BY <1>1, <1>2 DEF NotYet
  <2>2. \A q \in Req : NotYet(q)' => CmdOf[q] # c
    BY <1>1, <2>1, Mine DEF Executing
  <2> QED
    BY <1>5, <2>1, <2>2, LifeTypes DEF LifeInv, Fresh
<1>12. InHand'
  <2>1. ASSUME NEW q \in Req, q # r, pc[q] \in {"running", "cancelling"} PROVE CmdOf[q] # c
    BY <1>1, <2>1, Mine DEF Executing
  <2> QED
    BY <1>1, <1>2, <1>3, <1>4, <1>5, <2>1, LifeTypes DEF LifeInv, InHand
<1>13. Indexed'
  BY <1>1, <1>3, <1>4, <1>5 DEF LifeInv, Indexed
<1>14. Orphaned'
  BY <1>1, <1>3, LifeTypes DEF LifeInv, Orphaned
<1> QED
  BY <1>6, <1>8, <1>9, <1>10, <1>11, <1>12, <1>13, <1>14 DEF LifeInv

LEMMA HandOffKeeps ==
  ASSUME ConstantsOK, IInv, LifeInv, NEW r \in Req, HandOff(r)
  PROVE  LifeInv'
<1> DEFINE c == CmdOf[r]
<1> USE DEF memVars, admVars, idxVars, diskVars, countVars
<1>1. /\ pc[r] = "running" /\ c \in Cmd /\ live[c] # NoAck
      /\ UNCHANGED <<held, inFlight, live, seq, order, active, idxLoaded, idxFact>>
      /\ UNCHANGED <<ledger, timeline, orphans>>
  BY LifeTypes DEF HandOff, LifeInv, InHand
<1>2. \A q \in Req : pc'[q] = IF q = r THEN "handed" ELSE pc[q]
  BY LifeTypes DEF HandOff
<1>3. \A d \in Cmd : d # c => owned'[d] = owned[d]
  BY LifeTypes DEF HandOff
<1>4. InFlight'
  BY <1>1, <1>2 DEF LifeInv, InFlight, Executing
<1>5. PinnedOk' /\ PinnedInOrder' /\ Indexed' /\ Orphaned'
  BY <1>1 DEF LifeInv, PinnedOk, Pin, PinnedInOrder, Indexed, Orphaned, Recorded
<1>6. LiveOk'
  BY <1>1, <1>3 DEF LifeInv, LiveOk
<1>7. Fresh'
  BY <1>1, <1>2 DEF LifeInv, Fresh, NotYet, Untouched, Recorded
<1>8. InHand'
  <2>1. ASSUME NEW q \in Req, q # r, pc[q] \in {"running", "cancelling"} PROVE CmdOf[q] # c
    BY <1>1, <2>1, Mine DEF Executing
  <2> QED
    BY <1>1, <1>2, <1>3, <2>1, LifeTypes DEF LifeInv, InHand, Recorded
<1> QED
  BY <1>4, <1>5, <1>6, <1>7, <1>8 DEF LifeInv

\* A command settles: a pin goes only if nothing was recorded of it.
LEMMA SettledKeeps ==
  ASSUME ConstantsOK, IInv, LifeInv, NEW r \in Req, pc[r] \in Executing, NEW a, Settle(r, a),
         UNCHANGED <<owned, active, idxLoaded, idxFact, ledger, timeline, orphans>>,
         \A d \in Cmd : d # CmdOf[r] => live'[d] = live[d],
         live'[CmdOf[r]] # NoAck => live[CmdOf[r]] # NoAck,
         live'[CmdOf[r]] = NoAck /\ live[CmdOf[r]] # NoAck =>
            owned[CmdOf[r]] = "no" /\ ~Recorded(CmdOf[r])
  PROVE  LifeInv'
<1> DEFINE c == CmdOf[r]
<1>1. /\ c \in Cmd /\ inFlight' = inFlight \ {c} /\ UNCHANGED <<seq, order>>
      /\ \A q \in Req : pc'[q] = IF q = r THEN "done" ELSE pc[q]
      /\ \A q \in Req : q # r => held'[q] = held[q]
      /\ \A d \in Cmd : Recorded(d)' <=> Recorded(d)
  BY LifeTypes DEF Settle, Reply, Recorded
<1>2. InFlight'
  <2>1. ASSUME NEW q \in Req, q # r, pc[q] \in Executing PROVE CmdOf[q] # c
    BY <2>1, Alone
  <2> QED
    BY <1>1, <2>1 DEF LifeInv, InFlight, Executing
<1>3. \A d \in Cmd : Pin(d)' => Pin(d)
  BY <1>1 DEF Pin
<1>4. PinnedOk'
  BY <1>1, <1>3 DEF LifeInv, PinnedOk
<1>5. PinnedInOrder'
  BY <1>1, <1>3 DEF LifeInv, PinnedInOrder, Pin
<1>6. LiveOk'
  BY <1>1 DEF LifeInv, LiveOk
<1>7. Fresh'
  <2>1. \A q \in Req : NotYet(q)' => NotYet(q) /\ q # r
    BY <1>1 DEF NotYet
  <2>2. \A q \in Req : NotYet(q)' => CmdOf[q] # c
    BY <2>1, Mine
  <2> QED
    BY <1>1, <2>1, <2>2, LifeTypes DEF LifeInv, Fresh, Untouched
<1>8. InHand'
  <2>1. ASSUME NEW q \in Req, q # r, pc[q] \in {"running", "cancelling"} PROVE CmdOf[q] # c
    BY <2>1, Mine DEF Executing
  <2> QED
    BY <1>1, <2>1, LifeTypes DEF LifeInv, InHand
<1>9. Indexed'
  <2>1. live[c] # NoAck => c \notin orphans
    BY <1>1 DEF LifeInv, LiveOk
  <2> QED
    BY <1>1, <2>1 DEF LifeInv, Indexed
<1>10. Orphaned'
  BY <1>1 DEF LifeInv, Orphaned
<1> QED
  BY <1>2, <1>4, <1>5, <1>6, <1>7, <1>8, <1>9, <1>10 DEF LifeInv

LEMMA FaultsKeep ==
  ASSUME ConstantsOK, IInv, LifeInv, NEW r \in Req, AdmitFault(r) \/ SettleExecuteFault(r)
  PROVE  LifeInv'
<1>1. PICK a : SettleFault(r, a)
  BY DEF AdmitFault, SettleExecuteFault
<1>2. pc[r] = "admitted" \/ pc[r] = "cancelling"
  BY DEF AdmitFault, SettleExecuteFault
<1>3. /\ Settle(r, a) /\ UNCHANGED <<owned, active, idxLoaded, idxFact, ledger, timeline, orphans>>
      /\ \A d \in Cmd : d # CmdOf[r] => live'[d] = live[d]
      /\ live'[CmdOf[r]] = NoAck
  BY <1>1, LifeTypes DEF SettleFault, idxVars, diskVars, countVars
<1>4. live[CmdOf[r]] # NoAck => owned[CmdOf[r]] = "no" /\ ~Recorded(CmdOf[r])
  BY <1>2, LifeTypes DEF LifeInv, Fresh, NotYet, Untouched, InHand, LiveOk
<1> QED
  BY <1>2, <1>3, <1>4, SettledKeeps DEF Executing

LEMMA ExecutedKeeps ==
  ASSUME ConstantsOK, IInv, LifeInv, NEW r \in Req, ExecuteOk(r)
  PROVE  LifeInv'
<1>1. /\ Settle(r, "accepted")
      /\ UNCHANGED <<owned, active, idxLoaded, idxFact, ledger, timeline, orphans>>
      /\ pc[r] \in Executing
  BY DEF ExecuteOk, Executing, idxVars, diskVars, countVars
<1>2. /\ \A d \in Cmd : d # CmdOf[r] => live'[d] = live[d]
      /\ live'[CmdOf[r]] = NoAck <=> live[CmdOf[r]] = NoAck
  <2>1. CmdOf[r] \in Cmd /\ NoAck # "accepted"
    BY LifeTypes DEF Ack
  <2> QED
    BY <2>1, LifeTypes DEF ExecuteOk
<1> QED
  BY <1>1, <1>2, SettledKeeps

LEMMA FailureKeeps ==
  ASSUME ConstantsOK, IInv, LifeInv, NEW r \in Req, ExecuteFault(r)
  PROVE  LifeInv'
<1> DEFINE c == CmdOf[r]
<1> USE DEF memVars, admVars, idxVars, countVars
<1>1. /\ pc[r] = "running" /\ c \in Cmd /\ ~Recorded(c) /\ c \notin orphans
      /\ UNCHANGED <<held, inFlight, live, seq, order, owned, active, idxLoaded, idxFact>>
      /\ UNCHANGED <<timeline, orphans>>
  BY LifeTypes DEF ExecuteFault, LifeInv, InHand
<1>2. \A q \in Req : pc'[q] = IF q = r THEN "cancelling" ELSE pc[q]
  BY LifeTypes DEF ExecuteFault
<1>3. /\ \A d \in Cmd : d # c => ledger'[d] = ledger[d]
      /\ ledger'[c] = ledger[c] \/ ledger'[c] = "cancelled"
  BY LifeTypes DEF ExecuteFault
<1>4. \A d \in Cmd : Recorded(d)' <=> Recorded(d)
  BY <1>1, <1>3 DEF Recorded
<1>5. InFlight'
  BY <1>1, <1>2 DEF LifeInv, InFlight, Executing
<1>6. PinnedOk' /\ PinnedInOrder' /\ LiveOk'
  BY <1>1 DEF LifeInv, PinnedOk, Pin, PinnedInOrder, LiveOk
<1>7. Fresh'
  BY <1>1, <1>2, <1>4, LifeTypes DEF LifeInv, Fresh, NotYet, Untouched
<1>8. InHand'
  BY <1>1, <1>2, <1>4, LifeTypes DEF LifeInv, InHand
<1>9. Indexed'
  BY <1>1, <1>4 DEF LifeInv, Indexed
<1>10. Orphaned'
  BY <1>1, <1>3, LifeTypes DEF LifeInv, Orphaned
<1> QED
  BY <1>5, <1>6, <1>7, <1>8, <1>9, <1>10 DEF LifeInv

-----------------------------------------------------------------------------
(* The runtime, residency, and the end of the process.                     *)

\* What the runtime holds no delivery is about to run.
LEMMA OwnedIsKnown ==
  ASSUME ConstantsOK, IInv, LifeInv, NEW c \in Cmd, owned[c] # "no"
  PROVE  /\ live[c] # NoAck /\ c \notin orphans
         /\ \A q \in Req : NotYet(q) \/ pc[q] \in {"running", "cancelling"} => CmdOf[q] # c
BY DEF LifeInv, LiveOk, Fresh, Untouched, InHand

LEMMA RuntimeKeeps ==
  ASSUME ConstantsOK, IInv, LifeInv, NEW c \in Cmd, Runtime(c)
  PROVE  LifeInv'
<1> USE DEF reqVars, memVars, admVars, idxVars, diskVars, countVars
<1>1. /\ owned[c] # "no" /\ owned[c] \in {"no", "queued", "leaving"}
      /\ UNCHANGED <<pc, held, inFlight, seq, order, active, orphans>>
  BY LifeTypes DEF Runtime, Promote, EndUnpersisted, RemoveByUser, ReleaseLiveInput, FinishCompact
<1>2. /\ live[c] # NoAck /\ c \notin orphans
      /\ \A q \in Req : NotYet(q) \/ pc[q] \in {"running", "cancelling"} => CmdOf[q] # c
  BY <1>1, OwnedIsKnown
<1>3. /\ \A d \in Cmd : d # c => /\ live'[d] = live[d] /\ owned'[d] = owned[d]
                                 /\ Recorded(d)' <=> Recorded(d)
                                 /\ ledger'[d] = ledger[d]
      /\ live'[c] # NoAck \/ owned'[c] = "no"
  BY <1>1, <1>2, LifeTypes
     DEF Runtime, Promote, EndUnpersisted, RemoveByUser, ReleaseLiveInput, FinishCompact, Recorded
<1>4. InFlight'
  BY <1>1 DEF LifeInv, InFlight
<1>5. \A d \in Cmd : Pin(d)' => Pin(d)
  BY <1>1, <1>2, <1>3 DEF Pin
<1>6. PinnedOk'
  BY <1>1, <1>5 DEF LifeInv, PinnedOk
<1>7. PinnedInOrder'
  BY <1>1, <1>5 DEF LifeInv, PinnedInOrder, Pin
<1>8. LiveOk'
  BY <1>1, <1>2, <1>3 DEF LifeInv, LiveOk
<1>9. Fresh'
  BY <1>1, <1>2, <1>3, LifeTypes DEF LifeInv, Fresh, NotYet, Untouched
<1>10. InHand'
  BY <1>1, <1>2, <1>3, LifeTypes DEF LifeInv, InHand
<1>11. Orphaned'
  BY <1>1, <1>2, <1>3, LifeTypes DEF LifeInv, Orphaned
<1>12. Indexed'
  <2>1. CASE Promote(c) \/ EndUnpersisted(c) \/ RemoveByUser(c)
    <3>1. UNCHANGED <<live, idxLoaded, idxFact>>
      BY <2>1 DEF Promote, EndUnpersisted, RemoveByUser
    <3> QED
      BY <1>1, <1>2, <1>3, <3>1 DEF LifeInv, Indexed
  <2>2. CASE ReleaseLiveInput(c)
    <3>1. /\ ~idxLoaded'[SessOf[c]]
          /\ \A d \in Cmd : SessOf[d] # SessOf[c] =>
                idxLoaded'[SessOf[d]] = idxLoaded[SessOf[d]] /\ idxFact'[d] = idxFact[d]
      BY <2>2, LifeTypes DEF ReleaseLiveInput, Invalidate
    <3> QED
      BY <1>1, <1>3, <3>1 DEF LifeInv, Indexed
  <2>3. CASE FinishCompact(c)
    <3>1. UNCHANGED <<live, ledger>> /\ (UNCHANGED idxVars \/
            \A d \in Cmd : d # c =>
              /\ idxLoaded'[SessOf[d]] = IF SessOf[d] = SessOf[c] THEN TRUE ELSE idxLoaded[SessOf[d]]
              /\ idxFact'[d] = IF SessOf[d] = SessOf[c] /\ ~idxLoaded[SessOf[c]]
                               THEN DurableFact(ledger, d) ELSE idxFact[d])
      BY <2>3, LifeTypes DEF FinishCompact
    <3>2. CASE UNCHANGED idxVars
      BY <1>1, <1>2, <1>3, <3>1, <3>2 DEF LifeInv, Indexed
    <3>3. CASE \A d \in Cmd : d # c =>
              /\ idxLoaded'[SessOf[d]] = IF SessOf[d] = SessOf[c] THEN TRUE ELSE idxLoaded[SessOf[d]]
              /\ idxFact'[d] = IF SessOf[d] = SessOf[c] /\ ~idxLoaded[SessOf[c]]
                               THEN DurableFact(ledger, d) ELSE idxFact[d]
      <4>1. ASSUME NEW d \in Cmd, idxLoaded'[SessOf[d]], idxFact'[d] = NoAck, live'[d] = NoAck
            PROVE  ~Recorded(d)' /\ d \notin orphans'
        <5>1. d # c
          BY <1>2, <3>1, <4>1
        <5>2. CASE SessOf[d] = SessOf[c] /\ ~idxLoaded[SessOf[c]]
          <6>1. DurableFact(ledger, d) = NoAck /\ ledger \in [Cmd -> Ledger]
            BY <3>3, <4>1, <5>1, <5>2, LifeTypes
          <6>2. d \notin timeline /\ ledger[d] \in {"none", "admitted"}
            BY <6>1, UnknownFact
          <6>3. active[SessOf[c]]
            BY <1>2 DEF LifeInv, PinnedOk, Pin
          <6>4. d \notin orphans /\ ~Recorded(d)
            BY <5>2, <6>2, <6>3 DEF LifeInv, Orphaned, Recorded
          <6> QED
            BY <1>1, <1>3, <5>1, <6>4
        <5>3. CASE ~(SessOf[d] = SessOf[c] /\ ~idxLoaded[SessOf[c]])
          BY <1>1, <1>3, <3>3, <4>1, <5>1, <5>3 DEF LifeInv, Indexed
        <5> QED
          BY <5>2, <5>3
      <4> QED
        BY <4>1 DEF Indexed
    <3> QED
      BY <3>1, <3>2, <3>3
  <2> QED
    BY <2>1, <2>2, <2>3 DEF Runtime
<1> QED
  BY <1>4, <1>6, <1>7, <1>8, <1>9, <1>10, <1>11, <1>12 DEF LifeInv

LEMMA ResidencyKeeps ==
  ASSUME ConstantsOK, IInv, LifeInv, NEW s \in Session, Deactivate(s) \/ Resume(s)
  PROVE  LifeInv'
<1> USE DEF reqVars, memVars, admVars, idxVars, diskVars, countVars
<1>1. CASE Deactivate(s)
  <2>1. /\ UNCHANGED <<pc, held, live, inFlight, order, idxLoaded, idxFact, ledger, timeline, orphans, owned>>
        /\ Quiescent /\ \A d \in Cmd : SessOf[d] = s => ~Pin(d)
    BY <1>1 DEF Deactivate, Pinned, Pin
  <2>2. \A t \in Session : t # s => active'[t] = active[t] /\ seq'[t] = seq[t]
    BY <1>1, LifeTypes DEF Deactivate
  <2>3. InFlight' /\ Fresh' /\ InHand'
    BY <2>1 DEF Quiescent, InFlight, Fresh, NotYet, InHand, Executing
  <2>4. PinnedOk'
    BY <2>1, <2>2, LifeTypes DEF LifeInv, PinnedOk, Pin
  <2>5. PinnedInOrder' /\ LiveOk' /\ Indexed'
    BY <2>1 DEF LifeInv, PinnedInOrder, LiveOk, Indexed, Recorded
  <2>6. Orphaned'
    <3>1. ~active'[s]
      BY <1>1, LifeTypes DEF Deactivate
    <3> QED
      BY <2>1, <2>2, <3>1, LifeTypes DEF LifeInv, Orphaned
  <2> QED
    BY <2>3, <2>4, <2>5, <2>6 DEF LifeInv
<1>2. CASE Resume(s)
  <2>1. PICK rows \in SUBSET Admitted(s) :
           ledger' = Swept(rows) /\ orphans' = orphans \ (Admitted(s) \ rows)
    BY <1>2 DEF Resume
  <2>2. UNCHANGED <<pc, held, live, inFlight, seq, order, idxLoaded, idxFact, timeline, owned>>
    BY <1>2 DEF Resume
  <2>3. /\ \A t \in Session : t # s => active'[t] = active[t]
        /\ active'[s]
    BY <1>2, LifeTypes DEF Resume
  <2>4. \A c \in Cmd :
           /\ ledger'[c] = ledger[c] \/ (ledger[c] = "admitted" /\ ledger'[c] = "discarded")
           /\ c \in rows => ledger'[c] = "discarded"
           /\ ledger'[c] \in {"promoted", "removed"} <=> ledger[c] \in {"promoted", "removed"}
    <3>1. ledger \in [Cmd -> Ledger]
      BY LifeTypes
    <3> QED
      BY <2>1, <3>1, SweptIs
  <2>5. \A c \in Cmd : (Recorded(c)' <=> Recorded(c)) /\ (c \in orphans' => c \in orphans)
    BY <2>1, <2>2, <2>4 DEF Recorded
  <2>6. InFlight' /\ PinnedInOrder'
    BY <2>2 DEF LifeInv, InFlight, PinnedInOrder
  <2>7. PinnedOk'
    BY <2>2, <2>3, LifeTypes DEF LifeInv, PinnedOk, Pin
  <2>8. LiveOk' /\ Indexed'
    BY <2>2, <2>5 DEF LifeInv, LiveOk, Indexed
  <2>9. Fresh' /\ InHand'
    BY <2>2, <2>5, LifeTypes DEF LifeInv, Fresh, NotYet, Untouched, InHand
  <2>10. Orphaned'
    <3>1. ASSUME NEW c \in orphans' 
          PROVE  /\ ledger'[c] \in {"admitted", "discarded"}
                 /\ active'[SessOf[c]] => ledger'[c] = "discarded"
      <4>1. /\ c \in orphans /\ c \in Cmd /\ ledger[c] \in {"admitted", "discarded"}
            /\ active[SessOf[c]] => ledger[c] = "discarded"
        BY <2>1, <3>1, LifeTypes DEF LifeInv, Orphaned
      <4>2. CASE SessOf[c] = s
        BY <2>1, <2>4, <3>1, <4>1, <4>2 DEF Admitted
      <4>3. CASE SessOf[c] # s
        BY <2>3, <2>4, <4>1, <4>3, LifeTypes
      <4> QED
        BY <4>2, <4>3
    <3> QED
      BY <3>1 DEF Orphaned
  <2> QED
    BY <2>6, <2>7, <2>8, <2>9, <2>10 DEF LifeInv
<1> QED
  BY <1>1, <1>2

LEMMA CrashKeeps ==
  ASSUME ConstantsOK, IInv, LifeInv, Crash
  PROVE  LifeInv'
<1>1. /\ inFlight' = {} /\ UNCHANGED <<ledger, timeline>>
      /\ orphans' = orphans \cup {c \in Cmd : ledger[c] = "admitted"}
      /\ \A r \in Req : pc'[r] \in {"new", "done", "lost"}
      /\ \A c \in Cmd : live'[c] = NoAck /\ owned'[c] = "no"
      /\ \A s \in Session : active'[s] = FALSE /\ idxLoaded'[s] = FALSE
  BY DEF Crash, diskVars
<1>2. \A c \in Cmd : ~Pin(c)'
  BY <1>1 DEF Pin
<1>3. InFlight' /\ Fresh' /\ InHand'
  BY <1>1 DEF InFlight, Fresh, NotYet, InHand, Executing
<1>4. PinnedOk' /\ PinnedInOrder'
  BY <1>2 DEF PinnedOk, PinnedInOrder, Pin
<1>5. LiveOk' /\ Indexed'
  BY <1>1, LifeTypes DEF LiveOk, Indexed
<1>6. Orphaned'
  BY <1>1, LifeTypes DEF LifeInv, Orphaned
<1> QED
  BY <1>3, <1>4, <1>5, <1>6 DEF LifeInv

LEMMA LifeStarts ==
  ASSUME ConstantsOK, Init
  PROVE  LifeInv
BY DEF Init, ConstantsOK, LifeInv, InFlight, PinnedOk, Pin, PinnedInOrder, LiveOk, Fresh, NotYet,
       InHand, Indexed, Orphaned, Executing

LEMMA StepKeepsLife ==
  ASSUME ConstantsOK, IInv, LifeInv, [Next]_vars
  PROVE  LifeInv'
<1>1. ASSUME NEW r \in Req, Arrive(r) \/ Handle(r) \/ LookupFault(r) \/ Decide(r) PROVE LifeInv'
  BY <1>1, WaitKeepsLife, LookupKeeps, FaultyLoadKeeps, AdmitKeeps DEF Handle, Decide
<1>2. ASSUME NEW r \in Req, Execute(r) PROVE LifeInv'
  BY <1>2, ExecutionStarts, HandOffKeeps, FaultsKeep, ExecutedKeeps, FailureKeeps DEF Execute
<1>3. ASSUME NEW c \in Cmd, Runtime(c) PROVE LifeInv'
  BY <1>3, RuntimeKeeps
<1>4. ASSUME NEW s \in Session, Deactivate(s) \/ Resume(s) PROVE LifeInv'
  BY <1>4, ResidencyKeeps
<1>5. CASE UNCHANGED vars
  <2>1. /\ UNCHANGED <<pc, held, inFlight, live, seq, order, owned, active>>
        /\ UNCHANGED <<idxLoaded, idxFact, ledger, timeline, orphans>>
    BY <1>5 DEF vars, reqVars, memVars, admVars, idxVars, diskVars, countVars
  <2>2. InFlight' /\ PinnedOk' /\ PinnedInOrder' /\ LiveOk'
    BY <2>1 DEF LifeInv, InFlight, PinnedOk, Pin, PinnedInOrder, LiveOk
  <2>3. Fresh' /\ InHand' /\ Indexed' /\ Orphaned'
    BY <2>1 DEF LifeInv, Fresh, NotYet, Untouched, InHand, Indexed, Orphaned, Recorded
  <2> QED
    BY <2>2, <2>3 DEF LifeInv
<1> QED
  BY <1>1, <1>2, <1>3, <1>4, <1>5, CrashKeeps DEF Next

\* The second inductive invariant: what the process and the store know of a
\* command agrees with what its deliveries are about to do.
THEOREM LifeOfACommand == Spec => []LifeInv
<1>1. Init => LifeInv
  BY LifeStarts, ConstantsOK
<1>2. IInv /\ LifeInv /\ [Next]_vars => LifeInv'
  BY StepKeepsLife, ConstantsOK
<1> QED
  BY <1>1, <1>2, Invariance, PTL DEF Spec

\* Commands of a session that are pinned at the same time have different
\* admission numbers, although a deactivation starts the counter again.
THEOREM PinsAreOrdered == Spec => []PinnedInOrder
<1>1. LifeInv => PinnedInOrder
  BY DEF LifeInv
<1> QED
  BY <1>1, LifeOfACommand, PTL

\* A command that was recorded, is pinned, or was discarded after a crash is
\* never executed (again).
THEOREM NothingRunsTwice == Spec => NeverRunTwice
<1>1. ASSUME IInv, LifeInv, [Next]_vars
      PROVE  [\A c \in Cmd : runs'[c] # runs[c]
                => /\ ~Recorded(c) /\ live[c] = NoAck
                   /\ ~(c \in orphans /\ ledger[c] = "discarded")]_runs
  <2> SUFFICES ASSUME NEW c \in Cmd, runs'[c] # runs[c] PROVE Untouched(c)
    BY DEF Untouched
  <2>1. PICK r \in Req : StartExecute(r)
    <3> USE DEF reqVars, memVars, admVars, idxVars, diskVars, countVars
    <3>1. runs' # runs
      OBVIOUS
    <3>2. ASSUME NEW r \in Req, Arrive(r) \/ Handle(r) \/ LookupFault(r) \/ Decide(r) PROVE FALSE
      BY <3>1, <3>2 DEF Arrive, Handle, JoinInFlight, AwaitFinal, ReplyFromMemory, StartLookup,
            LookupHit, QueryMiss, WaitForSession, LookupFault, Decide, Reject, Admit
    <3>3. ASSUME NEW r \in Req, Execute(r) PROVE StartExecute(r)
      BY <3>1, <3>3 DEF Execute, HandOff, AdmitFault, ExecuteOk, ExecuteFault, SettleExecuteFault, SettleFault
    <3>4. ASSUME NEW d \in Cmd, Runtime(d) PROVE FALSE
      BY <3>1, <3>4 DEF Runtime, Promote, EndUnpersisted, RemoveByUser, ReleaseLiveInput, FinishCompact
    <3>5. ASSUME NEW s \in Session, Deactivate(s) \/ Resume(s) PROVE FALSE
      BY <3>1, <3>5 DEF Deactivate, Resume
    <3>6. ~Crash /\ ~UNCHANGED vars
      BY <3>1 DEF Crash, vars
    <3> QED
      BY <1>1, <3>2, <3>3, <3>4, <3>5, <3>6 DEF Next
  <2>2. pc[r] = "admitted" /\ c = CmdOf[r]
    BY <1>1, <2>1, LifeTypes, ConstantsOK DEF StartExecute, IInv, TypeOK
  <2> QED
    BY <1>1, <2>2 DEF LifeInv, Fresh, NotYet
<1> QED
  BY <1>1, Invariance, LifeOfACommand, PTL DEF Spec, NeverRunTwice

\* An input is pinned before anything is recorded of it, never after: the
\* settle() of a delivery that a promotion or a deletion overtook leaves the
\* pin released.
THEOREM NothingPinnedLate == Spec => NoLatePin
<1>1. ASSUME IInv, LifeInv, [Next]_vars
      PROVE  [\A c \in Cmd : live[c] = NoAck /\ live'[c] # NoAck => ~Recorded(c)]_live
  <2> SUFFICES ASSUME NEW c \in Cmd, live[c] = NoAck, live'[c] # NoAck PROVE Untouched(c)
    BY DEF Untouched
  <2> USE DEF reqVars, memVars, admVars, idxVars, diskVars, countVars
  <2>0. live \in [Cmd -> Ack \cup {NoAck}]
    BY <1>1 DEF IInv, TypeOK
  <2>1. PICK r \in Req : StartExecute(r)
    <3>1. ASSUME NEW r \in Req, Arrive(r) \/ Handle(r) \/ LookupFault(r) \/ Decide(r) PROVE FALSE
      BY <3>1 DEF Arrive, Handle, JoinInFlight, AwaitFinal, ReplyFromMemory, StartLookup,
            LookupHit, QueryMiss, WaitForSession, LookupFault, Decide, Reject, Admit
    <3>2. ASSUME NEW r \in Req, HandOff(r) \/ AdmitFault(r) \/ ExecuteFault(r)
                                 \/ SettleExecuteFault(r)
          PROVE  FALSE
      BY <2>0, <3>2 DEF HandOff, AdmitFault, ExecuteFault, SettleExecuteFault, SettleFault
    <3>3. ASSUME NEW r \in Req, ExecuteOk(r) PROVE FALSE
      BY <2>0, <3>3 DEF ExecuteOk
    <3>4. ASSUME NEW d \in Cmd, Runtime(d) PROVE FALSE
      BY <2>0, <3>4 DEF Runtime, Promote, EndUnpersisted, RemoveByUser, ReleaseLiveInput,
                        FinishCompact
    <3>5. ASSUME NEW s \in Session, Deactivate(s) \/ Resume(s) PROVE FALSE
      BY <3>5 DEF Deactivate, Resume
    <3>6. ~Crash /\ ~UNCHANGED vars
      BY DEF Crash, vars
    <3> QED
      BY <1>1, <3>1, <3>2, <3>3, <3>4, <3>5, <3>6 DEF Next, Execute
  <2>2. pc[r] = "admitted" /\ c = CmdOf[r]
    BY <1>1, <2>0, <2>1, LifeTypes, ConstantsOK DEF StartExecute
  <2> QED
    BY <1>1, <2>2 DEF LifeInv, Fresh, NotYet
<1> QED
  BY <1>1, Invariance, LifeOfACommand, PTL DEF Spec, NoLatePin

\* Only a delivery's own step answers it.
LEMMA OwnAnswer ==
  ASSUME ConstantsOK, IInv, [Next]_vars, NEW r \in Req, answer'[r] # answer[r]
  PROVE  \/ AwaitFinal(r) \/ ReplyFromMemory(r) \/ LookupHit(r) \/ LookupFault(r)
         \/ QueryMiss(r) \/ Reject(r)
         \/ AdmitFault(r) \/ ExecuteOk(r) \/ SettleExecuteFault(r)
<1> USE DEF reqVars, memVars, admVars, idxVars, diskVars, countVars
<1>0. answer \in [Req -> Answers]
  BY DEF IInv, TypeOK
<1>1. ASSUME NEW q \in Req, Arrive(q) \/ JoinInFlight(q) \/ StartLookup(q) \/ WaitForSession(q) \/ Admit(q)
      PROVE  FALSE
  BY <1>1 DEF Arrive, JoinInFlight, StartLookup, WaitForSession, Admit
<1>2. ASSUME NEW q \in Req, StartExecute(q) \/ HandOff(q) \/ ExecuteFault(q) PROVE FALSE
  BY <1>2 DEF StartExecute, HandOff, ExecuteFault
<1>3. ASSUME NEW q \in Req,
             \/ AwaitFinal(q) \/ ReplyFromMemory(q) \/ LookupHit(q) \/ LookupFault(q)
             \/ QueryMiss(q) \/ Reject(q)
             \/ AdmitFault(q) \/ ExecuteOk(q) \/ SettleExecuteFault(q)
      PROVE  q = r
  <2>1. \E a : answer' = [answer EXCEPT ![q] = a]
    BY <1>3 DEF AwaitFinal, ReplyFromMemory, LookupHit, LookupFault, QueryMiss, Reject, AdmitFault,
                ExecuteOk, SettleExecuteFault, SettleFault, Settle, Reply
  <2> QED
    BY <1>0, <2>1
<1>4. ASSUME NEW c \in Cmd, Runtime(c) PROVE FALSE
  BY <1>4 DEF Runtime, Promote, EndUnpersisted, RemoveByUser, ReleaseLiveInput, FinishCompact
<1>5. ASSUME NEW s \in Session, Deactivate(s) \/ Resume(s) PROVE FALSE
  BY <1>5 DEF Deactivate, Resume
<1>6. ~Crash /\ ~UNCHANGED vars
  BY DEF Crash, vars
<1> QED
  BY <1>1, <1>2, <1>3, <1>4, <1>5, <1>6 DEF Next, Handle, Decide, Execute

\* A delivery is answered "unknown" only by a query that found nothing.
LEMMA UnknownIsAMiss ==
  ASSUME ConstantsOK, IInv, NEW r \in Req, answer'[r] = "unknown",
         \/ AwaitFinal(r) \/ ReplyFromMemory(r) \/ LookupHit(r) \/ LookupFault(r)
         \/ QueryMiss(r) \/ Reject(r)
         \/ AdmitFault(r) \/ ExecuteOk(r) \/ SettleExecuteFault(r)
  PROVE  QueryMiss(r)
<1>0. /\ answer \in [Req -> Answers] /\ \A a : Reply(r, a) => answer'[r] = a
      /\ CmdOf[r] \in Cmd /\ live \in [Cmd -> Ack \cup {NoAck}] /\ held \in [Req -> Ack \cup {NoAck}]
  <2>1. answer \in [Req -> Answers]
    BY DEF IInv, TypeOK
  <2> QED
    BY <2>1, LifeTypes DEF Reply
<1>1. \A a \in Ack : Found(r, a) # "unknown"
  BY DEF Found, RetryAck, Ack
<1>2. ~AwaitFinal(r)
  <2>1. ASSUME AwaitFinal(r) PROVE final[CmdOf[r]] \in Ack
    BY <1>0, <2>1 DEF AwaitFinal, IInv, Awaited
  <2> QED
    BY <1>0, <1>1, <2>1 DEF AwaitFinal
<1>3. ~ReplyFromMemory(r)
  <2>1. ASSUME ReplyFromMemory(r) PROVE \E a \in Ack : Reply(r, Found(r, a))
    BY <1>0, <2>1 DEF ReplyFromMemory, IInv, Remembered
  <2> QED
    BY <1>0, <1>1, <2>1
<1>4. ~LookupHit(r)
  BY <1>0, <1>1 DEF LookupHit
<1>5. ~LookupFault(r) /\ ~Reject(r)
  BY <1>0 DEF LookupFault, Reject
<1>6. ~AdmitFault(r) /\ ~ExecuteOk(r) /\ ~SettleExecuteFault(r)
  BY <1>0 DEF AdmitFault, ExecuteOk, SettleExecuteFault, SettleFault, Settle
<1> QED
  BY <1>2, <1>3, <1>4, <1>5, <1>6

\* A query does not call a command unknown that is recorded, pinned or in flight.
THEOREM RecordedIsKnown == Spec => KnownWhenRecorded
<1>1. ASSUME IInv, LifeInv, [Next]_vars
      PROVE  [\A r \in Req : answer'[r] = "unknown" /\ answer[r] = "none"
                => ~Recorded(CmdOf[r]) /\ live[CmdOf[r]] = NoAck
                   /\ CmdOf[r] \notin inFlight]_answer
  <2> SUFFICES ASSUME NEW r \in Req, answer'[r] = "unknown", answer[r] = "none"
               PROVE  Untouched(CmdOf[r]) /\ CmdOf[r] \notin inFlight
    BY DEF Untouched
  <2>1. QueryMiss(r)
    BY <1>1, OwnAnswer, UnknownIsAMiss, ConstantsOK
  <2> QED
    BY <1>1, <2>1 DEF QueryMiss, LifeInv, Fresh, NotYet, InFlight
<1> QED
  BY <1>1, Invariance, LifeOfACommand, PTL DEF Spec, KnownWhenRecorded

\* A retry or a query of a command that is executing waits for its final: until
\* then only the execution itself is answered.
THEOREM RetriesWaitForTheFinal == Spec => AnsweredAfterFinal
<1>1. ASSUME IInv, LifeInv, [Next]_vars
      PROVE  [\A r \in Req : answer'[r] \in {"duplicate", "accepted"} /\ answer[r] = "none"
                => \/ CmdOf[r] \notin inFlight
                   \/ pc[r] \in Executing]_vars
  <2> SUFFICES ASSUME NEW r \in Req, answer'[r] # answer[r], pc[r] \notin Executing
               PROVE  CmdOf[r] \notin inFlight
    OBVIOUS
  <2>1. \/ AwaitFinal(r) \/ ReplyFromMemory(r) \/ LookupHit(r) \/ LookupFault(r)
        \/ QueryMiss(r) \/ Reject(r)
        \/ AdmitFault(r) \/ ExecuteOk(r) \/ SettleExecuteFault(r)
    BY <1>1, OwnAnswer, ConstantsOK
  <2>2. ~AdmitFault(r) /\ ~ExecuteOk(r) /\ ~SettleExecuteFault(r)
    BY DEF AdmitFault, ExecuteOk, SettleExecuteFault, Executing
  <2> QED
    BY <1>1, <2>1, <2>2
       DEF AwaitFinal, ReplyFromMemory, LookupHit, LookupFault, QueryMiss, Reject, LifeInv, InFlight
<1> QED
  BY <1>1, Invariance, LifeOfACommand, PTL DEF Spec, AnsweredAfterFinal
=============================================================================
