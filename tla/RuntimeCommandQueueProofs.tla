----------------------- MODULE RuntimeCommandQueueProofs -----------------------
(***************************************************************************)
(* Proofs about RuntimeCommandQueue for any commands, modes, owners and    *)
(* promotions: type correctness and every safety property the runs check.  *)
(*                                                                         *)
(* Five handlers and the loop itself run the same piece of code, one       *)
(* iteration of the drain loop, after a change of their own to the queue,  *)
(* the lease or the reservation.  The proof follows that: LoopKeepsInv says*)
(* what the change must satisfy for the iteration to keep the invariant,   *)
(* and each handler shows that its change does.                            *)
(***************************************************************************)
EXTENDS RuntimeCommandQueue, TLAPS

NotRun == {"cancelled", "dropped", "refused"}

\* The loop is between executions and holds nothing, or an execution runs for
\* its lead command; only a turn absorbs.
Shape ==
  /\ phase \in {"idle", "loop"} => lead = NoCmd /\ batch = {}
  /\ phase \notin {"idle", "loop"} => lead \in batch
  /\ phase # "turn" => absorbing = NoCmd
  /\ absorbing # NoCmd => Mode[absorbing] \in {"note", "reply"}

\* The life of a command over a queue q and the commands S being executed:
\* one that waits was not started, one that was not run never will be, and one
\* that has no outcome waits or is being executed.
Life(q, out, arr, S) ==
  \A c \in Cmd :
    /\ c \in q => starts[c] = 0 /\ out[c] = "none" /\ arr[c] > 0 /\ c \notin S
    /\ c \in S => arr[c] > 0
    /\ arr[c] > 0 /\ out[c] = "none" => c \in q \cup S
    /\ arr[c] = 0 => starts[c] = 0
    /\ starts[c] <= 1
    /\ out[c] \in NotRun => starts[c] = 0

Lives == Life(queue, outcome, arrival, batch \cup {absorbing})

IInv == /\ TypeOK /\ Shape /\ Lives
        /\ NoLostWakeup /\ ReservationIsLive /\ NoBlockedStart
        /\ IdleLeaseIsQuiet /\ CancelMarkIsRunning
-----------------------------------------------------------------------------
(* One iteration of the drain loop.                                        *)

\* What a handler hands to the loop: a start is reserved for no one, or for
\* the only command there is, which the loop may take.
Handed(q, l, res, out) ==
  /\ q \subseteq Cmd /\ l \in Owner \cup {NoOwner} /\ out \in [Cmd -> Outcome]
  /\ res # NoCmd => /\ res \in Cmd /\ Mode[res] = "prompt" /\ q = {res}
                    /\ l = NoOwner \/ Promotes[l] = res

\* What the handler leaves to the loop, besides the variables the loop sets.
Frame ==
  /\ arrival' \in [Cmd -> Nat] /\ arrivals' \in Nat /\ born' \in [Cmd -> Nat]
  /\ UNCHANGED <<leaseMode, generation, aborted, loopVars>>

\* At rest or between two executions nothing is held.
LEMMA AtRest ==
  ASSUME IInv, phase \in {"idle", "loop"}
  PROVE  /\ lead = NoCmd /\ batch = {} /\ absorbing = NoCmd
         /\ reservation = NoCmd /\ cancelPending = {}
         /\ cancelPending \subseteq Cmd
BY DEF IInv, Shape, ReservationIsLive, CancelMarkIsRunning

\* A command the loop takes comes from the queue, and so does its batch.
LEMMA Taken ==
  ASSUME NEW q, NEW l, q \subseteq Cmd, NEW c \in First(Runnable(q, l))
  PROVE  /\ c \in q /\ c \in BatchOf(c, q) /\ BatchOf(c, q) \subseteq q
         /\ Mode[c] # "note" => BatchOf(c, q) = {c}
         /\ l # NoOwner => c = Promotes[l]
<1>1. c \in q /\ (l # NoOwner => c = Promotes[l])
  BY DEF First, Runnable
<1> QED
  BY <1>1 DEF BatchOf

LEMMA LeaveKeepsInv ==
  ASSUME IInv, NEW q, NEW l, NEW res, NEW out,
         phase \in {"idle", "loop"}, Handed(q, l, res, out), Frame,
         Life(q, out, arrival', {}), LeaveLoop(q, l, res, out)
  PROVE  IInv'
<1>a. /\ lead = NoCmd /\ batch = {} /\ absorbing = NoCmd
      /\ reservation = NoCmd /\ cancelPending = {}
  BY AtRest
<1>1. res = NoCmd
  BY DEF Handed, LeaveLoop, Runnable
<1>2. /\ phase' = "idle" /\ lead' = NoCmd /\ batch' = {} /\ stopped' = FALSE
      /\ queue' = q /\ lease' = l /\ reservation' = NoCmd /\ outcome' = out
      /\ starts' = starts /\ cancelPending' = {} /\ absorbing' = NoCmd
      /\ snapshot' = snapshot /\ leaseMode' = leaseMode /\ aborted' = aborted
      /\ generation' = generation
  BY <1>1, <1>a DEF LeaveLoop, Frame, loopVars
<1>3. TypeOK'
  <2>1. /\ arrival' \in [Cmd -> Nat] /\ arrivals' \in Nat /\ born' \in [Cmd -> Nat]
        /\ q \subseteq Cmd /\ l \in Owner \cup {NoOwner} /\ out \in [Cmd -> Outcome]
    BY DEF Frame, Handed
  <2>2. /\ starts \in [Cmd -> Nat] /\ snapshot \subseteq Cmd /\ aborted \subseteq Cmd
        /\ leaseMode \in {"after-current", "idle-only"} /\ generation \in Nat
    BY DEF IInv, TypeOK
  <2> QED
    BY <1>2, <2>1, <2>2 DEF TypeOK, Phase
<1>4. Lives'
  <2>1. \A c \in Cmd : c # NoCmd
    BY ConstantsOK
  <2> QED
    BY <1>2, <2>1 DEF Lives, Life
<1>5. NoLostWakeup'
  BY <1>2 DEF LeaveLoop, NoLostWakeup, Runnable
<1> QED
  BY <1>2, <1>3, <1>4, <1>5
     DEF IInv, Shape, ReservationIsLive, NoBlockedStart, IdleLeaseIsQuiet,
         CancelMarkIsRunning

\* No command that waits is marked as cancelled.
LEMMA NothingToSkip ==
  ASSUME IInv, phase \in {"idle", "loop"}, NEW c, NEW q, NEW res, NEW out,
         SkipCancelled(c, q, res, out)
  PROVE  FALSE
BY AtRest DEF SkipCancelled

LEMMA DropKeepsInv ==
  ASSUME IInv, NEW q, NEW l, NEW res, NEW out,
         phase \in {"idle", "loop"}, Handed(q, l, res, out), Frame,
         Life(q, out, arrival', {}),
         NEW c \in First(Runnable(q, l)), lease' = NoOwner,
         DropStale(c, q, res, out)
  PROVE  IInv'
<1>a. /\ lead = NoCmd /\ batch = {} /\ absorbing = NoCmd
      /\ reservation = NoCmd /\ cancelPending = {}
  BY AtRest
<1>b. /\ c \in q /\ c \in BatchOf(c, q) /\ BatchOf(c, q) \subseteq q /\ q \subseteq Cmd
  BY Taken DEF Handed
<1>1. res = NoCmd
  BY <1>b DEF Handed, DropStale, Stale, OfBranch
<1> DEFINE B == BatchOf(c, q)
<1>2. /\ phase' = "loop" /\ lead' = NoCmd /\ batch' = {} /\ stopped' = FALSE
      /\ queue' = q \ B /\ lease' = NoOwner /\ reservation' = NoCmd
      /\ outcome' = Settled(B, "dropped", out)
      /\ starts' = starts /\ cancelPending' = {} /\ absorbing' = NoCmd
      /\ snapshot' = snapshot /\ leaseMode' = leaseMode /\ aborted' = aborted
      /\ generation' = generation
  BY <1>1, <1>a DEF DropStale, Frame, loopVars
<1> HIDE DEF B
<1>3. TypeOK'
  <2>1. /\ arrival' \in [Cmd -> Nat] /\ arrivals' \in Nat /\ born' \in [Cmd -> Nat]
        /\ q \subseteq Cmd
    BY DEF Frame, Handed
  <2>2. /\ starts \in [Cmd -> Nat] /\ snapshot \subseteq Cmd /\ aborted \subseteq Cmd
        /\ leaseMode \in {"after-current", "idle-only"} /\ generation \in Nat
    BY DEF IInv, TypeOK
  <2>3. Settled(B, "dropped", out) \in [Cmd -> Outcome]
    BY DEF Settled, Outcome, Handed
  <2> QED
    BY <1>2, <2>1, <2>2, <2>3 DEF TypeOK, Phase
<1>4. Lives'
  <2>1. \A d \in Cmd : d # NoCmd
    BY ConstantsOK
  <2>2. \A d \in Cmd : outcome'[d] = IF d \in B THEN "dropped" ELSE out[d]
    BY <1>2 DEF Settled
  <2>3. B \subseteq q
    BY <1>b DEF B
  <2> QED
    BY <1>2, <2>1, <2>2, <2>3 DEF Lives, Life, NotRun
<1> QED
  BY <1>2, <1>3, <1>4
     DEF IInv, Shape, NoLostWakeup, ReservationIsLive, NoBlockedStart,
         IdleLeaseIsQuiet, CancelMarkIsRunning

LEMMA BeginKeepsInv ==
  ASSUME IInv, NEW q, NEW l, NEW res, NEW out,
         phase \in {"idle", "loop"}, Handed(q, l, res, out), Frame,
         Life(q, out, arrival', {}),
         NEW c \in First(Runnable(q, l)), lease' = NoOwner,
         BeginExecution(c, q, res, out)
  PROVE  IInv'
<1>a. /\ lead = NoCmd /\ batch = {} /\ absorbing = NoCmd
      /\ reservation = NoCmd /\ cancelPending = {}
  BY AtRest
<1> DEFINE B == BatchOf(c, q)
           L == {d \in B : ~Stale(d)}
<1>b. c \in q /\ B \subseteq q /\ q \subseteq Cmd
  BY Taken DEF Handed
<1>1. PICK f \in First(L) :
        /\ lead' = f /\ batch' = L
        /\ phase' = FirstPhase(f, res)
        /\ stopped' = (f \in aborted /\ Mode[f] \in WithInput)
        /\ reservation' = IF FirstPhase(f, res) = "start" THEN f ELSE res
        /\ queue' = q \ B
        /\ outcome' = Settled(B \ L, "dropped", out)
        /\ starts' = Started(L)
        /\ UNCHANGED cancelPending
  BY DEF BeginExecution
<1>2. f \in L /\ f \in B /\ L \subseteq B
  BY DEF First
<1> HIDE DEF B, L
<1>3. f \in q /\ f \in Cmd /\ Mode[f] \in Modes
  BY <1>b, <1>2, ConstantsOK
<1>4. res = NoCmd \/ (res = f /\ Mode[f] = "prompt")
  BY <1>3 DEF Handed
<1>5. /\ phase' \in {"persist", "control", "verify", "start"}
      /\ phase' = "start" => reservation' = f
      /\ phase' # "start" => reservation' = NoCmd
  BY <1>1, <1>3, <1>4 DEF FirstPhase, Modes
<1>6. /\ absorbing' = NoCmd /\ snapshot' = snapshot /\ leaseMode' = leaseMode
      /\ aborted' = aborted /\ generation' = generation /\ cancelPending' = {}
  BY <1>1, <1>a DEF Frame, loopVars
<1>7. starts \in [Cmd -> Nat] /\ out \in [Cmd -> Outcome]
  BY DEF IInv, TypeOK, Handed
<1>8. TypeOK'
  <2>1. /\ arrival' \in [Cmd -> Nat] /\ arrivals' \in Nat /\ born' \in [Cmd -> Nat]
        /\ q \subseteq Cmd
    BY DEF Frame, Handed
  <2>2. /\ snapshot \subseteq Cmd /\ aborted \subseteq Cmd
        /\ leaseMode \in {"after-current", "idle-only"} /\ generation \in Nat
    BY DEF IInv, TypeOK
  <2>3. outcome' \in [Cmd -> Outcome] /\ starts' \in [Cmd -> Nat]
    BY <1>1, <1>7 DEF Settled, Outcome, Started
  <2>4. /\ batch' \subseteq Cmd /\ lead' \in Cmd /\ queue' \subseteq Cmd
        /\ reservation' \in Cmd \cup {NoCmd} /\ stopped' \in BOOLEAN
        /\ cancelPending' \subseteq Cmd
    BY <1>1, <1>2, <1>3, <1>5, <1>6, <1>b
  <2> QED
    BY <1>5, <1>6, <2>1, <2>2, <2>3, <2>4 DEF TypeOK, Phase
<1>9. Lives'
  <2>1. \A d \in Cmd : d # NoCmd
    BY ConstantsOK
  <2>2. \A d \in Cmd : /\ outcome'[d] = IF d \in B \ L THEN "dropped" ELSE out[d]
                       /\ starts'[d] = IF d \in L THEN starts[d] + 1 ELSE starts[d]
    BY <1>1 DEF Settled, Started
  <2>3. L \subseteq B /\ B \subseteq q
    BY <1>b, <1>2
  <2>4. batch' = L /\ queue' = q \ B /\ absorbing' = NoCmd
    BY <1>1, <1>6
  <2> QED
    BY <1>7, <2>1, <2>2, <2>3, <2>4 DEF Lives, Life, NotRun, TypeOK
<1>10. Shape'
  BY <1>1, <1>2, <1>5, <1>6 DEF Shape
<1> QED
  BY <1>1, <1>5, <1>6, <1>8, <1>9, <1>10
     DEF IInv, NoLostWakeup, ReservationIsLive, NoBlockedStart,
         IdleLeaseIsQuiet, CancelMarkIsRunning

\* One iteration keeps the invariant, whatever the handler changed before it.
LEMMA LoopKeepsInv ==
  ASSUME IInv, NEW q, NEW l, NEW res, NEW out,
         phase \in {"idle", "loop"}, Handed(q, l, res, out), Frame,
         Life(q, out, arrival', {}), LoopIteration(q, l, res, out)
  PROVE  IInv'
<1>1. CASE LeaveLoop(q, l, res, out)
  BY <1>1, LeaveKeepsInv
<1>2. ASSUME NEW c \in First(Runnable(q, l)), lease' = NoOwner,
             SkipCancelled(c, q, res, out)
      PROVE  IInv'
  BY <1>2, NothingToSkip
<1>3. ASSUME NEW c \in First(Runnable(q, l)), lease' = NoOwner,
             DropStale(c, q, res, out)
      PROVE  IInv'
  BY <1>3, DropKeepsInv
<1>4. ASSUME NEW c \in First(Runnable(q, l)), lease' = NoOwner,
             BeginExecution(c, q, res, out)
      PROVE  IInv'
  BY <1>4, BeginKeepsInv
<1> QED
  BY <1>1, <1>2, <1>3, <1>4 DEF LoopIteration, DequeueNext

\* A handler that drains: with the loop at rest it runs an iteration, else it
\* only leaves its change behind.
LEMMA DrainKeepsInv ==
  ASSUME IInv, NEW q, NEW l, NEW res, NEW out,
         phase = "idle" => Handed(q, l, res, out),
         q \subseteq Cmd, out \in [Cmd -> Outcome], l \in {lease, NoOwner},
         phase # "idle" => res = reservation,
         Frame, Life(q, out, arrival', batch \cup {absorbing}),
         Drain(q, l, res, out)
  PROVE  IInv'
<1>1. CASE phase = "idle"
  <2>1. Life(q, out, arrival', {})
    BY <1>1, AtRest, ConstantsOK DEF Life
  <2> QED
    BY <1>1, <2>1, LoopKeepsInv DEF Drain
<1>2. CASE phase # "idle"
  <2>1. /\ queue' = q /\ lease' = l /\ reservation' = reservation /\ outcome' = out
        /\ phase' = phase /\ lead' = lead /\ batch' = batch /\ stopped' = stopped
        /\ starts' = starts /\ cancelPending' = cancelPending
        /\ absorbing' = absorbing /\ snapshot' = snapshot
        /\ leaseMode' = leaseMode /\ aborted' = aborted /\ generation' = generation
    BY <1>2 DEF Drain, Frame, loopVars
  <2>2. TypeOK'
    <3>1. /\ arrival' \in [Cmd -> Nat] /\ arrivals' \in Nat /\ born' \in [Cmd -> Nat]
          /\ q \subseteq Cmd /\ out \in [Cmd -> Outcome] /\ l \in Owner \cup {NoOwner}
      BY DEF Frame, IInv, TypeOK
    <3>2. TypeOK
      BY DEF IInv
    <3> QED
      BY <2>1, <3>1, <3>2 DEF TypeOK
  <2>3. Lives'
    BY <2>1 DEF Lives, Life
  <2>4. IdleLeaseIsQuiet'
    BY <2>1 DEF IInv, IdleLeaseIsQuiet
  <2> QED
    BY <1>2, <2>1, <2>2, <2>3, <2>4
       DEF IInv, Shape, NoLostWakeup, ReservationIsLive, NoBlockedStart,
           CancelMarkIsRunning
<1> QED
  BY <1>1, <1>2

-----------------------------------------------------------------------------
(* Handlers that drain.                                                    *)

\* A new command is unknown to the queue and to the executions.
LEMMA EnqueueKeepsInv ==
  ASSUME IInv, NEW c \in Cmd, New(c), NEW res,
         phase = "idle" => Handed(queue \cup {c}, lease, res, outcome),
         phase # "idle" => res = reservation,
         born' \in [Cmd -> Nat], Enqueue(c, res),
         UNCHANGED <<leaseMode, generation, aborted, loopVars>>
  PROVE  IInv'
<1>1. /\ arrival \in [Cmd -> Nat] /\ arrivals \in Nat /\ queue \subseteq Cmd
      /\ outcome \in [Cmd -> Outcome] /\ Lives
  BY DEF IInv, TypeOK
<1>2. /\ arrival' \in [Cmd -> Nat] /\ arrivals' \in Nat
      /\ arrival'[c] > 0 /\ \A d \in Cmd \ {c} : arrival'[d] = arrival[d]
  BY <1>1 DEF Enqueue
<1>3. Frame
  BY <1>2 DEF Frame
<1>4. Life(queue \cup {c}, outcome, arrival', batch \cup {absorbing})
  BY <1>1, <1>2 DEF Lives, Life, New
<1>5. queue \cup {c} \subseteq Cmd /\ Drain(queue \cup {c}, lease, res, outcome)
  BY <1>1 DEF Enqueue
<1> QED
  BY <1>1, <1>3, <1>4, <1>5, DrainKeepsInv

\* An enqueue that leaves the reservation alone finds none at rest.
LEMMA PlainHanded ==
  ASSUME IInv, NEW q, q \subseteq Cmd, NEW l \in Owner \cup {NoOwner},
         phase \in {"idle", "loop"}
  PROVE  Handed(q, l, reservation, outcome)
BY AtRest DEF Handed, IInv, TypeOK

\* A prompt is settled without having been queued: refused or cancelled.
LEMMA SettleNew ==
  ASSUME IInv, NEW c \in Cmd, New(c), NEW o \in {"refused", "cancelled"},
         outcome' = Settled({c}, o, outcome),
         UNCHANGED <<queueVars, leaseVars, execVars, loopVars, starts, generation,
                     born, aborted>>
  PROVE  IInv'
<1>1. UNCHANGED <<queue, arrival, arrivals, cancelPending, lease, leaseMode, phase,
                  lead, batch, stopped, reservation, snapshot, absorbing, starts,
                  generation, born, aborted>>
  BY DEF queueVars, leaseVars, execVars, loopVars
<1>2. outcome' \in [Cmd -> Outcome]
  BY DEF IInv, TypeOK, Settled, Outcome
<1>3. TypeOK'
  <2> TypeOK
    BY DEF IInv
  <2> QED
    BY <1>1, <1>2 DEF TypeOK
<1>4. Lives'
  <2>1. Lives /\ arrival[c] = 0
    BY DEF IInv, New
  <2>2. \A d \in Cmd : outcome'[d] = IF d = c THEN o ELSE outcome[d]
    BY DEF Settled
  <2>3. arrival \in [Cmd -> Nat]
    BY DEF IInv, TypeOK
  <2> QED
    BY <1>1, <2>1, <2>2, <2>3 DEF Lives, Life, NotRun
<1> QED
  BY <1>1, <1>3, <1>4
     DEF IInv, Shape, NoLostWakeup, Runnable, ReservationIsLive, NoBlockedStart,
         IdleLeaseIsQuiet, CancelMarkIsRunning

LEMMA AdmitPromptKeepsInv ==
  ASSUME IInv, NEW c \in Cmd, AdmitPrompt(c, Holds(c))
  PROVE  IInv'
<1>1. CASE c \in aborted
  BY <1>1, SettleNew DEF AdmitPrompt, queueVars
<1>2. CASE c \notin aborted
  <2>1. phase = "idle" /\ queue = {} /\ (lease # NoOwner => Promotes[lease] = c)
    BY DEF AdmitPrompt, hasActiveOrQueuedTurnWork, PromotionLeaseOnly, WorkPending,
           Holds
  <2>2. Handed(queue \cup {c}, lease, c, outcome)
    BY <2>1 DEF Handed, AdmitPrompt, IInv, TypeOK
  <2>3. born' \in [Cmd -> Nat]
    BY DEF AdmitPrompt, IInv, TypeOK
  <2> QED
    BY <1>2, <2>1, <2>2, <2>3, EnqueueKeepsInv DEF AdmitPrompt
<1> QED
  BY <1>1, <1>2

LEMMA SubmitKeepsInv ==
  ASSUME IInv, NEW c \in Cmd, Submit(c)
  PROVE  IInv'
<1>1. CASE c \in aborted
  BY <1>1, SettleNew DEF Submit, queueVars
<1>2. CASE c \notin aborted
  <2>1. queue \cup {c} \subseteq Cmd /\ lease \in Owner \cup {NoOwner}
        /\ born' \in [Cmd -> Nat]
    BY DEF Submit, IInv, TypeOK
  <2> QED
    BY <1>2, <2>1, PlainHanded, EnqueueKeepsInv DEF Submit
<1> QED
  BY <1>1, <1>2

LEMMA NotifyKeepsInv ==
  ASSUME IInv, NEW c \in Cmd, Notify(c)
  PROVE  IInv'
<1>1. queue \cup {c} \subseteq Cmd /\ lease \in Owner \cup {NoOwner}
      /\ born' \in [Cmd -> Nat]
  BY DEF Notify, IInv, TypeOK
<1> QED
  BY <1>1, PlainHanded, EnqueueKeepsInv DEF Notify

LEMMA ReleaseKeepsInv ==
  ASSUME IInv, NEW o \in Owner, releaseForegroundPromotionLease(o)
  PROVE  IInv'
<1>1. /\ queue \subseteq Cmd /\ outcome \in [Cmd -> Outcome] /\ Lives
      /\ arrival \in [Cmd -> Nat] /\ arrivals \in Nat /\ born \in [Cmd -> Nat]
  BY DEF IInv, TypeOK
<1>2. Frame /\ arrival' = arrival
  BY <1>1 DEF releaseForegroundPromotionLease, Frame
<1>3. phase = "idle" => Handed(queue, NoOwner, reservation, outcome)
  BY <1>1, PlainHanded
<1>4. Life(queue, outcome, arrival', batch \cup {absorbing})
  BY <1>1, <1>2 DEF Lives
<1> QED
  BY <1>1, <1>2, <1>3, <1>4, DrainKeepsInv DEF releaseForegroundPromotionLease

LEMMA LoopStepKeepsInv ==
  ASSUME IInv, LoopStep
  PROVE  IInv'
<1>1. /\ queue \subseteq Cmd /\ lease \in Owner \cup {NoOwner}
      /\ outcome \in [Cmd -> Outcome] /\ Lives
      /\ arrival \in [Cmd -> Nat] /\ arrivals \in Nat /\ born \in [Cmd -> Nat]
  BY DEF IInv, TypeOK
<1>2. Frame /\ arrival' = arrival
  BY <1>1 DEF LoopStep, Frame
<1>3. Life(queue, outcome, arrival', {})
  BY <1>1, <1>2, AtRest, ConstantsOK DEF Lives, Life, LoopStep
<1> QED
  BY <1>1, <1>2, <1>3, PlainHanded, LoopKeepsInv DEF LoopStep

-----------------------------------------------------------------------------
(* Handlers and steps that do not drain.                                   *)

LEMMA AbortKeepsInv ==
  ASSUME IInv, NEW c \in Cmd, Abort(c)
  PROVE  IInv'
<1> DEFINE waiting == c \in queue
           away == arrival[c] > 0 /\ outcome[c] = "none" /\ ~waiting
<1>1. /\ aborted' = aborted \cup {c} /\ queue' = queue \ {c}
      /\ outcome' = IF waiting THEN Settled({c}, "cancelled", outcome) ELSE outcome
      /\ reservation' = IF waiting /\ reservation = c THEN NoCmd ELSE reservation
      /\ cancelPending' = IF away THEN cancelPending \cup {c} ELSE cancelPending
      /\ stopped' = (stopped \/ lead = c)
      /\ Mode[c] \in WithInput
  BY DEF Abort
<1>2. UNCHANGED <<arrival, arrivals, lease, leaseMode, phase, lead, batch, snapshot,
                  absorbing, starts, generation, born>>
  BY DEF Abort, leaseVars, loopVars
<1>3. TypeOK /\ Shape /\ Lives /\ ReservationIsLive
  BY DEF IInv
<1>4. away => c \in batch
  BY <1>1, <1>3, ConstantsOK DEF Lives, Life, Shape, WithInput
<1>5. reservation' = reservation
  BY <1>1, <1>3 DEF ReservationIsLive, Shape, Lives, Life
<1>6. CancelMarkIsRunning'
  BY <1>1, <1>2, <1>4 DEF IInv, CancelMarkIsRunning
<1> HIDE DEF waiting, away
<1>7. outcome' \in [Cmd -> Outcome]
  BY <1>1, <1>3 DEF TypeOK, Settled, Outcome
<1>8. cancelPending' \subseteq Cmd /\ stopped' \in BOOLEAN
  BY <1>1, <1>3 DEF TypeOK
<1>9. TypeOK'
  BY <1>1, <1>2, <1>3, <1>5, <1>7, <1>8 DEF TypeOK
<1>10. Lives'
  <2>1. \A d \in Cmd : outcome'[d] = IF d = c /\ c \in queue THEN "cancelled"
                                                            ELSE outcome[d]
    BY <1>1 DEF Settled, waiting
  <2> QED
    BY <1>1, <1>2, <1>3, <2>1 DEF Lives, Life, NotRun, waiting
<1> QED
  BY <1>1, <1>2, <1>3, <1>5, <1>6, <1>9, <1>10
     DEF IInv, Shape, NoLostWakeup, Runnable, ReservationIsLive, NoBlockedStart,
         IdleLeaseIsQuiet

\* Steps that touch neither the queue nor what is being executed.
LEMMA QuietKeepsInv ==
  ASSUME IInv, Stop \/ Rewind \/ UNCHANGED vars
  PROVE  IInv'
<1>1. UNCHANGED <<queue, arrival, arrivals, cancelPending, lease, leaseMode, phase,
                  lead, batch, reservation, snapshot, absorbing, starts, outcome,
                  born, aborted>>
  BY DEF Stop, Rewind, vars, queueVars, leaseVars, execVars, loopVars, endVars
<1>2. generation' \in Nat /\ stopped' \in BOOLEAN
  <2>1. generation \in Nat /\ stopped \in BOOLEAN
    BY DEF IInv, TypeOK
  <2>2. generation' \in {generation, generation + 1}
    BY DEF Stop, Rewind, vars
  <2>3. CASE Stop
    BY <2>1, <2>2, <2>3 DEF Stop
  <2>4. CASE Rewind \/ UNCHANGED vars
    <3>1. UNCHANGED stopped
      BY <2>4 DEF Rewind, vars, execVars
    <3> QED
      BY <2>1, <2>2, <3>1
  <2> QED
    BY <2>3, <2>4
<1>3. TypeOK'
  BY <1>1, <1>2 DEF IInv, TypeOK
<1> QED
  BY <1>1, <1>3
     DEF IInv, Shape, Lives, Life, NoLostWakeup, Runnable, ReservationIsLive,
         NoBlockedStart, IdleLeaseIsQuiet, CancelMarkIsRunning

LEMMA AcquireKeepsInv ==
  ASSUME IInv, NEW o \in Owner, NEW m \in {"after-current", "idle-only"},
         acquireForegroundPromotionLease(o, m)
  PROVE  IInv'
<1>1. UNCHANGED <<queue, arrival, arrivals, cancelPending, phase, lead, batch,
                  stopped, reservation, snapshot, absorbing, starts, outcome,
                  generation, born, aborted>>
      /\ lease = NoOwner /\ lease' = o /\ leaseMode' = m
  BY DEF acquireForegroundPromotionLease, queueVars, execVars, loopVars, endVars
<1>2. IdleLeaseIsQuiet'
  BY <1>1 DEF acquireForegroundPromotionLease, WorkPending, IdleLeaseIsQuiet
<1>3. NoLostWakeup'
  <2>1. phase = "idle" => queue = {}
    BY <1>1 DEF IInv, NoLostWakeup, Runnable
  <2> QED
    BY <1>1, <2>1 DEF NoLostWakeup, Runnable
<1>4. TypeOK'
  BY <1>1 DEF IInv, TypeOK
<1> QED
  BY <1>1, <1>2, <1>3, <1>4
     DEF IInv, Shape, Lives, Life, ReservationIsLive, NoBlockedStart,
         CancelMarkIsRunning

\* An execution ends: all it served is settled, and nothing stays behind.
LEMMA FinishKeepsInv ==
  ASSUME IInv, phase \notin {"idle", "loop"}, NEW o \in {"done", "failed"}, NEW X,
         X = (batch \cup {absorbing}) \ {NoCmd},
         Finish, outcome' = Settled(X, o, outcome),
         snapshot' \subseteq Cmd, absorbing' = NoCmd
  PROVE  IInv'
<1>1. /\ phase' = "loop" /\ lead' = NoCmd /\ batch' = {} /\ stopped' = FALSE
      /\ cancelPending' = cancelPending \ batch
      /\ UNCHANGED <<queue, arrival, arrivals, lease, leaseMode, generation, born,
                     aborted, starts>>
  BY DEF Finish, leaseVars
<1>2. TypeOK /\ Lives /\ ReservationIsLive /\ CancelMarkIsRunning
  BY DEF IInv
<1>3. reservation' = NoCmd
  BY <1>2 DEF Finish, ReservationIsLive
<1>4. cancelPending' = {}
  BY <1>1, <1>2 DEF CancelMarkIsRunning
<1>5. outcome' \in [Cmd -> Outcome]
  BY <1>2 DEF TypeOK, Settled, Outcome
<1>6. TypeOK'
  BY <1>1, <1>2, <1>3, <1>4, <1>5 DEF TypeOK, Phase
<1>7. Lives'
  <2>1. \A d \in Cmd : d # NoCmd
    BY ConstantsOK
  <2>2. \A d \in Cmd : outcome'[d] = IF d \in batch \cup {absorbing} THEN o
                                                                   ELSE outcome[d]
    BY <2>1 DEF Settled
  <2> QED
    BY <1>1, <1>2, <2>1, <2>2 DEF Lives, Life, NotRun
<1>8. IdleLeaseIsQuiet'
  BY <1>1 DEF IInv, IdleLeaseIsQuiet
<1> QED
  BY <1>1, <1>3, <1>4, <1>6, <1>7, <1>8
     DEF IInv, Shape, NoLostWakeup, ReservationIsLive, NoBlockedStart,
         CancelMarkIsRunning

LEMMA FailKeepsInv ==
  ASSUME IInv, Fail
  PROVE  IInv'
<1>1. \A d \in batch : d # NoCmd
  BY ConstantsOK DEF IInv, TypeOK
<1>2. batch \cup ({absorbing} \ {NoCmd}) = (batch \cup {absorbing}) \ {NoCmd}
  BY <1>1
<1> QED
  BY <1>2, FinishKeepsInv DEF Fail

\* Outside a turn, and between two absorptions, only the batch is served.
LEMMA DoneKeepsInv ==
  ASSUME IInv, phase \notin {"idle", "loop"}, absorbing = NoCmd, Finish,
         outcome' = Settled(batch, "done", outcome),
         snapshot' \subseteq Cmd, absorbing' = NoCmd
  PROVE  IInv'
<1>1. \A d \in batch : d # NoCmd
  BY ConstantsOK DEF IInv, TypeOK
<1>2. batch = (batch \cup {absorbing}) \ {NoCmd}
  BY <1>1
<1> QED
  BY <1>2, FinishKeepsInv

LEMMA ConcludeKeepsInv ==
  ASSUME IInv, Conclude
  PROVE  IInv'
<1>1. /\ phase \notin {"idle", "loop"} /\ absorbing = NoCmd
      /\ absorbing' = NoCmd /\ snapshot' \subseteq Cmd
  BY DEF Conclude, IInv, Shape, TypeOK, loopVars
<1> QED
  BY <1>1, DoneKeepsInv DEF Conclude

\* The steps of an execution from one await to the next.
LEMMA PhaseKeepsInv ==
  ASSUME IInv, phase \notin {"idle", "loop"}, absorbing = NoCmd,
         phase' \in {"verify", "start", "turn"},
         phase' = "start" => reservation' = lead,
         phase' # "start" => reservation' = NoCmd,
         snapshot' \subseteq Cmd, absorbing' = NoCmd,
         UNCHANGED <<queueVars, leaseVars, lead, batch, stopped, endVars, generation,
                     born, aborted>>
  PROVE  IInv'
<1>1. UNCHANGED <<queue, arrival, arrivals, cancelPending, lease, leaseMode, lead,
                  batch, stopped, outcome, starts, generation, born, aborted>>
  BY DEF queueVars, leaseVars, endVars
<1>2. TypeOK /\ Shape
  BY DEF IInv
<1>3. reservation' \in Cmd \cup {NoCmd}
  BY <1>2 DEF TypeOK
<1>4. TypeOK'
  BY <1>1, <1>2, <1>3 DEF TypeOK, Phase
<1>5. Lives'
  BY <1>1 DEF IInv, Lives, Life
<1>6. IdleLeaseIsQuiet'
  BY <1>1 DEF IInv, IdleLeaseIsQuiet
<1> QED
  BY <1>1, <1>2, <1>4, <1>5, <1>6
     DEF IInv, Shape, NoLostWakeup, ReservationIsLive, NoBlockedStart,
         CancelMarkIsRunning

LEMMA TurnKeepsInv ==
  ASSUME IInv, ReserveStart \/ BeginTurn \/ EndTurn
  PROVE  IInv'
<1>1. CASE ReserveStart
  <2>1. /\ phase \notin {"idle", "loop"} /\ absorbing = NoCmd
        /\ phase' = "start" /\ reservation' = lead
        /\ snapshot' \subseteq Cmd /\ absorbing' = NoCmd
    BY <1>1 DEF ReserveStart, IInv, Shape, ReservationIsLive, TypeOK, loopVars
  <2> QED
    BY <1>1, <2>1, PhaseKeepsInv DEF ReserveStart
<1>2. CASE BeginTurn
  <2>1. /\ phase \notin {"idle", "loop"} /\ absorbing = NoCmd
        /\ phase' = "turn" /\ reservation' = NoCmd
        /\ snapshot' \subseteq Cmd /\ absorbing' = NoCmd
    BY <1>2 DEF BeginTurn, IInv, Shape, TypeOK, loopVars
  <2> QED
    BY <1>2, <2>1, PhaseKeepsInv DEF BeginTurn
<1>3. CASE EndTurn
  <2>1. /\ phase \notin {"idle", "loop"} /\ absorbing = NoCmd /\ absorbing' = NoCmd
        /\ snapshot' \subseteq Cmd /\ reservation = NoCmd
    BY <1>3 DEF EndTurn, IInv, ReservationIsLive
  <2>2. CASE Mode[lead] \in {"turn", "goal", "note"} /\ ~stopped /\ queue = {}
    <3>1. phase' = "verify" /\ reservation' = NoCmd
      BY <1>3, <2>1, <2>2 DEF EndTurn
    <3> QED
      BY <1>3, <2>1, <2>2, <3>1, PhaseKeepsInv DEF EndTurn
  <2>3. CASE ~(Mode[lead] \in {"turn", "goal", "note"} /\ ~stopped /\ queue = {})
    BY <1>3, <2>1, <2>3, DoneKeepsInv DEF EndTurn
  <2> QED
    BY <2>2, <2>3
<1> QED
  BY <1>1, <1>2, <1>3

\* One iteration over the snapshot, the command absorbed before being settled.
LEMMA AbsorbKeepsInv ==
  ASSUME IInv, phase = "turn", NEW s, s \subseteq Cmd, NEW out,
         out \in [Cmd -> Outcome], Life(queue, out, arrival, batch), Absorb(s, out)
  PROVE  IInv'
<1> DEFINE cands == {c \in BeforeControl(s) \cap queue :
                       Mode[c] \in {"note", "reply"}}
           live == {c \in cands : ~Stale(c)}
           next == First(live)
           gone == {c \in cands \ live : \A d \in next : arrival[c] < arrival[d]}
<1>1. /\ queue' = (queue \ gone) \ {absorbing'}
      /\ outcome' = Settled(gone, "dropped", out)
      /\ starts' = Started({absorbing'})
      /\ \/ next = {} /\ absorbing' = NoCmd /\ snapshot' = {}
         \/ \E d \in next : /\ absorbing' = d
                            /\ snapshot' = {c \in s : arrival[c] > arrival[d]}
  BY DEF Absorb
<1>2. UNCHANGED <<arrival, arrivals, cancelPending, lease, leaseMode, phase, lead,
                  batch, stopped, reservation, generation, born, aborted>>
  BY DEF Absorb, leaseVars, execVars
<1>3. /\ gone \subseteq queue /\ queue \subseteq Cmd
      /\ \A d \in next : d \in queue /\ d \notin gone /\ Mode[d] \in {"note", "reply"}
  BY DEF First, IInv, TypeOK
<1> HIDE DEF next, gone
<1>4. /\ snapshot' \subseteq Cmd
      /\ absorbing' # NoCmd => /\ absorbing' \in queue /\ absorbing' \notin gone
                              /\ Mode[absorbing'] \in {"note", "reply"}
  BY <1>1, <1>3
<1>5. TypeOK /\ Shape /\ ConstantsOK
  BY ConstantsOK DEF IInv
<1>6. TypeOK'
  <2>1. outcome' \in [Cmd -> Outcome] /\ starts' \in [Cmd -> Nat]
    BY <1>1, <1>5 DEF Settled, Started, Outcome, TypeOK
  <2>2. queue' \subseteq Cmd /\ absorbing' \in Cmd \cup {NoCmd}
    BY <1>1, <1>3, <1>4
  <2> QED
    BY <1>2, <1>4, <1>5, <2>1, <2>2 DEF TypeOK
<1>7. Lives'
  <2>1. \A c \in Cmd : /\ outcome'[c] = IF c \in gone THEN "dropped" ELSE out[c]
                       /\ starts'[c] = IF c = absorbing' THEN starts[c] + 1
                                                         ELSE starts[c]
                       /\ c # NoCmd
    BY <1>1, <1>5 DEF Settled, Started, ConstantsOK
  <2>2. starts \in [Cmd -> Nat]
    BY <1>5 DEF TypeOK
  <2>3. queue' = (queue \ gone) \ {absorbing'} /\ batch' = batch /\ arrival' = arrival
    BY <1>1, <1>2
  <2> QED
    BY <1>3, <1>4, <2>1, <2>2, <2>3 DEF Lives, Life, NotRun
<1> QED
  BY <1>2, <1>4, <1>6, <1>7
     DEF IInv, Shape, NoLostWakeup, ReservationIsLive, NoBlockedStart,
         IdleLeaseIsQuiet, CancelMarkIsRunning

LEMMA AbsorbingKeepsInv ==
  ASSUME IInv, drainPendingRuntimeCommandsForActiveLoop \/ Absorbed
  PROVE  IInv'
<1>1. /\ queue \subseteq Cmd /\ snapshot \subseteq Cmd /\ outcome \in [Cmd -> Outcome]
      /\ Lives /\ Shape
  BY DEF IInv, TypeOK
<1>2. CASE drainPendingRuntimeCommandsForActiveLoop
  <2>1. Life(queue, outcome, arrival, batch) /\ phase = "turn"
    BY <1>1, <1>2, ConstantsOK
       DEF Lives, Life, drainPendingRuntimeCommandsForActiveLoop
  <2> QED
    BY <1>1, <1>2, <2>1, AbsorbKeepsInv DEF drainPendingRuntimeCommandsForActiveLoop
<1>3. CASE Absorbed
  <2> DEFINE out == Settled({absorbing}, "absorbed", outcome)
  <2>1. phase = "turn"
    BY <1>1, <1>3 DEF Absorbed, Shape
  <2>2. out \in [Cmd -> Outcome]
    BY <1>1 DEF Settled, Outcome
  <2>3. \A c \in Cmd : out[c] = IF c = absorbing THEN "absorbed" ELSE outcome[c]
    BY DEF Settled
  <2>4. Absorb(snapshot, out)
    BY <1>3 DEF Absorbed
  <2> HIDE DEF out
  <2>5. Life(queue, out, arrival, batch)
    BY <1>1, <2>3 DEF Lives, Life, NotRun
  <2> QED
    BY <1>1, <2>1, <2>2, <2>4, <2>5, AbsorbKeepsInv
<1> QED
  BY <1>2, <1>3

-----------------------------------------------------------------------------
(* The theorems.                                                           *)

LEMMA InitInv == Init => IInv
<1> SUFFICES ASSUME Init PROVE IInv
  OBVIOUS
<1>1. TypeOK
  BY DEF Init, TypeOK, Phase, Outcome
<1>2. Lives
  <2>1. \A c \in Cmd : arrival[c] = 0 /\ starts[c] = 0 /\ outcome[c] = "none"
    BY DEF Init
  <2>2. \A c \in Cmd : c \notin queue /\ c \notin batch \cup {absorbing}
    BY ConstantsOK DEF Init
  <2>3. ASSUME NEW c \in Cmd
        PROVE  ~(arrival[c] > 0) /\ starts[c] <= 1 /\ outcome[c] \notin NotRun
    <3>1. arrival[c] = 0 /\ starts[c] = 0 /\ outcome[c] = "none"
      BY <2>1
    <3>2. ~(arrival[c] > 0)
      BY <3>1
    <3>3. starts[c] <= 1
      BY <3>1
    <3>4. outcome[c] \notin NotRun
      BY <3>1 DEF NotRun
    <3> QED
      BY <3>2, <3>3, <3>4
  <2> QED
    BY <2>1, <2>2, <2>3 DEF Lives, Life
<1> QED
  BY <1>1, <1>2
     DEF Init, IInv, Shape, NoLostWakeup, Runnable, ReservationIsLive,
         NoBlockedStart, IdleLeaseIsQuiet, CancelMarkIsRunning

LEMMA StepInv == IInv /\ [Next]_vars => IInv'
<1> SUFFICES ASSUME IInv, [Next]_vars PROVE IInv'
  OBVIOUS
<1>1. CASE Execution
  BY <1>1, LoopStepKeepsInv, FailKeepsInv, ConcludeKeepsInv, TurnKeepsInv,
     AbsorbingKeepsInv DEF Execution
<1>2. ASSUME NEW c \in Cmd, AdmitPrompt(c, Holds(c)) PROVE IInv'
  BY <1>2, AdmitPromptKeepsInv
<1>3. ASSUME NEW c \in Cmd, AdmitBusy(c, Holds(c)) PROVE IInv'
  BY <1>3, SettleNew DEF AdmitBusy
<1>4. ASSUME NEW c \in Cmd, Submit(c) \/ Notify(c) \/ Abort(c) PROVE IInv'
  BY <1>4, SubmitKeepsInv, NotifyKeepsInv, AbortKeepsInv
<1>5. ASSUME NEW o \in Owner, NEW m \in {"after-current", "idle-only"},
             acquireForegroundPromotionLease(o, m)
      PROVE  IInv'
  BY <1>5, AcquireKeepsInv
<1>6. ASSUME NEW o \in Owner, releaseForegroundPromotionLease(o) PROVE IInv'
  BY <1>6, ReleaseKeepsInv
<1>7. CASE Stop \/ Rewind \/ UNCHANGED vars
  BY <1>7, QuietKeepsInv
<1> QED
  BY <1>1, <1>2, <1>3, <1>4, <1>5, <1>6, <1>7 DEF Next

\* The inductive invariant of the queue, its loop and its leases.
THEOREM QueueInvariance == Spec => []IInv
<1> QED
  BY InitInv, StepInv, PTL DEF Spec

\* Every variable of the queue, its executions and its leases keeps its type.
THEOREM TypeCorrect == Spec => []TypeOK
<1>1. IInv => TypeOK
  BY DEF IInv
<1> QED
  BY <1>1, QueueInvariance, PTL

\* Whatever the handlers interleave, the queue never waits with the loop at
\* rest and a command it may take.
THEOREM WakeupsAreKept == Spec => []NoLostWakeup
<1>1. IInv => NoLostWakeup
  BY DEF IInv
<1> QED
  BY <1>1, QueueInvariance, PTL

\* No start reservation outlives the execution it was made for.
THEOREM ReservationsEnd == Spec => []ReservationIsLive
<1>1. IInv => ReservationIsLive
  BY DEF IInv
<1> QED
  BY <1>1, QueueInvariance, PTL

\* No execution is refused its start, whoever reserved one before.
THEOREM StartsAreNeverRefused == Spec => []NoBlockedStart
<1>1. IInv => NoBlockedStart
  BY DEF IInv
<1> QED
  BY <1>1, QueueInvariance, PTL

\* Under an idle-only lease the loop rests, and cancel marks do not leak.
THEOREM LeasesAndMarks == Spec => [](IdleLeaseIsQuiet /\ CancelMarkIsRunning)
<1>1. IInv => IdleLeaseIsQuiet /\ CancelMarkIsRunning
  BY DEF IInv
<1> QED
  BY <1>1, QueueInvariance, PTL

\* A command is handed to an execution at most once, and never once it was
\* cancelled, dropped or refused.
THEOREM DeliveryAtMostOnce == Spec => []DeliveredOnce
<1>1. IInv => DeliveredOnce
  BY DEF IInv, Lives, Life, NotRun, DeliveredOnce
<1> QED
  BY <1>1, QueueInvariance, PTL

-----------------------------------------------------------------------------
(* The order of notifications and replies.  Insertion numbers are handed   *)
(* out once, and the snapshot of an absorbing turn leaves out no waiting   *)
(* command of a branch that arrived before one it holds.                   *)

Absorbable == {"note", "reply"}

Numbered ==
  /\ \A c \in Cmd : arrival[c] <= arrivals
  /\ \A c, d \in Cmd : arrival[c] = arrival[d] /\ arrival[c] > 0 => c = d

SnapshotIsAhead ==
  /\ \A d \in snapshot : arrival[d] > 0
  /\ absorbing # NoCmd =>
       \A c \in queue : Mode[c] \in Absorbable =>
         \/ c \in snapshot
         \/ \A d \in snapshot \cup {absorbing} : arrival[d] < arrival[c]

OInv == Numbered /\ SnapshotIsAhead /\ SameKindInOrder

\* SameKindInOrder over a queue q.
InOrder(q) ==
  \A c, d \in Cmd :
    /\ Mode[c] = Mode[d] /\ Mode[c] \in OfBranch
    /\ c \in q /\ arrival'[c] < arrival'[d]
    => starts[d] = 0

\* Commands leave the queue without being started, and nothing arrives.
LEMMA LeavingKeepsOrder ==
  ASSUME IInv, OInv, queue' \subseteq queue, UNCHANGED <<arrival, arrivals, starts>>,
         (absorbing' = NoCmd /\ snapshot' = {}) \/ UNCHANGED loopVars
  PROVE  OInv'
<1>1. Numbered'
  BY DEF OInv, Numbered
<1>2. SnapshotIsAhead'
  BY DEF OInv, SnapshotIsAhead, loopVars
<1>3. SameKindInOrder'
  BY DEF OInv, SameKindInOrder
<1> QED
  BY <1>1, <1>2, <1>3 DEF OInv

\* One iteration of the loop takes the oldest command of a queue, or, under a
\* lease, a command of no branch.
LEMMA LoopKeepsOrder ==
  ASSUME IInv, phase \in {"idle", "loop"}, NEW q, NEW l, NEW res, NEW out,
         q \subseteq Cmd, l \in Owner \cup {NoOwner},
         l = NoOwner => \A c \in First(q), d \in q : arrival'[c] <= arrival'[d],
         arrival' \in [Cmd -> Nat], Numbered', InOrder(q), UNCHANGED loopVars,
         \A d \in snapshot : arrival'[d] > 0, LoopIteration(q, l, res, out)
  PROVE  OInv'
<1>1. SnapshotIsAhead'
  BY AtRest DEF SnapshotIsAhead, loopVars
<1>2. ASSUME queue' \subseteq q, UNCHANGED starts
      PROVE  SameKindInOrder'
  BY <1>2 DEF SameKindInOrder, InOrder
<1>3. CASE LeaveLoop(q, l, res, out)
  BY <1>1, <1>2, <1>3 DEF LeaveLoop, OInv
<1>4. ASSUME NEW c \in First(Runnable(q, l)),
             SkipCancelled(c, q, res, out) \/ DropStale(c, q, res, out)
      PROVE  OInv'
  BY <1>1, <1>2, <1>4 DEF SkipCancelled, DropStale, OInv
<1>5. ASSUME NEW c \in First(Runnable(q, l)), BeginExecution(c, q, res, out)
      PROVE  OInv'
  <2> DEFINE b == BatchOf(c, q)
             live == {d \in b : ~Stale(d)}
  <2>1. /\ queue' = q \ b /\ starts' = Started(live) /\ live \subseteq b
    BY <1>5 DEF BeginExecution
  <2>2. /\ c \in q
        /\ Mode[c] # "note" => b = {c}
        /\ l # NoOwner => c = Promotes[l]
    BY Taken
  <2>3. Mode[c] = "note" => b = {d \in q : Mode[d] = "note"}
    BY DEF BatchOf
  <2>4. ASSUME NEW x \in Cmd, NEW d \in live, x \in q \ b,
               Mode[x] = Mode[d], Mode[x] \in OfBranch
        PROVE  ~(arrival'[x] < arrival'[d])
    <3>1. Mode[c] # "note"
      BY <2>1, <2>3, <2>4
    <3>2. d = c
      BY <3>1, <2>1, <2>2
    <3>3. l = NoOwner
      BY <2>2, <2>4, <3>2, ConstantsOK DEF WithInput, OfBranch
    <3>4. c \in First(q)
      BY <3>3 DEF Runnable
    <3> QED
      BY <2>2, <2>4, <3>2, <3>3, <3>4
  <2> HIDE DEF live, b
  <2>5. \A d \in Cmd : starts'[d] = IF d \in live THEN starts[d] + 1 ELSE starts[d]
    BY <2>1 DEF Started
  <2>6. SameKindInOrder'
    BY <2>1, <2>4, <2>5 DEF SameKindInOrder, InOrder
  <2> QED
    BY <1>1, <2>6 DEF OInv
<1> QED
  BY <1>3, <1>4, <1>5 DEF LoopIteration, DequeueNext

\* A new command arrives after all others, and is the only one the loop at
\* rest may take.
LEMMA EnqueueKeepsOrder ==
  ASSUME IInv, OInv, NEW c \in Cmd, New(c), NEW res, Enqueue(c, res),
         UNCHANGED loopVars
  PROVE  OInv'
<1>1. /\ arrival \in [Cmd -> Nat] /\ arrivals \in Nat /\ queue \subseteq Cmd
      /\ lease \in Owner \cup {NoOwner} /\ snapshot \subseteq Cmd
      /\ absorbing \in Cmd \cup {NoCmd} /\ starts[c] = 0 /\ arrival[c] = 0
  BY DEF IInv, TypeOK, Lives, Life, New
<1>2. /\ arrival' \in [Cmd -> Nat] /\ arrivals' = arrivals + 1
      /\ arrival'[c] = arrivals + 1 /\ \A d \in Cmd \ {c} : arrival'[d] = arrival[d]
  BY <1>1 DEF Enqueue
<1>3. Numbered /\ SnapshotIsAhead /\ SameKindInOrder
  BY DEF OInv
<1>4. \A d \in Cmd \ {c} : arrival'[d] < arrival'[c]
  BY <1>1, <1>2, <1>3 DEF Numbered
<1>5. Numbered'
  BY <1>1, <1>2, <1>3, <1>4 DEF Numbered
<1>a. \A d \in snapshot : arrival'[d] > 0
  BY <1>1, <1>2, <1>3 DEF SnapshotIsAhead
<1>6. InOrder(queue \cup {c})
  BY <1>1, <1>2, <1>3, <1>4 DEF InOrder, SameKindInOrder
<1>7. CASE phase = "idle"
  <2>1. LoopIteration(queue \cup {c}, lease, res, outcome)
    BY <1>7 DEF Enqueue, Drain
  <2>2. lease = NoOwner => queue = {}
    BY <1>7 DEF IInv, NoLostWakeup, Runnable
  <2>3. lease = NoOwner => \A d \in First(queue \cup {c}), e \in queue \cup {c} :
                             arrival'[d] <= arrival'[e]
    BY <1>2, <2>2 DEF First
  <2> QED
    BY <1>1, <1>2, <1>5, <1>6, <1>7, <1>a, <2>1, <2>3, LoopKeepsOrder
<1>8. CASE phase # "idle"
  <2>1. queue' = queue \cup {c} /\ UNCHANGED starts
    BY <1>8 DEF Enqueue, Drain
  <2>2. SameKindInOrder'
    BY <1>6, <2>1 DEF InOrder, SameKindInOrder
  <2>3. SnapshotIsAhead'
    <3> SUFFICES ASSUME absorbing # NoCmd, NEW d \in queue',
                        Mode[d] \in Absorbable, d \notin snapshot,
                        NEW e \in snapshot \cup {absorbing}
                 PROVE  arrival'[e] < arrival'[d]
      BY <1>a DEF SnapshotIsAhead, loopVars
    <3>1. e \in Cmd /\ e # c
      <4>1. absorbing # c
        BY <1>1 DEF IInv, Lives, Life
      <4>2. c \notin snapshot
        BY <1>1, <1>3 DEF SnapshotIsAhead
      <4> QED
        BY <1>1, <4>1, <4>2
    <3> QED
      BY <1>1, <1>2, <1>3, <1>4, <2>1, <3>1 DEF SnapshotIsAhead
  <2> QED
    BY <1>5, <2>2, <2>3 DEF OInv
<1> QED
  BY <1>7, <1>8

\* The active turn takes the oldest live notification or reply it may, drops
\* the stale ones before it, and looks on from there.
LEMMA AbsorbKeepsOrder ==
  ASSUME IInv, Numbered, SameKindInOrder, NEW s, s \subseteq Cmd, NEW out,
         \A d \in s : arrival[d] > 0,
         \A c \in queue, d \in s :
           Mode[c] \in Absorbable => c \in s \/ arrival[d] < arrival[c],
         Absorb(s, out)
  PROVE  OInv'
<1> DEFINE cands == {c \in BeforeControl(s) \cap queue : Mode[c] \in Absorbable}
           live == {c \in cands : ~Stale(c)}
           next == First(live)
           gone == {c \in cands \ live : \A d \in next : arrival[c] < arrival[d]}
<1>1. /\ queue' = (queue \ gone) \ {absorbing'}
      /\ starts' = Started({absorbing'})
      /\ \/ next = {} /\ absorbing' = NoCmd /\ snapshot' = {}
         \/ \E d \in next : /\ absorbing' = d
                            /\ snapshot' = {c \in s : arrival[c] > arrival[d]}
      /\ UNCHANGED <<arrival, arrivals>>
  BY DEF Absorb, Absorbable
<1>2. /\ arrival \in [Cmd -> Nat] /\ queue \subseteq Cmd /\ starts \in [Cmd -> Nat]
      /\ \A c \in Cmd : c # NoCmd
  BY ConstantsOK DEF IInv, TypeOK
<1>3. Numbered'
  BY <1>1 DEF Numbered
<1>4. CASE absorbing' = NoCmd
  <2>1. snapshot' = {}
    BY <1>1, <1>2, <1>4 DEF First
  <2>2. starts' = [c \in Cmd |-> starts[c]]
    BY <1>1, <1>2, <1>4 DEF Started
  <2>3. SameKindInOrder'
    BY <1>1, <2>2 DEF SameKindInOrder
  <2> QED
    BY <1>3, <1>4, <2>1, <2>3 DEF OInv, SnapshotIsAhead
<1>5. CASE absorbing' # NoCmd
  <2>1. PICK d \in next : /\ absorbing' = d
                          /\ snapshot' = {c \in s : arrival[c] > arrival[d]}
    BY <1>1, <1>5
  <2>2. /\ d \in s /\ d \in queue /\ Mode[d] \in Absorbable /\ ~Stale(d)
        /\ \A k \in s : Mode[k] = "control" => arrival[d] < arrival[k]
        /\ \A e \in live : arrival[d] <= arrival[e]
        /\ \A e \in next : arrival[e] = arrival[d]
    <3>1. d \in live /\ \A e \in live : arrival[d] <= arrival[e]
      BY DEF First
    <3>2. \A e \in next : e \in live /\ arrival[e] <= arrival[d]
      BY <3>1 DEF First
    <3>3. \A e \in next : arrival[e] = arrival[d]
      <4>1. \A e \in live : arrival[e] \in Nat
        BY <1>2
      <4> QED
        BY <3>1, <3>2, <4>1
    <3>4. d \in BeforeControl(s) /\ d \in queue /\ Mode[d] \in Absorbable /\ ~Stale(d)
      BY <3>1
    <3>5. d \in s /\ \A k \in s : Mode[k] = "control" => arrival[d] < arrival[k]
      BY <3>4 DEF BeforeControl
    <3> HIDE DEF live, next
    <3> QED
      BY <3>1, <3>3, <3>4, <3>5
  \* A waiting command of the kinds absorbed that stays arrived later.
  <2>3. ASSUME NEW c \in queue', Mode[c] \in Absorbable
        PROVE  arrival[d] < arrival[c] /\ c \in queue
    <3>1. c \in queue /\ c \notin gone /\ c # d
      BY <1>1, <2>1
    <3>2. CASE c \notin s
      BY <2>2, <2>3, <3>1, <3>2
    <3>3. CASE c \in s /\ arrival[c] < arrival[d]
      <4>1. c \in cands
        BY <1>2, <2>2, <2>3, <3>1, <3>3 DEF BeforeControl
      <4>2. c \notin live
        BY <1>2, <2>2, <3>1, <3>3
      <4> QED
        BY <2>2, <3>1, <3>3, <4>1, <4>2
    <3>4. arrival[c] # arrival[d]
      BY <1>2, <2>2, <3>1 DEF Numbered
    <3> QED
      BY <1>2, <2>2, <3>1, <3>2, <3>3, <3>4
  <2> HIDE DEF next, gone, live, cands
  <2>4. SnapshotIsAhead'
    <3> SUFFICES ASSUME NEW c \in queue', Mode[c] \in Absorbable, c \notin snapshot',
                        NEW e \in snapshot' \cup {d}
                 PROVE  arrival'[e] < arrival'[c]
      BY <1>1, <2>1 DEF SnapshotIsAhead
    <3>1. arrival[d] < arrival[c] /\ c \in queue
      BY <2>3
    <3>2. c \notin s
      BY <2>1, <3>1
    <3> QED
      BY <1>1, <2>1, <3>1, <3>2
  <2>5. SameKindInOrder'
    <3>1. \A c \in Cmd : starts'[c] = IF c = d THEN starts[c] + 1 ELSE starts[c]
      BY <1>1, <2>1 DEF Started
    <3>2. \A c \in queue' : Mode[c] = Mode[d] => ~(arrival[c] < arrival[d])
      BY <1>2, <2>2, <2>3, <1>1
    <3> QED
      BY <1>1, <3>1, <3>2 DEF SameKindInOrder
  <2> QED
    BY <1>3, <2>4, <2>5 DEF OInv
<1> QED
  BY <1>4, <1>5

LEMMA AbsorbingKeepsOrder ==
  ASSUME IInv, OInv, drainPendingRuntimeCommandsForActiveLoop \/ Absorbed
  PROVE  OInv'
<1>1. queue \subseteq Cmd /\ snapshot \subseteq Cmd /\ Numbered /\ SameKindInOrder
  BY DEF IInv, TypeOK, OInv
<1>2. CASE drainPendingRuntimeCommandsForActiveLoop
  <2>1. \A d \in queue : arrival[d] > 0
    BY <1>1 DEF IInv, Lives, Life
  <2> QED
    BY <1>1, <1>2, <2>1, AbsorbKeepsOrder
       DEF drainPendingRuntimeCommandsForActiveLoop
<1>3. CASE Absorbed
  <2>1. /\ \A d \in snapshot : arrival[d] > 0
        /\ \A c \in queue, d \in snapshot :
             Mode[c] \in Absorbable => c \in snapshot \/ arrival[d] < arrival[c]
    BY <1>3 DEF Absorbed, OInv, SnapshotIsAhead
  <2> QED
    BY <1>1, <1>3, <2>1, AbsorbKeepsOrder DEF Absorbed
<1> QED
  BY <1>2, <1>3

LEMMA StepKeepsOrder == IInv /\ OInv /\ [Next]_vars => OInv'
<1> SUFFICES ASSUME IInv, OInv, [Next]_vars PROVE OInv'
  OBVIOUS
<1>0. /\ arrival \in [Cmd -> Nat] /\ queue \subseteq Cmd
      /\ lease \in Owner \cup {NoOwner} /\ Numbered
      /\ InOrder(queue) \/ arrival' # arrival
      /\ \A d \in snapshot : arrival[d] > 0
  BY DEF IInv, TypeOK, OInv, InOrder, SameKindInOrder, SnapshotIsAhead
<1>1. CASE LoopStep
  <2>1. /\ UNCHANGED <<arrival, arrivals>> /\ UNCHANGED loopVars
        /\ phase = "loop" /\ LoopIteration(queue, lease, reservation, outcome)
    BY <1>1 DEF LoopStep
  <2>2. /\ Numbered' /\ InOrder(queue) /\ arrival' \in [Cmd -> Nat]
        /\ \A d \in snapshot : arrival'[d] > 0
    BY <1>0, <2>1 DEF Numbered
  <2>3. lease = NoOwner => \A c \in First(queue), d \in queue : arrival'[c] <= arrival'[d]
    BY <2>1 DEF First
  <2> QED
    BY <1>0, <2>1, <2>2, <2>3, LoopKeepsOrder
<1>2. ASSUME NEW o \in Owner, releaseForegroundPromotionLease(o)
      PROVE  OInv'
  <2>1. UNCHANGED <<arrival, arrivals>> /\ UNCHANGED loopVars
    BY <1>2 DEF releaseForegroundPromotionLease
  <2>2. CASE phase = "idle"
    <3>1. LoopIteration(queue, NoOwner, reservation, outcome)
      BY <1>2, <2>2 DEF releaseForegroundPromotionLease, Drain
    <3>2. /\ Numbered' /\ InOrder(queue) /\ arrival' \in [Cmd -> Nat]
          /\ \A d \in snapshot : arrival'[d] > 0
      BY <1>0, <2>1 DEF Numbered
    <3>3. \A c \in First(queue), d \in queue : arrival'[c] <= arrival'[d]
      BY <2>1 DEF First
    <3> QED
      BY <1>0, <2>1, <2>2, <3>1, <3>2, <3>3, LoopKeepsOrder
  <2>3. CASE phase # "idle"
    <3>1. UNCHANGED <<queue, starts>>
      BY <1>2, <2>3 DEF releaseForegroundPromotionLease, Drain
    <3> QED
      BY <2>1, <3>1, LeavingKeepsOrder
  <2> QED
    BY <2>2, <2>3
<1>3. CASE Fail \/ Conclude \/ ReserveStart \/ BeginTurn \/ EndTurn
  <2>1. /\ queue' \subseteq queue /\ UNCHANGED <<arrival, arrivals, starts>>
        /\ (absorbing' = NoCmd /\ snapshot' = {}) \/ UNCHANGED loopVars
    BY <1>3 DEF Fail, Conclude, ReserveStart, BeginTurn, EndTurn, Finish, queueVars,
                endVars
  <2> QED
    BY <2>1, LeavingKeepsOrder
<1>4. CASE drainPendingRuntimeCommandsForActiveLoop \/ Absorbed
  BY <1>4, AbsorbingKeepsOrder
<1>5. ASSUME NEW c \in Cmd, NEW res, New(c), Enqueue(c, res), UNCHANGED loopVars
      PROVE  OInv'
  BY <1>5, EnqueueKeepsOrder
<1>6. ASSUME NEW c \in Cmd,
             \/ AdmitPrompt(c, Holds(c)) \/ AdmitBusy(c, Holds(c))
             \/ Submit(c) \/ Notify(c) \/ Abort(c)
      PROVE  OInv'
  <2>1. CASE \E res : New(c) /\ Enqueue(c, res) /\ UNCHANGED loopVars
    BY <2>1, <1>5
  <2>2. CASE /\ queue' \subseteq queue /\ UNCHANGED <<arrival, arrivals, starts>>
             /\ UNCHANGED loopVars
    BY <2>2, LeavingKeepsOrder
  <2> QED
    BY <1>6, <2>1, <2>2
       DEF AdmitPrompt, AdmitBusy, Submit, Notify, Abort, queueVars
<1>7. CASE \/ Stop \/ Rewind \/ UNCHANGED vars
           \/ \E o \in Owner : \E m \in {"after-current", "idle-only"} :
                acquireForegroundPromotionLease(o, m)
  <2>1. UNCHANGED <<queue, arrival, arrivals, starts>> /\ UNCHANGED loopVars
    BY <1>7 DEF Stop, Rewind, acquireForegroundPromotionLease, vars, queueVars,
                endVars
  <2> QED
    BY <2>1, LeavingKeepsOrder
<1> QED
  BY <1>1, <1>2, <1>3, <1>4, <1>6, <1>7 DEF Next, Execution

\* Notifications, replies and control turns reach the model in the order of
\* their arrival, each kind for itself, batched or absorbed.
THEOREM OrderOfArrival == Spec => []SameKindInOrder
<1>1. Init => OInv
  <2> SUFFICES ASSUME Init PROVE OInv
    OBVIOUS
  <2>1. arrivals = 0 /\ \A c \in Cmd : arrival[c] = 0
    BY DEF Init
  <2>2. ASSUME NEW c \in Cmd
        PROVE  ~(arrival[c] > 0) /\ arrival[c] <= arrivals
    <3>1. arrival[c] = 0 /\ arrivals = 0
      BY <2>1
    <3> QED
      BY <3>1
  <2> QED
    BY <2>2 DEF Init, OInv, Numbered, SnapshotIsAhead, SameKindInOrder
<1>2. OInv => SameKindInOrder
  BY DEF OInv
<1> QED
  BY <1>1, <1>2, QueueInvariance, StepKeepsOrder, PTL DEF Spec

\* An iteration of the loop under a lease starts the promoted command.
LEMMA IterationUnderLease ==
  ASSUME IInv, NEW q, q \subseteq Cmd, NEW res, NEW out, lease # NoOwner,
         LoopIteration(q, lease, res, out), lead' # NoCmd
  PROVE  lease' = NoOwner /\ lead' = Promotes[lease]
<1>1. PICK c \in First(Runnable(q, lease)) :
        /\ lease' = NoOwner
        /\ \/ SkipCancelled(c, q, res, out)
           \/ DropStale(c, q, res, out)
           \/ BeginExecution(c, q, res, out)
  BY DEF LoopIteration, LeaveLoop, DequeueNext
<1>2. c = Promotes[lease] /\ BatchOf(c, q) = {c}
  <2>1. lease \in Owner
    BY DEF IInv, TypeOK
  <2>2. Mode[Promotes[lease]] \in WithInput
    BY <2>1, ConstantsOK
  <2> QED
    BY <2>2, Taken DEF WithInput
<1>3. BeginExecution(c, q, res, out)
  BY <1>1 DEF SkipCancelled, DropStale
<1> QED
  BY <1>1, <1>2, <1>3 DEF BeginExecution, First

\* A lease gives the start to the command it promotes and to no other.
THEOREM LeaseIsExclusive == Spec => OnlyPromotedStarts
<1> DEFINE P == (lease # NoOwner /\ lead' \notin {lead, NoCmd}
                 /\ (lease' = lease \/ Promotes[lease] \in queue))
                  => lead' = Promotes[lease]
<1>1. IInv /\ [Next]_vars => [P]_vars
  <2> SUFFICES ASSUME IInv, Next, lease # NoOwner, lead' # lead, lead' # NoCmd,
                      lease' = lease \/ Promotes[lease] \in queue
               PROVE  lead' = Promotes[lease]
    BY DEF vars, execVars
  <2>1. queue \subseteq Cmd
    BY DEF IInv, TypeOK
  <2>2. ASSUME NEW c \in Cmd, NEW res, Enqueue(c, res) PROVE lead' = Promotes[lease]
    <3>1. phase = "idle" /\ LoopIteration(queue \cup {c}, lease, res, outcome)
      BY <2>2 DEF Enqueue, Drain
    <3> QED
      BY <2>1, <3>1, IterationUnderLease
  <2>3. CASE LoopStep
    BY <2>1, <2>3, IterationUnderLease DEF LoopStep
  <2>4. ASSUME NEW o \in Owner, releaseForegroundPromotionLease(o)
        PROVE  FALSE
    <3>1. phase = "idle"
      BY <2>4 DEF releaseForegroundPromotionLease, Drain
    <3>2. Promotes[lease] \notin queue
      BY <3>1 DEF IInv, NoLostWakeup, Runnable
    <3>3. lease' = NoOwner
      BY <2>4, <3>1
         DEF releaseForegroundPromotionLease, Drain, LoopIteration, LeaveLoop,
             DequeueNext
    <3> QED
      BY <3>2, <3>3
  <2>5. Next => \/ \E c \in Cmd : \E res \in Cmd \cup {NoCmd} : Enqueue(c, res)
                \/ LoopStep
                \/ \E o \in Owner : releaseForegroundPromotionLease(o)
                \/ lead' \in {lead, NoCmd}
    <3>1. Execution => LoopStep \/ lead' \in {lead, NoCmd}
      BY DEF Execution, Fail, Conclude, ReserveStart, BeginTurn, EndTurn, Absorbed,
             drainPendingRuntimeCommandsForActiveLoop, Absorb, Finish, execVars
    <3>2. ASSUME NEW c \in Cmd,
                 \/ AdmitPrompt(c, Holds(c)) \/ AdmitBusy(c, Holds(c))
                 \/ Submit(c) \/ Notify(c) \/ Abort(c)
          PROVE  \/ \E res \in Cmd \cup {NoCmd} : Enqueue(c, res)
                 \/ lead' \in {lead, NoCmd}
      <4>1. reservation \in Cmd \cup {NoCmd}
        BY DEF IInv, TypeOK
      <4> QED
        BY <3>2, <4>1 DEF AdmitPrompt, AdmitBusy, Submit, Notify, Abort, execVars
    <3>3. ASSUME NEW o \in Owner, NEW m \in {"after-current", "idle-only"},
                 acquireForegroundPromotionLease(o, m)
          PROVE  lead' = lead
      BY <3>3 DEF acquireForegroundPromotionLease, execVars
    <3>4. Stop \/ Rewind => lead' = lead
      BY DEF Stop, Rewind, execVars
    <3> QED
      BY <3>1, <3>2, <3>3, <3>4 DEF Next
  <2> QED
    BY <2>2, <2>3, <2>4, <2>5
<1> QED
  BY <1>1, QueueInvariance, PTL DEF Spec, OnlyPromotedStarts
=============================================================================
