------------------------ MODULE RuntimeCommandQueue ------------------------
(***************************************************************************)
(* The in-memory command queue of one agent runtime and the drain loop     *)
(* that executes it (core/src/runtime: command-queue.ts and                *)
(* methods/runtime-command-queue.ts, runtime-command-submit.ts,            *)
(* prompt-admission.ts, runtime-command-active-loop.ts), with the start    *)
(* reservation of a turn (methods/steering.ts) and the foreground          *)
(* promotion lease.                                                        *)
(*                                                                         *)
(* Every producer passes priority "next", so the queue is a FIFO: queue is *)
(* the set of waiting commands and arrival their insertion number.  What   *)
(* runs between two awaits is one action.  A lease is held by an Owner, one*)
(* attempt to promote the input of a command ahead of the queue.           *)
(***************************************************************************)
EXTENDS Naturals

CONSTANTS
  Cmd,            \* commands of the runtime
  Mode,           \* the mode of a command, see Modes
  Owner,          \* attempts to promote an input (lease ids)
  Promotes,       \* the command whose inputId a lease promotes
  MaxGeneration,  \* bound on conversation rewinds
  NoCmd, NoOwner

\* "prompt" is admitted by admitPrompt and holds a start reservation, "turn"
\* comes from executeTurn, "goal" from continueActiveTargetLoop, "note" is a
\* task-notification, "reply" a subagent-message, "control" a
\* control-only-turn.
Modes == {"prompt", "turn", "goal", "note", "reply", "control"}
WithInput  == {"prompt", "turn", "goal"}
OfBranch   == {"note", "reply", "control"}

ASSUME ConstantsOK ==
  /\ Mode \in [Cmd -> Modes]
  /\ Promotes \in [Owner -> {c \in Cmd : Mode[c] \in WithInput}]
  /\ MaxGeneration \in Nat
  /\ NoCmd \notin Cmd /\ NoOwner \notin Owner

VARIABLES
  queue,          \* commands waiting
  arrival,        \* insertion number of a command, 0 when never queued
  arrivals,       \* insertions so far
  cancelPending,  \* cancelPendingCommandIds
  lease,          \* foregroundPromotionLease: its owner
  leaseMode,      \* the mode the lease was acquired with
  phase,          \* where the drain loop is; "idle" is not drainActive
  lead,           \* activeForegroundExecution: the command it was begun for
  batch,          \* the commands the current execution serves
  stopped,        \* the controller of the current execution is aborted
  reservation,    \* activeTurnStartReservation: the command it was made for
  snapshot,       \* commands the active loop has still to look at
  absorbing,      \* the command the active loop is persisting
  generation,     \* branchGeneration
  born,           \* branchGeneration of a command
  aborted,        \* commands whose caller aborted its signal
  outcome,        \* how a command ended
  starts          \* how often a command was handed to an execution

queueVars == <<queue, arrival, arrivals, cancelPending>>
leaseVars == <<lease, leaseMode>>
execVars  == <<phase, lead, batch, stopped, reservation>>
loopVars  == <<snapshot, absorbing>>
endVars   == <<outcome, starts>>
vars == <<queueVars, leaseVars, execVars, loopVars, endVars,
          generation, born, aborted>>

Phase == {"idle", "loop", "persist", "control", "verify", "start", "blocked",
          "turn"}
Outcome == {"none", "done", "failed", "cancelled", "dropped", "absorbed",
            "refused"}

TypeOK ==
  /\ queue \subseteq Cmd
  /\ arrival \in [Cmd -> Nat] /\ arrivals \in Nat
  /\ cancelPending \subseteq Cmd
  /\ lease \in Owner \cup {NoOwner}
  /\ leaseMode \in {"after-current", "idle-only"}
  /\ phase \in Phase
  /\ lead \in Cmd \cup {NoCmd}
  /\ batch \subseteq Cmd
  /\ stopped \in BOOLEAN
  /\ reservation \in Cmd \cup {NoCmd}
  /\ snapshot \subseteq Cmd
  /\ absorbing \in Cmd \cup {NoCmd}
  /\ generation \in Nat
  /\ born \in [Cmd -> Nat]
  /\ aborted \subseteq Cmd
  /\ outcome \in [Cmd -> Outcome]
  /\ starts \in [Cmd -> Nat]

Init ==
  /\ queue = {} /\ arrival = [c \in Cmd |-> 0] /\ arrivals = 0
  /\ cancelPending = {}
  /\ lease = NoOwner /\ leaseMode = "after-current"
  /\ phase = "idle" /\ lead = NoCmd /\ batch = {} /\ stopped = FALSE
  /\ reservation = NoCmd
  /\ snapshot = {} /\ absorbing = NoCmd
  /\ generation = 0 /\ born = [c \in Cmd |-> 0]
  /\ aborted = {}
  /\ outcome = [c \in Cmd |-> "none"]
  /\ starts = [c \in Cmd |-> 0]

-----------------------------------------------------------------------------
\* Helpers on the queue.

\* Variant for the mutants: the queue is read from its newest command.
Newest(S) == {c \in S : \A d \in S : arrival[d] <= arrival[c]}

\* Commands of S that no command of S arrived before.
First(S) == {c \in S : \A d \in S : arrival[c] <= arrival[d]}

\* isStaleBranchRuntimeCommand: only the commands of a branch can be stale.
Stale(c) == Mode[c] \in OfBranch /\ born[c] # generation

\* Variant: the dequeue does not look at the lease.
AllRunnable(q, l) == q

\* What dequeueNextRunnableBatch may take: under a lease only the command
\* whose input is promoted.
Runnable(q, l) == IF l = NoOwner THEN q ELSE q \cap {Promotes[l]}

\* dequeueNextBatch: a task notification takes along all others.
BatchOf(c, q) == IF Mode[c] = "note" THEN {d \in q : Mode[d] = "note"} ELSE {c}

Settled(S, o, out) == [c \in Cmd |-> IF c \in S THEN o ELSE out[c]]
Started(S) == [c \in Cmd |-> IF c \in S THEN starts[c] + 1 ELSE starts[c]]

\* The first await of an execution that finds the start reserved for res.
FirstPhase(c, res) ==
  IF Mode[c] \in {"note", "reply"} THEN "persist"
  ELSE IF Mode[c] = "control" THEN "control"
  ELSE IF Mode[c] = "goal" THEN "verify"
  ELSE IF res \in {NoCmd, c} THEN "start" ELSE "blocked"

\* One iteration of the drain loop over a queue q, a lease l and a start
\* reservation res, the outcomes being out: leave the loop, or run the next
\* command up to its first await.  The lease is consumed with the dequeue.
LeaveLoop(q, l, res, out) ==
  /\ Runnable(q, l) = {}
  /\ phase' = "idle" /\ lead' = NoCmd /\ batch' = {} /\ stopped' = FALSE
  /\ queue' = q /\ lease' = l /\ reservation' = res /\ outcome' = out
  /\ UNCHANGED <<starts, cancelPending>>

SkipCancelled(c, q, res, out) ==
  /\ Mode[c] \in WithInput /\ c \in cancelPending
  /\ phase' = "loop" /\ lead' = NoCmd /\ batch' = {} /\ stopped' = FALSE
  /\ cancelPending' = cancelPending \ {c}
  /\ reservation' = IF res = c THEN NoCmd ELSE res
  /\ queue' = q \ {c}
  /\ outcome' = Settled({c}, "cancelled", out)
  /\ UNCHANGED starts

DropStale(c, q, res, out) ==
  /\ \A d \in BatchOf(c, q) : Stale(d)
  /\ phase' = "loop" /\ lead' = NoCmd /\ batch' = {} /\ stopped' = FALSE
  /\ queue' = q \ BatchOf(c, q)
  /\ outcome' = Settled(BatchOf(c, q), "dropped", out)
  /\ reservation' = res
  /\ UNCHANGED <<starts, cancelPending>>

BeginExecution(c, q, res, out) ==
  LET b == BatchOf(c, q)
      live == {d \in b : ~Stale(d)}
  IN \E f \in First(live) :
       /\ ~(Mode[f] \in WithInput /\ f \in cancelPending)
       /\ lead' = f /\ batch' = live
       /\ phase' = FirstPhase(f, res)
       /\ stopped' = (f \in aborted /\ Mode[f] \in WithInput)
       /\ reservation' = IF FirstPhase(f, res) = "start" THEN f ELSE res
       /\ queue' = q \ b
       /\ outcome' = Settled(b \ live, "dropped", out)
       /\ starts' = Started(live)
       /\ UNCHANGED cancelPending

DequeueNext(q, l, res, out) ==
  \E c \in First(Runnable(q, l)) :
    /\ lease' = NoOwner
    /\ \/ SkipCancelled(c, q, res, out)
       \/ DropStale(c, q, res, out)
       \/ BeginExecution(c, q, res, out)

LoopIteration(q, l, res, out) ==
  LeaveLoop(q, l, res, out) \/ DequeueNext(q, l, res, out)

\* drainRuntimeCommandQueue, called by a handler that has already changed the
\* queue, the lease or the reservation.  The re-drain at its end finds nothing
\* to do: it runs in the step that found the queue without a runnable command.
Drain(q, l, res, out) ==
  IF phase = "idle"
  THEN LoopIteration(q, l, res, out)
  ELSE /\ queue' = q /\ lease' = l /\ reservation' = res /\ outcome' = out
       /\ UNCHANGED <<phase, lead, batch, stopped, starts, cancelPending>>

-----------------------------------------------------------------------------
\* Producers.

New(c) == arrival[c] = 0 /\ outcome[c] = "none"

\* Variants: the command is put in front; it is pushed and nothing is drained.
EnqueueInFront(c, res) ==
  /\ arrivals' = arrivals - 1
  /\ arrival' = [arrival EXCEPT ![c] = arrivals - 1]
  /\ Drain(queue \cup {c}, lease, res, outcome)
EnqueueOnly(c, res) ==
  /\ arrivals' = arrivals + 1
  /\ arrival' = [arrival EXCEPT ![c] = arrivals + 1]
  /\ queue' = queue \cup {c} /\ reservation' = res
  /\ UNCHANGED <<cancelPending, lease, phase, lead, batch, stopped, endVars>>

\* enqueueRuntimeCommand: push, then drain.
Enqueue(c, res) ==
  /\ arrivals' = arrivals + 1
  /\ arrival' = [arrival EXCEPT ![c] = arrivals + 1]
  /\ Drain(queue \cup {c}, lease, res, outcome)

\* Variant: a drain loop that is running is not counted as work.
WorkQueued == queue # {} \/ reservation # NoCmd

\* Something runs or waits, whoever holds the lease.
WorkPending == phase # "idle" \/ queue # {} \/ reservation # NoCmd
hasActiveOrQueuedTurnWork == lease # NoOwner \/ WorkPending
PromotionLeaseOnly(requireIdle) == requireIdle /\ lease # NoOwner /\ ~WorkPending

\* admitPrompt on a busy runtime: with requireIdle the prompt is rejected,
\* otherwise it becomes a deferred or steered input; no command is queued.
AdmitBusy(c, requireIdle) ==
  /\ Mode[c] = "prompt" /\ New(c)
  /\ hasActiveOrQueuedTurnWork /\ ~PromotionLeaseOnly(requireIdle)
  /\ outcome' = Settled({c}, "refused", outcome)
  /\ UNCHANGED <<queueVars, leaseVars, execVars, loopVars, starts, generation,
                 born, aborted>>

\* admitPrompt otherwise: reserve the turn start and enqueue in one step.
AdmitPrompt(c, requireIdle) ==
  /\ Mode[c] = "prompt" /\ New(c)
  /\ hasActiveOrQueuedTurnWork => PromotionLeaseOnly(requireIdle)
  /\ IF c \in aborted
     THEN /\ outcome' = Settled({c}, "cancelled", outcome)
          /\ UNCHANGED <<queueVars, leaseVars, execVars, starts>>
     ELSE Enqueue(c, c) /\ UNCHANGED leaseMode
  /\ UNCHANGED <<loopVars, generation, born, aborted>>

\* executeTurn and continueActiveTargetLoop enqueue whatever else is going on.
Submit(c) ==
  /\ Mode[c] \in {"turn", "goal"} /\ New(c)
  /\ IF c \in aborted
     THEN /\ outcome' = Settled({c}, "cancelled", outcome)
          /\ UNCHANGED <<queueVars, leaseVars, execVars, starts>>
     ELSE Enqueue(c, reservation) /\ UNCHANGED leaseMode
  /\ UNCHANGED <<loopVars, generation, born, aborted>>

\* enqueueBackgroundTaskNotification, enqueueSubagentMessage and
\* enqueueSettingsTurn: a result of an older branch returns before this.
Notify(c) ==
  /\ Mode[c] \in OfBranch /\ New(c)
  /\ born' = [born EXCEPT ![c] = generation]
  /\ Enqueue(c, reservation)
  /\ UNCHANGED <<leaseMode, loopVars, generation, aborted>>

\* The caller aborts its signal: a waiting command is removed and rejected
\* (and the reservation made for it released), a command that was dequeued is
\* marked, and its execution aborted through the parent signal.
Abort(c) ==
  /\ Mode[c] \in WithInput /\ c \notin aborted
  /\ aborted' = aborted \cup {c}
  /\ LET waiting == c \in queue
         away == arrival[c] > 0 /\ outcome[c] = "none" /\ ~waiting
     IN /\ queue' = queue \ {c}
        /\ outcome' = IF waiting THEN Settled({c}, "cancelled", outcome)
                                 ELSE outcome
        /\ reservation' = IF waiting /\ reservation = c THEN NoCmd
                                                        ELSE reservation
        /\ cancelPending' = IF away THEN cancelPending \cup {c}
                                    ELSE cancelPending
        /\ stopped' = (stopped \/ lead = c)
  /\ UNCHANGED <<arrival, arrivals, leaseVars, phase, lead, batch, loopVars, starts,
                 generation, born>>

\* stopActiveForegroundExecution of an execution not aborted yet.
Stop ==
  /\ lead # NoCmd /\ ~stopped
  /\ stopped' = TRUE
  /\ UNCHANGED <<queueVars, leaseVars, phase, lead, batch, reservation, loopVars,
                 endVars, generation, born, aborted>>

\* applyConversationRewindPlan commits a branch cut.  An edit of the last
\* query does so outside the queue, whatever the drain loop is doing.
Rewind ==
  /\ generation < MaxGeneration
  /\ generation' = generation + 1
  /\ UNCHANGED <<queueVars, leaseVars, execVars, loopVars, endVars, born, aborted>>

-----------------------------------------------------------------------------
\* The foreground promotion lease.

acquireForegroundPromotionLease(o, mode) ==
  /\ lease = NoOwner
  /\ mode = "idle-only" => ~WorkPending
  /\ lease' = o /\ leaseMode' = mode
  /\ UNCHANGED <<queueVars, execVars, loopVars, endVars, generation, born, aborted>>

\* Variant: the release does not resume the drain.
ReleaseOnly(o) ==
  /\ lease = o /\ lease' = NoOwner
  /\ UNCHANGED <<queueVars, leaseMode, execVars, loopVars, endVars, generation,
                 born, aborted>>

\* Releasing a lease that was consumed, or is another owner's, does nothing.
releaseForegroundPromotionLease(o) ==
  /\ lease = o
  /\ Drain(queue, NoOwner, reservation, outcome)
  /\ UNCHANGED <<arrival, arrivals, leaseMode, loopVars, generation, born, aborted>>

-----------------------------------------------------------------------------
\* Executions.

\* The drain loop after an execution ended.
LoopStep ==
  /\ phase = "loop"
  /\ LoopIteration(queue, lease, reservation, outcome)
  /\ UNCHANGED <<arrival, arrivals, leaseMode, loopVars, generation, born, aborted>>

\* Variant: the reservation of an execution that failed before its turn stays
\* behind.
FinishKeepingReservation ==
  /\ phase' = "loop" /\ lead' = NoCmd /\ batch' = {} /\ stopped' = FALSE
  /\ cancelPending' = cancelPending \ batch
  /\ UNCHANGED <<queue, arrival, arrivals, leaseVars, reservation, generation,
                 born, aborted, starts>>

\* An execution ends: the command is settled, its cancel mark cleared and the
\* foreground execution finished; the loop goes on at its next turn.
Finish ==
  /\ phase' = "loop" /\ lead' = NoCmd /\ batch' = {} /\ stopped' = FALSE
  /\ cancelPending' = cancelPending \ batch
  /\ reservation' = IF reservation = lead THEN NoCmd ELSE reservation
  /\ UNCHANGED <<queue, arrival, arrivals, leaseVars, generation, born, aborted,
                 starts>>

Fail ==
  /\ phase \in {"persist", "control", "verify", "start", "blocked", "turn"}
  /\ Finish
  /\ outcome' = Settled(batch \cup ({absorbing} \ {NoCmd}), "failed", outcome)
  /\ snapshot' = {} /\ absorbing' = NoCmd

\* The target loop finds the goal met, paused or not to be continued; a
\* control-only turn is written.
Conclude ==
  /\ phase \in {"control", "verify"}
  /\ Finish
  /\ outcome' = Settled(batch, "done", outcome)
  /\ UNCHANGED loopVars

\* executeTurnCommand reserves the start of its turn.
ReserveStart ==
  /\ phase \in {"persist", "verify"}
  /\ phase' = IF reservation = NoCmd THEN "start" ELSE "blocked"
  /\ reservation' = IF reservation = NoCmd THEN lead ELSE reservation
  /\ UNCHANGED <<queueVars, leaseVars, lead, batch, stopped, loopVars, endVars,
                 generation, born, aborted>>

\* beginActiveTurn turns the reservation into the active turn.
BeginTurn ==
  /\ phase = "start" /\ reservation = lead
  /\ phase' = "turn" /\ reservation' = NoCmd
  /\ UNCHANGED <<queueVars, leaseVars, lead, batch, stopped, loopVars, endVars,
                 generation, born, aborted>>

\* The turn ends well.  After a submitted prompt, a goal or a notification the
\* target loop goes on, unless it was stopped or a command waits.
EndTurn ==
  /\ phase = "turn" /\ absorbing = NoCmd
  /\ snapshot' = {} /\ UNCHANGED absorbing
  /\ IF Mode[lead] \in {"turn", "goal", "note"} /\ ~stopped /\ queue = {}
     THEN /\ phase' = "verify"
          /\ UNCHANGED <<queueVars, leaseVars, lead, batch, stopped, reservation,
                         endVars, generation, born, aborted>>
     ELSE Finish /\ outcome' = Settled(batch, "done", outcome)

-----------------------------------------------------------------------------
\* The active turn absorbs notifications and replies between two model steps.

\* The commands of a snapshot that precede its first control-only turn.
BeforeControl(s) ==
  {c \in s : \A k \in s : Mode[k] = "control" => arrival[c] < arrival[k]}

\* Variant: a command leaves the queue after it was persisted, not before.
AbsorbRemovingLate(s, out) ==
  LET live == {c \in BeforeControl(s) \cap queue :
                 Mode[c] \in {"note", "reply"} /\ ~Stale(c)}
  IN /\ queue' = queue \ {absorbing}
     /\ outcome' = out
     /\ starts' = Started(First(live))
     /\ \/ live = {} /\ absorbing' = NoCmd /\ snapshot' = {}
        \/ \E d \in First(live) : /\ absorbing' = d
                                  /\ snapshot' = {c \in s : arrival[c] > arrival[d]}
     /\ UNCHANGED <<arrival, arrivals, cancelPending, leaseVars, execVars,
                    generation, born, aborted>>

\* The loop over the snapshot up to its next await: commands that are gone are
\* passed over, stale ones dropped, the next one is taken and persisted.
Absorb(s, out) ==
  LET cands == {c \in BeforeControl(s) \cap queue : Mode[c] \in {"note", "reply"}}
      live  == {c \in cands : ~Stale(c)}
      next  == First(live)
      gone  == {c \in cands \ live : \A d \in next : arrival[c] < arrival[d]}
  IN /\ \/ next = {} /\ absorbing' = NoCmd /\ snapshot' = {}
        \/ \E d \in next : /\ absorbing' = d
                           /\ snapshot' = {c \in s : arrival[c] > arrival[d]}
     /\ queue' = (queue \ gone) \ {absorbing'}
     /\ outcome' = Settled(gone, "dropped", out)
     /\ starts' = Started({absorbing'})
     /\ UNCHANGED <<arrival, arrivals, cancelPending, leaseVars, execVars,
                    generation, born, aborted>>

drainPendingRuntimeCommandsForActiveLoop ==
  /\ phase = "turn" /\ absorbing = NoCmd /\ queue # {}
  /\ Absorb(queue, outcome)

Absorbed ==
  /\ absorbing # NoCmd
  /\ Absorb(snapshot, Settled({absorbing}, "absorbed", outcome))

-----------------------------------------------------------------------------
Execution == LoopStep \/ Fail \/ Conclude \/ ReserveStart \/ BeginTurn \/ EndTurn
             \/ drainPendingRuntimeCommandsForActiveLoop \/ Absorbed

\* requireIdle is passed by the callers that hold a lease for the very prompt
\* they submit, and by no other.
Holds(c) == lease # NoOwner /\ Promotes[lease] = c

Next ==
  \/ Execution
  \/ \E c \in Cmd : \/ AdmitPrompt(c, Holds(c)) \/ AdmitBusy(c, Holds(c))
                    \/ Submit(c) \/ Notify(c) \/ Abort(c)
  \/ \E o \in Owner : \/ \E m \in {"after-current", "idle-only"} :
                          acquireForegroundPromotionLease(o, m)
                      \/ releaseForegroundPromotionLease(o)
  \/ Stop \/ Rewind

Spec == Init /\ [][Next]_vars

\* Executions go on: a model request, a hook or a write ends, and the event
\* loop resumes an await.  The holder of a lease releases it in a finally.
Fairness ==
  /\ WF_vars(Execution)
  /\ \A o \in Owner : WF_vars(releaseForegroundPromotionLease(o))
FairSpec == Spec /\ Fairness

-----------------------------------------------------------------------------
\* Properties.

\* No wake-up is lost: a command the drain loop may take (any command, or the
\* promoted one while a lease is held) never waits with the loop at rest,
\* although five handlers change the queue and the lease and only some drain.
NoLostWakeup == phase = "idle" => Runnable(queue, lease) = {}

\* A start is reserved exactly while the execution it was reserved for stands
\* before beginActiveTurn: whatever fails, is cancelled or stopped, no
\* reservation is left behind, which would keep the session busy for good.
ReservationIsLive ==
  IF phase = "start" THEN reservation = lead ELSE reservation = NoCmd

\* No execution meets a start reserved for another command, so none is
\* answered with turn-in-progress after it was accepted.
NoBlockedStart == phase # "blocked"

\* Between the grant of an idle-only lease and the start of its input nothing
\* runs: an automatic promotion never lands on top of other work.  Like
\* CancelMarkIsRunning below, a part of the inductive invariant that is proved.
IdleLeaseIsQuiet == lease # NoOwner /\ leaseMode = "idle-only" => phase = "idle"

\* A command is handed to a model at most once, and never when it was
\* cancelled while it waited, dropped as stale or refused.
DeliveredOnce ==
  \A c \in Cmd :
    /\ starts[c] <= 1
    /\ c \in queue \/ outcome[c] \in {"cancelled", "dropped", "refused"}
         => starts[c] = 0

\* Commands of a branch of one kind reach the model in the order they arrived,
\* whether the drain loop batches them or the active turn absorbs them.
SameKindInOrder ==
  \A c, d \in Cmd :
    /\ Mode[c] = Mode[d] /\ Mode[c] \in OfBranch
    /\ c \in queue /\ arrival[c] < arrival[d]
    => starts[d] = 0

\* Cancel marks do not leak: a mark belongs to the command that is executing.
CancelMarkIsRunning == cancelPending \subseteq batch

\* While a lease stays held no execution begins, and once the promoted command
\* waits the next execution is of it, whatever was queued before.
OnlyPromotedStarts ==
  [][(lease # NoOwner /\ lead' \notin {lead, NoCmd}
       /\ (lease' = lease \/ Promotes[lease] \in queue))
      => lead' = Promotes[lease]]_vars

\* Every command that was queued leaves the queue: again and again it is
\* empty (the commands are finitely many, and each is queued at most once).
EveryCommandLeaves == []<>(queue = {})

=============================================================================
