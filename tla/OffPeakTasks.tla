----------------------------- MODULE OffPeakTasks -----------------------------
(***************************************************************************)
(* One off-peak task: its row in off_peak_tasks, the scheduler process     *)
(* that claims and dispatches it, the host that runs its turn, and the     *)
(* service that keeps its ticket at the quota server in step, pauses,      *)
(* continues and cancels it.  Tasks share nothing but the server's queue,  *)
(* so one task stands for each.                                            *)
(*                                                                         *)
(* Every statement of the repository is one transaction; whatever lies     *)
(* between an await and the write after it is a step of its own.  The app  *)
(* (main, scheduler and hosts) may quit or be killed; a host may die alone.*)
(*                                                                         *)
(* Abstractions: one host stands for all of them; a session is left out,   *)
(* because a running task always has the conversation its dispatch         *)
(* reported; sendPrompt fails only before a turn starts; one continueTask  *)
(* at a time.  Editing, deleting and settling the ticket of a finished task,    *)
(* queue positions and poll delays are left out.                           *)
(***************************************************************************)
EXTENDS Naturals, FiniteSets

CONSTANTS
    None,
    MaxClaims,    \* bound: claims the scheduler makes
    MaxTickets,   \* bound: tickets the server hands out
    MaxUpsets,    \* bound: pauses and overdue dispatches, taken together
    MaxCrashes,   \* bound: exits of the app or a host
    MaxFaults     \* bound: refused tickets and failed stops

ASSUME OffPeakAssumption ==
    /\ None \notin Nat
    /\ {MaxClaims, MaxTickets} \subseteq Nat \ {0}
    /\ {MaxUpsets, MaxCrashes, MaxFaults} \subseteq Nat

VARIABLES
    row,        \* the row of the task
    tickets,    \* external: tickets handed out |-> state at the server
    up,         \* the app runs
    backoff,    \* retryAt of the task lies ahead
    overtaken,  \* history: a claim has fallen back by age while its dispatch
                \* was still on its way, and the app has not exited since
    attempts,   \* claims in flight between scheduler, main and host
    turns,      \* turns of the task that are not finalized
    inquiry,    \* batchStatus of the sync cycle and of continueTask
    taken,      \* tickets taken whose write is to come
    canceller,  \* cancelTask
    claims, upsets, crashes, faults

server == <<tickets>>
service == <<inquiry, taken, canceller>>
clock == <<backoff, overtaken>>
bounds == <<claims, upsets, crashes, faults>>
vars == <<row, server, up, clock, attempts, turns, service, bounds>>

Terminal == {"completed", "failed", "cancelled"}
Status == {"queued", "running", "paused"} \cup Terminal
TicketIds == 1 .. MaxTickets
TicketState == {"queued", "ready", "active", "expired"}
Asker == {"sync", "continue"}
Place == {"claimed", "sent", "ok", "transient", "permanent"}
Outcome == {"succeeded", "failed", "stopped", "expired"}

Init ==
    \E first \in {"queued", "ready"} :
        /\ row = [status |-> "queued", schedulable |-> first = "ready",
                  claim |-> "free", ticket |-> 1]
        /\ tickets = [t \in {1} |-> first]
        /\ up = TRUE /\ backoff = FALSE /\ overtaken = FALSE
        /\ attempts = {} /\ turns = {}
        /\ inquiry = [a \in Asker |-> None] /\ taken = {} /\ canceller = "idle"
        /\ claims = 0 /\ upsets = 0 /\ crashes = 0 /\ faults = 0

-----------------------------------------------------------------------------
(* The updates of the repository, guards and all.                          *)

markRunning ==
    IF row.status = "queued"
    THEN [row EXCEPT !.status = "running", !.claim = "free"]
    ELSE row

(* Mutant: a terminal row keeps its claim. *)
markTerminalClaimed(status) ==
    IF row.status \in Terminal THEN row
    ELSE [row EXCEPT !.status = status, !.schedulable = FALSE]
markTerminal(status) ==
    IF row.status \in Terminal THEN row
    ELSE [row EXCEPT !.status = status, !.schedulable = FALSE, !.claim = "free"]

releaseClaim == [row EXCEPT !.claim = "free"]

requeueForContinuation ==
    [row EXCEPT !.status = "queued", !.schedulable = FALSE, !.claim = "free"]

recoverInterrupted ==
    [row EXCEPT !.status = IF @ = "running" THEN "queued" ELSE @,
                !.claim = IF row.status = "running" \/ @ = "stale" THEN "free" ELSE @]

-----------------------------------------------------------------------------
(* The scheduler process.                                                  *)

(* A waiting task no claim is in flight for.  Mutant: a claim does not count. *)
DueWhileClaimed(claim) ==
    row.status = "queued" /\ row.schedulable /\ claims < MaxClaims
Due(claim) ==
    /\ row.status = "queued" /\ row.schedulable /\ claim = "free"
    /\ claims < MaxClaims

(* A claim that is too old counts as free.  Mutant: it stays. *)
ReclaimedNever == row.claim
Reclaimed == IF row.claim = "stale" THEN "free" ELSE row.claim

(* claimDue: stale claims fall back, and a due task is claimed; the attempt *)
(* carries the ticket of the row that was read.                             *)
claimDue ==
    \/ /\ Due(Reclaimed)
       /\ row' = [row EXCEPT !.claim = "fresh"]
       /\ claims' = claims + 1
       /\ attempts' = attempts \cup {[n |-> claims + 1, at |-> "claimed",
                                      ticket |-> row.ticket]}
    \/ /\ ~Due(Reclaimed) /\ Reclaimed # row.claim
       /\ row' = [row EXCEPT !.claim = Reclaimed]
       /\ UNCHANGED <<claims, attempts>>

Tick ==
    /\ up
    /\ claimDue
    /\ UNCHANGED <<server, up, clock, turns, service, upsets, crashes, faults>>

(* handleOffPeakClaimed: a task in backoff is released, else sent to main   *)
(* and its host.                                                            *)
Dispatch ==
    \E a \in attempts :
        /\ a.at = "claimed"
        /\ IF backoff
           THEN row' = releaseClaim /\ attempts' = attempts \ {a}
           ELSE /\ attempts' = (attempts \ {a}) \cup {[a EXCEPT !.at = "sent"]}
                /\ UNCHANGED row
        /\ UNCHANGED <<server, up, clock, turns, service, bounds>>

(* settleOffPeakDispatchResult.                                             *)
Settle ==
    \E a \in attempts :
        /\ a.at \in {"ok", "permanent", "transient"}
        /\ attempts' = attempts \ {a}
        /\ backoff' = (a.at = "transient")
        /\ row' = CASE a.at = "ok" /\ row.status = "queued" -> markRunning
                    [] a.at = "permanent" /\ row.status \notin Terminal
                         -> markTerminal("failed")
                    [] OTHER -> releaseClaim
        /\ UNCHANGED <<overtaken, server, up, turns, service, bounds>>

(* The backoff of the task has passed.                                      *)
RetryAtPasses ==
    /\ backoff /\ backoff' = FALSE
    /\ UNCHANGED <<row, overtaken, server, up, attempts, turns, service, bounds>>

(* A claim gets OFF_PEAK_CLAIM_STALE_MS old by the wall clock, whether or   *)
(* not its dispatch is still on its way: nothing bounds how long one takes. *)
Age ==
    /\ row.claim = "fresh"
    /\ row' = [row EXCEPT !.claim = "stale"]
    /\ \/ attempts = {} /\ UNCHANGED <<overtaken, upsets>>
       \/ /\ attempts # {} /\ overtaken' = TRUE
          /\ upsets < MaxUpsets /\ upsets' = upsets + 1
    /\ UNCHANGED <<server, up, backoff, attempts, turns, service, claims, crashes, faults>>

-----------------------------------------------------------------------------
(* The host.                                                               *)

(* No host, a start-up that is not over, a selection or a session that      *)
(* cannot be used.                                                          *)
HostRefuses ==
    \E a \in attempts, kind \in {"transient", "permanent"} :
        /\ a.at = "sent"
        /\ attempts' = (attempts \ {a}) \cup {[a EXCEPT !.at = kind]}
        /\ UNCHANGED <<row, server, up, clock, turns, service, bounds>>

(* dispatchOffPeakRun: the turn starts with the ticket of the request, and  *)
(* the answer is on its way; the row is not looked at.                      *)
HostPrompts ==
    \E a \in attempts :
        /\ a.at = "sent"
        /\ attempts' = (attempts \ {a}) \cup {[a EXCEPT !.at = "ok"]}
        /\ turns' = turns \cup {[n |-> a.n, ticket |-> a.ticket, outcome |-> "running"]}
        /\ tickets' = [tickets EXCEPT ![a.ticket] = IF @ = "ready" THEN "active" ELSE @]
        /\ UNCHANGED <<row, up, clock, service, bounds>>

(* A turn ends by itself, by the user, or because its ticket has expired.   *)
TurnEnds ==
    \E t \in turns, outcome \in Outcome :
        /\ t.outcome = "running"
        /\ outcome = "expired" => tickets[t.ticket] = "expired"
        /\ turns' = (turns \ {t}) \cup {[t EXCEPT !.outcome = outcome]}
        /\ UNCHANGED <<row, server, up, clock, attempts, service, bounds>>

(* takeTicket for owner: the server hands out a ticket, or refuses; after   *)
(* the last one of the bound it refuses.                                    *)
TakeTicket(owner) ==
    LET next == Cardinality(DOMAIN tickets) + 1
    IN  \/ \E state \in {"queued", "ready"} :
             /\ next \in TicketIds
             /\ tickets' = [t \in DOMAIN tickets \cup {next} |->
                              IF t = next THEN state ELSE tickets[t]]
             /\ taken' = taken \cup {[owner |-> owner, ticket |-> next,
                                      ready |-> state = "ready"]}
             /\ UNCHANGED faults
        \/ /\ next \notin TicketIds \/ faults < MaxFaults
           /\ faults' = IF next \in TicketIds THEN faults + 1 ELSE faults
           /\ UNCHANGED <<tickets, taken>>

(* finalizeOffPeakRun: an expired ticket sends a running task back to the   *)
(* queue for a new one; any other outcome is the end of the task.           *)
Finalize ==
    \E t \in turns :
        /\ t.outcome # "running"
        /\ turns' = turns \ {t}
        /\ \/ /\ t.outcome = "expired" /\ row.status = "running"
              /\ row' = requeueForContinuation
              /\ TakeTicket("turn")
           \/ /\ t.outcome = "expired" /\ row.status # "running"
              /\ UNCHANGED <<row, server, taken, faults>>
           \/ /\ t.outcome # "expired"
              /\ row' = markTerminal(CASE t.outcome = "succeeded" -> "completed"
                                       [] t.outcome = "stopped" -> "cancelled"
                                       [] OTHER -> "failed")
              /\ UNCHANGED <<server, taken, faults>>
        /\ UNCHANGED <<up, clock, attempts, inquiry, canceller, claims, upsets, crashes>>

-----------------------------------------------------------------------------
(* The task service of the host.                                           *)

SyncIdle == inquiry["sync"] = None /\ \A w \in taken : w.owner # "sync"

(* runSyncCycle reads a task that is not over and asks for its ticket.      *)
SyncRead ==
    /\ up /\ SyncIdle /\ row.status \notin Terminal
    /\ inquiry' = [inquiry EXCEPT !["sync"] =
                     [status |-> row.status, ticket |-> row.ticket, state |-> "asked"]]
    /\ UNCHANGED <<row, server, up, clock, attempts, turns, taken, canceller, bounds>>

(* continueTask: the task is queued again and its ticket asked for.         *)
Continue ==
    /\ up /\ inquiry["continue"] = None
    /\ row.status = "paused" /\ row.claim = "free"
    /\ row' = [row EXCEPT !.status = "queued"]
    /\ inquiry' = [inquiry EXCEPT !["continue"] =
                     [status |-> "queued", ticket |-> row.ticket, state |-> "asked"]]
    /\ UNCHANGED <<server, up, clock, attempts, turns, taken, canceller, bounds>>

(* The server answers; a lost answer leaves the ticket as it is.            *)
Answered(asker) ==
    /\ inquiry[asker] # None /\ inquiry[asker].state = "asked"
    /\ \/ inquiry' = [inquiry EXCEPT ![asker].state = tickets[inquiry[asker].ticket]]
       \/ inquiry' = [inquiry EXCEPT ![asker] = None]
    /\ UNCHANGED <<row, server, up, clock, attempts, turns, taken, canceller, bounds>>

(* applyTicketStatus, and the same decision in continueTask: the answer for *)
(* the ticket that was read is written to the row as it is now.  An active  *)
(* ticket is left alone by the sync and not schedulable for continueTask.   *)
Apply(asker) ==
    LET q == inquiry[asker]
        snapshot == [row EXCEPT !.schedulable = q.state = "ready"]
    IN  /\ q # None /\ q.state # "asked"
        /\ inquiry' = [inquiry EXCEPT ![asker] = None]
        /\ \/ /\ q.state = "expired" /\ q.status = "queued"
              /\ row' = IF asker = "sync" THEN snapshot ELSE row
              /\ TakeTicket(asker)
           \/ /\ q.state \in {"ready", "queued"} \/ (q.state = "active" /\ asker = "continue")
              /\ row' = snapshot
              /\ UNCHANGED <<server, taken, faults>>
           \/ /\ \/ q.state = "active" /\ asker = "sync"
                 \/ q.state = "expired" /\ q.status # "queued"
              /\ UNCHANGED <<row, server, taken, faults>>
        /\ UNCHANGED <<up, clock, attempts, turns, canceller, claims, upsets, crashes>>

(* retakeTicket writes the ticket it was given.                             *)
WriteTicket ==
    \E w \in taken :
        /\ row' = [row EXCEPT !.ticket = w.ticket, !.schedulable = w.ready]
        /\ taken' = taken \ {w}
        /\ UNCHANGED <<server, up, clock, attempts, turns, inquiry, canceller, bounds>>

(* pauseTask: not while a claim is in flight.                               *)
Pause ==
    /\ up /\ upsets < MaxUpsets
    /\ row.status = "queued" /\ row.claim = "free"
    /\ row' = [row EXCEPT !.status = "paused"]
    /\ upsets' = upsets + 1
    /\ UNCHANGED <<server, up, clock, attempts, turns, service, claims, crashes, faults>>

(* cancelTask: read, write the end, stop the loop of a task that was read   *)
(* as running.                                                              *)
CancelRead ==
    /\ up /\ canceller = "idle" /\ row.status \notin Terminal
    /\ canceller' = row.status
    /\ UNCHANGED <<row, server, up, clock, attempts, turns, inquiry, taken, bounds>>

CancelMark ==
    /\ canceller \in Status
    /\ row' = markTerminal("cancelled")
    /\ canceller' = IF canceller = "running" /\ row.status \notin Terminal
                    THEN "stop" ELSE "idle"
    /\ UNCHANGED <<server, up, clock, attempts, turns, inquiry, taken, bounds>>

CancelStop ==
    /\ canceller = "stop" /\ canceller' = "idle"
    /\ \/ /\ turns' = {IF t.outcome = "running" THEN [t EXCEPT !.outcome = "stopped"] ELSE t
                         : t \in turns}
          /\ UNCHANGED faults
       \/ /\ faults < MaxFaults /\ faults' = faults + 1
          /\ UNCHANGED turns
    /\ UNCHANGED <<row, server, up, clock, attempts, inquiry, taken, claims, upsets, crashes>>

-----------------------------------------------------------------------------
(* The server's queue, and exits.                                          *)

(* A ticket is promoted, or expires.                                        *)
TicketMoves ==
    \E t \in DOMAIN tickets :
        /\ \/ tickets[t] = "queued" /\ tickets' = [tickets EXCEPT ![t] = "ready"]
           \/ tickets[t] \in {"ready", "active"}
              /\ tickets' = [tickets EXCEPT ![t] = "expired"]
        /\ UNCHANGED <<row, up, clock, attempts, turns, service, bounds>>

(* What a host had in memory is gone, its turns and unsent answers too.     *)
HostMemoryLost ==
    /\ turns' = {} /\ taken' = {} /\ canceller' = "idle"
    /\ inquiry' = [a \in Asker |-> None]

HostDies ==
    /\ up /\ crashes < MaxCrashes /\ crashes' = crashes + 1
    /\ attempts' = {a \in attempts : a.at # "sent"}
    /\ HostMemoryLost
    /\ UNCHANGED <<row, server, up, clock, claims, upsets, faults>>

(* The app exits; a scheduler that is told to dispose releases the claims   *)
(* it has sent, one that is killed does not.                                *)
AppExits ==
    /\ up /\ crashes < MaxCrashes /\ crashes' = crashes + 1
    /\ up' = FALSE /\ backoff' = FALSE /\ overtaken' = FALSE /\ attempts' = {}
    /\ HostMemoryLost
    /\ \/ row' = IF \E a \in attempts : a.at # "claimed" THEN releaseClaim ELSE row
       \/ UNCHANGED row
    /\ UNCHANGED <<server, claims, upsets, faults>>

AppStarts ==
    /\ ~up /\ up' = TRUE
    /\ row' = recoverInterrupted
    /\ UNCHANGED <<server, clock, attempts, turns, service, bounds>>

Next ==
    \/ Tick \/ Dispatch \/ Settle \/ RetryAtPasses \/ Age
    \/ HostRefuses \/ HostPrompts \/ TurnEnds \/ Finalize
    \/ SyncRead \/ Continue \/ WriteTicket \/ Pause
    \/ \E asker \in Asker : Answered(asker) \/ Apply(asker)
    \/ CancelRead \/ CancelMark \/ CancelStop
    \/ TicketMoves \/ HostDies \/ AppExits \/ AppStarts

Spec == Init /\ [][Next]_vars

(* While the app runs the poll timer ticks, time passes and messages are    *)
(* handled.  Nobody has to open the app.                                    *)
FairSpec ==
    /\ Spec
    /\ WF_vars(Tick) /\ WF_vars(Dispatch) /\ WF_vars(Settle) /\ WF_vars(Age)
    /\ WF_vars(HostRefuses \/ HostPrompts)

-----------------------------------------------------------------------------
(* Properties.                                                             *)

(* Types; and only a task that waits to be dispatched is claimed.           *)
RowOK ==
    /\ row \in [status : Status, schedulable : BOOLEAN,
                claim : {"free", "fresh", "stale"}, ticket : DOMAIN tickets]
    /\ row.claim # "free" => row.status = "queued"
TicketsOK ==
    tickets \in [DOMAIN tickets -> TicketState] /\ DOMAIN tickets \subseteq TicketIds
AttemptsOK == attempts \subseteq [n : 1 .. claims, at : Place, ticket : DOMAIN tickets]
TurnsOK == turns \subseteq [n : 1 .. claims, ticket : DOMAIN tickets,
                           outcome : Outcome \cup {"running"}]
InquiryOK == inquiry \in [Asker -> {None} \cup [status : Status, ticket : DOMAIN tickets,
                                              state : TicketState \cup {"asked"}]]
TakenOK == taken \subseteq [owner : Asker \cup {"turn"}, ticket : DOMAIN tickets,
                           ready : BOOLEAN]
FlagsOK == {up, backoff, overtaken} \subseteq BOOLEAN /\ canceller \in Status \cup {"idle", "stop"}
BoundsOK ==
    /\ claims \in 0 .. MaxClaims /\ upsets \in 0 .. MaxUpsets
    /\ crashes \in 0 .. MaxCrashes /\ faults \in 0 .. MaxFaults
TypeOK ==
    /\ RowOK /\ TicketsOK /\ AttemptsOK /\ TurnsOK
    /\ InquiryOK /\ TakenOK /\ FlagsOK /\ BoundsOK

(* What executes the task or is about to: claims on their way to a host,    *)
(* and running turns.                                                       *)
Executions ==
    {a \in attempts : a.at \in {"claimed", "sent"}} \cup {t \in turns : t.outcome = "running"}

(* A task is never executed twice at the same time; and a task the user has *)
(* paused neither runs nor is about to.                                     *)
SingleFlight ==
    /\ \A x, y \in Executions : x = y
    /\ row.status = "paused" => Executions = {}

(* Whatever the claims, answers, tickets, restarts and users do, a task is  *)
(* executed once at a time, unless a dispatch has outlived its claim.       *)
OneExecution == overtaken \/ SingleFlight

(* "single-flight": the claim of a task keeps it from running in two turns  *)
(* at once.                                                                 *)
OneTurn == \A t, u \in turns : t.outcome = "running" /\ u.outcome = "running" => t = u

(* A claim does not outlive its dispatch for ever while the app runs:       *)
(* however its host or an earlier life of the app ended, the task can be    *)
(* claimed again or is past it.                                             *)
ClaimsEnd == row.claim # "free" ~> (row.claim = "free" \/ ~up)

(* cancelTask "puts the end on record, then stops the loop": when it has    *)
(* returned, no turn of a cancelled task runs.                              *)
CancelStopsTheLoop ==
    row.status = "cancelled" /\ canceller = "idle" =>
        \A t \in turns : t.outcome # "running"

=============================================================================
