# Verification of Reactor-Work

TLA+ models of the parts of this repository whose correctness depends on the
order of things: command admission, the runtime's command queue, dynamic
workflow runs and the admission of model requests in the CLI
(`src/apps/zcode-cli`), the supervisor of the server with its updates and its
data-root lock (`src/packages/zcode-server-cli`), and the off-peak tasks of the
desktop (`src/packages/desktop`, `src/packages/services`). TLC checks them on
small instances; TLAPS proves the safety properties of six of them for every
value of the constants.

Paths below are relative to `src/`; `cli/` abbreviates
`apps/zcode-cli/packages/`. PROJECT.json maps every definition to its lines.

1. [The system](#the-system) – components, state, hazards
2. [The models](#the-models) – module by module, against the code
3. [Runs and bounds](#runs-and-bounds)
4. [Fairness and deadlock](#fairness-and-deadlock)
5. [Proofs](#proofs)
6. [Where code and documentation disagree](#where-code-and-documentation-disagree)
7. [Observations](#observations)
8. [Not modelled](#not-modelled)
9. [Plan](#plan)

## The system

A desktop or web client talks to a CLI process over the "V4" protocol. Inside
that process the path of a user's input is

    client ──command──▶ gateway ──▶ admission inbox ──▶ command handlers
                           │  ▲                              │ lease, admitPrompt,
             session_input │  │ promoted / removed           ▼ enqueue
                 ledger ◀──┘  └───────────────── runtime command queue ──▶ turn
                                                     ▲                      │
                                  notifications,     │                      ▼
                                  goal loop ─────────┘            workflow run: engine,
                                                                  scheduler, driver,
                                                                  journal, sandbox

Everything in one process runs on one event loop: code between two `await`s is
atomic, and every `await` lets any other handler run. The models use exactly
that granularity. State survives a crash only in the store (SQLite) and in the
clients.

Around it are two more systems of processes:

    serve ─▶ Supervisor ──spawn──▶ server core       uninstall ─┐
               │  ▲ control socket: stop, restart, update       │
               ▼                                                ▼
        run/server.lock   current.json   pending.json   update-transaction.json

    desktop main ◀──dispatch── scheduler ◀─── off_peak_tasks (SQLite) ───┐
        │                          ▲ settle                              │
        └──────▶ host: session, turn ──outcome──▶ task service ──────────┘
                                                   ▲ ticket status
                                            quota server (external)

There the interleavings are of processes: each file operation, each SQL
statement and each message is a step, and every process may die between two.

| Component | State it keeps | Operations | Hard behaviour | What makes it correct |
|---|---|---|---|---|
| **Command admission inbox** `cli/bootstrap/src/zcode-protocol-v4/command-inbox.ts` | two FIFO gate registries (per command key, per session), in-flight promises, live pins, a bounded settled table, an admission counter | handle, queryMany, pinLiveInput / releaseLiveInput, clearSession | duplicate deliveries, query racing a first send, eviction, gates held across awaits | a command is executed once however often it is delivered; one command of a session at a time; a retry learns the final result |
| **V4 gateway** `v4-gateway.ts` around the inbox | none of its own for this path | handleCommand, releaseDurableInput, event hooks on promotion and removal | promotion seen after the ack; a failed release | no pin is taken for input that has left the queue |
| **Persistent index and facts** `persistent-command-{index,facts}.ts` | lazily loaded command facts per session | lookup, record, invalidate | stale entries; discard-on-load | what is recorded durably is known |
| **Session input ledger** `cli/adapters/.../session-inputs.ts` | one row per input | admit, promote, cancel, sweep | crash between admission and promotion | swept input is not run behind the user's back |
| **Runtime command queue** `cli/core/src/runtime/command-queue.ts`, `methods/runtime-command-*.ts`, `prompt-admission.ts` | queue, cancel marks, promotion lease, drain flag, foreground execution | enqueue, admitPrompt, drain, abort, stop, acquire / release lease, absorption by a running turn | many producers, one drain loop, leases that block the queue | no lost wake-up; at-most-once; the promoted input goes first |
| **Turn start reservation** `methods/steering.ts`, `turn.ts` | reservation, active turn | reserve, beginActiveTurn, release | failure between reservation and start | no reservation outlives its execution |
| **Goal continuation** `methods/target*.ts` | active target | verify, continue, verify | yields to waiting work | does not block other commands |
| **Workflow engine and ask scheduler** `cli/dynamic-workflow/src/engine/` | actors, asks, ordinals, slot counter, hold queues | createActor, ask, pump, dispatch, submit, settle, replay | script order is not journal order; resume | cap respected and used; answers repeat on resume |
| **Workflow driver** `cli/bootstrap/src/app/workflow-driver*.ts` | sessions, turns, redrive timers | createActorSession, startAsk, cancelAsk, nudge, redrive, dispose | late turns and timers, dispose during creation | a turn serves its ask; closed runtimes are idle |
| **Workflow run lifetimes** `dynamic-workflow-run-*.ts`, `dynamic-workflow-runtime/src/harness.ts` | run row, node rows | start, stop, supersede, reconcile, resume | crash, two lifetimes over one journal | the ledger never takes back what it said |
| **Model-request concurrency** `engine/concurrency.ts`, `workflow-concurrency-governor.ts` | cap, epoch, in flight, waiters per run, cooldown | acquire, settle, abort, observe, wake | answers of an old cap, who looks at a queue next | one cut per burst, nobody waits for nothing, no run is passed by for another |
| **Server supervisor** `packages/zcode-server-cli/src/{supervisor,runtime,cli}` | lifecycle state and gate, crash count, restart timers, the four files above | start, stop, restart, applyUpdate, recovery, uninstall | a timer that outlives its crash, death at any step of an update or rollback | one core per data root; an update that did not finish is undone |
| **Data-root lock** `runtime/lock.ts` | lock file, recovery gate, quarantine names | acquire, release, stale recovery | two processes between two file operations | one holder |
| **Off-peak tasks** `packages/desktop/src/{scheduler,host}`, `packages/services/src/session/offPeak*` | task row with claim and ticket, attempts, turns | claim, dispatch, settle, sync, pause, continue, cancel, recover | every answer may be late; exits of app and host | one execution at a time, none while paused, no claim for ever |
| Foreground promotion handlers (V4 `commands/handlers/`, `commands/prompt-turn.ts`) | abort controller of a session record, queue item reservations | sendText, sendQueuedNow, goal and compact starts | lease ownership passed to background work | every lease is released, a promoted item runs once |
| Workflow run service, import cache | live run registry, imported answers | submit, amend, resume | two resumes of one run | one engine per run |
| Interaction registry, permission race | pending questions, timers | register, resolve, full access, snooze | answer racing a cancellation | each question answered once |
| Session resident pool | leases, deactivations | acquire, rebalance | operation racing deactivation | no session closed under an operation |
| Cron automations `packages/desktop/src/host/cronRunLifecycle.ts` | claims and runs | claim, dispatch, settle, manual run | manual run racing the scheduler | one dispatch per claim |
| Publishers, projection | revisioned topics | publish, snapshot, patch | gaps and replays | client state equals source state |
| Runtime task registry, tool scheduler, compaction policy | background tasks, tool batches | start, finish, plan | – | – |
| RPC persistent protocol `packages/rpc` | – | – | not instantiated anywhere | – |
| Model gateway, quota, organisation server `server/` | database rows | proxy, meter, admin | check then count (documented as best effort) | – |
| User interfaces | view state | – | – | – |

Components in bold are modelled.

`hazards` in PROJECT.json lists, at its line, what is hard to test in this
code, with the property that would catch it or the reason there is none yet.

## The models

### CommandInbox (with SerialExecution)

One process, its store, and the *deliveries* clients make: first sends,
retries, queries. A delivery goes `new → keyWait → lookup / await → sessWait →
relookup → admitted → running → handed → done`, one step per `await` in
`CommandInbox.handle` and `v4-gateway.handleCommand`.

* `keyQ`, `sessQ` are the two gate registries. A gate is a FIFO whose head
  holds it; `AtKeyGate` and `AtSessionGate` say a delivery is that head.
* `inFlight`, `final`, `live`, `lru`/`settledAck`, `seq`/`order` are the
  inbox's tables. `lru` is a recency rank, so eviction is "rank above
  `LruLimit`".
* `idxLoaded`, `idxFact` are the persistent index with its load on first use;
  `ledger` and `timeline` are what the store holds.
* `owned` is the runtime's hold on an input, which is what the queue and the
  turn look like from here: `Promote`, `RemoveByUser`, `FinishCompact`,
  `EndUnpersisted` (a started turn that ends before its user message is
  written), and the gateway's reaction `ReleaseLiveInput`, which follows only
  the first two.
* `Deactivate`, `Resume` and `Crash` are the residency of a session and the
  end of the process. `Resume` sweeps the ledger row by row, and may fail on
  some rows as the code only reports it.

`orphans` and `runs` are history: input a crash left queued, and calls of
`executeCommand`. Not reachable from this gateway, hence absent: the
remembered-noop branch of `decide` (no guard is installed). The reasons for a
rejection are one nondeterministic `Reject`.

`SerialExecution` is what admission promises: a session executes one command
at a time. `ImplementsSerial` is the refinement, the command a session
executes being the one of the delivery at the head of its gate.

### RuntimeCommandQueue

The queue of one agent runtime. Every producer passes the same priority, so
`queue` is a set ordered by `arrival`. `phase` is where the drain loop stands:
`loop` between two commands, `persist`, `control`, `verify`, `start` (turn
reserved, hooks running), `turn`. The pure part of one loop iteration –
dequeue a batch, drop what is stale, begin the execution, or leave the loop –
is `LoopIteration`; `Drain` calls it from every handler that calls
`drainRuntimeCommandQueue`, when no drain is active.

A lease (`lease`, `leaseMode`) holds the queue for one promoted input:
`Runnable` is everything without a lease, and the promoted command with one.
`drainPendingRuntimeCommandsForActiveLoop` and `Absorbed` are the running turn
taking notifications out of the queue between model steps, with one await per
command. `Rewind` raises `generation`; commands `born` earlier are stale.

The model keeps three things that the code cannot reach, and a proof shows it:
`SkipCancelled` (`NothingToSkip`: a marked command is never dequeued), the
`blocked` phase (`NoBlockedStart`), and the re-drain after the loop. Left out:
suppression of notifications of a sealed subagent, the shutdown flag, the
ledger row of a notification, logging.

### WorkflowRun (with RunLedger)

One run over several *lifetimes*: an engine, its sandboxed script, its driver
and the journal. The script is a set of strands – the callbacks of a
`Promise.all` – each a sequence of asks; the engine knows none of this. It
names an ask `<<site, ordinal>>` in arrival order (`InstanceOf`), finds its
row in `rows`, and answers from it (`AskRecorded`), fails the run
(`AskMismatched`), or admits it (`AskFresh`, `Admit`) under the hold rule
(`Blocked`, `DrainEnd`) and the concurrency cap (`Pump`). `Dispatch` waits for
the actor's session and starts the ask; `Turn*` and `Submit*` are the driver's
turn with acceptance, repair, nudge, cancellation, model errors and redrive.
`Stop`, `Crash`, `Reconcile`, `Resume` end a lifetime and start the next over
the same rows, while turns of the old driver may still land.

Abstractions: the text of an ask stands for its instructions and hash; a
result is the lifetime that produced it; actors exist from their first ask;
the admission drain is in closed form; throws of strands nobody awaits go
unheard; the child is killed when the run settles, so mail to it is dropped.
Left out: escalations, world reads, reports, artifacts, phases, the import
cache of an amended run, the message boundary of an ask, the request gate.

`RunLedger` is what the journal promises its readers: an ask is opened once,
settled once and never changed; asks move only while the run is running; only
a stopped run resumes; a completed, errored or superseded one is final.

### ConcurrencyGovernor

The bucket of one provider key: the AIMD controller (`Grant`, `Succeeded`,
`Throttled`, `FailedTransient`, `Ended`, `Verdict`) and the governor around it
(`Acquire`, `Drain`, `Settle`, `LateRelease`, `Abort`, `Observe`, `Wake`). Every
operation is synchronous, so a handler is one step, and the loop of `drain` is
the recursive function in `Drained`. Requests of a run are alike: a queue is its
length; the open tickets are two counts, of the current epoch and of older
ones, because only the epoch decides what an answer may do to the cap. The
main agent's requests (`Observe`) are never held and move the round-robin
cursor; their number is not bounded, only how many are open at once
(`MaxOpen`). Time is
two facts, "cooldown over" and "last admission five minutes ago".

`served` (the runs the last step granted), `probed` (a request was admitted
since the last verdict) and `stranded` (an abort reset an idle controller and
left waiters behind) are history.

### Supervisor

Processes `Supervisors` and `Uninstaller` on one server root. `sup[p]` is the
memory of a supervisor: lifecycle `state`, the operation `op` that holds the
gate, and `pc`, the next await of that operation; `core[p]` is `this.core`,
`live` the core processes of the machine, orphans (`sup = None`) included.

* Start: `Serve`, `Acquire`, `Recover`, `Unmark`, `Boot`, with `StartFault`
  where the code rolls the start back.
* Core: `Launch`, `Ready`, `CoreExits` (`handleTerminal`, or the exit a stop
  waits for), `Timer`, `WindowEnds`. A restart timer is never cancelled; it
  recognises its crash by the state alone, as in the code.
* `Stop` covers stop, restart and confirm-uninstall; `Close` is what follows.
* Update: `BeginUpdate`, `Mark`, `Switch`, `Unpend`, `AwaitReady`, `Complete`
  and, through `RollBack`, `Restore`, `Settle`, `AwaitPrevious…`. Each file
  operation is a step, and `UpdateThrows`, `RollbackFault` and `Kill` stand
  between any two.
* `Prepare` and `Discard` are `update` run by another process at any time.
  `UninstallBegins`, `UninstallErases`, `UninstallEnds` are the uninstaller,
  which removes its entries one by one (`EraseEntry`) and may be killed after
  each. Of the entries the model has the three that a later start reads; the
  release directories, `run`, `cache` and the others are left out, so a start
  that finds its release gone is a `StartFault`.

`settled` is history, the release the last completed update left; it is what
"rollback to a good release" means. `overwritten` marks an update that began
over the transaction file of an earlier one (see Observations).

The lock is one step here. **DataRootLock** takes it apart: `names` maps a path
to a file, `content` a file to what it holds, so that a rename, an unlink and a
write through an open handle have their POSIX effect, and `acquire` is followed
operation by operation through the recovery gate.

### OffPeakTasks

One task: its `row` (status, schedulable snapshot, claim, ticket), the
`attempts` a claim makes from scheduler over main to host and back, its
`turns`, the `tickets` at the quota server (external: they are promoted and
expire at will), and what the service has in flight: `inquiry` (a ticket status
asked for by the sync cycle or by continueTask), `taken` (a new ticket whose
write is to come), `canceller` (between the read and the write of cancelTask).
Every SQL statement is one step with its `WHERE` as a guard: `claimDue`,
`markRunning`, `markTerminal`, `releaseClaim`, `requeueOnExpired`,
`recoverInterrupted`. `Age` makes a claim stale at any time, as `claimDue` goes by
the clock and no timeout bounds a dispatch; `overtaken` is history, that it did
so while the dispatch was under way, and lasts until the app exits.

## Runs and bounds

| Run | Specification | Instance | Shows | Distinct states |
|---|---|---|---|---|
| `inbox` | `BoundedSpec` | one session; any three of: prompt `p` sent, sent again, queried, command `x`, `/compact` `k`; settled table of 1; one crash, one deactivation | serial execution and its refinement; retries wait for the final answer; recorded or queued input is not run again nor called unknown; pins keep the order of admission and are not taken too late; every delivery is answered | 1,105,638 |
| `inbox_cancelled` | `BoundedSpec` | prompt delivered twice, a plain command | **violated**: `CancelledNeverRuns` | |
| `queue` | `BoundedSpec` | any three of: prompt, goal loop, two notifications, reply, settings turn; two promotions; one rewind | no lost wake-up, no leaked reservation, exclusive leases; batching and absorption deliver once and in order of kind; every command leaves the queue | 695,797 |
| `workflow` | `FairSpec` | two flows of two asks that share a reviewer; cap 1 or 2; two lifetimes, one crash, one fault; stops by user or superseded; a strand that catches | slots, per-actor order, turn ownership, repeated answers, the ledger (refinement), and that every lifetime settles | 447,590 |
| `workflow_chain` | `Spec` | chained fan-out of two items, stop and resume | **violated**: `ReplayMatchesJournal` | |
| `governor` | `FairSpec` | two runs and the main agent, ceiling 4, threshold 2, two waiters a run, five open requests | the in-flight count is the open tickets; one burst cuts once; nobody waits for nothing; every run is served while the main agent keeps still | 132,919 |
| `governor_starved` | `FairSpec` | two runs and the main agent, ceiling 1, two open requests | **violated**: `NoRunStarves` | |
| `supervisor` | `FairSpec` | two supervisors, uninstaller, three releases (one bundled), two core names, crash budget 1, one update, one fault | one supervised core under the lock; an update can be undone and is; an uninstalled root stays down; every operation ends | 198,528 |
| `lock` | `Spec` | two processes, four files | **violated**: `MutualExclusion` | |
| `offpeak` | `FairSpec` | two claims, two tickets, one pause or overdue dispatch, one exit, one fault | one execution at a time, none while paused, unless a claim is overtaken; claims end | 1,454,583 |
| `offpeak_overdue` | `Spec` | the same without exits and faults | **violated**: `OneTurn` | |
| `offpeak_cancel` | `Spec` | the same without exits and faults | **violated**: `CancelStopsTheLoop` | |

Why the bounds are enough for the question each run asks:

* *Inbox.* A duplicate needs two deliveries of one command; a query is another;
  contention on a session needs a second command, and a pinned `/compact` is
  what lives across a deactivation. Each property is about two deliveries and
  what a third does in between, so any three may arrive (`MaxArrivals`). A table
  of one entry makes the second command evict the first. One crash and one
  deactivation suffice for "before" and "after": the store has no counter of
  them. Two sessions share no state but the process, and the proofs cover any
  number of everything.
* *Queue.* The commands are the ways to occupy the drain loop, and two of one
  kind for batches. A property relates one or two commands to the one that
  occupies the loop, hence any three may be given (`MaxGiven`); two owners make
  a conflict and a hand-over of the lease; one rewind separates two
  generations. A directly submitted turn (`turn`) is only in the proofs; the
  goal loop submits through the same path.
* *Workflow.* A resume needs two lifetimes; the hold rule matters when a
  resume meets one actor's asks in another order than the journal, which the
  shared reviewer of two flows produces (without the rule the run violates
  `AsksRunInOrder` and `RunEnds`). A cap of one makes two asks compete for a
  slot. `MaxFaults` bounds failed sessions and failed or transient turns.
* *Governor.* A cut needs answers of two epochs; a ceiling of four lets the cap
  fall step by step (4, 3, 2, 1) and rise again; two runs make a round
  robin, two waiters a queue; five open requests exceed the cap, as those of the
  main agent may.
* *Supervisor.* A second supervisor contends for the lock; one crash is within
  the budget, the second beyond it; one prepared update with one fault reaches
  every step of the transaction, of its rollback and of a rollback that fails.
  The proofs cover any number of each.
* *Off-peak.* A second claim meets what the first left behind; a second ticket
  is what a retake brings; an exit is before, between or after. `MaxUpsets`
  gives one pause or one overdue dispatch; the proof covers both together.

For every property of a passing run PROJECT.json names a mutant: a plausible
bug in one mapped definition under which that run finds the property violated.
The mutated definitions stand in the modules next to the originals.

## Fairness and deadlock

*Safety* runs assume nothing. The runs with a liveness property assume:

* `CommandInbox.Fairness`: some open delivery goes on, one condition for all of
  them. Justified by the event loop: a resolved promise resumes its awaiter,
  gates are FIFO and released in `finally`. Nothing is assumed of the runtime –
  a queue held by Stop or a failed turn may keep its input for ever – nor of
  the gateway's reactions, clients, failures, crashes, deactivation or resume.
  `BoundedSpec` restricts arrivals only, here and in the queue, so no fair
  action is held back by a bound.
* `RuntimeCommandQueue.Fairness`: weak fairness of the execution as a whole
  (a model request, hook or write ends) and of the holder of a lease releasing
  it. The latter is an assumption on the handlers outside this module; one
  path that breaks it is listed as a hazard (`handlers/queue.ts:244`).
* `WorkflowRun.FairSpec`: while anything is pending, something of it goes on –
  weak fairness of `Progress`, with its enabling condition written out as
  `Pending`. Which pending thing goes first is left open. `RunEnds` also relies
  on `MaxFaults`: the code retries transient model errors without limit by
  design, so a provider that never recovers keeps a run open.
* `ConcurrencyGovernor.FairSpec`: an attempt ends (the runner releases its
  ticket in a `finally`), the cooldown passes and its timer fires. Nothing is
  assumed of requests. `WaitersAreServed` supposes that aborts and the main
  agent's requests cease; without the second it fails, which is what
  `governor_starved` shows.
* `Supervisor.FairSpec`: file operations end (`Advance`); both waits of an
  update and the wait for an exit have a deadline (`Answer`), restart timers
  fire, an orphan notices that its parent is gone. Cores need not become ready
  nor exit.
* `OffPeakTasks.FairSpec`: while the app runs its poll timer ticks, messages
  are handled and a claim grows old. Turns need not end, the quota server need not
  answer, nobody has to open the app.

`CHECK_DEADLOCK FALSE` is set everywhere because all these systems really come
to rest: every delivery answered and the bounds used up; an empty queue; a
settled run that nobody resumes; no request; no process; a finished task.

## Proofs

The proof modules hold for arbitrary constants satisfying the named assumptions
of each component (`ConstantsOK`, `ScriptAssumption`, `NoneAssumption`,
`CapAssumption`, `GovernorAssumption`, `SupervisorAssumption`,
`OffPeakAssumption`): any sets of sessions, commands, deliveries, owners, runs,
supervisors and releases, any script, cap, table limit and crash budget, any
bounds. Every safety invariant and action property the passing runs check is
stated by a theorem, and so are the two refinements that hold.

### CommandInboxProofs

* `Invariance`: `IInv` = types, the gate invariants, `Awaited`, `Remembered`.
  `SessionSerial` speaks of phases and is not inductive by itself. What makes
  it hold are the queues: a delivery waiting for a gate is in its queue
  (`KeyWaiter`, `SessWaiter`), one that passed is the head until it leaves
  (`KeyHolder`, `SessHolder`), and a session's queue holds only its own
  deliveries (`SessOwn`). One lemma per way an action treats the queues (push,
  pop, leave alone), then one per group of actions.
* `TypeCorrect`: type correctness.
* `SerialExecutionOfASession`: two executing deliveries of a session are both
  the head of one queue, hence the same.
* `AdmissionIsSerial`: every step begins, runs or ends the command at the head
  of a session's gate, crashes, or stutters – refinement of `SerialExecution`.
* `LifeOfACommand`: `LifeInv`, what the process and the store know of a command
  against what its deliveries are about to do. A delivery that has looked and
  found nothing (`NotYet`) still finds the command untouched when it runs
  (`Fresh`), because it holds the gate of the key and, from the second lookup
  on, that of the session. What a loaded index does not know is not recorded,
  unless it is pinned (`Indexed`): a pin goes only with the index, on
  deactivation or crash. What a crash left queued is swept before its session
  is resident again (`Orphaned`). A session's counter is never behind the
  number of a pinned command (`PinnedOk`), although deactivation resets it.
* `PinsAreOrdered`, `NothingRunsTwice`, `RecordedIsKnown`,
  `RetriesWaitForTheFinal`: `PinnedInOrder` and the action properties
  `NeverRunTwice`, `KnownWhenRecorded`, `AnsweredAfterFinal`, from both.
* `NothingPinnedLate`: the action property `NoLatePin`. An input is pinned by
  the step that starts its execution, and then nothing is recorded of it
  (`Fresh`); what `settle` writes later leaves the pin as it finds it.

### RuntimeCommandQueueProofs

* `QueueInvariance`: `IInv` = types, the shape of an execution in each phase
  (`Shape`), the life of a command from queue to outcome (`Lives`), and the
  safety properties themselves. The argument is compositional: `LoopKeepsInv`
  proves that one drain iteration keeps `IInv` provided what the handler did
  before it is well formed; each handler then shows only its own change. The
  inductive invariant holds *between* handlers, never inside one, which is
  why "change, then drain" has to be proved as one step.
* `TypeCorrect`, `WakeupsAreKept`, `ReservationsEnd`, `StartsAreNeverRefused`,
  `DeliveryAtMostOnce`: `TypeOK`, `NoLostWakeup`, `ReservationIsLive`,
  `NoBlockedStart`, `DeliveredOnce`. `LeasesAndMarks`: two more conjuncts, under
  an idle-only lease the loop rests, and cancel marks do not leak.
* `OrderOfArrival`: `SameKindInOrder` needs more than the order of the queue.
  While a running turn absorbs its snapshot of the queue one command at a time,
  others arrive: `SnapshotIsAhead` says that what is in the queue belongs to the
  snapshot or is younger than all of it.
* `LeaseIsExclusive`: the action property `OnlyPromotedStarts`.

### WorkflowRunLemmas and WorkflowRunProofs

The operators of the model are functions of an engine record, and the lemma
module says what each of them keeps, whatever the script: `PumpKeeps`,
`FreeSlotKeeps`, `CreateActorKeeps`, `JoinKeeps`, `EnteredKeeps`, `AdmitKeeps`
for the scheduler; `StartAskServes`, `TurnLandsServes`, `FiresServes` and the
like for a session. The closed forms of the model (`DrainEnd`, `Taken`, `At`)
are shown to be what their names say (`DrainEndIs`, `TakenIs`, `AtIs`):
`DrainEnd` exists by an induction over positions. `Evolves` is what a session
may rely on while the engine moves: an ask that is past does not come back, and
one in flight keeps its actor.

* `RunInvariant`: `IInv`. `SlotsAreAccounted` rests on `EngineInv`: an ask is
  live only if it was named in this lifetime and no longer waits (`Names`), it is
  in flight or queued at its own actor and nowhere else (`Flights`), and
  `active` counts the actors in flight (`Slots`). `TurnServesItsAsk` rests on
  `Serves`: what a session still has to do – turns, redrive timer, reports – is
  for its current ask if that is live, once, and for finished asks otherwise;
  `Driver` says it of the running engine's sessions and that all others only
  wind down. `CountedAsks` and `CountedActors` bound the names by what the
  script has done; `Journal` ties the rows to the live asks.
* `RunTypes`, `SlotsAreCounted`, `PumpsWasteNothing`, `TurnsServeTheirAsks`,
  `TurnsAreForOpenAsks`: `TypeOK`, `SlotsAreAccounted`, `NoIdleSlot`,
  `TurnServesItsAsk`, `TurnsStartForOpenAsks`.
* `JournalIsALedger`: the refinement of `RunLedger`. Every step opens asks,
  settles one, ends, reconciles or resumes the run, or leaves the ledger alone.

Three more theorems are about scripts that pass every site at most once and
give every creation site one actor (`OnePass`; the script of the run `workflow`
is one). The hypothesis is needed: ordinals follow arrival order, and the
script of `workflow_chain`, which passes a site twice, is failed on a resume.

* `NamesAndNumbers`: `OrderInv`. A name, its text and its actor are those of
  a step of the script (`Named`); the rows of an actor are numbered 0 to n - 1
  without a gap, over all lifetimes, and what waits for a recorded position has
  its number (`Numbered`); what an actor has let through is live until it is
  final, and the live asks of an actor are in line in the order of their
  numbers (`Ordered`). That there is no gap is what lets a resume count the rows
  of an actor (`recorded`) and number new asks behind them.
* `AsksAreInOrder`: `AsksRunInOrder`.
* `AnswersAreRepeated`: the action property `AnswersRepeat`, from `AnswerInv`,
  which follows an answer from the ask to the strand. Whoever the engine owes
  an answer stands at the step that asks for it (`Kept`); no strand has two
  messages, and a message brings the final row of the ask its strand waits for
  (`Posted`); what a step has heard is the row of its ask (`Heard`). A row that
  is final is never written again, so the row a strand is answered from after a
  resume is the one it was answered from before. `AskMoves` says once what
  dispatches, turns and reports can do to the engine – nothing, a change in the
  record of one live ask, or the end of an ask in flight – and serves this
  proof and that of `NamesAndNumbers`. TLC found no violation of `AnswerInv`
  on the instance of the run `workflow` before it was proved.

### ConcurrencyGovernorProofs

`Good` is a bucket with its types, distinct waiting runs and `inFlight` equal
to the open tickets; each operation has a lemma that it keeps a bucket good. A
drain is a recursive function of its rounds: `RoundsStep` shows that the
function exists, and `DrainedIsGood` that after enough rounds nothing more can
be granted, by induction over them (a round that grants raises `inFlight`, so
after n rounds it is at least n or nothing is left to grant).

* `TypeCorrect`, `WaitersAreAccounted`: `TypeOK`, and
  `EveryWaiterWaitsForSomething`, which holds because a drain goes on until the
  cap is reached, nobody waits or the cooldown blocks it, and each of these has
  somebody who looks again.
* `CutsNeedProbes`: the action property `CutNeedsAProbe`, with `NewIsProbed`: a
  ticket of the current epoch exists only if a request was admitted since the
  last verdict.

**SetInduction** has the induction both modules need: a set of numbers with 0
and with every successor is all of them. The library's theorem takes an operator
as a parameter, so the set form is derived from the well-foundedness of the
subsets of a finite set.

### SupervisorProofs

* `TypeCorrect`: type correctness.
* `OneSupervisedCore`: `OneCore` is not inductive: a restart timer that fires
  late launches a core whenever the state is "crashed". Two invariants carry
  it. `LockHeld`: a supervisor past `Acquire` holds the lock, so there is one
  such supervisor and no uninstaller. `Cores`: `this.core` and the machine
  agree, and "crashed" implies that there is no core and that no operation
  stands at a step that relies on having none (`CoreLess`) – which is what
  `enterUpdateRollback` and the stop of a crashed core are for. One lemma per
  effect (write, launch, vanish) shows what a step must respect; `CoreStep`
  then goes action by action.
* `NothingAfterUninstall`: `Removed`, on an uninstalled root nobody is past
  recovery, inductive because `uninstalled.json` is written under the lock.
* `UpdateCanBeUndone`: `Undo` says what the holder of the lock knows of the
  files at each step of start and applyUpdate (`Returnable`). `UndoOwn` proves
  it for the process that steps; nobody else may write then, by `LockHeld`.
* `StartsSettledRelease`: the action property `BootsSettled`, from `Undo` at
  `boot`.

### OffPeakTasksProofs

* `TypeCorrect`: type correctness, with "only a queued row is claimed".
* `NeverTwice`: claims carry no owner, so one execution at a time rests on the
  order of claim, answer and write – and on the claim not growing old under its
  dispatch. The invariant is `TypeOK`, `Gone`, and `Order` unless `overtaken`:
  the theorem says that this is the only way to two executions or to one of a
  paused task, and that an exit of the app ends it; `offpeak_overdue` shows the
  way. `Order` has three parts. `Alone`: one attempt and one turn at most,
  and a turn only with an attempt that has been answered. `Claimed`: while an
  attempt is under way the row is queued and freshly claimed, or final.
  `Served`: a turn has a running or final row, or the answer that makes it so
  is on its way. `Gone`: no app, no attempt and no turn. `Claimed` is what makes
  `claimDue` safe, `Gone` what makes `recoverInterrupted` safe.

Only model-checked: all liveness properties (`EveryDeliveryAnswered`,
`EveryCommandLeaves`, `RunEnds`, `WaitersAreServed`,
`LifecycleEnds`, `ClaimsEnd`: fairness and `ENABLED` are outside the prover).
Not proved for scripts that pass a site twice: `AsksRunInOrder` and
`AnswersRepeat`. `ReplayMatchesJournal` is false of those (`workflow_chain`) and
of no interest otherwise: where a name is passed once, it determines its text.

## Where code and documentation disagree

Each has a run whose counterexample is the evidence; PROJECT.json quotes both
sides.

* `inbox_cancelled`: a failed input's row is cancelled, but the index keeps
  the empty result of the first lookup, so a retry executes it again.
* `workflow_chain`: ordinals follow arrival order, so resuming a stopped
  chained fan-out – the shape the workflow guide recommends – can match the
  second stage's asks with each other's rows and fail the run for good.
* `lock`: the lock file exists empty before its owner is written into it. A
  process that looks in between takes it for stale, removes it, and both
  acquire.
* `governor_starved`: each request the main agent is granted makes it the run
  "last served"; it has no queue, so the round robin starts again at the first
  queue. A run that keeps a waiter there is served each time, and a small run
  behind it never, which is what the round robin is said to prevent.
* `offpeak_overdue`: a claim older than ten minutes is given away although its
  dispatch is under way and no timeout bounds one (the machine may sleep). Both
  dispatches start a turn.
* `offpeak_cancel`: a task cancelled while its dispatch is on the way is
  recorded as cancelled, but its turn starts and nothing stops it.

## Observations

Met while modelling; no run is spent on them, and the models follow the code.

* *Inbox.* Pins leak, against `command-inbox.ts:239` ("released when the input
  enters the transcript, is cancelled or fails"): nothing unpins a `/compact`
  (`goal-compact.ts:206`), nor a prompt whose turn ends before its message is
  written – no model (`turn.ts:197-214`), or a UserPromptSubmit hook that
  stops it (`:372-419`) – because the gateway releases only on promotion or
  removal (`v4-gateway.ts:970-991`). Such a session stays in the live table. A
  prompt queued behind a Stop (`session-flow.ts:343`) or a failed turn
  (`turn.ts:745-761`) keeps its pin until the user acts, by design. The models
  have all of these (`FinishCompact`, `EndUnpersisted`, no fairness of
  `Promote`), so no property says that pins end; `NoLatePin` says that none is
  taken after its release was due.
* *Queue.* The generation of a notification is compared before it is persisted
  (`runtime-command-queue.ts:321`) and not after (`:328`), so a rewind during
  that await lets the old branch's result start a turn, against
  `runtime-command-generation.ts:18-19`. Batching takes commands of one kind
  from behind commands of another (`command-queue.ts:193`), so order holds per
  kind (`SameKindInOrder`) and not across kinds.
* *Workflow.* A session whose creation was in flight at dispose is entered in
  the table afterwards and never closed (`workflow-driver.ts:271`). Usage is
  written as an absolute sum per engine (`engine.ts:547`), so a turn of a
  stopped lifetime that lands after the resume is overwritten.
* *Governor.* An abort that leaves no request in flight resets the controller
  as idle although waiters remain; they are looked at when the next request
  comes (`stranded`). A
  Retry-After of a request older than five minutes is forgotten by that reset.
  `admitAttempt` keeps its ticket when `onAdmitted` throws.
* *Supervisor.* A rollback that fails leaves the transaction file; another
  update then overwrites it, and if it fails before its own mark, removes it
  (`releaseManager.ts:60-66`, `:96-97`): the release to return to is now the
  one that never became ready. `RollbackPoint` excepts exactly this
  (`overwritten`); the proof of `UpdateCanBeUndone` shows that it is the only
  exception. `applyPending` reads `pending.json` again, so an `update` run in
  between switches to a release other than the one launched and checked. A
  rollback to the bundled core ends as "stopped" without launching it
  (`supervisor.ts:313-325`). An uninstall killed between two entries
  (`cli.ts:420-433`) leaves a root that is not marked: a later start boots what
  the remaining files name, whose release directory may be gone.
* *Off-peak.* A turn that ends as expired before the answer of its dispatch has
  made the row running leaves the row running without a turn until the app is
  started again (`host/index.ts:470`); so does the death of the host. An answer
  for an old ticket sets `schedulable` of a new one. A dispatch result later
  than ten minutes also releases the claim of a newer attempt
  (`offPeakDispatchSettlement.ts:80`). A ticket taken for
  a task that has become final is never settled.

## Not modelled

Reasons per component are in PROJECT.json. In short: the promotion handlers,
run service, interaction registry, resident pool and cron automations are
planned below. Publishers and projections carry derived state. The tool
scheduler and compaction live inside one turn, which is one phase here. The
organisation server is request-scoped SQL behind HTTP with documented
best-effort quota. The RPC persistent protocol is not used. Interfaces,
plugins, skills, packaging and deployment scripts have no protocol state; they
are most of the repository's lines, so the mapped share of it stays small.

## Plan

In order, each with what it is for:

1. **DataRootLock** – what still holds of it as theorems: types, and who may
   take a path away. Exclusion itself is what `lock` refutes.
2. **ForegroundPromotion** – composes queue items, the record's abort
   controller and the lease of RuntimeCommandQueue. Abstract specification:
   a promoted item is executed once and the lease returns. First target: the
   lease handed to a goal continuation that does not start.
3. **Supervisor over DataRootLock** – the composition, once the lock file is
   created with its content; today its refinement fails, as `lock` shows.
4. **InteractionRegistry** and **ResidentPool** – an answer per question; no
   deactivation under a lease, composed with CommandInbox's `Deactivate`.
5. **CronAutomations** – the claim protocol of OffPeakTasks with manual runs.
6. **RunService** – live-run registry and import cache around WorkflowRun.

The number of runs is kept: where a question of an existing run is subsumed by
a larger composition, the composition replaces it.
