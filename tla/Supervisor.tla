----------------------------- MODULE Supervisor -----------------------------
(***************************************************************************)
(* The supervisors of one server root: start-up under the data-root lock   *)
(* with recovery of an interrupted update, the lifecycle of the server     *)
(* core (launch, ready, crash, restart timer, stop), the update            *)
(* transaction with its rollback, and the uninstaller.                     *)
(*                                                                         *)
(* A supervisor is a process; two of them may be started for the same      *)
(* root, and any of them may be killed at any step.  The core is a child   *)
(* process: one that loses its supervisor becomes an orphan and exits by   *)
(* itself later (installParentDisconnectHandler).  The lock is atomic here;*)
(* DataRootLock models how it is taken.                                    *)
(*                                                                         *)
(* Abstractions: a release is its name; Bundled stands for the null        *)
(* manifest (the core that ships with the CLI).  The status snapshot, the  *)
(* control socket's framing, running task counts (the guard of an update   *)
(* without --force) and host, port and generation numbers are left out.    *)
(***************************************************************************)
EXTENDS Naturals, FiniteSets

CONSTANTS
    None,
    Supervisors,   \* processes that may run `serve` on this root
    Uninstaller,   \* the process that runs `uninstall`
    Releases,      \* releases under releases/
    Bundled,       \* no current.json: the CLI's own core
    CoreIds,       \* bound: names for core processes alive at the same time
    Installed,     \* what current.json names at first
    CrashBudget,   \* CRASH_BACKOFF_MS.length
    MaxPrepares,   \* bound: updates prepared
    MaxFaults      \* bound: file or socket operations that fail

ASSUME SupervisorAssumption ==
    /\ None \notin Supervisors \cup Releases \cup {Bundled, Uninstaller}
    /\ Uninstaller \notin Supervisors /\ Bundled \notin Releases
    /\ None \notin [id : CoreIds, sup : Supervisors \cup {None},
                   release : Releases \cup {Bundled}]
    /\ Installed \in Releases \cup {Bundled}
    /\ CrashBudget \in Nat /\ MaxPrepares \in Nat /\ MaxFaults \in Nat

VARIABLES
    alive,        \* processes that run
    sup,          \* supervisor |-> its memory
    core,         \* supervisor |-> this.core
    live,         \* core processes of the machine
    current,      \* current.json
    pending,      \* pending.json
    marker,       \* update-transaction.json: its previous
    lock,         \* run/server.lock: its holder, None without a running one
    uninstalled,  \* uninstalled.json
    erasing,      \* step of the uninstaller
    prepares, faults,
    settled,      \* history: the release the last completed update left
    overwritten   \* history: an update began over the marker of another

disk == <<current, pending, marker>>
history == <<settled, overwritten>>
machine == <<alive, core, live>>
removal == <<uninstalled, erasing>>
vars == <<machine, sup, disk, lock, removal, prepares, faults, history>>

Manifests == Releases \cup {Bundled}
States == {"stopped", "starting", "ready", "stopping", "stop-failed", "crashed",
           "crash-loop-stopped", "updating"}
Steps == {"idle", "acquire", "recover", "unmark", "boot", "stopping", "closing", "mark",
          "switch", "unpend", "await", "complete", "restore", "settle", "awaitPrevious"}

(* A new Supervisor: op is the lifecycle operation that holds the gate, pc  *)
(* its next step, after what the stop in progress is for, timers the armed  *)
(* restart timers, crashes the crash count of the current window.           *)
Fresh ==
    [state |-> "stopped", op |-> "none", pc |-> "idle", after |-> "idle",
     active |-> Bundled, previous |-> Bundled, candidate |-> Bundled,
     timers |-> 0, crashes |-> 0]

(* Without its process a lock file counts as free (isHolderAlive). *)
LockFree == lock = None
Unlocked(p) == IF lock = p THEN None ELSE lock
At(p, step) == p \in alive \cap Supervisors /\ sup[p].pc = step
Set(p, s) == sup' = [sup EXCEPT ![p] = s]
(* The operation is over and the gate is free. *)
Ended(s, state) ==
    [s EXCEPT !.state = state, !.op = "none", !.pc = "idle", !.after = "idle",
              !.previous = Bundled, !.candidate = Bundled]

FreeId == CHOOSE i \in CoreIds : \A x \in live : x.id # i
(* launchCore: p becomes "starting" with a new core; s is p's memory. *)
Launch(p, release, s) ==
    /\ \E i \in CoreIds : \A x \in live : x.id # i
    /\ LET x == [id |-> FreeId, sup |-> p, release |-> release]
       IN  core' = [core EXCEPT ![p] = x] /\ live' = live \cup {x}
    /\ Set(p, [s EXCEPT !.state = "starting", !.active = release])

(* The memory of p is gone; its core, if any, is an orphan. *)
Vanish(p) ==
    /\ alive' = alive \ {p}
    /\ sup' = [sup EXCEPT ![p] = Fresh]
    /\ core' = [core EXCEPT ![p] = None]
    /\ live' = {IF x.sup = p THEN [x EXCEPT !.sup = None] ELSE x : x \in live}

Init ==
    /\ alive = {} /\ live = {}
    /\ sup = [p \in Supervisors |-> Fresh]
    /\ core = [p \in Supervisors |-> None]
    /\ current = Installed /\ pending = None /\ marker = None
    /\ lock = None /\ uninstalled = FALSE /\ erasing = "idle"
    /\ prepares = 0 /\ faults = 0
    /\ settled = current /\ overwritten = FALSE

-----------------------------------------------------------------------------
(* start: lock, recovery, control server, core.                            *)

(* `serve`: a new process calls start. *)
Serve(p) ==
    /\ p \notin alive
    /\ alive' = alive \cup {p}
    /\ Set(p, [Fresh EXCEPT !.op = "start", !.pc = "acquire"])
    /\ UNCHANGED <<core, live, disk, lock, removal, prepares, faults, history>>

(* start throws.  The process of a first start ends; after the stop of a    *)
(* restart neither socket nor child keeps the event loop, so it ends too.   *)
StartThrows(p) == Vanish(p)

Acquire(p) ==
    /\ At(p, "acquire")
    /\ \/ LockFree /\ lock' = p /\ Set(p, [sup[p] EXCEPT !.pc = "recover"]) /\ UNCHANGED machine
       \/ ~LockFree /\ StartThrows(p) /\ UNCHANGED lock
    /\ UNCHANGED <<disk, removal, prepares, faults, history>>

(* recoverSupervisorStartup: an uninstalled root is refused; the pointer an *)
(* interrupted update left is set back.  Mutant: the pointer stays.         *)
RecoverUnmarkOnly(p) ==
    /\ At(p, "recover")
    /\ Set(p, [sup[p] EXCEPT !.pc = "boot"]) /\ marker' = None
    /\ UNCHANGED <<machine, current, pending, lock, removal, prepares, faults, history>>
Recover(p) ==
    /\ At(p, "recover")
    /\ \/ uninstalled /\ StartThrows(p) /\ lock' = None /\ UNCHANGED current
       \/ /\ ~uninstalled /\ marker = None
          /\ Set(p, [sup[p] EXCEPT !.pc = "boot"])
          /\ UNCHANGED <<machine, current, lock>>
       \/ /\ ~uninstalled /\ marker # None /\ current' = marker
          /\ Set(p, [sup[p] EXCEPT !.pc = "unmark"])
          /\ UNCHANGED <<machine, lock>>
    /\ UNCHANGED <<pending, marker, removal, prepares, faults, history>>

Unmark(p) ==
    /\ At(p, "unmark") /\ marker' = None
    /\ Set(p, [sup[p] EXCEPT !.pc = "boot"])
    /\ UNCHANGED <<machine, current, pending, lock, removal, prepares, faults, history>>

(* The recovery or the control server fails; neither core nor control       *)
(* server exists yet, so the lock is given back.                            *)
StartFault(p) ==
    /\ At(p, "recover") \/ At(p, "unmark") \/ At(p, "boot")
    /\ sup[p].pc = "recover" => marker # None
    /\ faults < MaxFaults /\ faults' = faults + 1
    /\ StartThrows(p) /\ lock' = None
    /\ UNCHANGED <<disk, removal, prepares, history>>

(* readCurrentForExecution, createControlServer, launchCore. *)
Boot(p) ==
    /\ At(p, "boot")
    /\ Launch(p, current, Ended(sup[p], "starting"))
    /\ UNCHANGED <<alive, disk, lock, removal, prepares, faults, history>>

-----------------------------------------------------------------------------
(* The core: ready, exit, crash, restart timer.                            *)

Ready(p) ==
    /\ p \in alive /\ core[p] # None /\ sup[p].state = "starting"
    /\ Set(p, [sup[p] EXCEPT !.state = "ready"])
    /\ UNCHANGED <<machine, disk, lock, removal, prepares, faults, history>>

(* An orphan ends. *)
OrphanExits(x) ==
    /\ x.sup = None /\ live' = live \ {x}
    /\ UNCHANGED <<alive, sup, core, disk, lock, removal, prepares, faults, history>>

(* The memory after stopCore returned, by the caller that waits for it. *)
AfterStop(s) ==
    CASE s.after = "closing" -> [s EXCEPT !.state = "stopped", !.pc = "closing", !.after = "idle"]
      [] s.after = "mark"    -> [s EXCEPT !.state = "updating", !.pc = "mark", !.after = "idle"]
      [] s.after = "restore" -> [s EXCEPT !.pc = "restore", !.after = "idle"]
      [] OTHER               -> Ended(s, "stopped")

(* recordCrash and the restart it decides on. *)
AfterCrash(s) ==
    IF s.crashes >= CrashBudget
    THEN [s EXCEPT !.state = "crash-loop-stopped", !.crashes = CrashBudget + 1]
    ELSE [s EXCEPT !.state = "crashed", !.crashes = @ + 1, !.timers = @ + 1]

(* handleTerminal, and the exit stopCore waits for. *)
CoreExits(p) ==
    /\ p \in alive /\ core[p] # None
    /\ core' = [core EXCEPT ![p] = None] /\ live' = live \ {core[p]}
    /\ Set(p, IF sup[p].pc = "stopping" THEN AfterStop(sup[p])
              ELSE IF sup[p].state = "stop-failed" THEN sup[p] ELSE AfterCrash(sup[p]))
    /\ UNCHANGED <<alive, disk, lock, removal, prepares, faults, history>>

(* A restart timer fires.  It is never cancelled and recognises its crash   *)
(* only by the state.                                                       *)
Timer(p) ==
    /\ p \in alive /\ sup[p].timers > 0
    /\ LET s == [sup[p] EXCEPT !.timers = @ - 1]
       IN  \/ s.state = "crashed" /\ Launch(p, s.active, s)
           \/ s.state # "crashed" /\ Set(p, s) /\ UNCHANGED <<core, live>>
    /\ UNCHANGED <<alive, disk, lock, removal, prepares, faults, history>>

(* The crash window ends (the delays are far shorter than the window). *)
WindowEnds(p) ==
    /\ p \in alive /\ sup[p].crashes > 0 /\ sup[p].timers = 0
    /\ Set(p, [sup[p] EXCEPT !.crashes = 0])
    /\ UNCHANGED <<machine, disk, lock, removal, prepares, faults, history>>

-----------------------------------------------------------------------------
(* Lifecycle operations; the gate admits one at a time.                    *)

GateOpen(p) == At(p, "idle") /\ sup[p].op = "none"

(* stopCore for the caller `after`, or what follows when there is no core. *)
StopFor(p, s, after, without) ==
    Set(p, IF core[p] = None THEN without
           ELSE [s EXCEPT !.state = "stopping", !.pc = "stopping", !.after = after])

(* stop, restart and confirm-uninstall. *)
Stop(p, kind) ==
    /\ GateOpen(p)
    /\ LET s == [sup[p] EXCEPT !.op = kind]
       IN  StopFor(p, s, "closing", [s EXCEPT !.state = "stopped", !.pc = "closing"])
    /\ UNCHANGED <<machine, disk, lock, removal, prepares, faults, history>>

(* No exit was seen after SIGKILL: the core and the lock are kept. *)
StopTimesOut(p) ==
    /\ At(p, "stopping")
    /\ Set(p, Ended(sup[p], "stop-failed"))
    /\ UNCHANGED <<machine, disk, lock, removal, prepares, faults, history>>

(* control.close and lock.release (of the own token only); a stop ends the  *)
(* process, a restart goes on to start, which reads activeRelease anew.      *)
Close(p) ==
    /\ At(p, "closing")
    /\ lock' = Unlocked(p)
    /\ IF sup[p].op = "restart"
       THEN /\ Set(p, [sup[p] EXCEPT !.pc = "acquire", !.active = Bundled])
            /\ UNCHANGED machine
       ELSE Vanish(p)
    /\ UNCHANGED <<disk, removal, prepares, faults, history>>

-----------------------------------------------------------------------------
(* applyUpdate.                                                            *)

(* Mutant: pending.json is not looked at first. *)
BeginUnprepared(p) ==
    /\ GateOpen(p)
    /\ LET s == [sup[p] EXCEPT !.op = "update", !.previous = current, !.candidate = pending]
       IN  StopFor(p, s, "mark", [s EXCEPT !.state = "updating", !.pc = "mark"])
    /\ overwritten' = (overwritten \/ marker # None)
    /\ UNCHANGED <<machine, disk, lock, removal, prepares, faults, settled>>
BeginUpdate(p) ==
    /\ GateOpen(p) /\ pending # None
    /\ LET s == [sup[p] EXCEPT !.op = "update", !.previous = current, !.candidate = pending]
       IN  StopFor(p, s, "mark", [s EXCEPT !.state = "updating", !.pc = "mark"])
    /\ overwritten' = (overwritten \/ marker # None)
    /\ UNCHANGED <<machine, disk, lock, removal, prepares, faults, settled>>

(* beginUpdate: the marker, before the pointer. *)
Mark(p) ==
    /\ At(p, "mark") /\ marker' = sup[p].previous
    /\ Set(p, [sup[p] EXCEPT !.pc = "switch"])
    /\ UNCHANGED <<machine, current, pending, lock, removal, prepares, faults, history>>

(* applyPending reads pending.json a second time. *)
Switch(p) ==
    /\ At(p, "switch") /\ pending # None /\ current' = pending
    /\ Set(p, [sup[p] EXCEPT !.pc = "unpend"])
    /\ UNCHANGED <<machine, pending, marker, lock, removal, prepares, faults, history>>

(* pending.json is removed; the candidate read first is launched. *)
Unpend(p) ==
    /\ At(p, "unpend") /\ pending' = None
    /\ Launch(p, sup[p].candidate, [sup[p] EXCEPT !.pc = "await"])
    /\ UNCHANGED <<alive, current, marker, lock, removal, prepares, faults, history>>

(* waitForUpdateReady polls the state; it may miss a crash that a restart   *)
(* timer has answered already.                                              *)
AwaitReady(p) ==
    /\ At(p, "await") /\ sup[p].state = "ready"
    /\ Set(p, [sup[p] EXCEPT !.pc = "complete"])
    /\ UNCHANGED <<machine, disk, lock, removal, prepares, faults, history>>

Complete(p) ==
    /\ At(p, "complete") /\ marker' = None /\ settled' = current
    /\ Set(p, Ended(sup[p], sup[p].state))
    /\ UNCHANGED <<machine, current, pending, lock, removal, prepares, faults, overwritten>>

(* The catch of applyUpdate: enterUpdateRollback, then stop the candidate.  *)
(* Mutant: the state stays "crashed" while the pointer is restored.         *)
LeaveCrashedNot(s) == s
LeaveCrashed(s) == IF s.state = "crashed" THEN [s EXCEPT !.state = "updating"] ELSE s
RollBack(p) ==
    LET s == LeaveCrashed(sup[p])
    IN  StopFor(p, s, "restore", [s EXCEPT !.pc = "restore"])

(* The candidate crashed or did not report ready in time.  Mutant: the wait *)
(* has no deadline.                                                         *)
AwaitCrash(p) ==
    /\ At(p, "await") /\ core[p] = None /\ RollBack(p)
    /\ UNCHANGED <<machine, disk, lock, removal, prepares, faults, history>>
AwaitFails(p) ==
    /\ At(p, "await") /\ RollBack(p)
    /\ UNCHANGED <<machine, disk, lock, removal, prepares, faults, history>>

(* A file operation of the update fails, or pending.json is gone. *)
UpdateThrows(p) ==
    /\ \/ /\ \E step \in {"mark", "switch", "unpend", "complete"} : At(p, step)
          /\ faults < MaxFaults /\ faults' = faults + 1
       \/ At(p, "switch") /\ pending = None /\ UNCHANGED faults
    /\ RollBack(p)
    /\ UNCHANGED <<machine, disk, lock, removal, prepares, history>>

(* restoreCurrent(previous); Mutant: the marker goes first. *)
RestoreUnmarked(p) ==
    /\ At(p, "restore") /\ marker' = None
    /\ Set(p, [sup[p] EXCEPT !.pc = "settle"])
    /\ UNCHANGED <<machine, current, pending, lock, removal, prepares, faults, history>>
Restore(p) ==
    /\ At(p, "restore") /\ current' = sup[p].previous
    /\ Set(p, [sup[p] EXCEPT !.pc = "settle"])
    /\ UNCHANGED <<machine, pending, marker, lock, removal, prepares, faults, history>>

(* completeUpdate; the previous release is launched, unless it is null.     *)
Settle(p) ==
    /\ At(p, "settle") /\ marker' = None
    /\ IF sup[p].previous = Bundled
       THEN /\ Set(p, [Ended(sup[p], "stopped") EXCEPT !.active = Bundled])
            /\ UNCHANGED <<core, live>>
       ELSE Launch(p, sup[p].previous, [sup[p] EXCEPT !.pc = "awaitPrevious"])
    /\ UNCHANGED <<alive, current, pending, lock, removal, prepares, faults, history>>

(* The rollback itself fails: the marker stays for the next start. *)
RollbackFault(p) ==
    /\ At(p, "restore") \/ At(p, "settle")
    /\ faults < MaxFaults /\ faults' = faults + 1
    /\ Set(p, Ended(sup[p], "stop-failed"))
    /\ UNCHANGED <<machine, disk, lock, removal, prepares, history>>

AwaitPreviousReady(p) ==
    /\ At(p, "awaitPrevious") /\ sup[p].state = "ready"
    /\ Set(p, Ended(sup[p], "ready"))
    /\ UNCHANGED <<machine, disk, lock, removal, prepares, faults, history>>

AwaitPreviousFails(p) ==
    /\ At(p, "awaitPrevious")
    /\ StopFor(p, sup[p], "idle", Ended(sup[p], "stopped"))
    /\ UNCHANGED <<machine, disk, lock, removal, prepares, faults, history>>

-----------------------------------------------------------------------------
(* Other processes: `update` prepares or discards, `uninstall` erases.     *)

Prepare(r) ==
    /\ prepares < MaxPrepares /\ prepares' = prepares + 1
    /\ r # current /\ pending' = r
    /\ UNCHANGED <<machine, sup, current, marker, lock, removal, faults, history>>

Discard ==
    /\ pending # None /\ pending' = None
    /\ UNCHANGED <<machine, sup, current, marker, lock, removal, prepares, faults, history>>

(* acquireUninstallLock. *)
UninstallBegins ==
    /\ erasing = "idle" /\ ~uninstalled /\ LockFree
    /\ lock' = Uninstaller /\ alive' = alive \cup {Uninstaller} /\ erasing' = "current"
    /\ UNCHANGED <<core, live, sup, disk, uninstalled, prepares, faults, history>>

(* The entries are removed one after another, and a death in between leaves *)
(* the rest: the pointer, then what was prepared, then the transaction      *)
(* file.  A start returns to what that file names as long as it is there,   *)
(* and boots the bundled release when neither file is.                      *)
EraseEntry ==
    \/ /\ erasing = "current" /\ erasing' = "pending" /\ current' = Bundled
       /\ settled' = IF marker = None THEN Bundled ELSE settled
       /\ UNCHANGED <<pending, marker>>
    \/ /\ erasing = "pending" /\ erasing' = "transaction" /\ pending' = None
       /\ UNCHANGED <<current, marker, settled>>
    \/ /\ erasing = "transaction" /\ erasing' = "mark" /\ marker' = None
       /\ settled' = current
       /\ UNCHANGED <<current, pending>>

(* Mutant: the lock is given back before uninstalled.json is written. *)
UninstallErasesUnlocked ==
    /\ EraseEntry /\ lock' = None
    /\ UNCHANGED <<machine, sup, uninstalled, prepares, faults, overwritten>>
UninstallErases ==
    /\ EraseEntry
    /\ UNCHANGED <<machine, sup, lock, uninstalled, prepares, faults, overwritten>>

(* uninstalled.json is written before the lock is given back. *)
UninstallEnds ==
    /\ erasing = "mark" /\ erasing' = "idle" /\ uninstalled' = TRUE
    /\ lock' = Unlocked(Uninstaller) /\ alive' = alive \ {Uninstaller}
    /\ UNCHANGED <<core, live, sup, disk, prepares, faults, history>>

UninstallKilled ==
    /\ erasing # "idle" /\ erasing' = "idle"
    /\ lock' = None /\ alive' = alive \ {Uninstaller}
    /\ UNCHANGED <<core, live, sup, disk, uninstalled, prepares, faults, history>>

Kill(p) ==
    /\ p \in alive /\ Vanish(p) /\ lock' = Unlocked(p)
    /\ UNCHANGED <<disk, removal, prepares, faults, history>>

-----------------------------------------------------------------------------
(* The steps that go on by themselves. *)
Advance(p) ==
    \/ Acquire(p) \/ Recover(p) \/ Unmark(p) \/ Boot(p) \/ Close(p)
    \/ Mark(p) \/ Switch(p) \/ Unpend(p) \/ Complete(p) \/ Restore(p) \/ Settle(p)
    \/ UpdateThrows(p)
Answer(p) ==
    \/ StopTimesOut(p) \/ AwaitReady(p) \/ AwaitFails(p)
    \/ AwaitPreviousReady(p) \/ AwaitPreviousFails(p)

Next ==
    \/ \E p \in Supervisors :
          \/ Serve(p) \/ StartFault(p) \/ RollbackFault(p)
          \/ Advance(p) \/ Answer(p)
          \/ Ready(p) \/ CoreExits(p) \/ Timer(p) \/ WindowEnds(p)
          \/ \E kind \in {"stop", "restart"} : Stop(p, kind)
          \/ BeginUpdate(p) \/ Kill(p)
    \/ \E x \in live : OrphanExits(x)
    \/ \E r \in Releases : Prepare(r)
    \/ Discard
    \/ UninstallBegins \/ UninstallErases \/ UninstallEnds \/ UninstallKilled

Spec == Init /\ [][Next]_vars

(* File operations end, both waits of an update and the wait for an exit    *)
(* have deadlines, and an orphan notices that its parent is gone.           *)
Fairness ==
    /\ \A p \in Supervisors : WF_vars(Advance(p)) /\ WF_vars(Answer(p)) /\ WF_vars(Timer(p))
    /\ WF_vars(\E x \in live : OrphanExits(x))
FairSpec == Spec /\ Fairness

-----------------------------------------------------------------------------
Memory ==
    [state : States, op : {"none", "start", "stop", "restart", "update"}, pc : Steps,
     after : {"idle", "closing", "mark", "restore"},
     active : Manifests, previous : Manifests, candidate : Manifests,
     timers : Nat, crashes : 0..(CrashBudget + 1)]
CoreRecord == [id : CoreIds, sup : Supervisors \cup {None}, release : Manifests]

(* The variables have the shapes the code gives them. *)
TypeOK ==
    /\ alive \subseteq Supervisors \cup {Uninstaller}
    /\ sup \in [Supervisors -> Memory]
    /\ core \in [Supervisors -> CoreRecord \cup {None}]
    /\ live \subseteq CoreRecord
    /\ current \in Manifests
    /\ pending \in Releases \cup {None} /\ marker \in Manifests \cup {None}
    /\ lock \in Supervisors \cup {Uninstaller, None}
    /\ uninstalled \in BOOLEAN
    /\ erasing \in {"idle", "current", "pending", "transaction", "mark"}
    /\ prepares \in 0..MaxPrepares /\ faults \in 0..MaxFaults
    /\ settled \in Manifests /\ overwritten \in BOOLEAN

(* Of all the cores on the machine at most one has a running supervisor,    *)
(* and that supervisor holds the data-root lock: through restart timers     *)
(* that outlive their crash, stops that fail, rollbacks that relaunch, and  *)
(* a second supervisor (stopCore, handleTerminal, applyUpdate).             *)
Owned == {x \in live : x.sup # None}
OneCore ==
    /\ \A x, y \in Owned : x = y
    /\ \A x \in Owned : lock = x.sup /\ core[x.sup] = x

(* Once uninstalled.json is written no supervisor runs a core on this root: *)
(* start reads it under the lock the uninstaller held while it wrote it.    *)
UninstalledRunsNothing == uninstalled => Owned = {}

(* Whenever current.json names another release than the last update that    *)
(* completed, the transaction file names that one, so that a process death  *)
(* at any step can be undone (beginUpdate before applyPending,              *)
(* restoreCurrent before completeUpdate).  An update started over the       *)
(* marker of a failed rollback is excepted: it takes the release that one   *)
(* left for the one to return to.                                           *)
RollbackPoint == overwritten \/ current = settled \/ marker = settled

(* A supervisor that starts launches the release the last completed update  *)
(* left, whatever was interrupted before it (readCurrentForExecution after  *)
(* recovery, both under the lock).                                          *)
BootsSettled ==
    [][\A p \in Supervisors : At(p, "boot") /\ core'[p] # None
          => overwritten \/ core'[p].release = settled]_vars

(* Every lifecycle operation lets go of the gate, so that a stop is not     *)
(* refused for ever (runLifecycleOperation).                                *)
LifecycleEnds == \A p \in Supervisors : sup[p].op # "none" ~> sup[p].op = "none"

=============================================================================
