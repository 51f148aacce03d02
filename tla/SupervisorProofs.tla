-------------------------- MODULE SupervisorProofs --------------------------
(***************************************************************************)
(* Proofs about Supervisor for any number of supervisors, releases, crash  *)
(* budget and faults: type correctness, one supervised core, nothing runs  *)
(* on an uninstalled root, and an interrupted update can be undone and is. *)
(*                                                                         *)
(* Everything rests on the data-root lock: LockHeld says that no two       *)
(* processes are past Acquire, so that what one has read of current.json   *)
(* and update-transaction.json is still true when it writes (Undo).        *)
(***************************************************************************)
EXTENDS Supervisor, TLAPS

\* Supervisors that have passed Acquire.
Holders == {p \in alive \cap Supervisors : sup[p].pc # "acquire"}

\* A supervisor past Acquire holds the lock, and so does the uninstaller.
LockHeld ==
    /\ \A p \in Holders : lock = p
    /\ erasing # "idle" => lock = Uninstaller

\* Steps at which a supervisor has no core.
CoreLess == {"acquire", "recover", "unmark", "boot", "closing",
             "mark", "switch", "unpend", "restore", "settle"}

\* this.core and the machine agree, and no restart timer finds "crashed" while
\* a core runs or at a step that has none.
Cores ==
    /\ \A x \in live : x.sup # None => core[x.sup] = x
    /\ \A p \in Supervisors :
         /\ core[p] # None => core[p].sup = p /\ p \in alive /\ core[p] \in live
         /\ sup[p].state = "crashed" => core[p] = None /\ sup[p].pc \notin CoreLess
         /\ sup[p].pc \in CoreLess => core[p] = None

\* On an uninstalled root a supervisor gets no further than recovery.
Removed == uninstalled => \A p \in Holders : sup[p].pc = "recover"

\* What p knows of the files at each step of start and applyUpdate.
Waits(p, step) == sup[p].pc = step \/ (sup[p].pc = "stopping" /\ sup[p].after = step)
Returnable(p) ==
    /\ Waits(p, "mark") => marker = None /\ sup[p].previous = current
    /\ sup[p].pc \in {"switch", "unpend", "await", "complete"} =>
         marker = settled /\ sup[p].previous = settled
    /\ Waits(p, "restore") => sup[p].previous = settled
    /\ sup[p].pc = "settle" => sup[p].previous = settled /\ current = settled
    /\ sup[p].pc \in {"unmark", "boot"} => current = settled

Undo == overwritten \/ /\ marker \in {None, settled}
                       /\ \A p \in Holders : Returnable(p)
-----------------------------------------------------------------------------
(* Type correctness.                                                       *)

Files ==
    /\ current \in Manifests
    /\ pending \in Releases \cup {None} /\ marker \in Manifests \cup {None}
    /\ lock \in Supervisors \cup {Uninstaller, None}
    /\ uninstalled \in BOOLEAN
    /\ erasing \in {"idle", "current", "pending", "transaction", "mark"}
    /\ prepares \in 0..MaxPrepares /\ faults \in 0..MaxFaults
    /\ settled \in Manifests /\ overwritten \in BOOLEAN
Processes ==
    /\ alive \subseteq Supervisors \cup {Uninstaller}
    /\ sup \in [Supervisors -> Memory]
    /\ core \in [Supervisors -> CoreRecord \cup {None}]
    /\ live \subseteq CoreRecord

LEMMA TypeParts == TypeOK <=> Files /\ Processes
  BY DEF TypeOK, Files, Processes

LEMMA EndedTyped ==
  ASSUME NEW s \in Memory, NEW state \in States
  PROVE  Ended(s, state) \in Memory
  BY DEF Ended, Memory, Steps, Manifests

LEMMA EndedFields ==
  ASSUME NEW s \in Memory, NEW state \in States
  PROVE  Ended(s, state).state = state /\ Ended(s, state).pc = "idle"
  BY DEF Ended, Memory

LEMMA FreshTyped == Fresh \in Memory
  BY SupervisorAssumption DEF SupervisorAssumption, Fresh, Memory, States, Steps, Manifests

LEMMA InitTyped == Init => TypeOK
<1> SUFFICES ASSUME Init PROVE TypeOK
  OBVIOUS
<1>1. Processes
  BY FreshTyped DEF Init, Processes
<1>2. Files
  <2>1. Installed \in Manifests /\ MaxPrepares \in Nat /\ MaxFaults \in Nat
    BY SupervisorAssumption DEF SupervisorAssumption, Manifests
  <2>2. prepares \in 0..MaxPrepares /\ faults \in 0..MaxFaults
    BY <2>1 DEF Init
  <2> QED
    BY <2>1, <2>2 DEF Init, Files
<1> QED
  BY <1>1, <1>2, TypeParts

\* Writes to the memory of one supervisor.
LEMMA SetTyped ==
  ASSUME Processes, NEW p \in Supervisors, NEW s \in Memory, Set(p, s)
  PROVE  sup' \in [Supervisors -> Memory]
  BY DEF Processes, Set

LEMMA LaunchTyped ==
  ASSUME Processes, NEW p \in Supervisors, NEW release \in Manifests, NEW s \in Memory,
         Launch(p, release, s), alive' = alive
  PROVE  Processes'
<1>1. FreeId \in CoreIds
  BY DEF Launch, FreeId
<1>2. [id |-> FreeId, sup |-> p, release |-> release] \in CoreRecord
  BY <1>1 DEF CoreRecord
<1>3. [s EXCEPT !.state = "starting", !.active = release] \in Memory
  BY DEF Memory, States
<1>4. sup' \in [Supervisors -> Memory]
  BY <1>3, SetTyped DEF Launch
<1> QED
  BY <1>2, <1>4 DEF Launch, Processes

LEMMA VanishTyped ==
  ASSUME Processes, NEW p \in Supervisors, Vanish(p)
  PROVE  Processes'
<1>1. sup' \in [Supervisors -> Memory]
  BY FreshTyped DEF Vanish, Processes
<1>2. live' \subseteq CoreRecord
  BY DEF Vanish, Processes, CoreRecord
<1> QED
  BY <1>1, <1>2 DEF Vanish, Processes

LEMMA StopForTyped ==
  ASSUME Processes, NEW p \in Supervisors, NEW s \in Memory, NEW without \in Memory,
         NEW after \in {"idle", "closing", "mark", "restore"},
         StopFor(p, s, after, without), UNCHANGED machine
  PROVE  Processes'
<1>1. [s EXCEPT !.state = "stopping", !.pc = "stopping", !.after = after] \in Memory
  BY ZenonT(40) DEF Memory, States, Steps
<1>2. sup' \in [Supervisors -> Memory]
  BY <1>1, SetTyped DEF StopFor, Set
<1> QED
  BY <1>2 DEF Processes, machine

\* Every step keeps the types.
LEMMA TypeStep ==
  ASSUME TypeOK, [Next]_vars
  PROVE  TypeOK'
<1> SUFFICES Files' /\ Processes'
  BY DEF TypeOK, Files, Processes
<1>0. Files /\ Processes
  BY TypeParts
<1> USE <1>0 DEF machine, disk, history, removal
<1>1. ASSUME UNCHANGED <<alive, sup, core, live>> PROVE Processes'
  BY <1>1 DEF Processes
<1>2. ASSUME NEW p \in Supervisors, NEW s \in Memory, Set(p, s), UNCHANGED machine
      PROVE  Processes'
  BY <1>2, SetTyped DEF Processes
<1>3. ASSUME NEW p \in Supervisors PROVE sup[p] \in Memory
  BY DEF Processes
<1>4. ASSUME NEW p \in Supervisors, Serve(p) PROVE Files' /\ Processes'
  <2>1. [Fresh EXCEPT !.op = "start", !.pc = "acquire"] \in Memory
    BY FreshTyped DEF Memory, Steps
  <2>2. sup' \in [Supervisors -> Memory]
    BY <1>4, <2>1, SetTyped DEF Serve
  <2> QED
    BY <1>4, <2>2 DEF Serve, Files, Processes
<1>5. ASSUME NEW p \in Supervisors, Acquire(p) PROVE Files' /\ Processes'
  <2>1. Files'
    BY <1>5 DEF Acquire, Files
  <2>2. [sup[p] EXCEPT !.pc = "recover"] \in Memory
    BY <1>3 DEF Memory, Steps
  <2> QED
    BY <1>2, <1>5, <2>1, <2>2, VanishTyped DEF Acquire, StartThrows
<1>6. ASSUME NEW p \in Supervisors, Recover(p) PROVE Files' /\ Processes'
  <2>1. Files'
    BY <1>6 DEF Recover, Files, Manifests
  <2>2. [sup[p] EXCEPT !.pc = "boot"] \in Memory /\ [sup[p] EXCEPT !.pc = "unmark"] \in Memory
    BY <1>3 DEF Memory, Steps
  <2> QED
    BY <1>2, <1>6, <2>1, <2>2, VanishTyped DEF Recover, StartThrows
<1>7. ASSUME NEW p \in Supervisors, StartFault(p) PROVE Files' /\ Processes'
  <2>1. Files'
    BY <1>7, SupervisorAssumption DEF StartFault, Files, SupervisorAssumption
  <2> QED
    BY <1>7, <2>1, VanishTyped DEF StartFault, StartThrows
<1>8. ASSUME NEW p \in Supervisors, Boot(p) PROVE Files' /\ Processes'
  <2>1. Files' /\ current \in Manifests
    BY <1>8 DEF Boot, Files
  <2>2. Ended(sup[p], "starting") \in Memory
    BY <1>3, EndedTyped DEF States
  <2> QED
    BY <1>8, <2>1, <2>2, LaunchTyped DEF Boot
<1>9. ASSUME NEW p \in Supervisors,
             Unmark(p) \/ Mark(p) \/ Switch(p) \/ Restore(p) \/ AwaitReady(p) \/ Ready(p)
             \/ WindowEnds(p) \/ StopTimesOut(p) \/ AwaitPreviousReady(p)
      PROVE  Files' /\ Processes'
  <2>1. Files'
    BY <1>3, <1>9 DEF Unmark, Mark, Switch, Restore, AwaitReady, Ready, WindowEnds, StopTimesOut,
       AwaitPreviousReady, Files, Manifests, Memory
  <2>2. /\ \A step \in Steps : [sup[p] EXCEPT !.pc = step] \in Memory
        /\ [sup[p] EXCEPT !.state = "ready"] \in Memory
        /\ [sup[p] EXCEPT !.crashes = 0] \in Memory
        /\ Ended(sup[p], "stop-failed") \in Memory /\ Ended(sup[p], "ready") \in Memory
    BY <1>3, EndedTyped, SupervisorAssumption DEF Memory, States, SupervisorAssumption
  <2>3. {"boot", "switch", "unpend", "settle", "complete"} \subseteq Steps
    BY DEF Steps
  <2> QED
    BY <1>2, <1>9, <2>1, <2>2, <2>3 DEF Unmark, Mark, Switch, Restore, AwaitReady, Ready,
       WindowEnds, StopTimesOut, AwaitPreviousReady
<1>10. ASSUME NEW p \in Supervisors, CoreExits(p) PROVE Files' /\ Processes'
  <2>1. Files' /\ alive' = alive /\ core' = [core EXCEPT ![p] = None] /\ live' \subseteq live
    BY <1>10 DEF CoreExits, Files
  <2>2. AfterStop(sup[p]) \in Memory
    <3>1. [sup[p] EXCEPT !.state = "stopped", !.pc = "closing", !.after = "idle"] \in Memory
      BY <1>3 DEF Memory, States, Steps
    <3>2. [sup[p] EXCEPT !.state = "updating", !.pc = "mark", !.after = "idle"] \in Memory
      BY <1>3 DEF Memory, States, Steps
    <3>3. [sup[p] EXCEPT !.pc = "restore", !.after = "idle"] \in Memory
      BY <1>3 DEF Memory, Steps
    <3>4. Ended(sup[p], "stopped") \in Memory
      BY <1>3, EndedTyped DEF States
    <3> QED
      BY <3>1, <3>2, <3>3, <3>4 DEF AfterStop
  <2>3. AfterCrash(sup[p]) \in Memory
    <3>1. CrashBudget \in Nat /\ sup[p].crashes \in 0 .. (CrashBudget + 1)
      BY <1>3, SupervisorAssumption DEF Memory, SupervisorAssumption
    <3>2. CASE sup[p].crashes >= CrashBudget
      <4>1. CrashBudget + 1 \in 0 .. (CrashBudget + 1)
        BY <3>1
      <4> QED
        BY <1>3, <3>2, <4>1 DEF AfterCrash, Memory, States
    <3>3. CASE ~(sup[p].crashes >= CrashBudget)
      <4>1. sup[p].crashes + 1 \in 0 .. (CrashBudget + 1)
        BY <3>1, <3>3
      <4>2. sup[p].timers + 1 \in Nat
        BY <1>3 DEF Memory
      <4>3. [sup[p] EXCEPT !.state = "crashed", !.crashes = @ + 1, !.timers = @ + 1] \in Memory
        BY <1>3, <4>1, <4>2 DEF Memory, States
      <4> QED
        BY <3>3, <4>3 DEF AfterCrash
    <3> QED
      BY <3>2, <3>3
  <2>4. sup' \in [Supervisors -> Memory]
    BY <1>3, <1>10, <2>2, <2>3, SetTyped DEF CoreExits
  <2> QED
    BY <2>1, <2>4 DEF Processes
<1>11. ASSUME NEW p \in Supervisors, Timer(p) PROVE Files' /\ Processes'
  <2>1. Files'
    BY <1>11 DEF Timer, Files
  <2>2. [sup[p] EXCEPT !.timers = @ - 1] \in Memory
    BY <1>3, <1>11 DEF Timer, Memory
  <2>3. sup[p].active \in Manifests
    BY <1>3 DEF Memory
  <2>4. [sup[p] EXCEPT !.timers = @ - 1].active = sup[p].active
    BY <1>3 DEF Memory
  <2> QED
    BY <1>2, <1>11, <2>1, <2>2, <2>3, <2>4, LaunchTyped DEF Timer
<1>12. ASSUME NEW p \in Supervisors, NEW kind \in {"stop", "restart"}, Stop(p, kind)
       PROVE  Files' /\ Processes'
  <2>1. Files'
    BY <1>12 DEF Stop, Files
  <2>2. /\ [sup[p] EXCEPT !.op = kind] \in Memory
        /\ [[sup[p] EXCEPT !.op = kind] EXCEPT !.state = "stopped", !.pc = "closing"] \in Memory
    BY ZenonT(40), <1>3 DEF Memory, States, Steps
  <2> QED
    BY <1>12, <2>1, <2>2, StopForTyped DEF Stop
<1>13. ASSUME NEW p \in Supervisors, Close(p) PROVE Files' /\ Processes'
  <2>1. Files'
    BY <1>13 DEF Close, Files, Unlocked
  <2>2. [sup[p] EXCEPT !.pc = "acquire", !.active = Bundled] \in Memory
    BY <1>3 DEF Memory, Steps, Manifests
  <2> QED
    BY <1>2, <1>13, <2>1, <2>2, VanishTyped DEF Close
<1>14. ASSUME NEW p \in Supervisors, BeginUpdate(p) PROVE Files' /\ Processes'
  <2>1. Files'
    BY <1>14 DEF BeginUpdate, Files
  <2> DEFINE s == [sup[p] EXCEPT !.op = "update", !.previous = current, !.candidate = pending]
  <2>2. s \in Memory
    BY <1>3, <1>14 DEF BeginUpdate, Files, Memory, Manifests
  <2>3. [s EXCEPT !.state = "updating", !.pc = "mark"] \in Memory
    <3> HIDE DEF s
    <3> QED
      BY <2>2 DEF Memory, States, Steps
  <2>4. StopFor(p, s, "mark", [s EXCEPT !.state = "updating", !.pc = "mark"])
        /\ UNCHANGED machine
    BY <1>14 DEF BeginUpdate
  <2> HIDE DEF s
  <2> QED
    BY <2>1, <2>2, <2>3, <2>4, StopForTyped
<1>15. ASSUME NEW p \in Supervisors, Unpend(p) PROVE Files' /\ Processes'
  <2>1. Files'
    BY <1>15 DEF Unpend, Files
  <2>2. [sup[p] EXCEPT !.pc = "await"] \in Memory /\ sup[p].candidate \in Manifests
    BY <1>3 DEF Memory, Steps
  <2> QED
    BY <1>15, <2>1, <2>2, LaunchTyped DEF Unpend
<1>16. ASSUME NEW p \in Supervisors, Complete(p) PROVE Files' /\ Processes'
  <2>1. Files'
    BY <1>16 DEF Complete, Files
  <2>2. Ended(sup[p], sup[p].state) \in Memory
    BY <1>3, EndedTyped DEF Memory
  <2> QED
    BY <1>2, <1>16, <2>1, <2>2 DEF Complete
<1>17. ASSUME NEW p \in Supervisors, RollBack(p), UNCHANGED machine PROVE Processes'
  <2>1. LeaveCrashed(sup[p]) \in Memory
    BY <1>3 DEF LeaveCrashed, Memory, States
  <2>2. [LeaveCrashed(sup[p]) EXCEPT !.pc = "restore"] \in Memory
    BY <2>1 DEF Memory, Steps
  <2> QED
    BY <1>17, <2>1, <2>2, StopForTyped DEF RollBack
<1>18. ASSUME NEW p \in Supervisors, AwaitFails(p) \/ UpdateThrows(p) PROVE Files' /\ Processes'
  <2>1. Files'
    BY <1>18, SupervisorAssumption DEF AwaitFails, UpdateThrows, Files, SupervisorAssumption
  <2> QED
    BY <1>17, <1>18, <2>1 DEF AwaitFails, UpdateThrows
<1>19. ASSUME NEW p \in Supervisors, Settle(p) PROVE Files' /\ Processes'
  <2>1. Files'
    BY <1>19 DEF Settle, Files
  <2>2. /\ [sup[p] EXCEPT !.pc = "awaitPrevious"] \in Memory
        /\ sup[p].previous \in Manifests
    BY <1>3 DEF Memory, Steps
  <2>3. [Ended(sup[p], "stopped") EXCEPT !.active = Bundled] \in Memory
    BY <1>3, EndedTyped DEF Memory, States, Manifests
  <2> QED
    BY <1>2, <1>19, <2>1, <2>2, <2>3, LaunchTyped DEF Settle
<1>20. ASSUME NEW p \in Supervisors, RollbackFault(p) PROVE Files' /\ Processes'
  <2>1. Files'
    BY <1>20, SupervisorAssumption DEF RollbackFault, Files, SupervisorAssumption
  <2> QED
    BY <1>2, <1>3, <1>20, <2>1, EndedTyped DEF RollbackFault, States
<1>21. ASSUME NEW p \in Supervisors, AwaitPreviousFails(p) PROVE Files' /\ Processes'
  <2>1. Files'
    BY <1>21 DEF AwaitPreviousFails, Files
  <2> QED
    BY <1>3, <1>21, <2>1, EndedTyped, StopForTyped DEF AwaitPreviousFails, States
<1>22. ASSUME NEW p \in Supervisors, Kill(p) PROVE Files' /\ Processes'
  <2>1. Files'
    BY <1>22 DEF Kill, Files, Unlocked
  <2> QED
    BY <1>22, <2>1, VanishTyped DEF Kill
<1>23. ASSUME NEW x \in live, OrphanExits(x) PROVE Files' /\ Processes'
  BY <1>23 DEF OrphanExits, Files, Processes
<1>24. ASSUME NEW r \in Releases, Prepare(r) PROVE Files' /\ Processes'
  BY <1>1, <1>24, SupervisorAssumption DEF Prepare, Files, SupervisorAssumption
<1>25. CASE Discard
  BY <1>1, <1>25 DEF Discard, Files
<1>26. CASE UninstallBegins \/ UninstallErases \/ UninstallEnds \/ UninstallKilled
  BY <1>26 DEF UninstallBegins, UninstallErases, EraseEntry, UninstallEnds, UninstallKilled, Files,
     Processes, Unlocked, Manifests
<1>27. CASE UNCHANGED vars
  BY <1>1, <1>27 DEF vars, Files
<1> QED
  BY <1>4, <1>5, <1>6, <1>7, <1>8, <1>9, <1>10, <1>11, <1>12, <1>13, <1>14, <1>15, <1>16,
     <1>18, <1>19, <1>20, <1>21, <1>22, <1>23, <1>24, <1>25, <1>26, <1>27
  DEF Next, Advance, Answer

(* The memory of every supervisor, the files and the lock keep their types. *)
THEOREM TypeCorrect == Spec => []TypeOK
<1>1. TypeOK /\ [Next]_vars => TypeOK'
  BY TypeStep
<1> QED
  BY <1>1, InitTyped, PTL DEF Spec
-----------------------------------------------------------------------------
(* The lock.                                                               *)

\* The steps of one supervisor.
StepOf(p) ==
    \/ Serve(p) \/ StartFault(p) \/ RollbackFault(p) \/ Advance(p) \/ Answer(p)
    \/ Ready(p) \/ CoreExits(p) \/ Timer(p) \/ WindowEnds(p)
    \/ \E kind \in {"stop", "restart"} : Stop(p, kind)
    \/ BeginUpdate(p) \/ Kill(p)
Uninstalls == UninstallBegins \/ UninstallErases \/ UninstallEnds \/ UninstallKilled

LEMMA NextParts ==
  Next <=> \/ \E p \in Supervisors : StepOf(p)
           \/ \E x \in live : OrphanExits(x)
           \/ \E r \in Releases : Prepare(r)
           \/ Discard
           \/ Uninstalls
  BY DEF Next, StepOf, Uninstalls

\* What the operations on one supervisor's memory do to it and to the others'.
LEMMA SetEffect ==
  ASSUME Processes, NEW p \in Supervisors, NEW s, Set(p, s)
  PROVE  sup'[p] = s /\ \A q \in Supervisors \ {p} : sup'[q] = sup[q]
  BY DEF Processes, Set

LEMMA LaunchEffect ==
  ASSUME Processes, NEW p \in Supervisors, NEW release, NEW s \in Memory, Launch(p, release, s)
  PROVE  /\ sup'[p].state = "starting" /\ sup'[p].pc = s.pc
         /\ sup'[p].after = s.after /\ sup'[p].previous = s.previous
         /\ core'[p].sup = p /\ core'[p].release = release
         /\ core'[p] \in live' /\ live' = live \cup {core'[p]}
         /\ \A q \in Supervisors \ {p} : sup'[q] = sup[q] /\ core'[q] = core[q]
<1>1. /\ sup'[p] = [s EXCEPT !.state = "starting", !.active = release]
      /\ \A q \in Supervisors \ {p} : sup'[q] = sup[q]
  BY SetEffect DEF Launch
<1>2. /\ core'[p] = [id |-> FreeId, sup |-> p, release |-> release]
      /\ live' = live \cup {core'[p]}
      /\ \A q \in Supervisors \ {p} : core'[q] = core[q]
  BY DEF Launch, Processes
<1> QED
  BY <1>1, <1>2 DEF Memory

LEMMA VanishEffect ==
  ASSUME Processes, NEW p \in Supervisors, Vanish(p)
  PROVE  /\ sup'[p] = Fresh /\ core'[p] = None /\ p \notin alive'
         /\ Fresh.pc = "idle" /\ Fresh.state = "stopped"
         /\ alive' \subseteq alive
         /\ \A q \in Supervisors \ {p} : sup'[q] = sup[q] /\ core'[q] = core[q]
  BY DEF Processes, Vanish, Fresh

LEMMA StopForEffect ==
  ASSUME Processes, NEW p \in Supervisors, NEW s \in Memory, NEW after, NEW without,
         StopFor(p, s, after, without)
  PROVE  /\ \A q \in Supervisors \ {p} : sup'[q] = sup[q]
         /\ core[p] = None => sup'[p] = without
         /\ core[p] # None => /\ sup'[p].state = "stopping" /\ sup'[p].pc = "stopping"
                              /\ sup'[p].after = after /\ sup'[p].previous = s.previous
  BY DEF Processes, StopFor, Set, Memory

LEMMA TimerKeepsPc ==
  ASSUME Processes, NEW p \in Supervisors, Timer(p)
  PROVE  sup'[p].pc = sup[p].pc /\ sup'[p].after = sup[p].after
         /\ sup'[p].previous = sup[p].previous
<1> DEFINE t == [sup[p] EXCEPT !.timers = @ - 1]
<1>1. /\ t \in Memory /\ t.active \in Manifests
      /\ t.pc = sup[p].pc /\ t.after = sup[p].after /\ t.previous = sup[p].previous
  BY DEF Processes, Memory, Timer
<1>2. Launch(p, t.active, t) \/ Set(p, t)
  BY DEF Timer
<1> HIDE DEF t
<1> QED
  BY <1>1, <1>2, SetEffect, LaunchEffect

\* A step of one supervisor leaves the others and the uninstaller alone.
LEMMA Others ==
  ASSUME TypeOK, NEW p \in Supervisors, StepOf(p)
  PROVE  /\ \A q \in Supervisors \ {p} :
              sup'[q] = sup[q] /\ core'[q] = core[q] /\ (q \in alive' <=> q \in alive)
         /\ UNCHANGED <<erasing, uninstalled>>
         /\ Uninstaller \in alive' <=> Uninstaller \in alive
<1>0. Processes /\ sup[p] \in Memory /\ p # Uninstaller
  BY TypeParts, SupervisorAssumption DEF Processes, SupervisorAssumption
<1> USE <1>0 DEF machine, removal, Processes
<1>1. CASE Serve(p) \/ RollbackFault(p) \/ Ready(p) \/ WindowEnds(p) \/ BeginUpdate(p)
           \/ \E kind \in {"stop", "restart"} : Stop(p, kind)
  BY <1>1 DEF Serve, RollbackFault, Ready, WindowEnds, BeginUpdate, Stop, StopFor, Set
<1>2. CASE StartFault(p) \/ Kill(p)
  BY <1>2 DEF StartFault, StartThrows, Kill, Vanish
<1>3. CASE CoreExits(p) \/ Timer(p)
  BY <1>3 DEF CoreExits, Timer, Launch, Set
<1>4. CASE Acquire(p) \/ Recover(p) \/ Unmark(p) \/ Boot(p) \/ Close(p)
  BY <1>4 DEF Acquire, Recover, Unmark, Boot, Close, StartThrows, Vanish, Launch, Set
<1>5. CASE Mark(p) \/ Switch(p) \/ Unpend(p) \/ Complete(p) \/ Restore(p) \/ Settle(p)
  BY <1>5 DEF Mark, Switch, Unpend, Complete, Restore, Settle, Launch, Set
<1>6. CASE UpdateThrows(p) \/ Answer(p)
  BY <1>6 DEF UpdateThrows, Answer, StopTimesOut, AwaitReady, AwaitFails, AwaitPreviousReady,
     AwaitPreviousFails, RollBack, StopFor, Set
<1> QED
  BY <1>1, <1>2, <1>3, <1>4, <1>5, <1>6 DEF StepOf, Advance

\* A supervisor takes a free lock, keeps what it has, or stops being a holder
\* when it gives it back.
LEMMA LockMoves ==
  ASSUME TypeOK, NEW p \in Supervisors, StepOf(p)
  PROVE  \/ lock' = lock /\ (p \in Holders' => p \in Holders)
         \/ lock = None /\ lock' = p
         \/ /\ p \notin Holders'
            /\ lock' = Unlocked(p) \/ (p \in Holders /\ lock' = None)
<1>0. Processes /\ sup[p] \in Memory
  BY TypeParts DEF Processes
<1> USE <1>0 DEF Holders, machine
<1>1. CASE Serve(p)
  <2>1. [Fresh EXCEPT !.op = "start", !.pc = "acquire"].pc = "acquire"
    BY FreshTyped DEF Memory
  <2> QED
    BY <1>1, <2>1, SetEffect DEF Serve
<1>2. CASE Acquire(p)
  BY <1>2, VanishEffect DEF Acquire, StartThrows, LockFree
<1>3. CASE Recover(p) \/ StartFault(p)
  BY <1>3, VanishEffect DEF Recover, StartFault, StartThrows, At
<1>4. CASE Kill(p)
  BY <1>4, VanishEffect DEF Kill
<1>5. CASE Close(p)
  <2>1. [sup[p] EXCEPT !.pc = "acquire", !.active = Bundled].pc = "acquire"
    BY DEF Memory
  <2> QED
    BY <1>5, <2>1, SetEffect, VanishEffect DEF Close
<1>6. CASE Ready(p) \/ WindowEnds(p)
  BY <1>6, SetEffect DEF Ready, WindowEnds, Memory
<1>7. CASE CoreExits(p)
  <2>1. lock' = lock /\ p \in alive
    BY <1>7 DEF CoreExits
  <2>2. sup[p].pc = "acquire" => sup'[p].pc = "acquire"
    <3>1. AfterCrash(sup[p]).pc = sup[p].pc
      BY DEF AfterCrash, Memory
    <3> QED
      BY <1>7, <3>1, SetEffect DEF CoreExits
  <2> QED
    BY <2>1, <2>2
<1>8. CASE Timer(p)
  BY <1>8, TimerKeepsPc DEF Timer
<1>9. CASE \/ Unmark(p) \/ Boot(p) \/ Mark(p) \/ Switch(p) \/ Unpend(p) \/ Complete(p)
           \/ Restore(p) \/ Settle(p) \/ UpdateThrows(p) \/ Answer(p) \/ RollbackFault(p)
           \/ BeginUpdate(p) \/ \E kind \in {"stop", "restart"} : Stop(p, kind)
  <2>1. lock' = lock
    BY <1>9 DEF Unmark, Boot, Mark, Switch, Unpend, Complete, Restore, Settle, UpdateThrows,
       Answer, StopTimesOut, AwaitReady, AwaitFails, AwaitPreviousReady, AwaitPreviousFails,
       RollbackFault, BeginUpdate, Stop
  <2>2. p \in Holders
    BY <1>9 DEF Unmark, Boot, Mark, Switch, Unpend, Complete, Restore, Settle, UpdateThrows,
       Answer, StopTimesOut, AwaitReady, AwaitFails, AwaitPreviousReady, AwaitPreviousFails,
       RollbackFault, BeginUpdate, Stop, GateOpen, At
  <2> QED
    BY <2>1, <2>2
<1> QED
  BY <1>1, <1>2, <1>3, <1>4, <1>5, <1>6, <1>7, <1>8, <1>9 DEF StepOf, Advance

\* The lock is held whenever the code relies on it.
LEMMA LockStep ==
  ASSUME TypeOK, LockHeld, [Next]_vars
  PROVE  LockHeld'
<1>0. None # Uninstaller /\ None \notin Supervisors /\ Uninstaller \notin Supervisors
  BY SupervisorAssumption DEF SupervisorAssumption
<1>1. ASSUME NEW p \in Supervisors, StepOf(p) PROVE LockHeld'
  <2>1. \A q \in Supervisors \ {p} : q \in Holders' <=> q \in Holders
    BY <1>1, Others DEF Holders
  <2>2. erasing' = erasing
    BY <1>1, Others
  <2>3. Holders \subseteq Supervisors /\ Holders' \subseteq Supervisors
    BY DEF Holders
  <2> QED
    BY <1>0, <1>1, <2>1, <2>2, <2>3, LockMoves DEF LockHeld, Unlocked
<1>2. CASE Uninstalls
  <2>1. sup' = sup /\ Holders' = Holders
    BY <1>0, <1>2 DEF Uninstalls, UninstallBegins, UninstallErases, EraseEntry, UninstallEnds,
       UninstallKilled, Holders, machine
  <2> QED
    BY <1>0, <1>2, <2>1 DEF Uninstalls, UninstallBegins, UninstallErases, EraseEntry, UninstallEnds,
       UninstallKilled, LockHeld, LockFree, Unlocked, Holders
<1>3. CASE \/ \E x \in live : OrphanExits(x)
           \/ \E r \in Releases : Prepare(r)
           \/ Discard \/ UNCHANGED vars
  BY <1>3 DEF OrphanExits, Prepare, Discard, vars, machine, removal, LockHeld, Holders
<1> QED
  BY <1>1, <1>2, <1>3, NextParts
-----------------------------------------------------------------------------
(* The cores.                                                              *)

CoreOf(p) ==
    /\ core[p] # None => core[p].sup = p /\ p \in alive /\ core[p] \in live
    /\ sup[p].state = "crashed" => core[p] = None /\ sup[p].pc \notin CoreLess
    /\ sup[p].pc \in CoreLess => core[p] = None
Children == \A x \in live : x.sup # None => core[x.sup] = x

LEMMA CoresParts == Cores <=> Children /\ \A p \in Supervisors : CoreOf(p)
  BY DEF Cores, Children, CoreOf

\* What must hold of a supervisor's memory for its core, or the lack of one.
Fits(p, s) ==
    /\ s.state = "crashed" => core[p] = None /\ s.pc \notin CoreLess
    /\ s.pc \in CoreLess => core[p] = None

\* A step that only writes to the memory of p.
LEMMA WriteKeepsCores ==
  ASSUME Processes, Cores, NEW p \in Supervisors, UNCHANGED machine, Fits(p, sup'[p])
  PROVE  CoreOf(p)' /\ Children' /\ \A x \in live : x \in live'
  BY CoresParts DEF CoreOf, Children, Fits, machine

\* A core is launched for a supervisor that has none.
LEMMA LaunchKeepsCores ==
  ASSUME Processes, Cores, NEW p \in Supervisors, NEW release, NEW s \in Memory,
         Launch(p, release, s), p \in alive, alive' = alive,
         core[p] = None, s.pc \notin CoreLess
  PROVE  CoreOf(p)' /\ Children' /\ \A x \in live : x \in live'
<1>1. \A x \in live : x.sup # p
  <2>1. None \notin CoreRecord
    BY SupervisorAssumption DEF SupervisorAssumption, CoreRecord, Manifests
  <2> QED
    BY <2>1, SupervisorAssumption DEF SupervisorAssumption, Cores, Processes
<1>2. /\ core'[p].sup = p /\ core'[p] \in live' /\ live' = live \cup {core'[p]}
      /\ sup'[p].state = "starting" /\ sup'[p].pc \notin CoreLess
      /\ \A q \in Supervisors \ {p} : core'[q] = core[q]
  BY LaunchEffect
<1>3. \A x \in live : x.sup # None => x.sup \in Supervisors
  BY DEF Processes, CoreRecord
<1>4. Children'
  BY <1>1, <1>2, <1>3 DEF Children, Cores
<1> QED
  BY <1>2, <1>4 DEF CoreOf

\* The process is gone, and its core has no supervisor.
LEMMA VanishKeepsCores ==
  ASSUME Processes, Cores, NEW p \in Supervisors, Vanish(p)
  PROVE  CoreOf(p)' /\ Children' /\ \A x \in live : x.sup # p => x \in live'
<1>1. CoreOf(p)'
  BY VanishEffect DEF CoreOf, CoreLess
<1>2. \A x \in live : x.sup # p => x \in live'
  BY DEF Vanish
<1>3. ASSUME NEW y \in live', y.sup # None PROVE core'[y.sup] = y
  <2>1. PICK x \in live : y = IF x.sup = p THEN [x EXCEPT !.sup = None] ELSE x
    BY DEF Vanish
  <2>2. x \in CoreRecord
    BY DEF Processes
  <2>3. x.sup # p /\ y = x
    BY <1>3, <2>1, <2>2 DEF CoreRecord
  <2>4. y.sup \in Supervisors \ {p}
    BY <1>3, <2>2, <2>3 DEF CoreRecord
  <2> QED
    BY <1>3, <2>3, <2>4, VanishEffect DEF Cores
<1> QED
  BY <1>1, <1>2, <1>3 DEF Children

\* A step of p keeps its own core, and the cores of the others.
LEMMA CoreStep ==
  ASSUME TypeOK, Cores, NEW p \in Supervisors, StepOf(p)
  PROVE  CoreOf(p)' /\ Children' /\ \A x \in live : x.sup # p => x \in live'
<1>0. Processes /\ sup[p] \in Memory /\ CoreOf(p)
  BY TypeParts, CoresParts DEF Processes
<1> USE <1>0
<1>1. ASSUME UNCHANGED machine, Fits(p, sup'[p])
      PROVE  CoreOf(p)' /\ Children' /\ \A x \in live : x.sup # p => x \in live'
  BY <1>1, WriteKeepsCores
<1>2. CASE Serve(p)
  <2>1. [Fresh EXCEPT !.op = "start", !.pc = "acquire"].state = "stopped"
        /\ core[p] = None /\ core' = core /\ live' = live
    BY <1>2, FreshTyped DEF Serve, Memory, Fresh, CoreOf
  <2>2. sup'[p].state = "stopped"
    BY <1>2, <2>1, SetEffect DEF Serve
  <2> QED
    BY <2>1, <2>2, CoresParts DEF CoreOf, Children
<1>3. CASE StartFault(p) \/ Kill(p)
  BY <1>3, VanishKeepsCores DEF StartFault, StartThrows, Kill
<1>4. CASE Acquire(p)
  <2>1. ASSUME Set(p, [sup[p] EXCEPT !.pc = "recover"]) PROVE Fits(p, sup'[p])
    BY <1>4, <2>1, SetEffect DEF Acquire, At, Fits, CoreOf, CoreLess, Memory
  <2> QED
    BY <1>1, <1>4, <2>1, VanishKeepsCores DEF Acquire, StartThrows
<1>5. CASE Recover(p)
  <2>1. ASSUME NEW step \in {"boot", "unmark"}, Set(p, [sup[p] EXCEPT !.pc = step])
        PROVE  Fits(p, sup'[p])
    BY <1>5, <2>1, SetEffect DEF Recover, At, Fits, CoreOf, CoreLess, Memory
  <2> QED
    BY <1>1, <1>5, <2>1, VanishKeepsCores DEF Recover, StartThrows
<1>6. CASE Unmark(p) \/ Mark(p) \/ Switch(p) \/ Restore(p)
  <2>1. Fits(p, sup'[p])
    BY <1>6, SetEffect DEF Unmark, Mark, Switch, Restore, At, Fits, CoreOf, CoreLess, Memory
  <2> QED
    BY <1>1, <1>6, <2>1 DEF Unmark, Mark, Switch, Restore
<1>7. CASE Ready(p) \/ WindowEnds(p) \/ AwaitReady(p) \/ StopTimesOut(p) \/ AwaitPreviousReady(p)
           \/ Complete(p) \/ RollbackFault(p)
  <2>1. CASE Ready(p) \/ WindowEnds(p)
    <3>1. /\ [sup[p] EXCEPT !.state = "ready"].state = "ready"
          /\ [sup[p] EXCEPT !.state = "ready"].pc = sup[p].pc
          /\ [sup[p] EXCEPT !.crashes = 0].state = sup[p].state
          /\ [sup[p] EXCEPT !.crashes = 0].pc = sup[p].pc
      BY DEF Memory
    <3>2. Fits(p, sup'[p])
      BY <2>1, <3>1, SetEffect DEF Ready, WindowEnds, Fits, CoreOf
    <3> QED
      BY <1>1, <2>1, <3>2 DEF Ready, WindowEnds
  <2>2. CASE AwaitReady(p)
    <3>1. /\ [sup[p] EXCEPT !.pc = "complete"].state = sup[p].state
          /\ [sup[p] EXCEPT !.pc = "complete"].pc = "complete"
      BY DEF Memory
    <3>2. sup'[p] = [sup[p] EXCEPT !.pc = "complete"]
      BY <2>2, SetEffect DEF AwaitReady
    <3>3. Fits(p, sup'[p])
      BY <3>1, <3>2 DEF Fits, CoreOf, CoreLess
    <3> QED
      BY <1>1, <2>2, <3>3 DEF AwaitReady
  <2>3. ASSUME NEW state \in States, Set(p, Ended(sup[p], state)), UNCHANGED machine,
               state = "crashed" => core[p] = None
        PROVE  CoreOf(p)' /\ Children' /\ \A x \in live : x.sup # p => x \in live'
    <3>1. Fits(p, sup'[p])
      BY <2>3, EndedFields, SetEffect DEF Fits, CoreLess
    <3> QED
      BY <1>1, <2>3, <3>1
  <2>4. CASE StopTimesOut(p) \/ RollbackFault(p)
    BY <2>3, <2>4 DEF StopTimesOut, RollbackFault, States
  <2>5. CASE AwaitPreviousReady(p)
    BY <2>3, <2>5 DEF AwaitPreviousReady, States
  <2>6. CASE Complete(p)
    BY <2>3, <2>6 DEF Complete, CoreOf, Memory
  <2> QED
    BY <1>7, <2>1, <2>2, <2>4, <2>5, <2>6
<1>8. CASE Boot(p)
  <2>1. Ended(sup[p], "starting") \in Memory /\ Ended(sup[p], "starting").pc \notin CoreLess
    BY EndedTyped, EndedFields DEF CoreLess, States
  <2> QED
    BY <1>8, <2>1, LaunchKeepsCores DEF Boot, At, CoreOf, CoreLess
<1>9. CASE Unpend(p)
  <2>1. [sup[p] EXCEPT !.pc = "await"] \in Memory
        /\ [sup[p] EXCEPT !.pc = "await"].pc \notin CoreLess
    BY DEF CoreLess, Memory, Steps
  <2> QED
    BY <1>9, <2>1, LaunchKeepsCores DEF Unpend, At, CoreOf, CoreLess
<1>10. CASE Settle(p)
  <2>1. [sup[p] EXCEPT !.pc = "awaitPrevious"] \in Memory
        /\ [sup[p] EXCEPT !.pc = "awaitPrevious"].pc \notin CoreLess
    BY DEF CoreLess, Memory, Steps
  <2>2. ASSUME Set(p, [Ended(sup[p], "stopped") EXCEPT !.active = Bundled])
        PROVE  Fits(p, sup'[p])
    <3>0. /\ Ended(sup[p], "stopped") \in Memory
          /\ Ended(sup[p], "stopped").state = "stopped" /\ Ended(sup[p], "stopped").pc = "idle"
      BY EndedTyped, EndedFields DEF States
    <3>1. PICK s \in Memory : s = Ended(sup[p], "stopped")
                              /\ s.state = "stopped" /\ s.pc = "idle"
      BY <3>0
    <3>2. sup'[p] = [s EXCEPT !.active = Bundled]
      BY <2>2, <3>1, SetEffect
    <3>3. sup'[p].state = "stopped" /\ sup'[p].pc = "idle"
      BY <3>1, <3>2 DEF Memory
    <3> QED
      BY <3>3 DEF Fits, CoreLess
  <2>3. CASE sup[p].previous = Bundled
    BY <1>1, <1>10, <2>2, <2>3 DEF Settle, machine
  <2>4. CASE sup[p].previous # Bundled
    BY <1>10, <2>1, <2>4, LaunchKeepsCores DEF Settle, At, CoreOf, CoreLess
  <2> QED
    BY <2>3, <2>4
<1>11. CASE Timer(p)
  <2>1. PICK s \in Memory, release \in Manifests :
          /\ s.pc = sup[p].pc /\ s.state = sup[p].state
          /\ \/ s.state = "crashed" /\ Launch(p, release, s)
             \/ Set(p, s) /\ UNCHANGED machine
    <3> DEFINE t == [sup[p] EXCEPT !.timers = @ - 1]
    <3>1. t \in Memory /\ t.pc = sup[p].pc /\ t.state = sup[p].state /\ t.active \in Manifests
      BY <1>11 DEF Memory, Timer
    <3>2. \/ t.state = "crashed" /\ Launch(p, t.active, t)
          \/ Set(p, t) /\ UNCHANGED machine
      BY <1>11 DEF Timer, machine
    <3> HIDE DEF t
    <3> QED
      BY <3>1, <3>2
  <2>2. p \in alive /\ alive' = alive
    BY <1>11 DEF Timer
  <2>3. CASE s.state = "crashed" /\ Launch(p, release, s)
    BY <2>1, <2>2, <2>3, LaunchKeepsCores DEF CoreOf
  <2>4. CASE Set(p, s) /\ UNCHANGED machine
    BY <1>1, <2>1, <2>4, SetEffect DEF Fits, CoreOf
  <2> QED
    BY <2>1, <2>3, <2>4
<1>12. CASE CoreExits(p)
  <2>1. core'[p] = None /\ live' = live \ {core[p]}
        /\ core' = [core EXCEPT ![p] = None]
    BY <1>12 DEF CoreExits, Processes
  <2>2. Children'
    BY <2>1, CoresParts DEF Children, CoreOf, Processes, CoreRecord
  <2>3. sup[p].state # "crashed" /\ sup[p].pc \notin CoreLess
    BY <1>12 DEF CoreExits, CoreOf
  <2>4. sup'[p] \in {AfterStop(sup[p]), sup[p], AfterCrash(sup[p])}
    BY <1>12, SetEffect DEF CoreExits
  <2>5. AfterStop(sup[p]).state # "crashed"
    BY <2>3 DEF AfterStop, Ended, Memory
  <2>6. AfterCrash(sup[p]).pc \notin CoreLess
    BY <2>3 DEF AfterCrash, Memory
  <2>7. sup'[p].state = "crashed" => sup'[p].pc \notin CoreLess
    BY <2>3, <2>4, <2>5, <2>6
  <2>8. \A x \in live : x.sup # p => x \in live'
    BY <1>12, <2>1 DEF CoreExits, CoreOf
  <2> QED
    BY <2>1, <2>2, <2>7, <2>8 DEF CoreOf
<1>13. ASSUME NEW s \in Memory, NEW after, NEW without, StopFor(p, s, after, without),
              UNCHANGED machine, core[p] = None => Fits(p, without)
       PROVE  CoreOf(p)' /\ Children' /\ \A x \in live : x.sup # p => x \in live'
  <2>1. Fits(p, sup'[p])
    BY <1>13, StopForEffect DEF Fits, CoreLess
  <2> QED
    BY <1>1, <1>13, <2>1
<1>14. ASSUME NEW kind \in {"stop", "restart"}, Stop(p, kind)
       PROVE  CoreOf(p)' /\ Children' /\ \A x \in live : x.sup # p => x \in live'
  <2> DEFINE s == [sup[p] EXCEPT !.op = kind]
  <2>1. s \in Memory
    BY DEF Memory
  <2>2. [s EXCEPT !.state = "stopped", !.pc = "closing"].state = "stopped"
    <3> HIDE DEF s
    <3> QED
      BY <2>1 DEF Memory
  <2>3. StopFor(p, s, "closing", [s EXCEPT !.state = "stopped", !.pc = "closing"])
        /\ UNCHANGED machine
    BY <1>14 DEF Stop
  <2> HIDE DEF s
  <2> QED
    BY <1>13, <2>1, <2>2, <2>3 DEF Fits
<1>15. CASE BeginUpdate(p)
  <2> DEFINE s == [sup[p] EXCEPT !.op = "update", !.previous = current, !.candidate = pending]
  <2>1. s \in Memory
    BY <1>15, TypeParts DEF BeginUpdate, Files, Memory, Manifests
  <2>2. [s EXCEPT !.state = "updating", !.pc = "mark"].state = "updating"
    <3> HIDE DEF s
    <3> QED
      BY <2>1 DEF Memory
  <2>3. StopFor(p, s, "mark", [s EXCEPT !.state = "updating", !.pc = "mark"])
        /\ UNCHANGED machine
    BY <1>15 DEF BeginUpdate
  <2> HIDE DEF s
  <2> QED
    BY <1>13, <2>1, <2>2, <2>3 DEF Fits
<1>16. CASE AwaitFails(p) \/ UpdateThrows(p)
  <2> DEFINE s == LeaveCrashed(sup[p])
  <2>1. s \in Memory /\ s.state # "crashed"
    BY DEF LeaveCrashed, Memory, States
  <2>2. [s EXCEPT !.pc = "restore"].state # "crashed"
    <3> HIDE DEF s
    <3> QED
      BY <2>1 DEF Memory
  <2>3. StopFor(p, s, "restore", [s EXCEPT !.pc = "restore"]) /\ UNCHANGED machine
    BY <1>16 DEF AwaitFails, UpdateThrows, RollBack
  <2> HIDE DEF s
  <2> QED
    BY <1>13, <2>1, <2>2, <2>3 DEF Fits
<1>17. CASE AwaitPreviousFails(p)
  <2>1. Ended(sup[p], "stopped").state = "stopped"
    BY DEF Ended, Memory
  <2> QED
    BY <1>13, <1>17, <2>1 DEF AwaitPreviousFails, Fits
<1>18. CASE Close(p)
  <2>1. ASSUME Set(p, [sup[p] EXCEPT !.pc = "acquire", !.active = Bundled])
        PROVE  Fits(p, sup'[p])
    <3>1. /\ [sup[p] EXCEPT !.pc = "acquire", !.active = Bundled].state = sup[p].state
          /\ [sup[p] EXCEPT !.pc = "acquire", !.active = Bundled].pc = "acquire"
      BY DEF Memory
    <3>2. sup[p].state # "crashed" /\ core[p] = None
      BY <1>18 DEF Close, At, CoreOf, CoreLess
    <3>3. sup'[p] = [sup[p] EXCEPT !.pc = "acquire", !.active = Bundled]
      BY <2>1, SetEffect
    <3> QED
      BY <3>1, <3>2, <3>3 DEF Fits
  <2> QED
    BY <1>1, <1>18, <2>1, VanishKeepsCores DEF Close
<1> QED
  BY <1>2, <1>3, <1>4, <1>5, <1>6, <1>7, <1>8, <1>9, <1>10, <1>11, <1>12, <1>14, <1>15,
     <1>16, <1>17, <1>18 DEF StepOf, Advance, Answer

\* Restart timers, stops that fail and rollbacks never leave two cores.
LEMMA CoresStep ==
  ASSUME TypeOK, Cores, [Next]_vars
  PROVE  Cores'
<1>0. Processes /\ Uninstaller \notin Supervisors
  BY TypeParts, SupervisorAssumption DEF SupervisorAssumption
<1>1. ASSUME NEW p \in Supervisors, StepOf(p) PROVE Cores'
  <2>1. ASSUME NEW q \in Supervisors \ {p} PROVE CoreOf(q)'
    BY <1>1, <2>1, Others, CoreStep, CoresParts DEF CoreOf
  <2> QED
    BY <1>1, <2>1, CoreStep, CoresParts DEF Cores, Children, CoreOf
<1>2. ASSUME NEW x \in live, OrphanExits(x) PROVE Cores'
  BY <1>2, SupervisorAssumption DEF SupervisorAssumption, OrphanExits, Cores
<1>3. CASE Uninstalls
  BY <1>0, <1>3 DEF Uninstalls, UninstallBegins, UninstallErases, EraseEntry, UninstallEnds,
     UninstallKilled, Cores, machine
<1>4. CASE \/ \E r \in Releases : Prepare(r)
           \/ Discard \/ UNCHANGED vars
  BY <1>4 DEF Prepare, Discard, vars, machine, Cores
<1> QED
  BY <1>1, <1>2, <1>3, <1>4, NextParts
-----------------------------------------------------------------------------
(* One supervised core.                                                    *)

\* A supervisor that has a core holds the lock.
LEMMA CoreHolds ==
  ASSUME TypeOK, LockHeld, Cores
  PROVE  /\ OneCore
         /\ \A p \in Supervisors : core[p] # None => p \in Holders
<1>1. \A p \in Supervisors : core[p] # None => p \in Holders
  BY DEF Cores, Holders, CoreLess
<1>2. None \notin CoreRecord
  BY SupervisorAssumption DEF SupervisorAssumption, CoreRecord, Manifests
<1>3. ASSUME NEW x \in Owned PROVE lock = x.sup /\ core[x.sup] = x
  <2>1. x \in live /\ x \in CoreRecord /\ x.sup \in Supervisors
    BY DEF Owned, TypeOK, CoreRecord
  <2>2. core[x.sup] = x
    BY <2>1 DEF Owned, Cores
  <2> QED
    BY <1>1, <1>2, <2>1, <2>2 DEF LockHeld
<1> QED
  BY <1>1, <1>3 DEF OneCore

\* The lock and the cores, from the first state on.
Base == TypeOK /\ LockHeld /\ Cores

LEMMA BaseInit == Init => Base
<1> SUFFICES ASSUME Init PROVE Base
  OBVIOUS
<1>1. Fresh.state = "stopped" /\ Fresh.pc = "idle"
  BY DEF Fresh
<1>2. LockHeld /\ Cores
  BY <1>1 DEF Init, LockHeld, Holders, Cores, CoreLess
<1> QED
  BY <1>2, InitTyped DEF Base

LEMMA BaseStep == Base /\ [Next]_vars => Base'
  BY TypeStep, LockStep, CoresStep DEF Base

(* Of all the cores at most one has a running supervisor, and that one holds *)
(* the data-root lock.                                                       *)
THEOREM OneSupervisedCore == Spec => []OneCore
<1>1. Base => OneCore
  BY CoreHolds DEF Base
<1> QED
  BY <1>1, BaseInit, BaseStep, PTL DEF Spec
-----------------------------------------------------------------------------
(* An uninstalled root.                                                    *)

LEMMA RemovedStep ==
  ASSUME Base, Removed, [Next]_vars
  PROVE  Removed'
<1>0. Processes /\ Uninstaller \notin Supervisors
  BY TypeParts, SupervisorAssumption DEF Base, SupervisorAssumption
<1>1. ASSUME NEW p \in Supervisors, StepOf(p), uninstalled, p \in Holders'
      PROVE  sup'[p].pc = "recover"
  <2>0. /\ sup[p] \in Memory /\ (core[p] # None => p \in Holders)
        /\ (p \in Holders => core[p] = None /\ sup[p].pc = "recover")
        /\ (p \in alive => sup[p].pc \in {"acquire", "recover"})
        /\ p \in alive' /\ sup'[p].pc # "acquire"
    BY <1>0, <1>1, CoreHolds DEF Base, Removed, Holders, Cores, CoreLess, Processes
  <2>1. CASE Serve(p)
    <3>1. [Fresh EXCEPT !.op = "start", !.pc = "acquire"].pc = "acquire"
      BY FreshTyped DEF Memory
    <3> QED
      BY <1>0, <2>0, <2>1, <3>1, SetEffect DEF Serve
  <2>2. CASE StartFault(p) \/ Kill(p)
    BY <1>0, <2>0, <2>2, VanishEffect DEF StartFault, StartThrows, Kill
  <2>3. CASE Acquire(p)
    <3>1. [sup[p] EXCEPT !.pc = "recover"].pc = "recover"
      BY <2>0 DEF Memory
    <3> QED
      BY <1>0, <2>0, <2>3, <3>1, SetEffect, VanishEffect DEF Acquire, StartThrows
  <2>4. CASE Recover(p)
    BY <1>0, <1>1, <2>0, <2>4, VanishEffect DEF Recover, StartThrows
  <2>5. CASE Timer(p) \/ WindowEnds(p)
    <3>1. sup'[p].pc = sup[p].pc
      BY <1>0, <2>0, <2>5, TimerKeepsPc, SetEffect DEF WindowEnds, Memory
    <3> QED
      BY <2>0, <2>5, <3>1 DEF Timer, WindowEnds
  <2>6. CASE Ready(p) \/ CoreExits(p)
    BY <2>0, <2>6 DEF Ready, CoreExits, Holders
  <2>7. CASE RollbackFault(p) \/ Answer(p) \/ BeginUpdate(p)
             \/ \E kind \in {"stop", "restart"} : Stop(p, kind)
    BY <2>0, <2>7 DEF RollbackFault, Answer, StopTimesOut, AwaitReady, AwaitFails,
       AwaitPreviousReady, AwaitPreviousFails, BeginUpdate, Stop, GateOpen, At
  <2>8. CASE Unmark(p) \/ Boot(p) \/ Close(p) \/ Mark(p) \/ Switch(p) \/ Unpend(p)
             \/ Complete(p) \/ Restore(p) \/ Settle(p) \/ UpdateThrows(p)
    BY <2>0, <2>8 DEF Unmark, Boot, Close, Mark, Switch, Unpend, Complete, Restore, Settle,
       UpdateThrows, At
  <2> QED
    BY <1>1, <2>1, <2>2, <2>3, <2>4, <2>5, <2>6, <2>7, <2>8 DEF StepOf, Advance
<1>2. ASSUME NEW p \in Supervisors, StepOf(p) PROVE Removed'
  BY ZenonT(40), <1>1, <1>2, Others DEF Base, Removed, Holders
<1>3. CASE Uninstalls
  <2>1. sup' = sup /\ Holders' = Holders
    BY <1>0, <1>3 DEF Uninstalls, UninstallBegins, UninstallErases, EraseEntry, UninstallEnds,
       UninstallKilled, Holders, machine
  <2>2. erasing # "idle" => Holders = {}
    BY <1>0 DEF Base, LockHeld, Holders
  <2> QED
    BY <1>3, <2>1, <2>2 DEF Uninstalls, UninstallBegins, UninstallErases, EraseEntry, UninstallEnds,
       UninstallKilled, Removed
<1>4. CASE \/ \E x \in live : OrphanExits(x)
           \/ \E r \in Releases : Prepare(r)
           \/ Discard \/ UNCHANGED vars
  BY <1>4 DEF OrphanExits, Prepare, Discard, vars, machine, removal, Removed, Holders
<1> QED
  BY <1>2, <1>3, <1>4, NextParts

(* Once uninstalled.json is written no supervisor runs a core on this root. *)
THEOREM NothingAfterUninstall == Spec => []UninstalledRunsNothing
<1>1. Init => Base /\ Removed
  BY BaseInit DEF Init, Removed
<1>2. Base /\ Removed /\ [Next]_vars => Base' /\ Removed'
  BY BaseStep, RemovedStep
<1>3. Base /\ Removed => UninstalledRunsNothing
  <2> SUFFICES ASSUME Base, Removed, uninstalled, NEW x \in Owned PROVE FALSE
    BY DEF UninstalledRunsNothing
  <2>1. x \in CoreRecord /\ None \notin CoreRecord
    BY SupervisorAssumption DEF SupervisorAssumption, Base, TypeOK, Owned, CoreRecord, Manifests
  <2>2. x.sup \in Supervisors /\ core[x.sup] = x
    BY <2>1, CoreHolds DEF Base, OneCore, Owned, CoreRecord
  <2>3. x.sup \in Holders /\ sup[x.sup].pc = "recover"
    BY <2>1, <2>2, CoreHolds DEF Base, Removed
  <2> QED
    BY <2>1, <2>2, <2>3 DEF Base, Cores, CoreLess
<1> QED
  BY <1>1, <1>2, <1>3, PTL DEF Spec
-----------------------------------------------------------------------------
(* The way back from an update.                                            *)

Restorable == marker \in {None, settled} /\ (current = settled \/ marker = settled)

\* Only a supervisor past Acquire writes to the files.
LEMMA IdleKeepsFiles ==
  ASSUME NEW p \in Supervisors, StepOf(p), p \notin Holders
  PROVE  UNCHANGED <<marker, current, settled>>
<1> USE DEF disk, history
<1>1. CASE Serve(p) \/ StartFault(p) \/ Kill(p) \/ Ready(p) \/ CoreExits(p) \/ Timer(p)
           \/ WindowEnds(p) \/ Acquire(p) \/ Boot(p) \/ Close(p) \/ Answer(p) \/ UpdateThrows(p)
           \/ RollbackFault(p) \/ BeginUpdate(p)
           \/ \E kind \in {"stop", "restart"} : Stop(p, kind)
  BY <1>1 DEF Serve, StartFault, Kill, Ready, CoreExits, Timer, WindowEnds, Acquire, Boot, Close,
     Answer, StopTimesOut, AwaitReady, AwaitFails, AwaitPreviousReady, AwaitPreviousFails,
     UpdateThrows, RollbackFault, BeginUpdate, Stop
<1>2. CASE Recover(p) \/ Unmark(p) \/ Mark(p) \/ Switch(p) \/ Unpend(p) \/ Complete(p)
           \/ Restore(p) \/ Settle(p)
  BY <1>2 DEF Recover, Unmark, Mark, Switch, Unpend, Complete, Restore, Settle, At, Holders
<1> QED
  BY <1>1, <1>2 DEF StepOf, Advance

\* A step of p leaves the files such that an update can be undone.
LEMMA UndoOwn ==
  ASSUME TypeOK, Cores, Restorable, NEW p \in Supervisors, StepOf(p),
         p \in Holders => Returnable(p), overwritten' = FALSE
  PROVE  Restorable' /\ (p \in Holders' => Returnable(p)')
<1>0. Processes /\ sup[p] \in Memory /\ settled \in Manifests /\ None \notin Manifests
  BY TypeParts, SupervisorAssumption
     DEF Files, Processes, SupervisorAssumption, Manifests
<1> USE <1>0
<1>1. ASSUME UNCHANGED <<disk, settled>> PROVE Restorable'
  BY <1>1 DEF Restorable, disk
<1>2. ASSUME sup'[p].pc \in {"idle", "acquire", "recover", "closing", "awaitPrevious"}
             \/ (sup'[p].pc = "stopping" /\ sup'[p].after \in {"idle", "closing"})
      PROVE  Returnable(p)'
  BY <1>2 DEF Returnable, Waits
<1>3. ASSUME p \in Holders, UNCHANGED <<disk, settled>>, sup'[p].pc = sup[p].pc,
             sup'[p].after = sup[p].after, sup'[p].previous = sup[p].previous
      PROVE  Returnable(p)'
  BY <1>3 DEF Returnable, Waits, disk
<1>4. CASE Serve(p)
  <2>1. [Fresh EXCEPT !.op = "start", !.pc = "acquire"].pc = "acquire"
    BY FreshTyped DEF Memory
  <2> QED
    BY <1>1, <1>4, <2>1, SetEffect DEF Serve, Holders, history
<1>5. CASE StartFault(p) \/ Kill(p)
  BY <1>1, <1>5, VanishEffect DEF StartFault, StartThrows, Kill, Holders, history
<1>6. CASE Acquire(p)
  <2>1. [sup[p] EXCEPT !.pc = "recover"].pc = "recover"
    BY DEF Memory
  <2> QED
    BY <1>1, <1>2, <1>6, <2>1, SetEffect, VanishEffect DEF Acquire, StartThrows, Holders, history
<1>7. CASE Recover(p)
  <2>1. \A step \in {"boot", "unmark"} : [sup[p] EXCEPT !.pc = step].pc = step
    BY DEF Memory
  <2>2. settled' = settled /\ marker' = marker
    BY <1>7 DEF Recover, history
  <2>3. CASE ~uninstalled /\ marker = None /\ Set(p, [sup[p] EXCEPT !.pc = "boot"])
             /\ current' = current
    <3>1. sup'[p].pc = "boot" /\ current = settled
      BY <2>1, <2>3, SetEffect DEF Restorable
    <3> QED
      BY <2>2, <2>3, <3>1 DEF Restorable, Returnable, Waits
  <2>4. CASE marker # None /\ current' = marker /\ Set(p, [sup[p] EXCEPT !.pc = "unmark"])
    <3>1. sup'[p].pc = "unmark" /\ marker = settled
      BY <2>1, <2>4, SetEffect DEF Restorable
    <3> QED
      BY <2>2, <2>4, <3>1 DEF Restorable, Returnable, Waits
  <2>5. CASE StartThrows(p) /\ current' = current
    BY <2>2, <2>5, VanishEffect DEF StartThrows, Restorable, Holders
  <2> QED
    BY <1>7, <2>3, <2>4, <2>5 DEF Recover
<1>8. ASSUME p \in Holders, NEW step \in Steps, Set(p, [sup[p] EXCEPT !.pc = step])
      PROVE  sup'[p].pc = step /\ sup'[p].previous = sup[p].previous
  <2>1. [sup[p] EXCEPT !.pc = step].pc = step
        /\ [sup[p] EXCEPT !.pc = step].previous = sup[p].previous
    BY DEF Memory
  <2> QED
    BY <1>8, <2>1, SetEffect
<1>9. CASE Unmark(p)
  <2>1. p \in Holders /\ current = settled /\ sup'[p].pc = "boot"
    BY <1>8, <1>9 DEF Unmark, At, Holders, Returnable, Steps
  <2> QED
    BY <1>9, <2>1 DEF Unmark, Restorable, Returnable, Waits, history
<1>10. ASSUME NEW state \in States, Set(p, Ended(sup[p], state)) PROVE sup'[p].pc = "idle"
  BY <1>10, EndedFields, SetEffect
<1>11. CASE Boot(p)
  <2>1. Ended(sup[p], "starting") \in Memory /\ Ended(sup[p], "starting").pc = "idle"
    BY EndedTyped, EndedFields DEF States
  <2>2. sup'[p].pc = "idle"
    BY <1>11, <2>1, LaunchEffect DEF Boot
  <2> QED
    BY <1>1, <1>2, <1>11, <2>2 DEF Boot, history
<1>12. CASE Ready(p) \/ WindowEnds(p)
  <2>1. /\ [sup[p] EXCEPT !.state = "ready"].pc = sup[p].pc
        /\ [sup[p] EXCEPT !.state = "ready"].after = sup[p].after
        /\ [sup[p] EXCEPT !.state = "ready"].previous = sup[p].previous
        /\ [sup[p] EXCEPT !.crashes = 0].pc = sup[p].pc
        /\ [sup[p] EXCEPT !.crashes = 0].after = sup[p].after
        /\ [sup[p] EXCEPT !.crashes = 0].previous = sup[p].previous
    BY DEF Memory
  <2>2. /\ sup'[p].pc = sup[p].pc /\ sup'[p].after = sup[p].after
        /\ sup'[p].previous = sup[p].previous
        /\ UNCHANGED <<disk, settled, alive>>
    BY <1>12, <2>1, SetEffect DEF Ready, WindowEnds, machine, history
  <2> QED
    BY <1>1, <1>3, <2>2 DEF Holders
<1>13. CASE Timer(p)
  BY <1>1, <1>3, <1>13, TimerKeepsPc DEF Timer, Holders, history
<1>14. CASE CoreExits(p)
  <2>1. /\ p \in Holders /\ UNCHANGED <<disk, settled>>
    BY <1>14 DEF CoreExits, Cores, CoreLess, Holders, history
  <2>2. CASE sup[p].pc = "stopping"
    <3>1. sup'[p] = AfterStop(sup[p])
      BY <1>14, <2>2, SetEffect DEF CoreExits
    <3>2. CASE sup[p].after = "closing"
      <4>1. sup'[p].pc = "closing"
        BY <3>1, <3>2 DEF AfterStop, Memory
      <4> QED
        BY <1>1, <1>2, <2>1, <4>1
    <3>3. CASE sup[p].after \in {"mark", "restore"}
      <4>1. sup'[p].pc = sup[p].after /\ sup'[p].previous = sup[p].previous
        BY <3>1, <3>3 DEF AfterStop, Memory
      <4> QED
        BY <1>1, <2>1, <2>2, <3>3, <4>1 DEF Returnable, Waits, disk
    <3>4. CASE sup[p].after = "idle"
      <4>1. sup'[p].pc = "idle"
        BY <3>1, <3>4, EndedFields DEF AfterStop, States
      <4> QED
        BY <1>1, <1>2, <2>1, <4>1
    <3> QED
      BY <3>2, <3>3, <3>4 DEF Memory
  <2>3. CASE sup[p].pc # "stopping"
    <3>1. sup'[p] \in {sup[p], AfterCrash(sup[p])}
      BY <1>14, <2>3, SetEffect DEF CoreExits
    <3>2. /\ AfterCrash(sup[p]).pc = sup[p].pc /\ AfterCrash(sup[p]).after = sup[p].after
          /\ AfterCrash(sup[p]).previous = sup[p].previous
      BY DEF AfterCrash, Memory
    <3> QED
      BY <1>1, <1>3, <2>1, <3>1, <3>2
  <2> QED
    BY <2>2, <2>3
<1>15. ASSUME NEW kind \in {"stop", "restart"}, Stop(p, kind)
       PROVE  Restorable' /\ Returnable(p)'
  <2> DEFINE s == [sup[p] EXCEPT !.op = kind]
  <2>1. s \in Memory
    BY DEF Memory
  <2>2. PICK without : /\ without.pc = "closing"
                       /\ StopFor(p, s, "closing", without)
    <3>1. [s EXCEPT !.state = "stopped", !.pc = "closing"].pc = "closing"
      <4> HIDE DEF s
      <4> QED
        BY <2>1 DEF Memory
    <3>2. StopFor(p, s, "closing", [s EXCEPT !.state = "stopped", !.pc = "closing"])
      BY <1>15 DEF Stop
    <3> QED
      BY <3>1, <3>2
  <2> HIDE DEF s
  <2>3. sup'[p].pc = "closing" \/ (sup'[p].pc = "stopping" /\ sup'[p].after = "closing")
    BY <2>1, <2>2, StopForEffect
  <2> QED
    BY <1>1, <1>2, <1>15, <2>3 DEF Stop, history
<1>16. CASE StopTimesOut(p) \/ RollbackFault(p) \/ AwaitPreviousReady(p)
  <2>1. sup'[p].pc = "idle"
    BY <1>10, <1>16 DEF StopTimesOut, RollbackFault, AwaitPreviousReady, States
  <2> QED
    BY <1>1, <1>2, <1>16, <2>1 DEF StopTimesOut, RollbackFault, AwaitPreviousReady, history
<1>17. CASE Close(p)
  <2>1. [sup[p] EXCEPT !.pc = "acquire", !.active = Bundled].pc = "acquire"
    BY DEF Memory
  <2>2. p \notin Holders'
    BY <1>17, <2>1, SetEffect, VanishEffect DEF Close, Holders
  <2> QED
    BY <1>1, <1>17, <2>2 DEF Close, history
<1>18. CASE BeginUpdate(p)
  <2> DEFINE s == [sup[p] EXCEPT !.op = "update", !.previous = current, !.candidate = pending]
  <2>1. s \in Memory /\ s.previous = current
    BY <1>18, TypeParts DEF BeginUpdate, Files, Memory, Manifests
  <2>2. PICK without : /\ without.pc = "mark" /\ without.previous = current
                       /\ StopFor(p, s, "mark", without)
    <3>1. /\ [s EXCEPT !.state = "updating", !.pc = "mark"].pc = "mark"
          /\ [s EXCEPT !.state = "updating", !.pc = "mark"].previous = current
      <4> HIDE DEF s
      <4> QED
        BY <2>1 DEF Memory
    <3>2. StopFor(p, s, "mark", [s EXCEPT !.state = "updating", !.pc = "mark"])
      BY <1>18 DEF BeginUpdate
    <3> QED
      BY <3>1, <3>2
  <2>3. UNCHANGED <<disk, settled>> /\ marker = None
    BY <1>18, TypeParts DEF BeginUpdate, Files
  <2> HIDE DEF s
  <2>4. sup'[p].previous = current /\ Waits(p, "mark")'
        /\ (sup'[p].pc = "mark" \/ (sup'[p].pc = "stopping" /\ sup'[p].after = "mark"))
    BY <2>1, <2>2, StopForEffect DEF Waits
  <2> QED
    BY <1>1, <2>3, <2>4 DEF Returnable, Waits, disk
<1>19. CASE Mark(p) \/ Switch(p) \/ Restore(p)
  <2>1. p \in Holders
    BY <1>19 DEF Mark, Switch, Restore, At, Holders
  <2>2. CASE Mark(p)
    <3>1. sup'[p].pc = "switch" /\ sup'[p].previous = sup[p].previous
      BY <1>8, <2>1, <2>2 DEF Mark, Steps
    <3>2. marker = None /\ sup[p].previous = current /\ current = settled
      BY <2>1, <2>2 DEF Mark, At, Returnable, Waits, Restorable
    <3> QED
      BY <2>2, <3>1, <3>2 DEF Mark, Restorable, Returnable, Waits, history
  <2>3. CASE Switch(p)
    <3>1. sup'[p].pc = "unpend" /\ sup'[p].previous = sup[p].previous
      BY <1>8, <2>1, <2>3 DEF Switch, Steps
    <3>2. marker = settled /\ sup[p].previous = settled
      BY <2>1, <2>3 DEF Switch, At, Returnable
    <3> QED
      BY <2>3, <3>1, <3>2 DEF Switch, Restorable, Returnable, Waits, history
  <2>4. CASE Restore(p)
    <3>1. sup'[p].pc = "settle" /\ sup'[p].previous = sup[p].previous
      BY <1>8, <2>1, <2>4 DEF Restore, Steps
    <3>2. sup[p].previous = settled
      BY <2>1, <2>4 DEF Restore, At, Returnable, Waits
    <3> QED
      BY <2>4, <3>1, <3>2 DEF Restore, Restorable, Returnable, Waits, history
  <2> QED
    BY <1>19, <2>2, <2>3, <2>4
<1>20. CASE Unpend(p)
  <2>1. PICK s \in Memory : /\ s.pc = "await" /\ s.previous = sup[p].previous
                            /\ Launch(p, sup[p].candidate, s)
    <3>1. [sup[p] EXCEPT !.pc = "await"] \in Memory
          /\ [sup[p] EXCEPT !.pc = "await"].pc = "await"
          /\ [sup[p] EXCEPT !.pc = "await"].previous = sup[p].previous
      BY DEF Memory, Steps
    <3> QED
      BY <1>20, <3>1 DEF Unpend
  <2>2. sup'[p].pc = "await" /\ sup'[p].previous = sup[p].previous
    BY <2>1, LaunchEffect
  <2>3. marker = settled /\ sup[p].previous = settled
    BY <1>20 DEF Unpend, At, Holders, Returnable
  <2> QED
    BY <1>20, <2>2, <2>3 DEF Unpend, Restorable, Returnable, Waits, history
<1>21. CASE AwaitReady(p)
  <2>1. p \in Holders /\ UNCHANGED <<disk, settled>>
    BY <1>21 DEF AwaitReady, At, Holders, history
  <2>2. sup'[p].pc = "complete" /\ sup'[p].previous = sup[p].previous
    BY <1>8, <1>21, <2>1 DEF AwaitReady, Steps
  <2> QED
    BY <1>1, <1>21, <2>1, <2>2 DEF AwaitReady, At, Returnable, Waits, disk
<1>22. CASE Complete(p)
  <2>1. sup'[p].pc = "idle"
    BY <1>10, <1>22 DEF Complete, Memory
  <2> QED
    BY <1>2, <1>22, <2>1 DEF Complete, Restorable
<1>23. CASE AwaitFails(p) \/ UpdateThrows(p)
  <2> DEFINE s == LeaveCrashed(sup[p])
  <2>1. s \in Memory /\ s.previous = sup[p].previous
    BY DEF LeaveCrashed, Memory, States
  <2>2. PICK without : /\ without.pc = "restore" /\ without.previous = sup[p].previous
                       /\ StopFor(p, s, "restore", without)
    <3>1. /\ [s EXCEPT !.pc = "restore"].pc = "restore"
          /\ [s EXCEPT !.pc = "restore"].previous = sup[p].previous
      <4> HIDE DEF s
      <4> QED
        BY <2>1 DEF Memory
    <3>2. StopFor(p, s, "restore", [s EXCEPT !.pc = "restore"])
      BY <1>23 DEF AwaitFails, UpdateThrows, RollBack
    <3> QED
      BY <3>1, <3>2
  <2>3. UNCHANGED <<disk, settled>>
    BY <1>23 DEF AwaitFails, UpdateThrows, history
  <2> HIDE DEF s
  <2>4. sup[p].pc \in {"mark", "switch", "unpend", "await", "complete"} /\ p \in Holders
    BY <1>23 DEF AwaitFails, UpdateThrows, At, Holders
  <2>5. sup[p].previous = settled
    BY <2>4 DEF Returnable, Waits, Restorable
  <2>6. sup'[p].previous = settled
        /\ (sup'[p].pc = "restore" \/ (sup'[p].pc = "stopping" /\ sup'[p].after = "restore"))
    BY <2>1, <2>2, <2>5, StopForEffect
  <2> QED
    BY <1>1, <2>3, <2>6 DEF Returnable, Waits
<1>24. CASE Settle(p)
  <2>1. current = settled /\ marker' = None /\ current' = current /\ settled' = settled
    BY <1>24 DEF Settle, At, Holders, Returnable, history
  <2>2. sup'[p].pc \in {"idle", "awaitPrevious"}
    <3>1. CASE sup[p].previous = Bundled
      <4>1. Ended(sup[p], "stopped") \in Memory /\ Ended(sup[p], "stopped").pc = "idle"
        BY EndedTyped, EndedFields DEF States
      <4>2. PICK s \in Memory : s = Ended(sup[p], "stopped") /\ s.pc = "idle"
        BY <4>1
      <4>3. sup'[p] = [s EXCEPT !.active = Bundled]
        BY <1>24, <3>1, <4>2, SetEffect DEF Settle
      <4> QED
        BY <4>2, <4>3 DEF Memory
    <3>2. CASE sup[p].previous # Bundled
      <4>1. [sup[p] EXCEPT !.pc = "awaitPrevious"] \in Memory
            /\ [sup[p] EXCEPT !.pc = "awaitPrevious"].pc = "awaitPrevious"
        BY DEF Memory, Steps
      <4>2. PICK s \in Memory : s.pc = "awaitPrevious" /\ Launch(p, sup[p].previous, s)
        BY <1>24, <3>2, <4>1 DEF Settle
      <4> QED
        BY <4>2, LaunchEffect
    <3> QED
      BY <3>1, <3>2
  <2> QED
    BY <1>2, <2>1, <2>2 DEF Restorable
<1>25. CASE AwaitPreviousFails(p)
  <2>1. Ended(sup[p], "stopped").pc = "idle"
    BY EndedFields DEF States
  <2> QED
    BY <1>1, <1>2, <1>25, <2>1, StopForEffect DEF AwaitPreviousFails, history
<1> QED
  BY <1>4, <1>5, <1>6, <1>7, <1>9, <1>11, <1>12, <1>13, <1>14, <1>15, <1>16, <1>17, <1>18,
     <1>19, <1>20, <1>21, <1>22, <1>23, <1>24, <1>25 DEF StepOf, Advance, Answer

\* The history flag is never cleared; the others' files are not touched.
LEMMA UndoStep ==
  ASSUME Base, Undo, RollbackPoint, [Next]_vars
  PROVE  Undo' /\ RollbackPoint'
<1> SUFFICES ASSUME ~overwritten' PROVE Undo' /\ RollbackPoint'
  BY DEF Undo, RollbackPoint
<1>0. /\ Processes /\ Uninstaller \notin Supervisors
      /\ overwritten' \in BOOLEAN /\ overwritten \in BOOLEAN
  BY TypeParts, TypeStep, SupervisorAssumption DEF Base, TypeOK, SupervisorAssumption
<1>1. ASSUME NEW p \in Supervisors, StepOf(p) PROVE overwritten => overwritten'
  BY <1>1 DEF StepOf, Advance, Answer, Serve, StartFault, RollbackFault, Acquire, Recover,
     Unmark, Boot, Close, Mark, Switch, Unpend, Complete, Restore, Settle, UpdateThrows,
     StopTimesOut, AwaitReady, AwaitFails, AwaitPreviousReady, AwaitPreviousFails, Ready,
     CoreExits, Timer, WindowEnds, Stop, BeginUpdate, Kill, history
<1>2. ASSUME NEW p \in Supervisors, StepOf(p) PROVE Undo' /\ RollbackPoint'
  <2>1. ~overwritten /\ Restorable /\ (p \in Holders => Returnable(p))
    BY <1>1, <1>2 DEF Undo, RollbackPoint, Restorable
  <2>2. Restorable' /\ (p \in Holders' => Returnable(p)')
    BY <1>0, <1>2, <2>1, UndoOwn DEF Base
  <2>3. ASSUME NEW q \in Holders', q # p PROVE Returnable(q)'
    <3>1. q \in Supervisors /\ q \in Holders /\ sup'[q] = sup[q]
      BY <1>2, <2>3, Others DEF Base, Holders
    <3>2. p \notin Holders
      BY <2>3, <3>1 DEF Base, LockHeld
    <3>3. UNCHANGED <<marker, current, settled>>
      BY <1>2, <3>2, IdleKeepsFiles DEF Base
    <3> QED
      BY <2>1, <3>1, <3>3 DEF Undo, Returnable, Waits
  <2> QED
    BY <2>2, <2>3 DEF Undo, RollbackPoint, Restorable
<1>3. CASE UninstallErases
  <2>1. Holders' = Holders /\ Holders = {}
    BY <1>0, <1>3 DEF UninstallErases, EraseEntry, Base, LockHeld, Holders, machine
  <2> QED
    BY <1>3, <2>1 DEF UninstallErases, EraseEntry, Undo, RollbackPoint
<1>4. CASE UninstallBegins \/ UninstallEnds \/ UninstallKilled
  <2>1. /\ sup' = sup /\ Holders' = Holders
        /\ UNCHANGED <<marker, current, settled, overwritten>>
    BY <1>0, <1>4 DEF UninstallBegins, UninstallEnds, UninstallKilled, Holders, machine, disk,
       history
  <2> QED
    BY <2>1 DEF Undo, RollbackPoint, Returnable, Waits
<1>5. CASE \/ \E x \in live : OrphanExits(x)
           \/ \E r \in Releases : Prepare(r)
           \/ Discard \/ UNCHANGED vars
  <2>1. /\ sup' = sup /\ Holders' = Holders
        /\ UNCHANGED <<marker, current, settled, overwritten>>
    BY <1>5 DEF OrphanExits, Prepare, Discard, vars, machine, disk, history, Holders
  <2> QED
    BY <2>1 DEF Undo, RollbackPoint, Returnable, Waits
<1> QED
  BY <1>2, <1>3, <1>4, <1>5, NextParts DEF Uninstalls

IInv == Base /\ Undo /\ RollbackPoint

LEMMA InductiveInvariant == Spec => []IInv
<1>1. Init => IInv
  <2> SUFFICES ASSUME Init PROVE IInv
    OBVIOUS
  <2>1. Base /\ Holders = {}
    BY BaseInit DEF Init, Holders
  <2> QED
    BY <2>1 DEF Init, IInv, Undo, RollbackPoint
<1>2. IInv /\ [Next]_vars => IInv'
  BY BaseStep, UndoStep DEF IInv
<1> QED
  BY <1>1, <1>2, PTL DEF Spec

(* A process death at any step of an update can be undone: current.json or   *)
(* the transaction file names the release the last completed update left.    *)
THEOREM UpdateCanBeUndone == Spec => []RollbackPoint
<1>1. IInv => RollbackPoint
  BY DEF IInv
<1> QED
  BY <1>1, InductiveInvariant, PTL

(* And it is undone: a start launches the release the last completed update  *)
(* left.                                                                     *)
THEOREM StartsSettledRelease == Spec => BootsSettled
<1>1. ASSUME IInv, Next, NEW p \in Supervisors, At(p, "boot"), core'[p] # None, ~overwritten
      PROVE  core'[p].release = settled
  <2>0. /\ Processes /\ sup[p] \in Memory /\ core[p] = None /\ sup[p].state # "crashed"
        /\ current = settled
    BY <1>1, TypeParts DEF IInv, Base, Processes, Cores, CoreLess, Undo, Returnable, Holders, At
  <2>1. PICK q \in Supervisors : StepOf(q)
    BY <1>1, <2>0, NextParts DEF OrphanExits, Prepare, Discard, Uninstalls, UninstallBegins,
       UninstallErases, EraseEntry, UninstallEnds, UninstallKilled, machine
  <2>2. q = p
    BY <1>1, <2>0, <2>1, Others DEF IInv, Base
  <2>3. CASE Boot(p)
    <3>1. Ended(sup[p], "starting") \in Memory
      BY <2>0, EndedTyped DEF States
    <3>2. PICK s \in Memory : Launch(p, current, s)
      BY <2>3, <3>1 DEF Boot
    <3> QED
      BY <2>0, <3>2, LaunchEffect
  <2>4. CASE StartFault(p) \/ Kill(p)
    BY <1>1, <2>0, <2>4, VanishEffect DEF StartFault, StartThrows, Kill
  <2>5. CASE Serve(p) \/ RollbackFault(p) \/ Ready(p) \/ CoreExits(p) \/ Timer(p) \/ WindowEnds(p)
             \/ BeginUpdate(p) \/ \E kind \in {"stop", "restart"} : Stop(p, kind)
    <3>1. CASE Timer(p)
      <4>1. [sup[p] EXCEPT !.timers = @ - 1].state = sup[p].state
        BY <2>0 DEF Memory
      <4> QED
        BY <1>1, <2>0, <3>1, <4>1 DEF Timer
    <3> QED
      BY <1>1, <2>0, <2>5, <3>1 DEF Serve, RollbackFault, Ready, CoreExits, WindowEnds,
         BeginUpdate, Stop, GateOpen, At, machine
  <2>6. CASE Answer(p) \/ UpdateThrows(p)
    BY <1>1, <2>0, <2>6 DEF Answer, StopTimesOut, AwaitReady, AwaitFails, AwaitPreviousReady,
       AwaitPreviousFails, UpdateThrows, At, machine
  <2>7. CASE Acquire(p) \/ Recover(p) \/ Unmark(p) \/ Close(p) \/ Mark(p) \/ Switch(p)
             \/ Unpend(p) \/ Complete(p) \/ Restore(p) \/ Settle(p)
    BY <1>1, <2>7 DEF Acquire, Recover, Unmark, Close, Mark, Switch, Unpend, Complete, Restore,
       Settle, At
  <2> QED
    BY <2>1, <2>2, <2>3, <2>4, <2>5, <2>6, <2>7 DEF StepOf, Advance
<1>2. IInv /\ [Next]_vars
      => [\A p \in Supervisors : At(p, "boot") /\ core'[p] # None
            => overwritten \/ core'[p].release = settled]_vars
  BY <1>1
<1> QED
  BY <1>2, InductiveInvariant, PTL DEF Spec, BootsSettled
=============================================================================
