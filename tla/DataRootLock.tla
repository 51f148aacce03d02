---------------------------- MODULE DataRootLock ----------------------------
(***************************************************************************)
(* DataRootLock.acquire and release, one file operation per step, for      *)
(* processes that start on the same server root.  Supervisor takes this    *)
(* lock in one step; here is what the file system sees of it.              *)
(*                                                                         *)
(* A file is created empty under its name and written through its handle,  *)
(* wherever the name has gone meanwhile.  Its content is "" or the process *)
(* whose pid and token it carries; a process acquires once, so the two are *)
(* one.  A process may be killed at every step; pids are not reused.       *)
(* Errors other than "exists" and "missing", and the limit of 100 rounds,  *)
(* are left out.                                                           *)
(***************************************************************************)
EXTENDS Naturals, Sequences, FiniteSets

CONSTANTS
    Processes,
    Empty,      \* the content of a file that is not written yet
    None,
    MaxFiles    \* bound: files created

VARIABLES
    names,      \* name |-> the file it names, or None
    content,    \* file |-> its content, for each file ever created
    proc        \* process |-> its step and what it holds in memory

vars == <<names, content, proc>>

Lock == "lock"
Gate == "lock.recovery"
Name == {Lock, Gate} \cup Processes     \* a process names its quarantine

(* pc: the next step; path and raw: what claimStalePath or releaseOwnedPath *)
(* takes away and expects in it; then: where they return to; file: the     *)
(* handle.                                                                 *)
Init ==
    /\ names = [n \in Name |-> None]
    /\ content = <<>>
    /\ proc = [p \in Processes |->
                 [pc |-> "open", path |-> Lock, raw |-> None, then |-> "look", file |-> None]]

-----------------------------------------------------------------------------
Goto(p, step) == proc' = [proc EXCEPT ![p].pc = step]

(* readOwner: null when the name is missing.                                *)
Raw(name) == IF names[name] = None THEN None ELSE content[names[name]]

isHolderAlive(raw) == raw \in Processes /\ proc[raw].pc # "dead"

(* open(path, "wx"): fails when the name exists, else creates it empty.     *)
Open(p, step, path, created, exists) ==
    /\ proc[p].pc = step
    /\ IF names[path] # None
       THEN Goto(p, exists) /\ UNCHANGED <<names, content>>
       ELSE LET file == Len(content) + 1
            IN  /\ file <= MaxFiles
                /\ content' = Append(content, Empty)
                /\ names' = [names EXCEPT ![path] = file]
                /\ proc' = [proc EXCEPT ![p].pc = created, ![p].file = file]

(* handle.writeFile *)
Write(p, step, written) ==
    /\ proc[p].pc = step
    /\ content' = [content EXCEPT ![proc[p].file] = p]
    /\ Goto(p, written)
    /\ UNCHANGED names

(* claimStalePath, or the end of releaseOwnedPath: take path away if it     *)
(* still has raw in it, then go on at then.                                 *)
Claim(p, path, raw, then) ==
    proc' = [proc EXCEPT ![p].pc = "rename", ![p].path = path, ![p].raw = raw,
                         ![p].then = then]

releaseOwnedPath(p, path, then) ==
    IF Raw(path) = p THEN Claim(p, path, p, then) ELSE Goto(p, then)

Rename(p) ==
    /\ proc[p].pc = "rename"
    /\ LET path == proc[p].path
       IN  IF names[path] = None
           THEN Goto(p, proc[p].then) /\ UNCHANGED names
           ELSE /\ names' = [names EXCEPT ![path] = None, ![p] = names[path]]
                /\ Goto(p, "check")
    /\ UNCHANGED content

(* The quarantined file is read: the one that was meant goes, another one   *)
(* is put back, over whatever has the name now.                             *)
Check(p) ==
    /\ proc[p].pc = "check"
    /\ Goto(p, IF Raw(p) = proc[p].raw THEN "remove" ELSE "restore")
    /\ UNCHANGED <<names, content>>

Settle(p) ==
    /\ proc[p].pc \in {"remove", "restore"}
    /\ names' = [names EXCEPT ![p] = None,
                              ![proc[p].path] = IF proc[p].pc = "restore"
                                                THEN names[p] ELSE @]
    /\ Goto(p, proc[p].then)
    /\ UNCHANGED content

-----------------------------------------------------------------------------
(* acquire: the lock file itself, else the recovery of a stale one behind   *)
(* the recovery gate.                                                       *)
TryAcquireOnce(p) ==
    \/ Open(p, "open", Lock, "write", "look") \/ Write(p, "write", "own")
    \/ Open(p, "reopen", Lock, "rewrite", "ungate") \/ Write(p, "rewrite", "ungateOwn")

Look(p) ==
    /\ proc[p].pc = "look"
    /\ Goto(p, IF isHolderAlive(Raw(Lock)) THEN "refused" ELSE "gate")
    /\ UNCHANGED <<names, content>>

TryAcquireRecoveryGate(p) ==
    \/ Open(p, "gate", Gate, "gateWrite", "gateLook")
    \/ Write(p, "gateWrite", "recheck")
    \/ /\ proc[p].pc = "gateLook"
       /\ IF Raw(Gate) = None \/ isHolderAlive(Raw(Gate))
          THEN Goto(p, "look")
          ELSE Claim(p, Gate, Raw(Gate), "look")
       /\ UNCHANGED <<names, content>>

Recheck(p) ==
    /\ proc[p].pc = "recheck"
    /\ CASE isHolderAlive(Raw(Lock)) -> Goto(p, "ungateRefused")
         [] Raw(Lock) = None -> Goto(p, "reopen")
         [] OTHER -> Claim(p, Lock, Raw(Lock), "reopen")
    /\ UNCHANGED <<names, content>>

(* finally: the gate is given back.                                         *)
Ungate(p) ==
    /\ \/ proc[p].pc = "ungate" /\ releaseOwnedPath(p, Gate, "look")
       \/ proc[p].pc = "ungateRefused" /\ releaseOwnedPath(p, Gate, "refused")
       \/ proc[p].pc = "ungateOwn" /\ releaseOwnedPath(p, Gate, "own")
    /\ UNCHANGED <<names, content>>

Release(p) ==
    /\ proc[p].pc = "own"
    /\ releaseOwnedPath(p, Lock, "dead")
    /\ UNCHANGED <<names, content>>

(* The process is killed; its files stay.                                   *)
Crash(p) ==
    /\ proc[p].pc # "dead" /\ Goto(p, "dead")
    /\ UNCHANGED <<names, content>>

Next ==
    \E p \in Processes :
        \/ TryAcquireOnce(p) \/ Look(p) \/ TryAcquireRecoveryGate(p) \/ Recheck(p)
        \/ Ungate(p) \/ Release(p) \/ Rename(p) \/ Check(p) \/ Settle(p) \/ Crash(p)

Spec == Init /\ [][Next]_vars

-----------------------------------------------------------------------------
(* acquire has returned (the caller goes on after the gate is given back).  *)
Owners == {p \in Processes : proc[p].pc = "own"}

(* "Another ZCode Server instance is already running": of two processes on  *)
(* one root at most one has acquired, because a claim of a stale file never *)
(* removes the lock of a new owner.                                         *)
MutualExclusion == Cardinality(Owners) <= 1

=============================================================================
