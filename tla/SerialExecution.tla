--------------------------- MODULE SerialExecution ---------------------------
(***************************************************************************)
(* What command admission promises, without gates, promises or tables: a   *)
(* session executes one command at a time, and executeCommand is called    *)
(* only for the command the session is executing.  A process crash cuts    *)
(* every execution short.                                                  *)
(***************************************************************************)
EXTENDS Naturals

CONSTANTS Session, Cmd, SessOf, Idle

VARIABLES running,  \* the command each session executes, or Idle
          runs      \* how often each command was executed

Init ==
  /\ running = [s \in Session |-> Idle]
  /\ runs = [c \in Cmd |-> 0]

Begin(c) ==
  /\ running[SessOf[c]] = Idle
  /\ running' = [running EXCEPT ![SessOf[c]] = c]
  /\ UNCHANGED runs

Run(c) ==
  /\ running[SessOf[c]] = c
  /\ runs' = [runs EXCEPT ![c] = @ + 1]
  /\ UNCHANGED running

End(s) ==
  /\ running[s] # Idle
  /\ running' = [running EXCEPT ![s] = Idle]
  /\ UNCHANGED runs

Crash ==
  /\ running' = [s \in Session |-> Idle]
  /\ UNCHANGED runs

Next ==
  \/ \E c \in Cmd : Begin(c) \/ Run(c)
  \/ \E s \in Session : End(s)
  \/ Crash

Spec == Init /\ [][Next]_<<running, runs>>
=============================================================================
