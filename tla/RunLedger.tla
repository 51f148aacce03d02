----------------------------- MODULE RunLedger -----------------------------
(***************************************************************************)
(* What the journal of a workflow run promises its readers.  An ask is     *)
(* opened once, settled at most once, and its settled record never changes *)
(* again, through any number of stops, crashes and resumes; asks open and  *)
(* settle only while the run is running; only a stopped run goes back to   *)
(* running, and a completed, errored or superseded one is final.           *)
(***************************************************************************)
EXTENDS Naturals

VARIABLES asks,   \* ask |-> [status, answer], for the asks opened so far
          run     \* status of the run

Open == {"running"}
Ends == {"completed", "errored", "stopped", "superseded"}

Init == DOMAIN asks = {} /\ run = "running"

(* Some asks are opened; the others keep their record. *)
OpenAsks ==
    /\ run = "running" /\ run' = run
    /\ DOMAIN asks \subseteq DOMAIN asks'
    /\ \A a \in DOMAIN asks' :
          IF a \in DOMAIN asks THEN asks'[a] = asks[a] ELSE asks'[a].status \in Open

(* One open ask is settled. *)
Settle ==
    /\ run = "running" /\ run' = run
    /\ DOMAIN asks' = DOMAIN asks
    /\ \E a \in DOMAIN asks :
          /\ asks[a].status \in Open /\ asks'[a].status \notin Open
          /\ \A b \in DOMAIN asks \ {a} : asks'[b] = asks[b]

End == run = "running" /\ run' \in Ends /\ asks' = asks

Resume == run = "stopped" /\ run' = "running" /\ asks' = asks

Next == OpenAsks \/ Settle \/ End \/ Resume

Spec == Init /\ [][Next]_<<asks, run>>
=============================================================================
