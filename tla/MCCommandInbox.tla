--------------------------- MODULE MCCommandInbox ---------------------------
(* Small instances of CommandInbox.  One session holds a prompt p, a plain *)
(* command x (no ledger row) and a compact k.                              *)
EXTENDS CommandInbox, TLC

CONSTANTS
  MaxArrivals,  \* bound on the deliveries that arrive in one behaviour
  s1, p, x, k, p1, p2, x1, k1, qp

OneSession == [c \in Cmd |-> s1]
Deliveries == (p1 :> p) @@ (p2 :> p) @@ (x1 :> x) @@ (k1 :> k) @@ (qp :> p)
Carries == [r \in Req |-> Deliveries[r]]

\* Any MaxArrivals of the deliveries of Req.
Arrived == {r \in Req : pc[r] # "new"}
BoundedSpec ==
  Init /\ [][Next /\ Cardinality(Arrived') <= MaxArrivals]_vars /\ Fairness
=============================================================================
