----------------------- MODULE MCRuntimeCommandQueue -----------------------
(* A small instance of RuntimeCommandQueue: an admitted prompt p, a goal   *)
(* loop g, notifications n1 and n2, a subagent reply r and a settings turn *)
(* k; a lease of o1 promotes p, one of o2 g.                               *)
EXTENDS RuntimeCommandQueue, FiniteSets, TLC

CONSTANTS
  MaxGiven,     \* bound on the commands given (or aborted) in one behaviour
  p, g, n1, n2, r, k, o1, o2

AllModes == (p :> "prompt") @@ (g :> "goal") @@ (n1 :> "note") @@ (n2 :> "note")
            @@ (r :> "reply") @@ (k :> "control")
ModeOf == [c \in Cmd |-> AllModes[c]]
AllPromotions == (o1 :> p) @@ (o2 :> g)
Promotion == [o \in Owner |-> AllPromotions[o]]

\* Any MaxGiven of the commands of Cmd.
Given == {c \in Cmd : ~New(c) \/ c \in aborted}
BoundedSpec ==
  Init /\ [][Next /\ Cardinality(Given') <= MaxGiven]_vars /\ Fairness
=============================================================================
