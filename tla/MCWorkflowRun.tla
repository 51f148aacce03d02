--------------------------- MODULE MCWorkflowRun ---------------------------
(* Scripts for WorkflowRun.                                                *)
EXTENDS WorkflowRun, TLC

CONSTANTS s1, s2

(* Two flows with sites of their own that share a reviewer:                  *)
(*   await Promise.all([flowA(), flowB()])                                   *)
(* flowB may reach its second ask while flowA still waits for its first, so  *)
(* that a resume meets the reviewer's asks in another order than the journal.*)
FlowOrder == <<s1, s2>>
FlowScript ==
    s1 :> <<[site |-> "draft", agent |-> "writer", text |-> "a1"],
            [site |-> "refine", agent |-> "reviewer", text |-> "a2"]>>
    @@ s2 :> <<[site |-> "check", agent |-> "reviewer", text |-> "b1"],
               [site |-> "confirm", agent |-> "reviewer", text |-> "b2"]>>
FlowActors == "reviewer" :> "mkReviewer" @@ "writer" :> "mkWriter"

(* The chained fan-out: items.map(async (x) => { const f = await             *)
(* agent().ask(find x); await agent().ask(confirm f) }).                     *)
ChainScript ==
    s1 :> <<[site |-> "find", agent |-> "f1", text |-> "find 1"],
            [site |-> "confirm", agent |-> "c1", text |-> "confirm 1"]>>
    @@ s2 :> <<[site |-> "find", agent |-> "f2", text |-> "find 2"],
               [site |-> "confirm", agent |-> "c2", text |-> "confirm 2"]>>
ChainActors == "f1" :> "mkFinder" @@ "f2" :> "mkFinder"
               @@ "c1" :> "mkConfirmer" @@ "c2" :> "mkConfirmer"

=============================================================================
