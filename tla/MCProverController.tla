------------------------- MODULE MCProverController -------------------------
(* Small instances of ProverController for TLC: one controller of a regular *)
(* machine, one of a large machine, and a second regular one.               *)
EXTENDS ProverController, TLC

CONSTANTS m, n, l, e1, e2, a1

ExecutionOnly == [r \in Request |-> "execution"]
Mixed         == (e1 :> "execution") @@ (a1 :> "aggregation")

MCEnd == (e1 :> 1) @@ (e2 :> 2) @@ (a1 :> 2)
Ends  == [r \in Request |-> MCEnd[r]]

\* Large machines only run execution proofs.
Watches ==
    [c \in Controller |-> IF c = l THEN {"execution"} ELSE {"execution", "aggregation"}]
=============================================================================
