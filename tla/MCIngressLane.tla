--------------------------- MODULE MCIngressLane ---------------------------
(* Model-checking instance of IngressLane and its refinement. *)
EXTENDS IngressLaneLedger, TLC

\* Runs are interchangeable: only safety runs use it.
RunSymmetry == Permutations(Owner)
=============================================================================
