--------------------------- MODULE CoverageLedger ---------------------------
(***************************************************************************)
(* What the intake lane promises a reader of the inbox: a frontier that    *)
(* only moves forward, the set of sequences below it that are staged, and  *)
(* an explicit ledger of those still owed.  A sequence the frontier passes *)
(* is entered as owed unless it is staged in the same step, and leaves the *)
(* ledger only by being staged (by the tail or, with the frontier where it *)
(* is, by a repair).  Once halted, nothing moves.                          *)
(***************************************************************************)
EXTENDS Integers

CONSTANT Seam

VARIABLES frontier, staged, owed, halted

vars == <<frontier, staged, owed, halted>>

Init ==
  /\ frontier = Seam
  /\ staged = {}
  /\ owed = {}
  /\ halted = FALSE

Extend ==
  /\ ~halted
  /\ frontier' >= frontier
  /\ staged \subseteq staged'
  /\ \A s \in staged' \ staged : s <= frontier'
  /\ owed' = (owed \cup (frontier + 1..frontier')) \ staged'
  /\ UNCHANGED halted

Halt ==
  /\ halted' = TRUE
  /\ UNCHANGED <<frontier, staged, owed>>

Next == Extend \/ Halt

Spec == Init /\ [][Next]_vars
=============================================================================
