-------------------------- MODULE IngressLaneLedger --------------------------
(***************************************************************************)
(* The refinement mapping from the intake lane's durable rows to the       *)
(* coverage ledger they promise.                                           *)
(***************************************************************************)
EXTENDS IngressLane

\* The frontier is the live cursor (the seam before the first one); the ledger
\* is what the gap and the unfinished jobs owe and no row holds.
Frontier == Larger(ctl.last, Bootstrap)
OwedRows == {s \in Bootstrap + 1..ctl.last : Owed(s)} \ Staged

Ledger == INSTANCE CoverageLedger WITH
  Seam     <- Bootstrap,
  frontier <- Frontier,
  staged   <- Staged,
  owed     <- OwedRows,
  halted   <- ctl.status = Blocked

\* The lane implements the ledger: gap and job rows are exactly the record of
\* what the frontier passed without staging it, at every step of every run.
ImplementsLedger == Ledger!Spec
=============================================================================
