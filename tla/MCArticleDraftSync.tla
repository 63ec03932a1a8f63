------------------------- MODULE MCArticleDraftSync -------------------------
(* The instances of ArticleDraftSync TLC runs. *)
EXTENDS ArticleDraftSync, TLC

CONSTANTS t1, t2, t3, b1, b2

Symmetry == Permutations(Tab) \cup Permutations(Browser)

\* The draft has reached both browsers; the first has two tabs.
Shared ==
  /\ cloud = <<[id |-> 1, draft |-> First]>>
  /\ row = [b \in Browser |-> [rev |-> 1, draft |-> First]]
  /\ sync = [b \in Browser |-> [NoSync EXCEPT !.server = 1, !.acked = 1]]
  /\ tab = [t \in Tab |-> [home |-> IF t = t3 THEN b2 ELSE b1, dirty |-> FALSE, job |-> NoJob, op |-> NoOp,
                           cur |-> First, known |-> 1]]
  /\ late = {} /\ posted = None
  /\ used = [events |-> 0, ids |-> 1]

\* Some of the steps of Next are enough: publications, saves and syncs.
Publishing ==
  \E t \in Tab :
    \/ Read(t) \/ GetRefused(t) \/ Compare(t) \/ Journal(t) \/ Send(t) \/ Settle(t) \/ Resolve(t)
    \/ Save(t) \/ SyncStarts(t) \/ PublishStarts(t) \/ Claim(t) \/ CheckClaim(t) \/ Publish(t)

SharedSpec == Shared /\ [][Publishing]_vars
SharedSymmetry == Permutations({t1, t2})
=============================================================================
