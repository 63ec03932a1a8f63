------------------------- MODULE MCReadStateOutbox -------------------------
(* An instance of ReadStateOutbox for TLC. *)
EXTENDS ReadStateOutbox

CONSTANTS d1, d2, o1, m1, m2

\* Every mark is about one article, the hardest case for coalescing and pruning.
OneArticle == [a \in Acts |-> "article"]

\* The mark device d1 still holds is in the version 1 manifest already.
PublishedLegacy == [d \in Devices |-> IF d = d1 THEN o1 ELSE NoAct]
=============================================================================
