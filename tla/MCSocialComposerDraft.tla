----------------------- MODULE MCSocialComposerDraft -----------------------
(* An instance of SocialComposerDraft for TLC. *)
EXTENDS SocialComposerDraft, TLC

CONSTANTS d1, d2, a, b, c

Symmetry == Permutations(Ids) \cup Permutations(Texts)
=============================================================================
