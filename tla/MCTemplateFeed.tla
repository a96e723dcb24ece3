--------------------------- MODULE MCTemplateFeed ---------------------------
(* Three template ids compete for two places.                              *)
EXTENDS TemplateFeed

CONSTANTS k1, k2, k3, f1, f2
MCKeys == {k1, k2, k3}
MCFields == {f1, f2}
Symmetry == Permutations(MCKeys) \cup Permutations(MCFields)
=============================================================================
