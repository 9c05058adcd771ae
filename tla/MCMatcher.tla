----------------------------- MODULE MCMatcher -----------------------------
(***************************************************************************)
(* Model-checking instances of Matcher.                                    *)
(***************************************************************************)
EXTENDS Matcher, TLC

Symmetry ==
  Permutations(OrderSlots) \cup Permutations(LevelSlots)
    \cup Permutations(OrderIds) \cup Permutations(Clients)
=============================================================================
