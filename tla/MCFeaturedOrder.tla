-------------------------- MODULE MCFeaturedOrder --------------------------
(* Instances of FeaturedOrder for TLC.                                     *)
EXTENDS FeaturedOrder, TLC

FeaturedSymmetry == Permutations(Projects) \union Permutations(Replacements)

=============================================================================
