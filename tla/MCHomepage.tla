----------------------------- MODULE MCHomepage -----------------------------
(* Instances of HomepageComposition for TLC.                               *)
EXTENDS HomepageComposition, TLC

CONSTANTS a, b

Orderings == {<<>>, <<a>>, <<b>>, <<b, a>>}

HomepageSymmetry == Permutations(Editors)

=============================================================================
