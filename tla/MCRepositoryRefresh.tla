------------------------ MODULE MCRepositoryRefresh -------------------------
(* Instances of RepositoryRefresh for TLC.                                 *)
EXTENDS RepositoryRefresh, TLC

Interchangeable ==
    Permutations(Repos) \union Permutations(Refreshers) \union Permutations(Editors)

=============================================================================
