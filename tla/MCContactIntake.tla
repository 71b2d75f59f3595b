-------------------------- MODULE MCContactIntake ---------------------------
(* Instances of ContactIntake for TLC.                                     *)
EXTENDS ContactIntake, TLC

Interchangeable ==
    Permutations(Handlers) \union Permutations(Submissions) \union Permutations(Payloads)

=============================================================================
