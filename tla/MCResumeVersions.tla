-------------------------- MODULE MCResumeVersions --------------------------
(* Instances of ResumeVersions for TLC.                                    *)
EXTENDS ResumeVersions, TLC

Interchangeable == Permutations(Versions) \union Permutations(Requests)

=============================================================================
