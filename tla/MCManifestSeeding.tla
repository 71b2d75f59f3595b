-------------------------- MODULE MCManifestSeeding --------------------------
(* Instances of ManifestSeeding for TLC: two manifests that share a key    *)
(* and a name, one whose records both ask to be selected, and one that is  *)
(* invalid.                                                                *)
EXTENDS ManifestSeeding, TLC

CONSTANTS k1, k2, k3, n1, n2, first, before, after

Portrait(key, file, selects) ==
    [key |-> key, name |-> None, rank |-> None, file |-> file, ref |-> None,
     selects |-> selects, group |-> 1]

Article(key, name, rank, ref) ==
    [key |-> key, name |-> name, rank |-> rank, file |-> None, ref |-> ref,
     selects |-> FALSE, group |-> 2]

Illustrated == {Portrait(k1, before, FALSE), Article(k2, n1, first, k1)}
Revised == {Portrait(k1, after, FALSE), Article(k3, n1, None, k1)}
Ambiguous == {Article(k2, n2, None, None), Article(k3, n2, None, None)}
Rivals == {Portrait(k1, before, TRUE), Portrait(k3, before, TRUE)}

Applied == {Illustrated, Revised, Ambiguous, Rivals}

SeedingSymmetry == Permutations(Runs)

=============================================================================
