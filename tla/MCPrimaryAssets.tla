--------------------------- MODULE MCPrimaryAssets ---------------------------
(***************************************************************************)
(* Instances of PrimaryAssets for TLC.  The three tables are apart, so a   *)
(* behaviour starts after the creation of all items but those of one of    *)
(* them has failed for good.                                               *)
(***************************************************************************)
EXTENDS PrimaryAssets, TLC

OneKindInit ==
    \E kind \in {Profiles, Portraits, Media} :
        /\ items = [x \in Items |-> NoItem]
        /\ stored = {}
        /\ creation = [x \in Items |->
                          IF x \in kind THEN Unborn ELSE [Unborn EXCEPT !.stage = "done"]]
        /\ edit = [e \in Editors |-> Idle]
        /\ overtaken = {}

OneKindSpec == OneKindInit /\ [][PrimaryNext]_primaryVars

PrimarySymmetry == Permutations(Editors)

=============================================================================
