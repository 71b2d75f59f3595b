------------------------------ MODULE MCAssets ------------------------------
(***************************************************************************)
(* Instances of ResumeVersions and PrimaryAssets for TLC.  They are about  *)
(* different tables, so each behaviour runs one of them and leaves the     *)
(* other alone.                                                            *)
(***************************************************************************)
EXTENDS MCResumeVersions, MCPrimaryAssets

VARIABLE part

AssetsInit ==
    /\ part \in {"resumes", "primaries"}
    /\ Init
    /\ OneKindInit

AssetsNext ==
    /\ \/ part = "resumes" /\ Next /\ UNCHANGED primaryVars
       \/ part = "primaries" /\ PrimaryNext /\ UNCHANGED vars
    /\ UNCHANGED part

AssetsSpec == AssetsInit /\ [][AssetsNext]_<<part, vars, primaryVars>>

AssetsSymmetry == Interchangeable \union PrimarySymmetry

=============================================================================
