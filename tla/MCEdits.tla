------------------------------- MODULE MCEdits -------------------------------
(***************************************************************************)
(* Instances of EvidenceApproval, FeaturedOrder and HomepageComposition    *)
(* for TLC: what the overlapping requests of administrators leave.  The    *)
(* three write different tables, so each behaviour runs one of them and    *)
(* leaves the others alone.                                                *)
(***************************************************************************)
EXTENDS MCEvidenceApproval, MCFeaturedOrder, MCHomepage

VARIABLE part

EditsInit ==
    /\ part \in {"approval", "featured", "homepage"}
    /\ Init
    /\ part # "approval" => evidence = NoEvidence /\ ~visible /\ ~listed
    /\ FeaturedInit
    /\ HomepageInit

EditsNext ==
    /\ \/ part = "approval" /\ Next /\ UNCHANGED <<featuredVars, homepageVars>>
       \/ part = "featured" /\ FeaturedNext /\ UNCHANGED <<vars, homepageVars>>
       \/ part = "homepage" /\ HomepageNext /\ UNCHANGED <<vars, featuredVars>>
    /\ UNCHANGED part

EditsSymmetry == ApprovalSymmetry \union HomepageSymmetry

EditsSpec == EditsInit /\ [][EditsNext]_<<part, vars, featuredVars, homepageVars>>

=============================================================================
