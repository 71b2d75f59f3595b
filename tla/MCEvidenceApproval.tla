------------------------ MODULE MCEvidenceApproval ------------------------
(* Instances of EvidenceApproval for TLC.                                  *)
EXTENDS EvidenceApproval, TLC

ApprovalSymmetry == Permutations(Requests) \union Permutations(Texts)

=============================================================================
