------------------------ MODULE MCContractRevisions ------------------------
(* An instance of ContractRevisions small enough for TLC.                  *)
EXTENDS TimelineRefinement, TLC

CONSTANTS p1, complete, incomplete

MCDays == 1..4

\* The profile proposes a composition the operator has to complete.
MCConfigsOf == p1 :> {complete, incomplete}
MCProposedConfig == p1 :> incomplete

RevisionSymmetry == Permutations(Revisions)

=============================================================================
