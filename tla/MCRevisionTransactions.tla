----------------------- MODULE MCRevisionTransactions -----------------------
(* An instance of RevisionTransactions small enough for TLC: two workers   *)
(* are enough for a race and for a deadlock.                               *)
EXTENDS RevisionTransactions, TLC

CONSTANTS LastDay

MCDays == 1..LastDay

Interchangeable ==
  Permutations(Revisions) \cup Permutations(Workers) \cup Permutations(Configs)

=============================================================================
