--------------------------- MODULE MCLotContracts ---------------------------
(* LotContracts for the one property of the forms that fails. *)
EXTENDS LotContracts

=============================================================================
