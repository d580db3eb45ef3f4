------------------------ MODULE MCAgencyMemberships ------------------------
(* Instances of AgencyMemberships for TLC: the three roles, and requests   *)
(* one after the other, for what holds only then.                          *)
EXTENDS AgencyMemberships

=============================================================================
