---------------------------- MODULE ContractAccess ----------------------------
(***************************************************************************)
(* What a user may do with a contract.  Pages, API and services decide it  *)
(* each with rules of their own, from the groups in the claims of the last *)
(* login, from the membership row of the agency and from what the user is  *)
(* on the contract.  The first two move as AgencyMemberships says; nothing *)
(* else depends on them, so that the rules are compared for every standing *)
(* a user can have beside them.                                            *)
(***************************************************************************)
EXTENDS AgencyMemberships

\* Superuser, administrator of the platform (a group in the claims), the
\* ContractMembership, an active AuthorityMembership.
Standings ==
  [superuser : BOOLEAN, platform : BOOLEAN,
   contract : {"none", "reader", "editor", "admin"}, consults : BOOLEAN]

\* resolve_user_agency_scope makes a superuser administrator of the platform,
\* and reads no group of his.
Platform(a) == a.superuser \/ a.platform
Scope(a) == IF a.superuser THEN {} ELSE claims

InAgency(roles) == membership.status = "active" /\ membership.role \in roles

-----------------------------------------------------------------------------
(* The services for revisions, to which the pages lead.                    *)

Mut_CanPrepare(a) ==
  \/ a.superuser
  \/ Scope(a) \cap {"admin", "editor"} # {}
  \/ membership.role \in {"admin", "editor"}
  \/ a.contract \in {"admin", "editor"}

CanPrepare(a) ==
  \/ a.superuser
  \/ Scope(a) \cap {"admin", "editor"} # {}
  \/ InAgency({"admin", "editor"})
  \/ a.contract \in {"admin", "editor"}

CanApprove(a) ==
  \/ a.superuser
  \/ "admin" \in Scope(a)
  \/ InAgency({"admin"})
  \/ a.contract = "admin"

-----------------------------------------------------------------------------
(* The pages.                                                              *)

OpensAgency(a) == Platform(a) \/ Scope(a) # {} \/ InAgency(Roles)

\* agencies_page
ListsAgency(a) ==
  \/ Platform(a)
  \/ Scope(a) \cup (IF membership.status = "active" THEN {membership.role} ELSE {}) # {}

OpensContract(a) == a.superuser \/ a.contract # "none" \/ a.consults

\* The page of a revision, and the file with the settings of the M2M client.
OpensRevision(a) == OpensContract(a) \/ OpensAgency(a)

WritesForAgency(a) == Platform(a) \/ Scope(a) \cap {"admin", "editor"} # {}
AdministersAgency(a) == Platform(a) \/ "admin" \in Scope(a)
ManagesContract(a) == a.superuser \/ a.contract \in {"admin", "editor"}

\* _can_reveal_contract_m2m_secret
Reveals(a) ==
  a.superuser \/ a.contract # "none" \/ (AdministersAgency(a) /\ OpensAgency(a))

\* What each page of the contract opens to and offers.
Offers(a, opens, invites, secret) ==
  [opens |-> opens, drafts |-> CanPrepare(a), dates |-> CanApprove(a),
   invites |-> invites, secret |-> secret]

UserPage(a) == Offers(a, OpensContract(a), ManagesContract(a), Reveals(a))
AgencyPage(a) == Offers(a, OpensAgency(a), WritesForAgency(a), AdministersAgency(a))

\* _contract_back_url: where a user goes who has changed a draft.
ContractPage(a) == IF OpensAgency(a) THEN AgencyPage(a) ELSE UserPage(a)

\* The user's area leads to the pages on which invitations are made.
UserArea(a) == [contracts |-> WritesForAgency(a), agencies |-> AdministersAgency(a)]

\* create_contract_invitation_page, create_agency_invitation_page
InvitesToContract(a) ==
  Platform(a) \/ Scope(a) \cap {"admin", "editor"} # {} \/ a.contract \in {"admin", "editor"}
InvitesToAgency(a) == Platform(a) \/ "admin" \in Scope(a)

\* agency_contracts_page, agency_lot_detail_page
CreatesContract(a) == Platform(a) \/ "admin" \in Scope(a)

-----------------------------------------------------------------------------
(* The API.                                                                *)

ApiReads(a) == Platform(a) \/ a.contract # "none" \/ a.consults \/ Scope(a) # {}

ApiWrites(a) ==
  Platform(a) \/ Scope(a) \cap {"admin", "editor"} # {} \/ a.contract \in {"admin", "editor"}

ApiInvites(a) == Platform(a) \/ Scope(a) \cap {"admin", "editor"} # {}

-----------------------------------------------------------------------------
(* Properties.                                                             *)

\* The rules agree with each other: whoever may change something reaches the
\* page it is changed on and is sent back to one that opens, whoever may approve
\* may prepare, a list shows what its pages open, a page offers what the next
\* one grants, and the API gives nothing that the pages refuse.
RulesAgree ==
  \A a \in Standings :
    /\ CanApprove(a) => CanPrepare(a)
    /\ CanPrepare(a) => OpensRevision(a) /\ ContractPage(a).opens
    /\ ListsAgency(a) <=> OpensAgency(a)
    /\ CreatesContract(a) => OpensAgency(a)
    /\ \A page \in {UserPage(a), AgencyPage(a)} :
         page.opens => /\ page.invites => InvitesToContract(a)
                       /\ page.secret => Reveals(a)
    /\ InvitesToContract(a) => OpensRevision(a) /\ (UserPage(a).invites \/ AgencyPage(a).invites)
    /\ UserArea(a).contracts => InvitesToContract(a)
    /\ UserArea(a).agencies <=> InvitesToAgency(a)
    /\ ApiWrites(a) \/ ApiInvites(a) => ApiReads(a)
    /\ ApiReads(a) => OpensRevision(a)
    /\ ApiInvites(a) => InvitesToContract(a)

\* The API knows the claims and not the row.  Where it refuses what the pages
\* allow, the next login settles it: the group is there (with one request at a
\* time, and nothing lost).
ApiCatchesUp ==
  Quiet =>
    \A a \in Standings :
      /\ OpensRevision(a) /\ ~ApiReads(a) => groups # {}
      /\ CanPrepare(a) /\ ~ApiWrites(a) => groups \cap {"admin", "editor"} # {}

\* Of the same sources the pages, the API and the services make the same of a
\* user, or will when he logs in again; and the row behind it is backed by
\* Keycloak (can_prepare_contract_revision, _can_view_agency,
\* _authorized_contracts_qs, _cache_group_membership_for_current_session).
AccessFollowsKeycloak == RowTellsKeycloak /\ RulesAgree /\ ApiCatchesUp

=============================================================================
