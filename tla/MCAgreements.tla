---------------------------- MODULE MCAgreements ----------------------------
(***************************************************************************)
(* The components around the revisions of a contract that share no state   *)
(* with its calendar: the agencies, as they are opened and invite; who is  *)
(* invited to the contract; who belongs to its agency, and what that lets  *)
(* him do; the contracts of its lot; the M2M client of its company and     *)
(* what it is answered; the conditions of one indicator in its drafts; and *)
(* its calendar once more, with the forms of the administration site.      *)
(*                                                                         *)
(* They do not disturb each other, so that only one of them moves in a     *)
(* behaviour, and which one is chosen at first: the run checks each by     *)
(* itself, on constants of its own.                                        *)
(***************************************************************************)
EXTENDS AgencyOnboarding, TLC

CONSTANTS
  MembershipWorkers,
  Invited, Users, LastDay, Validity,
  LotContractKeys, LotCompanies, LotRequests, LotLastDay, LotLength, LotVersions, LotForms,
  ClientCompanies, MaxClients, MaxSecrets, MaxEdits,
  Revisions, EvaluationDays, DeclaredWindows, Metrics, Advertised, Groupings, MaxChanges,
  Categories, AnyCategory, AgreedDates, GrantWindows, Effects, Schema, Inputs, LastMoment, MaxSaves,
  FormLastDay, FormProfiles, FormConfigs, FormConfigsOf, FormProposed, FormApprovable,
  NoDate, MaxPublications

VARIABLES
  part,
  now, invitation, member, accepting,
  agencyGroups, claims, membership, agencyRequest, lost,
  lotRow, lotRequest, lotForms,
  company, contract, principal, client, clients, secrets, job, edited, spoiled, left,
  evaluation, dates, threshold, penalty, conditionsFrozen, changes,
  clock, agreed, clientStatus, grant, current, call, held, saves,
  today, contractStatus, startDate, endDate, published,
  status, validFrom, profile, config, replaces, snapshot, publications

Invites == INSTANCE Invitations

Agency == INSTANCE ContractAccess WITH
  Workers <- MembershipWorkers, groups <- agencyGroups, request <- agencyRequest

Lot == INSTANCE LotContracts WITH
  Contracts <- LotContractKeys, Companies <- LotCompanies, Requests <- LotRequests,
  LastDay <- LotLastDay, DefaultLength <- LotLength, MaxVersion <- LotVersions,
  MaxForms <- LotForms, row <- lotRow, request <- lotRequest, forms <- lotForms

M2M == INSTANCE M2MPrincipals WITH
  Companies <- ClientCompanies, row <- principal

Evaluations == INSTANCE IndicatorEvaluations WITH
  Windows <- DeclaredWindows, MaxEdits <- MaxChanges, LastDay <- EvaluationDays,
  status <- evaluation, frozen <- conditionsFrozen, edits <- changes

Access == INSTANCE IngestAccess WITH
  Companies <- ClientCompanies, Dates <- AgreedDates, Windows <- GrantWindows,
  Any <- AnyCategory, Revisions <- Effects, contract <- agreed, principal <- clientStatus

Forms == INSTANCE AdministrationForms WITH
  Days <- 1..FormLastDay, Profiles <- FormProfiles, Configs <- FormConfigs,
  ConfigsOf <- FormConfigsOf, ProposedConfig <- FormProposed,
  ApprovableConfigs <- FormApprovable

(* A profile of two compositions, of which one can be approved. *)
MCConfigsOf == [p \in FormProfiles |-> FormConfigs]
MCProposed == [p \in FormProfiles |-> "c1"]

(* Two agencies that share nothing but the root of their groups. *)
MCPayloads == {[name |-> "n1", key |-> "k1"], [name |-> "n2", key |-> "k2"]}

(* Only the delays are measured stop by stop. *)
Window(kind, from, to) == [kind |-> kind, from |-> from, to |-> to]
MCWindows ==
  {Window("", 1, 1), Window("contract", 1, 1), Window("custom_range", 1, 2),
   Window("custom_to_contract_end", 2, 2)}
MCAdvertised == [m \in Metrics |-> IF m = "delay" THEN {"stop"} ELSE {}]
MCGroupings == {{}, {"stop"}}

Span(first, last) == [first |-> first, last |-> last]
Moments(from, to) == [from |-> from, to |-> to]
MCDates == {Span(1, 2), Span(2, 2)}
MCGrantWindows == {Moments(0, 3), Moments(1, 2)}

(* The second revision has conditions, and asks for no data.                *)
MCSchema == <<2, 3>>
MCInputs == <<{"netex"}, {}>>

ASSUME InstancesAssumption ==
  /\ Invites!InvitationsAssumption
  /\ Agency!MembershipsAssumption
  /\ Lot!LotAssumption
  /\ M2M!ClientsAssumption
  /\ Evaluations!EvaluationsAssumption
  /\ Access!AccessAssumption
  /\ FormLastDay \in Nat
  /\ Forms!DaysAssumption
  /\ Forms!RevisionsAssumption
  /\ Forms!ProfilesAssumption
  /\ Forms!NoneAssumption

inviteVars == <<now, invitation, member, accepting>>
agencyVars == <<agencyGroups, claims, membership, agencyRequest, lost>>
lotVars == <<lotRow, lotRequest, lotForms>>
m2mVars == <<company, contract, principal, client, clients, secrets, job, edited, spoiled, left>>
evaluationVars == <<evaluation, dates, threshold, penalty, conditionsFrozen, changes>>
accessVars == <<clock, agreed, clientStatus, grant, current, call, held, saves>>
formVars == <<today, contractStatus, startDate, endDate, published,
              status, validFrom, profile, config, replaces, snapshot, publications>>
allVars == <<part, vars, inviteVars, agencyVars, lotVars, m2mVars, evaluationVars, accessVars,
             formVars>>

(* Where a part begins in several states, the others wait without one. *)
NoEvaluations ==
  /\ evaluation = None /\ dates = None /\ threshold = None /\ penalty = None
  /\ conditionsFrozen = None /\ changes = None

NoAccess ==
  /\ clock = None /\ agreed = None /\ clientStatus = None /\ grant = None
  /\ current = None /\ call = None /\ held = None /\ saves = None

NoForms ==
  /\ today = None /\ contractStatus = None /\ startDate = None /\ endDate = None
  /\ published = None /\ status = None /\ validFrom = None /\ profile = None
  /\ config = None /\ replaces = None /\ snapshot = None /\ publications = None

AllInit ==
  /\ Init /\ Invites!Init /\ Agency!Init /\ Lot!Init /\ M2M!Init
  /\ \/ /\ part \in {"invitations", "agency", "lot", "m2m", "onboarding"}
        /\ NoEvaluations /\ NoAccess /\ NoForms
     \/ part = "evaluations" /\ Evaluations!Init /\ NoAccess /\ NoForms
     \/ part = "access" /\ Access!Init /\ NoEvaluations /\ NoForms
     \/ part = "forms" /\ Forms!Init /\ NoEvaluations /\ NoAccess

AllNext ==
  /\ UNCHANGED part
  /\ \/ /\ part = "onboarding" /\ Next
        /\ UNCHANGED <<inviteVars, agencyVars, lotVars, m2mVars, evaluationVars, accessVars, formVars>>
     \/ /\ part = "invitations" /\ Invites!Next
        /\ UNCHANGED <<vars, agencyVars, lotVars, m2mVars, evaluationVars, accessVars, formVars>>
     \/ /\ part = "agency" /\ Agency!Next
        /\ UNCHANGED <<vars, inviteVars, lotVars, m2mVars, evaluationVars, accessVars, formVars>>
     \/ /\ part = "lot" /\ Lot!Next
        /\ UNCHANGED <<vars, inviteVars, agencyVars, m2mVars, evaluationVars, accessVars, formVars>>
     \/ /\ part = "m2m" /\ M2M!Next
        /\ UNCHANGED <<vars, inviteVars, agencyVars, lotVars, evaluationVars, accessVars, formVars>>
     \/ /\ part = "evaluations" /\ Evaluations!Next
        /\ UNCHANGED <<vars, inviteVars, agencyVars, lotVars, m2mVars, accessVars, formVars>>
     \/ /\ part = "access" /\ Access!Next
        /\ UNCHANGED <<vars, inviteVars, agencyVars, lotVars, m2mVars, evaluationVars, formVars>>
     \/ /\ part = "forms" /\ (Forms!Next \/ Forms!NextForm)
        /\ UNCHANGED <<vars, inviteVars, agencyVars, lotVars, m2mVars, evaluationVars, accessVars>>

AllSpec == AllInit /\ [][AllNext]_allVars

(* The components share their model values, to be permuted together. *)
Interchangeable == Permutations(Users) \cup Permutations(Revisions)

-----------------------------------------------------------------------------
(* The variables of every component have their types. *)
TypesOK ==
  /\ part = "invitations" => Invites!TypeOK
  /\ part = "agency" => Agency!TypeOK
  /\ part = "lot" => Lot!TypeOK
  /\ part = "m2m" => M2M!TypeOK
  /\ part = "onboarding" => TypeOK
  /\ part = "evaluations" => Evaluations!TypeOK
  /\ part = "access" => Access!TypeOK
  /\ part = "forms" => Forms!TypeOK

(* Invitations: the role of a user is the highest he accepted.              *)
RoleIsHighestAccepted == part = "invitations" => Invites!RoleIsHighestAccepted

(* ContractAccess: an active row is backed by its group, and the rules of   *)
(* pages, API and services agree, at the next login at the latest.          *)
AccessFollowsKeycloak == part = "agency" => Agency!AccessFollowsKeycloak

(* AgencyMemberships: a change of role never costs the access. *)
ChangeKeepsAccess == part = "agency" => Agency!ChangeKeepsAccess

(* LotContracts: a day of the lot has one contract. *)
OneContractPerDay == part = "lot" => Lot!OneContractPerDay

(* M2MPrincipals: a principal the service has revoked can get no token. *)
RevokedIsDisabled == part = "m2m" => M2M!RevokedIsDisabled

(* M2MPrincipals: the secret shown to a company is the one Keycloak takes. *)
SecretIsUsable == part = "m2m" => M2M!SecretIsUsable

(* M2MPrincipals: an enabled client belongs to one principal or request, or *)
(* was left by a fault.                                                     *)
ClientsHaveOneOwner == part = "m2m" => M2M!ClientsHaveOneOwner

(* IndicatorEvaluations: the conditions frozen can be evaluated, and served. *)
FrozenEvaluationsHold == part = "evaluations" => Evaluations!FrozenEvaluationsHold

(* IngestAccess: what a client is told, it was allowed to be told; and the  *)
(* list of its contracts agrees with the decision on each.                  *)
AccessIsDecided ==
  part = "access" => Access!AnsweredWasAllowed /\ Access!ListIsDecision

(* ContractRevisions, with the forms: a day has one revision at most.       *)
OneRevisionPerDay == part = "forms" => Forms!OneRevisionPerDay

(* Invitations: a decision on an invitation is taken once. *)
DecisionsStand == Invites!DecisionsStand

(* AdministrationForms: only moving the contract rewrites its past. *)
PastRewrittenOnlyByDates == [][part = "forms" => Forms!PastIsKept]_allVars

=============================================================================
