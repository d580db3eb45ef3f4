------------------------- MODULE ContractRevisions -------------------------
(***************************************************************************)
(* The lifecycle of the configuration revisions of ONE contract.           *)
(*                                                                         *)
(* A contract has a legal period startDate..endDate and a set of           *)
(* configuration revisions.  A revision is prepared as a draft, approved   *)
(* from a date validFrom (its content is then frozen in a snapshot) or     *)
(* withdrawn before that date.  Which revision governs a day is never      *)
(* stored: it is the approved revision with the latest validFrom not after *)
(* the day.  Publishing copies the snapshot governing today.               *)
(*                                                                         *)
(* Every service below runs in one database transaction that first locks   *)
(* the contract row (or, for the edits of a draft, the revision row), so   *)
(* each is one action here.  RevisionTransactions splits them into the     *)
(* statements they are made of.                                            *)
(***************************************************************************)
EXTENDS Naturals, Sequences, FiniteSets

CONSTANTS
  Days,               \* calendar dates, as day numbers
  Revisions,          \* primary keys of revision rows
  Profiles,           \* processing profile versions
  Configs,            \* compositions: selected inputs, indicators, their values
  ConfigsOf,          \* the compositions a profile allows
  ProposedConfig,     \* the composition a profile proposes by default
  ApprovableConfigs,  \* those validate_revision_for_approval accepts
  MaxPublications,    \* bound on the length of publications
  NoDate, None        \* null values

ASSUME DaysAssumption == Days \subseteq Nat /\ NoDate \notin Days

ASSUME RevisionsAssumption == None \notin Revisions

ASSUME ProfilesAssumption ==
  /\ ConfigsOf \in [Profiles -> SUBSET Configs]
  /\ ProposedConfig \in [Profiles -> Configs]
  /\ \A p \in Profiles : ProposedConfig[p] \in ConfigsOf[p]
  /\ ApprovableConfigs \subseteq Configs
  /\ MaxPublications \in Nat

VARIABLES
  today,           \* timezone.localdate()
  contractStatus,  \* Contract.status
  startDate,       \* Contract.start_date
  endDate,         \* Contract.end_date (save() never leaves it null)
  published,       \* the profiles whose status is PUBLISHED
  status,          \* ContractConfigurationRevision.status, "absent" if no row
  validFrom,       \* its valid_from
  profile,         \* its processing_profile_version
  config,          \* its input selections and indicator configurations
  replaces,        \* its replaces_revision
  snapshot,        \* its configuration_snapshot and snapshot_checksum
  publications     \* the ContractPublication rows, by publication_version

contractVars == <<contractStatus, startDate, endDate>>
draftVars    == <<validFrom, profile, config, replaces>>
revisionVars == <<status, draftVars, snapshot>>
vars == <<today, contractVars, published, revisionVars, publications>>

ContractStatuses == {"draft", "active", "closed"}
RevisionStatuses == {"absent", "draft", "approved", "withdrawn"}

\* What build_revision_snapshot freezes.  None is the empty JSON object.
Snapshots == [validFrom : Days, profile : Profiles, config : Configs]
Mut_SnapshotOfReplaced(r) ==
  [validFrom |-> validFrom[r], profile |-> replaces[r], config |-> config[r]]

BuildSnapshot(r) ==
  [validFrom |-> validFrom[r], profile |-> profile[r], config |-> config[r]]

ASSUME NoneAssumption == None \notin Snapshots

Publications == [revision : Revisions, snapshot : Snapshots \cup {None}]

TypeOK ==
  /\ today \in Days
  /\ contractStatus \in ContractStatuses
  /\ startDate \in Days
  /\ endDate \in Days
  /\ published \subseteq Profiles
  /\ status \in [Revisions -> RevisionStatuses]
  /\ validFrom \in [Revisions -> Days \cup {NoDate}]
  /\ profile \in [Revisions -> Profiles \cup {None}]
  /\ config \in [Revisions -> Configs \cup {None}]
  /\ replaces \in [Revisions -> Revisions \cup {None}]
  /\ snapshot \in [Revisions -> Snapshots \cup {None}]
  /\ publications \in Seq(Publications)

-----------------------------------------------------------------------------
(* What the rows mean: the timeline derived from the approved revisions.   *)

WithStatus(s) == {r \in Revisions : status[r] = s}
Existing == {r \in Revisions : status[r] # "absent"}
Approved == WithStatus("approved")

InForce(day) == startDate <= day /\ day <= endDate

\* ORDER BY -valid_from LIMIT 1 over the approved rows that start by the day.
LatestBy(day) ==
  {r \in Approved :
     /\ validFrom[r] <= day
     /\ \A q \in Approved : validFrom[q] <= day => validFrom[q] <= validFrom[r]}

\* The revision that governs a day of the contract.
EffectiveOn(day) == IF InForce(day) THEN LatestBy(day) ELSE {}

\* The approved revision whose date closes the period of r, if there is one.
NextRevision(r) ==
  {q \in Approved :
     /\ validFrom[q] > validFrom[r]
     /\ \A p \in Approved : validFrom[p] > validFrom[r] => validFrom[q] <= validFrom[p]}

\* revision_effective_period: up to the eve of the next revision, or endDate.
Mut_EndsOnNextDate(r, day) ==
  IF NextRevision(r) = {} THEN endDate < day
                          ELSE \E q \in NextRevision(r) : validFrom[q] < day

EndsBefore(r, day) ==
  IF NextRevision(r) = {} THEN endDate < day
                          ELSE \E q \in NextRevision(r) : validFrom[q] <= day

TemporalState(r) ==
  IF validFrom[r] > today THEN "scheduled"
  ELSE IF EndsBefore(r, today) THEN "expired" ELSE "active"

\* resolve_current_contract_revision: what the data plane is told to run.
CurrentRevision == IF contractStatus = "active" THEN EffectiveOn(today) ELSE {}

-----------------------------------------------------------------------------
Init ==
  /\ today \in Days
  /\ contractStatus \in {"draft", "active"}
  /\ startDate \in Days
  /\ endDate \in {d \in Days : d >= startDate}
  /\ published = Profiles
  /\ status = [r \in Revisions |-> "absent"]
  /\ validFrom = [r \in Revisions |-> NoDate]
  /\ profile = [r \in Revisions |-> None]
  /\ config = [r \in Revisions |-> None]
  /\ replaces = [r \in Revisions |-> None]
  /\ snapshot = [r \in Revisions |-> None]
  /\ publications = <<>>

\* Midnight.
NextDay ==
  /\ today + 1 \in Days
  /\ today' = today + 1
  /\ UNCHANGED <<contractVars, published, revisionVars, publications>>

\* A published profile is deprecated or withdrawn from the catalogue.
RetireProfile(p) ==
  /\ p \in published
  /\ published' = published \ {p}
  /\ UNCHANGED <<today, contractVars, revisionVars, publications>>

InsertDraft(r, p, day, c, source) ==
  /\ status[r] = "absent"
  /\ p \in published
  /\ status' = [status EXCEPT ![r] = "draft"]
  /\ validFrom' = [validFrom EXCEPT ![r] = day]
  /\ profile' = [profile EXCEPT ![r] = p]
  /\ config' = [config EXCEPT ![r] = c]
  /\ replaces' = [replaces EXCEPT ![r] = source]
  /\ UNCHANGED <<today, contractVars, published, snapshot, publications>>

CreateRevisionDraft(r, p, day) == InsertDraft(r, p, day, ProposedConfig[p], None)

\* The draft starts today; the values of the replaced revision are carried
\* over to the indicators the new profile also has.
CreateReplacementRevision(r, current, p) ==
  /\ status[current] = "approved"
  /\ \E c \in ConfigsOf[p] : InsertDraft(r, p, today, c, current)

\* replace_draft_configuration and save_revision_indicator_values.
ReplaceDraftConfiguration(r, c) ==
  /\ status[r] = "draft"
  /\ c \in ConfigsOf[profile[r]]
  /\ config' = [config EXCEPT ![r] = c]
  /\ UNCHANGED <<today, contractVars, published, status, validFrom, profile,
                 replaces, snapshot, publications>>

DeleteRevisionDraft(r) ==
  /\ status[r] = "draft"
  /\ \A q \in Existing : replaces[q] # r
  /\ status' = [status EXCEPT ![r] = "absent"]
  /\ validFrom' = [validFrom EXCEPT ![r] = NoDate]
  /\ profile' = [profile EXCEPT ![r] = None]
  /\ config' = [config EXCEPT ![r] = None]
  /\ replaces' = [replaces EXCEPT ![r] = None]
  /\ UNCHANGED <<today, contractVars, published, snapshot, publications>>

\* The dates a draft must have to be approved.
Mut_SameDateApproved(r) ==
  /\ validFrom[r] # NoDate
  /\ InForce(validFrom[r])
  /\ validFrom[r] >= today
  /\ Approved = {} => validFrom[r] = startDate
  /\ \A q \in Approved : validFrom[r] >= validFrom[q]

Mut_RetroactiveApproved(r) ==
  /\ validFrom[r] # NoDate
  /\ InForce(validFrom[r])
  /\ Approved = {} => validFrom[r] = startDate
  /\ \A q \in Approved : validFrom[r] > validFrom[q]

ApprovableFrom(r) ==
  /\ validFrom[r] # NoDate
  /\ InForce(validFrom[r])
  /\ validFrom[r] >= today
  /\ Approved = {} => validFrom[r] = startDate
  /\ \A q \in Approved : validFrom[r] > validFrom[q]

ApproveContractRevision(r) ==
  /\ status[r] = "draft"
  /\ ApprovableFrom(r)
  /\ profile[r] \in published
  /\ config[r] \in ConfigsOf[profile[r]] \cap ApprovableConfigs
  /\ status' = [status EXCEPT ![r] = "approved"]
  /\ snapshot' = [snapshot EXCEPT ![r] = BuildSnapshot(r)]
  /\ UNCHANGED <<today, contractVars, published, draftVars, publications>>

\* Drafts and approved revisions alike, as long as they are in the future.
Mut_WithdrawToday(r) ==
  /\ status[r] \in {"draft", "approved"}
  /\ validFrom[r] # NoDate
  /\ validFrom[r] >= today
  /\ status' = [status EXCEPT ![r] = "withdrawn"]
  /\ UNCHANGED <<today, contractVars, published, draftVars, snapshot, publications>>

WithdrawContractRevision(r) ==
  /\ status[r] \in {"draft", "approved"}
  /\ validFrom[r] # NoDate
  /\ validFrom[r] > today
  /\ status' = [status EXCEPT ![r] = "withdrawn"]
  /\ UNCHANGED <<today, contractVars, published, draftVars, snapshot, publications>>

Mut_DatesAfterDecision(s, e) ==
  /\ contractStatus = "draft"
  /\ publications = <<>>
  /\ s <= e
  /\ \A r \in WithStatus("draft") :
       validFrom[r] # NoDate => s <= validFrom[r] /\ validFrom[r] <= e
  /\ startDate' = s
  /\ endDate' = e
  /\ UNCHANGED <<today, contractStatus, published, revisionVars, publications>>

UpdateDraftContractDates(s, e) ==
  /\ contractStatus = "draft"
  /\ Existing = WithStatus("draft")
  /\ publications = <<>>
  /\ s <= e
  /\ \A r \in Existing : validFrom[r] # NoDate => s <= validFrom[r] /\ validFrom[r] <= e
  /\ startDate' = s
  /\ endDate' = e
  /\ UNCHANGED <<today, contractStatus, published, revisionVars, publications>>

PublishContract ==
  /\ Len(publications) < MaxPublications
  /\ contractStatus # "closed"
  /\ \E r \in EffectiveOn(today) :
       publications' = Append(publications, [revision |-> r, snapshot |-> snapshot[r]])
  /\ contractStatus' = "active"
  /\ UNCHANGED <<today, startDate, endDate, published, revisionVars>>

\* Contract.save() from the administration form.
SaveContractForm(st, s, e) ==
  /\ contractStatus = "closed" => st = "closed" /\ s = startDate /\ e = endDate
  /\ s <= e
  /\ contractStatus' = st
  /\ startDate' = s
  /\ endDate' = e
  /\ UNCHANGED <<today, published, revisionVars, publications>>

Next ==
  \/ NextDay
  \/ \E p \in Profiles : RetireProfile(p)
  \/ \E r \in Revisions, p \in Profiles, day \in Days : CreateRevisionDraft(r, p, day)
  \/ \E r, current \in Revisions, p \in Profiles : CreateReplacementRevision(r, current, p)
  \/ \E r \in Revisions, c \in Configs : ReplaceDraftConfiguration(r, c)
  \/ \E r \in Revisions : DeleteRevisionDraft(r)
  \/ \E r \in Revisions : ApproveContractRevision(r)
  \/ \E r \in Revisions : WithdrawContractRevision(r)
  \/ \E s, e \in Days : UpdateDraftContractDates(s, e)
  \/ PublishContract
  \/ \E st \in ContractStatuses : SaveContractForm(st, startDate, endDate)

Spec == Init /\ [][Next]_vars

-----------------------------------------------------------------------------
(* Properties.                                                             *)

\* No day is governed by two configurations, in whatever order revisions are
\* prepared, approved and withdrawn (approve_contract_revision).
OneRevisionPerDay ==
  \A day \in Days : \A r, q \in EffectiveOn(day) : r = q

\* The periods shown to the operators, each derived from the date of the next
\* revision (revision_effective_period), and the revision served to the data
\* plane, the latest one started (resolve_current_contract_revision), are the
\* same timeline: every day of the contract is in the period of exactly the
\* revision that is resolved for it.
PeriodsAgreeWithResolution ==
  \A day \in Days :
    InForce(day) =>
      {r \in Approved : validFrom[r] <= day /\ ~EndsBefore(r, day)} = EffectiveOn(day)

\* What governed a past day is never rewritten: approvals are not retroactive,
\* only future revisions are withdrawn and the contract dates are fixed once a
\* revision is decided (approve_contract_revision, withdraw_contract_revision,
\* update_draft_contract_dates).
PastTimelineStable ==
  [][\A day \in Days : day < today => EffectiveOn(day)' = EffectiveOn(day)]_vars

Covered == InForce(today)
Configured == EffectiveOn(today) # {}

\* A contract that has a configuration today has one every following day of
\* its period (withdraw_contract_revision refuses revisions already started).
NoHoleOnceStarted ==
  [][Configured /\ Covered' => Configured']_vars

\* An approved revision is what was approved: no edit of the draft reaches its
\* composition after the snapshot was taken (replace_draft_configuration,
\* save_revision_indicator_values).
ApprovedAsFrozen == \A r \in Approved : snapshot[r] = BuildSnapshot(r)

\* Every publication is the verbatim copy of a revision that is still
\* approved: what was published is never withdrawn nor changed afterwards
\* (publish_contract).
PublicationsStand ==
  \A i \in 1..Len(publications) :
    LET p == publications[i] IN
    /\ status[p.revision] = "approved"
    /\ validFrom[p.revision] <= today
    /\ p.snapshot = snapshot[p.revision]
    /\ p.snapshot # None

\* What the steps of the lifecycle preserve together: approved revisions start
\* on distinct days inside the contract, which stops moving once one is
\* decided; they stay as they were approved, and so do those published.
LifecycleInvariant ==
  /\ TypeOK
  /\ \A r \in Approved : /\ validFrom[r] \in Days /\ InForce(validFrom[r])
                         /\ snapshot[r] # None
  /\ \A r, q \in Approved : validFrom[r] = validFrom[q] => r = q
  /\ ApprovedAsFrozen
  /\ PublicationsStand

\* The first configuration of a contract starts with the contract: "The first
\* revision must start on the contract start date." (approve_contract_revision)
FirstRevisionStartsContract ==
  Approved # {} => \E r \in Approved : validFrom[r] = startDate

=============================================================================
