------------------------ MODULE AdministrationForms ------------------------
(***************************************************************************)
(* The contract and its revisions with the forms of the administration     *)
(* site beside the services.  The forms write whole rows: the contract     *)
(* form moves the dates whatever has been decided, the revision form adds  *)
(* and edits drafts without the checks of create_revision_draft.           *)
(***************************************************************************)
EXTENDS ContractRevisions

\* A new draft: any date or none, replacing any revision of the contract.
AddRevisionForm(r, p, day, source) ==
  /\ source \in Existing \cup {None}
  /\ \E c \in ConfigsOf[p] : InsertDraft(r, p, day, c, source)

\* Every field of a draft.  When the profile changes, the composition stays
\* the one of the former profile.
Mut_EditsApprovedDate(r, p, day, source) ==
  /\ status[r] = "draft" \/ (status[r] = "approved" /\ day \in Days)
  /\ p \in published
  /\ source \in (Existing \ {r}) \cup {None}
  /\ \E c \in {config[r]} \cup IF p = profile[r] THEN ConfigsOf[p] ELSE {} :
       config' = [config EXCEPT ![r] = c]
  /\ validFrom' = [validFrom EXCEPT ![r] = day]
  /\ profile' = [profile EXCEPT ![r] = p]
  /\ replaces' = [replaces EXCEPT ![r] = source]
  /\ UNCHANGED <<today, contractVars, published, status, snapshot, publications>>

ChangeRevisionForm(r, p, day, source) ==
  /\ status[r] = "draft"
  /\ p \in published
  /\ source \in (Existing \ {r}) \cup {None}
  /\ \E c \in {config[r]} \cup IF p = profile[r] THEN ConfigsOf[p] ELSE {} :
       config' = [config EXCEPT ![r] = c]
  /\ validFrom' = [validFrom EXCEPT ![r] = day]
  /\ profile' = [profile EXCEPT ![r] = p]
  /\ replaces' = [replaces EXCEPT ![r] = source]
  /\ UNCHANGED <<today, contractVars, published, status, snapshot, publications>>

NextForm ==
  \/ \E st \in ContractStatuses, s, e \in Days : SaveContractForm(st, s, e)
  \/ \E r \in Revisions, p \in Profiles, day \in Days \cup {NoDate},
        source \in Revisions \cup {None} :
       \/ AddRevisionForm(r, p, day, source)
       \/ ChangeRevisionForm(r, p, day, source)

AdminSpec == Init /\ [][Next \/ NextForm]_vars

-----------------------------------------------------------------------------
(* Properties.                                                             *)

\* Only moving the contract rewrites its past: no form of a draft, and no
\* order of forms and services, changes what governed a day already gone
\* (ContractConfigurationRevision.clean, approve_contract_revision).
PastIsKept ==
  UNCHANGED <<startDate, endDate>> =>
    \A day \in Days : day < today => EffectiveOn(day)' = EffectiveOn(day)

PastRewrittenOnlyByDates == [][PastIsKept]_vars

=============================================================================
