---------------------- MODULE ContractRevisions_proofs ----------------------
(* Theorems about ContractRevisions, for every calendar, every set of      *)
(* revisions and every catalogue of profiles.                              *)
EXTENDS TimelineRefinement, AdministrationForms, WellFoundedInduction, TLAPS

(***************************************************************************)
(* Type correctness: every row the services write has the columns the      *)
(* model declares, a snapshot in particular is never taken of a revision   *)
(* without a date, a profile or a composition.                             *)
(***************************************************************************)
LEMMA InsertDraftType ==
  ASSUME TypeOK,
         NEW r \in Revisions, NEW p \in Profiles, NEW day \in Days \cup {NoDate},
         NEW c \in Configs, NEW source \in Revisions \cup {None},
         InsertDraft(r, p, day, c, source)
  PROVE  TypeOK'
  BY DEF TypeOK, InsertDraft, contractVars, RevisionStatuses

LEMMA TypeStep ==
  ASSUME TypeOK, [Next \/ NextForm]_vars
  PROVE  TypeOK'
<1>1. CASE NextDay
  BY <1>1 DEF TypeOK, NextDay, contractVars, revisionVars, draftVars
<1>2. ASSUME NEW p \in Profiles, RetireProfile(p)
      PROVE  TypeOK'
  BY <1>2 DEF TypeOK, RetireProfile, contractVars, revisionVars, draftVars
<1>3. ASSUME NEW r \in Revisions, NEW p \in Profiles, NEW day \in Days,
             CreateRevisionDraft(r, p, day)
      PROVE  TypeOK'
  BY <1>3, InsertDraftType, ProfilesAssumption DEF CreateRevisionDraft
<1>4. ASSUME NEW r \in Revisions, NEW current \in Revisions, NEW p \in Profiles,
             CreateReplacementRevision(r, current, p)
      PROVE  TypeOK'
  <2>1. PICK c \in ConfigsOf[p] : InsertDraft(r, p, today, c, current)
    BY <1>4 DEF CreateReplacementRevision
  <2>2. c \in Configs /\ today \in Days
    BY ProfilesAssumption DEF TypeOK
  <2>3. QED
    BY <2>1, <2>2, InsertDraftType
<1>5. ASSUME NEW r \in Revisions, NEW c \in Configs, ReplaceDraftConfiguration(r, c)
      PROVE  TypeOK'
  BY <1>5 DEF TypeOK, ReplaceDraftConfiguration, contractVars
<1>6. ASSUME NEW r \in Revisions, DeleteRevisionDraft(r)
      PROVE  TypeOK'
  BY <1>6 DEF TypeOK, DeleteRevisionDraft, contractVars, RevisionStatuses
<1>7. ASSUME NEW r \in Revisions, ApproveContractRevision(r)
      PROVE  TypeOK'
  <2>1. BuildSnapshot(r) \in Snapshots
    BY <1>7, ProfilesAssumption
       DEF TypeOK, ApproveContractRevision, ApprovableFrom, BuildSnapshot, Snapshots
  <2>2. QED
    BY <1>7, <2>1 DEF TypeOK, ApproveContractRevision, contractVars, draftVars,
                      RevisionStatuses
<1>8. ASSUME NEW r \in Revisions, WithdrawContractRevision(r)
      PROVE  TypeOK'
  BY <1>8 DEF TypeOK, WithdrawContractRevision, contractVars, draftVars,
              RevisionStatuses
<1>9. ASSUME NEW s \in Days, NEW e \in Days, UpdateDraftContractDates(s, e)
      PROVE  TypeOK'
  BY <1>9 DEF TypeOK, UpdateDraftContractDates, revisionVars, draftVars
<1>10. CASE PublishContract
  <2>1. PICK r \in EffectiveOn(today) :
          publications' = Append(publications, [revision |-> r, snapshot |-> snapshot[r]])
    BY <1>10 DEF PublishContract
  <2>2. r \in Revisions
    BY DEF EffectiveOn, LatestBy, Approved, WithStatus
  <2>3. [revision |-> r, snapshot |-> snapshot[r]] \in Publications
    BY <2>2 DEF TypeOK, Publications
  <2>4. publications' \in Seq(Publications)
    BY <2>1, <2>3 DEF TypeOK
  <2>5. QED
    BY <1>10, <2>4 DEF TypeOK, PublishContract, revisionVars, draftVars,
                       ContractStatuses
<1>11. ASSUME NEW st \in ContractStatuses, NEW s \in Days, NEW e \in Days,
               SaveContractForm(st, s, e)
       PROVE  TypeOK'
  BY <1>11 DEF TypeOK, SaveContractForm, revisionVars, draftVars
<1>12. CASE UNCHANGED vars
  BY <1>12 DEF TypeOK, vars, contractVars, revisionVars, draftVars
<1>13. ASSUME NEW r \in Revisions, NEW p \in Profiles, NEW day \in Days \cup {NoDate},
               NEW source \in Revisions \cup {None}, AddRevisionForm(r, p, day, source)
       PROVE  TypeOK'
  BY <1>13, InsertDraftType, ProfilesAssumption DEF AddRevisionForm
<1>14. ASSUME NEW r \in Revisions, NEW p \in Profiles, NEW day \in Days \cup {NoDate},
               NEW source \in Revisions \cup {None}, ChangeRevisionForm(r, p, day, source)
       PROVE  TypeOK'
  <2>1. PICK c \in {config[r]} \cup IF p = profile[r] THEN ConfigsOf[p] ELSE {} :
          config' = [config EXCEPT ![r] = c]
    BY <1>14 DEF ChangeRevisionForm
  <2>2. c \in Configs \cup {None}
    BY ProfilesAssumption DEF TypeOK
  <2>3. QED
    BY <1>14, <2>1, <2>2 DEF TypeOK, ChangeRevisionForm, contractVars
<1>15. QED
  BY <1>1, <1>2, <1>3, <1>4, <1>5, <1>6, <1>7, <1>8, <1>9, <1>10, <1>11, <1>12, <1>13,
     <1>14
     DEF Next, NextForm, TypeOK

THEOREM TypeCorrect == Spec => []TypeOK
<1>1. Init => TypeOK
  BY ProfilesAssumption DEF Init, TypeOK, ContractStatuses, RevisionStatuses
<1>2. TypeOK /\ [Next]_vars => TypeOK'
  BY TypeStep
<1>3. QED
  BY <1>1, <1>2, PTL DEF Spec

-----------------------------------------------------------------------------
(***************************************************************************)
(* What holds of the rows whoever writes them, services or forms of the    *)
(* administration site: LifecycleInvariant without the dates of the        *)
(* contract, that a form may move.  A step matters to it only if it        *)
(* changes an approved revision or the publications; the lemma collects    *)
(* the steps that leave these alone.                                       *)
(***************************************************************************)
RowsInvariant ==
  /\ TypeOK
  /\ \A r \in Approved : validFrom[r] \in Days /\ snapshot[r] # None
  /\ \A r, q \in Approved : validFrom[r] = validFrom[q] => r = q
  /\ ApprovedAsFrozen
  /\ PublicationsStand

LEMMA UntouchedApproved ==
  ASSUME RowsInvariant, TypeOK',
         UNCHANGED publications,
         today' >= today,
         Approved' = Approved,
         \A r \in Approved : /\ status'[r] = status[r]
                             /\ validFrom'[r] = validFrom[r]
                             /\ profile'[r] = profile[r]
                             /\ config'[r] = config[r]
                             /\ snapshot'[r] = snapshot[r]
  PROVE  RowsInvariant'
<1>1. \A r \in Approved' : /\ validFrom'[r] \in Days
                            /\ snapshot'[r] # None
  BY DEF RowsInvariant
<1>2. \A r, q \in Approved' : validFrom'[r] = validFrom'[q] => r = q
  BY DEF RowsInvariant
<1>3. ApprovedAsFrozen'
  BY DEF RowsInvariant, ApprovedAsFrozen, BuildSnapshot
<1>4. PublicationsStand'
  <2> SUFFICES ASSUME NEW i \in 1..Len(publications')
               PROVE  LET p == publications'[i] IN
                        /\ status'[p.revision] = "approved"
                        /\ validFrom'[p.revision] <= today'
                        /\ p.snapshot = snapshot'[p.revision]
                        /\ p.snapshot # None
    BY DEF PublicationsStand
  <2> DEFINE r == publications[i].revision
  <2>1. publications[i] \in Publications
    BY DEF RowsInvariant, TypeOK
  <2>2. /\ r \in Revisions
        /\ status[r] = "approved"
        /\ validFrom[r] <= today
        /\ publications[i].snapshot = snapshot[r]
        /\ publications[i].snapshot # None
    BY <2>1 DEF RowsInvariant, PublicationsStand, Publications
  <2>3. r \in Approved
    BY <2>2 DEF Approved, WithStatus
  <2>4. validFrom[r] \in Nat /\ today \in Nat /\ today' \in Nat
    BY <2>3, DaysAssumption DEF RowsInvariant, TypeOK
  <2>5. QED
    BY <2>2, <2>3, <2>4
<1>5. QED
  BY <1>1, <1>2, <1>3, <1>4 DEF RowsInvariant

LEMMA RowsInvariantStep ==
  ASSUME RowsInvariant, TypeOK', [Next \/ NextForm]_vars
  PROVE  RowsInvariant'
<1> USE DEF Approved, WithStatus
<1>0. /\ TypeOK
      /\ today \in Nat
  BY DaysAssumption DEF RowsInvariant, TypeOK
<1>1. CASE NextDay
  <2>1. today' >= today
    BY <1>0, <1>1 DEF NextDay
  <2>2. QED
    BY <1>1, <2>1, UntouchedApproved DEF NextDay, contractVars, revisionVars, draftVars
<1>2. ASSUME NEW p \in Profiles, RetireProfile(p)
      PROVE  RowsInvariant'
  BY <1>0, <1>2, UntouchedApproved DEF RetireProfile, contractVars, revisionVars, draftVars
<1>3. ASSUME NEW r \in Revisions, NEW p, NEW day, NEW c, NEW source,
             InsertDraft(r, p, day, c, source)
      PROVE  RowsInvariant'
  <2>1. Approved' = Approved /\ r \notin Approved
    BY <1>0, <1>3 DEF InsertDraft, TypeOK
  <2>2. \A q \in Approved : /\ status'[q] = status[q]
                            /\ validFrom'[q] = validFrom[q]
                            /\ profile'[q] = profile[q]
                            /\ config'[q] = config[q]
    BY <1>0, <1>3, <2>1 DEF InsertDraft, TypeOK
  <2>3. QED
    BY <1>0, <1>3, <2>1, <2>2, UntouchedApproved DEF InsertDraft
<1>4. ASSUME NEW r \in Revisions, NEW c \in Configs, ReplaceDraftConfiguration(r, c)
      PROVE  RowsInvariant'
  <2>1. \A q \in Approved : config'[q] = config[q]
    BY <1>0, <1>4 DEF ReplaceDraftConfiguration, TypeOK
  <2>2. QED
    BY <1>0, <1>4, <2>1, UntouchedApproved DEF ReplaceDraftConfiguration
<1>5. ASSUME NEW r \in Revisions, DeleteRevisionDraft(r)
      PROVE  RowsInvariant'
  <2>1. Approved' = Approved /\ r \notin Approved
    BY <1>0, <1>5 DEF DeleteRevisionDraft, TypeOK
  <2>2. \A q \in Approved : /\ status'[q] = status[q]
                            /\ validFrom'[q] = validFrom[q]
                            /\ profile'[q] = profile[q]
                            /\ config'[q] = config[q]
    BY <1>0, <1>5, <2>1 DEF DeleteRevisionDraft, TypeOK
  <2>3. QED
    BY <1>0, <1>5, <2>1, <2>2, UntouchedApproved DEF DeleteRevisionDraft
<1>6. ASSUME NEW r \in Revisions, ApproveContractRevision(r)
      PROVE  RowsInvariant'
  <2>1. Approved' = Approved \cup {r} /\ r \notin Approved
    BY <1>0, <1>6 DEF ApproveContractRevision, TypeOK
  <2>2. validFrom[r] \in Days
    BY <1>0, <1>6 DEF ApproveContractRevision, ApprovableFrom, TypeOK
  <2>3. \A q \in Approved : validFrom[r] > validFrom[q]
    BY <1>6 DEF ApproveContractRevision, ApprovableFrom
  <2>4. \A q \in Approved' : /\ validFrom'[q] \in Days
                             /\ snapshot'[q] # None
    <3>1. BuildSnapshot(r) \in Snapshots
      BY <1>0, <1>6, <2>2, ProfilesAssumption
         DEF TypeOK, ApproveContractRevision, BuildSnapshot, Snapshots
    <3>2. \A q \in Approved' : snapshot'[q] # None
      BY <1>0, <1>6, <2>1, <3>1, NoneAssumption
         DEF RowsInvariant, TypeOK, ApproveContractRevision
    <3>3. QED
      BY <1>6, <2>1, <2>2, <3>2
         DEF RowsInvariant, ApproveContractRevision, draftVars
  <2>5. \A x, y \in Approved' : validFrom'[x] = validFrom'[y] => x = y
    <3>1. \A q \in Approved : validFrom[q] \in Nat /\ validFrom[r] \in Nat
      BY <2>2, DaysAssumption DEF RowsInvariant
    <3>2. \A q \in Approved : validFrom[q] # validFrom[r]
      BY <2>3, <3>1
    <3>3. QED
      BY <1>6, <2>1, <3>2 DEF RowsInvariant, ApproveContractRevision, draftVars
  <2>6. ApprovedAsFrozen'
    BY <1>0, <1>6, <2>1
       DEF RowsInvariant, ApprovedAsFrozen, BuildSnapshot, ApproveContractRevision,
           draftVars, TypeOK
  <2>7. PublicationsStand'
    <3> SUFFICES ASSUME NEW i \in 1..Len(publications)
                 PROVE  LET p == publications[i] IN
                          /\ status'[p.revision] = "approved"
                          /\ validFrom[p.revision] <= today
                          /\ p.snapshot = snapshot'[p.revision]
                          /\ p.snapshot # None
      BY <1>6 DEF PublicationsStand, ApproveContractRevision, draftVars
    <3>1. publications[i] \in Publications
      BY <1>0 DEF TypeOK
    <3>2. publications[i].revision # r
      BY <1>6 DEF RowsInvariant, PublicationsStand, ApproveContractRevision
    <3>3. QED
      BY <1>0, <1>6, <3>1, <3>2
         DEF RowsInvariant, PublicationsStand, ApproveContractRevision, TypeOK,
             Publications
  <2>8. QED
    BY <2>4, <2>5, <2>6, <2>7 DEF RowsInvariant
<1>7. ASSUME NEW r \in Revisions, WithdrawContractRevision(r)
      PROVE  RowsInvariant'
  <2>1. Approved' = Approved \ {r}
    BY <1>0, <1>7 DEF WithdrawContractRevision, TypeOK
  <2>2. \A q \in Approved' : /\ validFrom'[q] \in Days
                             /\ snapshot'[q] # None
    BY <1>7, <2>1
       DEF RowsInvariant, WithdrawContractRevision, draftVars
  <2>3. \A x, y \in Approved' : validFrom'[x] = validFrom'[y] => x = y
    BY <1>7, <2>1 DEF RowsInvariant, WithdrawContractRevision, draftVars
  <2>4. ApprovedAsFrozen'
    BY <1>7, <2>1
       DEF RowsInvariant, ApprovedAsFrozen, BuildSnapshot, WithdrawContractRevision,
           draftVars
  <2>5. PublicationsStand'
    <3> SUFFICES ASSUME NEW i \in 1..Len(publications)
                 PROVE  LET p == publications[i] IN
                          /\ status'[p.revision] = "approved"
                          /\ validFrom[p.revision] <= today
                          /\ p.snapshot = snapshot[p.revision]
                          /\ p.snapshot # None
      BY <1>7 DEF PublicationsStand, WithdrawContractRevision, draftVars
    <3> DEFINE q == publications[i].revision
    <3>1. publications[i] \in Publications
      BY <1>0 DEF TypeOK
    <3>2. /\ q \in Revisions
          /\ status[q] = "approved"
          /\ validFrom[q] <= today
          /\ publications[i].snapshot = snapshot[q]
          /\ publications[i].snapshot # None
      BY <3>1 DEF RowsInvariant, PublicationsStand, Publications
    <3>3. validFrom[q] \in Nat
      BY <3>2, DaysAssumption DEF RowsInvariant
    <3>4. q # r
      BY <1>0, <1>7, <3>2, <3>3 DEF WithdrawContractRevision
    <3>5. QED
      BY <1>0, <1>7, <3>2, <3>4 DEF WithdrawContractRevision, TypeOK
  <2>6. QED
    BY <2>2, <2>3, <2>4, <2>5 DEF RowsInvariant
<1>8. ASSUME NEW s \in Days, NEW e \in Days, UpdateDraftContractDates(s, e)
      PROVE  RowsInvariant'
  <2>1. Approved = {} /\ Approved' = {} /\ publications' = <<>>
    BY <1>0, <1>8 DEF UpdateDraftContractDates, Existing, revisionVars
  <2>2. QED
    BY <2>1 DEF RowsInvariant, ApprovedAsFrozen, PublicationsStand
<1>9. CASE PublishContract
  <2>1. PICK r \in EffectiveOn(today) :
          publications' = Append(publications, [revision |-> r, snapshot |-> snapshot[r]])
    BY <1>9 DEF PublishContract
  <2>2. r \in Approved /\ validFrom[r] <= today
    BY DEF EffectiveOn, LatestBy
  <2>3. snapshot[r] # None
    BY <2>2 DEF RowsInvariant
  <2>4. PublicationsStand'
    <3> SUFFICES ASSUME NEW i \in 1..Len(publications')
                 PROVE  LET p == publications'[i] IN
                          /\ status[p.revision] = "approved"
                          /\ validFrom[p.revision] <= today
                          /\ p.snapshot = snapshot[p.revision]
                          /\ p.snapshot # None
      BY <1>9 DEF PublicationsStand, PublishContract, revisionVars, draftVars
    <3>1. publications \in Seq(Publications)
      BY <1>0 DEF TypeOK
    <3>2. CASE i = Len(publications) + 1
      BY <2>1, <2>2, <2>3, <3>1, <3>2
    <3>3. CASE i \in 1..Len(publications)
      BY <2>1, <3>1, <3>3 DEF RowsInvariant, PublicationsStand
    <3>4. QED
      BY <2>1, <3>1, <3>2, <3>3
  <2>5. QED
    BY <1>9, <2>4
       DEF RowsInvariant, PublishContract, revisionVars, draftVars,
           ApprovedAsFrozen, BuildSnapshot
<1>10. ASSUME NEW st \in ContractStatuses, NEW s, NEW e, SaveContractForm(st, s, e)
       PROVE  RowsInvariant'
  BY <1>0, <1>10
     DEF RowsInvariant, SaveContractForm, revisionVars, draftVars,
         ApprovedAsFrozen, BuildSnapshot, PublicationsStand
<1>11. CASE UNCHANGED vars
  BY <1>0, <1>11, UntouchedApproved DEF vars, contractVars, revisionVars, draftVars
<1>12. ASSUME NEW r \in Revisions, NEW p \in Profiles, NEW day \in Days \cup {NoDate},
               NEW source, ChangeRevisionForm(r, p, day, source)
       PROVE  RowsInvariant'
  <2>1. PICK c : config' = [config EXCEPT ![r] = c]
    BY <1>12 DEF ChangeRevisionForm
  <2>2. r \notin Approved
    BY <1>12 DEF ChangeRevisionForm
  <2>3. \A q \in Approved : /\ validFrom'[q] = validFrom[q]
                            /\ profile'[q] = profile[q]
                            /\ config'[q] = config[q]
    BY <1>0, <1>12, <2>1, <2>2 DEF ChangeRevisionForm, TypeOK
  <2>4. QED
    BY <1>0, <1>12, <2>3, UntouchedApproved DEF ChangeRevisionForm
<1>13. QED
  BY <1>1, <1>2, <1>3, <1>4, <1>5, <1>6, <1>7, <1>8, <1>9, <1>10, <1>11,
     <1>12
     DEF Next, NextForm, CreateRevisionDraft, CreateReplacementRevision, AddRevisionForm

(***************************************************************************)
(* Where only the services move the contract, its approved revisions start *)
(* inside it: its dates are fixed once one is decided.                     *)
(***************************************************************************)
LEMMA LifecycleInvariantStep ==
  ASSUME LifecycleInvariant, TypeOK', [Next]_vars
  PROVE  LifecycleInvariant'
<1>1. RowsInvariant'
  BY RowsInvariantStep DEF LifecycleInvariant, RowsInvariant
<1> SUFFICES ASSUME NEW q \in Approved' PROVE InForce(validFrom[q])'
  BY <1>1 DEF LifecycleInvariant, RowsInvariant
<1>0. TypeOK
  BY DEF LifecycleInvariant
<1> USE DEF Approved, WithStatus
<1>2. ASSUME UNCHANGED contractVars, q \in Approved, validFrom'[q] = validFrom[q]
      PROVE  InForce(validFrom[q])'
  BY <1>2 DEF LifecycleInvariant, InForce, contractVars
<1>3. CASE NextDay \/ (\E p \in Profiles : RetireProfile(p)) \/ UNCHANGED vars
  BY <1>2, <1>3 DEF NextDay, RetireProfile, vars, revisionVars, draftVars
<1>4. ASSUME NEW r \in Revisions, NEW p, NEW day, NEW c, NEW source,
             InsertDraft(r, p, day, c, source)
      PROVE  InForce(validFrom[q])'
  BY <1>0, <1>2, <1>4 DEF InsertDraft, TypeOK
<1>5. ASSUME NEW r \in Revisions, NEW c \in Configs, ReplaceDraftConfiguration(r, c)
      PROVE  InForce(validFrom[q])'
  BY <1>2, <1>5 DEF ReplaceDraftConfiguration
<1>6. ASSUME NEW r \in Revisions, DeleteRevisionDraft(r)
      PROVE  InForce(validFrom[q])'
  BY <1>0, <1>2, <1>6 DEF DeleteRevisionDraft, TypeOK
<1>7. ASSUME NEW r \in Revisions, ApproveContractRevision(r)
      PROVE  InForce(validFrom[q])'
  <2>1. CASE q = r
    BY <1>7, <2>1
       DEF ApproveContractRevision, ApprovableFrom, InForce, contractVars, draftVars
  <2>2. CASE q # r
    BY <1>0, <1>2, <1>7, <2>2 DEF ApproveContractRevision, draftVars, TypeOK
  <2>3. QED
    BY <2>1, <2>2
<1>8. ASSUME NEW r \in Revisions, WithdrawContractRevision(r)
      PROVE  InForce(validFrom[q])'
  BY <1>0, <1>2, <1>8 DEF WithdrawContractRevision, draftVars, TypeOK
<1>9. ASSUME NEW s \in Days, NEW e \in Days, UpdateDraftContractDates(s, e)
      PROVE  InForce(validFrom[q])'
  BY <1>9 DEF UpdateDraftContractDates, Existing, revisionVars
<1>10. CASE PublishContract
  BY <1>10 DEF LifecycleInvariant, PublishContract, InForce, revisionVars, draftVars
<1>11. ASSUME NEW st \in ContractStatuses, SaveContractForm(st, startDate, endDate)
       PROVE  InForce(validFrom[q])'
  BY <1>11 DEF LifecycleInvariant, SaveContractForm, InForce, revisionVars, draftVars
<1>12. QED
  BY <1>3, <1>4, <1>5, <1>6, <1>7, <1>8, <1>9, <1>10, <1>11
     DEF Next, CreateRevisionDraft, CreateReplacementRevision

(***************************************************************************)
(* The lifecycle invariant holds in every reachable state.                 *)
(***************************************************************************)
THEOREM Lifecycle == Spec => []LifecycleInvariant
<1>1. Init => LifecycleInvariant
  <2> SUFFICES ASSUME Init PROVE LifecycleInvariant
    OBVIOUS
  <2>1. TypeOK
    BY ProfilesAssumption DEF Init, TypeOK, ContractStatuses, RevisionStatuses
  <2>2. Approved = {} /\ publications = <<>>
    BY DEF Init, Approved, WithStatus
  <2>3. QED
    BY <2>1, <2>2 DEF LifecycleInvariant, ApprovedAsFrozen, PublicationsStand
<1>2. LifecycleInvariant /\ TypeOK' /\ [Next]_vars => LifecycleInvariant'
  BY LifecycleInvariantStep
<1>3. QED
  BY <1>1, <1>2, TypeCorrect, PTL DEF Spec

(***************************************************************************)
(* No day is governed by two revisions: two approved revisions that are    *)
(* both the latest by a day start on the same day.                         *)
(***************************************************************************)
LEMMA OnePerDay == RowsInvariant => OneRevisionPerDay
<1> SUFFICES ASSUME RowsInvariant, NEW day \in Days,
                    NEW r \in EffectiveOn(day), NEW q \in EffectiveOn(day)
             PROVE  r = q
  BY DEF OneRevisionPerDay
<1>1. r \in LatestBy(day) /\ q \in LatestBy(day)
  BY DEF EffectiveOn
<1>2. r \in Approved /\ q \in Approved
  BY <1>1 DEF LatestBy
<1>3. validFrom[r] \in Nat /\ validFrom[q] \in Nat
  BY <1>2, DaysAssumption DEF RowsInvariant
<1>4. validFrom[r] <= validFrom[q] /\ validFrom[q] <= validFrom[r]
  BY <1>1, <1>2 DEF LatestBy
<1>5. QED
  BY <1>2, <1>3, <1>4 DEF RowsInvariant

THEOREM NoDoubleConfiguration == Spec => []OneRevisionPerDay
<1>1. LifecycleInvariant => OneRevisionPerDay
  BY OnePerDay DEF LifecycleInvariant, RowsInvariant
<1>2. QED
  BY <1>1, Lifecycle, PTL

(***************************************************************************)
(* The past of a contract is never rewritten.  The revisions that govern   *)
(* the days before today depend only on the approved revisions already     *)
(* started and on the contract period; a step that leaves both alone       *)
(* leaves the past alone.                                                  *)
(***************************************************************************)
Started(day) == {r \in Approved : validFrom[r] <= day}

LEMMA SamePast ==
  ASSUME NEW day \in Days,
         UNCHANGED <<startDate, endDate>>,
         Started(day)' = Started(day),
         \A r \in Started(day) : validFrom'[r] = validFrom[r]
  PROVE  EffectiveOn(day)' = EffectiveOn(day)
<1>1. \A r : r \in LatestBy(day) <=>
            r \in Started(day) /\ \A q \in Started(day) : validFrom[q] <= validFrom[r]
  BY DEF LatestBy, Started
<1>2. \A r : r \in LatestBy(day)' <=>
            /\ r \in Started(day)'
            /\ \A q \in Started(day)' : validFrom'[q] <= validFrom'[r]
  BY DEF LatestBy, Started
<1>3. LatestBy(day)' = LatestBy(day)
  <2>1. \A r : r \in LatestBy(day)' <=> r \in LatestBy(day)
    BY <1>1, <1>2
  <2>2. QED
    BY <2>1 DEF LatestBy
<1>4. QED
  BY <1>3 DEF EffectiveOn, InForce

LEMMA PastStep ==
  ASSUME RowsInvariant, [Next \/ NextForm]_vars, UNCHANGED <<startDate, endDate>>,
         NEW day \in Days, day < today
  PROVE  EffectiveOn(day)' = EffectiveOn(day)
<1>0. TypeOK /\ today \in Nat /\ day \in Nat
  BY DaysAssumption DEF RowsInvariant, TypeOK
<1> USE DEF Started, Approved, WithStatus
<1>1. CASE NextDay \/ (\E p \in Profiles : RetireProfile(p)) \/ UNCHANGED vars
  BY <1>1, SamePast
     DEF NextDay, RetireProfile, vars, contractVars, revisionVars, draftVars
<1>2. ASSUME NEW r \in Revisions, NEW p, NEW d, NEW c, NEW source,
             InsertDraft(r, p, d, c, source)
      PROVE  EffectiveOn(day)' = EffectiveOn(day)
  BY <1>0, <1>2, SamePast DEF TypeOK, InsertDraft, contractVars
<1>3. ASSUME NEW r \in Revisions, NEW c \in Configs, ReplaceDraftConfiguration(r, c)
      PROVE  EffectiveOn(day)' = EffectiveOn(day)
  BY <1>3, SamePast DEF ReplaceDraftConfiguration, contractVars
<1>4. ASSUME NEW r \in Revisions, DeleteRevisionDraft(r)
      PROVE  EffectiveOn(day)' = EffectiveOn(day)
  BY <1>0, <1>4, SamePast DEF TypeOK, DeleteRevisionDraft, contractVars
<1>5. ASSUME NEW r \in Revisions, ApproveContractRevision(r)
      PROVE  EffectiveOn(day)' = EffectiveOn(day)
  <2>1. validFrom[r] \in Nat /\ validFrom[r] > day
    <3>1. validFrom[r] \in Days
      BY <1>0, <1>5 DEF ApproveContractRevision, ApprovableFrom, TypeOK
    <3>2. validFrom[r] >= today
      BY <1>5 DEF ApproveContractRevision, ApprovableFrom
    <3>3. validFrom[r] \in Nat
      BY <3>1, DaysAssumption
    <3>4. QED
      BY <1>0, <3>2, <3>3
  <2>2. Started(day)' = Started(day)
    BY <1>0, <1>5, <2>1 DEF ApproveContractRevision, TypeOK, draftVars
  <2>3. QED
    BY <1>5, <2>2, SamePast DEF ApproveContractRevision, contractVars, draftVars
<1>6. ASSUME NEW r \in Revisions, WithdrawContractRevision(r)
      PROVE  EffectiveOn(day)' = EffectiveOn(day)
  <2>1. validFrom[r] \in Nat /\ validFrom[r] > day
    <3>1. validFrom[r] \in Days
      BY <1>0, <1>6 DEF WithdrawContractRevision, TypeOK
    <3>2. validFrom[r] > today
      BY <1>6 DEF WithdrawContractRevision
    <3>3. validFrom[r] \in Nat
      BY <3>1, DaysAssumption
    <3>4. QED
      BY <1>0, <3>2, <3>3
  <2>2. Started(day)' = Started(day)
    BY <1>0, <1>6, <2>1 DEF WithdrawContractRevision, TypeOK, draftVars
  <2>3. QED
    BY <1>6, <2>2, SamePast DEF WithdrawContractRevision, contractVars, draftVars
<1>7. ASSUME NEW s \in Days, NEW e \in Days, UpdateDraftContractDates(s, e)
      PROVE  EffectiveOn(day)' = EffectiveOn(day)
  <2>1. Approved = {} /\ Approved' = {}
    BY <1>0, <1>7 DEF UpdateDraftContractDates, Existing, revisionVars
  <2>2. QED
    BY <2>1 DEF EffectiveOn, LatestBy
<1>8. CASE PublishContract
  BY <1>8, SamePast DEF PublishContract, revisionVars, draftVars
<1>9. ASSUME NEW st, NEW s, NEW e, SaveContractForm(st, s, e)
      PROVE  EffectiveOn(day)' = EffectiveOn(day)
  BY <1>9, SamePast DEF SaveContractForm, revisionVars, draftVars
<1>10. ASSUME NEW r \in Revisions, NEW p, NEW d, NEW source, ChangeRevisionForm(r, p, d, source)
       PROVE  EffectiveOn(day)' = EffectiveOn(day)
  BY <1>0, <1>10, SamePast DEF TypeOK, ChangeRevisionForm
<1>11. QED
  BY <1>1, <1>2, <1>3, <1>4, <1>5, <1>6, <1>7, <1>8, <1>9, <1>10
     DEF Next, NextForm, AddRevisionForm, CreateRevisionDraft, CreateReplacementRevision

LEMMA PastTimelineStep ==
  ASSUME LifecycleInvariant, [Next]_vars, NEW day \in Days, day < today
  PROVE  EffectiveOn(day)' = EffectiveOn(day)
<1>1. CASE UNCHANGED <<startDate, endDate>>
  BY <1>1, PastStep DEF LifecycleInvariant, RowsInvariant
<1>2. ASSUME NEW s \in Days, NEW e \in Days, UpdateDraftContractDates(s, e)
      PROVE  EffectiveOn(day)' = EffectiveOn(day)
  <2>1. Approved = {} /\ Approved' = {}
    BY <1>2 DEF UpdateDraftContractDates, Existing, revisionVars, Approved, WithStatus
  <2>2. QED
    BY <2>1 DEF EffectiveOn, LatestBy
<1>3. CASE \A s, e \in Days : ~UpdateDraftContractDates(s, e)
  <2>1. UNCHANGED <<startDate, endDate>>
    BY <1>3
       DEF Next, NextDay, RetireProfile, CreateRevisionDraft, CreateReplacementRevision,
           InsertDraft, ReplaceDraftConfiguration, DeleteRevisionDraft,
           ApproveContractRevision, WithdrawContractRevision, PublishContract,
           SaveContractForm, vars, contractVars
  <2>2. QED
    BY <1>1, <2>1
<1>4. QED
  BY <1>2, <1>3

THEOREM PastIsStable == Spec => PastTimelineStable
<1>1. LifecycleInvariant /\ [Next]_vars
        => [\A day \in Days : day < today => EffectiveOn(day)' = EffectiveOn(day)]_vars
  BY PastTimelineStep
<1>2. QED
  BY <1>1, Lifecycle, PTL DEF Spec, PastTimelineStable

(***************************************************************************)
(* With the forms beside the services the contract may move under its      *)
(* approved revisions, but RowsInvariant is all that the first two need.   *)
(***************************************************************************)
LEMMA RowsBegin == Init => RowsInvariant
<1> SUFFICES ASSUME Init PROVE RowsInvariant
  OBVIOUS
<1>1. TypeOK
  BY ProfilesAssumption DEF Init, TypeOK, ContractStatuses, RevisionStatuses
<1>2. Approved = {} /\ publications = <<>>
  BY DEF Init, Approved, WithStatus
<1>3. QED
  BY <1>1, <1>2 DEF RowsInvariant, ApprovedAsFrozen, PublicationsStand

LEMMA RowsStep ==
  ASSUME RowsInvariant, [Next \/ NextForm]_vars
  PROVE  RowsInvariant'
<1>1. TypeOK'
  BY TypeStep DEF RowsInvariant
<1>2. QED
  BY <1>1, RowsInvariantStep

LEMMA PastIsKeptStep ==
  ASSUME RowsInvariant, [Next \/ NextForm]_vars
  PROVE  PastIsKept
  BY PastStep DEF PastIsKept

\* Whatever the forms of the administration site do to drafts and to the dates
\* of the contract, approved revisions start on distinct days and are what was
\* frozen, and what was published stays approved (ContractConfigurationRevision.clean,
\* Contract.save).
THEOREM FormsKeepTheRows == AdminSpec => []RowsInvariant
  BY RowsBegin, RowsStep, PTL DEF AdminSpec

\* Forms or not, no day is governed by two revisions.
THEOREM NoDoubleConfigurationByForms == AdminSpec => []OneRevisionPerDay
  BY FormsKeepTheRows, OnePerDay, PTL

\* A step that leaves the dates of the contract alone leaves what governed its
\* past days alone, be it a form or a service.
THEOREM OnlyDatesRewriteThePast == AdminSpec => PastRewrittenOnlyByDates
<1>1. RowsInvariant /\ [Next \/ NextForm]_vars => [PastIsKept]_vars
  BY PastIsKeptStep
<1>2. QED
  BY <1>1, FormsKeepTheRows, PTL DEF AdminSpec, PastRewrittenOnlyByDates

(***************************************************************************)
(* The two readings of the timeline agree: the period of a revision, which *)
(* runs to the eve of the next one, holds exactly the days on which the    *)
(* revision is the latest started.  The proof needs the next revision to   *)
(* exist, a least date among the later ones.                               *)
(***************************************************************************)
LEMMA LeastNatural ==
  ASSUME NEW S, S \subseteq Nat, S # {}
  PROVE  \E m \in S : \A n \in S : m <= n
<1>1. PICK m \in S : \A n \in S : <<n, m>> \notin OpToRel(<, Nat)
  BY NatLessThanWellFounded, WFMin
<1>2. ASSUME NEW n \in S PROVE m <= n
  <2>1. ~(n < m)
    BY <1>1 DEF OpToRel
  <2>2. QED
    BY <2>1
<1>3. QED
  BY <1>2

LEMMA NextRevisionExists ==
  ASSUME LifecycleInvariant, NEW r \in Approved, NEW q \in Approved,
         validFrom[q] > validFrom[r]
  PROVE  \E n \in NextRevision(r) : validFrom[n] <= validFrom[q]
<1> DEFINE Later == {p \in Approved : validFrom[p] > validFrom[r]}
           Dates == {validFrom[p] : p \in Later}
<1>1. Dates \subseteq Nat
  BY DaysAssumption DEF LifecycleInvariant
<1>2. validFrom[q] \in Dates
  OBVIOUS
<1>3. PICK m \in Dates : \A d \in Dates : m <= d
  <2> HIDE DEF Dates
  <2> QED
    BY <1>1, <1>2, LeastNatural
<1>4. PICK n \in Later : validFrom[n] = m
  OBVIOUS
<1>5. n \in NextRevision(r)
  BY <1>3, <1>4 DEF NextRevision
<1>6. QED
  BY <1>2, <1>3, <1>4, <1>5

LEMMA PeriodsAgree == LifecycleInvariant => PeriodsAgreeWithResolution
<1> SUFFICES ASSUME LifecycleInvariant, NEW day \in Days, InForce(day),
                    NEW r \in Approved, validFrom[r] <= day
             PROVE  ~EndsBefore(r, day) <=> r \in LatestBy(day)
  BY DEF PeriodsAgreeWithResolution, EffectiveOn, LatestBy
<1>0. /\ day \in Nat /\ endDate \in Nat
      /\ \A q \in Approved : validFrom[q] \in Nat
  BY DaysAssumption DEF LifecycleInvariant, TypeOK
<1>1. ASSUME ~EndsBefore(r, day), NEW q \in Approved, validFrom[q] <= day
      PROVE  validFrom[q] <= validFrom[r]
  <2> SUFFICES ASSUME validFrom[q] > validFrom[r] PROVE FALSE
    BY <1>0
  <2>1. PICK n \in NextRevision(r) : validFrom[n] <= validFrom[q]
    BY NextRevisionExists
  <2>2. n \in Approved
    BY DEF NextRevision
  <2>3. validFrom[n] <= day
    BY <1>0, <1>1, <2>1, <2>2
  <2>4. QED
    BY <1>1, <2>1, <2>3 DEF EndsBefore
<1>2. ASSUME r \in LatestBy(day), EndsBefore(r, day)
      PROVE  FALSE
  <2>1. CASE NextRevision(r) = {}
    BY <1>0, <1>2, <2>1 DEF EndsBefore, InForce
  <2>2. CASE NextRevision(r) # {}
    <3>1. PICK q \in NextRevision(r) : validFrom[q] <= day
      BY <1>2, <2>2 DEF EndsBefore
    <3>2. q \in Approved /\ validFrom[q] > validFrom[r]
      BY DEF NextRevision
    <3>3. validFrom[q] <= validFrom[r]
      BY <1>2, <3>1, <3>2 DEF LatestBy
    <3>4. QED
      BY <1>0, <3>2, <3>3
  <2>3. QED
    BY <2>1, <2>2
<1>3. QED
  BY <1>1, <1>2 DEF LatestBy

THEOREM PeriodsPartitionTheContract == Spec => []PeriodsAgreeWithResolution
  BY Lifecycle, PeriodsAgree, PTL

(***************************************************************************)
(* A contract that is configured today stays configured: the revision in   *)
(* force today can neither be withdrawn nor lose its date, so a revision   *)
(* has started on every later day, and one of those started is the latest. *)
(***************************************************************************)
LEMMA LatestExists ==
  ASSUME LifecycleInvariant, NEW day \in Days,
         NEW r \in Approved, validFrom[r] <= day
  PROVE  LatestBy(day) # {}
<1> DEFINE Ages == {day - validFrom[q] : q \in Started(day)}
<1>0. day \in Nat /\ \A q \in Approved : validFrom[q] \in Nat
  BY DaysAssumption DEF LifecycleInvariant
<1>1. Ages \subseteq Nat
  BY <1>0 DEF Started
<1>2. Ages # {}
  BY DEF Started
<1>3. PICK m \in Ages : \A a \in Ages : m <= a
  <2> HIDE DEF Ages
  <2> QED
    BY <1>1, <1>2, LeastNatural
<1>4. PICK q \in Started(day) : day - validFrom[q] = m
  OBVIOUS
<1>5. \A p \in Approved : validFrom[p] <= day => validFrom[p] <= validFrom[q]
  <2> SUFFICES ASSUME NEW p \in Approved, validFrom[p] <= day
               PROVE  validFrom[p] <= validFrom[q]
    OBVIOUS
  <2>1. day - validFrom[p] \in Ages
    BY DEF Started
  <2>2. m <= day - validFrom[p]
    BY <1>3, <2>1
  <2>3. q \in Approved
    BY DEF Started
  <2>4. QED
    BY <1>0, <1>4, <2>2, <2>3
<1>6. QED
  BY <1>5 DEF LatestBy, Started

LEMMA StartedStays ==
  ASSUME LifecycleInvariant, [Next]_vars,
         NEW r \in Approved, validFrom[r] <= today
  PROVE  r \in Approved' /\ validFrom'[r] = validFrom[r] /\ today <= today'
<1>0. TypeOK /\ today \in Nat /\ validFrom[r] \in Nat
  BY DaysAssumption DEF LifecycleInvariant, TypeOK
<1> USE DEF Approved, WithStatus
<1>1. CASE \/ NextDay \/ PublishContract \/ UNCHANGED vars
           \/ \E p \in Profiles : RetireProfile(p)
           \/ \E q \in Revisions, c \in Configs : ReplaceDraftConfiguration(q, c)
           \/ \E st \in ContractStatuses : SaveContractForm(st, startDate, endDate)
  BY <1>0, <1>1
     DEF NextDay, PublishContract, RetireProfile, ReplaceDraftConfiguration,
         SaveContractForm, vars, revisionVars, draftVars
<1>2. ASSUME NEW q \in Revisions, NEW p, NEW d, NEW c, NEW source,
             InsertDraft(q, p, d, c, source)
      PROVE  r \in Approved' /\ validFrom'[r] = validFrom[r] /\ today <= today'
  BY <1>0, <1>2 DEF TypeOK, InsertDraft
<1>3. ASSUME NEW q \in Revisions, DeleteRevisionDraft(q)
      PROVE  r \in Approved' /\ validFrom'[r] = validFrom[r] /\ today <= today'
  BY <1>0, <1>3 DEF TypeOK, DeleteRevisionDraft
<1>4. ASSUME NEW q \in Revisions, ApproveContractRevision(q)
      PROVE  r \in Approved' /\ validFrom'[r] = validFrom[r] /\ today <= today'
  BY <1>0, <1>4 DEF TypeOK, ApproveContractRevision, draftVars
<1>5. ASSUME NEW q \in Revisions, WithdrawContractRevision(q)
      PROVE  r \in Approved' /\ validFrom'[r] = validFrom[r] /\ today <= today'
  <2>1. q # r
    BY <1>0, <1>5 DEF WithdrawContractRevision
  <2>2. QED
    BY <1>0, <1>5, <2>1 DEF TypeOK, WithdrawContractRevision, draftVars
<1>6. ASSUME NEW s \in Days, NEW e \in Days, UpdateDraftContractDates(s, e)
      PROVE  r \in Approved' /\ validFrom'[r] = validFrom[r] /\ today <= today'
  BY <1>0, <1>6 DEF UpdateDraftContractDates, Existing
<1>7. QED
  BY <1>1, <1>2, <1>3, <1>4, <1>5, <1>6
     DEF Next, CreateRevisionDraft, CreateReplacementRevision

THEOREM NoHole == Spec => NoHoleOnceStarted
<1> DEFINE SomeStarted == \E r \in Approved : validFrom[r] <= today
<1>1. LifecycleInvariant /\ SomeStarted /\ Covered => Configured
  BY LatestExists DEF Covered, Configured, EffectiveOn, LifecycleInvariant, TypeOK
<1>2. LifecycleInvariant /\ LifecycleInvariant' /\ [Next]_vars
        => (Configured => SomeStarted')
  <2> SUFFICES ASSUME LifecycleInvariant, LifecycleInvariant', [Next]_vars, Configured
               PROVE  SomeStarted'
    OBVIOUS
  <2>1. PICK r \in EffectiveOn(today) : TRUE
    BY DEF Configured
  <2>2. r \in Approved /\ validFrom[r] <= today
    BY DEF EffectiveOn, LatestBy
  <2>3. r \in Approved' /\ validFrom'[r] = validFrom[r] /\ today <= today'
    BY <2>2, StartedStays
  <2>4. today \in Nat /\ today' \in Nat /\ validFrom[r] \in Nat
    BY <2>2, DaysAssumption DEF LifecycleInvariant, TypeOK
  <2>5. QED
    BY <2>2, <2>3, <2>4
<1> HIDE DEF SomeStarted
<1>3. QED
  BY <1>1, <1>2, Lifecycle, PTL DEF Spec, NoHoleOnceStarted

(***************************************************************************)
(* What is approved stays as it was frozen, and what is published stays    *)
(* approved: both are parts of the lifecycle invariant.                    *)
(***************************************************************************)
THEOREM FrozenAndPublished == Spec => []ApprovedAsFrozen /\ []PublicationsStand
<1>1. LifecycleInvariant => ApprovedAsFrozen /\ PublicationsStand
  BY DEF LifecycleInvariant
<1>2. QED
  BY <1>1, Lifecycle, PTL

-----------------------------------------------------------------------------
(***************************************************************************)
(* That ContractRevisions implements ConfigurationTimeline: the rows start *)
(* as an empty calendar, an approval is a takeover, a withdrawal of an     *)
(* approved revision is a retraction, midnight is midnight, and every      *)
(* other service leaves the calendar as it is.                             *)
(***************************************************************************)

(***************************************************************************)
(* Reading the calendar: a day names the one revision effective on it.     *)
(***************************************************************************)
LEMMA CalendarNames ==
  ASSUME LifecycleInvariant, NEW d \in Days
  PROVE  /\ \A r \in Revisions : Calendar[d] = r <=> r \in EffectiveOn(d)
         /\ Calendar[d] = None <=> EffectiveOn(d) = {}
         /\ EffectiveOn(d) # {} => Calendar[d] \in EffectiveOn(d)
<1>1. \A r, q \in EffectiveOn(d) : r = q
  BY OnePerDay DEF OneRevisionPerDay, LifecycleInvariant, RowsInvariant
<1>2. EffectiveOn(d) \subseteq Revisions
  BY DEF EffectiveOn, LatestBy, Approved, WithStatus
<1>3. EffectiveOn(d) # {} => (CHOOSE r \in EffectiveOn(d) : TRUE) \in EffectiveOn(d)
  OBVIOUS
<1>4. QED
  BY <1>1, <1>2, <1>3, RevisionsAssumption DEF Calendar, Resolved

\* The calendar changes where the revisions effective on a day change.
LEMMA SameDay ==
  ASSUME NEW d \in Days, EffectiveOn(d)' = EffectiveOn(d)
  PROVE  Calendar'[d] = Calendar[d]
  BY DEF Calendar, Resolved

LEMMA DayTaken ==
  ASSUME NEW d \in Days, NEW r \in Revisions, EffectiveOn(d)' = {r}
  PROVE  Calendar'[d] = r
<1>1. (CHOOSE q \in {r} : TRUE) = r
  OBVIOUS
<1>2. QED
  BY <1>1 DEF Calendar, Resolved

LEMMA DayFreed ==
  ASSUME NEW d \in Days, EffectiveOn(d)' = {}
  PROVE  Calendar'[d] = None
  BY DEF Calendar, Resolved

-----------------------------------------------------------------------------
(***************************************************************************)
(* The days an approval takes: those from the date of the revision to the  *)
(* end of the contract, because every revision approved before starts      *)
(* earlier.                                                                *)
(***************************************************************************)
LEMMA DatesAreNaturals ==
  ASSUME LifecycleInvariant
  PROVE  /\ today \in Nat /\ startDate \in Nat /\ endDate \in Nat /\ endDate \in Days
         /\ \A d \in Days : d \in Nat
         /\ \A r \in Approved : validFrom[r] \in Days /\ validFrom[r] \in Nat
                             /\ InForce(validFrom[r])
  BY DaysAssumption DEF LifecycleInvariant, TypeOK

LEMMA ApproveDays ==
  ASSUME LifecycleInvariant, NEW r \in Revisions, ApproveContractRevision(r), NEW d \in Days
  PROVE  /\ validFrom[r] <= d /\ d <= endDate => EffectiveOn(d)' = {r}
         /\ ~(validFrom[r] <= d /\ d <= endDate) => EffectiveOn(d)' = EffectiveOn(d)
<1>1. /\ Approved' = Approved \cup {r} /\ r \notin Approved
      /\ UNCHANGED <<validFrom, startDate, endDate>>
  BY DEF ApproveContractRevision, Approved, WithStatus, LifecycleInvariant, TypeOK,
         draftVars, contractVars
<1>2. /\ validFrom[r] \in Days /\ validFrom[r] \in Nat /\ InForce(validFrom[r])
      /\ \A q \in Approved : validFrom[r] > validFrom[q]
  BY DaysAssumption DEF ApproveContractRevision, ApprovableFrom, LifecycleInvariant, TypeOK
<1>3. InForce(d)' = InForce(d)
  BY <1>1 DEF InForce
<1>4. ASSUME validFrom[r] <= d, d <= endDate
      PROVE  EffectiveOn(d)' = {r}
  <2>1. InForce(d)'
    BY <1>2, <1>3, <1>4, DatesAreNaturals DEF InForce
  <2>2. \A p : p \in LatestBy(d)' <=> p = r
    BY <1>1, <1>2, <1>4, DatesAreNaturals DEF LatestBy
  <2>3. QED
    BY <2>1, <2>2 DEF EffectiveOn
<1>5. ASSUME ~(validFrom[r] <= d /\ d <= endDate)
      PROVE  EffectiveOn(d)' = EffectiveOn(d)
  <2>1. CASE ~(d <= endDate)
    BY <1>3, <2>1 DEF EffectiveOn, InForce
  <2>2. CASE ~(validFrom[r] <= d)
    <3>1. \A p : p \in LatestBy(d)' <=> p \in LatestBy(d)
      BY <1>1, <2>2 DEF LatestBy
    <3>2. LatestBy(d)' = LatestBy(d)
      BY <3>1 DEF LatestBy
    <3>3. QED
      BY <1>3, <3>2 DEF EffectiveOn
  <2>3. QED
    BY <1>5, <2>1, <2>2
<1>6. QED
  BY <1>4, <1>5

(***************************************************************************)
(* The days a withdrawal gives back: those of the revision, to the latest  *)
(* of the revisions that start before it, or to none.                      *)
(***************************************************************************)
Earlier(r) == {p \in Approved : validFrom[p] < validFrom[r]}

LEMMA EveExists ==
  ASSUME LifecycleInvariant, NEW r \in Approved, Earlier(r) # {}
  PROVE  /\ validFrom[r] - 1 \in Days /\ InForce(validFrom[r] - 1)
         /\ LatestBy(validFrom[r] - 1) # {}
<1>1. PICK p \in Approved : validFrom[p] < validFrom[r]
  BY DEF Earlier
<1>2. /\ validFrom[p] \in Nat /\ validFrom[r] \in Nat
      /\ validFrom[p] \in Days /\ validFrom[r] \in Days
      /\ InForce(validFrom[p]) /\ InForce(validFrom[r])
  BY DatesAreNaturals
<1>3. validFrom[r] - 1 \in validFrom[p]..validFrom[r]
  BY <1>1, <1>2
<1>4. validFrom[r] - 1 \in Days
  BY <1>2, <1>3, CalendarAssumption
<1>5. InForce(validFrom[r] - 1)
  BY <1>1, <1>2, DatesAreNaturals DEF InForce
<1>6. validFrom[p] <= validFrom[r] - 1
  BY <1>1, <1>2
<1>7. QED
  BY <1>4, <1>5, <1>6, LatestExists

LEMMA WithdrawDays ==
  ASSUME LifecycleInvariant, NEW r \in Approved, WithdrawContractRevision(r), NEW d \in Days
  PROVE  /\ r \notin EffectiveOn(d) => EffectiveOn(d)' = EffectiveOn(d)
         /\ r \in EffectiveOn(d) =>
              /\ Earlier(r) = {} => EffectiveOn(d)' = {}
              /\ \A q \in LatestBy(validFrom[r] - 1) : EffectiveOn(d)' = {q}
<1>1. /\ Approved' = Approved \ {r}
      /\ UNCHANGED <<validFrom, startDate, endDate>>
  BY DEF WithdrawContractRevision, Approved, WithStatus, LifecycleInvariant, TypeOK,
         draftVars, contractVars
<1>2. InForce(d)' = InForce(d)
  BY <1>1 DEF InForce
<1>3. ASSUME r \notin EffectiveOn(d)
      PROVE  EffectiveOn(d)' = EffectiveOn(d)
  <2>1. CASE ~InForce(d)
    BY <1>2, <2>1 DEF EffectiveOn
  <2>2. CASE InForce(d) /\ ~(validFrom[r] <= d)
    <3>1. \A p : p \in LatestBy(d)' <=> p \in LatestBy(d)
      BY <1>1, <2>2 DEF LatestBy
    <3>2. LatestBy(d)' = LatestBy(d)
      BY <3>1 DEF LatestBy
    <3>3. QED
      BY <1>2, <3>2 DEF EffectiveOn
  <2>3. CASE InForce(d) /\ validFrom[r] <= d
    <3>1. PICK s \in LatestBy(d) : s # r
      BY <1>3, <2>3, LatestExists DEF EffectiveOn
    <3>2. s \in Approved' /\ validFrom[s] <= d /\ validFrom[r] <= validFrom[s]
          /\ r \notin LatestBy(d)
      BY <1>1, <1>3, <2>3, <3>1 DEF LatestBy, EffectiveOn
    <3>3. \A p : p \in LatestBy(d)' <=> p \in LatestBy(d)
      BY <1>1, <3>2, DatesAreNaturals DEF LatestBy
    <3>4. LatestBy(d)' = LatestBy(d)
      BY <3>3 DEF LatestBy
    <3>5. QED
      BY <1>2, <3>4 DEF EffectiveOn
  <2>4. QED
    BY <2>1, <2>2, <2>3
<1>4. ASSUME r \in EffectiveOn(d)
      PROVE  /\ Earlier(r) = {} => EffectiveOn(d)' = {}
             /\ \A q \in LatestBy(validFrom[r] - 1) : EffectiveOn(d)' = {q}
  <2>1. InForce(d) /\ r \in LatestBy(d) /\ validFrom[r] <= d
    BY <1>4 DEF EffectiveOn, LatestBy
  <2>2. \A p \in Approved' : validFrom[p] <= d => validFrom[p] < validFrom[r]
    <3>1. \A p \in Approved' : p \in Approved /\ p # r
      BY <1>1
    <3>2. \A p \in Approved : validFrom[p] <= d => validFrom[p] <= validFrom[r]
      BY <2>1 DEF LatestBy
    <3>3. \A p \in Approved : validFrom[p] = validFrom[r] => p = r
      BY DEF LifecycleInvariant
    <3>4. QED
      BY <3>1, <3>2, <3>3, DatesAreNaturals
  <2>3. ASSUME Earlier(r) = {}
        PROVE  EffectiveOn(d)' = {}
    <3>1. LatestBy(d)' = {}
      BY <1>1, <2>2, <2>3 DEF LatestBy, Earlier
    <3>2. QED
      BY <3>1 DEF EffectiveOn
  <2>4. ASSUME NEW q \in LatestBy(validFrom[r] - 1)
        PROVE  EffectiveOn(d)' = {q}
    <3>1. /\ q \in Approved' /\ validFrom[q] < validFrom[r] /\ validFrom[q] <= d
          /\ \A p \in Approved : validFrom[p] < validFrom[r] => validFrom[p] <= validFrom[q]
      BY <1>1, <2>1, DatesAreNaturals DEF LatestBy
    <3>2. \A p \in Approved' : p \in Approved /\ (validFrom[p] = validFrom[q] => p = q)
      BY <1>1, <3>1 DEF LifecycleInvariant
    <3>3. \A p : p \in LatestBy(d)' <=> p = q
      BY <1>1, <2>2, <3>1, <3>2, DatesAreNaturals DEF LatestBy
    <3>4. QED
      BY <1>2, <2>1, <3>3 DEF EffectiveOn
  <2>5. QED
    BY <2>3, <2>4
<1>5. QED
  BY <1>3, <1>4

-----------------------------------------------------------------------------
(***************************************************************************)
(* The other services leave every day as it is.                            *)
(***************************************************************************)
CalendarStands == UNCHANGED today /\ \A d \in Days : EffectiveOn(d)' = EffectiveOn(d)

LEMMA OtherSteps ==
  ASSUME LifecycleInvariant, [Next]_vars
  PROVE  \/ CalendarStands
         \/ NextDay
         \/ \E r \in Revisions : ApproveContractRevision(r)
         \/ \E r \in Approved : WithdrawContractRevision(r)
<1>0. TypeOK
  BY DEF LifecycleInvariant
<1> USE DEF Started, Approved, WithStatus, CalendarStands
<1>1. CASE \/ \E p \in Profiles : RetireProfile(p)
           \/ PublishContract
           \/ \E st \in ContractStatuses : SaveContractForm(st, startDate, endDate)
           \/ UNCHANGED vars
  BY <1>1, SamePast DEF RetireProfile, PublishContract, SaveContractForm, vars, contractVars,
                        revisionVars, draftVars
<1>2. ASSUME NEW r \in Revisions, NEW p, NEW d, NEW c, NEW source,
             InsertDraft(r, p, d, c, source)
      PROVE  CalendarStands
  BY <1>0, <1>2, SamePast DEF TypeOK, InsertDraft, contractVars
<1>3. ASSUME NEW r \in Revisions, NEW c \in Configs, ReplaceDraftConfiguration(r, c)
      PROVE  CalendarStands
  BY <1>3, SamePast DEF ReplaceDraftConfiguration, contractVars
<1>4. ASSUME NEW r \in Revisions, DeleteRevisionDraft(r)
      PROVE  CalendarStands
  BY <1>0, <1>4, SamePast DEF TypeOK, DeleteRevisionDraft, contractVars
<1>5. ASSUME NEW r \in Revisions, WithdrawContractRevision(r), r \notin Approved
      PROVE  CalendarStands
  BY <1>0, <1>5, SamePast DEF TypeOK, WithdrawContractRevision, contractVars, draftVars
<1>6. ASSUME NEW s \in Days, NEW e \in Days, UpdateDraftContractDates(s, e)
      PROVE  CalendarStands
  <2>1. Approved = {} /\ Approved' = {} /\ UNCHANGED today
    BY <1>0, <1>6 DEF UpdateDraftContractDates, Existing, revisionVars
  <2>2. QED
    BY <2>1 DEF EffectiveOn, LatestBy
<1>7. QED
  BY <1>1, <1>2, <1>3, <1>4, <1>5, <1>6
     DEF Next, CreateRevisionDraft, CreateReplacementRevision

(***************************************************************************)
(* Step by step: the calendar moves as ConfigurationTimeline allows.       *)
(***************************************************************************)
LEMMA CalendarIsFunction ==
  /\ Calendar = [d \in Days |-> Calendar[d]]
  /\ Calendar' = [d \in Days |-> Calendar'[d]]
  BY DEF Calendar

LEMMA UnmovedCalendar ==
  ASSUME \A d \in Days : EffectiveOn(d)' = EffectiveOn(d)
  PROVE  Calendar' = Calendar
<1>1. \A d \in Days : Calendar'[d] = Calendar[d]
  BY SameDay
<1>2. QED
  BY <1>1, CalendarIsFunction

LEMMA MidnightIsMidnight ==
  ASSUME NextDay
  PROVE  Timeline!NextDay
<1>1. \A d \in Days : EffectiveOn(d)' = EffectiveOn(d)
  BY DEF NextDay, EffectiveOn, InForce, LatestBy, Approved, WithStatus, contractVars,
         revisionVars, draftVars
<1>2. QED
  BY <1>1, UnmovedCalendar DEF NextDay, Timeline!NextDay

LEMMA ApprovalIsTakeover ==
  ASSUME LifecycleInvariant, NEW r \in Revisions, ApproveContractRevision(r)
  PROVE  Timeline!Takeover(r)
<1> DEFINE from == validFrom[r]
           to == endDate
<1>1. /\ r \notin Approved /\ UNCHANGED today
      /\ from \in Days /\ from \in Nat /\ InForce(from) /\ today <= from
      /\ \A q \in Approved : from > validFrom[q]
  BY DaysAssumption DEF ApproveContractRevision, ApprovableFrom, LifecycleInvariant, TypeOK,
                        Approved, WithStatus
<1>2. to \in Days /\ to \in Nat /\ from <= to
  BY <1>1, DatesAreNaturals DEF InForce
<1>3. from..to \subseteq Days
  BY <1>1, <1>2, CalendarAssumption
<1>4. /\ \A d \in from..to : Calendar'[d] = r
      /\ \A d \in Days : d \notin from..to => Calendar'[d] = Calendar[d]
  <2>1. ASSUME NEW d \in from..to PROVE Calendar'[d] = r
    BY <1>3, ApproveDays, DayTaken
  <2>2. ASSUME NEW d \in Days, d \notin from..to PROVE Calendar'[d] = Calendar[d]
    <3>1. ~(from <= d /\ d <= to)
      BY <1>1, <1>2, <2>2, DatesAreNaturals
    <3>2. QED
      BY <3>1, ApproveDays, SameDay
  <2>3. QED
    BY <2>1, <2>2
<1>5. \A d \in Days : Calendar[d] # r
  BY <1>1, CalendarNames DEF EffectiveOn, LatestBy
<1>6. Timeline!DaysOf(r) = {}
  BY <1>5 DEF Timeline!DaysOf
<1>7. Timeline!DaysOf(r)' = from..to
  BY <1>3, <1>4, <1>5 DEF Timeline!DaysOf
<1>8. Timeline!DaysOf(r)' # {}
  BY <1>1, <1>2, <1>7
<1>9. ASSUME NEW d \in Timeline!Governed
      PROVE  d <= to /\ to \in Timeline!Governed
  <2>1. d \in Days /\ Calendar[d] # None
    BY DEF Timeline!Governed, Timeline!DaysOf
  <2>2. InForce(d) /\ LatestBy(d) # {}
    BY <2>1, CalendarNames DEF EffectiveOn
  <2>3. PICK q \in Approved : validFrom[q] <= d
    BY <2>2 DEF LatestBy
  <2>4. d <= to /\ validFrom[q] <= to /\ InForce(to)
    BY <1>2, <2>1, <2>2, <2>3, DatesAreNaturals DEF InForce
  <2>5. EffectiveOn(to) # {}
    BY <1>2, <2>4, LatestExists DEF EffectiveOn
  <2>6. Calendar[to] # None
    BY <1>2, <2>5, CalendarNames
  <2>7. QED
    BY <1>2, <2>4, <2>6 DEF Timeline!Governed, Timeline!DaysOf
<1>10. ASSUME NEW q \in Timeline!Governing
       PROVE  \E d \in Timeline!DaysOf(q) : d < from
  <2>1. PICK e \in Days : Calendar[e] = q
    BY DEF Timeline!Governing, Timeline!DaysOf
  <2>2. q \in Approved
    BY <2>1, CalendarNames DEF Timeline!Governing, EffectiveOn, LatestBy
  <2>3. validFrom[q] \in Days /\ validFrom[q] < from /\ InForce(validFrom[q])
    BY <1>1, <2>2, DatesAreNaturals
  <2>4. q \in EffectiveOn(validFrom[q])
    BY <2>2, <2>3, DatesAreNaturals DEF EffectiveOn, LatestBy
  <2>5. Calendar[validFrom[q]] = q
    BY <2>2, <2>3, <2>4, CalendarNames DEF Approved, WithStatus
  <2>6. QED
    BY <2>3, <2>5 DEF Timeline!DaysOf
<1>11. Calendar' = [d \in Days |-> IF d \in from..to THEN r ELSE Calendar[d]]
  BY <1>4, CalendarIsFunction
<1> HIDE DEF from, to
<1>12. QED
  BY <1>1, <1>2, <1>6, <1>7, <1>8, <1>9, <1>10, <1>11 DEF Timeline!Takeover

LEMMA WithdrawalIsRetraction ==
  ASSUME LifecycleInvariant, NEW r \in Approved, WithdrawContractRevision(r)
  PROVE  Timeline!Retract(r)
<1> DEFINE from == validFrom[r]
<1>1. /\ r \in Revisions /\ UNCHANGED today /\ today < from
      /\ from \in Days /\ from \in Nat /\ InForce(from)
  BY DatesAreNaturals DEF WithdrawContractRevision, Approved, WithStatus
<1>2. \A d \in Days : Calendar[d] = r <=> r \in EffectiveOn(d)
  BY <1>1, CalendarNames
<1>3. r \in EffectiveOn(from)
  BY <1>1, DatesAreNaturals DEF EffectiveOn, LatestBy
<1>4. from \in Timeline!DaysOf(r)
  BY <1>1, <1>2, <1>3 DEF Timeline!DaysOf
<1>5. \A d \in Timeline!DaysOf(r) : from <= d /\ today < d
  BY <1>1, <1>2, DatesAreNaturals DEF Timeline!DaysOf, EffectiveOn, LatestBy
<1>6. \A d \in Days : Calendar[d] # r => Calendar'[d] = Calendar[d]
  BY <1>2, WithdrawDays, SameDay
<1>7. CASE Earlier(r) = {}
  <2>1. Timeline!Before(r) = {}
    <3> SUFFICES ASSUME NEW d \in Timeline!Before(r) PROVE FALSE
      OBVIOUS
    <3>1. d \in Days /\ Calendar[d] # None /\ d < from
      BY <1>4 DEF Timeline!Before, Timeline!Governed, Timeline!DaysOf
    <3>2. PICK p \in Approved : validFrom[p] <= d
      BY <3>1, CalendarNames DEF EffectiveOn, LatestBy
    <3>3. validFrom[p] < from
      BY <1>1, <3>1, <3>2, DatesAreNaturals
    <3>4. QED
      BY <1>7, <3>3 DEF Earlier
  <2>2. \A d \in Days : Calendar[d] = r => Calendar'[d] = None
    BY <1>2, <1>7, WithdrawDays, DayFreed
  <2>3. Calendar' = [d \in Days |-> IF Calendar[d] = r THEN None ELSE Calendar[d]]
    BY <1>6, <2>2, CalendarIsFunction
  <2> HIDE DEF from
  <2>4. QED
    BY <1>1, <1>4, <1>5, <2>1, <2>3 DEF Timeline!Retract
<1>8. CASE Earlier(r) # {}
  <2> DEFINE eve == from - 1
  <2>1. eve \in Days /\ InForce(eve) /\ eve \in Nat /\ eve + 1 = from /\ eve < from
    BY <1>1, <1>8, EveExists, DatesAreNaturals
  <2>2. PICK q \in LatestBy(eve) : TRUE
    BY <1>8, EveExists
  <2>3. q \in Revisions /\ q \in EffectiveOn(eve)
    BY <2>1, <2>2 DEF EffectiveOn, LatestBy, Approved, WithStatus
  <2>4. Calendar[eve] = q
    BY <2>1, <2>3, CalendarNames
  <2>5. eve \in Timeline!Before(r)
    <3>1. eve \in Timeline!Governed
      BY <2>1, <2>3, <2>4, RevisionsAssumption DEF Timeline!Governed, Timeline!DaysOf
    <3>2. eve + 1 \in Timeline!DaysOf(r)
      BY <1>4, <2>1
    <3>3. \A e \in Timeline!DaysOf(r) : eve < e
      BY <1>1, <1>5, <2>1, DatesAreNaturals DEF Timeline!DaysOf
    <3>4. QED
      BY <3>1, <3>2, <3>3 DEF Timeline!Before
  <2>6. \A d \in Days : Calendar[d] = r => Calendar'[d] = q
    BY <1>2, <2>2, <2>3, WithdrawDays, DayTaken
  <2>7. Calendar' = [d \in Days |-> IF Calendar[d] = r THEN q ELSE Calendar[d]]
    BY <1>6, <2>6, CalendarIsFunction
  <2>8. q \in {Calendar[d] : d \in Timeline!Before(r)} /\ Timeline!Before(r) # {}
    BY <2>4, <2>5
  <2> HIDE DEF from, eve
  <2>9. QED
    BY <1>1, <1>4, <1>5, <2>7, <2>8 DEF Timeline!Retract
<1>9. QED
  BY <1>7, <1>8

(***************************************************************************)
(* The refinement.                                                         *)
(***************************************************************************)
LEMMA InitialCalendar == Init => Timeline!Init
<1> SUFFICES ASSUME Init PROVE Timeline!Init
  OBVIOUS
<1>1. today \in Days /\ Approved = {}
  BY DEF Init, Approved, WithStatus
<1>2. \A d \in Days : EffectiveOn(d) = {}
  BY <1>1 DEF EffectiveOn, LatestBy
<1>3. Calendar = [d \in Days |-> None]
  BY <1>2 DEF Calendar, Resolved
<1>4. QED
  BY <1>1, <1>3 DEF Timeline!Init

LEMMA CalendarStep ==
  LifecycleInvariant /\ [Next]_vars => [Timeline!Next]_(Timeline!vars)
<1> SUFFICES ASSUME LifecycleInvariant, [Next]_vars
             PROVE  [Timeline!Next]_(Timeline!vars)
  OBVIOUS
<1>1. CASE CalendarStands
  BY <1>1, UnmovedCalendar DEF CalendarStands, Timeline!vars
<1>2. CASE NextDay
  BY <1>2, MidnightIsMidnight DEF Timeline!Next
<1>3. ASSUME NEW r \in Revisions, ApproveContractRevision(r)
      PROVE  Timeline!Next
  BY <1>3, ApprovalIsTakeover DEF Timeline!Next
<1>4. ASSUME NEW r \in Approved, WithdrawContractRevision(r)
      PROVE  Timeline!Next
  BY <1>4, WithdrawalIsRetraction DEF Timeline!Next, Approved, WithStatus
<1>5. QED
  BY <1>1, <1>2, <1>3, <1>4, OtherSteps

\* The revisions of a contract implement the calendar promised to the data
\* plane, for every calendar, contract period and set of revisions
\* (resolve_current_contract_revision).
THEOREM Refinement == Spec => ImplementsTimeline
<1>1. Spec => []LifecycleInvariant
  BY Lifecycle
<1>2. QED
  BY <1>1, InitialCalendar, CalendarStep, PTL DEF Spec, ImplementsTimeline, Timeline!Spec

=============================================================================
