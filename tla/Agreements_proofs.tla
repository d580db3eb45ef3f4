--------------------------- MODULE Agreements_proofs ---------------------------
(***************************************************************************)
(* Theorems about the components that MCAgreements puts side by side, for  *)
(* every value of its constants.                                           *)
(***************************************************************************)
EXTENDS M2MPrincipals_proofs, AgencyOnboarding_proofs, WellFoundedInduction

-----------------------------------------------------------------------------
(***************************************************************************)
(* Invitations.  An acceptance holds the row of its invitation, which      *)
(* stays pending until it commits; the role it has read of the user may be *)
(* old, but roles are only raised.                                         *)
(***************************************************************************)
InvitationRows ==
  [status : {"absent", "pending", "accepted", "rejected", "expired"},
   email : Users \cup {None}, role : Invites!Roles \cup {None},
   expires : 0..(LastDay + Validity), by : Users \cup {None}]

Acceptances == [user : Users \cup {None}, seen : Invites!Roles \cup {None}]

Higher(role, other) == Invites!Rank[other] <= Invites!Rank[role]

AcceptancesHold ==
  \A i \in Invited : ~Invites!Unlocked(i) =>
    LET a == accepting[i] IN
    /\ a.user \in Users
    /\ invitation[i].status = "pending"
    /\ a.seen # None => member[a.user] # None /\ Higher(member[a.user], a.seen)

RolesGiven ==
  \A i \in Invited : invitation[i].status # "absent" => invitation[i].role \in Invites!Roles

InvitationsInv ==
  Invites!TypeOK /\ AcceptancesHold /\ RolesGiven /\ Invites!RoleIsHighestAccepted

LEMMA TwoRoles ==
  /\ Invites!Roles = {"contract_reader", "contract_editor"}
  /\ Invites!Rank["contract_reader"] = 0
  /\ Invites!Rank["contract_editor"] = 1
  /\ None \notin Users /\ None \notin Invites!Roles
  BY InstancesAssumption DEF Invites!Rank, Invites!Roles, Invites!InvitationsAssumption

LEMMA InvitesTyped ==
  ASSUME Invites!TypeOK
  PROVE  /\ invitation \in [Invited -> InvitationRows]
         /\ accepting \in [Invited -> Acceptances]
         /\ member \in [Users -> Invites!Roles \cup {None}]
         /\ now \in 0..LastDay
         /\ \A i \in Invited :
              invitation[i].by # None <=> invitation[i].status \in {"accepted", "rejected"}
  BY DEF Invites!TypeOK, InvitationRows, Acceptances

\* The role an acceptance leaves is the higher of the two, although the one it
\* compares with may be old.
LEMMA RoleIsRaised ==
  ASSUME InvitationsInv, NEW i \in Invited, ~Invites!Unlocked(i)
  PROVE  /\ Invites!RoleAfter(i) \in Invites!Roles
         /\ Invites!RoleAfter(i) \in {invitation[i].role, member[accepting[i].user]}
         /\ Higher(Invites!RoleAfter(i), invitation[i].role)
         /\ member[accepting[i].user] # None =>
              Higher(Invites!RoleAfter(i), member[accepting[i].user])
<1>1. /\ invitation[i].role \in Invites!Roles
      /\ member[accepting[i].user] \in Invites!Roles \cup {None}
      /\ accepting[i].seen \in Invites!Roles \cup {None}
      /\ accepting[i].seen # None =>
           /\ member[accepting[i].user] # None
           /\ Higher(member[accepting[i].user], accepting[i].seen)
  BY InvitesTyped DEF InvitationsInv, AcceptancesHold, RolesGiven, Acceptances
<1>2. ASSUME NEW role \in Invites!Roles, NEW old \in Invites!Roles \cup {None},
             NEW seen \in Invites!Roles \cup {None},
             seen # None => old # None /\ Higher(old, seen), NEW after,
             after = LET read == IF seen = None THEN old ELSE seen
                     IN  IF read = None \/ Invites!Rank[role] > Invites!Rank[read]
                         THEN role ELSE old
      PROVE  /\ after \in Invites!Roles /\ after \in {role, old}
             /\ Higher(after, role) /\ (old # None => Higher(after, old))
  BY <1>2, TwoRoles DEF Higher
<1>3. Invites!RoleAfter(i) =
        LET read == IF accepting[i].seen = None THEN member[accepting[i].user] ELSE accepting[i].seen
        IN  IF read = None \/ Invites!Rank[invitation[i].role] > Invites!Rank[read]
            THEN invitation[i].role ELSE member[accepting[i].user]
  BY DEF Invites!RoleAfter
<1>4. QED
  BY <1>1, <1>2, <1>3

LEMMA InvitationsStep ==
  ASSUME InvitationsInv, [Invites!Next]_(Invites!vars)
  PROVE  InvitationsInv'
<1>0. /\ invitation \in [Invited -> InvitationRows] /\ accepting \in [Invited -> Acceptances]
      /\ member \in [Users -> Invites!Roles \cup {None}] /\ now \in 0..LastDay
      /\ LastDay \in Nat /\ Validity \in Nat
      /\ \A i \in Invited :
           invitation[i].by # None <=> invitation[i].status \in {"accepted", "rejected"}
  BY InvitesTyped, InstancesAssumption DEF InvitationsInv, Invites!InvitationsAssumption
<1>1. CASE UNCHANGED Invites!vars
  BY <1>1 DEF Invites!vars, InvitationsInv, Invites!TypeOK, AcceptancesHold, RolesGiven,
     Invites!RoleIsHighestAccepted, Invites!Unlocked
<1>2. CASE Invites!NextDay
  BY <1>0, <1>2 DEF Invites!NextDay, InvitationsInv, Invites!TypeOK, AcceptancesHold, RolesGiven,
     Invites!RoleIsHighestAccepted, Invites!Unlocked
<1>3. ASSUME NEW i \in Invited, NEW email \in Users \cup {None}, NEW role \in Invites!Roles,
             Invites!CreateInvitation(i, email, role)
      PROVE  InvitationsInv'
  <2> DEFINE new == [status |-> "pending", email |-> email, role |-> role,
                     expires |-> now + Validity, by |-> None]
  <2>1. new \in InvitationRows
    BY <1>0 DEF InvitationRows
  <2>2. /\ invitation[i].status = "absent" /\ UNCHANGED <<now, member, accepting>>
        /\ invitation' = [invitation EXCEPT ![i] = new]
    BY <1>3 DEF Invites!CreateInvitation
  <2>3. Invites!TypeOK'
    BY <1>0, <2>1, <2>2 DEF Invites!TypeOK, InvitationRows, Acceptances
  <2>4. AcceptancesHold' /\ RolesGiven'
    BY <1>0, <2>2 DEF InvitationsInv, AcceptancesHold, RolesGiven, Invites!Unlocked
  <2>5. Invites!RoleIsHighestAccepted'
    BY <1>0, <2>2 DEF InvitationsInv, Invites!RoleIsHighestAccepted
  <2>6. QED
    BY <2>3, <2>4, <2>5 DEF InvitationsInv
<1>4. ASSUME NEW i \in Invited, NEW u \in Users, Invites!LockAcceptance(i, u)
      PROVE  InvitationsInv'
  <2>1. /\ invitation[i].status = "pending" /\ UNCHANGED <<now, invitation, member>>
        /\ accepting' = [accepting EXCEPT ![i] = [user |-> u, seen |-> member[u]]]
    BY <1>4 DEF Invites!LockAcceptance, Invites!Acceptable, Invites!Pending
  <2>2. Invites!TypeOK'
    BY <1>0, <2>1 DEF Invites!TypeOK, InvitationRows, Acceptances
  <2>3. AcceptancesHold'
    <3>1. member[u] # None => Higher(member[u], member[u])
      BY <1>0, TwoRoles DEF Higher
    <3>2. accepting'[i].user = u /\ accepting'[i].seen = member[u]
          /\ \A j \in Invited \ {i} : accepting'[j] = accepting[j]
      BY <1>0, <2>1
    <3>3. QED
      BY <2>1, <3>1, <3>2 DEF InvitationsInv, AcceptancesHold, Invites!Unlocked
  <2>4. RolesGiven' /\ Invites!RoleIsHighestAccepted'
    BY <2>1 DEF InvitationsInv, RolesGiven, Invites!RoleIsHighestAccepted
  <2>5. QED
    BY <2>2, <2>3, <2>4 DEF InvitationsInv
<1>5. ASSUME NEW i \in Invited, NEW u \in Users, Invites!RejectInvitation(i, u)
      PROVE  InvitationsInv'
  <2>1. /\ invitation[i].status = "pending" /\ Invites!Unlocked(i)
        /\ UNCHANGED <<now, member, accepting>>
        /\ \/ invitation' = [invitation EXCEPT ![i].status = "expired"]
           \/ invitation' = [invitation EXCEPT ![i].status = "rejected", ![i].by = u]
    BY <1>5 DEF Invites!RejectInvitation, Invites!Pending
  <2>2. PICK row \in InvitationRows :
          /\ row.status \in {"expired", "rejected"} /\ row.role = invitation[i].role
          /\ row.by # None <=> row.status = "rejected"
          /\ invitation' = [invitation EXCEPT ![i] = row]
    <3>1. CASE invitation' = [invitation EXCEPT ![i].status = "expired"]
      <4>1. invitation' = [invitation EXCEPT ![i] = [invitation[i] EXCEPT !.status = "expired"]]
        BY <3>1
      <4>2. [invitation[i] EXCEPT !.status = "expired"] \in InvitationRows
        BY <1>0 DEF InvitationRows
      <4>3. invitation[i].by = None
        BY <1>0, <2>1
      <4>4. QED
        BY <1>0, <4>1, <4>2, <4>3 DEF InvitationRows
    <3>2. CASE invitation' = [invitation EXCEPT ![i].status = "rejected", ![i].by = u]
      <4>1. invitation' = [invitation EXCEPT ![i] =
                            [invitation[i] EXCEPT !.status = "rejected", !.by = u]]
        BY <3>2
      <4>2. [invitation[i] EXCEPT !.status = "rejected", !.by = u] \in InvitationRows
        BY <1>0 DEF InvitationRows
      <4>3. QED
        BY <1>0, <4>1, <4>2, TwoRoles DEF InvitationRows
    <3>3. QED
      BY <2>1, <3>1, <3>2
  <2>3. invitation'[i] = row /\ \A j \in Invited \ {i} : invitation'[j] = invitation[j]
    BY <1>0, <2>2
  <2>4. Invites!TypeOK'
    BY <1>0, <2>1, <2>2, <2>3 DEF Invites!TypeOK, InvitationRows, Acceptances
  <2>5. AcceptancesHold' /\ RolesGiven'
    BY <1>0, <2>1, <2>2, <2>3 DEF InvitationsInv, AcceptancesHold, RolesGiven, Invites!Unlocked
  <2>6. Invites!RoleIsHighestAccepted'
    BY <1>0, <2>1, <2>2, <2>3 DEF InvitationsInv, Invites!RoleIsHighestAccepted
  <2>7. QED
    BY <2>4, <2>5, <2>6 DEF InvitationsInv
<1>6. ASSUME NEW i \in Invited, Invites!CommitAcceptance(i)
      PROVE  InvitationsInv'
  <2> DEFINE u == accepting[i].user
             after == Invites!RoleAfter(i)
             row == [invitation[i] EXCEPT !.status = "accepted", !.by = u]
  <2>1. /\ ~Invites!Unlocked(i) /\ UNCHANGED now
        /\ member' = [member EXCEPT ![u] = after]
        /\ invitation' = [invitation EXCEPT ![i] = row]
        /\ accepting' = [accepting EXCEPT ![i] = Invites!Free]
    BY <1>6 DEF Invites!CommitAcceptance
  <2>2. /\ u \in Users /\ u # None /\ invitation[i].status = "pending"
        /\ invitation[i].role \in Invites!Roles
        /\ after \in Invites!Roles /\ after # None
        /\ after \in {invitation[i].role, member[u]}
        /\ Higher(after, invitation[i].role)
        /\ member[u] # None => Higher(after, member[u])
    BY <2>1, RoleIsRaised, TwoRoles DEF InvitationsInv, AcceptancesHold, RolesGiven
  <2>3. /\ row \in InvitationRows /\ row.status = "accepted" /\ row.by = u
        /\ row.role = invitation[i].role
    BY <1>0, <2>2 DEF InvitationRows
  <2>4. Invites!Free \in Acceptances
    BY DEF Invites!Free, Acceptances
  <2> HIDE DEF row, after, u
  <2>5. /\ invitation'[i] = row /\ \A j \in Invited \ {i} : invitation'[j] = invitation[j]
        /\ accepting'[i] = Invites!Free /\ \A j \in Invited \ {i} : accepting'[j] = accepting[j]
        /\ member'[u] = after /\ \A v \in Users \ {u} : member'[v] = member[v]
    BY <1>0, <2>1, <2>2
  <2>6. Invites!TypeOK'
    BY <1>0, <2>1, <2>2, <2>3, <2>4, <2>5 DEF Invites!TypeOK, InvitationRows, Acceptances
  <2>7. RolesGiven'
    BY <2>2, <2>3, <2>5 DEF InvitationsInv, RolesGiven
  <2>8. AcceptancesHold'
    <3> SUFFICES ASSUME NEW j \in Invited, accepting'[j] # Invites!Free
                 PROVE  /\ accepting'[j].user \in Users
                        /\ invitation'[j].status = "pending"
                        /\ accepting'[j].seen # None =>
                             /\ member'[accepting'[j].user] # None
                             /\ Higher(member'[accepting'[j].user], accepting'[j].seen)
      BY DEF AcceptancesHold, Invites!Unlocked, Higher
    <3>1. j # i /\ accepting'[j] = accepting[j] /\ invitation'[j] = invitation[j]
      BY <2>5
    <3>2. /\ accepting[j].user \in Users /\ invitation[j].status = "pending"
          /\ accepting[j].seen # None => /\ member[accepting[j].user] # None
                                         /\ Higher(member[accepting[j].user], accepting[j].seen)
          /\ accepting[j].seen \in Invites!Roles \cup {None}
      BY <1>0, <3>1 DEF InvitationsInv, AcceptancesHold, Invites!Unlocked, Acceptances
    <3>3. CASE accepting[j].user # u
      BY <2>5, <3>1, <3>2, <3>3
    <3>4. CASE accepting[j].user = u
      <4>1. member[u] \in Invites!Roles \cup {None}
        BY <1>0, <2>2
      <4>2. accepting[j].seen # None => Higher(after, accepting[j].seen)
        BY <2>2, <3>2, <3>4, <4>1, TwoRoles DEF Higher
      <4>3. QED
        BY <2>2, <2>5, <3>1, <3>2, <3>4, <4>2
    <3>5. QED
      BY <3>3, <3>4
  <2>9. Invites!RoleIsHighestAccepted'
    <3> SUFFICES ASSUME NEW v \in Users
                 PROVE  LET accepted == {j \in Invited : invitation'[j].status = "accepted"
                                                       /\ invitation'[j].by = v}
                        IN  IF accepted = {} THEN member'[v] = None
                            ELSE /\ \E j \in accepted : invitation'[j].role = member'[v]
                                 /\ \A j \in accepted : Higher(member'[v], invitation'[j].role)
      BY DEF Invites!RoleIsHighestAccepted, Higher
    <3> DEFINE old == {j \in Invited : invitation[j].status = "accepted" /\ invitation[j].by = v}
               new == {j \in Invited : invitation'[j].status = "accepted" /\ invitation'[j].by = v}
    <3>1. IF old = {} THEN member[v] = None
          ELSE /\ \E j \in old : invitation[j].role = member[v]
               /\ \A j \in old : Higher(member[v], invitation[j].role)
      BY DEF InvitationsInv, Invites!RoleIsHighestAccepted, Higher
    <3>2. /\ new = IF v = u THEN old \cup {i} ELSE old
          /\ i \notin old
      BY <2>2, <2>3, <2>5
    <3>3. \A j \in new : invitation'[j].role = invitation[j].role /\ invitation[j].role \in Invites!Roles
      BY <2>2, <2>3, <2>5 DEF InvitationsInv, RolesGiven
    <3> HIDE DEF old, new
    <3>4. CASE v # u
      BY <2>5, <3>1, <3>2, <3>3, <3>4 DEF new
    <3>5. CASE v = u
      <4>1. member[u] \in Invites!Roles \cup {None}
        BY <1>0, <2>2
      <4>2. \A j \in new : Higher(after, invitation[j].role)
        BY <2>2, <3>1, <3>2, <3>3, <3>5, <4>1, TwoRoles DEF Higher
      <4>3. \E j \in new : invitation[j].role = after
        BY <2>2, <3>1, <3>2, <3>5
      <4>4. QED
        BY <2>5, <3>2, <3>3, <3>5, <4>2, <4>3 DEF new
    <3>6. QED
      BY <3>4, <3>5
  <2>10. QED
    BY <2>6, <2>7, <2>8, <2>9 DEF InvitationsInv
<1>7. ASSUME NEW i \in Invited, Invites!AbandonAcceptance(i)
      PROVE  InvitationsInv'
  <2>1. /\ UNCHANGED <<now, invitation, member>>
        /\ accepting' = [accepting EXCEPT ![i] = Invites!Free]
    BY <1>7 DEF Invites!AbandonAcceptance
  <2>2. Invites!Free \in Acceptances
    BY DEF Invites!Free, Acceptances
  <2>3. Invites!TypeOK' /\ AcceptancesHold'
    BY <1>0, <2>1, <2>2 DEF Invites!TypeOK, InvitationRows, Acceptances, InvitationsInv,
       AcceptancesHold, Invites!Unlocked
  <2>4. RolesGiven' /\ Invites!RoleIsHighestAccepted'
    BY <2>1 DEF InvitationsInv, RolesGiven, Invites!RoleIsHighestAccepted
  <2>5. QED
    BY <2>3, <2>4 DEF InvitationsInv
<1>8. QED
  BY <1>1, <1>2, <1>3, <1>4, <1>5, <1>6, <1>7 DEF Invites!Next

\* However acceptances, refusals, worker deaths and days interleave, every one
\* that is open holds the row of its pending invitation, and the role of a user
\* is the highest he accepted (accept_invitation_for_user).
THEOREM InvitationsInvariant == Invites!Spec => []InvitationsInv
<1>1. Invites!Init => InvitationsInv
  <2> SUFFICES ASSUME Invites!Init PROVE InvitationsInv
    OBVIOUS
  <2>1. /\ Invites!Absent \in InvitationRows /\ Invites!Free \in Acceptances
        /\ Invites!Absent.status = "absent" /\ Invites!Absent.by = None
    BY InstancesAssumption DEF Invites!InvitationsAssumption, Invites!Absent, InvitationRows,
       Invites!Free, Acceptances
  <2>2. /\ \A i \in Invited : invitation[i] = Invites!Absent /\ accepting[i] = Invites!Free
        /\ \A u \in Users : member[u] = None
    BY DEF Invites!Init
  <2>3. Invites!TypeOK
    BY <2>1, InstancesAssumption DEF Invites!Init, Invites!TypeOK, InvitationRows, Acceptances,
       Invites!InvitationsAssumption
  <2>4. AcceptancesHold /\ RolesGiven /\ Invites!RoleIsHighestAccepted
    BY <2>1, <2>2 DEF AcceptancesHold, RolesGiven, Invites!RoleIsHighestAccepted, Invites!Unlocked
  <2>5. QED
    BY <2>3, <2>4 DEF InvitationsInv
<1>2. QED
  BY <1>1, InvitationsStep, PTL DEF Invites!Spec

\* The invitations keep to their specification beside the other components.
LEMMA InvitationsAlone == AllSpec => Invites!Spec
<1>1. AllInit => Invites!Init
  BY DEF AllInit
<1>2. [AllNext]_allVars => [Invites!Next]_(Invites!vars)
  BY DEF AllNext, allVars, inviteVars, Invites!vars
<1>3. QED
  BY <1>1, <1>2, PTL DEF AllSpec, Invites!Spec

\* The role a user has on the contract is the highest of those he accepted: none
\* is lost and none lowers it, whatever was read before the row was written.
THEOREM HighestRoleStays == AllSpec => []RoleIsHighestAccepted
<1>1. InvitationsInv => RoleIsHighestAccepted
  BY DEF InvitationsInv, RoleIsHighestAccepted
<1>2. QED
  BY <1>1, InvitationsAlone, InvitationsInvariant, PTL

\* What was decided on an invitation stands: an acceptance that is still open
\* when another decision commits would have to find the row no longer pending,
\* and the lock of the row excludes it.
THEOREM DecisionsAreTakenOnce == AllSpec => DecisionsStand
<1>1. ASSUME InvitationsInv, [Invites!Next]_(Invites!vars), NEW i \in Invited,
             invitation[i].status \in {"accepted", "rejected", "expired"}
      PROVE  invitation'[i] = invitation[i]
  <2>0. invitation \in [Invited -> InvitationRows]
    BY <1>1, InvitesTyped DEF InvitationsInv
  <2>1. CASE UNCHANGED Invites!vars
    BY <2>1 DEF Invites!vars
  <2>2. CASE Invites!NextDay
    BY <2>2 DEF Invites!NextDay
  <2>3. ASSUME NEW j \in Invited, NEW email, NEW role, Invites!CreateInvitation(j, email, role)
        PROVE  invitation'[i] = invitation[i]
    BY <1>1, <2>0, <2>3 DEF Invites!CreateInvitation
  <2>4. ASSUME NEW j \in Invited, NEW u \in Users, Invites!LockAcceptance(j, u)
        PROVE  invitation'[i] = invitation[i]
    BY <2>4 DEF Invites!LockAcceptance
  <2>5. ASSUME NEW j \in Invited, NEW u \in Users, Invites!RejectInvitation(j, u)
        PROVE  invitation'[i] = invitation[i]
    BY <1>1, <2>0, <2>5 DEF Invites!RejectInvitation, Invites!Pending
  <2>6. ASSUME NEW j \in Invited, Invites!CommitAcceptance(j)
        PROVE  invitation'[i] = invitation[i]
    <3>1. i # j
      BY <1>1, <2>6 DEF InvitationsInv, AcceptancesHold, Invites!CommitAcceptance
    <3>2. QED
      BY <2>0, <2>6, <3>1 DEF Invites!CommitAcceptance
  <2>7. ASSUME NEW j \in Invited, Invites!AbandonAcceptance(j)
        PROVE  invitation'[i] = invitation[i]
    BY <2>7 DEF Invites!AbandonAcceptance
  <2>8. QED
    BY <1>1, <2>1, <2>2, <2>3, <2>4, <2>5, <2>6, <2>7 DEF Invites!Next
<1>2. InvitationsInv /\ [Invites!Next]_(Invites!vars) =>
        [\A i \in Invited : invitation[i].status \in {"accepted", "rejected", "expired"} =>
                             invitation'[i] = invitation[i]]_(Invites!vars)
  BY <1>1
<1>3. QED
  BY <1>2, InvitationsAlone, InvitationsInvariant, PTL DEF Invites!Spec, DecisionsStand,
     Invites!DecisionsStand

-----------------------------------------------------------------------------
(***************************************************************************)
(* Contracts of a lot.  What a request has checked is still a row when it  *)
(* writes, however old the rows it was checked against.                    *)
(***************************************************************************)
LotRequestRecords ==
  [pc : {"idle", "checked", "form"}, op : {"create", "edit", None},
   id : LotContractKeys \cup {None}, values : Lot!Rows \cup {None}]

HoldsRow ==
  \A w \in LotRequests : lotRequest[w].pc # "idle" =>
    lotRequest[w].id \in LotContractKeys /\ lotRequest[w].values \in Lot!Rows

LotInv == Lot!TypeOK /\ HoldsRow /\ Lot!OneContractPerDay

LEMMA LotTyped ==
  ASSUME Lot!TypeOK
  PROVE  /\ lotRow \in [LotContractKeys -> Lot!Rows \cup {None}]
         /\ lotRequest \in [LotRequests -> LotRequestRecords]
         /\ lotForms \in 0..LotForms
  BY DEF Lot!TypeOK, LotRequestRecords

LEMMA MaxOfBounded ==
  ASSUME NEW S, S \subseteq Nat, S # {}, NEW b \in Nat, \A n \in S : n <= b
  PROVE  Lot!Max(S) \in S
<1> DEFINE Gaps == {b - n : n \in S}
<1>1. Gaps \subseteq Nat /\ Gaps # {}
  <2>1. \A n \in S : b - n \in Nat
    OBVIOUS
  <2>2. QED
    BY <2>1
<1>2. PICK g \in Gaps : \A h \in Gaps : <<h, g>> \notin OpToRel(<, Nat)
  <2> HIDE DEF Gaps
  <2> QED
    BY <1>1, NatLessThanWellFounded, WFMin
<1>3. PICK m \in S : g = b - m
  OBVIOUS
<1>4. \A n \in S : m >= n
  <2> SUFFICES ASSUME NEW n \in S PROVE m >= n
    OBVIOUS
  <2>1. b - n \in Gaps /\ b - n \in Nat /\ b - m \in Nat
    OBVIOUS
  <2>2. ~(b - n < b - m)
    BY <1>1, <1>2, <1>3, <2>1 DEF OpToRel
  <2>3. QED
    BY <2>2
<1>5. QED
  BY <1>4 DEF Lot!Max

LEMMA NextVersionIsNatural ==
  ASSUME Lot!TypeOK, NEW owner
  PROVE  Lot!NextVersion(owner) \in Nat
<1> DEFINE mine == {e \in Lot!Existing : lotRow[e].company = owner}
           versions == {lotRow[c].version : c \in mine}
<1>1. \A c \in Lot!Existing : lotRow[c].version \in 0..LotVersions
  BY LotTyped DEF Lot!Existing, Lot!Rows
<1>2. versions \subseteq Nat /\ \A n \in versions : n <= LotVersions
  BY <1>1
<1>3. versions # {} => Lot!Max(versions) \in Nat
  <2> HIDE DEF versions
  <2> QED
    BY <1>2, MaxOfBounded, InstancesAssumption DEF Lot!LotAssumption
<1>4. Lot!NextVersion(owner) = IF versions = {} THEN 0 ELSE Lot!Max(versions) + 1
  BY DEF Lot!NextVersion
<1>5. QED
  <2> HIDE DEF versions
  <2> QED
    BY <1>3, <1>4

\* A row that the database takes leaves one contract to a day.
LEMMA StoredStaysAlone ==
  ASSUME Lot!TypeOK, Lot!OneContractPerDay, NEW c \in LotContractKeys, NEW r \in Lot!Rows,
         Lot!Storable(c, r), lotRow' = [lotRow EXCEPT ![c] = r]
  PROVE  Lot!OneContractPerDay'
<1>1. lotRow \in [LotContractKeys -> Lot!Rows \cup {None}]
  BY LotTyped
<1>2. SUFFICES ASSUME NEW d \in Lot!Existing', NEW e \in Lot!Existing', d # e
               PROVE  ~Lot!Overlap(lotRow'[d], lotRow'[e])
  BY DEF Lot!OneContractPerDay, Lot!Overlap
<1>3. \A o \in LotContractKeys \ {c} : lotRow'[o] = lotRow[o]
  BY <1>1
<1>4. d \in LotContractKeys /\ e \in LotContractKeys /\ lotRow'[c] = r
  BY <1>1 DEF Lot!Existing
<1>5. CASE d = c
  <2>1. e \in Lot!Others(c)
    BY <1>2, <1>3, <1>4, <1>5 DEF Lot!Existing, Lot!Others
  <2>2. QED
    BY <1>2, <1>3, <1>4, <1>5, <2>1 DEF Lot!Storable
<1>6. CASE e = c
  <2>1. d \in Lot!Others(c)
    BY <1>2, <1>3, <1>4, <1>6 DEF Lot!Existing, Lot!Others
  <2>2. ~Lot!Overlap(r, lotRow[d])
    BY <2>1 DEF Lot!Storable
  <2>3. QED
    BY <1>2, <1>3, <1>4, <1>6, <2>2 DEF Lot!Overlap
<1>7. CASE d # c /\ e # c
  BY <1>2, <1>3, <1>4, <1>7 DEF Lot!OneContractPerDay, Lot!Existing
<1>8. QED
  BY <1>5, <1>6, <1>7

LEMMA LotStep ==
  ASSUME LotInv, [Lot!Next]_(Lot!vars)
  PROVE  LotInv'
<1>0. /\ lotRow \in [LotContractKeys -> Lot!Rows \cup {None}]
      /\ lotRequest \in [LotRequests -> LotRequestRecords]
      /\ lotForms \in 0..LotForms
      /\ LotLastDay \in Nat /\ LotLength \in Nat /\ LotVersions \in Nat /\ LotForms \in Nat
  BY LotTyped, InstancesAssumption DEF LotInv, Lot!LotAssumption
<1>1. CASE UNCHANGED Lot!vars
  BY <1>1 DEF Lot!vars, LotInv, Lot!TypeOK, HoldsRow, Lot!OneContractPerDay, Lot!Existing
<1>2. ASSUME NEW w \in LotRequests, NEW r \in LotRequestRecords,
             r.pc # "idle" => r.id \in LotContractKeys /\ r.values \in Lot!Rows,
             lotRequest' = [lotRequest EXCEPT ![w] = r], UNCHANGED lotRow,
             lotForms' \in 0..LotForms
      PROVE  LotInv'
  BY <1>0, <1>2 DEF LotInv, Lot!TypeOK, LotRequestRecords, HoldsRow, Lot!OneContractPerDay,
     Lot!Existing
<1>3. /\ Lot!Idle \in LotRequestRecords
      /\ Lot!Idle.pc = "idle"
  BY DEF Lot!Idle, LotRequestRecords
<1>4. ASSUME NEW w \in LotRequests, NEW c \in LotContractKeys, NEW owner \in LotCompanies,
             NEW start \in Lot!Days, NEW end \in Lot!Days \cup {None}, NEW state \in Lot!Statuses,
             Lot!CheckCreation(w, c, owner, start, end, state)
      PROVE  LotInv'
  <2> DEFINE r == [company |-> owner, start |-> start, end |-> Lot!EndOf(start, end),
                   status |-> state, replacedBy |-> None, version |-> Lot!NextVersion(owner)]
  <2>1. Lot!NextVersion(owner) \in 0..LotVersions
    BY <1>0, <1>4, NextVersionIsNatural DEF LotInv, Lot!CheckCreation
  <2>2. Lot!EndOf(start, end) \in 0..(LotLastDay + LotLength)
    BY <1>0 DEF Lot!EndOf, Lot!Days
  <2>3. r \in Lot!Rows
    BY <2>1, <2>2 DEF Lot!Rows
  <2>4. [pc |-> "checked", op |-> "create", id |-> c, values |-> r] \in LotRequestRecords
    BY <2>3 DEF LotRequestRecords
  <2>5. lotRequest' = [lotRequest EXCEPT ![w] =
                         [pc |-> "checked", op |-> "create", id |-> c, values |-> r]]
    BY <1>4 DEF Lot!CheckCreation
  <2>6. UNCHANGED <<lotRow, lotForms>>
    BY <1>4 DEF Lot!CheckCreation
  <2>7. QED
    <3> HIDE DEF r
    <3> QED
      BY <1>0, <1>2, <2>3, <2>4, <2>5, <2>6
<1>5. ASSUME NEW w \in LotRequests, NEW c \in Lot!Existing, NEW r \in Lot!Edits(c),
             Lot!OpenForm(w, c, r)
      PROVE  LotInv'
  <2>1. c \in LotContractKeys /\ lotRow[c].version \in 0..LotVersions
    BY <1>0 DEF Lot!Existing, Lot!Rows
  <2>2. \A d \in Lot!Days : d \in 0..(LotLastDay + LotLength)
    BY <1>0 DEF Lot!Days
  <2>3. r \in Lot!Rows
    BY <2>1, <2>2 DEF Lot!Edits, Lot!Rows
  <2>4. [pc |-> "form", op |-> "edit", id |-> c, values |-> r] \in LotRequestRecords
    BY <2>1, <2>3 DEF LotRequestRecords
  <2>5. lotForms' \in 0..LotForms
    BY <1>0, <1>5 DEF Lot!OpenForm
  <2>6. QED
    BY <1>2, <1>5, <2>1, <2>3, <2>4, <2>5 DEF Lot!OpenForm
<1>6. ASSUME NEW w \in LotRequests, Lot!CheckForm(w)
      PROVE  LotInv'
  <2>1. [lotRequest[w] EXCEPT !.pc = "checked"] \in LotRequestRecords
    BY <1>0 DEF LotRequestRecords
  <2>2. lotRequest[w].id \in LotContractKeys /\ lotRequest[w].values \in Lot!Rows
    BY <1>6 DEF LotInv, HoldsRow, Lot!CheckForm
  <2>3. \/ lotRequest' = [lotRequest EXCEPT ![w] = [lotRequest[w] EXCEPT !.pc = "checked"]]
        \/ lotRequest' = [lotRequest EXCEPT ![w] = Lot!Idle]
    BY <1>6 DEF Lot!CheckForm, Lot!Done
  <2>4. UNCHANGED <<lotRow, lotForms>>
    BY <1>6 DEF Lot!CheckForm
  <2>5. /\ [lotRequest[w] EXCEPT !.pc = "checked"].id = lotRequest[w].id
        /\ [lotRequest[w] EXCEPT !.pc = "checked"].values = lotRequest[w].values
    BY <1>0 DEF LotRequestRecords
  <2>6. QED
    BY <1>0, <1>2, <1>3, <2>1, <2>2, <2>3, <2>4, <2>5
<1>7. ASSUME NEW w \in LotRequests, Lot!Write(w)
      PROVE  LotInv'
  <2> DEFINE c == lotRequest[w].id
             r == lotRequest[w].values
  <2>1. /\ lotRow' = IF Lot!Storable(c, r) THEN [lotRow EXCEPT ![c] = r] ELSE lotRow
        /\ lotRequest' = [lotRequest EXCEPT ![w] = Lot!Idle] /\ UNCHANGED lotForms
        /\ lotRequest[w].pc = "checked"
    BY <1>7 DEF Lot!Write, Lot!Done
  <2>2. c \in LotContractKeys /\ r \in Lot!Rows
    BY <2>1 DEF LotInv, HoldsRow
  <2> HIDE DEF c, r
  <2>3. lotRow' \in [LotContractKeys -> Lot!Rows \cup {None}]
    BY <1>0, <2>1, <2>2
  <2>4. Lot!TypeOK' /\ HoldsRow'
    BY <1>0, <1>3, <2>1, <2>3 DEF Lot!TypeOK, LotRequestRecords, HoldsRow, LotInv
  <2>5. Lot!OneContractPerDay'
    <3>1. CASE Lot!Storable(c, r)
      BY <2>1, <2>2, <3>1, StoredStaysAlone DEF LotInv
    <3>2. CASE ~Lot!Storable(c, r)
      BY <2>1, <3>2 DEF LotInv, Lot!OneContractPerDay, Lot!Existing
    <3>3. QED
      BY <3>1, <3>2
  <2>6. QED
    BY <2>4, <2>5 DEF LotInv
<1>8. ASSUME NEW c \in LotContractKeys, Lot!Publish(c)
      PROVE  LotInv'
  <2>1. /\ lotRow' = [lotRow EXCEPT ![c] = [lotRow[c] EXCEPT !.status = "active"]]
        /\ UNCHANGED <<lotRequest, lotForms>> /\ c \in Lot!Existing
    BY <1>8 DEF Lot!Publish
  <2>2. lotRow[c] \in Lot!Rows
    BY <1>0, <2>1 DEF Lot!Existing
  <2>3. /\ [lotRow[c] EXCEPT !.status = "active"] \in Lot!Rows
        /\ [lotRow[c] EXCEPT !.status = "active"].start = lotRow[c].start
        /\ [lotRow[c] EXCEPT !.status = "active"].end = lotRow[c].end
    BY <2>2 DEF Lot!Rows, Lot!Statuses
  <2>4. Lot!TypeOK' /\ HoldsRow'
    BY <1>0, <2>1, <2>3 DEF Lot!TypeOK, HoldsRow, LotInv
  <2>5. \A d \in Lot!Existing' : /\ d \in Lot!Existing
                                 /\ lotRow'[d].start = lotRow[d].start
                                 /\ lotRow'[d].end = lotRow[d].end
    BY <1>0, <2>1, <2>3 DEF Lot!Existing
  <2>6. Lot!OneContractPerDay'
    BY <2>5 DEF LotInv, Lot!OneContractPerDay, Lot!Overlap
  <2>7. QED
    BY <2>4, <2>6 DEF LotInv
<1>9. ASSUME NEW c \in LotContractKeys, Lot!Delete(c)
      PROVE  LotInv'
  <2>1. lotRow' = [lotRow EXCEPT ![c] = None] /\ UNCHANGED <<lotRequest, lotForms>>
    BY <1>9 DEF Lot!Delete
  <2>2. Lot!TypeOK' /\ HoldsRow'
    BY <1>0, <2>1 DEF Lot!TypeOK, HoldsRow, LotInv
  <2>3. \A d \in Lot!Existing' : d \in Lot!Existing /\ lotRow'[d] = lotRow[d]
    BY <1>0, <2>1 DEF Lot!Existing
  <2>4. QED
    BY <2>2, <2>3 DEF LotInv, Lot!OneContractPerDay, Lot!Overlap
<1>10. ASSUME NEW w \in LotRequests, Lot!Abandon(w)
       PROVE  LotInv'
  BY <1>0, <1>2, <1>3, <1>10 DEF Lot!Abandon, Lot!Done
<1>11. QED
  BY <1>1, <1>4, <1>5, <1>6, <1>7, <1>8, <1>9, <1>10 DEF Lot!Next

\* However the checks of requests interleave with the statements of others, what
\* is stored leaves a day of the lot to one contract.
THEOREM LotInvariant == Lot!Spec => []LotInv
<1>1. Lot!Init => LotInv
  <2> SUFFICES ASSUME Lot!Init PROVE LotInv
    OBVIOUS
  <2>1. Lot!Idle \in LotRequestRecords /\ Lot!Idle.pc = "idle" /\ 0 \in 0..LotForms
    BY InstancesAssumption DEF Lot!Idle, LotRequestRecords, Lot!LotAssumption
  <2>2. QED
    BY <2>1 DEF Lot!Init, LotInv, Lot!TypeOK, LotRequestRecords, HoldsRow, Lot!OneContractPerDay,
       Lot!Existing
<1>2. QED
  BY <1>1, LotStep, PTL DEF Lot!Spec

LEMMA LotAlone == AllSpec => Lot!Spec
<1>1. AllInit => Lot!Init
  BY DEF AllInit
<1>2. [AllNext]_allVars => [Lot!Next]_(Lot!vars)
  BY DEF AllNext, allVars, lotVars, Lot!vars
<1>3. QED
  BY <1>1, <1>2, PTL DEF AllSpec, Lot!Spec

\* "Overlaps on the same lot are forbidden": Contract.full_clean reads rows that
\* it does not lock, and the exclusion constraint makes up for it.
THEOREM OneContractToADay == AllSpec => []OneContractPerDay
<1>1. LotInv => OneContractPerDay
  BY DEF LotInv, OneContractPerDay
<1>2. QED
  BY <1>1, LotAlone, LotInvariant, PTL

\* Of the requests on one contract, one at most has passed its checks and not
\* written yet.  Any number of forms may be open on it meanwhile.
OneAfterChecks ==
  \A v, w \in LotRequests :
    /\ lotRequest[v].pc = "checked" /\ lotRequest[w].pc = "checked"
    /\ lotRequest[v].id = lotRequest[w].id
    => v = w

\* What a request has passed still holds of the row: it is as open as it was, or the
\* request changes nothing of it.
CheckHolds(w) ==
  lotRequest[w].pc = "checked" /\ lotRequest[w].id \in Lot!Existing =>
    Lot!Immutable(lotRequest[w].id, lotRequest[w].values)

LEMMA ChecksHoldStep ==
  ASSUME LotInv, OneAfterChecks, \A w \in LotRequests : CheckHolds(w),
         [Lot!Next]_(Lot!vars)
  PROVE  \A w \in LotRequests : CheckHolds(w)'
<1>0. /\ lotRow \in [LotContractKeys -> Lot!Rows \cup {None}]
      /\ lotRequest \in [LotRequests -> LotRequestRecords]
  BY LotTyped DEF LotInv
<1>1. CASE UNCHANGED Lot!vars
  BY <1>1 DEF Lot!vars, CheckHolds, Lot!Immutable, Lot!Existing
\* The rows stay, and the only request to go on has passed nothing that fails.
<1>2. ASSUME NEW w \in LotRequests, NEW r,
             r.pc = "checked" /\ r.id \in Lot!Existing => Lot!Immutable(r.id, r.values),
             lotRequest' = [lotRequest EXCEPT ![w] = r], UNCHANGED lotRow
      PROVE  \A v \in LotRequests : CheckHolds(v)'
  BY <1>0, <1>2 DEF CheckHolds, Lot!Immutable, Lot!Existing
<1>3. Lot!Idle.pc = "idle"
  BY DEF Lot!Idle
<1>4. ASSUME NEW w \in LotRequests, NEW c \in LotContractKeys, NEW owner \in LotCompanies,
             NEW start \in Lot!Days, NEW end \in Lot!Days \cup {None}, NEW state \in Lot!Statuses,
             Lot!CheckCreation(w, c, owner, start, end, state)
      PROVE  \A v \in LotRequests : CheckHolds(v)'
  <2>1. PICK r : /\ r.id = c /\ lotRequest' = [lotRequest EXCEPT ![w] = r]
    BY <1>4 DEF Lot!CheckCreation
  <2>2. c \notin Lot!Existing /\ UNCHANGED lotRow
    BY <1>4 DEF Lot!CheckCreation
  <2>3. QED
    BY <1>2, <2>1, <2>2
<1>5. ASSUME NEW w \in LotRequests, NEW c \in Lot!Existing, NEW r \in Lot!Edits(c),
             Lot!OpenForm(w, c, r)
      PROVE  \A v \in LotRequests : CheckHolds(v)'
  <2>1. PICK new : new.pc = "form" /\ lotRequest' = [lotRequest EXCEPT ![w] = new]
    BY <1>5 DEF Lot!OpenForm
  <2>2. QED
    BY <1>2, <1>5, <2>1 DEF Lot!OpenForm
<1>6. ASSUME NEW w \in LotRequests, Lot!CheckForm(w)
      PROVE  \A v \in LotRequests : CheckHolds(v)'
  <2>1. UNCHANGED lotRow
    BY <1>6 DEF Lot!CheckForm
  <2>2. CASE /\ Lot!Immutable(lotRequest[w].id, lotRequest[w].values)
             /\ lotRequest' = [lotRequest EXCEPT ![w] = [lotRequest[w] EXCEPT !.pc = "checked"]]
    <3>1. /\ [lotRequest[w] EXCEPT !.pc = "checked"].id = lotRequest[w].id
          /\ [lotRequest[w] EXCEPT !.pc = "checked"].values = lotRequest[w].values
      BY <1>0 DEF LotRequestRecords
    <3>2. QED
      BY <1>2, <2>1, <2>2, <3>1
  <2>3. CASE lotRequest' = [lotRequest EXCEPT ![w] = Lot!Idle]
    BY <1>2, <1>3, <2>1, <2>3
  <2>4. QED
    BY <1>6, <2>2, <2>3 DEF Lot!CheckForm, Lot!Done
<1>7. ASSUME NEW w \in LotRequests, Lot!Write(w)
      PROVE  \A v \in LotRequests : CheckHolds(v)'
  <2>1. /\ lotRequest[w].pc = "checked" /\ lotRequest' = [lotRequest EXCEPT ![w] = Lot!Idle]
        /\ \A c \in LotContractKeys : c # lotRequest[w].id => lotRow'[c] = lotRow[c]
        /\ DOMAIN lotRow' = DOMAIN lotRow
    BY <1>0, <1>7 DEF Lot!Write, Lot!Done
  <2>2. ASSUME NEW v \in LotRequests, v # w, lotRequest[v].pc = "checked"
        PROVE  lotRequest[v].id \in LotContractKeys /\ lotRow'[lotRequest[v].id] = lotRow[lotRequest[v].id]
    <3>1. lotRequest[v].id # lotRequest[w].id
      BY <2>1, <2>2 DEF OneAfterChecks
    <3>2. lotRequest[v].id \in LotContractKeys
      BY <2>2 DEF LotInv, HoldsRow
    <3>3. QED
      BY <2>1, <3>1, <3>2
  <2>3. QED
    BY <1>0, <1>3, <2>1, <2>2 DEF CheckHolds, Lot!Immutable, Lot!Existing
\* A row that is gone, or was a draft and is published, is closed neither before
\* nor after.
<1>8. ASSUME NEW c \in LotContractKeys, Lot!Publish(c) \/ Lot!Delete(c)
      PROVE  \A v \in LotRequests : CheckHolds(v)'
  <2>1. /\ UNCHANGED lotRequest /\ DOMAIN lotRow' = DOMAIN lotRow
        /\ \A d \in LotContractKeys \ {c} : lotRow'[d] = lotRow[d]
    BY <1>0, <1>8 DEF Lot!Publish, Lot!Delete
  <2>2. lotRow'[c] = None \/ lotRow'[c].status # "closed"
    BY <1>0, <1>8 DEF Lot!Publish, Lot!Delete, Lot!Existing, Lot!Rows
  <2>3. QED
    BY <1>0, <2>1, <2>2 DEF CheckHolds, Lot!Immutable, Lot!Existing
<1>9. ASSUME NEW w \in LotRequests, Lot!Abandon(w)
      PROVE  \A v \in LotRequests : CheckHolds(v)'
  BY <1>2, <1>3, <1>9 DEF Lot!Abandon, Lot!Done
<1>10. QED
  BY <1>1, <1>4, <1>5, <1>6, <1>7, <1>8, <1>9 DEF Lot!Next

\* "Closed contracts are immutable (except automatic audit timestamps)": so they
\* are, whatever forms were open when the contract was closed, unless two requests
\* on it have both passed their checks before either writes
\* (Contract.full_clean locks nothing).
THEOREM ClosedUnlessOvertaken == Lot!Spec /\ []OneAfterChecks => Lot!ClosedIsFinal
<1> DEFINE Inv == LotInv /\ \A w \in LotRequests : CheckHolds(w)
<1>1. Lot!Init => \A w \in LotRequests : CheckHolds(w)
  BY DEF Lot!Init, Lot!Idle, CheckHolds
<1>2. Inv /\ OneAfterChecks /\ [Lot!Next]_(Lot!vars) /\ LotInv' => Inv'
  BY ChecksHoldStep
<1>3. Inv /\ [Lot!Next]_(Lot!vars) =>
        [\A c \in Lot!Existing : lotRow[c].status = "closed" => lotRow'[c] \in {lotRow[c], None}]_(Lot!vars)
  <2> SUFFICES ASSUME Inv, Lot!Next, NEW c \in Lot!Existing, lotRow[c].status = "closed"
               PROVE  lotRow'[c] \in {lotRow[c], None}
    OBVIOUS
  <2>1. /\ lotRow \in [LotContractKeys -> Lot!Rows \cup {None}] /\ c \in LotContractKeys
    BY LotTyped DEF LotInv, Lot!Existing
  <2>2. ASSUME NEW w \in LotRequests, Lot!Write(w)
        PROVE  lotRow'[c] \in {lotRow[c], None}
    <3>1. CASE lotRequest[w].id = c
      <4>1. Lot!Immutable(c, lotRequest[w].values)
        BY <2>2, <3>1 DEF CheckHolds, Lot!Write
      <4>2. QED
        BY <2>1, <2>2, <3>1, <4>1 DEF Lot!Write, Lot!Immutable
    <3>2. CASE lotRequest[w].id # c
      BY <2>1, <2>2, <3>2 DEF Lot!Write
    <3>3. QED
      BY <3>1, <3>2
  <2>3. ASSUME NEW d \in LotContractKeys, Lot!Publish(d) \/ Lot!Delete(d)
        PROVE  lotRow'[c] \in {lotRow[c], None}
    BY <2>1, <2>3 DEF Lot!Publish, Lot!Delete
  \* The other steps leave the rows alone.
  <2>4. ASSUME NEW w \in LotRequests, NEW d \in LotContractKeys, NEW owner \in LotCompanies,
               NEW start \in Lot!Days, NEW end \in Lot!Days \cup {None}, NEW state \in Lot!Statuses,
               Lot!CheckCreation(w, d, owner, start, end, state)
        PROVE  lotRow' = lotRow
    BY <2>4 DEF Lot!CheckCreation
  <2>5. ASSUME NEW w \in LotRequests, NEW d \in Lot!Existing, NEW r \in Lot!Edits(d),
               Lot!OpenForm(w, d, r)
        PROVE  lotRow' = lotRow
    BY <2>5 DEF Lot!OpenForm
  <2>6. ASSUME NEW w \in LotRequests, Lot!CheckForm(w) \/ Lot!Abandon(w)
        PROVE  lotRow' = lotRow
    BY <2>6 DEF Lot!CheckForm, Lot!Abandon
  <2>7. QED
    BY <2>2, <2>3, <2>4, <2>5, <2>6 DEF Lot!Next
<1>4. QED
  BY <1>1, <1>2, <1>3, LotInvariant, PTL DEF Lot!Spec, Lot!ClosedIsFinal

-----------------------------------------------------------------------------
(***************************************************************************)
(* Conditions of an indicator.  What was checked of a condition when it    *)
(* was saved is of no use: the dates and the threshold have moved.  What   *)
(* holds of the frozen ones is what the approval has checked again.        *)
(***************************************************************************)
ConditionsInv == Evaluations!TypeOK /\ Evaluations!FrozenEvaluationsHold

LEMMA ChangesBounded ==
  MaxChanges \in Nat /\ None \notin Evaluations!Snapshots
  BY InstancesAssumption DEF Evaluations!EvaluationsAssumption

\* A complete window inside the dates can be evaluated over them.
LEMMA ValidIsEvaluable ==
  ASSUME NEW c, Evaluations!ValidThreshold(c, TRUE)
  PROVE  /\ Evaluations!Evaluable(c.window, dates)
         /\ c.groups \subseteq Evaluations!DimensionsOf(c.metric)
  BY DEF Evaluations!ValidThreshold, Evaluations!InDates, Evaluations!Resolved, Evaluations!Custom,
     Evaluations!Evaluable, Evaluations!Supported

\* What the approval freezes can be evaluated, and is served.
LEMMA CompleteIsFrozen ==
  ASSUME ConditionsInv, NEW r \in Revisions, Evaluations!Approve(r)
  PROVE  ConditionsInv'
<1> DEFINE f == [dates |-> dates, threshold |-> threshold[r], penalty |-> penalty[r]]
<1>1. /\ evaluation' = [evaluation EXCEPT ![r] = "approved"]
      /\ conditionsFrozen' = [conditionsFrozen EXCEPT ![r] = f]
      /\ UNCHANGED <<dates, threshold, penalty, changes>>
  BY DEF Evaluations!Approve, Evaluations!conditions
<1>2. f \in Evaluations!Snapshots
  BY DEF ConditionsInv, Evaluations!TypeOK, Evaluations!Snapshots
<1>3. Evaluations!TypeOK'
  <2>1. f # None
    BY <1>2, ChangesBounded
  <2>2. conditionsFrozen' \in [Revisions -> Evaluations!Snapshots \cup {None}]
    BY <1>1, <1>2 DEF ConditionsInv, Evaluations!TypeOK
  <2>3. ASSUME NEW s \in Revisions
        PROVE  conditionsFrozen'[s] # None <=> evaluation'[s] = "approved"
    <3> HIDE DEF f
    <3>1. CASE s = r
      BY <1>1, <2>1, <3>1 DEF ConditionsInv, Evaluations!TypeOK
    <3>2. CASE s # r
      BY <1>1, <3>2 DEF ConditionsInv, Evaluations!TypeOK
    <3>3. QED
      BY <3>1, <3>2
  <2>4. UNCHANGED <<dates, threshold, penalty, changes>>
    BY <1>1
  <2>5. evaluation' \in [Revisions -> {"none", "draft", "approved"}]
    BY <1>1 DEF ConditionsInv, Evaluations!TypeOK
  <2>6. QED
    BY <2>2, <2>3, <2>4, <2>5 DEF ConditionsInv, Evaluations!TypeOK
<1>4. /\ threshold[r] \in Evaluations!Thresholds \cup {None}
      /\ penalty[r] \in Evaluations!Penalties \cup {None}
      /\ threshold[r] # None => Evaluations!ValidThreshold(threshold[r], TRUE)
      /\ penalty[r] # None => Evaluations!ValidPenalty(penalty[r], threshold[r], TRUE)
  BY DEF ConditionsInv, Evaluations!TypeOK, Evaluations!Approve, Evaluations!Complete
<1>5. threshold[r] # None =>
        /\ threshold[r].window.kind # ""
        /\ Evaluations!Evaluable(threshold[r].window, dates)
        /\ threshold[r].groups \subseteq Advertised[threshold[r].metric]
  <2>1. threshold[r] # None => threshold[r].metric # None
    BY <1>4, InstancesAssumption DEF Evaluations!Thresholds, Evaluations!EvaluationsAssumption
  <2>2. QED
    BY <1>4, <2>1, ValidIsEvaluable DEF Evaluations!DimensionsOf, Evaluations!ValidThreshold
<1>6. penalty[r] # None /\ penalty[r].linked =>
        /\ threshold[r] # None
        /\ threshold[r].groups \subseteq Evaluations!DimensionsOf(penalty[r].metric)
  BY <1>4 DEF Evaluations!ValidPenalty
<1>7. penalty[r] # None /\ ~penalty[r].linked =>
        /\ penalty[r].window.kind # ""
        /\ Evaluations!Evaluable(penalty[r].window, dates)
        /\ penalty[r].groups \subseteq Evaluations!DimensionsOf(penalty[r].metric)
  BY <1>4, ValidIsEvaluable DEF Evaluations!ValidPenalty, Evaluations!ValidThreshold
<1>8. Evaluations!FrozenEvaluationsHold'
  <2> SUFFICES ASSUME NEW s \in Revisions, evaluation'[s] = "approved"
               PROVE  LET g == conditionsFrozen'[s]
                          groupsOf(c) == IF c.linked THEN g.threshold.groups ELSE c.groups
                          window(c) == IF c.linked THEN g.threshold.window ELSE c.window
                      IN  /\ Evaluations!Served(g)
                          /\ g.threshold # None =>
                               /\ Evaluations!Evaluable(g.threshold.window, g.dates)
                               /\ g.threshold.groups \subseteq Advertised[g.threshold.metric]
                          /\ g.penalty # None =>
                               /\ Evaluations!Evaluable(window(g.penalty), g.dates)
                               /\ groupsOf(g.penalty) \subseteq
                                    Evaluations!DimensionsOf(g.penalty.metric)
    BY DEF Evaluations!FrozenEvaluationsHold
  <2>1. CASE s = r
    <3>1. conditionsFrozen'[s] = f
      BY <1>1, <2>1 DEF ConditionsInv, Evaluations!TypeOK
    <3>2. f.dates = dates /\ f.threshold = threshold[r] /\ f.penalty = penalty[r]
      OBVIOUS
    <3> HIDE DEF f
    <3>3. CASE penalty[r] = None
      BY <1>5, <3>1, <3>2, <3>3 DEF Evaluations!Served
    <3>4. CASE penalty[r] # None /\ penalty[r].linked
      BY <1>5, <1>6, <3>1, <3>2, <3>4 DEF Evaluations!Served
    <3>5. CASE penalty[r] # None /\ ~penalty[r].linked
      BY <1>5, <1>7, <3>1, <3>2, <3>5 DEF Evaluations!Served
    <3>6. QED
      BY <3>3, <3>4, <3>5
  <2>2. CASE s # r
    <3>1. conditionsFrozen'[s] = conditionsFrozen[s] /\ evaluation[s] = "approved"
      BY <1>1, <2>2 DEF ConditionsInv, Evaluations!TypeOK
    <3>2. QED
      BY <3>1 DEF ConditionsInv, Evaluations!FrozenEvaluationsHold
  <2>3. QED
    BY <2>1, <2>2
<1>9. QED
  BY <1>3, <1>8 DEF ConditionsInv

LEMMA EditIsTyped ==
  ASSUME Evaluations!TypeOK, Evaluations!Edit
  PROVE  changes' \in 0..MaxChanges
<1>1. changes \in 0..MaxChanges
  BY DEF Evaluations!TypeOK
<1>2. QED
  BY <1>1, ChangesBounded DEF Evaluations!Edit

LEMMA ConditionsStep ==
  ASSUME ConditionsInv, [Evaluations!Next]_(Evaluations!vars)
  PROVE  ConditionsInv'
<1>1. ASSUME Evaluations!TypeOK', UNCHANGED conditionsFrozen,
             \A s \in Revisions : evaluation'[s] = "approved" => evaluation[s] = "approved"
      PROVE  ConditionsInv'
  BY <1>1 DEF ConditionsInv, Evaluations!FrozenEvaluationsHold
<1>2. CASE UNCHANGED Evaluations!vars
  BY <1>2 DEF Evaluations!vars, Evaluations!conditions, ConditionsInv, Evaluations!TypeOK,
     Evaluations!FrozenEvaluationsHold
<1>3. ASSUME NEW r \in Revisions, Evaluations!Create(r) \/ Evaluations!DeleteDraft(r)
      PROVE  ConditionsInv'
  <2>1. Evaluations!TypeOK'
    BY <1>3 DEF Evaluations!Create, Evaluations!DeleteDraft, Evaluations!conditions,
       ConditionsInv, Evaluations!TypeOK
  <2>2. QED
    BY <1>1, <1>3, <2>1 DEF Evaluations!Create, Evaluations!DeleteDraft, ConditionsInv,
       Evaluations!TypeOK
<1>4. ASSUME NEW r \in Revisions,
             \/ Evaluations!Unselect(r) \/ Evaluations!DeleteThreshold(r)
             \/ Evaluations!DeletePenalty(r)
      PROVE  ConditionsInv'
  <2>1. changes' \in 0..MaxChanges
    BY <1>4, EditIsTyped DEF Evaluations!Unselect, Evaluations!DeleteThreshold,
       Evaluations!DeletePenalty, ConditionsInv
  <2>2. QED
    BY <1>1, <1>4, <2>1 DEF Evaluations!Unselect, Evaluations!DeleteThreshold,
       Evaluations!DeletePenalty, ConditionsInv, Evaluations!TypeOK
<1>5. ASSUME NEW r \in Revisions, NEW s \in Revisions, Evaluations!CreateReplacement(r, s)
      PROVE  ConditionsInv'
  BY <1>1, <1>5 DEF Evaluations!CreateReplacement, Evaluations!Clone, ConditionsInv,
     Evaluations!TypeOK
<1>6. ASSUME NEW r \in Revisions, NEW t \in Evaluations!Thresholds, Evaluations!SaveThreshold(r, t)
      PROVE  ConditionsInv'
  <2>1. changes' \in 0..MaxChanges
    BY <1>6, EditIsTyped DEF Evaluations!SaveThreshold, ConditionsInv
  <2>2. QED
    BY <1>1, <1>6, <2>1 DEF Evaluations!SaveThreshold, ConditionsInv, Evaluations!TypeOK
<1>7. ASSUME NEW r \in Revisions, NEW p \in Evaluations!Penalties, Evaluations!SavePenalty(r, p)
      PROVE  ConditionsInv'
  <2>1. changes' \in 0..MaxChanges
    BY <1>7, EditIsTyped DEF Evaluations!SavePenalty, ConditionsInv
  <2>2. QED
    BY <1>1, <1>7, <2>1 DEF Evaluations!SavePenalty, ConditionsInv, Evaluations!TypeOK
<1>8. ASSUME NEW d \in Evaluations!Dates,
             Evaluations!UpdateDraftDates(d) \/ Evaluations!AdminMovesDates(d)
      PROVE  ConditionsInv'
  <2>1. changes' \in 0..MaxChanges
    BY <1>8, EditIsTyped DEF Evaluations!UpdateDraftDates, Evaluations!AdminMovesDates,
       ConditionsInv
  <2>2. QED
    BY <1>1, <1>8, <2>1 DEF Evaluations!UpdateDraftDates, Evaluations!AdminMovesDates,
       Evaluations!conditions, ConditionsInv, Evaluations!TypeOK
<1>9. QED
  BY <1>2, <1>3, <1>4, <1>5, <1>6, <1>7, <1>8, CompleteIsFrozen DEF Evaluations!Next

LEMMA ConditionsBegin == Evaluations!Init => ConditionsInv
<1> SUFFICES ASSUME Evaluations!Init PROVE ConditionsInv
  OBVIOUS
<1>1. changes \in 0..MaxChanges
  BY ChangesBounded DEF Evaluations!Init
<1>2. QED
  BY <1>1 DEF Evaluations!Init, ConditionsInv, Evaluations!TypeOK,
     Evaluations!FrozenEvaluationsHold

\* However the dates of the contract and the threshold below a penalty move before
\* and after an approval, what it freezes is typed, and can be evaluated.
THEOREM ConditionsInvariant == Evaluations!Spec => []ConditionsInv
  BY ConditionsBegin, ConditionsStep, PTL DEF Evaluations!Spec

LEMMA EvaluationsAlone == AllSpec => [](part = "evaluations" => ConditionsInv)
<1> DEFINE Here == part = "evaluations" => ConditionsInv
<1>1. AllInit => Here
  BY ConditionsBegin DEF AllInit
<1>2. Here /\ [AllNext]_allVars => Here'
  <2>1. [AllNext]_allVars => part' = part /\ (part = "evaluations" => [Evaluations!Next]_(Evaluations!vars))
    BY DEF AllNext, allVars, evaluationVars, Evaluations!vars, Evaluations!conditions
  <2>2. QED
    BY <2>1, ConditionsStep
<1>3. QED
  BY <1>1, <1>2, PTL DEF AllSpec

\* The conditions an approved revision is evaluated by have finite windows inside
\* the dates frozen with them, are grouped by what their metric advertises, and
\* are served by the ingest (evaluation_snapshot, validate_frozen_evaluations).
THEOREM FrozenConditionsHold == AllSpec => []FrozenEvaluationsHold
<1>1. (part = "evaluations" => ConditionsInv) => FrozenEvaluationsHold
  BY DEF ConditionsInv, FrozenEvaluationsHold
<1>2. QED
  BY <1>1, EvaluationsAlone, PTL

-----------------------------------------------------------------------------
(***************************************************************************)
(* Answers of the ingest.  No two facts are read at once; each was true at *)
(* the statement that read it, and the request goes on only if it was.     *)
(***************************************************************************)
Facts == {"principal", "company", "effective", "grant"}

Calls ==
  [pc : {"idle", "principal", "contract", "grant", "again", "answer", "answered"},
   path : {"v1", "later", "service", None}, of : ClientCompanies \cup {None},
   category : Categories \cup {AnyCategory}, row : Access!Contracts \cup {None},
   answer : Access!Endpoints \cup {None}]

AccessTyped ==
  /\ clock \in 0..LastMoment
  /\ agreed \in Access!Contracts \cup {None}
  /\ call \in Calls
  /\ held \subseteq Facts

\* What a request of a company has passed, was true of it.
PassedHeld ==
  call.of # None =>
    /\ call.path \in {"v1", "later"}
    /\ "principal" \in held
    /\ call.pc \in {"grant", "again", "answer", "answered"} => {"company", "effective"} \subseteq held
    /\ call.pc \in {"again", "answer", "answered"} => "grant" \in held

AnswersOnce == call.answer # None => call.pc = "answered"

AccessInv == AccessTyped /\ PassedHeld /\ AnswersOnce

LEMMA AnswersAllowed == AccessInv => Access!AnsweredWasAllowed
  BY DEF AccessInv, AccessTyped, PassedHeld, AnswersOnce, Access!AnsweredWasAllowed, Facts

LEMMA TrueFacts == Access!True \subseteq Facts
  BY DEF Access!True, Facts

\* By day, the UTC day is the local one, so that the list and the decision compare
\* the dates of a contract with the same day.
LEMMA OneDayByDay ==
  ASSUME clock \in Nat, clock % 2 = 1
  PROVE  Access!UtcDay(clock) = Access!Day(clock)
  BY DEF Access!UtcDay, Access!Day

LEMMA ListDecides ==
  ASSUME AccessInv
  PROVE  Access!ListIsDecision
<1> SUFFICES ASSUME clock % 2 = 1, NEW c \in ClientCompanies, clientStatus[c] = "active"
             PROVE  Access!Listed(c) <=> \E k \in Categories \cup {AnyCategory} : Access!Decision(c, k)
  BY DEF Access!ListIsDecision
<1>1. Access!UtcDay(clock) = Access!Day(clock)
  BY OneDayByDay DEF AccessInv, AccessTyped
<1>2. (\E k \in Categories \cup {AnyCategory} : Access!Granted(c, k)) <=>
        \E g \in Categories \cup {AnyCategory} : Access!InForce(grant[<<c, g>>])
  BY DEF Access!Granted
<1>3. QED
  BY <1>1, <1>2 DEF Access!Listed, Access!Decision, Access!Effective

\* A statement that leaves the request in progress alone.
LEMMA RequestWaits ==
  ASSUME AccessInv, Access!Observe, UNCHANGED call, clock' \in 0..LastMoment,
         agreed' \in Access!Contracts \cup {None}
  PROVE  AccessInv'
<1>1. held' \subseteq Facts /\ (call.of # None => held \subseteq held')
  <2>1. held' \in {{}, held, held \cup Access!True'}
    BY DEF Access!Observe
  <2>2. Access!True' \subseteq Facts
    BY DEF Access!True, Facts
  <2>3. call.of # None => held' \in {held, held \cup Access!True'}
    BY DEF Access!Observe
  <2>4. QED
    BY <2>1, <2>2, <2>3 DEF AccessInv, AccessTyped
<1>2. QED
  BY <1>1 DEF AccessInv, AccessTyped, PassedHeld, AnswersOnce

\* What a statement sees of a request in progress is held from then on.
LEMMA StatementHolds ==
  ASSUME AccessInv, Access!Observe, ~Access!Waiting, UNCHANGED <<clock, agreed, clientStatus, grant>>,
         call'.of = call.of, call'.category = call.category
  PROVE  /\ held' \subseteq Facts
         /\ call.of # None => held \cup Access!True \subseteq held'
<1>1. call.of # None => held' = held \cup Access!True'
  BY DEF Access!Observe
<1>2. call.of = None => held' = {}
  BY DEF Access!Observe
<1>3. Access!True' = Access!True
  BY DEF Access!True, Access!Granted, Access!InForce, Access!InWindow, Access!Effective, Access!Day
<1>4. QED
  BY <1>1, <1>2, <1>3, TrueFacts DEF AccessInv, AccessTyped

\* A request that is refused is over, and nothing is held of it.
LEMMA RefusalEnds ==
  ASSUME AccessInv, Access!Observe, UNCHANGED <<clock, agreed>>, call' = Access!Idle
  PROVE  AccessInv'
<1>1. Access!Idle \in Calls /\ Access!Idle.of = None /\ Access!Idle.answer = None
  BY DEF Access!Idle, Calls
<1>2. held' = {}
  BY <1>1 DEF Access!Observe
<1>3. QED
  BY <1>1, <1>2 DEF AccessInv, AccessTyped, PassedHeld, AnswersOnce

\* A statement of a request in progress that lets it go on: at pc, with what has
\* been seen of it so far.
LEMMA RequestGoesOn ==
  ASSUME AccessInv, Access!Observe, UNCHANGED <<clock, agreed, clientStatus, grant>>,
         NEW pc \in {"contract", "grant", "again", "answer"},
         ~Access!Waiting, call' \in Calls, call'.pc = pc, call'.of = call.of,
         call'.path = call.path, call'.category = call.category, call'.answer = call.answer,
         call.of # None /\ pc \in {"grant", "again", "answer"} =>
           {"company", "effective"} \subseteq held \cup Access!True,
         call.of # None /\ pc \in {"again", "answer"} => "grant" \in held \cup Access!True
  PROVE  AccessInv'
<1>1. held' \subseteq Facts /\ (call.of # None => held \cup Access!True \subseteq held')
  BY StatementHolds
<1>2. call.answer = None
  BY DEF AccessInv, AnswersOnce, Access!Waiting
<1>3. QED
  BY <1>1, <1>2 DEF AccessInv, AccessTyped, PassedHeld, AnswersOnce

LEMMA RequestBegins ==
  ASSUME AccessInv, Access!Observe,
         NEW path \in {"v1", "later"}, NEW c \in ClientCompanies,
         NEW k \in Categories \cup {AnyCategory}, Access!BeginRequest(path, c, k)
  PROVE  AccessInv'
<1> DEFINE new == [Access!Idle EXCEPT !.pc = IF path = "v1" THEN "principal" ELSE "contract",
                                      !.path = path, !.of = c, !.category = k]
<1>1. /\ call' = new /\ UNCHANGED <<clock, agreed, clientStatus, grant>>
      /\ Access!Waiting /\ clientStatus[c] = "active"
  BY DEF Access!BeginRequest, Access!rows
<1>2. /\ new \in Calls /\ new.of = c /\ new.pc \in {"principal", "contract"} /\ new.path = path
      /\ new.answer = None
  BY DEF Access!Idle, Calls
<1>3. c # None
  BY InstancesAssumption DEF Access!AccessAssumption
<1> HIDE DEF new
<1>4. call' # call
  BY <1>1, <1>2 DEF Access!Waiting
<1>5. held' = Access!True'
  BY <1>1, <1>2, <1>3, <1>4 DEF Access!Observe
<1>6. Access!True' \subseteq Facts /\ "principal" \in Access!True'
  BY <1>1, <1>2 DEF Access!True, Facts
<1>7. QED
  BY <1>1, <1>2, <1>5, <1>6 DEF AccessInv, AccessTyped, PassedHeld, AnswersOnce

LEMMA ServiceBegins ==
  ASSUME AccessInv, Access!Observe, NEW k \in Categories, Access!BeginService(k)
  PROVE  AccessInv'
<1> DEFINE new == [Access!Idle EXCEPT !.pc = "contract", !.path = "service", !.category = k]
<1>1. call' = new /\ UNCHANGED <<clock, agreed>>
  BY DEF Access!BeginService, Access!rows
<1>2. new \in Calls /\ new.of = None /\ new.answer = None
  BY DEF Access!Idle, Calls
<1> HIDE DEF new
<1>3. held' = {}
  BY <1>1, <1>2 DEF Access!Observe
<1>4. QED
  BY <1>1, <1>2, <1>3 DEF AccessInv, AccessTyped, PassedHeld, AnswersOnce

LEMMA AnswerHeld ==
  ASSUME AccessInv, Access!Observe, NEW endpoint \in Access!Endpoints, NEW resolved,
         call.pc = "answer", Access!Answer(endpoint, resolved)
  PROVE  AccessInv'
<1> DEFINE new == [Access!Idle EXCEPT !.pc = "answered", !.path = call.path, !.of = call.of,
                                      !.category = call.category, !.answer = endpoint]
<1>1. /\ call' = IF resolved THEN new ELSE Access!Idle
      /\ UNCHANGED <<clock, agreed, clientStatus, grant>>
  BY DEF Access!Answer, Access!rows
<1>2. /\ new \in Calls /\ new.of = call.of /\ new.pc = "answered" /\ new.path = call.path
      /\ new.category = call.category
  BY DEF Access!Idle, Calls, AccessInv, AccessTyped
<1> HIDE DEF new
<1>3. CASE call' = new
  <2>1. held' \subseteq Facts /\ (call.of # None => held \cup Access!True \subseteq held')
    BY <1>1, <1>2, <1>3, StatementHolds DEF Access!Waiting
  <2>2. QED
    BY <1>1, <1>2, <1>3, <2>1 DEF AccessInv, AccessTyped, PassedHeld, AnswersOnce
<1>4. CASE call' = Access!Idle
  BY <1>1, <1>4, RefusalEnds
<1>5. QED
  BY <1>1, <1>3, <1>4

LEMMA AccessStep ==
  ASSUME AccessInv, [Access!Next]_(Access!vars)
  PROVE  AccessInv'
<1>1. CASE UNCHANGED Access!vars
  BY <1>1 DEF Access!vars, AccessInv, AccessTyped, PassedHeld, AnswersOnce
<1> SUFFICES ASSUME Access!Step, Access!Observe PROVE AccessInv'
  BY <1>1 DEF Access!Next
<1>0. clock \in 0..LastMoment /\ LastMoment \in Nat /\ call \in Calls
      /\ agreed \in Access!Contracts \cup {None}
  BY InstancesAssumption DEF AccessInv, AccessTyped, Access!AccessAssumption
<1>2. ASSUME Access!ReadPrincipal PROVE AccessInv'
  <2>1. /\ call.pc = "principal" /\ UNCHANGED <<clock, agreed, clientStatus, grant>>
        /\ call' \in {[call EXCEPT !.pc = "contract"], Access!Idle}
    BY <1>2 DEF Access!ReadPrincipal, Access!Proceed, Access!rows
  <2>2. CASE call' = [call EXCEPT !.pc = "contract"]
    <3>1. /\ call' \in Calls /\ call'.pc = "contract" /\ call'.of = call.of
          /\ call'.path = call.path /\ call'.category = call.category /\ call'.answer = call.answer
      BY <1>0, <2>2 DEF Calls
    <3>2. QED
      BY <2>1, <3>1, RequestGoesOn DEF Access!Waiting
  <2>3. CASE call' = Access!Idle
    BY <2>1, <2>3, RefusalEnds
  <2>4. QED
    BY <2>1, <2>2, <2>3
<1>3. ASSUME Access!ReadContract PROVE AccessInv'
  <2> DEFINE pc == IF call.path = "service" THEN "answer" ELSE "grant"
             new == [call EXCEPT !.row = agreed, !.pc = pc]
  <2>1. call.pc = "contract" /\ UNCHANGED <<clock, agreed, clientStatus, grant>>
    BY <1>3 DEF Access!ReadContract, Access!rows
  <2>2. CASE call' = new /\ agreed # None /\ Access!IsOurs(agreed) /\ Access!Effective(agreed, clock)
    <3>1. /\ new \in Calls /\ new.pc = pc /\ new.of = call.of
          /\ new.path = call.path /\ new.category = call.category /\ new.answer = call.answer
          /\ pc \in {"answer", "grant"}
      BY <1>0 DEF Calls
    <3>2. call.of # None => call.path # "service"
      BY DEF AccessInv, PassedHeld
    <3>3. call.of # None => pc = "grant" /\ {"company", "effective"} \subseteq Access!True
      BY <2>2, <3>2 DEF Access!IsOurs, Access!True
    <3> HIDE DEF pc, new
    <3>4. QED
      BY <2>1, <2>2, <3>1, <3>3, RequestGoesOn DEF Access!Waiting
  <2>3. CASE call' = Access!Idle
    BY <2>1, <2>3, RefusalEnds
  <2>4. QED
    BY <1>3, <2>2, <2>3 DEF Access!ReadContract
<1>4. ASSUME Access!ReadGrant PROVE AccessInv'
  <2> DEFINE pc == IF call.path = "v1" THEN "again" ELSE "answer"
             new == [call EXCEPT !.pc = pc]
  <2>1. call.pc = "grant" /\ UNCHANGED <<clock, agreed, clientStatus, grant>>
    BY <1>4 DEF Access!ReadGrant, Access!Proceed, Access!rows
  <2>2. CASE call' = new /\ Access!Granted(call.of, call.category)
    <3>1. /\ new \in Calls /\ new.pc = pc /\ new.of = call.of
          /\ new.path = call.path /\ new.category = call.category /\ new.answer = call.answer
          /\ pc \in {"again", "answer"}
      BY <1>0 DEF Calls
    <3>2. call.of # None => {"company", "effective"} \subseteq held
      BY <2>1 DEF AccessInv, PassedHeld
    <3>3. "grant" \in Access!True
      BY <2>2 DEF Access!True
    <3> HIDE DEF pc, new
    <3>4. QED
      BY <2>1, <2>2, <3>1, <3>2, <3>3, RequestGoesOn DEF Access!Waiting
  <2>3. CASE call' = Access!Idle
    BY <2>1, <2>3, RefusalEnds
  <2>4. QED
    BY <1>4, <2>2, <2>3 DEF Access!ReadGrant, Access!Proceed
<1>5. ASSUME Access!ReadContractAgain PROVE AccessInv'
  <2> DEFINE new == [call EXCEPT !.pc = "answer", !.row = agreed]
  <2>1. call.pc = "again" /\ UNCHANGED <<clock, agreed, clientStatus, grant>> /\ call' = new
    BY <1>5 DEF Access!ReadContractAgain, Access!rows
  <2>2. /\ new \in Calls /\ new.pc = "answer" /\ new.of = call.of
        /\ new.path = call.path /\ new.category = call.category /\ new.answer = call.answer
    BY <1>0 DEF Calls
  <2>3. call.of # None => {"company", "effective", "grant"} \subseteq held
    BY <2>1 DEF AccessInv, PassedHeld
  <2> HIDE DEF new
  <2>4. QED
    BY <2>1, <2>2, <2>3, RequestGoesOn DEF Access!Waiting
<1>6. ASSUME \/ Access!ContractDetail \/ Access!Publications \/ Access!ContractUsers
             \/ Access!FlowProfile \/ Access!RequiredInputs \/ Access!Indicators
             \/ Access!IngestAuthorization \/ Access!IngestResolution
             \/ Access!ValidationPlan3 \/ Access!ValidationPlan4 \/ Access!ValidationPlan5
      PROVE  AccessInv'
  <2>1. \E endpoint \in Access!Endpoints, resolved \in BOOLEAN :
          call.pc = "answer" /\ Access!Answer(endpoint, resolved)
    <3>1. ASSUME NEW endpoint \in Access!Endpoints, NEW resolved, call.pc = "answer",
                 Access!Answer(endpoint, resolved)
          PROVE  \E r \in BOOLEAN : Access!Answer(endpoint, r)
      <4>1. Access!Answer(endpoint, resolved = TRUE) \/ Access!Answer(endpoint, FALSE)
        BY <3>1 DEF Access!Answer
      <4>2. QED
        BY <4>1
    <3>2. QED
      BY <1>6, <3>1 DEF Access!ContractDetail, Access!Publications, Access!ContractUsers,
         Access!FlowProfile, Access!RequiredInputs, Access!Indicators, Access!IngestAuthorization,
         Access!IngestResolution, Access!ValidationPlan3, Access!ValidationPlan4,
         Access!ValidationPlan5, Access!ValidationPlan, Access!OfContract, Access!Answering,
         Access!Endpoints
  <2>2. QED
    BY <2>1, AnswerHeld
<1>7. ASSUME NEW c \in ClientCompanies, NEW state \in Access!Statuses, NEW span \in AgreedDates,
             Access!CreateContract(c, state, span)
      PROVE  AccessInv'
  <2>1. [company |-> c, status |-> state, dates |-> span] \in Access!Contracts
    BY DEF Access!Contracts
  <2>2. QED
    BY <1>0, <1>7, <2>1, RequestWaits DEF Access!CreateContract
<1>8. ASSUME NEW new \in Access!Contracts, Access!SaveContract(new)
      PROVE  AccessInv'
  BY <1>0, <1>8, RequestWaits DEF Access!SaveContract
<1>9. ASSUME NEW c \in ClientCompanies, NEW state, Access!SavePrincipal(c, state)
      PROVE  AccessInv'
  BY <1>0, <1>9, RequestWaits DEF Access!SavePrincipal
<1>10. ASSUME NEW c \in ClientCompanies, NEW k, NEW g, Access!SaveGrant(c, k, g)
       PROVE  AccessInv'
  BY <1>0, <1>10, RequestWaits DEF Access!SaveGrant
<1>11. ASSUME NEW r \in Effects, Access!TakeEffect(r)
       PROVE  AccessInv'
  BY <1>0, <1>11, RequestWaits DEF Access!TakeEffect
<1>12. ASSUME Access!Pass
       PROVE  AccessInv'
  <2>1. clock' \in 0..LastMoment
    BY <1>0, <1>12 DEF Access!Pass
  <2>2. QED
    BY <1>0, <1>12, <2>1, RequestWaits DEF Access!Pass, Access!rows
<1>13. QED
  BY <1>2, <1>3, <1>4, <1>5, <1>6, <1>7, <1>8, <1>9, <1>10, <1>11, <1>12, RequestBegins,
     ServiceBegins DEF Access!Step

LEMMA AccessBegins == Access!Init => AccessInv
<1>1. Access!Idle \in Calls /\ Access!Idle.of = None /\ Access!Idle.answer = None
  BY DEF Access!Idle, Calls
<1>2. QED
  BY <1>1, InstancesAssumption DEF Access!Init, AccessInv, AccessTyped, PassedHeld, AnswersOnce,
     Access!AccessAssumption

\* The rows a request reads have their types.
GrantsTyped ==
  /\ clientStatus \in [ClientCompanies -> {"none", "active", "suspended", "revoked"}]
  /\ grant \in [ClientCompanies \X (Categories \cup {AnyCategory}) -> Access!Grants \cup {None}]
  /\ current \in Effects \cup {None}
  /\ saves \in 0..MaxSaves

LEMMA SavesBounded ==
  MaxSaves \in Nat /\ [from |-> 0, to |-> LastMoment] \in GrantWindows
  BY InstancesAssumption DEF Access!AccessAssumption

LEMMA GrantsBegin == Access!Init => GrantsTyped
<1> SUFFICES ASSUME Access!Init PROVE GrantsTyped
  OBVIOUS
<1>1. saves \in 0..MaxSaves
  BY SavesBounded DEF Access!Init
<1>2. QED
  BY <1>1 DEF Access!Init, GrantsTyped

LEMMA GrantsStep ==
  ASSUME GrantsTyped, [Access!Next]_(Access!vars)
  PROVE  GrantsTyped'
<1>1. CASE UNCHANGED <<clientStatus, grant, current, saves>>
  BY <1>1 DEF GrantsTyped
<1>2. ASSUME Access!Save PROVE saves' \in 0..MaxSaves
  BY <1>2, SavesBounded DEF Access!Save, GrantsTyped
<1>3. ASSUME NEW c \in ClientCompanies, NEW state, NEW span, Access!CreateContract(c, state, span)
      PROVE  GrantsTyped'
  <2>1. [status |-> "active", window |-> [from |-> 0, to |-> LastMoment]] \in Access!Grants
    BY SavesBounded DEF Access!Grants
  <2>2. UNCHANGED <<clientStatus, current, saves>>
    BY <1>3 DEF Access!CreateContract
  <2>3. grant' = grant \/ grant' = [grant EXCEPT ![<<c, AnyCategory>>] =
                 [status |-> "active", window |-> [from |-> 0, to |-> LastMoment]]]
    BY <1>3 DEF Access!CreateContract
  <2>4. QED
    BY <2>1, <2>2, <2>3 DEF GrantsTyped
<1>4. ASSUME NEW new, Access!SaveContract(new) PROVE GrantsTyped'
  BY <1>2, <1>4 DEF Access!SaveContract, GrantsTyped
<1>5. ASSUME NEW c \in ClientCompanies, NEW state \in {"active", "suspended", "revoked"},
             Access!SavePrincipal(c, state)
      PROVE  GrantsTyped'
  BY <1>2, <1>5 DEF Access!SavePrincipal, GrantsTyped
<1>6. ASSUME NEW c \in ClientCompanies, NEW k \in Categories \cup {AnyCategory},
             NEW g \in Access!Grants, Access!SaveGrant(c, k, g)
      PROVE  GrantsTyped'
  BY <1>2, <1>6 DEF Access!SaveGrant, GrantsTyped
<1>7. ASSUME NEW r \in Effects, Access!TakeEffect(r) PROVE GrantsTyped'
  BY <1>7 DEF Access!TakeEffect, GrantsTyped
<1>8. ASSUME \/ UNCHANGED Access!vars \/ Access!Pass
             \/ \E path, c, k : Access!BeginRequest(path, c, k)
             \/ \E k : Access!BeginService(k)
             \/ Access!ReadPrincipal \/ Access!ReadContract \/ Access!ReadGrant
             \/ Access!ReadContractAgain \/ \E endpoint, resolved : Access!Answer(endpoint, resolved)
      PROVE  GrantsTyped'
  BY <1>1, <1>8 DEF Access!vars, Access!rows, Access!Pass, Access!BeginRequest,
     Access!BeginService, Access!ReadPrincipal, Access!ReadContract, Access!ReadGrant,
     Access!ReadContractAgain, Access!Proceed, Access!Answer
<1>9. ASSUME \/ Access!ContractDetail \/ Access!Publications \/ Access!ContractUsers
             \/ Access!FlowProfile \/ Access!RequiredInputs \/ Access!Indicators
             \/ Access!IngestAuthorization \/ Access!IngestResolution
             \/ Access!ValidationPlan3 \/ Access!ValidationPlan4 \/ Access!ValidationPlan5
      PROVE  \E endpoint, resolved : Access!Answer(endpoint, resolved)
  BY <1>9 DEF Access!ContractDetail, Access!Publications, Access!ContractUsers,
     Access!FlowProfile, Access!RequiredInputs, Access!Indicators, Access!IngestAuthorization,
     Access!IngestResolution, Access!ValidationPlan3, Access!ValidationPlan4,
     Access!ValidationPlan5, Access!ValidationPlan, Access!OfContract
<1>10. QED
  BY <1>3, <1>4, <1>5, <1>6, <1>7, <1>8, <1>9 DEF Access!Next, Access!Step

\* At every moment of a request, what it has passed was true when it was read.
THEOREM AccessInvariant == Access!Spec => []AccessInv
  BY AccessBegins, AccessStep, PTL DEF Access!Spec

LEMMA AccessAlone == AllSpec => [](part = "access" => AccessInv /\ GrantsTyped)
<1> DEFINE Here == part = "access" => AccessInv /\ GrantsTyped
<1>1. AllInit => Here
  BY AccessBegins, GrantsBegin DEF AllInit
<1>2. Here /\ [AllNext]_allVars => Here'
  <2>1. [AllNext]_allVars => part' = part /\ (part = "access" => [Access!Next]_(Access!vars))
    BY DEF AllNext, allVars, accessVars, Access!vars, Access!rows
  <2>2. QED
    BY <2>1, AccessStep, GrantsStep
<1>3. QED
  BY <1>1, <1>2, PTL DEF AllSpec

\* What the client of a company is told, it was allowed to be told, although each
\* fact was read by a statement of its own and the contract may change hands
\* between two of them; and the list of its contracts agrees by day with the
\* decision on each (can_client_ingest_for_contract, the handlers of the API).
THEOREM AccessDecided == AllSpec => []AccessIsDecided
<1>1. (part = "access" => AccessInv /\ GrantsTyped) => AccessIsDecided
  BY AnswersAllowed, ListDecides DEF AccessIsDecided
<1>2. QED
  BY <1>1, AccessAlone, PTL

-----------------------------------------------------------------------------
(***************************************************************************)
(* Memberships of an agency, served one after the other by whichever       *)
(* worker.  A call to Keycloak that has succeeded holds until the row is   *)
(* written, and until then the row is as it was; nothing is known of the   *)
(* groups after a call whose answer was lost.                              *)
(***************************************************************************)
AgencyRequests ==
  [op : {"idle", "accept", "change", "revoke", "login"},
   step : {"idle", "assign", "remove", "write", "cache"},
   role : Agency!Roles \cup {None}, seen : Agency!Rows, token : SUBSET Agency!Roles]

\* The request of a worker has the membership for itself; each request has.
Alone(w) == \A v \in MembershipWorkers \ {w} : agencyRequest[v] = Agency!Idle
InTurn == \A w \in MembershipWorkers : agencyRequest[w] = Agency!Idle \/ Alone(w)

Backed ==
  /\ membership.status = "active" => membership.role \in agencyGroups
  /\ membership.status = "sync_error" => membership.path \in agencyGroups

\* A request of each kind goes through its steps, for a role and on a row.
Underway(r) ==
  \/ r.op = "idle" /\ r.step = "idle"
  \/ r.op = "accept" /\ r.step \in {"assign", "write", "cache"} /\ r.role \in Agency!Roles
  \/ /\ r.op = "change" /\ r.step \in {"assign", "remove", "write"} /\ r.role \in Agency!Roles
     /\ membership.status # "none"
  \/ r.op = "revoke" /\ r.step \in {"remove", "write"} /\ membership.status # "none"
  \/ r.op = "login" /\ r.step = "write"

\* What Keycloak has answered a request.
GroupsHeld(r) ==
  /\ r.op \in {"accept", "change"} /\ r.step \in {"remove", "write"} => r.role \in agencyGroups
  /\ r.op = "login" => r.token = agencyGroups

\* Only a change or a revocation about to be written may have left the row without
\* its group.
RowHeld(r) == ~lost /\ ~(r.op \in {"change", "revoke"} /\ r.step = "write") => Backed

AgencyInv ==
  /\ Agency!TypeOK
  /\ \A w \in MembershipWorkers : Alone(w) =>
       Underway(agencyRequest[w]) /\ GroupsHeld(agencyRequest[w]) /\ RowHeld(agencyRequest[w])
  /\ Agency!Quiet => Backed

LEMMA AgencyTyped ==
  ASSUME Agency!TypeOK
  PROVE  /\ agencyGroups \subseteq Agency!Roles /\ claims \subseteq Agency!Roles
         /\ membership \in Agency!Rows /\ lost \in BOOLEAN
         /\ membership.status = "none" <=> membership.role = None
         /\ agencyRequest \in [MembershipWorkers -> AgencyRequests]
         /\ None \notin Agency!Roles
  BY InstancesAssumption DEF Agency!TypeOK, AgencyRequests, Agency!MembershipsAssumption

LEMMA HighestIsOne ==
  ASSUME NEW S \in SUBSET Agency!Roles, S # {}
  PROVE  Agency!Highest(S) \in S
<1>1. /\ Agency!Roles = {"reader", "editor", "admin"}
      /\ Agency!Rank["reader"] = 0 /\ Agency!Rank["editor"] = 1 /\ Agency!Rank["admin"] = 2
  BY DEF Agency!Roles, Agency!Rank
<1>2. \E r \in S : \A q \in S : Agency!Rank[q] <= Agency!Rank[r]
  <2>1. CASE "admin" \in S
    BY <1>1, <2>1
  <2>2. CASE "admin" \notin S /\ "editor" \in S
    BY <1>1, <2>2
  <2>3. CASE S = {"reader"}
    BY <1>1, <2>3
  <2>4. QED
    BY <1>1, <2>1, <2>2, <2>3
<1>3. QED
  BY <1>2 DEF Agency!Highest

LEMMA MemberIsRow ==
  ASSUME NEW role \in Agency!Roles
  PROVE  /\ Agency!Member(role) \in Agency!Rows
         /\ Agency!Member(role).status = "active" /\ Agency!Member(role).role = role
         /\ None \notin Agency!Roles
  BY InstancesAssumption DEF Agency!Member, Agency!Rows, Agency!MembershipsAssumption

\* The rules of pages, API and services agree, of any claims and any row.
LEMMA RulesAlwaysAgree ==
  ASSUME Agency!TypeOK
  PROVE  Agency!RulesAgree
<1>1. membership.status = "active" => membership.role \in Agency!Roles
  BY AgencyTyped DEF Agency!Rows
<1>2. SUFFICES ASSUME NEW a \in Agency!Standings
               PROVE
    /\ Agency!CanApprove(a) => Agency!CanPrepare(a)
    /\ Agency!CanPrepare(a) => Agency!OpensRevision(a) /\ Agency!ContractPage(a).opens
    /\ Agency!ListsAgency(a) <=> Agency!OpensAgency(a)
    /\ Agency!CreatesContract(a) => Agency!OpensAgency(a)
    /\ \A page \in {Agency!UserPage(a), Agency!AgencyPage(a)} :
         page.opens => /\ page.invites => Agency!InvitesToContract(a)
                       /\ page.secret => Agency!Reveals(a)
    /\ Agency!InvitesToContract(a) =>
         /\ Agency!OpensRevision(a)
         /\ Agency!UserPage(a).invites \/ Agency!AgencyPage(a).invites
    /\ Agency!UserArea(a).contracts => Agency!InvitesToContract(a)
    /\ Agency!UserArea(a).agencies <=> Agency!InvitesToAgency(a)
    /\ Agency!ApiWrites(a) \/ Agency!ApiInvites(a) => Agency!ApiReads(a)
    /\ Agency!ApiReads(a) => Agency!OpensRevision(a)
    /\ Agency!ApiInvites(a) => Agency!InvitesToContract(a)
  BY DEF Agency!RulesAgree
<1>3. /\ a.superuser \in BOOLEAN /\ a.platform \in BOOLEAN /\ a.consults \in BOOLEAN
      /\ a.contract \in {"none", "reader", "editor", "admin"}
  BY DEF Agency!Standings
<1>4. /\ Agency!CanApprove(a) => Agency!CanPrepare(a)
      /\ Agency!CreatesContract(a) => Agency!OpensAgency(a)
      /\ Agency!ApiWrites(a) \/ Agency!ApiInvites(a) => Agency!ApiReads(a)
      /\ Agency!ApiReads(a) => Agency!OpensRevision(a)
      /\ Agency!ApiInvites(a) => Agency!InvitesToContract(a)
      /\ Agency!InvitesToContract(a) => Agency!OpensRevision(a)
      /\ Agency!CanPrepare(a) => Agency!OpensRevision(a)
  BY <1>3 DEF Agency!CanApprove, Agency!CanPrepare, Agency!CreatesContract, Agency!OpensAgency,
     Agency!ApiWrites, Agency!ApiInvites, Agency!ApiReads, Agency!OpensRevision,
     Agency!InvitesToContract, Agency!OpensContract, Agency!Platform, Agency!Scope,
     Agency!InAgency, Agency!Roles
<1>5. Agency!ListsAgency(a) <=> Agency!OpensAgency(a)
  BY <1>1, <1>3 DEF Agency!ListsAgency, Agency!OpensAgency, Agency!InAgency, Agency!Platform
<1>6. /\ Agency!UserPage(a).opens <=> Agency!OpensContract(a)
      /\ Agency!UserPage(a).invites <=> Agency!ManagesContract(a)
      /\ Agency!UserPage(a).secret <=> Agency!Reveals(a)
      /\ Agency!AgencyPage(a).opens <=> Agency!OpensAgency(a)
      /\ Agency!AgencyPage(a).invites <=> Agency!WritesForAgency(a)
      /\ Agency!AgencyPage(a).secret <=> Agency!AdministersAgency(a)
  BY DEF Agency!UserPage, Agency!AgencyPage, Agency!Offers
<1>7. Agency!CanPrepare(a) => Agency!ContractPage(a).opens
  BY <1>3, <1>6 DEF Agency!ContractPage, Agency!CanPrepare, Agency!OpensContract,
     Agency!OpensAgency, Agency!Platform, Agency!Scope, Agency!InAgency, Agency!Roles
<1>8. \A page \in {Agency!UserPage(a), Agency!AgencyPage(a)} :
        page.opens => /\ page.invites => Agency!InvitesToContract(a)
                      /\ page.secret => Agency!Reveals(a)
  <2>1. /\ Agency!ManagesContract(a) \/ Agency!WritesForAgency(a) => Agency!InvitesToContract(a)
        /\ Agency!OpensAgency(a) /\ Agency!AdministersAgency(a) => Agency!Reveals(a)
    BY DEF Agency!ManagesContract, Agency!WritesForAgency, Agency!InvitesToContract,
       Agency!Reveals, Agency!Platform
  <2>2. QED
    BY <1>6, <2>1
<1>9. Agency!InvitesToContract(a) => Agency!UserPage(a).invites \/ Agency!AgencyPage(a).invites
  BY <1>6 DEF Agency!InvitesToContract, Agency!ManagesContract, Agency!WritesForAgency
<1>10. /\ Agency!UserArea(a).contracts => Agency!InvitesToContract(a)
       /\ Agency!UserArea(a).agencies <=> Agency!InvitesToAgency(a)
  BY DEF Agency!UserArea, Agency!WritesForAgency, Agency!AdministersAgency,
     Agency!InvitesToContract, Agency!InvitesToAgency
<1>11. QED
  BY <1>4, <1>5, <1>7, <1>8, <1>9, <1>10

\* A step that leaves the worker, alone at this membership, with the request r.
LEMMA MembershipRequestRuns ==
  ASSUME AgencyInv, NEW w \in MembershipWorkers, Alone(w), NEW r \in AgencyRequests,
         agencyRequest' = [agencyRequest EXCEPT ![w] = r],
         agencyGroups' \subseteq Agency!Roles, claims' \subseteq Agency!Roles,
         membership' \in Agency!Rows, lost' \in BOOLEAN,
         membership'.status = "none" <=> membership'.role = None,
         Underway(r)', GroupsHeld(r)', RowHeld(r)'
  PROVE  AgencyInv'
<1>1. /\ agencyRequest'[w] = r
      /\ \A v \in MembershipWorkers \ {w} : agencyRequest'[v] = Agency!Idle
  BY AgencyTyped DEF AgencyInv, Alone
<1>2. Agency!TypeOK'
  BY AgencyTyped DEF Agency!TypeOK, AgencyInv, AgencyRequests
<1>3. ASSUME NEW v \in MembershipWorkers, Alone(v)' PROVE agencyRequest'[v] = r
  BY <1>1, <1>3 DEF Alone
<1>4. Agency!Quiet' => Backed'
  <2>1. Agency!Quiet' => ~lost' /\ r.op = "idle"
    BY <1>1 DEF Agency!Quiet, Agency!Idle
  <2>2. QED
    BY <2>1 DEF RowHeld
<1>5. QED
  BY <1>2, <1>3, <1>4 DEF AgencyInv, Underway, GroupsHeld, RowHeld

\* A request begins, with no other under way: the row and the groups are as it
\* finds them.
LEMMA MembershipRequestBegins ==
  ASSUME AgencyInv, NEW w \in MembershipWorkers, Alone(w), NEW op, NEW step, NEW role,
         Agency!Begin(w, op, step, role),
         \/ op = "accept" /\ step = "assign" /\ role \in Agency!Roles
         \/ op = "change" /\ step = "assign" /\ role \in Agency!Roles /\ membership.status # "none"
         \/ op = "revoke" /\ step = "remove" /\ role = None /\ membership.status # "none"
         \/ op = "login" /\ step = "write" /\ role = None
  PROVE  AgencyInv'
<1>1. PICK new : new = [op |-> op, step |-> step, role |-> role, seen |-> membership,
                        token |-> agencyGroups]
  OBVIOUS
<1>2. /\ agencyRequest[w] = Agency!Idle /\ agencyRequest' = [agencyRequest EXCEPT ![w] = new]
      /\ UNCHANGED <<agencyGroups, claims, membership, lost>>
  BY <1>1 DEF Agency!Begin
<1>3. agencyRequest[w].op = "idle"
  BY <1>2 DEF Agency!Idle
<1>4. new \in AgencyRequests
  BY <1>1, AgencyTyped DEF AgencyRequests, AgencyInv
<1>5. Underway(new)' /\ GroupsHeld(new)' /\ RowHeld(new)'
  BY <1>1, <1>2, <1>3 DEF AgencyInv, Underway, GroupsHeld, RowHeld, Backed
<1>6. QED
  BY <1>2, <1>4, <1>5, AgencyTyped, MembershipRequestRuns DEF AgencyInv

\* A step of the worker that is alone at this membership.
LEMMA MembershipStepAlone ==
  ASSUME AgencyInv, NEW w \in MembershipWorkers, Alone(w),
         \/ Agency!Arrive(w) \/ Agency!Run(w) \/ Agency!Crash(w)
         \/ (Agency!Refused(w) \/ Agency!AnswerLost(w)) /\ Agency!FailedCall(w)
  PROVE  AgencyInv'
<1> DEFINE r == agencyRequest[w]
           idle == Agency!Idle
<1>0. /\ agencyGroups \subseteq Agency!Roles /\ claims \subseteq Agency!Roles
      /\ membership \in Agency!Rows /\ lost \in BOOLEAN
      /\ membership.status = "none" <=> membership.role = None
      /\ agencyRequest \in [MembershipWorkers -> AgencyRequests]
      /\ None \notin Agency!Roles /\ r \in AgencyRequests
      /\ Underway(r) /\ GroupsHeld(r) /\ RowHeld(r)
  BY AgencyTyped DEF AgencyInv
<1>1. /\ idle \in AgencyRequests /\ idle.op = "idle" /\ idle.step = "idle"
      /\ r.role \in Agency!Roles \cup {None} /\ r.token \subseteq Agency!Roles
  BY <1>0 DEF Agency!Idle, AgencyRequests, Agency!Rows, Agency!NoMembership
<1>2. \A s \in {"remove", "write", "cache"} :
        /\ [r EXCEPT !.step = s] \in AgencyRequests
        /\ [r EXCEPT !.step = s].step = s /\ [r EXCEPT !.step = s].op = r.op
        /\ [r EXCEPT !.step = s].role = r.role /\ [r EXCEPT !.step = s].token = r.token
  BY <1>0 DEF AgencyRequests
<1> HIDE DEF idle
<1>4. ASSUME Agency!Arrive(w) PROVE AgencyInv'
  <2>1. ASSUME NEW role \in Agency!Roles, Agency!BeginAccept(w, role) PROVE AgencyInv'
    <3> DEFINE kept == IF membership.status # "none" /\ Agency!Rank[membership.role] > Agency!Rank[role]
                       THEN membership.role ELSE role
    <3>1. kept \in Agency!Roles
      BY <1>0 DEF Agency!Rows
    <3>2. Agency!Begin(w, "accept", "assign", kept)
      BY <2>1 DEF Agency!BeginAccept
    <3>3. QED
      BY <3>1, <3>2, MembershipRequestBegins
  <2>2. ASSUME NEW role \in Agency!Roles, Agency!BeginChange(w, role) PROVE AgencyInv'
    BY <2>2, MembershipRequestBegins DEF Agency!BeginChange
  <2>3. ASSUME Agency!BeginRevoke(w) PROVE AgencyInv'
    BY <2>3, MembershipRequestBegins DEF Agency!BeginRevoke
  <2>4. ASSUME Agency!BeginLogin(w) PROVE AgencyInv'
    BY <2>4, MembershipRequestBegins DEF Agency!BeginLogin
  <2>5. QED
    BY <1>4, <2>1, <2>2, <2>3, <2>4 DEF Agency!Arrive
<1>5. ASSUME Agency!AssignGroup(w) PROVE AgencyInv'
  <2>1. PICK s \in {"remove", "write"} : s = IF r.op = "change" THEN "remove" ELSE "write"
    OBVIOUS
  <2>2. PICK new \in AgencyRequests :
          /\ new = [r EXCEPT !.step = s]
          /\ new.step = s /\ new.op = r.op /\ new.role = r.role /\ new.token = r.token
    BY <1>2
  <2>3. /\ r.step = "assign" /\ agencyGroups' = agencyGroups \cup {r.role}
        /\ agencyRequest' = [agencyRequest EXCEPT ![w] = new]
        /\ UNCHANGED <<claims, membership, lost>>
    BY <1>5, <2>1, <2>2 DEF Agency!AssignGroup, Agency!At, Agency!GoTo
  <2>4. r.op \in {"accept", "change"} /\ r.role \in Agency!Roles
    BY <1>0, <2>3 DEF Underway
  <2>5. Underway(new)' /\ GroupsHeld(new)' /\ RowHeld(new)'
    BY <1>0, <2>1, <2>3, <2>4, <2>2 DEF Underway, GroupsHeld, RowHeld, Backed
  <2>6. QED
    BY <1>0, <2>3, <2>4, <2>2, <2>5, MembershipRequestRuns
<1>6. ASSUME Agency!RemoveGroup(w) PROVE AgencyInv'
  <2>1. PICK new \in AgencyRequests :
          /\ new = [r EXCEPT !.step = "write"]
          /\ new.step = "write" /\ new.op = r.op /\ new.role = r.role
    BY <1>2
  <2>2. /\ r.step = "remove" /\ agencyGroups' = agencyGroups \ Agency!RemovedGroup(w)
        /\ agencyRequest' = [agencyRequest EXCEPT ![w] = new]
        /\ UNCHANGED <<claims, membership, lost>>
    BY <1>6, <2>1 DEF Agency!RemoveGroup, Agency!At, Agency!GoTo
  <2>3. /\ r.op \in {"change", "revoke"} /\ membership.status # "none"
        /\ r.op = "change" => r.role \in agencyGroups'
        /\ r.op = "change" => r.role \in Agency!Roles
    BY <1>0, <2>2 DEF Underway, GroupsHeld, Agency!RemovedGroup
  <2>4. Underway(new)' /\ GroupsHeld(new)' /\ RowHeld(new)'
    BY <2>2, <2>3, <2>1 DEF Underway, GroupsHeld, RowHeld
  <2>5. QED
    BY <1>0, <2>2, <2>1, <2>4, MembershipRequestRuns
<1>7. ASSUME Agency!WriteMembership(w) PROVE AgencyInv'
  <2>1. /\ r.step = "write" /\ r.op \in {"accept", "change", "revoke"}
        /\ membership' = IF r.op = "revoke" THEN [membership EXCEPT !.status = "revoked"]
                         ELSE Agency!Member(r.role)
        /\ UNCHANGED <<agencyGroups, claims, lost>>
    BY <1>7 DEF Agency!WriteMembership, Agency!At
  <2>2. CASE r.op = "revoke"
    <3>1. agencyRequest' = [agencyRequest EXCEPT ![w] = idle]
      BY <1>7, <2>2 DEF Agency!WriteMembership, Agency!Finish, idle
    <3>2. /\ membership' \in Agency!Rows /\ membership'.status = "revoked"
          /\ membership'.role = membership.role
      BY <1>0, <2>1, <2>2 DEF Agency!Rows
    <3>3. membership.status # "none"
      BY <1>0, <2>2 DEF Underway
    <3>4. Underway(idle)' /\ GroupsHeld(idle)' /\ RowHeld(idle)'
      BY <1>1, <3>2 DEF Underway, GroupsHeld, RowHeld, Backed
    <3>5. QED
      BY <1>0, <1>1, <2>1, <3>1, <3>2, <3>3, <3>4, MembershipRequestRuns
  <2>3. CASE r.op \in {"accept", "change"}
    <3>1. r.role \in Agency!Roles /\ r.role \in agencyGroups
      BY <1>0, <2>1, <2>3 DEF Underway, GroupsHeld
    <3>2. /\ membership' \in Agency!Rows /\ membership'.status = "active"
          /\ membership'.role = r.role /\ membership'.role # None
      BY <2>1, <2>3, <3>1, MemberIsRow
    <3>3. CASE r.op = "change"
      <4>1. agencyRequest' = [agencyRequest EXCEPT ![w] = idle]
        BY <1>7, <3>3 DEF Agency!WriteMembership, Agency!Finish, idle
      <4>2. Underway(idle)' /\ GroupsHeld(idle)' /\ RowHeld(idle)'
        BY <1>1, <2>1, <3>1, <3>2 DEF Underway, GroupsHeld, RowHeld, Backed
      <4>3. QED
        BY <1>0, <1>1, <2>1, <3>2, <4>1, <4>2, MembershipRequestRuns
    <3>4. CASE r.op = "accept"
      <4>1. PICK new \in AgencyRequests :
              /\ new = [r EXCEPT !.step = "cache"]
              /\ new.step = "cache" /\ new.op = r.op /\ new.role = r.role
        BY <1>2
      <4>2. agencyRequest' = [agencyRequest EXCEPT ![w] = new]
        BY <1>7, <3>4, <4>1 DEF Agency!WriteMembership, Agency!GoTo
      <4>3. Underway(new)' /\ GroupsHeld(new)' /\ RowHeld(new)'
        BY <2>1, <3>1, <3>2, <3>4, <4>1 DEF Underway, GroupsHeld, RowHeld, Backed
      <4>4. QED
        BY <1>0, <2>1, <3>2, <4>2, <4>1, <4>3, MembershipRequestRuns
    <3>5. QED
      BY <2>3, <3>3, <3>4
  <2>4. QED
    BY <2>1, <2>2, <2>3
<1>8. ASSUME Agency!CacheGroup(w) PROVE AgencyInv'
  <2>1. /\ r.step = "cache" /\ claims' = claims \cup {r.role}
        /\ agencyRequest' = [agencyRequest EXCEPT ![w] = idle]
        /\ UNCHANGED <<agencyGroups, membership, lost>>
    BY <1>8 DEF Agency!CacheGroup, Agency!At, Agency!Finish, idle
  <2>2. r.role \in Agency!Roles
    BY <1>0, <2>1 DEF Underway
  <2>3. Underway(idle)' /\ GroupsHeld(idle)' /\ RowHeld(idle)'
    BY <1>0, <1>1, <2>1 DEF Underway, GroupsHeld, RowHeld, Backed
  <2>4. QED
    BY <1>0, <1>1, <2>1, <2>2, <2>3, MembershipRequestRuns
<1>9. ASSUME Agency!Login(w) PROVE AgencyInv'
  <2>1. /\ r.step = "write" /\ r.op = "login" /\ claims' = r.token
        /\ membership' = Agency!Mirrored(r.token)
        /\ agencyRequest' = [agencyRequest EXCEPT ![w] = idle]
        /\ UNCHANGED <<agencyGroups, lost>>
    BY <1>9 DEF Agency!Login, Agency!At, Agency!Finish, idle
  <2>2. r.token = agencyGroups
    BY <1>0, <2>1 DEF GroupsHeld
  <2>3. \/ membership' = membership
        \/ /\ membership' = Agency!Member(Agency!Highest(r.token))
           /\ Agency!Highest(r.token) \in r.token
    BY <1>1, <2>1, HighestIsOne DEF Agency!Mirrored
  <2>4. /\ membership' \in Agency!Rows
        /\ membership'.status = "none" <=> membership'.role = None
        /\ membership' = membership \/
             (membership'.status = "active" /\ membership'.role \in agencyGroups)
    BY <1>0, <1>1, <2>2, <2>3, MemberIsRow
  <2>5. Underway(idle)' /\ GroupsHeld(idle)' /\ RowHeld(idle)'
    BY <1>0, <1>1, <2>1, <2>4 DEF Underway, GroupsHeld, RowHeld, Backed
  <2>6. QED
    BY <1>0, <1>1, <2>1, <2>4, <2>5, MembershipRequestRuns
<1>10. ASSUME Agency!Crash(w) PROVE AgencyInv'
  <2>1. /\ agencyRequest' = [agencyRequest EXCEPT ![w] = idle] /\ lost' = TRUE
        /\ UNCHANGED <<agencyGroups, claims, membership>>
    BY <1>10 DEF Agency!Crash, Agency!Finish, idle
  <2>2. Underway(idle)' /\ GroupsHeld(idle)' /\ RowHeld(idle)'
    BY <1>1, <2>1 DEF Underway, GroupsHeld, RowHeld
  <2>3. QED
    BY <1>0, <1>1, <2>1, <2>2, MembershipRequestRuns
<1>11. ASSUME Agency!Refused(w) \/ Agency!AnswerLost(w), Agency!FailedCall(w) PROVE AgencyInv'
  <2>1. /\ r.step \in {"assign", "remove"} /\ UNCHANGED claims
        /\ agencyRequest' = [agencyRequest EXCEPT ![w] = idle]
        /\ membership' = IF r.op = "change" /\ r.step = "remove"
                         THEN [membership EXCEPT !.status = "sync_error", !.path = r.role]
                         ELSE membership
    BY <1>11 DEF Agency!FailedCall, Agency!At, Agency!Finish, idle
  <2>2. r.op = "change" => membership.status # "none" /\ r.role \in Agency!Roles
    BY <1>0, <2>1 DEF Underway
  <2>3. r.step = "assign" => r.role \in Agency!Roles
    BY <1>0 DEF Underway
  <2>4. agencyGroups' \subseteq Agency!Roles /\ lost' \in BOOLEAN
    BY <1>0, <1>11, <2>1, <2>3 DEF Agency!Refused, Agency!AnswerLost, Agency!At
  <2>5. /\ membership' \in Agency!Rows /\ membership'.role = membership.role
        /\ membership'.status = "none" <=> membership.status = "none"
        /\ \/ membership' = membership
           \/ /\ membership'.status = "sync_error" /\ membership'.path = r.role
              /\ r.op = "change" /\ r.step = "remove"
    BY <1>0, <2>1, <2>2 DEF Agency!Rows
  <2>6. ~lost' => UNCHANGED <<agencyGroups, lost>>
    BY <1>11 DEF Agency!Refused, Agency!AnswerLost
  <2>7. r.op = "change" /\ r.step = "remove" => r.role \in agencyGroups
    BY <1>0 DEF GroupsHeld
  <2>8. r.step # "write"
    BY <2>1
  <2>9. Underway(idle)' /\ GroupsHeld(idle)' /\ RowHeld(idle)'
    BY <1>0, <1>1, <2>5, <2>6, <2>7, <2>8 DEF Underway, GroupsHeld, RowHeld, Backed
  <2>10. QED
    BY <1>0, <1>1, <2>1, <2>4, <2>5, <2>9, MembershipRequestRuns
<1>12. QED
  BY <1>4, <1>5, <1>6, <1>7, <1>8, <1>9, <1>10, <1>11 DEF Agency!Run

\* A step that leaves every request where it is: nothing is known any more, or
\* nothing has changed.
LEMMA MembershipRestStays ==
  ASSUME AgencyInv, UNCHANGED <<agencyGroups, claims, agencyRequest>>,
         membership' \in Agency!Rows, lost' \in BOOLEAN,
         membership'.status = "none" <=> membership'.role = None,
         membership'.status = "none" => membership.status = "none",
         lost' \/ UNCHANGED <<membership, lost>>
  PROVE  AgencyInv'
<1>1. Agency!TypeOK'
  BY DEF Agency!TypeOK, AgencyInv
<1>2. ASSUME NEW w \in MembershipWorkers, Alone(w)'
      PROVE  (Underway(agencyRequest[w]) /\ GroupsHeld(agencyRequest[w]) /\ RowHeld(agencyRequest[w]))'
  <2>1. Underway(agencyRequest[w]) /\ GroupsHeld(agencyRequest[w]) /\ RowHeld(agencyRequest[w])
    BY <1>2 DEF AgencyInv, Alone
  <2>2. QED
    BY <2>1 DEF Underway, GroupsHeld, RowHeld, Backed
<1>3. Agency!Quiet' => Backed'
  BY DEF AgencyInv, Agency!Quiet, Backed
<1>4. QED
  BY <1>1, <1>2, <1>3 DEF AgencyInv

LEMMA SyncCommandStep ==
  ASSUME AgencyInv, NEW authoritative \in BOOLEAN, Agency!SyncCommand(authoritative)
  PROVE  AgencyInv'
<1>0. /\ claims \subseteq Agency!Roles /\ membership \in Agency!Rows
      /\ membership.status = "none" <=> membership.role = None
      /\ None \notin Agency!Roles
  BY AgencyTyped DEF AgencyInv
<1>1. /\ lost' = TRUE /\ UNCHANGED <<agencyGroups, claims, agencyRequest>>
      /\ \/ membership' = membership
         \/ membership.status = "active" /\ membership' = [membership EXCEPT !.status = "revoked"]
         \/ /\ membership' = Agency!Member(Agency!Highest(claims))
            /\ Agency!Highest(claims) \in claims
  BY <1>0, HighestIsOne DEF Agency!SyncCommand, Agency!Mirrored
<1>2. CASE membership' = membership
  BY <1>0, <1>1, <1>2, MembershipRestStays
<1>3. CASE membership.status = "active" /\ membership' = [membership EXCEPT !.status = "revoked"]
  <2>1. /\ membership' \in Agency!Rows /\ membership'.status = "revoked"
        /\ membership'.role = membership.role
    BY <1>0, <1>3 DEF Agency!Rows
  <2>2. QED
    BY <1>0, <1>1, <1>3, <2>1, MembershipRestStays
<1>4. CASE membership' = Agency!Member(Agency!Highest(claims)) /\ Agency!Highest(claims) \in claims
  <2>1. /\ membership' \in Agency!Rows /\ membership'.status = "active"
        /\ membership'.role # None
    BY <1>0, <1>4, MemberIsRow
  <2>2. QED
    BY <1>1, <2>1, MembershipRestStays
<1>5. QED
  BY <1>1, <1>2, <1>3, <1>4

\* Whoever moves is alone: a request that arrives finds no other, since none is
\* under way beside it afterwards.
LEMMA WhoMovesIsAlone ==
  ASSUME AgencyInv, InTurn, InTurn', NEW w \in MembershipWorkers,
         \/ Agency!Arrive(w) \/ Agency!Run(w) \/ Agency!Crash(w)
         \/ (Agency!Refused(w) \/ Agency!AnswerLost(w)) /\ Agency!FailedCall(w)
  PROVE  Alone(w)
<1>1. CASE agencyRequest[w] # Agency!Idle
  BY <1>1 DEF InTurn
<1>2. CASE agencyRequest[w] = Agency!Idle
  <2>1. agencyRequest[w].step = "idle"
    BY <1>2 DEF Agency!Idle
  <2>2. Agency!Arrive(w)
    BY <1>2, <2>1 DEF Agency!Run, Agency!Crash, Agency!FailedCall, Agency!At, Agency!AssignGroup,
       Agency!RemoveGroup, Agency!WriteMembership, Agency!CacheGroup, Agency!Login
  <2>3. PICK op \in {"accept", "change", "revoke", "login"} :
          \E step, role : Agency!Begin(w, op, step, role)
    BY <2>2 DEF Agency!Arrive, Agency!BeginAccept, Agency!BeginChange, Agency!BeginRevoke,
       Agency!BeginLogin
  <2>4. /\ agencyRequest'[w].op = op
        /\ \A v \in MembershipWorkers \ {w} : agencyRequest'[v] = agencyRequest[v]
    BY <2>3, AgencyTyped DEF AgencyInv, Agency!Begin
  <2>5. agencyRequest'[w] # Agency!Idle
    BY <2>4 DEF Agency!Idle
  <2>6. QED
    BY <2>4, <2>5 DEF InTurn, Alone
<1>3. QED
  BY <1>1, <1>2

LEMMA MembershipStep ==
  ASSUME AgencyInv, InTurn, InTurn', [Agency!Next]_(Agency!vars)
  PROVE  AgencyInv'
<1>1. CASE UNCHANGED Agency!vars
  BY <1>1, AgencyTyped, MembershipRestStays DEF Agency!vars, AgencyInv
<1>2. ASSUME NEW w \in MembershipWorkers,
             \/ Agency!Arrive(w) \/ Agency!Run(w) \/ Agency!Crash(w)
             \/ (Agency!Refused(w) \/ Agency!AnswerLost(w)) /\ Agency!FailedCall(w)
      PROVE  AgencyInv'
  BY <1>2, WhoMovesIsAlone, MembershipStepAlone
<1>3. QED
  BY <1>1, <1>2, SyncCommandStep DEF Agency!Next

LEMMA AllIdle == Agency!Init => \A w \in MembershipWorkers : Alone(w) /\ Underway(agencyRequest[w])
  BY DEF Agency!Init, Agency!Idle, Alone, Underway

LEMMA MembershipBegins == Agency!Init => AgencyInv
<1>1. /\ Agency!Idle \in AgencyRequests /\ Agency!Idle.op = "idle" /\ Agency!Idle.step = "idle"
      /\ Agency!NoMembership \in Agency!Rows /\ Agency!NoMembership.status = "none"
      /\ Agency!NoMembership.role = None
  BY DEF Agency!Idle, AgencyRequests, Agency!Rows, Agency!NoMembership
<1>2. QED
  BY <1>1 DEF Agency!Init, AgencyInv, Agency!TypeOK, AgencyRequests, Underway, GroupsHeld, RowHeld,
     Backed

\* As long as the requests on a membership follow each other, by any number of
\* workers, whatever Keycloak refuses, answers too late or never answers, and
\* wherever a worker dies: a membership is written for a group that was given, and a
\* row left behind by a failure names its group.
THEOREM MembershipInvariant == Agency!Spec /\ []InTurn => []AgencyInv
<1>1. AgencyInv /\ InTurn /\ InTurn' /\ [Agency!Next]_(Agency!vars) => AgencyInv'
  BY MembershipStep
<1>2. QED
  BY <1>1, MembershipBegins, PTL DEF Agency!Spec

\* One worker is always alone.
LEMMA OneWorkerIsInTurn ==
  ASSUME NEW w, MembershipWorkers = {w}
  PROVE  InTurn
  BY DEF InTurn, Alone

\* A revocation takes away the group its row names.  While no answer is lost, the row
\* is as the request that is alone has read it; and a revoked row names no group of
\* the user, but for what an acceptance or a change has just given again.
Gone == membership.path \notin agencyGroups
Gives(r) == r.op \in {"accept", "change"} /\ r.step \in {"remove", "write"}

RevocationHeld(r) ==
  ~lost =>
    /\ r.op \in {"change", "revoke"} => r.seen = membership
    /\ r.op = "revoke" /\ r.step = "write" => Gone
    /\ membership.status = "revoked" /\ ~Gives(r) => Gone

RevokedGivesNothing == Agency!Quiet => (membership.status = "revoked" => Gone)

RevocationInv ==
  /\ AgencyInv
  /\ \A w \in MembershipWorkers : Alone(w) => RevocationHeld(agencyRequest[w])
  /\ RevokedGivesNothing

LEMMA RevocationRuns ==
  ASSUME RevocationInv, NEW w \in MembershipWorkers, Alone(w), NEW r, AgencyInv',
         agencyRequest' = [agencyRequest EXCEPT ![w] = r], RevocationHeld(r)'
  PROVE  RevocationInv'
<1>1. /\ agencyRequest'[w] = r
      /\ \A v \in MembershipWorkers \ {w} : agencyRequest'[v] = Agency!Idle
  BY AgencyTyped DEF RevocationInv, AgencyInv, Alone
<1>2. ASSUME NEW v \in MembershipWorkers, Alone(v)' PROVE agencyRequest'[v] = r
  BY <1>1, <1>2 DEF Alone
<1>3. Agency!Quiet' => ~lost' /\ r.op = "idle"
  BY <1>1 DEF Agency!Quiet, Agency!Idle
<1>4. RevokedGivesNothing'
  BY <1>3 DEF RevokedGivesNothing, RevocationHeld, Gives
<1>5. QED
  BY <1>2, <1>4 DEF RevocationInv, RevocationHeld, Gone, Gives

LEMMA RevocationStepAlone ==
  ASSUME RevocationInv, NEW w \in MembershipWorkers, Alone(w), AgencyInv',
         \/ Agency!Arrive(w) \/ Agency!Run(w) \/ Agency!Crash(w)
         \/ (Agency!Refused(w) \/ Agency!AnswerLost(w)) /\ Agency!FailedCall(w)
  PROVE  RevocationInv'
<1> DEFINE r == agencyRequest[w]
           idle == Agency!Idle
<1>0. /\ agencyGroups \subseteq Agency!Roles /\ membership \in Agency!Rows /\ lost \in BOOLEAN
      /\ None \notin Agency!Roles /\ r \in AgencyRequests
      /\ Underway(r) /\ GroupsHeld(r) /\ RevocationHeld(r)
  BY AgencyTyped DEF AgencyInv, RevocationInv
<1>1. /\ idle.op = "idle" /\ idle.step = "idle"
      /\ \A s \in {"remove", "write", "cache"} :
           /\ [r EXCEPT !.step = s].step = s /\ [r EXCEPT !.step = s].op = r.op
           /\ [r EXCEPT !.step = s].role = r.role /\ [r EXCEPT !.step = s].seen = r.seen
  BY <1>0 DEF Agency!Idle, AgencyRequests
<1> HIDE DEF idle
<1>2. ASSUME NEW op, NEW step, NEW role, op # "idle", Agency!Begin(w, op, step, role),
             step = "write" => op = "login", step # "remove" \/ op = "revoke"
      PROVE  RevocationInv'
  <2>1. PICK new : new = [op |-> op, step |-> step, role |-> role, seen |-> membership,
                          token |-> agencyGroups]
    OBVIOUS
  <2>2. /\ r = idle /\ agencyRequest' = [agencyRequest EXCEPT ![w] = new]
        /\ UNCHANGED <<agencyGroups, membership, lost>>
    BY <1>2, <2>1 DEF Agency!Begin, idle
  <2>3. RevocationHeld(new)'
    BY <1>0, <1>1, <1>2, <2>1, <2>2 DEF RevocationHeld, Gives, Gone
  <2>4. QED
    BY <2>2, <2>3, RevocationRuns
<1>3. ASSUME Agency!Arrive(w) PROVE RevocationInv'
  BY <1>2, <1>3 DEF Agency!Arrive, Agency!BeginAccept, Agency!BeginChange, Agency!BeginRevoke,
     Agency!BeginLogin
<1>4. ASSUME Agency!AssignGroup(w) PROVE RevocationInv'
  <2>1. PICK s \in {"remove", "write"} : s = IF r.op = "change" THEN "remove" ELSE "write"
    OBVIOUS
  <2>2. PICK new : /\ new = [r EXCEPT !.step = s] /\ new.step = s
                   /\ new.op = r.op /\ new.seen = r.seen
    BY <1>1
  <2>3. /\ r.step = "assign" /\ agencyRequest' = [agencyRequest EXCEPT ![w] = new]
        /\ UNCHANGED <<membership, lost>>
    BY <1>4, <2>1, <2>2 DEF Agency!AssignGroup, Agency!At, Agency!GoTo
  <2>4. Gives(new) /\ new.op # "revoke"
    BY <1>0, <2>2, <2>3 DEF Underway, Gives
  <2>5. RevocationHeld(new)'
    BY <1>0, <2>2, <2>3, <2>4 DEF RevocationHeld, Gives
  <2>6. QED
    BY <2>3, <2>5, RevocationRuns
<1>5. ASSUME Agency!RemoveGroup(w) PROVE RevocationInv'
  <2>1. PICK new : /\ new = [r EXCEPT !.step = "write"] /\ new.step = "write"
                   /\ new.op = r.op /\ new.seen = r.seen
    BY <1>1
  <2>2. /\ r.step = "remove" /\ agencyGroups' = agencyGroups \ Agency!RemovedGroup(w)
        /\ agencyRequest' = [agencyRequest EXCEPT ![w] = new] /\ UNCHANGED <<membership, lost>>
    BY <1>5, <2>1 DEF Agency!RemoveGroup, Agency!At, Agency!GoTo
  <2>3. ~lost /\ r.op = "revoke" => Gone'
    BY <1>0, <2>2 DEF RevocationHeld, Gone, Agency!RemovedGroup
  <2>4. r.op \in {"change", "revoke"}
    BY <1>0, <2>2 DEF Underway
  <2>5. RevocationHeld(new)'
    BY <1>0, <2>1, <2>2, <2>3, <2>4 DEF RevocationHeld, Gives
  <2>6. QED
    BY <2>2, <2>5, RevocationRuns
<1>6. ASSUME Agency!WriteMembership(w) PROVE RevocationInv'
  <2>1. /\ r.step = "write" /\ r.op \in {"accept", "change", "revoke"}
        /\ membership' = IF r.op = "revoke" THEN [membership EXCEPT !.status = "revoked"]
                         ELSE Agency!Member(r.role)
        /\ UNCHANGED <<agencyGroups, lost>>
    BY <1>6 DEF Agency!WriteMembership, Agency!At
  <2>2. PICK new : /\ agencyRequest' = [agencyRequest EXCEPT ![w] = new]
                   /\ new.op \notin {"change", "revoke"}
    BY <1>1, <1>6 DEF Agency!WriteMembership, Agency!Finish, Agency!GoTo, idle
  <2>3. CASE r.op = "revoke"
    <3>1. membership'.path = membership.path
      BY <1>0, <2>1, <2>3 DEF Agency!Rows
    <3>2. RevocationHeld(new)'
      BY <1>0, <2>1, <2>2, <2>3, <3>1 DEF RevocationHeld, Gone
    <3>3. QED
      BY <2>2, <3>2, RevocationRuns
  <2>4. CASE r.op # "revoke"
    <3>1. membership'.status = "active"
      BY <2>1, <2>4 DEF Agency!Member
    <3>2. RevocationHeld(new)'
      BY <2>2, <3>1 DEF RevocationHeld
    <3>3. QED
      BY <2>2, <3>2, RevocationRuns
  <2>5. QED
    BY <2>3, <2>4
<1>7. ASSUME Agency!CacheGroup(w) PROVE RevocationInv'
  <2>1. /\ r.step = "cache" /\ agencyRequest' = [agencyRequest EXCEPT ![w] = idle]
        /\ UNCHANGED <<agencyGroups, membership, lost>>
    BY <1>7 DEF Agency!CacheGroup, Agency!At, Agency!Finish, idle
  <2>2. RevocationHeld(idle)'
    BY <1>0, <1>1, <2>1 DEF RevocationHeld, Gives, Gone
  <2>3. QED
    BY <2>1, <2>2, RevocationRuns
<1>8. ASSUME Agency!Login(w) PROVE RevocationInv'
  <2>1. /\ r.op = "login" /\ agencyRequest' = [agencyRequest EXCEPT ![w] = idle]
        /\ membership' = membership \/ membership'.status = "active"
        /\ UNCHANGED <<agencyGroups, lost>>
    BY <1>8 DEF Agency!Login, Agency!Finish, Agency!Mirrored, Agency!Member, idle
  <2>2. RevocationHeld(idle)'
    BY <1>0, <1>1, <2>1 DEF RevocationHeld, Gives, Gone
  <2>3. QED
    BY <2>1, <2>2, RevocationRuns
<1>9. ASSUME Agency!Crash(w) PROVE RevocationInv'
  <2>1. agencyRequest' = [agencyRequest EXCEPT ![w] = idle] /\ lost' = TRUE
    BY <1>9 DEF Agency!Crash, Agency!Finish, idle
  <2>2. QED
    BY <2>1, RevocationRuns DEF RevocationHeld
\* A call refused changes nothing, but that a change leaves its trace on the row.
<1>10. ASSUME Agency!Refused(w) \/ Agency!AnswerLost(w), Agency!FailedCall(w)
       PROVE  RevocationInv'
  <2>1. /\ r.step \in {"assign", "remove"}
        /\ agencyRequest' = [agencyRequest EXCEPT ![w] = idle]
        /\ lost' \/ UNCHANGED <<agencyGroups, lost>>
        /\ membership' = IF r.op = "change" /\ r.step = "remove"
                         THEN [membership EXCEPT !.status = "sync_error", !.path = r.role]
                         ELSE membership
    BY <1>10 DEF Agency!FailedCall, Agency!Refused, Agency!AnswerLost, Agency!At, Agency!Finish, idle
  <2>2. CASE r.op = "change" /\ r.step = "remove"
    <3>1. membership'.status = "sync_error"
      BY <1>0, <2>1, <2>2 DEF Agency!Rows
    <3>2. QED
      BY <1>1, <2>1, <3>1, RevocationRuns DEF RevocationHeld
  <2>3. CASE ~(r.op = "change" /\ r.step = "remove")
    <3>1. membership' = membership /\ ~Gives(r)
      BY <1>0, <2>1, <2>3 DEF Underway, Gives
    <3>2. RevocationHeld(idle)'
      BY <1>0, <1>1, <2>1, <3>1 DEF RevocationHeld, Gone
    <3>3. QED
      BY <2>1, <3>2, RevocationRuns
  <2>4. QED
    BY <2>2, <2>3
<1>11. QED
  BY <1>3, <1>4, <1>5, <1>6, <1>7, <1>8, <1>9, <1>10 DEF Agency!Run

\* While the requests on a membership follow each other and nothing is lost, a
\* revoked row names a group the user is not in: revocation is "Keycloak first", and
\* nobody but an acceptance or a change, which rewrite the row, gives the group again
\* (revoke_agency_membership).  Another group of the agency may remain, of a change of
\* role whose removal failed.
THEOREM RevocationTakesItsGroup == Agency!Spec /\ []InTurn => []RevokedGivesNothing
<1>1. Agency!Init => RevocationInv
  <2> SUFFICES ASSUME Agency!Init PROVE RevocationInv
    OBVIOUS
  <2>1. \A w \in MembershipWorkers : agencyRequest[w].op = "idle"
    BY DEF Agency!Init, Agency!Idle
  <2>2. membership.status = "none"
    BY DEF Agency!Init, Agency!NoMembership
  <2>3. QED
    BY <2>1, <2>2, MembershipBegins DEF RevocationInv, RevocationHeld, RevokedGivesNothing
<1>2. RevocationInv /\ InTurn /\ InTurn' /\ [Agency!Next]_(Agency!vars) => RevocationInv'
  <2> SUFFICES ASSUME RevocationInv, InTurn, InTurn', [Agency!Next]_(Agency!vars)
               PROVE  RevocationInv'
    OBVIOUS
  <2>1. AgencyInv /\ AgencyInv'
    BY MembershipStep DEF RevocationInv
  <2>2. CASE UNCHANGED Agency!vars
    BY <2>1, <2>2 DEF Agency!vars, RevocationInv, RevocationHeld, RevokedGivesNothing, Gone, Alone,
       Agency!Quiet
  <2>3. ASSUME NEW authoritative \in BOOLEAN, Agency!SyncCommand(authoritative)
        PROVE  RevocationInv'
    BY <2>1, <2>3 DEF Agency!SyncCommand, RevocationInv, RevocationHeld, RevokedGivesNothing,
       Agency!Quiet
  <2>4. ASSUME NEW w \in MembershipWorkers,
               \/ Agency!Arrive(w) \/ Agency!Run(w) \/ Agency!Crash(w)
               \/ (Agency!Refused(w) \/ Agency!AnswerLost(w)) /\ Agency!FailedCall(w)
        PROVE  RevocationInv'
    BY <2>1, <2>4, WhoMovesIsAlone, RevocationStepAlone
  <2>5. QED
    BY <2>2, <2>3, <2>4 DEF Agency!Next
<1>3. RevocationInv => RevokedGivesNothing
  BY DEF RevocationInv
<1>4. QED
  BY <1>1, <1>2, <1>3, PTL DEF Agency!Spec

LEMMA MembershipsAlone == AllSpec => Agency!Spec
<1>1. AllInit => Agency!Init
  BY DEF AllInit
<1>2. [AllNext]_allVars => [Agency!Next]_(Agency!vars)
  BY DEF AllNext, allVars, agencyVars, Agency!vars
<1>3. QED
  BY <1>1, <1>2, PTL DEF AllSpec, Agency!Spec

\* A change of role never leaves the user without the new group, not even when it
\* names the role the user has, and whatever is lost half way, as long as no
\* other request is under way, which could remove it
\* (change_agency_membership_role: assign, then remove).
THEOREM ChangeGivesFirst == AllSpec /\ []InTurn => []ChangeKeepsAccess
<1>1. AgencyInv /\ InTurn => ChangeKeepsAccess
  <2> SUFFICES ASSUME AgencyInv, InTurn, NEW w \in MembershipWorkers,
                      agencyRequest[w].op = "change", agencyRequest[w].step \in {"remove", "write"}
               PROVE  agencyRequest[w].role \in agencyGroups
    BY DEF ChangeKeepsAccess, Agency!ChangeKeepsAccess
  <2>1. Alone(w)
    BY DEF InTurn, Agency!Idle
  <2>2. QED
    BY <2>1 DEF AgencyInv, GroupsHeld
<1>2. QED
  BY <1>1, MembershipsAlone, MembershipInvariant, PTL

\* Between requests that follow each other, with no answer lost, an active row is
\* backed by its group in Keycloak; the rules of pages, API and services agree for
\* every standing of a user; and what the API still refuses, the next login
\* settles (can_prepare_contract_revision, _can_view_agency, _authorized_contracts_qs).
THEOREM AccessIsBacked == AllSpec /\ []InTurn => []AccessFollowsKeycloak
<1>1. AgencyInv => Agency!RowTellsKeycloak
  BY DEF AgencyInv, Backed, Agency!RowTellsKeycloak
<1>2. AgencyInv /\ Agency!RowTellsKeycloak => Agency!ApiCatchesUp
  <2> SUFFICES ASSUME Agency!RowTellsKeycloak, Agency!Quiet, NEW a \in Agency!Standings
               PROVE  /\ Agency!OpensRevision(a) /\ ~Agency!ApiReads(a) => agencyGroups # {}
                      /\ Agency!CanPrepare(a) /\ ~Agency!ApiWrites(a) =>
                           agencyGroups \cap {"admin", "editor"} # {}
    BY DEF Agency!ApiCatchesUp
  <2>1. Agency!OpensRevision(a) /\ ~Agency!ApiReads(a) => Agency!InAgency(Agency!Roles)
    BY DEF Agency!OpensRevision, Agency!ApiReads, Agency!OpensContract, Agency!OpensAgency,
       Agency!Platform
  <2>2. Agency!CanPrepare(a) /\ ~Agency!ApiWrites(a) => Agency!InAgency({"admin", "editor"})
    BY DEF Agency!CanPrepare, Agency!ApiWrites, Agency!Platform
  <2>3. QED
    BY <2>1, <2>2 DEF Agency!InAgency, Agency!RowTellsKeycloak
<1>3. AgencyInv => AccessFollowsKeycloak
  BY <1>1, <1>2, RulesAlwaysAgree DEF AgencyInv, AccessFollowsKeycloak, Agency!AccessFollowsKeycloak
<1>4. QED
  BY <1>3, MembershipsAlone, MembershipInvariant, PTL

\* With any number of workers, whatever is lost: a request has the role its steps
\* need, and a row once written is never taken away.
AgencyRuns ==
  Agency!TypeOK /\ \A w \in MembershipWorkers : Underway(agencyRequest[w])

LEMMA RequestsRun ==
  ASSUME AgencyRuns, NEW w \in MembershipWorkers, NEW r \in AgencyRequests,
         agencyRequest' = [agencyRequest EXCEPT ![w] = r],
         agencyGroups' \subseteq Agency!Roles, claims' \subseteq Agency!Roles,
         membership' \in Agency!Rows, lost' \in BOOLEAN,
         membership'.status = "none" <=> membership'.role = None,
         membership.status # "none" => membership'.status # "none",
         Underway(r)'
  PROVE  AgencyRuns'
<1>1. Agency!TypeOK'
  BY AgencyTyped DEF Agency!TypeOK, AgencyRuns, AgencyRequests
<1>2. ASSUME NEW v \in MembershipWorkers PROVE Underway(agencyRequest[v])'
  <2>1. CASE v = w
    BY <2>1, AgencyTyped DEF AgencyRuns
  <2>2. CASE v # w
    <3>1. agencyRequest'[v] = agencyRequest[v]
      BY <2>2, AgencyTyped DEF AgencyRuns
    <3>2. QED
      BY <3>1 DEF AgencyRuns, Underway
  <2>3. QED
    BY <2>1, <2>2
<1>3. QED
  BY <1>1, <1>2 DEF AgencyRuns

LEMMA RequestArrives ==
  ASSUME AgencyRuns, NEW w \in MembershipWorkers, NEW op, NEW step, NEW role,
         Agency!Begin(w, op, step, role),
         \/ op = "accept" /\ step = "assign" /\ role \in Agency!Roles
         \/ op = "change" /\ step = "assign" /\ role \in Agency!Roles /\ membership.status # "none"
         \/ op = "revoke" /\ step = "remove" /\ role = None /\ membership.status # "none"
         \/ op = "login" /\ step = "write" /\ role = None
  PROVE  AgencyRuns'
<1>1. PICK new : new = [op |-> op, step |-> step, role |-> role, seen |-> membership,
                        token |-> agencyGroups]
  OBVIOUS
<1>2. /\ agencyRequest' = [agencyRequest EXCEPT ![w] = new]
      /\ UNCHANGED <<agencyGroups, claims, membership, lost>>
  BY <1>1 DEF Agency!Begin
<1>3. new \in AgencyRequests
  BY <1>1, AgencyTyped DEF AgencyRequests, AgencyRuns
<1>4. Underway(new)'
  BY <1>1, <1>2 DEF Underway
<1>5. QED
  BY <1>2, <1>3, <1>4, AgencyTyped, RequestsRun DEF AgencyRuns

LEMMA AgencyRunsStep ==
  ASSUME AgencyRuns, [Agency!Next]_(Agency!vars)
  PROVE  AgencyRuns'
<1> DEFINE idle == Agency!Idle
<1>0. /\ agencyGroups \subseteq Agency!Roles /\ claims \subseteq Agency!Roles
      /\ membership \in Agency!Rows /\ lost \in BOOLEAN
      /\ membership.status = "none" <=> membership.role = None
      /\ agencyRequest \in [MembershipWorkers -> AgencyRequests]
      /\ None \notin Agency!Roles
  BY AgencyTyped DEF AgencyRuns
<1>1. idle \in AgencyRequests /\ idle.op = "idle" /\ idle.step = "idle"
  BY <1>0 DEF Agency!Idle, AgencyRequests, Agency!Rows, Agency!NoMembership
<1>2. Underway(idle)'
  BY <1>1 DEF Underway
<1> HIDE DEF idle
<1>3. \A roles \in SUBSET Agency!Roles :
        /\ Agency!Mirrored(roles) \in Agency!Rows
        /\ Agency!Mirrored(roles).status = "none" <=> Agency!Mirrored(roles).role = None
        /\ membership.status # "none" => Agency!Mirrored(roles).status # "none"
  BY <1>0, HighestIsOne, MemberIsRow DEF Agency!Mirrored
<1>4. CASE UNCHANGED Agency!vars
  BY <1>4 DEF Agency!vars, AgencyRuns, Agency!TypeOK, Underway
<1>5. ASSUME NEW w \in MembershipWorkers, Agency!Arrive(w) PROVE AgencyRuns'
  <2>1. ASSUME NEW role \in Agency!Roles, Agency!BeginAccept(w, role) PROVE AgencyRuns'
    <3> DEFINE kept == IF membership.status # "none" /\ Agency!Rank[membership.role] > Agency!Rank[role]
                       THEN membership.role ELSE role
    <3>1. kept \in Agency!Roles
      BY <1>0 DEF Agency!Rows
    <3>2. Agency!Begin(w, "accept", "assign", kept)
      BY <2>1 DEF Agency!BeginAccept
    <3>3. QED
      BY <3>1, <3>2, RequestArrives
  <2>2. ASSUME NEW role \in Agency!Roles, Agency!BeginChange(w, role) PROVE AgencyRuns'
    BY <2>2, RequestArrives DEF Agency!BeginChange
  <2>3. ASSUME Agency!BeginRevoke(w) \/ Agency!BeginLogin(w) PROVE AgencyRuns'
    BY <2>3, RequestArrives DEF Agency!BeginRevoke, Agency!BeginLogin
  <2>4. QED
    BY <1>5, <2>1, <2>2, <2>3 DEF Agency!Arrive
<1>6. ASSUME NEW w \in MembershipWorkers,
             \/ Agency!Run(w) \/ Agency!Crash(w)
             \/ (Agency!Refused(w) \/ Agency!AnswerLost(w)) /\ Agency!FailedCall(w)
      PROVE  AgencyRuns'
  <2> DEFINE r == agencyRequest[w]
  <2>0. r \in AgencyRequests /\ Underway(r) /\ r.token \subseteq Agency!Roles
    BY <1>0 DEF AgencyRuns, AgencyRequests
  <2>1. \A s \in {"remove", "write", "cache"} :
          /\ [r EXCEPT !.step = s] \in AgencyRequests
          /\ [r EXCEPT !.step = s].step = s /\ [r EXCEPT !.step = s].op = r.op
          /\ [r EXCEPT !.step = s].role = r.role
    BY <2>0 DEF AgencyRequests
  <2>2. ASSUME Agency!Finish(w), agencyGroups' \subseteq Agency!Roles,
               claims' \subseteq Agency!Roles, membership' \in Agency!Rows, lost' \in BOOLEAN,
               membership'.status = "none" <=> membership'.role = None,
               membership.status # "none" => membership'.status # "none"
        PROVE  AgencyRuns'
    <3>1. agencyRequest' = [agencyRequest EXCEPT ![w] = idle]
      BY <2>2 DEF Agency!Finish, idle
    <3>2. QED
      BY <1>1, <1>2, <2>2, <3>1, RequestsRun
  <2>3. CASE Agency!AssignGroup(w)
    <3>1. PICK s \in {"remove", "write"} : s = IF r.op = "change" THEN "remove" ELSE "write"
      OBVIOUS
    <3>2. PICK new \in AgencyRequests :
            /\ new = [r EXCEPT !.step = s]
            /\ new.step = s /\ new.op = r.op /\ new.role = r.role
      BY <2>1
    <3>3. /\ r.step = "assign" /\ agencyGroups' = agencyGroups \cup {r.role}
          /\ agencyRequest' = [agencyRequest EXCEPT ![w] = new]
          /\ UNCHANGED <<claims, membership, lost>>
      BY <2>3, <3>1, <3>2 DEF Agency!AssignGroup, Agency!At, Agency!GoTo
    <3>4. r.op \in {"accept", "change"} /\ r.role \in Agency!Roles
      BY <2>0, <3>3 DEF Underway
    <3>5. Underway(new)'
      BY <2>0, <3>1, <3>2, <3>3, <3>4 DEF Underway
    <3>6. QED
      BY <1>0, <3>3, <3>4, <3>5, RequestsRun
  <2>4. CASE Agency!RemoveGroup(w)
    <3>1. PICK new \in AgencyRequests :
            /\ new = [r EXCEPT !.step = "write"]
            /\ new.step = "write" /\ new.op = r.op /\ new.role = r.role
      BY <2>1
    <3>2. /\ r.step = "remove" /\ agencyGroups' \subseteq agencyGroups
          /\ agencyRequest' = [agencyRequest EXCEPT ![w] = new]
          /\ UNCHANGED <<claims, membership, lost>>
      BY <2>4, <3>1 DEF Agency!RemoveGroup, Agency!At, Agency!GoTo
    <3>3. Underway(new)'
      BY <2>0, <3>1, <3>2 DEF Underway
    <3>4. QED
      BY <1>0, <3>2, <3>3, RequestsRun
  <2>5. CASE Agency!WriteMembership(w)
    <3>1. /\ r.step = "write" /\ UNCHANGED <<agencyGroups, claims, lost>>
          /\ membership' = IF r.op = "revoke" THEN [membership EXCEPT !.status = "revoked"]
                           ELSE Agency!Member(r.role)
      BY <2>5 DEF Agency!WriteMembership, Agency!At
    <3>2. \/ r.op \in {"accept", "change"} /\ r.role \in Agency!Roles
          \/ r.op = "revoke" /\ membership.status # "none"
      BY <2>0, <2>5, <3>1 DEF Underway, Agency!WriteMembership
    <3>3. /\ membership' \in Agency!Rows /\ membership'.status # "none"
          /\ membership'.role # None
      <4>1. CASE r.op = "revoke"
        BY <1>0, <3>1, <3>2, <4>1 DEF Agency!Rows
      <4>2. CASE r.op \in {"accept", "change"}
        BY <3>1, <3>2, <4>2, MemberIsRow
      <4>3. QED
        BY <3>2, <4>1, <4>2
    <3>4. CASE r.op = "accept"
      <4>1. PICK new \in AgencyRequests :
              /\ new = [r EXCEPT !.step = "cache"]
              /\ new.step = "cache" /\ new.op = r.op /\ new.role = r.role
        BY <2>1
      <4>2. agencyRequest' = [agencyRequest EXCEPT ![w] = new]
        BY <2>5, <3>4, <4>1 DEF Agency!WriteMembership, Agency!GoTo
      <4>3. Underway(new)'
        BY <3>2, <3>4, <4>1 DEF Underway
      <4>4. QED
        BY <1>0, <3>1, <3>3, <4>2, <4>3, RequestsRun
    <3>5. CASE r.op # "accept"
      BY <1>0, <2>2, <2>5, <3>1, <3>3, <3>5 DEF Agency!WriteMembership
    <3>6. QED
      BY <3>4, <3>5
  <2>6. CASE Agency!CacheGroup(w)
    <3>1. /\ r.step = "cache" /\ claims' = claims \cup {r.role} /\ Agency!Finish(w)
          /\ UNCHANGED <<agencyGroups, membership, lost>>
      BY <2>6 DEF Agency!CacheGroup, Agency!At
    <3>2. r.role \in Agency!Roles
      BY <2>0, <3>1 DEF Underway
    <3>3. QED
      BY <1>0, <2>2, <3>1, <3>2
  <2>7. CASE Agency!Login(w)
    <3>1. /\ claims' = r.token /\ membership' = Agency!Mirrored(r.token) /\ Agency!Finish(w)
          /\ UNCHANGED <<agencyGroups, lost>>
      BY <2>7 DEF Agency!Login
    <3>2. QED
      BY <1>0, <1>3, <2>0, <2>2, <3>1
  <2>8. CASE Agency!Crash(w)
    BY <1>0, <2>2, <2>8 DEF Agency!Crash
  <2>9. CASE (Agency!Refused(w) \/ Agency!AnswerLost(w)) /\ Agency!FailedCall(w)
    <3>1. /\ r.step \in {"assign", "remove"} /\ UNCHANGED claims /\ Agency!Finish(w)
          /\ membership' = IF r.op = "change" /\ r.step = "remove"
                           THEN [membership EXCEPT !.status = "sync_error", !.path = r.role]
                           ELSE membership
      BY <2>9 DEF Agency!FailedCall, Agency!At
    <3>2. r.op = "change" => membership.status # "none" /\ r.role \in Agency!Roles
      BY <2>0, <3>1 DEF Underway
    <3>3. r.step = "assign" => r.role \in Agency!Roles
      BY <2>0 DEF Underway
    <3>4. agencyGroups' \subseteq Agency!Roles /\ lost' \in BOOLEAN
      BY <1>0, <2>9, <3>1, <3>3 DEF Agency!Refused, Agency!AnswerLost, Agency!At
    <3>5. /\ membership' \in Agency!Rows /\ membership'.role = membership.role
          /\ membership'.status = "none" <=> membership.status = "none"
      BY <1>0, <3>1, <3>2 DEF Agency!Rows
    <3>6. QED
      BY <1>0, <2>2, <3>1, <3>4, <3>5
  <2>10. QED
    BY <1>6, <2>3, <2>4, <2>5, <2>6, <2>7, <2>8, <2>9 DEF Agency!Run
<1>7. ASSUME NEW authoritative \in BOOLEAN, Agency!SyncCommand(authoritative) PROVE AgencyRuns'
  <2>1. /\ lost' = TRUE /\ UNCHANGED <<agencyGroups, claims, agencyRequest>>
        /\ \/ membership.status = "active" /\ membership' = [membership EXCEPT !.status = "revoked"]
           \/ membership' = Agency!Mirrored(claims)
    BY <1>7 DEF Agency!SyncCommand
  <2>2. /\ membership' \in Agency!Rows
        /\ membership'.status = "none" <=> membership'.role = None
        /\ membership.status # "none" => membership'.status # "none"
    <3>1. CASE membership.status = "active" /\ membership' = [membership EXCEPT !.status = "revoked"]
      BY <1>0, <3>1 DEF Agency!Rows
    <3>2. CASE membership' = Agency!Mirrored(claims)
      BY <1>0, <1>3, <3>2
    <3>3. QED
      BY <2>1, <3>1, <3>2
  <2>3. QED
    BY <1>0, <2>1, <2>2 DEF AgencyRuns, Agency!TypeOK, Underway
<1>8. QED
  BY <1>4, <1>5, <1>6, <1>7 DEF Agency!Next

\* An agency whose requests come at once keeps the types of its row.
LEMMA AgencyRunsAlways == AllSpec => []AgencyRuns
<1>1. Agency!Init => AgencyRuns
  BY MembershipBegins, AllIdle DEF AgencyRuns, AgencyInv, Agency!Init
<1>2. QED
  BY <1>1, MembershipsAlone, AgencyRunsStep, PTL DEF Agency!Spec

-----------------------------------------------------------------------------
(***************************************************************************)
(* The forms of the administration site, beside the services: what is      *)
(* proved in ContractRevisions_proofs, for any calendar from day 1.        *)
(***************************************************************************)
FormRows == INSTANCE ContractRevisions_proofs WITH
  Days <- 1..FormLastDay, Profiles <- FormProfiles, Configs <- FormConfigs,
  ConfigsOf <- FormConfigsOf, ProposedConfig <- FormProposed,
  ApprovableConfigs <- FormApprovable

LEMMA FormAssumptions ==
  /\ FormRows!DaysAssumption /\ FormRows!RevisionsAssumption
  /\ FormRows!ProfilesAssumption /\ FormRows!NoneAssumption
  /\ FormRows!CalendarAssumption
<1>1. FormRows!CalendarAssumption
  BY InstancesAssumption DEF FormRows!CalendarAssumption
<1>2. QED
  BY <1>1, InstancesAssumption
     DEF Forms!DaysAssumption, FormRows!DaysAssumption, Forms!RevisionsAssumption,
         FormRows!RevisionsAssumption, Forms!ProfilesAssumption,
         FormRows!ProfilesAssumption, Forms!NoneAssumption, FormRows!NoneAssumption,
         Forms!Snapshots, FormRows!Snapshots

LEMMA FormsInit == Forms!Init => FormRows!Init
  BY DEF Forms!Init, FormRows!Init

LEMMA FormsNext ==
  [Forms!Next \/ Forms!NextForm]_(Forms!vars)
    => [FormRows!Next \/ FormRows!NextForm]_(FormRows!vars)
  BY DEF Forms!contractVars, FormRows!contractVars, Forms!draftVars,
     FormRows!draftVars, Forms!revisionVars, FormRows!revisionVars, Forms!vars,
     FormRows!vars, Forms!ContractStatuses, FormRows!ContractStatuses,
     Forms!BuildSnapshot, FormRows!BuildSnapshot, Forms!WithStatus,
     FormRows!WithStatus, Forms!Existing, FormRows!Existing, Forms!Approved,
     FormRows!Approved, Forms!InForce, FormRows!InForce, Forms!LatestBy,
     FormRows!LatestBy, Forms!EffectiveOn, FormRows!EffectiveOn, Forms!NextDay,
     FormRows!NextDay, Forms!RetireProfile, FormRows!RetireProfile, Forms!InsertDraft,
     FormRows!InsertDraft, Forms!CreateRevisionDraft, FormRows!CreateRevisionDraft,
     Forms!CreateReplacementRevision, FormRows!CreateReplacementRevision,
     Forms!ReplaceDraftConfiguration, FormRows!ReplaceDraftConfiguration,
     Forms!DeleteRevisionDraft, FormRows!DeleteRevisionDraft, Forms!ApprovableFrom,
     FormRows!ApprovableFrom, Forms!ApproveContractRevision,
     FormRows!ApproveContractRevision, Forms!WithdrawContractRevision,
     FormRows!WithdrawContractRevision, Forms!UpdateDraftContractDates,
     FormRows!UpdateDraftContractDates, Forms!PublishContract,
     FormRows!PublishContract, Forms!SaveContractForm, FormRows!SaveContractForm,
     Forms!Next, FormRows!Next, Forms!AddRevisionForm, FormRows!AddRevisionForm,
     Forms!ChangeRevisionForm, FormRows!ChangeRevisionForm, Forms!NextForm,
     FormRows!NextForm

LEMMA FormsTypes == FormRows!TypeOK => Forms!TypeOK
  BY DEF Forms!TypeOK, FormRows!TypeOK, Forms!Snapshots, FormRows!Snapshots,
     Forms!Publications, FormRows!Publications, Forms!ContractStatuses,
     FormRows!ContractStatuses, Forms!RevisionStatuses, FormRows!RevisionStatuses

LEMMA FormsOnePerDay == FormRows!OneRevisionPerDay => Forms!OneRevisionPerDay
  BY DEF Forms!OneRevisionPerDay, FormRows!OneRevisionPerDay, Forms!EffectiveOn,
     FormRows!EffectiveOn, Forms!LatestBy, FormRows!LatestBy, Forms!InForce,
     FormRows!InForce, Forms!Approved, FormRows!Approved, Forms!WithStatus,
     FormRows!WithStatus

LEMMA FormsPast == FormRows!PastIsKept => Forms!PastIsKept
  BY DEF Forms!PastIsKept, FormRows!PastIsKept, Forms!EffectiveOn,
     FormRows!EffectiveOn, Forms!LatestBy, FormRows!LatestBy, Forms!InForce,
     FormRows!InForce, Forms!Approved, FormRows!Approved, Forms!WithStatus,
     FormRows!WithStatus

FormsInv == part = "forms" => FormRows!RowsInvariant

LEMMA FormsMove ==
  [AllNext]_allVars /\ part = "forms"
    => part' = part /\ [FormRows!Next \/ FormRows!NextForm]_(FormRows!vars)
<1> SUFFICES ASSUME [AllNext]_allVars, part = "forms"
             PROVE  part' = part /\ [Forms!Next \/ Forms!NextForm]_(Forms!vars)
  BY FormsNext
<1> QED
  BY DEF AllNext, allVars, formVars, Forms!vars, Forms!contractVars, Forms!draftVars,
         Forms!revisionVars

LEMMA FormsStep == FormsInv /\ [AllNext]_allVars => FormsInv'
<1> SUFFICES ASSUME FormsInv, [AllNext]_allVars, part' = "forms"
             PROVE  FormRows!RowsInvariant'
  BY DEF FormsInv
<1>1. part = "forms"
  BY DEF AllNext, allVars
<1>2. QED
  BY <1>1, FormsMove, FormAssumptions, FormRows!RowsStep DEF FormsInv

\* In every behaviour where the forms move, the approved revisions keep their days
\* and their snapshots.
LEMMA FormsHold == AllSpec => []FormsInv
<1>1. AllInit => FormsInv
  BY FormsInit, FormAssumptions, FormRows!RowsBegin DEF AllInit, FormsInv
<1>2. QED
  BY <1>1, FormsStep, PTL DEF AllSpec

\* Whatever drafts the forms add and edit, and wherever they move the contract, a
\* day has one revision at most (approve_contract_revision).
THEOREM OneRevisionToADay == AllSpec => []OneRevisionPerDay
<1>1. FormsInv => OneRevisionPerDay
  BY FormsOnePerDay, FormAssumptions, FormRows!OnePerDay DEF FormsInv, OneRevisionPerDay
<1>2. QED
  BY <1>1, FormsHold, PTL

\* No form of a draft, and no order of forms and services, changes what governed a
\* past day, unless it moves the contract (ContractConfigurationRevision.clean).
THEOREM FormsKeepThePast == AllSpec => PastRewrittenOnlyByDates
<1>1. FormsInv /\ [AllNext]_allVars => [part = "forms" => Forms!PastIsKept]_allVars
  BY FormsMove, FormsPast, FormAssumptions, FormRows!PastIsKeptStep DEF FormsInv
<1>2. QED
  BY <1>1, FormsHold, PTL DEF AllSpec, PastRewrittenOnlyByDates

-----------------------------------------------------------------------------
(***************************************************************************)
(* Every component keeps its types, in the behaviours where it moves and,  *)
(* as it was at first, in the others.                                      *)
(***************************************************************************)
LEMMA OnboardingAlone == AllSpec => []TypeOK
<1>1. AllInit => TypeOK
  BY DEF AllInit, Init, TypeOK, Idle, Request
<1>2. TypeOK /\ [AllNext]_allVars => TypeOK'
  <2>1. [AllNext]_allVars => [Next]_vars
    BY DEF AllNext, allVars
  <2>2. QED
    BY <2>1, TypeStep
<1>3. QED
  BY <1>1, <1>2, PTL DEF AllSpec

\* The columns of every row, the places of every request and what Keycloak holds
\* have their types, for any number of workers and whatever fails.
THEOREM TypesAreCorrect == AllSpec => []TypesOK
<1>1. /\ InvitationsInv => Invites!TypeOK
      /\ AgencyRuns => Agency!TypeOK
      /\ LotInv => Lot!TypeOK
      /\ ClientsInv => M2M!TypeOK
      /\ ConditionsInv => Evaluations!TypeOK
  BY DEF InvitationsInv, AgencyRuns, LotInv, ClientsInv, ConditionsInv
<1>2. AccessInv /\ GrantsTyped => Access!TypeOK
  BY DEF AccessInv, AccessTyped, GrantsTyped, Access!TypeOK, Calls, Facts
<1>3. FormsInv /\ part = "forms" => Forms!TypeOK
  BY FormsTypes DEF FormsInv, FormRows!RowsInvariant
<1>4. InvitationsInv /\ AgencyRuns /\ LotInv /\ ClientsInv /\ TypeOK /\ FormsInv
        /\ (part = "evaluations" => ConditionsInv)
        /\ (part = "access" => AccessInv /\ GrantsTyped)
      => TypesOK
  BY <1>1, <1>2, <1>3 DEF TypesOK
<1>5. QED
  BY <1>4, InvitationsAlone, InvitationsInvariant, AgencyRunsAlways, LotAlone, LotInvariant,
     ClientsAlone, ClientsInvariant, OnboardingAlone, FormsHold, EvaluationsAlone, AccessAlone, PTL

=============================================================================
