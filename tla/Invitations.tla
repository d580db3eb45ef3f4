----------------------------- MODULE Invitations -----------------------------
(***************************************************************************)
(* Invitations to a contract, and the memberships they give.               *)
(*                                                                         *)
(* An invitation names a user or is open to the first who takes it, gives  *)
(* a role and expires.  It is accepted or rejected under the lock of its   *)
(* row; the membership of the user is read and written in the same         *)
(* transaction, without a lock of its own.  Invitations to an agency have  *)
(* the same life; what their acceptance does is in AgencyMemberships.      *)
(***************************************************************************)
EXTENDS Naturals, FiniteSets

CONSTANTS
  Invited,    \* primary keys of invitation rows
  Users,
  LastDay,    \* bound on the clock
  Validity,   \* days an invitation is valid
  None

Roles == {"contract_reader", "contract_editor"}

\* What is assumed of the constants, by the modules that instantiate this one.
InvitationsAssumption == Validity \in Nat \ {0} /\ LastDay \in Nat /\ None \notin Users \cup Roles

\* ContractMembership.role_rank
Rank == [contract_reader |-> 0, contract_editor |-> 1]

VARIABLES
  now,         \* timezone.now(), in days
  invitation,  \* the invitation rows
  member,      \* role of each user on the contract
  accepting    \* the transaction that has locked an invitation to accept it

vars == <<now, invitation, member, accepting>>

Absent == [status |-> "absent", email |-> None, role |-> None, expires |-> 0, by |-> None]
Free == [user |-> None, seen |-> None]

TypeOK ==
  /\ now \in 0..LastDay
  /\ invitation \in [Invited ->
       [status : {"absent", "pending", "accepted", "rejected", "expired"},
        email : Users \cup {None}, role : Roles \cup {None},
        expires : 0..(LastDay + Validity), by : Users \cup {None}]]
  /\ \A i \in Invited :
       (invitation[i].by # None) <=> invitation[i].status \in {"accepted", "rejected"}
  /\ member \in [Users -> Roles \cup {None}]
  /\ accepting \in [Invited -> [user : Users \cup {None}, seen : Roles \cup {None}]]

-----------------------------------------------------------------------------
Pending(i) == invitation[i].status = "pending"
Expired(i) == invitation[i].expires <= now
Unlocked(i) == accepting[i] = Free

\* unique_pending_contract_invitation_per_email_role and its open counterpart
SameTargetPending(email, role) ==
  \E i \in Invited : Pending(i) /\ invitation[i].email = email /\ invitation[i].role = role

Init ==
  /\ now = 0
  /\ invitation = [i \in Invited |-> Absent]
  /\ member = [u \in Users |-> None]
  /\ accepting = [i \in Invited |-> Free]

NextDay ==
  /\ now < LastDay
  /\ now' = now + 1
  /\ UNCHANGED <<invitation, member, accepting>>

\* create_contract_invitation
CreateInvitation(i, email, role) ==
  /\ invitation[i].status = "absent"
  /\ ~SameTargetPending(email, role)
  /\ invitation' = [invitation EXCEPT ![i] =
       [status |-> "pending", email |-> email, role |-> role,
        expires |-> now + Validity, by |-> None]]
  /\ UNCHANGED <<now, member, accepting>>

\* accept_invitation_for_user: the row is locked and checked, the membership
\* of the user is read.  A refusal changes nothing: the error it raises rolls
\* back the expired status that an expired invitation was given.
Acceptable(i, u) ==
  Pending(i) /\ ~Expired(i) /\ invitation[i].email \in {None, u}

LockAcceptance(i, u) ==
  /\ Unlocked(i)
  /\ Acceptable(i, u)
  /\ accepting' = [accepting EXCEPT ![i] = [user |-> u, seen |-> member[u]]]
  /\ UNCHANGED <<now, invitation, member>>

Mut_RoleAfter(i) ==
  invitation[i].role

\* get_or_create finds the row that another acceptance inserted meanwhile; a
\* role is only raised, with respect to the role that was read.
RoleAfter(i) ==
  LET role == invitation[i].role
      u    == accepting[i].user
      read == IF accepting[i].seen = None THEN member[u] ELSE accepting[i].seen
  IN IF read = None \/ Rank[role] > Rank[read] THEN role ELSE member[u]

CommitAcceptance(i) ==
  LET u == accepting[i].user IN
  /\ ~Unlocked(i)
  /\ member' = [member EXCEPT ![u] = RoleAfter(i)]
  /\ invitation' = [invitation EXCEPT ![i].status = "accepted", ![i].by = u]
  /\ accepting' = [accepting EXCEPT ![i] = Free]
  /\ UNCHANGED now

\* The worker dies, or the insertion conflicts: nothing of it remains.
AbandonAcceptance(i) ==
  /\ ~Unlocked(i)
  /\ accepting' = [accepting EXCEPT ![i] = Free]
  /\ UNCHANGED <<now, invitation, member>>

Mut_RejectsForNobody(i, u) ==
  /\ Pending(i) /\ Unlocked(i)
  /\ \/ /\ Expired(i)
        /\ invitation' = [invitation EXCEPT ![i].status = "expired"]
     \/ /\ ~Expired(i) /\ invitation[i].email = u
        /\ invitation' = [invitation EXCEPT ![i].status = "rejected"]
  /\ UNCHANGED <<now, member, accepting>>

Mut_RejectsUnlocked(i, u) ==
  /\ Pending(i)
  /\ \/ /\ Expired(i)
        /\ invitation' = [invitation EXCEPT ![i].status = "expired"]
     \/ /\ ~Expired(i) /\ invitation[i].email = u
        /\ invitation' = [invitation EXCEPT ![i].status = "rejected", ![i].by = u]
  /\ UNCHANGED <<now, member, accepting>>

\* reject_contract_invitation_for_user, reject_agency_invitation_for_user: the
\* expired status is committed before the error is raised.
RejectInvitation(i, u) ==
  /\ Pending(i) /\ Unlocked(i)
  /\ \/ /\ Expired(i)
        /\ invitation' = [invitation EXCEPT ![i].status = "expired"]
     \/ /\ ~Expired(i) /\ invitation[i].email = u
        /\ invitation' = [invitation EXCEPT ![i].status = "rejected", ![i].by = u]
  /\ UNCHANGED <<now, member, accepting>>

-----------------------------------------------------------------------------
Next ==
  \/ NextDay
  \/ \E i \in Invited :
       \/ \E email \in Users \cup {None}, role \in Roles : CreateInvitation(i, email, role)
       \/ \E u \in Users :
            LockAcceptance(i, u) \/ RejectInvitation(i, u)
       \/ CommitAcceptance(i) \/ AbandonAcceptance(i)

Spec == Init /\ [][Next]_vars

-----------------------------------------------------------------------------
(* Properties.                                                             *)

\* The role of a member is the highest of the invitations accepted, in any
\* order and at the same time: none is lost, and none lowers it
\* (accept_invitation_for_user).
RoleIsHighestAccepted ==
  \A u \in Users :
    LET accepted == {i \in Invited : invitation[i].status = "accepted" /\ invitation[i].by = u}
    IN  IF accepted = {} THEN member[u] = None
        ELSE /\ \E i \in accepted : invitation[i].role = member[u]
             /\ \A i \in accepted : Rank[invitation[i].role] <= Rank[member[u]]

\* What was decided on an invitation stands, and an open one is taken once:
\* "the first user who accepts the token consumes it."
DecisionsStand ==
  [][\A i \in Invited :
       invitation[i].status \in {"accepted", "rejected", "expired"} =>
         invitation'[i] = invitation[i]]_vars

=============================================================================
