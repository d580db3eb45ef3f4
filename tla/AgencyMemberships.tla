-------------------------- MODULE AgencyMemberships --------------------------
(***************************************************************************)
(* The role of one user in one agency: the groups of the identity provider *)
(* (Keycloak), the groups in the claims of the user's last login, and the  *)
(* AgencyMembership row that mirrors them.                                 *)
(*                                                                         *)
(* The services call Keycloak first and write the row after; nothing spans *)
(* the two.  A call may be refused, its answer may be lost, and the worker *)
(* may die between two steps.                                              *)
(***************************************************************************)
EXTENDS Naturals

CONSTANTS
  Workers,
  None

Roles == {"reader", "editor", "admin"}

\* What is assumed of the constants, by the modules that instantiate this one.
MembershipsAssumption == None \notin Roles

\* AgencyMembership.role_rank
Rank == [reader |-> 0, editor |-> 1, admin |-> 2]

VARIABLES
  groups,      \* groups of the agency the user is in, in Keycloak
  claims,      \* the same, in SocialAccount.extra_data
  membership,  \* the AgencyMembership row
  request,     \* what each worker is doing
  lost         \* whether an answer was lost, a worker died or old claims were used

vars == <<groups, claims, membership, request, lost>>

\* keycloak_group_path is that of a role.
NoMembership == [status |-> "none", role |-> None, path |-> None]
Idle == [op |-> "idle", step |-> "idle", role |-> None, seen |-> NoMembership, token |-> {}]

Rows == [status : {"none", "active", "revoked", "sync_error"},
         role : Roles \cup {None}, path : Roles \cup {None}]

TypeOK ==
  /\ groups \subseteq Roles
  /\ claims \subseteq Roles
  /\ lost \in BOOLEAN
  /\ membership \in Rows
  /\ (membership.status = "none") <=> (membership.role = None)
  /\ request \in [Workers ->
       [op : {"idle", "accept", "change", "revoke", "login"},
        step : {"idle", "assign", "remove", "write", "cache"},
        role : Roles \cup {None}, seen : Rows, token : SUBSET Roles]]

-----------------------------------------------------------------------------
At(w, step) == request[w].step = step

Begin(w, op, step, role) ==
  /\ request[w] = Idle
  /\ request' = [request EXCEPT ![w] =
       [op |-> op, step |-> step, role |-> role, seen |-> membership, token |-> groups]]
  /\ UNCHANGED <<groups, claims, membership, lost>>

GoTo(w, step) == request' = [request EXCEPT ![w].step = step]
Finish(w) == request' = [request EXCEPT ![w] = Idle]

Member(role) == [status |-> "active", role |-> role, path |-> role]

Highest(roles) == CHOOSE r \in roles : \A q \in roles : Rank[q] <= Rank[r]

Init ==
  /\ groups = {}
  /\ claims = {}
  /\ membership = NoMembership
  /\ request = [w \in Workers |-> Idle]
  /\ lost = FALSE

\* assign_agency_membership, for an invitation: a higher local role is kept.
BeginAccept(w, role) ==
  LET keeps == membership.status # "none" /\ Rank[membership.role] > Rank[role]
  IN  Begin(w, "accept", "assign", IF keeps THEN membership.role ELSE role)

\* change_agency_membership_role and revoke_agency_membership, of a row read
\* when the request arrives.
BeginChange(w, role) == membership.status # "none" /\ Begin(w, "change", "assign", role)
BeginRevoke(w) == membership.status # "none" /\ Begin(w, "revoke", "remove", None)

AssignGroup(w) ==
  /\ At(w, "assign")
  /\ groups' = groups \cup {request[w].role}
  /\ GoTo(w, IF request[w].op = "change" THEN "remove" ELSE "write")
  /\ UNCHANGED <<claims, membership, lost>>

\* A change removes the group of the former role, when it is another one; a
\* revocation removes the group on the row.
Mut_RemovedGroup(w) ==
  LET seen == request[w].seen IN
  IF request[w].op = "change" THEN {seen.role} ELSE {seen.path}

RemovedGroup(w) ==
  LET seen == request[w].seen IN
  IF request[w].op = "change" THEN {seen.role} \ {request[w].role} ELSE {seen.path}

RemoveGroup(w) ==
  /\ At(w, "remove")
  /\ groups' = groups \ RemovedGroup(w)
  /\ GoTo(w, "write")
  /\ UNCHANGED <<claims, membership, lost>>

\* The call failed, with or without effect.
Refused(w) == UNCHANGED <<groups, lost>>
AnswerLost(w) ==
  /\ lost' = TRUE
  /\ groups' = IF At(w, "assign") THEN groups \cup {request[w].role}
                               ELSE groups \ RemovedGroup(w)

\* The exception ends the request; a change whose removal failed leaves a
\* trace on the row.
FailedCall(w) ==
  /\ request[w].step \in {"assign", "remove"}
  /\ membership' = IF request[w].op = "change" /\ At(w, "remove")
                   THEN [membership EXCEPT !.status = "sync_error", !.path = request[w].role]
                   ELSE membership
  /\ Finish(w)
  /\ UNCHANGED claims

Mut_RevocationAssigns(w) ==
  /\ At(w, "write") /\ request[w].op \in {"accept", "change", "revoke"}
  /\ membership' = Member(request[w].role)
  /\ Finish(w)
  /\ UNCHANGED <<groups, claims, lost>>

WriteMembership(w) ==
  /\ At(w, "write") /\ request[w].op \in {"accept", "change", "revoke"}
  /\ membership' = IF request[w].op = "revoke"
                   THEN [membership EXCEPT !.status = "revoked"]
                   ELSE Member(request[w].role)
  /\ IF request[w].op = "accept" THEN GoTo(w, "cache") ELSE Finish(w)
  /\ UNCHANGED <<groups, claims, lost>>

\* Whoever has accepted an invitation is logged in: the group is added to the
\* claims of the session, after the commit.
CacheGroup(w) ==
  /\ At(w, "cache")
  /\ claims' = claims \cup {request[w].role}
  /\ Finish(w)
  /\ UNCHANGED <<groups, membership, lost>>

-----------------------------------------------------------------------------
(* sync_agency_memberships_from_groups                                     *)

\* The token of the login says the groups at the time it is issued.
BeginLogin(w) == Begin(w, "login", "write", None)

Mirrored(roles) == IF roles = {} THEN membership ELSE Member(Highest(roles))

Login(w) ==
  /\ At(w, "write") /\ request[w].op = "login"
  /\ claims' = request[w].token
  /\ membership' = Mirrored(request[w].token)
  /\ Finish(w)
  /\ UNCHANGED <<groups, lost>>

\* The command works on the claims of the last login.
SyncCommand(authoritative) ==
  /\ membership' = IF authoritative /\ claims = {} /\ membership.status = "active"
                   THEN [membership EXCEPT !.status = "revoked"]
                   ELSE Mirrored(claims)
  /\ lost' = TRUE
  /\ UNCHANGED <<groups, claims, request>>

Crash(w) ==
  /\ request[w] # Idle
  /\ Finish(w)
  /\ lost' = TRUE
  /\ UNCHANGED <<groups, claims, membership>>

-----------------------------------------------------------------------------
Arrive(w) ==
  \/ \E role \in Roles : BeginAccept(w, role) \/ BeginChange(w, role)
  \/ BeginRevoke(w)
  \/ BeginLogin(w)

Run(w) == AssignGroup(w) \/ RemoveGroup(w) \/ WriteMembership(w) \/ CacheGroup(w) \/ Login(w)

Next ==
  \/ \E w \in Workers : Arrive(w) \/ Run(w) \/ Crash(w)
  \/ \E w \in Workers : (Refused(w) \/ AnswerLost(w)) /\ FailedCall(w)
  \/ \E authoritative \in BOOLEAN : SyncCommand(authoritative)

Spec == Init /\ [][Next]_vars

-----------------------------------------------------------------------------
(* Properties.                                                             *)

Quiet == ~lost /\ \A w \in Workers : request[w] = Idle

\* With one request at a time and nothing lost, whatever Keycloak refuses: the
\* role of an active row is backed by its group, since the services never write
\* a membership that the identity provider does not give ("Keycloak first"); and
\* a change of role that stopped half way has given its new group, and the row
\* names it, so that revoking the membership takes that group away.
RowTellsKeycloak ==
  Quiet =>
    /\ membership.status = "active" => membership.role \in groups
    /\ membership.status = "sync_error" => membership.path \in groups

\* A change of role never leaves the user without the new group, not even when
\* it names the role the user has, and whatever is lost or dies half way
\* (change_agency_membership_role: assign, then remove).
ChangeKeepsAccess ==
  \A w \in Workers :
    request[w].op = "change" /\ request[w].step \in {"remove", "write"} =>
      request[w].role \in groups

\* A revoked user is in no group of the agency: the view answers "Membership
\* agenzia revocata.", and revocation is "Keycloak first"
\* (revoke_agency_membership).
RevokedHasNoGroup ==
  Quiet => (membership.status = "revoked" => groups = {})

=============================================================================
