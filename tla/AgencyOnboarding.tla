--------------------------- MODULE AgencyOnboarding ---------------------------
(***************************************************************************)
(* New agencies, and the invitations to them.                              *)
(*                                                                         *)
(* A platform administrator opens an agency: its row, its groups in        *)
(* Keycloak, the account of its first administrator and an invitation for  *)
(* him are one request, and one transaction of the database.  Later        *)
(* invitations make the same calls for an agency that exists.  Keycloak    *)
(* knows no transaction: a call that is refused, an answer that is lost or *)
(* a worker that dies undoes the rows and leaves groups and accounts.      *)
(*                                                                         *)
(* Who may make the requests is decided at their beginning from the groups *)
(* of the session, and is left out; what an invitation accepted gives is   *)
(* in AgencyMemberships.                                                   *)
(***************************************************************************)
EXTENDS Naturals, FiniteSets

CONSTANTS
  Payloads,  \* the agencies asked for: [name |-> ..., key |-> ...], normalised
  Emails,
  Workers,
  MaxInvited,  \* bound on the invitations, and the requests in progress
  None

\* KeycloakAdminService.AGENCY_ROLES, agency_role_to_group_suffix
Roles == {"admin", "editor", "reader"}

VARIABLES
  agencies,  \* Agency rows that are committed
  pending,   \* AgencyInvitation rows that are pending
  answered,  \* those that were accepted, rejected or found expired
  groups,    \* groups of the realm
  accounts,  \* addresses with a user in the realm
  request    \* what each worker is doing

rows == <<agencies, pending, answered>>
vars == <<rows, groups, accounts, request>>

-----------------------------------------------------------------------------
(* The groups of an agency: the root, the agency, its roles.               *)

Group(key, role) == [key |-> key, role |-> role]
Root == Group(None, "root")
Home(key) == Group(key, "agency")

AllGroups == [key : {a.key : a \in Payloads} \cup {None}, role : Roles \cup {"root", "agency"}]

Parent(g) == IF g.role \in Roles THEN Home(g.key) ELSE Root

\* ensure_agency_groups, in its order; the groups above each path have then
\* been ensured already.
GroupOf(key, n) ==
  CASE n = 1 -> Root
    [] n = 2 -> Home(key)
    [] n = 3 -> Group(key, "admin")
    [] n = 4 -> Group(key, "editor")
    [] OTHER -> Group(key, "reader")

LastGroup == 5

Invitation(a, role, email, user) == [agency |-> a, role |-> role, email |-> email, user |-> user]
Invitations == [agency : Payloads, role : Roles,
                email : Emails \cup {None}, user : Emails \cup {None}]

\* What a worker does: the step that comes next, and the group it is at.
Request(op, step, a, role, email, provision) ==
  [op |-> op, step |-> step, agency |-> a, role |-> role, email |-> email,
   provision |-> provision, group |-> 1]

Idle == Request("idle", "idle", None, None, None, FALSE)

Requests ==
  [op : {"bootstrap", "invitation"},
   step : {"insert", "group", "create", "find", "account", "invite"},
   agency : Payloads, role : Roles, email : Emails \cup {None},
   provision : BOOLEAN, group : 1..LastGroup]

TypeOK ==
  /\ agencies \subseteq Payloads
  /\ pending \subseteq Invitations
  /\ answered \subseteq Invitations
  /\ groups \subseteq AllGroups
  /\ accounts \subseteq Emails
  /\ request \in [Workers -> Requests \cup {Idle}]
  /\ \A w \in Workers : request[w].step \in {"find", "account"} => request[w].email \in Emails

-----------------------------------------------------------------------------
Init ==
  /\ agencies = {}
  /\ pending = {}
  /\ answered = {}
  /\ groups = {}
  /\ accounts = {}
  /\ request = [w \in Workers |-> Idle]

Busy == {w \in Workers : request[w] # Idle}
At(w, step) == request[w].step = step
Goto(w, step) == request' = [request EXCEPT ![w].step = step]
Finish(w) == request' = [request EXCEPT ![w] = Idle]

\* Agency.name and Agency.agency_key are unique, each by itself.
Conflict(a, b) == a.name = b.name \/ a.key = b.key

\* bootstrap_agency_with_admin_invitation, up to its transaction.
BeginBootstrap(w, a, email, provision) ==
  /\ request[w] = Idle
  /\ \A b \in agencies : ~Conflict(a, b)
  /\ request' = [request EXCEPT ![w] =
       Request("bootstrap", "insert", a, "admin", email, provision)]
  /\ UNCHANGED <<rows, groups, accounts>>

\* create_agency_invitation, from the page or the API.
BeginInvitation(w, a, role, email, provision) ==
  /\ request[w] = Idle
  /\ a \in agencies
  /\ Cardinality(pending \cup answered) + Cardinality(Busy) < MaxInvited
  /\ request' = [request EXCEPT ![w] =
       Request("invitation", "group", a, role, email, provision)]
  /\ UNCHANGED <<rows, groups, accounts>>

\* The row that a transaction has inserted and not yet committed.
Inserted(w, a) ==
  request[w].op = "bootstrap" /\ ~At(w, "insert") /\ request[w].agency = a

Mut_CommitsAgencyFirst(w) ==
  LET a == request[w].agency IN
  /\ At(w, "insert")
  /\ \A v \in Workers \ {w}, b \in Payloads : Inserted(v, b) => ~Conflict(a, b)
  /\ IF \E b \in agencies : Conflict(a, b)
       THEN Finish(w) /\ UNCHANGED agencies
       ELSE Goto(w, "group") /\ agencies' = agencies \cup {a}
  /\ UNCHANGED <<pending, answered, groups, accounts>>

\* The insertion waits for a transaction that has inserted the same name or
\* key, and fails if that one commits.
InsertAgency(w) ==
  LET a == request[w].agency IN
  /\ At(w, "insert")
  /\ \A v \in Workers \ {w}, b \in Payloads : Inserted(v, b) => ~Conflict(a, b)
  /\ IF \E b \in agencies : Conflict(a, b) THEN Finish(w) ELSE Goto(w, "group")
  /\ UNCHANGED <<rows, groups, accounts>>

-----------------------------------------------------------------------------
(* The calls to Keycloak.                                                  *)

\* An address that is named is looked up, unless the caller declined it.
AfterGroups(w) ==
  IF request[w].email # None /\ request[w].provision THEN "find" ELSE "invite"

\* ensure_group_path: get_group_by_path, before a creation and after it.
LookUpGroup(w) ==
  LET n == request[w].group IN
  /\ At(w, "group")
  /\ IF GroupOf(request[w].agency.key, n) \notin groups THEN Goto(w, "create")
     ELSE IF n = LastGroup THEN Goto(w, AfterGroups(w))
     ELSE request' = [request EXCEPT ![w].group = n + 1]
  /\ UNCHANGED <<rows, groups, accounts>>

\* create_group: a group that another request has created meanwhile is
\* refused, and the request with it.
CreateGroup(w) ==
  LET g == GroupOf(request[w].agency.key, request[w].group) IN
  /\ At(w, "create")
  /\ g \notin groups
  /\ groups' = groups \cup {g}
  /\ Goto(w, "group")
  /\ UNCHANGED <<rows, accounts>>

\* find_user_by_email, find_user_by_username
FindUser(w) ==
  /\ At(w, "find")
  /\ Goto(w, IF request[w].email \in accounts THEN "invite" ELSE "account")
  /\ UNCHANGED <<rows, groups, accounts>>

\* create_user: a user that another request has created meanwhile is taken.
CreateUser(w) ==
  /\ At(w, "account")
  /\ accounts' = accounts \cup {request[w].email}
  /\ Goto(w, "invite")
  /\ UNCHANGED <<rows, groups>>

\* A call is refused, or its answer is lost after it had its effect.  The
\* transaction, if there is one, is rolled back.
RefuseCall(w) ==
  /\ request[w].step \in {"group", "create", "find", "account"}
  /\ groups' \in {groups} \cup
       (IF At(w, "create") THEN {groups \cup {GroupOf(request[w].agency.key, request[w].group)}}
        ELSE {})
  /\ accounts' \in {accounts} \cup
       (IF At(w, "account") THEN {accounts \cup {request[w].email}} ELSE {})
  /\ Finish(w)
  /\ UNCHANGED rows

-----------------------------------------------------------------------------
\* unique_pending_agency_invitation_per_email_role and its open counterpart
SameTarget(i, j) == i.agency = j.agency /\ i.role = j.role /\ i.email = j.email

\* The invitation is inserted and everything committed.  A duplicate is
\* refused by full_clean, or by the constraint.
InsertInvitation(w) ==
  LET r == request[w]
      i == Invitation(r.agency, r.role, r.email,
                      IF r.email # None /\ r.provision THEN r.email ELSE None)
  IN
  /\ At(w, "invite")
  /\ IF \E j \in pending : SameTarget(i, j) THEN UNCHANGED rows
     ELSE /\ agencies' = agencies \cup {r.agency}
          /\ pending' = pending \cup {i}
          /\ UNCHANGED answered
  /\ Finish(w)
  /\ UNCHANGED <<groups, accounts>>

Addressed(i, email) == i.email \in {None, email}

\* The invited sets a password on the page of the invitation: ensure_user,
\* set_user_password.
PrepareCredentials(i, email) ==
  /\ i \in pending
  /\ Addressed(i, email)
  /\ accounts' = accounts \cup {email}
  /\ UNCHANGED <<rows, groups, request>>

\* accept_agency_invitation_for_user, reject_agency_invitation_for_user.  One
\* that expires and is not rejected stays pending: the expired status an
\* acceptance writes is rolled back with its error.
Answer(i) ==
  /\ i \in pending
  /\ pending' = pending \ {i}
  /\ answered' = answered \cup {i}
  /\ UNCHANGED <<agencies, groups, accounts, request>>

\* The worker is killed: its transaction is rolled back.
Die(w) ==
  /\ request[w] # Idle
  /\ Finish(w)
  /\ UNCHANGED <<rows, groups, accounts>>

-----------------------------------------------------------------------------
Step(w) ==
  \/ InsertAgency(w)
  \/ LookUpGroup(w) \/ CreateGroup(w) \/ FindUser(w) \/ CreateUser(w)
  \/ RefuseCall(w)
  \/ InsertInvitation(w)
  \/ Die(w)

Next ==
  \/ \E w \in Workers, a \in Payloads, provision \in BOOLEAN :
       \/ \E email \in Emails : BeginBootstrap(w, a, email, provision)
       \/ \E role \in Roles, email \in Emails \cup {None} :
            BeginInvitation(w, a, role, email, provision)
  \/ \E w \in Workers : Step(w)
  \/ \E i \in Invitations :
       \/ \E email \in Emails : PrepareCredentials(i, email)
       \/ Answer(i)

Spec == Init /\ [][Next]_vars

-----------------------------------------------------------------------------
(* Properties.                                                             *)

\* An agency is never left half opened, whatever call fails and whoever asks
\* for the same agency or for the same root at the same time: it has its
\* invitation for an administrator, every invitation has the groups it leads
\* to and the account it names, and a target has one that is pending
\* (bootstrap_agency_with_admin_invitation, create_agency_invitation).
AgenciesAreInvited ==
  \A a \in agencies : \E i \in pending \cup answered :
    i.agency = a /\ i.role = "admin" /\ i.email \in Emails

InvitationsAreProvisioned ==
  \A i \in pending \cup answered :
    /\ i.agency \in agencies
    /\ \A role \in Roles : Group(i.agency.key, role) \in groups
    /\ i.user # None => i.user = i.email /\ i.user \in accounts

NamesAreUnique == \A a, b \in agencies : Conflict(a, b) => a = b
TargetsAreUnique == \A i, j \in pending : SameTarget(i, j) => i = j
GroupsHaveParents == \A g \in groups : Parent(g) \in groups

BootstrapIsWhole ==
  /\ AgenciesAreInvited
  /\ InvitationsAreProvisioned
  /\ NamesAreUnique
  /\ TargetsAreUnique
  /\ GroupsHaveParents

-----------------------------------------------------------------------------
(* The strengthening of BootstrapIsWhole that every step preserves.        *)

\* What a request has done is there: nothing in Keycloak is ever taken back.
WorkIsDone ==
  \A w \in Workers : request[w] # Idle =>
    LET r == request[w] IN
    /\ r.op = "bootstrap" => r.role = "admin" /\ r.email \in Emails
    /\ r.op = "invitation" => r.agency \in agencies /\ r.step # "insert"
    /\ \A n \in 1..LastGroup :
         n < r.group \/ r.step \in {"find", "account", "invite"}
           => GroupOf(r.agency.key, n) \in groups
    /\ r.step = "invite" /\ r.email # None /\ r.provision => r.email \in accounts

\* A row inserted and not committed has its name and its key for itself.
InsertedAlone ==
  \A w \in Workers, a \in Payloads : Inserted(w, a) =>
    /\ \A b \in agencies : ~Conflict(a, b)
    /\ \A v \in Workers \ {w}, b \in Payloads : Inserted(v, b) => ~Conflict(a, b)

Whole == TypeOK /\ BootstrapIsWhole /\ WorkIsDone /\ InsertedAlone

=============================================================================
