------------------------ MODULE AgencyOnboarding_proofs ------------------------
(***************************************************************************)
(* BootstrapIsWhole holds of every number of agencies, addresses and       *)
(* workers.  It is not inductive: an invitation is whole because of what   *)
(* its request did before it, and names are unique because of rows that    *)
(* are not committed yet.  Whole adds both, and every step preserves it.   *)
(***************************************************************************)
EXTENDS AgencyOnboarding, TLAPS

USE DEF rows

\* What a step that commits nothing of the database leaves as it was.
LEMMA RowsStand ==
  ASSUME BootstrapIsWhole,
         UNCHANGED rows,
         groups \subseteq groups', accounts \subseteq accounts',
         GroupsHaveParents'
  PROVE  BootstrapIsWhole'
  BY DEF BootstrapIsWhole, AgenciesAreInvited, InvitationsAreProvisioned,
         NamesAreUnique, TargetsAreUnique, GroupsHaveParents

\* The end of a request, whether it was answered, refused or killed, leaves
\* the facts about the others.
LEMMA RequestEnds ==
  ASSUME NEW w \in Workers, TypeOK, WorkIsDone, InsertedAlone,
         Finish(w),
         agencies' = agencies,
         groups \subseteq groups', accounts \subseteq accounts'
  PROVE  WorkIsDone' /\ InsertedAlone'
<1>1. /\ request'[w] = Idle
      /\ \A v \in Workers \ {w} : request'[v] = request[v]
  BY DEF Finish, TypeOK
<1>2. WorkIsDone'
  BY <1>1 DEF WorkIsDone, GroupOf
<1>3. InsertedAlone'
  BY <1>1 DEF InsertedAlone, Inserted, Idle, Request, At
<1> QED
  BY <1>2, <1>3

LEMMA GroupIsTyped ==
  ASSUME NEW r \in Requests
  PROVE  GroupOf(r.agency.key, r.group) \in AllGroups
  BY DEF Requests, GroupOf, AllGroups, Group, Root, Home, Roles

LEMMA ParentIsEarlier ==
  ASSUME NEW key, NEW n \in 1..LastGroup,
         \A m \in 1..LastGroup : m < n => GroupOf(key, m) \in groups
  PROVE  Parent(GroupOf(key, n)) \in groups \cup {GroupOf(key, n)}
<1>1. n > 1 => Root \in groups
  BY DEF GroupOf, LastGroup
<1>2. n > 2 => Home(key) \in groups
  BY DEF GroupOf, LastGroup
<1>3. CASE n = 1
  BY <1>3 DEF Parent, GroupOf, Group, Root, Roles
<1>4. CASE n = 2
  BY <1>1, <1>4 DEF Parent, GroupOf, Group, Home, Roles
<1>5. CASE n > 2
  BY <1>2, <1>5 DEF Parent, GroupOf, Group, Roles, LastGroup
<1> QED
  BY <1>3, <1>4, <1>5 DEF LastGroup

LEMMA RolesAreLast ==
  ASSUME NEW key, \A n \in 1..LastGroup : GroupOf(key, n) \in groups
  PROVE  \A role \in Roles : Group(key, role) \in groups
<1>1. /\ GroupOf(key, 3) \in groups
      /\ GroupOf(key, 4) \in groups
      /\ GroupOf(key, 5) \in groups
  BY DEF LastGroup
<1> QED
  BY <1>1 DEF GroupOf, Roles

LEMMA TypeStep ==
  ASSUME TypeOK, [Next]_vars
  PROVE  TypeOK'
<1> USE DEF TypeOK
<1>1. ASSUME NEW w \in Workers, NEW a \in Payloads, NEW provision \in BOOLEAN,
             NEW email \in Emails, BeginBootstrap(w, a, email, provision)
      PROVE  TypeOK'
  BY <1>1 DEF BeginBootstrap, Request, Requests, Roles, LastGroup
<1>2. ASSUME NEW w \in Workers, NEW a \in Payloads, NEW provision \in BOOLEAN,
             NEW role \in Roles, NEW email \in Emails \cup {None},
             BeginInvitation(w, a, role, email, provision)
      PROVE  TypeOK'
  BY <1>2 DEF BeginInvitation, Request, Requests, LastGroup
<1>3. ASSUME NEW w \in Workers, Step(w)
      PROVE  TypeOK'
  <2>1. CASE Finish(w) /\ UNCHANGED <<rows, groups, accounts>>
    BY <2>1 DEF Finish, Idle, Request
  <2>2. CASE InsertAgency(w)
    BY <2>2 DEF InsertAgency, Finish, Goto, At, Idle, Request, Requests
  <2>3. CASE LookUpGroup(w)
    BY <2>3 DEF LookUpGroup, Goto, At, AfterGroups, LastGroup, Idle, Request, Requests
  <2>4. CASE CreateGroup(w)
    BY <2>4 DEF CreateGroup, Goto, At, Idle, Request, Requests,
                GroupOf, AllGroups, Group, Root, Home, Roles
  <2>5. CASE FindUser(w)
    BY <2>5 DEF FindUser, Goto, At, Idle, Request, Requests
  <2>6. CASE CreateUser(w)
    BY <2>6 DEF CreateUser, Goto, At, Idle, Request, Requests
  <2>7. CASE RefuseCall(w)
    <3>1. request[w] \in Requests
      BY <2>7 DEF RefuseCall, Idle, Request
    <3>2. groups' \subseteq AllGroups /\ accounts' \subseteq Emails
      BY <2>7, <3>1, GroupIsTyped DEF RefuseCall, At
    <3> QED
      BY <2>7, <3>2 DEF RefuseCall, Finish, Idle, Request
  <2>8. CASE InsertInvitation(w)
    <3>1. request[w] \in Requests
      BY <2>8 DEF InsertInvitation, At, Idle, Request
    <3>2. /\ agencies' \subseteq agencies \cup {request[w].agency}
          /\ pending' \subseteq Invitations
          /\ UNCHANGED <<answered, groups, accounts>>
      BY <2>8, <3>1 DEF InsertInvitation, Requests, Invitation, Invitations
    <3> QED
      BY <2>8, <3>1, <3>2 DEF InsertInvitation, Finish, Requests, Idle, Request
  <2>9. CASE Die(w)
    BY <2>9, <2>1 DEF Die
  <2> QED
    BY <1>3, <2>2, <2>3, <2>4, <2>5, <2>6, <2>7, <2>8, <2>9 DEF Step
<1>4. ASSUME NEW i \in Invitations, NEW email \in Emails, PrepareCredentials(i, email)
      PROVE  TypeOK'
  BY <1>4 DEF PrepareCredentials
<1>5. ASSUME NEW i \in Invitations, Answer(i)
      PROVE  TypeOK'
  BY <1>5 DEF Answer
<1>6. CASE UNCHANGED vars
  BY <1>6 DEF vars
<1> QED
  BY <1>1, <1>2, <1>3, <1>4, <1>5, <1>6 DEF Next

-----------------------------------------------------------------------------
(***************************************************************************)
(* One step preserves Whole.                                               *)
(***************************************************************************)

\* What the steps of a request in progress must show of it, where they write
\* no row.
LEMMA RequestProceeds ==
  ASSUME NEW w \in Workers, NEW r \in Requests,
         TypeOK, WorkIsDone, InsertedAlone,
         request' = [request EXCEPT ![w] = r],
         agencies' = agencies,
         groups \subseteq groups', accounts \subseteq accounts',
         r.op = "bootstrap" => r.role = "admin" /\ r.email \in Emails,
         r.op = "invitation" => r.agency \in agencies /\ r.step # "insert",
         \A n \in 1..LastGroup :
           n < r.group \/ r.step \in {"find", "account", "invite"}
             => GroupOf(r.agency.key, n) \in groups',
         r.step = "invite" /\ r.email # None /\ r.provision => r.email \in accounts',
         r.op = "bootstrap" /\ r.step # "insert" =>
           /\ \A b \in agencies : ~Conflict(r.agency, b)
           /\ \A v \in Workers \ {w}, b \in Payloads : Inserted(v, b) => ~Conflict(r.agency, b)
  PROVE  WorkIsDone' /\ InsertedAlone'
<1>1. /\ request'[w] = r
      /\ \A v \in Workers \ {w} : request'[v] = request[v]
  BY DEF TypeOK
<1>2. WorkIsDone'
  BY <1>1 DEF WorkIsDone, GroupOf
<1>3. InsertedAlone'
  <2> SUFFICES ASSUME NEW u \in Workers, NEW a \in Payloads, Inserted(u, a)'
               PROVE  /\ \A b \in agencies : ~Conflict(a, b)
                      /\ \A v \in Workers \ {u}, b \in Payloads :
                           Inserted(v, b)' => ~Conflict(a, b)
    BY DEF InsertedAlone
  <2>1. \A v \in Workers \ {w}, b \in Payloads : Inserted(v, b)' <=> Inserted(v, b)
    BY <1>1 DEF Inserted, At
  <2>2. \A b \in Payloads :
          Inserted(w, b)' <=> r.op = "bootstrap" /\ r.step # "insert" /\ r.agency = b
    BY <1>1 DEF Inserted, At
  <2>3. CASE u = w
    BY <2>1, <2>2, <2>3
  <2>4. CASE u # w
    <3>1. \A b \in Payloads : Inserted(w, b)' => ~Conflict(a, b)
      BY <2>1, <2>2, <2>4 DEF Conflict
    <3> QED
      BY <2>1, <2>4, <3>1 DEF InsertedAlone
  <2> QED
    BY <2>3, <2>4
<1> QED
  BY <1>2, <1>3

\* The same for a request that is past its insertion and goes on.
LEMMA RequestContinues ==
  ASSUME NEW w \in Workers, NEW q \in Requests,
         TypeOK, WorkIsDone, InsertedAlone,
         request[w] \in Requests, request[w].step # "insert", q.step # "insert",
         q.op = request[w].op, q.agency = request[w].agency, q.role = request[w].role,
         q.email = request[w].email, q.provision = request[w].provision,
         request' = [request EXCEPT ![w] = q],
         agencies' = agencies,
         groups \subseteq groups', accounts \subseteq accounts',
         \A n \in 1..LastGroup :
           n < q.group \/ q.step \in {"find", "account", "invite"}
             => GroupOf(q.agency.key, n) \in groups',
         q.step = "invite" /\ q.email # None /\ q.provision => q.email \in accounts'
  PROVE  WorkIsDone' /\ InsertedAlone'
<1>1. request[w] # Idle
  BY DEF Idle, Request, Requests
<1>2. /\ q.op = "bootstrap" => q.role = "admin" /\ q.email \in Emails
      /\ q.op = "invitation" => q.agency \in agencies
  BY <1>1 DEF WorkIsDone
<1>3. q.op = "bootstrap" =>
        /\ \A b \in agencies : ~Conflict(q.agency, b)
        /\ \A v \in Workers \ {w}, b \in Payloads : Inserted(v, b) => ~Conflict(q.agency, b)
  <2>1. q.agency \in Payloads /\ (q.op = "bootstrap" => Inserted(w, q.agency))
    BY DEF Inserted, At, Requests
  <2> QED
    BY <2>1 DEF InsertedAlone
<1> QED
  BY <1>2, <1>3, RequestProceeds

LEMMA StepIsWhole ==
  ASSUME Whole, NEW w \in Workers, Step(w)
  PROVE  BootstrapIsWhole' /\ WorkIsDone' /\ InsertedAlone'
<1> USE DEF Whole
<1> DEFINE r == request[w]
<1>0. r # Idle => r \in Requests
  BY DEF TypeOK
<1>a. UNCHANGED groups => GroupsHaveParents'
  BY DEF BootstrapIsWhole, GroupsHaveParents
<1>1. CASE Finish(w) /\ UNCHANGED <<rows, groups, accounts>>
  BY <1>1, <1>a, RowsStand, RequestEnds
<1>2. CASE InsertAgency(w)
  <2>1. r \in Requests /\ r.step = "insert"
    BY <1>2, <1>0 DEF InsertAgency, At, Idle, Request
  <2>2. CASE \E b \in agencies : Conflict(r.agency, b)
    BY <1>1, <1>2, <2>2 DEF InsertAgency
  <2>3. CASE \A b \in agencies : ~Conflict(r.agency, b)
    <3> DEFINE q == [r EXCEPT !.step = "group"]
    <3>1. q \in Requests /\ request' = [request EXCEPT ![w] = q]
      BY <1>2, <2>1, <2>3 DEF InsertAgency, Goto, Requests
    <3>2. r # Idle
      BY <2>1 DEF Idle, Request
    <3>3. /\ q.op = "bootstrap" /\ q.role = "admin" /\ q.email \in Emails
          /\ \A n \in 1..LastGroup : n < q.group => GroupOf(q.agency.key, n) \in groups
      BY <2>1, <3>2 DEF WorkIsDone, Requests
    <3>4. \A v \in Workers \ {w}, b \in Payloads : Inserted(v, b) => ~Conflict(q.agency, b)
      BY <1>2, <2>1 DEF InsertAgency, Requests
    <3>5. q.step = "group" /\ q.agency = r.agency
      BY <2>1 DEF Requests
    <3>6. UNCHANGED <<agencies, groups, accounts, rows>>
      BY <1>2 DEF InsertAgency
    <3> HIDE DEF q
    <3> QED
      BY <1>a, <2>3, <3>1, <3>3, <3>4, <3>5, <3>6, RowsStand, RequestProceeds
  <2> QED
    BY <2>2, <2>3
<1>3. CASE LookUpGroup(w)
  <2> DEFINE n == r.group
  <2> DEFINE key == r.agency.key
  <2>1. /\ r \in Requests /\ r.step = "group" /\ n \in 1..LastGroup
        /\ UNCHANGED <<agencies, groups, accounts, rows>>
    BY <1>3, <1>0 DEF LookUpGroup, At, Idle, Request, Requests
  <2>2. r # Idle
    BY <2>1 DEF Idle, Request
  <2>3. \A m \in 1..LastGroup : m < n => GroupOf(key, m) \in groups
    BY <2>2 DEF WorkIsDone
  <2>4. CASE GroupOf(key, n) \notin groups
    <3> DEFINE q == [r EXCEPT !.step = "create"]
    <3>1. /\ q \in Requests /\ q.step = "create" /\ q.group = n
          /\ q.op = r.op /\ q.agency = r.agency /\ q.role = r.role
          /\ q.email = r.email /\ q.provision = r.provision
      BY <2>1 DEF Requests
    <3>2. request' = [request EXCEPT ![w] = q]
      BY <1>3, <2>4 DEF LookUpGroup, Goto
    <3> HIDE DEF q
    <3> QED
      BY <1>a, <2>1, <2>3, <3>1, <3>2, RowsStand, RequestContinues
  <2>5. CASE GroupOf(key, n) \in groups /\ n = LastGroup
    <3> DEFINE q == [r EXCEPT !.step = AfterGroups(w)]
    <3>1. /\ q \in Requests /\ q.step = AfterGroups(w)
          /\ q.op = r.op /\ q.agency = r.agency /\ q.role = r.role
          /\ q.email = r.email /\ q.provision = r.provision
      BY <2>1 DEF Requests, AfterGroups
    <3>2. request' = [request EXCEPT ![w] = q]
      BY <1>3, <2>5 DEF LookUpGroup, Goto
    <3>3. \A m \in 1..LastGroup : GroupOf(q.agency.key, m) \in groups
      BY <2>3, <2>5, <3>1 DEF LastGroup
    <3>4. /\ q.step # "insert"
          /\ q.step = "invite" /\ q.email # None /\ q.provision => q.email \in accounts
      BY <3>1 DEF AfterGroups
    <3> HIDE DEF q
    <3> QED
      BY <1>a, <2>1, <3>1, <3>2, <3>3, <3>4, RowsStand, RequestContinues
  <2>6. CASE GroupOf(key, n) \in groups /\ n # LastGroup
    <3> DEFINE q == [r EXCEPT !.group = n + 1]
    <3>1. /\ q \in Requests /\ q.step = "group" /\ q.group = n + 1
          /\ q.op = r.op /\ q.agency = r.agency /\ q.role = r.role
          /\ q.email = r.email /\ q.provision = r.provision
      BY <2>1, <2>6 DEF Requests, LastGroup
    <3>2. request' = [request EXCEPT ![w] = q]
      BY <1>3, <2>6 DEF LookUpGroup
    <3>3. \A m \in 1..LastGroup : m < q.group => GroupOf(q.agency.key, m) \in groups
      BY <2>1, <2>3, <2>6, <3>1 DEF LastGroup
    <3> HIDE DEF q
    <3> QED
      BY <1>a, <2>1, <3>1, <3>2, <3>3, RowsStand, RequestContinues
  <2> QED
    BY <2>4, <2>5, <2>6
<1>4. CASE CreateGroup(w)
  <2> DEFINE g == GroupOf(r.agency.key, r.group)
  <2> DEFINE q == [r EXCEPT !.step = "group"]
  <2>1. /\ r \in Requests /\ r.step = "create" /\ r # Idle
        /\ groups' = groups \cup {g}
        /\ UNCHANGED <<agencies, accounts, rows>>
    BY <1>4, <1>0 DEF CreateGroup, At, Idle, Request
  <2>2. \A m \in 1..LastGroup : m < r.group => GroupOf(r.agency.key, m) \in groups
    BY <2>1 DEF WorkIsDone
  <2>3. GroupsHaveParents'
    <3>1. Parent(g) \in groups \cup {g}
      BY <2>1, <2>2, ParentIsEarlier DEF Requests
    <3> QED
      BY <2>1, <3>1 DEF BootstrapIsWhole, GroupsHaveParents
  <2>4. /\ q \in Requests /\ q.step = "group" /\ q.group = r.group
        /\ q.op = r.op /\ q.agency = r.agency /\ q.role = r.role
        /\ q.email = r.email /\ q.provision = r.provision
    BY <2>1 DEF Requests
  <2>5. request' = [request EXCEPT ![w] = q]
    BY <1>4 DEF CreateGroup, Goto
  <2> HIDE DEF q
  <2> QED
    BY <2>1, <2>2, <2>3, <2>4, <2>5, RowsStand, RequestContinues
<1>5. CASE FindUser(w)
  <2> DEFINE q == [r EXCEPT !.step = IF r.email \in accounts THEN "invite" ELSE "account"]
  <2>1. /\ r \in Requests /\ r.step = "find" /\ r # Idle
        /\ UNCHANGED <<agencies, groups, accounts, rows>>
    BY <1>5, <1>0 DEF FindUser, At, Idle, Request
  <2>2. \A m \in 1..LastGroup : GroupOf(r.agency.key, m) \in groups
    BY <2>1 DEF WorkIsDone
  <2>3. /\ q \in Requests /\ q.step # "insert"
        /\ q.step = "invite" => q.email \in accounts
        /\ q.op = r.op /\ q.agency = r.agency /\ q.role = r.role
        /\ q.email = r.email /\ q.provision = r.provision
    BY <2>1 DEF Requests
  <2>4. request' = [request EXCEPT ![w] = q]
    BY <1>5 DEF FindUser, Goto
  <2> HIDE DEF q
  <2> QED
    BY <1>a, <2>1, <2>2, <2>3, <2>4, RowsStand, RequestContinues
<1>6. CASE CreateUser(w)
  <2> DEFINE q == [r EXCEPT !.step = "invite"]
  <2>1. /\ r \in Requests /\ r.step = "account" /\ r # Idle
        /\ accounts' = accounts \cup {r.email}
        /\ UNCHANGED <<agencies, groups, rows>>
    BY <1>6, <1>0 DEF CreateUser, At, Idle, Request
  <2>2. \A m \in 1..LastGroup : GroupOf(r.agency.key, m) \in groups
    BY <2>1 DEF WorkIsDone
  <2>3. /\ q \in Requests /\ q.step = "invite" /\ q.email \in accounts'
        /\ q.op = r.op /\ q.agency = r.agency /\ q.role = r.role
        /\ q.email = r.email /\ q.provision = r.provision
    BY <2>1 DEF Requests
  <2>4. request' = [request EXCEPT ![w] = q]
    BY <1>6 DEF CreateUser, Goto
  <2> HIDE DEF q
  <2> QED
    BY <1>a, <2>1, <2>2, <2>3, <2>4, RowsStand, RequestContinues
<1>7. CASE RefuseCall(w)
  <2>1. /\ r \in Requests /\ r # Idle
        /\ UNCHANGED <<agencies, rows>> /\ Finish(w)
        /\ groups \subseteq groups' /\ accounts \subseteq accounts'
    BY <1>7, <1>0 DEF RefuseCall, At, Idle, Request
  <2>2. GroupsHaveParents'
    <3> DEFINE g == GroupOf(r.agency.key, r.group)
    <3>1. \A m \in 1..LastGroup : m < r.group => GroupOf(r.agency.key, m) \in groups
      BY <2>1 DEF WorkIsDone
    <3>2. Parent(g) \in groups \cup {g}
      BY <2>1, <3>1, ParentIsEarlier DEF Requests
    <3>3. groups' \in {groups, groups \cup {g}}
      BY <1>7 DEF RefuseCall
    <3> QED
      BY <3>2, <3>3 DEF BootstrapIsWhole, GroupsHaveParents
  <2> QED
    BY <2>1, <2>2, RowsStand, RequestEnds
<1>8. CASE InsertInvitation(w)
  <2> DEFINE a == r.agency
  <2> DEFINE i == Invitation(a, r.role, r.email,
                             IF r.email # None /\ r.provision THEN r.email ELSE None)
  <2>1. /\ r \in Requests /\ r.step = "invite" /\ r # Idle
        /\ UNCHANGED <<groups, accounts>> /\ Finish(w)
    BY <1>8, <1>0 DEF InsertInvitation, At, Idle, Request
  <2>2. CASE \E j \in pending : SameTarget(i, j)
    BY <1>1, <1>8, <2>2, <2>1 DEF InsertInvitation
  <2>3. CASE ~ \E j \in pending : SameTarget(i, j)
    <3>1. agencies' = agencies \cup {a} /\ pending' = pending \cup {i} /\ answered' = answered
      BY <1>8, <2>3 DEF InsertInvitation
    <3>2. /\ i.agency = a /\ i.role = r.role /\ i.email = r.email
          /\ i.user # None => i.user = r.email /\ r.provision /\ r.email # None
      BY DEF Invitation
    <3>3. /\ \A role \in Roles : Group(a.key, role) \in groups
          /\ i.user # None => i.user = i.email /\ i.user \in accounts
      <4>1. \A n \in 1..LastGroup : GroupOf(a.key, n) \in groups
        BY <2>1 DEF WorkIsDone
      <4>2. r.email # None /\ r.provision => r.email \in accounts
        BY <2>1 DEF WorkIsDone
      <4> QED
        BY <3>2, <4>1, <4>2, RolesAreLast
    <3>4. \/ a \in agencies
          \/ r.role = "admin" /\ r.email \in Emails /\ Inserted(w, a) /\ a \in Payloads
      BY <2>1 DEF WorkIsDone, Inserted, At, Requests
    <3>5. Inserted(w, a) \/ a \in agencies
      BY <3>4
    <3> HIDE DEF i
    <3>6. AgenciesAreInvited'
      BY <3>1, <3>2, <3>4 DEF BootstrapIsWhole, AgenciesAreInvited
    <3>7. InvitationsAreProvisioned'
      BY <2>1, <3>1, <3>2, <3>3 DEF BootstrapIsWhole, InvitationsAreProvisioned
    <3>8. NamesAreUnique'
      <4>1. a \in agencies \/ \A b \in agencies : ~Conflict(a, b) /\ ~Conflict(b, a)
        BY <3>4 DEF InsertedAlone, Conflict
      <4> QED
        BY <3>1, <4>1 DEF BootstrapIsWhole, NamesAreUnique
    <3>9. TargetsAreUnique'
      <4>1. \A j \in pending : ~SameTarget(i, j) /\ ~SameTarget(j, i)
        BY <2>3 DEF SameTarget, i
      <4> QED
        BY <3>1, <4>1 DEF BootstrapIsWhole, TargetsAreUnique
    <3>10. /\ request'[w] = Idle
           /\ \A v \in Workers \ {w} : request'[v] = request[v]
      BY <2>1 DEF Finish, TypeOK
    <3>11. WorkIsDone'
      BY <2>1, <3>1, <3>10 DEF WorkIsDone, GroupOf
    <3>12. InsertedAlone'
      <4>1. \A v \in Workers, b \in Payloads :
              Inserted(v, b)' => v # w /\ Inserted(v, b)
        BY <3>10 DEF Inserted, At, Idle, Request
      <4>2. \A v \in Workers \ {w}, b \in Payloads : Inserted(v, b) => ~Conflict(b, a)
        BY <3>4 DEF InsertedAlone, Conflict
      <4> QED
        BY <3>1, <4>1, <4>2 DEF InsertedAlone
    <3> QED
      BY <1>a, <2>1, <3>6, <3>7, <3>8, <3>9, <3>11, <3>12 DEF BootstrapIsWhole
  <2> QED
    BY <2>2, <2>3
<1>9. CASE Die(w)
  BY <1>1, <1>9 DEF Die
<1> QED
  BY <1>2, <1>3, <1>4, <1>5, <1>6, <1>7, <1>8, <1>9 DEF Step

-----------------------------------------------------------------------------
(***************************************************************************)
(* Whatever call to Keycloak fails, and whoever opens or invites at the    *)
(* same time, no agency is left half opened: it has its invitation for an  *)
(* administrator, every invitation has its groups and its account, and     *)
(* names and targets are unique (bootstrap_agency_with_admin_invitation,   *)
(* create_agency_invitation, ensure_agency_groups).                        *)
(***************************************************************************)
THEOREM OnboardingIsWhole == Spec => []BootstrapIsWhole
<1>1. Init => Whole
  BY DEF Init, Whole, TypeOK, BootstrapIsWhole, AgenciesAreInvited,
         InvitationsAreProvisioned, NamesAreUnique, TargetsAreUnique, GroupsHaveParents,
         WorkIsDone, InsertedAlone, Inserted, Idle, Request
<1>2. Whole /\ [Next]_vars => Whole'
  <2> SUFFICES ASSUME Whole, [Next]_vars
               PROVE  BootstrapIsWhole' /\ WorkIsDone' /\ InsertedAlone'
    BY TypeStep DEF Whole
  <2> USE DEF Whole
  <2>1. ASSUME NEW w \in Workers, NEW a \in Payloads, NEW provision \in BOOLEAN,
               NEW email \in Emails, BeginBootstrap(w, a, email, provision)
        PROVE  BootstrapIsWhole' /\ WorkIsDone' /\ InsertedAlone'
    <3> DEFINE q == Request("bootstrap", "insert", a, "admin", email, provision)
    <3>1. /\ q \in Requests /\ q.op = "bootstrap" /\ q.step = "insert" /\ q.group = 1
          /\ q.role = "admin" /\ q.email = email
      BY DEF Request, Requests, Roles, LastGroup
    <3>2. request' = [request EXCEPT ![w] = q] /\ UNCHANGED <<agencies, groups, accounts, rows>>
      BY <2>1 DEF BeginBootstrap
    <3>3. \A n \in 1..LastGroup : ~(n < 1)
      BY DEF LastGroup
    <3>4. GroupsHaveParents'
      BY <3>2 DEF BootstrapIsWhole, GroupsHaveParents
    <3> HIDE DEF q
    <3> QED
      BY <3>1, <3>2, <3>3, <3>4, RowsStand, RequestProceeds
  <2>2. ASSUME NEW w \in Workers, NEW a \in Payloads, NEW provision \in BOOLEAN,
               NEW role \in Roles, NEW email \in Emails \cup {None},
               BeginInvitation(w, a, role, email, provision)
        PROVE  BootstrapIsWhole' /\ WorkIsDone' /\ InsertedAlone'
    <3> DEFINE q == Request("invitation", "group", a, role, email, provision)
    <3>1. /\ q \in Requests /\ q.op = "invitation" /\ q.step = "group" /\ q.group = 1
          /\ q.agency = a
      BY DEF Request, Requests, LastGroup
    <3>2. /\ request' = [request EXCEPT ![w] = q] /\ a \in agencies
          /\ UNCHANGED <<agencies, groups, accounts, rows>>
      BY <2>2 DEF BeginInvitation
    <3>3. \A n \in 1..LastGroup : ~(n < 1)
      BY DEF LastGroup
    <3>4. GroupsHaveParents'
      BY <3>2 DEF BootstrapIsWhole, GroupsHaveParents
    <3> HIDE DEF q
    <3> QED
      BY <3>1, <3>2, <3>3, <3>4, RowsStand, RequestProceeds
  <2>3. ASSUME NEW w \in Workers, Step(w)
        PROVE  BootstrapIsWhole' /\ WorkIsDone' /\ InsertedAlone'
    BY <2>3, StepIsWhole
  <2>4. ASSUME NEW i \in Invitations, NEW email \in Emails, PrepareCredentials(i, email)
        PROVE  BootstrapIsWhole' /\ WorkIsDone' /\ InsertedAlone'
    <3>1. UNCHANGED <<agencies, pending, answered, groups, request>> /\ accounts \subseteq accounts'
      BY <2>4 DEF PrepareCredentials
    <3>2. BootstrapIsWhole'
      BY <3>1 DEF BootstrapIsWhole, AgenciesAreInvited, InvitationsAreProvisioned,
                  NamesAreUnique, TargetsAreUnique, GroupsHaveParents
    <3> QED
      BY <3>1, <3>2 DEF WorkIsDone, InsertedAlone, Inserted, At
  <2>5. ASSUME NEW i \in Invitations, Answer(i)
        PROVE  BootstrapIsWhole' /\ WorkIsDone' /\ InsertedAlone'
    <3>1. /\ UNCHANGED <<agencies, groups, accounts, request>>
          /\ pending' \subseteq pending
          /\ pending' \cup answered' = pending \cup answered
      BY <2>5 DEF Answer
    <3>2. BootstrapIsWhole'
      BY <3>1 DEF BootstrapIsWhole, AgenciesAreInvited, InvitationsAreProvisioned,
                  NamesAreUnique, TargetsAreUnique, GroupsHaveParents
    <3> QED
      BY <3>1, <3>2 DEF WorkIsDone, InsertedAlone, Inserted, At
  <2>6. CASE UNCHANGED vars
    BY <2>6 DEF vars, BootstrapIsWhole, AgenciesAreInvited, InvitationsAreProvisioned,
                NamesAreUnique, TargetsAreUnique, GroupsHaveParents,
                WorkIsDone, InsertedAlone, Inserted, At
  <2> QED
    BY <2>1, <2>2, <2>3, <2>4, <2>5, <2>6 DEF Next
<1>3. Whole => BootstrapIsWhole
  BY DEF Whole
<1> QED
  BY <1>1, <1>2, <1>3, PTL DEF Spec

=============================================================================
