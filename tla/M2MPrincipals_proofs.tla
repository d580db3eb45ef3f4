-------------------------- MODULE M2MPrincipals_proofs --------------------------
(***************************************************************************)
(* Theorems about the M2M clients of the companies, as MCAgreements has    *)
(* them beside the other components, for every value of its constants.     *)
(*                                                                         *)
(* Nothing is locked, so that the argument is about who may still disturb  *)
(* a client: a client is told from the others by an id that two requests   *)
(* for one name share, and whoever rotates or disables it while somebody   *)
(* else relies on it is known to.                                          *)
(***************************************************************************)
EXTENDS MCAgreements, TLAPS

-----------------------------------------------------------------------------
(***************************************************************************)
(* The invariant.                                                          *)
(***************************************************************************)
Jobs ==
  [pc : {"idle", "client", "secret", "insert", "commit", "compensate", "rotate", "store",
         "disable", "clear", "revoke", "delete"},
   of : ClientCompanies \cup {None}, op : {"create", "rotate", "revoke", "delete", None},
   id : M2M!ClientIds \cup {None}, uuid : M2M!Uuids \cup {None}, secret : M2M!Secrets]

Known == 1..clients
Changes == {"rotate", "revoke", "delete"}

\* A request of each kind goes through its steps; the ones a deletion has orphaned
\* are of no company, and end with their call to Keycloak.
InCourse(j) ==
  \/ j.op = None /\ j.pc = "idle" /\ j.of = None /\ j.uuid = None
  \/ /\ j.op = "create" /\ j.of \in ClientCompanies /\ j.id \in M2M!ClientIds
     /\ \/ j.pc = "client" /\ j.uuid = None
        \/ j.pc \in {"secret", "insert", "commit", "compensate"} /\ j.uuid \in M2M!Uuids
  \/ j.op = "rotate" /\ j.pc \in {"rotate", "store"} /\ j.uuid \in M2M!Uuids
  \/ j.op \in {"revoke", "delete"} /\ j.pc \in {"disable", "clear"} /\ j.uuid \in M2M!Uuids
  \/ /\ j.op \in {"revoke", "delete"} /\ j.pc = "revoke" /\ j.uuid \in M2M!Uuids
     /\ j.of \in ClientCompanies
  \/ j.op = "delete" /\ j.pc = "delete" /\ j.uuid \in M2M!Uuids /\ j.of \in ClientCompanies

\* A company that is being created has no row, one that is being changed has the
\* row the request has read.
Placed(j) ==
  /\ j.uuid # None => j.uuid \in Known
  /\ j.op = "create" => company[j.of] = "none"
  /\ j.op \in Changes /\ j.of \in ClientCompanies =>
       M2M!Rowed(j.of) /\ principal[j.of].uuid = j.uuid

JobsOK == \A w \in Workers : InCourse(job[w]) /\ Placed(job[w])

RowsOK ==
  /\ \A c \in ClientCompanies : company[c] = "present" <=> M2M!Rowed(c)
  /\ \A c \in ClientCompanies : M2M!Rowed(c) => principal[c].uuid \in Known
  /\ \A u \in M2M!Uuids : M2M!Exists(u) => u \in Known
  /\ \A v, w \in Workers :
       job[v].op = "create" /\ job[w].op = "create" /\ job[v].of = job[w].of => v = w

\* Who knows the client u by the id i: a row, a creation, Keycloak.
Named(u, i) ==
  \/ \E c \in ClientCompanies : M2M!Rowed(c) /\ principal[c].uuid = u /\ principal[c].id = i
  \/ \E w \in Workers : job[w].op = "create" /\ job[w].uuid = u /\ job[w].id = i
  \/ M2M!Exists(u) /\ client[u].id = i

IdIsNew(j) == \A d \in ClientCompanies : M2M!Rowed(d) => principal[d].id # j.id

\* A client has one id, also when it is gone; rows, and the rows about to be
\* committed, have distinct ones.
NamesOK ==
  /\ \A u \in M2M!Uuids, i, j \in M2M!ClientIds : Named(u, i) /\ Named(u, j) => i = j
  /\ \A c, d \in ClientCompanies :
       M2M!Rowed(c) /\ M2M!Rowed(d) /\ principal[c].id = principal[d].id => c = d
  /\ \A w \in Workers : job[w].pc = "commit" => IdIsNew(job[w])
  /\ \A v, w \in Workers :
       job[v].pc = "commit" /\ job[w].pc = "commit" /\ job[v].id = job[w].id => v = w

Live(u) == M2M!Exists(u) /\ client[u].enabled

\* A request that has disabled the client finds it so until its end.
Ends(j) ==
  /\ j.pc \in {"clear", "revoke"} => ~Live(j.uuid)
  /\ j.pc = "delete" => principal[j.of].status = "revoked" \/ j.of \in edited

DeadOK == M2M!RevokedIsDisabled /\ \A w \in Workers : Ends(job[w])

OwnersOK == \A u \in M2M!Uuids : Live(u) /\ M2M!UsersOf(u) = {} => u \in left

\* What a creation has found or made can be used, unless somebody disturbed it.
CreationUsable(j) ==
  j.op = "create" /\ j.of \notin spoiled =>
    /\ j.pc \in {"secret", "insert", "commit"} => Live(j.uuid)
    /\ j.pc \in {"insert", "commit"} => j.secret = client[j.uuid].secret

\* The requests that have changed the client of a company and not its row.
Touching(c) == {w \in Workers : job[w].of = c /\ job[w].pc \in {"store", "clear", "revoke"}}

RowUsable(c) ==
  M2M!Rowed(c) /\ principal[c].status = "active" /\ c \notin spoiled \cup edited =>
    /\ \A v, w \in Touching(c) : v = w
    /\ Touching(c) = {} =>
         Live(principal[c].uuid) /\ principal[c].secret = client[principal[c].uuid].secret
    /\ \A w \in Touching(c) : job[w].pc = "store" =>
         Live(principal[c].uuid) /\ job[w].secret = client[principal[c].uuid].secret

UsableOK ==
  /\ \A w \in Workers : CreationUsable(job[w])
  /\ \A c \in ClientCompanies : RowUsable(c)

ClientsInv ==
  M2M!TypeOK /\ JobsOK /\ RowsOK /\ NamesOK /\ DeadOK /\ OwnersOK /\ UsableOK

LEMMA ClientsTyped ==
  ASSUME M2M!TypeOK
  PROVE  /\ company \in [ClientCompanies -> {"none", "present"}] /\ contract \in SUBSET ClientCompanies
         /\ principal \in [ClientCompanies -> M2M!Principals \cup {None}]
         /\ client \in [M2M!Uuids -> M2M!Clients \cup {None}]
         /\ clients \in 0..MaxClients /\ secrets \in M2M!Secrets
         /\ job \in [Workers -> Jobs]
         /\ edited \in SUBSET ClientCompanies /\ spoiled \in SUBSET ClientCompanies /\ left \in SUBSET M2M!Uuids
         /\ MaxClients \in Nat /\ MaxSecrets \in Nat
         /\ None \notin ClientCompanies /\ None \notin M2M!Uuids
         /\ None \notin M2M!Principals /\ None \notin M2M!Clients
         /\ None \notin {"create", "rotate", "revoke", "delete"}
         /\ M2M!Uuids = 1..MaxClients /\ M2M!Secrets = 0..MaxSecrets
  BY InstancesAssumption DEF M2M!TypeOK, Jobs, M2M!ClientsAssumption, M2M!Uuids, M2M!Secrets

LEMMA TypeJoins ==
  ASSUME company' \in [ClientCompanies -> {"none", "present"}], contract' \in SUBSET ClientCompanies,
         principal' \in [ClientCompanies -> M2M!Principals \cup {None}],
         client' \in [M2M!Uuids -> M2M!Clients \cup {None}],
         clients' \in 0..MaxClients, secrets' \in M2M!Secrets, job' \in [Workers -> Jobs],
         edited' \in SUBSET ClientCompanies, spoiled' \in SUBSET ClientCompanies, left' \in SUBSET M2M!Uuids
  PROVE  M2M!TypeOK'
  BY DEF M2M!TypeOK, Jobs

-----------------------------------------------------------------------------
(***************************************************************************)
(* One request takes a step, which the rows of the companies do not see.   *)
(***************************************************************************)
\* The request of w is r from now on.
Moves(w, r) ==
  /\ r \in Jobs /\ job' = [job EXCEPT ![w] = r]
  /\ UNCHANGED <<company, contract, principal, edited>>

\* It is in course, and what it has found or made has its id.
Follows(w, r) ==
  /\ InCourse(r) /\ Placed(r)'
  /\ r.op = "create" => \A v \in Workers \ {w} : ~(job[v].op = "create" /\ job[v].of = r.of)
  /\ r.op = "create" /\ r.uuid # None => r.uuid = clients + 1 \/ Named(r.uuid, r.id)
  /\ r.pc = "commit" => /\ IdIsNew(r)
                        /\ \A v \in Workers \ {w} : job[v].pc = "commit" => job[v].id # r.id
  /\ Ends(r)'

\* A client is made by the request, is disabled, gets another secret, or is gone.
ClientsMove(w, r) ==
  /\ client' \in [M2M!Uuids -> M2M!Clients \cup {None}]
  /\ clients' \in {clients, clients + 1} /\ clients' <= MaxClients /\ secrets' \in M2M!Secrets
  /\ \A u \in M2M!Uuids : client'[u] # None =>
       \/ /\ client[u] # None /\ client'[u].id = client[u].id
          /\ client'[u].enabled => client[u].enabled
       \/ /\ u = clients + 1 /\ clients' = u
          /\ r.op = "create" /\ r.uuid = u /\ client'[u].id = r.id

\* If the request gives up its client, the row has it, or it was left, or disabled.
Hands(w, r) ==
  /\ left \subseteq left' /\ left' \subseteq M2M!Uuids
  /\ LET j == job[w] IN
     j.of \in ClientCompanies /\ j.uuid # None =>
       \/ r.of = j.of /\ r.uuid = j.uuid
       \/ M2M!Rowed(j.of) /\ principal[j.of].uuid = j.uuid
       \/ j.uuid \in left' \/ client'[j.uuid] = None \/ ~client'[j.uuid].enabled

\* Whoever else relies on a client that changes is disturbed.
Disturbs(w, r) ==
  /\ spoiled \subseteq spoiled' /\ spoiled' \subseteq ClientCompanies
  /\ \A u \in Known : client'[u] # client[u] => M2M!UsersOf(u) \ {job[w].of} \subseteq spoiled'
  /\ CreationUsable(r)'
  /\ \A c \in ClientCompanies : c \in {job[w].of, r.of} => RowUsable(c)'

LEMMA KnownStays ==
  ASSUME ClientsInv, NEW w \in Workers, NEW r, ClientsMove(w, r)
  PROVE  /\ Known \subseteq Known' /\ Known' \subseteq M2M!Uuids
         /\ Known \subseteq M2M!Uuids /\ clients + 1 \notin Known
         /\ \A u \in M2M!Uuids : Live(u)' => Live(u) \/ (u = clients + 1 /\ clients' = u)
         /\ \A u \in M2M!Uuids : client'[u] # None => u \in Known'
<1>1. clients \in 0..MaxClients /\ MaxClients \in Nat /\ M2M!Uuids = 1..MaxClients
      /\ \A u \in M2M!Uuids : M2M!Exists(u) => u \in Known
  BY ClientsTyped DEF ClientsInv, RowsOK
<1>2. clients' \in {clients, clients + 1} /\ clients' <= MaxClients
  BY DEF ClientsMove
<1>3. Known \subseteq Known' /\ Known' \subseteq M2M!Uuids /\ Known \subseteq M2M!Uuids
      /\ clients + 1 \notin Known /\ (clients' = clients + 1 => clients + 1 \in Known')
  BY <1>1, <1>2 DEF Known
<1>4. \A u \in M2M!Uuids : client'[u] # None =>
        \/ client[u] # None /\ (client'[u].enabled => client[u].enabled)
        \/ u = clients + 1 /\ clients' = u
  BY DEF ClientsMove
<1>5. QED
  BY <1>1, <1>3, <1>4 DEF Live, M2M!Exists

LEMMA MoveKeepsJobs ==
  ASSUME ClientsInv, NEW w \in Workers, NEW r, Moves(w, r), Follows(w, r), ClientsMove(w, r)
  PROVE  JobsOK' /\ RowsOK'
<1>1. job \in [Workers -> Jobs] /\ job' = [job EXCEPT ![w] = r]
      /\ UNCHANGED <<company, principal>> /\ Known \subseteq Known'
  BY ClientsTyped, KnownStays DEF ClientsInv, Moves
<1>2. job'[w] = r /\ \A v \in Workers \ {w} : job'[v] = job[v]
  BY <1>1
<1>3. \A v \in Workers \ {w} : Placed(job[v])'
  BY <1>1, <1>2 DEF ClientsInv, JobsOK, Placed, M2M!Rowed
<1>4. JobsOK'
  BY <1>2, <1>3 DEF ClientsInv, JobsOK, Follows, Placed
<1>5. RowsOK'
  <2>1. \A c \in ClientCompanies : company'[c] = "present" <=> M2M!Rowed(c)'
    BY <1>1 DEF ClientsInv, RowsOK, M2M!Rowed
  <2>2. \A c \in ClientCompanies : M2M!Rowed(c)' => principal'[c].uuid \in Known'
    BY <1>1 DEF ClientsInv, RowsOK, M2M!Rowed
  <2>3. \A u \in M2M!Uuids : M2M!Exists(u)' => u \in Known'
    <3>1. \A u \in M2M!Uuids : client'[u] # None => u \in Known'
      BY KnownStays
    <3>2. QED
      BY <3>1 DEF M2M!Exists
  <2>4. \A v, x \in Workers :
          job'[v].op = "create" /\ job'[x].op = "create" /\ job'[v].of = job'[x].of => v = x
    BY <1>2 DEF ClientsInv, RowsOK, Follows
  <2>5. QED
    BY <2>1, <2>2, <2>3, <2>4 DEF RowsOK
<1>6. QED
  BY <1>4, <1>5

LEMMA MoveKeepsNames ==
  ASSUME ClientsInv, NEW w \in Workers, NEW r, Moves(w, r), Follows(w, r), ClientsMove(w, r)
  PROVE  NamesOK'
<1>1. job \in [Workers -> Jobs] /\ job' = [job EXCEPT ![w] = r] /\ UNCHANGED principal
  BY ClientsTyped DEF ClientsInv, Moves
<1>2. job'[w] = r /\ \A v \in Workers \ {w} : job'[v] = job[v]
  BY <1>1
<1>3. \A u \in M2M!Uuids, i \in M2M!ClientIds :
        Named(u, i)' => Named(u, i) \/ (u = clients + 1 /\ i = r.id)
  <2> SUFFICES ASSUME NEW u \in M2M!Uuids, NEW i \in M2M!ClientIds, Named(u, i)'
               PROVE  Named(u, i) \/ (u = clients + 1 /\ i = r.id)
    OBVIOUS
  <2>1. CASE \E c \in ClientCompanies : M2M!Rowed(c)' /\ principal'[c].uuid = u /\ principal'[c].id = i
    BY <1>1, <2>1 DEF Named, M2M!Rowed
  <2>2. CASE \E v \in Workers : job'[v].op = "create" /\ job'[v].uuid = u /\ job'[v].id = i
    <3>1. PICK v \in Workers : job'[v].op = "create" /\ job'[v].uuid = u /\ job'[v].id = i
      BY <2>2
    <3>2. CASE v = w
      <4>1. u # None
        BY ClientsTyped DEF ClientsInv
      <4>2. QED
        BY <1>2, <3>1, <3>2, <4>1 DEF Follows
    <3>3. CASE v # w
      BY <1>2, <3>1, <3>3 DEF Named
    <3>4. QED
      BY <3>2, <3>3
  <2>3. CASE M2M!Exists(u)' /\ client'[u].id = i
    BY <2>3 DEF ClientsMove, Named, M2M!Exists
  <2>4. QED
    BY <2>1, <2>2, <2>3 DEF Named
<1>4. \A u \in M2M!Uuids, i \in M2M!ClientIds : Named(u, i) => u \in Known
  <2> SUFFICES ASSUME NEW u \in M2M!Uuids, NEW i \in M2M!ClientIds, Named(u, i) PROVE u \in Known
    OBVIOUS
  <2>1. u # None
    BY ClientsTyped DEF ClientsInv
  <2>2. QED
    BY <2>1 DEF Named, ClientsInv, JobsOK, Placed, RowsOK
<1>5. \A u \in M2M!Uuids, i, j \in M2M!ClientIds : Named(u, i)' /\ Named(u, j)' => i = j
  BY <1>3, <1>4, KnownStays DEF ClientsInv, NamesOK
<1>6. \A c, d \in ClientCompanies : M2M!Rowed(c)' /\ M2M!Rowed(d)' /\ principal'[c].id = principal'[d].id => c = d
  BY <1>1 DEF ClientsInv, NamesOK, M2M!Rowed
<1>7. \A v \in Workers : job'[v].pc = "commit" => IdIsNew(job[v])'
  <2> SUFFICES ASSUME NEW v \in Workers, job'[v].pc = "commit", NEW d \in ClientCompanies, M2M!Rowed(d)'
               PROVE  principal'[d].id # job'[v].id
    BY DEF IdIsNew
  <2>1. CASE v = w
    BY <1>1, <1>2, <2>1 DEF Follows, IdIsNew, M2M!Rowed
  <2>2. CASE v # w
    BY <1>1, <1>2, <2>2 DEF ClientsInv, NamesOK, IdIsNew, M2M!Rowed
  <2>3. QED
    BY <2>1, <2>2
<1>8. \A v, x \in Workers :
        job'[v].pc = "commit" /\ job'[x].pc = "commit" /\ job'[v].id = job'[x].id => v = x
  BY <1>2 DEF ClientsInv, NamesOK, Follows
<1>9. QED
  BY <1>5, <1>6, <1>7, <1>8 DEF NamesOK

LEMMA MoveKeepsDead ==
  ASSUME ClientsInv, NEW w \in Workers, NEW r, Moves(w, r), Follows(w, r), ClientsMove(w, r)
  PROVE  DeadOK'
<1>1. job \in [Workers -> Jobs] /\ job' = [job EXCEPT ![w] = r] /\ UNCHANGED <<principal, edited>>
  BY ClientsTyped DEF ClientsInv, Moves
<1>2. job'[w] = r /\ \A v \in Workers \ {w} : job'[v] = job[v]
  BY <1>1
<1>3. \A u \in Known : ~Live(u) => ~Live(u)'
  BY KnownStays
<1>4. M2M!RevokedIsDisabled'
  <2> SUFFICES ASSUME NEW c \in ClientCompanies, M2M!Rowed(c), principal[c].status = "revoked", c \notin edited
               PROVE  ~Live(principal[c].uuid)'
    BY <1>1 DEF M2M!RevokedIsDisabled, M2M!Rowed, Live
  <2>1. principal[c].uuid \in Known /\ ~Live(principal[c].uuid)
    BY DEF ClientsInv, RowsOK, DeadOK, M2M!RevokedIsDisabled, Live
  <2>2. QED
    BY <1>1, <1>3, <2>1 DEF Live, M2M!Exists
<1>5. \A v \in Workers : Ends(job[v])'
  <2> SUFFICES ASSUME NEW v \in Workers PROVE Ends(job[v])'
    OBVIOUS
  <2>1. CASE v = w
    BY <1>1, <1>2, <2>1 DEF Follows, Ends, Live, M2M!Exists
  <2>2. CASE v # w
    <3>1. /\ job[v].pc \in {"clear", "revoke"} => job[v].uuid \in Known /\ ~Live(job[v].uuid)
          /\ job[v].pc = "delete" =>
               principal[job[v].of].status = "revoked" \/ job[v].of \in edited
      <4>1. job[v].pc \in {"clear", "revoke"} => job[v].uuid # None
        BY ClientsTyped DEF ClientsInv, JobsOK, InCourse
      <4>2. QED
        BY <4>1 DEF ClientsInv, JobsOK, DeadOK, Ends, Placed
    <3>2. QED
      BY <1>1, <1>2, <1>3, <2>2, <3>1 DEF Ends, Live, M2M!Exists
  <2>3. QED
    BY <2>1, <2>2
<1>6. QED
  BY <1>4, <1>5 DEF DeadOK

LEMMA MoveKeepsOwners ==
  ASSUME ClientsInv, NEW w \in Workers, NEW r, Moves(w, r), Follows(w, r), ClientsMove(w, r),
         Hands(w, r)
  PROVE  OwnersOK'
<1>1. job \in [Workers -> Jobs] /\ job' = [job EXCEPT ![w] = r] /\ UNCHANGED principal
      /\ left \subseteq left'
  BY ClientsTyped DEF ClientsInv, Moves, Hands
<1>2. job'[w] = r /\ \A v \in Workers \ {w} : job'[v] = job[v]
  BY <1>1
<1>3. SUFFICES ASSUME NEW u \in M2M!Uuids, Live(u)', M2M!UsersOf(u)' = {} PROVE u \in left'
  BY DEF OwnersOK
<1>4. \A c \in ClientCompanies :
        /\ ~(M2M!Rowed(c) /\ principal[c].uuid = u)
        /\ \A v \in Workers : ~(job'[v].of = c /\ job'[v].uuid = u)
  BY <1>1, <1>3 DEF M2M!UsersOf, M2M!Rowed
<1>5. CASE u = clients + 1 /\ clients' = u /\ r.op = "create" /\ r.uuid = u
  <2>1. u # None
    BY ClientsTyped DEF ClientsInv
  <2>2. r.of \in ClientCompanies
    BY <1>5, <2>1 DEF Follows, InCourse
  <2>3. QED
    BY <1>2, <1>4, <1>5, <2>2
<1>6. CASE ~(u = clients + 1 /\ clients' = u /\ r.op = "create" /\ r.uuid = u)
  <2>1. Live(u)
    BY <1>3, <1>6 DEF ClientsMove, Live, M2M!Exists
  <2>2. CASE M2M!UsersOf(u) = {}
    BY <1>1, <2>1, <2>2 DEF ClientsInv, OwnersOK
  <2>3. CASE M2M!UsersOf(u) # {}
    <3>1. job[w].of \in ClientCompanies /\ job[w].uuid = u
      BY <1>2, <1>4, <2>3 DEF M2M!UsersOf
    <3>2. u # None
      BY ClientsTyped DEF ClientsInv
    <3>3. client'[u] # None /\ client'[u].enabled
      BY <1>3 DEF Live, M2M!Exists
    <3>4. \/ r.of = job[w].of /\ r.uuid = u
          \/ M2M!Rowed(job[w].of) /\ principal[job[w].of].uuid = u
          \/ u \in left'
      BY <3>1, <3>2, <3>3 DEF Hands
    <3>5. QED
      BY <1>2, <1>4, <3>1, <3>4
  <2>4. QED
    BY <2>2, <2>3
<1>7. QED
  BY <1>5, <1>6

LEMMA MoveKeepsUsable ==
  ASSUME ClientsInv, NEW w \in Workers, NEW r, Moves(w, r), Follows(w, r), ClientsMove(w, r),
         Disturbs(w, r)
  PROVE  UsableOK'
<1>1. job \in [Workers -> Jobs] /\ job' = [job EXCEPT ![w] = r]
      /\ UNCHANGED <<company, principal, edited>> /\ spoiled \subseteq spoiled'
  BY ClientsTyped DEF ClientsInv, Moves, Disturbs
<1>2. job'[w] = r /\ \A v \in Workers \ {w} : job'[v] = job[v]
  BY <1>1
<1>3. \A u \in Known : \/ client'[u] = client[u]
                        \/ M2M!UsersOf(u) \ {job[w].of} \subseteq spoiled'
  BY DEF Disturbs
<1>4. \A v \in Workers : CreationUsable(job[v])'
  <2> SUFFICES ASSUME NEW v \in Workers PROVE CreationUsable(job[v])'
    OBVIOUS
  <2>1. CASE v = w
    BY <1>1, <1>2, <2>1 DEF Disturbs, CreationUsable, Live, M2M!Exists
  <2>2. CASE v # w
    <3> SUFFICES ASSUME job[v].op = "create", job[v].of \notin spoiled',
                        job[v].pc \in {"secret", "insert", "commit"}
                 PROVE  /\ client'[job[v].uuid] # None /\ client'[job[v].uuid].enabled
                        /\ job[v].pc \in {"insert", "commit"} =>
                             job[v].secret = client'[job[v].uuid].secret
      BY <1>2, <2>2 DEF CreationUsable, Live, M2M!Exists
    <3>1. /\ Live(job[v].uuid)
          /\ job[v].pc \in {"insert", "commit"} => job[v].secret = client[job[v].uuid].secret
      BY <1>1 DEF ClientsInv, UsableOK, CreationUsable
    <3>2. job[v].of \in ClientCompanies /\ job[v].uuid \in Known /\ job[v].of \in M2M!UsersOf(job[v].uuid)
      <4>1. job[v].of \in ClientCompanies /\ job[v].uuid # None
        BY ClientsTyped DEF ClientsInv, JobsOK, InCourse
      <4>2. QED
        BY <4>1 DEF ClientsInv, JobsOK, Placed, M2M!UsersOf
    <3>3. client'[job[v].uuid] = client[job[v].uuid]
      <4>1. CASE job[w].of # job[v].of
        BY <1>3, <3>2, <4>1
      <4>2. CASE job[w].of = job[v].of
        <5>1. job[w].op # "create"
          BY <2>2, <4>2 DEF ClientsInv, RowsOK
        <5>2. job[w].op \in Changes
          BY <3>2, <4>2, <5>1, ClientsTyped DEF ClientsInv, JobsOK, InCourse, Changes
        <5>3. company[job[v].of] = "none" /\ M2M!Rowed(job[w].of)
          BY <3>2, <4>2, <5>2 DEF ClientsInv, JobsOK, Placed
        <5>4. QED
          BY <3>2, <4>2, <5>3 DEF ClientsInv, RowsOK
      <4>3. QED
        BY <4>1, <4>2
    <3>4. QED
      BY <3>1, <3>3 DEF Live, M2M!Exists
  <2>3. QED
    BY <2>1, <2>2
<1>5. \A c \in ClientCompanies : RowUsable(c)'
  <2> SUFFICES ASSUME NEW c \in ClientCompanies, c # job[w].of, c # r.of PROVE RowUsable(c)'
    BY DEF Disturbs
  <2>1. Touching(c)' = Touching(c) /\ \A v \in Touching(c) : job'[v] = job[v]
    BY <1>2 DEF Touching
  <2> SUFFICES ASSUME M2M!Rowed(c), principal[c].status = "active", c \notin spoiled' \cup edited
               PROVE  /\ \A v, x \in Touching(c) : v = x
                      /\ Touching(c) = {} =>
                           /\ client'[principal[c].uuid] # None
                           /\ client'[principal[c].uuid].enabled
                           /\ principal[c].secret = client'[principal[c].uuid].secret
                      /\ \A v \in Touching(c) : job[v].pc = "store" =>
                           /\ client'[principal[c].uuid] # None
                           /\ client'[principal[c].uuid].enabled
                           /\ job[v].secret = client'[principal[c].uuid].secret
    BY <1>1, <2>1 DEF RowUsable, M2M!Rowed, Live, M2M!Exists
  <2>2. c \in M2M!UsersOf(principal[c].uuid) /\ principal[c].uuid \in Known
    BY DEF M2M!UsersOf, ClientsInv, RowsOK
  <2>3. client'[principal[c].uuid] = client[principal[c].uuid]
    BY <1>3, <2>2
  <2>4. RowUsable(c) /\ c \notin spoiled
    BY <1>1 DEF ClientsInv, UsableOK
  <2>5. QED
    BY <2>3, <2>4 DEF RowUsable, Live, M2M!Exists
<1>6. QED
  BY <1>4, <1>5 DEF UsableOK

LEMMA MoveKeepsTypes ==
  ASSUME ClientsInv, NEW w \in Workers, NEW r, Moves(w, r), ClientsMove(w, r), Hands(w, r),
         Disturbs(w, r)
  PROVE  M2M!TypeOK'
<1>1. clients' \in 0..MaxClients
  BY ClientsTyped DEF ClientsInv, ClientsMove
<1>2. job' \in [Workers -> Jobs]
  BY ClientsTyped DEF ClientsInv, Moves
<1>3. /\ company' \in [ClientCompanies -> {"none", "present"}] /\ contract' \in SUBSET ClientCompanies
      /\ principal' \in [ClientCompanies -> M2M!Principals \cup {None}] /\ edited' \in SUBSET ClientCompanies
  BY ClientsTyped DEF ClientsInv, Moves
<1>4. QED
  BY <1>1, <1>2, <1>3, TypeJoins DEF ClientsMove, Hands, Disturbs

LEMMA MoveKeeps ==
  ASSUME ClientsInv, NEW w \in Workers, NEW r, Moves(w, r), Follows(w, r), ClientsMove(w, r),
         Hands(w, r), Disturbs(w, r)
  PROVE  ClientsInv'
<1>1. M2M!TypeOK' /\ JobsOK' /\ RowsOK' /\ NamesOK'
  BY MoveKeepsTypes, MoveKeepsJobs, MoveKeepsNames
<1>2. DeadOK' /\ OwnersOK' /\ UsableOK'
  BY MoveKeepsDead, MoveKeepsOwners, MoveKeepsUsable
<1>3. QED
  BY <1>1, <1>2 DEF ClientsInv

\* What the steps below share: the frame of a request that does not call Keycloak,
\* and of one that ends.
Touches(j) == j.pc \in {"store", "clear", "revoke"}

LEMMA StillClients ==
  ASSUME ClientsInv, NEW w \in Workers, NEW r, UNCHANGED <<client, clients, secrets>>
  PROVE  ClientsMove(w, r)
BY ClientsTyped DEF ClientsInv, ClientsMove

LEMMA IdleFits ==
  /\ M2M!Idle \in Jobs /\ InCourse(M2M!Idle)
  /\ M2M!Idle.of = None /\ M2M!Idle.op = None /\ M2M!Idle.uuid = None /\ M2M!Idle.pc = "idle"
<1>1. M2M!Secrets = 0..MaxSecrets /\ MaxSecrets \in Nat
  BY InstancesAssumption DEF M2M!ClientsAssumption, M2M!Secrets
<1>2. 0 \in M2M!Secrets
  BY <1>1
<1>3. QED
  BY <1>2 DEF M2M!Idle, Jobs, InCourse

LEMMA Ending ==
  ASSUME ClientsInv, NEW w \in Workers, M2M!Finish(w),
         UNCHANGED <<company, contract, principal, edited>>
  PROVE  /\ Moves(w, M2M!Idle) /\ Follows(w, M2M!Idle)
         /\ CreationUsable(M2M!Idle)' /\ M2M!Idle.of \notin ClientCompanies
<1>1. None \notin ClientCompanies
  BY InstancesAssumption DEF M2M!ClientsAssumption
<1>2. Moves(w, M2M!Idle)
  BY IdleFits DEF Moves, M2M!Finish
<1>3. M2M!Idle.op # "create" /\ M2M!Idle.op \notin Changes
  BY InstancesAssumption DEF M2M!Idle, Changes, M2M!ClientsAssumption
<1>4. Placed(M2M!Idle)' /\ Ends(M2M!Idle)' /\ CreationUsable(M2M!Idle)'
  BY IdleFits, <1>3 DEF Placed, Ends, CreationUsable
<1>5. Follows(w, M2M!Idle)
  BY IdleFits, <1>3, <1>4 DEF Follows
<1>6. QED
  BY <1>1, <1>2, <1>4, <1>5, IdleFits

LEMMA RowAlike ==
  ASSUME ClientsInv, NEW w \in Workers, NEW r, Moves(w, r), UNCHANGED client,
         spoiled \subseteq spoiled', ~Touches(job[w]), ~Touches(r), NEW c \in ClientCompanies
  PROVE  RowUsable(c)'
<1>1. job \in [Workers -> Jobs] /\ job' = [job EXCEPT ![w] = r] /\ UNCHANGED <<principal, edited>>
  BY ClientsTyped DEF ClientsInv, Moves
<1>2. job'[w] = r /\ \A v \in Workers \ {w} : job'[v] = job[v]
  BY <1>1
<1>3. Touching(c)' = Touching(c) /\ \A v \in Touching(c) : job'[v] = job[v]
  BY <1>2 DEF Touching, Touches
<1>4. RowUsable(c)
  BY DEF ClientsInv, UsableOK
<1>5. QED
  BY <1>1, <1>3, <1>4 DEF RowUsable, M2M!Rowed, Live, M2M!Exists

\* A request that does not call Keycloak and has not called it for a change.
LEMMA QuietMove ==
  ASSUME ClientsInv, NEW w \in Workers, NEW r, Moves(w, r), Follows(w, r), Hands(w, r),
         UNCHANGED <<client, clients, secrets>>,
         spoiled \subseteq spoiled', spoiled' \subseteq ClientCompanies,
         ~Touches(job[w]), ~Touches(r), CreationUsable(r)'
  PROVE  ClientsInv'
<1>1. ClientsMove(w, r)
  BY StillClients
<1>2. \A c \in ClientCompanies : RowUsable(c)'
  BY RowAlike
<1>3. Disturbs(w, r)
  BY <1>2 DEF Disturbs
<1>4. QED
  BY <1>1, <1>3, MoveKeeps

\* What is known of a request that creates a company, or changes its principal.
LEMMA Creating ==
  ASSUME ClientsInv, NEW w \in Workers, job[w].op = "create"
  PROVE  /\ job[w] \in Jobs /\ job[w].of \in ClientCompanies /\ job[w].id \in M2M!ClientIds
         /\ company[job[w].of] = "none" /\ ~M2M!Rowed(job[w].of)
         /\ \/ job[w].pc = "client" /\ job[w].uuid = None
            \/ /\ job[w].pc \in {"secret", "insert", "commit", "compensate"}
               /\ job[w].uuid \in M2M!Uuids /\ job[w].uuid \in Known
               /\ Named(job[w].uuid, job[w].id)
         /\ \A v \in Workers \ {w} : ~(job[v].op = "create" /\ job[v].of = job[w].of)
<1>1. job[w] \in Jobs /\ InCourse(job[w]) /\ Placed(job[w])
      /\ None \notin {"create", "rotate", "revoke", "delete"} /\ None \notin M2M!Uuids
  BY ClientsTyped DEF ClientsInv, JobsOK
<1>2. job[w].of \in ClientCompanies /\ job[w].id \in M2M!ClientIds /\ company[job[w].of] = "none"
  BY <1>1 DEF InCourse, Placed
<1>3. ~M2M!Rowed(job[w].of)
  BY <1>2 DEF ClientsInv, RowsOK
<1>4. \A v \in Workers \ {w} : ~(job[v].op = "create" /\ job[v].of = job[w].of)
  BY DEF ClientsInv, RowsOK
<1>5. \/ job[w].pc = "client" /\ job[w].uuid = None
      \/ /\ job[w].pc \in {"secret", "insert", "commit", "compensate"}
         /\ job[w].uuid \in M2M!Uuids /\ job[w].uuid \in Known
  BY <1>1 DEF InCourse, Placed
<1>6. job[w].uuid # None => Named(job[w].uuid, job[w].id)
  BY DEF Named
<1>7. QED
  BY <1>1, <1>2, <1>3, <1>4, <1>5, <1>6

LEMMA Changing ==
  ASSUME ClientsInv, NEW w \in Workers, job[w].op \in Changes
  PROVE  /\ job[w] \in Jobs /\ job[w].uuid \in M2M!Uuids /\ job[w].uuid \in Known
         /\ job[w].of \in ClientCompanies => M2M!Rowed(job[w].of) /\ principal[job[w].of].uuid = job[w].uuid
         /\ job[w].of \notin ClientCompanies => job[w].of = None
<1>1. job[w] \in Jobs /\ InCourse(job[w]) /\ Placed(job[w])
      /\ None \notin {"create", "rotate", "revoke", "delete"} /\ None \notin M2M!Uuids
  BY ClientsTyped DEF ClientsInv, JobsOK
<1>2. job[w].op # None
  BY <1>1 DEF InCourse, Changes
<1>3. QED
  BY <1>1, <1>2 DEF InCourse, Placed, Changes, Jobs

-----------------------------------------------------------------------------
(***************************************************************************)
(* The steps of a creation.                                                *)
(***************************************************************************)
LEMMA BeginCreationKeeps ==
  ASSUME ClientsInv, NEW w \in Workers, NEW c \in ClientCompanies, M2M!BeginCreation(w, c) PROVE ClientsInv'
<1>1. PICK r \in Jobs : r = [M2M!Idle EXCEPT !.pc = "client", !.of = c, !.op = "create", !.id = M2M!IdFor(c)]
  <2>1. M2M!IdFor(c) \in M2M!ClientIds
    BY DEF M2M!IdFor, M2M!ClientIds
  <2>2. [M2M!Idle EXCEPT !.pc = "client", !.of = c, !.op = "create", !.id = M2M!IdFor(c)] \in Jobs
    BY <2>1, IdleFits DEF M2M!Idle, Jobs
  <2>3. QED
    BY <2>2
<1>2. r.pc = "client" /\ r.of = c /\ r.op = "create" /\ r.id \in M2M!ClientIds /\ r.uuid = None
  <2>1. r.pc = "client" /\ r.of = c /\ r.op = "create" /\ r.uuid = None
    BY <1>1 DEF M2M!Idle
  <2>2. r.id = M2M!IdFor(c)
    BY <1>1 DEF M2M!Idle
  <2>3. QED
    BY <2>1, <2>2 DEF M2M!IdFor, M2M!ClientIds
<1>3. job[w] = M2M!Idle /\ job[w].of \notin ClientCompanies /\ ~Touches(job[w])
  BY IdleFits, ClientsTyped DEF M2M!BeginCreation, ClientsInv, Touches
<1>4. Moves(w, r)
  BY <1>1 DEF M2M!BeginCreation, M2M!history, Moves
<1>5. Follows(w, r)
  <2>1. InCourse(r)
    BY <1>2 DEF InCourse
  <2>2. Placed(r)' /\ Ends(r)'
    BY <1>2 DEF Placed, Ends, Changes, M2M!BeginCreation
  <2>3. \A v \in Workers \ {w} : ~(job[v].op = "create" /\ job[v].of = r.of)
    BY <1>2 DEF M2M!BeginCreation
  <2>4. QED
    BY <1>2, <2>1, <2>2, <2>3 DEF Follows
<1>6. Hands(w, r) /\ ~Touches(r) /\ CreationUsable(r)'
  BY <1>2, <1>3, ClientsTyped DEF Hands, Touches, CreationUsable, M2M!BeginCreation, M2M!history, ClientsInv
<1>7. QED
  BY <1>3, <1>4, <1>5, <1>6, QuietMove, ClientsTyped
     DEF M2M!BeginCreation, M2M!history, M2M!keycloak, ClientsInv

\* What a creation does next: it goes on with its client, and has no row.
LEMMA CreationMove ==
  ASSUME ClientsInv, NEW w \in Workers, NEW r, job[w].op = "create", Moves(w, r), ClientsMove(w, r),
         r.op = "create", r.of = job[w].of, r.id = job[w].id, r.uuid \in M2M!Uuids,
         r.pc \in {"secret", "insert", "commit", "compensate"},
         r.uuid \in Known', r.uuid = clients + 1 \/ Named(r.uuid, r.id),
         job[w].uuid # None => r.uuid = job[w].uuid,
         r.pc = "commit" => IdIsNew(r) /\ \A v \in Workers \ {w} : job[v].pc = "commit" => job[v].id # r.id,
         left' = left, spoiled \subseteq spoiled', spoiled' \subseteq ClientCompanies,
         \A u \in Known : client'[u] = client[u],
         CreationUsable(r)'
  PROVE  ClientsInv'
<1>1. job[w].of \in ClientCompanies /\ job[w].id \in M2M!ClientIds /\ company[job[w].of] = "none"
      /\ ~M2M!Rowed(job[w].of)
      /\ \A v \in Workers \ {w} : ~(job[v].op = "create" /\ job[v].of = job[w].of)
  BY Creating
<1>2. UNCHANGED <<company, principal, edited>> /\ left \subseteq M2M!Uuids
  BY ClientsTyped DEF Moves, ClientsInv
<1>3. Placed(r)' /\ Ends(r)'
  BY <1>1, <1>2 DEF Placed, Ends, Changes
<1>4. Follows(w, r)
  BY <1>1, <1>3 DEF Follows, InCourse
<1>5. Hands(w, r)
  BY <1>2 DEF Hands
<1>6. Disturbs(w, r)
  <2>1. \A c \in ClientCompanies : c \in {job[w].of, r.of} => RowUsable(c)'
    <3> SUFFICES ASSUME NEW c \in ClientCompanies, c = job[w].of PROVE RowUsable(c)'
      OBVIOUS
    <3>1. ~M2M!Rowed(c)'
      BY <1>1, <1>2 DEF M2M!Rowed
    <3>2. QED
      BY <3>1 DEF RowUsable
  <2>2. QED
    BY <2>1 DEF Disturbs
<1>7. QED
  BY <1>4, <1>5, <1>6, MoveKeeps

LEMMA FindClientKeeps ==
  ASSUME ClientsInv, NEW w \in Workers, M2M!FindClient(w) PROVE ClientsInv'
<1>1. job[w].op = "create" /\ job[w].pc = "client" /\ job[w].uuid = None
  BY ClientsTyped DEF M2M!FindClient, ClientsInv, JobsOK, InCourse
<1>2. job[w] \in Jobs /\ job[w].id \in M2M!ClientIds /\ job[w].of \in ClientCompanies
  BY <1>1, Creating
<1>3. PICK u \in M2M!Uuids :
        /\ M2M!HasId(u, job[w].id)
        /\ job' = [job EXCEPT ![w].pc = "secret", ![w].uuid = u]
        /\ spoiled' = IF client[u].enabled THEN spoiled ELSE spoiled \cup {job[w].of}
  BY DEF M2M!FindClient
<1>4. PICK r \in Jobs : r = [job[w] EXCEPT !.pc = "secret", !.uuid = u]
  BY <1>2 DEF Jobs
<1>5. r.pc = "secret" /\ r.uuid = u /\ r.op = "create" /\ r.of = job[w].of /\ r.id = job[w].id
  BY <1>1, <1>2, <1>4 DEF Jobs
<1>6. Moves(w, r)
  <2>1. job' = [job EXCEPT ![w] = r]
    BY <1>3, <1>4, ClientsTyped DEF ClientsInv
  <2>2. QED
    BY <2>1 DEF Moves, M2M!FindClient
<1>7. u \in Known /\ Named(u, r.id)
  BY <1>3, <1>5 DEF M2M!HasId, M2M!Exists, Named, ClientsInv, RowsOK
<1>8. UNCHANGED <<client, clients, secrets, left>>
  BY DEF M2M!FindClient, M2M!keycloak
<1>9. CreationUsable(r)'
  BY <1>2, <1>3, <1>5, <1>8 DEF CreationUsable, Live, M2M!HasId, M2M!Exists
<1>10. spoiled \subseteq spoiled' /\ spoiled' \subseteq ClientCompanies
  BY <1>2, <1>3, ClientsTyped DEF ClientsInv
<1>11. ClientsMove(w, r) /\ Known' = Known
  BY <1>8, StillClients DEF Known
<1>12. QED
  BY <1>1, <1>5, <1>6, <1>7, <1>8, <1>9, <1>10, <1>11, CreationMove

LEMMA MakeClientKeeps ==
  ASSUME ClientsInv, NEW w \in Workers, M2M!MakeClient(w) PROVE ClientsInv'
<1>1. job[w].op = "create" /\ job[w].pc = "client" /\ job[w].uuid = None
  BY ClientsTyped DEF M2M!MakeClient, ClientsInv, JobsOK, InCourse
<1>2. job[w] \in Jobs /\ job[w].id \in M2M!ClientIds /\ job[w].of \in ClientCompanies
  BY <1>1, Creating
<1>3. PICK u : u = clients + 1
  OBVIOUS
<1>4. u \in M2M!Uuids /\ clients \in Nat /\ u \notin Known /\ secrets + 1 \in M2M!Secrets
  BY <1>3, ClientsTyped DEF M2M!MakeClient, ClientsInv, Known
<1>5. PICK k \in M2M!Clients : k = [id |-> job[w].id, enabled |-> TRUE, secret |-> secrets + 1]
  BY <1>2, <1>4 DEF M2M!Clients
<1>6. client' = [client EXCEPT ![u] = k] /\ clients' = u /\ secrets' = secrets + 1
      /\ job' = [job EXCEPT ![w].pc = "secret", ![w].uuid = u]
      /\ UNCHANGED <<company, contract, principal, edited, spoiled, left>>
  BY <1>3, <1>5 DEF M2M!MakeClient, M2M!history
<1>7. PICK r \in Jobs : r = [job[w] EXCEPT !.pc = "secret", !.uuid = u]
  BY <1>2, <1>4 DEF Jobs
<1>8. r.pc = "secret" /\ r.uuid = u /\ r.op = "create" /\ r.of = job[w].of /\ r.id = job[w].id
  BY <1>1, <1>2, <1>7 DEF Jobs
<1>9. Moves(w, r)
  <2>1. job' = [job EXCEPT ![w] = r]
    BY <1>6, <1>7, ClientsTyped DEF ClientsInv
  <2>2. QED
    BY <1>6, <2>1 DEF Moves
<1>10. client'[u] = k /\ \A v \in M2M!Uuids \ {u} : client'[v] = client[v]
  BY <1>4, <1>6, ClientsTyped DEF ClientsInv
<1>11. k # None /\ k.id = r.id /\ k.enabled
  BY <1>5, <1>8, ClientsTyped DEF ClientsInv
<1>12. ClientsMove(w, r)
  <2>1. client' \in [M2M!Uuids -> M2M!Clients \cup {None}]
    BY <1>6, ClientsTyped DEF ClientsInv
  <2>2. clients' <= MaxClients
    BY <1>3, <1>4, <1>6, ClientsTyped DEF M2M!Uuids, ClientsInv
  <2>3. QED
    BY <1>3, <1>4, <1>6, <1>8, <1>10, <1>11, <2>1, <2>2 DEF ClientsMove
<1>13. u \in Known' /\ \A v \in Known : client'[v] = client[v]
  <2>1. u \in Known'
    BY <1>3, <1>4, <1>6 DEF Known
  <2>2. Known \subseteq M2M!Uuids
    BY <1>12, KnownStays
  <2>3. QED
    BY <1>4, <1>10, <2>1, <2>2
<1>14. CreationUsable(r)'
  BY <1>8, <1>10, <1>11 DEF CreationUsable, Live, M2M!Exists
<1>15. spoiled \subseteq ClientCompanies
  BY ClientsTyped DEF ClientsInv
<1>16. QED
  BY <1>1, <1>3, <1>4, <1>6, <1>8, <1>9, <1>12, <1>13, <1>14, <1>15, CreationMove

LEMMA GetSecretKeeps ==
  ASSUME ClientsInv, NEW w \in Workers, M2M!GetSecret(w) PROVE ClientsInv'
<1>1. job[w].op = "create" /\ job[w].pc = "secret"
  BY ClientsTyped DEF M2M!GetSecret, ClientsInv, JobsOK, InCourse
<1>2. /\ job[w] \in Jobs /\ job[w].id \in M2M!ClientIds /\ job[w].of \in ClientCompanies
      /\ job[w].uuid \in M2M!Uuids /\ job[w].uuid \in Known /\ Named(job[w].uuid, job[w].id)
  BY <1>1, Creating
<1>3. client[job[w].uuid].secret \in M2M!Secrets
  BY <1>2, ClientsTyped DEF M2M!GetSecret, M2M!Exists, ClientsInv, M2M!Clients
<1>4. PICK r \in Jobs : r = [job[w] EXCEPT !.pc = "insert", !.secret = client[job[w].uuid].secret]
  BY <1>2, <1>3 DEF Jobs
<1>5. r.pc = "insert" /\ r.uuid = job[w].uuid /\ r.op = "create" /\ r.of = job[w].of
      /\ r.id = job[w].id /\ r.secret = client[job[w].uuid].secret
  BY <1>1, <1>2, <1>4 DEF Jobs
<1>6. UNCHANGED <<company, contract, principal, client, clients, secrets, edited, spoiled, left>>
  BY DEF M2M!GetSecret, M2M!keycloak, M2M!history
<1>7. Moves(w, r)
  <2>1. job' = [job EXCEPT ![w] = r]
    BY <1>4, ClientsTyped DEF ClientsInv, M2M!GetSecret
  <2>2. QED
    BY <1>6, <2>1 DEF Moves
<1>8. CreationUsable(r)'
  <2>1. CreationUsable(job[w])
    BY DEF ClientsInv, UsableOK
  <2>2. QED
    BY <1>1, <1>5, <1>6, <2>1 DEF CreationUsable, Live, M2M!Exists
<1>9. ClientsMove(w, r) /\ Known' = Known /\ spoiled \subseteq ClientCompanies
  BY <1>6, StillClients, ClientsTyped DEF Known, ClientsInv
<1>10. QED
  BY <1>1, <1>2, <1>5, <1>6, <1>7, <1>8, <1>9, CreationMove

LEMMA InsertPrincipalKeeps ==
  ASSUME ClientsInv, NEW w \in Workers, M2M!InsertPrincipal(w) PROVE ClientsInv'
<1>1. job[w].op = "create" /\ job[w].pc = "insert"
  BY ClientsTyped DEF M2M!InsertPrincipal, ClientsInv, JobsOK, InCourse
<1>2. /\ job[w] \in Jobs /\ job[w].id \in M2M!ClientIds /\ job[w].of \in ClientCompanies
      /\ job[w].uuid \in M2M!Uuids /\ job[w].uuid \in Known /\ Named(job[w].uuid, job[w].id)
  BY <1>1, Creating
<1>3. UNCHANGED <<company, contract, principal, client, clients, secrets, edited, spoiled, left>>
  BY DEF M2M!InsertPrincipal, M2M!keycloak, M2M!history
<1>4. PICK pc \in {"commit", "compensate"} :
        /\ M2M!Goto(w, pc)
        /\ pc = "commit" => M2M!IdIsFree(w)
  BY DEF M2M!InsertPrincipal
<1>5. PICK r \in Jobs : r = [job[w] EXCEPT !.pc = pc]
  BY <1>2 DEF Jobs
<1>6. r.pc = pc /\ r.uuid = job[w].uuid /\ r.op = "create" /\ r.of = job[w].of
      /\ r.id = job[w].id /\ r.secret = job[w].secret
  BY <1>1, <1>2, <1>5 DEF Jobs
<1>7. Moves(w, r)
  <2>1. job' = [job EXCEPT ![w] = r]
    BY <1>4, <1>5, ClientsTyped DEF ClientsInv, M2M!Goto
  <2>2. QED
    BY <1>3, <2>1 DEF Moves
<1>8. CreationUsable(r)'
  <2>1. CreationUsable(job[w])
    BY DEF ClientsInv, UsableOK
  <2>2. QED
    BY <1>1, <1>3, <1>6, <2>1 DEF CreationUsable, Live, M2M!Exists
<1>9. pc = "commit" => IdIsNew(r) /\ \A v \in Workers \ {w} : job[v].pc = "commit" => job[v].id # r.id
  BY <1>4, <1>6 DEF M2M!InsertPrincipal, M2M!IdIsFree, M2M!IdIsAwaited, IdIsNew
<1>10. ClientsMove(w, r) /\ Known' = Known /\ spoiled \subseteq ClientCompanies
  BY <1>3, StillClients, ClientsTyped DEF Known, ClientsInv
<1>11. QED
  BY <1>1, <1>2, <1>3, <1>6, <1>7, <1>8, <1>9, <1>10, CreationMove

LEMMA RefuseProvisioningKeeps ==
  ASSUME ClientsInv, NEW w \in Workers, M2M!RefuseProvisioning(w) PROVE ClientsInv'
<1>1. job[w].op = "create"
  BY ClientsTyped DEF M2M!RefuseProvisioning, ClientsInv, JobsOK, InCourse
<1>2. job[w].of \in ClientCompanies /\ (job[w].uuid # None => job[w].uuid \in M2M!Uuids)
  BY <1>1, Creating
<1>3. UNCHANGED <<company, contract, principal, client, clients, secrets, edited, spoiled>>
  BY DEF M2M!RefuseProvisioning, M2M!keycloak
<1>4. Moves(w, M2M!Idle) /\ Follows(w, M2M!Idle) /\ CreationUsable(M2M!Idle)'
  BY <1>3, Ending DEF M2M!RefuseProvisioning
<1>5. ~Touches(job[w]) /\ ~Touches(M2M!Idle)
  BY IdleFits DEF Touches, M2M!RefuseProvisioning
<1>6. Hands(w, M2M!Idle)
  BY <1>2, ClientsTyped DEF Hands, M2M!RefuseProvisioning, M2M!Leave, ClientsInv
<1>7. spoiled \subseteq ClientCompanies
  BY ClientsTyped DEF ClientsInv
<1>8. QED
  BY <1>3, <1>4, <1>5, <1>6, <1>7, QuietMove

LEMMA CompensateKeeps ==
  ASSUME ClientsInv, NEW w \in Workers, M2M!Compensate(w) PROVE ClientsInv'
<1>1. job[w].op = "create" /\ job[w].pc = "compensate"
  BY ClientsTyped DEF M2M!Compensate, ClientsInv, JobsOK, InCourse
<1>2. PICK u \in M2M!Uuids : u = job[w].uuid /\ u \in Known
  BY <1>1, Creating
<1>3. UNCHANGED <<company, contract, principal, clients, secrets, edited>>
  BY DEF M2M!Compensate
<1>4. Moves(w, M2M!Idle) /\ Follows(w, M2M!Idle) /\ CreationUsable(M2M!Idle)' /\ M2M!Idle.of \notin ClientCompanies
  BY <1>3, Ending DEF M2M!Compensate
<1>5. \/ M2M!Exists(u) /\ client' = [client EXCEPT ![u] = None] /\ left' = left
      \/ M2M!Exists(u) /\ client' = [client EXCEPT ![u].enabled = FALSE] /\ left' = left
      \/ left' = left \cup {u} /\ client' = client
  BY <1>2, ClientsTyped DEF M2M!Compensate, M2M!Leave, ClientsInv
<1>6. spoiled' = IF client' = client THEN spoiled ELSE spoiled \cup M2M!UsersOf(u)
  BY <1>2 DEF M2M!Compensate
<1>7. client \in [M2M!Uuids -> M2M!Clients \cup {None}] /\ left \subseteq M2M!Uuids
      /\ spoiled \subseteq ClientCompanies /\ None \notin M2M!Clients /\ clients \in 0..MaxClients
      /\ secrets \in M2M!Secrets /\ MaxClients \in Nat
  BY ClientsTyped DEF ClientsInv
<1>8. PICK k \in M2M!Clients \cup {None} :
        /\ client' = [client EXCEPT ![u] = k]
        /\ k # None => /\ client[u] # None /\ k.id = client[u].id
                       /\ k.enabled => client[u].enabled
        /\ u \in left' \/ k = None \/ ~k.enabled
  <2>1. CASE M2M!Exists(u) /\ client' = [client EXCEPT ![u] = None] /\ left' = left
    BY <2>1
  <2>2. CASE M2M!Exists(u) /\ client' = [client EXCEPT ![u].enabled = FALSE] /\ left' = left
    <3>1. client[u] \in M2M!Clients
      BY <1>7, <2>2 DEF M2M!Exists
    <3>2. PICK k \in M2M!Clients : k = [client[u] EXCEPT !.enabled = FALSE]
      BY <3>1 DEF M2M!Clients
    <3>3. k.id = client[u].id /\ ~k.enabled
      BY <3>1, <3>2 DEF M2M!Clients
    <3>4. QED
      BY <2>2, <3>2, <3>3 DEF M2M!Exists
  <2>3. CASE left' = left \cup {u} /\ client' = client
    <3>1. client' = [client EXCEPT ![u] = client[u]]
      BY <1>7, <2>3
    <3>2. QED
      BY <1>7, <2>3, <3>1
  <2>4. QED
    BY <1>5, <2>1, <2>2, <2>3
<1>9. client'[u] = k /\ \A v \in M2M!Uuids \ {u} : client'[v] = client[v]
  BY <1>7, <1>8
<1>10. ClientsMove(w, M2M!Idle)
  <2>1. client' \in [M2M!Uuids -> M2M!Clients \cup {None}]
    BY <1>7, <1>8
  <2>2. \A v \in M2M!Uuids : client'[v] # None =>
          client[v] # None /\ client'[v].id = client[v].id /\ (client'[v].enabled => client[v].enabled)
    BY <1>8, <1>9
  <2>3. QED
    BY <1>3, <1>7, <2>1, <2>2 DEF ClientsMove
<1>11. Hands(w, M2M!Idle)
  BY <1>2, <1>5, <1>7, <1>8, <1>9 DEF Hands
<1>12. Disturbs(w, M2M!Idle)
  <2>1. \A v \in Known : client'[v] # client[v] => v = u
    BY <1>9, <1>10, KnownStays
  <2>2. \A v \in Known : client'[v] # client[v] => M2M!UsersOf(v) \subseteq spoiled'
    BY <1>6, <2>1
  <2>3. spoiled \subseteq spoiled' /\ spoiled' \subseteq ClientCompanies
    BY <1>6, <1>7 DEF M2M!UsersOf
  <2>4. job[w].of \in ClientCompanies /\ ~M2M!Rowed(job[w].of)
    BY <1>1, Creating
  <2>5. \A c \in ClientCompanies : c \in {job[w].of, M2M!Idle.of} => RowUsable(c)'
    <3> SUFFICES ASSUME NEW c \in ClientCompanies, c = job[w].of PROVE RowUsable(c)'
      BY <1>4
    <3>1. ~M2M!Rowed(c)'
      BY <1>3, <2>4 DEF M2M!Rowed
    <3>2. QED
      BY <3>1 DEF RowUsable
  <2>6. QED
    BY <1>4, <2>2, <2>3, <2>5 DEF Disturbs
<1>13. QED
  BY <1>4, <1>10, <1>11, <1>12, MoveKeeps

-----------------------------------------------------------------------------
(***************************************************************************)
(* The calls to Keycloak of a change, and how requests begin and end.      *)
(***************************************************************************)
LEMMA BeginChangeKeeps ==
  ASSUME ClientsInv, NEW w \in Workers, NEW c \in ClientCompanies,
         M2M!BeginRotation(w, c) \/ M2M!BeginRevocation(w, c) \/ M2M!BeginDeletion(w, c)
  PROVE  ClientsInv'
<1>1. M2M!Rowed(c)
  BY DEF M2M!BeginRotation, M2M!BeginRevocation, M2M!BeginDeletion, ClientsInv, RowsOK
<1>2. principal[c].uuid \in M2M!Uuids /\ principal[c].uuid \in Known
  BY <1>1, ClientsTyped DEF ClientsInv, RowsOK, M2M!Rowed, M2M!Principals
<1>3. job[w] = M2M!Idle /\ UNCHANGED <<company, contract, principal, client, clients, secrets>>
      /\ UNCHANGED <<edited, spoiled, left>>
  BY DEF M2M!BeginRotation, M2M!BeginRevocation, M2M!BeginDeletion, M2M!keycloak, M2M!history
<1>4. PICK pc, op :
        /\ \/ pc = "rotate" /\ op = "rotate"
           \/ pc = "disable" /\ op \in {"revoke", "delete"}
           \/ pc = "delete" /\ op = "delete" /\ principal[c].status = "revoked"
        /\ job' = [job EXCEPT ![w] =
             [M2M!Idle EXCEPT !.pc = pc, !.of = c, !.op = op, !.uuid = principal[c].uuid]]
  <2>1. CASE M2M!BeginRotation(w, c)
    BY <2>1 DEF M2M!BeginRotation
  <2>2. CASE M2M!BeginRevocation(w, c)
    BY <2>2 DEF M2M!BeginRevocation
  <2>3. CASE M2M!BeginDeletion(w, c)
    BY <1>1, <2>3 DEF M2M!BeginDeletion
  <2>4. QED
    BY <2>1, <2>2, <2>3
<1>5. PICK r \in Jobs :
        r = [M2M!Idle EXCEPT !.pc = pc, !.of = c, !.op = op, !.uuid = principal[c].uuid]
  BY <1>2, <1>4, IdleFits DEF M2M!Idle, Jobs
<1>6. r.pc = pc /\ r.of = c /\ r.op = op /\ r.uuid = principal[c].uuid
  BY <1>5 DEF M2M!Idle
<1>7. Moves(w, r)
  BY <1>3, <1>4, <1>5 DEF Moves
<1>8. Follows(w, r)
  <2>1. InCourse(r)
    BY <1>2, <1>4, <1>6 DEF InCourse
  <2>2. op \in Changes /\ op # "create" /\ pc # "commit"
    BY <1>4 DEF Changes
  <2>3. Placed(r)'
    BY <1>1, <1>2, <1>3, <1>6, <2>2 DEF Placed, M2M!Rowed, Known
  <2>4. Ends(r)'
    BY <1>3, <1>4, <1>6 DEF Ends
  <2>5. QED
    BY <1>6, <2>1, <2>2, <2>3, <2>4 DEF Follows
<1>9. Hands(w, r) /\ CreationUsable(r)' /\ ~Touches(r) /\ ~Touches(job[w])
  <2>1. job[w].of \notin ClientCompanies
    BY <1>3, IdleFits, ClientsTyped DEF ClientsInv
  <2>2. CreationUsable(r)'
    BY <1>4, <1>6 DEF CreationUsable
  <2>3. Hands(w, r)
    BY <1>3, <2>1, ClientsTyped DEF Hands, ClientsInv
  <2>4. ~Touches(r) /\ ~Touches(job[w])
    BY <1>3, <1>4, <1>6, IdleFits DEF Touches
  <2>5. QED
    BY <2>2, <2>3, <2>4
<1>10. spoiled \subseteq ClientCompanies
  BY ClientsTyped DEF ClientsInv
<1>11. QED
  BY <1>3, <1>7, <1>8, <1>9, <1>10, QuietMove

LEMMA RefuseChangeKeeps ==
  ASSUME ClientsInv, NEW w \in Workers, M2M!RefuseChange(w) PROVE ClientsInv'
<1>1. job[w].op \in Changes
  BY ClientsTyped DEF M2M!RefuseChange, ClientsInv, JobsOK, InCourse, Changes
<1>2. UNCHANGED <<company, contract, principal, client, clients, secrets, edited, spoiled, left>>
  BY DEF M2M!RefuseChange, M2M!keycloak, M2M!history
<1>3. Moves(w, M2M!Idle) /\ Follows(w, M2M!Idle) /\ CreationUsable(M2M!Idle)'
  BY <1>2, Ending DEF M2M!RefuseChange
<1>4. ~Touches(job[w]) /\ ~Touches(M2M!Idle)
  BY IdleFits DEF Touches, M2M!RefuseChange
<1>5. left \subseteq M2M!Uuids /\ spoiled \subseteq ClientCompanies
  BY ClientsTyped DEF ClientsInv
<1>6. Hands(w, M2M!Idle)
  BY <1>1, <1>2, <1>5, Changing DEF Hands
<1>7. QED
  BY <1>2, <1>3, <1>4, <1>5, <1>6, QuietMove

LEMMA DieKeeps ==
  ASSUME ClientsInv, NEW w \in Workers, M2M!Die(w) PROVE ClientsInv'
<1>1. UNCHANGED <<company, contract, principal, client, clients, secrets, edited>>
  BY DEF M2M!Die, M2M!keycloak
<1>2. Moves(w, M2M!Idle) /\ Follows(w, M2M!Idle) /\ CreationUsable(M2M!Idle)' /\ M2M!Idle.of \notin ClientCompanies
  BY <1>1, Ending DEF M2M!Die
<1>3. left \subseteq M2M!Uuids /\ spoiled \subseteq ClientCompanies /\ job[w] \in Jobs
  BY ClientsTyped DEF ClientsInv
<1>4. Hands(w, M2M!Idle)
  BY <1>3 DEF Hands, M2M!Die, M2M!Leave, Jobs
<1>5. ClientsMove(w, M2M!Idle)
  BY <1>1, StillClients
<1>6. Disturbs(w, M2M!Idle)
  BY <1>1, <1>2, <1>3 DEF Disturbs, M2M!Die, RowUsable
<1>7. QED
  BY <1>2, <1>4, <1>5, <1>6, MoveKeeps

\* A row in use that one request is changing is usable if its client takes what
\* the request is about to store.
LEMMA OneChangeIsUsable ==
  ASSUME NEW c \in ClientCompanies, NEW w \in Workers, NEW u,
         M2M!Rowed(c)' /\ principal'[c].status = "active" /\ c \notin spoiled' \cup edited' =>
           /\ principal'[c].uuid = u /\ Touching(c)' = {w}
           /\ job'[w].pc = "store" =>
                client'[u] # None /\ client'[u].enabled /\ job'[w].secret = client'[u].secret
  PROVE  RowUsable(c)'
  BY DEF RowUsable, Live, M2M!Exists

\* A client that gets another secret, or is disabled, for a change of the company
\* that relies on it: the others are disturbed.
LEMMA CallMove ==
  ASSUME ClientsInv, NEW w \in Workers, job[w].op \in Changes, ~Touches(job[w]),
         NEW u \in M2M!Uuids, u = job[w].uuid,
         NEW k \in M2M!Clients, client[u] # None, client' = [client EXCEPT ![u] = k],
         k.id = client[u].id, k.enabled => client[u].enabled,
         clients' = clients, secrets' \in M2M!Secrets, left' = left,
         spoiled' = spoiled \cup M2M!Disturbed(w),
         NEW r, Moves(w, r), r.op = job[w].op, r.of = job[w].of, r.uuid = u,
         \/ r.op = "rotate" /\ r.pc = "store" /\ k.enabled = client[u].enabled /\ k.secret = r.secret
         \/ r.op \in {"revoke", "delete"} /\ r.pc = "clear" /\ ~k.enabled
  PROVE  ClientsInv'
<1>1. /\ u \in Known
      /\ job[w].of \in ClientCompanies => M2M!Rowed(job[w].of) /\ principal[job[w].of].uuid = u
      /\ job[w].of \notin ClientCompanies => job[w].of = None
  BY Changing
<1>2. client \in [M2M!Uuids -> M2M!Clients \cup {None}] /\ left \subseteq M2M!Uuids /\ spoiled \subseteq ClientCompanies
      /\ clients \in 0..MaxClients /\ MaxClients \in Nat /\ None \notin M2M!Clients
      /\ job \in [Workers -> Jobs]
  BY ClientsTyped DEF ClientsInv
<1>3. client'[u] = k /\ \A v \in M2M!Uuids \ {u} : client'[v] = client[v]
  BY <1>2
<1>4. ClientsMove(w, r)
  <2>1. client' \in [M2M!Uuids -> M2M!Clients \cup {None}]
    BY <1>2
  <2>2. \A v \in M2M!Uuids : client'[v] # None =>
          client[v] # None /\ client'[v].id = client[v].id /\ (client'[v].enabled => client[v].enabled)
    BY <1>3
  <2>3. QED
    BY <1>2, <2>1, <2>2 DEF ClientsMove
<1>5. UNCHANGED <<company, principal, edited>> /\ job' = [job EXCEPT ![w] = r]
  BY DEF Moves
<1>6. Follows(w, r)
  <2>1. InCourse(r)
    BY DEF InCourse
  <2>2. r.op # "create" /\ r.pc \notin {"commit", "delete"}
    OBVIOUS
  <2>3. u \in Known'
    BY <1>1, <1>4, KnownStays
  <2>4. Placed(r)'
    BY <1>1, <1>5, <2>2, <2>3 DEF Placed, M2M!Rowed
  <2>5. Ends(r)'
    BY <1>3, <2>2 DEF Ends, Live, M2M!Exists
  <2>6. QED
    BY <2>1, <2>2, <2>4, <2>5 DEF Follows
<1>7. Hands(w, r)
  BY <1>2 DEF Hands
<1>8. Disturbs(w, r)
  <2>1. M2M!Disturbed(w) \subseteq ClientCompanies
    BY DEF M2M!Disturbed, M2M!UsersOf
  <2>2. \A v \in Known : client'[v] # client[v] => v = u
    BY <1>3, <1>4, KnownStays
  <2>3. M2M!UsersOf(u) \ {job[w].of} \subseteq spoiled'
    BY DEF M2M!Disturbed
  <2>4. \A v \in Known : client'[v] # client[v] => M2M!UsersOf(v) \ {job[w].of} \subseteq spoiled'
    BY <2>2, <2>3
  <2>5. CreationUsable(r)'
    BY DEF CreationUsable
  <2>6. ASSUME NEW c \in ClientCompanies, c = job[w].of PROVE RowUsable(c)'
    <3>1. ASSUME M2M!Rowed(c)', principal'[c].status = "active", c \notin spoiled' \cup edited'
          PROVE  /\ principal'[c].uuid = u /\ Touching(c)' = {w}
                 /\ job'[w].pc = "store" =>
                      client'[u] # None /\ client'[u].enabled /\ job'[w].secret = client'[u].secret
      <4>1. c \notin M2M!Disturbed(w) /\ c \notin spoiled \cup edited /\ M2M!Rowed(c)
            /\ principal[c].status = "active" /\ principal[c].uuid = u /\ principal'[c] = principal[c]
        BY <1>1, <1>5, <2>6, <3>1 DEF M2M!Rowed
      <4>2. \A v \in Workers \ {w} : job[v].of # c
        BY <2>6, <4>1 DEF M2M!Disturbed, M2M!Alone
      <4>3. job'[w] = r /\ \A v \in Workers \ {w} : job'[v] = job[v]
        BY <1>2, <1>5
      <4>4. Touching(c)' = {w}
        BY <2>6, <4>2, <4>3 DEF Touching
      <4>5. Touching(c) = {}
        BY <4>2 DEF Touching, Touches
      <4>6. client[u].enabled
        BY <4>1, <4>5 DEF ClientsInv, UsableOK, RowUsable, Live
      <4>7. QED
        BY <1>2, <1>3, <4>1, <4>3, <4>4, <4>6
    <3>2. QED
      BY <3>1, OneChangeIsUsable
  <2>7. QED
    BY <1>2, <2>1, <2>4, <2>5, <2>6 DEF Disturbs
<1>9. QED
  BY <1>4, <1>6, <1>7, <1>8, MoveKeeps

LEMMA RotateKeeps ==
  ASSUME ClientsInv, NEW w \in Workers, M2M!Rotate(w) PROVE ClientsInv'
<1>1. job[w].op = "rotate" /\ job[w].pc = "rotate" /\ job[w].op \in Changes /\ ~Touches(job[w])
  BY ClientsTyped DEF M2M!Rotate, ClientsInv, JobsOK, InCourse, Changes, Touches
<1>2. PICK u \in M2M!Uuids : u = job[w].uuid /\ job[w] \in Jobs
  BY <1>1, Changing
<1>3. client[u] # None /\ client[u] \in M2M!Clients /\ secrets + 1 \in M2M!Secrets
  BY <1>2, ClientsTyped DEF M2M!Rotate, M2M!Exists, ClientsInv
<1>4. PICK k \in M2M!Clients : k = [client[u] EXCEPT !.secret = secrets + 1]
  BY <1>3 DEF M2M!Clients
<1>5. k.id = client[u].id /\ k.enabled = client[u].enabled /\ k.secret = secrets + 1
  BY <1>3, <1>4 DEF M2M!Clients
<1>6. PICK r \in Jobs : r = [job[w] EXCEPT !.pc = "store", !.secret = secrets + 1]
  BY <1>2, <1>3 DEF Jobs
<1>7. r.pc = "store" /\ r.op = "rotate" /\ r.of = job[w].of /\ r.uuid = u /\ r.secret = secrets + 1
  BY <1>1, <1>2, <1>6 DEF Jobs
<1>8. client' = [client EXCEPT ![u] = k]
  BY <1>2, <1>4, ClientsTyped DEF M2M!Rotate, ClientsInv
<1>9. Moves(w, r)
  <2>1. job' = [job EXCEPT ![w] = r]
    BY <1>2, <1>6, ClientsTyped DEF ClientsInv, M2M!Rotate
  <2>2. QED
    BY <2>1 DEF Moves, M2M!Rotate
<1>10. clients' = clients /\ secrets' \in M2M!Secrets /\ left' = left
       /\ spoiled' = spoiled \cup M2M!Disturbed(w)
  BY <1>3 DEF M2M!Rotate
<1>11. QED
  BY <1>1, <1>2, <1>3, <1>5, <1>7, <1>8, <1>9, <1>10, CallMove

LEMMA DisableClientKeeps ==
  ASSUME ClientsInv, NEW w \in Workers, M2M!DisableClient(w) PROVE ClientsInv'
<1>1. job[w].op \in {"revoke", "delete"} /\ job[w].op \in Changes /\ ~Touches(job[w])
  BY ClientsTyped DEF M2M!DisableClient, ClientsInv, JobsOK, InCourse, Changes, Touches
<1>2. PICK u \in M2M!Uuids : u = job[w].uuid /\ job[w] \in Jobs
  BY <1>1, Changing
<1>3. client[u] # None /\ client[u] \in M2M!Clients
  BY <1>2, ClientsTyped DEF M2M!DisableClient, M2M!Exists, ClientsInv
<1>4. PICK k \in M2M!Clients : k = [client[u] EXCEPT !.enabled = FALSE]
  BY <1>3 DEF M2M!Clients
<1>5. k.id = client[u].id /\ ~k.enabled
  BY <1>3, <1>4 DEF M2M!Clients
<1>6. PICK r \in Jobs : r = [job[w] EXCEPT !.pc = "clear"]
  BY <1>2 DEF Jobs
<1>7. r.pc = "clear" /\ r.op = job[w].op /\ r.of = job[w].of /\ r.uuid = u
  BY <1>1, <1>2, <1>6 DEF Jobs
<1>8. client' = [client EXCEPT ![u] = k]
  BY <1>2, <1>4, ClientsTyped DEF M2M!DisableClient, ClientsInv
<1>9. Moves(w, r)
  <2>1. job' = [job EXCEPT ![w] = r]
    BY <1>2, <1>6, ClientsTyped DEF ClientsInv, M2M!DisableClient, M2M!Goto
  <2>2. QED
    BY <2>1 DEF Moves, M2M!DisableClient
<1>10. clients' = clients /\ secrets' \in M2M!Secrets /\ left' = left
       /\ spoiled' = spoiled \cup M2M!Disturbed(w)
  BY ClientsTyped DEF M2M!DisableClient, ClientsInv
<1>11. QED
  BY <1>1, <1>2, <1>3, <1>5, <1>7, <1>8, <1>9, <1>10, CallMove

\* A statement of a change that finds no row: its company was deleted meanwhile.
LEMMA OrphanEnds ==
  ASSUME ClientsInv, NEW w \in Workers, job[w].op \in Changes, ~M2M!Rowed(job[w].of), M2M!Finish(w),
         UNCHANGED <<company, contract, principal, client, clients, secrets>>,
         UNCHANGED <<edited, spoiled, left>>
  PROVE  ClientsInv'
<1>1. job[w].of \notin ClientCompanies
  BY Changing
<1>2. Moves(w, M2M!Idle) /\ Follows(w, M2M!Idle) /\ CreationUsable(M2M!Idle)' /\ M2M!Idle.of \notin ClientCompanies
  BY Ending
<1>3. ClientsMove(w, M2M!Idle)
  BY StillClients
<1>4. Hands(w, M2M!Idle) /\ Disturbs(w, M2M!Idle)
  BY <1>1, <1>2, ClientsTyped DEF Hands, Disturbs, ClientsInv
<1>5. QED
  BY <1>2, <1>3, <1>4, MoveKeeps

-----------------------------------------------------------------------------
(***************************************************************************)
(* The statements of a change: rows keep the client they refer to.         *)
(***************************************************************************)
SameRows ==
  /\ principal' \in [ClientCompanies -> M2M!Principals \cup {None}]
  /\ \A c \in ClientCompanies :
       /\ M2M!Rowed(c)' <=> M2M!Rowed(c)
       /\ M2M!Rowed(c) =>
            principal'[c].id = principal[c].id /\ principal'[c].uuid = principal[c].uuid

GoesOn(j, r) ==
  \/ r = j
  \/ r = M2M!Idle /\ j.op \in Changes
  \/ r.op = j.op /\ j.op \in Changes /\ r.of = j.of /\ r.uuid = j.uuid /\ InCourse(r)

SameJobs ==
  /\ job' \in [Workers -> Jobs]
  /\ \A w \in Workers : GoesOn(job[w], job'[w])

SameElse ==
  /\ UNCHANGED <<company, contract, client, clients, secrets>>
  /\ UNCHANGED <<spoiled, left>> /\ edited \subseteq edited' /\ edited' \subseteq ClientCompanies

LEMMA SameCreations ==
  ASSUME ClientsInv, SameJobs, NEW w \in Workers
  PROVE  /\ job'[w].op = "create" => job'[w] = job[w]
         /\ job'[w].pc = "commit" => job'[w] = job[w] /\ job[w].op = "create"
         /\ job[w].op = "create" => job'[w] = job[w]
         /\ InCourse(job'[w])
<1>1. InCourse(job[w]) /\ GoesOn(job[w], job'[w])
  BY DEF ClientsInv, JobsOK, SameJobs
<1>2. M2M!Idle.op = None /\ M2M!Idle.pc = "idle" /\ InCourse(M2M!Idle) /\ None # "create"
  BY IdleFits, InstancesAssumption DEF M2M!ClientsAssumption
<1>3. QED
  BY <1>1, <1>2 DEF InCourse, GoesOn, Changes

LEMMA StatementKeeps ==
  ASSUME ClientsInv, SameRows, SameJobs, SameElse
  PROVE  /\ M2M!TypeOK' /\ JobsOK' /\ RowsOK' /\ NamesOK' /\ OwnersOK'
         /\ \A w \in Workers : CreationUsable(job[w])'
<1>1. Known' = Known
  BY DEF SameElse, Known
<1>2. M2M!TypeOK'
  <2>1. company' \in [ClientCompanies -> {"none", "present"}] /\ contract' \in SUBSET ClientCompanies
        /\ client' \in [M2M!Uuids -> M2M!Clients \cup {None}]
        /\ clients' \in 0..MaxClients /\ secrets' \in M2M!Secrets
        /\ edited' \in SUBSET ClientCompanies /\ spoiled' \in SUBSET ClientCompanies /\ left' \in SUBSET M2M!Uuids
    BY ClientsTyped DEF ClientsInv, SameElse
  <2>2. QED
    BY <2>1, TypeJoins DEF SameRows, SameJobs
<1>3. JobsOK'
  <2> SUFFICES ASSUME NEW w \in Workers PROVE InCourse(job'[w]) /\ Placed(job[w])'
    BY DEF JobsOK
  <2>1. InCourse(job'[w]) /\ GoesOn(job[w], job'[w]) /\ Placed(job[w])
    BY SameCreations DEF SameJobs, ClientsInv, JobsOK
  <2>2. M2M!Idle.op = None /\ M2M!Idle.uuid = None /\ None \notin {"create", "rotate", "revoke", "delete"}
    BY IdleFits, InstancesAssumption DEF M2M!ClientsAssumption
  <2>3. Placed(job[w])'
    BY <1>1, <2>1, <2>2 DEF GoesOn, Placed, SameRows, SameElse, Changes
  <2>4. QED
    BY <2>1, <2>3
<1>4. RowsOK'
  BY <1>1, SameCreations DEF ClientsInv, RowsOK, SameRows, SameElse, M2M!Exists
<1>5. NamesOK'
  <2>1. \A u \in M2M!Uuids, i \in M2M!ClientIds : Named(u, i)' => Named(u, i)
    BY SameCreations DEF Named, SameRows, SameElse, M2M!Exists
  <2>2. \A u \in M2M!Uuids, i, j \in M2M!ClientIds : Named(u, i)' /\ Named(u, j)' => i = j
    BY <2>1 DEF ClientsInv, NamesOK
  <2>3. \A c, d \in ClientCompanies :
          M2M!Rowed(c)' /\ M2M!Rowed(d)' /\ principal'[c].id = principal'[d].id => c = d
    BY DEF ClientsInv, NamesOK, SameRows
  <2>4. \A w \in Workers : job'[w].pc = "commit" => IdIsNew(job[w])'
    BY SameCreations DEF ClientsInv, NamesOK, IdIsNew, SameRows
  <2>5. \A v, w \in Workers :
          job'[v].pc = "commit" /\ job'[w].pc = "commit" /\ job'[v].id = job'[w].id => v = w
    BY SameCreations DEF ClientsInv, NamesOK
  <2>6. QED
    BY <2>2, <2>3, <2>4, <2>5 DEF NamesOK
<1>6. OwnersOK'
  <2> SUFFICES ASSUME NEW u \in M2M!Uuids, Live(u)', NEW c \in M2M!UsersOf(u)
               PROVE  M2M!UsersOf(u)' # {}
    BY DEF OwnersOK, ClientsInv, SameElse, Live, M2M!Exists
  <2>1. c \in ClientCompanies
    BY DEF M2M!UsersOf
  <2>2. CASE M2M!Rowed(c) /\ principal[c].uuid = u
    BY <2>1, <2>2 DEF M2M!UsersOf, SameRows
  <2>3. CASE \E w \in Workers : job[w].of = c /\ job[w].uuid = u
    <3>1. PICK w \in Workers : job[w].of = c /\ job[w].uuid = u
      BY <2>3
    <3>2. CASE job[w].op = "create"
      BY <2>1, <3>1, <3>2, SameCreations DEF M2M!UsersOf
    <3>3. CASE job[w].op # "create"
      <4>1. job[w].op \in Changes
        BY <2>1, <3>1, <3>3, ClientsTyped DEF ClientsInv, JobsOK, InCourse, Changes
      <4>2. QED
        BY <2>1, <2>2, <3>1, <4>1, Changing
    <3>4. QED
      BY <3>2, <3>3
  <2>4. QED
    BY <2>2, <2>3 DEF M2M!UsersOf
<1>7. \A w \in Workers : CreationUsable(job[w])'
  BY SameCreations DEF ClientsInv, UsableOK, CreationUsable, SameElse, Live, M2M!Exists
<1>8. QED
  BY <1>2, <1>3, <1>4, <1>5, <1>6, <1>7

\* A statement of the request of w about the row of c, which is p from now on,
\* while the request goes on as r.
Writes(w, r, c, p) ==
  /\ M2M!Rowed(c) /\ p.id = principal[c].id /\ p.uuid = principal[c].uuid
  /\ GoesOn(job[w], r)
  /\ principal' = [principal EXCEPT ![c] = p]
  /\ job' = [job EXCEPT ![w] = r]

Written(w, r, c, p) ==
  /\ job'[w] = r /\ \A v \in Workers \ {w} : job'[v] = job[v]
  /\ M2M!Rowed(c)' /\ principal'[c] = p
  /\ \A d \in ClientCompanies \ {c} : principal'[d] = principal[d]

LEMMA StatementFrame ==
  ASSUME ClientsInv, NEW w \in Workers, NEW r \in Jobs, NEW c \in ClientCompanies,
         NEW p \in M2M!Principals, Writes(w, r, c, p)
  PROVE  SameRows /\ SameJobs /\ Written(w, r, c, p)
<1> USE DEF Writes
<1>1. principal \in [ClientCompanies -> M2M!Principals \cup {None}] /\ job \in [Workers -> Jobs]
      /\ None \notin M2M!Principals
  BY ClientsTyped DEF ClientsInv
<1>2. job'[w] = r /\ \A v \in Workers \ {w} : job'[v] = job[v]
  BY <1>1
<1>3. principal'[c] = p /\ \A d \in ClientCompanies \ {c} : principal'[d] = principal[d]
  BY <1>1
<1>4. M2M!Rowed(c)' /\ \A d \in ClientCompanies \ {c} : M2M!Rowed(d)' <=> M2M!Rowed(d)
  BY <1>1, <1>3 DEF M2M!Rowed
<1>5. SameRows
  BY <1>1, <1>3, <1>4 DEF SameRows
<1>6. SameJobs
  BY <1>1, <1>2 DEF SameJobs, GoesOn
<1>7. QED
  BY <1>2, <1>3, <1>4, <1>5, <1>6 DEF Written

\* What is left to show of such a statement: that the row is right.
Concerns(w, c) ==
  /\ job[w].of = c /\ job'[w].of \in {c, None} /\ None \notin ClientCompanies
  /\ \A v \in Workers \ {w} : job'[v] = job[v]
  /\ \A d \in ClientCompanies \ {c} : principal'[d] = principal[d]
  /\ \/ principal'[c].status = principal[c].status
     \/ principal'[c].status = "revoked" /\ ~Live(principal[c].uuid)
  /\ edited' = edited

LEMMA StatementDone ==
  ASSUME ClientsInv, SameRows, SameJobs, SameElse, NEW w \in Workers, NEW c \in ClientCompanies,
         Concerns(w, c), Ends(job[w])', RowUsable(c)'
  PROVE  ClientsInv'
<1>1. M2M!TypeOK' /\ JobsOK' /\ RowsOK' /\ NamesOK' /\ OwnersOK'
      /\ \A v \in Workers : CreationUsable(job[v])'
  BY StatementKeeps
<1>2. UNCHANGED <<client, spoiled>>
  BY DEF SameElse
<1>3. M2M!RevokedIsDisabled'
  <2> SUFFICES ASSUME NEW d \in ClientCompanies, M2M!Rowed(d)', principal'[d].status = "revoked", d \notin edited
               PROVE  client[principal'[d].uuid] = None \/ ~client[principal'[d].uuid].enabled
    BY <1>2 DEF Concerns, M2M!RevokedIsDisabled, M2M!Exists
  <2>1. M2M!Rowed(d) /\ principal'[d].uuid = principal[d].uuid
    BY DEF SameRows
  <2>2. principal[d].status = "revoked" \/ ~Live(principal[d].uuid)
    BY DEF Concerns
  <2>3. QED
    BY <2>1, <2>2 DEF ClientsInv, DeadOK, M2M!RevokedIsDisabled, Live, M2M!Exists
<1>4. \A v \in Workers : Ends(job[v])'
  <2> SUFFICES ASSUME NEW v \in Workers, v # w PROVE Ends(job[v])'
    OBVIOUS
  <2>1. Ends(job[v]) /\ job'[v] = job[v]
    BY DEF ClientsInv, DeadOK, Concerns
  <2>2. job[v].pc = "delete" => job[v].of \in ClientCompanies
    BY ClientsTyped DEF ClientsInv, JobsOK, InCourse
  <2>3. job[v].pc = "delete" => principal'[job[v].of].status = "revoked" \/ job[v].of \in edited
    BY <2>1, <2>2 DEF Ends, Concerns
  <2>4. QED
    BY <1>2, <2>1, <2>3 DEF Ends, Live, M2M!Exists, Concerns
<1>5. \A d \in ClientCompanies : RowUsable(d)'
  <2> SUFFICES ASSUME NEW d \in ClientCompanies \ {c} PROVE RowUsable(d)'
    OBVIOUS
  <2>1. Touching(d)' = Touching(d) /\ \A v \in Touching(d) : job'[v] = job[v]
    BY DEF Touching, Concerns
  <2>2. RowUsable(d) /\ principal'[d] = principal[d]
    BY DEF ClientsInv, UsableOK, Concerns
  <2>3. QED
    BY <1>2, <2>1, <2>2 DEF RowUsable, M2M!Rowed, Live, M2M!Exists, Concerns
<1>6. QED
  BY <1>1, <1>3, <1>4, <1>5 DEF ClientsInv, DeadOK, UsableOK

LEMMA StoreSecretKeeps ==
  ASSUME ClientsInv, NEW w \in Workers, M2M!StoreSecret(w) PROVE ClientsInv'
<1>1. job[w].op \in Changes /\ job[w].pc = "store" /\ job[w] \in Jobs
  BY ClientsTyped DEF M2M!StoreSecret, ClientsInv, JobsOK, InCourse, Changes
<1>2. UNCHANGED <<company, contract, client, clients, secrets, edited, spoiled, left>>
      /\ job' = [job EXCEPT ![w] = M2M!Idle]
  BY DEF M2M!StoreSecret, M2M!keycloak, M2M!history, M2M!Finish
<1>3. CASE ~M2M!Rowed(job[w].of)
  BY <1>1, <1>2, <1>3, OrphanEnds DEF M2M!StoreSecret
<1>4. CASE M2M!Rowed(job[w].of)
  <2>1. PICK c \in ClientCompanies : c = job[w].of /\ principal[c] \in M2M!Principals /\ principal[c].uuid = job[w].uuid
    BY <1>1, <1>4, Changing, ClientsTyped DEF M2M!Rowed, ClientsInv
  <2>2. PICK p \in M2M!Principals : p = [principal[c] EXCEPT !.secret = job[w].secret]
    BY <1>1, <2>1 DEF M2M!Principals, Jobs
  <2>3. p.id = principal[c].id /\ p.uuid = principal[c].uuid /\ p.secret = job[w].secret
        /\ p.status = principal[c].status
    BY <2>1, <2>2 DEF M2M!Principals
  <2>4. principal' = [principal EXCEPT ![c] = p]
    BY <1>4, <2>1, <2>2, ClientsTyped DEF M2M!StoreSecret, ClientsInv
  <2>5. GoesOn(job[w], M2M!Idle) /\ M2M!Idle \in Jobs
    BY <1>1, IdleFits DEF GoesOn
  <2>6. /\ SameRows /\ SameJobs
        /\ job'[w] = M2M!Idle /\ \A v \in Workers \ {w} : job'[v] = job[v]
        /\ M2M!Rowed(c)' /\ principal'[c] = p
        /\ \A d \in ClientCompanies \ {c} : principal'[d] = principal[d]
    <3>1. Writes(w, M2M!Idle, c, p)
      BY <1>2, <1>4, <2>1, <2>3, <2>4, <2>5 DEF Writes
    <3>2. SameRows /\ SameJobs /\ Written(w, M2M!Idle, c, p)
      BY <2>5, <3>1, StatementFrame
    <3>3. QED
      BY <3>2 DEF Written
  <2>7. SameElse
    BY <1>2, ClientsTyped DEF SameElse, ClientsInv
  <2>8. Ends(job[w])'
    BY <2>6, IdleFits DEF Ends
  <2>9. RowUsable(c)'
    <3> SUFFICES ASSUME p.status = "active", c \notin spoiled \cup edited
                 PROVE  /\ \A v, x \in Touching(c)' : v = x
                        /\ Touching(c)' = {}
                        /\ Live(p.uuid) /\ p.secret = client[p.uuid].secret
      BY <1>2, <2>6 DEF RowUsable, Live, M2M!Exists
    <3>1. RowUsable(c) /\ w \in Touching(c)
      BY <1>1, <2>1 DEF ClientsInv, UsableOK, Touching
    <3>2. \A v \in Touching(c) : v = w
      BY <1>4, <2>1, <2>3, <3>1 DEF RowUsable
    <3>3. Touching(c)' = {}
      BY <2>6, <3>2, IdleFits DEF Touching
    <3>4. Live(principal[c].uuid) /\ job[w].secret = client[principal[c].uuid].secret
      BY <1>1, <1>4, <2>1, <2>3, <3>1 DEF RowUsable
    <3>5. QED
      BY <2>3, <3>3, <3>4
  <2>10. QED
    <3>1. Concerns(w, c)
      BY <1>2, <2>1, <2>3, <2>6, IdleFits, ClientsTyped DEF ClientsInv, Concerns
    <3>2. QED
      BY <2>6, <2>7, <2>8, <2>9, <3>1, StatementDone
<1>5. QED
  BY <1>3, <1>4

LEMMA ClearSecretKeeps ==
  ASSUME ClientsInv, NEW w \in Workers, M2M!ClearSecret(w) PROVE ClientsInv'
<1>1. job[w].op \in {"revoke", "delete"} /\ job[w].op \in Changes /\ job[w].pc = "clear"
      /\ job[w] \in Jobs
  BY ClientsTyped DEF M2M!ClearSecret, ClientsInv, JobsOK, InCourse, Changes
<1>2. UNCHANGED <<company, contract, client, clients, secrets, edited, spoiled, left>>
  BY DEF M2M!ClearSecret, M2M!keycloak, M2M!history
<1>3. CASE ~M2M!Rowed(job[w].of)
  BY <1>1, <1>2, <1>3, OrphanEnds DEF M2M!ClearSecret
<1>4. CASE M2M!Rowed(job[w].of)
  <2>1. PICK c \in ClientCompanies :
          c = job[w].of /\ principal[c] \in M2M!Principals /\ principal[c].uuid = job[w].uuid
    BY <1>1, <1>4, Changing, ClientsTyped DEF M2M!Rowed, ClientsInv
  <2>2. 0 \in M2M!Secrets
    BY ClientsTyped DEF ClientsInv
  <2>3. PICK p \in M2M!Principals : p = [principal[c] EXCEPT !.secret = 0]
    BY <2>1, <2>2 DEF M2M!Principals
  <2>4. p.id = principal[c].id /\ p.uuid = principal[c].uuid /\ p.status = principal[c].status
    BY <2>1, <2>3 DEF M2M!Principals
  <2>5. principal' = [principal EXCEPT ![c] = p]
    BY <1>4, <2>1, <2>3, ClientsTyped DEF M2M!ClearSecret, ClientsInv
  <2>6. PICK r \in Jobs : r = [job[w] EXCEPT !.pc = "revoke"]
    BY <1>1 DEF Jobs
  <2>7. r.pc = "revoke" /\ r.op = job[w].op /\ r.of = c /\ r.uuid = job[w].uuid
    BY <1>1, <2>1, <2>6 DEF Jobs
  <2>8. job' = [job EXCEPT ![w] = r]
    BY <1>4, <2>6, ClientsTyped DEF M2M!ClearSecret, M2M!Goto, ClientsInv
  <2>9. GoesOn(job[w], r)
    <3>1. InCourse(r)
      BY <1>1, <2>7, Changing DEF InCourse
    <3>2. QED
      BY <1>1, <2>1, <2>7, <3>1 DEF GoesOn
  <2>10. /\ SameRows /\ SameJobs
         /\ job'[w] = r /\ \A v \in Workers \ {w} : job'[v] = job[v]
         /\ M2M!Rowed(c)' /\ principal'[c] = p
         /\ \A d \in ClientCompanies \ {c} : principal'[d] = principal[d]
    <3>1. Writes(w, r, c, p)
      BY <1>4, <2>1, <2>4, <2>5, <2>8, <2>9 DEF Writes
    <3>2. SameRows /\ SameJobs /\ Written(w, r, c, p)
      BY <3>1, StatementFrame
    <3>3. QED
      BY <3>2 DEF Written
  <2>11. SameElse
    BY <1>2, ClientsTyped DEF SameElse, ClientsInv
  <2>12. Ends(job[w])'
    <3>1. Ends(job[w])
      BY DEF ClientsInv, DeadOK
    <3>2. QED
      BY <1>1, <1>2, <2>7, <2>10, <3>1 DEF Ends, Live, M2M!Exists
  <2>13. RowUsable(c)'
    <3> SUFFICES ASSUME p.status = "active", c \notin spoiled \cup edited
                 PROVE  /\ \A v, x \in Touching(c)' : v = x
                        /\ Touching(c)' # {}
                        /\ \A v \in Touching(c)' : job'[v].pc # "store"
      BY <1>2, <2>10 DEF RowUsable, Live, M2M!Exists
    <3>1. RowUsable(c) /\ w \in Touching(c)
      BY <1>1, <2>1 DEF ClientsInv, UsableOK, Touching
    <3>2. \A v \in Touching(c) : v = w
      BY <1>4, <2>1, <2>4, <3>1 DEF RowUsable
    <3>3. Touching(c)' = {w}
      BY <2>7, <2>10, <3>2 DEF Touching
    <3>4. QED
      BY <2>7, <2>10, <3>3
  <2>14. Concerns(w, c)
    BY <1>2, <2>1, <2>4, <2>7, <2>10, ClientsTyped DEF ClientsInv, Concerns
  <2>15. QED
    BY <2>10, <2>11, <2>12, <2>13, <2>14, StatementDone
<1>5. QED
  BY <1>3, <1>4

LEMMA MarkRevokedKeeps ==
  ASSUME ClientsInv, NEW w \in Workers, M2M!MarkRevoked(w) PROVE ClientsInv'
<1>1. job[w].op \in {"revoke", "delete"} /\ job[w].op \in Changes /\ job[w].pc = "revoke"
      /\ job[w] \in Jobs /\ job[w].of \in ClientCompanies
  BY ClientsTyped DEF M2M!MarkRevoked, ClientsInv, JobsOK, InCourse, Changes
<1>2. UNCHANGED <<company, contract, client, clients, secrets, edited, spoiled, left>>
  BY DEF M2M!MarkRevoked, M2M!keycloak, M2M!history
<1>3. PICK c \in ClientCompanies :
        c = job[w].of /\ M2M!Rowed(c) /\ principal[c] \in M2M!Principals /\ principal[c].uuid = job[w].uuid
  BY <1>1, Changing, ClientsTyped DEF M2M!Rowed, ClientsInv
<1>4. PICK p \in M2M!Principals : p = [principal[c] EXCEPT !.status = "revoked"]
  BY <1>3 DEF M2M!Principals, M2M!Statuses
<1>5. p.id = principal[c].id /\ p.uuid = principal[c].uuid /\ p.status = "revoked"
  BY <1>3, <1>4 DEF M2M!Principals
<1>6. principal' = [principal EXCEPT ![c] = p]
  BY <1>3, <1>4, ClientsTyped DEF M2M!MarkRevoked, ClientsInv
<1>7. PICK r \in Jobs :
        /\ job' = [job EXCEPT ![w] = r] /\ GoesOn(job[w], r)
        /\ r.of \in {c, None} /\ r.pc \in {"idle", "delete"} /\ (r.pc = "delete" => r.of = c)
  <2>1. CASE job[w].op = "delete"
    <3>1. PICK r \in Jobs : r = [job[w] EXCEPT !.pc = "delete"]
      BY <1>1 DEF Jobs
    <3>2. r.pc = "delete" /\ r.op = job[w].op /\ r.of = c /\ r.uuid = job[w].uuid
      BY <1>1, <1>3, <3>1 DEF Jobs
    <3>3. InCourse(r)
      BY <1>1, <2>1, <3>2, Changing DEF InCourse
    <3>4. GoesOn(job[w], r)
      BY <1>1, <1>3, <3>2, <3>3 DEF GoesOn
    <3>5. job' = [job EXCEPT ![w] = r]
      BY <1>3, <2>1, <3>1, ClientsTyped DEF M2M!MarkRevoked, M2M!Goto, ClientsInv
    <3>6. QED
      BY <3>2, <3>4, <3>5
  <2>2. CASE job[w].op # "delete"
    BY <1>1, <2>2, IdleFits DEF M2M!MarkRevoked, M2M!Finish, GoesOn
  <2>3. QED
    BY <2>1, <2>2
<1>8. /\ SameRows /\ SameJobs
      /\ job'[w] = r /\ \A v \in Workers \ {w} : job'[v] = job[v]
      /\ M2M!Rowed(c)' /\ principal'[c] = p
      /\ \A d \in ClientCompanies \ {c} : principal'[d] = principal[d]
  <2>1. Writes(w, r, c, p)
    BY <1>3, <1>5, <1>6, <1>7 DEF Writes
  <2>2. SameRows /\ SameJobs /\ Written(w, r, c, p)
    BY <2>1, StatementFrame
  <2>3. QED
    BY <2>2 DEF Written
<1>9. SameElse
  BY <1>2, ClientsTyped DEF SameElse, ClientsInv
<1>10. Ends(job[w])'
  BY <1>5, <1>7, <1>8 DEF Ends
<1>11. RowUsable(c)'
  BY <1>5, <1>8 DEF RowUsable
<1>12. Concerns(w, c)
  <2>1. Ends(job[w])
    BY DEF ClientsInv, DeadOK
  <2>2. ~Live(principal[c].uuid)
    BY <1>1, <1>3, <2>1 DEF Ends
  <2>3. QED
    BY <1>2, <1>3, <1>5, <1>7, <1>8, <2>2, ClientsTyped DEF ClientsInv, Concerns
<1>13. QED
  BY <1>8, <1>9, <1>10, <1>11, <1>12, StatementDone

LEMMA EditStatusKeeps ==
  ASSUME ClientsInv, NEW c \in ClientCompanies, NEW s \in M2M!Statuses, M2M!EditStatus(c, s) PROVE ClientsInv'
<1>1. UNCHANGED <<company, contract, client, clients, secrets, job, spoiled, left>>
      /\ edited' = edited \cup {c} /\ M2M!Rowed(c)
  BY DEF M2M!EditStatus, M2M!keycloak
<1>2. principal[c] \in M2M!Principals
  BY <1>1, ClientsTyped DEF M2M!Rowed, ClientsInv
<1>3. PICK p \in M2M!Principals : p = [principal[c] EXCEPT !.status = s]
  BY <1>2 DEF M2M!Principals
<1>4. p.id = principal[c].id /\ p.uuid = principal[c].uuid
  BY <1>2, <1>3 DEF M2M!Principals
<1>5. principal' = [principal EXCEPT ![c] = p]
  BY <1>3 DEF M2M!EditStatus
<1>6. principal'[c] = p /\ \A d \in ClientCompanies \ {c} : principal'[d] = principal[d]
  BY <1>5, ClientsTyped DEF ClientsInv
<1>7. SameRows
  <2>1. principal' \in [ClientCompanies -> M2M!Principals \cup {None}] /\ None \notin M2M!Principals
    BY <1>5, ClientsTyped DEF ClientsInv
  <2>2. QED
    BY <1>1, <1>4, <1>6, <2>1 DEF SameRows, M2M!Rowed
<1>8. SameJobs /\ SameElse
  BY <1>1, ClientsTyped DEF SameJobs, GoesOn, SameElse, ClientsInv
<1>9. M2M!TypeOK' /\ JobsOK' /\ RowsOK' /\ NamesOK' /\ OwnersOK'
      /\ \A w \in Workers : CreationUsable(job[w])'
  BY <1>7, <1>8, StatementKeeps
<1>10. DeadOK'
  <2>1. M2M!RevokedIsDisabled'
    BY <1>1, <1>6, <1>7 DEF ClientsInv, DeadOK, M2M!RevokedIsDisabled, M2M!Exists, SameRows
  <2>2. \A w \in Workers : Ends(job[w])'
    <3> SUFFICES ASSUME NEW w \in Workers PROVE Ends(job[w])'
      OBVIOUS
    <3>1. Ends(job[w]) /\ (job[w].pc = "delete" => job[w].of \in ClientCompanies)
      BY ClientsTyped DEF ClientsInv, DeadOK, JobsOK, InCourse
    <3>2. job[w].pc = "delete" => principal'[job[w].of].status = "revoked" \/ job[w].of \in edited'
      BY <1>1, <1>6, <3>1 DEF Ends
    <3>3. QED
      BY <1>1, <3>1, <3>2 DEF Ends, Live, M2M!Exists
  <2>3. QED
    BY <2>1, <2>2 DEF DeadOK
<1>11. \A d \in ClientCompanies : RowUsable(d)'
  <2> SUFFICES ASSUME NEW d \in ClientCompanies PROVE RowUsable(d)'
    OBVIOUS
  <2>1. CASE d = c
    BY <1>1, <2>1 DEF RowUsable
  <2>2. CASE d # c
    BY <1>1, <1>6, <2>2 DEF ClientsInv, UsableOK, RowUsable, Touching, M2M!Rowed, Live, M2M!Exists
  <2>3. QED
    BY <2>1, <2>2
<1>12. QED
  BY <1>9, <1>10, <1>11 DEF ClientsInv, UsableOK

-----------------------------------------------------------------------------
(***************************************************************************)
(* Companies come, with their client, and go.                              *)
(***************************************************************************)
LEMMA CommitCreationKeeps ==
  ASSUME ClientsInv, NEW w \in Workers, M2M!CommitCreation(w) PROVE ClientsInv'
<1>1. job[w].op = "create" /\ job[w].pc = "commit"
  BY ClientsTyped DEF M2M!CommitCreation, ClientsInv, JobsOK, InCourse
<1>2. PICK c \in ClientCompanies : c = job[w].of
  BY <1>1, Creating
<1>3. /\ job[w] \in Jobs /\ job[w].id \in M2M!ClientIds /\ company[c] = "none" /\ ~M2M!Rowed(c)
      /\ job[w].uuid \in M2M!Uuids /\ job[w].uuid \in Known /\ Named(job[w].uuid, job[w].id)
      /\ \A v \in Workers \ {w} : ~(job[v].op = "create" /\ job[v].of = c)
  BY <1>1, <1>2, Creating
<1>4. "active" \in M2M!Statuses /\ job[w].secret \in M2M!Secrets
  BY <1>3 DEF M2M!Statuses, Jobs
<1>5. PICK p \in M2M!Principals :
        p = [id |-> job[w].id, uuid |-> job[w].uuid, status |-> "active", secret |-> job[w].secret]
  BY <1>3, <1>4 DEF M2M!Principals
<1>6. p.id = job[w].id /\ p.uuid = job[w].uuid /\ p.status = "active" /\ p.secret = job[w].secret
  BY <1>5
<1>7. UNCHANGED <<contract, client, clients, secrets, edited, spoiled, left>>
      /\ company' = [company EXCEPT ![c] = "present"] /\ principal' = [principal EXCEPT ![c] = p]
      /\ job' = [job EXCEPT ![w] = M2M!Idle]
  BY <1>2, <1>5 DEF M2M!CommitCreation, M2M!keycloak, M2M!history, M2M!Finish
<1>8. /\ company'[c] = "present" /\ \A d \in ClientCompanies \ {c} : company'[d] = company[d]
      /\ principal'[c] = p /\ \A d \in ClientCompanies \ {c} : principal'[d] = principal[d]
      /\ job'[w] = M2M!Idle /\ \A v \in Workers \ {w} : job'[v] = job[v]
      /\ None \notin M2M!Principals /\ Known' = Known
  BY <1>7, ClientsTyped DEF ClientsInv, Known
<1>9. M2M!Rowed(c)' /\ \A d \in ClientCompanies \ {c} : M2M!Rowed(d)' <=> M2M!Rowed(d)
  BY <1>8 DEF M2M!Rowed
\* Nobody is changing a company that has no row.
<1>10. \A v \in Workers : job[v].op \in Changes /\ job[v].of \in ClientCompanies => job[v].of # c
  BY <1>3, Changing
<1>11. M2M!TypeOK'
  <2>1. company' \in [ClientCompanies -> {"none", "present"}] /\ contract' \in SUBSET ClientCompanies
        /\ principal' \in [ClientCompanies -> M2M!Principals \cup {None}]
        /\ client' \in [M2M!Uuids -> M2M!Clients \cup {None}]
        /\ clients' \in 0..MaxClients /\ secrets' \in M2M!Secrets
    BY <1>7, ClientsTyped DEF ClientsInv
  <2>2. job' \in [Workers -> Jobs]
        /\ edited' \in SUBSET ClientCompanies /\ spoiled' \in SUBSET ClientCompanies /\ left' \in SUBSET M2M!Uuids
    BY <1>7, IdleFits, ClientsTyped DEF ClientsInv
  <2>3. QED
    BY <2>1, <2>2, TypeJoins
<1>12. JobsOK'
  <2> SUFFICES ASSUME NEW v \in Workers PROVE InCourse(job'[v]) /\ Placed(job[v])'
    BY DEF JobsOK
  <2>1. CASE v = w
    <3>1. M2M!Idle.op \notin Changes /\ M2M!Idle.op # "create"
      BY IdleFits, InstancesAssumption DEF M2M!ClientsAssumption, Changes
    <3>2. QED
      BY <1>8, <2>1, <3>1, IdleFits DEF Placed
  <2>2. CASE v # w
    <3>1. InCourse(job[v]) /\ Placed(job[v]) /\ job'[v] = job[v]
      BY <1>8, <2>2 DEF ClientsInv, JobsOK
    <3>2. job[v].op = "create" => job[v].of \in ClientCompanies \ {c}
      BY <1>3, <2>2, Creating
    <3>3. Placed(job[v])'
      BY <1>8, <1>9, <1>10, <3>1, <3>2 DEF Placed
    <3>4. QED
      BY <3>1, <3>3
  <2>3. QED
    BY <2>1, <2>2
<1>13. RowsOK'
  <2>1. \A d \in ClientCompanies : company'[d] = "present" <=> M2M!Rowed(d)'
    BY <1>8, <1>9 DEF ClientsInv, RowsOK
  <2>2. \A d \in ClientCompanies : M2M!Rowed(d)' => principal'[d].uuid \in Known'
    BY <1>3, <1>6, <1>8, <1>9 DEF ClientsInv, RowsOK
  <2>3. \A u \in M2M!Uuids : M2M!Exists(u)' => u \in Known'
    BY <1>7, <1>8 DEF ClientsInv, RowsOK, M2M!Exists
  <2>4. M2M!Idle.op # "create"
    BY IdleFits, InstancesAssumption DEF M2M!ClientsAssumption
  <2>5. \A v, x \in Workers :
          job'[v].op = "create" /\ job'[x].op = "create" /\ job'[v].of = job'[x].of => v = x
    BY <1>8, <2>4 DEF ClientsInv, RowsOK
  <2>6. QED
    BY <2>1, <2>2, <2>3, <2>5 DEF RowsOK
<1>14. NamesOK'
  <2>1. \A u \in M2M!Uuids, i \in M2M!ClientIds : Named(u, i)' => Named(u, i)
    <3> SUFFICES ASSUME NEW u \in M2M!Uuids, NEW i \in M2M!ClientIds, Named(u, i)' PROVE Named(u, i)
      OBVIOUS
    <3>1. CASE \E d \in ClientCompanies : M2M!Rowed(d)' /\ principal'[d].uuid = u /\ principal'[d].id = i
      BY <1>3, <1>6, <1>8, <1>9, <3>1 DEF Named
    <3>2. CASE \E v \in Workers : job'[v].op = "create" /\ job'[v].uuid = u /\ job'[v].id = i
      <4>1. M2M!Idle.op # "create"
        BY IdleFits, InstancesAssumption DEF M2M!ClientsAssumption
      <4>2. QED
        BY <1>8, <3>2, <4>1 DEF Named
    <3>3. CASE M2M!Exists(u)' /\ client'[u].id = i
      BY <1>7, <3>3 DEF Named, M2M!Exists
    <3>4. QED
      BY <3>1, <3>2, <3>3 DEF Named
  <2>2. \A u \in M2M!Uuids, i, j \in M2M!ClientIds : Named(u, i)' /\ Named(u, j)' => i = j
    BY <2>1 DEF ClientsInv, NamesOK
  <2>3. IdIsNew(job[w]) /\ \A v \in Workers \ {w} : job[v].pc = "commit" => job[v].id # job[w].id
    BY <1>1 DEF ClientsInv, NamesOK
  <2>4. \A d, e \in ClientCompanies :
          M2M!Rowed(d)' /\ M2M!Rowed(e)' /\ principal'[d].id = principal'[e].id => d = e
    BY <1>6, <1>8, <1>9, <2>3 DEF ClientsInv, NamesOK, IdIsNew
  <2>5. \A v \in Workers : job'[v].pc = "commit" => IdIsNew(job[v])'
    <3> SUFFICES ASSUME NEW v \in Workers, job'[v].pc = "commit", NEW d \in ClientCompanies, M2M!Rowed(d)'
                 PROVE  principal'[d].id # job'[v].id
      BY DEF IdIsNew
    <3>1. v # w /\ job'[v] = job[v] /\ job[v].pc = "commit"
      BY <1>8, IdleFits
    <3>2. IdIsNew(job[v])
      BY <3>1 DEF ClientsInv, NamesOK
    <3>3. QED
      BY <1>6, <1>8, <1>9, <2>3, <3>1, <3>2 DEF IdIsNew
  <2>6. \A v, x \in Workers :
          job'[v].pc = "commit" /\ job'[x].pc = "commit" /\ job'[v].id = job'[x].id => v = x
    BY <1>8, IdleFits DEF ClientsInv, NamesOK
  <2>7. QED
    BY <2>2, <2>4, <2>5, <2>6 DEF NamesOK
<1>15. DeadOK'
  <2>1. M2M!RevokedIsDisabled'
    BY <1>6, <1>7, <1>8, <1>9 DEF ClientsInv, DeadOK, M2M!RevokedIsDisabled, M2M!Exists
  <2>2. \A v \in Workers : Ends(job[v])'
    <3> SUFFICES ASSUME NEW v \in Workers PROVE Ends(job[v])'
      OBVIOUS
    <3>1. CASE v = w
      BY <1>8, <3>1, IdleFits DEF Ends
    <3>2. CASE v # w
      <4>1. Ends(job[v]) /\ job'[v] = job[v]
        BY <1>8, <3>2 DEF ClientsInv, DeadOK
      <4>2. job[v].pc = "delete" => job[v].of \in ClientCompanies \ {c}
        BY <1>10, ClientsTyped DEF ClientsInv, JobsOK, InCourse, Changes
      <4>3. job[v].pc = "delete" => principal'[job[v].of].status = "revoked" \/ job[v].of \in edited
        BY <1>8, <4>1, <4>2 DEF Ends
      <4>4. QED
        BY <1>7, <4>1, <4>3 DEF Ends, Live, M2M!Exists
    <3>3. QED
      BY <3>1, <3>2
  <2>3. QED
    BY <2>1, <2>2 DEF DeadOK
<1>16. OwnersOK'
  <2> SUFFICES ASSUME NEW u \in M2M!Uuids, Live(u)', NEW d \in M2M!UsersOf(u) PROVE M2M!UsersOf(u)' # {}
    BY <1>7 DEF OwnersOK, ClientsInv, Live, M2M!Exists
  <2>1. d \in ClientCompanies
    BY DEF M2M!UsersOf
  <2>2. CASE M2M!Rowed(d) /\ principal[d].uuid = u
    BY <1>3, <1>8, <1>9, <2>1, <2>2 DEF M2M!UsersOf
  <2>3. CASE \E v \in Workers : job[v].of = d /\ job[v].uuid = u
    <3>1. PICK v \in Workers : job[v].of = d /\ job[v].uuid = u
      BY <2>3
    <3>2. CASE v = w
      BY <1>2, <1>6, <1>8, <1>9, <2>1, <3>1, <3>2 DEF M2M!UsersOf
    <3>3. CASE v # w
      BY <1>8, <2>1, <3>1, <3>3 DEF M2M!UsersOf
    <3>4. QED
      BY <3>2, <3>3
  <2>4. QED
    BY <2>2, <2>3 DEF M2M!UsersOf
<1>17. UsableOK'
  <2>1. \A v \in Workers : CreationUsable(job[v])'
    <3> SUFFICES ASSUME NEW v \in Workers PROVE CreationUsable(job[v])'
      OBVIOUS
    <3>1. CASE v = w
      BY <1>8, <3>1, IdleFits DEF CreationUsable
    <3>2. CASE v # w
      BY <1>7, <1>8, <3>2 DEF ClientsInv, UsableOK, CreationUsable, Live, M2M!Exists
    <3>3. QED
      BY <3>1, <3>2
  <2>2. RowUsable(c)'
    <3>1. \A v \in Workers : job[v].of = c => ~Touches(job[v])
      BY <1>10, ClientsTyped DEF ClientsInv, JobsOK, InCourse, Touches, Changes
    <3>2. Touching(c)' = {}
      BY <1>8, <3>1, IdleFits DEF Touching, Touches
    <3>3. CreationUsable(job[w])
      BY DEF ClientsInv, UsableOK
    <3>4. c \notin spoiled => Live(p.uuid) /\ p.secret = client[p.uuid].secret
      BY <1>1, <1>2, <1>6, <3>3 DEF CreationUsable
    <3>5. QED
      BY <1>7, <1>8, <3>2, <3>4 DEF RowUsable, Live, M2M!Exists
  <2>3. \A d \in ClientCompanies \ {c} : RowUsable(d)'
    <3> SUFFICES ASSUME NEW d \in ClientCompanies \ {c} PROVE RowUsable(d)'
      OBVIOUS
    <3>1. Touching(d)' = Touching(d) /\ \A v \in Touching(d) : job'[v] = job[v]
      BY <1>1, <1>8, IdleFits DEF Touching
    <3>2. RowUsable(d) /\ principal'[d] = principal[d]
      BY <1>8 DEF ClientsInv, UsableOK
    <3>3. QED
      BY <1>7, <3>1, <3>2 DEF RowUsable, M2M!Rowed, Live, M2M!Exists
  <2>4. QED
    BY <2>1, <2>2, <2>3 DEF UsableOK
<1>18. QED
  BY <1>11, <1>12, <1>13, <1>14, <1>15, <1>16, <1>17 DEF ClientsInv

\* What is left of the other requests of a company that is deleted.
LEMMA Orphans ==
  ASSUME ClientsInv, NEW v \in Workers, job[v].op \in Changes, NEW r, r = M2M!Orphaned(job[v])
  PROVE  /\ r \in Jobs /\ InCourse(r) /\ r.op # "create" /\ r.of \notin ClientCompanies
         /\ r.pc \notin {"store", "clear", "revoke", "delete", "commit"}
         /\ r.uuid # None => r.uuid \in Known
<1>1. job[v] \in Jobs /\ job[v].uuid \in M2M!Uuids /\ job[v].uuid \in Known /\ InCourse(job[v])
  BY Changing DEF ClientsInv, JobsOK
<1>2. None \notin ClientCompanies /\ None \notin {"create", "rotate", "revoke", "delete"}
  BY ClientsTyped DEF ClientsInv
<1>3. CASE job[v].pc \in {"rotate", "disable"}
  <2>1. r = [job[v] EXCEPT !.of = None]
    BY <1>3 DEF M2M!Orphaned
  <2>2. r.pc = job[v].pc /\ r.op = job[v].op /\ r.uuid = job[v].uuid /\ r.of = None /\ r \in Jobs
    BY <1>1, <2>1 DEF Jobs
  <2>3. InCourse(r)
    BY <1>1, <1>2, <1>3, <2>2 DEF InCourse, Changes
  <2>4. QED
    BY <1>1, <1>2, <1>3, <2>2, <2>3 DEF Changes
<1>4. CASE job[v].pc \notin {"rotate", "disable"}
  BY <1>2, <1>4, IdleFits DEF M2M!Orphaned
<1>5. QED
  BY <1>3, <1>4

LEMMA RefuseDeletionKeeps ==
  ASSUME ClientsInv, NEW w \in Workers, job[w].pc = "delete", M2M!Finish(w),
         UNCHANGED <<company, contract, principal, client, clients, secrets>>,
         UNCHANGED <<edited, spoiled, left>>
  PROVE  ClientsInv'
<1>1. job[w].op \in Changes
  BY ClientsTyped DEF ClientsInv, JobsOK, InCourse, Changes
<1>2. Moves(w, M2M!Idle) /\ Follows(w, M2M!Idle) /\ CreationUsable(M2M!Idle)'
  BY Ending
<1>3. ~Touches(job[w]) /\ ~Touches(M2M!Idle)
  BY IdleFits DEF Touches
<1>4. left \subseteq M2M!Uuids /\ spoiled \subseteq ClientCompanies
  BY ClientsTyped DEF ClientsInv
<1>5. Hands(w, M2M!Idle)
  BY <1>1, <1>4, Changing DEF Hands
<1>6. QED
  BY <1>2, <1>3, <1>4, <1>5, QuietMove

LEMMA DeletionKeeps ==
  ASSUME ClientsInv, NEW w \in Workers, NEW c \in ClientCompanies, job[w].of = c, job[w].pc = "delete",
         company' = [company EXCEPT ![c] = "none"],
         principal' = [principal EXCEPT ![c] = None],
         spoiled' = IF M2M!Alone(w) THEN spoiled \ {c} ELSE spoiled \cup {c},
         edited' = edited \ {c},
         left' = IF c \in edited /\ M2M!Rowed(c) THEN left \cup {principal[c].uuid} ELSE left,
         job' = [v \in Workers |-> IF v = w THEN M2M!Idle
                                   ELSE IF job[v].of = c THEN M2M!Orphaned(job[v]) ELSE job[v]],
         UNCHANGED <<contract, client, clients, secrets>>
  PROVE  ClientsInv'
<1>1. job[w].op \in Changes /\ Ends(job[w])
  BY ClientsTyped DEF ClientsInv, JobsOK, InCourse, Changes, DeadOK
<1>2. /\ M2M!Rowed(c) /\ company[c] = "present" /\ principal[c].uuid \in Known
      /\ principal[c].uuid \in M2M!Uuids
      /\ principal[c].status = "revoked" \/ c \in edited
  BY <1>1, Changing, ClientsTyped DEF ClientsInv, RowsOK, Ends
<1>3. /\ company'[c] = "none" /\ \A d \in ClientCompanies \ {c} : company'[d] = company[d]
      /\ principal'[c] = None /\ \A d \in ClientCompanies \ {c} : principal'[d] = principal[d]
      /\ Known' = Known
  BY ClientsTyped DEF ClientsInv, Known
<1>4. ~M2M!Rowed(c)' /\ \A d \in ClientCompanies \ {c} : M2M!Rowed(d)' <=> M2M!Rowed(d)
  BY <1>3 DEF M2M!Rowed
<1>5. \A v \in Workers : job[v].of = c => job[v].op \in Changes
  <2> SUFFICES ASSUME NEW v \in Workers, job[v].of = c PROVE job[v].op \in Changes
    OBVIOUS
  <2>1. job[v].op # "create"
    BY <1>2, Creating
  <2>2. QED
    BY <2>1, ClientsTyped DEF ClientsInv, JobsOK, InCourse, Changes
\* A request of the company is an orphan or over, the others go on.
<1>6. \A v \in Workers :
        \/ job[v].of # c /\ job'[v] = job[v]
        \/ /\ job[v].of = c /\ job[v].op \in Changes
           /\ job'[v] \in Jobs /\ InCourse(job'[v]) /\ job'[v].op # "create" /\ job'[v].of \notin ClientCompanies
           /\ job'[v].pc \notin {"store", "clear", "revoke", "delete", "commit"}
           /\ job'[v].uuid # None => job'[v].uuid \in Known
  <2> SUFFICES ASSUME NEW v \in Workers
               PROVE  \/ job[v].of # c /\ job'[v] = job[v]
                      \/ /\ job[v].of = c /\ job[v].op \in Changes
                         /\ job'[v] \in Jobs /\ InCourse(job'[v]) /\ job'[v].op # "create"
                         /\ job'[v].of \notin ClientCompanies
                         /\ job'[v].pc \notin {"store", "clear", "revoke", "delete", "commit"}
                         /\ job'[v].uuid # None => job'[v].uuid \in Known
    OBVIOUS
  <2>1. CASE v = w
    <3>1. job'[v] = M2M!Idle
      BY <2>1
    <3>2. None \notin ClientCompanies /\ None # "create"
      BY ClientsTyped DEF ClientsInv
    <3>3. QED
      BY <1>1, <2>1, <3>1, <3>2, IdleFits
  <2>2. CASE v # w /\ job[v].of = c
    <3>1. PICK r : r = M2M!Orphaned(job[v])
      OBVIOUS
    <3>2. job'[v] = r
      BY <2>2, <3>1
    <3>3. QED
      BY <1>5, <2>2, <3>1, <3>2, Orphans
  <2>3. CASE v # w /\ job[v].of # c
    BY <2>3
  <2>4. QED
    BY <2>1, <2>2, <2>3
<1>7. M2M!TypeOK'
  <2>1. company' \in [ClientCompanies -> {"none", "present"}] /\ contract' \in SUBSET ClientCompanies
        /\ principal' \in [ClientCompanies -> M2M!Principals \cup {None}]
        /\ client' \in [M2M!Uuids -> M2M!Clients \cup {None}]
        /\ clients' \in 0..MaxClients /\ secrets' \in M2M!Secrets
    BY ClientsTyped DEF ClientsInv
  <2>2. \A v \in Workers : job'[v] \in Jobs
    BY <1>6, ClientsTyped DEF ClientsInv
  <2>3. job' \in [Workers -> Jobs]
    BY <2>2
  <2>4. edited' \in SUBSET ClientCompanies /\ spoiled' \in SUBSET ClientCompanies /\ left' \in SUBSET M2M!Uuids
    BY <1>2, ClientsTyped DEF ClientsInv
  <2>5. QED
    BY <2>1, <2>3, <2>4, TypeJoins
<1>8. JobsOK'
  <2> SUFFICES ASSUME NEW v \in Workers PROVE InCourse(job'[v]) /\ Placed(job[v])'
    BY DEF JobsOK
  <2>1. CASE job[v].of # c /\ job'[v] = job[v]
    <3>1. InCourse(job[v]) /\ Placed(job[v]) /\ (job[v].op = "create" => job[v].of \in ClientCompanies)
      BY Creating DEF ClientsInv, JobsOK
    <3>2. Placed(job[v])'
      BY <1>3, <1>4, <2>1, <3>1 DEF Placed
    <3>3. QED
      BY <2>1, <3>1, <3>2
  <2>2. CASE ~(job[v].of # c /\ job'[v] = job[v])
    BY <1>3, <1>6, <2>2 DEF Placed
  <2>3. QED
    BY <2>1, <2>2
<1>9. \A v \in Workers : job'[v].op = "create" \/ job'[v].pc = "commit" => job'[v] = job[v]
  BY <1>6
<1>10. RowsOK'
  <2>1. \A d \in ClientCompanies : company'[d] = "present" <=> M2M!Rowed(d)'
    BY <1>3, <1>4 DEF ClientsInv, RowsOK
  <2>2. \A d \in ClientCompanies : M2M!Rowed(d)' => principal'[d].uuid \in Known'
    BY <1>3, <1>4 DEF ClientsInv, RowsOK
  <2>3. \A u \in M2M!Uuids : M2M!Exists(u)' => u \in Known'
    BY <1>3 DEF ClientsInv, RowsOK, M2M!Exists
  <2>4. \A v, x \in Workers :
          job'[v].op = "create" /\ job'[x].op = "create" /\ job'[v].of = job'[x].of => v = x
    BY <1>9 DEF ClientsInv, RowsOK
  <2>5. QED
    BY <2>1, <2>2, <2>3, <2>4 DEF RowsOK
<1>11. NamesOK'
  <2>1. \A u \in M2M!Uuids, i \in M2M!ClientIds : Named(u, i)' => Named(u, i)
    BY <1>3, <1>4, <1>9 DEF Named, M2M!Exists
  <2>2. \A u \in M2M!Uuids, i, j \in M2M!ClientIds : Named(u, i)' /\ Named(u, j)' => i = j
    BY <2>1 DEF ClientsInv, NamesOK
  <2>3. \A d, e \in ClientCompanies :
          M2M!Rowed(d)' /\ M2M!Rowed(e)' /\ principal'[d].id = principal'[e].id => d = e
    BY <1>3, <1>4 DEF ClientsInv, NamesOK
  <2>4. \A v \in Workers : job'[v].pc = "commit" => IdIsNew(job[v])'
    BY <1>3, <1>4, <1>9 DEF ClientsInv, NamesOK, IdIsNew
  <2>5. \A v, x \in Workers :
          job'[v].pc = "commit" /\ job'[x].pc = "commit" /\ job'[v].id = job'[x].id => v = x
    BY <1>9 DEF ClientsInv, NamesOK
  <2>6. QED
    BY <2>2, <2>3, <2>4, <2>5 DEF NamesOK
<1>12. DeadOK'
  <2>1. M2M!RevokedIsDisabled'
    BY <1>3, <1>4 DEF ClientsInv, DeadOK, M2M!RevokedIsDisabled, M2M!Exists
  <2>2. \A v \in Workers : Ends(job[v])'
    <3> SUFFICES ASSUME NEW v \in Workers PROVE Ends(job[v])'
      OBVIOUS
    <3>1. CASE job[v].of # c /\ job'[v] = job[v]
      <4>1. Ends(job[v])
        BY DEF ClientsInv, DeadOK
      <4>2. job[v].pc = "delete" => job[v].of \in ClientCompanies \ {c}
        BY <3>1, ClientsTyped DEF ClientsInv, JobsOK, InCourse
      <4>3. job[v].pc = "delete" => principal'[job[v].of].status = "revoked" \/ job[v].of \in edited'
        BY <1>3, <4>1, <4>2 DEF Ends
      <4>4. QED
        BY <3>1, <4>1, <4>3 DEF Ends, Live, M2M!Exists
    <3>2. CASE ~(job[v].of # c /\ job'[v] = job[v])
      BY <1>6, <3>2 DEF Ends
    <3>3. QED
      BY <3>1, <3>2
  <2>3. QED
    BY <2>1, <2>2 DEF DeadOK
<1>13. OwnersOK'
  <2> SUFFICES ASSUME NEW u \in M2M!Uuids, Live(u), M2M!UsersOf(u)' = {}, u \notin left' PROVE FALSE
    BY DEF OwnersOK, Live, M2M!Exists
  <2>1. left \subseteq left'
    OBVIOUS
  <2>2. PICK d \in M2M!UsersOf(u) : TRUE
    BY <2>1 DEF ClientsInv, OwnersOK
  <2>3. d = c
    <3> SUFFICES ASSUME d # c PROVE FALSE
      OBVIOUS
    <3>1. d \in ClientCompanies
      BY DEF M2M!UsersOf
    <3>2. CASE M2M!Rowed(d) /\ principal[d].uuid = u
      BY <1>3, <1>4, <3>1, <3>2 DEF M2M!UsersOf
    <3>3. CASE \E v \in Workers : job[v].of = d /\ job[v].uuid = u
      BY <1>6, <3>1, <3>3 DEF M2M!UsersOf
    <3>4. QED
      BY <3>2, <3>3 DEF M2M!UsersOf
  <2>4. principal[c].uuid = u
    BY <1>5, <2>2, <2>3, Changing DEF M2M!UsersOf
  <2>5. c \notin edited
    BY <1>2, <2>4
  <2>6. ~Live(u)
    BY <1>2, <2>4, <2>5 DEF ClientsInv, DeadOK, M2M!RevokedIsDisabled, Live
  <2>7. QED
    BY <2>6
<1>14. UsableOK'
  <2>1. spoiled \ {c} \subseteq spoiled'
    OBVIOUS
  <2>2. \A v \in Workers : CreationUsable(job[v])'
    <3> SUFFICES ASSUME NEW v \in Workers, job'[v].op = "create" PROVE CreationUsable(job[v])'
      BY DEF CreationUsable
    <3>1. job'[v] = job[v] /\ job[v].of # c /\ CreationUsable(job[v])
      BY <1>6 DEF ClientsInv, UsableOK
    <3>2. QED
      BY <2>1, <3>1 DEF CreationUsable, Live, M2M!Exists
  <2>3. \A d \in ClientCompanies : RowUsable(d)'
    <3> SUFFICES ASSUME NEW d \in ClientCompanies, d # c PROVE RowUsable(d)'
      BY <1>4 DEF RowUsable
    <3>1. Touching(d)' = Touching(d) /\ \A v \in Touching(d) : job'[v] = job[v]
      BY <1>6 DEF Touching
    <3>2. RowUsable(d) /\ principal'[d] = principal[d]
      BY <1>3 DEF ClientsInv, UsableOK
    <3>3. d \notin spoiled' \cup edited' => d \notin spoiled \cup edited
      BY <2>1
    <3>4. UNCHANGED client
      OBVIOUS
    <3>5. QED
      BY ONLY <3>1, <3>2, <3>3, <3>4 DEF RowUsable, M2M!Rowed, Live, M2M!Exists
  <2>4. QED
    BY <2>2, <2>3 DEF UsableOK
<1>15. QED
  BY <1>7, <1>8, <1>10, <1>11, <1>12, <1>13, <1>14 DEF ClientsInv

LEMMA DeleteCompanyKeeps ==
  ASSUME ClientsInv, NEW w \in Workers, M2M!DeleteCompany(w) PROVE ClientsInv'
<1>1. job[w].pc = "delete" /\ UNCHANGED <<contract, client, clients, secrets>>
  BY DEF M2M!DeleteCompany, M2M!keycloak
<1>2. PICK c \in ClientCompanies : c = job[w].of
  BY <1>1, ClientsTyped DEF ClientsInv, JobsOK, InCourse
<1>3. CASE c \notin contract
  BY <1>1, <1>2, <1>3, DeletionKeeps DEF M2M!DeleteCompany
<1>4. CASE c \in contract
  BY <1>1, <1>2, <1>4, RefuseDeletionKeeps DEF M2M!DeleteCompany, M2M!history
<1>5. QED
  BY <1>3, <1>4

LEMMA CreateContractKeeps ==
  ASSUME ClientsInv, NEW c \in ClientCompanies, M2M!CreateContract(c) PROVE ClientsInv'
<1>1. UNCHANGED <<company, principal, client, clients, secrets, job, edited, spoiled, left>>
      /\ contract' \in SUBSET ClientCompanies
  BY ClientsTyped DEF M2M!CreateContract, M2M!keycloak, M2M!history, ClientsInv
<1>2. M2M!TypeOK'
  <2>1. company' \in [ClientCompanies -> {"none", "present"}]
        /\ principal' \in [ClientCompanies -> M2M!Principals \cup {None}]
        /\ client' \in [M2M!Uuids -> M2M!Clients \cup {None}]
        /\ clients' \in 0..MaxClients /\ secrets' \in M2M!Secrets /\ job' \in [Workers -> Jobs]
        /\ edited' \in SUBSET ClientCompanies /\ spoiled' \in SUBSET ClientCompanies /\ left' \in SUBSET M2M!Uuids
    BY <1>1, ClientsTyped DEF ClientsInv
  <2>2. QED
    BY <1>1, <2>1, TypeJoins
<1>3. JobsOK' /\ RowsOK'
  BY <1>1 DEF ClientsInv, JobsOK, Placed, RowsOK, Known, M2M!Rowed, M2M!Exists
<1>4. NamesOK'
  BY <1>1 DEF ClientsInv, NamesOK, Named, IdIsNew, M2M!Rowed, M2M!Exists
<1>5. DeadOK' /\ OwnersOK'
  BY <1>1 DEF ClientsInv, DeadOK, Ends, OwnersOK, Live, M2M!RevokedIsDisabled, M2M!UsersOf,
              M2M!Rowed, M2M!Exists
<1>6. UsableOK'
  BY <1>1 DEF ClientsInv, UsableOK, CreationUsable, RowUsable, Touching, Live, M2M!Rowed, M2M!Exists
<1>7. QED
  BY <1>2, <1>3, <1>4, <1>5, <1>6 DEF ClientsInv

-----------------------------------------------------------------------------
(***************************************************************************)
(* The theorems.                                                           *)
(***************************************************************************)
LEMMA ClientsBegin == M2M!Init => ClientsInv
<1> SUFFICES ASSUME M2M!Init PROVE ClientsInv
  OBVIOUS
<1>1. /\ company = [c \in ClientCompanies |-> "none"] /\ contract = {} /\ principal = [c \in ClientCompanies |-> None]
      /\ client = [u \in M2M!Uuids |-> None] /\ clients = 0 /\ secrets = 0
      /\ job = [w \in Workers |-> M2M!Idle] /\ edited = {} /\ spoiled = {} /\ left = {}
  BY DEF M2M!Init
<1>2. /\ 0 \in 0..MaxClients /\ 0 \in M2M!Secrets /\ None \notin ClientCompanies
      /\ None \notin {"create", "rotate", "revoke", "delete"}
  BY InstancesAssumption DEF M2M!ClientsAssumption, M2M!Secrets
<1>3. M2M!TypeOK
  BY <1>1, <1>2, IdleFits DEF M2M!TypeOK, Jobs
<1>4. /\ \A c \in ClientCompanies : ~M2M!Rowed(c) /\ company[c] = "none"
      /\ \A u \in M2M!Uuids : ~M2M!Exists(u)
      /\ \A w \in Workers : job[w] = M2M!Idle
      /\ M2M!Idle.op \notin {"create", "rotate", "revoke", "delete"}
  BY <1>1, <1>2, IdleFits DEF M2M!Rowed, M2M!Exists
<1>5. JobsOK
  BY <1>4, IdleFits DEF JobsOK, Placed, Changes
<1>6. RowsOK
  BY <1>4 DEF RowsOK
<1>7. NamesOK
  BY <1>4, IdleFits DEF NamesOK, Named
<1>8. DeadOK /\ OwnersOK
  BY <1>4, IdleFits DEF DeadOK, M2M!RevokedIsDisabled, Ends, OwnersOK, Live
<1>9. UsableOK
  BY <1>4, IdleFits DEF UsableOK, CreationUsable, RowUsable
<1>10. QED
  BY <1>3, <1>5, <1>6, <1>7, <1>8, <1>9 DEF ClientsInv

LEMMA ClientsStep == ClientsInv /\ [M2M!Next]_(M2M!vars) => ClientsInv'
<1> SUFFICES ASSUME ClientsInv, [M2M!Next]_(M2M!vars) PROVE ClientsInv'
  OBVIOUS
<1>1. CASE UNCHANGED M2M!vars
  <2>1. UNCHANGED <<company, contract, principal, client, clients, secrets, job, edited, spoiled, left>>
    BY <1>1 DEF M2M!vars, M2M!keycloak, M2M!history
  <2>2. M2M!TypeOK'
    BY <2>1 DEF ClientsInv, M2M!TypeOK
  <2>3. JobsOK' /\ RowsOK'
    BY <2>1 DEF ClientsInv, JobsOK, Placed, RowsOK, Known, M2M!Rowed, M2M!Exists
  <2>4. NamesOK'
    BY <2>1 DEF ClientsInv, NamesOK, Named, IdIsNew, M2M!Rowed, M2M!Exists
  <2>5. DeadOK' /\ OwnersOK'
    BY <2>1 DEF ClientsInv, DeadOK, M2M!RevokedIsDisabled, Ends, OwnersOK, Live, M2M!UsersOf,
                M2M!Rowed, M2M!Exists
  <2>6. UsableOK'
    BY <2>1 DEF ClientsInv, UsableOK, CreationUsable, RowUsable, Touching, Live, M2M!Rowed, M2M!Exists
  <2>7. QED
    BY <2>2, <2>3, <2>4, <2>5, <2>6 DEF ClientsInv
<1>2. CASE M2M!Next
  <2>1. ASSUME NEW w \in Workers, NEW c \in ClientCompanies,
               \/ M2M!BeginCreation(w, c) \/ M2M!BeginRotation(w, c)
               \/ M2M!BeginRevocation(w, c) \/ M2M!BeginDeletion(w, c)
        PROVE  ClientsInv'
    BY <2>1, BeginCreationKeeps, BeginChangeKeeps
  <2>2. ASSUME NEW w \in Workers,
               \/ M2M!FindClient(w) \/ M2M!MakeClient(w) \/ M2M!GetSecret(w) \/ M2M!RefuseProvisioning(w)
               \/ M2M!InsertPrincipal(w) \/ M2M!CommitCreation(w) \/ M2M!Compensate(w)
        PROVE  ClientsInv'
    BY <2>2, FindClientKeeps, MakeClientKeeps, GetSecretKeeps, RefuseProvisioningKeeps,
       InsertPrincipalKeeps, CommitCreationKeeps, CompensateKeeps
  <2>3. ASSUME NEW w \in Workers,
               \/ M2M!Rotate(w) \/ M2M!StoreSecret(w) \/ M2M!DisableClient(w) \/ M2M!RefuseChange(w)
               \/ M2M!ClearSecret(w) \/ M2M!MarkRevoked(w) \/ M2M!DeleteCompany(w) \/ M2M!Die(w)
        PROVE  ClientsInv'
    BY <2>3, RotateKeeps, StoreSecretKeeps, DisableClientKeeps, RefuseChangeKeeps,
       ClearSecretKeeps, MarkRevokedKeeps, DeleteCompanyKeeps, DieKeeps
  <2>4. ASSUME NEW c \in ClientCompanies, M2M!CreateContract(c) \/ \E s \in M2M!Statuses : M2M!EditStatus(c, s)
        PROVE  ClientsInv'
    BY <2>4, CreateContractKeeps, EditStatusKeeps
  <2>5. QED
    BY <1>2, <2>1, <2>2, <2>3, <2>4 DEF M2M!Next
<1>3. QED
  BY <1>1, <1>2

\* The invariant of the clients: each has one id and is named by no other, whoever
\* disturbs it is recorded, a request that has disabled it finds it disabled.
THEOREM ClientsInvariant == M2M!Spec => []ClientsInv
BY ClientsBegin, ClientsStep, PTL DEF M2M!Spec

LEMMA ClientsAlone == AllSpec => M2M!Spec
<1>1. AllInit => M2M!Init
  BY DEF AllInit
<1>2. [AllNext]_allVars => [M2M!Next]_(M2M!vars)
  BY DEF AllNext, allVars, m2mVars, M2M!vars, M2M!keycloak, M2M!history
<1>3. QED
  BY <1>1, <1>2, PTL DEF AllSpec, M2M!Spec

\* revoke_m2m_principal disables the client before it marks the row, and raises when
\* Keycloak does not answer: whatever dies or is refused between, a row that says
\* "revoked" has a client that is disabled or gone, unless the site wrote the status.
THEOREM RevokedIsOff == AllSpec => []RevokedIsDisabled
<1>1. ClientsInv => RevokedIsDisabled
  BY DEF ClientsInv, DeadOK, RevokedIsDisabled
<1>2. QED
  BY <1>1, ClientsAlone, ClientsInvariant, PTL

\* Nothing locks the client between the call that rotates its secret and the statement
\* that stores it: what is shown is what Keycloak takes, for a company that no worker
\* is at work on, unless something else has touched its client since it was found.
THEOREM StoredSecretIsTaken == AllSpec => []SecretIsUsable
<1>1. ClientsInv => SecretIsUsable
  <2> SUFFICES ASSUME ClientsInv PROVE M2M!SecretIsUsable
    BY DEF SecretIsUsable
  <2> SUFFICES ASSUME NEW c \in ClientCompanies, M2M!Rowed(c), principal[c].status = "active", ~M2M!Busy(c),
                      c \notin spoiled \cup edited
               PROVE  /\ M2M!Exists(principal[c].uuid)
                      /\ client[principal[c].uuid].enabled
                      /\ principal[c].secret = client[principal[c].uuid].secret
    BY DEF M2M!SecretIsUsable
  <2>1. RowUsable(c) /\ Touching(c) = {}
    BY DEF ClientsInv, UsableOK, Touching, M2M!Busy
  <2>2. QED
    BY <2>1 DEF RowUsable, Live
<1>2. QED
  BY <1>1, ClientsAlone, ClientsInvariant, PTL

\* Two companies whose names give one client id may be created at once: no client ends
\* up with two of them, and one that has none was left by a refusal, a crash or the site.
THEOREM ClientsAreOwned == AllSpec => []ClientsHaveOneOwner
<1>1. ClientsInv => ClientsHaveOneOwner
  <2> SUFFICES ASSUME ClientsInv PROVE M2M!ClientsHaveOneOwner
    BY DEF ClientsHaveOneOwner
  <2>1. ASSUME NEW c \in ClientCompanies, NEW d \in ClientCompanies, c # d, M2M!Rowed(c), M2M!Rowed(d)
        PROVE  principal[c].uuid # principal[d].uuid
    <3> SUFFICES ASSUME principal[c].uuid = principal[d].uuid PROVE FALSE
      OBVIOUS
    <3>1. principal[c] \in M2M!Principals /\ principal[d] \in M2M!Principals
      BY <2>1, ClientsTyped DEF ClientsInv, M2M!Rowed
    <3>2. PICK u \in M2M!Uuids, i \in M2M!ClientIds, j \in M2M!ClientIds :
            /\ u = principal[c].uuid /\ i = principal[c].id /\ j = principal[d].id
      BY <3>1 DEF M2M!Principals
    <3>3. Named(u, i) /\ Named(u, j)
      BY <2>1, <3>2 DEF Named
    <3>4. i = j
      BY <3>3 DEF ClientsInv, NamesOK
    <3>5. QED
      BY <2>1, <3>2, <3>4 DEF ClientsInv, NamesOK
  <2>2. \A u \in M2M!Uuids : M2M!Exists(u) /\ client[u].enabled /\ M2M!UsersOf(u) = {} => u \in left
    BY DEF ClientsInv, OwnersOK, Live
  <2>3. QED
    BY <2>1, <2>2 DEF M2M!ClientsHaveOneOwner
<1>2. QED
  BY <1>1, ClientsAlone, ClientsInvariant, PTL
=============================================================================
