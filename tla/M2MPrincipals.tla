--------------------------- MODULE M2MPrincipals ---------------------------
(***************************************************************************)
(* The M2M client of each company: a row here, a client in Keycloak.       *)
(*                                                                         *)
(* A company is created with its client in one transaction; the client is  *)
(* made in Keycloak before the row that refers to it, and is taken away    *)
(* again when the row cannot be stored.  The secret is kept in both; it is *)
(* rotated and the client is revoked by calls followed by statements that  *)
(* commit one by one, and nothing is locked.                               *)
(*                                                                         *)
(* The names of the companies are distinct and give the same client id     *)
(* ("ATM S.p.A." and "ATM SpA"), unless the id is already in a row, when a *)
(* digest tells them apart.  A call to Keycloak succeeds, is refused, or   *)
(* is never answered because the worker has died (Die).                    *)
(***************************************************************************)
EXTENDS Integers, FiniteSets

CONSTANTS
  Companies,
  Workers,
  MaxClients,  \* bound on the clients made in Keycloak
  MaxSecrets,  \* bound on the secrets it issues
  MaxEdits,    \* bound on the companies whose principal is edited by hand
  None

SharedId == "shared"
ClientIds == {SharedId} \cup Companies   \* candidate, candidate with the digest
Statuses == {"active", "suspended", "revoked"}
Uuids == 1..MaxClients
Secrets == 0..MaxSecrets                 \* 0: no secret is stored

VARIABLES
  company,   \* committed companies: "none", "present"
  contract,  \* companies that have a contract
  row,       \* the committed principal of each company
  client,    \* the clients of Keycloak, by uuid
  clients,   \* uuids given out so far
  secrets,   \* secrets issued so far
  job,       \* what each worker is doing
  edited,    \* companies whose principal the administration site has edited
  spoiled,   \* companies whose client something else has touched since it was found
  left       \* clients left behind by a fault

history == <<edited, spoiled, left>>
keycloak == <<client, clients, secrets>>
vars == <<company, contract, row, keycloak, job, history>>

Idle == [pc |-> "idle", of |-> None, op |-> None, id |-> None, uuid |-> None, secret |-> 0]
Principals == [id : ClientIds, uuid : Uuids, status : Statuses, secret : Secrets]
Clients == [id : ClientIds, enabled : BOOLEAN, secret : Secrets]

\* What is assumed of the constants, by the modules that instantiate this one.
ClientsAssumption ==
  /\ {MaxClients, MaxSecrets} \subseteq Nat
  /\ None \notin Companies /\ None \notin Uuids /\ None \notin Principals /\ None \notin Clients
  /\ None \notin {"create", "rotate", "revoke", "delete"}

TypeOK ==
  /\ company \in [Companies -> {"none", "present"}]
  /\ contract \in SUBSET Companies
  /\ row \in [Companies -> Principals \cup {None}]
  /\ client \in [Uuids -> Clients \cup {None}]
  /\ clients \in 0..MaxClients /\ secrets \in Secrets
  /\ job \in [Workers ->
       [pc : {"idle", "client", "secret", "insert", "commit", "compensate", "rotate", "store",
              "disable", "clear", "revoke", "delete"},
        of : Companies \cup {None}, op : {"create", "rotate", "revoke", "delete", None},
        id : ClientIds \cup {None}, uuid : Uuids \cup {None}, secret : Secrets]]
  /\ edited \in SUBSET Companies /\ spoiled \in SUBSET Companies /\ left \in SUBSET Uuids

Init ==
  /\ company = [c \in Companies |-> "none"]
  /\ contract = {}
  /\ row = [c \in Companies |-> None]
  /\ client = [u \in Uuids |-> None]
  /\ clients = 0 /\ secrets = 0
  /\ job = [w \in Workers |-> Idle]
  /\ edited = {} /\ spoiled = {} /\ left = {}

-----------------------------------------------------------------------------
Finish(w) == job' = [job EXCEPT ![w] = Idle]
Goto(w, pc) == job' = [job EXCEPT ![w].pc = pc]
Exists(u) == client[u] # None
Rowed(c) == c \in Companies /\ row[c] # None
HasId(u, id) == Exists(u) /\ client[u].id = id
Alone(w) == \A v \in Workers \ {w} : job[v].of # job[w].of
Busy(c) == \E w \in Workers : job[w].of = c

(* Who relies on a client: the companies of the rows and requests that hold it. *)
UsersOf(u) ==
  {c \in Companies : (Rowed(c) /\ row[c].uuid = u) \/ \E w \in Workers : job[w].of = c /\ job[w].uuid = u}

(* Whom a call of this request disturbs: the other companies that rely on  *)
(* the client, and its own when another request is at work on it.          *)
Disturbed(w) ==
  (UsersOf(job[w].uuid) \ {job[w].of}) \cup (IF Alone(w) THEN {} ELSE {job[w].of} \cap Companies)

Leave(w) == left' = IF job[w].uuid = None THEN left ELSE left \cup {job[w].uuid}

(* resolve_default_m2m_client_id sees the rows that are committed. *)
IdFor(c) == IF \E d \in Companies : Rowed(d) /\ row[d].id = SharedId THEN c ELSE SharedId

(* The company is inserted, and its transaction stays open.  A second      *)
(* request of the same name waits for the first, and then is refused.      *)
BeginCreation(w, c) ==
  /\ job[w] = Idle
  /\ company[c] = "none"
  /\ \A v \in Workers : ~(job[v].of = c /\ job[v].op = "create")
  /\ job' = [job EXCEPT ![w] =
       [Idle EXCEPT !.pc = "client", !.of = c, !.op = "create", !.id = IdFor(c)]]
  /\ UNCHANGED <<company, contract, row, keycloak, history>>

(* create_confidential_m2m_client: a client of that id is taken as it is.  *)
FindClient(w) ==
  /\ job[w].pc = "client"
  /\ \E u \in Uuids :
       /\ HasId(u, job[w].id)
       /\ job' = [job EXCEPT ![w].pc = "secret", ![w].uuid = u]
       /\ spoiled' = IF client[u].enabled THEN spoiled ELSE spoiled \cup {job[w].of}
  /\ UNCHANGED <<company, contract, row, keycloak, edited, left>>

MakeClient(w) ==
  LET u == clients + 1
  IN  /\ job[w].pc = "client"
      /\ clients < MaxClients /\ secrets < MaxSecrets
      /\ ~\E v \in Uuids : HasId(v, job[w].id)
      /\ client' = [client EXCEPT ![u] =
                      [id |-> job[w].id, enabled |-> TRUE, secret |-> secrets + 1]]
      /\ clients' = u /\ secrets' = secrets + 1
      /\ job' = [job EXCEPT ![w].pc = "secret", ![w].uuid = u]
      /\ UNCHANGED <<company, contract, row, history>>

GetSecret(w) ==
  /\ job[w].pc = "secret"
  /\ Exists(job[w].uuid)
  /\ job' = [job EXCEPT ![w].pc = "insert", ![w].secret = client[job[w].uuid].secret]
  /\ UNCHANGED <<company, contract, row, keycloak, history>>

(* Keycloak refuses the client or its secret: the company is rolled back,  *)
(* and a client made meanwhile is left behind.                             *)
RefuseProvisioning(w) ==
  /\ job[w].pc \in {"client", "secret"}
  /\ Leave(w)
  /\ Finish(w)
  /\ UNCHANGED <<company, contract, row, keycloak, edited, spoiled>>

Mut_IdIsFree(w) == TRUE

(* The row is inserted, in the open transaction: the id must be free.  One *)
(* that another open transaction has inserted is waited for.               *)
IdIsFree(w) == \A d \in Companies : Rowed(d) => row[d].id # job[w].id

IdIsAwaited(w) ==
  \E v \in Workers \ {w} : job[v].pc = "commit" /\ job[v].id = job[w].id

InsertPrincipal(w) ==
  /\ job[w].pc = "insert"
  /\ ~IdIsAwaited(w)
  /\ \/ IdIsFree(w) /\ Goto(w, "commit")
     \/ Goto(w, "compensate")           \* refused, or failed for another reason
  /\ UNCHANGED <<company, contract, row, keycloak, history>>

CommitCreation(w) ==
  LET c == job[w].of
  IN  /\ job[w].pc = "commit"
      /\ company' = [company EXCEPT ![c] = "present"]
      /\ row' = [row EXCEPT ![c] = [id |-> job[w].id, uuid |-> job[w].uuid,
                                    status |-> "active", secret |-> job[w].secret]]
      /\ Finish(w)
      /\ UNCHANGED <<contract, keycloak, history>>

(* The row was not stored: the client is deleted or, if Keycloak refuses,  *)
(* disabled, and the transaction of the company is rolled back.  Whether   *)
(* this request has made the client or found it is not looked at.          *)
Compensate(w) ==
  LET u == job[w].uuid
  IN  /\ job[w].pc = "compensate"
      /\ \/ Exists(u) /\ client' = [client EXCEPT ![u] = None] /\ UNCHANGED left
         \/ Exists(u) /\ client' = [client EXCEPT ![u].enabled = FALSE] /\ UNCHANGED left
         \/ Leave(w) /\ UNCHANGED client
      /\ spoiled' = IF client' = client THEN spoiled ELSE spoiled \cup UsersOf(u)
      /\ Finish(w)
      /\ UNCHANGED <<company, contract, row, clients, secrets, edited>>

-----------------------------------------------------------------------------
(* The page asks for a rotation, of a principal of any status. *)
BeginRotation(w, c) ==
  /\ job[w] = Idle
  /\ Rowed(c)
  /\ job' = [job EXCEPT ![w] =
       [Idle EXCEPT !.pc = "rotate", !.of = c, !.op = "rotate", !.uuid = row[c].uuid]]
  /\ UNCHANGED <<company, contract, row, keycloak, history>>

Mut_Rotate(w) ==
  LET u == job[w].uuid
  IN  /\ job[w].pc = "rotate"
      /\ Exists(u) /\ secrets < MaxSecrets
      /\ secrets' = secrets + 1
      /\ client' = [client EXCEPT ![u].secret = secrets + 1]
      /\ job' = [job EXCEPT ![w].pc = "store", ![w].secret = client[u].secret]
      /\ UNCHANGED <<company, contract, row, clients, history>>

(* Keycloak forgets the old secret.  Another request that has read it, or  *)
(* rotates it too, may store one that is not the last.                     *)
Rotate(w) ==
  LET u == job[w].uuid
  IN  /\ job[w].pc = "rotate"
      /\ Exists(u) /\ secrets < MaxSecrets
      /\ secrets' = secrets + 1
      /\ client' = [client EXCEPT ![u].secret = secrets + 1]
      /\ job' = [job EXCEPT ![w].pc = "store", ![w].secret = secrets + 1]
      /\ spoiled' = spoiled \cup Disturbed(w)
      /\ UNCHANGED <<company, contract, row, clients, edited, left>>

StoreSecret(w) ==
  LET c == job[w].of
  IN  /\ job[w].pc = "store"
      /\ row' = IF Rowed(c) THEN [row EXCEPT ![c].secret = job[w].secret] ELSE row
      /\ Finish(w)
      /\ UNCHANGED <<company, contract, keycloak, history>>

-----------------------------------------------------------------------------
(* Revoking, alone or for each principal of a company that is deleted: the *)
(* client is disabled, the secret cleared, the row marked; each by itself. *)
BeginRevocation(w, c) ==
  /\ job[w] = Idle
  /\ Rowed(c)
  /\ job' = [job EXCEPT ![w] =
       [Idle EXCEPT !.pc = "disable", !.of = c, !.op = "revoke", !.uuid = row[c].uuid]]
  /\ UNCHANGED <<company, contract, row, keycloak, history>>

(* A company without contracts; principals already revoked are skipped.    *)
BeginDeletion(w, c) ==
  /\ job[w] = Idle
  /\ company[c] = "present" /\ c \notin contract
  /\ job' = [job EXCEPT ![w] =
       [Idle EXCEPT !.pc = IF Rowed(c) /\ row[c].status # "revoked" THEN "disable" ELSE "delete",
                    !.of = c, !.op = "delete", !.uuid = IF Rowed(c) THEN row[c].uuid ELSE None]]
  /\ UNCHANGED <<company, contract, row, keycloak, history>>

DisableClient(w) ==
  LET u == job[w].uuid
  IN  /\ job[w].pc = "disable"
      /\ Exists(u)
      /\ client' = [client EXCEPT ![u].enabled = FALSE]
      /\ spoiled' = spoiled \cup Disturbed(w)
      /\ Goto(w, "clear")
      /\ UNCHANGED <<company, contract, row, clients, secrets, edited, left>>

Mut_RefuseChange(w) ==
  /\ job[w].pc \in {"rotate", "disable"}
  /\ IF job[w].pc = "disable" THEN Goto(w, "clear") ELSE Finish(w)
  /\ UNCHANGED <<company, contract, row, keycloak, history>>

(* Keycloak refuses, or does not know the client. *)
RefuseChange(w) ==
  /\ job[w].pc \in {"rotate", "disable"}
  /\ Finish(w)
  /\ UNCHANGED <<company, contract, row, keycloak, history>>

ClearSecret(w) ==
  LET c == job[w].of
  IN  /\ job[w].pc = "clear"
      /\ row' = IF Rowed(c) THEN [row EXCEPT ![c].secret = 0] ELSE row
      /\ IF Rowed(c) THEN Goto(w, "revoke") ELSE Finish(w)
      /\ UNCHANGED <<company, contract, keycloak, history>>

MarkRevoked(w) ==
  LET c == job[w].of
  IN  /\ job[w].pc = "revoke"
      /\ row' = IF Rowed(c) THEN [row EXCEPT ![c].status = "revoked"] ELSE row
      /\ IF Rowed(c) /\ job[w].op = "delete" THEN Goto(w, "delete") ELSE Finish(w)
      /\ UNCHANGED <<company, contract, keycloak, history>>

(* A contract made meanwhile protects the company, not its principals.  Of *)
(* the other requests on the company only a call to Keycloak is still to   *)
(* come: their statements find no row.                                     *)
Orphaned(j) == IF j.pc \in {"rotate", "disable"} THEN [j EXCEPT !.of = None] ELSE Idle

DeleteCompany(w) ==
  LET c == job[w].of
  IN  /\ job[w].pc = "delete"
      /\ IF c \notin contract
         THEN /\ company' = [company EXCEPT ![c] = "none"]
              /\ row' = [row EXCEPT ![c] = None]
              /\ spoiled' = IF Alone(w) THEN spoiled \ {c} ELSE spoiled \cup {c}
              /\ edited' = edited \ {c}
              /\ left' = IF c \in edited /\ Rowed(c) THEN left \cup {row[c].uuid} ELSE left
              /\ job' = [v \in Workers |-> IF v = w THEN Idle
                                          ELSE IF job[v].of = c THEN Orphaned(job[v]) ELSE job[v]]
         ELSE Finish(w) /\ UNCHANGED <<company, row, history>>
      /\ UNCHANGED <<contract, keycloak>>

-----------------------------------------------------------------------------
(* Contracts are never deleted here. *)
CreateContract(c) ==
  /\ company[c] = "present" /\ c \notin contract
  /\ contract' = contract \cup {c}
  /\ UNCHANGED <<company, row, keycloak, job, history>>

(* The administration site edits the status and leaves Keycloak alone. *)
EditStatus(c, status) ==
  /\ Rowed(c) /\ row[c].status # status
  /\ Cardinality(edited) < MaxEdits
  /\ row' = [row EXCEPT ![c].status = status]
  /\ edited' = edited \cup {c}
  /\ UNCHANGED <<company, contract, keycloak, job, spoiled, left>>

Die(w) ==
  /\ job[w] # Idle
  /\ Leave(w)
  /\ spoiled' = spoiled \cup ({job[w].of} \cap Companies)
  /\ Finish(w)
  /\ UNCHANGED <<company, contract, row, keycloak, edited>>

Next ==
  \/ \E w \in Workers :
       \/ \E c \in Companies :
            BeginCreation(w, c) \/ BeginRotation(w, c) \/ BeginRevocation(w, c) \/ BeginDeletion(w, c)
       \/ FindClient(w) \/ MakeClient(w) \/ GetSecret(w) \/ RefuseProvisioning(w)
       \/ InsertPrincipal(w) \/ CommitCreation(w) \/ Compensate(w)
       \/ Rotate(w) \/ StoreSecret(w) \/ DisableClient(w) \/ RefuseChange(w)
       \/ ClearSecret(w) \/ MarkRevoked(w) \/ DeleteCompany(w) \/ Die(w)
  \/ \E c \in Companies : CreateContract(c) \/ \E status \in Statuses : EditStatus(c, status)

Spec == Init /\ [][Next]_vars

-----------------------------------------------------------------------------
(* A principal the service has revoked can get no token: its client is     *)
(* disabled or gone, wherever a call was refused or a worker has died.     *)
RevokedIsDisabled ==
  \A c \in Companies :
    Rowed(c) /\ row[c].status = "revoked" /\ c \notin edited =>
      ~Exists(row[c].uuid) \/ ~client[row[c].uuid].enabled

(* The secret shown to a company is the one Keycloak takes, unless a       *)
(* worker died on it, two rotations overlapped, the site has edited it, or *)
(* another company's request found the same client.                        *)
SecretIsUsable ==
  \A c \in Companies :
    Rowed(c) /\ row[c].status = "active" /\ ~Busy(c) /\ c \notin spoiled \cup edited =>
      /\ Exists(row[c].uuid)
      /\ client[row[c].uuid].enabled
      /\ row[c].secret = client[row[c].uuid].secret

(* An enabled client belongs to one principal or one request: any other    *)
(* was left by a refusal, a crash, or a status the site has edited.        *)
ClientsHaveOneOwner ==
  /\ \A c, d \in Companies : c # d /\ Rowed(c) /\ Rowed(d) => row[c].uuid # row[d].uuid
  /\ \A u \in Uuids :
       Exists(u) /\ client[u].enabled /\ UsersOf(u) = {} => u \in left

=============================================================================
