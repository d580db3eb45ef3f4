---------------------------- MODULE IngestAccess ----------------------------
(***************************************************************************)
(* What the M2M API answers about one contract, and to whom.               *)
(*                                                                         *)
(* A company's client may ask while its principal is active, the contract  *)
(* belongs to the company and is effective, and a grant covers the         *)
(* category.  Each of these is a row of its own and is read by a statement *)
(* of its own, with no transaction around them: the contract may change    *)
(* hands between two reads of one request.  The API judges them three      *)
(* times over: in the list of the contracts, in the decision of the first  *)
(* version, and in the handlers of the later ones.                         *)
(*                                                                         *)
(* A day is two moments.  In the first one, before two in the morning, the *)
(* UTC day that the list compares with is still the day before.            *)
(***************************************************************************)
EXTENDS Integers

CONSTANTS
  Companies,   \* each with one principal
  Categories,  \* of data
  Any,         \* the category of a grant, or of a request, that names none
  Dates,       \* the first and last days a contract may be given
  Windows,     \* the first and last moments a grant may be given
  Revisions,   \* that may take effect, in this order
  Schema,      \* [Revisions -> the version of the schema of the snapshot]
  Inputs,      \* [Revisions -> the categories configured]
  LastMoment,
  MaxSaves,    \* bounds the changes made by hand
  None

\* What is assumed of the constants, by the modules that instantiate this one.
AccessAssumption ==
  /\ LastMoment \in Nat /\ Any \notin Categories /\ None \notin Categories \cup Companies
  /\ Inputs \in [Revisions -> SUBSET Categories] /\ Schema \in [Revisions -> 1..4]
  /\ [from |-> 0, to |-> LastMoment] \in Windows /\ MaxSaves \in Nat

VARIABLES
  clock,
  contract,
  principal,  \* the status of the principal of each company
  grant,      \* the grant of each company for each category, or for any
  current,    \* the revision in force
  call,       \* the request in progress
  held,       \* what was true at some moment of it
  saves

rows == <<contract, principal, grant, current>>
vars == <<clock, contract, principal, grant, current, call, held, saves>>

Day(m) == m \div 2 + 1         \* the local day
UtcDay(m) == (m + 1) \div 2
Statuses == {"draft", "active", "closed"}
Contracts == [company : Companies, status : Statuses, dates : Dates]
Grants == [status : {"active", "disabled"}, window : Windows]
Idle == [pc |-> "idle", path |-> None, of |-> None, category |-> Any, row |-> None, answer |-> None]

Endpoints ==
  {"contract", "publications", "users", "flow profile", "authorization",
   "required inputs", "indicators", "resolution", "plan 3", "plan 4", "plan 5"}

TypeOK ==
  /\ clock \in 0..LastMoment
  /\ contract \in Contracts \cup {None}
  /\ principal \in [Companies -> {"none", "active", "suspended", "revoked"}]
  /\ grant \in [Companies \X (Categories \cup {Any}) -> Grants \cup {None}]
  /\ current \in Revisions \cup {None}
  /\ call \in [pc : {"idle", "principal", "contract", "grant", "again", "answer", "answered"},
               path : {"v1", "later", "service", None}, of : Companies \cup {None},
               category : Categories \cup {Any}, row : Contracts \cup {None},
               answer : Endpoints \cup {None}]
  /\ held \subseteq {"principal", "company", "effective", "grant"}
  /\ saves \in 0..MaxSaves

Init ==
  /\ clock = 0
  /\ contract = None
  /\ principal \in [Companies -> {"none", "active"}]
  /\ grant = [g \in Companies \X (Categories \cup {Any}) |-> None]
  /\ current = None
  /\ call = Idle
  /\ held = {}
  /\ saves = 0

-----------------------------------------------------------------------------
(* What a row says, at a moment.                                           *)
Effective(row, m) ==
  row.status = "active" /\ row.dates.first <= Day(m) /\ Day(m) <= row.dates.last

InWindow(g, m) == g.window.from <= m /\ m <= g.window.to

InForce(g) == g # None /\ g.status = "active" /\ InWindow(g, clock)

(* A grant of the category, or of any.                                     *)
Granted(c, k) == \E g \in {Any, k} : InForce(grant[<<c, g>>])

(* can_client_ingest_for_contract, if it were asked now.                   *)
Decision(c, k) ==
  /\ principal[c] = "active"
  /\ contract # None /\ contract.company = c
  /\ Effective(contract, clock)
  /\ Granted(c, k)

Mut_Listed(c) ==
  /\ contract # None /\ contract.company = c /\ contract.status = "active"
  /\ \E g \in Categories \cup {Any} :
       grant[<<c, g>>] # None /\ grant[<<c, g>>].status = "active"

(* The contract is in the list of the client: by the UTC day, and with a   *)
(* grant of whatever category.                                             *)
Listed(c) ==
  /\ contract # None /\ contract.company = c
  /\ contract.status = "active"
  /\ contract.dates.first <= UtcDay(clock) /\ UtcDay(clock) <= contract.dates.last
  /\ \E g \in Categories \cup {Any} : InForce(grant[<<c, g>>])

(* What the request in progress needs, as far as it is true now.           *)
True ==
  (IF principal[call.of] = "active" THEN {"principal"} ELSE {})
  \cup (IF contract # None /\ contract.company = call.of THEN {"company"} ELSE {})
  \cup (IF contract # None /\ Effective(contract, clock) THEN {"effective"} ELSE {})
  \cup (IF Granted(call.of, call.category) THEN {"grant"} ELSE {})

Waiting == call.pc \in {"idle", "answered"}

Observe ==
  held' = IF call'.of = None THEN {}
          ELSE IF Waiting THEN (IF call' = call THEN held ELSE True')
          ELSE held \cup True'

-----------------------------------------------------------------------------
(* The token names the client, whose principal is active.  The requests of *)
(* the first version read it again, and then the contract twice.           *)
BeginRequest(path, c, k) ==
  /\ Waiting
  /\ principal[c] = "active"
  /\ path = "later" => k # Any
  /\ call' = [Idle EXCEPT !.pc = IF path = "v1" THEN "principal" ELSE "contract",
                          !.path = path, !.of = c, !.category = k]
  /\ UNCHANGED <<clock, rows, saves>>

(* The validation service is on a list of the settings, and has no grants. *)
BeginService(k) ==
  /\ Waiting
  /\ call' = [Idle EXCEPT !.pc = "contract", !.path = "service", !.category = k]
  /\ UNCHANGED <<clock, rows, saves>>

(* A statement of the request: it goes on, or is refused.                  *)
Proceed(pc, allowed) ==
  /\ call' = IF allowed THEN [call EXCEPT !.pc = pc] ELSE Idle
  /\ UNCHANGED <<clock, rows, saves>>

ReadPrincipal ==
  /\ call.pc = "principal"
  /\ Proceed("contract", principal[call.of] = "active")

Mut_IsOurs(row) == TRUE

(* The service may read any contract.                                      *)
IsOurs(row) == call.path = "service" \/ row.company = call.of

ReadContract ==
  /\ call.pc = "contract"
  /\ call' = IF contract # None /\ IsOurs(contract) /\ Effective(contract, clock)
             THEN [call EXCEPT !.row = contract,
                               !.pc = IF call.path = "service" THEN "answer" ELSE "grant"]
             ELSE Idle
  /\ UNCHANGED <<clock, rows, saves>>

ReadGrant ==
  /\ call.pc = "grant"
  /\ Proceed(IF call.path = "v1" THEN "again" ELSE "answer", Granted(call.of, call.category))

(* The first version: whose contract it is now is not looked at.           *)
ReadContractAgain ==
  /\ call.pc = "again"
  /\ call' = [call EXCEPT !.pc = "answer", !.row = contract]
  /\ UNCHANGED <<clock, rows, saves>>

(* Resolved from the row that was read, on the day it is now.              *)
Resolved(schemas) ==
  /\ Effective(call.row, clock)
  /\ current # None
  /\ Schema[current] \in schemas

Configured == call.category \in Inputs[current]

Answer(endpoint, resolved) ==
  /\ call' = IF resolved
             THEN [Idle EXCEPT !.pc = "answered", !.path = call.path, !.of = call.of,
                               !.category = call.category, !.answer = endpoint]
             ELSE Idle
  /\ UNCHANGED <<clock, rows, saves>>

Answering(path) == call.pc = "answer" /\ call.path = path

(* The first version.  Most of its endpoints name no category, and some do *)
(* not look at the configuration.                                          *)
OfContract(endpoint, resolved) ==
  Answering("v1") /\ call.category = Any /\ Answer(endpoint, resolved)

ContractDetail == OfContract("contract", TRUE)
Publications == OfContract("publications", TRUE)
ContractUsers == OfContract("users", TRUE)
FlowProfile == OfContract("flow profile", Resolved({1, 2}))
RequiredInputs == OfContract("required inputs", Resolved({1, 2}))
Indicators == OfContract("indicators", Resolved({1, 2}))

IngestAuthorization ==
  /\ Answering("v1") /\ call.category # Any
  /\ Answer("authorization", Resolved({1, 2}) /\ Configured)

(* The second, and the plans of validation.  A plan projects the rules of  *)
(* the snapshot, which the first schema has not.                           *)
IngestResolution ==
  Answering("later") /\ Answer("resolution", Resolved({1, 2}) /\ Configured)

ValidationPlan(endpoint, schemas) ==
  /\ \E path \in {"later", "service"} : Answering(path)
  /\ Answer(endpoint, Resolved(schemas) /\ Configured)

ValidationPlan3 == ValidationPlan("plan 3", {2})
ValidationPlan4 == ValidationPlan("plan 4", {2, 3})
ValidationPlan5 == ValidationPlan("plan 5", {2, 3, 4})

-----------------------------------------------------------------------------
(* A contract is created with a grant for any category, if the company has *)
(* an active principal by then.                                            *)
CreateContract(c, status, dates) ==
  /\ contract = None
  /\ status # "closed"
  /\ contract' = [company |-> c, status |-> status, dates |-> dates]
  /\ grant' = IF principal[c] = "active"
              THEN [grant EXCEPT ![<<c, Any>>] =
                      [status |-> "active", window |-> [from |-> 0, to |-> LastMoment]]]
              ELSE grant
  /\ UNCHANGED <<clock, principal, current, call, saves>>

Save == saves < MaxSaves /\ saves' = saves + 1

(* The form may give it to another company, and leaves the grants.         *)
SaveContract(row) ==
  /\ Save
  /\ contract # None /\ contract.status # "closed" /\ contract # row
  /\ contract' = row
  /\ UNCHANGED <<clock, principal, grant, current, call>>

SavePrincipal(c, status) ==
  /\ Save
  /\ principal[c] # status
  /\ principal' = [principal EXCEPT ![c] = status]
  /\ UNCHANGED <<clock, contract, grant, current, call>>

(* Checked against the contract when it is saved.                          *)
SaveGrant(c, k, g) ==
  /\ Save
  /\ principal[c] # "none" /\ contract # None /\ contract.company = c
  /\ grant' = [grant EXCEPT ![<<c, k>>] = g]
  /\ UNCHANGED <<clock, contract, principal, current, call>>

(* ContractRevisions says when.                                            *)
TakeEffect(r) ==
  /\ contract # None
  /\ \A q \in Revisions : q < r <=> current # None /\ q <= current
  /\ current' = r
  /\ UNCHANGED <<clock, contract, principal, grant, call, saves>>

Pass ==
  /\ clock < LastMoment
  /\ clock' = clock + 1
  /\ UNCHANGED <<rows, call, saves>>

Step ==
  \/ \E path \in {"v1", "later"}, c \in Companies, k \in Categories \cup {Any} :
       BeginRequest(path, c, k)
  \/ \E k \in Categories : BeginService(k)
  \/ ReadPrincipal \/ ReadContract \/ ReadGrant \/ ReadContractAgain
  \/ ContractDetail \/ Publications \/ ContractUsers \/ FlowProfile \/ RequiredInputs \/ Indicators
  \/ IngestAuthorization \/ IngestResolution \/ ValidationPlan3 \/ ValidationPlan4 \/ ValidationPlan5
  \/ \E c \in Companies, status \in Statuses, dates \in Dates : CreateContract(c, status, dates)
  \/ \E row \in Contracts : SaveContract(row)
  \/ \E c \in Companies, status \in {"active", "suspended", "revoked"} : SavePrincipal(c, status)
  \/ \E c \in Companies, k \in Categories \cup {Any}, g \in Grants : SaveGrant(c, k, g)
  \/ \E r \in Revisions : TakeEffect(r)
  \/ Pass

Next == Step /\ Observe

Spec == Init /\ [][Next]_vars

-----------------------------------------------------------------------------
(* What a company's client was told it was allowed to be told: in the      *)
(* course of the request its principal was active, the contract was its    *)
(* company's and effective, and a grant covered the category, although no  *)
(* two of them were read at once.                                          *)
AnsweredWasAllowed ==
  call.answer # None /\ call.of # None =>
    held = {"principal", "company", "effective", "grant"}

(* The list and the decision agree: by day, the contracts a client is      *)
(* shown are those it may ask of for some category, or for none.           *)
ListIsDecision ==
  clock % 2 = 1 =>
    \A c \in Companies :
      principal[c] = "active" =>
        (Listed(c) <=> \E k \in Categories \cup {Any} : Decision(c, k))

=============================================================================
