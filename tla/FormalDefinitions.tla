--------------------------- MODULE FormalDefinitions ---------------------------
(***************************************************************************)
(* The proofs of the formal definitions of indicators.                     *)
(*                                                                         *)
(* A version says what it is calculated from and which symbols its         *)
(* consistency checks mention.  Its proof is the fingerprint of the        *)
(* versions it rests on, and of those its checks mention: the context,     *)
(* that is bound by an import and need not be published.  The proof is     *)
(* compared with the rows again when the version is published and when a   *)
(* revision that uses it is approved, and the approval freezes both.       *)
(*                                                                         *)
(* Versions and the edges between them are saved under the lock of the     *)
(* graph; the specifications they read, their datasets, and the approval   *)
(* of a revision are not.                                                  *)
(***************************************************************************)
EXTENDS Naturals, FiniteSets

CONSTANTS
  Versions,  \* indicator versions with a formal definition
  Symbol,    \* the symbol of the indicator of each
  Texts,     \* what each may say: the symbols of its formula and of its checks
  Input,     \* the specifications each version reads
  Specs,
  Names,     \* the codes a dataset may have
  Selected,    \* the indicators a draft revision selects
  Workers,
  MaxEdits,  \* bound on the changes to what is already there
  None

ASSUME TextsAssumption ==
  \A v \in Versions : \A t \in Texts[v] : Symbol[v] \notin t.formula

ASSUME NoneAssumption == None \notin Workers

VARIABLES
  row,            \* an indicator version: its status, text and edges
  proof,          \* its formal_verification
  specification,  \* a dataset specification: status, text, the code of its dataset
  graph,          \* who holds the lock of the graph
  job,
  snapshot,       \* the formal metadata of the revision, once approved
  edits

formalVars == <<row, proof, specification, graph, job, snapshot, edits>>

Present == {v \in Versions : row[v].status # "none"}
Absent == [status |-> "none", text |-> None, edges |-> {}]
Idle == [pc |-> "idle", v |-> None, todo |-> {}, specs |-> {}, metadata |-> <<>>]

(* What a fingerprint is taken of. *)
Record(v) ==
  [text |-> row[v].text, edges |-> row[v].edges,
   inputs |-> [s \in Input[v] |-> [text |-> specification[s].text,
                                   dataset |-> specification[s].dataset]]]

TypeOK ==
  /\ \A v \in Versions :
       /\ row[v].status \in {"none", "draft", "published", "retired"}
       /\ v \in Present => row[v].text \in Texts[v]
       /\ row[v].edges \subseteq Present
       /\ proof[v] # None => DOMAIN proof[v].records \subseteq Versions
  /\ \A s \in Specs :
       /\ specification[s].status \in {"none", "draft", "published"}
       /\ specification[s].dataset \in Names
  /\ graph \in Workers \cup {None}
  /\ \A w \in Workers : job[w].pc \in {"publish", "import"} => graph = w

-----------------------------------------------------------------------------
(* visit: the versions v rests on. *)
Least(Closed, v) == {u \in Versions : \A S \in Closed : v \in S => u \in S}

Closure(v) == Least({S \in SUBSET Versions : \A x \in S : row[x].edges \subseteq S}, v)

Mentioned(x) == IF row[x].text = None THEN {} ELSE row[x].text.checks
Symbols(S) == {Symbol[x] : x \in S}

(* The checks of all of them bring their context in, as it is bound.       *)
WithContext(v, binding) ==
  LET bound(x) == {binding[s] : s \in (Mentioned(x) \ Symbols(Closure(v))) \cap DOMAIN binding}
  IN  Least({S \in SUBSET Versions : \A x \in S : row[x].edges \cup bound(x) \subseteq S}, v)

(* definition_records finds every version, one for each symbol.            *)
Resolved(S) ==
  /\ S \subseteq Present
  /\ \A x, y \in S : Symbol[x] = Symbol[y] => x = y
  /\ \A x \in S : Mentioned(x) \subseteq Symbols(S)

(* analyze_records: the edges are those of the formulas. *)
Consistent(S) == \A x \in S : Symbols(row[x].edges) = row[x].text.formula

Records(S) == [x \in S |-> Record(x)]

(* A proof keeps the versions it was computed on as the binding. *)
Binding(v) ==
  IF proof[v] = None THEN <<>>
  ELSE [s \in Symbols(DOMAIN proof[v].records) |->
          CHOOSE x \in DOMAIN proof[v].records : Symbol[x] = s]

Definitions(v) == WithContext(v, Binding(v))

VerificationState(v) ==
  LET S == Definitions(v)
  IN  IF proof[v] = None THEN "not_verified"
      ELSE IF Resolved(S) /\ Consistent(S) /\ Records(S) = proof[v].records
           THEN "current"
           ELSE "stale"

RequireCurrent(v) == VerificationState(v) = "current" /\ ~proof[v].limited

-----------------------------------------------------------------------------
FormalInit ==
  /\ row = [v \in Versions |-> Absent]
  /\ proof = [v \in Versions |-> None]
  /\ \E dataset \in Names :
       specification = [s \in Specs |-> [status |-> "none", text |-> 0, dataset |-> dataset]]
  /\ graph = None
  /\ job = [w \in Workers |-> Idle]
  /\ snapshot = None
  /\ edits = 0

Edit == edits < MaxEdits /\ edits' = edits + 1

CreateVersion(v, text) ==
  /\ row[v].status = "none" /\ graph = None
  /\ row' = [row EXCEPT ![v] = [Absent EXCEPT !.status = "draft", !.text = text]]
  /\ UNCHANGED <<proof, specification, graph, job, snapshot, edits>>

Mut_Editable(v) == row[v].status = "draft"

Editable(v) == row[v].status = "draft" /\ graph = None

(* The form refuses another proof than the one stored. *)
SaveVersion(v, text) ==
  /\ Editable(v) /\ text # row[v].text
  /\ row' = [row EXCEPT ![v].text = text]
  /\ Edit
  /\ UNCHANGED <<proof, specification, graph, job, snapshot>>

AddEdge(v, p) ==
  /\ Editable(v) /\ v \notin Closure(p)
  /\ row[p].status \in {"draft", "published"} /\ p \notin row[v].edges
  /\ row' = [row EXCEPT ![v].edges = @ \cup {p}]
  /\ UNCHANGED <<proof, specification, graph, job, snapshot, edits>>

RemoveEdge(v, p) ==
  /\ Editable(v) /\ p \in row[v].edges
  /\ row' = [row EXCEPT ![v].edges = @ \ {p}]
  /\ Edit
  /\ UNCHANGED <<proof, specification, graph, job, snapshot>>

(* What has edges or inputs, or is an edge of another, is protected; the   *)
(* context of a proof is not, nor is the lock of the graph taken.          *)
DeleteVersion(v) ==
  /\ row[v].status = "draft" /\ \A w \in Workers : job[w].v # v
  /\ row[v].edges = {} /\ Input[v] = {} /\ \A u \in Versions : v \notin row[u].edges
  /\ row' = [row EXCEPT ![v] = Absent]
  /\ proof' = [proof EXCEPT ![v] = None]
  /\ Edit
  /\ UNCHANGED <<specification, graph, job, snapshot>>

CreateSpecification(s) ==
  /\ specification[s].status = "none"
  /\ specification' = [specification EXCEPT ![s].status = "draft"]
  /\ UNCHANGED <<row, proof, graph, job, snapshot, edits>>

SaveSpecification(s, n) ==
  /\ specification[s].status = "draft" /\ n # specification[s].text
  /\ specification' = [specification EXCEPT ![s].text = n]
  /\ Edit
  /\ UNCHANGED <<row, proof, graph, job, snapshot>>

PublishSpecification(s) ==
  /\ specification[s].status = "draft"
  /\ specification' = [specification EXCEPT ![s].status = "published"]
  /\ UNCHANGED <<row, proof, graph, job, snapshot, edits>>

(* A dataset is not versioned: its form is open whatever refers to it.     *)
RenameDataset(s, name) ==
  /\ name # specification[s].dataset
  /\ specification' = [specification EXCEPT ![s].dataset = name]
  /\ Edit
  /\ UNCHANGED <<row, proof, graph, job, snapshot>>

-----------------------------------------------------------------------------
Proof(S, limited) == [records |-> Records(S), limited |-> limited]

(* verify_definition, of a draft.  The page gives no binding and no        *)
(* limitations: those of the proof there was are kept.                     *)
VerifyDefinition(v) ==
  LET S == Definitions(v)
      limited == proof[v] # None /\ proof[v].limited
  IN  /\ Editable(v)
      /\ Resolved(S) /\ Consistent(S)
      /\ proof' = [proof EXCEPT ![v] = Proof(S, limited)]
      /\ UNCHANGED <<row, specification, graph, job, snapshot, edits>>

Mut_Publishable(v) == proof[v] # None

Publishable(v) == RequireCurrent(v)

(* The proof is compared first; the parts are asked for afterwards.        *)
BeginPublish(w, v) ==
  /\ job[w] = Idle
  /\ Editable(v) /\ Publishable(v)
  /\ graph' = w
  /\ job' = [job EXCEPT ![w] = [Idle EXCEPT !.pc = "publish", !.v = v]]
  /\ UNCHANGED <<row, proof, specification, snapshot, edits>>

CommitPublish(w) ==
  LET v == job[w].v
  IN  /\ job[w].pc = "publish"
      /\ \A p \in row[v].edges : row[p].status = "published"
      /\ \A u \in Closure(v), s \in Specs : s \in Input[u] => specification[s].status = "published"
      /\ row' = [row EXCEPT ![v].status = "published"]
      /\ graph' = None
      /\ job' = [job EXCEPT ![w] = Idle]
      /\ UNCHANGED <<proof, specification, snapshot, edits>>

(* Deprecated or withdrawn, a draft withdrawn. *)
Retire(v) ==
  /\ row[v].status \in {"draft", "published"} /\ graph = None
  /\ row' = [row EXCEPT ![v].status = "retired"]
  /\ Edit
  /\ UNCHANGED <<proof, specification, graph, job, snapshot>>

-----------------------------------------------------------------------------
(* The approval checks every version the revision calculates, then writes  *)
(* down of each its definitions, its proof, and the state of the proof.    *)
BeginApprove(w) ==
  LET effective == UNION {Closure(v) : v \in Selected}
  IN  /\ job[w] = Idle /\ snapshot = None
      /\ \A v \in effective : row[v].status = "published" /\ RequireCurrent(v)
      /\ job' = [job EXCEPT ![w] = [Idle EXCEPT !.pc = "approve", !.todo = effective]]
      /\ UNCHANGED <<row, proof, specification, graph, snapshot, edits>>

ReadDefinitions(w, v) ==
  /\ job[w].pc = "approve" /\ v \in job[w].todo
  /\ Resolved(Definitions(v))
  /\ job' = [job EXCEPT ![w].v = v, ![w].todo = @ \ {v}, ![w].pc = "state",
       ![w].metadata = [u \in DOMAIN @ \cup {v} |->
         IF u = v THEN [definitions |-> Records(Definitions(v)), proof |-> proof[v],
                        state |-> None]
         ELSE @[u]]]
  /\ UNCHANGED <<row, proof, specification, graph, snapshot, edits>>

ReadState(w) ==
  /\ job[w].pc = "state"
  /\ job' = [job EXCEPT ![w].pc = "approve", ![w].v = None,
       ![w].metadata[job[w].v].state = VerificationState(job[w].v)]
  /\ UNCHANGED <<row, proof, specification, graph, snapshot, edits>>

CommitApprove(w) ==
  /\ job[w].pc = "approve" /\ job[w].todo = {}
  /\ snapshot' = job[w].metadata
  /\ job' = [job EXCEPT ![w] = Idle]
  /\ UNCHANGED <<row, proof, specification, graph, edits>>

Abort(w) ==
  /\ job[w] # Idle
  /\ graph' = IF graph = w THEN None ELSE graph
  /\ job' = [job EXCEPT ![w] = Idle]
  /\ UNCHANGED <<row, proof, specification, snapshot, edits>>

FormalNext ==
  \/ \E v \in Versions :
       \/ \E text \in Texts[v] : CreateVersion(v, text) \/ SaveVersion(v, text)
       \/ \E p \in Versions : AddEdge(v, p) \/ RemoveEdge(v, p)
       \/ DeleteVersion(v) \/ VerifyDefinition(v) \/ Retire(v)
  \/ \E s \in Specs :
       \/ CreateSpecification(s) \/ PublishSpecification(s)
       \/ \E n \in {0, 1} : SaveSpecification(s, n)
       \/ \E name \in Names : RenameDataset(s, name)
  \/ \E w \in Workers :
       \/ \E v \in Versions : BeginPublish(w, v) \/ ReadDefinitions(w, v)
       \/ CommitPublish(w) \/ BeginApprove(w) \/ ReadState(w) \/ CommitApprove(w) \/ Abort(w)

-----------------------------------------------------------------------------
(* A published version, and every version it rests on, is still defined as *)
(* it was when it was proved: only what it reads and its context are open  *)
(* to change (require_current_verification, transition_indicator_version). *)
PublishedProofStands ==
  \A v \in Versions : row[v].status = "published" =>
    LET records == proof[v].records
    IN  \A u \in Closure(v) :
          u \in DOMAIN records /\ records[u].text = row[u].text /\ records[u].edges = row[u].edges

(* validate_frozen_formal_metadata: what every reader of an approved       *)
(* revision requires.                                                      *)
Frozen(metadata) ==
  \A v \in DOMAIN metadata :
    /\ metadata[v].state = "current"
    /\ metadata[v].proof.records = metadata[v].definitions
    /\ ~metadata[v].proof.limited

(* "Context definitions are fingerprinted and frozen with the proof": the  *)
(* definitions an approved revision holds are those of the proof it holds. *)
FrozenMetadataHold == snapshot # None => Frozen(snapshot)

=============================================================================
