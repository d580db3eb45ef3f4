----------------------------- MODULE CatalogImport -----------------------------
(***************************************************************************)
(* The import of a package of formal definitions beside their other        *)
(* operations.  Under the lock of the graph, every item of the package is  *)
(* looked for: it is used again if what is there is identical, planned if  *)
(* there is nothing, and otherwise the whole import is refused.  What was  *)
(* planned is then saved as drafts and each new version is proved, in the  *)
(* same transaction; whatever fails undoes all of it.  Without --apply the *)
(* command stops after the plan, which changes nothing.                    *)
(***************************************************************************)
EXTENDS FormalDefinitions

CONSTANTS
  Package,         \* what the package says of each of its versions
  PackageSpecs     \* and of the specifications they read

Packaged == DOMAIN Package
Described == DOMAIN PackageSpecs

ASSUME PackageAssumption ==
  /\ Packaged \subseteq Versions /\ Described \subseteq Specs
  /\ \A v \in Packaged :
       /\ Package[v].text \in Texts[v]
       /\ Package[v].edges \subseteq Packaged
       /\ Symbols(Package[v].edges) = Package[v].text.formula
       /\ Input[v] \subseteq Described
  /\ \A s \in Described : PackageSpecs[s].dataset \in Names

(* stage: the identity is there with the same content. *)
SameVersion(v) == row[v].text = Package[v].text /\ row[v].edges = Package[v].edges

(* Only a specification the package would create is compared in full.      *)
SameSpecification(s) ==
  /\ specification[s].dataset = PackageSpecs[s].dataset
  /\ PackageSpecs[s].create => specification[s].text = PackageSpecs[s].text

Mut_PlanLocks(w) == graph' = graph

PlanLocks(w) == graph = None /\ graph' = w

(* stage: what is not found is to be created, and what is only referred to *)
(* has to be found.                                                        *)
Missing == {s \in Described : specification[s].status = "none"}

PlanCatalog(w) ==
  /\ job[w] = Idle
  /\ \A v \in Packaged \cap Present : SameVersion(v)
  /\ \A s \in Described \ Missing : SameSpecification(s)
  /\ \A s \in Missing : PackageSpecs[s].create
  /\ PlanLocks(w)
  /\ job' = [job EXCEPT ![w] =
       [Idle EXCEPT !.pc = "import", !.todo = Packaged \ Present, !.specs = Missing]]
  /\ UNCHANGED <<row, proof, specification, snapshot, edits>>

Created(v) == [status |-> "draft", text |-> Package[v].text, edges |-> Package[v].edges]

PackageBinding == [s \in Symbols(Packaged) |-> CHOOSE v \in Packaged : Symbol[v] = s]

Verifiable(v) ==
  LET S == WithContext(v, PackageBinding) IN Resolved(S) /\ Consistent(S)

Verified(v) == Proof(WithContext(v, PackageBinding), Package[v].limited)

(* apply_catalog: a code taken meanwhile, a prerequisite that is not there *)
(* any more or a definition that cannot be proved undoes everything.       *)
CommitImport(w) ==
  LET create == job[w].todo
      specs  == job[w].specs
  IN  /\ job[w].pc = "import"
      /\ \A v \in create : row[v].status = "none"
      /\ \A s \in specs : specification[s].status = "none"
      /\ row' = [v \in Versions |-> IF v \in create THEN Created(v) ELSE row[v]]
      /\ specification' = [s \in Specs |->
           IF s \in specs
           THEN [status |-> "draft", text |-> PackageSpecs[s].text,
                 dataset |-> PackageSpecs[s].dataset]
           ELSE specification[s]]
      /\ \A v \in create, p \in Versions :
           p \in Package[v].edges => row'[p].status \in {"draft", "published"}
      /\ \A v \in create : Verifiable(v)'
      /\ proof' = [v \in Versions |-> IF v \in create THEN Verified(v)' ELSE proof[v]]
      /\ graph' = None
      /\ job' = [job EXCEPT ![w] = Idle]
      /\ UNCHANGED <<snapshot, edits>>

Init == FormalInit

Next == FormalNext \/ \E w \in Workers : PlanCatalog(w) \/ CommitImport(w)

Spec == Init /\ [][Next]_formalVars

-----------------------------------------------------------------------------
(* What an import creates is what the package says: each new version, and  *)
(* every version it rests on or mentions, is defined as in the package     *)
(* when the import commits, and its proof says so.  (What was used again   *)
(* was compared in the plan, before anything was saved.)                   *)
Imported(w) == job[w].pc = "import" /\ job'[w].pc = "idle" /\ row' # row

ImportIsThePackage ==
  \A w \in Workers : Imported(w) =>
    \A v \in job[w].todo, u \in Packaged :
      u \in DOMAIN proof'[v].records =>
        /\ row'[u].text = Package[u].text /\ row'[u].edges = Package[u].edges
        /\ proof'[v].records[u].text = Package[u].text
        /\ DOMAIN proof'[v].records \subseteq Packaged

=============================================================================
