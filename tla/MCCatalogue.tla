----------------------------- MODULE MCCatalogue -----------------------------
(* The technical catalogue on two of its parts (rules, specifications and   *)
(* indicators; flows, orchestrations, an indicator and a profile), the      *)
(* drafts of two revisions composed of published profiles, and the formal   *)
(* definitions beside the import of a package of them.  Only one of the     *)
(* four moves in a behaviour, and which one is chosen at first.             *)
EXTENDS MCCatalogImport, Integers, Sequences

CONSTANTS
  rule, base, spec, second, flow, orchestration, indicator, other, service,
  DatasetVersions, ProfileVersions, FormalVersions, CatalogWorkers, Graph,
  Revisions, MaxChanges,
  Profiles, Choices, Flows, Offer, Proposal, Inputs, IndicatorOf, Needs, Reads, Supplies,
  Parameterised, Retirable, Values, Empty

VARIABLES
  part, status, dated, parts, lock,
  profile, replaces, inputs, own, implied, frozen, post, retired

KindOf ==
  [v \in DatasetVersions \cup ProfileVersions |->
     CASE v = rule -> "rule" [] v \in {base, spec, second} -> "spec" [] v = flow -> "flow"
       [] v = orchestration -> "orchestration" [] v = service -> "profile"
       [] OTHER -> "indicator"]

DatasetCatalog == INSTANCE TechnicalCatalog WITH
  Versions <- DatasetVersions, Kind <- KindOf, Formal <- FormalVersions,
  Workers <- CatalogWorkers

ProfileCatalog == INSTANCE TechnicalCatalog WITH
  Versions <- ProfileVersions, Kind <- KindOf, Formal <- {}

ASSUME CatalogsAssumption ==
  DatasetCatalog!CatalogAssumption /\ ProfileCatalog!CatalogAssumption

Composition == INSTANCE RevisionComposition WITH
  Versions <- Choices, MaxEdits <- MaxChanges

ASSUME CompositionsAssumption == Composition!CompositionAssumption

(* Punctuality requires the delays, of which a second version is in the     *)
(* other profile only.                                                      *)
MCOffer ==
  [p \in Profiles |-> IF p = "urban" THEN {"punctuality", "delays1"} ELSE {"delays2"}]
MCProposal == [p \in Profiles |-> IF p = "urban" THEN {"delays1"} ELSE {"delays2"}]
MCInputs ==
  [p \in Profiles |-> IF p = "urban" THEN {"timetables", "positions"} ELSE {"positions"}]
MCIndicatorOf ==
  [v \in Choices |-> IF v = "punctuality" THEN "punctuality" ELSE "delays"]
MCNeeds == [v \in Choices |-> IF v = "punctuality" THEN {"delays1"} ELSE {}]
MCReads == [v \in Choices |-> IF v = "punctuality" THEN {"netex"} ELSE {"siri"}]
MCSupplies == [f \in Flows |-> IF f = "timetables" THEN "netex" ELSE "siri"]

(* The jobs and the number of edits are of whichever part moves. *)
catalogVars == <<status, dated, parts, lock>>
compositionVars == <<profile, replaces, inputs, own, implied, frozen, post, retired>>
definitionVars == <<row, proof, specification, graph, snapshot>>
allVars == <<part, catalogVars, job, edits, compositionVars, definitionVars>>

NoCatalog == dated = None /\ parts = None /\ lock = None
NoComposition ==
  /\ profile = None /\ replaces = None /\ inputs = None /\ own = None /\ implied = None
  /\ frozen = None /\ post = None /\ retired = None
NoDefinitions ==
  row = None /\ proof = None /\ specification = None /\ graph = None /\ snapshot = None

AllInit ==
  \/ /\ part = "datasets" /\ DatasetCatalog!Init
     /\ NoComposition /\ NoDefinitions /\ edits = None
  \/ /\ part = "profiles" /\ ProfileCatalog!Init
     /\ NoComposition /\ NoDefinitions /\ edits = None
  \/ /\ part = "composition" /\ Composition!Init
     /\ NoCatalog /\ NoDefinitions /\ job = None
  \/ /\ part = "definitions" /\ Init
     /\ NoCatalog /\ NoComposition /\ status = None

AllNext ==
  /\ UNCHANGED part
  /\ \/ /\ part = "datasets" /\ DatasetCatalog!Next
        /\ UNCHANGED <<compositionVars, definitionVars, edits>>
     \/ /\ part = "profiles" /\ ProfileCatalog!Next
        /\ UNCHANGED <<compositionVars, definitionVars, edits>>
     \/ /\ part = "composition" /\ Composition!Next
        /\ UNCHANGED <<dated, parts, lock, job, definitionVars>>
     \/ /\ part = "definitions" /\ Next
        /\ UNCHANGED <<catalogVars, compositionVars>>

AllSpec == AllInit /\ [][AllNext]_allVars

(* Workers and revisions are the same model values, of different parts. *)
Interchangeable == Permutations({spec, second}) \cup Permutations(Revisions)

-----------------------------------------------------------------------------
(* The variables have their types. *)
TypesOK ==
  /\ part = "datasets" => DatasetCatalog!TypeOK
  /\ part = "profiles" => ProfileCatalog!TypeOK
  /\ part = "composition" => Composition!TypeOK
  /\ part = "definitions" => TypeOK

(* TechnicalCatalog: what was published rests on what was published. *)
RestsOnPublished ==
  /\ part = "datasets" => DatasetCatalog!RestsOnPublished
  /\ part = "profiles" => ProfileCatalog!RestsOnPublished

(* TechnicalCatalog: the flows of a published profile supply what its       *)
(* indicators require.                                                      *)
InputsAreSupplied == part = "profiles" => ProfileCatalog!InputsAreSupplied

(* TechnicalCatalog: no indicator is calculated from itself. *)
Acyclic == part = "datasets" => DatasetCatalog!Acyclic

(* RevisionComposition: what an approved revision has frozen can be         *)
(* calculated.                                                              *)
FrozenIsCoherent == part = "composition" => Composition!FrozenIsCoherent

(* RevisionComposition: the rows of an approved revision are those it froze. *)
RowsAreFrozen == part = "composition" => Composition!RowsAreFrozen

(* FormalDefinitions: a published version is defined as it was proved. *)
ProofsStand == part = "definitions" => PublishedProofStands

(* TechnicalCatalog: a version that has left the draft keeps its parts. *)
FrozenOncePublished ==
  [][ /\ part = "datasets" => DatasetCatalog!Frozen
      /\ part = "profiles" => ProfileCatalog!Frozen ]_allVars

(* TechnicalCatalog: what is read under a lock is still published when the  *)
(* publication commits.                                                     *)
PublishedOverPublished ==
  [][ /\ part = "datasets" => DatasetCatalog!OverPublished
      /\ part = "profiles" => ProfileCatalog!OverPublished ]_allVars

(* CatalogImport: what an import creates is what its package says. *)
ImportedAsPackaged == [][part = "definitions" => ImportIsThePackage]_allVars

=============================================================================
