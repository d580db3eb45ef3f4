--------------------------- MODULE Catalogue_proofs ---------------------------
(***************************************************************************)
(* The theorems of the technical catalogue, about the four parts that      *)
(* MCCatalogue puts side by side, for any constants of each.               *)
(*                                                                         *)
(* The two catalogues are TechnicalCatalog_proofs with their own           *)
(* constants: what is proved there of every catalogue is cited here.  The  *)
(* composition of revisions and the formal definitions with the import     *)
(* have their invariants below.                                            *)
(***************************************************************************)
EXTENDS MCCatalogue, TLAPS

Datasets == INSTANCE TechnicalCatalog_proofs WITH
  Versions <- DatasetVersions, Kind <- KindOf, Formal <- FormalVersions,
  Workers <- CatalogWorkers

Services == INSTANCE TechnicalCatalog_proofs WITH
  Versions <- ProfileVersions, Kind <- KindOf, Formal <- {}

-----------------------------------------------------------------------------
(***************************************************************************)
(* TechnicalCatalog is instantiated by MCCatalogue, and by its proofs: the *)
(* definitions are the same, word for word.                                *)
(***************************************************************************)
LEMMA DatasetAssumption == DatasetCatalog!CatalogAssumption => Datasets!CatalogAssumption
  BY DEF DatasetCatalog!CatalogAssumption, Datasets!CatalogAssumption, DatasetCatalog!Kinds,
     Datasets!Kinds

LEMMA DatasetInit == DatasetCatalog!Init => Datasets!Init
  BY DEF DatasetCatalog!Idle, Datasets!Idle, DatasetCatalog!Init, Datasets!Init

LEMMA DatasetNext == DatasetCatalog!Next => Datasets!Next
  BY DEF DatasetCatalog!Abort, Datasets!Abort, DatasetCatalog!After, Datasets!After,
     DatasetCatalog!BeginDelete, Datasets!BeginDelete, DatasetCatalog!BeginLink,
     Datasets!BeginLink, DatasetCatalog!BeginPublish, Datasets!BeginPublish,
     DatasetCatalog!Change, Datasets!Change, DatasetCatalog!ChangeFlow, Datasets!ChangeFlow,
     DatasetCatalog!ChangeProfile, Datasets!ChangeProfile, DatasetCatalog!CloneIndicator,
     Datasets!CloneIndicator, DatasetCatalog!CommitDelete, Datasets!CommitDelete,
     DatasetCatalog!CommitLink, Datasets!CommitLink, DatasetCatalog!CommitPublish,
     Datasets!CommitPublish, DatasetCatalog!Complete, Datasets!Complete, DatasetCatalog!Copy,
     Datasets!Copy, DatasetCatalog!CreateFlow, Datasets!CreateFlow,
     DatasetCatalog!CreateIndicator, Datasets!CreateIndicator,
     DatasetCatalog!CreateOrchestration, Datasets!CreateOrchestration,
     DatasetCatalog!CreateProfile, Datasets!CreateProfile, DatasetCatalog!CreateRule,
     Datasets!CreateRule, DatasetCatalog!CreateSpecification, Datasets!CreateSpecification,
     DatasetCatalog!Deprecate, Datasets!Deprecate, DatasetCatalog!DuplicateProfile,
     Datasets!DuplicateProfile, DatasetCatalog!Editable, Datasets!Editable,
     DatasetCatalog!Explored, Datasets!Explored, DatasetCatalog!Field, Datasets!Field,
     DatasetCatalog!Finish, Datasets!Finish, DatasetCatalog!FlowOfProfile,
     Datasets!FlowOfProfile, DatasetCatalog!Free, Datasets!Free, DatasetCatalog!FreeOrMine,
     Datasets!FreeOrMine, DatasetCatalog!GraphOf, Datasets!GraphOf, DatasetCatalog!HasBindings,
     Datasets!HasBindings, DatasetCatalog!HasEvents, Datasets!HasEvents, DatasetCatalog!Idle,
     Datasets!Idle, DatasetCatalog!IndicatorOfProfile, Datasets!IndicatorOfProfile,
     DatasetCatalog!Indicators, Datasets!Indicators, DatasetCatalog!InputOfIndicator,
     Datasets!InputOfIndicator, DatasetCatalog!Is, Datasets!Is, DatasetCatalog!Lifecycle,
     Datasets!Lifecycle, DatasetCatalog!Link, Datasets!Link, DatasetCatalog!Linkable,
     Datasets!Linkable, DatasetCatalog!LinkableToIndicator, Datasets!LinkableToIndicator,
     DatasetCatalog!LinkableToProfile, Datasets!LinkableToProfile,
     DatasetCatalog!LinkableToSpecification, Datasets!LinkableToSpecification,
     DatasetCatalog!Locked, Datasets!Locked, DatasetCatalog!LockedForDeletion,
     Datasets!LockedForDeletion, DatasetCatalog!LockedForFlow, Datasets!LockedForFlow,
     DatasetCatalog!LockedForIndicator, Datasets!LockedForIndicator,
     DatasetCatalog!LockedForProfile, Datasets!LockedForProfile, DatasetCatalog!LockedRead,
     Datasets!LockedRead, DatasetCatalog!New, Datasets!New, DatasetCatalog!Next, Datasets!Next,
     DatasetCatalog!OrchestrationOfProfile, Datasets!OrchestrationOfProfile,
     DatasetCatalog!Prerequisite, Datasets!Prerequisite, DatasetCatalog!Protected,
     Datasets!Protected, DatasetCatalog!Reaches, Datasets!Reaches, DatasetCatalog!ReadPart,
     Datasets!ReadPart, DatasetCatalog!Referred, Datasets!Referred, DatasetCatalog!Relation,
     Datasets!Relation, DatasetCatalog!Released, Datasets!Released,
     DatasetCatalog!RuleOfIndicator, Datasets!RuleOfIndicator,
     DatasetCatalog!RuleOfSpecification, Datasets!RuleOfSpecification,
     DatasetCatalog!SpecificationOfFlow, Datasets!SpecificationOfFlow, DatasetCatalog!Supplied,
     Datasets!Supplied, DatasetCatalog!Taken, Datasets!Taken, DatasetCatalog!Unlink,
     Datasets!Unlink, DatasetCatalog!Withdraw, Datasets!Withdraw,
     DatasetCatalog!WouldCreateCycle, Datasets!WouldCreateCycle

LEMMA DatasetTypes == Datasets!TypeOK => DatasetCatalog!TypeOK
  BY DEF DatasetCatalog!Holders, Datasets!Holders, DatasetCatalog!Idle, Datasets!Idle,
     DatasetCatalog!Lifecycle, Datasets!Lifecycle, DatasetCatalog!TypeOK, Datasets!TypeOK

LEMMA DatasetRests == Datasets!RestsOnPublished => DatasetCatalog!RestsOnPublished
  BY DEF DatasetCatalog!RestsOnPublished, Datasets!RestsOnPublished

LEMMA DatasetFrozen == Datasets!Frozen => DatasetCatalog!Frozen
  BY DEF DatasetCatalog!After, Datasets!After, DatasetCatalog!Frozen, Datasets!Frozen,
     DatasetCatalog!Lifecycle, Datasets!Lifecycle

LEMMA DatasetOverPublished == Datasets!OverPublished => DatasetCatalog!OverPublished
  BY DEF DatasetCatalog!Field, Datasets!Field, DatasetCatalog!Is, Datasets!Is,
     DatasetCatalog!OrchestrationOfProfile, Datasets!OrchestrationOfProfile,
     DatasetCatalog!OverPublished, Datasets!OverPublished, DatasetCatalog!Published,
     Datasets!Published, DatasetCatalog!SpecificationOfFlow, Datasets!SpecificationOfFlow,
     DatasetCatalog!Steady, Datasets!Steady

LEMMA DatasetAcyclic == Datasets!Acyclic => DatasetCatalog!Acyclic
  BY DEF DatasetCatalog!Acyclic, Datasets!Acyclic, DatasetCatalog!Indicators, Datasets!Indicators,
     DatasetCatalog!Is, Datasets!Is, DatasetCatalog!Reaches, Datasets!Reaches

LEMMA ServiceAssumption == ProfileCatalog!CatalogAssumption => Services!CatalogAssumption
  BY DEF ProfileCatalog!CatalogAssumption, Services!CatalogAssumption, ProfileCatalog!Kinds,
     Services!Kinds

LEMMA ServiceInit == ProfileCatalog!Init => Services!Init
  BY DEF ProfileCatalog!Idle, Services!Idle, ProfileCatalog!Init, Services!Init

LEMMA ServiceNext == ProfileCatalog!Next => Services!Next
  BY DEF ProfileCatalog!Abort, Services!Abort, ProfileCatalog!After, Services!After,
     ProfileCatalog!BeginDelete, Services!BeginDelete, ProfileCatalog!BeginLink,
     Services!BeginLink, ProfileCatalog!BeginPublish, Services!BeginPublish,
     ProfileCatalog!Change, Services!Change, ProfileCatalog!ChangeFlow, Services!ChangeFlow,
     ProfileCatalog!ChangeProfile, Services!ChangeProfile, ProfileCatalog!CloneIndicator,
     Services!CloneIndicator, ProfileCatalog!CommitDelete, Services!CommitDelete,
     ProfileCatalog!CommitLink, Services!CommitLink, ProfileCatalog!CommitPublish,
     Services!CommitPublish, ProfileCatalog!Complete, Services!Complete, ProfileCatalog!Copy,
     Services!Copy, ProfileCatalog!CreateFlow, Services!CreateFlow,
     ProfileCatalog!CreateIndicator, Services!CreateIndicator,
     ProfileCatalog!CreateOrchestration, Services!CreateOrchestration,
     ProfileCatalog!CreateProfile, Services!CreateProfile, ProfileCatalog!CreateRule,
     Services!CreateRule, ProfileCatalog!CreateSpecification, Services!CreateSpecification,
     ProfileCatalog!Deprecate, Services!Deprecate, ProfileCatalog!DuplicateProfile,
     Services!DuplicateProfile, ProfileCatalog!Editable, Services!Editable,
     ProfileCatalog!Explored, Services!Explored, ProfileCatalog!Field, Services!Field,
     ProfileCatalog!Finish, Services!Finish, ProfileCatalog!FlowOfProfile,
     Services!FlowOfProfile, ProfileCatalog!Free, Services!Free, ProfileCatalog!FreeOrMine,
     Services!FreeOrMine, ProfileCatalog!GraphOf, Services!GraphOf, ProfileCatalog!HasBindings,
     Services!HasBindings, ProfileCatalog!HasEvents, Services!HasEvents, ProfileCatalog!Idle,
     Services!Idle, ProfileCatalog!IndicatorOfProfile, Services!IndicatorOfProfile,
     ProfileCatalog!Indicators, Services!Indicators, ProfileCatalog!InputOfIndicator,
     Services!InputOfIndicator, ProfileCatalog!Is, Services!Is, ProfileCatalog!Lifecycle,
     Services!Lifecycle, ProfileCatalog!Link, Services!Link, ProfileCatalog!Linkable,
     Services!Linkable, ProfileCatalog!LinkableToIndicator, Services!LinkableToIndicator,
     ProfileCatalog!LinkableToProfile, Services!LinkableToProfile,
     ProfileCatalog!LinkableToSpecification, Services!LinkableToSpecification,
     ProfileCatalog!Locked, Services!Locked, ProfileCatalog!LockedForDeletion,
     Services!LockedForDeletion, ProfileCatalog!LockedForFlow, Services!LockedForFlow,
     ProfileCatalog!LockedForIndicator, Services!LockedForIndicator,
     ProfileCatalog!LockedForProfile, Services!LockedForProfile, ProfileCatalog!LockedRead,
     Services!LockedRead, ProfileCatalog!New, Services!New, ProfileCatalog!Next, Services!Next,
     ProfileCatalog!OrchestrationOfProfile, Services!OrchestrationOfProfile,
     ProfileCatalog!Prerequisite, Services!Prerequisite, ProfileCatalog!Protected,
     Services!Protected, ProfileCatalog!Reaches, Services!Reaches, ProfileCatalog!ReadPart,
     Services!ReadPart, ProfileCatalog!Referred, Services!Referred, ProfileCatalog!Relation,
     Services!Relation, ProfileCatalog!Released, Services!Released,
     ProfileCatalog!RuleOfIndicator, Services!RuleOfIndicator,
     ProfileCatalog!RuleOfSpecification, Services!RuleOfSpecification,
     ProfileCatalog!SpecificationOfFlow, Services!SpecificationOfFlow, ProfileCatalog!Supplied,
     Services!Supplied, ProfileCatalog!Taken, Services!Taken, ProfileCatalog!Unlink,
     Services!Unlink, ProfileCatalog!Withdraw, Services!Withdraw,
     ProfileCatalog!WouldCreateCycle, Services!WouldCreateCycle

LEMMA ServiceTypes == Services!TypeOK => ProfileCatalog!TypeOK
  BY DEF ProfileCatalog!Holders, Services!Holders, ProfileCatalog!Idle, Services!Idle,
     ProfileCatalog!Lifecycle, Services!Lifecycle, ProfileCatalog!TypeOK, Services!TypeOK

LEMMA ServiceRests == Services!RestsOnPublished => ProfileCatalog!RestsOnPublished
  BY DEF ProfileCatalog!RestsOnPublished, Services!RestsOnPublished

LEMMA ServiceFrozen == Services!Frozen => ProfileCatalog!Frozen
  BY DEF ProfileCatalog!After, Services!After, ProfileCatalog!Frozen, Services!Frozen,
     ProfileCatalog!Lifecycle, Services!Lifecycle

LEMMA ServiceOverPublished == Services!OverPublished => ProfileCatalog!OverPublished
  BY DEF ProfileCatalog!Field, Services!Field, ProfileCatalog!Is, Services!Is,
     ProfileCatalog!OrchestrationOfProfile, Services!OrchestrationOfProfile,
     ProfileCatalog!OverPublished, Services!OverPublished, ProfileCatalog!Published,
     Services!Published, ProfileCatalog!SpecificationOfFlow, Services!SpecificationOfFlow,
     ProfileCatalog!Steady, Services!Steady

LEMMA ServiceSupplies == Services!InputsAreSupplied => ProfileCatalog!InputsAreSupplied
  BY DEF ProfileCatalog!Indicators, Services!Indicators, ProfileCatalog!InputsAreSupplied,
     Services!InputsAreSupplied, ProfileCatalog!Is, Services!Is, ProfileCatalog!Reaches,
     Services!Reaches, ProfileCatalog!Supplied, Services!Supplied

-----------------------------------------------------------------------------
(***************************************************************************)
(* The composition of revisions: the rows of each draft, those of posted   *)
(* forms, and the snapshots of the approved ones.                          *)
(***************************************************************************)
Decided(r) == status[r] \in {"approved", "withdrawn"}

RowsTyped ==
  /\ status \in [Revisions -> {"none", "draft", "approved", "withdrawn"}]
  /\ profile \in [Revisions -> Profiles \cup {None}]
  /\ replaces \in [Revisions -> Revisions \cup {None}]
  /\ inputs \in [Revisions -> SUBSET Composition!InputLinks]
  /\ own \in [Revisions -> Composition!RowsOf(Composition!IndicatorLinks)]
  /\ implied \in [Revisions -> Composition!RowsOf(Choices)]
  /\ frozen \in [Revisions -> Composition!Snapshots \cup {None}]
  /\ post # None => /\ post.of \in Revisions
                    /\ post.read \in Composition!RowsOf(Composition!IndicatorLinks)
  /\ retired \subseteq Retirable
  /\ edits \in 0 .. MaxChanges

\* A revision that is there has a profile, and one decided a snapshot.
ColumnsOK ==
  \A r \in Revisions :
    /\ status[r] # "none" => profile[r] \in Profiles
    /\ (frozen[r] = None) <=> (status[r] \in {"none", "draft"})

CompositionInv ==
  /\ RowsTyped
  /\ ColumnsOK
  /\ Composition!FrozenIsCoherent
  /\ Composition!RowsAreFrozen

LEMMA RowsAreFunctions ==
  ASSUME NEW S, NEW f \in Composition!RowsOf(S)
  PROVE  /\ DOMAIN f \subseteq S
         /\ f \in [DOMAIN f -> Values]
         /\ Composition!Range(f) \subseteq Values
  BY DEF Composition!RowsOf, Composition!Range

LEMMA FunctionsAreRows ==
  ASSUME NEW S, NEW D \in SUBSET S, NEW f \in [D -> Values]
  PROVE  f \in Composition!RowsOf(S)
  BY DEF Composition!RowsOf

LEMMA RestrictedRows ==
  ASSUME NEW S, NEW f \in Composition!RowsOf(S), NEW T
  PROVE  Composition!Restricted(f, T) \in Composition!RowsOf(S)
<1>1. f \in [DOMAIN f -> Values] /\ DOMAIN f \cap T \in SUBSET S
  BY RowsAreFunctions
<1>2. Composition!Restricted(f, T) \in [DOMAIN f \cap T -> Values]
  BY <1>1 DEF Composition!Restricted
<1>3. QED
  BY <1>1, <1>2, FunctionsAreRows

LEMMA ExtendedRows ==
  ASSUME NEW S, NEW f \in Composition!RowsOf(S), NEW x \in S, NEW value \in Values
  PROVE  Composition!Extended(f, x, value) \in Composition!RowsOf(S)
<1>1. f \in [DOMAIN f -> Values] /\ DOMAIN f \cup {x} \in SUBSET S
  BY RowsAreFunctions
<1>2. Composition!Extended(f, x, value) \in [DOMAIN f \cup {x} -> Values]
  BY <1>1 DEF Composition!Extended
<1>3. QED
  BY <1>1, <1>2, FunctionsAreRows

\* A row whose value is changed, and the draft of a proposal.
LEMMA ChangedRows ==
  ASSUME NEW S, NEW f \in Composition!RowsOf(S), NEW x, NEW value \in Values
  PROVE  [f EXCEPT ![x] = value] \in Composition!RowsOf(S)
<1>1. f \in [DOMAIN f -> Values] /\ DOMAIN f \in SUBSET S
  BY RowsAreFunctions
<1>2. [f EXCEPT ![x] = value] \in [DOMAIN f -> Values]
  BY <1>1
<1>3. QED
  BY <1>1, <1>2, FunctionsAreRows

LEMMA NoRowsAreRows == ASSUME NEW S PROVE Composition!NoRows \in Composition!RowsOf(S)
<1>1. {} \in SUBSET S /\ Composition!NoRows \in [{} -> Values]
  BY DEF Composition!NoRows
<1>2. QED
  BY <1>1, FunctionsAreRows

LEMMA OfferedRows ==
  ASSUME NEW p \in Profiles, NEW T \in SUBSET Choices, T \subseteq Offer[p]
  PROVE  Composition!Of(p, T) \subseteq Composition!IndicatorLinks
  BY DEF Composition!Of, Composition!IndicatorLinks

\* The closure of a selection holds it and all it requires.
LEMMA ClosureHolds ==
  ASSUME NEW S \in SUBSET Choices
  PROVE  /\ S \subseteq Composition!Closure(S)
         /\ Composition!Closure(S) \in SUBSET Choices
         /\ \A v \in Composition!Closure(S) : Needs[v] \subseteq Composition!Closure(S)
<1>1. Needs \in [Choices -> SUBSET Choices]
  BY CompositionsAssumption DEF Composition!CompositionAssumption
<1>2. S \subseteq Composition!Closure(S) /\ Composition!Closure(S) \in SUBSET Choices
  BY DEF Composition!Closure
<1>3. ASSUME NEW v \in Composition!Closure(S), NEW u \in Needs[v],
             NEW C \in SUBSET Choices, S \subseteq C, \A x \in C : Needs[x] \subseteq C
      PROVE  u \in C
  BY <1>3 DEF Composition!Closure
<1>4. ASSUME NEW v \in Composition!Closure(S), NEW u \in Needs[v]
      PROVE  u \in Composition!Closure(S)
  <2>1. u \in Choices
    BY <1>1, <1>2
  <2>2. QED
    BY <2>1, <1>3, <1>4 DEF Composition!Closure
<1>5. QED
  BY <1>2, <1>4

LEMMA CompositionTypes ==
  ASSUME RowsTyped, ColumnsOK
  PROVE  Composition!TypeOK
<1>1. ASSUME NEW r \in Revisions
      PROVE  /\ inputs[r] \subseteq Composition!InputLinks
             /\ DOMAIN own[r] \subseteq Composition!IndicatorLinks
             /\ Composition!Range(own[r]) \subseteq Values
             /\ DOMAIN implied[r] \subseteq Choices
             /\ Composition!Range(implied[r]) \subseteq Values
  BY <1>1, RowsAreFunctions DEF RowsTyped
<1>2. QED
  BY <1>1 DEF RowsTyped, ColumnsOK, Composition!TypeOK

LEMMA EditTyped == ASSUME RowsTyped, Composition!Edit PROVE edits' \in 0 .. MaxChanges
  BY CompositionsAssumption DEF RowsTyped, Composition!Edit, Composition!CompositionAssumption

LEMMA DraftTyped ==
  ASSUME RowsTyped, ColumnsOK, NEW r \in Revisions, NEW p \in Profiles,
         NEW s \in Revisions \cup {None},
         NEW c \in Composition!RowsOf(Composition!IndicatorLinks), Composition!Draft(r, p, s, c)
  PROVE  RowsTyped' /\ ColumnsOK'
<1>1. Composition!Of(p, Composition!Mandatory(p, Proposal[p])) \subseteq Composition!InputLinks
  BY CompositionsAssumption
     DEF Composition!CompositionAssumption, Composition!Of, Composition!Mandatory,
         Composition!Candidates, Composition!InputLinks
<1>2. Composition!NoRows \in Composition!RowsOf(Choices)
  BY NoRowsAreRows
<1>3. RowsTyped'
  BY <1>1, <1>2 DEF RowsTyped, Composition!Draft
<1>4. ColumnsOK'
  BY DEF RowsTyped, ColumnsOK, Composition!Draft
<1>5. QED
  BY <1>3, <1>4

LEMMA CreateTyped ==
  ASSUME RowsTyped, ColumnsOK, NEW r \in Revisions, NEW p \in Profiles, Composition!Create(r, p)
  PROVE  RowsTyped' /\ ColumnsOK'
<1> DEFINE c == [l \in Composition!Of(p, Proposal[p]) |-> Empty]
<1>1. Proposal[p] \subseteq Offer[p] /\ Proposal[p] \in SUBSET Choices
  BY CompositionsAssumption
     DEF Composition!CompositionAssumption, Composition!Create, Composition!Draft,
         Composition!InputsResolve
<1>2. Composition!Of(p, Proposal[p]) \subseteq Composition!IndicatorLinks
  BY <1>1, OfferedRows
<1>3. c \in [Composition!Of(p, Proposal[p]) -> Values]
  BY CompositionsAssumption DEF Composition!CompositionAssumption
<1>4. c \in Composition!RowsOf(Composition!IndicatorLinks)
  BY <1>2, <1>3, FunctionsAreRows
<1>5. Composition!Draft(r, p, None, c)
  BY DEF Composition!Create
<1>6. QED
  BY <1>4, <1>5, DraftTyped

LEMMA ClonedRows ==
  ASSUME RowsTyped, NEW s \in Revisions, NEW p \in Profiles, Proposal[p] \subseteq Offer[p]
  PROVE  Composition!Cloned(s, p) \in Composition!RowsOf(Composition!IndicatorLinks)
<1> DEFINE T == Proposal[p] \cup (Composition!Chosen(s) \cap Offer[p])
           source(v) == CHOOSE l \in DOMAIN own[s] : l[2] = v
<1>1. T \subseteq Offer[p] /\ T \in SUBSET Choices
  BY CompositionsAssumption DEF Composition!CompositionAssumption
<1>2. Composition!Of(p, T) \subseteq Composition!IndicatorLinks
  BY <1>1, OfferedRows
<1>3. own[s] \in [DOMAIN own[s] -> Values] /\ Empty \in Values
  BY RowsAreFunctions, CompositionsAssumption DEF RowsTyped, Composition!CompositionAssumption
<1>4. ASSUME NEW v \in Composition!Chosen(s)
      PROVE  own[s][source(v)] \in Values
  <2>1. \E l \in DOMAIN own[s] : l[2] = v
    BY DEF Composition!Chosen, Composition!Linked
  <2>2. source(v) \in DOMAIN own[s]
    BY <2>1
  <2>3. QED
    BY <1>3, <2>2
<1>5. Composition!Cloned(s, p) \in [Composition!Of(p, T) -> Values]
  <2>1. Composition!Cloned(s, p) =
          [l \in Composition!Of(p, T) |->
             IF l[2] \in Composition!Chosen(s) THEN own[s][source(l[2])] ELSE Empty]
    BY DEF Composition!Cloned
  <2> HIDE DEF source, T
  <2>2. \A l \in Composition!Of(p, T) :
          (IF l[2] \in Composition!Chosen(s) THEN own[s][source(l[2])] ELSE Empty) \in Values
    BY <1>3, <1>4
  <2>3. QED
    BY <2>1, <2>2
<1>6. QED
  BY <1>2, <1>5, FunctionsAreRows

LEMMA ReplacementTyped ==
  ASSUME RowsTyped, ColumnsOK, NEW r \in Revisions, NEW s \in Revisions, NEW p \in Profiles,
         Composition!CreateReplacement(r, s, p)
  PROVE  RowsTyped' /\ ColumnsOK'
<1>1. Composition!Draft(r, p, s, Composition!Cloned(s, p))
  BY DEF Composition!CreateReplacement
<1>2. Proposal[p] \subseteq Offer[p]
  BY <1>1 DEF Composition!Draft, Composition!InputsResolve
<1>3. Composition!Cloned(s, p) \in Composition!RowsOf(Composition!IndicatorLinks)
  BY <1>2, ClonedRows
<1>4. QED
  BY <1>1, <1>3, DraftTyped

\* The page: what it read, and what it writes of that.
LEMMA PageTyped ==
  ASSUME RowsTyped, ColumnsOK,
         \/ \E r \in Revisions : Composition!ReadValues(r)
         \/ Composition!RefusePost
         \/ \E selection \in SUBSET Choices, requested \in SUBSET Flows :
              Composition!ReplaceConfiguration(selection, requested)
  PROVE  RowsTyped' /\ ColumnsOK'
<1>1. CASE Composition!RefusePost
  BY <1>1 DEF RowsTyped, ColumnsOK, Composition!RefusePost, Composition!rows
<1>2. ASSUME NEW r \in Revisions, Composition!ReadValues(r)
      PROVE  RowsTyped' /\ ColumnsOK'
  BY <1>2 DEF RowsTyped, ColumnsOK, Composition!ReadValues, Composition!rows
<1>3. ASSUME NEW selection \in SUBSET Choices, NEW requested \in SUBSET Flows,
             Composition!ReplaceConfiguration(selection, requested)
      PROVE  RowsTyped' /\ ColumnsOK'
  <2>1. PICK r \in Revisions : r = post.of
    BY <1>3 DEF RowsTyped, Composition!ReplaceConfiguration
  <2>2. PICK p \in Profiles : p = profile[r]
    BY <1>3, <2>1 DEF ColumnsOK, Composition!ReplaceConfiguration
  <2> DEFINE written == [l \in Composition!Of(p, selection) |->
               IF l \in DOMAIN post.read THEN post.read[l] ELSE Empty]
             chosen == Composition!Of(p, Composition!Mandatory(p, selection) \cup requested)
             kept == Composition!Restricted(implied[r], Composition!Implicit(selection))
  <2>3. selection \subseteq Offer[p] /\ requested \subseteq Inputs[p]
    BY <1>3, <2>1, <2>2 DEF Composition!ReplaceConfiguration, Composition!InputsResolve
  <2>4. chosen \in SUBSET Composition!InputLinks
    BY <2>3, CompositionsAssumption
       DEF Composition!CompositionAssumption, Composition!Of, Composition!Mandatory,
           Composition!Candidates, Composition!InputLinks
  <2>5. written \in Composition!RowsOf(Composition!IndicatorLinks)
    <3>1. post.read \in [DOMAIN post.read -> Values] /\ Empty \in Values
      BY <1>3, RowsAreFunctions, CompositionsAssumption
         DEF RowsTyped, Composition!ReplaceConfiguration, Composition!CompositionAssumption
    <3>2. Composition!Of(p, selection) \subseteq Composition!IndicatorLinks
      BY <2>3, OfferedRows
    <3>3. written \in [Composition!Of(p, selection) -> Values]
      BY <3>1
    <3>4. QED
      BY <3>2, <3>3, FunctionsAreRows
  <2>6. kept \in Composition!RowsOf(Choices)
    BY RestrictedRows DEF RowsTyped
  <2>7. /\ inputs' = [inputs EXCEPT ![r] = chosen]
        /\ own' = [own EXCEPT ![r] = written]
        /\ implied' = [implied EXCEPT ![r] = kept]
        /\ post' = None
        /\ Composition!Edit
        /\ UNCHANGED <<status, profile, replaces, frozen, retired>>
    BY <1>3, <2>1, <2>2 DEF Composition!ReplaceConfiguration
  <2> HIDE DEF written, chosen, kept
  <2>8. RowsTyped'
    BY <2>4, <2>5, <2>6, <2>7, EditTyped DEF RowsTyped
  <2>9. ColumnsOK'
    BY <2>7 DEF ColumnsOK
  <2>10. QED
    BY <2>8, <2>9
<1>4. QED
  BY <1>1, <1>2, <1>3

\* The editor of values, and the tables of the administration site.
LEMMA ValuesTyped ==
  ASSUME RowsTyped, ColumnsOK, NEW r \in Revisions, NEW v \in Choices, NEW value \in Values,
         \/ Composition!SaveValues(r, v, value)
         \/ Composition!AdminSavesIndicator(r, v, value)
         \/ Composition!AdminRemovesValues(r, v)
  PROVE  RowsTyped' /\ ColumnsOK'
<1>1. own[r] \in Composition!RowsOf(Composition!IndicatorLinks)
      /\ implied[r] \in Composition!RowsOf(Choices)
  BY DEF RowsTyped
<1>2. CASE Composition!SaveValues(r, v, value)
  <2>1. [own[r] EXCEPT ![<<profile[r], v>>] = value]
          \in Composition!RowsOf(Composition!IndicatorLinks)
    BY <1>1, ChangedRows
  <2>2. Composition!Extended(implied[r], v, value) \in Composition!RowsOf(Choices)
    BY <1>1, ExtendedRows
  <2>3. \/ own' = [own EXCEPT ![r] = [own[r] EXCEPT ![<<profile[r], v>>] = value]]
           /\ implied' = implied
        \/ implied' = [implied EXCEPT ![r] = Composition!Extended(implied[r], v, value)]
           /\ own' = own
    BY <1>2 DEF Composition!SaveValues, RowsTyped
  <2>4. own' \in [Revisions -> Composition!RowsOf(Composition!IndicatorLinks)]
        /\ implied' \in [Revisions -> Composition!RowsOf(Choices)]
    BY <2>1, <2>2, <2>3 DEF RowsTyped
  <2>5. QED
    BY <1>2, <2>4, EditTyped DEF RowsTyped, ColumnsOK, Composition!SaveValues
<1>3. CASE Composition!AdminSavesIndicator(r, v, value)
  <2>1. <<profile[r], v>> \in Composition!IndicatorLinks
    BY <1>3 DEF ColumnsOK, Composition!AdminSavesIndicator, Composition!IndicatorLinks
  <2>2. Composition!Extended(own[r], <<profile[r], v>>, value)
          \in Composition!RowsOf(Composition!IndicatorLinks)
    BY <1>1, <2>1, ExtendedRows
  <2>3. own' = [own EXCEPT ![r] = Composition!Extended(own[r], <<profile[r], v>>, value)]
    BY <1>3 DEF Composition!AdminSavesIndicator
  <2>4. QED
    BY <1>3, <2>2, <2>3, EditTyped DEF RowsTyped, ColumnsOK, Composition!AdminSavesIndicator
<1>4. CASE Composition!AdminRemovesValues(r, v)
  <2>1. Composition!Restricted(implied[r], Choices \ {v}) \in Composition!RowsOf(Choices)
    BY <1>1, RestrictedRows
  <2>2. implied' = [implied EXCEPT ![r] = Composition!Restricted(implied[r], Choices \ {v})]
    BY <1>4 DEF Composition!AdminRemovesValues
  <2>3. QED
    BY <1>4, <2>1, <2>2, EditTyped DEF RowsTyped, ColumnsOK, Composition!AdminRemovesValues
<1>5. QED
  BY <1>2, <1>3, <1>4

LEMMA FormsTyped ==
  ASSUME RowsTyped, ColumnsOK, NEW r \in Revisions,
         \/ \E p \in Profiles : Composition!AdminChangesProfile(r, p)
         \/ \E l \in Composition!InputLinks : Composition!AdminChangesInput(r, l)
         \/ \E l \in Composition!IndicatorLinks : Composition!AdminRemovesIndicator(r, l)
         \/ Composition!DeleteDraft(r)
  PROVE  RowsTyped' /\ ColumnsOK'
<1>1. ASSUME NEW p \in Profiles, Composition!AdminChangesProfile(r, p)
      PROVE  RowsTyped' /\ ColumnsOK'
  BY <1>1, EditTyped
     DEF RowsTyped, ColumnsOK, Composition!AdminChangesProfile, Composition!rows
<1>2. ASSUME NEW l \in Composition!InputLinks, Composition!AdminChangesInput(r, l)
      PROVE  RowsTyped' /\ ColumnsOK'
  <2>1. inputs' \in [Revisions -> SUBSET Composition!InputLinks]
    BY <1>2 DEF RowsTyped, Composition!AdminChangesInput
  <2>2. QED
    BY <1>2, <2>1, EditTyped DEF RowsTyped, ColumnsOK, Composition!AdminChangesInput
<1>3. ASSUME NEW l \in Composition!IndicatorLinks, Composition!AdminRemovesIndicator(r, l)
      PROVE  RowsTyped' /\ ColumnsOK'
  <2>1. Composition!Restricted(own[r], Composition!IndicatorLinks \ {l})
          \in Composition!RowsOf(Composition!IndicatorLinks)
    BY RestrictedRows DEF RowsTyped
  <2>2. own' = [own EXCEPT ![r] = Composition!Restricted(own[r], Composition!IndicatorLinks \ {l})]
    BY <1>3 DEF Composition!AdminRemovesIndicator
  <2>3. QED
    BY <1>3, <2>1, <2>2, EditTyped DEF RowsTyped, ColumnsOK, Composition!AdminRemovesIndicator
<1>4. CASE Composition!DeleteDraft(r)
  <2>1. Composition!NoRows \in Composition!RowsOf(Choices)
        /\ Composition!NoRows \in Composition!RowsOf(Composition!IndicatorLinks)
    BY NoRowsAreRows
  <2>2. QED
    BY <1>4, <2>1 DEF RowsTyped, ColumnsOK, Composition!DeleteDraft
<1>5. QED
  BY <1>1, <1>2, <1>3, <1>4

LEMMA ChosenVersions ==
  ASSUME RowsTyped, NEW r \in Revisions
  PROVE  Composition!Chosen(r) \in SUBSET Choices
<1>1. DOMAIN own[r] \subseteq Composition!IndicatorLinks
  BY RowsAreFunctions DEF RowsTyped
<1>2. QED
  BY <1>1 DEF Composition!Chosen, Composition!Linked, Composition!IndicatorLinks

\* A snapshot is made of typed rows, and None is not one.
LEMMA SnapshotTyped ==
  ASSUME RowsTyped, ColumnsOK, NEW r \in Revisions, status[r] # "none"
  PROVE  Composition!Snapshot(r) \in Composition!Snapshots
<1>1. Composition!Chosen(r) \in SUBSET Choices
  BY ChosenVersions
<1>2. Composition!Closure(Composition!Chosen(r)) \in SUBSET Choices
  BY <1>1, ClosureHolds
<1>3. QED
  BY <1>2 DEF RowsTyped, ColumnsOK, Composition!Snapshot, Composition!Snapshots

LEMMA DecisionTyped ==
  ASSUME RowsTyped, ColumnsOK,
         \/ \E r \in Revisions : Composition!Approve(r) \/ Composition!Withdraw(r)
         \/ \E x \in Retirable : Composition!Retire(x)
  PROVE  RowsTyped' /\ ColumnsOK'
<1>1. ASSUME NEW r \in Revisions, Composition!Approve(r)
      PROVE  RowsTyped' /\ ColumnsOK'
  <2>1. Composition!Snapshot(r) \in Composition!Snapshots /\ Composition!Snapshot(r) # None
    BY <1>1, SnapshotTyped, CompositionsAssumption
       DEF Composition!Approve, Composition!CompositionAssumption
  <2>2. RowsTyped'
    BY <1>1, <2>1 DEF RowsTyped, Composition!Approve, Composition!rows
  <2>3. ColumnsOK'
    BY <1>1, <2>1 DEF RowsTyped, ColumnsOK, Composition!Approve
  <2>4. QED
    BY <2>2, <2>3
<1>2. ASSUME NEW r \in Revisions, Composition!Withdraw(r)
      PROVE  RowsTyped' /\ ColumnsOK'
  BY <1>2 DEF RowsTyped, ColumnsOK, Composition!Withdraw, Composition!rows
<1>3. ASSUME NEW x \in Retirable, Composition!Retire(x)
      PROVE  RowsTyped' /\ ColumnsOK'
  BY <1>3 DEF RowsTyped, ColumnsOK, Composition!Retire, Composition!rows
<1>4. QED
  BY <1>1, <1>2, <1>3

LEMMA CompositionStepTyped ==
  ASSUME RowsTyped, ColumnsOK, Composition!Next
  PROVE  RowsTyped' /\ ColumnsOK'
  BY CreateTyped, ReplacementTyped, PageTyped, ValuesTyped, FormsTyped, DecisionTyped,
     CompositionsAssumption DEF Composition!Next, Composition!CompositionAssumption

\* A decided revision keeps its rows and its snapshot, and is decided by an
\* approval of the rows as they are.
LEMMA DecidedKeepsRows ==
  ASSUME RowsTyped, Composition!Next, NEW r \in Revisions, Decided(r)'
  PROVE  /\ UNCHANGED <<profile[r], inputs[r], own[r], implied[r]>>
         /\ \/ Composition!Approve(r)
            \/ Decided(r) /\ frozen'[r] = frozen[r]
<1>1. ASSUME NEW s \in Revisions, NEW p \in Profiles,
             Composition!Create(s, p) \/ Composition!AdminChangesProfile(s, p)
      PROVE  s # r /\ UNCHANGED <<profile[r], inputs[r], own[r], implied[r], frozen[r], status[r]>>
  BY <1>1 DEF RowsTyped, Decided, Composition!Create, Composition!Draft,
              Composition!AdminChangesProfile, Composition!rows
<1>2. ASSUME NEW s \in Revisions, NEW t \in Revisions, NEW p \in Profiles,
             Composition!CreateReplacement(s, t, p)
      PROVE  s # r /\ UNCHANGED <<profile[r], inputs[r], own[r], implied[r], frozen[r], status[r]>>
  BY <1>2 DEF RowsTyped, Decided, Composition!CreateReplacement, Composition!Draft
<1>3. ASSUME NEW selection \in SUBSET Choices, NEW requested \in SUBSET Flows,
             Composition!ReplaceConfiguration(selection, requested)
      PROVE  UNCHANGED <<profile[r], inputs[r], own[r], implied[r], frozen[r], status[r]>>
  <2>1. PICK s \in Revisions : s = post.of
    BY <1>3 DEF RowsTyped, Composition!ReplaceConfiguration
  <2>2. s # r
    BY <1>3, <2>1 DEF Decided, Composition!ReplaceConfiguration
  <2>3. QED
    BY <1>3, <2>1, <2>2 DEF RowsTyped, Composition!ReplaceConfiguration
<1>4. ASSUME Composition!RefusePost
      PROVE  UNCHANGED <<profile[r], inputs[r], own[r], implied[r], frozen[r], status[r]>>
  BY <1>4 DEF Composition!RefusePost, Composition!rows
<1>5. ASSUME NEW s \in Revisions, Composition!ReadValues(s) \/ Composition!DeleteDraft(s)
      PROVE  UNCHANGED <<profile[r], inputs[r], own[r], implied[r], frozen[r], status[r]>>
  BY <1>5 DEF RowsTyped, Decided, Composition!ReadValues, Composition!DeleteDraft, Composition!rows
<1>6. ASSUME NEW s \in Revisions, NEW v \in Choices, NEW value \in Values,
             Composition!SaveValues(s, v, value) \/ Composition!AdminSavesIndicator(s, v, value)
      PROVE  UNCHANGED <<profile[r], inputs[r], own[r], implied[r], frozen[r], status[r]>>
  BY <1>6 DEF RowsTyped, Decided, Composition!SaveValues, Composition!AdminSavesIndicator
<1>7. ASSUME NEW s \in Revisions, NEW v \in Choices, Composition!AdminRemovesValues(s, v)
      PROVE  UNCHANGED <<profile[r], inputs[r], own[r], implied[r], frozen[r], status[r]>>
  BY <1>7 DEF RowsTyped, Decided, Composition!AdminRemovesValues
<1>8. ASSUME NEW s \in Revisions, NEW l,
             Composition!AdminRemovesIndicator(s, l) \/ Composition!AdminChangesInput(s, l)
      PROVE  UNCHANGED <<profile[r], inputs[r], own[r], implied[r], frozen[r], status[r]>>
  BY <1>8 DEF RowsTyped, Decided, Composition!AdminRemovesIndicator, Composition!AdminChangesInput
<1>9. ASSUME NEW x \in Retirable, Composition!Retire(x)
      PROVE  UNCHANGED <<profile[r], inputs[r], own[r], implied[r], frozen[r], status[r]>>
  BY <1>9 DEF Composition!Retire, Composition!rows
<1>10. ASSUME NEW s \in Revisions, Composition!Withdraw(s)
       PROVE  /\ UNCHANGED <<profile[r], inputs[r], own[r], implied[r], frozen[r]>>
              /\ Decided(r)
  BY <1>10 DEF RowsTyped, Decided, Composition!Withdraw, Composition!rows
<1>11. ASSUME NEW s \in Revisions, Composition!Approve(s)
       PROVE  /\ UNCHANGED <<profile[r], inputs[r], own[r], implied[r]>>
              /\ s = r \/ UNCHANGED <<frozen[r], status[r]>>
  BY <1>11 DEF RowsTyped, Composition!Approve, Composition!rows
<1>12. QED
  BY <1>1, <1>2, <1>3, <1>4, <1>5, <1>6, <1>7, <1>8, <1>9, <1>10, <1>11
     DEF Decided, Composition!Next

\* What FrozenIsCoherent says of one snapshot.
Coherent(f) ==
  LET chosen == Composition!Linked(DOMAIN f.own)
      value(v) == IF v \in chosen THEN f.own[<<f.profile, v>>] ELSE f.implied[v]
  IN  /\ Composition!Served(f)
      /\ Composition!OneVersionEach(f.effective)
      /\ DOMAIN f.own \subseteq Composition!Of(f.profile, Choices)
      /\ f.inputs \subseteq Composition!Of(f.profile, Flows)
      /\ chosen \cap DOMAIN f.implied = {}
      /\ \A v \in f.effective : \A s \in Reads[v] :
           \E l \in f.inputs : v \in Composition!RequiredBy(f, l) /\ Supplies[l[2]] = s
      /\ \A v \in f.effective \cap Parameterised :
           v \in chosen \cup DOMAIN f.implied /\ value(v) # Empty

LEMMA CoherentSnapshots ==
  Composition!FrozenIsCoherent <=> \A r \in Revisions : Decided(r) => Coherent(frozen[r])
  BY DEF Composition!FrozenIsCoherent, Coherent, Decided

\* What the approval has checked of the rows it freezes.
LEMMA ApprovedIsCoherent ==
  ASSUME RowsTyped, NEW r \in Revisions, Composition!Sound(r), Composition!Freezable(r)
  PROVE  Coherent(Composition!Snapshot(r))
<1> DEFINE chosen == Composition!Chosen(r)
           effective == Composition!Closure(chosen)
           f == Composition!Snapshot(r)
<1>1. chosen \in SUBSET Choices
  BY ChosenVersions
<1>2. /\ chosen \subseteq effective
      /\ effective \in SUBSET Choices
      /\ \A v \in effective : Needs[v] \subseteq effective
  BY <1>1, ClosureHolds
<1>3. /\ f.profile = profile[r] /\ f.inputs = inputs[r] /\ f.own = own[r]
      /\ f.implied = implied[r] /\ f.effective = effective
      /\ f.edges = {e \in effective \X Choices : e[2] \in Needs[e[1]]}
      /\ Composition!Linked(DOMAIN f.own) = chosen
  BY DEF Composition!Snapshot, Composition!Chosen
<1> HIDE DEF f, effective, chosen
<1>4. Composition!Served(f)
  BY <1>2, <1>3 DEF Composition!Served
<1>5. Composition!OneVersionEach(f.effective)
  BY <1>3 DEF Composition!Freezable, Composition!Resolves, effective, chosen
<1>6. /\ DOMAIN f.own \subseteq Composition!Of(f.profile, Choices)
      /\ f.inputs \subseteq Composition!Of(f.profile, Flows)
  BY <1>3 DEF Composition!Sound, Composition!Of
<1>7. chosen \cap DOMAIN f.implied = {}
  BY <1>3 DEF Composition!Freezable, Composition!Implicit, chosen
<1>8. ASSUME NEW v \in f.effective, NEW s \in Reads[v]
      PROVE  \E l \in f.inputs : v \in Composition!RequiredBy(f, l) /\ Supplies[l[2]] = s
  <2>1. s \in Composition!Specifications(chosen)
    BY <1>3, <1>8 DEF Composition!Specifications, effective
  <2>2. PICK l \in f.inputs : Supplies[l[2]] = s
    BY <2>1, <1>3 DEF Composition!Freezable, chosen
  <2>3. QED
    BY <1>8, <2>2 DEF Composition!RequiredBy
<1>9. ASSUME NEW v \in f.effective \cap Parameterised
      PROVE  /\ v \in chosen \cup DOMAIN f.implied
             /\ (IF v \in chosen THEN f.own[<<f.profile, v>>] ELSE f.implied[v]) # Empty
  <2>1. Composition!ValuesOf(r, v) # Empty
    BY <1>3, <1>9 DEF Composition!Freezable, Composition!Valid, effective, chosen
  <2>2. QED
    BY <1>3, <2>1 DEF Composition!ValuesOf, chosen
<1>10. Coherent(f)
  BY <1>3, <1>4, <1>5, <1>6, <1>7, <1>8, <1>9 DEF Coherent
<1>11. QED
  BY <1>10 DEF f

LEMMA CompositionInit == Composition!Init => CompositionInv
<1> SUFFICES ASSUME Composition!Init PROVE CompositionInv
  OBVIOUS
<1>1. Composition!NoRows \in Composition!RowsOf(Choices)
      /\ Composition!NoRows \in Composition!RowsOf(Composition!IndicatorLinks)
  BY NoRowsAreRows
<1>2. RowsTyped
  BY <1>1, CompositionsAssumption
     DEF RowsTyped, Composition!Init, Composition!CompositionAssumption
<1>3. ColumnsOK
  BY DEF ColumnsOK, Composition!Init
<1>4. \A r \in Revisions : ~Decided(r)
  BY DEF Decided, Composition!Init
<1>5. QED
  BY <1>2, <1>3, <1>4, CoherentSnapshots
     DEF CompositionInv, Composition!RowsAreFrozen, Decided

LEMMA CompositionStep ==
  ASSUME CompositionInv, [Composition!Next]_(Composition!vars)
  PROVE  CompositionInv'
<1>1. CASE UNCHANGED Composition!vars
  BY <1>1 DEF CompositionInv, RowsTyped, ColumnsOK, Composition!FrozenIsCoherent,
     Composition!RowsAreFrozen, Composition!Snapshot, Composition!Chosen, Composition!vars,
     Composition!rows
<1>2. CASE Composition!Next
  <2>1. RowsTyped' /\ ColumnsOK'
    BY <1>2, CompositionStepTyped DEF CompositionInv
  <2>2. ASSUME NEW r \in Revisions, Decided(r)'
        PROVE  frozen'[r] = Composition!Snapshot(r)' /\ Coherent(frozen'[r])
    <3>1. Composition!Snapshot(r)' = Composition!Snapshot(r)
      BY <1>2, <2>2, DecidedKeepsRows DEF CompositionInv, Composition!Snapshot, Composition!Chosen
    <3>2. CASE Composition!Approve(r)
      <4>1. frozen'[r] = Composition!Snapshot(r)
        BY <3>2 DEF CompositionInv, RowsTyped, Composition!Approve
      <4>2. Coherent(Composition!Snapshot(r))
        BY <3>2, ApprovedIsCoherent DEF CompositionInv, Composition!Approve
      <4>3. QED
        BY <3>1, <4>1, <4>2
    <3>3. CASE Decided(r) /\ frozen'[r] = frozen[r]
      <4>1. Coherent(frozen[r])
        BY <3>3, CoherentSnapshots DEF CompositionInv
      <4>2. frozen[r] = Composition!Snapshot(r)
        BY <3>3 DEF CompositionInv, Composition!RowsAreFrozen, Decided
      <4>3. QED
        BY <3>1, <3>3, <4>1, <4>2
    <3>4. QED
      BY <1>2, <2>2, <3>2, <3>3, DecidedKeepsRows DEF CompositionInv
  <2>3. Composition!RowsAreFrozen'
    BY <2>2 DEF Composition!RowsAreFrozen, Decided
  <2>4. Composition!FrozenIsCoherent'
    <3>1. \A r \in Revisions : Decided(r)' => Coherent(frozen'[r])
      BY <2>2
    <3>2. QED
      BY <3>1 DEF Composition!FrozenIsCoherent, Coherent, Decided
  <2>5. QED
    BY <2>1, <2>3, <2>4 DEF CompositionInv
<1>3. QED
  BY <1>1, <1>2

-----------------------------------------------------------------------------
(***************************************************************************)
(* Formal definitions.  What a version rests on is the least set that      *)
(* holds it and is closed by the edges.                                    *)
(***************************************************************************)
Edges == [x \in Versions |-> row[x].edges]

Below(E, v) ==
  {u \in Versions : \A S \in SUBSET Versions :
     v \in S /\ (\A x \in S : E[x] \subseteq S) => u \in S}

LEMMA BelowIsLeast ==
  ASSUME NEW E \in [Versions -> SUBSET Versions], NEW v \in Versions
  PROVE  /\ v \in Below(E, v)
         /\ Below(E, v) \in SUBSET Versions
         /\ \A x \in Below(E, v) : E[x] \subseteq Below(E, v)
         /\ \A S \in SUBSET Versions :
              v \in S /\ (\A x \in S : E[x] \subseteq S) => Below(E, v) \subseteq S
<1>1. ASSUME NEW x \in Below(E, v), NEW u \in E[x]
      PROVE  u \in Below(E, v)
  <2>1. u \in Versions
    BY DEF Below
  <2>2. ASSUME NEW S \in SUBSET Versions, v \in S, \A y \in S : E[y] \subseteq S
        PROVE  u \in S
    BY <2>2 DEF Below
  <2>3. QED
    BY <2>1, <2>2 DEF Below
<1>2. QED
  BY <1>1 DEF Below

\* Edges that change elsewhere change nothing below v.
LEMMA BelowStays ==
  ASSUME NEW E \in [Versions -> SUBSET Versions], NEW F \in [Versions -> SUBSET Versions],
         NEW v \in Versions, \A u \in Below(E, v) : F[u] = E[u]
  PROVE  Below(F, v) = Below(E, v)
<1>1. Below(F, v) \subseteq Below(E, v)
  <2>1. \A x \in Below(E, v) : F[x] \subseteq Below(E, v)
    BY BelowIsLeast
  <2>2. QED
    BY <2>1, BelowIsLeast
<1>2. Below(E, v) \subseteq Below(F, v)
  <2>1. \A x \in Below(F, v) : E[x] \subseteq Below(F, v)
    BY <1>1, BelowIsLeast
  <2>2. QED
    BY <2>1, BelowIsLeast
<1>3. QED
  BY <1>1, <1>2

\* Below v is v, and what is below its edges.
LEMMA BelowUnfolds ==
  ASSUME NEW E \in [Versions -> SUBSET Versions], NEW v \in Versions, NEW u \in Below(E, v)
  PROVE  u = v \/ \E p \in E[v] : u \in Below(E, p)
<1> DEFINE S == {v} \cup UNION {Below(E, p) : p \in E[v]}
<1>1. \A p \in E[v] : p \in Versions
  OBVIOUS
<1>2. S \in SUBSET Versions /\ v \in S
  BY DEF Below
<1>3. ASSUME NEW x \in S
      PROVE  E[x] \subseteq S
  <2>1. CASE x = v
    BY <1>1, <2>1, BelowIsLeast
  <2>2. ASSUME NEW p \in E[v], x \in Below(E, p)
        PROVE  E[x] \subseteq S
    <3>1. E[x] \subseteq Below(E, p)
      BY <1>1, <2>2, BelowIsLeast
    <3>2. QED
      BY <3>1
  <2>3. QED
    BY <1>3, <2>1, <2>2
<1>4. Below(E, v) \subseteq S
  <2> HIDE DEF S
  <2>1. QED
    BY <1>2, <1>3, BelowIsLeast
<1>5. QED
  BY <1>4

\* What no version has an edge to is below itself only.
LEMMA BelowOthers ==
  ASSUME NEW E \in [Versions -> SUBSET Versions], NEW v \in Versions, NEW x \in Versions,
         x # v, \A u \in Versions : x \notin E[u]
  PROVE  x \notin Below(E, v)
<1> DEFINE S == Below(E, v) \ {x}
<1>1. S \in SUBSET Versions /\ v \in S
  BY BelowIsLeast
<1>2. \A y \in S : E[y] \subseteq S
  BY BelowIsLeast
<1>3. Below(E, v) \subseteq S
  <2> HIDE DEF S
  <2>1. QED
    BY <1>1, <1>2, BelowIsLeast
<1>4. QED
  BY <1>3

(***************************************************************************)
(* The rows, the proofs and the requests on them.                          *)
(***************************************************************************)
RowRecords ==
  [status : {"none", "draft", "published", "retired"},
   text : (UNION {Texts[v] : v \in Versions}) \cup {None}, edges : SUBSET Versions]

SpecificationRecords ==
  [status : {"none", "draft", "published"},
   text : {0, 1} \cup {PackageSpecs[s].text : s \in Described}, dataset : Names]

DefinitionsTyped ==
  /\ row \in [Versions -> RowRecords]
  /\ DOMAIN proof = Versions
  /\ specification \in [Specs -> SpecificationRecords]
  /\ graph \in Workers \cup {None}
  /\ DOMAIN job = Workers
  /\ \A w \in Workers : DOMAIN job[w] = DOMAIN Idle

\* No edge leads to a version that is gone, and a proof is of versions.
GraphOK ==
  \A v \in Versions :
    /\ v \in Present => row[v].text \in Texts[v]
    /\ row[v].status = "none" => row[v].edges = {}
    /\ row[v].edges \subseteq Present
    /\ proof[v] # None => DOMAIN proof[v].records \subseteq Versions

\* What v rests on is defined as its proof says.
Proved(v) ==
  \A u \in Closure(v) :
    /\ u \in DOMAIN proof[v].records
    /\ proof[v].records[u].text = row[u].text
    /\ proof[v].records[u].edges = row[u].edges

Settled(v) == row[v].status \in {"published", "retired"}

\* What is published is proved, and rests on what was published.
Standing ==
  \A v \in Versions : row[v].status = "published" =>
    Proved(v) /\ \A u \in Closure(v) : Settled(u)

\* A publication keeps the proof it compared: it holds the graph.
PublicationsOK ==
  \A w \in Workers : job[w].pc = "publish" =>
    graph = w /\ \E v \in Present : v = job[w].v /\ Proved(v)

\* What an import found is as its package says until it commits, or deleted.
ImportsOK ==
  \A w \in Workers : job[w].pc = "import" =>
    /\ graph = w
    /\ job[w].todo \subseteq Packaged
    /\ job[w].specs \subseteq Described
    /\ \A u \in Packaged \ job[w].todo : row[u].status = "none" \/ SameVersion(u)

DefinitionsInv ==
  /\ DefinitionsTyped
  /\ GraphOK
  /\ Standing
  /\ PublicationsOK
  /\ ImportsOK

LEMMA EdgesTyped == ASSUME DefinitionsTyped PROVE Edges \in [Versions -> SUBSET Versions]
  BY DEF DefinitionsTyped, RowRecords, Edges

LEMMA ClosureIsBelow == ASSUME NEW v \in Versions PROVE Closure(v) = Below(Edges, v)
<1>1. ASSUME NEW S \in SUBSET Versions
      PROVE  (\A x \in S : row[x].edges \subseteq S) <=> (\A x \in S : Edges[x] \subseteq S)
  BY DEF Edges
<1>2. QED
  BY <1>1 DEF Closure, Least, Below

\* A job that is not idle, or begins, is a record of the same fields.
LEMMA JobFields ==
  ASSUME DefinitionsTyped, NEW w \in Workers
  PROVE  /\ Idle.pc = "idle"
         /\ \A p, v : [Idle EXCEPT !.pc = p, !.v = v].pc = p
                      /\ [Idle EXCEPT !.pc = p, !.v = v].v = v
  BY DEF Idle

\* Editing a version, as its form, the edges and the import do.
LEMMA EditorsTyped ==
  ASSUME DefinitionsTyped, GraphOK, NEW v \in Versions,
         \/ \E text \in Texts[v] : CreateVersion(v, text) \/ SaveVersion(v, text)
         \/ \E p \in Versions : AddEdge(v, p) \/ RemoveEdge(v, p)
         \/ DeleteVersion(v) \/ VerifyDefinition(v) \/ Retire(v)
  PROVE  DefinitionsTyped' /\ GraphOK'
<1>1. ASSUME NEW text \in Texts[v], CreateVersion(v, text)
      PROVE  DefinitionsTyped' /\ GraphOK'
  <2>1. [Absent EXCEPT !.status = "draft", !.text = text] \in RowRecords
        /\ [Absent EXCEPT !.status = "draft", !.text = text].status = "draft"
        /\ [Absent EXCEPT !.status = "draft", !.text = text].text = text
        /\ [Absent EXCEPT !.status = "draft", !.text = text].edges = {}
    BY DEF Absent, RowRecords
  <2>2. DefinitionsTyped'
    BY <1>1, <2>1 DEF DefinitionsTyped, CreateVersion
  <2>3. GraphOK'
    BY <1>1, <2>1 DEF DefinitionsTyped, GraphOK, CreateVersion, Present
  <2>4. QED
    BY <2>2, <2>3
<1>2. ASSUME NEW text \in Texts[v], SaveVersion(v, text)
      PROVE  DefinitionsTyped' /\ GraphOK'
  BY <1>2 DEF DefinitionsTyped, RowRecords, GraphOK, SaveVersion, Editable, Present
<1>3. ASSUME NEW p \in Versions, AddEdge(v, p)
      PROVE  DefinitionsTyped' /\ GraphOK'
  BY <1>3 DEF DefinitionsTyped, RowRecords, GraphOK, AddEdge, Editable, Present
<1>4. ASSUME NEW p \in Versions, RemoveEdge(v, p)
      PROVE  DefinitionsTyped' /\ GraphOK'
  BY <1>4 DEF DefinitionsTyped, RowRecords, GraphOK, RemoveEdge, Editable, Present
<1>5. CASE DeleteVersion(v)
  <2>1. Absent \in RowRecords /\ Absent.status = "none" /\ Absent.edges = {}
    BY DEF Absent, RowRecords
  <2>2. DefinitionsTyped'
    BY <1>5, <2>1 DEF DefinitionsTyped, DeleteVersion
  <2>3. GraphOK'
    BY <1>5, <2>1 DEF DefinitionsTyped, GraphOK, DeleteVersion, Present
  <2>4. QED
    BY <2>2, <2>3
<1>6. CASE VerifyDefinition(v)
  <2>1. PICK limited : proof' = [proof EXCEPT ![v] = Proof(Definitions(v), limited)]
    BY <1>6 DEF VerifyDefinition
  <2>2. DOMAIN Proof(Definitions(v), limited).records \subseteq Versions
    BY DEF Proof, Records, Definitions, WithContext, Least
  <2> HIDE DEF Proof
  <2>3. DefinitionsTyped'
    BY <1>6, <2>1 DEF DefinitionsTyped, VerifyDefinition
  <2>4. GraphOK'
    BY <1>6, <2>1, <2>2 DEF DefinitionsTyped, GraphOK, VerifyDefinition, Present
  <2>5. QED
    BY <2>3, <2>4
<1>7. CASE Retire(v)
  BY <1>7 DEF DefinitionsTyped, RowRecords, GraphOK, Retire, Present
<1>8. QED
  BY <1>1, <1>2, <1>3, <1>4, <1>5, <1>6, <1>7

LEMMA SpecificationsTyped ==
  ASSUME DefinitionsTyped, GraphOK, NEW s \in Specs,
         \/ CreateSpecification(s) \/ PublishSpecification(s)
         \/ \E n \in {0, 1} : SaveSpecification(s, n)
         \/ \E name \in Names : RenameDataset(s, name)
  PROVE  DefinitionsTyped' /\ GraphOK'
  BY DEF DefinitionsTyped, SpecificationRecords, GraphOK, Present, CreateSpecification,
         PublishSpecification, SaveSpecification, RenameDataset

LEMMA RequestsTyped ==
  ASSUME DefinitionsTyped, GraphOK, PublicationsOK, NEW w \in Workers,
         \/ \E v \in Versions : BeginPublish(w, v) \/ ReadDefinitions(w, v)
         \/ CommitPublish(w) \/ BeginApprove(w) \/ ReadState(w) \/ CommitApprove(w) \/ Abort(w)
         \/ PlanCatalog(w)
  PROVE  DefinitionsTyped' /\ GraphOK'
<1>1. \/ row' = row
      \/ \E v \in Present : row' = [row EXCEPT ![v].status = "published"]
  BY DEF BeginPublish, ReadDefinitions, CommitPublish, BeginApprove, ReadState, CommitApprove,
         Abort, PlanCatalog, PublicationsOK
<1>2. /\ row' \in [Versions -> RowRecords]
      /\ DOMAIN proof' = Versions
      /\ specification' \in [Specs -> SpecificationRecords]
      /\ GraphOK'
  <2>1. proof' = proof /\ specification' = specification
    BY DEF BeginPublish, ReadDefinitions, CommitPublish, BeginApprove, ReadState,
           CommitApprove, Abort, PlanCatalog
  <2>2. CASE row' = row
    BY <2>1, <2>2 DEF DefinitionsTyped, GraphOK, Present
  <2>3. ASSUME NEW v \in Present, row' = [row EXCEPT ![v].status = "published"]
        PROVE  row' \in [Versions -> RowRecords] /\ GraphOK'
    BY <2>1, <2>3 DEF DefinitionsTyped, RowRecords, GraphOK, Present
  <2>4. QED
    BY <1>1, <2>1, <2>2, <2>3 DEF DefinitionsTyped
<1>3. graph' \in Workers \cup {None}
  BY DEF DefinitionsTyped, BeginPublish, ReadDefinitions, CommitPublish, BeginApprove,
         ReadState, CommitApprove, Abort, PlanCatalog, PlanLocks
<1>4. DOMAIN job' = Workers
  BY DEF DefinitionsTyped, BeginPublish, ReadDefinitions, CommitPublish, BeginApprove,
         ReadState, CommitApprove, Abort, PlanCatalog
<1>5. \A u \in Workers : DOMAIN job'[u] = DOMAIN Idle
  <2>1. CASE CommitPublish(w) \/ CommitApprove(w) \/ Abort(w)
    BY <2>1 DEF DefinitionsTyped, CommitPublish, CommitApprove, Abort
  <2>2. CASE BeginApprove(w) \/ PlanCatalog(w) \/ \E v \in Versions : BeginPublish(w, v)
    <3>1. /\ \A S : DOMAIN [Idle EXCEPT !.pc = "approve", !.todo = S] = DOMAIN Idle
          /\ \A v : DOMAIN [Idle EXCEPT !.pc = "publish", !.v = v] = DOMAIN Idle
          /\ \A S, T : DOMAIN [Idle EXCEPT !.pc = "import", !.todo = S, !.specs = T] = DOMAIN Idle
      BY DEF Idle
    <3>2. DOMAIN job'[w] = DOMAIN Idle /\ \A u \in Workers \ {w} : job'[u] = job[u]
      BY <2>2, <3>1 DEF DefinitionsTyped, BeginApprove, PlanCatalog, BeginPublish
    <3>3. QED
      BY <3>2 DEF DefinitionsTyped
  <2>3. CASE ReadState(w)
    BY <2>3 DEF DefinitionsTyped, Idle, ReadState
  <2>4. CASE \E v \in Versions : ReadDefinitions(w, v)
    BY <2>4 DEF DefinitionsTyped, Idle, ReadDefinitions
  <2>5. QED
    BY <2>1, <2>2, <2>3, <2>4
<1>6. QED
  BY <1>2, <1>3, <1>4, <1>5 DEF DefinitionsTyped

LEMMA CreatedTyped ==
  ASSUME NEW v \in Packaged
  PROVE  /\ Created(v) \in RowRecords
         /\ Created(v).status = "draft"
         /\ Created(v).text = Package[v].text /\ Package[v].text \in Texts[v]
         /\ Created(v).edges = Package[v].edges /\ Package[v].edges \subseteq Packaged
         /\ v \in Versions /\ Packaged \subseteq Versions
  BY PackageAssumption DEF PackageAssumption, Created, RowRecords

LEMMA ImportTyped ==
  ASSUME DefinitionsTyped, GraphOK, ImportsOK, NEW w \in Workers, CommitImport(w)
  PROVE  DefinitionsTyped' /\ GraphOK'
<1>1. PICK create \in SUBSET Packaged : create = job[w].todo
  BY DEF ImportsOK, CommitImport
<1>2. PICK specs \in SUBSET Described : specs = job[w].specs
  BY DEF ImportsOK, CommitImport
<1>3. /\ row' = [v \in Versions |-> IF v \in create THEN Created(v) ELSE row[v]]
      /\ specification' = [s \in Specs |->
           IF s \in specs
           THEN [status |-> "draft", text |-> PackageSpecs[s].text,
                 dataset |-> PackageSpecs[s].dataset]
           ELSE specification[s]]
      /\ \A v \in create : row[v].status = "none"
      /\ \A v \in create, p \in Versions :
           p \in Package[v].edges => row'[p].status \in {"draft", "published"}
      /\ proof' = [v \in Versions |-> IF v \in create THEN Verified(v)' ELSE proof[v]]
      /\ graph' = None
      /\ job' = [job EXCEPT ![w] = Idle]
  BY <1>1, <1>2 DEF CommitImport
<1>4. row' \in [Versions -> RowRecords]
  BY <1>3, CreatedTyped DEF DefinitionsTyped
<1>5. specification' \in [Specs -> SpecificationRecords]
  <2>1. \A s \in specs :
          [status |-> "draft", text |-> PackageSpecs[s].text, dataset |-> PackageSpecs[s].dataset]
            \in SpecificationRecords
    BY <1>2, PackageAssumption DEF PackageAssumption, SpecificationRecords
  <2>2. QED
    BY <1>3, <2>1 DEF DefinitionsTyped
<1>6. DefinitionsTyped'
  BY <1>3, <1>4, <1>5 DEF DefinitionsTyped
<1>7. \A v \in create : DOMAIN (Verified(v)').records \subseteq Versions
  BY DEF Verified, Proof, Records, WithContext, Least
<1>8. ASSUME NEW v \in Versions
      PROVE  /\ row'[v].status # "none" => row'[v].text \in Texts[v]
             /\ row'[v].status = "none" => row'[v].edges = {}
             /\ \A p \in row'[v].edges : p \in Versions /\ row'[p].status # "none"
             /\ proof'[v] # None => DOMAIN proof'[v].records \subseteq Versions
  <2>1. CASE v \in create
    <3>1. /\ row'[v] = Created(v) /\ proof'[v] = Verified(v)'
      BY <1>3, <2>1
    <3>2. \A p \in row'[v].edges : p \in Versions /\ row'[p].status # "none"
      BY <1>3, <2>1, <3>1, CreatedTyped
    <3>3. QED
      BY <1>7, <2>1, <3>1, <3>2, CreatedTyped
  <2>2. CASE v \notin create
    <3>1. row'[v] = row[v] /\ proof'[v] = proof[v]
      BY <1>3, <2>2
    <3>2. \A p \in row[v].edges : p \in Versions /\ row[p].status # "none"
      BY DEF GraphOK, Present
    <3>3. \A p \in row[v].edges : row'[p].status # "none"
      BY <1>3, <3>2
    <3>4. QED
      BY <3>1, <3>2, <3>3 DEF GraphOK, Present
  <2>3. QED
    BY <2>1, <2>2
<1>9. GraphOK'
  BY <1>8 DEF GraphOK, Present
<1>10. QED
  BY <1>6, <1>9

(***************************************************************************)
(* What a step leaves alone.                                               *)
(***************************************************************************)
\* What was published is not written any more but to be retired.
LEMMA SettledStays ==
  ASSUME DefinitionsInv, Next, NEW u \in Versions, Settled(u)
  PROVE  /\ row'[u].text = row[u].text /\ row'[u].edges = row[u].edges
         /\ Settled(u)'
         /\ proof'[u] = proof[u]
<1>0. /\ DefinitionsTyped /\ row[u].status \in {"published", "retired"}
  BY DEF DefinitionsInv, Settled
<1>1. ASSUME NEW v \in Versions,
             \/ \E text \in Texts[v] : CreateVersion(v, text) \/ SaveVersion(v, text)
             \/ \E p \in Versions : AddEdge(v, p) \/ RemoveEdge(v, p)
             \/ DeleteVersion(v) \/ VerifyDefinition(v)
      PROVE  row'[u] = row[u] /\ proof'[u] = proof[u]
  <2>1. row[v].status \in {"none", "draft"}
    BY <1>1 DEF CreateVersion, SaveVersion, AddEdge, RemoveEdge, DeleteVersion,
                VerifyDefinition, Editable
  <2>2. u # v
    BY <1>0, <2>1
  <2>3. QED
    BY <1>0, <1>1, <2>2
       DEF DefinitionsTyped, CreateVersion, SaveVersion, AddEdge, RemoveEdge, DeleteVersion,
           VerifyDefinition
<1>2. ASSUME NEW v \in Versions, Retire(v)
      PROVE  row'[u].text = row[u].text /\ row'[u].edges = row[u].edges /\ Settled(u)'
             /\ proof'[u] = proof[u]
  BY <1>0, <1>2 DEF DefinitionsTyped, RowRecords, Retire, Settled
<1>3. ASSUME NEW s \in Specs,
             \/ CreateSpecification(s) \/ PublishSpecification(s)
             \/ \E n \in {0, 1} : SaveSpecification(s, n)
             \/ \E name \in Names : RenameDataset(s, name)
      PROVE  row' = row /\ proof' = proof
  BY <1>3 DEF CreateSpecification, PublishSpecification, SaveSpecification, RenameDataset
<1>4. ASSUME NEW w \in Workers,
             \/ \E v \in Versions : BeginPublish(w, v) \/ ReadDefinitions(w, v)
             \/ BeginApprove(w) \/ ReadState(w) \/ CommitApprove(w) \/ Abort(w) \/ PlanCatalog(w)
      PROVE  row' = row /\ proof' = proof
  BY <1>4 DEF BeginPublish, ReadDefinitions, BeginApprove, ReadState, CommitApprove, Abort,
              PlanCatalog
<1>5. ASSUME NEW w \in Workers, CommitPublish(w)
      PROVE  row'[u].text = row[u].text /\ row'[u].edges = row[u].edges /\ Settled(u)'
             /\ proof'[u] = proof[u]
  BY <1>0, <1>5 DEF DefinitionsInv, DefinitionsTyped, RowRecords, PublicationsOK, Present,
                    CommitPublish, Settled
<1>6. ASSUME NEW w \in Workers, CommitImport(w)
      PROVE  row'[u] = row[u] /\ proof'[u] = proof[u]
  <2>1. u \notin job[w].todo
    BY <1>0, <1>6 DEF CommitImport
  <2>2. QED
    BY <1>6, <2>1 DEF CommitImport
<1>7. QED
  BY <1>0, <1>1, <1>2, <1>3, <1>4, <1>5, <1>6 DEF Settled, Next, FormalNext

\* While a request holds the graph nobody else writes a version or a proof:
\* versions can only be deleted, if nothing refers to them.
LEMMA GraphGuards ==
  ASSUME DefinitionsInv, Next, NEW w \in Workers, graph = w, job'[w] = job[w],
         job[w].pc \in {"publish", "import"}
  PROVE  /\ graph' = w
         /\ \/ row' = row /\ proof' = proof
            \/ \E v \in Versions : DeleteVersion(v)
<1>0. graph # None
  BY NoneAssumption DEF NoneAssumption
<1>1. ASSUME NEW v \in Versions,
             \/ \E text \in Texts[v] : CreateVersion(v, text) \/ SaveVersion(v, text)
             \/ \E p \in Versions : AddEdge(v, p) \/ RemoveEdge(v, p)
             \/ VerifyDefinition(v) \/ Retire(v)
      PROVE  FALSE
  BY <1>0, <1>1 DEF CreateVersion, SaveVersion, AddEdge, RemoveEdge, VerifyDefinition, Retire,
                    Editable
<1>2. ASSUME NEW s \in Specs,
             \/ CreateSpecification(s) \/ PublishSpecification(s)
             \/ \E n \in {0, 1} : SaveSpecification(s, n)
             \/ \E name \in Names : RenameDataset(s, name)
      PROVE  row' = row /\ proof' = proof /\ graph' = graph
  BY <1>2 DEF CreateSpecification, PublishSpecification, SaveSpecification, RenameDataset
<1>3. ASSUME NEW u \in Workers,
             \/ \E v \in Versions : ReadDefinitions(u, v)
             \/ BeginApprove(u) \/ ReadState(u) \/ CommitApprove(u)
      PROVE  row' = row /\ proof' = proof /\ graph' = graph
  BY <1>3 DEF ReadDefinitions, BeginApprove, ReadState, CommitApprove
<1>4. ASSUME NEW u \in Workers,
             PlanCatalog(u) \/ \E v \in Versions : BeginPublish(u, v)
      PROVE  FALSE
  BY <1>0, <1>4 DEF BeginPublish, PlanCatalog, PlanLocks, Editable
<1>5. ASSUME NEW u \in Workers, Abort(u) \/ CommitPublish(u) \/ CommitImport(u)
      PROVE  row' = row /\ proof' = proof /\ graph' = graph
  <2>1. job'[u] = Idle /\ Idle.pc = "idle"
    BY <1>5 DEF DefinitionsInv, DefinitionsTyped, Abort, CommitPublish, CommitImport, Idle
  <2>2. u # w
    BY <2>1
  <2>3. Abort(u)
    BY <1>5, <2>2 DEF DefinitionsInv, PublicationsOK, ImportsOK, CommitPublish, CommitImport
  <2>4. QED
    BY <2>2, <2>3 DEF Abort
<1>6. ASSUME NEW v \in Versions, DeleteVersion(v)
      PROVE  graph' = graph
  BY <1>6 DEF DeleteVersion
<1>7. QED
  BY <1>1, <1>2, <1>3, <1>4, <1>5, <1>6 DEF Next, FormalNext

(***************************************************************************)
(* The invariant after a step.                                             *)
(***************************************************************************)
LEMMA ClosureIsBelowNext == ASSUME NEW v \in Versions PROVE Closure(v)' = Below(Edges', v)
<1>1. ASSUME NEW S \in SUBSET Versions
      PROVE  (\A x \in S : row'[x].edges \subseteq S) <=> (\A x \in S : (Edges')[x] \subseteq S)
  BY DEF Edges
<1>2. QED
  BY <1>1 DEF Closure, Least, Below

LEMMA ProvedStays ==
  ASSUME DefinitionsTyped, DefinitionsTyped', NEW v \in Versions, Proved(v),
         proof'[v] = proof[v],
         \A u \in Closure(v) : row'[u].text = row[u].text /\ row'[u].edges = row[u].edges
  PROVE  Closure(v)' = Closure(v) /\ Proved(v)'
<1>1. Edges \in [Versions -> SUBSET Versions] /\ Edges' \in [Versions -> SUBSET Versions]
  BY DEF DefinitionsTyped, RowRecords, Edges
<1>2. \A u \in Closure(v) : u \in Versions
  BY DEF Closure, Least
<1>3. \A u \in Below(Edges, v) : (Edges')[u] = Edges[u]
  BY <1>2, ClosureIsBelow DEF Edges
<1>4. Below(Edges', v) = Below(Edges, v)
  BY <1>1, <1>3, BelowStays
<1>5. Closure(v)' = Closure(v)
  BY <1>4, ClosureIsBelow, ClosureIsBelowNext
<1>6. QED
  BY <1>5 DEF Proved

LEMMA ClosureHasItself == ASSUME DefinitionsTyped, NEW v \in Versions PROVE v \in Closure(v)
  BY ClosureIsBelow, EdgesTyped, BelowIsLeast

\* A version becomes published by the commit of its publication only.
LEMMA PublishedByCommit ==
  ASSUME DefinitionsInv, Next, NEW v \in Versions, row'[v].status = "published",
         row[v].status # "published"
  PROVE  \E w \in Workers : CommitPublish(w) /\ v = job[w].v
<1>0. DefinitionsTyped
  BY DEF DefinitionsInv
<1>1. ASSUME NEW u \in Versions,
             \/ \E text \in Texts[u] : CreateVersion(u, text) \/ SaveVersion(u, text)
             \/ \E p \in Versions : AddEdge(u, p) \/ RemoveEdge(u, p)
             \/ DeleteVersion(u) \/ VerifyDefinition(u) \/ Retire(u)
      PROVE  FALSE
  <2>1. ASSUME NEW text, CreateVersion(u, text) \/ SaveVersion(u, text)
        PROVE  FALSE
    <3>1. [Absent EXCEPT !.status = "draft", !.text = text].status = "draft"
      BY DEF Absent
    <3>2. QED
      <4>1. CASE CreateVersion(u, text)
        BY <1>0, <3>1, <4>1 DEF DefinitionsTyped, CreateVersion
      <4>2. CASE SaveVersion(u, text)
        BY <1>0, <4>2 DEF DefinitionsTyped, RowRecords, SaveVersion
      <4>3. QED
        BY <2>1, <4>1, <4>2
  <2>2. ASSUME NEW p, AddEdge(u, p) \/ RemoveEdge(u, p)
        PROVE  FALSE
    BY <1>0, <2>2 DEF DefinitionsTyped, RowRecords, AddEdge, RemoveEdge
  <2>3. CASE DeleteVersion(u)
    <3>1. Absent.status = "none"
      BY DEF Absent
    <3>2. QED
      BY <1>0, <2>3, <3>1 DEF DefinitionsTyped, RowRecords, DeleteVersion
  <2>4. CASE VerifyDefinition(u) \/ Retire(u)
    BY <1>0, <2>4 DEF DefinitionsTyped, RowRecords, VerifyDefinition, Retire
  <2>5. QED
    BY <1>1, <2>1, <2>2, <2>3, <2>4
<1>2. ASSUME NEW s \in Specs,
             \/ CreateSpecification(s) \/ PublishSpecification(s)
             \/ \E n \in {0, 1} : SaveSpecification(s, n)
             \/ \E name \in Names : RenameDataset(s, name)
      PROVE  FALSE
  BY <1>2 DEF CreateSpecification, PublishSpecification, SaveSpecification, RenameDataset
<1>3. ASSUME NEW w \in Workers,
             \/ \E u \in Versions : BeginPublish(w, u) \/ ReadDefinitions(w, u)
             \/ BeginApprove(w) \/ ReadState(w) \/ CommitApprove(w) \/ Abort(w) \/ PlanCatalog(w)
      PROVE  FALSE
  BY <1>3 DEF BeginPublish, ReadDefinitions, BeginApprove, ReadState, CommitApprove, Abort,
              PlanCatalog
<1>4. ASSUME NEW w \in Workers, CommitPublish(w)
      PROVE  v = job[w].v
  BY <1>0, <1>4 DEF DefinitionsTyped, CommitPublish
<1>5. ASSUME NEW w \in Workers, CommitImport(w)
      PROVE  FALSE
  BY <1>5 DEF CommitImport, Created
<1>6. QED
  BY <1>1, <1>2, <1>3, <1>4, <1>5 DEF Next, FormalNext

LEMMA StandingStep ==
  ASSUME DefinitionsInv, DefinitionsTyped', Next
  PROVE  Standing'
<1>0. DefinitionsTyped /\ Standing
  BY DEF DefinitionsInv
<1>1. ASSUME NEW v \in Versions, row'[v].status = "published"
      PROVE  Proved(v)' /\ \A u \in Closure(v)' : Settled(u)'
  <2>0. \A u \in Closure(v) : u \in Versions
    BY DEF Closure, Least
  <2>1. CASE row[v].status = "published"
    <3>1. Proved(v) /\ \A u \in Closure(v) : Settled(u)
      BY <1>0, <2>1 DEF Standing
    <3>2. \A u \in Closure(v) : /\ Settled(u)'
                                /\ row'[u].text = row[u].text /\ row'[u].edges = row[u].edges
      BY <2>0, <3>1, SettledStays
    <3>3. proof'[v] = proof[v]
      BY <2>1, SettledStays DEF Settled
    <3>4. QED
      BY <1>0, <3>1, <3>2, <3>3, ProvedStays
  <2>2. CASE row[v].status # "published"
    <3>1. PICK w \in Workers : CommitPublish(w) /\ v = job[w].v
      BY <1>1, <2>2, PublishedByCommit
    <3>2. Proved(v)
      BY <3>1 DEF DefinitionsInv, PublicationsOK, CommitPublish
    <3>3. /\ proof' = proof
          /\ \A u \in Versions : row'[u].text = row[u].text /\ row'[u].edges = row[u].edges
          /\ \A p \in row[v].edges : row[p].status = "published"
      BY <1>0, <3>1 DEF DefinitionsTyped, RowRecords, CommitPublish
    <3>4. Closure(v)' = Closure(v) /\ Proved(v)'
      BY <1>0, <2>0, <3>2, <3>3, ProvedStays
    <3>5. ASSUME NEW u \in Closure(v)
          PROVE  Settled(u)'
      <4>1. u = v \/ \E p \in row[v].edges : u \in Below(Edges, p)
        <5>1. u \in Below(Edges, v)
          BY ClosureIsBelow
        <5>2. QED
          BY <1>0, <5>1, EdgesTyped, BelowUnfolds DEF Edges
      <4>2. ASSUME NEW p \in row[v].edges, u \in Below(Edges, p)
            PROVE  Settled(u)'
        <5>1. p \in Versions
          BY <1>0 DEF DefinitionsTyped, RowRecords
        <5>2. Settled(u)
          BY <1>0, <3>3, <4>2, <5>1, ClosureIsBelow DEF Standing
        <5>3. QED
          BY <2>0, <5>2, SettledStays
      <4>3. QED
        BY <1>1, <4>1, <4>2 DEF Settled
    <3>6. QED
      BY <3>4, <3>5
  <2>3. QED
    BY <2>1, <2>2
<1>2. QED
  BY <1>1 DEF Standing

\* A proof that is current is of what the version rests on.
LEMMA CurrentIsProved ==
  ASSUME DefinitionsTyped, NEW v \in Versions, RequireCurrent(v)
  PROVE  Proved(v)
<1>1. Records(Definitions(v)) = proof[v].records
  BY DEF RequireCurrent, VerificationState
<1>2. Closure(v) \subseteq Definitions(v)
  BY DEF Closure, Definitions, WithContext, Least
<1>3. \A u \in Closure(v) : u \in DOMAIN Records(Definitions(v))
                            /\ Records(Definitions(v))[u] = Record(u)
  BY <1>2 DEF Records
<1>4. \A u : Record(u).text = row[u].text /\ Record(u).edges = row[u].edges
  BY DEF Record
<1>5. QED
  BY <1>1, <1>3, <1>4 DEF Proved

\* A request that publishes or imports after a step did so before, or begins.
LEMMA BegunOrUnderWay ==
  ASSUME DefinitionsTyped, Next, NEW w \in Workers, job'[w].pc \in {"publish", "import"}
  PROVE  \/ job'[w] = job[w]
         \/ PlanCatalog(w)
         \/ \E v \in Versions : BeginPublish(w, v)
<1>1. ASSUME NEW u \in Workers,
             \/ BeginApprove(u) \/ ReadState(u) \/ CommitApprove(u)
             \/ \E v \in Versions : ReadDefinitions(u, v)
             \/ CommitPublish(u) \/ Abort(u) \/ CommitImport(u)
      PROVE  u # w /\ job'[w] = job[w]
  <2>1. CASE \/ BeginApprove(u) \/ CommitApprove(u) \/ CommitPublish(u) \/ Abort(u)
             \/ CommitImport(u)
    <3>1. PICK q : job' = [job EXCEPT ![u] = q] /\ q.pc \in {"idle", "approve"}
      <4>1. CASE BeginApprove(u)
        <5>1. PICK S : job' = [job EXCEPT ![u] = [Idle EXCEPT !.pc = "approve", !.todo = S]]
          BY <4>1 DEF BeginApprove
        <5>2. [Idle EXCEPT !.pc = "approve", !.todo = S].pc = "approve"
          BY DEF Idle
        <5>3. QED
          BY <5>1, <5>2
      <4>2. CASE CommitApprove(u) \/ CommitPublish(u) \/ Abort(u) \/ CommitImport(u)
        <5>1. job' = [job EXCEPT ![u] = Idle]
          BY <4>2 DEF CommitApprove, CommitPublish, Abort, CommitImport
        <5>2. Idle.pc = "idle"
          BY DEF Idle
        <5>3. QED
          BY <5>1, <5>2
      <4>3. QED
        BY <2>1, <4>1, <4>2
    <3>2. QED
      BY <3>1 DEF DefinitionsTyped
  <2>2. ASSUME NEW v \in Versions, ReadDefinitions(u, v)
        PROVE  u # w /\ job'[w] = job[w]
    <3>1. job'[u].pc = "state"
      BY <2>2 DEF DefinitionsTyped, Idle, ReadDefinitions
    <3>2. QED
      BY <2>2, <3>1 DEF DefinitionsTyped, ReadDefinitions
  <2>3. CASE ReadState(u)
    <3>1. job'[u].pc = "approve"
      BY <2>3 DEF DefinitionsTyped, Idle, ReadState
    <3>2. QED
      BY <2>3, <3>1 DEF DefinitionsTyped, ReadState
  <2>4. QED
    BY <1>1, <2>1, <2>2, <2>3
<1>2. ASSUME NEW u \in Workers, u # w, PlanCatalog(u) \/ \E v \in Versions : BeginPublish(u, v)
      PROVE  job'[w] = job[w]
  BY <1>2 DEF DefinitionsTyped, PlanCatalog, BeginPublish
<1>3. ASSUME NEW v \in Versions,
             \/ \E text \in Texts[v] : CreateVersion(v, text) \/ SaveVersion(v, text)
             \/ \E p \in Versions : AddEdge(v, p) \/ RemoveEdge(v, p)
             \/ DeleteVersion(v) \/ VerifyDefinition(v) \/ Retire(v)
      PROVE  job' = job
  BY <1>3 DEF CreateVersion, SaveVersion, AddEdge, RemoveEdge, DeleteVersion, VerifyDefinition,
              Retire
<1>4. ASSUME NEW s \in Specs,
             \/ CreateSpecification(s) \/ PublishSpecification(s)
             \/ \E n \in {0, 1} : SaveSpecification(s, n)
             \/ \E name \in Names : RenameDataset(s, name)
      PROVE  job' = job
  BY <1>4 DEF CreateSpecification, PublishSpecification, SaveSpecification, RenameDataset
<1>5. QED
  BY <1>1, <1>2, <1>3, <1>4 DEF Next, FormalNext

LEMMA PublicationsStep ==
  ASSUME DefinitionsInv, DefinitionsTyped', Next
  PROVE  PublicationsOK'
<1>0. DefinitionsTyped
  BY DEF DefinitionsInv
<1>1. ASSUME NEW w \in Workers, job'[w].pc = "publish"
      PROVE  graph' = w /\ \E v \in Present' : v = job'[w].v /\ Proved(v)'
  <2>1. CASE job'[w] = job[w]
    <3>1. PICK v \in Present : v = job[w].v /\ Proved(v)
      BY <1>1, <2>1 DEF DefinitionsInv, PublicationsOK
    <3>2. graph = w /\ Proved(v) /\ v \in Versions
      BY <1>1, <2>1, <3>1 DEF DefinitionsInv, PublicationsOK, Present
    <3>3. graph' = w /\ ((row' = row /\ proof' = proof) \/ \E x \in Versions : DeleteVersion(x))
      BY <1>1, <2>1, <3>2, GraphGuards
    <3>4. v \in Present' /\ Proved(v)'
      <4>1. CASE row' = row /\ proof' = proof
        BY <1>0, <3>2, <4>1, ProvedStays DEF Present
      <4>2. ASSUME NEW x \in Versions, DeleteVersion(x)
            PROVE  v \in Present' /\ Proved(v)'
        <5>1. x # v /\ \A u \in Versions : x \notin Edges[u]
          BY <3>1, <4>2 DEF DeleteVersion, Edges
        <5>2. x \notin Closure(v)
          BY <1>0, <3>2, <5>1, BelowOthers, EdgesTyped, ClosureIsBelow
        <5>3. \A u \in Versions \ {x} : row'[u] = row[u] /\ proof'[u] = proof[u]
          BY <1>0, <4>2 DEF DefinitionsTyped, DeleteVersion
        <5>4. \A u \in Closure(v) : row'[u] = row[u]
          BY <5>2, <5>3 DEF Closure, Least
        <5>5. Proved(v)'
          BY <1>0, <3>2, <5>1, <5>3, <5>4, ProvedStays
        <5>6. QED
          BY <3>1, <5>1, <5>3, <5>5 DEF Present
      <4>3. QED
        BY <3>3, <4>1, <4>2
    <3>5. QED
      BY <2>1, <3>1, <3>3, <3>4
  <2>2. ASSUME NEW v \in Versions, BeginPublish(w, v)
        PROVE  graph' = w /\ \E u \in Present' : u = job'[w].v /\ Proved(u)'
    <3>1. /\ graph' = w /\ row' = row /\ proof' = proof /\ v \in Present
          /\ RequireCurrent(v)
      BY <2>2 DEF BeginPublish, Editable, Publishable, Present
    <3>2. job'[w].v = v
      BY <1>0, <2>2 DEF DefinitionsTyped, BeginPublish, Idle
    <3>3. Proved(v)'
      BY <1>0, <3>1, CurrentIsProved, ProvedStays
    <3>4. QED
      BY <3>1, <3>2, <3>3 DEF Present
  <2>3. ~PlanCatalog(w)
    <3>1. PlanCatalog(w) => job'[w].pc = "import"
      BY <1>0 DEF DefinitionsTyped, PlanCatalog, Idle
    <3>2. QED
      BY <1>1, <3>1
  <2>4. QED
    BY <1>0, <1>1, <2>1, <2>2, <2>3, BegunOrUnderWay
<1>2. QED
  BY <1>1 DEF PublicationsOK

LEMMA ImportsStep ==
  ASSUME DefinitionsInv, Next
  PROVE  ImportsOK'
<1>0. DefinitionsTyped
  BY DEF DefinitionsInv
<1>1. ASSUME NEW w \in Workers, job'[w].pc = "import"
      PROVE  /\ graph' = w
             /\ job'[w].todo \subseteq Packaged
             /\ job'[w].specs \subseteq Described
             /\ \A u \in Packaged \ job'[w].todo : row'[u].status = "none" \/ SameVersion(u)'
  <2>1. CASE job'[w] = job[w]
    <3>1. /\ graph = w /\ job[w].todo \subseteq Packaged /\ job[w].specs \subseteq Described
          /\ \A u \in Packaged \ job[w].todo : row[u].status = "none" \/ SameVersion(u)
      BY <1>1, <2>1 DEF DefinitionsInv, ImportsOK
    <3>2. graph' = w /\ ((row' = row /\ proof' = proof) \/ \E x \in Versions : DeleteVersion(x))
      BY <1>1, <2>1, <3>1, GraphGuards
    <3>3. \A u \in Versions : row'[u] = row[u] \/ row'[u].status = "none"
      BY <1>0, <3>2 DEF DefinitionsTyped, DeleteVersion, Absent
    <3>4. Packaged \subseteq Versions
      BY PackageAssumption DEF PackageAssumption
    <3>5. QED
      BY <2>1, <3>1, <3>2, <3>3, <3>4 DEF SameVersion
  <2>2. CASE PlanCatalog(w)
    <3>1. job'[w].todo = Packaged \ Present /\ job'[w].specs = Missing
      BY <1>0, <2>2 DEF DefinitionsTyped, PlanCatalog, Idle
    <3>2. graph' = w /\ row' = row /\ \A u \in Packaged \cap Present : SameVersion(u)
      BY <2>2 DEF PlanCatalog, PlanLocks
    <3>3. QED
      BY <3>1, <3>2 DEF SameVersion, Missing
  <2>3. ~\E v \in Versions : BeginPublish(w, v)
    BY <1>0, <1>1 DEF DefinitionsTyped, BeginPublish, Idle
  <2>4. QED
    BY <1>0, <1>1, <2>1, <2>2, <2>3, BegunOrUnderWay
<1>2. QED
  BY <1>1 DEF ImportsOK

LEMMA DefinitionsInit == Init => DefinitionsInv
<1> SUFFICES ASSUME Init PROVE DefinitionsInv
  OBVIOUS
<1>1. Absent \in RowRecords /\ Absent.status = "none" /\ Absent.edges = {}
  BY DEF Absent, RowRecords
<1>2. PICK dataset \in Names :
        specification = [s \in Specs |-> [status |-> "none", text |-> 0, dataset |-> dataset]]
  BY DEF Init, FormalInit
<1>3. specification \in [Specs -> SpecificationRecords]
  BY <1>2 DEF SpecificationRecords
<1>4. DefinitionsTyped
  BY <1>1, <1>3 DEF Init, FormalInit, DefinitionsTyped
<1>5. GraphOK
  BY <1>1 DEF Init, FormalInit, GraphOK, Present
<1>6. Standing
  BY <1>1 DEF Init, FormalInit, Standing
<1>7. PublicationsOK /\ ImportsOK
  <2>1. \A w \in Workers : job[w].pc = "idle"
    BY DEF Init, FormalInit, Idle
  <2>2. QED
    BY <2>1 DEF PublicationsOK, ImportsOK
<1>8. QED
  BY <1>4, <1>5, <1>6, <1>7 DEF DefinitionsInv

LEMMA DefinitionsStep ==
  ASSUME DefinitionsInv, [Next]_formalVars
  PROVE  DefinitionsInv'
<1>1. CASE UNCHANGED formalVars
  BY <1>1 DEF DefinitionsInv, DefinitionsTyped, GraphOK, Present, Standing, Proved, Settled,
     Closure, Least, PublicationsOK, ImportsOK, SameVersion, formalVars
<1>2. CASE Next
  <2>1. DefinitionsTyped' /\ GraphOK'
    BY <1>2, EditorsTyped, SpecificationsTyped, RequestsTyped, ImportTyped
       DEF DefinitionsInv, Next, FormalNext
  <2>2. QED
    BY <1>2, <2>1, StandingStep, PublicationsStep, ImportsStep DEF DefinitionsInv
<1>3. QED
  BY <1>1, <1>2

\* The types TLC checks, and the promise.
LEMMA DefinitionsTypes ==
  ASSUME DefinitionsInv
  PROVE  TypeOK /\ PublishedProofStands
<1>1. ASSUME NEW s \in Specs
      PROVE  specification[s].status \in {"none", "draft", "published"}
             /\ specification[s].dataset \in Names
  BY DEF DefinitionsInv, DefinitionsTyped, SpecificationRecords
<1>2. ASSUME NEW v \in Versions
      PROVE  row[v].status \in {"none", "draft", "published", "retired"}
  BY DEF DefinitionsInv, DefinitionsTyped, RowRecords
<1>3. TypeOK
  BY <1>1, <1>2 DEF DefinitionsInv, DefinitionsTyped, GraphOK, PublicationsOK, ImportsOK, TypeOK
<1>4. PublishedProofStands
  BY DEF DefinitionsInv, Standing, Proved, PublishedProofStands
<1>5. QED
  BY <1>3, <1>4

\* What an import has created, at its commit.
LEMMA ImportStep ==
  ASSUME DefinitionsInv, [Next]_formalVars
  PROVE  ImportIsThePackage
<1>0. DefinitionsTyped
  BY DEF DefinitionsInv
<1>1. ASSUME NEW w \in Workers, Imported(w)
      PROVE  CommitImport(w)
  <2>1. /\ Next /\ job[w].pc = "import" /\ job'[w] # job[w] /\ row' # row
    BY <1>1 DEF Imported, formalVars
  <2>2. graph = w /\ graph # None
    BY <2>1, NoneAssumption DEF DefinitionsInv, ImportsOK, NoneAssumption
  <2>3. ASSUME NEW v \in Versions,
               \/ \E text \in Texts[v] : CreateVersion(v, text) \/ SaveVersion(v, text)
               \/ \E p \in Versions : AddEdge(v, p) \/ RemoveEdge(v, p)
               \/ DeleteVersion(v) \/ VerifyDefinition(v) \/ Retire(v)
        PROVE  FALSE
    BY <2>1, <2>3 DEF CreateVersion, SaveVersion, AddEdge, RemoveEdge, DeleteVersion,
                      VerifyDefinition, Retire
  <2>4. ASSUME NEW s \in Specs,
               \/ CreateSpecification(s) \/ PublishSpecification(s)
               \/ \E n \in {0, 1} : SaveSpecification(s, n)
               \/ \E name \in Names : RenameDataset(s, name)
        PROVE  FALSE
    BY <2>1, <2>4 DEF CreateSpecification, PublishSpecification, SaveSpecification, RenameDataset
  <2>5. ASSUME NEW u \in Workers,
               \/ \E v \in Versions : BeginPublish(u, v) \/ ReadDefinitions(u, v)
               \/ BeginApprove(u) \/ ReadState(u) \/ CommitApprove(u) \/ Abort(u)
               \/ PlanCatalog(u)
        PROVE  FALSE
    BY <2>1, <2>5 DEF BeginPublish, ReadDefinitions, BeginApprove, ReadState, CommitApprove,
                      Abort, PlanCatalog
  <2>6. ASSUME NEW u \in Workers, CommitPublish(u)
        PROVE  FALSE
    <3>1. u # w
      BY <2>1, <2>6 DEF CommitPublish
    <3>2. QED
      BY <2>1, <2>6, <3>1 DEF CommitPublish
  <2>7. ASSUME NEW u \in Workers, CommitImport(u)
        PROVE  u = w
    BY <2>1, <2>7 DEF CommitImport
  <2>8. QED
    BY <2>1, <2>3, <2>4, <2>5, <2>6, <2>7 DEF Next, FormalNext
<1>2. ASSUME NEW w \in Workers, CommitImport(w), NEW v \in job[w].todo, NEW u \in Packaged,
             u \in DOMAIN proof'[v].records
      PROVE  /\ row'[u].text = Package[u].text /\ row'[u].edges = Package[u].edges
             /\ proof'[v].records[u].text = Package[u].text
             /\ DOMAIN proof'[v].records \subseteq Packaged
  <2>1. PICK create \in SUBSET Packaged : create = job[w].todo
    BY <1>2 DEF DefinitionsInv, ImportsOK, CommitImport
  <2>2. /\ row' = [x \in Versions |-> IF x \in create THEN Created(x) ELSE row[x]]
        /\ \A x \in create : Verifiable(x)'
        /\ proof' = [x \in Versions |-> IF x \in create THEN Verified(x)' ELSE proof[x]]
    BY <1>2, <2>1 DEF CommitImport
  <2>3. /\ Packaged \subseteq Versions
        /\ \A x \in Packaged : Package[x].edges \subseteq Packaged
    BY PackageAssumption DEF PackageAssumption
  <2>4. \A x \in Packaged :
          row'[x].status = "none" \/ (row'[x].text = Package[x].text /\ row'[x].edges = Package[x].edges)
    <3>1. \A x \in Packaged \ create :
            row[x].status = "none" \/ (row[x].text = Package[x].text /\ row[x].edges = Package[x].edges)
      BY <1>2, <2>1 DEF DefinitionsInv, ImportsOK, CommitImport, SameVersion
    <3>2. QED
      BY <2>2, <2>3, <3>1, CreatedTyped
  <2>5. \A x \in Packaged : row'[x].edges \subseteq Packaged
    <3>1. \A x \in Packaged : row'[x].status = "none" => row'[x].edges = {}
      BY <2>2, <2>3, CreatedTyped DEF DefinitionsInv, GraphOK
    <3>2. QED
      BY <2>3, <2>4, <3>1
  <2>6. proof'[v] = Verified(v)' /\ Verifiable(v)'
    BY <2>1, <2>2, <2>3
  <2> DEFINE S == WithContext(v, PackageBinding)
  <2>7. /\ proof'[v].records = [x \in S' |-> Record(x)']
        /\ Resolved(S)'
    BY <2>6 DEF Verified, Verifiable, Proof, Records
  <2>8. S' \subseteq Packaged
    <3>1. \A s \in DOMAIN PackageBinding : PackageBinding[s] \in Packaged
      <4>1. \A s \in Symbols(Packaged) : \E x \in Packaged : Symbol[x] = s
        BY DEF Symbols
      <4>2. QED
        BY <4>1 DEF PackageBinding
    <3>2. QED
      BY <2>1, <2>3, <2>5, <3>1 DEF WithContext, Least
  <2>9. u \in S' /\ S' \subseteq Present'
    BY <1>2, <2>7 DEF Resolved
  <2> HIDE DEF S
  <2>10. row'[u].status # "none"
    BY <2>9 DEF Present
  <2>11. row'[u].text = Package[u].text /\ row'[u].edges = Package[u].edges
    BY <2>4, <2>10
  <2>12. proof'[v].records[u].text = row'[u].text
    BY <2>7, <2>9 DEF Record
  <2>13. QED
    BY <2>7, <2>8, <2>11, <2>12
<1>3. QED
  BY <1>1, <1>2 DEF ImportIsThePackage

-----------------------------------------------------------------------------
(***************************************************************************)
(* The four parts together: one of them moves in a behaviour, by its own   *)
(* steps.                                                                  *)
(***************************************************************************)
CatalogueInv ==
  /\ part = "datasets" => Datasets!CatalogInv
  /\ part = "profiles" => Services!CatalogInv
  /\ part = "composition" => CompositionInv
  /\ part = "definitions" => DefinitionsInv

LEMMA CatalogueInit == AllInit => CatalogueInv
<1> SUFFICES ASSUME AllInit
             PROVE  CatalogueInv
  OBVIOUS
<1>1. CASE part = "datasets" /\ DatasetCatalog!Init
  <2>1. Datasets!CatalogInv
    BY <1>1, DatasetInit, DatasetAssumption, CatalogsAssumption, Datasets!CatalogInit
  <2>2. QED
    BY <1>1, <2>1 DEF CatalogueInv
<1>2. CASE part = "profiles" /\ ProfileCatalog!Init
  <2>1. Services!CatalogInv
    BY <1>2, ServiceInit, ServiceAssumption, CatalogsAssumption, Services!CatalogInit
  <2>2. QED
    BY <1>2, <2>1 DEF CatalogueInv
<1>3. CASE part = "composition" /\ Composition!Init
  BY <1>3, CompositionInit DEF CatalogueInv
<1>4. CASE part = "definitions" /\ Init
  BY <1>4, DefinitionsInit DEF CatalogueInv
<1>5. QED
  BY <1>1, <1>2, <1>3, <1>4 DEF AllInit

LEMMA CatalogueMoves ==
  ASSUME [AllNext]_allVars
  PROVE  /\ part' = part
         /\ part = "datasets" => [Datasets!Next]_(Datasets!vars)
         /\ part = "profiles" => [Services!Next]_(Services!vars)
         /\ part = "composition" => [Composition!Next]_(Composition!vars)
         /\ part = "definitions" => [Next]_formalVars
<1>1. CASE UNCHANGED allVars
  BY <1>1 DEF allVars, catalogVars, compositionVars, definitionVars, Datasets!vars,
              Services!vars, Composition!vars, Composition!rows, formalVars
<1>2. CASE AllNext
  BY <1>2, DatasetNext, ServiceNext DEF AllNext
<1>3. QED
  BY <1>1, <1>2

LEMMA CatalogueStep ==
  ASSUME CatalogueInv, [AllNext]_allVars
  PROVE  CatalogueInv'
<1>1. part = "datasets" => Datasets!CatalogInv'
  BY CatalogueMoves, DatasetAssumption, CatalogsAssumption, Datasets!CatalogStep
     DEF CatalogueInv
<1>2. part = "profiles" => Services!CatalogInv'
  BY CatalogueMoves, ServiceAssumption, CatalogsAssumption, Services!CatalogStep
     DEF CatalogueInv
<1>3. part = "composition" => CompositionInv'
  BY CatalogueMoves, CompositionStep DEF CatalogueInv
<1>4. part = "definitions" => DefinitionsInv'
  BY CatalogueMoves, DefinitionsStep DEF CatalogueInv
<1>5. QED
  BY <1>1, <1>2, <1>3, <1>4, CatalogueMoves DEF CatalogueInv

(***************************************************************************)
(* The invariant of the four parts.                                        *)
(***************************************************************************)
THEOREM CatalogueInvariant == AllSpec => []CatalogueInv
<1>1. CatalogueInv /\ [AllNext]_allVars => CatalogueInv'
  BY CatalogueStep
<1>2. QED
  BY <1>1, CatalogueInit, PTL DEF AllSpec

(***************************************************************************)
(* Every row, request and snapshot of the catalogue has its type.          *)
(***************************************************************************)
THEOREM TypesAreCorrect == AllSpec => []TypesOK
<1>1. CatalogueInv => TypesOK
  <2> SUFFICES ASSUME CatalogueInv PROVE TypesOK
    OBVIOUS
  <2>1. part = "datasets" => DatasetCatalog!TypeOK
    BY DatasetTypes DEF CatalogueInv, Datasets!CatalogInv
  <2>2. part = "profiles" => ProfileCatalog!TypeOK
    BY ServiceTypes DEF CatalogueInv, Services!CatalogInv
  <2>3. part = "composition" => Composition!TypeOK
    BY CompositionTypes DEF CatalogueInv, CompositionInv
  <2>4. part = "definitions" => TypeOK
    BY DefinitionsTypes DEF CatalogueInv
  <2>5. QED
    BY <2>1, <2>2, <2>3, <2>4 DEF TypesOK
<1>2. QED
  BY <1>1, CatalogueInvariant, PTL

(***************************************************************************)
(* What was published was built, and is still built, from what was         *)
(* published: no draft is below it and nothing below it was deleted, even  *)
(* in part (the publications of the catalogue services, the deletion       *)
(* pages).                                                                 *)
(***************************************************************************)
THEOREM PublishedRests == AllSpec => []RestsOnPublished
<1>1. CatalogueInv => RestsOnPublished
  BY Datasets!RowsPromise, Services!RowsPromise, DatasetRests, ServiceRests
     DEF CatalogueInv, RestsOnPublished
<1>2. QED
  BY <1>1, CatalogueInvariant, PTL

(***************************************************************************)
(* The flows of a published profile supply what its indicators require,    *)
(* those they rest on included (validate_profile_input_coverage).          *)
(***************************************************************************)
THEOREM ProfilesAreSupplied == AllSpec => []InputsAreSupplied
<1>1. CatalogueInv => InputsAreSupplied
  BY Services!RowsPromise, ServiceSupplies DEF CatalogueInv, InputsAreSupplied
<1>2. QED
  BY <1>1, CatalogueInvariant, PTL

(***************************************************************************)
(* No indicator is calculated from itself, however dependencies are added, *)
(* cloned and removed (would_create_cycle under the lock of the graph).    *)
(***************************************************************************)
THEOREM GraphIsAcyclic == AllSpec => []Acyclic
<1>1. CatalogueInv => Acyclic
  BY Datasets!RowsPromise, DatasetAcyclic DEF CatalogueInv, Acyclic
<1>2. QED
  BY <1>1, CatalogueInvariant, PTL

(***************************************************************************)
(* A version that has left the draft keeps its parts and moves forward     *)
(* (check_editable, ALLOWED_TRANSITIONS).                                  *)
(***************************************************************************)
THEOREM PublishedIsFrozen == AllSpec => FrozenOncePublished
<1>1. CatalogueInv /\ [AllNext]_allVars =>
        [ /\ part = "datasets" => DatasetCatalog!Frozen
          /\ part = "profiles" => ProfileCatalog!Frozen ]_allVars
  BY CatalogueMoves, Datasets!FrozenStep, Services!FrozenStep, DatasetFrozen, ServiceFrozen
     DEF CatalogueInv
<1>2. QED
  BY <1>1, CatalogueInvariant, PTL DEF AllSpec, FrozenOncePublished

(***************************************************************************)
(* What a publication has read under a lock is still published when it     *)
(* commits; what it reads without one may not be (profile_snapshot).       *)
(***************************************************************************)
THEOREM ReadUnderLockStands == AllSpec => PublishedOverPublished
<1>1. CatalogueInv /\ [AllNext]_allVars =>
        [ /\ part = "datasets" => DatasetCatalog!OverPublished
          /\ part = "profiles" => ProfileCatalog!OverPublished ]_allVars
  BY CatalogueMoves, Datasets!OverPublishedStep, Services!OverPublishedStep,
     DatasetOverPublished, ServiceOverPublished DEF CatalogueInv
<1>2. QED
  BY <1>1, CatalogueInvariant, PTL DEF AllSpec, PublishedOverPublished

(***************************************************************************)
(* What the ingest is given of an approved revision can be calculated: the *)
(* snapshot has one version of each indicator, all that these require,     *)
(* their parameters, and an input for each specification they read         *)
(* (validate_revision_for_approval, build_validation_snapshot).            *)
(***************************************************************************)
THEOREM SnapshotsAreCoherent == AllSpec => []FrozenIsCoherent
<1>1. CatalogueInv => FrozenIsCoherent
  BY DEF CatalogueInv, CompositionInv, FrozenIsCoherent
<1>2. QED
  BY <1>1, CatalogueInvariant, PTL

(***************************************************************************)
(* The rows of an approved revision are those its snapshot froze, whatever *)
(* page, editor or form was open (replace_draft_configuration,             *)
(* save_revision_indicator_values, the inlines of the revision form).      *)
(***************************************************************************)
THEOREM SnapshotsAreTheRows == AllSpec => []RowsAreFrozen
<1>1. CatalogueInv => RowsAreFrozen
  BY DEF CatalogueInv, CompositionInv, RowsAreFrozen
<1>2. QED
  BY <1>1, CatalogueInvariant, PTL

(***************************************************************************)
(* A published version, and every version it rests on, is defined as in    *)
(* its proof (require_current_verification under the lock of the graph).   *)
(***************************************************************************)
THEOREM ProofsOfPublishedStand == AllSpec => []ProofsStand
<1>1. CatalogueInv => ProofsStand
  BY DefinitionsTypes DEF CatalogueInv, ProofsStand
<1>2. QED
  BY <1>1, CatalogueInvariant, PTL

(***************************************************************************)
(* What an import creates is what its package says, with its proof         *)
(* (apply_catalog).                                                        *)
(***************************************************************************)
THEOREM ImportsAreThePackage == AllSpec => ImportedAsPackaged
<1>1. CatalogueInv /\ [AllNext]_allVars =>
        [part = "definitions" => ImportIsThePackage]_allVars
  BY CatalogueMoves, ImportStep DEF CatalogueInv
<1>2. QED
  BY <1>1, CatalogueInvariant, PTL DEF AllSpec, ImportedAsPackaged

=============================================================================
