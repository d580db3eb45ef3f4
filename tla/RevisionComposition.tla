------------------------ MODULE RevisionComposition ------------------------
(* What a revision of a contract chooses from its processing profile while  *)
(* it is a draft, and what its approval freezes of that.                    *)
(*                                                                          *)
(* A draft has the indicators it chose, each with its values; the flows     *)
(* selected to feed them; and values for the indicators those require that  *)
(* were not chosen.  Three writers work on it: the pages of the contract,   *)
(* which read the values of the indicators before they lock the draft; the  *)
(* editor of values; and the administration site, which saves one row at a  *)
(* time and knows nothing of the others.  Meanwhile the catalogue retires   *)
(* what it had published.                                                   *)
EXTENDS Integers, FiniteSets, Functions

CONSTANTS
  Revisions, Profiles, Versions, Flows,
  Offer,           \* [Profiles -> SUBSET Versions], the indicators of a profile
  Proposal,        \* [Profiles -> SUBSET Versions], those it proposes
  Inputs,          \* [Profiles -> SUBSET Flows]
  IndicatorOf,     \* [Versions -> the indicators], what it is a version of
  Needs,           \* [Versions -> SUBSET Versions], its prerequisites
  Reads,           \* [Versions -> the specifications it reads]
  Supplies,        \* [Flows -> the specification a flow supplies]
  Parameterised,   \* the versions whose schema has a required parameter
  Retirable,       \* what the catalogue may retire
  MaxEdits,        \* bounds how often the drafts are edited
  Values, Empty, None

VARIABLES
  status,    \* of each revision, or "none"
  profile,   \* it is drafted from
  replaces,  \* the revision it replaces, or None
  inputs,    \* ContractInputSelection
  own,       \* ContractRevisionIndicator: the values of each chosen version
  implied,   \* ContractDependencyConfiguration: those of each required version
  frozen,    \* configuration_snapshot, None before the approval
  post,      \* a page that has read the values and not yet locked the draft
  retired,   \* what is no longer published in the catalogue
  edits      \* how often a draft was edited

rows == <<inputs, own, implied>>
vars == <<status, profile, replaces, inputs, own, implied, frozen, post, retired, edits>>

Edit == edits < MaxEdits /\ edits' = edits + 1

(* A row is of an indicator or a flow as one profile links it. *)
IndicatorLinks == {l \in Profiles \X Versions : l[2] \in Offer[l[1]]}
InputLinks == {l \in Profiles \X Flows : l[2] \in Inputs[l[1]]}

Of(p, S) == {<<p, x>> : x \in S}
Linked(links) == {l[2] : l \in links}

NoRows == [l \in {} |-> Empty]

(* The configurations an approval can freeze. *)
RowsOf(S) == UNION {[D -> Values] : D \in SUBSET S}
Snapshots ==
  [profile : Profiles, inputs : SUBSET InputLinks, own : RowsOf(IndicatorLinks),
   implied : RowsOf(Versions), effective : SUBSET Versions,
   edges : SUBSET (Versions \X Versions)]

CompositionAssumption ==
  /\ Offer \in [Profiles -> SUBSET Versions] /\ Proposal \in [Profiles -> SUBSET Versions]
  /\ Inputs \in [Profiles -> SUBSET Flows] /\ Needs \in [Versions -> SUBSET Versions]
  /\ Empty \in Values /\ MaxEdits \in Nat
  /\ None \notin Snapshots

TypeOK ==
  /\ status \in [Revisions -> {"none", "draft", "approved", "withdrawn"}]
  /\ profile \in [Revisions -> Profiles \cup {None}]
  /\ replaces \in [Revisions -> Revisions \cup {None}]
  /\ \A r \in Revisions :
       /\ inputs[r] \subseteq InputLinks
       /\ DOMAIN own[r] \subseteq IndicatorLinks /\ Range(own[r]) \subseteq Values
       /\ DOMAIN implied[r] \subseteq Versions /\ Range(implied[r]) \subseteq Values
       /\ (frozen[r] = None) <=> (status[r] \in {"none", "draft"})
  /\ post # None => post.of \in Revisions
  /\ retired \subseteq Retirable
  /\ edits \in 0 .. MaxEdits

-----------------------------------------------------------------------------
(* The indicators S requires, with S itself. *)
Closure(S) ==
  {v \in Versions : \A C \in SUBSET Versions :
     S \subseteq C /\ (\A u \in C : Needs[u] \subseteq C) => v \in C}

Implicit(S) == Closure(S) \ S

OneVersionEach(S) == \A v, w \in S : IndicatorOf[v] = IndicatorOf[w] => v = w

(* Whether the graph below S can be resolved at all. *)
Resolves(S) ==
  /\ OneVersionEach(Closure(S))
  /\ \A v \in Closure(S) : Needs[v] \cap retired = {}

Specifications(S) == UNION {Reads[v] : v \in Closure(S)}

Candidates(p, s) == {f \in Inputs[p] : Supplies[f] = s}

Mandatory(p, S) == UNION {Candidates(p, s) : s \in Specifications(S)}

(* The inputs the chosen S need are in the profile, each in one flow. *)
InputsResolve(p, S) ==
  /\ S \subseteq Offer[p]
  /\ OneVersionEach(S)
  /\ \A v \in S : Resolves({v})
  /\ \A s \in Specifications(S) : Cardinality(Candidates(p, s)) = 1

Valid(v, value) == v \in Parameterised => value # Empty

Restricted(f, S) == [x \in DOMAIN f \cap S |-> f[x]]
Extended(f, x, value) ==
  [y \in DOMAIN f \cup {x} |-> IF y = x THEN value ELSE f[y]]

Chosen(r) == Linked(DOMAIN own[r])

(* A published profile whose parts all still are. *)
Applicable(p) ==
  /\ p \notin retired
  /\ (Offer[p] \cup Inputs[p]) \cap retired = {}
  /\ \A v \in Offer[p] : Resolves({v})

-----------------------------------------------------------------------------
Init ==
  /\ status = [r \in Revisions |-> "none"]
  /\ profile = [r \in Revisions |-> None]
  /\ replaces = [r \in Revisions |-> None]
  /\ inputs = [r \in Revisions |-> {}]
  /\ own = [r \in Revisions |-> NoRows]
  /\ implied = [r \in Revisions |-> NoRows]
  /\ frozen = [r \in Revisions |-> None]
  /\ post = None
  /\ retired = {}
  /\ edits = 0

(* create_revision_draft: the proposal of the profile, without values. *)
Draft(r, p, replaced, configurations) ==
  /\ status[r] = "none"
  /\ Applicable(p)
  /\ InputsResolve(p, Proposal[p])
  /\ status' = [status EXCEPT ![r] = "draft"]
  /\ profile' = [profile EXCEPT ![r] = p]
  /\ replaces' = [replaces EXCEPT ![r] = replaced]
  /\ inputs' = [inputs EXCEPT ![r] = Of(p, Mandatory(p, Proposal[p]))]
  /\ own' = [own EXCEPT ![r] = configurations]
  /\ implied' = [implied EXCEPT ![r] = NoRows]
  /\ UNCHANGED <<frozen, post, retired, edits>>

Create(r, p) == Draft(r, p, None, [l \in Of(p, Proposal[p]) |-> Empty])

(* A replacement also takes what the replaced revision chose and the new    *)
(* profile offers, with its values; each row is saved after the others.     *)
Cloned(s, p) ==
  LET source(v) == CHOOSE l \in DOMAIN own[s] : l[2] = v
  IN  [l \in Of(p, Proposal[p] \cup (Chosen(s) \cap Offer[p])) |->
         IF l[2] \in Chosen(s) THEN own[s][source(l[2])] ELSE Empty]

CreateReplacement(r, s, p) ==
  /\ status[s] # "none"
  /\ OneVersionEach(Linked(DOMAIN Cloned(s, p)))
  /\ Draft(r, p, s, Cloned(s, p))

-----------------------------------------------------------------------------
(* The page of the revision: the values are read when the form is posted... *)
ReadValues(r) ==
  /\ post = None
  /\ status[r] = "draft"
  /\ post' = [of |-> r, read |-> own[r]]
  /\ UNCHANGED <<status, profile, replaces, rows, frozen, retired, edits>>

Mut_ReplaceConfiguration(selection, requested) ==
  LET r == post.of
      p == profile[r]
  IN  /\ post # None
      /\ profile[r] # None
      /\ InputsResolve(p, selection)
      /\ Resolves(selection)
      /\ requested \subseteq Inputs[p]
      /\ inputs' = [inputs EXCEPT ![r] = Of(p, Mandatory(p, selection) \cup requested)]
      /\ own' = [own EXCEPT ![r] = [l \in Of(p, selection) |-> Empty]]
      /\ implied' = [implied EXCEPT ![r] = Restricted(@, Implicit(selection))]
      /\ post' = None
      /\ Edit
      /\ UNCHANGED <<status, profile, replaces, frozen, retired>>

(* ... and written, under the lock of the draft, with the new selection. *)
ReplaceConfiguration(selection, requested) ==
  LET r == post.of
      p == profile[r]
  IN  /\ post # None
      /\ status[r] = "draft"
      /\ InputsResolve(p, selection)
      /\ Resolves(selection)
      /\ requested \subseteq Inputs[p]
      /\ inputs' = [inputs EXCEPT ![r] = Of(p, Mandatory(p, selection) \cup requested)]
      /\ own' = [own EXCEPT ![r] = [l \in Of(p, selection) |->
           IF l \in DOMAIN post.read THEN post.read[l] ELSE Empty]]
      /\ implied' = [implied EXCEPT ![r] = Restricted(@, Implicit(selection))]
      /\ post' = None
      /\ Edit
      /\ UNCHANGED <<status, profile, replaces, frozen, retired>>

RefusePost ==
  /\ post # None
  /\ post' = None
  /\ UNCHANGED <<status, profile, replaces, rows, frozen, retired, edits>>

(* save_revision_indicator_values, for a chosen version or a required one. *)
SaveValues(r, v, value) ==
  /\ status[r] = "draft"
  /\ Resolves(Chosen(r))
  /\ v \in Closure(Chosen(r))
  /\ Valid(v, value)
  /\ \/ /\ <<profile[r], v>> \in DOMAIN own[r]
        /\ own' = [own EXCEPT ![r][<<profile[r], v>>] = value]
        /\ UNCHANGED implied
     \/ /\ v \notin Chosen(r)
        /\ implied' = [implied EXCEPT ![r] = Extended(@, v, value)]
        /\ UNCHANGED own
  /\ Edit
  /\ UNCHANGED <<status, profile, replaces, inputs, frozen, post, retired>>

-----------------------------------------------------------------------------
(* The administration site: the revision, and the rows in its tables. *)
AdminChangesProfile(r, p) ==
  /\ status[r] = "draft"
  /\ p \notin retired
  /\ profile' = [profile EXCEPT ![r] = p]
  /\ Edit
  /\ UNCHANGED <<status, replaces, rows, frozen, post, retired>>

AdminChangesInput(r, l) ==
  /\ status[r] = "draft"
  /\ \/ inputs' = [inputs EXCEPT ![r] = @ \ {l}]
     \/ l[1] = profile[r] /\ inputs' = [inputs EXCEPT ![r] = @ \cup {l}]
  /\ Edit
  /\ UNCHANGED <<status, profile, replaces, own, implied, frozen, post, retired>>

(* A row is saved without the schema of its parameters. *)
AdminSavesIndicator(r, v, value) ==
  /\ status[r] = "draft"
  /\ v \in Offer[profile[r]]
  /\ \A l \in DOMAIN own[r] :
       IndicatorOf[l[2]] = IndicatorOf[v] => l = <<profile[r], v>>
  /\ own' = [own EXCEPT ![r] = Extended(@, <<profile[r], v>>, value)]
  /\ Edit
  /\ UNCHANGED <<status, profile, replaces, inputs, implied, frozen, post, retired>>

AdminRemovesIndicator(r, l) ==
  /\ status[r] = "draft"
  /\ l \in DOMAIN own[r]
  /\ own' = [own EXCEPT ![r] = Restricted(@, IndicatorLinks \ {l})]
  /\ Edit
  /\ UNCHANGED <<status, profile, replaces, inputs, implied, frozen, post, retired>>

AdminRemovesValues(r, v) ==
  /\ status[r] = "draft"
  /\ v \in DOMAIN implied[r]
  /\ implied' = [implied EXCEPT ![r] = Restricted(@, Versions \ {v})]
  /\ Edit
  /\ UNCHANGED <<status, profile, replaces, inputs, own, frozen, post, retired>>

DeleteDraft(r) ==
  /\ status[r] = "draft"
  /\ \A s \in Revisions : replaces[s] # r
  /\ status' = [status EXCEPT ![r] = "none"]
  /\ profile' = [profile EXCEPT ![r] = None]
  /\ replaces' = [replaces EXCEPT ![r] = None]
  /\ inputs' = [inputs EXCEPT ![r] = {}]
  /\ own' = [own EXCEPT ![r] = NoRows]
  /\ implied' = [implied EXCEPT ![r] = NoRows]
  /\ UNCHANGED <<frozen, post, retired, edits>>

-----------------------------------------------------------------------------
(* validate_revision_for_approval, on the rows of the draft. *)
Sound(r) ==
  LET p == profile[r]
  IN  /\ p \notin retired
      /\ inputs[r] # {} /\ inputs[r] \subseteq Of(p, Flows \ retired)
      /\ Chosen(r) # {} /\ DOMAIN own[r] \subseteq Of(p, Versions \ retired)
      /\ OneVersionEach(Chosen(r))

ValuesOf(r, v) ==
  IF v \in Chosen(r) THEN own[r][<<profile[r], v>>]
  ELSE IF v \in DOMAIN implied[r] THEN implied[r][v] ELSE Empty

Mut_Freezable(r) ==
  /\ Resolves(Chosen(r))
  /\ DOMAIN implied[r] \subseteq Implicit(Chosen(r))
  /\ \A v \in Closure(Chosen(r)) : Valid(v, ValuesOf(r, v))

(* build_validation_snapshot: what it refuses to freeze. *)
Freezable(r) ==
  /\ Resolves(Chosen(r))
  /\ DOMAIN implied[r] \subseteq Implicit(Chosen(r))
  /\ Closure(Chosen(r)) \cap retired = {}
  /\ \A v \in Closure(Chosen(r)) : Valid(v, ValuesOf(r, v))
  /\ \A s \in Specifications(Chosen(r)) : \E l \in inputs[r] : Supplies[l[2]] = s

(* The chosen indicators and all they require, with what requires what. *)
Snapshot(r) ==
  LET effective == Closure(Chosen(r))
  IN  [profile |-> profile[r], inputs |-> inputs[r], own |-> own[r],
       implied |-> implied[r], effective |-> effective,
       edges |-> {e \in effective \X Versions : e[2] \in Needs[e[1]]}]

Approve(r) ==
  /\ status[r] = "draft"
  /\ Sound(r)
  /\ Freezable(r)
  /\ status' = [status EXCEPT ![r] = "approved"]
  /\ frozen' = [frozen EXCEPT ![r] = Snapshot(r)]
  /\ UNCHANGED <<profile, replaces, rows, post, retired, edits>>

Withdraw(r) ==
  /\ status[r] = "approved"
  /\ status' = [status EXCEPT ![r] = "withdrawn"]
  /\ UNCHANGED <<profile, replaces, rows, frozen, post, retired, edits>>

(* The catalogue retires a part: a profile before what it is made of. *)
Retire(x) ==
  /\ x \in Retirable
  /\ retired' = retired \cup {x}
  /\ UNCHANGED <<status, profile, replaces, rows, frozen, post, edits>>

Next ==
  \/ \E r \in Revisions, p \in Profiles : Create(r, p) \/ AdminChangesProfile(r, p)
  \/ \E r, s \in Revisions, p \in Profiles : CreateReplacement(r, s, p)
  \/ \E r \in Revisions : ReadValues(r) \/ DeleteDraft(r) \/ Approve(r) \/ Withdraw(r)
  \/ \E selection \in SUBSET Versions, requested \in SUBSET Flows :
       ReplaceConfiguration(selection, requested)
  \/ RefusePost
  \/ \E r \in Revisions, v \in Versions, value \in Values :
       SaveValues(r, v, value) \/ AdminSavesIndicator(r, v, value)
  \/ \E r \in Revisions, v \in Versions : AdminRemovesValues(r, v)
  \/ \E r \in Revisions, l \in IndicatorLinks : AdminRemovesIndicator(r, l)
  \/ \E r \in Revisions, l \in InputLinks : AdminChangesInput(r, l)
  \/ \E x \in Retirable : Retire(x)

Spec == Init /\ [][Next]_vars

-----------------------------------------------------------------------------
(* validate_frozen_validation_snapshot: the plans the ingest serves of it.  *)
Served(f) ==
  /\ Linked(DOMAIN f.own) \subseteq f.effective
  /\ \A e \in f.edges : {e[1], e[2]} \subseteq f.effective

RequiredBy(f, l) == {v \in f.effective : Supplies[l[2]] \in Reads[v]}

(* What the ingest is given is served, and can be calculated: the           *)
(* indicators of an approved revision and all they require are of one       *)
(* version each, have their parameters, and read what some input of the     *)
(* same profile supplies.                                                   *)
FrozenIsCoherent ==
  \A r \in Revisions : status[r] \in {"approved", "withdrawn"} =>
    LET f == frozen[r]
        chosen == Linked(DOMAIN f.own)
        value(v) == IF v \in chosen THEN f.own[<<f.profile, v>>] ELSE f.implied[v]
    IN  /\ Served(f)
        /\ OneVersionEach(f.effective)
        /\ DOMAIN f.own \subseteq Of(f.profile, Versions)
        /\ f.inputs \subseteq Of(f.profile, Flows)
        /\ chosen \cap DOMAIN f.implied = {}
        /\ \A v \in f.effective : \A s \in Reads[v] :
             \E l \in f.inputs : v \in RequiredBy(f, l) /\ Supplies[l[2]] = s
        /\ \A v \in f.effective \cap Parameterised :
             v \in chosen \cup DOMAIN f.implied /\ value(v) # Empty

(* The rows an approved revision is shown with are those it has frozen,     *)
(* whatever page or form was open when it was approved.                     *)
RowsAreFrozen ==
  \A r \in Revisions :
    status[r] \in {"approved", "withdrawn"} => frozen[r] = Snapshot(r)

=============================================================================
