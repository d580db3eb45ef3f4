----------------------- MODULE TechnicalCatalog_proofs -----------------------
(***************************************************************************)
(* Theorems about the technical catalogue, for any versions, kinds, edges  *)
(* and workers.                                                            *)
(*                                                                         *)
(* A publication is many reads, and none of its promises follows from the  *)
(* commit alone.  The invariant says what a publication has behind it: the *)
(* versions it has visited were published, each of their parts is visited  *)
(* or still to be read, and what was read under a lock is still as it was. *)
(* A link has behind it that it closes no cycle, which stays true because  *)
(* edges between indicators are only written under the lock of the graph.  *)
(***************************************************************************)
EXTENDS TechnicalCatalog, TLAPS

-----------------------------------------------------------------------------
(* The invariant: the rows.                                                *)
Fits(v, p) == Field(v, p) \/ Relation(v, p)

Supplies(v) ==
  Is(v, "profile") =>
    \A root \in parts[v] \cap Indicators, i \in Indicators :
      Reaches(root, i) => {p \in parts[i] : Is(p, "spec")} \subseteq Supplied(v)

DatesAgree ==
  \A v \in Versions :
    /\ status[v] \in {"published", "deprecated"} => v \in dated
    /\ v \in dated => status[v] \in {"published", "deprecated", "withdrawn"}

PartsStand ==
  \A v \in Versions : \A p \in parts[v] : Fits(v, p) /\ status[p] # "none"

RowsOK ==
  /\ DatesAgree
  /\ PartsStand
  /\ RestsOnPublished
  /\ Acyclic
  /\ \A v \in dated : Supplies(v)

(* The invariant: what a worker has behind it.                             *)
Secured(w, p) ==
  /\ status[p] = "published"
  /\ lock[p] = w \/ (Is(p, "indicator") /\ lock[Graph] = w)

(* The versions a publication has visited, and what it has found.          *)
Visited(q, seen) ==
  /\ \A p \in parts[q.v] : <<p, q.v>> \in q.todo \/ p \in seen
  /\ \A x \in seen : Kind[x] \in {"flow", "indicator"} =>
       \A p \in parts[x] : <<p, x>> \in q.todo \/ p \in seen
  /\ \A x \in seen : Is(x, "indicator") =>
       \A p \in parts[x] : Is(p, "spec") => <<p, x>> \in q.todo \/ p \in q.inputs

Publishes(w) ==
  LET v == job[w].v
  IN  /\ v \in Versions /\ lock[v] = w /\ status[v] = "draft"
      /\ \A p \in parts[v] : Field(v, p) => lock[p] = w
      /\ Is(v, "indicator") => lock[Graph] = w
      /\ \A p \in parts[v] : Steady(v, p) => <<p, v>> \in job[w].todo \/ Secured(w, p)
      /\ \E seen \in SUBSET dated : Visited(job[w], seen)

Links(w) ==
  LET v == job[w].v
  IN  /\ v \in Versions /\ lock[v] = w /\ status[v] = "draft"
      /\ Is(v, "indicator") /\ lock[Graph] = w
      /\ \E p \in Versions :
           /\ job[w].todo = {<<p, v>>}
           /\ Relation(v, p) /\ lock[p] = w /\ status[p] # "none"
           /\ Is(p, "indicator") => ~Reaches(p, v)

JobOK(w) ==
  /\ job[w].pc = "publish" => Publishes(w)
  /\ job[w].pc = "link" => Links(w)
  /\ job[w].pc = "delete" => job[w].v \in Versions

CatalogInv ==
  /\ TypeOK
  /\ RowsOK
  /\ \A w \in Workers : JobOK(w)

-----------------------------------------------------------------------------
(***************************************************************************)
(* Reachability: what a version reaches is closed, and is the least set    *)
(* that is.                                                                *)
(***************************************************************************)
Closed(S) == \A x \in S : parts[x] \cap Indicators \subseteq S

ReachedFrom(p) == {y \in Indicators : Reaches(p, y)}

LEMMA ReachedIsClosed ==
  ASSUME NEW p \in Indicators
  PROVE  /\ p \in ReachedFrom(p)
         /\ Closed(ReachedFrom(p))
<1>1. p \in ReachedFrom(p)
  BY DEF ReachedFrom, Reaches
<1>2. ASSUME NEW x \in ReachedFrom(p), NEW y \in parts[x] \cap Indicators
      PROVE  Reaches(p, y)
  <2> SUFFICES ASSUME NEW S \in SUBSET Indicators, p \in S,
                      \A z \in S : parts[z] \cap Indicators \subseteq S
               PROVE  y \in S
    BY DEF Reaches
  <2>1. x \in S
    BY DEF ReachedFrom, Reaches
  <2>2. QED
    BY <2>1
<1>3. QED
  BY <1>1, <1>2 DEF Closed, ReachedFrom

LEMMA ReachedIsLeast ==
  ASSUME NEW p, NEW S \in SUBSET Indicators, p \in S, Closed(S)
  PROVE  ReachedFrom(p) \subseteq S
  BY DEF ReachedFrom, Reaches, Closed

\* With fewer edges less is reached.
LEMMA FewerEdges ==
  ASSUME \A x \in Indicators : parts'[x] \cap Indicators \subseteq parts[x],
         NEW p, NEW v, Reaches(p, v)'
  PROVE  Reaches(p, v)
<1> SUFFICES ASSUME NEW S \in SUBSET Indicators, p \in S,
                    \A x \in S : parts[x] \cap Indicators \subseteq S
             PROVE  v \in S
  BY DEF Reaches
<1>1. \A x \in S : parts'[x] \cap Indicators \subseteq S
  OBVIOUS
<1>2. Indicators' = Indicators
  BY DEF Indicators, Is
<1>3. QED
  BY <1>1, <1>2 DEF Reaches

LEMMA FewerEdgesAcyclic ==
  ASSUME Acyclic, \A x \in Indicators : parts'[x] \cap Indicators \subseteq parts[x]
  PROVE  Acyclic'
<1>1. ASSUME NEW v \in Indicators, NEW p \in Indicators, p \in parts'[v], Reaches(p, v)'
      PROVE  FALSE
  <2>1. p \in parts[v]
    BY <1>1
  <2>2. QED
    BY <1>1, <2>1, FewerEdges DEF Acyclic
<1>2. QED
  BY <1>1 DEF Acyclic, Indicators, Is

\* An edge to p that does not reach its owner closes no cycle.
LEMMA LinkKeepsAcyclic ==
  ASSUME Acyclic, NEW v \in Indicators, NEW p \in Indicators, ~Reaches(p, v),
         parts'[v] \cap Indicators \subseteq parts[v] \cup {p},
         \A x \in Indicators \ {v} : parts'[x] = parts[x]
  PROVE  Acyclic'
<1> SUFFICES ASSUME NEW a \in Indicators, NEW b \in Indicators, b \in parts'[a]
             PROVE  \E S \in SUBSET Indicators :
                      /\ b \in S /\ a \notin S
                      /\ \A x \in S : parts'[x] \cap Indicators \subseteq S
  BY DEF Acyclic, Reaches, Indicators, Is
<1> DEFINE S == ReachedFrom(b) \cup (IF v \in ReachedFrom(b) THEN ReachedFrom(p) ELSE {})
<1>1. b \in S /\ S \subseteq Indicators
  BY ReachedIsClosed DEF ReachedFrom
<1>2. \A x \in S : parts'[x] \cap Indicators \subseteq S
  <2>1. Closed(ReachedFrom(b)) /\ Closed(ReachedFrom(p)) /\ p \in ReachedFrom(p)
    BY ReachedIsClosed
  <2>2. QED
    BY <1>1, <2>1 DEF Closed
<1>3. a \notin S
  <2>1. CASE b \in parts[a]
    <3>1. a \notin ReachedFrom(b)
      BY <2>1 DEF Acyclic, ReachedFrom
    <3>2. ASSUME v \in ReachedFrom(b), a \in ReachedFrom(p)
          PROVE  FALSE
      <4>1. b \in ReachedFrom(p)
        BY <2>1, <3>2, ReachedIsClosed DEF Closed
      <4>2. ReachedFrom(b) \subseteq ReachedFrom(p)
        <5>1. ReachedFrom(p) \in SUBSET Indicators /\ Closed(ReachedFrom(p))
          BY ReachedIsClosed DEF ReachedFrom
        <5>2. QED
          BY <4>1, <5>1, ReachedIsLeast
      <4>3. QED
        BY <3>2, <4>2 DEF ReachedFrom
    <3>3. QED
      BY <3>1, <3>2
  <2>2. CASE b \notin parts[a]
    <3>1. a = v /\ b = p
      BY <2>2
    <3>2. QED
      BY <3>1 DEF ReachedFrom
  <2>3. QED
    BY <2>1, <2>2
<1>4. QED
  BY <1>1, <1>2, <1>3

\* A version nobody refers to may take the parts of another.
LEMMA CopyKeepsAcyclic ==
  ASSUME Acyclic, NEW v \in Indicators, NEW copy \in Indicators,
         parts'[copy] = parts[v], copy \notin parts[v],
         \A x \in Indicators : copy \notin parts[x],
         \A x \in Indicators \ {copy} : parts'[x] = parts[x]
  PROVE  Acyclic'
<1> SUFFICES ASSUME NEW a \in Indicators, NEW b \in Indicators, b \in parts'[a]
             PROVE  \E S \in SUBSET Indicators :
                      /\ b \in S /\ a \notin S
                      /\ \A x \in S : parts'[x] \cap Indicators \subseteq S
  BY DEF Acyclic, Reaches, Indicators, Is
<1> DEFINE S == ReachedFrom(b) \ {copy}
<1>1. b \in S /\ S \subseteq Indicators
  BY ReachedIsClosed DEF ReachedFrom
<1>2. \A x \in S : parts'[x] \cap Indicators \subseteq S
  BY <1>1, ReachedIsClosed DEF Closed
<1>3. a \notin S
  BY DEF Acyclic, ReachedFrom
<1>4. QED
  BY <1>1, <1>2, <1>3

-----------------------------------------------------------------------------
(***************************************************************************)
(* What a step leaves to what was published, and to the other workers.     *)
(***************************************************************************)
Standing ==
  /\ dated \subseteq dated'
  /\ \A v \in dated : parts'[v] = parts[v]

Kept(u) ==
  /\ job'[u] = job[u]
  /\ \A r \in Versions \cup {Graph} : lock[r] = u => lock'[r] = u
  /\ \A r \in Versions : lock[r] = u => status'[r] = status[r] /\ parts'[r] = parts[r]
  /\ lock[Graph] = u => \A x \in Indicators :
       /\ status[x] = "published" => status'[x] = "published"
       /\ parts'[x] \cap Indicators \subseteq parts[x]

\* What a published profile is made of stands, and so does what it supplies.
LEMMA SuppliesStands ==
  ASSUME CatalogAssumption, TypeOK, RestsOnPublished, Standing, NEW v \in dated, Supplies(v)
  PROVE  Supplies(v)'
<1> SUFFICES ASSUME Is(v, "profile"), NEW root \in parts'[v] \cap Indicators,
                    NEW i \in Indicators, Reaches(root, i)',
                    NEW p \in parts'[i], Is(p, "spec")
             PROVE  p \in Supplied(v)'
  BY DEF Supplies, Indicators, Is
<1> dated \subseteq Versions
  BY DEF TypeOK
<1>1. root \in dated /\ root \in parts[v]
  BY DEF Standing, RestsOnPublished
<1>2. i \in dated
  <2>1. /\ root \in dated \cap Indicators
        /\ \A x \in dated \cap Indicators : parts'[x] \cap Indicators \subseteq dated \cap Indicators
    BY <1>1 DEF Standing, RestsOnPublished
  <2>2. QED
    BY <2>1 DEF Reaches, Indicators, Is
<1>3. Reaches(root, i)
  <2> SUFFICES ASSUME NEW S \in SUBSET Indicators, root \in S,
                      \A x \in S : parts[x] \cap Indicators \subseteq S
               PROVE  i \in S
    BY DEF Reaches
  <2>1. /\ root \in S \cap dated
        /\ \A x \in S \cap dated : parts'[x] \cap Indicators \subseteq S \cap dated
    BY <1>1 DEF Standing, RestsOnPublished
  <2>2. QED
    BY <2>1 DEF Reaches, Indicators, Is
<1>4. p \in Supplied(v)
  BY <1>1, <1>2, <1>3 DEF Supplies, Standing
<1>5. PICK f \in parts[v] : Is(f, "flow") /\ p \in parts[f]
  BY <1>4 DEF Supplied
<1>6. f \in parts'[v] /\ p \in parts'[f]
  BY <1>5 DEF Standing, RestsOnPublished
<1>7. QED
  BY <1>5, <1>6 DEF Supplied, Is

LEMMA VisitedStands ==
  ASSUME Standing, NEW q, NEW seen \in SUBSET dated, Visited(q, seen), parts'[q.v] = parts[q.v]
  PROVE  Visited(q, seen)'
  BY DEF Visited, Standing, Is

LEMMA OthersKeepJob ==
  ASSUME CatalogAssumption, TypeOK, PartsStand, Standing,
         NEW u \in Workers, JobOK(u), Kept(u)
  PROVE  JobOK(u)'
<1>1. CASE job[u].pc = "publish"
  <2> DEFINE v == job[u].v
  <2>1. Publishes(u) /\ v \in Versions
    BY <1>1 DEF JobOK, Publishes
  <2>2. lock'[v] = u /\ status'[v] = "draft" /\ parts'[v] = parts[v] /\ job'[u] = job[u]
    BY <2>1 DEF Publishes, Kept
  <2>3. parts[v] \subseteq Versions
    BY <2>1 DEF TypeOK
  <2>4. \A p \in Versions : Secured(u, p) => Secured(u, p)'
    BY DEF Secured, Kept, Indicators, Is
  <2>5. \A p \in parts[v] : Field(v, p) => lock'[p] = u
    BY <2>1, <2>3 DEF Publishes, Kept
  <2>6. Is(v, "indicator") => lock'[Graph] = u
    BY <2>1 DEF Publishes, Kept
  <2>7. PICK seen \in SUBSET dated : Visited(job[u], seen)
    BY <2>1 DEF Publishes
  <2>8. Visited(job[u], seen)' /\ seen \in SUBSET dated'
    <3>1. Visited(job[u], seen) /\ parts'[job[u].v] = parts[job[u].v]
      BY <2>2, <2>7
    <3>2. PICK q : q = job[u]
      OBVIOUS
    <3>3. Visited(q, seen)'
      BY <3>1, <3>2, VisitedStands
    <3>4. job'[u] = q
      BY <3>2, <2>2
    <3>5. QED
      BY <3>3, <3>4 DEF Standing, Visited
  <2>9. \A p \in parts[v] : Steady(v, p) => <<p, v>> \in job[u].todo \/ Secured(u, p)'
    BY <2>1, <2>3, <2>4 DEF Publishes
  <2>10. Publishes(u)'
    BY <2>1, <2>2, <2>5, <2>6, <2>8, <2>9
       DEF Publishes, Field, Steady, SpecificationOfFlow, OrchestrationOfProfile, Is
  <2>11. QED
    BY <1>1, <2>2, <2>10 DEF JobOK
<1>2. CASE job[u].pc = "link"
  <2>1. Links(u) /\ job'[u] = job[u]
    BY <1>2 DEF JobOK, Kept
  <2>2. PICK p \in Versions :
          /\ job[u].todo = {<<p, job[u].v>>}
          /\ Relation(job[u].v, p) /\ lock[p] = u /\ status[p] # "none"
          /\ Is(p, "indicator") => ~Reaches(p, job[u].v)
    BY <2>1 DEF Links
  <2>3. ~Reaches(p, job[u].v) => ~Reaches(p, job[u].v)'
    <3>1. \A x \in Indicators : parts'[x] \cap Indicators \subseteq parts[x]
      BY <2>1 DEF Links, Kept
    <3>2. PICK v : v = job[u].v
      OBVIOUS
    <3>3. Reaches(p, v)' => Reaches(p, v)
      BY <3>1, FewerEdges
    <3>4. QED
      BY <2>1, <3>2, <3>3 DEF Reaches
  <2>4. lock'[p] = u /\ status'[p] # "none" /\ lock'[Graph] = u
    BY <2>1, <2>2 DEF Kept, Links
  <2>5. lock'[job[u].v] = u /\ status'[job[u].v] = "draft"
    BY <2>1 DEF Kept, Links
  <2>6. Links(u)'
    BY <2>1, <2>2, <2>3, <2>4, <2>5
       DEF Links, Is, Relation, RuleOfSpecification, FlowOfProfile, IndicatorOfProfile,
           InputOfIndicator, RuleOfIndicator, Prerequisite
  <2>7. QED
    BY <1>2, <2>1, <2>6 DEF JobOK
<1>3. CASE job[u].pc \notin {"publish", "link"}
  BY <1>3 DEF JobOK, Kept
<1>4. QED
  BY <1>1, <1>2, <1>3

-----------------------------------------------------------------------------
(***************************************************************************)
(* The edits of drafts that commit in one step: creation, a field or a     *)
(* relation changed, a copy.                                               *)
(***************************************************************************)
Drafts(v, fields) ==
  /\ status[v] \in {"none", "draft"} /\ lock[v] = None
  /\ Is(v, "indicator") => lock[Graph] = None
  /\ status' = [status EXCEPT ![v] = "draft"]
  /\ parts' = [parts EXCEPT ![v] = fields]
  /\ UNCHANGED <<dated, lock, job>>

LEMMA DraftKeepsOthers ==
  ASSUME CatalogAssumption, TypeOK, RowsOK, NEW v \in Versions, NEW fields \in SUBSET Versions,
         Drafts(v, fields)
  PROVE  /\ Standing
         /\ \A u \in Workers : Kept(u)
<1>1. v \notin dated
  BY DEF RowsOK, DatesAgree, Drafts
<1>2. Standing
  BY <1>1 DEF Standing, Drafts, TypeOK
<1>3. ASSUME NEW u \in Workers
      PROVE  Kept(u)
  BY DEF Kept, Drafts, TypeOK, CatalogAssumption, Indicators, Is
<1>4. QED
  BY <1>2, <1>3

LEMMA DraftStep ==
  ASSUME CatalogAssumption, CatalogInv, NEW v \in Versions, NEW fields \in SUBSET Versions,
         Drafts(v, fields), Acyclic', \A p \in fields : Fits(v, p) /\ status[p] # "none"
  PROVE  CatalogInv'
<1>1. TypeOK /\ RowsOK
  BY DEF CatalogInv
<1>2. Standing /\ \A u \in Workers : Kept(u)
  BY <1>1, DraftKeepsOthers
<1>3. TypeOK'
  BY <1>1 DEF TypeOK, Drafts, Lifecycle
<1>4. DatesAgree'
  BY <1>1 DEF RowsOK, DatesAgree, Drafts, TypeOK
<1>5. PartsStand'
  <2>1. \A x \in Versions : status[x] # "none" => status'[x] # "none"
    BY <1>1 DEF TypeOK, Drafts
  <2>2. \A x \in Versions : parts'[x] = IF x = v THEN fields ELSE parts[x]
    BY <1>1 DEF TypeOK, Drafts
  <2>3. \A x \in Versions : parts[x] \subseteq Versions
    BY <1>1 DEF TypeOK
  <2>4. QED
    BY <1>1, <2>1, <2>2, <2>3 DEF RowsOK, PartsStand, Fits, Field, Relation, SpecificationOfFlow,
       OrchestrationOfProfile, RuleOfSpecification, FlowOfProfile, IndicatorOfProfile,
       InputOfIndicator, RuleOfIndicator, Prerequisite, Is
<1>6. RestsOnPublished'
  BY <1>1, <1>2 DEF RowsOK, RestsOnPublished, Standing, Drafts
<1>7. ASSUME NEW x \in dated
      PROVE  Supplies(x)'
  BY <1>1, <1>2, SuppliesStands DEF RowsOK
<1>8. RowsOK'
  BY <1>4, <1>5, <1>6, <1>7 DEF RowsOK, Drafts
<1>9. ASSUME NEW u \in Workers
      PROVE  JobOK(u)'
  BY <1>1, <1>2, OthersKeepJob DEF CatalogInv, RowsOK
<1>10. QED
  BY <1>3, <1>8, <1>9 DEF CatalogInv

\* An edit that gives an indicator no other indicator leaves the graph without cycles.
LEMMA PlainEdit ==
  ASSUME CatalogInv, NEW v \in Versions, NEW fields \in SUBSET Versions, Drafts(v, fields),
         Is(v, "indicator") => fields \cap Indicators \subseteq parts[v]
  PROVE  Acyclic'
<1>1. \A x \in Indicators : parts'[x] \cap Indicators \subseteq parts[x]
  BY DEF Drafts, CatalogInv, TypeOK, Indicators, Is
<1>2. QED
  BY <1>1, FewerEdgesAcyclic DEF CatalogInv, RowsOK

LEMMA CreateStep ==
  ASSUME CatalogAssumption, CatalogInv, NEW v \in Versions, NEW p \in Versions,
         \/ CreateRule(v) \/ CreateSpecification(v) \/ CreateOrchestration(v)
         \/ CreateIndicator(v) \/ CreateFlow(v, p) \/ CreateProfile(v, p)
  PROVE  CatalogInv'
<1>1. PICK fields \in SUBSET Versions :
        /\ Drafts(v, fields)
        /\ \A x \in fields : Field(v, x) /\ status[x] # "none"
  <2>1. CASE CreateRule(v) \/ CreateSpecification(v) \/ CreateOrchestration(v)
    <3>1. Drafts(v, {})
      BY <2>1 DEF CreateRule, CreateSpecification, CreateOrchestration, New, Free, Drafts, Is
    <3>2. QED
      BY <3>1
  <2>2. CASE CreateIndicator(v)
    <3>1. Drafts(v, {})
      BY <2>2 DEF CreateIndicator, New, Free, Drafts
    <3>2. QED
      BY <3>1
  <2>3. CASE CreateFlow(v, p) \/ CreateProfile(v, p)
    <3>1. Drafts(v, {p}) /\ Field(v, p) /\ status[p] # "none"
      BY <2>3 DEF CreateFlow, CreateProfile, New, Free, Drafts, Field, SpecificationOfFlow,
         OrchestrationOfProfile, Is
    <3>2. QED
      BY <3>1
  <2>4. QED
    BY <2>1, <2>2, <2>3
<1>2. \A x \in fields : Fits(v, x) /\ x \notin Indicators
  BY <1>1 DEF Fits, Field, SpecificationOfFlow, OrchestrationOfProfile, Indicators, Is
<1>3. Acyclic'
  BY <1>1, <1>2, PlainEdit
<1>4. QED
  BY <1>1, <1>2, <1>3, DraftStep

LEMMA EditStep ==
  ASSUME CatalogAssumption, CatalogInv, NEW v \in Versions, NEW p \in Versions,
         ChangeFlow(v, p) \/ ChangeProfile(v, p) \/ Link(v, p) \/ Unlink(v, p)
  PROVE  CatalogInv'
<1>0. TypeOK /\ parts[v] \subseteq Versions /\ \A x \in parts[v] : Fits(v, x) /\ status[x] # "none"
  BY DEF CatalogInv, TypeOK, RowsOK, PartsStand
<1>1. CASE ChangeFlow(v, p) \/ ChangeProfile(v, p)
  <2> DEFINE fields == {q \in parts[v] : ~Field(v, q)} \cup {p}
  <2>1. Drafts(v, fields) /\ fields \in SUBSET Versions
    BY <1>0, <1>1 DEF ChangeFlow, ChangeProfile, Change, Free, Drafts, SpecificationOfFlow,
       OrchestrationOfProfile, Is, TypeOK
  <2>2. \A x \in fields : Fits(v, x) /\ status[x] # "none"
    BY <1>0, <1>1 DEF ChangeFlow, ChangeProfile, Change, Fits, Field
  <2>3. ~Is(v, "indicator")
    BY <1>1 DEF ChangeFlow, ChangeProfile, SpecificationOfFlow, OrchestrationOfProfile, Is
  <2> HIDE DEF fields
  <2>4. Acyclic'
    BY <2>1, <2>3, PlainEdit
  <2>5. QED
    BY <2>1, <2>2, <2>4, DraftStep
<1>2. CASE Link(v, p)
  <2> DEFINE fields == parts[v] \cup {p}
  <2>1. Drafts(v, fields) /\ fields \in SUBSET Versions /\ ~Is(v, "indicator")
    BY <1>0, <1>2 DEF Link, Editable, Free, Drafts, TypeOK
  <2>2. \A x \in fields : Fits(v, x) /\ status[x] # "none"
    BY <1>0, <1>2 DEF Link, Fits, Linkable, LinkableToProfile, LinkableToSpecification,
       LinkableToIndicator
  <2> HIDE DEF fields
  <2>3. Acyclic'
    BY <2>1, PlainEdit
  <2>4. QED
    BY <2>1, <2>2, <2>3, DraftStep
<1>3. CASE Unlink(v, p)
  <2> DEFINE fields == parts[v] \ {p}
  <2>1. Drafts(v, fields) /\ fields \in SUBSET Versions
    BY <1>0, <1>3 DEF Unlink, Editable, Free, GraphOf, Drafts, TypeOK
  <2>2. /\ \A x \in fields : Fits(v, x) /\ status[x] # "none"
        /\ fields \cap Indicators \subseteq parts[v]
    BY <1>0
  <2> HIDE DEF fields
  <2>3. Acyclic'
    BY <2>1, <2>2, PlainEdit
  <2>4. QED
    BY <2>1, <2>2, <2>3, DraftStep
<1>4. QED
  BY <1>1, <1>2, <1>3

\* Fitting is a matter of kinds.
LEMMA CopyStep ==
  ASSUME CatalogAssumption, CatalogInv, NEW v \in Versions, NEW copy \in Versions,
         CloneIndicator(v, copy) \/ DuplicateProfile(v, copy)
  PROVE  CatalogInv'
<1>0. /\ TypeOK /\ parts[v] \subseteq Versions
      /\ \A x \in parts[v] : Fits(v, x) /\ status[x] # "none"
      /\ Copy(v, copy)
  BY DEF CatalogInv, TypeOK, RowsOK, PartsStand, CloneIndicator, DuplicateProfile
<1>1. Drafts(copy, parts[v])
  BY <1>0 DEF CloneIndicator, DuplicateProfile, Copy, Free, Drafts, Is
<1>2. \A x \in parts[v] : Fits(copy, x)
  BY <1>0 DEF Copy, Fits, Field, Relation, SpecificationOfFlow,
       OrchestrationOfProfile, RuleOfSpecification, FlowOfProfile, IndicatorOfProfile,
       InputOfIndicator, RuleOfIndicator, Prerequisite, Is
<1>3. Acyclic'
  <2>1. CASE Is(copy, "indicator")
    <3>1. v \in Indicators /\ copy \in Indicators /\ copy \notin parts[v]
      BY <1>0, <2>1 DEF Copy, Indicators, Is
    <3>2. \A x \in Indicators : copy \notin parts[x]
      BY <1>0 DEF Copy, CatalogInv, RowsOK, PartsStand, Indicators
    <3>3. parts'[copy] = parts[v] /\ \A x \in Indicators \ {copy} : parts'[x] = parts[x]
      BY <1>0, <1>1 DEF Drafts, TypeOK, Indicators
    <3>4. QED
      BY <3>1, <3>2, <3>3, CopyKeepsAcyclic DEF CatalogInv, RowsOK
  <2>2. CASE ~Is(copy, "indicator")
    BY <1>0, <1>1, <2>2, PlainEdit
  <2>3. QED
    BY <2>1, <2>2
<1>4. QED
  BY <1>0, <1>1, <1>2, <1>3, DraftStep

-----------------------------------------------------------------------------
(***************************************************************************)
(* The steps of a worker.  What one has locked no other locks or releases. *)
(***************************************************************************)
Locking(w, rows, q) ==
  /\ \A r \in rows : lock[r] \in {w, None}
  /\ lock' = Taken(w, rows)
  /\ job' = [job EXCEPT ![w] = q]

Jobs ==
  [pc : {"idle", "publish", "link", "delete"}, v : Versions \cup {None},
   todo : SUBSET (Versions \X Versions), inputs : SUBSET Versions]

LEMMA LockingKeeps ==
  ASSUME CatalogAssumption, TypeOK, NEW w \in Workers, NEW rows \in SUBSET (Versions \cup {Graph}),
         NEW q \in Jobs, q # Idle, Locking(w, rows, q)
  PROVE  /\ lock' \in [Versions \cup {Graph} -> Holders]
         /\ job' \in [Workers -> Jobs]
         /\ \A u \in Workers, r \in Versions \cup {Graph} : lock'[r] = u => job'[u] # Idle
         /\ \A r \in rows : lock'[r] = w
         /\ \A u \in Workers, r \in Versions \cup {Graph} : lock[r] = u => lock'[r] = u
  BY DEF Locking, Taken, TypeOK, Holders, Jobs, CatalogAssumption

\* A step that only locks and notes leaves the rows and the others alone.
LEMMA LockingStep ==
  ASSUME CatalogAssumption, CatalogInv, NEW w \in Workers,
         NEW rows \in SUBSET (Versions \cup {Graph}), NEW q \in Jobs, q # Idle,
         Locking(w, rows, q), UNCHANGED <<status, dated, parts>>, JobOK(w)'
  PROVE  CatalogInv'
<1>1. TypeOK /\ RowsOK /\ \A u \in Workers : JobOK(u)
  BY DEF CatalogInv
<1>2. TypeOK'
  BY <1>1, LockingKeeps DEF TypeOK, Jobs, Holders
<1>3. RowsOK'
  BY <1>1 DEF RowsOK, DatesAgree, PartsStand, RestsOnPublished, Acyclic, Supplies, Reaches,
     Supplied, Indicators, Is, Fits, Field, Relation, SpecificationOfFlow,
     OrchestrationOfProfile, RuleOfSpecification, FlowOfProfile, IndicatorOfProfile,
     InputOfIndicator, RuleOfIndicator, Prerequisite
<1>4. Standing
  BY DEF Standing
<1>5. ASSUME NEW u \in Workers \ {w}
      PROVE  JobOK(u)'
  <2>1. Kept(u)
    BY <1>1, LockingKeeps DEF Kept, Locking, TypeOK
  <2>2. QED
    BY <1>1, <1>4, <2>1, OthersKeepJob DEF RowsOK
<1>6. QED
  BY <1>2, <1>3, <1>5 DEF CatalogInv

LEMMA BeginLinkStep ==
  ASSUME CatalogAssumption, CatalogInv, NEW w \in Workers, NEW v \in Versions, NEW p \in Versions,
         BeginLink(w, v, p)
  PROVE  CatalogInv'
<1>1. PICK q \in Jobs : q = [Idle EXCEPT !.pc = "link", !.v = v, !.todo = {<<p, v>>}]
  <2>1. {<<p, v>>} \in SUBSET (Versions \X Versions)
    OBVIOUS
  <2>2. [Idle EXCEPT !.pc = "link", !.v = v, !.todo = {<<p, v>>}] \in Jobs
    BY <2>1 DEF Idle, Jobs
  <2>3. QED
    BY <2>2
<1>2. q.pc = "link" /\ q.v = v /\ q.todo = {<<p, v>>} /\ q # Idle
  BY <1>1 DEF Idle
<1>3. Locking(w, {Graph, v, p}, q)
  BY <1>1 DEF BeginLink, Editable, GraphOf, Free, Locking
<1>4. {Graph, v, p} \in SUBSET (Versions \cup {Graph})
  OBVIOUS
<1>5. \A r \in {Graph, v, p} : lock'[r] = w
  BY <1>2, <1>3, <1>4, LockingKeeps DEF CatalogInv
<1>6. job'[w] = q
  BY <1>3 DEF Locking, CatalogInv, TypeOK
<1>7. /\ status[v] = "draft" /\ Relation(v, p) /\ status[p] # "none" /\ Is(v, "indicator")
      /\ Is(p, "indicator") => ~Reaches(p, v)
      /\ UNCHANGED <<status, dated, parts>>
  BY DEF BeginLink, Editable, Linkable, LinkableToProfile, LinkableToSpecification,
     LinkableToIndicator, WouldCreateCycle
<1>8. ~Reaches(p, v) => ~Reaches(p, v)'
  BY <1>7 DEF Reaches, Indicators, Is
<1>9. Links(w)'
  BY <1>2, <1>5, <1>6, <1>7, <1>8 DEF Links, Is, Relation, RuleOfSpecification, FlowOfProfile,
     IndicatorOfProfile, InputOfIndicator, RuleOfIndicator, Prerequisite, Reaches
<1>10. JobOK(w)'
  BY <1>2, <1>6, <1>9 DEF JobOK
<1>11. QED
  BY <1>2, <1>3, <1>7, <1>10, <1>4, LockingStep

LEMMA BeginDeleteStep ==
  ASSUME CatalogAssumption, CatalogInv, NEW w \in Workers, NEW v \in Versions, BeginDelete(w, v)
  PROVE  CatalogInv'
<1> DEFINE q == [Idle EXCEPT !.pc = "delete", !.v = v]
<1>1. q.pc = "delete" /\ q.v = v /\ q \in Jobs /\ q # Idle
  BY DEF Idle, Jobs
<1>2. Locking(w, LockedForDeletion(v), q)
  BY DEF BeginDelete, Free, Locking
<1>3. LockedForDeletion(v) \in SUBSET (Versions \cup {Graph})
  BY DEF LockedForDeletion
<1> HIDE DEF q
<1>4. job'[w] = q
  BY <1>2 DEF Locking, CatalogInv, TypeOK
<1>5. JobOK(w)'
  BY <1>1, <1>4 DEF JobOK
<1>6. QED
  BY <1>1, <1>2, <1>3, <1>5, LockingStep DEF BeginDelete

LEMMA BeginPublishStep ==
  ASSUME CatalogAssumption, CatalogInv, NEW w \in Workers, NEW v \in Versions, BeginPublish(w, v)
  PROVE  CatalogInv'
<1>1. parts[v] \subseteq Versions /\ TypeOK
  BY DEF CatalogInv, TypeOK
<1> DEFINE todo == {<<p, v>> : p \in parts[v]}
<1>2. todo \in SUBSET (Versions \X Versions)
  BY <1>1
<1> HIDE DEF todo
<1>3. PICK q \in Jobs : q = [Idle EXCEPT !.pc = "publish", !.v = v, !.todo = todo]
  <2>1. [Idle EXCEPT !.pc = "publish", !.v = v, !.todo = todo] \in Jobs
    BY <1>2 DEF Idle, Jobs
  <2>2. QED
    BY <2>1
<1>4. q.pc = "publish" /\ q.v = v /\ q.todo = todo /\ q # Idle
  BY <1>3 DEF Idle
<1>5. Locking(w, Locked(v), q)
  BY <1>3 DEF BeginPublish, Free, Locking, todo
<1>6. \A p \in parts[v] : <<p, v>> \in q.todo
  BY <1>4 DEF todo
<1>7. Locked(v) \in SUBSET (Versions \cup {Graph})
  BY <1>1 DEF Locked, LockedForFlow, LockedForProfile, LockedForIndicator, GraphOf
<1>8. job'[w] = q
  BY <1>1, <1>5 DEF Locking, TypeOK
<1>9. \A r \in Locked(v) : lock'[r] = w
  BY <1>1, <1>4, <1>5, <1>7, LockingKeeps
<1>10. UNCHANGED <<status, dated, parts>> /\ status[v] = "draft"
  BY DEF BeginPublish
<1>11. /\ lock'[v] = w
       /\ \A p \in parts[v] : Field(v, p) => lock'[p] = w
       /\ Is(v, "indicator") => lock'[Graph] = w
  BY <1>9 DEF Locked, LockedForFlow, LockedForProfile, LockedForIndicator, GraphOf, Field,
     SpecificationOfFlow, OrchestrationOfProfile
<1>12. Visited(q, {})'
  BY <1>4, <1>6, <1>10 DEF Visited
<1>13. Publishes(w)'
  <2>1. \E seen \in SUBSET dated' : Visited(job[w], seen)'
    <3>1. Visited(job[w], {})'
      BY <1>8, <1>12 DEF Visited
    <3>2. QED
      BY <3>1
  <2>2. /\ job'[w].v = v /\ status'[v] = "draft" /\ parts'[v] = parts[v]
        /\ \A p \in parts[v] : <<p, v>> \in job'[w].todo
    BY <1>4, <1>6, <1>8, <1>10
  <2>3. \A p \in parts[v] : Field(v, p)' => lock'[p] = w
    BY <1>11 DEF Field, SpecificationOfFlow, OrchestrationOfProfile, Is
  <2>4. QED
    BY <1>11, <2>1, <2>2, <2>3 DEF Publishes, Is
<1>14. JobOK(w)'
  BY <1>4, <1>8, <1>13 DEF JobOK
<1>15. QED
  BY <1>4, <1>5, <1>7, <1>10, <1>14, LockingStep

\* A part that is published is visited, and its own parts are to be read.
LEMMA VisitedGrows ==
  ASSUME CatalogAssumption, NEW q, NEW n, NEW seen, NEW p \in Versions, NEW by \in Versions,
         Visited(q, seen), n.v = q.v,
         n.todo = (q.todo \ {<<p, by>>}) \cup Explored(p),
         n.inputs = IF InputOfIndicator(by, p) THEN q.inputs \cup {p} ELSE q.inputs
  PROVE  Visited(n, seen \cup {p})
<1>1. \A x, y : <<x, y>> \in q.todo => <<x, y>> \in n.todo \/ (x = p /\ y = by)
  OBVIOUS
<1>2. Kind[p] \in {"flow", "indicator"} => \A x \in parts[p] : <<x, p>> \in n.todo
  BY DEF Explored
<1>3. q.inputs \subseteq n.inputs
  OBVIOUS
<1>4. Is(by, "indicator") /\ Is(p, "spec") => p \in n.inputs
  BY DEF InputOfIndicator
<1>5. \A x \in parts[n.v] : <<x, n.v>> \in n.todo \/ x \in seen \cup {p}
  BY <1>1 DEF Visited
<1>6. \A y \in seen \cup {p} : Kind[y] \in {"flow", "indicator"} =>
        \A x \in parts[y] : <<x, y>> \in n.todo \/ x \in seen \cup {p}
  BY <1>1, <1>2 DEF Visited
<1>7. \A y \in seen \cup {p} : Is(y, "indicator") =>
        \A x \in parts[y] : Is(x, "spec") => <<x, y>> \in n.todo \/ x \in n.inputs
  BY <1>1, <1>2, <1>3, <1>4 DEF Visited, Is
<1>8. QED
  BY <1>5, <1>6, <1>7 DEF Visited

LEMMA ReadPartStep ==
  ASSUME CatalogAssumption, CatalogInv, NEW w \in Workers, NEW v \in Versions, NEW p \in Versions,
         ReadPart(w, p, v)
  PROVE  CatalogInv'
<1> DEFINE rows == IF LockedRead(p, v) THEN {p, v} ELSE {}
           todo == (job[w].todo \ {<<p, v>>}) \cup Explored(p)
           inputs == IF InputOfIndicator(v, p) THEN job[w].inputs \cup {p} ELSE job[w].inputs
<1>1. /\ TypeOK /\ job[w] \in Jobs /\ JobOK(w)
      /\ job[w].pc = "publish" /\ <<p, v>> \in job[w].todo /\ status[p] = "published"
      /\ UNCHANGED <<status, dated, parts>>
  BY DEF CatalogInv, TypeOK, Jobs, ReadPart
<1>2. todo \in SUBSET (Versions \X Versions) /\ inputs \in SUBSET Versions
  <2>1. parts[p] \subseteq Versions
    BY <1>1 DEF TypeOK
  <2>2. job[w].todo \in SUBSET (Versions \X Versions) /\ job[w].inputs \in SUBSET Versions
    BY <1>1 DEF Jobs
  <2>3. QED
    BY <2>1, <2>2 DEF Explored
<1>3. PICK q \in Jobs : q = [job[w] EXCEPT !.todo = todo, !.inputs = inputs]
  <2>1. [job[w] EXCEPT !.todo = todo, !.inputs = inputs] \in Jobs
    BY <1>1, <1>2 DEF Jobs
  <2>2. QED
    BY <2>1
<1>4. /\ q.pc = "publish" /\ q.v = job[w].v /\ q # Idle
      /\ q.todo = todo /\ q.inputs = inputs
  BY <1>1, <1>3 DEF Jobs, Idle
<1>5. Locking(w, rows, q)
  BY <1>1, <1>3 DEF ReadPart, Locking, FreeOrMine, TypeOK
<1>6. job'[w] = q
  BY <1>1, <1>5 DEF Locking, TypeOK
<1>7. rows \in SUBSET (Versions \cup {Graph})
  OBVIOUS
<1>8. /\ \A r \in rows : lock'[r] = w
      /\ \A r \in Versions \cup {Graph} : lock[r] = w => lock'[r] = w
  BY <1>1, <1>4, <1>5, <1>7, LockingKeeps
<1>9. Publishes(w)
  BY <1>1 DEF JobOK
<1> DEFINE u == job[w].v
<1>10. /\ u \in Versions /\ lock'[u] = w /\ status'[u] = "draft"
       /\ parts[u] \subseteq Versions
       /\ \A x \in parts[u] : Field(u, x) => lock'[x] = w
       /\ Is(u, "indicator") => lock'[Graph] = w
  BY <1>1, <1>8, <1>9 DEF Publishes, TypeOK
<1>11. ASSUME NEW x \in parts[u], Steady(u, x), <<x, u>> \notin q.todo
       PROVE  Secured(w, x)'
  <2>1. CASE <<x, u>> \in job[w].todo
    <3>1. x = p /\ u = v
      BY <1>4, <1>11, <2>1
    <3>2. Fits(u, x)
      BY <1>10 DEF CatalogInv, RowsOK, PartsStand
    <3>3. \/ Field(u, x) \/ LockedRead(x, u)
          \/ Is(x, "indicator") /\ Is(u, "indicator")
      BY <1>11, <3>2 DEF Steady, Fits, Field, LockedRead, Relation, RuleOfSpecification,
         FlowOfProfile, IndicatorOfProfile, InputOfIndicator, RuleOfIndicator, Prerequisite,
         SpecificationOfFlow, OrchestrationOfProfile, Is
    <3>4. LockedRead(x, u) => lock'[x] = w
      BY <1>8, <3>1
    <3>5. lock'[x] = w \/ (Is(x, "indicator") /\ lock'[Graph] = w)
      BY <1>10, <3>3, <3>4
    <3>6. QED
      BY <1>1, <3>1, <3>5 DEF Secured, Is
  <2>2. CASE <<x, u>> \notin job[w].todo
    <3>1. Secured(w, x)
      BY <1>9, <1>11, <2>2 DEF Publishes
    <3>2. QED
      BY <1>1, <1>8, <1>10, <3>1 DEF Secured, Is
  <2>3. QED
    BY <2>1, <2>2
<1>12. \E seen \in SUBSET dated' : Visited(job[w], seen)'
  <2>1. PICK seen \in SUBSET dated : Visited(job[w], seen)
    BY <1>9 DEF Publishes
  <2>2. p \in dated
    BY <1>1 DEF CatalogInv, RowsOK, DatesAgree
  <2>3. Visited(q, seen \cup {p})
    <3>1. PICK c : c = job[w]
      OBVIOUS
    <3>2. /\ Visited(c, seen) /\ q.v = c.v
          /\ q.todo = (c.todo \ {<<p, v>>}) \cup Explored(p)
          /\ q.inputs = IF InputOfIndicator(v, p) THEN c.inputs \cup {p} ELSE c.inputs
      BY <1>4, <2>1, <3>1
    <3>3. QED
      BY <3>2, VisitedGrows
  <2>4. PICK all \in SUBSET dated : all = seen \cup {p}
    BY <2>2
  <2>5. Visited(q, all)'
    BY <1>1, <2>3, <2>4 DEF Visited, Is
  <2>6. Visited(job[w], all)'
    BY <1>6, <2>5 DEF Visited
  <2>7. QED
    BY <1>1, <2>6
<1> HIDE DEF todo, inputs, rows
<1>13. Publishes(w)'
  BY <1>1, <1>4, <1>6, <1>10, <1>11, <1>12 DEF Publishes, Field, SpecificationOfFlow,
     OrchestrationOfProfile, Steady, Is
<1>14. JobOK(w)'
  BY <1>4, <1>6, <1>13 DEF JobOK
<1>15. QED
  BY <1>1, <1>4, <1>5, <1>7, <1>14, LockingStep

-----------------------------------------------------------------------------
(***************************************************************************)
(* A version is retired, and the ends of the transactions.                 *)
(***************************************************************************)
LEMMA RetireStep ==
  ASSUME CatalogAssumption, CatalogInv, NEW v \in Versions, Deprecate(v) \/ Withdraw(v)
  PROVE  CatalogInv'
<1>1. PICK s \in {"deprecated", "withdrawn"} :
        /\ s \in After(status[v]) /\ Free(Locked(v))
        /\ status' = [status EXCEPT ![v] = s]
        /\ UNCHANGED <<dated, parts, lock, job>>
  BY DEF Deprecate, Withdraw
<1>2. TypeOK /\ RowsOK /\ (\A u \in Workers : JobOK(u)) /\ lock[v] = None
  BY <1>1 DEF CatalogInv, Free, Locked
<1>3. (status[v] = "draft" /\ s = "withdrawn") \/ status[v] \in {"published", "deprecated"}
  BY <1>1 DEF After
<1>4. TypeOK'
  BY <1>1, <1>2 DEF TypeOK, Lifecycle
<1>5. DatesAgree'
  BY <1>1, <1>2, <1>3 DEF DatesAgree, RowsOK, TypeOK
<1>6. PartsStand'
  <2>1. \A x \in Versions : status[x] # "none" => status'[x] # "none"
    BY <1>1, <1>2 DEF TypeOK
  <2>2. \A x \in Versions : parts[x] \subseteq Versions
    BY <1>2 DEF TypeOK
  <2>3. QED
    BY <1>1, <1>2, <2>1, <2>2 DEF RowsOK, PartsStand, Fits, Field, Relation,
       SpecificationOfFlow, OrchestrationOfProfile, RuleOfSpecification, FlowOfProfile,
       IndicatorOfProfile, InputOfIndicator, RuleOfIndicator, Prerequisite, Is
<1>7. RowsOK'
  BY <1>1, <1>2, <1>5, <1>6 DEF RowsOK, RestsOnPublished, Acyclic, Supplies, Reaches, Supplied,
     Indicators, Is
<1>8. ASSUME NEW u \in Workers
      PROVE  JobOK(u)'
  <2>1. Is(v, "indicator") => lock[Graph] = None
    BY <1>1 DEF Free, Locked, LockedForIndicator, GraphOf
  <2>2. Kept(u)
    BY <1>1, <1>2, <2>1 DEF Kept, TypeOK, CatalogAssumption, Indicators, Is
  <2>3. Standing
    BY <1>1 DEF Standing
  <2>4. QED
    BY <1>2, <2>2, <2>3, OthersKeepJob DEF RowsOK
<1>9. QED
  BY <1>4, <1>7, <1>8 DEF CatalogInv

LEMMA FinishKeeps ==
  ASSUME CatalogAssumption, TypeOK, NEW w \in Workers, Finish(w)
  PROVE  /\ lock' \in [Versions \cup {Graph} -> Holders]
         /\ job' \in [Workers -> Jobs]
         /\ \A u \in Workers, r \in Versions \cup {Graph} : lock'[r] = u => job'[u] # Idle
         /\ \A u \in Workers \ {w} :
              /\ job'[u] = job[u]
              /\ \A r \in Versions \cup {Graph} : lock[r] = u => lock'[r] = u
         /\ JobOK(w)'
<1>1. Idle \in Jobs /\ Idle.pc = "idle"
  BY DEF Idle, Jobs
<1>2. job' \in [Workers -> Jobs] /\ job'[w] = Idle
  BY <1>1 DEF Finish, TypeOK, Jobs
<1>3. lock' \in [Versions \cup {Graph} -> Holders]
  BY DEF Finish, Released, TypeOK, Holders
<1>4. \A u \in Workers \ {w} :
        /\ job'[u] = job[u]
        /\ \A r \in Versions \cup {Graph} : lock[r] = u <=> lock'[r] = u
  BY DEF Finish, Released, TypeOK, CatalogAssumption
<1>5. \A r \in Versions \cup {Graph} : lock'[r] # w
  BY DEF Finish, Released, TypeOK, CatalogAssumption
<1>6. JobOK(w)'
  BY <1>1, <1>2 DEF JobOK
<1>7. QED
  BY <1>2, <1>3, <1>4, <1>5, <1>6 DEF TypeOK

\* What is common to the ends: the row written was the worker's own.
LEMMA FinishStep ==
  ASSUME CatalogAssumption, CatalogInv, NEW w \in Workers, Finish(w),
         status' \in [Versions -> Lifecycle \cup {"none"}], dated' \subseteq Versions,
         parts' \in [Versions -> SUBSET Versions],
         Standing, DatesAgree', PartsStand', RestsOnPublished', Acyclic',
         \A v \in dated' \ dated : Supplies(v)',
         \A u \in Workers \ {w} : Kept(u)
  PROVE  CatalogInv'
<1>1. TypeOK /\ RowsOK /\ \A u \in Workers : JobOK(u)
  BY DEF CatalogInv
<1>2. TypeOK'
  BY <1>1, FinishKeeps DEF TypeOK, Jobs, Holders
<1>3. \A v \in dated : Supplies(v)'
  BY <1>1, SuppliesStands DEF RowsOK
<1>4. RowsOK'
  BY <1>3 DEF RowsOK
<1>5. \A u \in Workers \ {w} : JobOK(u)'
  BY <1>1, OthersKeepJob DEF RowsOK
<1>6. QED
  BY <1>1, <1>2, <1>4, <1>5, FinishKeeps DEF CatalogInv

LEMMA AbortStep ==
  ASSUME CatalogAssumption, CatalogInv, NEW w \in Workers, Abort(w)
  PROVE  CatalogInv'
<1>1. TypeOK /\ RowsOK /\ Finish(w) /\ UNCHANGED <<status, dated, parts>>
  BY DEF CatalogInv, Abort
<1>2. Standing
  BY <1>1 DEF Standing
<1>3. /\ DatesAgree' /\ PartsStand' /\ RestsOnPublished' /\ Acyclic'
      /\ dated' \ dated = {}
  BY <1>1 DEF RowsOK, DatesAgree, PartsStand, RestsOnPublished, Acyclic, Reaches,
     Indicators, Is, Fits, Field, Relation, SpecificationOfFlow,
     OrchestrationOfProfile, RuleOfSpecification, FlowOfProfile, IndicatorOfProfile,
     InputOfIndicator, RuleOfIndicator, Prerequisite
<1>4. \A u \in Workers \ {w} : Kept(u)
  BY <1>1, FinishKeeps DEF Kept
<1>5. QED
  BY <1>1, <1>2, <1>3, <1>4, FinishStep DEF TypeOK

LEMMA CommitLinkStep ==
  ASSUME CatalogAssumption, CatalogInv, NEW w \in Workers, CommitLink(w)
  PROVE  CatalogInv'
<1> DEFINE v == job[w].v
<1>1. /\ TypeOK /\ RowsOK /\ Finish(w) /\ UNCHANGED <<status, dated>>
      /\ parts' = [parts EXCEPT ![v] = @ \cup {e[1] : e \in job[w].todo}]
      /\ Links(w)
  BY DEF CatalogInv, CommitLink, JobOK
<1>2. PICK p \in Versions :
        /\ job[w].todo = {<<p, v>>}
        /\ Relation(v, p) /\ lock[p] = w /\ status[p] # "none"
        /\ Is(p, "indicator") => ~Reaches(p, v)
  BY <1>1 DEF Links
<1>3. /\ v \in Versions /\ v \in Indicators /\ lock[v] = w /\ lock[Graph] = w
      /\ status[v] = "draft" /\ v \notin dated
  BY <1>1 DEF Links, RowsOK, DatesAgree, Indicators
<1>4. parts' = [parts EXCEPT ![v] = @ \cup {p}]
  <2>1. {e[1] : e \in job[w].todo} = {p}
    BY <1>2
  <2>2. QED
    BY <1>1, <2>1
<1> HIDE DEF v
<1>5. /\ parts' \in [Versions -> SUBSET Versions]
      /\ \A x \in Versions : parts'[x] = IF x = v THEN parts[v] \cup {p} ELSE parts[x]
      /\ \A x \in Versions : parts[x] \subseteq Versions
  <2>1. parts \in [Versions -> SUBSET Versions]
    BY <1>1 DEF TypeOK
  <2>2. \A x \in Versions : parts[x] \subseteq Versions
    BY <2>1
  <2>3. \A x \in Versions : parts'[x] = IF x = v THEN parts[v] \cup {p} ELSE parts[x]
    BY <1>3, <1>4, <2>1
  <2>4. parts[v] \cup {p} \in SUBSET Versions
    BY <1>3, <2>2
  <2>5. parts' \in [Versions -> SUBSET Versions]
    BY <1>4, <2>1, <2>4
  <2>6. QED
    BY <2>2, <2>3, <2>5
<1>6. Standing
  BY <1>1, <1>3, <1>5 DEF Standing, TypeOK
<1>7. DatesAgree' /\ RestsOnPublished'
  BY <1>1, <1>6 DEF RowsOK, DatesAgree, RestsOnPublished, Standing
<1>8. PartsStand'
  BY <1>1, <1>2, <1>5 DEF RowsOK, PartsStand, Fits, Field, Relation, SpecificationOfFlow,
     OrchestrationOfProfile, RuleOfSpecification, FlowOfProfile, IndicatorOfProfile,
     InputOfIndicator, RuleOfIndicator, Prerequisite, Is
<1>9. Acyclic'
  <2>1. CASE p \in Indicators
    BY <1>1, <1>2, <1>3, <1>5, <2>1, LinkKeepsAcyclic DEF RowsOK, Indicators
  <2>2. CASE p \notin Indicators
    <3>1. \A x \in Indicators : parts'[x] \cap Indicators \subseteq parts[x]
      BY <1>5, <2>2 DEF Indicators
    <3>2. QED
      BY <1>1, <3>1, FewerEdgesAcyclic DEF RowsOK
  <2>3. QED
    BY <2>1, <2>2
<1>10. \A u \in Workers \ {w} : Kept(u)
  BY <1>1, <1>3, <1>5, FinishKeeps DEF Kept
<1>11. dated' \subseteq Versions /\ status' \in [Versions -> Lifecycle \cup {"none"}]
       /\ dated' \ dated = {}
  BY <1>1 DEF TypeOK
<1>12. QED
  BY <1>1, <1>5, <1>6, <1>7, <1>8, <1>9, <1>10, <1>11, FinishStep

\* What was read was published, and supplies what was found to be required.
LEMMA CommitPublishStep ==
  ASSUME CatalogAssumption, CatalogInv, NEW w \in Workers, CommitPublish(w)
  PROVE  CatalogInv'
<1>0. PICK v \in Versions : v = job[w].v
  BY DEF CatalogInv, CommitPublish, JobOK, Publishes
<1>1. /\ TypeOK /\ RowsOK /\ Finish(w) /\ UNCHANGED parts
      /\ status' = [status EXCEPT ![v] = "published"] /\ dated' = dated \cup {v}
      /\ job[w].todo = {}
      /\ Is(v, "profile") => job[w].inputs \subseteq Supplied(v)
      /\ Publishes(w)
  BY <1>0 DEF CatalogInv, CommitPublish, JobOK
<1>2. PICK seen \in SUBSET dated : Visited(job[w], seen)
  BY <1>1 DEF Publishes
<1>3. /\ v \in Versions /\ lock[v] = w /\ status[v] = "draft" /\ v \notin dated
      /\ Is(v, "indicator") => lock[Graph] = w
  BY <1>0, <1>1 DEF Publishes, RowsOK, DatesAgree
<1>4. /\ parts[v] \subseteq seen
      /\ \A x \in seen : Is(x, "indicator") => parts[x] \subseteq seen
      /\ \A x \in seen : Is(x, "indicator") =>
           {p \in parts[x] : Is(p, "spec")} \subseteq job[w].inputs
  BY <1>0, <1>1, <1>2 DEF Visited, Is
<1>5. seen \subseteq Versions /\ \A x \in Versions : parts[x] \subseteq Versions
  BY <1>1 DEF TypeOK
<1>6. Standing
  BY <1>1 DEF Standing
<1>7. DatesAgree'
  BY <1>1, <1>3 DEF RowsOK, DatesAgree, TypeOK
<1>8. RestsOnPublished'
  BY <1>1, <1>4 DEF RowsOK, RestsOnPublished
<1>9. Acyclic'
  BY <1>1 DEF RowsOK, Acyclic, Reaches, Indicators, Is
<1>10. PartsStand'
  <2>1. \A x \in Versions : status[x] # "none" => status'[x] # "none"
    BY <1>1 DEF TypeOK
  <2>2. QED
    BY <1>1, <1>5, <2>1 DEF RowsOK, PartsStand, Fits, Field, Relation, SpecificationOfFlow,
       OrchestrationOfProfile, RuleOfSpecification, FlowOfProfile, IndicatorOfProfile,
       InputOfIndicator, RuleOfIndicator, Prerequisite, Is
<1>11. Supplies(v)'
  <2> SUFFICES ASSUME Is(v, "profile"), NEW root \in parts[v] \cap Indicators,
                      NEW i \in Indicators, Reaches(root, i), NEW p \in parts[i], Is(p, "spec")
               PROVE  p \in Supplied(v)
    BY <1>1 DEF Supplies, Supplied, Reaches, Indicators, Is
  <2>1. i \in seen
    <3>1. /\ root \in seen \cap Indicators
          /\ \A x \in seen \cap Indicators : parts[x] \cap Indicators \subseteq seen \cap Indicators
      BY <1>4 DEF Indicators
    <3>2. QED
      BY <3>1 DEF Reaches
  <2>2. p \in job[w].inputs
    BY <1>4, <2>1 DEF Indicators
  <2>3. QED
    BY <1>1, <2>2
<1>12. \A u \in Workers \ {w} : Kept(u)
  <2>1. ASSUME NEW x \in Versions, status[x] = "published"
        PROVE  status'[x] = "published"
    BY <1>1, <2>1 DEF TypeOK
  <2>2. QED
    BY <1>1, <1>3, <2>1, FinishKeeps DEF Kept, TypeOK, Indicators
<1>13. /\ dated' \subseteq Versions /\ status' \in [Versions -> Lifecycle \cup {"none"}]
       /\ parts' \in [Versions -> SUBSET Versions] /\ dated' \ dated \subseteq {v}
  BY <1>1, <1>3 DEF TypeOK, Lifecycle
<1>14. \A x \in dated' \ dated : Supplies(x)'
  BY <1>11, <1>13
<1>15. QED
  BY <1>1, <1>6, <1>7, <1>8, <1>9, <1>10, <1>12, <1>13, <1>14, FinishStep

\* Nothing refers to what is deleted, and it was never published.
LEMMA CommitDeleteStep ==
  ASSUME CatalogAssumption, CatalogInv, NEW w \in Workers, CommitDelete(w)
  PROVE  CatalogInv'
<1>1. PICK v \in Versions :
        /\ lock[v] \in {w, None}
        /\ \A x \in Versions : v \notin parts[x]
        /\ status[v] \in {"none", "draft"}
        /\ status' = [status EXCEPT ![v] = "none"]
        /\ parts' = [parts EXCEPT ![v] = {}]
        /\ Finish(w) /\ UNCHANGED dated
  <2>1. job[w].v \in Versions
    BY DEF CatalogInv, JobOK, CommitDelete
  <2>2. status[job[w].v] \in Lifecycle \cup {"none"}
    BY <2>1 DEF CatalogInv, TypeOK
  <2>3. QED
    BY <2>1, <2>2 DEF CommitDelete, FreeOrMine, Protected, Referred, HasEvents, Lifecycle
<1>2. /\ TypeOK /\ RowsOK
      /\ \A x \in Versions : parts[x] \subseteq Versions
      /\ \A x \in Versions : parts'[x] = IF x = v THEN {} ELSE parts[x]
      /\ parts' \in [Versions -> SUBSET Versions]
      /\ status' \in [Versions -> Lifecycle \cup {"none"}]
      /\ \A x \in Versions : status'[x] = IF x = v THEN "none" ELSE status[x]
  BY <1>1 DEF CatalogInv, TypeOK
<1>3. v \notin dated
  BY <1>1, <1>2 DEF RowsOK, DatesAgree
<1>4. Standing
  BY <1>1, <1>2, <1>3 DEF Standing, TypeOK
<1>5. DatesAgree' /\ RestsOnPublished'
  BY <1>1, <1>2, <1>3, <1>4 DEF RowsOK, DatesAgree, RestsOnPublished, Standing
<1>6. PartsStand'
  BY <1>1, <1>2 DEF RowsOK, PartsStand, Fits, Field, Relation, SpecificationOfFlow,
     OrchestrationOfProfile, RuleOfSpecification, FlowOfProfile, IndicatorOfProfile,
     InputOfIndicator, RuleOfIndicator, Prerequisite, Is
<1>7. \A x \in Indicators : parts'[x] \cap Indicators \subseteq parts[x]
  BY <1>2 DEF Indicators
<1>8. Acyclic'
  BY <1>2, <1>7, FewerEdgesAcyclic DEF RowsOK
<1>9. \A u \in Workers \ {w} : Kept(u)
  <2>1. \A u \in Workers \ {w} : lock[v] # u
    BY <1>1 DEF CatalogAssumption
  <2>2. \A x \in Indicators : status[x] = "published" => status'[x] = "published"
    BY <1>1, <1>2 DEF Indicators
  <2>3. QED
    BY <1>1, <1>2, <1>7, <2>1, <2>2, FinishKeeps DEF Kept
<1>10. dated' \subseteq Versions /\ dated' \ dated = {}
  BY <1>1, <1>2 DEF TypeOK
<1>11. QED
  BY <1>1, <1>2, <1>4, <1>5, <1>6, <1>8, <1>9, <1>10, FinishStep

-----------------------------------------------------------------------------
LEMMA CatalogInit == CatalogAssumption /\ Init => CatalogInv
<1> SUFFICES ASSUME CatalogAssumption, Init
             PROVE  CatalogInv
  OBVIOUS
<1>1. Idle \in Jobs /\ Idle.pc = "idle"
  BY DEF Idle, Jobs
<1>2. TypeOK
  BY <1>1 DEF Init, TypeOK, Holders, Jobs, CatalogAssumption
<1>3. RowsOK
  BY DEF Init, RowsOK, DatesAgree, PartsStand, RestsOnPublished, Acyclic, Indicators
<1>4. \A w \in Workers : JobOK(w)
  BY <1>1 DEF Init, JobOK
<1>5. QED
  BY <1>2, <1>3, <1>4 DEF CatalogInv

LEMMA CatalogStutter ==
  ASSUME CatalogAssumption, CatalogInv, UNCHANGED vars
  PROVE  CatalogInv'
<1>1. TypeOK /\ RowsOK /\ UNCHANGED <<status, dated, parts, lock, job>>
  BY DEF CatalogInv, vars
<1>2. TypeOK'
  BY <1>1 DEF TypeOK
<1>3. RowsOK'
  BY <1>1 DEF RowsOK, DatesAgree, PartsStand, RestsOnPublished, Acyclic, Supplies, Reaches,
     Supplied, Indicators, Is, Fits, Field, Relation, SpecificationOfFlow,
     OrchestrationOfProfile, RuleOfSpecification, FlowOfProfile, IndicatorOfProfile,
     InputOfIndicator, RuleOfIndicator, Prerequisite
<1>4. Standing /\ \A u \in Workers : Kept(u)
  BY <1>1 DEF Standing, Kept
<1>5. \A u \in Workers : JobOK(u)'
  BY <1>1, <1>4, OthersKeepJob DEF CatalogInv, RowsOK
<1>6. QED
  BY <1>2, <1>3, <1>5 DEF CatalogInv

LEMMA CatalogStep ==
  ASSUME CatalogAssumption, CatalogInv, [Next]_vars
  PROVE  CatalogInv'
<1>1. CASE UNCHANGED vars
  BY <1>1, CatalogStutter
<1>2. CASE Next
  BY <1>2, CreateStep, EditStep, CopyStep, BeginLinkStep, BeginDeleteStep, BeginPublishStep,
     ReadPartStep, RetireStep, AbortStep, CommitLinkStep, CommitPublishStep, CommitDeleteStep
     DEF Next
<1>3. QED
  BY <1>1, <1>2

THEOREM CatalogInvariant == CatalogAssumption => (Spec => []CatalogInv)
<1> SUFFICES ASSUME CatalogAssumption
             PROVE  Spec => []CatalogInv
  OBVIOUS
<1>1. Init => CatalogInv
  BY CatalogInit
<1>2. CatalogInv /\ [Next]_vars => CatalogInv'
  BY CatalogStep
<1>3. QED
  BY <1>1, <1>2, PTL DEF Spec

\* What the rows promise is part of the invariant.
LEMMA RowsPromise == CatalogInv => RestsOnPublished /\ InputsAreSupplied /\ Acyclic
  BY DEF CatalogInv, RowsOK, InputsAreSupplied, Supplies

\* A version that has left the draft is written by its own life only.
LEMMA FrozenStep ==
  ASSUME CatalogInv, [Next]_vars
  PROVE  Frozen
<1> SUFFICES ASSUME NEW v \in Versions, status[v] \in Lifecycle \ {"draft"}
             PROVE  parts'[v] = parts[v] /\ status'[v] \in {status[v]} \cup After(status[v])
  BY DEF Frozen
<1>0. TypeOK /\ \A w \in Workers : JobOK(w)
  BY DEF CatalogInv
<1>1. CASE UNCHANGED <<status, parts>>
  BY <1>1
<1>2. ASSUME NEW x \in Versions, NEW p \in Versions,
             \/ CreateRule(x) \/ CreateSpecification(x) \/ CreateOrchestration(x)
             \/ CreateIndicator(x) \/ CreateFlow(x, p) \/ CreateProfile(x, p)
             \/ ChangeFlow(x, p) \/ ChangeProfile(x, p) \/ Link(x, p) \/ Unlink(x, p)
      PROVE  parts'[v] = parts[v] /\ status'[v] = status[v]
  BY <1>0, <1>2 DEF TypeOK, CreateRule, CreateSpecification, CreateOrchestration, CreateIndicator,
     CreateFlow, CreateProfile, New, ChangeFlow, ChangeProfile, Change, Link, Unlink, Editable,
     Lifecycle
<1>3. ASSUME NEW x \in Versions, NEW copy \in Versions,
             CloneIndicator(x, copy) \/ DuplicateProfile(x, copy)
      PROVE  parts'[v] = parts[v] /\ status'[v] = status[v]
  BY <1>0, <1>3 DEF TypeOK, CloneIndicator, DuplicateProfile, Copy, Lifecycle
<1>4. ASSUME NEW x \in Versions, Deprecate(x) \/ Withdraw(x)
      PROVE  parts'[v] = parts[v] /\ status'[v] \in {status[v]} \cup After(status[v])
  BY <1>0, <1>4 DEF TypeOK, Deprecate, Withdraw
<1>5. ASSUME NEW w \in Workers, CommitLink(w)
      PROVE  parts'[v] = parts[v] /\ status'[v] = status[v]
  <2>1. status[job[w].v] = "draft"
    BY <1>0, <1>5 DEF CommitLink, JobOK, Links
  <2>2. QED
    BY <1>0, <1>5, <2>1 DEF CommitLink, TypeOK
<1>6. ASSUME NEW w \in Workers, CommitPublish(w)
      PROVE  parts'[v] = parts[v] /\ status'[v] = status[v]
  <2>1. status[job[w].v] = "draft"
    BY <1>0, <1>6 DEF CommitPublish, JobOK, Publishes
  <2>2. QED
    BY <1>0, <1>6, <2>1 DEF CommitPublish, TypeOK
<1>7. ASSUME NEW w \in Workers, CommitDelete(w)
      PROVE  parts'[v] = parts[v] /\ status'[v] = status[v]
  <2>1. job[w].v # v
    BY <1>7 DEF CommitDelete, HasEvents
  <2>2. QED
    BY <1>0, <1>7, <2>1 DEF CommitDelete, TypeOK
<1>8. ASSUME NEW w \in Workers, NEW x \in Versions, NEW p \in Versions,
             \/ BeginPublish(w, x) \/ BeginDelete(w, x) \/ BeginLink(w, x, p)
             \/ ReadPart(w, p, x) \/ Abort(w)
      PROVE  UNCHANGED <<status, parts>>
  BY <1>8 DEF BeginPublish, BeginDelete, BeginLink, ReadPart, Abort
<1>9. CASE UNCHANGED vars
  BY <1>9 DEF vars
<1>10. CASE Next
  BY <1>1, <1>2, <1>3, <1>4, <1>5, <1>6, <1>7, <1>8, <1>10 DEF Next
<1>11. QED
  BY <1>9, <1>10

\* Only a publication publishes, and what it read under a lock is still published.
LEMMA OverPublishedStep ==
  ASSUME CatalogInv, [Next]_vars
  PROVE  OverPublished
<1> SUFFICES ASSUME NEW v \in Versions, Published(v), NEW p \in parts[v], Steady(v, p)
             PROVE  status[p] = "published"
  BY DEF OverPublished
<1>0. TypeOK /\ \A w \in Workers : JobOK(w)
  BY DEF CatalogInv
<1>1. PICK w \in Workers : CommitPublish(w)
  <2>1. CASE UNCHANGED vars
    BY <2>1 DEF vars, Published
  <2>2. ASSUME NEW x \in Versions, NEW q \in Versions,
               \/ CreateRule(x) \/ CreateSpecification(x) \/ CreateOrchestration(x)
               \/ CreateIndicator(x) \/ CreateFlow(x, q) \/ CreateProfile(x, q)
               \/ ChangeFlow(x, q) \/ ChangeProfile(x, q) \/ Link(x, q) \/ Unlink(x, q)
               \/ CloneIndicator(x, q) \/ DuplicateProfile(x, q)
        PROVE  status'[v] \in {status[v], "draft"}
    BY <1>0, <2>2 DEF TypeOK, CreateRule, CreateSpecification, CreateOrchestration,
       CreateIndicator, CreateFlow, CreateProfile, New, ChangeFlow, ChangeProfile, Change, Link,
       Unlink, CloneIndicator, DuplicateProfile, Copy
  <2>3. ASSUME NEW x \in Versions, Deprecate(x) \/ Withdraw(x)
        PROVE  status'[v] \in {status[v], "deprecated", "withdrawn"}
    BY <1>0, <2>3 DEF TypeOK, Deprecate, Withdraw
  <2>4. ASSUME NEW w \in Workers, CommitLink(w) \/ CommitDelete(w) \/ Abort(w)
        PROVE  status'[v] \in {status[v], "none"}
    BY <1>0, <2>4 DEF TypeOK, CommitLink, CommitDelete, Abort
  <2>5. ASSUME NEW w \in Workers, NEW x \in Versions, NEW q \in Versions,
               \/ BeginPublish(w, x) \/ BeginDelete(w, x) \/ BeginLink(w, x, q)
               \/ ReadPart(w, q, x)
        PROVE  status'[v] = status[v]
    BY <2>5 DEF BeginPublish, BeginDelete, BeginLink, ReadPart
  <2>6. QED
    BY <2>1, <2>2, <2>3, <2>4, <2>5 DEF Next, Published
<1>2. job[w].v = v
  BY <1>0, <1>1 DEF CommitPublish, TypeOK, Published
<1>3. Publishes(w) /\ job[w].todo = {}
  BY <1>0, <1>1 DEF JobOK, CommitPublish
<1>4. QED
  BY <1>2, <1>3 DEF Publishes, Secured

(***************************************************************************)
(* What was published was built, and is still built, from what was         *)
(* published: no draft is below it and nothing below it was deleted        *)
(* (_transition of the catalogue services and the deletion pages).         *)
(***************************************************************************)
THEOREM PublishedRests == CatalogAssumption => (Spec => []RestsOnPublished)
  BY CatalogInvariant, RowsPromise, PTL

(***************************************************************************)
(* The flows of a published profile supply what its indicators require,    *)
(* those they rest on included (validate_profile_input_coverage).          *)
(***************************************************************************)
THEOREM ProfilesAreSupplied == CatalogAssumption => (Spec => []InputsAreSupplied)
  BY CatalogInvariant, RowsPromise, PTL

(***************************************************************************)
(* No indicator is calculated from itself, however dependencies are added, *)
(* cloned and removed (would_create_cycle under the lock of the graph).    *)
(***************************************************************************)
THEOREM GraphIsAcyclic == CatalogAssumption => (Spec => []Acyclic)
  BY CatalogInvariant, RowsPromise, PTL

(***************************************************************************)
(* A version that has left the draft keeps its parts and moves forward     *)
(* (check_editable, ALLOWED_TRANSITIONS).                                  *)
(***************************************************************************)
THEOREM PublishedIsFrozen == CatalogAssumption => (Spec => FrozenOncePublished)
<1> SUFFICES ASSUME CatalogAssumption
             PROVE  Spec => FrozenOncePublished
  OBVIOUS
<1>1. Spec => []CatalogInv
  BY CatalogInvariant
<1>2. CatalogInv /\ [Next]_vars => [Frozen]_vars
  BY FrozenStep
<1>3. QED
  BY <1>1, <1>2, PTL DEF Spec, FrozenOncePublished

(***************************************************************************)
(* What a publication has read under a lock is still published when it     *)
(* commits; what it reads without one may not be (profile_snapshot).       *)
(***************************************************************************)
THEOREM ReadUnderLockStands == CatalogAssumption => (Spec => PublishedOverPublished)
<1> SUFFICES ASSUME CatalogAssumption
             PROVE  Spec => PublishedOverPublished
  OBVIOUS
<1>1. Spec => []CatalogInv
  BY CatalogInvariant
<1>2. CatalogInv /\ [Next]_vars => [OverPublished]_vars
  BY OverPublishedStep
<1>3. QED
  BY <1>1, <1>2, PTL DEF Spec, PublishedOverPublished

=============================================================================
