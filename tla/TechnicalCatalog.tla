--------------------------- MODULE TechnicalCatalog ---------------------------
(***************************************************************************)
(* The versions of the technical catalogue and what they are built from.   *)
(*                                                                         *)
(* Rules, dataset specifications, input flows, orchestration flows,        *)
(* indicator versions and processing profiles have the same life: a draft  *)
(* is published, deprecated, withdrawn.  A draft is put together from      *)
(* other versions; its publication reads all of them, one after another,   *)
(* some under the lock of their row and some not, and commits at the end.  *)
(* What concerns indicators and the edges between them is serialised by    *)
(* one advisory lock, the lock of the graph.                               *)
(*                                                                         *)
(* Operations that hold every lock they need when they read commit in one  *)
(* step.  A worker that waits for ever, is chosen as the victim of a       *)
(* deadlock, fails another check (a missing name, an asset that is not     *)
(* active, two versions of one dataset) or dies, aborts.                   *)
(***************************************************************************)
EXTENDS FiniteSets

CONSTANTS
  Versions,
  Kind,      \* the kind of each version
  Formal,    \* the indicator versions with a formal definition
  Workers,
  Graph,     \* the advisory lock
  None

Kinds == {"rule", "spec", "flow", "orchestration", "indicator", "profile"}

(* Every version has a kind, and who holds a lock is told from nobody. *)
CatalogAssumption == (\A v \in Versions : Kind[v] \in Kinds) /\ None \notin Workers

VARIABLES
  status,  \* "none" for a version that is not there
  dated,   \* the versions with a date of publication
  parts,   \* what each version is built from
  lock,    \* who holds the lock of each row, and of the graph
  job      \* what each worker is doing

vars == <<status, dated, parts, lock, job>>

Lifecycle == {"draft", "published", "deprecated", "withdrawn"}

(* ALLOWED_TRANSITIONS, the same for every kind. *)
After(s) ==
  CASE s = "draft"      -> {"published", "withdrawn"}
    [] s = "published"  -> {"deprecated", "withdrawn"}
    [] s = "deprecated" -> {"withdrawn"}
    [] OTHER            -> {}

Idle == [pc |-> "idle", v |-> None, todo |-> {}, inputs |-> {}]
Holders == Workers \cup {None}

TypeOK ==
  /\ status \in [Versions -> Lifecycle \cup {"none"}]
  /\ dated \subseteq Versions
  /\ parts \in [Versions -> SUBSET Versions]
  /\ lock \in [Versions \cup {Graph} -> Holders]
  /\ job \in [Workers -> [pc : {"idle", "publish", "link", "delete"},
                          v : Versions \cup {None},
                          todo : SUBSET (Versions \X Versions),
                          inputs : SUBSET Versions]]
  /\ \A w \in Workers, r \in Versions \cup {Graph} : lock[r] = w => job[w] # Idle

-----------------------------------------------------------------------------
Is(v, kind) == Kind[v] = kind
Indicators == {v \in Versions : Is(v, "indicator")}

(* A field that refers to one version, and the relations to many.          *)
SpecificationOfFlow(v, p) == Is(v, "flow") /\ Is(p, "spec")
OrchestrationOfProfile(v, p) == Is(v, "profile") /\ Is(p, "orchestration")
Field(v, p) == SpecificationOfFlow(v, p) \/ OrchestrationOfProfile(v, p)

RuleOfSpecification(v, p) == Is(v, "spec") /\ Is(p, "rule")
FlowOfProfile(v, p) == Is(v, "profile") /\ Is(p, "flow")
IndicatorOfProfile(v, p) == Is(v, "profile") /\ Is(p, "indicator")
InputOfIndicator(v, p) == Is(v, "indicator") /\ Is(p, "spec")
RuleOfIndicator(v, p) == Is(v, "indicator") /\ Is(p, "rule")
Prerequisite(v, p) == Is(v, "indicator") /\ Is(p, "indicator") /\ p # v

Relation(v, p) ==
  \/ RuleOfSpecification(v, p) \/ FlowOfProfile(v, p) \/ IndicatorOfProfile(v, p)
  \/ InputOfIndicator(v, p) \/ RuleOfIndicator(v, p) \/ Prerequisite(v, p)

Free(rows) == \A r \in rows : lock[r] = None
FreeOrMine(w, rows) == \A r \in rows : lock[r] \in {w, None}

GraphOf(v) == IF Is(v, "indicator") THEN {Graph} ELSE {}

Taken(w, rows) == [r \in Versions \cup {Graph} |-> IF r \in rows THEN w ELSE lock[r]]
Mut_Released(w) == lock
Released(w) == [r \in Versions \cup {Graph} |-> IF lock[r] = w THEN None ELSE lock[r]]

Finish(w) ==
  /\ job' = [job EXCEPT ![w] = Idle]
  /\ lock' = Released(w)

Init ==
  /\ status = [v \in Versions |-> "none"]
  /\ dated = {}
  /\ parts = [v \in Versions |-> {}]
  /\ lock = [r \in Versions \cup {Graph} |-> None]
  /\ job = [w \in Workers |-> Idle]

-----------------------------------------------------------------------------
(* A new version is a draft, with the versions its fields refer to.        *)
New(v, rows, fields) ==
  /\ status[v] = "none" /\ Free({v} \cup rows)
  /\ status' = [status EXCEPT ![v] = "draft"]
  /\ parts' = [parts EXCEPT ![v] = fields]
  /\ UNCHANGED <<dated, lock, job>>

CreateRule(v) == Is(v, "rule") /\ New(v, {}, {})
CreateSpecification(v) == Is(v, "spec") /\ New(v, {}, {})
CreateOrchestration(v) == Is(v, "orchestration") /\ New(v, {}, {})

(* Indicator versions are saved under the lock of the graph. *)
CreateIndicator(v) == Is(v, "indicator") /\ New(v, {Graph}, {})

CreateFlow(v, p) == SpecificationOfFlow(v, p) /\ status[p] # "none" /\ New(v, {p}, {p})
CreateProfile(v, p) == OrchestrationOfProfile(v, p) /\ status[p] # "none" /\ New(v, {p}, {p})

(* A field of a draft is given another version, whatever its status.       *)
Change(v, p) ==
  /\ status[v] = "draft" /\ status[p] # "none"
  /\ Free({v, p})
  /\ parts' = [parts EXCEPT ![v] = {q \in @ : ~Field(v, q)} \cup {p}]
  /\ UNCHANGED <<status, dated, lock, job>>

ChangeFlow(v, p) == SpecificationOfFlow(v, p) /\ Change(v, p)
ChangeProfile(v, p) == OrchestrationOfProfile(v, p) /\ Change(v, p)

(* What a relation of a draft may refer to: profiles take anything;        *)
(* specifications a rule still in draft; indicators only if they are formal. *)
LinkableToProfile(p) == status[p] # "none"
LinkableToSpecification(p) == status[p] \in {"draft", "published"}

LinkableToIndicator(v, p) ==
  status[p] = "published" \/ (status[p] = "draft" /\ v \in Formal)

Linkable(v, p) ==
  \/ Is(v, "profile") /\ LinkableToProfile(p)
  \/ Is(v, "spec") /\ LinkableToSpecification(p)
  \/ Is(v, "indicator") /\ LinkableToIndicator(v, p)

(* check_editable, under the lock of the owner. *)
Editable(v) == status[v] = "draft" /\ Free({v} \cup GraphOf(v))

Mut_LinksUnlocked(v, p) ==
  /\ ~Is(v, "indicator")
  /\ status[v] = "draft" /\ Relation(v, p) /\ Linkable(v, p)
  /\ parts' = [parts EXCEPT ![v] = @ \cup {p}]
  /\ UNCHANGED <<status, dated, lock, job>>

(* The row of the version is locked and read again: only drafts change.    *)
Link(v, p) ==
  /\ ~Is(v, "indicator")
  /\ Editable(v) /\ Relation(v, p) /\ Linkable(v, p)
  /\ Free({p})
  /\ parts' = [parts EXCEPT ![v] = @ \cup {p}]
  /\ UNCHANGED <<status, dated, lock, job>>

Unlink(v, p) ==
  /\ Editable(v) /\ Relation(v, p) /\ p \in parts[v]
  /\ parts' = [parts EXCEPT ![v] = @ \ {p}]
  /\ UNCHANGED <<status, dated, lock, job>>

(* v is in every set that has p and, with a version, those it is built from. *)
Reaches(p, v) ==
  \A S \in SUBSET Indicators :
    p \in S /\ (\A x \in S : parts[x] \cap Indicators \subseteq S) => v \in S

Mut_ReadsEdgesBackwards(v, p) == Reaches(v, p)

WouldCreateCycle(v, p) == Reaches(p, v)

(* An indicator version is linked under the lock of the graph. *)
BeginLink(w, v, p) ==
  /\ job[w] = Idle
  /\ Is(v, "indicator")
  /\ Editable(v) /\ Relation(v, p) /\ Linkable(v, p)
  /\ Free({p})
  /\ Is(p, "indicator") => ~WouldCreateCycle(v, p)
  /\ lock' = Taken(w, {Graph, v, p})
  /\ job' = [job EXCEPT ![w] = [Idle EXCEPT !.pc = "link", !.v = v, !.todo = {<<p, v>>}]]
  /\ UNCHANGED <<status, dated, parts>>

CommitLink(w) ==
  LET v == job[w].v
  IN  /\ job[w].pc = "link"
      /\ parts' = [parts EXCEPT ![v] = @ \cup {e[1] : e \in job[w].todo}]
      /\ Finish(w)
      /\ UNCHANGED <<status, dated>>

(* A draft with the parts of another version, which the clone of an        *)
(* indicator must be allowed to refer to.                                  *)
Copy(v, copy) ==
  /\ Kind[copy] = Kind[v]
  /\ status[v] # "none" /\ status[copy] = "none"
  /\ Free({v, copy} \cup parts[v])
  /\ copy \notin parts[v]
  /\ status' = [status EXCEPT ![copy] = "draft"]
  /\ parts' = [parts EXCEPT ![copy] = parts[v]]
  /\ UNCHANGED <<dated, lock, job>>

CloneIndicator(v, copy) ==
  /\ Is(v, "indicator") /\ Free({Graph})
  /\ v \in Formal <=> copy \in Formal
  /\ \A p \in parts[v] : LinkableToIndicator(copy, p)
  /\ Copy(v, copy)

DuplicateProfile(v, copy) == Is(v, "profile") /\ Copy(v, copy)

-----------------------------------------------------------------------------
(* A transition locks the row and those its query joins.                   *)
LockedForFlow(v) == IF Is(v, "flow") THEN {p \in parts[v] : SpecificationOfFlow(v, p)} ELSE {}

LockedForProfile(v) ==
  IF Is(v, "profile") THEN {p \in parts[v] : OrchestrationOfProfile(v, p)} ELSE {}

LockedForIndicator(v) == GraphOf(v)

Locked(v) == {v} \cup LockedForFlow(v) \cup LockedForProfile(v) \cup LockedForIndicator(v)

Complete(v) ==
  Is(v, "profile") => \A kind \in {"flow", "indicator"} : \E p \in parts[v] : Is(p, kind)

(* Publication: what the version is built from is then read part by part.  *)
BeginPublish(w, v) ==
  /\ job[w] = Idle
  /\ status[v] = "draft" /\ Complete(v)
  /\ Free(Locked(v))
  /\ lock' = Taken(w, Locked(v))
  /\ job' = [job EXCEPT ![w] =
       [Idle EXCEPT !.pc = "publish", !.v = v, !.todo = {<<p, v>> : p \in parts[v]}]]
  /\ UNCHANGED <<status, dated, parts>>

Mut_ReadsUnlocked(p, by) == FALSE

(* The bindings of specifications and indicators are validated under the   *)
(* locks of both rows; flows and indicators of a profile are only read.    *)
LockedRead(p, by) == Kind[by] \in {"spec", "indicator"} /\ Kind[p] \in {"rule", "spec"}

Mut_SkipsIndicators(p) == IF Is(p, "flow") THEN {<<q, p>> : q \in parts[p]} ELSE {}

(* Each part must be published; the closure goes on with its own parts.    *)
Explored(p) == IF Kind[p] \in {"flow", "indicator"} THEN {<<q, p>> : q \in parts[p]} ELSE {}

ReadPart(w, p, by) ==
  LET rows == IF LockedRead(p, by) THEN {p, by} ELSE {}
  IN  /\ job[w].pc = "publish" /\ <<p, by>> \in job[w].todo
      /\ status[p] = "published"
      /\ FreeOrMine(w, rows)
      /\ lock' = Taken(w, rows)
      /\ job' = [job EXCEPT ![w].todo = (@ \ {<<p, by>>}) \cup Explored(p),
                            ![w].inputs = IF InputOfIndicator(by, p) THEN @ \cup {p} ELSE @]
      /\ UNCHANGED <<status, dated, parts>>

(* validate_profile_input_coverage: exactly the specifications required.   *)
Supplied(v) == UNION {parts[f] : f \in {p \in parts[v] : Is(p, "flow")}}

CommitPublish(w) ==
  LET v == job[w].v
  IN  /\ job[w].pc = "publish" /\ job[w].todo = {}
      /\ Is(v, "profile") => job[w].inputs \subseteq Supplied(v)
      /\ status' = [status EXCEPT ![v] = "published"]
      /\ dated' = dated \cup {v}
      /\ Finish(w)
      /\ UNCHANGED parts

(* A version is deprecated or withdrawn whoever refers to it. *)
Deprecate(v) ==
  /\ "deprecated" \in After(status[v])
  /\ Free(Locked(v))
  /\ status' = [status EXCEPT ![v] = "deprecated"]
  /\ UNCHANGED <<dated, parts, lock, job>>

Withdraw(v) ==
  /\ "withdrawn" \in After(status[v])
  /\ Free(Locked(v))
  /\ status' = [status EXCEPT ![v] = "withdrawn"]
  /\ UNCHANGED <<dated, parts, lock, job>>

-----------------------------------------------------------------------------
(* Deletion.  The status is that of the instance the page has read, and    *)
(* what would be left without its reference is looked for before.  Rules   *)
(* and indicators are locked.                                              *)
Referred(v) == \E u \in Versions : v \in parts[u]
HasBindings(v) == Kind[v] \in {"spec", "indicator"} /\ parts[v] # {}
Protected(v) == Referred(v) \/ HasBindings(v)

LockedForDeletion(v) == IF Kind[v] \in {"rule", "indicator"} THEN {v} ELSE {}

BeginDelete(w, v) ==
  /\ job[w] = Idle
  /\ status[v] = "draft" /\ ~Protected(v)
  /\ Free(LockedForDeletion(v))
  /\ lock' = Taken(w, LockedForDeletion(v))
  /\ job' = [job EXCEPT ![w] = [Idle EXCEPT !.pc = "delete", !.v = v]]
  /\ UNCHANGED <<status, dated, parts>>

Mut_NoEvents(v) == FALSE

(* The database checks the references again when the deletion commits: the *)
(* event that records a transition refers to the version too.              *)
HasEvents(v) == status[v] \in Lifecycle \ {"draft"}

CommitDelete(w) ==
  LET v == job[w].v
  IN  /\ job[w].pc = "delete"
      /\ FreeOrMine(w, {v})
      /\ ~Protected(v) /\ ~HasEvents(v)
      /\ status' = [status EXCEPT ![v] = "none"]
      /\ parts' = [parts EXCEPT ![v] = {}]
      /\ Finish(w)
      /\ UNCHANGED dated

Abort(w) ==
  /\ job[w] # Idle
  /\ Finish(w)
  /\ UNCHANGED <<status, dated, parts>>

Next ==
  \/ \E v \in Versions :
       \/ CreateRule(v) \/ CreateSpecification(v) \/ CreateOrchestration(v) \/ CreateIndicator(v)
       \/ Deprecate(v) \/ Withdraw(v)
       \/ \E p \in Versions :
            \/ CreateFlow(v, p) \/ CreateProfile(v, p) \/ ChangeFlow(v, p) \/ ChangeProfile(v, p)
            \/ Link(v, p) \/ Unlink(v, p)
            \/ CloneIndicator(v, p) \/ DuplicateProfile(v, p)
  \/ \E w \in Workers :
       \/ \E v \in Versions :
            \/ BeginPublish(w, v) \/ BeginDelete(w, v)
            \/ \E p \in Versions : BeginLink(w, v, p) \/ ReadPart(w, p, v)
       \/ CommitLink(w) \/ CommitPublish(w) \/ CommitDelete(w) \/ Abort(w)

Spec == Init /\ [][Next]_vars

-----------------------------------------------------------------------------
(* Whatever was published once was built, and is still built, from         *)
(* versions that were published once: no draft is below it, and nothing    *)
(* below it was deleted, however publications, edits and deletions meet.   *)
RestsOnPublished == \A v \in dated : parts[v] \subseteq dated

(* A profile that was published supplies, through its flows, every         *)
(* specification required by its indicators and by those they rest on.     *)
InputsAreSupplied ==
  \A v \in dated : Is(v, "profile") =>
    \A root \in parts[v] \cap Indicators, i \in Indicators :
      Reaches(root, i) => {p \in parts[i] : Is(p, "spec")} \subseteq Supplied(v)

(* No indicator is calculated from itself. *)
Acyclic == \A v, p \in Indicators : p \in parts[v] => ~Reaches(p, v)

(* A version that has left the draft keeps its parts, moves forward in its *)
(* life and is not deleted.                                                *)
Frozen ==
  \A v \in Versions : status[v] \in Lifecycle \ {"draft"} =>
    /\ parts'[v] = parts[v]
    /\ status'[v] \in {status[v]} \cup After(status[v])

FrozenOncePublished == [][Frozen]_vars

(* What is read under a lock is still published when the publication       *)
(* commits: the rules of a specification, the specification of a flow, the *)
(* specifications, rules and prerequisites of an indicator, the            *)
(* orchestration of a profile.                                             *)
Steady(v, p) == Field(v, p) \/ Kind[v] \in {"spec", "indicator"}

Published(v) == status[v] = "draft" /\ status'[v] = "published"

OverPublished ==
  \A v \in Versions : Published(v) =>
    \A p \in parts[v] : Steady(v, p) => status[p] = "published"

PublishedOverPublished == [][OverPublished]_vars

(* "Validate the whole profile as one publishable snapshot": when a profile *)
(* is published, its parts are published, all at once.                     *)
ProfileIsSnapshot ==
  [][\A v \in Versions : Is(v, "profile") /\ Published(v) =>
       \A p \in parts[v] : status[p] = "published"]_vars

=============================================================================
