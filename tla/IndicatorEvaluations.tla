------------------------ MODULE IndicatorEvaluations ------------------------
(* The contractual conditions of an indicator in the revisions of one       *)
(* contract: a threshold, evaluated over a window and by groups, and a      *)
(* penalty, with a window and groups of its own or linked to the threshold. *)
(*                                                                          *)
(* A condition is checked against the dates of the contract and against     *)
(* what the indicator advertises whenever it is saved, but each by itself:  *)
(* the dates move afterwards, and so does the threshold below a penalty.    *)
(* The approval checks them all again and freezes them with the dates.      *)
EXTENDS Integers

CONSTANTS
  Revisions,     \* of the contract, the indicator being chosen in each
  LastDay,
  Windows,       \* what a period may be declared as
  Metrics,
  Advertised,    \* [Metrics -> the dimensions of a metric]
  Groupings,     \* the sets of dimensions that are asked for
  MaxEdits,      \* bounds how often the conditions and the dates are changed
  None

Days == 1 .. LastDay

(* A fixed amount needs no metric. *)
AllDimensions == UNION {Advertised[m] : m \in Metrics}
DimensionsOf(m) == IF m = None THEN AllDimensions ELSE Advertised[m]

Dates == {d \in [start: Days, end: Days] : d.start <= d.end}
Thresholds == [window: Windows, metric: Metrics, groups: Groupings]
Penalties ==
  [linked: {FALSE}, window: Windows, metric: Metrics \cup {None}, groups: Groupings]
  \cup [linked: {TRUE}, metric: Metrics \cup {None}]

\* evaluation_configurations of a snapshot.
Snapshots ==
  [dates: Dates, threshold: Thresholds \cup {None}, penalty: Penalties \cup {None}]

\* What is assumed of the constants, by the modules that instantiate this one.
EvaluationsAssumption ==
  /\ Windows \subseteq
       [kind: {"", "monthly", "contract", "custom_range", "custom_to_contract_end"},
        from: Days, to: Days]
  /\ None \notin Metrics /\ None \notin Snapshots
  /\ MaxEdits \in Nat

VARIABLES
  dates,      \* of the contract
  status,     \* of each revision
  threshold,  \* of the indicator in each revision, or None
  penalty,    \* likewise
  frozen,     \* evaluation_configurations with the dates, None before the approval
  edits       \* how often something was changed

conditions == <<threshold, penalty>>
vars == <<dates, status, threshold, penalty, frozen, edits>>

Edit == edits < MaxEdits /\ edits' = edits + 1

TypeOK ==
  /\ dates \in Dates
  /\ status \in [Revisions -> {"none", "draft", "approved"}]
  /\ threshold \in [Revisions -> Thresholds \cup {None}]
  /\ penalty \in [Revisions -> Penalties \cup {None}]
  /\ frozen \in [Revisions -> Snapshots \cup {None}]
  /\ \A r \in Revisions : (frozen[r] # None) <=> (status[r] = "approved")
  /\ edits \in 0 .. MaxEdits

-----------------------------------------------------------------------------
(* period_context: when the declared window begins and ends; a number of    *)
(* days is a range by the time it is checked.                               *)
Custom == {"custom_range", "custom_to_contract_end"}

Resolved(w, d) ==
  [start |-> IF w.kind \in Custom THEN w.from ELSE d.start,
   end   |-> IF w.kind = "custom_range" THEN w.to ELSE d.end]

InDates(w, d) ==
  w.kind \in Custom \cup {"contract"} =>
    LET x == Resolved(w, d)
    IN  d.start <= x.start /\ x.start <= x.end /\ x.end <= d.end

(* validate_dimensions *)
Supported(c) == c.groups \subseteq DimensionsOf(c.metric)

(* validate_evaluation: a condition with no window yet may be in a draft. *)
ValidThreshold(t, complete) ==
  /\ InDates(t.window, dates)
  /\ Supported(t)
  /\ complete => t.window.kind # ""

ValidPenalty(p, t, complete) ==
  \/ /\ p.linked
     /\ t # None /\ ValidThreshold(t, complete)
     /\ t.groups \subseteq DimensionsOf(p.metric)
  \/ /\ ~p.linked
     /\ ValidThreshold(p, complete)

-----------------------------------------------------------------------------
Init ==
  /\ dates \in Dates
  /\ status = [r \in Revisions |-> "none"]
  /\ threshold = [r \in Revisions |-> None]
  /\ penalty = [r \in Revisions |-> None]
  /\ frozen = [r \in Revisions |-> None]
  /\ edits = 0

Create(r) ==
  /\ status[r] = "none"
  /\ status' = [status EXCEPT ![r] = "draft"]
  /\ UNCHANGED <<dates, conditions, frozen, edits>>

(* clone_evaluations: the copies are saved one by one, the threshold first; *)
(* what cannot be saved any more refuses the replacement.                   *)
Clone(r, s) ==
  /\ threshold[s] # None => ValidThreshold(threshold[s], FALSE)
  /\ penalty[s] # None => ValidPenalty(penalty[s], threshold[s], FALSE)
  /\ threshold' = [threshold EXCEPT ![r] = threshold[s]]
  /\ penalty' = [penalty EXCEPT ![r] = penalty[s]]

CreateReplacement(r, s) ==
  /\ status[r] = "none"
  /\ status[s] # "none"
  /\ Clone(r, s)
  /\ status' = [status EXCEPT ![r] = "draft"]
  /\ UNCHANGED <<dates, frozen, edits>>

(* save_evaluation, under the lock of the revision: the penalties that are  *)
(* linked to the threshold are not looked at.                               *)
SaveThreshold(r, t) ==
  /\ status[r] = "draft"
  /\ ValidThreshold(t, FALSE)
  /\ threshold' = [threshold EXCEPT ![r] = t]
  /\ Edit
  /\ UNCHANGED <<dates, status, penalty, frozen>>

SavePenalty(r, p) ==
  /\ status[r] = "draft"
  /\ ValidPenalty(p, threshold[r], FALSE)
  /\ penalty' = [penalty EXCEPT ![r] = p]
  /\ Edit
  /\ UNCHANGED <<dates, status, threshold, frozen>>

Linked(r) == penalty[r] # None /\ penalty[r].linked

(* delete_evaluation: PROTECT keeps a threshold a penalty is linked to. *)
DeleteThreshold(r) ==
  /\ status[r] = "draft"
  /\ threshold[r] # None
  /\ ~Linked(r)
  /\ threshold' = [threshold EXCEPT ![r] = None]
  /\ Edit
  /\ UNCHANGED <<dates, status, penalty, frozen>>

DeletePenalty(r) ==
  /\ status[r] = "draft"
  /\ penalty[r] # None
  /\ penalty' = [penalty EXCEPT ![r] = None]
  /\ Edit
  /\ UNCHANGED <<dates, status, threshold, frozen>>

(* The indicator is not chosen any more: the penalty goes first. *)
Unselect(r) ==
  /\ status[r] = "draft"
  /\ threshold' = [threshold EXCEPT ![r] = None]
  /\ penalty' = [penalty EXCEPT ![r] = None]
  /\ Edit
  /\ UNCHANGED <<dates, status, frozen>>

DeleteDraft(r) ==
  /\ status[r] = "draft"
  /\ status' = [status EXCEPT ![r] = "none"]
  /\ threshold' = [threshold EXCEPT ![r] = None]
  /\ penalty' = [penalty EXCEPT ![r] = None]
  /\ UNCHANGED <<dates, frozen, edits>>

(* update_draft_contract_dates: no revision has been approved yet. *)
UpdateDraftDates(d) ==
  /\ \A r \in Revisions : status[r] # "approved"
  /\ dates' = d
  /\ Edit
  /\ UNCHANGED <<status, conditions, frozen>>

(* The form of the administration site does not look at the revisions. *)
AdminMovesDates(d) ==
  /\ dates' = d
  /\ Edit
  /\ UNCHANGED <<status, conditions, frozen>>

-----------------------------------------------------------------------------
Mut_Complete(r) ==
  /\ threshold[r] # None => threshold[r].window.kind # ""
  /\ penalty[r] # None /\ ~penalty[r].linked => penalty[r].window.kind # ""

(* serialize_evaluation checks each condition again, and asks for all of it. *)
Complete(r) ==
  /\ threshold[r] # None => ValidThreshold(threshold[r], TRUE)
  /\ penalty[r] # None => ValidPenalty(penalty[r], threshold[r], TRUE)

(* evaluation_snapshot, within the approval *)
Approve(r) ==
  /\ status[r] = "draft"
  /\ Complete(r)
  /\ status' = [status EXCEPT ![r] = "approved"]
  /\ frozen' = [frozen EXCEPT ![r] =
       [dates |-> dates, threshold |-> threshold[r], penalty |-> penalty[r]]]
  /\ UNCHANGED <<dates, conditions, edits>>

Next ==
  \/ \E r \in Revisions :
       \/ Create(r) \/ Approve(r) \/ Unselect(r) \/ DeleteDraft(r)
       \/ DeleteThreshold(r) \/ DeletePenalty(r)
  \/ \E r, s \in Revisions : CreateReplacement(r, s)
  \/ \E r \in Revisions, t \in Thresholds : SaveThreshold(r, t)
  \/ \E r \in Revisions, p \in Penalties : SavePenalty(r, p)
  \/ \E d \in Dates : UpdateDraftDates(d) \/ AdminMovesDates(d)

Spec == Init /\ [][Next]_vars

-----------------------------------------------------------------------------
(* A finite window inside the dates of the contract. *)
Evaluable(w, d) ==
  /\ w.kind # ""
  /\ w.kind = "custom_range" => d.start <= w.from /\ w.from <= w.to /\ w.to <= d.end
  /\ w.kind = "custom_to_contract_end" => d.start <= w.from /\ w.from <= d.end

(* validate_frozen_evaluations: what the ingest serves without a refusal. *)
Served(f) ==
  /\ f.threshold # None => f.threshold.window.kind # ""
  /\ f.penalty # None =>
       IF f.penalty.linked THEN f.threshold # None ELSE f.penalty.window.kind # ""

(* The conditions an approved revision is evaluated by can be evaluated,    *)
(* and are served: their windows are finite and inside the dates frozen     *)
(* with them, they are grouped by what their metric advertises, and a       *)
(* linked penalty has its threshold, whose groups its own metric supports.  *)
FrozenEvaluationsHold ==
  \A r \in Revisions : status[r] = "approved" =>
    LET f == frozen[r]
        groups(c) == IF c.linked THEN f.threshold.groups ELSE c.groups
        window(c) == IF c.linked THEN f.threshold.window ELSE c.window
    IN  /\ Served(f)
        /\ f.threshold # None =>
             /\ Evaluable(f.threshold.window, f.dates)
             /\ f.threshold.groups \subseteq Advertised[f.threshold.metric]
        /\ f.penalty # None =>
             /\ Evaluable(window(f.penalty), f.dates)
             /\ groups(f.penalty) \subseteq DimensionsOf(f.penalty.metric)

=============================================================================
