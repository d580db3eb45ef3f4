----------------------- MODULE ConfigurationTimeline -----------------------
(***************************************************************************)
(* What the revisions of a contract promise to the data plane: a calendar. *)
(*                                                                         *)
(* Every day has at most one configuration.  The calendar is only ever     *)
(* rewritten in the future: a new revision takes over the tail of the      *)
(* contract from a day not yet past, or a revision that has not started    *)
(* is retracted and its days go back to the one before it.                 *)
(* ContractRevisions implements it without storing a calendar at all.      *)
(***************************************************************************)
EXTENDS Naturals

CONSTANTS
  Days,       \* calendar dates, as day numbers
  Revisions,  \* what can govern a day
  None        \* no configuration

VARIABLES
  today,
  timeline    \* the revision that governs each day

vars == <<today, timeline>>

TypeOK ==
  /\ today \in Days
  /\ timeline \in [Days -> Revisions \cup {None}]

DaysOf(r) == {d \in Days : timeline[d] = r}
Governing == {r \in Revisions : DaysOf(r) # {}}
Governed == Days \ DaysOf(None)

-----------------------------------------------------------------------------
Init ==
  /\ today \in Days
  /\ timeline = [d \in Days |-> None]

NextDay ==
  /\ today + 1 \in Days
  /\ today' = today + 1
  /\ UNCHANGED timeline

\* r governs from a day not yet past to the end of the contract, and every
\* other revision keeps a day of its own.
Takeover(r) ==
  /\ UNCHANGED today
  /\ DaysOf(r) = {} /\ DaysOf(r)' # {}
  /\ \E from, to \in Days :
       /\ today <= from
       /\ DaysOf(r)' = from..to
       /\ Governed # {} => to \in Governed /\ \A d \in Governed : d <= to
       /\ \A q \in Governing : \E d \in DaysOf(q) : d < from
       /\ timeline' = [d \in Days |-> IF d \in from..to THEN r ELSE timeline[d]]

\* The day before the first day of r, if that day is governed.
Before(r) ==
  {d \in Governed : /\ d + 1 \in DaysOf(r)
                    /\ \A e \in DaysOf(r) : d < e}

Retract(r) ==
  /\ UNCHANGED today
  /\ DaysOf(r) # {}
  /\ \A d \in DaysOf(r) : today < d
  /\ \E q \in IF Before(r) = {} THEN {None} ELSE {timeline[d] : d \in Before(r)} :
       timeline' = [d \in Days |-> IF timeline[d] = r THEN q ELSE timeline[d]]

Next ==
  \/ NextDay
  \/ \E r \in Revisions : Takeover(r) \/ Retract(r)

Spec == Init /\ [][Next]_vars

=============================================================================
