------------------------- MODULE TimelineRefinement -------------------------
(* ContractRevisions implements ConfigurationTimeline: the calendar is the *)
(* function from each day to the revision resolved for it.                 *)
EXTENDS ContractRevisions

\* The calendar has no gaps.
ASSUME CalendarAssumption == \A d, e \in Days : d..e \subseteq Days

\* The revision resolved for a day, as ORDER BY -valid_from, LIMIT 1 picks it.
Resolved(day) ==
  IF EffectiveOn(day) = {} THEN None ELSE CHOOSE r \in EffectiveOn(day) : TRUE

Calendar == [day \in Days |-> Resolved(day)]

Timeline == INSTANCE ConfigurationTimeline WITH timeline <- Calendar

\* The rows implement the calendar: approving takes over the tail of the
\* contract, withdrawing gives the days of a revision not yet started back to
\* the one before it, and no other service changes what governs any day
\* (resolve_current_contract_revision).
ImplementsTimeline == Timeline!Spec

=============================================================================
