------------------------- MODULE MCTechnicalCatalog -------------------------
(* An instance of TechnicalCatalog small enough for TLC. *)
EXTENDS TechnicalCatalog, TLC

CONSTANTS rule, spec, flow, orchestration, indicator, other, profile

MCKind ==
  [v \in Versions |->
     CASE v = rule -> "rule" [] v = spec -> "spec" [] v = flow -> "flow"
       [] v = orchestration -> "orchestration" [] v = profile -> "profile"
       [] OTHER -> "indicator"]

=============================================================================
