---------------------------- MODULE MCCatalogImport ----------------------------
(* CatalogImport for TLC: a rate of the trips, checked against the network, *)
(* of which the package says how it is defined.                            *)
EXTENDS CatalogImport, TLC

Text(formula, checks, n) == [formula |-> formula, checks |-> checks, n |-> n]

MCVersions == {"trips_001", "rate_001", "network_001"}

MCSymbol ==
  [v \in MCVersions |->
     CASE v = "trips_001" -> "TRIPS" [] v = "rate_001" -> "RATE" [] OTHER -> "NETWORK"]

MCTexts ==
  [v \in MCVersions |->
     IF v = "rate_001" THEN {Text({"TRIPS"}, {"NETWORK"}, 1)} 
     ELSE {Text({}, {}, 1), Text({}, {}, 2)}]

MCInput == [v \in MCVersions |-> IF v = "trips_001" THEN {"timetables"} ELSE {}]

MCPackage ==
  [v \in MCVersions |->
     [text |-> CHOOSE t \in MCTexts[v] : t.n = 1,
      edges |-> IF v = "rate_001" THEN {"trips_001"} ELSE {},
      limited |-> v = "network_001"]]

MCPackageSpecs == "timetables" :> [text |-> 1, dataset |-> "netex", create |-> TRUE]

=============================================================================
