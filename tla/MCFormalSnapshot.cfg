SPECIFICATION Spec
CONSTANTS
  Versions <- MCVersions
  Symbol <- MCSymbol
  Texts <- MCTexts
  Input <- MCInput
  Specs = {"timetables"}
  Names = {"netex", "gtfs"}
  Selected = {"rate_001"}
  Workers = {w1}
  MaxEdits = 1
  None = None
  Package <- MCPackage
  PackageSpecs <- MCPackageSpecs
INVARIANTS
  FrozenMetadataHold
CHECK_DEADLOCK FALSE
