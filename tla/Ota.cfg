\* A node that lost both programs stops for good.
SPECIFICATION Spec
CONSTANTS
  v1 = v1
  v2 = v2
  NoImage = NoImage
  Versions <- MCVersions
  Unreported <- MCUnreported
INVARIANTS
  AlwaysBoots
  SuccessInstalls
PROPERTIES
  UpdateIsAtomic
CHECK_DEADLOCK FALSE
