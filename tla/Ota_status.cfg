\* The server answers with a status other than 200.
SPECIFICATION Spec
CONSTANTS
  v1 = v1
  v2 = v2
  NoImage = NoImage
  Versions <- MCVersions
  Unreported <- MCStatus
INVARIANTS
  ReportsHonestly
