\* Two profiles in the table, and the one added last does not connect.
SPECIFICATION Spec
CONSTANTS
  home = home
  office = office
  None = None
  SSIDs <- MCSSIDs
  NumSlots = 2
PROPERTIES
  OnlyLastAddedDeleted
