SPECIFICATION FairSpec
CONSTANTS
  home = home
  office = office
  None = None
  SSIDs <- MCSSIDs
  NumSlots = 2
INVARIANTS
  TypeOK
  NoInternetAsAP
  IdleIsSettled
PROPERTIES
  ProfilesAreTried
