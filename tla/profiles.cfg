SPECIFICATION VMSpec
CONSTANTS
  office = office
  bare = bare
  NoProfile = NoProfile
  Profiles = {office, bare}
  Addresses = {1, 2}
  MaxWaiting = 2
SYMMETRY Symmetry
INVARIANTS
  VMTypeOK
  MachinesWhole
PROPERTIES
  ProfilesAreMachines
CHECK_DEADLOCK FALSE
