SPECIFICATION FairSpec
CONSTANTS
  first = first
  second = second
  android = android
  Runs = {first, second}
  Guests = {android}
  GuestOf <- SharedAddress
  Scoped = {android}
  MaxBytes = 1
INVARIANTS
  TypeOK
  NothingUnattended
  CeilingEnforced
PROPERTIES
  UncapturedLosesNetwork
CHECK_DEADLOCK FALSE
