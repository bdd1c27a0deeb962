SPECIFICATION Spec
CONSTANTS
  d1 = d1
  d2 = d2
  p1 = p1
  p2 = p2
  None = None
  Destinations = {d1, d2}
  CredibleDestinations = {d1}
  NativeEvents <- Events
  Packets = {p1, p2}
  MaxEvents = 2
  Telemetry <- SmallTelemetry
  PlatformReports <- SmallReports
INVARIANTS
  TypeOK
  VerdictEarned
  ClaimsSupported
CHECK_DEADLOCK FALSE
