\* Two overlapping requests at the login limiter and at the aircraft cache,
\* quadrilaterals on a grid, two flights of one interceptor, every database of
\* revision 5, and more packets than the spool holds.
CONSTANTS
  LoginRequests = {r1, r2}
  LoginMaxAttempts = 2
  Window = 2
  MaxRestarts = 1
  MaxSwitches = 2
  AirRequests = {q1, q2}
  CacheTTL = 2
  TokenTTL = 3
  AirTimeout = 1
  MaxTokens = 2
  Targets = {0, 1, 2, 3, 4}
  Exteriors <- Rings
  Redrawn <- RingsOfPatches
  Holes <- OverlappingHoles
  MaxHoles = 2
  Faraway <- FarPoint
  FlightContacts = {f1, f2}
  Distances = {1, 4}
  MinDuration = 2
  MinStep = 1
  Slices = 2
  Windows = {1, 3}
  MaxNow = 5
  MaxFlights = 2
  MaxPackets = 4
  QueueMax = 3
  BatchSize = 2
  MaxAttempts = 2
  MaxCrashes = 1
SPECIFICATION PartsSpec
INVARIANTS
  PartsTypeOK
  FailuresBounded
  AircraftAreFresh
  TargetsAreClassified
  PlaybackAgrees
  UpgradeReachesModels
  RowsAreWhereTheyBelong
PROPERTIES
  LockoutEnds
  OneRetryIsEnough
  OutboxDrains
