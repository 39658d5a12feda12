\* Two drones; an alert for each, one that a packet still holds and none to
\* spare; a drone falls silent one unit of time after its packet.
CONSTANTS
  Drones = {d1, d2}
  NoDrone = NoDrone
  Alerts = {a1, a2, a3}
  LinkLost = 1
  MaxFailures = 1
SPECIFICATION FairSpec
INVARIANTS
  TypeOK
  OneOpenAlert
PROPERTIES
  SilenceIsReported
  AlertsAreResolved
