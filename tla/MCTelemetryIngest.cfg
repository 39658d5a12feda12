\* Two packets of one drone, the window of TTL just above twice the skew, and
\* time enough for a nonce to expire and its packet to be sent again.
CONSTANTS
  d1 = d1
  Drones = {d1, d2}
  Packets = {p1, p2}
  DroneOf <- AllOfOneDrone
  Devices = {v1}
  NoDevice = NoDevice
  NoDrone = NoDrone
  NoPacket = NoPacket
  Skew = 1
  TTL = 3
  MaxTime = 3
  MaxOutages = 1
  MaxRestarts = 1
SPECIFICATION Spec
SYMMETRY PacketSymmetry
INVARIANTS
  TypeOK
  CopiesBounded
  DerivedFromStored
PROPERTIES
  TrackRegressionBounded
