\* Two overlapping requests, two drones of which one is deleted and registered
\* again under its uid, and keys enough for both to be rotated.
CONSTANTS
  Requests = {r1, r2}
  Stations = {s1}
  Devices = {v1}
  MaxUid = 2
  MaxDrones = 2
  MaxKeys = 3
SPECIFICATION FairSpec
INVARIANTS
  RegTypeOK
  KeyInForce
  ReferencesHold
PROPERTIES
  StraysOnlyByOverlap
  EveryRequestEnds
