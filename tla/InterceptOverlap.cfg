\* Two requests that insert, write or remove rows, over one station, under
\* fairness (so no symmetry).  A rejection writes as a completion does, and a
\* decision advances the simulation first and last, as a poll does.
CONSTANTS
  Contacts = {c1}
  Stations = {1}
  NoStation = NoStation
  NoContact = NoContact
  Admin = Admin
  MaxDistance = 0
  MaxTasks = 2
  Requests = {r1, r2}
  Kinds = {"report", "accept", "complete", "delete", "patch"}
  MaxRow = 1
SPECIFICATION FairSpec
INVARIANTS
  NoOrphanTask
  StatusIsStamped
PROPERTIES
  EveryRequestEnds
  DuplicatesOnlyByOverlap
