\* One request at a time, every kind: the handlers implement InterceptTasks.
CONSTANTS
  Contacts = {c1, c2}
  Stations = {1, 2}
  NoStation = NoStation
  NoContact = NoContact
  Admin = Admin
  MaxDistance = 1
  MaxTasks = 2
  Requests = {r1}
  Kinds <- AllKinds
  MaxRow = 1
SPECIFICATION Spec
PROPERTIES
  OneAtATime
