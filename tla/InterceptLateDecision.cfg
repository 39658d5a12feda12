\* Two overlapping requests.
CONSTANTS
  Contacts = {c1}
  Stations = {1, 2}
  NoStation = NoStation
  NoContact = NoContact
  Admin = Admin
  MaxDistance = 1
  MaxTasks = 2
  Requests = {r1, r2}
  Kinds = {"report", "poll", "accept", "reject"}
  MaxRow = 1
SPECIFICATION Spec
PROPERTIES
  DecidedAsChecked
