\* A real and a demo station, a real and a demo contact, three tasks ever
\* inserted: each contact may go to each station, a task may be reassigned,
\* and its contact resolved and reported again.
CONSTANTS
  Contacts = {real, demo}
  DemoContacts = {demo}
  Stations = {1, 2}
  DemoStations = {2}
  NoStation = NoStation
  NoContact = NoContact
  Admin = Admin
  MaxTasks = 3
  MaxDistance = 1
SPECIFICATION DemoSpec
INVARIANTS
  DemoTypeOK
  OneActiveTask
  TablesAgree
  RowsAreWhole
  NearestIsUnique
PROPERTIES
  TerminalIsFinal
  ReopensWithFreshTask
