\* One real and one demo station, and a contact of a real drone.
CONSTANTS
  Contacts = {real, demo}
  DemoContacts = {demo}
  Stations = {1, 2}
  DemoStations = {2}
  NoStation = NoStation
  NoContact = NoContact
  Admin = Admin
  MaxTasks = 1
  MaxDistance = 1
SPECIFICATION DemoSpec
INVARIANTS
  ResetClears
