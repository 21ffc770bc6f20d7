CONSTANTS
  Alerts = {a1}
  MaxHeight = 2
  Polls = 2
  Strips = 2
  Visits = 1
  Faults = 1
SPECIFICATION Spec
INVARIANTS
  TypeOK
  ConnectionsKept
PROPERTIES
  AnnouncedInOrder
  AnnouncementsSettle
  ListShowsOpen
