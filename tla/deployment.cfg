CONSTANTS
  latestMigrationVersion = 1
  Slots = 3
  Troubles = 2
SPECIFICATION Spec
INVARIANTS
  TypeOK
  EngineReachable
  SchemaComplete
  OneWriter
PROPERTIES
  RefusalExplained
  ComesUp
  NoHalfSystem
CHECK_DEADLOCK FALSE
