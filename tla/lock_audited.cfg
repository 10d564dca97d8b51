CONSTANTS
  NFiles = 2
  Actors = {alice, bob}
  Contents = {c1}
  Writers = {w1}
  Auditors = {v1}
  NoOne = NoOne
  NoHash = NoHash
  Gone = Gone
  Blank = Blank
  MaxCommands = 3
  MaxEdits = 1
  MaxCrashes = 1
SYMMETRY Symmetry
SPECIFICATION Spec
CHECK_DEADLOCK FALSE
INVARIANTS TypeOK SchemaHolds
PROPERTY ImplementsLeaseLayer
