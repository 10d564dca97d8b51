CONSTANTS
  NFiles = 2
  Actors = {alice, bob}
  Contents = {c1}
  Writers = {w1, w2}
  Auditors = {}
  NoOne = NoOne
  NoHash = NoHash
  Gone = Gone
  Blank = Blank
  MaxCommands = 2
  MaxEdits = 0
  MaxCrashes = 0
SYMMETRY Symmetry
SPECIFICATION Spec
CHECK_DEADLOCK FALSE
INVARIANT NoDoubleLease
