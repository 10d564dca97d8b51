CONSTANTS
  NFiles = 2
  Actors = {alice, bob}
  Contents = {c1, c2}
  Writers = {w1}
  Auditors = {}
  NoOne = NoOne
  NoHash = NoHash
  Gone = Gone
  Blank = Blank
  MaxCommands = 4
  MaxEdits = 1
  MaxCrashes = 0
SYMMETRY Symmetry
SPECIFICATION Spec
CHECK_DEADLOCK FALSE
INVARIANTS BooksAgree NoDoubleLease
