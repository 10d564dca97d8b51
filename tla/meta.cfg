CONSTANTS
  Texts <- MCTexts
  Payload = 16
  CStack = 24
  CodeMax = 16
  macro_expand <- MacroExpand
SPECIFICATION Spec
CHECK_DEADLOCK FALSE
INVARIANTS TypeOK ReadInverts CrashIsUnclosed CodeRuns CodeMeansSource
