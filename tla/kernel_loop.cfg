CONSTANTS
  MasterPeriod = 5040
  Warmup = 100
  TimingStarts = {0}
SPECIFICATION Spec
CHECK_DEADLOCK FALSE
INVARIANTS TypeOK StreamLaw SignAgrees ReportConsistent
PROPERTY Halts
