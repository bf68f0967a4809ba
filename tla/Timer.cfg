SPECIFICATION FairSpec
CONSTANTS
  W = 8
  INTERVAL = 3
  REPORT_PERIOD = 2
  MAXTIME = 14
INVARIANTS TicksExact HaltOnlyWhenLate BusyTimeExact
PROPERTY TicksGoOn
CHECK_DEADLOCK FALSE
