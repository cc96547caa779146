SPECIFICATION FairSpec
CONSTANTS
  Jobs = {j1, j2, j3}
  Managers = {m1, m2}
  NoManager = NoManager
  MaxConcurrency = 1
  MaxCrashes = 1
INVARIANTS
  TasksMatchRows
  SuccessHasGraph
  ShownJobsAreAlive
PROPERTIES
  TerminalIsFinal
  JobsSettle
CHECK_DEADLOCK FALSE
