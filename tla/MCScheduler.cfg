SPECIFICATION LiveSpec
CONSTANTS
  Names = {"billing-hourly", "reports-monthly"}
  Exprs <- MonthlyAndNumeric
  Awaits = {"reports-monthly"}
  Minute = 1
  MaxTimer = 35791
  MaxSchedules = 2
  MaxChains = 2
INVARIANTS
  RunsAreSpaced
  RunningSchedulesHaveAChain
  PromptSchedulesHaveOneChain
PROPERTIES
  SchedulesKeepRunning
