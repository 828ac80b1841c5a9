SPECIFICATION Spec
CONSTANTS
  JobConcurrency = 1
  JobRetryAttempts = 2
  JobHistoryLimit = 1
  QueueMaxDepth = 2
  Persistent = TRUE
  Types = {"billing"}
  Handled = {"billing"}
  Timed = {"billing"}
  Priorities <- OnePriority
  Reclose = FALSE
  MaxJobs = 2
PROPERTIES
  QueuedJobsSurviveClose
