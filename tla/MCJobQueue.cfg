SPECIFICATION LiveSpec
CONSTANTS
  JobConcurrency = 1
  JobRetryAttempts = 2
  JobHistoryLimit = 1
  QueueMaxDepth = 2
  Persistent = TRUE
  Types = {"billing", "legacy"}
  Handled = {"billing"}
  Timed = {"billing"}
  Priorities <- TwoPriorities
  Reclose = TRUE
  MaxJobs = 2
INVARIANTS
  SlotsAreAccountedFor
  NoIdleSlot
  EveryQueuedJobIsScheduled
  AttemptsAreBounded
  StaleSnapshotIsPending
  SnapshotIsConsistent
PROPERTIES
  SortedQueuesStaySorted
  LiveJobsAreKept
  ImplementsLifecycle
  EveryJobEnds
