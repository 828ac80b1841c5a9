SPECIFICATION LiveSpec
CONSTANTS
  Urls = {u1}
  Events = {e1}
  MaxAttempts = 3
  MaxLogs = 2
  MaxHooks = 1
  MaxJobs = 1
  MaxBoots = 2
INVARIANTS
  ReceiversSeeBoundedAttempts
  LogsAreTheLatestAnswers
  AwaitedAttemptsAreOnTheWire
PROPERTIES
  PausedHooksStayQuiet
  EveryDeliveryEnds
CHECK_DEADLOCK FALSE
