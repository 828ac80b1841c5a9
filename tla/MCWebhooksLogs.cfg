SPECIFICATION Spec
CONSTANTS
  Urls = {u1, u2}
  Events = {e1}
  MaxAttempts = 1
  MaxLogs = 1
  MaxHooks = 1
  MaxJobs = 1
  MaxBoots = 1
PROPERTIES
  LogsAreOfTheirWebhook
