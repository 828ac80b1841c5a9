SPECIFICATION LiveSpec
CONSTANTS
  first = first
  second = second
  Shutdowns = {first, second}
  ShutdownTimeout = 10
  QueueDrain = 5
  TracingTimeout = 3
INVARIANTS
  ServicesOutliveTheirUsers
  ExitsFindAClosedQueue
  ReadyMeansServing
PROPERTIES
  ShutdownEnds
CHECK_DEADLOCK FALSE
