SPECIFICATION Spec
CONSTANTS
  first = first
  second = second
  Shutdowns = {first, second}
  ShutdownTimeout = 10
  QueueDrain = 5
  TracingTimeout = 3
INVARIANTS
  GracefulExitsLeaveNothingOpen
CHECK_DEADLOCK FALSE
