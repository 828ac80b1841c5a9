SPECIFICATION LiveSpec
CONSTANTS
  LoadKeys = {"contract:state"}
  PlainKeys = {"contract:state", "analytics:daily"}
  Callers = {c1, c2}
  Nobody = Nobody
  MaxEntries = 1
  MaxRetries = 1
  MaxWire = 1
INVARIANTS
  OneLoadPerKey
  LateMissesJoin
  MemoryIsBounded
PROPERTIES
  CallersAreAnswered
CHECK_DEADLOCK FALSE
