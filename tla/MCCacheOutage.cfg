SPECIFICATION Spec
CONSTANTS
  LoadKeys = {"contract:state"}
  PlainKeys = {"contract:state", "analytics:daily"}
  Callers = {c1, c2}
  Nobody = Nobody
  MaxEntries = 1
  MaxRetries = 1
  MaxWire = 1
INVARIANTS
  CommandsFailFast
