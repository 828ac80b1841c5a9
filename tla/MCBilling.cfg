SPECIFICATION Spec
CONSTANTS
  MaxTotalReadings = 2
  MaxBatchSize = 2
  Retention = 2
  MaxReadings = 2
  MaxDay = 3
  MaxBoots = 1
  MonthLength = 2
INVARIANTS
  ReadingsAreBilledOnce
