SPECIFICATION AnalyticsSpec
CONSTANTS
  MaxTotalReadings = 2
  MaxBatchSize = 2
  Retention = 1
  MaxReadings = 3
  MaxDay = 2
  MaxBoots = 1
  Clients = {c1, c2}
  Shared = TRUE
  Nothing = Nothing
  Windows <- WindowsValue
SYMMETRY ClientSymmetry
INVARIANTS
  StoreIsTheRecentWindow
PROPERTIES
  HitsOfAGrowingStoreAreFresh
