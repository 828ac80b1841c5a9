SPECIFICATION Spec
CONSTANTS
  MaxTotalReadings = 2
  MaxBatchSize = 2
  Retention = 3
  MaxReadings = 3
  MaxDay = 6
  MaxBoots = 0
  HoursInDay = 2
  MonthLengths <- MCMonthLengths
  MonthsInYear = 2
  FirstWeekday = 5
  Scale = 600
  Null = Null
  Requests <- MCRequests
  MeterOf <- MCMeterOf
  HourOf <- MCHourOf
  ValueOf <- MCValueOf
  MaxAuditEntries = 1
  DeviceIds = {"d1"}
  Locations = {"here", "there"}
INVARIANTS
  EverySlotIsPresent
