\* Any requests while the connection comes and goes.
CONSTANTS
  ANodes = 1
  SNodes = 1
  Channels = 2
  Always = 3
  OnInterval = 1
  TransMax = 2
  Value <- MCValue
  UnitTicks <- MCUnitTicks
  Number = {1}
  MaxPayload = 1
  MaxRequests = 3
SPECIFICATION FairSpec
INVARIANTS OnOnlyWhileTimed RunsForItsTime DueIsCounted ReportsOnSchedule GatewayKnows
PROPERTIES EveryReportSent
CHECK_DEADLOCK FALSE
