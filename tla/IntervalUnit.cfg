\* A sensor is asked for values in minutes while another counts seconds.
CONSTANTS
  ANodes = 1
  SNodes = 1
  Channels = 2
  Always = 3
  OnInterval = 1
  TransMax = 2
  Value <- MCValue
  UnitTicks <- MCUnitTicks
  Number = {1}
  MaxPayload = 2
  MaxRequests = 2
SPECIFICATION Spec
INVARIANT IntervalAsRequested
CHECK_DEADLOCK FALSE
