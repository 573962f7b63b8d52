\* A feeder and another device come due at the same tick.
CONSTANTS
  Row <- MCRow
  Commands <- BothCommanded
  MaxDevices = 2
  BatchMax = 2
  MaxTicks = 3
SPECIFICATION Spec
INVARIANT FeederAskedApart
CHECK_DEADLOCK FALSE
