\* Every list of up to four devices over nine ticks.
CONSTANTS
  Row <- MCRow
  Commands <- MCCommands
  MaxDevices = 4
  BatchMax = 2
  MaxTicks = 9
SPECIFICATION Spec
INVARIANTS ScheduleIsExact DueAskedOnce PacketBounded
CHECK_DEADLOCK FALSE
