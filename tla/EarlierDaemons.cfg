SPECIFICATION Spec
CONSTANTS
  ANodes = 1
  SNodes = 2
  Channels = 1
  Always = 3
  OnInterval = 2
  TransMax = 1
  Value = {0, 2, 3}
  UnitTicks <- MCUnitTicks
  Number = {1}
  MaxPayload = 1
  MaxRequests = 2
  Configs <- MCConfigs
  Second = 2
  Pause <- MCPause
  StartFrames = 0
  StartRounds = 1
  FramesMax = 1
  RoundsMax = 1
  MaxAnswers = 1
INVARIANTS OnForItsRounds ReportedWhileOn ValuesOfItsNode
CHECK_DEADLOCK FALSE
