SPECIFICATION FairSpec
CONSTANTS
  Nodes = 2
  Stride = 2
  SensorMap <- MCSensorMap
  ActuatorMap <- MCActuatorMap
  Outgoing <- MCOutgoing
  MaxSent = 2
  CutPoints <- MCCutPoints
  MaxCuts = 1
  MaxCloses = 1
INVARIANTS HandledAsSent ReplyTellsStatus
PROPERTIES EveryPacketHandled
CHECK_DEADLOCK FALSE
