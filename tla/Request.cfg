SPECIFICATION Spec
CONSTANTS
  Devices <- MCDevices
  Commands <- MCCommands
  Packets <- MCPackets
  Unit <- MCUnit
  Readings <- MCReadings
  SetPoints <- MCSetPoints
  MaxPackets = 2
  MaxFaults = 1
  MaxAborts = 1
  Interrupts = FALSE
PROPERTIES RequestSetsNothing
