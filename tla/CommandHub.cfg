SPECIFICATION FairSpec
CONSTANTS
  Devices <- MCDevices
  Commands <- MCCommands
  Packets <- MCPackets
  Unit <- MCUnit
  Readings <- MCReadings
  SetPoints <- MCSetPoints
  MaxPackets = 2
  MaxFaults = 1
  MaxAborts = 1
  Interrupts = FALSE
INVARIANTS AnimalsApart
PROPERTIES SecondRowOnlyByRace SetPointByServer SettempSettles
