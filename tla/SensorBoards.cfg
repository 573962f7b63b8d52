SPECIFICATION FairSpec
CONSTANTS
  Boards <- MCBoards
  FrameSize = 3
  RingSize = 8
  Second = 4
  Rate = 2
  Settled = 5
  StartFrames = 1
  StartRounds = 2
  MaxPolls = 11
  MaxFaults = 2
INVARIANTS ValuesOfItsBoard FreshAfterReconnection
PROPERTIES StartupEnds
CHECK_DEADLOCK FALSE
