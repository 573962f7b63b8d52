\* A ring of bytes as in rs232.c and a packet ring whose indexes wrap behind it.
CONSTANTS
  Rings <- MCRings
  Thread = {t1, t2}
  Packet = {p1, p2}
  MaxPush = 7
  NoPacket = NoPacket
  Free = Free
SPECIFICATION FairSpec
INVARIANTS DeliveredInOrder WrongOnlyInBetween ArrayLeft
PROPERTIES ImplementsFifo EveryPacketDelivered
CHECK_DEADLOCK FALSE
