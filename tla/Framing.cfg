\* Any chunks, junk between the objects, one object longer than the buffer.
CONSTANTS
  Object <- MCObject
  Junk <- MCJunk
  BufSize = 5
  MaxObjects = 2
  MaxUnread = 2
SPECIFICATION FairSpec
INVARIANTS PushedAreObjects QueuedInOrder ResynchronisedAtRest
PROPERTIES EveryObjectQueued
CHECK_DEADLOCK FALSE
