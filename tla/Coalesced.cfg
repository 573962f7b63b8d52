\* Two objects may share a read.
CONSTANTS
  Object <- FlatOrNested
  Junk <- NoJunk
  BufSize = 7
  MaxObjects = 2
  MaxUnread = 0
SPECIFICATION Spec
INVARIANT AllObjectsQueued
CHECK_DEADLOCK FALSE
