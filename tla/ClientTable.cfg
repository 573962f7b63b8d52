\* The hub's table with prompt hand-over of clnt_sock, descriptors reused.
CONSTANTS
  d1 = d1
  d2 = d2
  web = web
  Conn <- MCConn
  WebApi <- MCWebApi
  Fd <- TwoFds
  MaxClnt = 2
  PromptStart = TRUE
  Interrupted = TRUE
  MaxSends = 1
  NoConn = NoConn
  Free = Free
SPECIFICATION FairSpec
INVARIANTS TableMatchesReaders QuietBroadcastReachesAll
PROPERTIES ClosedByItsOwnThread AcceptedIsServed ClosedIsReclaimed
CHECK_DEADLOCK FALSE
