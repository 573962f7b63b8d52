\* A signal interrupts the read() of a client that is still connected.
CONSTANTS
  d1 = d1
  d2 = d2
  web = web
  Conn <- MCConn
  WebApi <- MCWebApi
  Fd <- MCFd
  MaxClnt = 3
  PromptStart = TRUE
  Interrupted = TRUE
  MaxSends = 0
  NoConn = NoConn
  Free = Free
SPECIFICATION Spec
INVARIANT OnlyDisconnectedRemoved
CHECK_DEADLOCK FALSE
