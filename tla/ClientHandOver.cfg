\* The new thread may read clnt_sock after the next accept has replaced it.
CONSTANTS
  d1 = d1
  d2 = d2
  web = web
  Conn <- MCConn
  WebApi <- MCWebApi
  Fd <- MCFd
  MaxClnt = 3
  PromptStart = FALSE
  Interrupted = FALSE
  MaxSends = 0
  NoConn = NoConn
  Free = Free
SPECIFICATION Spec
INVARIANT OnlyDisconnectedRemoved
CHECK_DEADLOCK FALSE
