\* A client is removed while send_msg walks the table.
CONSTANTS
  d1 = d1
  d2 = d2
  web = web
  Conn <- MCConn
  WebApi <- MCWebApi
  Fd <- TwoFds
  MaxClnt = 2
  PromptStart = TRUE
  Interrupted = FALSE
  MaxSends = 1
  NoConn = NoConn
  Free = Free
SPECIFICATION Spec
INVARIANT SendToAll
CHECK_DEADLOCK FALSE
