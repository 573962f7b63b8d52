--------------------------- MODULE MCClientTable ---------------------------
(***************************************************************************)
(* Instances of ClientTable for TLC: three connections, one of them of the *)
(* web api, over three descriptors, or over two so that they are reused.   *)
(***************************************************************************)
EXTENDS ClientTable, TLC

CONSTANTS d1, d2, web

MCConn == {d1, d2, web}
MCWebApi == {web}
MCFd == {1, 2, 3}
TwoFds == {1, 2}
=============================================================================
