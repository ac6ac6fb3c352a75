---------------------------- MODULE MCTcpServer ----------------------------
(* Instances of the TCP server thread for TLC.                             *)
EXTENDS TcpServer, TLC

CONSTANTS ca, cb

TwoClients == {ca, cb}
TwoRoles == {0, 1}
Mixed == (ca :> <<"req", "bad">>) @@ (cb :> <<"ind">>)
=============================================================================
