---------------------------- MODULE MCUdpServer ----------------------------
(* Instances of the UDP server for TLC.                                    *)
EXTENDS UdpServer

TwoRoles == {0, 1}
OneSource == {1}
SomeTimes == {1, 2, 5}
=============================================================================
