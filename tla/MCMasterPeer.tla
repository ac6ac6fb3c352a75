---------------------------- MODULE MCMasterPeer ----------------------------
(***************************************************************************)
(* Instances of MasterPeer: two masters configured with each other, and    *)
(* two runs: of two peers at different masters, or of the same peer before *)
(* and after a restart.                                                    *)
(***************************************************************************)
EXTENDS MasterPeer, TLC

CONSTANTS ma, mb

MCMaster    == {ma, mb}
MCNeighbour == ma :> mb @@ mb :> ma

TwoVlan   == <<"v1", "v2">>
TwoHome   == <<ma, mb>>
TwoId     == <<"n1", "n2">>

\* How often each run sends its registration.
OneRetry  == <<2, 1>>
FourTries == <<4, 4>>

RestartVlan == <<"v1", "v1">>
RestartHome == <<ma, ma>>
=============================================================================
