---------------------------- MODULE MCPeerSession ----------------------------
(***************************************************************************)
(* Instances of PeerSession: two peers, with the same number of free tun   *)
(* names, or with one that peer pa can use for a second session.           *)
(***************************************************************************)
EXTENDS PeerSession, TLC

CONSTANTS pa, pb

MCPeer        == {pa, pb}
OneSession    == pa :> 2 @@ pb :> 2
SecondSession == pa :> 3 @@ pb :> 2
OneSided      == pa :> 2 @@ pb :> 1
Returning     == pa :> 3 @@ pb :> 1
NoCrash       == pa :> 0 @@ pb :> 0
CrashOnce     == pa :> 1 @@ pb :> 1
CrashOfB      == pa :> 0 @@ pb :> 1
Symmetry      == Permutations(Peer)
=============================================================================
