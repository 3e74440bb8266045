------------------------------ MODULE MCPrefs ------------------------------
(***************************************************************************)
(* LocalPrefs on two networks and two peers of different users, one in the *)
(* first network only and one in both.  The names of the networks differ,  *)
(* or, for SharedIsKept, are those of same-named roles of two communities. *)
(***************************************************************************)
EXTENDS LocalPrefs, TLC

CONSTANTS p1, p2, u1, u2

MCNetName == 1 :> "lan" @@ 2 :> "game"
MCSameName == 1 :> "lan" @@ 2 :> "lan"
MCPeerUser == p1 :> u1 @@ p2 :> u2
MCPeerNets == p1 :> {1} @@ p2 :> {1, 2}
=============================================================================
