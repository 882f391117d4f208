----------------------------- MODULE MCOnDemand -----------------------------
(***************************************************************************)
(* Two concentrators and a peer that changes its owner when both serve.    *)
(***************************************************************************)
EXTENDS OnDemand, TLC

CONSTANT p1

MCNodes == 1 .. 2
MCPeers == {p1}
MCHash  == p1 :> 12

=============================================================================
