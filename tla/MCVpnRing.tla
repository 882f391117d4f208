------------------------------ MODULE MCVpnRing ------------------------------
(***************************************************************************)
(* Two LVS nodes, two concentrators and a flow of the first one's slot,    *)
(* whose owner changes when the first joins the second.                    *)
(***************************************************************************)
EXTENDS VpnRing, TLC

CONSTANTS l1, l2, f1

MCLvms  == {l1, l2}
MCNodes == 1 .. 2
MCFlows == {f1}
MCHash  == f1 :> 5

=============================================================================
