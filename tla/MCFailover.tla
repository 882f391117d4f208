----------------------------- MODULE MCFailover -----------------------------
(***************************************************************************)
(* The pair of LVS nodes, the first of them preferred.                     *)
(***************************************************************************)
EXTENDS Failover, TLC

CONSTANTS l1, l2

MCLvms == {l1, l2}

=============================================================================
