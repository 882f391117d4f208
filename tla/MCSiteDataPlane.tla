--------------------------- MODULE MCSiteDataPlane ---------------------------
(***************************************************************************)
(* Small instances of SiteDataPlane: two sites with a device each.         *)
(***************************************************************************)
EXTENDS SiteDataPlane, TLC

CONSTANTS p1, p2, g1, g2

MCPeers == {p1, p2}
MCGlobals == {g1, g2}

Rec(mode, devs) == [nat_mode |-> mode, device_nat |-> devs]

\* Both sites stay provisioned; the first changes its mode.
MCAlways ==
    (p1 :> {Rec("customer", {g1}), Rec("backend", {g1})}) @@
    (p2 :> {Rec("backend", {g2})})

\* The first site is provisioned and removed again, the second changes its mode.
MCChanging ==
    (p1 :> {NoRecord, Rec("backend", {g1})}) @@
    (p2 :> {Rec("customer", {g2}), Rec("backend", {g2})})

=============================================================================
