----------------------------- MODULE MCSiteSetup -----------------------------
(* Two sites: one with the access server, its port splits and two modes, one *)
(* with both roles and the VRF only.                                         *)
EXTENDS SiteSetup, TLC

CONSTANTS p1, p2, d1, d2

MCRoles == (p1 :> {"access_server"}) @@ (p2 :> {"access_server", "sd_server"})
MCDevicesOf == (p1 :> {d1}) @@ (p2 :> {d2})
MCModesOf == (p1 :> {"backend", "customer"}) @@ (p2 :> {"backend"})

=============================================================================
