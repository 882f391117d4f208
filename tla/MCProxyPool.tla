----------------------------- MODULE MCProxyPool -----------------------------
(***************************************************************************)
(* Two LVS nodes, one VPN node, two proxies and a device.                  *)
(***************************************************************************)
EXTENDS ProxyPool, TLC

CONSTANTS l1, l2, n1, x1, x2, d1

MCLvms    == {l1, l2}
MCNodes   == {n1}
MCProxies == {x1, x2}
MCDevices == {d1}

MCFirstHealthy == {{x1}}

=============================================================================
