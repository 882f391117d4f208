-------------------------- MODULE SiteAdvertisement --------------------------
(***************************************************************************)
(* What ipsecnode promises the Return Gateway: the /32 of a device is      *)
(* advertised because its site has a tunnel, it is not withdrawn while the *)
(* site keeps one, and after tunnels stop changing the advertisement       *)
(* follows them (nat.rs "Route lifecycle" and "Re-keying safety").  How    *)
(* tunnels are learnt, counted and installed is left to SiteDataPlane.     *)
(***************************************************************************)
EXTENDS Integers

CONSTANTS Sites, Devices(_)   \* Devices(s): the global_ips of site s

VARIABLES
    tunnels,      \* tunnels[s]: the CHILD_SAs of s the node has been told of
    advertised,   \* the global_ips that have a /32 route
    running       \* the node's process is running

absVars == <<tunnels, advertised, running>>

Up(s)   == tunnels[s] > 0
AllDevices == UNION {Devices(s) : s \in Sites}

AbsInit == tunnels = [s \in Sites |-> 0] /\ advertised = {} /\ running = FALSE

\* Tunnels change as they like; what becomes advertised belongs to a site that
\* is up after the step, what is withdrawn to no such site.
Follow ==
    /\ tunnels' \in [Sites -> Nat]
    /\ advertised' \subseteq AllDevices
    /\ \A s \in Sites : \A d \in Devices(s) :
          /\ d \in advertised' \ advertised => Up(s)'
          /\ d \in advertised \ advertised' => ~Up(s)' \/ (~running /\ running')

\* Bring the advertisement of one site in line with its tunnels.
Settle(s) ==
    /\ advertised' = IF Up(s) THEN advertised \cup Devices(s)
                     ELSE advertised \ Devices(s)
    /\ UNCHANGED <<tunnels, running>>

AbsSafety == AbsInit /\ [][Follow]_absVars

AbsSpec == AbsSafety /\ \A s \in Sites : WF_absVars(Settle(s))

=============================================================================
