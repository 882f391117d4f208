------------------------------- MODULE VpnRing -------------------------------
(***************************************************************************)
(* ipsecscale's VPN watcher on the LVS nodes: each polls the VPN autoscal- *)
(* ing group, renders its own jhash DNAT table from the members, flushes   *)
(* its conntrack bindings when a member left, and publishes the members to *)
(* Valkey as the ring that ipsecnode reads (ipsecscale main.rs).  Both LVS *)
(* nodes run the same loop, unsynchronised.                                *)
(***************************************************************************)
EXTENDS JhashRing

CONSTANTS
    Lvms,         \* LVS nodes
    NoSet,        \* None of Option<Vec<String>>
    Flows,        \* customer flows, by source address
    Faults,       \* what may go wrong: a subset of AllFaults
    MaxChanges,   \* bound: membership changes of the group
    MaxFailures,  \* bound: failed commands
    MaxRestarts   \* bound: restarts of ipsecscale

\* The events the code meets but does not prevent:
\*   reload   `nft -f -` fails
\*   publish  the SET of the ring fails
\*   flush    `conntrack -F` fails
\*   blind    a node leaves the group while some ipsecscale has no previous set
\*            to compare with, or restarts before it acted on one that left
AllFaults == {"reload", "publish", "flush", "blind"}

ASSUME RingAssumption ==
    /\ \A S \in SUBSET Nodes : S # NoSet
    /\ Flows \subseteq DOMAIN Hash
    /\ Faults \subseteq AllFaults
    /\ MaxChanges \in Nat /\ MaxFailures \in Nat /\ MaxRestarts \in Nat

VARIABLES
    asg,       \* EC2: running members of the group
    pc,        \* pc[l]: the next step of l's reconcile_vpn_nat
    seen,      \* seen[l]: the members this cycle described, {} between cycles
    last,      \* last[l]: last_vpn, a set of nodes or NoSet
    table,     \* table[l]: nodes of the jhash map in l's `ip nat` table
    pinned,    \* pinned[l]: conntrack DNAT binding of each flow, a node or NoNode
    ring,      \* Valkey: nodes of fleetipsec:lvsring, or NoSet
    happened,  \* the kinds of faults so far
    changes, failures, restarts

hostVars  == <<pc, seen, last>>
countVars == <<happened, changes, failures, restarts>>
watcherVars == <<asg, hostVars, table, pinned, ring, countVars>>

-----------------------------------------------------------------------------
\* One cycle of ipsecscale on l

Fail(f) ==
    /\ f \in Faults /\ failures < MaxFailures
    /\ failures' = failures + 1
    /\ happened' = happened \cup {f}

NoFail == UNCHANGED <<failures, happened>>

\* What the code does not prevent but the deployment may: see AllFaults.
Blind == "blind" \in Faults /\ happened' = happened \cup {"blind"}

\* (fault: a node that only joined counts as removed too)
RemovedAny(l) == IF last[l] = NoSet THEN {} ELSE (last[l] \ seen[l]) \cup (seen[l] \ last[l])

\* Nodes that left since the last render; none are known after a restart.
Removed(l) == IF last[l] = NoSet THEN {} ELSE last[l] \ seen[l]

EndCycle(l) ==
    /\ pc' = [pc EXCEPT ![l] = "idle"]
    /\ seen' = [seen EXCEPT ![l] = {}]

Describe(l) ==
    /\ pc[l] = "idle"
    /\ last[l] # asg
    /\ seen' = [seen EXCEPT ![l] = asg]
    /\ pc' = [pc EXCEPT ![l] = "reload"]
    /\ UNCHANGED <<asg, last, table, pinned, ring, countVars>>

\* (fault: the flush is forgotten)
ReloadWithoutFlush(l) ==
    /\ pc[l] = "reload"
    /\ table' = [table EXCEPT ![l] = seen[l]]
    /\ pc' = [pc EXCEPT ![l] = "publish"]
    /\ UNCHANGED <<asg, seen, last, pinned, ring, countVars>>

\* (fault: a set whose reload failed is remembered as installed)
ReloadAdvancing(l) ==
    /\ pc[l] = "reload"
    /\ \/ /\ table' = [table EXCEPT ![l] = seen[l]]
          /\ pc' = [pc EXCEPT ![l] = IF Removed(l) # {} THEN "flush" ELSE "publish"]
          /\ NoFail /\ UNCHANGED <<seen, last>>
       \/ /\ Fail("reload")
          /\ EndCycle(l)
          /\ last' = [last EXCEPT ![l] = seen[l]]
          /\ UNCHANGED table
    /\ UNCHANGED <<asg, pinned, ring, changes, restarts>>

\* write_nat_file and reload_nat_table: an error ends the cycle, last unchanged.
Reload(l) ==
    /\ pc[l] = "reload"
    /\ \/ /\ table' = [table EXCEPT ![l] = seen[l]]
          /\ pc' = [pc EXCEPT ![l] = IF Removed(l) # {} THEN "flush" ELSE "publish"]
          /\ NoFail /\ UNCHANGED seen
       \/ /\ Fail("reload")
          /\ EndCycle(l)
          /\ UNCHANGED table
    /\ UNCHANGED <<asg, last, pinned, ring, changes, restarts>>

\* A failed flush is only logged.
flush_conntrack(l) ==
    /\ pc[l] = "flush"
    /\ \/ /\ pinned' = [pinned EXCEPT ![l] = [f \in Flows |-> NoNode]]
          /\ NoFail
       \/ /\ Fail("flush")
          /\ UNCHANGED pinned
    /\ pc' = [pc EXCEPT ![l] = "publish"]
    /\ UNCHANGED <<asg, seen, last, table, ring, changes, restarts>>

\* (fault: the set read before this cycle is published)
publish_lvsringStale(l) ==
    /\ pc[l] = "publish"
    /\ ring' = IF last[l] = NoSet THEN seen[l] ELSE last[l]
    /\ last' = [last EXCEPT ![l] = seen[l]]
    /\ EndCycle(l)
    /\ UNCHANGED <<asg, table, pinned, countVars>>

\* A failed publication is only logged: last_vpn advances all the same.
publish_lvsring(l) ==
    /\ pc[l] = "publish"
    /\ \/ ring' = seen[l] /\ NoFail
       \/ Fail("publish") /\ UNCHANGED ring
    /\ last' = [last EXCEPT ![l] = seen[l]]
    /\ EndCycle(l)
    /\ UNCHANGED <<asg, table, pinned, changes, restarts>>

\* The process restarts: its memory is gone, the kernel's tables stay.
Restart(l) ==
    /\ restarts < MaxRestarts
    /\ IF pc[l] = "idle" /\ last[l] = asg THEN UNCHANGED happened ELSE Blind
    /\ restarts' = restarts + 1
    /\ EndCycle(l)
    /\ last' = [last EXCEPT ![l] = NoSet]
    /\ UNCHANGED <<asg, table, pinned, ring, changes, failures>>

-----------------------------------------------------------------------------
\* EC2, the kernel and the customers

ScaleOut ==
    /\ changes < MaxChanges
    /\ changes' = changes + 1
    /\ \E n \in Nodes \ asg : asg' = asg \cup {n}
    /\ UNCHANGED <<hostVars, table, pinned, ring, happened, failures, restarts>>

ScaleIn ==
    /\ changes < MaxChanges
    /\ IF \A l \in Lvms : last[l] # NoSet THEN UNCHANGED happened ELSE Blind
    /\ changes' = changes + 1
    /\ \E n \in asg : asg' = asg \ {n}
    /\ UNCHANGED <<hostVars, table, pinned, ring, failures, restarts>>

\* A packet of an unpinned flow: the map chooses the node, conntrack keeps it.
NewFlow(l, f) ==
    /\ pinned[l][f] = NoNode
    /\ table[l] # {}
    /\ pinned' = [pinned EXCEPT ![l][f] = MapTarget(f, table[l])]
    /\ UNCHANGED <<asg, hostVars, table, ring, countVars>>

-----------------------------------------------------------------------------

\* ipsecpulse rendered the table at boot from the group as it was then.
WatcherInit ==
    /\ asg \in SUBSET Nodes
    /\ pc = [l \in Lvms |-> "idle"]
    /\ seen = [l \in Lvms |-> {}]
    /\ last = [l \in Lvms |-> NoSet]
    /\ table = [l \in Lvms |-> asg]
    /\ pinned = [l \in Lvms |-> [f \in Flows |-> NoNode]]
    /\ ring = NoSet
    /\ happened = {}
    /\ changes = 0 /\ failures = 0 /\ restarts = 0

Cycle(l) == Describe(l) \/ Reload(l) \/ flush_conntrack(l) \/ publish_lvsring(l)

WatcherNext ==
    \/ \E l \in Lvms : Cycle(l) \/ Restart(l) \/ \E f \in Flows : NewFlow(l, f)
    \/ ScaleOut \/ ScaleIn

WatcherSpec == WatcherInit /\ [][WatcherNext]_watcherVars

\* The loop runs every 15 s on both nodes, under supervise-daemon.
FairWatcherSpec == WatcherSpec /\ \A l \in Lvms : WF_watcherVars(Cycle(l))

-----------------------------------------------------------------------------
\* Properties

RingTypeOK ==
    /\ asg \subseteq Nodes
    /\ pc \in [Lvms -> {"idle", "reload", "flush", "publish"}]
    /\ seen \in [Lvms -> SUBSET Nodes]
    /\ last \in [Lvms -> (SUBSET Nodes) \cup {NoSet}]
    /\ table \in [Lvms -> SUBSET Nodes]
    /\ pinned \in [Lvms -> [Flows -> Nodes \cup {NoNode}]]
    /\ ring \in (SUBSET Nodes) \cup {NoSet}
    /\ happened \subseteq Faults
    /\ changes \in Nat /\ failures \in Nat /\ restarts \in Nat

\* Between cycles no flow is pinned to a node outside the table, as long as no
\* flush failed and no departure went unseen: after a node left, its bindings are
\* flushed (main.rs reconcile_vpn_nat, "we must flush conntrack -- otherwise flows
\* keep being DNAT'd to a departed node").
FlowsOnMembers ==
    happened \cap {"flush", "blind"} = {} =>
        \A l \in Lvms, f \in Flows :
            pc[l] \in {"idle", "publish"} => pinned[l][f] \in table[l] \cup {NoNode}

\* A binding is lost only when a node left the set that the previous cycle
\* installed: scaling out keeps every tunnel on its node (main.rs
\* reconcile_vpn_nat, "On pure scale-OUT we deliberately do NOT flush").
ScaleOutKeepsFlows ==
    [][\A l \in Lvms, f \in Flows :
          pinned[l][f] # NoNode /\ pinned'[l][f] # pinned[l][f]
             => last[l] # NoSet /\ ~(last[l] \subseteq table[l])]_watcherVars

\* Once the group stops changing, both tables settle on it, whatever command
\* failed on the way: a VRRP failover then takes over with a correct table
\* instead of a stale one (main.rs main, the VPN-NAT half of the loop).
TablesConverge ==
    <>[](\A l \in Lvms : table[l] = asg)

\* Once the group stops changing, the ring settles on it too, so the on-demand
\* owner is the node the LVS map routes the customer to (main.rs
\* publish_lvsring, "so ipsecnode can pick the on-demand initiate owner that
\* matches the LVS map").
RingConverges ==
    <>[](ring = asg)

\* It does unless a publication failed.
RingConvergesOncePublished ==
    []("publish" \notin happened) => RingConverges

\* The owner ipsecnode computes is the node that the kernel's map picks, for the
\* ring in Valkey (ipseccore owner_index: it must not be arithmetic modulo).
OwnerMatchesMap ==
    ring \notin {NoSet, {}} =>
        \A f \in Flows : owner_of(f, ring) = MapTarget(f, ring)

=============================================================================
