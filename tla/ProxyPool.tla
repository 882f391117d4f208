------------------------------ MODULE ProxyPool ------------------------------
(***************************************************************************)
(* The shared proxy pool: ipsecscale on the LVS master publishes the       *)
(* healthy proxies to Valkey (ipsecscale main.rs reconcile_proxy and       *)
(* main), ipsecpulse's notify commands tell each LVS node whether it is    *)
(* the master (the role file), and every ipsecnode turns the published set *)
(* into the DNAT chain of its backend traffic (vpp.rs proxy_pool_task).    *)
(*                                                                         *)
(* Keyspace events only hurry a consumer that also looks every 30 seconds, *)
(* so a consumer may look at any time, whether its event arrived or not.   *)
(***************************************************************************)
EXTENDS Integers, FiniteSets

CONSTANTS
    Lvms,         \* LVS nodes
    Nodes,        \* VPN nodes
    Proxies,      \* members of the proxy autoscaling group
    Devices,      \* sources of connections
    NoSet,        \* None of Option<Vec<String>>, an absent key
    RealIp,       \* the backend's own address, used when the pool is empty
    NoBinding,    \* no conntrack entry
    Faults,       \* what may go wrong: a subset of AllFaults
    FirstHealthy, \* bound: the sets that may be healthy at first
    MaxHealth,    \* bound: changes of the healthy proxies
    MaxRoles,     \* bound: changes of a role file
    MaxFailures,  \* bound: failed commands
    MaxRestarts   \* bound: restarts of any process

\* The events the code meets but does not prevent:
\*   imds   the credentials cannot be fetched: the cycle does nothing
\*   set    the group cannot be described, or the SET fails
\*   lost   a SET that is reported as failed has taken effect
\*   apply  nft refuses the new chain
\*   flush  `conntrack -F` fails
\*   init   vpp::init cannot delete the old table, or flush conntrack
\*   vpp    vpp::init fails: the node runs without a consumer
\*   slow   a node is demoted between its probes and its SET
\*   dual   both LVS nodes are master at once
\*   flip   a role file changes back within a cycle of ipsecscale
AllFaults ==
    {"imds", "set", "lost", "apply", "flush", "init", "vpp", "slow", "dual", "flip"}

ASSUME PoolAssumption ==
    /\ \A S \in SUBSET Proxies : S # NoSet
    /\ RealIp \notin Proxies /\ NoBinding \notin Proxies \cup {RealIp}
    /\ Faults \subseteq AllFaults /\ FirstHealthy \subseteq SUBSET Proxies
    /\ MaxHealth \in Nat /\ MaxRoles \in Nat /\ MaxFailures \in Nat
    /\ MaxRestarts \in Nat

VARIABLES
    healthy,     \* the proxies that answer the probe
    role,        \* role[l]: l's role file says "master"
    pc,          \* pc[l]: idle, or set: probed and about to SET
    seen,        \* seen[l]: the proxies this cycle found healthy
    lastProxy,   \* lastProxy[l]: last_proxy
    wasMaster,   \* wasMaster[l]: was_master
    overlooked,  \* masters whose promotion a cycle without credentials passed over
                 \* while they remembered a publication (history)
    pool,        \* Valkey: fleetipsec:<pool>:pool
    step,        \* step[n]: idle, apply, flush: the progress of reconcile_pool
    got,         \* got[n]: the snapshot this reconcile_pool read
    last,        \* last[n]: the snapshot last applied
    chain,       \* chain[n]: members of the pool's DNAT chain
    pinned,      \* pinned[n]: conntrack's DNAT binding of each device
    lives,       \* lives[n]: restarts of n (history)
    managed,     \* nodes with a consumer, that is, with a VPP data plane
    unflushed,   \* nodes whose last flush, or start, has failed (history)
    health, roles, failures, restarts

lvmVars   == <<pc, seen, lastProxy, wasMaster, overlooked>>
nodeVars  == <<step, got, last, chain, pinned, lives, managed, unflushed>>
vars == <<healthy, role, lvmVars, pool, nodeVars, health, roles, failures, restarts>>

-----------------------------------------------------------------------------
\* The publisher. A definition marked "fault" is the one after it with a
\* plausible bug.

Fail(f) == f \in Faults /\ failures < MaxFailures /\ failures' = failures + 1

\* (fault: last_proxy survives a term as backup)
ForgottenNever(l) == lastProxy[l]

\* last_proxy is forgotten on promotion and on demotion.
Forgotten(l) == IF wasMaster[l] = role[l] THEN lastProxy[l] ELSE NoSet

\* The first half of a cycle: the role, the credentials, the probes. Without the
\* credentials was_master advances all the same.
Look(l) ==
    /\ pc[l] = "idle"
    /\ wasMaster' = [wasMaster EXCEPT ![l] = role[l]]
    /\ \/ /\ lastProxy' = [lastProxy EXCEPT ![l] = Forgotten(l)]
          /\ IF role[l] /\ Forgotten(l) # healthy
             THEN /\ pc' = [pc EXCEPT ![l] = "set"]
                  /\ seen' = [seen EXCEPT ![l] = healthy]
             ELSE UNCHANGED <<pc, seen>>
          /\ overlooked' =
                IF wasMaster[l] = role[l] THEN overlooked ELSE overlooked \ {l}
          /\ UNCHANGED failures
       \/ /\ Fail("imds")
          /\ overlooked' =
                IF role[l] /\ ~wasMaster[l] /\ lastProxy[l] # NoSet
                THEN overlooked \cup {l} ELSE overlooked
          /\ UNCHANGED <<lastProxy, pc, seen>>
    /\ UNCHANGED <<healthy, role, pool, nodeVars, health, roles, restarts>>

\* reconcile_proxy's SET; a failure leaves last_proxy and so is retried.
Publish(l) ==
    /\ pc[l] = "set"
    /\ pc' = [pc EXCEPT ![l] = "idle"]
    /\ seen' = [seen EXCEPT ![l] = {}]
    /\ \/ /\ pool' = seen[l]
          /\ lastProxy' = [lastProxy EXCEPT ![l] = seen[l]]
          /\ overlooked' = overlooked \ {l}
          /\ UNCHANGED failures
       \/ /\ Fail("set")
          /\ pool' \in IF "lost" \in Faults THEN {pool, seen[l]} ELSE {pool}
          /\ UNCHANGED <<lastProxy, overlooked>>
    /\ UNCHANGED <<healthy, role, wasMaster, nodeVars, health, roles, restarts>>

RestartPublisher(l) ==
    /\ restarts < MaxRestarts
    /\ restarts' = restarts + 1
    /\ pc' = [pc EXCEPT ![l] = "idle"]
    /\ lastProxy' = [lastProxy EXCEPT ![l] = NoSet]
    /\ seen' = [seen EXCEPT ![l] = {}]
    /\ wasMaster' = [wasMaster EXCEPT ![l] = FALSE]
    /\ overlooked' = overlooked \ {l}
    /\ UNCHANGED <<healthy, role, pool, nodeVars, health, roles, failures>>

-----------------------------------------------------------------------------
\* The role files

ChangeRole(l, master) ==
    /\ roles < MaxRoles
    /\ wasMaster[l] = role[l] \/ "flip" \in Faults
    /\ role' = [role EXCEPT ![l] = master]
    /\ roles' = roles + 1
    /\ UNCHANGED <<healthy, lvmVars, pool, nodeVars, health, failures, restarts>>

\* run_notify_master, when it gets to the role file
Promote(l) ==
    /\ ~role[l]
    /\ (\A k \in Lvms : ~role[k]) \/ "dual" \in Faults
    /\ ChangeRole(l, TRUE)

\* run_notify_backup
Demote(l) ==
    /\ role[l]
    /\ pc[l] = "idle" \/ "slow" \in Faults
    /\ ChangeRole(l, FALSE)

-----------------------------------------------------------------------------
\* The consumer: reconcile_pool

\* An absent snapshot is an empty pool.
Snapshot == IF pool = NoSet THEN {} ELSE pool

GetPool(n) ==
    /\ n \in managed
    /\ step[n] = "idle"
    /\ last[n] # Snapshot
    /\ got' = [got EXCEPT ![n] = Snapshot]
    /\ step' = [step EXCEPT ![n] = "apply"]
    /\ UNCHANGED <<healthy, role, lvmVars, pool, last, chain, pinned, lives,
                   managed, unflushed, health, roles, failures, restarts>>

\* The end of reconcile_pool
Idle(n) ==
    /\ step' = [step EXCEPT ![n] = "idle"]
    /\ got' = [got EXCEPT ![n] = {}]

\* (fault: any change counts as a removal)
HadRemovalAny(n) == last[n] # NoSet /\ last[n] # got[n]

\* (fault: removals are looked for in the wrong direction)
HadRemovalSwapped(n) == last[n] # NoSet /\ ~(got[n] \subseteq last[n])

HadRemoval(n) == last[n] # NoSet /\ ~(last[n] \subseteq got[n])

\* A failure leaves last, and so the next look tries again.
apply_proxy_pool(n) ==
    /\ step[n] = "apply"
    /\ \/ /\ chain' = [chain EXCEPT ![n] = got[n]]
          /\ IF HadRemoval(n)
             THEN /\ step' = [step EXCEPT ![n] = "flush"]
                  /\ UNCHANGED <<got, last>>
             ELSE Idle(n) /\ last' = [last EXCEPT ![n] = got[n]]
          /\ UNCHANGED failures
       \/ Fail("apply") /\ Idle(n) /\ UNCHANGED <<chain, last>>
    /\ UNCHANGED <<healthy, role, lvmVars, pool, pinned, lives, managed, unflushed,
                   health, roles, restarts>>

Unpinned == [d \in Devices |-> NoBinding]

\* A failed flush is only logged: last advances all the same.
conntrack_flush(n) ==
    /\ step[n] = "flush"
    /\ \/ /\ pinned' = [pinned EXCEPT ![n] = Unpinned]
          /\ unflushed' = unflushed \ {n}
          /\ UNCHANGED failures
       \/ /\ Fail("flush")
          /\ unflushed' = unflushed \cup {n}
          /\ UNCHANGED pinned
    /\ last' = [last EXCEPT ![n] = got[n]]
    /\ Idle(n)
    /\ UNCHANGED <<healthy, role, lvmVars, pool, chain, lives, managed, health, roles,
                   restarts>>

\* What cleanup_stale_state and the flush in vpp::init leave of node n when any of
\* their commands may fail
Remains(n) ==
    /\ chain' \in {chain, [chain EXCEPT ![n] = {}]}
    /\ pinned' \in {pinned, [pinned EXCEPT ![n] = Unpinned]}

\* vpp::init builds the chains anew, empty, and flushes conntrack; the task then
\* starts with no last. Where it fails, wherever it gets to, the pool is left
\* unmanaged; its failed deletes and its failed flush are ignored.
RestartNode(n) ==
    /\ restarts < MaxRestarts
    /\ restarts' = restarts + 1
    /\ lives' = [lives EXCEPT ![n] = @ + 1]
    /\ Idle(n)
    /\ last' = [last EXCEPT ![n] = NoSet]
    /\ \/ /\ managed' = managed \cup {n} /\ unflushed' = unflushed \ {n}
          /\ chain' = [chain EXCEPT ![n] = {}]
          /\ pinned' = [pinned EXCEPT ![n] = Unpinned]
          /\ UNCHANGED failures
       \/ /\ Fail("init")
          /\ managed' = managed \cup {n} /\ unflushed' = unflushed \cup {n}
          /\ Remains(n)
       \/ /\ Fail("vpp")
          /\ managed' = managed \ {n} /\ unflushed' = unflushed \cup {n}
          /\ Remains(n)
    /\ UNCHANGED <<healthy, role, lvmVars, pool, health, roles>>

-----------------------------------------------------------------------------
\* The proxies and the devices

ProxyChanges ==
    /\ health < MaxHealth
    /\ health' = health + 1
    /\ \E p \in Proxies : healthy' = IF p \in healthy THEN healthy \ {p} ELSE healthy \cup {p}
    /\ UNCHANGED <<role, lvmVars, pool, nodeVars, roles, failures, restarts>>

\* (fault: an empty pool keeps its rule, with an empty map)
TargetsEmptyMap(n) == IF chain[n] = {} THEN {NoSet} ELSE chain[n]

\* Where a new connection may go: with no member there is no rule in the chain,
\* and the DNAT to the backend's own address applies.
Targets(n) == IF chain[n] = {} THEN {RealIp} ELSE chain[n]

\* A device's first packet: the hash map chooses, conntrack keeps it.
NewConnection(n, d) ==
    /\ pinned[n][d] = NoBinding
    /\ \E p \in Targets(n) : pinned' = [pinned EXCEPT ![n][d] = p]
    /\ UNCHANGED <<healthy, role, lvmVars, pool, step, got, last, chain, lives, managed,
                   unflushed, health, roles, failures, restarts>>

-----------------------------------------------------------------------------

Init ==
    /\ healthy \in FirstHealthy
    /\ role = [l \in Lvms |-> FALSE]
    /\ pc = [l \in Lvms |-> "idle"]
    /\ seen = [l \in Lvms |-> {}]
    /\ lastProxy = [l \in Lvms |-> NoSet]
    /\ wasMaster = [l \in Lvms |-> FALSE]
    /\ pool = NoSet
    /\ step = [n \in Nodes |-> "idle"]
    /\ got = [n \in Nodes |-> {}]
    /\ last = [n \in Nodes |-> NoSet]
    /\ chain = [n \in Nodes |-> {}]
    /\ pinned = [n \in Nodes |-> Unpinned]
    /\ lives = [n \in Nodes |-> 0]
    /\ overlooked = {} /\ managed = Nodes /\ unflushed = {}
    /\ health = 0 /\ roles = 0 /\ failures = 0 /\ restarts = 0

Publisher(l) == Look(l) \/ Publish(l)
Consumer(n) == GetPool(n) \/ apply_proxy_pool(n) \/ conntrack_flush(n)

Next ==
    \/ \E l \in Lvms : Publisher(l) \/ RestartPublisher(l) \/ Promote(l) \/ Demote(l)
    \/ \E n \in Nodes : Consumer(n) \/ RestartNode(n)
    \/ \E n \in Nodes, d \in Devices : NewConnection(n, d)
    \/ ProxyChanges

Spec == Init /\ [][Next]_vars

\* Both loops run forever at a fixed interval; supervise-daemon and systemd
\* restart the processes.
FairSpec ==
    /\ Spec
    /\ \A l \in Lvms : WF_vars(Publisher(l))
    /\ \A n \in Nodes : WF_vars(Consumer(n))

-----------------------------------------------------------------------------
\* Properties

PoolTypeOK ==
    /\ healthy \subseteq Proxies
    /\ role \in [Lvms -> BOOLEAN]
    /\ pc \in [Lvms -> {"idle", "set"}]
    /\ seen \in [Lvms -> SUBSET Proxies]
    /\ lastProxy \in [Lvms -> (SUBSET Proxies) \cup {NoSet}]
    /\ wasMaster \in [Lvms -> BOOLEAN]
    /\ pool \in (SUBSET Proxies) \cup {NoSet}
    /\ step \in [Nodes -> {"idle", "apply", "flush"}]
    /\ got \in [Nodes -> SUBSET Proxies]
    /\ last \in [Nodes -> (SUBSET Proxies) \cup {NoSet}]
    /\ chain \in [Nodes -> SUBSET Proxies]
    /\ pinned \in [Nodes -> [Devices -> Proxies \cup {RealIp, NoBinding}]]
    /\ lives \in [Nodes -> Nat]
    /\ overlooked \subseteq Lvms /\ managed \subseteq Nodes /\ unflushed \subseteq Nodes
    /\ health \in Nat /\ roles \in Nat /\ failures \in Nat /\ restarts \in Nat

\* Between two reconcile_pool runs no device is pinned to a proxy that left the
\* chain, where its connections would black-hole, unless the node's last flush has
\* failed, or its start (vpp.rs reconcile_pool).
NoBindingToDeparted ==
    \A n \in Nodes \ unflushed, d \in Devices :
        step[n] # "flush" => pinned[n][d] \in chain[n] \cup {RealIp, NoBinding}

\* A running node drops a device's binding only when a member left the chain:
\* scaling out keeps every session on its proxy (vpp.rs reconcile_pool, "NOT on
\* scale-out").
ScaleOutKeepsSessions ==
    [][\A n \in Nodes, d \in Devices :
          /\ lives'[n] = lives[n]
          /\ pinned[n][d] # NoBinding /\ pinned'[n][d] # pinned[n][d]
          => last[n] # NoSet /\ ~(last[n] \subseteq chain[n])]_vars

\* With a master in office for good whose promotion was not passed over, the
\* published pool and the chain of every node with a consumer settle on the healthy
\* proxies, whoever was master before and whatever it had published (ipsecscale
\* main.rs main, "a single writer avoids double-writes / flap"; the "fresh publish"
\* that a promotion forces is left out by a cycle without credentials, and
\* last_proxy may then hold what another master has replaced).
PoolConverges ==
    <>[](\E l \in Lvms : role[l] /\ l \notin overlooked) =>
        <>[](pool = healthy /\ \A n \in managed : chain[n] = healthy)

=============================================================================
