# TLA+ models of fleetsuite

fleetsuite runs a fleet of IPsec gateways on AWS. Customers' devices reach a
network load balancer pair (LVS), which spreads the customers over a group of
VPN concentrators; behind these, backends talk to the devices through NAT.
Everything is provisioned in Valkey and moves by itself: tunnels come and go,
autoscaling groups grow and shrink, and the LVS pair fails over. The programs
that make it so are small sequential loops. What is hard about them is what
happens between them, and between two of their own steps; that is what is
modelled, model-checked and proved here.

Source paths are relative to `src/`, and a name in `code font` that looks like a
Rust function is one; the actions of the modules carry the names of the
functions they model wherever one function is one step.

## 1. The system

### 1.1 Programs, their state and their operations

| Program (where it runs) | State | Operations |
|---|---|---|
| `ipsecnode` event task (VPN concentrator) | `RouteCache`, `VrfCache`, `VrfAllocator`; kernel /32 routes; VPP tables; nft set `active_globals` | `list_established_peers` replay, `gc_stale_routes`, `replace_active_globals`, then `handle_child_updown` for each event |
| `ipsecnode` credential task | none of its own; charon's secrets and connections, XFRM interfaces | `bulk_load`, `run_pubsub_loop`, `handle_psk_event`, `handle_site_event`, `load_one_device`, `unload_one_device` |
| `ipsecnode` proxy-pool task | last applied snapshot; DNAT chain; conntrack | `reconcile_pool` on a keyspace event, every 30 s and at startup |
| `ipsecnode` on-demand task | trigger queue, de-duplication table, ring read last, its own address if IMDS told it, one Valkey connection and one subscription | `ondemand_task`, `initiate_sub_task`, `decide`, `spawn_initiate` |
| `ipsecscale` (both LVS nodes) | `last_vpn`, `last_proxy`, `was_master`; `ip nat` table; conntrack | `reconcile_vpn_nat` and `publish_lvsring` on both nodes, `reconcile_proxy` on the master, every 15 s |
| `ipsecpulse` (LVS nodes) | the role file `/run/ipsec-role`; AWS elastic IP and route | boot rendering, `run_notify_master`, `run_notify_backup` |
| `ipseccore` (library) | none | `owner_index`, `owner_of`, `render_ipsec_nat` |
| `ipsecnode` site setup (inside the event task) | VPP tables, taps and NAT mappings; kernel rules, routes and marks; nft maps, chains and rules with their handles | `setup_site_vrf`, `setup_site_bypass`, `setup_site_bnat`, their teardowns, `teardown_partial`, `cleanup_stale_state` |
| `squid-infoproxy` (proxy group) | its Valkey connection; the locals of one decision | per request line: the device's part number, then up to six allow-lists, each read reconnecting once |
| `fleetpulse` (Return Gateway pair) | the route of the backends | boot, notify-master (the route only), notify-backup |

### 1.2 How they interact

* **charon → event task**: `child-updown` events on a VICI connection. They
  exist only for a process that is registered; what happened before is learnt
  from `list-sas` at startup.
* **operator → Valkey → credential and event task**: keyspace events (pub/sub,
  so nobody hears one who is not subscribed) and plain reads at any later time.
* **credential task → charon**: VICI requests, one after the other. Charon is a
  process of its own, so what is loaded outlives ipsecnode.
* **ipsecscale → Valkey → every ipsecnode**: the pool of healthy proxies
  (written by the VRRP master only) and the ring of concentrators (written by
  both LVS nodes).
* **ipsecnode → ipsecnode**: handoffs on a pub/sub channel: "you own this
  customer, initiate its tunnel".
* **keepalived → ipsecpulse → AWS and ipsecscale**: a VRRP transition starts a
  notify command, which moves the elastic IP and the route and then writes the
  role file that ipsecscale reads once per cycle.
* **portal → Valkey → squid-infoproxy**: the portal's spooler rewrites one
  allow-list or one device's master data at a time; a helper reads them one after
  the other while it decides. Squid's up to 40 helpers share nothing else.
* **event task → VPP, kernel, nft**: a few dozen commands per site, each a process
  of its own whose failure ends the setup, skips a device or is logged, depending on
  which it is.
* **kernel**: routes, nft tables and conntrack outlive every process, but not
  the host.

### 1.3 What is hard, and what makes each part correct

| Part | Hard behaviour | Correct when |
|---|---|---|
| event task | two caches counted by events whose UP and DOWN may swap in a rekey; two reads of one record; a crash that keeps routes and loses counts; a listing that races with events | counts follow charon, routes and `active_globals` follow tunnels, nothing is withdrawn early or left behind, ids are never shared, and a restart repairs what faults have spoilt |
| credential task | key and record are separate keys, read one after the other while the operator writes; requests fail half-way; events are lost between connections | charon settles on exactly what Valkey has, a loaded connection can authenticate, a revoked site cannot |
| proxy pool | two publishers, one of them at a time; commands and starts that fail; a consumer that must flush on removal and must not on scale-out | the pool and the chain of every node with a consumer settle on the healthy proxies, no device stays pinned to a departed one after a flush that worked |
| ring | two unsynchronised writers, restarts that forget the previous set, the same hash computed in the kernel and in Rust | both tables and the ring settle on the group; the owner is the node the kernel picks |
| on-demand | rings of different age on different nodes, lost handoffs, Valkey connections that are not opened again, nodes without an address, lookups that age the de-duplication window | no double initiate, owners only once the rings agree, the site comes up when every node has its connections |
| failover | commands of two transitions may overlap, AWS calls fail half-way, nobody runs a command again; a node becomes master while it boots | who acts as master has elastic IP and route, one node acts, failover completes |
| site setup | a failure at any command, with three different clean-ups that may fail themselves; VRFs that outlive the process; ids and rule handles that are reused or unknown; rules whose order decides | a device reported as installed forwards, nothing else diverts its packets, a site that is gone leaves only what a failure explains |
| proxy decisions | seven reads that are not one; idle connections, restarts, outages and stalls of Valkey | the answer is that of one instant, one lost connection costs nothing, every line is answered unless the connection hangs |

`PROJECT.json` lists the hazards line by line, with the property that covers
each or the reason none does.

## 2. The modules

| Module | Models | Extended or used by |
|---|---|---|
| `SiteDataPlane` | the event task: `nat.rs`, the per-site half of `vpp.rs`, startup in `vici.rs` and `main.rs` | `MCSiteDataPlane`, `SiteDataPlaneProofs` |
| `SiteAdvertisement` | abstract: what a node promises the Return Gateway about its /32 routes | `SiteDataPlane` (`INSTANCE`) |
| `BackendNat` | the nft maps, chains and rules of a site's backend DNAT: `setup_site_bnat` and `teardown_site_bnat` in `vpp.rs` | `SiteSetup` |
| `SiteSetup` | the commands of a site's setup and teardown in `vpp.rs`, with `BackendNat` inside, and `init`'s clean-up | `MCSiteSetup`, `SiteSetupProofs` |
| `Credentials` | the credential task: `credentials.rs` and its requests in `vici.rs` | `MCCredentials`, `CredentialsProofs` |
| `ProxyPool` | `reconcile_proxy` on both LVS nodes, the role file, `reconcile_pool` on every node | `MCProxyPool`, `ProxyPoolProofs` |
| `JhashRing` | `owner_index`, `owner_of` and the kernel's map that `render_ipsec_nat` describes | `VpnRing`, `OnDemand`, `RingProofs` |
| `VpnRing` | `reconcile_vpn_nat` and `publish_lvsring` on both LVS nodes | `MCVpnRing`, `RingProofs` |
| `OnDemand` | `ondemand.rs` on every concentrator | `MCOnDemand`, `RingProofs` |
| `Failover` | `run_boot`, `run_notify_master` and `run_notify_backup` of ipsecpulse and of fleetpulse, under the keepalived that the rendered `vrrp.conf` configures | `MCFailover`, `FailoverProofs` |
| `DestinationRules` | `matcher.rs`: the rules of an allow-list and what they permit | `InfoProxy` |
| `InfoProxy` | one squid-infoproxy helper: `decide`, `tier_allows` and the client of `valkey.rs` | `MCInfoProxy`, `InfoProxyProofs` |

`MC...` modules give the constants their values for TLC, `...Proofs` modules hold
theorems: one per component, and `RingProofs` for the two that use the ring, with the
lemmas on the hash that both rest on. It extends both, so `VpnRing` calls its
specification `WatcherSpec`, and `OnDemand` the ring in Valkey `published`. Two
conventions run through all of them:

* `Faults` is the set of things that may go wrong in a run. Each module's
  `AllFaults` lists, with a comment, every event that the code meets and does
  not prevent. A property that needs some of them to be absent says so, either
  by the run that checks it or, better, in its own statement through
  `happened`, the set of the kinds of faults so far (`VpnRing`, `Failover`,
  `SiteSetup`).
* A definition whose comment begins with "(fault:" is not the code's. It is the
  definition that follows it with a plausible bug, kept so that each property can
  be seen to fail when the code is wrong. No specification uses one.

### 2.1 SiteDataPlane and SiteAdvertisement

| State | Code |
|---|---|
| `routeCache[p]` | `nat::RouteCache`: `PeerRouteState { global_ips, child_sa_count }` |
| `vrfCache[p]`, `alloc` | `vpp::VrfCache`, `VrfAllocator`; one id stands for forward table, return table and tap index, which are taken and given back together |
| `routes` | the /32 of each global_ip: absent, blackhole, on the site's xfrm interface, on `vpp-outer` |
| `activeGlobals` | nft set `ipsecnode_ondemand/active_globals` |
| `natRec` | Valkey `fleetipsec:nat:<peer>` |
| `sas`, `events`, `registered` | charon's INSTALLED CHILD_SAs, the event stream and its registration |
| `proc`, `todo`, `work` | where the process is; listed SAs still to replay; the half of a handler still to run |

A handler has two halves with awaits in between: nat then vpp for an UP, vpp then
nat for a DOWN. Each half is an action, with `work` between them, so that charon,
the operator and a crash can act in the middle. The two halves of an UP read the
NAT record separately, as the code does. `Reconcile` is the garbage collection and
the replacement of `active_globals` after the replay. A failed nft command on
`active_globals` is only logged (`ondemand.rs` 150 to 187): under fault `active` an
element is not added, not removed, or the whole replacement does not happen. The flag `EagerSubscribe`
covers both times at which the event registration can reach charon.

`SiteAdvertisement` knows only the tunnels a node was told of and the set of
advertised devices: what becomes advertised belongs to a site that is up, what is
withdrawn belongs to none that is (unless a process that starts clears what the last
one left), and each site is
brought in line eventually. `ImplementsAdvertisement` is the refinement, under the
mapping at the end of `SiteDataPlane`: a site has the tunnels the task was told of
(`Seen`, none before it is provisioned) and a device is advertised when it has a /32.
Its safety part is also proved (section 4).

### 2.2 Credentials

`psk` and `site` are Valkey's two keys of each site; `shared`, `conns` and `xfrm`
are what charon and the kernel hold; `job` is the load or unload in progress, one
action per request (`get_psk`, `get_site_record`, `load_shared`,
`load_device_conn`, `unload_shared`, `unload_conn`, `drop_conn`), so that writes
fall between any two. `unscanned` is what `bulk_load`'s SCAN has yet to return.
`CharonRestart` ends ipsecnode, too: the event task's connection breaks, and
`main` exits with it.

A run has one site. Sites share nothing but the queue and the task that works it
off one job at a time, so another site's job is a delay, and delays of any length
are there already.

### 2.3 ProxyPool

A publisher's cycle is two steps: `Look` (role, credentials, describe, probes) and
`Publish` (SET); a consumer's is `GetPool`, `apply_proxy_pool`, `conntrack_flush`.
A consumer may look at any time, which covers the keyspace event, the 30 s ticker
and the event that was lost. `lastProxy`, `wasMaster` and `last` are the code's
variables of those names. `pinned` is conntrack: a device keeps the proxy that its
first packet got until the entry is flushed. `managed` are the nodes with a consumer:
where `vpp::init` fails, at whichever command, ipsecnode runs without one
(`ipsecnode/src/main.rs` 105 to 117 and 217 to 225), with what `Remains` says of the
old chain and the old bindings. `init` is a start whose own clean-up or flush failed
and was ignored. Two variables are history, for the properties only: `unflushed`, the
nodes whose last flush or start failed, and `overlooked`, the masters whose promotion
was passed over by a cycle without credentials while `last_proxy` held a publication.

### 2.4 JhashRing and VpnRing

`owner_index(h, n)` is the reciprocal scaling `h * n / 2^32` in 64 bits;
`MapTarget` says what the kernel's `jhash ... mod n map` does, as the bounds of a
slot. `VpnRing` runs the cycle of both LVS nodes in four steps, `Describe`,
`Reload`, `flush_conntrack`, `publish_lvsring`, with `last` as `last_vpn`. A cycle
that finds the group unchanged does nothing, and so does its model: `Describe` is
enabled only when `last # asg`.

### 2.5 OnDemand

Time is measured by ages: of a peer's entry in the de-duplication table
(`inflight`, whose entry leaves at `Ttl`), of a lookup and of an initiate. `Tick`
ages all of them and waits for none longer than its bound. `task` remembers
whether the peer was in the table when its trigger was received, because the code
purges the table then, and inserts, after the lookup, with the time of the
receipt.

A node has two Valkey connections for this, and neither is ever opened again. `deaf`
nodes are those whose handoff subscription has ended, or never began. `conn[n]` is the
task's: on a `"broken"` one (`ConnectionEnds`) every later lookup, publication and
refresh fails; a task whose first connection fails (`"none"`) has returned, unwatched by
`main`, and the nft queue lets the packets pass. `knows` are the nodes whom IMDS told
their address; the others initiate by themselves (`Decide`) and do not subscribe.
`Boot` chooses all of this when a process starts. A peer whose gw field is no IPv4
address has no `Hash`, and everybody initiates it. That a command on a connection
that is gone fails, rather than waits, is the redis crate's response timeout
(`Cargo.toml:23`, redis 1.6), which is external: a command that hangs counts as one on
a broken connection.

### 2.6 Failover

`script[n]` holds the next step of every notify command that runs on `n`: several
when one was overtaken. The steps of `run_notify_master` are the elastic IP, then
ReplaceRoute, CreateRoute if there was none, then the role file. `Elect`, `Yield`,
`InterfaceDown`, `Up` and `Crash` are keepalived and the host as the rendered
`vrrp.conf` sets them up (nopreempt, a FAULT state without a notify command).
keepalived and AWS are external. `pair` is what the nodes were baked as: on an
`"lvs"` pair ipsecpulse moves the elastic IP and the route, on a `"gateway"` pair
fleetpulse moves the route alone, so that its notify-master begins with `replace`.
`run_boot` is the command that keepalived's start waits for: when an EC2 call of its
fails, keepalived does not start and supervision tries again.

### 2.7 BackendNat and SiteSetup

`SiteDataPlane` says when a site is set up or torn down and counts; `SiteSetup`
takes a site that is up or down and goes through the commands in the code's order.
`objects` is what exists in VPP and in the kernel, each with its kind, its site and
a key (a table for rules and routes, a device for its NAT); `live` says that what it
refers to still exists, so that a path over a deleted tap or a mark for a deleted
link is visible. `cache` and `alloc` are the code's; `work` is what the handler still
has to do. `BackendNat` keeps the nft side: `maps`, `chains`, the ordered `rules` of
each base chain, and `bnat`, the `SiteBnatState` with the handles the process knows.

A command may fail while `MaxFailures` allows, in the way the code treats it:
`setup` gives up the setup and runs `teardown_partial`, `device` skips the device,
`route_del` is the `ip route del` before a device's route, whose result is discarded
(`vpp.rs:1484`), `bnat` skips the rest of a chain of nft commands, `cleanup` is a delete
of `setup_site_bnat`'s own clean-up (`vpp.rs` 1156, 1273, 1276, 1406, 1412), which is
logged, `handle` is an nft reply without a
handle, `teardown` is logged, and `crash` ends the process between two commands. A
step in which a route del and the command after it fail is one failure with two kinds
(`FailBoth`). A failure of a vppctl command is one that `vppctl` reports: a non-zero exit, or an
answer that begins with "unknown input" or "Failed:" (`vpp.rs` 236 to 241). Any other
refusal passes for success there, and is not modelled.
`init` is the next process: `cleanup_stale_state` and `nat.rs`'s clean-up.

### 2.8 DestinationRules and InfoProxy

`rules` and `parts` are Valkey's keys, `server` and `conn` its state and that of the
helper's connection. `pc` is the read under way, `attempt` tells the read from its
repetition after a reconnect; `conn` is `"hung"` while Valkey stalls or its host is gone
without a word (`Stall`, `Resume`); `line`, `partno` and `ns` are the locals of `decide`.
Connecting, a reply, an error reply and a closed connection are separate actions, and
the spooler, a stall, a dropped connection and an outage fall between any two. `rules0`,
`parts0`, `writes`, `hits` and `failed` record what happened to the current request,
for the properties only. `DestinationRules` has the matcher as operators: host
suffixes that may start inside a label, the two ways to write a subdomain, port
ranges of 16 bits, and `--strict-proto`. An empty `port_to` means the single port
`port_from`, as `matcher.rs` has it; its doc (line 14) also says "empty = any".

## 3. What the runs check

Twelve runs: nine that pass and three that show a disagreement between the code
and its own documentation. Passing runs have between 57 000 (`site_ok`) and 3.3
million (`site_repair`) distinct states and end within four minutes with two workers.

### 3.1 Passing runs

| Run | Question | Bounds | Properties |
|---|---|---|---|
| `site_ok` | Does the event task keep what a node promises about its routes, and a crash not matter, when nothing fails? | 2 sites with a device each, one provisioned and removed, one that changes its mode; 2 CHILD_SAs per site, 2 queued events, 1 crash | `TypeOK` `ImplementsAdvertisement` `LiveTunnelsForward` `DeadTunnelsWithdrawn` |
| `site_repair` | After any combination of faults, does a restart repair everything? | same sites, all seven faults before the crash and none after, 1 queued event, the registration before the listing | `RefcountsMatchCharon` `RoutesMatchTunnels` `NothingLeftBehind` `NoPrematureWithdrawal` `ActiveMatchesCache` after the restart; `IdsExclusive` throughout |
| `cred_ok` | Does charon settle on what Valkey has? | 1 site, 2 keys, a record with and one without an IKE identity; every fault until charon restarts; 4 writes, 2 crashes or lost connections | `CredTypeOK` `SettledFollows` `ConnAuthenticates` `CharonFollowsValkey` |
| `pool_ok` | Do pool and chains settle across failovers? | 2 LVS nodes, 1 VPN node, 2 proxies, 1 device; 5 role changes, 2 health changes, 2 failed commands, 1 restart, one proxy healthy at first | `PoolTypeOK` `NoBindingToDeparted` `ScaleOutKeepsSessions` `PoolConverges` |
| `vpn_ok` | Do tables, flows and ring follow the group? | 2 LVS nodes, 2 concentrators, 1 flow; 2 membership changes, 1 failed command, 1 restart, every fault | `RingTypeOK` `OwnerMatchesMap` `FlowsOnMembers` `ScaleOutKeepsFlows` `TablesConverge` `RingConvergesOncePublished` |
| `ondemand_ok` | Does a wanted site come up, initiated once and by its owner? | 2 concentrators that may join, leave and restart, 1 peer, a window of 3 ticks, 1 break of any kind: a failure, a lost connection, a restart or a change of membership | `OnDemandTypeOK` `OneInitiatePerNode` `OnlyOwnersInitiate` `BackendBringsUp` |
| `failover_ok` | Do elastic IP, route and role stay together? | 2 nodes, of either kind of pair, 3 crashes, interface failures or partitions, every fault | `FailoverTypeOK` `MasterCarriesTraffic` `OneWriter` `FailoverCompletes` |
| `sitesetup_ok` | Does a site's setup forward, and its teardown leave nothing, whichever commands fail? | 2 sites with a device each, one with both modes and the port splits, one with both roles; 2 failed steps of any kind, a crash being one | `SetupTypeOK` `InstalledDevicesForward` `NothingLeft` `SplitsFirst` |
| `infoproxy_ok` | Is a decision made of several reads one decision, and is Valkey's trouble absorbed? | 1 device, 1 model, each allow-list empty or of three rules, 2 command lines, 1 key rewritten during a request; any number of drops, stalls and outages | `InfoTypeOK` `VerdictOfOneInstant` `OneHiccupAbsorbed` `EveryLineAnswered` |

**SiteDataPlane.** `RefcountsMatchCharon` compares both caches with the CHILD_SAs
the task has been told of: it fails when a rekey, a replay or a record change is
counted wrongly. `NoPrematureWithdrawal` is the promise of `nat.rs`, "Re-keying
safety". `RoutesMatchTunnels` and `NothingLeftBehind` speak of quiet moments, when
no event is queued. `LiveTunnelsForward` and `DeadTunnelsWithdrawn` are the same
promise as liveness. `site_ok` writes records only while a site has no tunnel,
because a record that changes under a live tunnel is one of the faults, `record`.
`ActiveMatchesCache` speaks of a life without faults: in one in which an nft command on the set
fails, its element stays or is missing until the next start replaces the set.
`site_ok` asks for the refinement and the liveness, which need a task without
faults; the invariants are asked of `site_repair`, which includes its behaviours.
There `CheckedFrom = FaultyLives = 1` makes the conditional properties
speak of the time after the crash: the replay and the garbage collection must
rebuild everything from charon's list, whatever the first life left behind. The run takes
the event registration to reach charon before the listing (`EagerSubscribe`); the other order
is in `site_ok`, and the theorems cover both.

**Credentials.** `faulty` ends when charon restarts, because only that forgets what
should not be loaded: `SettledFollows` and `CharonFollowsValkey` say that then
charon has for each site exactly the key, the owners and the connection that Valkey
has. `ConnAuthenticates` is about the moments in between: a connection is never
loaded without a secret that its identity owns, except inside the job that changes
it and while the event of its record is queued.

**ProxyPool and VpnRing.** `ScaleOutKeepsSessions` and `NoBindingToDeparted` (and
likewise `ScaleOutKeepsFlows` and `FlowsOnMembers`) pull in opposite directions:
flush exactly on removal. `PoolConverges` needs a master that stays and is not `overlooked`; which node was
master before, what it published and when it was demoted are left open, except for
the faults `slow`, `dual`, `flip` and `lost`, each of which, added to the `Faults` of
`ProxyPool_ok.cfg`, refutes it. Without the condition on `overlooked` TLC refutes it as
well: was_master advances in a cycle that got no credentials, so that a node which missed
its demotion and its promotion in two such cycles goes on with the `last_proxy` of its
first term, although `main.rs:414` has it "force a fresh publish". `NoBindingToDeparted`
leaves out the nodes in `unflushed`. `RingConvergesOncePublished` is `RingConverges` for
behaviours in which no SET of the ring fails; that the condition is needed shows when
`RingConverges` is asked of `VpnRing_ok.cfg` instead.

**OnDemand.** `OneInitiatePerNode` states its own condition, `LookupBound +
InitiateBound < Ttl`: the window of 30 s must outlast a lookup, up to 5 s of
connecting and an initiate of 20 s, because the entry gets the age of the trigger.
`OnlyOwnersInitiate` holds once every task that runs reads the same ring, for the nodes that
know their own address and the peers whose address can be read; the others are initiated
wherever their packet arrives, as `main.rs:203` says ("degrading to any-node initiate").
`BackendBringsUp` holds when every node ends up with both its connections: one
without either takes packets or handoffs and does nothing with them until it is
restarted. A lost handoff, a failed lookup or initiate and a node that leaves with the
tunnel are made good by the next packet.

**SiteSetup.** `InstalledDevicesForward` is about a device that `on_child_up` lists
as installed: mapping, a path over a tap that exists, rules, routes and marks of
its own site, whatever another site or an earlier process left. Two parts have a premise,
each a limit of the code. That no other rule catches the site's packets needs that no command
of a teardown has failed: a policy rule that could not be deleted names a table that the
next site gets. That the path is the only one needs that no `route_del` has failed:
`vpp.rs:1484` discards its result, and after a crash the path over the old tap then stays
beside the new one, although the comment above it says "Deleting first keeps exactly one
clean, resolvable path". `NothingLeft` tells, per kind of
failure, what may outlive a site (`MayRemain`); anything more, and anything at all
without a failure, refutes it. `SplitsFirst` is the order of the nft rules: no default
rule before the jump to the port splits, also in the site's second life.

**InfoProxy.** `VerdictOfOneInstant` compares the answer with one that reads the
part number and all lists at once, when the request came or when it is answered. It
holds when at most one key is rewritten in between, which is what a change of one
binding is, and not for two: with `MaxWrites` 2 and without the premise, TLC finds an
answer that belongs to no instant. `OneHiccupAbsorbed` counts what happened to the connection:
only an outage or two events during a request deny a device. `EveryLineAnswered` is
that the second failure ends the request; it excludes a connection that hangs.

**Failover.** The properties exclude the faults `slow` and `split` in their
statements, and keep `aws`: a failed AWS call never leaves a node that acts as
master without the elastic IP and the route, because the role file is written
last. Neither exclusion can go: TLC refutes all three properties when overtaken
commands or lost heartbeats are allowed.

### 3.2 Runs that find a disagreement

| Run | Property | The code | What the repository says |
|---|---|---|---|
| `site_lookup_fault` | `NoPrematureWithdrawal` | a failed read of the NAT record (`nat.rs:269`) loses one count; the next rekey's DOWN withdraws a live site | `nat.rs:23` "never prematurely withdraws the BGP advertisement" |
| `site_startup_race` | `RefcountsMatchCharon` | a CHILD_SA installed between registration and listing (`vici.rs:429`) is counted twice and its routes stay | `vici.rs:615` "rebuild per-site refcounts to match charon" |
| `cred_revoked` | `RevokedCannotConnect` | a key deleted while the node is not subscribed stays loaded (`credentials.rs:204`, `433`) | `credentials.rs:53` "any device not in Valkey cannot connect" |

Four more are known from the model and kept as premises of the properties, with
their hazards in `PROJECT.json`. A failed publication of the ring is logged and
`last_vpn` advances (`ipsecscale/src/main.rs:402`), so that the ring stays stale
although `main.rs:328` has it "pick the on-demand initiate owner that matches the LVS
map". And a master demoted between its probes and its SET overwrites its successor's
pool (`ipsecscale/src/main.rs:421`), which never looks again, although `main.rs:412`
says "a single writer avoids double-writes / flap". The other two are the promotion that is
passed over and the route del whose failure is discarded (section 3.1).

### 3.3 Why the bounds are enough

* **Two of each actor that competes.** Two LVS nodes are the deployment. Two sites
  suffice for what sites share: the allocator's free list and the one task. Two
  CHILD_SAs per site make a rekey and a duplicate; a third repeats the second.
* **One of what does not compete.** ProxyPool's nodes share only the pool they read;
  devices and flows share only the flush; OnDemand's peers share only the queue,
  whose overflow drops a packet that is sent again.
* **Queues of one or two.** Two queued events are needed to have a DOWN and an UP in
  either order behind a handler that runs; `cred_ok` queues three because a key and
  a record are written together.
* **Changes.** Two membership or health changes are a scale-out and the scale-in
  that undoes it, five role changes the first election and two failovers, and
  a failed command can meet any step of them. `pool_ok` has two, which is what it takes
  for a demotion and a promotion to be missed, or for a failed start and a failed flush
  after it; the proxies start from one set (`FirstHealthy`), from which two
  changes reach every other. A SET whose reply is lost (fault `lost`, in no run) leaves an
  old pool when the proxies return to what was published before; it is listed with the
  hazards.
* **Two failures of `sitesetup_ok`** are one that ends a setup and one in the clean-up
  that follows it, or a crash after a failure, or a crash and the route del in the life after it, or one in
  each of two lives of a site.
  Two sites with one device each are enough for an id that is reused and a VRF that is
  not; the device that fails alone and the site without devices are the same run.
* **One peer of `ondemand_ok`** has an address. For one without, `Decide` takes the branch
  it takes for a node without an address, which the run has; the theorems have both.
* **One rewrite of `infoproxy_ok`** is the bound of the property itself. Four addresses
  and four ports put every field of a rule on either side of its edge.
* **The hash space** is scaled from 2^32 to 16 in the runs; the flows hash to values
  for which arithmetic modulo chooses another node. The theorem about it is for
  every space.
* The bounds stop only the environment (charon, the operator, EC2, failures,
  crashes). No step of the programs is bounded, except that charon and the
  operator wait for a full queue, and a packet that finds the trigger queue full is
  dropped, as in the code.

`CHECK_DEADLOCK FALSE` stands where the programs come to rest when the environment
has nothing more to do: all but the runs of `SiteDataPlane` and `SiteSetup`, whose
sites change for ever.

### 3.4 Fairness

* `SiteDataPlane`, `Credentials`: weak fairness of `Start` (systemd,
  `Restart=on-failure`, `RestartSec=10s`) and of `TaskStep` (the loop polls its
  stream whenever it has nothing else to do). Nothing is assumed of charon, of the
  operator or of crashes.
* `ProxyPool`, `VpnRing`: weak fairness of each publisher's and consumer's cycle:
  endless loops with a fixed sleep, under supervise-daemon (respawn delay 5 s) on
  the LVS nodes and systemd on the others.
* `OnDemand`: weak fairness of the task, of initiates that return within their
  timeout, of time, of the ring's publication and of a backend that sends again;
  strong fairness of `Refresh` and `Deliver`, which the task's other work can
  disable again and again: tokio's `select!` picks a ready branch at random, so
  neither is passed over for ever.
* `Failover`: weak fairness of a command that runs, of keepalived's timers and of a
  boot that failed and is tried again.
* `InfoProxy`: weak fairness of the helper's own steps: a connect returns by the kernel's
  own limit, a read by an answer or the end of the connection. On a hung connection no
  step of the helper is enabled, and nothing is assumed to end that: `connect` sets neither
  a read timeout nor keepalive (`valkey.rs` 231 and 232).
* `SiteSetup`: none; its properties are invariants.
* `SiteAdvertisement` promises weak fairness of `Settle(s)`, which the event task
  implements.

### 3.5 Mutants

For every property of a passing run `PROJECT.json` names a definition and the
variant of it, marked "(fault: ...)" in its module, under which TLC refutes the
property: a count that is not kept, a flush that is forgotten, a collection that
does not wait for the replay, arithmetic modulo instead of scaling, an error that is
logged instead of ending the command, and so on.

## 4. What is proved

The proofs hold for every value of the constants that satisfies the modules'
assumptions: any number of sites, nodes, proxies, devices, events, faults and
failures. TLC checked each invariant below on the small instances first.

| Theorem | Statement | Further assumption |
|---|---|---|
| `SiteDataPlaneProofs!TypeCorrect` | `Spec => []TypeOK` | |
| `SiteDataPlaneProofs!IdsAlwaysExclusive` | `Spec => []IdsExclusive` | |
| `SiteDataPlaneProofs!ActiveGlobalsFollowCache` | `[]ActiveMatchesCache` | `FaultyLives <= CheckedFrom`, no two sites share a global_ip |
| `SiteDataPlaneProofs!RefcountsFollowCharon` | `Spec => []RefcountsMatchCharon` | `FaultyLives <= CheckedFrom` |
| `SiteDataPlaneProofs!RoutesFollowTunnels` | `Spec => []RoutesMatchTunnels` | the same, and no two sites share a global_ip |
| `SiteDataPlaneProofs!NeverWithdrawnEarly` | `Spec => NoPrematureWithdrawal` | as for the routes |
| `SiteDataPlaneProofs!NothingStaysBehind` | `Spec => []NothingLeftBehind` | as for the routes |
| `SiteDataPlaneProofs!FollowsAdvertisement` | `Spec => Advertisement!AbsSafety` | `FaultyLives = 0`, no two sites share a global_ip, a site's records differ in mode only |
| `CredentialsProofs!CredTypeCorrect` | `Spec => []CredTypeOK` | |
| `CredentialsProofs!SettledAlwaysFollows` | `Spec => []SettledFollows` | |
| `CredentialsProofs!ConnsAlwaysAuthenticate` | `Spec => []ConnAuthenticates` | |
| `ProxyPoolProofs!PoolTypeCorrect` | `Spec => []PoolTypeOK` | |
| `ProxyPoolProofs!BindingsFollowChain` | `Spec => []NoBindingToDeparted` | |
| `ProxyPoolProofs!ScalingOutKeepsSessions` | `Spec => ScaleOutKeepsSessions` | |
| `RingProofs!OwnerIsMapTarget` | for every nonempty finite ring, `owner_of` is a member and equals `MapTarget` | |
| `RingProofs!RingTypeCorrect` | `WatcherSpec => []RingTypeOK` | `IsFiniteSet(Nodes)` |
| `RingProofs!OwnerAlwaysMatchesMap` | `WatcherSpec => []OwnerMatchesMap` | `IsFiniteSet(Nodes)` |
| `RingProofs!FlowsStayOnMembers` | `WatcherSpec => []FlowsOnMembers` | `IsFiniteSet(Nodes)` |
| `RingProofs!ScalingOutKeepsFlows` | `WatcherSpec => ScaleOutKeepsFlows` | `IsFiniteSet(Nodes)` |
| `RingProofs!OnDemandTypes` | `Spec => []OnDemandTypeOK` | `IsFiniteSet(Nodes)`, `LookupBound <= Ttl` |
| `RingProofs!OneInitiateAtATime` | `Spec => []OneInitiatePerNode` | |
| `RingProofs!OwnersStayOwners` | `Spec => [][RingsAgree /\ live' = live /\ WithOwners => WithOwners']_vars` | `IsFiniteSet(Nodes)`, `LookupBound <= Ttl` |
| `FailoverProofs!FailoverTypes` | `Spec => []FailoverTypeOK` | |
| `FailoverProofs!ActingMasterCarriesTraffic` | `Spec => []MasterCarriesTraffic` | |
| `FailoverProofs!OneNodeActs` | `Spec => []OneWriter` | |
| `SiteSetupProofs!SetupInvariant` | `Spec => []IInv` | |
| `SiteSetupProofs!SetupTypeCorrect` | `Spec => []SetupTypeOK` | |
| `SiteSetupProofs!InstalledAlwaysForward` | `Spec => []InstalledDevicesForward` | |
| `SiteSetupProofs!NothingLeftBehind` | `Spec => []NothingLeft` | |
| `SiteSetupProofs!SplitsAlwaysFirst` | `Spec => []SplitsFirst` | |
| `InfoProxyProofs!InfoTypeCorrect` | `Spec => []InfoTypeOK` | |
| `InfoProxyProofs!AnswersOfOneInstant` | `Spec => VerdictOfOneInstant` | |
| `InfoProxyProofs!ReconnectAbsorbsOneHiccup` | `Spec => OneHiccupAbsorbed` | |

`FaultyLives <= CheckedFrom` is what the conditional properties of `SiteDataPlane`
mean by "once faults have ended": they speak of the lives of the process after the
last one in which something failed, however many there were.

The arguments, and the strengthening each needs:

* **`IdsExclusive`** is not inductive: that an id handed out is fresh needs every id
  in use or free to be below the allocator's high-water mark. `IdsInv` adds that;
  freeing then pushes an id that no site has, and allocating pops one that no site
  has or takes the mark itself (`AllocExclusive`, `FreeExclusive`).
* **`ActiveMatchesCache`** is established by the replacement at the start of a life without
  faults, and alone does not survive a DOWN. `CacheInv` adds that a site
  caches only global_ips that its records may name, and none without a count.
  Disjoint global_ips are needed because one site's DOWN removes its elements
  without a count per element (a hazard of `nat.rs:224`).
* **`RefcountsMatchCharon`** is a matter of counting. `CountInv` says that each count is
  the number of CHILD_SAs the task has been told of, by its listing and by the events
  it has taken (`Told`), more or less the one whose half handler is still to run.
  `QueueInv` says that the queue is honest: what charon has, less the UPs and plus the
  DOWNs behind any position of the queue, is never negative, so that a DOWN finds its
  count above zero. Both start afresh with the process, and the replay is the case of
  a queue that is still to be filled; that no transition falls between registration and
  listing is where the fault `startup` must be over.
* **`RoutesMatchTunnels`, `NoPrematureWithdrawal`** (`RouteInv`): a cached site has its
  record's devices, each with the /32 of its half (a blackhole until the VPP half
  has run, and after it again), and from the garbage collection on what no site caches
  has none. A record that changes under a tunnel would break the first part, two sites
  with one global_ip the second.
* **`NothingLeftBehind`** adds `FreeInv`: every id ever allocated is free or in use by one
  site, as a sum of cardinalities, and a process without VPP has no site.
* **`FollowsAdvertisement`** is the step simulation: every step is a `Follow` step of
  `SiteAdvertisement` or changes nothing of it. A /32 appears only in the nat half of an UP
  (`AdvertisedStep`: the VPP halves replace one that is there), where `CountInv` gives the
  site a tunnel; it disappears only with the last one (`WithdrawnStep`, which
  `NeverWithdrawnEarly` rests on too) or when the process starts anew. `Mapped` says that the
  mapping is into the abstract variables' types. A record that changes its devices under a
  tunnel would leave a /32 of a device that is no longer the site's.
* **`SettledFollows` and `ConnAuthenticates`** (`CredInv`): after charon's restart each
  site is accounted for (`Account`): charon already has what Valkey has, or the event
  that will tell is queued, or the job in hand has read it, or the scan has yet to
  come to it, or nobody is subscribed (`Away`). `Truthful` says that a
  queued event that Valkey contradicts by now is followed by another of the same key,
  `JobOK` what each step of a job knows.
* **`NoBindingToDeparted`**, for a node whose last flush and start worked: between the rewrite of the chain and the flush a device
  may be pinned to a member of `last`. `PoolInv` says what the chain is in terms of
  `last` and of `got` at each step, and that bindings are within the chain, or
  within `last` while the flush is still to come. The proof is per node: a step of
  one leaves the others' part alone (`OtherNode`). A start or a flush that fails suspends the
  part about bindings, and the next flush of the node restores it, whatever was pinned.
* **`OwnerIsMapTarget`**: the ranks of n nodes are n different numbers below n, so
  every slot has its node (`EverySlotTaken`), and `owner_index` is the one index
  whose slot bounds hold (`DivBounds`, `SlotIsIndex`). Sets are counted with the library's
  theorems on finite sets; no induction is needed.
* **`FlowsOnMembers`**: not inductive, because the flush of this cycle depends on what
  the previous one remembered. `Settled` says that until the reload the table is
  that of `last_vpn`, or, after a restart, one without a departed node, that then it
  is the set of this cycle, and that outside the flush step the bindings are in it.
* **`ScaleOutKeepsFlows`** (`FlushInv`): a cycle at its flush step knows the set of an
  earlier cycle, has this one's in its table, and has missed a member.
* **`OneInitiatePerNode`** (`DedupInv`): the entry of a running initiate is at most `LookupBound`
  older than the initiate, so it is still in the window (`Covered`); a pending lookup that did not find an entry implies that there is no
  initiate (`Sound`); and there is one call per peer on a node (`Single`). That
  a node without an entry has no initiate (`AbsentMeansNone`) is where
  `LookupBound + InitiateBound < Ttl` is needed; `Tick` ages all three together.
* **`OwnersStayOwners`** is the half of `OnlyOwnersInitiate` that needs no fairness: once
  every initiate, queued handoff and published handoff is with the owner in the
  ring of the nodes in service (`WithOwners`), that stays so while the rings agree
  (`RingsAgree`: of the nodes that have a task). An initiate counts if its node knows
  its own address and the peer's can be read, because the others are not given by a ring. It needs that only nodes in service have anything to do
  (`ServeInv`), because the ring of one that left is not known. What is left to
  TLC is that the handoffs of older rings drain.
* **`MasterCarriesTraffic` and `OneWriter`** (`RoleInv`): while only AWS calls have
  failed, at most one node is MASTER (`Solo`), and for each node the step its
  command has reached tells how much of elastic IP, route and role it has, and that
  its role file does not say "master" before (`NodeOK`).
* **`VerdictOfOneInstant`** (`InfoInv`): while at most one key has been rewritten, the
  reads so far agree with the lists as they were or with the lists as they are
  (`InstantOK`). If the one key has been read they agree with the old lists, otherwise
  with the new ones; either way the reads still to come fit the same instant, because
  no key is read twice. `DecideGranted` and `DecideDenied` turn that into the answer.

* **`SiteSetup`**: none of its four properties is inductive, and they need each other,
  so there is one invariant, `IInv`, in these parts, each with its preservation lemma:
  * `TypeInv`, `WorkInv`: a handler walks down a fixed sequence of commands, so `todo`
    is always a nonempty suffix of its order (`Suffix`). `SuffixStep` takes one command
    off; `SetupHead` and its kin say which command a length stands for. That replaces
    any induction over the sequence.
  * `AllocType`, `IdInv`: the sites that hold an id (those that are up, and the one in hand)
    hold different ones, no free id is held, none is free twice, and holders and free
    ids together are as many as were ever handed out. The bound of `SetupTypeOK` is the last of
    these; without it an id that is lost would not show.
  * `RuleInv`, `MapInv`, `LearntInv` (`BnatInv`): what of a site is in the nft table
    is known to the `SiteBnatState` that is to remove it, or a fault explains it
    (`handle`, `teardown`, and for maps and the chain `cleanup`); at most one rule of a kind has a known handle, so that the rule
    that `delete rule ... handle N` removes is the right one; and the stages of a setup
    not yet reached have left no rule. `SplitsFirst` follows because the jump
    is added at a stage at which there is no default rule of the site.
  * `TidyInv`: what exists of a site has the table and the devices that the handler
    or the cache has for it, or is of a kind that a failure of the past may leave
    (`Allowed`). A handler only ever takes kinds away from what teardown must still
    do, and a failure adds to `Allowed` what its clean-up does not know. `NothingLeft`
    is the case of a site with nothing in hand.
  * `StageInv`, `PresentInv`: what the commands done so far have made is there, live, and is
    still there when the site has been entered in the cache. That another site's
    command does not take it away is `IdInv`: routes are replaced and deleted by table.
  * `PathInv`: unless a route del has failed, the devices done so far and those of the sites
    that are up have no path but the one over the tap in use. Installing a device
    removes its old ones, and nothing takes the tap while the site stands.
  `InstalledDevicesForward` combines the last four: what must be there is (`Present`), its
  paths are live (`PathInv`), and any other rule of the site or its table is one that `TidyInv` explains by a
  failed teardown.

The assumptions are those of the modules: `SetupAssumption` (a finite set of sites),
`BackendAssumption`, and `NoSiteAssumption`, that the value for a site that is
not cached is not a cache entry, which TLC's model values have and a proof must be told.
Nothing is assumed of devices, modes, roles, faults or the number of failures.

Only model-checked: liveness (fairness and ENABLED are outside the prover's reach),
with it the fairness part of `ImplementsAdvertisement`. Every invariant and every action
property that a passing run checks is a theorem. `OnlyOwnersInitiate` (but for its
safety half), `TablesConverge`, `RingConvergesOncePublished`, `PoolConverges`,
`BackendBringsUp`, `CharonFollowsValkey`, `FailoverCompletes`, `EveryLineAnswered`,
`LiveTunnelsForward` and `DeadTunnelsWithdrawn` are not.

## 5. What is not modelled

* **`proposals.rs`**: cartesian products over strings, computed once at startup from a
  configuration file, without state. One thing to know when reading it: an unknown
  DH group drops the remaining combinations of that suite (`continue 'outer`, lines
  117 to 152), while its warning says "skipping combination".
* **Two tasks of one process on one resource**: the credential task deletes an XFRM
  interface that the event task's route uses (`credentials.rs:403`), and fixes
  `mark_out` from one reading of a record whose other reading decides the data plane
  (`credentials.rs:347`). Each module has its own.
* **Parts of the site setup**: VPP taps that no process knows any more are kept by
  `objects` but never collide with a new one; `vpp-outer` and NAT44's sessions are one
  condition (VPP answers or not), and `cleanup_stale_state` succeeds; `ProxyPool` has the
  starts in which it does not, for the chain and conntrack.
  `setup_site_bypass` has no command whose failure ends it, so the error branch of its
  caller is never taken.
* **Numeric ranges**: the forward tables count up from 10000 and the return tables from
  60000, and a tap's index becomes a /30 of 10.127.0.0/16. The model has as many ids as it
  needs; `SetupTypeOK` and `IdsExclusive` show that there are never more than sites at a
  time, so that up to 16384 sites none leaves its range.
* **What `vppctl` does not recognise**: a refusal that VPP words otherwise than "unknown
  input" or "Failed:" passes for success (`vpp.rs` 236 to 241). Which commands those
  are is VPP's.
* **Around squid-infoproxy**: Squid's own cache of verdicts and its TTL, TLS, the bytes of
  RESP. Two rewrites during one decision are outside what is promised.
* **Pure I/O and text**: configuration, the health endpoint, IMDS and AWS helpers,
  TLS, the rendering of nft and keepalived files, `load_ca_certs`, Packer images and
  scripts. They were read for restart and notify behaviour.
* **External**: charon, keepalived, AWS, Valkey, VPP, FRR, nftables and the kernel
  appear as the code uses them.

## 6. Plan

Done: the event task first, because every customer's reachability hangs on it, with
its abstract specification; the shared keys of Valkey (`ProxyPool`, `VpnRing` with
`JhashRing`); `Credentials`, `OnDemand`, `Failover` for both kinds of pair; the inside
of a site's setup (`SiteSetup`, `BackendNat`); `InfoProxy`. Proved: every safety
property of the passing runs, and the safety part of the refinement.

Open, in this order:

1. `Credentials` with `SiteDataPlane` composed: `mark_out` fixed from one record
   while the data plane reads another, `delete_xfrm_if` under a live CHILD_SA.
2. `SiteSetup` as a refinement of the setup step of `SiteDataPlane`.
3. `Failover` with `ProxyPool`: the role file written by one and read by the other.

## 7. Running it

    tlc -workers 2 -config SiteDataPlane_ok.cfg MCSiteDataPlane.tla
    tlapm SiteDataPlaneProofs.tla

Each row of `PROJECT.json`'s `runs` names the module and the configuration; its
`map` gives the source lines behind every definition.
