---------------------------- MODULE SiteDataPlane ----------------------------
(***************************************************************************)
(* One ipsecnode: the event task that turns charon's child-updown events   *)
(* into kernel /32 routes (nat.rs), per-site VPP state (vpp.rs) and the    *)
(* on-demand active_globals set (ondemand.rs), and its startup             *)
(* reconciliation against charon's SA list (vici.rs, main.rs).             *)
(*                                                                         *)
(* The task is sequential, but each event is handled in two halves with    *)
(* awaits between them, and charon, the operator who writes NAT records to *)
(* Valkey, and process crashes interleave with it.                         *)
(***************************************************************************)
EXTENDS Integers, Sequences, FiniteSets

CONSTANTS
    Peers,           \* VPN sites, named by the customer gateway's address
    Globals,         \* device global_ips
    Provisioned,     \* Provisioned[p]: the NAT records an operator may write for p
    Faults,          \* what may go wrong: a subset of AllFaults
    VppChoices,      \* whether VPP answers at startup: a subset of BOOLEAN
    EagerSubscribe,  \* whether the event registration precedes list-sas (TRUE)
                     \* or happens at the first poll of the stream (FALSE)
    MaxSas,          \* bound: CHILD_SAs of one site
    MaxEvents,       \* bound: events queued on the VICI connection
    MaxRestarts,     \* bound: crashes of the process
    FaultyLives,     \* faults happen only before this many crashes
    CheckedFrom      \* the conditional properties speak of the time after this
                     \* many crashes: CheckedFrom = FaultyLives asks whether a
                     \* restart repairs what the faults left behind

\* The events the code meets but does not prevent:
\*   lookup   a Valkey GET or the parse of its value fails (get_nat_record -> None)
\*   record   a NAT record is written while its site has tunnels
\*   route    an `ip route` command fails
\*   active   an nft command on active_globals fails and is only logged, or is
\*            not given because init_nftables failed (ENABLED stays false)
\*   setup    setup_site_vrf fails after the ids were allocated
\*   list     the list-sas stream breaks off early
\*   startup  charon moves between the event registration and the SA listing
AllFaults == {"lookup", "record", "route", "active", "setup", "list", "startup"}

NoRecord == [nat_mode |-> "none", device_nat |-> {}]
NatRecords == [nat_mode : {"customer", "backend"}, device_nat : SUBSET Globals]

ASSUME ConstantsAssumption ==
    /\ Provisioned \in [Peers -> SUBSET (NatRecords \cup {NoRecord})]
    /\ Faults \subseteq AllFaults
    /\ VppChoices \subseteq BOOLEAN
    /\ EagerSubscribe \subseteq BOOLEAN
    /\ MaxSas \in Nat
    /\ MaxEvents \in Nat
    /\ MaxRestarts \in Nat
    /\ FaultyLives \in Nat
    /\ CheckedFrom \in Nat

VARIABLES
    natRec,         \* Valkey: fleetipsec:nat:<peer>
    sas,            \* charon: INSTALLED CHILD_SAs of each site
    events,         \* charon -> event task: child-updown events, in order
    registered,     \* charon sends this process child-updown events
    proc,           \* the process: down, starting, replaying, serving
    todo,           \* listed CHILD_SAs not yet replayed
    work,           \* the half of the current handler still to run
    vppOn,          \* VPP was initialised (vpp_state is Some)
    routeCache,     \* nat::RouteCache
    vrfCache,       \* vpp::VrfCache
    alloc,          \* vpp::VrfAllocator
    routes,         \* kernel main table: the /32 of each global_ip
    activeGlobals,  \* nft set ipsecnode_ondemand/active_globals
    restarts        \* crashes so far

envVars  == <<natRec, sas>>
linkVars == <<events, registered>>
ctlVars  == <<proc, todo, work, restarts>>
vppVars  == <<vppOn, vrfCache, alloc>>
natVars  == <<routeCache, activeGlobals>>
vars     == <<envVars, linkVars, ctlVars, vppVars, natVars, routes>>

-----------------------------------------------------------------------------
\* Data

Event == [peer : Peers, up : BOOLEAN]

\* A /32 is absent, a blackhole, on the site's xfrm interface or on vpp-outer.
NoRoute   == <<"none">>
Blackhole == <<"blackhole">>
Outer     == <<"vpp-outer">>
Xfrm(p)   == <<"xfrm", p>>
Route     == {NoRoute, Blackhole, Outer} \cup {Xfrm(p) : p \in Peers}

\* A cache entry exists exactly while its child_sa_count is positive: entries
\* are inserted with 1 and removed by the decrement that reaches 0.
PeerRouteState == [global_ips : SUBSET Globals, child_sa_count : Nat]
SiteVrfState == [devices : SUBSET Globals, bypass : BOOLEAN,
                 ids : Nat, child_sa_count : Nat]
NoPeerRoutes == [global_ips |-> {}, child_sa_count |-> 0]
NoSite == [devices |-> {}, bypass |-> TRUE, ids |-> 0, child_sa_count |-> 0]

NoWork == [half |-> "none"]
VppHalf(p) == [half |-> "vpp", peer |-> p]
NatHalf(p) == [half |-> "nat", peer |-> p]
Work == {NoWork} \cup {VppHalf(p) : p \in Peers} \cup {NatHalf(p) : p \in Peers}

May(f) == f \in Faults /\ restarts < FaultyLives

\* What S becomes when each member may independently fail under fault f.
Survivors(f, S) == IF May(f) THEN SUBSET S ELSE {S}

\* The results get_nat_record(p) may return.
Lookup(p) == {natRec[p]} \cup (IF May("lookup") THEN {NoRecord} ELSE {})

\* `ip route replace` (or `del`, for NoRoute) of the /32s of S
Routed(S, via) == [g \in Globals |-> IF g \in S THEN via ELSE routes[g]]

cached_global_ips == UNION {routeCache[p].global_ips : p \in Peers}

\* The fwd table, ret table and tap index are allocated and freed together
\* (VrfAllocator shows they move in step), so one id stands for the three.
FreshAlloc == [next |-> 0, free |-> <<>>]
AllocId(a) == IF a.free = <<>> THEN a.next ELSE a.free[Len(a.free)]
\* (fault: the popped id stays in the free list)
AfterAllocKeepingFree(a) == IF a.free = <<>> THEN [a EXCEPT !.next = @ + 1] ELSE a
AfterAlloc(a) == IF a.free = <<>> THEN [a EXCEPT !.next = @ + 1]
                 ELSE [a EXCEPT !.free = SubSeq(@, 1, Len(@) - 1)]
AfterFree(a, id) == [a EXCEPT !.free = Append(@, id)]

-----------------------------------------------------------------------------
\* The handlers' halves. A definition marked "fault" is not the code's: it is
\* the one after it with a plausible bug, to show that a property notices.

\* nat::on_child_up
NatUp(p) ==
    IF routeCache[p].child_sa_count > 0
    THEN /\ routeCache' = [routeCache EXCEPT ![p].child_sa_count = @ + 1]
         /\ UNCHANGED <<routes, activeGlobals>>
    ELSE \E rec \in Lookup(p) : \E installed \in Survivors("route", rec.device_nat) :
         /\ routes' = Routed(installed, Blackhole)
         /\ \E added \in Survivors("active", installed) :
               activeGlobals' = activeGlobals \cup added
         /\ routeCache' = IF installed = {} THEN routeCache
                          ELSE [routeCache EXCEPT ![p] = [global_ips |-> installed,
                                                          child_sa_count |-> 1]]

\* (fault: the routes go with the first DOWN, whatever the count)
NatDownEager(p) ==
    /\ routes' = Routed(routeCache[p].global_ips, NoRoute)
    /\ activeGlobals' = activeGlobals \ routeCache[p].global_ips
    /\ routeCache' = [routeCache EXCEPT ![p] = NoPeerRoutes]

\* (fault: neither the missing entry nor the zero count is looked for)
NatDownUnguarded(p) ==
    /\ routeCache' = [routeCache EXCEPT ![p].child_sa_count = @ - 1]
    /\ UNCHANGED <<routes, activeGlobals>>

\* (fault: the cache entry goes, its active_globals elements stay)
NatDownLeavingActive(p) ==
    LET state == routeCache[p] IN
    /\ IF state.child_sa_count > 1
       THEN /\ routeCache' = [routeCache EXCEPT ![p].child_sa_count = @ - 1]
            /\ UNCHANGED routes
       ELSE /\ routeCache' = [routeCache EXCEPT ![p] = NoPeerRoutes]
            /\ routes' = Routed(state.global_ips, NoRoute)
    /\ UNCHANGED activeGlobals

\* (fault: the cache entry goes, the routes stay)
NatDownLeavingRoutes(p) ==
    LET state == routeCache[p] IN
    /\ IF state.child_sa_count > 1
       THEN /\ routeCache' = [routeCache EXCEPT ![p].child_sa_count = @ - 1]
            /\ UNCHANGED activeGlobals
       ELSE /\ routeCache' = [routeCache EXCEPT ![p] = NoPeerRoutes]
            /\ activeGlobals' = activeGlobals \ state.global_ips
    /\ UNCHANGED routes

\* nat::on_child_down
NatDown(p) ==
    LET state == routeCache[p] IN
    \/ /\ state.child_sa_count = 0
       /\ UNCHANGED <<routeCache, routes, activeGlobals>>
    \/ /\ state.child_sa_count > 1
       /\ routeCache' = [routeCache EXCEPT ![p].child_sa_count = @ - 1]
       /\ UNCHANGED <<routes, activeGlobals>>
    \/ /\ state.child_sa_count = 1
       /\ \E removed \in Survivors("route", state.global_ips) :
             routes' = Routed(removed, NoRoute)
       /\ \E gone \in Survivors("active", state.global_ips) :
             activeGlobals' = activeGlobals \ gone
       /\ routeCache' = [routeCache EXCEPT ![p] = NoPeerRoutes]

\* What both kinds of setup leave: the /32 of each device whose route could be
\* replaced, and a cache entry with these devices.
SiteUp(p, via, devs, bypass, ids) ==
    /\ routes' = Routed(devs, via)
    /\ vrfCache' = [vrfCache EXCEPT ![p] = [devices |-> devs, bypass |-> bypass,
                                            ids |-> ids, child_sa_count |-> 1]]

setup_site_bypass(p, devs) == SiteUp(p, Xfrm(p), devs, TRUE, 0) /\ UNCHANGED alloc

\* The ids are allocated first, and given back when a step of the setup fails.
setup_site_vrf(p, devs) ==
    \/ /\ SiteUp(p, Outer, devs, FALSE, AllocId(alloc))
       /\ alloc' = AfterAlloc(alloc)
    \/ /\ May("setup")
       /\ alloc' = AfterFree(AfterAlloc(alloc), AllocId(alloc))
       /\ UNCHANGED <<vrfCache, routes>>

\* vpp::on_child_up; a second, separate read of the record
VppUp(p) ==
    IF vrfCache[p].child_sa_count > 0
    THEN /\ vrfCache' = [vrfCache EXCEPT ![p].child_sa_count = @ + 1]
         /\ UNCHANGED <<alloc, routes>>
    ELSE \E rec \in Lookup(p) : \E devs \in Survivors("route", rec.device_nat) :
         \/ rec.nat_mode = "none" /\ UNCHANGED <<vrfCache, alloc, routes>>
         \/ rec.nat_mode = "customer" /\ setup_site_bypass(p, devs)
         \/ rec.nat_mode = "backend" /\ setup_site_vrf(p, devs)

\* The devices' routes fall back to blackholes, which nat::on_child_down deletes.
teardown_site_bypass(p) ==
    /\ \E reverted \in Survivors("route", vrfCache[p].devices) :
          routes' = Routed(reverted, Blackhole)
    /\ UNCHANGED alloc

teardown_site_vrf(p) ==
    /\ \E reverted \in Survivors("route", vrfCache[p].devices) :
          routes' = Routed(reverted, Blackhole)
    /\ alloc' = AfterFree(alloc, vrfCache[p].ids)

\* vpp::on_child_down
VppDown(p) ==
    \/ /\ vrfCache[p].child_sa_count = 0
       /\ UNCHANGED <<vrfCache, alloc, routes>>
    \/ /\ vrfCache[p].child_sa_count > 1
       /\ vrfCache' = [vrfCache EXCEPT ![p].child_sa_count = @ - 1]
       /\ UNCHANGED <<alloc, routes>>
    \/ /\ vrfCache[p].child_sa_count = 1
       /\ vrfCache' = [vrfCache EXCEPT ![p] = NoSite]
       /\ IF vrfCache[p].bypass THEN teardown_site_bypass(p) ELSE teardown_site_vrf(p)

-----------------------------------------------------------------------------
\* Startup

\* vpp::init: cleanup_stale_state deletes every tap, and with vpp-outer its
\* routes; nothing is touched when VPP does not answer, and VPP is not used when
\* a step after the cleanup fails.
Start ==
    /\ proc = "down"
    /\ proc' = "starting"
    /\ \E ready \in VppChoices : \E cleaned \in BOOLEAN :
          /\ ready => cleaned
          /\ vppOn' = ready
          /\ routes' = IF cleaned THEN Routed({g \in Globals : routes[g] = Outer}, NoRoute)
                       ELSE routes
    /\ registered' \in EagerSubscribe
    /\ routeCache' = [p \in Peers |-> NoPeerRoutes]
    /\ vrfCache' = [p \in Peers |-> NoSite]
    /\ alloc' = FreshAlloc
    /\ UNCHANGED <<envVars, events, todo, work, restarts, activeGlobals>>

\* (fault: one entry per peer instead of one per CHILD_SA)
ListPeersOnce ==
    /\ proc = "starting"
    /\ proc' = "replaying"
    /\ todo' = [p \in Peers |-> IF sas[p] > 0 THEN 1 ELSE 0]
    /\ UNCHANGED <<envVars, linkVars, work, restarts, vppVars, natVars, routes>>

\* list_established_peers: one peer per INSTALLED CHILD_SA; a stream error
\* keeps what was read so far.
ListSas ==
    /\ proc = "starting"
    /\ proc' = "replaying"
    /\ \/ todo' = sas
       \/ /\ May("list")
          /\ \E got \in [Peers -> 0..MaxSas] :
                /\ \A p \in Peers : got[p] <= sas[p]
                /\ todo' = got
    /\ UNCHANGED <<envVars, linkVars, work, restarts, vppVars, natVars, routes>>

\* The first half of on_child_up for one listed peer.
ReplayPeer(p) ==
    /\ proc = "replaying" /\ work = NoWork
    /\ todo[p] > 0
    /\ todo' = [todo EXCEPT ![p] = @ - 1]
    /\ NatUp(p)
    /\ work' = IF vppOn THEN VppHalf(p) ELSE NoWork
    /\ UNCHANGED <<envVars, linkVars, proc, restarts, vppVars>>

\* (fault: the stale routes are not collected)
ReconcileWithoutGc ==
    /\ proc = "replaying" /\ work = NoWork
    /\ \A p \in Peers : todo[p] = 0
    /\ activeGlobals' = cached_global_ips
    /\ proc' = "serving"
    /\ registered' = TRUE
    /\ UNCHANGED <<envVars, events, todo, work, restarts, vppVars, routeCache, routes>>

\* (fault: active_globals keeps what the previous process left)
ReconcileKeepingActive ==
    /\ proc = "replaying" /\ work = NoWork
    /\ \A p \in Peers : todo[p] = 0
    /\ routes' = Routed(Globals \ cached_global_ips, NoRoute)
    /\ proc' = "serving"
    /\ registered' = TRUE
    /\ UNCHANGED <<envVars, events, todo, work, restarts, vppVars, natVars>>

\* (fault: the collection does not wait for the replay)
ReconcileEarly ==
    /\ proc = "replaying" /\ work = NoWork
    /\ routes' = Routed(Globals \ cached_global_ips, NoRoute)
    /\ activeGlobals' = cached_global_ips
    /\ proc' = "serving"
    /\ registered' = TRUE
    /\ UNCHANGED <<envVars, events, todo, work, restarts, vppVars, routeCache>>

\* gc_stale_routes and replace_active_globals with the replayed set, one nft
\* transaction that replaces the set or leaves it; the task then polls the event
\* stream for the first time.
Reconcile ==
    /\ proc = "replaying" /\ work = NoWork
    /\ \A p \in Peers : todo[p] = 0
    /\ \E removed \in Survivors("route", Globals \ cached_global_ips) :
          routes' = Routed(removed, NoRoute)
    /\ \/ activeGlobals' = cached_global_ips
       \/ May("active") /\ UNCHANGED activeGlobals
    /\ proc' = "serving"
    /\ registered' = TRUE
    /\ UNCHANGED <<envVars, events, todo, work, restarts, vppVars, routeCache>>

\* The process, or its VICI or Valkey connection, dies: the task's memory and
\* the undelivered events are gone, kernel and nft state stay.
Crash ==
    /\ proc # "down"
    /\ restarts < MaxRestarts
    /\ restarts' = restarts + 1
    /\ proc' = "down"
    /\ registered' = FALSE
    /\ events' = <<>>
    /\ todo' = [p \in Peers |-> 0]
    /\ work' = NoWork
    /\ UNCHANGED <<envVars, vppVars, natVars, routes>>

-----------------------------------------------------------------------------
\* Serving

\* (fault: an UP stops after its nat half)
HandleUpNatOnly ==
    /\ proc = "serving" /\ work = NoWork
    /\ events # <<>> /\ Head(events).up
    /\ NatUp(Head(events).peer)
    /\ events' = Tail(events)
    /\ UNCHANGED <<envVars, registered, proc, todo, work, restarts, vppVars>>

\* handle_child_updown, UP: nat first
HandleUp ==
    /\ proc = "serving" /\ work = NoWork
    /\ events # <<>> /\ Head(events).up
    /\ LET p == Head(events).peer IN
         /\ NatUp(p)
         /\ work' = IF vppOn THEN VppHalf(p) ELSE NoWork
    /\ events' = Tail(events)
    /\ UNCHANGED <<envVars, registered, proc, todo, restarts, vppVars>>

\* The second half of an UP, replayed or delivered
FinishUp ==
    /\ proc \in {"replaying", "serving"}
    /\ \E p \in Peers : work = VppHalf(p) /\ VppUp(p)
    /\ work' = NoWork
    /\ UNCHANGED <<envVars, linkVars, proc, todo, restarts, vppOn, natVars>>

\* handle_child_updown, DOWN: vpp first
HandleDown ==
    /\ proc = "serving" /\ work = NoWork
    /\ events # <<>> /\ ~Head(events).up
    /\ LET p == Head(events).peer IN
         /\ work' = NatHalf(p)
         /\ IF vppOn THEN VppDown(p) ELSE UNCHANGED <<vrfCache, alloc, routes>>
    /\ events' = Tail(events)
    /\ UNCHANGED <<envVars, registered, proc, todo, restarts, vppOn, natVars>>

FinishDown ==
    /\ proc = "serving"
    /\ \E p \in Peers : work = NatHalf(p) /\ NatDown(p)
    /\ work' = NoWork
    /\ UNCHANGED <<envVars, linkVars, proc, todo, restarts, vppVars>>

-----------------------------------------------------------------------------
\* Charon and the operator

\* The window in which a transition is both listed and queued (registration
\* before listing) or neither (registration after it).
InStartupWindow ==
    \/ proc = "starting" /\ registered
    \/ proc = "replaying" /\ ~registered

Notify(p, up) ==
    IF registered
    THEN Len(events) < MaxEvents /\ events' = Append(events, [peer |-> p, up |-> up])
    ELSE UNCHANGED events

ChildUp(p) ==
    /\ sas[p] < MaxSas
    /\ InStartupWindow => May("startup")
    /\ sas' = [sas EXCEPT ![p] = @ + 1]
    /\ Notify(p, TRUE)
    /\ UNCHANGED <<natRec, registered, ctlVars, vppVars, natVars, routes>>

ChildDown(p) ==
    /\ sas[p] > 0
    /\ InStartupWindow => May("startup")
    /\ sas' = [sas EXCEPT ![p] = @ - 1]
    /\ Notify(p, FALSE)
    /\ UNCHANGED <<natRec, registered, ctlVars, vppVars, natVars, routes>>

\* No tunnel of p exists, and none is known to the task or on its way to it.
Idle(p) ==
    /\ sas[p] = 0 /\ todo[p] = 0
    /\ \A i \in DOMAIN events : events[i].peer # p
    /\ work \notin {VppHalf(p), NatHalf(p)}

WriteRecord(p) ==
    /\ Idle(p) \/ May("record")
    /\ \E rec \in Provisioned[p] \ {natRec[p]} : natRec' = [natRec EXCEPT ![p] = rec]
    /\ UNCHANGED <<sas, linkVars, ctlVars, vppVars, natVars, routes>>

-----------------------------------------------------------------------------

\* A host that has just booted: no route, no tunnel.
Init ==
    /\ natRec \in {f \in [Peers -> UNION {Provisioned[p] : p \in Peers}] :
                      \A p \in Peers : f[p] \in Provisioned[p]}
    /\ sas = [p \in Peers |-> 0]
    /\ events = <<>> /\ registered = FALSE
    /\ proc = "down" /\ todo = [p \in Peers |-> 0] /\ work = NoWork /\ restarts = 0
    /\ vppOn = FALSE
    /\ vrfCache = [p \in Peers |-> NoSite]
    /\ alloc = FreshAlloc
    /\ routeCache = [p \in Peers |-> NoPeerRoutes]
    /\ activeGlobals = {}
    /\ routes = [g \in Globals |-> NoRoute]

TaskStep ==
    \/ ListSas \/ Reconcile
    \/ \E p \in Peers : ReplayPeer(p)
    \/ HandleUp \/ FinishUp \/ HandleDown \/ FinishDown

Next ==
    \/ Start \/ TaskStep \/ Crash
    \/ \E p \in Peers : ChildUp(p) \/ ChildDown(p) \/ WriteRecord(p)

Spec == Init /\ [][Next]_vars

\* systemd restarts the process, and the task runs whenever it has something
\* to do; nothing is assumed of charon, of the operator or of crashes.
FairSpec == Spec /\ WF_vars(Start) /\ WF_vars(TaskStep)

-----------------------------------------------------------------------------
\* Properties

Checked == restarts >= CheckedFrom

TypeOK ==
    /\ natRec \in [Peers -> NatRecords \cup {NoRecord}]
    /\ sas \in [Peers -> Nat]
    /\ events \in Seq(Event)
    /\ registered \in BOOLEAN
    /\ proc \in {"down", "starting", "replaying", "serving"}
    /\ todo \in [Peers -> Nat]
    /\ work \in Work
    /\ vppOn \in BOOLEAN
    /\ routeCache \in [Peers -> PeerRouteState]
    /\ vrfCache \in [Peers -> SiteVrfState]
    /\ alloc \in [next : Nat, free : Seq(Nat)]
    /\ routes \in [Globals -> Route]
    /\ activeGlobals \in SUBSET Globals
    /\ restarts \in Nat

Pending(p, up) == Cardinality({i \in DOMAIN events : events[i] = [peer |-> p, up |-> up]})

\* The CHILD_SAs of p as of the last event the task has taken from its queue.
Seen(p) == sas[p] - Pending(p, TRUE) + Pending(p, FALSE)

\* Both refcounts equal the number of CHILD_SAs the task has been told of, for
\* every site with something to install (nat.rs "Re-keying safety"; vici.rs
\* list_established_peers: "rebuild per-site refcounts to match charon").
RefcountsMatchCharon ==
    Checked /\ proc = "serving" =>
    \A p \in Peers :
        /\ work # NatHalf(p) =>
              routeCache[p].child_sa_count =
                  IF natRec[p].device_nat = {} THEN 0 ELSE Seen(p)
        /\ vppOn /\ work # VppHalf(p) =>
              vrfCache[p].child_sa_count = IF natRec[p] = NoRecord THEN 0 ELSE Seen(p)

\* Outside a handler and with no event queued, a /32 exists exactly for the
\* devices of the sites with a tunnel, and it is the one their mode forwards on
\* (a blackhole when VPP is out); everything else is withdrawn (nat.rs "Route
\* lifecycle", vpp.rs teardown_site_bypass / remove_device_nat).
Settled == proc = "serving" /\ work = NoWork /\ events = <<>>
Forwarding(p) ==
    CASE ~vppOn -> Blackhole
      [] vppOn /\ natRec[p].nat_mode = "backend" -> Outer
      [] OTHER -> Xfrm(p)
RoutesMatchTunnels ==
    Checked /\ Settled => \A g \in Globals :
        LET owners == {p \in Peers : sas[p] > 0 /\ g \in natRec[p].device_nat} IN
        IF owners = {} THEN routes[g] = NoRoute
        ELSE \E p \in owners : routes[g] = Forwarding(p)

\* Without a tunnel nothing of a site is left behind: no /32, no cache entry,
\* and every VRF id is back in the allocator's free list.
NothingLeftBehind ==
    Checked /\ Settled /\ (\A p \in Peers : sas[p] = 0) =>
        /\ \A g \in Globals : routes[g] = NoRoute
        /\ activeGlobals = {}
        /\ Len(alloc.free) = alloc.next

\* No step of the process withdraws the /32 of a device of a site that, by all
\* the task has been told, still has a CHILD_SA: a route is only removed when
\* the count drops to zero (nat.rs "Re-keying safety"). Across a restart of VPP
\* itself the routes on vpp-outer are necessarily lost, hence proc # "down".
NoPrematureWithdrawal ==
    [][\A p \in Peers : \A g \in natRec[p].device_nat :
          Checked /\ proc # "down" /\ routes[g] # NoRoute /\ routes'[g] = NoRoute
             => Seen(p)' = 0]_vars

\* In a life without faults active_globals holds, while serving, exactly the
\* global_ips the route cache tracks (ondemand.rs: a global_ip is active iff its
\* tunnel is up), whatever elements the failed nft commands of an earlier life
\* have left in it or kept from it; sites must not share a global_ip.
ActiveMatchesCache ==
    Checked /\ proc = "serving" => activeGlobals = cached_global_ips

\* No two backend sites share an id, none in use is also free, and no id is
\* free twice, whatever fails (VrfAllocator: a table id or tap /30 in use by
\* two sites would mix their traffic).
BackendSites == {p \in Peers : vrfCache[p].child_sa_count > 0 /\ ~vrfCache[p].bypass}
IdsExclusive ==
    /\ \A p, q \in BackendSites : vrfCache[p].ids = vrfCache[q].ids => p = q
    /\ \A p \in BackendSites, i \in DOMAIN alloc.free : alloc.free[i] # vrfCache[p].ids
    /\ \A i, j \in DOMAIN alloc.free : alloc.free[i] = alloc.free[j] => i = j

\* A site whose tunnels stay up is eventually, and then for good, forwarded;
\* one whose tunnels stay down is eventually withdrawn for good.
LiveTunnelsForward ==
    \A p \in Peers : \A g \in Globals :
        <>[](sas[p] > 0 /\ g \in natRec[p].device_nat) => <>[](routes[g] = Forwarding(p))
DeadTunnelsWithdrawn ==
    \A p \in Peers : \A g \in Globals :
        <>[](sas[p] = 0 /\ g \in natRec[p].device_nat) => <>[](routes[g] = NoRoute)

-----------------------------------------------------------------------------
\* What SiteDataPlane implements

\* The devices the operator may give to p.
DevicesOf(p) == UNION {rec.device_nat : rec \in Provisioned[p]}

Advertisement == INSTANCE SiteAdvertisement WITH
    Sites <- Peers,
    Devices <- DevicesOf,
    tunnels <- [p \in Peers |-> IF natRec[p] = NoRecord THEN 0 ELSE Seen(p)],
    advertised <- {g \in Globals : routes[g] # NoRoute},
    running <- proc # "down"

\* SiteDataPlane implements SiteAdvertisement: a site has the tunnels the task
\* has been told of (none before it is provisioned), and a device is advertised
\* when it has a /32 (nat.rs "Route lifecycle": FRR advertises kernel routes).
ImplementsAdvertisement == Advertisement!AbsSpec

=============================================================================
