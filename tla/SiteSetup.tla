------------------------------- MODULE SiteSetup -------------------------------
(***************************************************************************)
(* A site's VPP and kernel plumbing (ipsecnode vpp.rs), command by command *)
(* and with the commands' failures: VRF, tap, marks, policy rules, routes  *)
(* and NAT of the devices, the customer-mode bypass, the teardown, the     *)
(* partial teardown of a failed setup, and the clean-up of what a process  *)
(* that stopped has left behind.  SiteDataPlane has the counts and the     *)
(* events; here a site is up or down.                                      *)
(***************************************************************************)
EXTENDS BackendNat

CONSTANTS
    Devices,      \* devices, by their (unique) global_ip
    DevicesOf,    \* DevicesOf[p]: the devices of p's NAT record
    ModesOf,      \* ModesOf[p]: the nat_modes p's record has in the course of time
    NoSite        \* absent from the VrfCache

ASSUME SetupAssumption ==
    /\ IsFiniteSet(Sites)
    /\ DevicesOf \in [Sites -> SUBSET Devices]
    /\ ModesOf \in [Sites -> SUBSET {"backend", "customer"}]

VARIABLES
    objects,   \* what exists in VPP and in the kernel
    cache,     \* VrfCache: the SiteVrfState of the sites that are up
    alloc,     \* VrfAllocator
    work       \* the handler's locals

setupVars == <<objects, cache, alloc, work>>
vars == <<pc, site, bnatVars, failures, happened, setupVars>>

-----------------------------------------------------------------------------
\* Tables and tap indices are allocated and freed together: one id stands for
\* the forward table, the return table and the tap's addresses.
Ids == 0 .. Cardinality(Sites)
Fresh == [next |-> 0, free |-> <<>>]

AllocId == IF alloc.free = <<>> THEN alloc.next ELSE alloc.free[Len(alloc.free)]

AfterAlloc ==
    IF alloc.free = <<>> THEN [alloc EXCEPT !.next = @ + 1]
    ELSE [alloc EXCEPT !.free = SubSeq(@, 1, Len(@) - 1)]

\* (fault: the ids of a site that goes are never given back)
AfterFreeLeak(id) == alloc
AfterFree(id) == [alloc EXCEPT !.free = Append(@, id)]

\* key: a table for rules and routes, a device for its NAT, 0 for the rest.
\* live: tap - the process knows its name; path - it is over the tap in use;
\* mark - its ifindex is that of the site's link.
Kinds == {"fib", "tap", "link", "mark_set", "mark_map", "fwd_rule", "ret_rule",
          "fwd_route", "ret_route", "lookup", "map", "path", "global"}
Object == [kind : Kinds, site : Sites, key : Ids \cup Devices, live : BOOLEAN]
Obj(kind, p, key) == [kind |-> kind, site |-> p, key |-> key, live |-> TRUE]

Rules == {"fwd_rule", "ret_rule"}
Routes == {"fwd_route", "ret_route"}
Marks == {"mark_set", "mark_map"}
Own(kind) == Obj(kind, site, IF kind \in Rules \cup Routes THEN work.id ELSE 0)

Lose(S, kinds, p) ==
    LET lost == {o \in S : o.kind \in kinds /\ o.site = p}
    IN  (S \ lost) \cup {[o EXCEPT !.live = FALSE] : o \in lost}

\* The kernel drops a link with the routes over it; its ifindex is not reused
WithoutLink(S, p) ==
    Lose({o \in S : ~(o.kind \in {"link", "fwd_route"} /\ o.site = p)}, Marks, p)

\* VPP drops a tap with its link, and leaves the paths over it unresolved
WithoutTap(S, p) == Lose(WithoutLink(S \ {Obj("tap", p, 0)}, p), {"path"}, p)

\* Work in hand: the commands and the devices still to do
State == [bypass : BOOLEAN, id : Ids, devices : SUBSET Devices]
ASSUME NoSiteAssumption == NoSite \notin State

NoWork == [bypass |-> FALSE, id |-> 0, devices |-> {}, pending |-> {}, todo |-> <<>>]

-----------------------------------------------------------------------------
\* setup_site_vrf, up to the devices
SetupOrder == <<"tap", "plumb", "mark_set", "mark_map",
                "fwd_rule", "fwd_route", "ret_rule", "ret_route">>

\* teardown_partial
PartialOrder == <<"fwd_rule", "ret_rule", "fwd_route", "ret_route", "link">>

\* (fault: the VRF is deleted before its default route)
VrfOrderFibFirst == <<"fwd_rule", "ret_rule", "fwd_route", "ret_route",
                      "mark_set", "mark_map", "link", "tap", "fib", "lookup">>
\* teardown_site_vrf, from the rules on
VrfOrder == <<"fwd_rule", "ret_rule", "fwd_route", "ret_route",
              "mark_set", "mark_map", "link", "tap", "lookup", "fib">>

\* `ip rule add` of an existing rule, a tap on an existing link
Refused(item) ==
    \/ item \in Rules /\ Own(item) \in objects
    \/ item = "tap" /\ Own("link") \in objects

Installed(item) ==
    CASE item = "tap"     -> objects \cup {Own("fib"), Own("tap"), Own("link")}
      [] item = "plumb"   -> objects      \* VRF, addresses, link state, NAT44 inside, ifindex
      [] item \in Routes  -> {o \in objects : ~(o.kind = item /\ o.key = work.id)} \cup {Own(item)}
      [] OTHER            -> objects \cup {Own(item)}

\* `ip table del` is for a table that is empty
Removed(item) ==
    CASE item \in Routes  -> {o \in objects : ~(o.kind = item /\ o.key = work.id)}
      [] item = "link"    -> WithoutLink(objects, site)
      [] item = "tap"     -> WithoutTap(objects, site)
      [] item = "fib"     -> IF \E o \in objects : o.site = site /\ o.kind \in {"tap", "lookup", "path"}
                             THEN objects ELSE objects \ {Own("fib")}
      [] OTHER            -> objects \ {Own(item)}

\* on_child_up of a site that is not in the cache
on_child_up(p) ==
    /\ pc = "idle" /\ cache[p] = NoSite
    /\ site' = p
    /\ \E mode \in ModesOf[p] :
          LET bypass == mode = "customer"
          IN  /\ work' = [bypass |-> bypass, id |-> IF bypass THEN 0 ELSE AllocId,
                          devices |-> {}, pending |-> DevicesOf[p],
                          todo |-> IF bypass THEN <<>> ELSE SetupOrder]
              /\ alloc' = IF bypass THEN alloc ELSE AfterAlloc
              /\ pc' = IF bypass THEN "device" ELSE "setup"
    /\ NoFail /\ UNCHANGED <<objects, cache, bnatVars>>

\* A command that fails gives up the setup: the ids are freed, the tap's name
\* is forgotten, and the clean-up begins
setup_command ==
    /\ pc = "setup"
    /\ LET item == Head(work.todo)
       IN  \/ /\ ~Refused(item) /\ NoFail
              /\ objects' = Installed(item)
              /\ work' = [work EXCEPT !.todo = Tail(@)]
              /\ pc' = IF Len(work.todo) = 1 THEN "device" ELSE pc
              /\ UNCHANGED alloc
           \/ /\ IF Refused(item) THEN NoFail ELSE Fail("setup")
              /\ objects' = IF item = "tap" THEN objects \cup {Own("fib")}
                            ELSE Lose(objects, {"tap"}, site)
              /\ alloc' = AfterFree(work.id)
              /\ work' = [work EXCEPT !.todo = PartialOrder]
              /\ pc' = "partial"
    /\ UNCHANGED <<site, cache, bnatVars>>

-----------------------------------------------------------------------------
\* install_device_nat: mapping, path, route; setup_site_bypass: the route.
\* The route del before the route add:

NatOf(d) == {Obj(kind, site, d) : kind \in IF work.bypass THEN {"global"}
                                            ELSE {"map", "path", "global"}}

\* (fault: the route is added without deleting what an earlier life left)
WithoutPathsNoDel(d) == objects
WithoutPaths(d) == {o \in objects : ~(o.kind = "path" /\ o.site = site /\ o.key = d)}

\* What is there when the route del fails: the paths are over an earlier tap
StalePaths(d) ==
    WithoutPaths(d) \cup {[o EXCEPT !.live = FALSE] : o \in objects \ WithoutPaths(d)}

HalfInstalled(S, d) ==
    \E left \in {{"map"}, {"map", "path"}} : objects' = S \cup {Obj(k, site, d) : k \in left}

\* The commands of a device that fails stay as far as they came; the result of
\* the route del is ignored
device_command ==
    /\ pc = "device"
    /\ IF work.pending = {}
       THEN /\ pc' = IF work.bypass THEN "create_map" ELSE "lookup"
            /\ NoFail /\ UNCHANGED <<objects, work>>
       ELSE \E d \in work.pending :
            /\ \/ /\ NoFail
                  /\ objects' = (IF work.bypass THEN objects ELSE WithoutPaths(d)) \cup NatOf(d)
                  /\ work' = [work EXCEPT !.pending = @ \ {d}, !.devices = @ \cup {d}]
               \/ /\ ~work.bypass /\ StalePaths(d) # WithoutPaths(d)
                  /\ Fail("route_del")
                  /\ objects' = StalePaths(d) \cup NatOf(d)
                  /\ work' = [work EXCEPT !.pending = @ \ {d}, !.devices = @ \cup {d}]
               \/ /\ Fail("device")
                  /\ \/ objects' = objects
                     \/ ~work.bypass /\ HalfInstalled(WithoutPaths(d), d)
                  /\ work' = [work EXCEPT !.pending = @ \ {d}]
               \/ /\ ~work.bypass /\ StalePaths(d) # WithoutPaths(d)
                  /\ FailBoth("device", "route_del")
                  /\ HalfInstalled(StalePaths(d), d)
                  /\ work' = [work EXCEPT !.pending = @ \ {d}]
            /\ UNCHANGED pc
    /\ UNCHANGED <<site, cache, alloc, bnatVars>>

\* The VRF's default route, deleted and added; a failure is logged
lookup_route ==
    /\ pc = "lookup"
    /\ \/ NoFail /\ objects' = objects \cup {Own("lookup")}
       \/ Fail("device") /\ objects' = objects \ {Own("lookup")}
    /\ pc' = "create_map"
    /\ UNCHANGED <<site, cache, alloc, work, bnatVars>>

setup_backend == setup_site_bnat /\ UNCHANGED <<site, setupVars>>

\* cache.insert
commit ==
    /\ pc = "commit"
    /\ cache' = [cache EXCEPT ![site] =
            [bypass |-> work.bypass, id |-> work.id, devices |-> work.devices]]
    /\ pc' = "idle" /\ work' = NoWork
    /\ NoFail /\ UNCHANGED <<site, objects, alloc, bnatVars>>

-----------------------------------------------------------------------------
\* on_child_down of a site's last CHILD_SA: cache.remove, then the teardown
on_child_down(p) ==
    /\ pc = "idle" /\ cache[p] # NoSite
    /\ site' = p /\ pc' = "bnat_down"
    /\ work' = [bypass |-> cache[p].bypass, id |-> cache[p].id, devices |-> {},
                pending |-> cache[p].devices, todo |-> IF cache[p].bypass THEN <<>> ELSE VrfOrder]
    /\ cache' = [cache EXCEPT ![p] = NoSite]
    /\ NoFail /\ UNCHANGED <<objects, alloc, bnatVars>>

teardown_backend == teardown_site_bnat /\ UNCHANGED <<site, setupVars>>

\* remove_device_nat, teardown_site_bypass: every command of its own may fail
device_down ==
    /\ pc = "devices_down"
    /\ IF work.pending = {}
       THEN /\ IF work.bypass THEN pc' = "idle" /\ work' = NoWork
               ELSE pc' = "vrf_down" /\ UNCHANGED work
            /\ NoFail /\ UNCHANGED objects
       ELSE \E d \in work.pending : \E kept \in SUBSET {o.kind : o \in NatOf(d)} :
            /\ IF kept = {} THEN NoFail ELSE Fail("teardown")
            /\ objects' = {o \in objects : ~(/\ o.site = site /\ o.key = d
                                             /\ o.kind \in {n.kind : n \in NatOf(d)} \ kept)}
            /\ work' = [work EXCEPT !.pending = @ \ {d}]
            /\ UNCHANGED pc
    /\ UNCHANGED <<site, cache, alloc, bnatVars>>

\* A failed command is logged; a tap that was not deleted is forgotten.  The
\* ids of a site that was up are freed at the end.
remove_command ==
    /\ pc \in {"partial", "vrf_down"}
    /\ LET item == Head(work.todo)
       IN  \/ NoFail /\ objects' = Removed(item)
           \/ /\ Fail("teardown")
              /\ objects' = IF item = "tap" THEN Lose(objects, {"tap"}, site) ELSE objects
    /\ IF Len(work.todo) > 1
       THEN work' = [work EXCEPT !.todo = Tail(@)] /\ UNCHANGED <<pc, alloc>>
       ELSE /\ pc' = "idle" /\ work' = NoWork
            /\ alloc' = IF pc = "vrf_down" THEN AfterFree(work.id) ELSE alloc
    /\ UNCHANGED <<site, cache, bnatVars>>

-----------------------------------------------------------------------------
\* The process stops, with its cache and its allocator
Crash ==
    /\ pc # "down"
    /\ Fail("crash")
    /\ pc' = "down" /\ work' = NoWork /\ alloc' = Fresh
    /\ cache' = [p \in Sites |-> NoSite]
    /\ bnat' = [p \in Sites |-> {}]
    /\ UNCHANGED <<site, objects, maps, chains, rules>>

\* cleanup_stale_state: taps, NAT, tables and rules go, the VRFs with their
\* routes and the return tables stay; nat.rs' cleanup takes the /32 routes
CleanedUp ==
    LET kept == {o \in objects : o.kind \in {"fib", "lookup", "path", "ret_route"}}
    IN  {[o EXCEPT !.live = o.kind # "path"] : o \in kept}

init ==
    /\ pc = "down"
    /\ pc' = "idle"
    /\ objects' = CleanedUp
    /\ maps' = {} /\ chains' = {} /\ rules' = [c \in BaseChains |-> <<>>]
    /\ NoFail /\ UNCHANGED <<site, bnat, cache, alloc, work>>

-----------------------------------------------------------------------------
Init ==
    /\ BnatInit
    /\ pc = "idle" /\ site \in Sites
    /\ objects = {} /\ alloc = Fresh /\ work = NoWork
    /\ cache = [p \in Sites |-> NoSite]

Next ==
    \/ \E p \in Sites : on_child_up(p) \/ on_child_down(p)
    \/ setup_command \/ device_command \/ lookup_route \/ setup_backend \/ commit
    \/ teardown_backend \/ device_down \/ remove_command
    \/ Crash \/ init

Spec == Init /\ [][Next]_vars

-----------------------------------------------------------------------------
\* Types; no two sites need more tables than there are sites: the ids of a
\* site that failed or went are given back exactly once.
SetupTypeOK ==
    /\ BnatTypeOK
    /\ objects \subseteq Object
    /\ cache \in [Sites -> State \cup {NoSite}]
    /\ alloc.next \in 0 .. Cardinality(Sites)
    /\ alloc.free \in Seq(0 .. alloc.next - 1) /\ Len(alloc.free) <= alloc.next
    /\ work.bypass \in BOOLEAN /\ work.id \in Ids
    /\ work.devices \subseteq Devices /\ work.pending \subseteq Devices

Of(p, kinds) == {o \in objects : o.site = p /\ o.kind \in kinds}

\* Every device whose NAT was reported as installed has its whole path as long
\* as its site is up, whatever the other site's setup, failure or teardown and
\* whatever an earlier process or an earlier life of the site has left: its
\* mapping, a route over the tap in use, and its site's tables, rules and marks.
\* That route is the only one (a second path, over a tap that is gone, would take
\* part of the traffic), unless a route del has failed; no other rule sends the
\* site's packets elsewhere or other packets into its tables, unless a command of
\* a teardown has failed.
InstalledDevicesForward ==
    \A p \in Sites : cache[p] # NoSite =>
        LET id == cache[p].id
            vrf == {Obj(k, p, 0) : k \in {"fib", "tap", "link"} \cup Marks}
                   \cup {Obj(k, p, id) : k \in Rules \cup Routes}
            own == {o \in vrf : o.kind \in Rules}
            used == {o \in objects : o.kind \in Rules /\ (o.site = p \/ o.key = id)}
        IN  /\ \A d \in cache[p].devices : Obj("global", p, d) \in objects
            /\ ~cache[p].bypass =>
                  /\ vrf \subseteq objects
                  /\ \A d \in cache[p].devices :
                        /\ {Obj("map", p, d), Obj("path", p, d)} \subseteq objects
                        /\ \/ "route_del" \in happened
                           \/ \A o \in Of(p, {"path"}) : o.key = d => o.live
                  /\ "device" \in happened \/ Obj("lookup", p, 0) \in objects
                  /\ "teardown" \in happened \/ used = own
            /\ cache[p].bypass => "teardown" \in happened \/ Of(p, Rules) = {}

\* What may be left of a site that is down, by what went wrong
MayRemain(fault) ==
    CASE fault = "setup"    -> {"fib", "tap"} \cup Marks
      [] fault = "device"   -> {"fib", "map", "path"}
      [] fault = "cleanup"  -> {"bnat", "bsnat", "chain"}
      [] fault = "handle"   -> Items
      [] fault = "teardown" -> Kinds \cup Items
      [] fault = "crash"    -> {"fib", "lookup", "path", "ret_route"}
      [] OTHER              -> {}

\* A site that is down has left nothing behind: no object, map, chain or rule,
\* except those that setup_site_vrf's partial teardown does not know, the NAT
\* of a device that failed half-way, the maps and the chain whose clean-up
\* failed, rules without a handle, what a failed teardown could not remove and
\* what survives a restart.
NothingLeft ==
    pc = "idle" =>
    \A p \in Sites : cache[p] = NoSite =>
        {o.kind : o \in Of(p, Kinds)} \cup BnatLeft(p) \subseteq UNION {MayRemain(f) : f \in happened}

=============================================================================
