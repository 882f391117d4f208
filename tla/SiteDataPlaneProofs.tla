------------------------- MODULE SiteDataPlaneProofs -------------------------
(***************************************************************************)
(* Theorems about SiteDataPlane for every set of sites, every provisioning *)
(* and every combination of faults: type correctness, that the VRF ids of  *)
(* the allocator are exclusive, that active_globals follows the cache,     *)
(* that from CheckedFrom restarts on the refcounts are charon's, the /32s  *)
(* follow the tunnels, none goes early and nothing is left behind, and     *)
(* that without faults every step is one of SiteAdvertisement's or none.   *)
(***************************************************************************)
EXTENDS SiteDataPlane, SequenceTheorems, FiniteSetTheorems, TLAPS

\* A lookup returns nothing or a record with devices among the known ones.
LEMMA LookupType ==
    ASSUME TypeOK, NEW p \in Peers, NEW rec \in Lookup(p)
    PROVE  rec.device_nat \in SUBSET Globals
  <1>1. natRec[p] \in NatRecords \cup {NoRecord}
    BY DEF TypeOK
  <1>2. rec = natRec[p] \/ rec = NoRecord
    BY DEF Lookup
  <1>3. rec \in NatRecords \/ rec = NoRecord
    BY <1>1, <1>2
  <1>4. CASE rec \in NatRecords
    BY <1>4 DEF NatRecords
  <1>5. CASE rec = NoRecord
    BY <1>5 DEF NoRecord
  <1>. QED  BY <1>3, <1>4, <1>5

\* Whatever survives fault f is a part of what was attempted.
LEMMA SurvivorsSubset ==
    ASSUME NEW f, NEW S, NEW T \in Survivors(f, S)
    PROVE  T \in SUBSET S
  BY DEF Survivors

\* The four kinds of /32.
LEMMA RouteKinds ==
    /\ NoRoute \in Route /\ Blackhole \in Route /\ Outer \in Route
    /\ \A p \in Peers : Xfrm(p) \in Route
  BY DEF Route

\* Setting routes keeps their type.
LEMMA RoutedType ==
    ASSUME TypeOK, NEW S, NEW via \in Route
    PROVE  Routed(S, via) \in [Globals -> Route]
  BY DEF TypeOK, Routed

\* A refcount may be set to any number without disturbing the entry's type.
LEMMA PeerCountType ==
    ASSUME TypeOK, NEW p \in Peers, NEW n \in Nat
    PROVE  [routeCache EXCEPT ![p].child_sa_count = n] \in [Peers -> PeerRouteState]
  <1>1. routeCache[p] \in PeerRouteState
    BY DEF TypeOK
  <1>2. [routeCache[p] EXCEPT !.child_sa_count = n] \in PeerRouteState
    BY <1>1 DEF PeerRouteState
  <1>. QED  BY <1>2 DEF TypeOK

\* The same of a site's entry.
LEMMA SiteCountType ==
    ASSUME TypeOK, NEW p \in Peers, NEW n \in Nat
    PROVE  [vrfCache EXCEPT ![p].child_sa_count = n] \in [Peers -> SiteVrfState]
  <1>1. vrfCache[p] \in SiteVrfState
    BY DEF TypeOK
  <1>2. [vrfCache[p] EXCEPT !.child_sa_count = n] \in SiteVrfState
    BY <1>1 DEF SiteVrfState
  <1>. QED  BY <1>2 DEF TypeOK

\* The allocator's operations preserve its type, and the popped id is a number.
LEMMA AllocType ==
    ASSUME NEW a \in [next : Nat, free : Seq(Nat)]
    PROVE  /\ AllocId(a) \in Nat
           /\ AfterAlloc(a) \in [next : Nat, free : Seq(Nat)]
           /\ \A id \in Nat : AfterFree(a, id) \in [next : Nat, free : Seq(Nat)]
  <1>1. a.next \in Nat /\ a.free \in Seq(Nat)
    OBVIOUS
  <1>2. \A id \in Nat : Append(a.free, id) \in Seq(Nat)
    BY <1>1, AppendProperties
  <1>3. ASSUME a.free # <<>>
        PROVE  /\ Len(a.free) \in Nat \ {0}
               /\ SubSeq(a.free, 1, Len(a.free) - 1) \in Seq(Nat)
               /\ a.free[Len(a.free)] \in Nat
    <2>1. Len(a.free) \in Nat \ {0}
      BY <1>1, <1>3, EmptySeq, LenProperties
    <2>2. \A i \in 1 .. Len(a.free) - 1 : i \in 1 .. Len(a.free)
      BY <2>1
    <2>3. a.free[Len(a.free)] \in Nat
      BY <1>1, <2>1, ElementOfSeq
    <2>. QED  BY <1>1, <2>1, <2>3, SubSeqProperties
  <1>4. \A s \in Seq(Nat) : [a EXCEPT !.free = s] \in [next : Nat, free : Seq(Nat)]
    OBVIOUS
  <1>5. [a EXCEPT !.next = a.next + 1] \in [next : Nat, free : Seq(Nat)]
    BY <1>1
  <1>6. AllocId(a) \in Nat
    BY <1>1, <1>3 DEF AllocId
  <1>7. AfterAlloc(a) \in [next : Nat, free : Seq(Nat)]
    BY <1>3, <1>4, <1>5 DEF AfterAlloc
  <1>8. \A id \in Nat : AfterFree(a, id) \in [next : Nat, free : Seq(Nat)]
    BY <1>2, <1>4 DEF AfterFree
  <1>. QED  BY <1>6, <1>7, <1>8

\* The nat half of an UP keeps the types of what it changes.
LEMMA NatUpType ==
    ASSUME TypeOK, NEW p \in Peers, NatUp(p)
    PROVE  /\ routeCache' \in [Peers -> PeerRouteState]
           /\ routes' \in [Globals -> Route]
           /\ activeGlobals' \in SUBSET Globals
  <1>0. routeCache[p] \in PeerRouteState
    BY DEF TypeOK
  <1>1. CASE routeCache[p].child_sa_count > 0
    <2>1. routeCache[p].child_sa_count + 1 \in Nat
      BY <1>0 DEF PeerRouteState
    <2>2. routeCache' = [routeCache EXCEPT ![p].child_sa_count =
                                             routeCache[p].child_sa_count + 1]
      BY <1>1 DEF NatUp
    <2>. QED  BY <1>1, <2>1, <2>2, PeerCountType DEF NatUp, TypeOK
  <1>2. CASE ~(routeCache[p].child_sa_count > 0)
    <2>1. PICK rec \in Lookup(p) : \E installed \in Survivors("route", rec.device_nat) :
             /\ routes' = Routed(installed, Blackhole)
             /\ \E added \in Survivors("active", installed) :
                   activeGlobals' = activeGlobals \cup added
             /\ routeCache' = IF installed = {} THEN routeCache
                              ELSE [routeCache EXCEPT ![p] = [global_ips |-> installed,
                                                              child_sa_count |-> 1]]
      BY <1>2 DEF NatUp
    <2>2. PICK installed \in Survivors("route", rec.device_nat) :
             /\ routes' = Routed(installed, Blackhole)
             /\ \E added \in Survivors("active", installed) :
                   activeGlobals' = activeGlobals \cup added
             /\ routeCache' = IF installed = {} THEN routeCache
                              ELSE [routeCache EXCEPT ![p] = [global_ips |-> installed,
                                                              child_sa_count |-> 1]]
      BY <2>1
    <2>3. installed \in SUBSET Globals
      BY LookupType, SurvivorsSubset
    <2>4. [global_ips |-> installed, child_sa_count |-> 1] \in PeerRouteState
      BY <2>3 DEF PeerRouteState
    <2>5. routeCache' \in [Peers -> PeerRouteState]
      BY <2>2, <2>4 DEF TypeOK
    <2>6. routes' \in [Globals -> Route]
      BY <2>2, RouteKinds, RoutedType
    <2>7. activeGlobals' \in SUBSET Globals
      BY <2>2, <2>3, SurvivorsSubset DEF TypeOK
    <2>. QED  BY <2>5, <2>6, <2>7
  <1>. QED  BY <1>1, <1>2

\* The nat half of a DOWN keeps them, too.
LEMMA NatDownType ==
    ASSUME TypeOK, NEW p \in Peers, NatDown(p)
    PROVE  /\ routeCache' \in [Peers -> PeerRouteState]
           /\ routes' \in [Globals -> Route]
           /\ activeGlobals' \in SUBSET Globals
  <1>0. routeCache[p] \in PeerRouteState
    BY DEF TypeOK
  <1>1. CASE routeCache[p].child_sa_count = 0
    BY <1>1 DEF NatDown, TypeOK
  <1>2. CASE routeCache[p].child_sa_count > 1
    <2>1. routeCache[p].child_sa_count - 1 \in Nat
      BY <1>0, <1>2 DEF PeerRouteState
    <2>2. /\ routeCache' = [routeCache EXCEPT ![p].child_sa_count =
                                                routeCache[p].child_sa_count - 1]
          /\ UNCHANGED <<routes, activeGlobals>>
      BY <1>2 DEF NatDown
    <2>. QED  BY <2>1, <2>2, PeerCountType DEF TypeOK
  <1>3. CASE routeCache[p].child_sa_count = 1
    <2>1. /\ \E removed : routes' = Routed(removed, NoRoute)
          /\ \E gone : activeGlobals' = activeGlobals \ gone
          /\ routeCache' = [routeCache EXCEPT ![p] = NoPeerRoutes]
      BY <1>3 DEF NatDown
    <2>2. NoPeerRoutes \in PeerRouteState
      BY DEF NoPeerRoutes, PeerRouteState
    <2>3. routes' \in [Globals -> Route]
      BY <2>1, RouteKinds, RoutedType
    <2>. QED  BY <2>1, <2>2, <2>3 DEF TypeOK
  <1>. QED  BY <1>1, <1>2, <1>3 DEF NatDown

\* What a setup leaves has its type.
LEMMA SiteUpType ==
    ASSUME TypeOK, NEW p \in Peers, NEW via \in Route, NEW devs \in SUBSET Globals,
           NEW bypass \in BOOLEAN, NEW ids \in Nat, SiteUp(p, via, devs, bypass, ids)
    PROVE  /\ vrfCache' \in [Peers -> SiteVrfState]
           /\ routes' \in [Globals -> Route]
  <1>1. [devices |-> devs, bypass |-> bypass, ids |-> ids, child_sa_count |-> 1]
           \in SiteVrfState
    BY DEF SiteVrfState
  <1>2. routes' \in [Globals -> Route]
    BY RoutedType DEF SiteUp
  <1>. QED  BY <1>1, <1>2 DEF SiteUp, TypeOK

\* The vpp half of an UP keeps the types, also when the setup fails.
LEMMA VppUpType ==
    ASSUME TypeOK, NEW p \in Peers, VppUp(p)
    PROVE  /\ vrfCache' \in [Peers -> SiteVrfState]
           /\ alloc' \in [next : Nat, free : Seq(Nat)]
           /\ routes' \in [Globals -> Route]
  <1>1. CASE vrfCache[p].child_sa_count > 0
    <2>1. vrfCache[p] \in SiteVrfState
      BY DEF TypeOK
    <2>2. vrfCache[p].child_sa_count + 1 \in Nat
      BY <2>1 DEF SiteVrfState
    <2>3. /\ vrfCache' = [vrfCache EXCEPT ![p].child_sa_count =
                                            vrfCache[p].child_sa_count + 1]
          /\ UNCHANGED <<alloc, routes>>
      BY <1>1 DEF VppUp
    <2>. QED  BY <2>2, <2>3, SiteCountType DEF TypeOK
  <1>2. CASE ~(vrfCache[p].child_sa_count > 0)
    <2>0. PICK rec \in Lookup(p) : \E devs \in Survivors("route", rec.device_nat) :
             \/ UNCHANGED <<vrfCache, alloc, routes>>
             \/ setup_site_bypass(p, devs)
             \/ setup_site_vrf(p, devs)
      BY <1>2 DEF VppUp
    <2>1. PICK devs \in Survivors("route", rec.device_nat) :
             \/ UNCHANGED <<vrfCache, alloc, routes>>
             \/ setup_site_bypass(p, devs)
             \/ setup_site_vrf(p, devs)
      BY <2>0
    <2>2. devs \in SUBSET Globals
      BY LookupType, SurvivorsSubset
    <2>3. alloc \in [next : Nat, free : Seq(Nat)]
      BY DEF TypeOK
    <2>4. /\ AllocId(alloc) \in Nat
          /\ AfterAlloc(alloc) \in [next : Nat, free : Seq(Nat)]
      BY <2>3, AllocType
    <2>5. AfterFree(AfterAlloc(alloc), AllocId(alloc)) \in [next : Nat, free : Seq(Nat)]
      BY <2>4, AllocType
    <2>6. CASE UNCHANGED <<vrfCache, alloc, routes>>
      BY <2>6 DEF TypeOK
    <2>7. CASE setup_site_bypass(p, devs)
      BY <2>2, <2>3, <2>7, RouteKinds, SiteUpType DEF setup_site_bypass
    <2>8. CASE setup_site_vrf(p, devs)
      <3>1. CASE /\ SiteUp(p, Outer, devs, FALSE, AllocId(alloc))
                 /\ alloc' = AfterAlloc(alloc)
        BY <2>2, <2>4, <3>1, RouteKinds, SiteUpType
      <3>2. CASE /\ alloc' = AfterFree(AfterAlloc(alloc), AllocId(alloc))
                 /\ UNCHANGED <<vrfCache, routes>>
        BY <2>5, <3>2 DEF TypeOK
      <3>. QED  BY <2>8, <3>1, <3>2 DEF setup_site_vrf
    <2>. QED  BY <2>1, <2>6, <2>7, <2>8
  <1>. QED  BY <1>1, <1>2

\* The vpp half of a DOWN keeps them, too.
LEMMA VppDownType ==
    ASSUME TypeOK, NEW p \in Peers, VppDown(p)
    PROVE  /\ vrfCache' \in [Peers -> SiteVrfState]
           /\ alloc' \in [next : Nat, free : Seq(Nat)]
           /\ routes' \in [Globals -> Route]
  <1>0. vrfCache[p] \in SiteVrfState
    BY DEF TypeOK
  <1>1. CASE vrfCache[p].child_sa_count = 0
    BY <1>1 DEF VppDown, TypeOK
  <1>2. CASE vrfCache[p].child_sa_count > 1
    <2>1. vrfCache[p].child_sa_count - 1 \in Nat
      BY <1>0, <1>2 DEF SiteVrfState
    <2>2. /\ vrfCache' = [vrfCache EXCEPT ![p].child_sa_count =
                                            vrfCache[p].child_sa_count - 1]
          /\ UNCHANGED <<alloc, routes>>
      BY <1>2 DEF VppDown
    <2>. QED  BY <2>1, <2>2, SiteCountType DEF TypeOK
  <1>3. CASE vrfCache[p].child_sa_count = 1
    <2>1. vrfCache[p].ids \in Nat
      BY <1>0 DEF SiteVrfState
    <2>2. /\ alloc \in [next : Nat, free : Seq(Nat)]
          /\ AfterFree(alloc, vrfCache[p].ids) \in [next : Nat, free : Seq(Nat)]
      BY <2>1, AllocType DEF TypeOK
    <2>3. /\ \E reverted : routes' = Routed(reverted, Blackhole)
          /\ vrfCache' = [vrfCache EXCEPT ![p] = NoSite]
          /\ alloc' = IF vrfCache[p].bypass THEN alloc
                      ELSE AfterFree(alloc, vrfCache[p].ids)
      BY <1>3, <2>2 DEF VppDown, teardown_site_bypass, teardown_site_vrf
    <2>4. NoSite \in SiteVrfState
      BY DEF NoSite, SiteVrfState
    <2>5. routes' \in [Globals -> Route]
      BY <2>3, RouteKinds, RoutedType
    <2>6. vrfCache' \in [Peers -> SiteVrfState]
      BY <2>3, <2>4 DEF TypeOK
    <2>. QED  BY <2>2, <2>3, <2>5, <2>6
  <1>. QED  BY <1>1, <1>2, <1>3 DEF VppDown

-----------------------------------------------------------------------------
\* Type correctness

\* The initial values have their types.
LEMMA InitType == Init => TypeOK
  <1> SUFFICES ASSUME Init PROVE TypeOK
    OBVIOUS
  <1>1. natRec \in [Peers -> NatRecords \cup {NoRecord}]
    <2>1. \A p \in Peers : Provisioned[p] \in SUBSET (NatRecords \cup {NoRecord})
      BY ConstantsAssumption DEF ConstantsAssumption
    <2>2. PICK f \in [Peers -> UNION {Provisioned[p] : p \in Peers}] :
             natRec = f /\ \A p \in Peers : f[p] \in Provisioned[p]
      BY DEF Init
    <2>. QED  BY <2>1, <2>2
  <1>2. events \in Seq(Event) /\ alloc \in [next : Nat, free : Seq(Nat)]
    BY DEF Init, FreshAlloc
  <1>3. /\ vrfCache \in [Peers -> SiteVrfState]
        /\ routeCache \in [Peers -> PeerRouteState]
    BY DEF Init, NoSite, SiteVrfState, NoPeerRoutes, PeerRouteState
  <1>4. routes \in [Globals -> Route] /\ work \in Work
    BY RouteKinds DEF Init, Work
  <1>. QED  BY <1>1, <1>2, <1>3, <1>4 DEF Init, TypeOK

\* An event queue stays one when its head is taken or an event is appended.
LEMMA QueueType ==
    ASSUME TypeOK
    PROVE  /\ events # <<>> => /\ Tail(events) \in Seq(Event)
                               /\ Head(events).peer \in Peers
           /\ \A p \in Peers, up \in BOOLEAN :
                 Append(events, [peer |-> p, up |-> up]) \in Seq(Event)
  <1>1. events \in Seq(Event)
    BY DEF TypeOK
  <1>2. events # <<>> => Tail(events) \in Seq(Event) /\ Head(events) \in Event
    BY <1>1, HeadTailProperties
  <1>3. \A p \in Peers, up \in BOOLEAN : [peer |-> p, up |-> up] \in Event
    BY DEF Event
  <1>. QED  BY <1>1, <1>2, <1>3, AppendProperties DEF Event

\* The halves of handlers are work.
LEMMA HalvesAreWork ==
    /\ NoWork \in Work
    /\ \A p \in Peers : VppHalf(p) \in Work /\ NatHalf(p) \in Work
  BY DEF Work

\* Every step of the process, of charon and of the operator keeps the types.
LEMMA NextType == TypeOK /\ [Next]_vars => TypeOK'
  <1> SUFFICES ASSUME TypeOK, [Next]_vars PROVE TypeOK'
    OBVIOUS
  <1>1. CASE Start
    <2>1. /\ vrfCache' \in [Peers -> SiteVrfState]
          /\ routeCache' \in [Peers -> PeerRouteState]
      BY <1>1 DEF Start, NoSite, SiteVrfState, NoPeerRoutes, PeerRouteState
    <2>2. routes' \in [Globals -> Route]
      BY <1>1, RouteKinds, RoutedType DEF Start, TypeOK
    <2>3. alloc' \in [next : Nat, free : Seq(Nat)]
      BY <1>1 DEF Start, FreshAlloc
    <2>4. vppOn' \in BOOLEAN /\ registered' \in BOOLEAN
      BY <1>1, ConstantsAssumption DEF Start, ConstantsAssumption
    <2>. QED
      BY <1>1, <2>1, <2>2, <2>3, <2>4 DEF Start, TypeOK, envVars
  <1>2. CASE ListSas
    <2>1. todo' \in [Peers -> Nat]
      <3>1. CASE todo' = sas
        BY <3>1 DEF TypeOK
      <3>2. CASE \E got \in [Peers -> 0..MaxSas] : todo' = got
        BY <3>2, ConstantsAssumption DEF ConstantsAssumption
      <3>. QED  BY <1>2, <3>1, <3>2 DEF ListSas
    <2>. QED
      BY <1>2, <2>1 DEF ListSas, TypeOK, envVars, linkVars, vppVars, natVars
  <1>3. CASE \E p \in Peers : ReplayPeer(p)
    <2>1. PICK p \in Peers : ReplayPeer(p)
      BY <1>3
    <2>2. todo[p] \in Nat /\ todo[p] > 0 => todo[p] - 1 \in Nat
      OBVIOUS
    <2>3. todo' \in [Peers -> Nat]
      BY <2>1, <2>2 DEF ReplayPeer, TypeOK
    <2>4. work' \in Work
      BY <2>1, HalvesAreWork DEF ReplayPeer
    <2>5. /\ routeCache' \in [Peers -> PeerRouteState]
          /\ routes' \in [Globals -> Route]
          /\ activeGlobals' \in SUBSET Globals
      BY <2>1, NatUpType DEF ReplayPeer
    <2>. QED
      BY <2>1, <2>3, <2>4, <2>5 DEF ReplayPeer, TypeOK, envVars, linkVars, vppVars
  <1>4. CASE Reconcile
    <2>1. routes' \in [Globals -> Route]
      BY <1>4, RouteKinds, RoutedType DEF Reconcile
    <2>2. \A p \in Peers : routeCache[p].global_ips \in SUBSET Globals
      BY DEF TypeOK, PeerRouteState
    <2>3. activeGlobals' \in SUBSET Globals
      BY <1>4, <2>2 DEF Reconcile, cached_global_ips, TypeOK
    <2>. QED
      BY <1>4, <2>1, <2>3 DEF Reconcile, TypeOK, envVars, vppVars
  <1>5. CASE HandleUp
    <2>1. PICK p : p = Head(events).peer
      OBVIOUS
    <2>2. p \in Peers /\ Tail(events) \in Seq(Event)
      BY <1>5, <2>1, QueueType DEF HandleUp
    <2>3. /\ routeCache' \in [Peers -> PeerRouteState]
          /\ routes' \in [Globals -> Route]
          /\ activeGlobals' \in SUBSET Globals
      BY <1>5, <2>1, <2>2, NatUpType DEF HandleUp
    <2>4. work' \in Work
      BY <1>5, <2>1, <2>2, HalvesAreWork DEF HandleUp
    <2>. QED
      BY <1>5, <2>2, <2>3, <2>4 DEF HandleUp, TypeOK, envVars, vppVars
  <1>6. CASE FinishUp
    <2>1. PICK p \in Peers : VppUp(p)
      BY <1>6 DEF FinishUp
    <2>2. /\ vrfCache' \in [Peers -> SiteVrfState]
          /\ alloc' \in [next : Nat, free : Seq(Nat)]
          /\ routes' \in [Globals -> Route]
      BY <2>1, VppUpType
    <2>3. work' \in Work
      BY <1>6, HalvesAreWork DEF FinishUp
    <2>. QED
      BY <1>6, <2>2, <2>3 DEF FinishUp, TypeOK, envVars, linkVars, natVars
  <1>7. CASE HandleDown
    <2>1. PICK p : p = Head(events).peer
      OBVIOUS
    <2>2. p \in Peers /\ Tail(events) \in Seq(Event)
      BY <1>7, <2>1, QueueType DEF HandleDown
    <2>3. /\ vrfCache' \in [Peers -> SiteVrfState]
          /\ alloc' \in [next : Nat, free : Seq(Nat)]
          /\ routes' \in [Globals -> Route]
      <3>1. CASE VppDown(p)
        BY <2>2, <3>1, VppDownType
      <3>2. CASE UNCHANGED <<vrfCache, alloc, routes>>
        BY <3>2 DEF TypeOK
      <3>. QED  BY <1>7, <2>1, <3>1, <3>2 DEF HandleDown
    <2>4. work' \in Work
      BY <1>7, <2>1, <2>2, HalvesAreWork DEF HandleDown
    <2>. QED
      BY <1>7, <2>2, <2>3, <2>4 DEF HandleDown, TypeOK, envVars, natVars
  <1>8. CASE FinishDown
    <2>1. PICK p \in Peers : NatDown(p)
      BY <1>8 DEF FinishDown
    <2>2. /\ routeCache' \in [Peers -> PeerRouteState]
          /\ routes' \in [Globals -> Route]
          /\ activeGlobals' \in SUBSET Globals
      BY <2>1, NatDownType
    <2>3. work' \in Work
      BY <1>8, HalvesAreWork DEF FinishDown
    <2>. QED
      BY <1>8, <2>2, <2>3 DEF FinishDown, TypeOK, envVars, linkVars, vppVars
  <1>9. CASE Crash
    <2>1. restarts' \in Nat /\ todo' \in [Peers -> Nat]
      BY <1>9 DEF Crash, TypeOK
    <2>2. events' \in Seq(Event)
      BY <1>9 DEF Crash
    <2>3. work' \in Work
      BY <1>9, HalvesAreWork DEF Crash
    <2>. QED
      BY <1>9, <2>1, <2>2, <2>3 DEF Crash, TypeOK, envVars, vppVars, natVars
  <1>10. CASE \E p \in Peers : ChildUp(p) \/ ChildDown(p)
    <2>1. PICK p \in Peers : ChildUp(p) \/ ChildDown(p)
      BY <1>10
    <2>2. sas' \in [Peers -> Nat]
      <3>1. sas[p] \in Nat
        BY DEF TypeOK
      <3>2. sas[p] + 1 \in Nat /\ (sas[p] > 0 => sas[p] - 1 \in Nat)
        BY <3>1
      <3>. QED  BY <2>1, <3>2 DEF ChildUp, ChildDown, TypeOK
    <2>3. \A up \in BOOLEAN : Notify(p, up) => events' \in Seq(Event)
      BY QueueType DEF Notify, TypeOK
    <2>4. events' \in Seq(Event)
      BY <2>1, <2>3 DEF ChildUp, ChildDown
    <2>. QED
      BY <2>1, <2>2, <2>4 DEF ChildUp, ChildDown, TypeOK, ctlVars, vppVars, natVars
  <1>11. CASE \E p \in Peers : WriteRecord(p)
    <2>1. PICK p \in Peers : WriteRecord(p)
      BY <1>11
    <2>2. Provisioned[p] \in SUBSET (NatRecords \cup {NoRecord})
      BY ConstantsAssumption DEF ConstantsAssumption
    <2>3. natRec' \in [Peers -> NatRecords \cup {NoRecord}]
      BY <2>1, <2>2 DEF WriteRecord, TypeOK
    <2>. QED
      BY <2>1, <2>3 DEF WriteRecord, TypeOK, linkVars, ctlVars, vppVars, natVars
  <1>12. CASE UNCHANGED vars
    BY <1>12 DEF TypeOK, vars, envVars, linkVars, ctlVars, vppVars, natVars
  <1>. QED
    BY <1>1, <1>2, <1>3, <1>4, <1>5, <1>6, <1>7, <1>8, <1>9, <1>10, <1>11, <1>12
    DEF Next, TaskStep

\* The state of the event task, of the kernel and of charon is always of its
\* type, whatever fails, for any number of sites, devices, tunnels and crashes.
THEOREM TypeCorrect == Spec => []TypeOK
  <1>. QED  BY InitType, NextType, PTL DEF Spec

-----------------------------------------------------------------------------
\* The allocator hands out every id once

Ids == [next : Nat, free : Seq(Nat)]

\* Used, the ids in use, and the free list are disjoint, below next, and the
\* free list has no duplicate.
Exclusive(a, used) ==
    /\ used \subseteq Nat
    /\ \A u \in used : u < a.next
    /\ \A u \in used : \A i \in 1 .. Len(a.free) : a.free[i] # u
    /\ \A i \in 1 .. Len(a.free) : a.free[i] < a.next
    /\ \A i, j \in 1 .. Len(a.free) : a.free[i] = a.free[j] => i = j

\* An allocated id was not in use, and is neither free nor at the mark after.
LEMMA AllocExclusive ==
    ASSUME NEW a \in Ids, NEW used, Exclusive(a, used)
    PROVE  /\ AllocId(a) \notin used
           /\ Exclusive(AfterAlloc(a), used \cup {AllocId(a)})
  <1>0. a.next \in Nat /\ a.free \in Seq(Nat)
    BY DEF Ids
  <1>1. CASE a.free = <<>>
    <2>1. AllocId(a) = a.next
      BY <1>1 DEF AllocId
    <2>2. AfterAlloc(a).next = a.next + 1 /\ AfterAlloc(a).free = a.free
      BY <1>1 DEF AfterAlloc, Ids
    <2>3. Len(a.free) = 0
      BY <1>0, <1>1, LenProperties
    <2>4. \A u \in used : u \in Nat /\ u < a.next
      BY DEF Exclusive
    <2>5. AllocId(a) \notin used
      BY <1>0, <2>1, <2>4
    <2>6. \A u \in used \cup {AllocId(a)} : u \in Nat /\ u < a.next + 1
      BY <1>0, <2>1, <2>4
    <2>7. \A i \in 1 .. Len(a.free) : FALSE
      BY <2>3
    <2>. QED  BY <2>2, <2>5, <2>6, <2>7 DEF Exclusive
  <1>2. CASE a.free # <<>>
    <2>1. AllocId(a) = a.free[Len(a.free)]
      BY <1>2 DEF AllocId
    <2>2. Len(a.free) \in Nat \ {0}
      BY <1>0, <1>2, EmptySeq, LenProperties
    <2>3. /\ AfterAlloc(a).next = a.next
          /\ AfterAlloc(a).free = SubSeq(a.free, 1, Len(a.free) - 1)
      BY <1>2 DEF AfterAlloc, Ids
    <2>4. /\ Len(AfterAlloc(a).free) = Len(a.free) - 1
          /\ \A i \in 1 .. Len(a.free) - 1 : AfterAlloc(a).free[i] = a.free[i]
      BY <1>0, <2>2, <2>3, SubSeqProperties
    <2>5. Len(a.free) \in 1 .. Len(a.free) /\ a.free[Len(a.free)] \in Nat
      BY <1>0, <2>2, ElementOfSeq
    <2>6. AllocId(a) \notin used
      BY <2>1, <2>5 DEF Exclusive
    <2>7. \A i \in 1 .. Len(a.free) - 1 :
             i \in 1 .. Len(a.free) /\ a.free[i] # AllocId(a)
      BY <2>1, <2>2, <2>5 DEF Exclusive
    <2>. QED  BY <1>0, <2>1, <2>2, <2>3, <2>4, <2>5, <2>6, <2>7 DEF Exclusive
  <1>. QED  BY <1>1, <1>2

\* An id that is given back is not in use any more.
LEMMA FreeExclusive ==
    ASSUME NEW a \in Ids, NEW used, Exclusive(a, used), NEW id \in used
    PROVE  Exclusive(AfterFree(a, id), used \ {id})
  <1>1. a.next \in Nat /\ a.free \in Seq(Nat) /\ id \in Nat
    BY DEF Ids, Exclusive
  <1>2. /\ AfterFree(a, id).next = a.next
        /\ AfterFree(a, id).free = Append(a.free, id)
    BY DEF AfterFree, Ids
  <1>3. Len(a.free) \in Nat
    BY <1>1, LenProperties
  <1>4. /\ Len(AfterFree(a, id).free) = Len(a.free) + 1
        /\ \A i \in 1 .. Len(a.free) : AfterFree(a, id).free[i] = a.free[i]
        /\ AfterFree(a, id).free[Len(a.free) + 1] = id
    BY <1>1, <1>2, AppendProperties
  <1>5. \A i \in 1 .. Len(a.free) + 1 : i \in 1 .. Len(a.free) \/ i = Len(a.free) + 1
    BY <1>3
  <1>. QED  BY <1>1, <1>2, <1>3, <1>4, <1>5 DEF Exclusive

\* What an invariant about ids needs to know of every step: the ids in use, no
\* two sites with the same one, are exclusive with the free list.
InUse == {vrfCache[p].ids : p \in BackendSites}
IdsInv ==
    /\ Exclusive(alloc, InUse)
    /\ \A p, q \in BackendSites : vrfCache[p].ids = vrfCache[q].ids => p = q

\* IdsInv is the invariant IdsExclusive, strengthened by the bound next.
LEMMA IdsInvImplies == TypeOK /\ IdsInv => IdsExclusive
  <1> SUFFICES ASSUME TypeOK, IdsInv PROVE IdsExclusive
    OBVIOUS
  <1>1. alloc.free \in Seq(Nat)
    BY DEF TypeOK
  <1>2. DOMAIN alloc.free = 1 .. Len(alloc.free)
    BY <1>1, LenProperties
  <1>. QED  BY <1>2 DEF IdsInv, Exclusive, InUse, IdsExclusive

\* A step that touches neither the VPP cache nor the allocator.
LEMMA IdsUntouched ==
    IdsInv /\ UNCHANGED <<vrfCache, alloc>> => IdsInv'
  BY DEF IdsInv, InUse, BackendSites

\* Setting a positive refcount to a positive one.
LEMMA IdsRecount ==
    ASSUME TypeOK, IdsInv, NEW p \in Peers, NEW n \in Nat \ {0},
           vrfCache[p].child_sa_count > 0,
           vrfCache' = [vrfCache EXCEPT ![p].child_sa_count = n], UNCHANGED alloc
    PROVE  IdsInv'
  <1>1. vrfCache \in [Peers -> SiteVrfState]
    BY DEF TypeOK
  <1>2. \A q \in Peers : /\ vrfCache'[q].ids = vrfCache[q].ids
                         /\ vrfCache'[q].bypass = vrfCache[q].bypass
                         /\ vrfCache'[q].child_sa_count > 0
                               <=> vrfCache[q].child_sa_count > 0
    BY <1>1 DEF SiteVrfState
  <1>3. BackendSites' = BackendSites
    BY <1>2 DEF BackendSites
  <1>4. InUse' = InUse
    BY <1>2, <1>3 DEF InUse, BackendSites
  <1>. QED  BY <1>2, <1>3, <1>4 DEF IdsInv, BackendSites

\* A site comes up that had no entry: a bypassed one takes no id, a backend one
\* an id no other site has.
LEMMA IdsSiteUp ==
    ASSUME TypeOK, IdsInv, NEW p \in Peers, ~(vrfCache[p].child_sa_count > 0),
           NEW via, NEW devs, NEW bypass \in BOOLEAN, NEW ids \in Nat,
           SiteUp(p, via, devs, bypass, ids),
           \/ bypass = TRUE /\ UNCHANGED alloc
           \/ bypass = FALSE /\ ids = AllocId(alloc) /\ alloc' = AfterAlloc(alloc)
    PROVE  IdsInv'
  <1>1. vrfCache \in [Peers -> SiteVrfState]
    BY DEF TypeOK
  <1>2. /\ vrfCache'[p].ids = ids
        /\ vrfCache'[p].bypass = bypass
        /\ vrfCache'[p].child_sa_count = 1
        /\ \A q \in Peers \ {p} : vrfCache'[q] = vrfCache[q]
    BY <1>1 DEF SiteUp
  <1>3. p \notin BackendSites
    BY DEF BackendSites
  <1>4. CASE bypass = TRUE /\ UNCHANGED alloc
    <2>1. BackendSites' = BackendSites
      BY <1>2, <1>3, <1>4 DEF BackendSites
    <2>2. \A q \in BackendSites : vrfCache'[q] = vrfCache[q]
      BY <1>2, <1>3 DEF BackendSites
    <2>3. InUse' = InUse
      BY <2>1, <2>2 DEF InUse
    <2>. QED  BY <1>4, <2>1, <2>2, <2>3 DEF IdsInv
  <1>5. CASE bypass = FALSE /\ ids = AllocId(alloc) /\ alloc' = AfterAlloc(alloc)
    <2>1. BackendSites' = BackendSites \cup {p}
      BY <1>2, <1>3, <1>5 DEF BackendSites
    <2>2. \A q \in BackendSites : q # p /\ vrfCache'[q] = vrfCache[q]
      BY <1>2, <1>3 DEF BackendSites
    <2>3. InUse' = InUse \cup {ids}
      BY <1>2, <2>1, <2>2 DEF InUse
    <2>4. ids \notin InUse /\ Exclusive(alloc', InUse')
      BY <1>5, <2>3, AllocExclusive DEF IdsInv, TypeOK, Ids
    <2>5. \A q \in BackendSites : vrfCache[q].ids # ids
      BY <2>4 DEF InUse
    <2>. QED  BY <1>2, <2>1, <2>2, <2>4, <2>5 DEF IdsInv
  <1>. QED  BY <1>4, <1>5

\* A setup takes a fresh id, or gives back what it took.
LEMMA IdsVppUp ==
    ASSUME TypeOK, IdsInv, NEW p \in Peers, VppUp(p)
    PROVE  IdsInv'
  <1>1. CASE vrfCache[p].child_sa_count > 0
    <2>1. vrfCache[p].child_sa_count + 1 \in Nat \ {0}
      BY <1>1 DEF TypeOK, SiteVrfState
    <2>. QED  BY <1>1, <2>1, IdsRecount DEF VppUp
  <1>2. CASE ~(vrfCache[p].child_sa_count > 0)
    <2>1. PICK devs :
             \/ UNCHANGED <<vrfCache, alloc, routes>>
             \/ setup_site_bypass(p, devs)
             \/ setup_site_vrf(p, devs)
      BY <1>2 DEF VppUp
    <2>2. alloc \in Ids /\ AllocId(alloc) \in Nat /\ AfterAlloc(alloc) \in Ids
      BY AllocType DEF TypeOK, Ids
    <2>3. CASE UNCHANGED <<vrfCache, alloc, routes>>
      BY <2>3, IdsUntouched
    <2>4. CASE setup_site_bypass(p, devs)
      BY <1>2, <2>4, IdsSiteUp DEF setup_site_bypass
    <2>5. CASE /\ SiteUp(p, Outer, devs, FALSE, AllocId(alloc))
               /\ alloc' = AfterAlloc(alloc)
      BY <1>2, <2>2, <2>5, IdsSiteUp
    <2>6. CASE /\ alloc' = AfterFree(AfterAlloc(alloc), AllocId(alloc))
               /\ UNCHANGED <<vrfCache, routes>>
      <3>1. InUse' = InUse /\ BackendSites' = BackendSites
        BY <2>6 DEF InUse, BackendSites
      <3>2. /\ AllocId(alloc) \notin InUse
            /\ Exclusive(AfterAlloc(alloc), InUse \cup {AllocId(alloc)})
        BY <2>2, AllocExclusive DEF IdsInv
      <3>3. Exclusive(alloc', (InUse \cup {AllocId(alloc)}) \ {AllocId(alloc)})
        BY <2>2, <2>6, <3>2, FreeExclusive
      <3>4. (InUse \cup {AllocId(alloc)}) \ {AllocId(alloc)} = InUse
        BY <3>2
      <3>5. Exclusive(alloc', InUse')
        BY <3>1, <3>3, <3>4
      <3>. QED  BY <2>6, <3>1, <3>5 DEF IdsInv
    <2>. QED  BY <2>1, <2>3, <2>4, <2>5, <2>6 DEF setup_site_vrf
  <1>. QED  BY <1>1, <1>2

\* A teardown gives back the id of its site, which no other site has.
LEMMA IdsVppDown ==
    ASSUME TypeOK, IdsInv, NEW p \in Peers, VppDown(p)
    PROVE  IdsInv'
  <1>0. vrfCache \in [Peers -> SiteVrfState] /\ vrfCache[p] \in SiteVrfState
    BY DEF TypeOK
  <1>1. CASE vrfCache[p].child_sa_count = 0
    BY <1>1, IdsUntouched DEF VppDown
  <1>2. CASE vrfCache[p].child_sa_count > 1
    <2>1. vrfCache[p].child_sa_count - 1 \in Nat \ {0}
      BY <1>0, <1>2 DEF SiteVrfState
    <2>. QED  BY <1>0, <1>2, <2>1, IdsRecount DEF VppDown, SiteVrfState
  <1>3. CASE vrfCache[p].child_sa_count = 1
    <2>1. /\ vrfCache' = [vrfCache EXCEPT ![p] = NoSite]
          /\ alloc' = IF vrfCache[p].bypass THEN alloc
                      ELSE AfterFree(alloc, vrfCache[p].ids)
      BY <1>3 DEF VppDown, teardown_site_bypass, teardown_site_vrf
    <2>2. /\ ~(vrfCache'[p].child_sa_count > 0)
          /\ \A q \in Peers \ {p} : vrfCache'[q] = vrfCache[q]
      BY <1>0, <2>1 DEF NoSite
    <2>3. BackendSites' = BackendSites \ {p}
      BY <2>2 DEF BackendSites
    <2>4. \A q \in BackendSites' : q \in BackendSites /\ vrfCache'[q] = vrfCache[q]
      BY <2>2, <2>3 DEF BackendSites
    <2>5. CASE vrfCache[p].bypass
      <3>1. p \notin BackendSites
        BY <2>5 DEF BackendSites
      <3>2. BackendSites' = BackendSites
        BY <2>3, <3>1
      <3>3. InUse' = InUse
        BY <2>4, <3>2 DEF InUse
      <3>. QED  BY <2>1, <2>4, <2>5, <3>3 DEF IdsInv
    <2>6. CASE ~vrfCache[p].bypass
      <3>1. p \in BackendSites
        BY <1>3, <2>6 DEF BackendSites
      <3>2. vrfCache[p].ids \in InUse
        BY <3>1 DEF InUse
      <3>3. \A q \in BackendSites' : vrfCache[q].ids # vrfCache[p].ids
        BY <2>3, <3>1 DEF IdsInv
      <3>4. InUse' = InUse \ {vrfCache[p].ids}
        BY <2>3, <2>4, <3>3 DEF InUse
      <3>5. Exclusive(alloc', InUse')
        BY <2>1, <2>6, <3>2, <3>4, FreeExclusive DEF IdsInv, TypeOK, Ids
      <3>. QED  BY <2>4, <3>5 DEF IdsInv
    <2>. QED  BY <2>5, <2>6
  <1>. QED  BY <1>1, <1>2, <1>3 DEF VppDown

\* A process that has just started has no site and no id.
LEMMA IdsFresh ==
    ASSUME vrfCache = [p \in Peers |-> NoSite], alloc = FreshAlloc
    PROVE  IdsInv
  <1>1. BackendSites = {}
    BY DEF BackendSites, NoSite
  <1>2. InUse = {}
    BY <1>1 DEF InUse
  <1>3. alloc.free = <<>> /\ Len(alloc.free) = 0
    BY DEF FreshAlloc
  <1>. QED  BY <1>1, <1>2, <1>3 DEF IdsInv, Exclusive

\* Only the start of the process and the VPP halves of an event touch the ids.
LEMMA IdsStep == TypeOK /\ IdsInv /\ [Next]_vars => IdsInv'
  <1> SUFFICES ASSUME TypeOK, IdsInv, [Next]_vars PROVE IdsInv'
    OBVIOUS
  <1>1. CASE Start
    <2>1. vrfCache' = [p \in Peers |-> NoSite] /\ alloc' = FreshAlloc
      BY <1>1 DEF Start
    <2>2. BackendSites' = {}
      BY <2>1 DEF BackendSites, NoSite
    <2>3. InUse' = {}
      BY <2>2 DEF InUse
    <2>4. alloc'.free = <<>> /\ Len(alloc'.free) = 0
      BY <2>1 DEF FreshAlloc
    <2>. QED  BY <2>2, <2>3, <2>4 DEF IdsInv, Exclusive
  <1>2. CASE FinishUp
    BY <1>2, IdsVppUp DEF FinishUp
  <1>3. CASE HandleDown
    <2>1. Head(events).peer \in Peers
      BY <1>3, QueueType DEF HandleDown
    <2>. QED  BY <1>3, <2>1, IdsVppDown, IdsUntouched DEF HandleDown
  <1>4. CASE UNCHANGED <<vrfCache, alloc>>
    BY <1>4, IdsUntouched
  <1>5. \/ Start \/ FinishUp \/ HandleDown
        \/ UNCHANGED <<vrfCache, alloc>>
    BY DEF Next, TaskStep, ListSas, ReplayPeer, Reconcile, HandleUp, FinishDown, Crash,
           ChildUp, ChildDown, WriteRecord, vars, vppVars
  <1>. QED  BY <1>1, <1>2, <1>3, <1>4, <1>5

\* For any number of sites, devices, tunnels, crashes and failures: no two
\* backend sites share VRF tables or a tap, none of theirs is also free, and no
\* id is free twice.
THEOREM IdsAlwaysExclusive == Spec => []IdsExclusive
  <1>1. Init => IdsInv
    BY IdsFresh DEF Init
  <1>. QED
    BY <1>1, InitType, NextType, IdsStep, IdsInvImplies, PTL DEF Spec

-----------------------------------------------------------------------------
\* active_globals follows the route cache

Repaired == restarts >= FaultyLives

DisjointSites == \A p, q \in Peers : p # q => DevicesOf(p) \cap DevicesOf(q) = {}

\* Nothing fails any more.
LEMMA NoFaultsLeft ==
    ASSUME TypeOK, Repaired
    PROVE  /\ \A f : ~May(f)
           /\ \A f, S : Survivors(f, S) = {S}
           /\ \A p : Lookup(p) = {natRec[p]}
  <1>1. restarts \in Nat /\ FaultyLives \in Nat
    BY ConstantsAssumption DEF TypeOK, ConstantsAssumption
  <1>2. \A f : ~May(f)
    BY <1>1 DEF Repaired, May
  <1>. QED  BY <1>2 DEF Survivors, Lookup

\* An entry is a part of its site's devices, and an absent one is empty; once
\* nothing fails, a process that serves has the set equal to the cache.
CacheInv ==
    /\ \A p \in Peers : natRec[p] \in Provisioned[p]
    /\ \A p \in Peers : routeCache[p].global_ips \subseteq DevicesOf(p)
    /\ \A p \in Peers : routeCache[p].child_sa_count = 0 => routeCache[p].global_ips = {}
    /\ Repaired /\ proc = "serving" => activeGlobals = cached_global_ips

\* What one nat half does to the cache and the set, whatever process runs it.
CacheStep ==
    /\ \A p \in Peers : routeCache'[p].global_ips \subseteq DevicesOf(p)
    /\ \A p \in Peers : routeCache'[p].child_sa_count = 0 => routeCache'[p].global_ips = {}
    /\ Repaired /\ activeGlobals = cached_global_ips => activeGlobals' = cached_global_ips'

\* Counting one more or one less changes no global_ip.
LEMMA RecountStep ==
    ASSUME TypeOK, CacheInv, NEW p \in Peers, NEW n \in Nat \ {0},
           routeCache' = [routeCache EXCEPT ![p].child_sa_count = n],
           UNCHANGED activeGlobals
    PROVE  CacheStep
  <1>1. routeCache \in [Peers -> PeerRouteState]
    BY DEF TypeOK
  <1>2. \A q \in Peers : /\ routeCache'[q].global_ips = routeCache[q].global_ips
                         /\ \/ routeCache'[q].child_sa_count = n
                            \/ routeCache'[q].child_sa_count = routeCache[q].child_sa_count
    BY <1>1 DEF PeerRouteState
  <1>3. cached_global_ips' = cached_global_ips
    BY <1>2 DEF cached_global_ips
  <1>. QED  BY <1>2, <1>3 DEF CacheInv, CacheStep

\* An UP adds to the set what it adds to the cache.
LEMMA NatUpCache ==
    ASSUME TypeOK, CacheInv, NEW p \in Peers, NatUp(p)
    PROVE  CacheStep
  <1>0. routeCache \in [Peers -> PeerRouteState] /\ routeCache[p] \in PeerRouteState
    BY DEF TypeOK
  <1>1. CASE routeCache[p].child_sa_count > 0
    <2>1. routeCache[p].child_sa_count + 1 \in Nat \ {0}
      BY <1>0 DEF PeerRouteState
    <2>. QED  BY <1>1, <2>1, RecountStep DEF NatUp
  <1>2. CASE ~(routeCache[p].child_sa_count > 0)
    <2>1. PICK rec \in Lookup(p) : \E installed \in Survivors("route", rec.device_nat) :
             /\ \E added \in Survivors("active", installed) :
                   activeGlobals' = activeGlobals \cup added
             /\ routeCache' = IF installed = {} THEN routeCache
                              ELSE [routeCache EXCEPT ![p] = [global_ips |-> installed,
                                                              child_sa_count |-> 1]]
      BY <1>2 DEF NatUp
    <2>2. PICK installed \in Survivors("route", rec.device_nat) :
             /\ \E added \in Survivors("active", installed) :
                   activeGlobals' = activeGlobals \cup added
             /\ routeCache' = IF installed = {} THEN routeCache
                              ELSE [routeCache EXCEPT ![p] = [global_ips |-> installed,
                                                              child_sa_count |-> 1]]
      BY <2>1
    <2>3. rec = natRec[p] \/ rec.device_nat = {}
      BY DEF Lookup, NoRecord
    <2>4. rec.device_nat \subseteq DevicesOf(p)
      BY <2>3 DEF DevicesOf, CacheInv
    <2>5. installed \subseteq DevicesOf(p)
      BY <2>4, SurvivorsSubset
    <2>6. routeCache[p].global_ips = {}
      BY <1>0, <1>2 DEF CacheInv, PeerRouteState
    <2>7. CASE installed = {}
      <3>1. Survivors("active", installed) = {{}} \/ ~Repaired
        BY <2>7, NoFaultsLeft
      <3>. QED  BY <2>2, <2>7, <3>1 DEF CacheInv, CacheStep, cached_global_ips
    <2>8. CASE installed # {}
      <3>1. /\ routeCache'[p].global_ips = installed
            /\ routeCache'[p].child_sa_count = 1
            /\ \A q \in Peers \ {p} : routeCache'[q] = routeCache[q]
        BY <1>0, <2>2, <2>8
      <3>2. cached_global_ips' = cached_global_ips \cup installed
        BY <2>6, <3>1 DEF cached_global_ips
      <3>3. Repaired => Survivors("active", installed) = {installed}
        BY NoFaultsLeft
      <3>4. Repaired => activeGlobals' = activeGlobals \cup installed
        BY <2>2, <3>3
      <3>. QED  BY <2>5, <3>1, <3>2, <3>4 DEF CacheInv, CacheStep
    <2>. QED  BY <2>7, <2>8
  <1>. QED  BY <1>1, <1>2

\* A DOWN takes from the set what no other site has in the cache.
LEMMA NatDownCache ==
    ASSUME TypeOK, CacheInv, DisjointSites, NEW p \in Peers, NatDown(p)
    PROVE  CacheStep
  <1>0. routeCache \in [Peers -> PeerRouteState] /\ routeCache[p] \in PeerRouteState
    BY DEF TypeOK
  <1>1. CASE routeCache[p].child_sa_count = 0
    BY <1>1 DEF NatDown, CacheInv, CacheStep, cached_global_ips
  <1>2. CASE routeCache[p].child_sa_count > 1
    <2>1. routeCache[p].child_sa_count - 1 \in Nat \ {0}
      BY <1>0, <1>2 DEF PeerRouteState
    <2>2. /\ routeCache' = [routeCache EXCEPT ![p].child_sa_count =
                                                routeCache[p].child_sa_count - 1]
          /\ UNCHANGED activeGlobals
      BY <1>2 DEF NatDown
    <2>. QED  BY <2>1, <2>2, RecountStep
  <1>3. CASE routeCache[p].child_sa_count = 1
    <2>0. Repaired => Survivors("active", routeCache[p].global_ips)
                          = {routeCache[p].global_ips}
      BY NoFaultsLeft
    <2>1. /\ Repaired => activeGlobals' = activeGlobals \ routeCache[p].global_ips
          /\ routeCache' = [routeCache EXCEPT ![p] = NoPeerRoutes]
      BY <1>3, <2>0 DEF NatDown
    <2>2. /\ routeCache'[p].global_ips = {}
          /\ \A q \in Peers \ {p} : routeCache'[q] = routeCache[q]
      BY <1>0, <2>1 DEF NoPeerRoutes
    <2>3. \A q \in Peers \ {p} :
             routeCache[q].global_ips \cap routeCache[p].global_ips = {}
      BY DEF CacheInv, DisjointSites
    <2>4. cached_global_ips' = cached_global_ips \ routeCache[p].global_ips
      BY <2>2, <2>3 DEF cached_global_ips
    <2>. QED  BY <2>1, <2>2, <2>4 DEF CacheInv, CacheStep
  <1>. QED  BY <1>1, <1>2, <1>3 DEF NatDown

\* Every step keeps the set equal to the cache, when sites share no device.
LEMMA CacheNext ==
    ASSUME DisjointSites, TypeOK, CacheInv, [Next]_vars
    PROVE  CacheInv'
  <1>1. \A p \in Peers : natRec'[p] \in Provisioned[p]
    <2>1. CASE \E p \in Peers : WriteRecord(p)
      BY <2>1 DEF WriteRecord, CacheInv, TypeOK
    <2>2. CASE UNCHANGED natRec
      BY <2>2 DEF CacheInv
    <2>3. UNCHANGED natRec \/ \E p \in Peers : WriteRecord(p)
      BY DEF Next, TaskStep, Start, ListSas, ReplayPeer, Reconcile, HandleUp, FinishUp,
             HandleDown, FinishDown, Crash, ChildUp, ChildDown, vars, envVars
    <2>. QED  BY <2>1, <2>2, <2>3
  <1>2. CASE Start
    <2>1. /\ \A p \in Peers : routeCache'[p] = NoPeerRoutes
          /\ proc' = "starting"
      BY <1>2 DEF Start
    <2>. QED  BY <1>1, <2>1 DEF CacheInv, NoPeerRoutes
  <1>3. CASE \E p \in Peers : ReplayPeer(p)
    <2>1. CacheStep /\ UNCHANGED <<proc, restarts>> /\ proc = "replaying"
      BY <1>3, NatUpCache DEF ReplayPeer
    <2>. QED  BY <1>1, <2>1 DEF CacheInv, CacheStep, Repaired
  <1>4. CASE HandleUp
    <2>1. Head(events).peer \in Peers
      BY <1>4, QueueType DEF HandleUp
    <2>2. CacheStep /\ UNCHANGED <<proc, restarts>>
      BY <1>4, <2>1, NatUpCache DEF HandleUp
    <2>. QED  BY <1>1, <2>2 DEF CacheInv, CacheStep, Repaired
  <1>5. CASE FinishDown
    <2>1. CacheStep /\ UNCHANGED <<proc, restarts>>
      BY <1>5, NatDownCache DEF FinishDown
    <2>. QED  BY <1>1, <2>1 DEF CacheInv, CacheStep, Repaired
  <1>6. CASE Reconcile
    <2>0. Repaired => ~May("active")
      BY NoFaultsLeft
    <2>1. /\ UNCHANGED <<routeCache, restarts>>
          /\ Repaired => activeGlobals' = cached_global_ips
      BY <1>6, <2>0 DEF Reconcile
    <2>2. cached_global_ips' = cached_global_ips
      BY <2>1 DEF cached_global_ips
    <2>. QED  BY <1>1, <2>1, <2>2 DEF CacheInv, Repaired
  <1>7. CASE /\ UNCHANGED <<routeCache, activeGlobals>>
             /\ (proc' = "serving" => proc = "serving" /\ UNCHANGED restarts)
    <2>1. cached_global_ips' = cached_global_ips
      BY <1>7 DEF cached_global_ips
    <2>. QED  BY <1>1, <1>7, <2>1 DEF CacheInv, Repaired
  <1>8. \/ Start \/ HandleUp \/ FinishDown \/ Reconcile
        \/ \E p \in Peers : ReplayPeer(p)
        \/ /\ UNCHANGED <<routeCache, activeGlobals>>
           /\ (proc' = "serving" => proc = "serving" /\ UNCHANGED restarts)
    BY DEF Next, TaskStep, ListSas, FinishUp, HandleDown, Crash, ChildUp, ChildDown,
           WriteRecord, vars, ctlVars, natVars
  <1>. QED  BY <1>2, <1>3, <1>4, <1>5, <1>6, <1>7, <1>8

\* When no two sites share a global_ip and faults have ended, active_globals is
\* exactly what the route cache tracks while the process serves, whatever failed
\* nft commands had left in it or kept from it: for any number of sites, devices,
\* tunnels and crashes.
THEOREM ActiveGlobalsFollowCache ==
    ASSUME DisjointSites, FaultyLives <= CheckedFrom
    PROVE  Spec => []ActiveMatchesCache
  <1>1. Init => CacheInv
    <2> SUFFICES ASSUME Init PROVE CacheInv
      OBVIOUS
    <2>1. \A p \in Peers : routeCache[p] = NoPeerRoutes
      BY DEF Init
    <2>2. \A p \in Peers : natRec[p] \in Provisioned[p]
      BY DEF Init
    <2>. QED  BY <2>1, <2>2 DEF Init, CacheInv, NoPeerRoutes
  <1>2. TypeOK /\ CacheInv /\ [Next]_vars => CacheInv'
    BY CacheNext
  <1>3. TypeOK /\ CacheInv => ActiveMatchesCache
    BY ConstantsAssumption DEF ConstantsAssumption, TypeOK, CacheInv, ActiveMatchesCache,
                               Checked, Repaired
  <1>. QED
    BY <1>1, <1>2, <1>3, InitType, NextType, PTL DEF Spec

-----------------------------------------------------------------------------
\* Counting events

\* The positions after k at which e is queued in q, and their number
Places(q, k, e) == {i \in 1 .. Len(q) : i > k /\ q[i] = e}
After(q, k, e) == Cardinality(Places(q, k, e))

One(condition) == IF condition THEN 1 ELSE 0

\* Counts are numbers; behind the end of the queue there is nothing.
LEMMA AfterType ==
    ASSUME NEW q \in Seq(Event), NEW k \in Nat, NEW e
    PROVE  /\ IsFiniteSet(Places(q, k, e)) /\ After(q, k, e) \in Nat
           /\ k >= Len(q) => After(q, k, e) = 0
  <1>1. Len(q) \in Nat
    BY LenProperties
  <1>2. IsFiniteSet(1 .. Len(q)) /\ Places(q, k, e) \in SUBSET (1 .. Len(q))
    BY <1>1, FS_Interval DEF Places
  <1>3. IsFiniteSet(Places(q, k, e))
    BY <1>2, FS_Subset
  <1>4. k >= Len(q) => Places(q, k, e) = {}
    BY <1>1 DEF Places
  <1>. QED  BY <1>3, <1>4, FS_CardinalityType, FS_EmptySet DEF After

\* An appended event counts behind every position of the queue it joins.
LEMMA AfterAppend ==
    ASSUME NEW q \in Seq(Event), NEW k \in Nat, NEW e \in Event, NEW f \in Event
    PROVE  After(Append(q, e), k, f) = After(q, k, f) + One(k <= Len(q) /\ e = f)
  <1>. DEFINE n == Len(q) + 1
              r == Append(q, e)
  <1>1. Len(q) \in Nat /\ Len(r) = n /\ r[n] = e /\ \A i \in 1 .. Len(q) : r[i] = q[i]
    BY LenProperties, AppendProperties
  <1>2. n \notin Places(q, k, f) /\ 1 .. n = 1 .. Len(q) \cup {n}
    BY <1>1 DEF Places
  <1>3. IsFiniteSet(Places(q, k, f)) /\ After(q, k, f) \in Nat
    BY AfterType
  <1>. HIDE DEF n, r
  <1>4. CASE k <= Len(q) /\ e = f
    <2>1. Places(r, k, f) = Places(q, k, f) \cup {n}
      BY <1>1, <1>2, <1>4 DEF Places, n
    <2>. QED  BY <1>2, <1>3, <1>4, <2>1, FS_AddElement DEF After, One, r
  <1>5. CASE ~(k <= Len(q) /\ e = f)
    <2>1. Places(r, k, f) = Places(q, k, f)
      BY <1>1, <1>2, <1>5 DEF Places, n
    <2>. QED  BY <1>3, <1>5, <2>1 DEF After, One, r
  <1>. QED  BY <1>4, <1>5

\* The head counts only from the start; without it every position moves up.
LEMMA AfterTail ==
    ASSUME NEW q \in Seq(Event), q # <<>>, NEW k \in Nat, NEW f \in Event
    PROVE  /\ After(Tail(q), k, f) = After(q, k + 1, f)
           /\ After(q, 0, f) = After(q, 1, f) + One(Head(q) = f)
  <1>1. /\ Len(q) \in Nat \ {0} /\ Tail(q) \in Seq(Event)
        /\ Len(Tail(q)) = Len(q) - 1
        /\ \A i \in 1 .. Len(Tail(q)) : Tail(q)[i] = q[i + 1]
        /\ Head(q) = q[1]
    BY EmptySeq, LenProperties, HeadTailProperties
  <1>2. After(Tail(q), k, f) = After(q, k + 1, f)
    <2>. DEFINE S == Places(Tail(q), k, f)
                T == Places(q, k + 1, f)
                shift == [i \in S |-> i + 1]
    <2>1. \A i \in S : i + 1 \in T
      BY <1>1 DEF Places
    <2>2. \A j \in T : j - 1 \in S /\ (j - 1) + 1 = j
      BY <1>1 DEF Places
    <2>3. \A i, j \in S : i # j => i + 1 # j + 1
      BY <1>1 DEF Places
    <2>4. IsFiniteSet(S)
      BY <1>1, AfterType
    <2>. HIDE DEF S, T
    <2>5. /\ shift \in [S -> T]
          /\ \A i, j \in S : i # j => shift[i] # shift[j]
          /\ \A j \in T : \E i \in S : shift[i] = j
      BY <2>1, <2>2, <2>3
    <2>. HIDE DEF shift
    <2>6. ExistsBijection(S, T)
      BY <2>5 DEF ExistsBijection, Bijection, Injection, Surjection, IsInjective
    <2>. QED  BY <2>4, <2>6, FS_Bijection DEF After, S, T
  <1>3. After(q, 0, f) = After(q, 1, f) + One(Head(q) = f)
    <2>1. 1 \notin Places(q, 1, f)
      BY DEF Places
    <2>2. IsFiniteSet(Places(q, 1, f)) /\ After(q, 1, f) \in Nat
      BY AfterType
    <2>3. CASE Head(q) = f
      <3>1. Places(q, 0, f) = Places(q, 1, f) \cup {1}
        BY <1>1, <2>3 DEF Places
      <3>. QED  BY <2>1, <2>2, <2>3, <3>1, FS_AddElement DEF After, One
    <2>4. CASE Head(q) # f
      <3>1. Places(q, 0, f) = Places(q, 1, f)
        BY <1>1, <2>4 DEF Places
      <3>. QED  BY <2>2, <2>4, <3>1 DEF After, One
    <2>. QED  BY <2>3, <2>4
  <1>. QED  BY <1>2, <1>3
-----------------------------------------------------------------------------
\* The queue and charon

Ev(p, up) == [peer |-> p, up |-> up]

\* What charon had of p's CHILD_SAs when the event at position k was sent
Owed(p, k) == sas[p] - After(events, k, Ev(p, TRUE)) + After(events, k, Ev(p, FALSE))

\* Events come only to a registered process, and no DOWN without its UP before:
\* wherever one cuts the queue, what is behind leaves a number of CHILD_SAs.
QueueInv ==
    /\ ~registered => events = <<>>
    /\ proc = "down" => ~registered /\ work = NoWork
    /\ proc = "serving" => registered /\ \A p \in Peers : todo[p] = 0
    /\ \A p \in Peers : work = VppHalf(p) => vppOn
    /\ \A p \in Peers, k \in Nat : Owed(p, k) >= 0

\* Every queued element is an event.
LEMMA EvType ==
    /\ \A p \in Peers, up \in BOOLEAN : Ev(p, up) \in Event
    /\ \A p, q : \A b, c \in BOOLEAN : Ev(p, b) = Ev(q, c) <=> p = q /\ b = c
  BY DEF Ev, Event

\* Every event is an UP or a DOWN of one peer.
LEMMA EventIsEv ==
    ASSUME NEW e \in Event
    PROVE  e = Ev(e.peer, e.up) /\ e.up \in BOOLEAN
  BY DEF Event, Ev

\* What is owed is an integer, and behind the queue it is what charon has.
LEMMA OwedType ==
    ASSUME TypeOK, NEW p \in Peers, NEW k \in Nat
    PROVE  Owed(p, k) \in Int /\ (k >= Len(events) => Owed(p, k) = sas[p])
  <1>. DEFINE ups == After(events, k, Ev(p, TRUE))
              downs == After(events, k, Ev(p, FALSE))
  <1>1. events \in Seq(Event) /\ sas[p] \in Nat /\ Len(events) \in Nat
    BY LenProperties DEF TypeOK
  <1>2. /\ ups \in Nat /\ downs \in Nat
        /\ k >= Len(events) => ups = 0 /\ downs = 0
    BY <1>1, AfterType
  <1>3. Owed(p, k) = sas[p] - ups + downs
    BY DEF Owed
  <1>. HIDE DEF ups, downs
  <1>. QED  BY <1>1, <1>2, <1>3

\* Pending counts what is behind position 0.
LEMMA SeenOwed ==
    ASSUME TypeOK, NEW p \in Peers
    PROVE  Seen(p) = Owed(p, 0)
  <1>1. events \in Seq(Event)
    BY DEF TypeOK
  <1>2. DOMAIN events = 1 .. Len(events) /\ Len(events) \in Nat
    BY <1>1, LenProperties
  <1>3. \A up \in BOOLEAN : {i \in DOMAIN events : events[i] = [peer |-> p, up |-> up]}
                               = Places(events, 0, Ev(p, up))
    BY <1>2 DEF Places, Ev
  <1>. QED  BY <1>3 DEF Seen, Pending, Owed, After

\* An event that is sent with its transition changes nothing that is owed.
LEMMA OwedNotify ==
    ASSUME TypeOK, registered, NEW p \in Peers, ChildUp(p) \/ ChildDown(p)
    PROVE  /\ \A q \in Peers, k \in Nat :
                 Owed(q, k)' = IF k <= Len(events) THEN Owed(q, k) ELSE sas'[q]
           /\ \A q \in Peers : sas'[q] \in Nat
  <1>1. /\ events \in Seq(Event) /\ Len(events) \in Nat
        /\ sas \in [Peers -> Nat]
    BY LenProperties DEF TypeOK
  <1>2. PICK up \in BOOLEAN : /\ events' = Append(events, Ev(p, up))
                              /\ sas' = [sas EXCEPT ![p] = IF up THEN @ + 1 ELSE @ - 1]
                              /\ ~up => sas[p] > 0
    BY DEF ChildUp, ChildDown, Notify, Ev
  <1>3. \A q \in Peers : /\ sas'[q] \in Nat
                         /\ sas'[q] = sas[q] + One(up /\ q = p) - One(~up /\ q = p)
    BY <1>1, <1>2 DEF One
  <1>4. ASSUME NEW q \in Peers, NEW k \in Nat
        PROVE  Owed(q, k)' = IF k <= Len(events) THEN Owed(q, k) ELSE sas'[q]
    <2>1. \A b \in BOOLEAN :
             /\ After(events, k, Ev(q, b)) \in Nat
             /\ k >= Len(events) => After(events, k, Ev(q, b)) = 0
             /\ After(events', k, Ev(q, b))
                   = After(events, k, Ev(q, b)) + One(k <= Len(events) /\ p = q /\ up = b)
      <3>. SUFFICES ASSUME NEW b \in BOOLEAN
                    PROVE  /\ After(events, k, Ev(q, b)) \in Nat
                           /\ k >= Len(events) => After(events, k, Ev(q, b)) = 0
                           /\ After(events', k, Ev(q, b)) = After(events, k, Ev(q, b))
                                 + One(k <= Len(events) /\ p = q /\ up = b)
        OBVIOUS
      <3>1. Ev(p, up) \in Event /\ Ev(q, b) \in Event
            /\ (Ev(p, up) = Ev(q, b) <=> p = q /\ up = b)
        BY EvType
      <3>2. After(events', k, Ev(q, b)) = After(events, k, Ev(q, b))
                                 + One(k <= Len(events) /\ Ev(p, up) = Ev(q, b))
        BY <1>1, <1>2, <3>1, AfterAppend
      <3>. QED  BY <1>1, <3>1, <3>2, AfterType DEF One
    <2>. DEFINE ups == After(events, k, Ev(q, TRUE))
                downs == After(events, k, Ev(q, FALSE))
                ups1 == After(events', k, Ev(q, TRUE))
                downs1 == After(events', k, Ev(q, FALSE))
    <2>2. Owed(q, k)' = sas'[q] - ups1 + downs1 /\ Owed(q, k) = sas[q] - ups + downs
      BY DEF Owed, Ev
    <2>3. /\ ups \in Nat /\ downs \in Nat
          /\ k >= Len(events) => ups = 0 /\ downs = 0
          /\ ups1 = ups + One(k <= Len(events) /\ p = q /\ up)
          /\ downs1 = downs + One(k <= Len(events) /\ p = q /\ ~up)
      BY <2>1
    <2>4. sas[q] \in Nat /\ sas'[q] \in Nat
      BY <1>1, <1>3
    <2>. HIDE DEF ups, downs, ups1, downs1
    <2>5. CASE p = q /\ up
      BY <1>1, <1>3, <2>2, <2>3, <2>4, <2>5 DEF One
    <2>6. CASE p = q /\ ~up
      BY <1>1, <1>3, <2>2, <2>3, <2>4, <2>6 DEF One
    <2>7. CASE p # q
      BY <1>1, <1>3, <2>2, <2>3, <2>4, <2>7 DEF One
    <2>. QED  BY <2>5, <2>6, <2>7
  <1>. QED  BY <1>3, <1>4

\* Taking an event moves the cut by one, and settles what is owed for its site.
LEMMA OwedTake ==
    ASSUME TypeOK, events # <<>>, events' = Tail(events), UNCHANGED sas, NEW q \in Peers
    PROVE  /\ \A k \in Nat : Owed(q, k)' = Owed(q, k + 1)
           /\ Owed(q, 0)' = Owed(q, 0) + One(Head(events) = Ev(q, TRUE))
                                       - One(Head(events) = Ev(q, FALSE))
  <1>1. events \in Seq(Event) /\ sas[q] \in Nat
    BY DEF TypeOK
  <1>2. Ev(q, TRUE) \in Event /\ Ev(q, FALSE) \in Event
    BY EvType
  <1>3. ASSUME NEW k \in Nat
        PROVE  Owed(q, k)' = Owed(q, k + 1)
    <2>1. /\ After(events', k, Ev(q, TRUE)) = After(events, k + 1, Ev(q, TRUE))
          /\ After(events', k, Ev(q, FALSE)) = After(events, k + 1, Ev(q, FALSE))
      BY <1>1, <1>2, AfterTail
    <2>. QED  BY <2>1 DEF Owed, Ev
  <1>. DEFINE ups == After(events, 1, Ev(q, TRUE))
              downs == After(events, 1, Ev(q, FALSE))
              up == One(Head(events) = Ev(q, TRUE))
              down == One(Head(events) = Ev(q, FALSE))
  <1>4. ups \in Nat /\ downs \in Nat /\ up \in Nat /\ down \in Nat
    BY <1>1, AfterType DEF One
  <1>5. /\ After(events, 0, Ev(q, TRUE)) = ups + up
        /\ After(events, 0, Ev(q, FALSE)) = downs + down
    BY <1>1, <1>2, AfterTail
  <1>6. Owed(q, 0) = sas[q] - (ups + up) + (downs + down) /\ Owed(q, 1) = sas[q] - ups + downs
    BY <1>5 DEF Owed
  <1>7. Owed(q, 0)' = Owed(q, 0 + 1)
    BY <1>3
  <1>. HIDE DEF ups, downs, up, down
  <1>8. Owed(q, 0)' = Owed(q, 0) + up - down
    BY <1>1, <1>4, <1>6, <1>7
  <1>. QED  BY <1>3, <1>8 DEF up, down

\* Where neither charon nor the queue changes, nothing owed does.
LEMMA OwedSame ==
    UNCHANGED <<sas, events>> => \A q \in Peers, k \in Nat : Owed(q, k)' = Owed(q, k)
  BY DEF Owed, Ev

\* The halves of a handler, and having none to run, are told apart.
LEMMA HalvesDiffer ==
    \A p, q : /\ VppHalf(p) # NoWork /\ NatHalf(p) # NoWork /\ VppHalf(p) # NatHalf(q)
              /\ VppHalf(p) = VppHalf(q) => p = q
              /\ NatHalf(p) = NatHalf(q) => p = q
  BY DEF VppHalf, NatHalf, NoWork

\* With an empty queue charon has what is owed.
LEMMA OwedEmpty ==
    ASSUME TypeOK', events' = <<>>, NEW q \in Peers, NEW k \in Nat
    PROVE  Owed(q, k)' = sas'[q] /\ sas'[q] \in Nat
  <1>. DEFINE ups == After(events', k, Ev(q, TRUE))
              downs == After(events', k, Ev(q, FALSE))
  <1>1. sas'[q] \in Nat /\ events' \in Seq(Event) /\ Len(events') = 0
    BY EmptySeq DEF TypeOK
  <1>2. k >= Len(events')
    BY <1>1
  <1>3. ups = 0 /\ downs = 0
    BY <1>1, <1>2, AfterType
  <1>4. Owed(q, k)' = sas'[q] - ups + downs
    BY DEF Owed, Ev
  <1>. HIDE DEF ups, downs
  <1>. QED  BY <1>1, <1>3, <1>4

\* An empty queue promises nothing.
LEMMA QueueInit == TypeOK /\ Init => QueueInv
  <1> SUFFICES ASSUME TypeOK, Init, NEW p \in Peers, NEW k \in Nat
               PROVE  work # VppHalf(p) /\ Owed(p, k) >= 0
    BY DEF Init, QueueInv
  <1>1. Len(events) = 0 /\ sas[p] = 0 /\ work # VppHalf(p)
    BY EmptySeq, HalvesDiffer DEF Init
  <1>. QED  BY <1>1, OwedType

\* The queue stays consistent in every step, faults or not.
LEMMA QueueNext ==
    ASSUME TypeOK, QueueInv, [Next]_vars
    PROVE  QueueInv'
  <1>0. TypeOK'
    BY NextType
  <1>1. CASE Start
    <2>1. UNCHANGED <<sas, events, work>> /\ events = <<>> /\ work = NoWork /\ proc' = "starting"
      BY <1>1 DEF Start, QueueInv, envVars
    <2>. QED  BY <2>1, OwedSame, HalvesDiffer DEF QueueInv
  <1>2. CASE ListSas \/ FinishUp
    <2>1. /\ UNCHANGED <<sas, events, registered, vppOn>> /\ proc' # "down"
          /\ work' = work \/ work' = NoWork
          /\ proc' = "serving" => UNCHANGED <<proc, todo>>
      BY <1>2 DEF ListSas, FinishUp, envVars, linkVars, vppVars
    <2>. QED  BY <2>1, OwedSame, HalvesDiffer DEF QueueInv
  <1>3. CASE \E p \in Peers : ReplayPeer(p)
    <2>1. /\ UNCHANGED <<sas, events, registered, vppOn, proc>> /\ proc = "replaying"
          /\ \E p \in Peers : work' = IF vppOn THEN VppHalf(p) ELSE NoWork
      BY <1>3 DEF ReplayPeer, envVars, linkVars, vppVars
    <2>. QED  BY <2>1, OwedSame, HalvesDiffer DEF QueueInv
  <1>4. CASE Reconcile
    <2>1. /\ UNCHANGED <<sas, events, todo, work, vppOn>> /\ registered' /\ proc' = "serving"
          /\ \A p \in Peers : todo[p] = 0
      BY <1>4 DEF Reconcile, envVars, vppVars
    <2>. QED  BY <2>1, OwedSame DEF QueueInv
  <1>5. CASE Crash
    <2>1. proc' = "down" /\ registered' = FALSE /\ events' = <<>> /\ work' = NoWork
      BY <1>5 DEF Crash
    <2>. QED  BY <1>0, <2>1, OwedEmpty, HalvesDiffer DEF QueueInv
  <1>6. CASE HandleUp \/ HandleDown
    <2>1. /\ events # <<>> /\ events' = Tail(events) /\ UNCHANGED <<sas, registered, todo, vppOn, proc>>
          /\ proc = "serving"
          /\ \E p : work' = NatHalf(p) \/ work' = IF vppOn THEN VppHalf(p) ELSE NoWork
      BY <1>6 DEF HandleUp, HandleDown, envVars, vppVars
    <2>2. ASSUME NEW q \in Peers, NEW k \in Nat
          PROVE  k + 1 \in Nat /\ Owed(q, k)' = Owed(q, k + 1)
      <3>1. events # <<>> /\ events' = Tail(events) /\ UNCHANGED sas
        BY <2>1
      <3>2. \A j \in Nat : Owed(q, j)' = Owed(q, j + 1)
        BY <3>1, OwedTake
      <3>. QED  BY <3>2
    <2>. QED  BY <2>1, <2>2, HalvesDiffer DEF QueueInv
  <1>7. CASE FinishDown
    <2>1. UNCHANGED <<sas, events, registered, todo, proc, vppOn>> /\ work' = NoWork /\ proc = "serving"
      BY <1>7 DEF FinishDown, envVars, linkVars, vppVars
    <2>. QED  BY <2>1, OwedSame, HalvesDiffer DEF QueueInv
  <1>8. ASSUME NEW p \in Peers, ChildUp(p) \/ ChildDown(p)
        PROVE  QueueInv'
    <2>1. UNCHANGED <<registered, proc, todo, work, vppOn>>
      BY <1>8 DEF ChildUp, ChildDown, ctlVars, vppVars
    <2>2. CASE registered
      <3>1. \A q \in Peers, k \in Nat : Owed(q, k)' = Owed(q, k) \/ Owed(q, k)' \in Nat
        BY <1>8, <2>2, OwedNotify
      <3>. QED  BY <2>1, <2>2, <3>1 DEF QueueInv
    <2>3. CASE ~registered
      <3>1. events' = <<>>
        BY <1>8, <2>3 DEF ChildUp, ChildDown, Notify, QueueInv
      <3>2. \A q \in Peers, k \in Nat : Owed(q, k)' \in Nat
        BY <1>0, <3>1, OwedEmpty
      <3>. QED  BY <2>1, <3>1, <3>2 DEF QueueInv
    <2>. QED  BY <2>2, <2>3
  <1>9. CASE (\E p \in Peers : WriteRecord(p)) \/ UNCHANGED vars
    <2>1. UNCHANGED <<sas, events, registered, proc, todo, work, vppOn>>
      BY <1>9 DEF WriteRecord, vars, envVars, linkVars, ctlVars, vppVars
    <2>. QED  BY <2>1, OwedSame DEF QueueInv
  <1>. QED  BY <1>1, <1>2, <1>3, <1>4, <1>5, <1>6, <1>7, <1>8, <1>9 DEF Next, TaskStep

-----------------------------------------------------------------------------
\* Refcounts follow charon once faults have ended

\* The CHILD_SAs of p that the task has been told of, replayed or by event
Told(p) == Owed(p, 0) - todo[p]

\* A half that is still to run has not counted yet.
NatCount(p) ==
    routeCache[p].child_sa_count =
        IF natRec[p].device_nat = {} THEN 0 ELSE Told(p) + One(work = NatHalf(p))
VppCount(p) ==
    vppOn => vrfCache[p].child_sa_count =
        IF natRec[p] = NoRecord THEN 0 ELSE Told(p) - One(work = VppHalf(p))

CountInv ==
    Repaired =>
    /\ proc = "starting" =>
          /\ work = NoWork /\ events = <<>>
          /\ \A p \in Peers : /\ routeCache[p].child_sa_count = 0
                              /\ vrfCache[p].child_sa_count = 0
    /\ proc \in {"replaying", "serving"} =>
          \A p \in Peers : NatCount(p) /\ VppCount(p)

\* What the task has been told is a whole number.
LEMMA ToldType ==
    ASSUME TypeOK, NEW p \in Peers
    PROVE  /\ Told(p) \in Int
           /\ routeCache[p].child_sa_count \in Nat /\ vrfCache[p].child_sa_count \in Nat
  <1>1. Owed(p, 0) \in Int
    BY OwedType
  <1>2. todo[p] \in Nat /\ routeCache[p] \in PeerRouteState /\ vrfCache[p] \in SiteVrfState
    BY DEF TypeOK
  <1>. QED  BY <1>1, <1>2 DEF Told, PeerRouteState, SiteVrfState

\* The halves without faults, in terms of what the record says
LEMMA NatUpClean ==
    ASSUME TypeOK, Repaired, NEW p \in Peers, NatUp(p)
    PROVE  \/ /\ routeCache[p].child_sa_count > 0
              /\ routeCache' = [routeCache EXCEPT ![p].child_sa_count = @ + 1]
              /\ UNCHANGED routes
           \/ /\ routeCache[p].child_sa_count = 0
              /\ routes' = Routed(natRec[p].device_nat, Blackhole)
              /\ routeCache' = IF natRec[p].device_nat = {} THEN routeCache
                               ELSE [routeCache EXCEPT ![p] = [global_ips |-> natRec[p].device_nat,
                                                               child_sa_count |-> 1]]
  <1>1. routeCache[p].child_sa_count \in Nat
    BY ToldType
  <1>2. CASE routeCache[p].child_sa_count > 0
    BY <1>2 DEF NatUp
  <1>3. CASE ~(routeCache[p].child_sa_count > 0)
    <2>1. PICK rec \in {natRec[p]} : \E installed \in {rec.device_nat} :
             /\ routes' = Routed(installed, Blackhole)
             /\ \E added \in Survivors("active", installed) :
                   activeGlobals' = activeGlobals \cup added
             /\ routeCache' = IF installed = {} THEN routeCache
                              ELSE [routeCache EXCEPT ![p] = [global_ips |-> installed,
                                                              child_sa_count |-> 1]]
      BY <1>3, NoFaultsLeft DEF NatUp
    <2>2. /\ routes' = Routed(natRec[p].device_nat, Blackhole)
          /\ routeCache' = IF natRec[p].device_nat = {} THEN routeCache
                           ELSE [routeCache EXCEPT ![p] = [global_ips |-> natRec[p].device_nat,
                                                           child_sa_count |-> 1]]
      BY <2>1
    <2>3. routeCache[p].child_sa_count = 0
      BY <1>1, <1>3
    <2>. QED  BY <2>2, <2>3
  <1>. QED  BY <1>2, <1>3

\* The nat half of a DOWN without faults
LEMMA NatDownClean ==
    ASSUME TypeOK, Repaired, NEW p \in Peers, NatDown(p)
    PROVE  \/ /\ routeCache[p].child_sa_count = 0
              /\ UNCHANGED <<routeCache, routes>>
           \/ /\ routeCache[p].child_sa_count > 1
              /\ routeCache' = [routeCache EXCEPT ![p].child_sa_count = @ - 1]
              /\ UNCHANGED routes
           \/ /\ routeCache[p].child_sa_count = 1
              /\ routes' = Routed(routeCache[p].global_ips, NoRoute)
              /\ routeCache' = [routeCache EXCEPT ![p] = NoPeerRoutes]
  BY NoFaultsLeft DEF NatDown

\* The VPP half of an UP without faults
LEMMA VppUpClean ==
    ASSUME TypeOK, Repaired, NEW p \in Peers, VppUp(p)
    PROVE  \/ /\ vrfCache[p].child_sa_count > 0
              /\ vrfCache' = [vrfCache EXCEPT ![p].child_sa_count = @ + 1]
              /\ UNCHANGED <<alloc, routes>>
           \/ /\ natRec[p] = NoRecord /\ UNCHANGED <<vrfCache, alloc, routes>>
           \/ /\ vrfCache[p].child_sa_count = 0 /\ natRec[p].nat_mode = "customer"
              /\ SiteUp(p, Xfrm(p), natRec[p].device_nat, TRUE, 0)
              /\ UNCHANGED alloc
           \/ /\ vrfCache[p].child_sa_count = 0 /\ natRec[p].nat_mode = "backend"
              /\ SiteUp(p, Outer, natRec[p].device_nat, FALSE, AllocId(alloc))
              /\ alloc' = AfterAlloc(alloc)
  <1>1. vrfCache[p].child_sa_count \in Nat /\ natRec[p] \in NatRecords \cup {NoRecord}
    BY ToldType DEF TypeOK
  <1>2. natRec[p].nat_mode = "none" => natRec[p] = NoRecord
    BY <1>1 DEF NatRecords
  <1>3. CASE vrfCache[p].child_sa_count > 0
    BY <1>3 DEF VppUp
  <1>4. CASE ~(vrfCache[p].child_sa_count > 0)
    <2>1. PICK rec \in {natRec[p]} : \E devs \in {rec.device_nat} :
             \/ rec.nat_mode = "none" /\ UNCHANGED <<vrfCache, alloc, routes>>
             \/ rec.nat_mode = "customer" /\ setup_site_bypass(p, devs)
             \/ rec.nat_mode = "backend" /\ setup_site_vrf(p, devs)
      BY <1>4, NoFaultsLeft DEF VppUp
    <2>2. \/ natRec[p].nat_mode = "none" /\ UNCHANGED <<vrfCache, alloc, routes>>
          \/ natRec[p].nat_mode = "customer" /\ setup_site_bypass(p, natRec[p].device_nat)
          \/ natRec[p].nat_mode = "backend" /\ setup_site_vrf(p, natRec[p].device_nat)
      BY <2>1
    <2>3. vrfCache[p].child_sa_count = 0 /\ ~May("setup")
      BY <1>1, <1>4, NoFaultsLeft
    <2>. QED  BY <1>2, <2>2, <2>3 DEF setup_site_bypass, setup_site_vrf
  <1>. QED  BY <1>3, <1>4

\* The VPP half of a DOWN without faults
LEMMA VppDownClean ==
    ASSUME TypeOK, Repaired, NEW p \in Peers, VppDown(p)
    PROVE  \/ /\ vrfCache[p].child_sa_count = 0
              /\ UNCHANGED <<vrfCache, alloc, routes>>
           \/ /\ vrfCache[p].child_sa_count > 1
              /\ vrfCache' = [vrfCache EXCEPT ![p].child_sa_count = @ - 1]
              /\ UNCHANGED <<alloc, routes>>
           \/ /\ vrfCache[p].child_sa_count = 1
              /\ vrfCache' = [vrfCache EXCEPT ![p] = NoSite]
              /\ routes' = Routed(vrfCache[p].devices, Blackhole)
              /\ alloc' = IF vrfCache[p].bypass THEN alloc
                          ELSE AfterFree(alloc, vrfCache[p].ids)
  BY NoFaultsLeft DEF VppDown, teardown_site_bypass, teardown_site_vrf

\* A site is up on more CHILD_SAs, or on fewer: what the halves make of a count
LEMMA NatUpCount ==
    ASSUME TypeOK, Repaired, NEW p \in Peers, NatUp(p)
    PROVE  /\ routeCache'[p].child_sa_count =
                 IF routeCache[p].child_sa_count = 0 /\ natRec[p].device_nat = {} THEN 0
                 ELSE routeCache[p].child_sa_count + 1
           /\ \A q \in Peers \ {p} : routeCache'[q] = routeCache[q]
  <1>1. routeCache \in [Peers -> PeerRouteState] /\ routeCache[p] \in PeerRouteState
        /\ routeCache[p].child_sa_count \in Nat
    BY ToldType DEF TypeOK
  <1>2. CASE routeCache[p].child_sa_count > 0
    BY <1>1, <1>2, NatUpClean DEF PeerRouteState
  <1>3. CASE routeCache[p].child_sa_count = 0
    BY <1>1, <1>3, NatUpClean
  <1>. QED  BY <1>1, <1>2, <1>3

\* A clean nat half of a DOWN takes one from the route count.
LEMMA NatDownCount ==
    ASSUME TypeOK, Repaired, NEW p \in Peers, NatDown(p)
    PROVE  /\ routeCache'[p].child_sa_count =
                 IF routeCache[p].child_sa_count = 0 THEN 0 ELSE routeCache[p].child_sa_count - 1
           /\ \A q \in Peers \ {p} : routeCache'[q] = routeCache[q]
  <1>1. routeCache \in [Peers -> PeerRouteState] /\ routeCache[p] \in PeerRouteState
        /\ routeCache[p].child_sa_count \in Nat
    BY ToldType DEF TypeOK
  <1>2. CASE routeCache[p].child_sa_count > 1
    BY <1>1, <1>2, NatDownClean DEF PeerRouteState
  <1>3. CASE routeCache[p].child_sa_count \in {0, 1}
    BY <1>1, <1>3, NatDownClean DEF NoPeerRoutes
  <1>. QED  BY <1>1, <1>2, <1>3

\* A clean VPP half of an UP adds one to the site count.
LEMMA VppUpCount ==
    ASSUME TypeOK, Repaired, NEW p \in Peers, VppUp(p),
           natRec[p] = NoRecord => vrfCache[p].child_sa_count = 0
    PROVE  /\ vrfCache'[p].child_sa_count =
                 IF natRec[p] = NoRecord THEN 0 ELSE vrfCache[p].child_sa_count + 1
           /\ \A q \in Peers \ {p} : vrfCache'[q] = vrfCache[q]
  <1>1. vrfCache \in [Peers -> SiteVrfState] /\ vrfCache[p] \in SiteVrfState
        /\ vrfCache[p].child_sa_count \in Nat
    BY ToldType DEF TypeOK
  <1>2. CASE /\ vrfCache' = [vrfCache EXCEPT ![p].child_sa_count = @ + 1]
             /\ vrfCache[p].child_sa_count > 0
    BY <1>1, <1>2 DEF SiteVrfState
  <1>3. CASE natRec[p] = NoRecord /\ UNCHANGED vrfCache
    BY <1>3
  <1>4. CASE /\ vrfCache[p].child_sa_count = 0 /\ natRec[p].nat_mode # "none"
             /\ \E via, bypass, ids : SiteUp(p, via, natRec[p].device_nat, bypass, ids)
    BY <1>1, <1>4 DEF SiteUp, NoRecord
  <1>. QED  BY <1>1, <1>2, <1>3, <1>4, VppUpClean

\* A clean VPP half of a DOWN takes one from the site count.
LEMMA VppDownCount ==
    ASSUME TypeOK, Repaired, NEW p \in Peers, VppDown(p)
    PROVE  /\ vrfCache'[p].child_sa_count =
                 IF vrfCache[p].child_sa_count = 0 THEN 0 ELSE vrfCache[p].child_sa_count - 1
           /\ \A q \in Peers \ {p} : vrfCache'[q] = vrfCache[q]
  <1>1. vrfCache \in [Peers -> SiteVrfState] /\ vrfCache[p] \in SiteVrfState
        /\ vrfCache[p].child_sa_count \in Nat
    BY ToldType DEF TypeOK
  <1>2. CASE vrfCache[p].child_sa_count > 1
    BY <1>1, <1>2, VppDownClean DEF SiteVrfState
  <1>3. CASE vrfCache[p].child_sa_count \in {0, 1}
    BY <1>1, <1>3, VppDownClean DEF NoSite
  <1>. QED  BY <1>1, <1>2, <1>3

\* An UP, replayed or delivered: the nat half counts now, the vpp half later.
LEMMA CountUp ==
    ASSUME TypeOK, Repaired, NEW p \in Peers, NatUp(p), work = NoWork,
           work' = IF vppOn THEN VppHalf(p) ELSE NoWork, UNCHANGED <<natRec, vppOn, vrfCache>>,
           \A q \in Peers : NatCount(q) /\ VppCount(q),
           \A q \in Peers : Told(q)' = Told(q) + One(q = p)
    PROVE  \A q \in Peers : NatCount(q)' /\ VppCount(q)'
  <1>. SUFFICES ASSUME NEW q \in Peers PROVE NatCount(q)' /\ VppCount(q)'
    OBVIOUS
  <1>1. /\ Told(q) \in Int /\ Told(q)' = Told(q) + One(q = p)
        /\ NatCount(q) /\ VppCount(q)
    BY ToldType
  <1>2. work # NatHalf(q) /\ work # VppHalf(q) /\ work' # NatHalf(q)
        /\ (work' = VppHalf(q) <=> vppOn /\ q = p)
    BY HalvesDiffer
  <1>3. NatCount(q)'
    <2>1. routeCache[q].child_sa_count = IF natRec[q].device_nat = {} THEN 0 ELSE Told(q)
      BY <1>1, <1>2 DEF NatCount, One
    <2>2. routeCache'[q].child_sa_count =
             IF q # p THEN routeCache[q].child_sa_count
             ELSE IF routeCache[q].child_sa_count = 0 /\ natRec[q].device_nat = {} THEN 0
             ELSE routeCache[q].child_sa_count + 1
      BY NatUpCount
    <2>3. routeCache'[q].child_sa_count = IF natRec[q].device_nat = {} THEN 0
                                          ELSE Told(q) + One(q = p)
      BY <1>1, <2>1, <2>2 DEF One
    <2>. QED  BY <1>1, <1>2, <2>3 DEF NatCount, One, NatHalf
  <1>4. VppCount(q)'
    <2>1. vppOn => vrfCache[q].child_sa_count = IF natRec[q] = NoRecord THEN 0 ELSE Told(q)
      BY <1>1, <1>2 DEF VppCount, One
    <2>2. vppOn => Told(q) = Told(q)' - One(work' = VppHalf(q))
      BY <1>1, <1>2 DEF One
    <2>. QED  BY <2>1, <2>2 DEF VppCount, VppHalf
  <1>. QED  BY <1>3, <1>4

\* The vpp half catches up.
LEMMA CountFinishUp ==
    ASSUME TypeOK, Repaired, NEW p \in Peers, VppUp(p), work = VppHalf(p), work' = NoWork,
           vppOn, UNCHANGED <<natRec, vppOn, routeCache>>,
           \A q \in Peers : NatCount(q) /\ VppCount(q),
           \A q \in Peers : Told(q)' = Told(q)
    PROVE  \A q \in Peers : NatCount(q)' /\ VppCount(q)'
  <1>. SUFFICES ASSUME NEW q \in Peers PROVE NatCount(q)' /\ VppCount(q)'
    OBVIOUS
  <1>1. /\ Told(q) \in Int /\ Told(q)' = Told(q)
        /\ NatCount(q) /\ VppCount(q) /\ VppCount(p)
    BY ToldType
  <1>2. /\ work # NatHalf(q) /\ work' # NatHalf(q) /\ work' # VppHalf(q)
        /\ (work = VppHalf(q) <=> q = p)
    BY HalvesDiffer
  <1>3. NatCount(q)'
    BY <1>1, <1>2 DEF NatCount, One, NatHalf
  <1>4. VppCount(q)'
    <2>1. vrfCache[q].child_sa_count = IF natRec[q] = NoRecord THEN 0 ELSE Told(q) - One(q = p)
      BY <1>1, <1>2 DEF VppCount, One
    <2>2. natRec[p] = NoRecord => vrfCache[p].child_sa_count = 0
      BY <1>1 DEF VppCount
    <2>3. vrfCache'[q].child_sa_count =
             IF q # p THEN vrfCache[q].child_sa_count
             ELSE IF natRec[q] = NoRecord THEN 0 ELSE vrfCache[q].child_sa_count + 1
      BY <2>2, VppUpCount
    <2>4. vrfCache'[q].child_sa_count = IF natRec[q] = NoRecord THEN 0 ELSE Told(q)
      BY <1>1, <2>1, <2>3 DEF One
    <2>. QED  BY <1>1, <1>2, <2>4 DEF VppCount, VppHalf, One
  <1>. QED  BY <1>3, <1>4

\* A DOWN: the vpp half counts now, the nat half later.
LEMMA CountDown ==
    ASSUME TypeOK, Repaired, NEW p \in Peers, IF vppOn THEN VppDown(p) ELSE UNCHANGED vrfCache,
           work = NoWork, work' = NatHalf(p), UNCHANGED <<natRec, vppOn, routeCache>>,
           \A q \in Peers : NatCount(q) /\ VppCount(q),
           \A q \in Peers : Told(q)' = Told(q) - One(q = p),
           Told(p)' >= 0
    PROVE  \A q \in Peers : NatCount(q)' /\ VppCount(q)'
  <1>. SUFFICES ASSUME NEW q \in Peers PROVE NatCount(q)' /\ VppCount(q)'
    OBVIOUS
  <1>1. /\ Told(q) \in Int /\ Told(q)' = Told(q) - One(q = p)
        /\ NatCount(q) /\ VppCount(q)
    BY ToldType
  <1>2. work # NatHalf(q) /\ work # VppHalf(q) /\ work' # VppHalf(q)
        /\ (work' = NatHalf(q) <=> q = p)
    BY HalvesDiffer
  <1>3. NatCount(q)'
    <2>1. routeCache[q].child_sa_count = IF natRec[q].device_nat = {} THEN 0 ELSE Told(q)
      BY <1>1, <1>2 DEF NatCount, One
    <2>2. Told(q) = Told(q)' + One(work' = NatHalf(q))
      BY <1>1, <1>2 DEF One
    <2>. QED  BY <2>1, <2>2 DEF NatCount, NatHalf
  <1>4. ASSUME vppOn PROVE VppCount(q)'
    <2>1. vrfCache[q].child_sa_count = IF natRec[q] = NoRecord THEN 0 ELSE Told(q)
      BY <1>1, <1>2, <1>4 DEF VppCount, One
    <2>2. vrfCache'[q].child_sa_count =
             IF q # p \/ vrfCache[q].child_sa_count = 0 THEN vrfCache[q].child_sa_count
             ELSE vrfCache[q].child_sa_count - 1
      BY <1>4, VppDownCount
    <2>3. vrfCache'[q].child_sa_count = IF natRec[q] = NoRecord THEN 0 ELSE Told(q)'
      BY <1>1, <2>1, <2>2 DEF One
    <2>. QED  BY <1>1, <1>2, <2>3 DEF VppCount, VppHalf, One
  <1>. QED  BY <1>3, <1>4 DEF VppCount

\* The nat half catches up.
LEMMA CountFinishDown ==
    ASSUME TypeOK, Repaired, NEW p \in Peers, NatDown(p), work = NatHalf(p), work' = NoWork,
           UNCHANGED <<natRec, vppOn, vrfCache>>,
           \A q \in Peers : NatCount(q) /\ VppCount(q),
           \A q \in Peers : Told(q)' = Told(q), Told(p) >= 0
    PROVE  \A q \in Peers : NatCount(q)' /\ VppCount(q)'
  <1>. SUFFICES ASSUME NEW q \in Peers PROVE NatCount(q)' /\ VppCount(q)'
    OBVIOUS
  <1>1. /\ Told(q) \in Int /\ Told(q)' = Told(q)
        /\ NatCount(q) /\ VppCount(q)
    BY ToldType
  <1>2. /\ work # VppHalf(q) /\ work' # NatHalf(q) /\ work' # VppHalf(q)
        /\ (work = NatHalf(q) <=> q = p)
    BY HalvesDiffer
  <1>3. VppCount(q)'
    BY <1>1, <1>2 DEF VppCount, One, VppHalf
  <1>4. NatCount(q)'
    <2>1. routeCache[q].child_sa_count =
             IF natRec[q].device_nat = {} THEN 0 ELSE Told(q) + One(q = p)
      BY <1>1, <1>2 DEF NatCount, One
    <2>2. routeCache'[q].child_sa_count =
             IF q # p \/ routeCache[q].child_sa_count = 0 THEN routeCache[q].child_sa_count
             ELSE routeCache[q].child_sa_count - 1
      BY NatDownCount
    <2>3. routeCache'[q].child_sa_count = IF natRec[q].device_nat = {} THEN 0 ELSE Told(q)
      BY <1>1, <2>1, <2>2 DEF One
    <2>. QED  BY <1>1, <1>2, <2>3 DEF NatCount, NatHalf, One
  <1>. QED  BY <1>3, <1>4

\* Steps that leave the caches, the tunnels and the queue alone keep the counts.
LEMMA CountSame ==
    ASSUME UNCHANGED <<natRec, routeCache, vrfCache, work, vppOn>>,
           \A q \in Peers : Told(q)' = Told(q),
           \A q \in Peers : NatCount(q) /\ VppCount(q)
    PROVE  \A q \in Peers : NatCount(q)' /\ VppCount(q)'
  BY DEF NatCount, VppCount, NatHalf, VppHalf

\* The task has been told of no CHILD_SA of a site without a tunnel anywhere.
LEMMA IdleTold ==
    ASSUME TypeOK, NEW p \in Peers, Idle(p)
    PROVE  Told(p) = 0
  <1>1. /\ events \in Seq(Event) /\ DOMAIN events = 1 .. Len(events)
        /\ sas[p] = 0 /\ todo[p] = 0
    BY LenProperties DEF Idle, TypeOK
  <1>2. Places(events, 0, Ev(p, TRUE)) = {} /\ Places(events, 0, Ev(p, FALSE)) = {}
    BY <1>1 DEF Idle, Places, Ev
  <1>3. After(events, 0, Ev(p, TRUE)) = 0 /\ After(events, 0, Ev(p, FALSE)) = 0
    BY <1>2, FS_EmptySet DEF After
  <1>4. Owed(p, 0) = 0
    <2>. DEFINE ups == After(events, 0, Ev(p, TRUE))
                downs == After(events, 0, Ev(p, FALSE))
    <2>1. Owed(p, 0) = sas[p] - ups + downs /\ ups = 0 /\ downs = 0
      BY <1>3 DEF Owed
    <2>. HIDE DEF ups, downs
    <2>. QED  BY <1>1, <2>1
  <1>. QED  BY <1>1, <1>4 DEF Told

\* The caches know nothing of an idle peer.
LEMMA IdleCounts ==
    ASSUME TypeOK, CountInv, Repaired, proc \in {"replaying", "serving"}, NEW p \in Peers, Idle(p)
    PROVE  routeCache[p].child_sa_count = 0 /\ (vppOn => vrfCache[p].child_sa_count = 0)
  <1>1. Told(p) = 0 /\ work # NatHalf(p) /\ work # VppHalf(p)
    BY IdleTold DEF Idle
  <1>2. NatCount(p) /\ VppCount(p)
    BY DEF CountInv
  <1>. QED  BY <1>1, <1>2 DEF NatCount, VppCount, One

\* Counting goes on rightly in every step.
LEMMA CountNext ==
    ASSUME TypeOK, QueueInv, CountInv, [Next]_vars
    PROVE  CountInv'
  <1>0. TypeOK' /\ QueueInv'
    BY NextType, QueueNext
  <1>. DEFINE Counts == \A q \in Peers : NatCount(q) /\ VppCount(q)
  <1>1. CASE Crash
    BY <1>1 DEF Crash, CountInv
  <1>2. CASE Start
    <2>1. /\ work' = NoWork /\ events' = <<>> /\ proc' = "starting"
          /\ routeCache' = [p \in Peers |-> NoPeerRoutes]
          /\ vrfCache' = [p \in Peers |-> NoSite]
      BY <1>2 DEF Start, QueueInv
    <2>. QED  BY <2>1 DEF CountInv, NoPeerRoutes, NoSite
  <1>3. ASSUME Repaired, UNCHANGED restarts, ~Start
        PROVE  CountInv'
    <2>. SUFFICES \/ proc' \in {"replaying", "serving"} /\ Counts'
                  \/ UNCHANGED proc /\ proc = "down"
                  \/ UNCHANGED <<proc, work, events, routeCache, vrfCache>> /\ proc = "starting"
      BY <1>3 DEF CountInv, Repaired
    <2>1. CASE ListSas
      <3>1. /\ proc = "starting" /\ work = NoWork /\ events = <<>> /\ proc' = "replaying"
            /\ UNCHANGED <<sas, events, work, natRec, routeCache, vrfCache, vppOn>>
            /\ todo' = sas
        BY <1>3, <2>1, NoFaultsLeft DEF ListSas, CountInv, envVars, linkVars, vppVars, natVars
      <3>2. ASSUME NEW q \in Peers
            PROVE  NatCount(q)' /\ VppCount(q)'
        <4>1. Owed(q, 0)' = sas'[q] /\ sas'[q] \in Nat
          BY <1>0, <3>1, OwedEmpty
        <4>2. Told(q)' = 0
          BY <3>1, <4>1 DEF Told
        <4>3. routeCache'[q].child_sa_count = 0 /\ vrfCache'[q].child_sa_count = 0
          BY <1>3, <3>1 DEF CountInv
        <4>4. work' # NatHalf(q) /\ work' # VppHalf(q)
          BY <3>1, HalvesDiffer
        <4>5. One(work' = NatHalf(q)) = 0 /\ One(work' = VppHalf(q)) = 0
          BY <4>4 DEF One
        <4>6. NatCount(q)'
          BY <4>2, <4>3, <4>5 DEF NatCount, NatHalf
        <4>7. VppCount(q)'
          BY <4>2, <4>3, <4>5 DEF VppCount, VppHalf
        <4>. QED  BY <4>6, <4>7
      <3>. QED  BY <3>1, <3>2
    <2>2. ASSUME NEW p \in Peers, ReplayPeer(p)
          PROVE  proc' \in {"replaying", "serving"} /\ Counts'
      <3>1. /\ proc = "replaying" /\ proc' = "replaying" /\ work = NoWork /\ NatUp(p)
            /\ work' = IF vppOn THEN VppHalf(p) ELSE NoWork
            /\ UNCHANGED <<natRec, vppOn, vrfCache>> /\ UNCHANGED <<sas, events>>
            /\ todo' = [todo EXCEPT ![p] = @ - 1]
        BY <2>2 DEF ReplayPeer, envVars, linkVars, vppVars
      <3>2. ASSUME NEW q \in Peers
            PROVE  Told(q)' = Told(q) + One(q = p)
        <4>1. Owed(q, 0)' = Owed(q, 0) /\ Owed(q, 0) \in Int
          BY <3>1, OwedSame, OwedType
        <4>2. todo[q] \in Nat /\ todo'[q] = todo[q] - One(q = p)
          BY <3>1 DEF TypeOK, One
        <4>. QED  BY <4>1, <4>2 DEF Told, One
      <3>3. Counts
        BY <1>3, <3>1 DEF CountInv
      <3>. QED  BY <1>3, <3>1, <3>2, <3>3, CountUp
    <2>3. CASE HandleUp
      <3>1. PICK p \in Peers : p = Head(events).peer
        BY <2>3, QueueType DEF HandleUp
      <3>2. /\ proc = "serving" /\ proc' = "serving" /\ work = NoWork /\ NatUp(p)
            /\ work' = IF vppOn THEN VppHalf(p) ELSE NoWork
            /\ UNCHANGED <<natRec, vppOn, vrfCache>> /\ UNCHANGED sas /\ UNCHANGED todo
            /\ events # <<>> /\ events' = Tail(events) /\ Head(events).up
        BY <2>3, <3>1 DEF HandleUp, envVars, vppVars
      <3>3. Head(events) = Ev(p, TRUE)
        <4>1. Head(events) \in Event
          BY <3>2, HeadTailProperties DEF TypeOK
        <4>. QED  BY <3>1, <3>2, <4>1, EventIsEv
      <3>4. ASSUME NEW q \in Peers
            PROVE  Told(q)' = Told(q) + One(q = p)
        <4>1. Owed(q, 0)' = Owed(q, 0) + One(q = p)
          <5>1. (Head(events) = Ev(q, TRUE) <=> q = p) /\ Head(events) # Ev(q, FALSE)
            BY <3>3, EvType
          <5>2. Owed(q, 0)' = Owed(q, 0) + One(q = p) - 0
            BY <3>2, <5>1, OwedTake DEF One
          <5>. QED  BY <5>2, OwedType DEF One
        <4>2. todo[q] \in Nat /\ todo'[q] = todo[q] /\ Owed(q, 0) \in Int
          BY <3>2, OwedType DEF TypeOK
        <4>. QED  BY <4>1, <4>2 DEF Told, One
      <3>5. Counts
        BY <1>3, <3>2 DEF CountInv
      <3>. QED  BY <1>3, <3>2, <3>4, <3>5, CountUp
    <2>4. CASE FinishUp
      <3>1. PICK p \in Peers : work = VppHalf(p) /\ VppUp(p)
        BY <2>4 DEF FinishUp
      <3>2. /\ proc \in {"replaying", "serving"} /\ proc' = proc /\ work' = NoWork /\ vppOn
            /\ UNCHANGED <<natRec, vppOn, routeCache>> /\ UNCHANGED <<sas, events>>
            /\ UNCHANGED todo
        BY <2>4, <3>1 DEF FinishUp, envVars, linkVars, natVars, QueueInv
      <3>3. \A q \in Peers : Told(q)' = Told(q)
        BY <3>2, OwedSame DEF Told
      <3>4. Counts
        BY <1>3, <3>2 DEF CountInv
      <3>. QED  BY <1>3, <3>1, <3>2, <3>3, <3>4, CountFinishUp
    <2>5. CASE HandleDown
      <3>1. PICK p \in Peers : p = Head(events).peer
        BY <2>5, QueueType DEF HandleDown
      <3>2. /\ proc = "serving" /\ proc' = "serving" /\ work = NoWork /\ work' = NatHalf(p)
            /\ IF vppOn THEN VppDown(p) ELSE UNCHANGED vrfCache
            /\ UNCHANGED <<natRec, vppOn, routeCache>> /\ UNCHANGED sas /\ UNCHANGED todo
            /\ events # <<>> /\ events' = Tail(events) /\ ~Head(events).up
        BY <2>5, <3>1 DEF HandleDown, envVars, natVars
      <3>3. Head(events) = Ev(p, FALSE)
        <4>1. Head(events) \in Event
          BY <3>2, HeadTailProperties DEF TypeOK
        <4>. QED  BY <3>1, <3>2, <4>1, EventIsEv
      <3>4. ASSUME NEW q \in Peers
            PROVE  Told(q)' = Told(q) - One(q = p)
        <4>1. Owed(q, 0)' = Owed(q, 0) - One(q = p)
          <5>1. (Head(events) = Ev(q, FALSE) <=> q = p) /\ Head(events) # Ev(q, TRUE)
            BY <3>3, EvType
          <5>2. Owed(q, 0)' = Owed(q, 0) + 0 - One(q = p)
            BY <3>2, <5>1, OwedTake DEF One
          <5>. QED  BY <5>2, OwedType DEF One
        <4>2. todo[q] \in Nat /\ todo'[q] = todo[q] /\ Owed(q, 0) \in Int
          BY <3>2, OwedType DEF TypeOK
        <4>. QED  BY <4>1, <4>2 DEF Told, One
      <3>5. Counts
        BY <1>3, <3>2 DEF CountInv
      <3>6. Told(p)' >= 0
        <4>1. Owed(p, 0)' >= 0 /\ todo'[p] = 0
          BY <1>0, <3>2 DEF QueueInv
        <4>2. Owed(p, 0)' \in Int
          <5>. DEFINE up == One(Head(events) = Ev(p, TRUE))
                      down == One(Head(events) = Ev(p, FALSE))
          <5>1. Owed(p, 0) \in Int /\ Owed(p, 0)' = Owed(p, 0) + up - down
            BY <3>2, OwedType, OwedTake
          <5>2. up \in Int /\ down \in Int
            BY DEF One
          <5>. HIDE DEF up, down
          <5>. QED  BY <5>1, <5>2
        <4>. QED  BY <4>1, <4>2 DEF Told
      <3>. QED  BY <1>3, <3>2, <3>4, <3>5, <3>6, CountDown
    <2>6. CASE FinishDown
      <3>1. PICK p \in Peers : work = NatHalf(p) /\ NatDown(p)
        BY <2>6 DEF FinishDown
      <3>2. /\ proc = "serving" /\ proc' = proc /\ work' = NoWork
            /\ UNCHANGED <<natRec, vppOn, vrfCache>> /\ UNCHANGED <<sas, events>>
            /\ UNCHANGED todo
        BY <2>6, <3>1 DEF FinishDown, envVars, linkVars, vppVars
      <3>3. \A q \in Peers : Told(q)' = Told(q)
        BY <3>2, OwedSame DEF Told
      <3>4. Counts
        BY <1>3, <3>2 DEF CountInv
      <3>5. Told(p) >= 0
        BY <3>2, OwedType DEF Told, QueueInv
      <3>. QED  BY <1>3, <3>1, <3>2, <3>3, <3>4, <3>5, CountFinishDown
    <2>7. CASE Reconcile
      <3>1. /\ proc = "replaying" /\ proc' = "serving"
            /\ UNCHANGED <<natRec, routeCache, vrfCache, work, vppOn>>
            /\ UNCHANGED <<sas, events>> /\ UNCHANGED todo
        BY <2>7 DEF Reconcile, envVars, vppVars
      <3>2. \A q \in Peers : Told(q)' = Told(q)
        BY <3>1, OwedSame DEF Told
      <3>. QED  BY <1>3, <3>1, <3>2, CountSame DEF CountInv
    <2>8. ASSUME NEW p \in Peers, ChildUp(p) \/ ChildDown(p)
          PROVE  \/ proc' \in {"replaying", "serving"} /\ Counts'
                 \/ UNCHANGED proc /\ proc = "down"
                 \/ UNCHANGED <<proc, work, events, routeCache, vrfCache>> /\ proc = "starting"
      <3>1. /\ UNCHANGED <<natRec, routeCache, vrfCache, work, vppOn>>
            /\ UNCHANGED <<proc, todo>>
            /\ ~InStartupWindow
            /\ \E up : Notify(p, up)
        BY <1>3, <2>8, NoFaultsLeft DEF ChildUp, ChildDown, ctlVars, vppVars, natVars
      <3>2. CASE registered /\ proc \in {"replaying", "serving"}
        <4>1. 0 <= Len(events)
          BY LenProperties DEF TypeOK
        <4>2. \A q \in Peers : Owed(q, 0)' = Owed(q, 0)
          BY <2>8, <3>2, <4>1, OwedNotify
        <4>3. \A q \in Peers : Told(q)' = Told(q)
          BY <3>1, <4>2 DEF Told
        <4>. QED  BY <1>3, <3>1, <3>2, <4>3, CountSame DEF CountInv
      <3>3. CASE ~registered \/ proc \notin {"replaying", "serving"}
        <4>1. proc \in {"down", "starting", "replaying", "serving"} /\ registered \in BOOLEAN
          BY DEF TypeOK
        <4>2. proc = "down" \/ (proc = "starting" /\ ~registered)
          BY <3>1, <3>3, <4>1 DEF InStartupWindow, QueueInv
        <4>. QED  BY <3>1, <4>2 DEF Notify
      <3>. QED  BY <3>2, <3>3
    <2>9. ASSUME NEW p \in Peers, WriteRecord(p)
          PROVE  \/ proc' \in {"replaying", "serving"} /\ Counts'
                 \/ UNCHANGED proc /\ proc = "down"
                 \/ UNCHANGED <<proc, work, events, routeCache, vrfCache>> /\ proc = "starting"
      <3>1. /\ UNCHANGED <<routeCache, vrfCache, work, vppOn, proc, todo, sas, events>>
            /\ Idle(p) /\ \A q \in Peers \ {p} : natRec'[q] = natRec[q]
        BY <1>3, <2>9, NoFaultsLeft DEF WriteRecord, linkVars, ctlVars, vppVars, natVars, TypeOK
      <3>2. \A q \in Peers : Told(q)' = Told(q)
        BY <3>1, OwedSame DEF Told
      <3>3. Told(p) = 0
        BY <3>1, IdleTold
      <3>4. CASE proc \in {"replaying", "serving"}
        <4>1. Counts
          BY <1>3, <3>4 DEF CountInv
        <4>2. ASSUME NEW q \in Peers PROVE NatCount(q)' /\ VppCount(q)'
          <5>1. CASE q # p
            BY <3>1, <3>2, <4>1, <5>1 DEF NatCount, VppCount, NatHalf, VppHalf
          <5>2. CASE q = p
            <6>1. work # NatHalf(p) /\ work # VppHalf(p)
              BY <3>1 DEF Idle
            <6>2. routeCache[p].child_sa_count = 0 /\ (vppOn => vrfCache[p].child_sa_count = 0)
              BY <1>3, <3>1, <3>4, IdleCounts
            <6>. QED  BY <3>1, <3>2, <3>3, <5>2, <6>1, <6>2
                       DEF NatCount, VppCount, NatHalf, VppHalf, One
          <5>. QED  BY <5>1, <5>2
        <4>. QED  BY <3>1, <3>4, <4>2
      <3>5. CASE proc \notin {"replaying", "serving"}
        BY <3>1, <3>5 DEF TypeOK
      <3>. QED  BY <3>4, <3>5
    <2>10. CASE UNCHANGED vars
      <3>1. /\ UNCHANGED <<natRec, routeCache, vrfCache, work, vppOn>>
            /\ UNCHANGED <<sas, events>> /\ UNCHANGED <<todo, proc>>
        BY <2>10 DEF vars, envVars, linkVars, ctlVars, vppVars, natVars
      <3>2. \A q \in Peers : Told(q)' = Told(q)
        BY <3>1, OwedSame DEF Told
      <3>3. proc \in {"replaying", "serving"} => Counts'
        BY <1>3, <3>1, <3>2, CountSame DEF CountInv
      <3>. QED  BY <3>1, <3>3 DEF TypeOK
    <2>11. ~Crash
      BY <1>3 DEF Crash, TypeOK
    <2>. QED  BY <1>3, <2>1, <2>2, <2>3, <2>4, <2>5, <2>6, <2>7, <2>8, <2>9, <2>10, <2>11
              DEF Next, TaskStep
  <1>4. Crash \/ UNCHANGED restarts
    BY DEF Next, TaskStep, Start, ListSas, ReplayPeer, Reconcile, HandleUp, FinishUp,
           HandleDown, FinishDown, ChildUp, ChildDown, WriteRecord, vars, ctlVars
  <1>5. CASE ~Repaired /\ UNCHANGED restarts
    BY <1>5 DEF CountInv, Repaired
  <1>. QED  BY <1>1, <1>2, <1>3, <1>4, <1>5

\* Once faults have ended, and from a restart on when they happened before, both
\* refcounts are those of charon, for any number of sites, CHILD_SAs, queued
\* events, record changes between tunnels and crashes.
THEOREM RefcountsFollowCharon ==
    ASSUME FaultyLives <= CheckedFrom
    PROVE  Spec => []RefcountsMatchCharon
  <1>1. TypeOK /\ Init => CountInv
    BY DEF Init, CountInv
  <1>2. TypeOK /\ QueueInv /\ CountInv => RefcountsMatchCharon
    <2>. SUFFICES ASSUME TypeOK, QueueInv, CountInv, Checked, proc = "serving", NEW p \in Peers
                  PROVE  /\ work # NatHalf(p) =>
                               routeCache[p].child_sa_count =
                                   IF natRec[p].device_nat = {} THEN 0 ELSE Seen(p)
                         /\ vppOn /\ work # VppHalf(p) =>
                               vrfCache[p].child_sa_count = IF natRec[p] = NoRecord THEN 0 ELSE Seen(p)
      BY DEF RefcountsMatchCharon
    <2>1. Repaired
      BY ConstantsAssumption DEF ConstantsAssumption, Checked, Repaired, TypeOK
    <2>2. Told(p) = Seen(p) /\ Seen(p) \in Int
      BY SeenOwed, OwedType DEF Told, QueueInv
    <2>3. NatCount(p) /\ VppCount(p)
      BY <2>1 DEF CountInv
    <2>. QED  BY <2>2, <2>3 DEF NatCount, VppCount, One
  <1>. QED
    BY <1>1, <1>2, InitType, QueueInit, NextType, QueueNext, CountNext, PTL DEF Spec

-----------------------------------------------------------------------------
\* Routes follow the caches

Serves == proc \in {"replaying", "serving"}

\* A cached site has the devices of its record, each with the route of its mode
\* once VPP has it.
CachedRight(p) ==
    routeCache[p].child_sa_count > 0 =>
        /\ routeCache[p].global_ips = natRec[p].device_nat
        /\ \A g \in natRec[p].device_nat :
              routes[g] = IF vppOn /\ vrfCache[p].child_sa_count > 0
                          THEN Forwarding(p) ELSE Blackhole
VrfRight(p) ==
    vppOn /\ vrfCache[p].child_sa_count > 0 => vrfCache[p].devices = natRec[p].device_nat

UncachedAbsent == \A g \in Globals \ cached_global_ips : routes[g] = NoRoute

RouteInv ==
    Repaired /\ Serves =>
    /\ \A p \in Peers : CachedRight(p) /\ VrfRight(p)
    /\ proc = "serving" => UncachedAbsent

\* The kinds of /32 are told apart.
LEMMA RoutesDiffer ==
    Blackhole # NoRoute /\ Outer # NoRoute /\ \A p : Xfrm(p) # NoRoute
  BY DEF Blackhole, Outer, Xfrm, NoRoute

\* A record has devices among the known ones.
LEMMA RecordType ==
    ASSUME TypeOK, NEW p \in Peers
    PROVE  natRec[p].device_nat \subseteq Globals
  <1>1. natRec[p] \in NatRecords \cup {NoRecord}
    BY DEF TypeOK
  <1>. QED  BY <1>1 DEF NatRecords, NoRecord

\* A site's devices are its own.
LEMMA OwnDevices ==
    ASSUME DisjointSites, TypeOK, CacheInv, NEW p \in Peers, NEW q \in Peers, p # q
    PROVE  /\ natRec[p].device_nat \subseteq Globals
           /\ natRec[p].device_nat \cap natRec[q].device_nat = {}
           /\ routeCache[p].global_ips \cap natRec[q].device_nat = {}
  <1>1. natRec[p].device_nat \subseteq DevicesOf(p) /\ natRec[q].device_nat \subseteq DevicesOf(q)
    BY DEF CacheInv, DevicesOf
  <1>. QED  BY <1>1, RecordType DEF CacheInv, DisjointSites

\* A site that a step leaves alone stays right.
LEMMA OthersRight ==
    ASSUME NEW q \in Peers, CachedRight(q), VrfRight(q),
           natRec'[q] = natRec[q], routeCache'[q] = routeCache[q], vrfCache'[q] = vrfCache[q],
           UNCHANGED vppOn, \A g \in natRec[q].device_nat : routes'[g] = routes[g]
    PROVE  CachedRight(q)' /\ VrfRight(q)'
  <1>1. Forwarding(q)' = Forwarding(q)
    BY DEF Forwarding, Xfrm
  <1>. QED  BY <1>1 DEF CachedRight, VrfRight, Blackhole

\* The nat half of an UP
LEMMA RouteNatUp ==
    ASSUME DisjointSites, TypeOK, CacheInv, Repaired, NEW p \in Peers, NatUp(p),
           UNCHANGED <<natRec, vrfCache, vppOn>>, work = NoWork,
           \A q \in Peers : NatCount(q) /\ VppCount(q),
           \A q \in Peers : CachedRight(q) /\ VrfRight(q)
    PROVE  /\ \A q \in Peers : CachedRight(q)' /\ VrfRight(q)'
           /\ UncachedAbsent => UncachedAbsent'
  <1>. DEFINE devs == natRec[p].device_nat
  <1>1. /\ routeCache \in [Peers -> PeerRouteState] /\ routes \in [Globals -> Route]
        /\ routeCache[p] \in PeerRouteState /\ routeCache[p].child_sa_count \in Nat
    BY ToldType DEF TypeOK
  <1>2. CASE /\ routeCache[p].child_sa_count > 0
             /\ routeCache' = [routeCache EXCEPT ![p].child_sa_count = @ + 1]
             /\ UNCHANGED routes
    <2>1. \A q \in Peers : /\ routeCache'[q].global_ips = routeCache[q].global_ips
                           /\ routeCache'[q].child_sa_count > 0
                                <=> routeCache[q].child_sa_count > 0
      BY <1>1, <1>2 DEF PeerRouteState
    <2>2. cached_global_ips' = cached_global_ips
      BY <2>1 DEF cached_global_ips
    <2>3. \A q \in Peers : Forwarding(q)' = Forwarding(q)
      BY DEF Forwarding, Xfrm
    <2>. QED  BY <1>2, <2>1, <2>2, <2>3 DEF CachedRight, VrfRight, UncachedAbsent, NoRoute, Blackhole
  <1>3. CASE devs = {} /\ UNCHANGED <<routeCache, routes>>
    <2>1. cached_global_ips' = cached_global_ips
      BY <1>3 DEF cached_global_ips
    <2>. QED  BY <1>3, <2>1, OthersRight DEF UncachedAbsent, NoRoute
  <1>4. CASE /\ devs # {} /\ routeCache[p].child_sa_count = 0
             /\ routes' = Routed(devs, Blackhole)
             /\ routeCache' = [routeCache EXCEPT ![p] = [global_ips |-> devs,
                                                         child_sa_count |-> 1]]
    <2>1. /\ routeCache'[p].global_ips = devs /\ routeCache'[p].child_sa_count = 1
          /\ \A q \in Peers \ {p} : routeCache'[q] = routeCache[q]
      BY <1>1, <1>4
    <2>2. \A g \in Globals : routes'[g] = IF g \in devs THEN Blackhole ELSE routes[g]
      BY <1>4 DEF Routed
    <2>3. ASSUME NEW q \in Peers, q # p
          PROVE  CachedRight(q)' /\ VrfRight(q)'
      <3>1. natRec[q].device_nat \subseteq Globals /\ natRec[q].device_nat \cap devs = {}
        BY <2>3, OwnDevices
      <3>. QED  BY <2>1, <2>2, <2>3, <3>1, OthersRight
    <2>4. CachedRight(p)' /\ VrfRight(p)'
      <3>1. vppOn => ~(vrfCache[p].child_sa_count > 0)
        <4>1. work # NatHalf(p) /\ work # VppHalf(p) /\ Told(p) \in Int
          BY HalvesDiffer, ToldType
        <4>2. Told(p) = 0
          BY <1>4, <4>1 DEF NatCount, One
        <4>. QED  BY <4>1, <4>2 DEF VppCount, One
      <3>2. devs \subseteq Globals
        BY RecordType
      <3>. QED  BY <2>1, <2>2, <3>1, <3>2 DEF CachedRight, VrfRight, Blackhole
    <2>5. cached_global_ips' = cached_global_ips \cup devs
      <3>1. routeCache[p].global_ips = {}
        BY <1>4 DEF CacheInv
      <3>. QED  BY <2>1, <3>1 DEF cached_global_ips
    <2>. QED  BY <2>2, <2>3, <2>4, <2>5 DEF UncachedAbsent, NoRoute
  <1>5. routeCache[p].child_sa_count = 0 /\ devs = {} => routeCache' = routeCache /\ routes' = routes
    <2>. SUFFICES ASSUME routeCache[p].child_sa_count = 0, devs = {}
                  PROVE  routeCache' = routeCache /\ routes' = routes
      OBVIOUS
    <2>1. ~(routeCache[p].child_sa_count > 0)
      BY <1>1
    <2>2. routes' = Routed(devs, Blackhole) /\ routeCache' = routeCache
      BY <2>1, NatUpClean
    <2>. QED  BY <1>1, <2>2 DEF Routed
  <1>. QED  BY <1>2, <1>3, <1>4, <1>5, NatUpClean

\* A site that has a device with a route and no vpp entry, or one, is cached.
LEMMA CachedWhenCounted ==
    ASSUME TypeOK, CountInv, RouteInv, Repaired, Serves, NEW p \in Peers, vppOn,
           \/ work = VppHalf(p)
           \/ work = NoWork /\ vrfCache[p].child_sa_count > 0,
           NEW g \in natRec[p].device_nat
    PROVE  g \in cached_global_ips
  <1>1. /\ NatCount(p) /\ VppCount(p) /\ CachedRight(p)
        /\ Told(p) \in Int /\ routeCache[p].child_sa_count \in Nat
        /\ vrfCache[p].child_sa_count \in Nat
    BY ToldType DEF CountInv, RouteInv, Serves
  <1>2. natRec[p] # NoRecord /\ natRec[p].device_nat # {}
    BY DEF NoRecord
  <1>3. work # NatHalf(p) /\ (work = NoWork => work # VppHalf(p))
    BY HalvesDiffer
  <1>4. routeCache[p].child_sa_count > 0
    BY <1>1, <1>2, <1>3 DEF NatCount, VppCount, One
  <1>. QED  BY <1>1, <1>4 DEF CachedRight, cached_global_ips

\* The vpp half of an UP gives the devices the route of their mode.
LEMMA RouteVppUp ==
    ASSUME DisjointSites, TypeOK, CacheInv, CountInv, RouteInv, Repaired, Serves,
           NEW p \in Peers, VppUp(p), vppOn, work = VppHalf(p),
           UNCHANGED <<natRec, routeCache, vppOn>>
    PROVE  /\ \A q \in Peers : CachedRight(q)' /\ VrfRight(q)'
           /\ UncachedAbsent => UncachedAbsent'
  <1>. DEFINE devs == natRec[p].device_nat
  <1>1. /\ vrfCache \in [Peers -> SiteVrfState] /\ vrfCache[p] \in SiteVrfState
        /\ routes \in [Globals -> Route] /\ devs \subseteq Globals
        /\ \A q \in Peers : CachedRight(q) /\ VrfRight(q)
    BY RecordType DEF TypeOK, RouteInv
  <1>2. cached_global_ips' = cached_global_ips
    BY DEF cached_global_ips
  <1>3. \A q \in Peers : Forwarding(q)' = Forwarding(q)
    BY DEF Forwarding, Xfrm
  <1>4. CASE /\ vrfCache[p].child_sa_count > 0
             /\ vrfCache' = [vrfCache EXCEPT ![p].child_sa_count = @ + 1]
             /\ UNCHANGED routes
    <2>1. \A q \in Peers : /\ vrfCache'[q].devices = vrfCache[q].devices
                           /\ vrfCache'[q].child_sa_count > 0
                                <=> vrfCache[q].child_sa_count > 0
      BY <1>1, <1>4 DEF SiteVrfState
    <2>. QED  BY <1>1, <1>2, <1>3, <1>4, <2>1
              DEF CachedRight, VrfRight, UncachedAbsent, Blackhole, NoRoute
  <1>5. CASE UNCHANGED <<vrfCache, routes>>
    BY <1>1, <1>2, <1>5, OthersRight DEF UncachedAbsent, NoRoute
  <1>6. ASSUME NEW via, NEW bypass, NEW ids, SiteUp(p, via, devs, bypass, ids),
               via = Forwarding(p)
        PROVE  /\ \A q \in Peers : CachedRight(q)' /\ VrfRight(q)'
               /\ UncachedAbsent => UncachedAbsent'
    <2>1. /\ vrfCache'[p].devices = devs /\ vrfCache'[p].child_sa_count = 1
          /\ \A q \in Peers \ {p} : vrfCache'[q] = vrfCache[q]
      BY <1>1, <1>6 DEF SiteUp
    <2>2. \A g \in Globals : routes'[g] = IF g \in devs THEN via ELSE routes[g]
      BY <1>6 DEF SiteUp, Routed
    <2>3. ASSUME NEW q \in Peers, q # p
          PROVE  CachedRight(q)' /\ VrfRight(q)'
      <3>1. natRec[q].device_nat \subseteq Globals /\ natRec[q].device_nat \cap devs = {}
        BY <2>3, OwnDevices
      <3>. QED  BY <1>1, <2>1, <2>2, <2>3, <3>1, OthersRight
    <2>4. CachedRight(p)' /\ VrfRight(p)'
      BY <1>1, <1>3, <1>6, <2>1, <2>2 DEF CachedRight, VrfRight
    <2>5. devs \subseteq cached_global_ips
      BY CachedWhenCounted
    <2>. QED  BY <1>2, <2>2, <2>3, <2>4, <2>5 DEF UncachedAbsent, NoRoute
  <1>7. /\ natRec[p].nat_mode = "customer" => Xfrm(p) = Forwarding(p)
        /\ natRec[p].nat_mode = "backend" => Outer = Forwarding(p)
    BY DEF Forwarding
  <1>. QED  BY <1>4, <1>5, <1>6, <1>7, VppUpClean

\* The vpp half of the last DOWN puts the blackholes back.
LEMMA RouteVppDown ==
    ASSUME DisjointSites, TypeOK, CacheInv, CountInv, RouteInv, Repaired, Serves,
           NEW p \in Peers, VppDown(p), vppOn, work = NoWork,
           UNCHANGED <<natRec, routeCache, vppOn>>
    PROVE  /\ \A q \in Peers : CachedRight(q)' /\ VrfRight(q)'
           /\ UncachedAbsent => UncachedAbsent'
  <1>. DEFINE devs == natRec[p].device_nat
  <1>1. /\ vrfCache \in [Peers -> SiteVrfState] /\ vrfCache[p] \in SiteVrfState
        /\ routes \in [Globals -> Route] /\ devs \subseteq Globals
        /\ \A q \in Peers : CachedRight(q) /\ VrfRight(q)
    BY RecordType DEF TypeOK, RouteInv
  <1>2. cached_global_ips' = cached_global_ips
    BY DEF cached_global_ips
  <1>3. \A q \in Peers : Forwarding(q)' = Forwarding(q)
    BY DEF Forwarding, Xfrm
  <1>4. CASE /\ vrfCache[p].child_sa_count > 1
             /\ vrfCache' = [vrfCache EXCEPT ![p].child_sa_count = @ - 1]
             /\ UNCHANGED routes
    <2>1. \A q \in Peers : /\ vrfCache'[q].devices = vrfCache[q].devices
                           /\ vrfCache'[q].child_sa_count > 0
                                <=> vrfCache[q].child_sa_count > 0
      BY <1>1, <1>4 DEF SiteVrfState
    <2>. QED  BY <1>1, <1>2, <1>3, <1>4, <2>1
              DEF CachedRight, VrfRight, UncachedAbsent, Blackhole, NoRoute
  <1>5. CASE UNCHANGED <<vrfCache, routes>>
    BY <1>1, <1>2, <1>5, OthersRight DEF UncachedAbsent, NoRoute
  <1>6. CASE /\ vrfCache[p].child_sa_count = 1
             /\ vrfCache' = [vrfCache EXCEPT ![p] = NoSite]
             /\ routes' = Routed(vrfCache[p].devices, Blackhole)
    <2>1. /\ vrfCache'[p].child_sa_count = 0
          /\ \A q \in Peers \ {p} : vrfCache'[q] = vrfCache[q]
      BY <1>1, <1>6 DEF NoSite
    <2>2. vrfCache[p].devices = devs
      BY <1>1, <1>6 DEF VrfRight
    <2>3. \A g \in Globals : routes'[g] = IF g \in devs THEN Blackhole ELSE routes[g]
      BY <1>6, <2>2 DEF Routed
    <2>4. ASSUME NEW q \in Peers, q # p
          PROVE  CachedRight(q)' /\ VrfRight(q)'
      <3>1. natRec[q].device_nat \subseteq Globals /\ natRec[q].device_nat \cap devs = {}
        BY <2>4, OwnDevices
      <3>. QED  BY <1>1, <2>1, <2>3, <2>4, <3>1, OthersRight
    <2>5. CachedRight(p)' /\ VrfRight(p)'
      BY <1>1, <2>1, <2>3 DEF CachedRight, VrfRight, Blackhole
    <2>6. devs \subseteq cached_global_ips
      BY <1>6, CachedWhenCounted
    <2>. QED  BY <1>2, <2>3, <2>4, <2>5, <2>6 DEF UncachedAbsent, NoRoute
  <1>. QED  BY <1>4, <1>5, <1>6, VppDownClean

\* The nat half of the last DOWN withdraws what the site had.
LEMMA RouteNatDown ==
    ASSUME DisjointSites, TypeOK, CacheInv, RouteInv, Repaired, Serves,
           NEW p \in Peers, NatDown(p), UNCHANGED <<natRec, vrfCache, vppOn>>
    PROVE  /\ \A q \in Peers : CachedRight(q)' /\ VrfRight(q)'
           /\ UncachedAbsent => UncachedAbsent'
  <1>. DEFINE devs == natRec[p].device_nat
  <1>1. /\ routeCache \in [Peers -> PeerRouteState] /\ routeCache[p] \in PeerRouteState
        /\ routes \in [Globals -> Route] /\ devs \subseteq Globals
        /\ \A q \in Peers : CachedRight(q) /\ VrfRight(q)
    BY RecordType DEF TypeOK, RouteInv
  <1>2. \A q \in Peers : Forwarding(q)' = Forwarding(q)
    BY DEF Forwarding, Xfrm
  <1>3. CASE UNCHANGED <<routeCache, routes>>
    <2>1. cached_global_ips' = cached_global_ips
      BY <1>3 DEF cached_global_ips
    <2>. QED  BY <1>1, <1>3, <2>1, OthersRight DEF UncachedAbsent, NoRoute
  <1>4. CASE /\ routeCache[p].child_sa_count > 1
             /\ routeCache' = [routeCache EXCEPT ![p].child_sa_count = @ - 1]
             /\ UNCHANGED routes
    <2>1. \A q \in Peers : /\ routeCache'[q].global_ips = routeCache[q].global_ips
                           /\ routeCache'[q].child_sa_count > 0
                                <=> routeCache[q].child_sa_count > 0
      BY <1>1, <1>4 DEF PeerRouteState
    <2>2. cached_global_ips' = cached_global_ips
      BY <2>1 DEF cached_global_ips
    <2>. QED  BY <1>1, <1>2, <1>4, <2>1, <2>2
              DEF CachedRight, VrfRight, UncachedAbsent, Blackhole, NoRoute
  <1>5. CASE /\ routeCache[p].child_sa_count = 1
             /\ routes' = Routed(routeCache[p].global_ips, NoRoute)
             /\ routeCache' = [routeCache EXCEPT ![p] = NoPeerRoutes]
    <2>1. /\ routeCache'[p].child_sa_count = 0 /\ routeCache'[p].global_ips = {}
          /\ \A q \in Peers \ {p} : routeCache'[q] = routeCache[q]
      BY <1>1, <1>5 DEF NoPeerRoutes
    <2>2. routeCache[p].global_ips = devs
      BY <1>1, <1>5 DEF CachedRight
    <2>3. \A g \in Globals : routes'[g] = IF g \in devs THEN NoRoute ELSE routes[g]
      BY <1>5, <2>2 DEF Routed
    <2>4. ASSUME NEW q \in Peers, q # p
          PROVE  CachedRight(q)' /\ VrfRight(q)'
      <3>1. natRec[q].device_nat \subseteq Globals /\ natRec[q].device_nat \cap devs = {}
        BY <2>4, OwnDevices
      <3>. QED  BY <1>1, <2>1, <2>3, <2>4, <3>1, OthersRight
    <2>5. CachedRight(p)' /\ VrfRight(p)'
      BY <1>1, <2>1 DEF CachedRight, VrfRight
    <2>6. \A g \in Globals : g \notin cached_global_ips' => g \in devs \/ g \notin cached_global_ips
      BY <2>1, <2>2 DEF cached_global_ips
    <2>. QED  BY <2>3, <2>4, <2>5, <2>6 DEF UncachedAbsent, NoRoute
  <1>. QED  BY <1>3, <1>4, <1>5, NatDownClean

\* Routes, caches and records stay together in every step.
LEMMA RouteNext ==
    ASSUME DisjointSites, TypeOK, QueueInv, CountInv, CacheInv, RouteInv, [Next]_vars
    PROVE  RouteInv'
  <1>. DEFINE Right == \A q \in Peers : CachedRight(q) /\ VrfRight(q)
  <1>1. CASE Start \/ Crash
    BY <1>1 DEF Start, Crash, RouteInv, Serves
  <1>2. CASE ~Repaired /\ UNCHANGED restarts
    BY <1>2 DEF RouteInv, Repaired
  <1>3. ASSUME Repaired, UNCHANGED restarts, ~Start, ~Crash
        PROVE  RouteInv'
    <2>. SUFFICES \/ Right' /\ (proc' = "serving" => UncachedAbsent')
                  \/ proc' \notin {"replaying", "serving"}
      BY DEF RouteInv, Serves
    <2>1. CASE ListSas
      <3>1. /\ UNCHANGED <<routeCache, vrfCache>> /\ proc' = "replaying" /\ proc = "starting"
        BY <2>1 DEF ListSas, vppVars, natVars
      <3>2. \A q \in Peers : routeCache[q].child_sa_count = 0 /\ vrfCache[q].child_sa_count = 0
        BY <1>3, <3>1 DEF CountInv
      <3>. QED  BY <3>1, <3>2 DEF CachedRight, VrfRight
    <2>2. CASE HandleUp \/ \E p \in Peers : ReplayPeer(p)
      <3>1. PICK p \in Peers : NatUp(p)
        BY <2>2, QueueType DEF HandleUp, ReplayPeer
      <3>2. /\ UNCHANGED <<natRec, vrfCache, vppOn>> /\ work = NoWork
            /\ proc \in {"replaying", "serving"} /\ proc' = proc
        BY <2>2 DEF HandleUp, ReplayPeer, envVars, vppVars
      <3>3. Right /\ (\A q \in Peers : NatCount(q) /\ VppCount(q))
            /\ (proc = "serving" => UncachedAbsent)
        BY <1>3, <3>2 DEF RouteInv, CountInv, Serves
      <3>. QED  BY <1>3, <3>1, <3>2, <3>3, RouteNatUp
    <2>3. CASE FinishUp
      <3>1. PICK p \in Peers : work = VppHalf(p) /\ VppUp(p)
        BY <2>3 DEF FinishUp
      <3>2. /\ UNCHANGED <<natRec, routeCache, vppOn>> /\ vppOn /\ Serves /\ proc' = proc
        BY <2>3, <3>1 DEF FinishUp, envVars, natVars, Serves, QueueInv
      <3>3. proc = "serving" => UncachedAbsent
        BY <1>3, <3>2 DEF RouteInv
      <3>. QED  BY <1>3, <3>1, <3>2, <3>3, RouteVppUp
    <2>4. CASE HandleDown
      <3>1. PICK p \in Peers : IF vppOn THEN VppDown(p) ELSE UNCHANGED <<vrfCache, alloc, routes>>
        BY <2>4, QueueType DEF HandleDown
      <3>2. /\ UNCHANGED <<natRec, routeCache, vppOn>> /\ work = NoWork
            /\ proc = "serving" /\ proc' = proc
        BY <2>4 DEF HandleDown, envVars, natVars
      <3>3. UncachedAbsent /\ Right /\ Serves
        BY <1>3, <3>2 DEF RouteInv, Serves
      <3>4. CASE vppOn
        BY <1>3, <3>1, <3>2, <3>3, <3>4, RouteVppDown
      <3>5. CASE UNCHANGED <<vrfCache, routes>>
        <4>1. cached_global_ips' = cached_global_ips
          BY <3>2 DEF cached_global_ips
        <4>. QED  BY <3>2, <3>3, <3>5, <4>1, OthersRight DEF UncachedAbsent, NoRoute
      <3>. QED  BY <3>1, <3>4, <3>5
    <2>5. CASE FinishDown
      <3>1. PICK p \in Peers : work = NatHalf(p) /\ NatDown(p)
        BY <2>5 DEF FinishDown
      <3>2. UNCHANGED <<natRec, vrfCache, vppOn>> /\ proc = "serving" /\ proc' = proc /\ Serves
        BY <2>5 DEF FinishDown, envVars, vppVars, Serves
      <3>3. UncachedAbsent
        BY <1>3, <3>2 DEF RouteInv
      <3>. QED  BY <1>3, <3>1, <3>2, <3>3, RouteNatDown
    <2>6. CASE Reconcile
      <3>1. /\ UNCHANGED <<natRec, routeCache, vrfCache, vppOn>> /\ proc = "replaying"
            /\ routes' = Routed(Globals \ cached_global_ips, NoRoute)
        BY <1>3, <2>6, NoFaultsLeft DEF Reconcile, envVars, vppVars
      <3>2. \A g \in Globals :
               routes'[g] = IF g \in Globals \ cached_global_ips THEN NoRoute ELSE routes[g]
        BY <3>1 DEF Routed
      <3>3. cached_global_ips' = cached_global_ips
        BY <3>1 DEF cached_global_ips
      <3>4. ASSUME NEW q \in Peers
            PROVE  CachedRight(q)' /\ VrfRight(q)'
        <4>1. CachedRight(q) /\ VrfRight(q)
          BY <1>3, <3>1 DEF RouteInv, Serves
        <4>2. Forwarding(q)' = Forwarding(q)
          BY <3>1 DEF Forwarding, Xfrm
        <4>3. CASE routeCache[q].child_sa_count > 0
          <5>1. \A g \in natRec[q].device_nat : g \in Globals /\ g \in cached_global_ips
            BY <4>1, <4>3, RecordType DEF CachedRight, cached_global_ips
          <5>. QED  BY <3>1, <3>2, <4>1, <5>1, OthersRight
        <4>4. CASE ~(routeCache[q].child_sa_count > 0)
          BY <3>1, <4>1, <4>4 DEF CachedRight, VrfRight
        <4>. QED  BY <4>3, <4>4
      <3>. QED  BY <3>2, <3>3, <3>4 DEF UncachedAbsent, NoRoute
    <2>7. ASSUME NEW p \in Peers, WriteRecord(p), proc \in {"replaying", "serving"}
          PROVE  Right' /\ (proc' = "serving" => UncachedAbsent')
      <3>1. /\ UNCHANGED <<routeCache, vrfCache, vppOn, proc, routes>>
            /\ Idle(p) /\ \A q \in Peers \ {p} : natRec'[q] = natRec[q]
        BY <1>3, <2>7, NoFaultsLeft DEF WriteRecord, ctlVars, vppVars, natVars, TypeOK
      <3>2. Right /\ (proc = "serving" => UncachedAbsent)
        BY <1>3, <2>7 DEF RouteInv, Serves
      <3>3. \A q \in Peers \ {p} : CachedRight(q)' /\ VrfRight(q)'
        BY <3>1, <3>2, OthersRight
      <3>4. CachedRight(p)' /\ VrfRight(p)'
        <4>1. routeCache[p].child_sa_count = 0 /\ (vppOn => vrfCache[p].child_sa_count = 0)
          BY <1>3, <2>7, <3>1, IdleCounts
        <4>. QED  BY <3>1, <4>1 DEF CachedRight, VrfRight
      <3>5. cached_global_ips' = cached_global_ips
        BY <3>1 DEF cached_global_ips
      <3>. QED  BY <3>1, <3>2, <3>3, <3>4, <3>5 DEF UncachedAbsent, NoRoute
    <2>8. ASSUME \/ \E p \in Peers : ChildUp(p) \/ ChildDown(p)
                 \/ UNCHANGED vars,
                 proc \in {"replaying", "serving"}
          PROVE  Right' /\ (proc' = "serving" => UncachedAbsent')
      <3>1. UNCHANGED <<natRec, routeCache, vrfCache, vppOn, proc, routes>>
        BY <2>8 DEF ChildUp, ChildDown, vars, envVars, ctlVars, vppVars, natVars
      <3>2. Right /\ (proc = "serving" => UncachedAbsent)
        BY <1>3, <2>8 DEF RouteInv, Serves
      <3>3. cached_global_ips' = cached_global_ips
        BY <3>1 DEF cached_global_ips
      <3>. QED  BY <3>1, <3>2, <3>3, OthersRight DEF UncachedAbsent, NoRoute
    <2>9. CASE \/ \E p \in Peers : WriteRecord(p) \/ ChildUp(p) \/ ChildDown(p)
               \/ UNCHANGED vars
      <3>1. UNCHANGED proc
        BY <2>9 DEF WriteRecord, ChildUp, ChildDown, vars, ctlVars
      <3>. QED  BY <2>7, <2>8, <2>9, <3>1
    <2>. QED  BY <1>3, <2>1, <2>2, <2>3, <2>4, <2>5, <2>6, <2>9 DEF Next, TaskStep
  <1>4. Crash \/ UNCHANGED restarts
    BY DEF Next, TaskStep, Start, ListSas, ReplayPeer, Reconcile, HandleUp, FinishUp,
           HandleDown, FinishDown, ChildUp, ChildDown, WriteRecord, vars, ctlVars
  <1>. QED  BY <1>1, <1>2, <1>3, <1>4

\* All of the above in one
SiteInv == TypeOK /\ QueueInv /\ CountInv /\ CacheInv /\ RouteInv

\* The joint invariant holds of every behaviour.
LEMMA SiteInvHolds ==
    ASSUME DisjointSites
    PROVE  Spec => []SiteInv
  <1>1. Init => SiteInv
    <2> SUFFICES ASSUME Init PROVE SiteInv
      OBVIOUS
    <2>1. \A p \in Peers : routeCache[p] = NoPeerRoutes /\ natRec[p] \in Provisioned[p]
      BY DEF Init
    <2>2. CacheInv
      BY <2>1 DEF Init, CacheInv, NoPeerRoutes
    <2>. QED  BY <2>2, InitType, QueueInit DEF Init, SiteInv, CountInv, RouteInv, Serves
  <1>2. SiteInv /\ [Next]_vars => SiteInv'
    BY NextType, QueueNext, CountNext, CacheNext, RouteNext DEF SiteInv
  <1>. QED  BY <1>1, <1>2, PTL DEF Spec

\* With no event left to handle, the counts are the CHILD_SAs themselves.
LEMMA SettledCounts ==
    ASSUME SiteInv, Repaired, Settled, NEW p \in Peers
    PROVE  /\ sas[p] \in Nat
           /\ routeCache[p].child_sa_count = IF natRec[p].device_nat = {} THEN 0 ELSE sas[p]
           /\ vppOn => vrfCache[p].child_sa_count = IF natRec[p] = NoRecord THEN 0 ELSE sas[p]
  <1>1. NatCount(p) /\ VppCount(p) /\ work # NatHalf(p) /\ work # VppHalf(p)
    BY HalvesDiffer DEF SiteInv, CountInv, Settled
  <1>2. sas[p] \in Nat /\ Len(events) = 0 /\ todo[p] = 0
    BY EmptySeq DEF SiteInv, TypeOK, QueueInv, Settled
  <1>3. Owed(p, 0) = sas[p]
    BY <1>2, OwedType DEF SiteInv
  <1>4. Told(p) = sas[p]
    BY <1>2, <1>3 DEF Told
  <1>. QED  BY <1>1, <1>2, <1>4 DEF NatCount, VppCount, One

\* When no two sites share a global_ip and faults have ended, then, whenever the
\* task is at rest, exactly the devices of the sites with a tunnel have a /32,
\* and it is the one their mode forwards on.
THEOREM RoutesFollowTunnels ==
    ASSUME DisjointSites, FaultyLives <= CheckedFrom
    PROVE  Spec => []RoutesMatchTunnels
  <1>1. SiteInv => RoutesMatchTunnels
    <2>. SUFFICES ASSUME SiteInv, Checked, Settled, NEW g \in Globals
                  PROVE  LET owners == {p \in Peers : sas[p] > 0 /\ g \in natRec[p].device_nat} IN
                         IF owners = {} THEN routes[g] = NoRoute
                         ELSE \E p \in owners : routes[g] = Forwarding(p)
      BY DEF RoutesMatchTunnels
    <2>. DEFINE owners == {p \in Peers : sas[p] > 0 /\ g \in natRec[p].device_nat}
    <2>1. Repaired
      BY ConstantsAssumption DEF ConstantsAssumption, Checked, Repaired, TypeOK, SiteInv
    <2>2. /\ \A p \in Peers : CachedRight(p) /\ VrfRight(p)
          /\ UncachedAbsent
      BY <2>1 DEF SiteInv, RouteInv, Settled, Serves
    <2>3. CASE owners = {}
      <3>1. ASSUME NEW q \in Peers, g \in routeCache[q].global_ips
            PROVE  FALSE
        <4>1. routeCache[q].child_sa_count # 0 /\ routeCache[q].child_sa_count \in Nat
          BY <3>1, ToldType DEF SiteInv, CacheInv
        <4>2. g \in natRec[q].device_nat
          BY <2>2, <3>1, <4>1 DEF CachedRight
        <4>3. sas[q] > 0
          BY <2>1, <4>1, <4>2, SettledCounts
        <4>. QED  BY <2>3, <4>2, <4>3
      <3>2. g \notin cached_global_ips
        BY <3>1 DEF cached_global_ips
      <3>. QED  BY <2>2, <2>3, <3>2 DEF UncachedAbsent
    <2>4. ASSUME NEW p \in owners
          PROVE  routes[g] = Forwarding(p)
      <3>1. p \in Peers /\ sas[p] > 0 /\ g \in natRec[p].device_nat
        OBVIOUS
      <3>2. natRec[p].device_nat # {} /\ natRec[p] # NoRecord
        BY <3>1 DEF NoRecord
      <3>3. routeCache[p].child_sa_count > 0 /\ (vppOn => vrfCache[p].child_sa_count > 0)
        BY <2>1, <3>1, <3>2, SettledCounts
      <3>4. routes[g] = IF vppOn THEN Forwarding(p) ELSE Blackhole
        BY <2>2, <3>1, <3>3 DEF CachedRight
      <3>5. ~vppOn => Forwarding(p) = Blackhole
        BY DEF Forwarding
      <3>. QED  BY <3>4, <3>5
    <2>. QED  BY <2>3, <2>4
  <1>. QED  BY <1>1, SiteInvHolds, PTL

\* A step of a process that is not down withdraws the /32 of a site's device only
\* when the site has no CHILD_SA by what the task has been told.
LEMMA WithdrawnStep ==
    ASSUME DisjointSites, SiteInv, Repaired, [Next]_vars,
           NEW p \in Peers, NEW g \in natRec[p].device_nat,
           proc # "down", routes[g] # NoRoute, routes'[g] = NoRoute
    PROVE  Seen(p)' = 0
  <1>1. g \in Globals /\ TypeOK
    BY RecordType DEF SiteInv
  <1>2. natRec[p].device_nat # {}
    OBVIOUS
  <1>3. CASE FinishDown
    <2>1. PICK q \in Peers : work = NatHalf(q) /\ NatDown(q)
      BY <1>3 DEF FinishDown
    <2>2. proc = "serving" /\ UNCHANGED <<sas, events>>
      BY <1>3 DEF FinishDown, envVars, linkVars
    <2>3. /\ routeCache[q].child_sa_count = 1
          /\ routes' = Routed(routeCache[q].global_ips, NoRoute)
      BY <1>1, <2>1, NatDownClean
    <2>4. g \in routeCache[q].global_ips
      BY <1>1, <2>3 DEF Routed
    <2>5. q = p
      BY <1>1, <2>4, OwnDevices DEF SiteInv
    <2>6. NatCount(p) /\ todo[p] = 0 /\ Owed(p, 0) \in Int
      BY <1>1, <2>2, OwedType DEF SiteInv, CountInv, QueueInv
    <2>7. Owed(p, 0) = 0
      BY <1>2, <2>1, <2>3, <2>5, <2>6 DEF NatCount, Told, One
    <2>8. Seen(p)' = Seen(p)
      BY <2>2 DEF Seen, Pending
    <2>. QED  BY <1>1, <2>7, <2>8, SeenOwed
  <1>4. CASE Reconcile
    <2>1. /\ proc = "replaying" /\ work = NoWork /\ todo[p] = 0 /\ UNCHANGED <<sas, events>>
          /\ routes' = Routed(Globals \ cached_global_ips, NoRoute)
      BY <1>1, <1>4, NoFaultsLeft DEF Reconcile, envVars
    <2>2. g \notin cached_global_ips
      BY <1>1, <2>1 DEF Routed
    <2>3. ~(routeCache[p].child_sa_count > 0)
      BY <1>1, <2>1, <2>2 DEF SiteInv, RouteInv, Serves, CachedRight, cached_global_ips
    <2>4. /\ NatCount(p) /\ Owed(p, 0) \in Int /\ routeCache[p].child_sa_count \in Nat
          /\ work # NatHalf(p)
      BY <1>1, <2>1, OwedType, ToldType, HalvesDiffer DEF SiteInv, CountInv
    <2>5. Owed(p, 0) = 0
      BY <1>2, <2>1, <2>3, <2>4 DEF NatCount, Told, One
    <2>6. Seen(p)' = Seen(p)
      BY <2>1 DEF Seen, Pending
    <2>. QED  BY <1>1, <2>5, <2>6, SeenOwed
  <1>5. CASE \/ routes' = routes
             \/ \E S, via : routes' = Routed(S, via) /\ via # NoRoute
    BY <1>1, <1>5 DEF Routed
  <1>6. ASSUME NEW q \in Peers, NatUp(q)
        PROVE  routes' = routes \/ \E S, via : routes' = Routed(S, via) /\ via # NoRoute
    BY <1>1, <1>6, NatUpClean, RoutesDiffer
  <1>7. ASSUME NEW q \in Peers, VppUp(q)
        PROVE  routes' = routes \/ \E S, via : routes' = Routed(S, via) /\ via # NoRoute
    BY <1>1, <1>7, VppUpClean, RoutesDiffer DEF SiteUp
  <1>8. ASSUME NEW q \in Peers, VppDown(q)
        PROVE  routes' = routes \/ \E S, via : routes' = Routed(S, via) /\ via # NoRoute
    BY <1>1, <1>8, VppDownClean, RoutesDiffer
  <1>9. CASE HandleUp \/ (\E q \in Peers : ReplayPeer(q))
    BY <1>1, <1>5, <1>6, <1>9, QueueType DEF HandleUp, ReplayPeer
  <1>10. CASE FinishUp
    BY <1>5, <1>7, <1>10 DEF FinishUp
  <1>11. CASE HandleDown
    BY <1>1, <1>5, <1>8, <1>11, QueueType DEF HandleDown
  <1>12. CASE Start
    BY <1>12 DEF Start
  <1>13. CASE \/ ListSas \/ Crash \/ UNCHANGED vars
              \/ \E q \in Peers : ChildUp(q) \/ ChildDown(q) \/ WriteRecord(q)
    BY <1>5, <1>13 DEF ListSas, Crash, ChildUp, ChildDown, WriteRecord, vars
  <1>. QED  BY <1>3, <1>4, <1>9, <1>10, <1>11, <1>12, <1>13 DEF Next, TaskStep

\* Under the same conditions no step of the process withdraws the /32 of a device
\* whose site has a CHILD_SA by what the task has been told.
THEOREM NeverWithdrawnEarly ==
    ASSUME DisjointSites, FaultyLives <= CheckedFrom
    PROVE  Spec => NoPrematureWithdrawal
  <1>. DEFINE Kept == \A p \in Peers : \A g \in natRec[p].device_nat :
                  Checked /\ proc # "down" /\ routes[g] # NoRoute /\ routes'[g] = NoRoute
                     => Seen(p)' = 0
  <1>1. TypeOK /\ Checked => Repaired
    BY ConstantsAssumption DEF ConstantsAssumption, Checked, Repaired, TypeOK
  <1>2. SiteInv /\ [Next]_vars => [Kept]_vars
    BY <1>1, WithdrawnStep DEF SiteInv
  <1>. QED  BY <1>2, SiteInvHolds, PTL DEF Spec, NoPrematureWithdrawal

-----------------------------------------------------------------------------
\* Nothing is left behind

\* Every id ever allocated belongs to one backend site or is free, and a process
\* without VPP has no site.
FreeInv ==
    /\ IsFiniteSet(BackendSites)
    /\ Cardinality(BackendSites) + Len(alloc.free) = alloc.next
    /\ ~vppOn => \A p \in Peers : vrfCache[p].child_sa_count = 0

\* A step that changes neither the caches nor the allocator nor vppOn
LEMMA FreeUntouched == FreeInv /\ UNCHANGED vppVars => FreeInv'
  BY DEF FreeInv, BackendSites, vppVars

\* Allocating adds one id to those in use, freeing takes one away.
LEMMA AllocCounts ==
    ASSUME TypeOK
    PROVE  /\ AfterAlloc(alloc).next - Len(AfterAlloc(alloc).free)
                 = alloc.next - Len(alloc.free) + 1
           /\ \A id \in Nat : /\ AfterFree(alloc, id).next = alloc.next
                              /\ Len(AfterFree(alloc, id).free) = Len(alloc.free) + 1
           /\ \A id \in Nat :
                 LET a == AfterFree(AfterAlloc(alloc), id) IN
                 a.next - Len(a.free) = alloc.next - Len(alloc.free)
  <1>1. alloc.free \in Seq(Nat) /\ alloc.next \in Nat /\ alloc \in [next : Nat, free : Seq(Nat)]
    BY DEF TypeOK
  <1>2. ASSUME NEW a \in [next : Nat, free : Seq(Nat)], NEW id \in Nat
        PROVE  /\ AfterFree(a, id).next = a.next
               /\ Len(AfterFree(a, id).free) = Len(a.free) + 1
    <2>1. AfterFree(a, id) = [a EXCEPT !.free = Append(@, id)]
      BY DEF AfterFree
    <2>2. AfterFree(a, id).next = a.next /\ AfterFree(a, id).free = Append(a.free, id)
      BY <2>1
    <2>3. Len(Append(a.free, id)) = Len(a.free) + 1
      OBVIOUS
    <2>. QED  BY <2>2, <2>3
  <1>3. /\ AfterAlloc(alloc) \in [next : Nat, free : Seq(Nat)]
        /\ AfterAlloc(alloc).next - Len(AfterAlloc(alloc).free)
              = alloc.next - Len(alloc.free) + 1
    <2>1. CASE alloc.free = <<>>
      BY <1>1, <2>1 DEF AfterAlloc
    <2>2. CASE alloc.free # <<>>
      <3>. DEFINE n == Len(alloc.free)
                  s == SubSeq(alloc.free, 1, n - 1)
      <3>1. n \in Nat \ {0}
        BY <1>1, <2>2, EmptySeq, LenProperties
      <3>2. n - 1 \in Int /\ \A i \in 1 .. n - 1 : alloc.free[i] \in Nat
        BY <1>1, <3>1, ElementOfSeq
      <3>3. Len(s) = IF 1 <= n - 1 THEN n - 1 - 1 + 1 ELSE 0
        BY <1>1, <3>2, SubSeqProperties
      <3>4. Len(s) = n - 1
        BY <3>1, <3>3
      <3>5. AfterAlloc(alloc).next = alloc.next /\ AfterAlloc(alloc).free = s
        BY <1>1, <2>2 DEF AfterAlloc
      <3>6. AfterAlloc(alloc) \in [next : Nat, free : Seq(Nat)]
        BY <1>1, AllocType
      <3>. HIDE DEF n, s
      <3>7. alloc.next - (n - 1) = alloc.next - n + 1
        BY <1>1, <3>1
      <3>. QED  BY <3>4, <3>5, <3>6, <3>7 DEF n
    <2>. QED  BY <2>1, <2>2
  <1>4. \A id \in Nat : Len(AfterFree(AfterAlloc(alloc), id).free) = Len(AfterAlloc(alloc).free) + 1
    BY <1>2, <1>3
  <1>5. \A id \in Nat : AfterFree(AfterAlloc(alloc), id).next = AfterAlloc(alloc).next
    BY <1>2, <1>3
  <1>6. Len(AfterAlloc(alloc).free) \in Nat /\ AfterAlloc(alloc).next \in Nat
    BY <1>3
  <1>. QED  BY <1>1, <1>2, <1>3, <1>4, <1>5, <1>6

\* A setup takes one id for one new backend site, or gives back what it took.
LEMMA FreeVppUp ==
    ASSUME TypeOK, FreeInv, vppOn, vppOn', NEW p \in Peers, VppUp(p)
    PROVE  FreeInv'
  <1>0. /\ vrfCache \in [Peers -> SiteVrfState] /\ vrfCache[p].child_sa_count \in Nat
        /\ Len(alloc.free) \in Nat /\ alloc.next \in Nat /\ AllocId(alloc) \in Nat
        /\ Cardinality(BackendSites) \in Nat
    BY AllocType, FS_CardinalityType DEF TypeOK, SiteVrfState, FreeInv, Ids
  <1>1. CASE vrfCache[p].child_sa_count > 0
    <2>1. UNCHANGED alloc /\ vrfCache' = [vrfCache EXCEPT ![p].child_sa_count = @ + 1]
      BY <1>1 DEF VppUp
    <2>2. \A q \in Peers : /\ vrfCache'[q].bypass = vrfCache[q].bypass
                           /\ vrfCache'[q].child_sa_count > 0
                                 <=> vrfCache[q].child_sa_count > 0
      BY <1>0, <1>1, <2>1 DEF SiteVrfState
    <2>3. BackendSites' = BackendSites
      BY <2>2 DEF BackendSites
    <2>. QED  BY <2>1, <2>3 DEF FreeInv
  <1>2. CASE ~(vrfCache[p].child_sa_count > 0)
    <2>1. PICK devs :
             \/ UNCHANGED <<vrfCache, alloc, routes>>
             \/ setup_site_bypass(p, devs)
             \/ setup_site_vrf(p, devs)
      BY <1>2 DEF VppUp
    <2>2. p \notin BackendSites
      BY <1>2 DEF BackendSites
    <2>3. CASE UNCHANGED <<vrfCache, alloc, routes>>
      BY <2>3 DEF FreeInv, BackendSites
    <2>4. CASE setup_site_bypass(p, devs)
      <3>1. UNCHANGED alloc /\ vrfCache'[p].bypass = TRUE
            /\ \A q \in Peers \ {p} : vrfCache'[q] = vrfCache[q]
        BY <1>0, <2>4 DEF setup_site_bypass, SiteUp
      <3>2. BackendSites' = BackendSites
        BY <2>2, <3>1 DEF BackendSites
      <3>. QED  BY <3>1, <3>2 DEF FreeInv
    <2>5. CASE /\ SiteUp(p, Outer, devs, FALSE, AllocId(alloc))
               /\ alloc' = AfterAlloc(alloc)
      <3>1. /\ vrfCache'[p].bypass = FALSE /\ vrfCache'[p].child_sa_count = 1
            /\ \A q \in Peers \ {p} : vrfCache'[q] = vrfCache[q]
        BY <1>0, <2>5 DEF SiteUp
      <3>2. BackendSites' = BackendSites \cup {p}
        BY <2>2, <3>1 DEF BackendSites
      <3>3. /\ IsFiniteSet(BackendSites')
            /\ Cardinality(BackendSites') = Cardinality(BackendSites) + 1
        BY <2>2, <3>2, FS_AddElement DEF FreeInv
      <3>4. AfterAlloc(alloc).next \in Nat /\ Len(AfterAlloc(alloc).free) \in Nat
        BY AllocType DEF TypeOK, Ids
      <3>. QED  BY <1>0, <2>5, <3>3, <3>4, AllocCounts DEF FreeInv
    <2>6. CASE /\ alloc' = AfterFree(AfterAlloc(alloc), AllocId(alloc))
               /\ UNCHANGED <<vrfCache, routes>>
      <3>1. BackendSites' = BackendSites
        BY <2>6 DEF BackendSites
      <3>2. alloc'.next - Len(alloc'.free) = alloc.next - Len(alloc.free)
        BY <1>0, <2>6, AllocCounts
      <3>3. alloc'.next \in Nat /\ Len(alloc'.free) \in Nat
        <4>1. AfterAlloc(alloc) \in Ids
          BY AllocType DEF TypeOK, Ids
        <4>2. alloc' \in Ids
          BY <1>0, <2>6, <4>1, AllocType DEF Ids
        <4>. QED  BY <4>2 DEF Ids
      <3>. QED  BY <1>0, <3>1, <3>2, <3>3 DEF FreeInv
    <2>. QED  BY <2>1, <2>3, <2>4, <2>5, <2>6 DEF setup_site_vrf
  <1>. QED  BY <1>1, <1>2

\* A teardown frees the id of its site.
LEMMA FreeVppDown ==
    ASSUME TypeOK, FreeInv, vppOn, vppOn', NEW p \in Peers, VppDown(p)
    PROVE  FreeInv'
  <1>0. /\ vrfCache \in [Peers -> SiteVrfState] /\ vrfCache[p] \in SiteVrfState
        /\ Len(alloc.free) \in Nat /\ alloc.next \in Nat
        /\ Cardinality(BackendSites) \in Nat
    BY FS_CardinalityType DEF TypeOK, FreeInv
  <1>1. CASE vrfCache[p].child_sa_count = 0
    BY <1>1 DEF VppDown, FreeInv, BackendSites
  <1>2. CASE vrfCache[p].child_sa_count > 1
    <2>1. UNCHANGED alloc /\ vrfCache' = [vrfCache EXCEPT ![p].child_sa_count = @ - 1]
      BY <1>2 DEF VppDown
    <2>2. \A q \in Peers : /\ vrfCache'[q].bypass = vrfCache[q].bypass
                           /\ vrfCache'[q].child_sa_count > 0
                                 <=> vrfCache[q].child_sa_count > 0
      BY <1>0, <1>2, <2>1 DEF SiteVrfState
    <2>3. BackendSites' = BackendSites
      BY <2>2 DEF BackendSites
    <2>. QED  BY <2>1, <2>3 DEF FreeInv
  <1>3. CASE vrfCache[p].child_sa_count = 1
    <2>1. /\ vrfCache' = [vrfCache EXCEPT ![p] = NoSite]
          /\ alloc' = IF vrfCache[p].bypass THEN alloc
                      ELSE AfterFree(alloc, vrfCache[p].ids)
      BY <1>3 DEF VppDown, teardown_site_bypass, teardown_site_vrf
    <2>2. /\ ~(vrfCache'[p].child_sa_count > 0)
          /\ \A q \in Peers \ {p} : vrfCache'[q] = vrfCache[q]
      BY <1>0, <2>1 DEF NoSite
    <2>3. BackendSites' = BackendSites \ {p}
      BY <2>2 DEF BackendSites
    <2>4. CASE vrfCache[p].bypass
      <3>1. BackendSites' = BackendSites
        BY <2>3, <2>4 DEF BackendSites
      <3>. QED  BY <2>1, <2>4, <3>1 DEF FreeInv
    <2>5. CASE ~vrfCache[p].bypass
      <3>1. p \in BackendSites
        BY <1>3, <2>5 DEF BackendSites
      <3>2. /\ IsFiniteSet(BackendSites')
            /\ Cardinality(BackendSites') = Cardinality(BackendSites) - 1
        BY <2>3, <3>1, FS_RemoveElement DEF FreeInv
      <3>3. /\ alloc'.next = alloc.next
            /\ Len(alloc'.free) = Len(alloc.free) + 1
        BY <1>0, <2>1, <2>5, AllocCounts DEF SiteVrfState
      <3>. QED  BY <1>0, <3>2, <3>3 DEF FreeInv
    <2>. QED  BY <2>4, <2>5
  <1>. QED  BY <1>1, <1>2, <1>3 DEF VppDown

\* Only the start of the process and the VPP halves touch what FreeInv is about.
LEMMA FreeNext ==
    ASSUME TypeOK, QueueInv, FreeInv, [Next]_vars
    PROVE  FreeInv'
  <1>1. CASE Start
    <2>1. vrfCache' = [p \in Peers |-> NoSite] /\ alloc' = FreshAlloc
      BY <1>1 DEF Start
    <2>2. BackendSites' = {}
      BY <2>1 DEF BackendSites, NoSite
    <2>3. alloc'.next = 0 /\ Len(alloc'.free) = 0
      BY <2>1 DEF FreshAlloc
    <2>. QED  BY <2>1, <2>2, <2>3, FS_EmptySet DEF FreeInv, NoSite
  <1>2. CASE FinishUp
    <2>1. PICK p \in Peers : work = VppHalf(p) /\ VppUp(p)
      BY <1>2 DEF FinishUp
    <2>2. vppOn /\ vppOn'
      BY <1>2, <2>1 DEF FinishUp, QueueInv
    <2>. QED  BY <2>1, <2>2, FreeVppUp
  <1>3. CASE HandleDown
    <2>1. Head(events).peer \in Peers
      BY <1>3, QueueType DEF HandleDown
    <2>2. CASE vppOn
      BY <1>3, <2>1, <2>2, FreeVppDown DEF HandleDown
    <2>3. CASE ~vppOn
      BY <1>3, <2>3, FreeUntouched DEF HandleDown, vppVars
    <2>. QED  BY <2>2, <2>3
  <1>4. CASE UNCHANGED vppVars
    BY <1>4, FreeUntouched
  <1>5. \/ Start \/ FinishUp \/ HandleDown
        \/ UNCHANGED vppVars
    BY DEF Next, TaskStep, ListSas, ReplayPeer, Reconcile, HandleUp, FinishDown, Crash,
           ChildUp, ChildDown, WriteRecord, vars
  <1>. QED  BY <1>1, <1>2, <1>3, <1>4, <1>5

\* When no two sites share a global_ip and faults have ended, then, whenever the
\* task is at rest and no tunnel is left, neither is a /32, an active_globals
\* element or an allocated id.
THEOREM NothingStaysBehind ==
    ASSUME DisjointSites, FaultyLives <= CheckedFrom
    PROVE  Spec => []NothingLeftBehind
  <1>1. SiteInv /\ FreeInv /\ RoutesMatchTunnels => NothingLeftBehind
    <2>. SUFFICES ASSUME SiteInv, FreeInv, RoutesMatchTunnels, Checked, Settled,
                         \A p \in Peers : sas[p] = 0
                  PROVE  /\ \A g \in Globals : routes[g] = NoRoute
                         /\ activeGlobals = {}
                         /\ Len(alloc.free) = alloc.next
      BY DEF NothingLeftBehind
    <2>1. Repaired /\ TypeOK
      BY ConstantsAssumption DEF ConstantsAssumption, Checked, Repaired, TypeOK, SiteInv
    <2>2. \A p \in Peers : /\ routeCache[p].child_sa_count = 0
                           /\ vrfCache[p].child_sa_count = 0
      BY <2>1, SettledCounts DEF FreeInv
    <2>3. \A g \in Globals : routes[g] = NoRoute
      <3>1. \A g \in Globals :
               {p \in Peers : sas[p] > 0 /\ g \in natRec[p].device_nat} = {}
        OBVIOUS
      <3>. QED  BY <3>1 DEF RoutesMatchTunnels
    <2>4. activeGlobals = {}
      <3>1. \A p \in Peers : routeCache[p].global_ips = {}
        BY <2>2 DEF SiteInv, CacheInv
      <3>2. cached_global_ips = {}
        BY <3>1 DEF cached_global_ips
      <3>. QED  BY <2>1, <3>2 DEF SiteInv, CacheInv, Settled
    <2>5. Len(alloc.free) = alloc.next
      <3>1. BackendSites = {}
        BY <2>2 DEF BackendSites
      <3>2. Len(alloc.free) \in Nat /\ alloc.next \in Nat
        BY <2>1 DEF TypeOK
      <3>. QED  BY <3>1, <3>2, FS_EmptySet DEF FreeInv
    <2>. QED  BY <2>3, <2>4, <2>5
  <1>2. Init => FreeInv
    <2>. SUFFICES ASSUME Init PROVE FreeInv
      OBVIOUS
    <2>1. BackendSites = {} /\ \A p \in Peers : vrfCache[p].child_sa_count = 0
      BY DEF Init, BackendSites, NoSite
    <2>2. alloc.next = 0 /\ Len(alloc.free) = 0
      BY DEF Init, FreshAlloc
    <2>. QED  BY <2>1, <2>2, FS_EmptySet DEF FreeInv
  <1>3. SiteInv /\ FreeInv /\ [Next]_vars => FreeInv'
    BY FreeNext DEF SiteInv
  <1>. QED  BY <1>1, <1>2, <1>3, SiteInvHolds, RoutesFollowTunnels, PTL DEF Spec

-----------------------------------------------------------------------------
\* Every step is one of SiteAdvertisement's or none

\* The records of a site differ in their mode only.
SameDevices ==
    \A p \in Peers : \A rec, other \in Provisioned[p] \ {NoRecord} :
        rec.device_nat = other.device_nat

\* A site's record has the devices it may have, or there is none.
LEMMA RecordDevices ==
    ASSUME SameDevices, CacheInv, NEW p \in Peers
    PROVE  natRec[p] = NoRecord \/ natRec[p].device_nat = DevicesOf(p)
  <1>. SUFFICES ASSUME natRec[p] # NoRecord
                PROVE  natRec[p].device_nat = DevicesOf(p)
    OBVIOUS
  <1>1. natRec[p] \in Provisioned[p] \ {NoRecord}
    BY DEF CacheInv
  <1>2. \A rec \in Provisioned[p] : rec = NoRecord \/ rec.device_nat = natRec[p].device_nat
    BY <1>1 DEF SameDevices
  <1>3. NoRecord.device_nat = {}
    BY DEF NoRecord
  <1>. QED  BY <1>1, <1>2, <1>3 DEF DevicesOf

\* Only the nat half of an UP advertises: the VPP halves replace a /32 that is there.
LEMMA AdvertisedStep ==
    ASSUME DisjointSites, SiteInv, Repaired, [Next]_vars,
           NEW g \in Globals, routes[g] = NoRoute, routes'[g] # NoRoute
    PROVE  \E p \in Peers : /\ g \in natRec[p].device_nat /\ UNCHANGED natRec
                            /\ proc' \in {"replaying", "serving"}
                            /\ work' # NatHalf(p)
                            /\ routeCache'[p].child_sa_count > 0
  <1>. DEFINE Present(p) == \A d \in natRec[p].device_nat : routes[d] # NoRoute
  <1>1. TypeOK /\ CacheInv /\ QueueInv /\ CountInv /\ RouteInv
    BY DEF SiteInv
  <1>2. ASSUME NEW p \in Peers, proc \in {"replaying", "serving"},
               routeCache[p].child_sa_count > 0
        PROVE  Present(p)
    <2>1. CachedRight(p)
      BY <1>1, <1>2 DEF RouteInv, Serves
    <2>2. Forwarding(p) # NoRoute \/ ~vppOn
      BY RoutesDiffer DEF Forwarding
    <2>. QED  BY <1>2, <2>1, <2>2, RoutesDiffer DEF CachedRight
  <1>3. CASE HandleUp \/ \E p \in Peers : ReplayPeer(p)
    <2>1. PICK p \in Peers : NatUp(p) /\ work' \in {VppHalf(p), NoWork}
      BY <1>1, <1>3, QueueType DEF HandleUp, ReplayPeer
    <2>2. UNCHANGED natRec /\ proc' \in {"replaying", "serving"}
      BY <1>3 DEF HandleUp, ReplayPeer, envVars
    <2>3. /\ routes' = Routed(natRec[p].device_nat, Blackhole)
          /\ routeCache' = IF natRec[p].device_nat = {} THEN routeCache
                           ELSE [routeCache EXCEPT ![p] = [global_ips |-> natRec[p].device_nat,
                                                           child_sa_count |-> 1]]
      BY <1>1, <2>1, NatUpClean
    <2>4. g \in natRec[p].device_nat
      BY <2>3 DEF Routed
    <2>5. routeCache'[p].child_sa_count = 1
      BY <1>1, <2>3, <2>4 DEF TypeOK
    <2>. QED  BY <2>1, <2>2, <2>4, <2>5, HalvesDiffer
  <1>4. CASE FinishUp
    <2>1. PICK p \in Peers : work = VppHalf(p) /\ VppUp(p)
      BY <1>4 DEF FinishUp
    <2>2. proc \in {"replaying", "serving"} /\ vppOn
      BY <1>1, <1>4, <2>1 DEF FinishUp, QueueInv
    <2>3. /\ vrfCache[p].child_sa_count = 0 /\ natRec[p] # NoRecord
          /\ \E via : routes' = Routed(natRec[p].device_nat, via)
      BY <1>1, <2>1, VppUpClean DEF SiteUp, NoRecord
    <2>4. g \in natRec[p].device_nat
      BY <2>3 DEF Routed
    <2>5. NatCount(p) /\ VppCount(p) /\ work # NatHalf(p) /\ Told(p) \in Int
      BY <1>1, <2>1, <2>2, HalvesDiffer, ToldType DEF CountInv
    <2>6. routeCache[p].child_sa_count = 1
      BY <2>1, <2>2, <2>3, <2>4, <2>5 DEF NatCount, VppCount, One
    <2>. QED  BY <1>2, <2>2, <2>4, <2>6
  <1>5. CASE HandleDown
    <2>1. PICK p \in Peers : vppOn /\ VppDown(p)
      BY <1>1, <1>5, QueueType DEF HandleDown
    <2>2. proc = "serving" /\ work = NoWork
      BY <1>5 DEF HandleDown
    <2>3. vrfCache[p].child_sa_count = 1 /\ routes' = Routed(vrfCache[p].devices, Blackhole)
      BY <1>1, <2>1, VppDownClean
    <2>4. g \in natRec[p].device_nat
      BY <1>1, <2>1, <2>2, <2>3 DEF Routed, RouteInv, Serves, VrfRight
    <2>5. NatCount(p) /\ VppCount(p) /\ work # NatHalf(p) /\ work # VppHalf(p) /\ Told(p) \in Int
      BY <1>1, <2>1, <2>2, HalvesDiffer, ToldType DEF CountInv
    <2>6. natRec[p] # NoRecord
      BY <2>4 DEF NoRecord
    <2>7. routeCache[p].child_sa_count = 1
      BY <2>1, <2>3, <2>4, <2>5, <2>6 DEF NatCount, VppCount, One
    <2>. QED  BY <1>2, <2>2, <2>4, <2>7
  <1>6. CASE FinishDown
    <2>1. PICK p \in Peers : NatDown(p)
      BY <1>6 DEF FinishDown
    <2>2. routes' = routes \/ \E S : routes' = Routed(S, NoRoute)
      BY <1>1, <2>1, NatDownClean
    <2>. QED  BY <2>2 DEF Routed
  <1>7. CASE Reconcile
    BY <1>1, <1>7, NoFaultsLeft DEF Reconcile, Routed
  <1>8. CASE Start
    BY <1>8 DEF Start, Routed
  <1>9. CASE \/ ListSas \/ Crash \/ UNCHANGED vars
             \/ \E p \in Peers : ChildUp(p) \/ ChildDown(p) \/ WriteRecord(p)
    BY <1>9 DEF ListSas, Crash, ChildUp, ChildDown, WriteRecord, vars
  <1>. QED  BY <1>3, <1>4, <1>5, <1>6, <1>7, <1>8, <1>9 DEF Next, TaskStep

\* What the mapping needs of a state: a site has a number of tunnels by what the
\* task has been told, and only devices of sites are advertised.
Mapped ==
    /\ \A p \in Peers : Seen(p) \in Nat /\ Seen(p) = Owed(p, 0)
    /\ \A g \in Globals : routes[g] # NoRoute => \E p \in Peers : g \in DevicesOf(p)

\* Both hold of every reachable state.
LEMMA MappedHolds ==
    ASSUME DisjointSites, FaultyLives = 0
    PROVE  Spec => []Mapped
  <1>. DEFINE Owned == \A g \in Globals : routes[g] # NoRoute => \E p \in Peers : g \in DevicesOf(p)
  <1>1. SiteInv => \A p \in Peers : Seen(p) \in Nat /\ Seen(p) = Owed(p, 0)
    BY SeenOwed, OwedType DEF SiteInv, QueueInv
  <1>2. Init => Owned
    BY DEF Init
  <1>3. SiteInv /\ Owned /\ [Next]_vars => Owned'
    <2>. SUFFICES ASSUME SiteInv, Owned, [Next]_vars, NEW g \in Globals, routes'[g] # NoRoute
                  PROVE  \E p \in Peers : g \in DevicesOf(p)
      BY DEF DevicesOf, NoRoute
    <2>1. CASE routes[g] # NoRoute
      BY <2>1
    <2>2. CASE routes[g] = NoRoute
      <3>1. Repaired
        BY DEF Repaired, SiteInv, TypeOK
      <3>2. PICK p \in Peers : g \in natRec[p].device_nat
        BY <2>2, <3>1, AdvertisedStep
      <3>. QED  BY <3>2 DEF SiteInv, CacheInv, DevicesOf
    <2>. QED  BY <2>1, <2>2
  <1>4. Owned /\ (\A p \in Peers : Seen(p) \in Nat /\ Seen(p) = Owed(p, 0)) => Mapped
    BY DEF Mapped
  <1>. QED  BY <1>1, <1>2, <1>3, <1>4, SiteInvHolds, PTL DEF Spec

\* A step that changes a record changes no route.
LEMMA RecordOrRoutes == [Next]_vars => UNCHANGED natRec \/ UNCHANGED routes
  BY DEF Next, TaskStep, Start, ListSas, ReplayPeer, Reconcile, HandleUp, FinishUp,
         HandleDown, FinishDown, Crash, ChildUp, ChildDown, WriteRecord, vars, envVars

\* Without faults, and when no two sites share a global_ip and a site's records
\* have the same devices, SiteDataPlane implements the safety part of
\* SiteAdvertisement: it starts as it does, and each of its steps is a Follow step
\* or changes nothing of the advertisement.
THEOREM FollowsAdvertisement ==
    ASSUME DisjointSites, SameDevices, FaultyLives = 0
    PROVE  Spec => Advertisement!AbsSafety
  <1>1. Init => Advertisement!AbsInit
    <2>. SUFFICES ASSUME Init
                  PROVE  Advertisement!AbsInit
      OBVIOUS
    <2>1. \A p \in Peers : Seen(p) = 0
      <3>1. TypeOK /\ Len(events) = 0 /\ \A p \in Peers : sas[p] = 0
        BY InitType, EmptySeq DEF Init
      <3>. QED  BY <3>1, SeenOwed, OwedType
    <2>. QED  BY <2>1 DEF Init, Advertisement!AbsInit
  <1>2. SiteInv /\ SiteInv' /\ Mapped' /\ [Next]_vars
           => [Advertisement!Follow]_(Advertisement!absVars)
    <2>. SUFFICES ASSUME SiteInv, SiteInv', Mapped', [Next]_vars
                  PROVE  Advertisement!Follow
      OBVIOUS
    <2>. DEFINE told == [p \in Peers |-> IF natRec[p] = NoRecord THEN 0 ELSE Seen(p)]
                live == {g \in Globals : routes[g] # NoRoute}
    <2>1. Repaired /\ Repaired'
      BY DEF Repaired, SiteInv, TypeOK
    <2>2. told' \in [Peers -> Nat]
      BY DEF Mapped
    <2>3. live' \subseteq UNION {DevicesOf(p) : p \in Peers}
      BY DEF Mapped, NoRoute, DevicesOf
    <2>4. ASSUME NEW s \in Peers, NEW d \in DevicesOf(s), d \in live' \ live
          PROVE  told'[s] > 0
      <3>1. PICK p \in Peers : /\ d \in natRec[p].device_nat /\ UNCHANGED natRec
                               /\ proc' \in {"replaying", "serving"}
                               /\ work' # NatHalf(p)
                               /\ routeCache'[p].child_sa_count > 0
        BY <2>1, <2>4, AdvertisedStep DEF NoRoute
      <3>2. p = s
        <4>1. d \in DevicesOf(p)
          BY <3>1 DEF SiteInv, CacheInv, DevicesOf
        <4>. QED  BY <2>4, <4>1 DEF DisjointSites
      <3>3. NatCount(s)' /\ natRec'[s].device_nat # {}
        BY <2>1, <3>1, <3>2 DEF SiteInv, CountInv
      <3>4. Told(s)' = Seen(s)' - todo'[s] /\ todo'[s] \in Nat /\ Seen(s)' \in Nat
        BY DEF Told, Mapped, SiteInv, TypeOK
      <3>5. Told(s)' > 0
        <4>1. routeCache'[s].child_sa_count = Told(s)' + One(work' = NatHalf(s))
          BY <3>3 DEF NatCount, NatHalf, One
        <4>2. One(work' = NatHalf(s)) = 0
          BY <3>1, <3>2 DEF One
        <4>. QED  BY <3>1, <3>2, <3>4, <4>1, <4>2 DEF One
      <3>6. Seen(s)' > 0 /\ natRec'[s] # NoRecord
        BY <3>3, <3>4, <3>5 DEF NoRecord
      <3>. QED  BY <3>6 DEF NoRecord
    <2>5. ASSUME NEW s \in Peers, NEW d \in DevicesOf(s), d \in live \ live',
                 ~(proc = "down" /\ proc' # "down")
          PROVE  ~(told'[s] > 0)
      <3>1. d \in Globals /\ routes[d] # NoRoute /\ routes'[d] = NoRoute
        BY <2>5 DEF NoRoute
      <3>2. UNCHANGED natRec
        BY <3>1, RecordOrRoutes
      <3>3. CASE natRec[s] = NoRecord
        BY <3>2, <3>3 DEF NoRecord
      <3>4. CASE natRec[s] # NoRecord
        <4>1. d \in natRec[s].device_nat
          BY <2>5, <3>4, RecordDevices DEF SiteInv
        <4>2. proc # "down"
          BY <2>5, <3>1 DEF Next, TaskStep, Start, ListSas, ReplayPeer, Reconcile, HandleUp,
                    FinishUp, HandleDown, FinishDown, Crash, ChildUp, ChildDown,
                    WriteRecord, vars
        <4>3. Seen(s)' = 0
          BY <2>1, <3>1, <4>1, <4>2, WithdrawnStep
        <4>. QED  BY <4>3
      <3>. QED  BY <3>3, <3>4
    <2>. HIDE DEF told, live
    <2>6. /\ \A s \in Peers : \A d \in DevicesOf(s) :
                /\ d \in live' \ live => told'[s] > 0
                /\ d \in live \ live' => ~(told'[s] > 0) \/ (~(proc # "down") /\ (proc # "down")')
      BY <2>4, <2>5
    <2>. USE DEF told, live
    <2>. QED  BY <2>2, <2>3, <2>6
              DEF Advertisement!Follow, Advertisement!Up, Advertisement!AllDevices
  <1>. QED  BY <1>1, <1>2, SiteInvHolds, MappedHolds, PTL DEF Spec, Advertisement!AbsSafety

=============================================================================
