--------------------------- MODULE ProxyPoolProofs ---------------------------
(***************************************************************************)
(* Theorems about ProxyPool for every set of LVS nodes, VPN nodes, proxies *)
(* and devices, and every combination of faults: type correctness, and     *)
(* that a node's bindings follow its DNAT chain in both directions -- none *)
(* outlives its proxy, and none is dropped while its pool only grows.      *)
(***************************************************************************)
EXTENDS ProxyPool, TLAPS

-----------------------------------------------------------------------------
\* Type correctness

\* The initial values have their types.
LEMMA InitPoolType == Init => PoolTypeOK
  BY PoolAssumption DEF Init, PoolTypeOK, Unpinned

\* A snapshot is a set of proxies, present or not.
LEMMA SnapshotType == PoolTypeOK => Snapshot \in SUBSET Proxies
  BY DEF PoolTypeOK, Snapshot

\* The first half of a cycle keeps the types.
LEMMA LookType ==
    ASSUME PoolTypeOK, NEW l \in Lvms, Look(l)
    PROVE  PoolTypeOK'
  <1>1. Forgotten(l) \in (SUBSET Proxies) \cup {NoSet}
    BY DEF PoolTypeOK, Forgotten
  <1>2. failures' \in Nat
    BY DEF Look, Fail, PoolTypeOK
  <1>3. lastProxy' \in [Lvms -> (SUBSET Proxies) \cup {NoSet}]
    BY <1>1 DEF Look, PoolTypeOK
  <1>4. pc' \in [Lvms -> {"idle", "set"}] /\ seen' \in [Lvms -> SUBSET Proxies]
    BY DEF Look, PoolTypeOK
  <1>5. wasMaster' \in [Lvms -> BOOLEAN] /\ overlooked' \subseteq Lvms
    BY DEF Look, PoolTypeOK
  <1>. QED
    BY <1>2, <1>3, <1>4, <1>5 DEF Look, PoolTypeOK, nodeVars

\* So does the SET, done or failed.
LEMMA PublishType ==
    ASSUME PoolTypeOK, NEW l \in Lvms, Publish(l)
    PROVE  PoolTypeOK'
  <1>1. failures' \in Nat
    BY DEF Publish, Fail, PoolTypeOK
  <1>2. seen[l] \in SUBSET Proxies
    BY DEF PoolTypeOK
  <1>3. /\ pool' \in (SUBSET Proxies) \cup {NoSet}
        /\ lastProxy' \in [Lvms -> (SUBSET Proxies) \cup {NoSet}]
        /\ overlooked' \subseteq Lvms
    BY <1>2 DEF Publish, PoolTypeOK
  <1>. QED
    BY <1>1, <1>3 DEF Publish, PoolTypeOK, nodeVars

\* A role file says master or not.
LEMMA ChangeRoleType ==
    ASSUME PoolTypeOK, NEW l \in Lvms, NEW master \in BOOLEAN, ChangeRole(l, master)
    PROVE  PoolTypeOK'
  <1>1. role' \in [Lvms -> BOOLEAN]
    BY Zenon DEF ChangeRole, PoolTypeOK
  <1>2. roles' \in Nat
    BY DEF ChangeRole, PoolTypeOK
  <1>. QED
    BY <1>1, <1>2 DEF ChangeRole, PoolTypeOK, nodeVars, lvmVars

\* The steps of reconcile_pool keep the types.
LEMMA ConsumerType ==
    ASSUME PoolTypeOK, NEW n \in Nodes, Consumer(n)
    PROVE  PoolTypeOK'
  <1>1. CASE GetPool(n)
    BY <1>1, SnapshotType DEF GetPool, PoolTypeOK, lvmVars
  <1>2. CASE apply_proxy_pool(n)
    <2>1. got[n] \in SUBSET Proxies
      BY DEF PoolTypeOK
    <2>2. failures' \in Nat
      BY <1>2 DEF apply_proxy_pool, Fail, PoolTypeOK
    <2>3. chain' \in [Nodes -> SUBSET Proxies]
      BY <1>2, <2>1 DEF apply_proxy_pool, PoolTypeOK
    <2>4. /\ step' \in [Nodes -> {"idle", "apply", "flush"}]
          /\ got' \in [Nodes -> SUBSET Proxies]
          /\ last' \in [Nodes -> (SUBSET Proxies) \cup {NoSet}]
      BY <1>2, <2>1 DEF apply_proxy_pool, Idle, PoolTypeOK
    <2>. QED
      BY <1>2, <2>2, <2>3, <2>4 DEF apply_proxy_pool, PoolTypeOK, lvmVars
  <1>3. CASE conntrack_flush(n)
    <2>1. got[n] \in SUBSET Proxies
      BY DEF PoolTypeOK
    <2>2. failures' \in Nat
      BY <1>3 DEF conntrack_flush, Fail, PoolTypeOK
    <2>3. pinned' \in [Nodes -> [Devices -> Proxies \cup {RealIp, NoBinding}]]
      BY <1>3 DEF conntrack_flush, Unpinned, PoolTypeOK
    <2>4. /\ step' \in [Nodes -> {"idle", "apply", "flush"}]
          /\ got' \in [Nodes -> SUBSET Proxies]
          /\ last' \in [Nodes -> (SUBSET Proxies) \cup {NoSet}]
      BY <1>3, <2>1 DEF conntrack_flush, Idle, PoolTypeOK
    <2>. QED
      BY <1>3, <2>2, <2>3, <2>4 DEF conntrack_flush, PoolTypeOK, lvmVars
  <1>. QED  BY <1>1, <1>2, <1>3 DEF Consumer

\* What vpp::init builds, or leaves behind
LEMMA RestartType ==
    ASSUME PoolTypeOK, NEW n \in Nodes, RestartNode(n)
    PROVE  PoolTypeOK'
  <1>1. Unpinned \in [Devices -> Proxies \cup {RealIp, NoBinding}]
    BY DEF Unpinned
  <1>2. /\ chain' \in {chain, [chain EXCEPT ![n] = {}]}
        /\ pinned' \in {pinned, [pinned EXCEPT ![n] = Unpinned]}
    BY DEF RestartNode, Remains
  <1>3. chain' \in [Nodes -> SUBSET Proxies]
    BY <1>2 DEF PoolTypeOK
  <1>4. pinned' \in [Nodes -> [Devices -> Proxies \cup {RealIp, NoBinding}]]
    BY <1>1, <1>2 DEF PoolTypeOK
  <1>5. managed' \subseteq Nodes /\ unflushed' \subseteq Nodes /\ failures' \in Nat
    BY DEF RestartNode, Fail, PoolTypeOK
  <1>6. /\ step' \in [Nodes -> {"idle", "apply", "flush"}]
        /\ got' \in [Nodes -> SUBSET Proxies]
        /\ last' \in [Nodes -> (SUBSET Proxies) \cup {NoSet}]
        /\ lives' \in [Nodes -> Nat] /\ restarts' \in Nat
        /\ UNCHANGED <<healthy, role, lvmVars, pool, health, roles>>
    BY DEF RestartNode, Idle, PoolTypeOK
  <1>. QED
    BY <1>3, <1>4, <1>5, <1>6 DEF PoolTypeOK, lvmVars

\* A new connection is bound to a proxy or to the backend's own address.
LEMMA NewConnectionType ==
    ASSUME PoolTypeOK, NEW n \in Nodes, NEW d \in Devices, NewConnection(n, d)
    PROVE  PoolTypeOK'
  <1>1. PICK p \in Targets(n) : pinned' = [pinned EXCEPT ![n][d] = p]
    BY DEF NewConnection
  <1>2. p \in Proxies \cup {RealIp, NoBinding}
    BY DEF Targets, PoolTypeOK
  <1>3. [pinned[n] EXCEPT ![d] = p] \in [Devices -> Proxies \cup {RealIp, NoBinding}]
    BY <1>2 DEF PoolTypeOK
  <1>4. pinned' \in [Nodes -> [Devices -> Proxies \cup {RealIp, NoBinding}]]
    BY <1>1, <1>3 DEF PoolTypeOK
  <1>. QED  BY <1>4 DEF NewConnection, PoolTypeOK, lvmVars

\* Every step keeps the types.
LEMMA NextPoolType == PoolTypeOK /\ [Next]_vars => PoolTypeOK'
  <1> SUFFICES ASSUME PoolTypeOK, [Next]_vars PROVE PoolTypeOK'
    OBVIOUS
  <1>1. ASSUME NEW l \in Lvms, Publisher(l) PROVE PoolTypeOK'
    BY <1>1, LookType, PublishType DEF Publisher
  <1>2. ASSUME NEW l \in Lvms, RestartPublisher(l) PROVE PoolTypeOK'
    BY <1>2 DEF RestartPublisher, PoolTypeOK, nodeVars
  <1>3. ASSUME NEW l \in Lvms, Promote(l) \/ Demote(l) PROVE PoolTypeOK'
    BY <1>3, ChangeRoleType DEF Promote, Demote
  <1>4. ASSUME NEW n \in Nodes, Consumer(n) PROVE PoolTypeOK'
    BY <1>4, ConsumerType
  <1>5. ASSUME NEW n \in Nodes, RestartNode(n) PROVE PoolTypeOK'
    BY <1>5, RestartType
  <1>6. ASSUME NEW n \in Nodes, NEW d \in Devices, NewConnection(n, d) PROVE PoolTypeOK'
    BY <1>6, NewConnectionType
  <1>7. CASE ProxyChanges
    BY <1>7 DEF ProxyChanges, PoolTypeOK, nodeVars, lvmVars
  <1>8. CASE UNCHANGED vars
    BY <1>8 DEF vars, nodeVars, lvmVars, PoolTypeOK
  <1>. QED
    BY <1>1, <1>2, <1>3, <1>4, <1>5, <1>6, <1>7, <1>8 DEF Next

\* Every variable keeps its type, whatever fails and whoever is master.
THEOREM PoolTypeCorrect == Spec => []PoolTypeOK
  <1>. QED  BY InitPoolType, NextPoolType, PTL DEF Spec

-----------------------------------------------------------------------------
\* The bindings follow the chain

\* Between runs of reconcile_pool the chain is what was last applied, or empty
\* before the first, if vpp::init has built it; while the flush is pending it is
\* the new snapshot, from which a member of the last one is missing.
ChainOf(n) ==
    /\ step[n] # "flush" /\ last[n] # NoSet => chain[n] = last[n]
    /\ last[n] = NoSet => n \in unflushed \/ chain[n] = {}
    /\ step[n] = "flush" => HadRemoval(n) /\ chain[n] = got[n]

BindingsOf(n) ==
    step[n] # "flush" /\ n \notin unflushed =>
        \A d \in Devices : pinned[n][d] \in chain[n] \cup {RealIp, NoBinding}

\* The inductive invariant: without ChainOf, a new chain that replaces another
\* one without a flush could lose a member that a device is pinned to.
PoolInv == \A n \in Nodes : ChainOf(n) /\ BindingsOf(n)

\* A step that leaves the state of node n alone keeps its invariant.
LEMMA OtherNode ==
    ASSUME NEW n \in Nodes, ChainOf(n), BindingsOf(n),
           step'[n] = step[n], got'[n] = got[n], last'[n] = last[n],
           chain'[n] = chain[n], pinned'[n] = pinned[n],
           n \in unflushed' <=> n \in unflushed
    PROVE  ChainOf(n)' /\ BindingsOf(n)'
  BY DEF ChainOf, BindingsOf, HadRemoval

\* Reading the pool changes neither the chain nor a binding.
LEMMA GetPoolInv ==
    ASSUME PoolTypeOK, NEW n \in Nodes, ChainOf(n), BindingsOf(n), GetPool(n)
    PROVE  ChainOf(n)' /\ BindingsOf(n)'
  <1>1. step[n] = "idle" /\ step'[n] = "apply"
    BY DEF GetPool, PoolTypeOK
  <1>. QED
    BY <1>1 DEF GetPool, ChainOf, BindingsOf

\* Without a removal the new chain holds every member of the old one.
LEMMA ApplyInv ==
    ASSUME PoolTypeOK, NEW n \in Nodes, ChainOf(n), BindingsOf(n), apply_proxy_pool(n)
    PROVE  ChainOf(n)' /\ BindingsOf(n)'
  <1>1. /\ step[n] = "apply"
        /\ got[n] \in SUBSET Proxies /\ got[n] # NoSet
        /\ UNCHANGED <<pinned, unflushed>>
    BY PoolAssumption DEF apply_proxy_pool, PoolTypeOK
  <1>2. CASE /\ HadRemoval(n)
             /\ chain' = [chain EXCEPT ![n] = got[n]]
             /\ step' = [step EXCEPT ![n] = "flush"]
             /\ UNCHANGED <<got, last>>
    <2>1. /\ chain'[n] = got[n] /\ step'[n] = "flush"
          /\ UNCHANGED <<got, last>>
      BY <1>2 DEF PoolTypeOK
    <2>. QED  BY <1>1, <1>2, <2>1 DEF ChainOf, BindingsOf, HadRemoval
  <1>3. CASE /\ ~HadRemoval(n)
             /\ chain' = [chain EXCEPT ![n] = got[n]]
             /\ last' = [last EXCEPT ![n] = got[n]]
             /\ Idle(n)
    <2>1. /\ chain'[n] = got[n] /\ last'[n] = got[n]
          /\ step'[n] = "idle"
      BY <1>3 DEF PoolTypeOK, Idle
    <2>2. n \notin unflushed => chain[n] \subseteq got[n]
      BY <1>1, <1>3 DEF HadRemoval, ChainOf
    <2>. QED  BY <1>1, <2>1, <2>2 DEF ChainOf, BindingsOf
  <1>4. CASE Idle(n) /\ UNCHANGED <<chain, last>>
    <2>1. step'[n] = "idle"
      BY <1>4 DEF Idle, PoolTypeOK
    <2>. QED  BY <1>1, <1>4, <2>1 DEF apply_proxy_pool, ChainOf, BindingsOf
  <1>. QED
    BY <1>2, <1>3, <1>4 DEF apply_proxy_pool

\* After the flush nothing is pinned, and last is the chain.
LEMMA FlushInv ==
    ASSUME PoolTypeOK, NEW n \in Nodes, ChainOf(n), BindingsOf(n), conntrack_flush(n)
    PROVE  ChainOf(n)' /\ BindingsOf(n)'
  <1>1. /\ chain[n] = got[n] /\ last'[n] = got[n] /\ step'[n] = "idle"
        /\ got[n] # NoSet /\ UNCHANGED chain
    BY PoolAssumption DEF conntrack_flush, ChainOf, PoolTypeOK, Idle
  <1>2. ASSUME n \notin unflushed', NEW d \in Devices
        PROVE  pinned'[n][d] = NoBinding
    BY <1>2 DEF conntrack_flush, Unpinned, PoolTypeOK
  <1>. QED  BY <1>1, <1>2 DEF ChainOf, BindingsOf

\* A node that has started has an empty chain and no binding, or is unflushed.
LEMMA RestartInv ==
    ASSUME PoolTypeOK, NEW n \in Nodes, RestartNode(n)
    PROVE  ChainOf(n)' /\ BindingsOf(n)'
  <1>1. step'[n] = "idle" /\ last'[n] = NoSet
    BY DEF RestartNode, Idle, PoolTypeOK
  <1>2. n \in unflushed' \/ (chain'[n] = {} /\ pinned'[n] = Unpinned)
    BY DEF RestartNode, PoolTypeOK
  <1>. QED  BY <1>1, <1>2 DEF ChainOf, BindingsOf, Unpinned

\* A new binding is within the chain.
LEMMA NewConnectionInv ==
    ASSUME PoolTypeOK, NEW n \in Nodes, NEW e \in Devices, ChainOf(n), BindingsOf(n),
           NewConnection(n, e)
    PROVE  ChainOf(n)' /\ BindingsOf(n)'
  <1>1. UNCHANGED <<step, got, last, chain, lives, unflushed>>
    BY DEF NewConnection
  <1>2. PICK p \in Targets(n) : pinned' = [pinned EXCEPT ![n][e] = p]
    BY DEF NewConnection
  <1>3. p \in chain[n] \cup {RealIp}
    BY DEF Targets
  <1>4. \A d \in Devices : pinned'[n][d] = IF d = e THEN p ELSE pinned[n][d]
    BY <1>2 DEF PoolTypeOK
  <1>. QED  BY <1>1, <1>3, <1>4 DEF ChainOf, BindingsOf, HadRemoval

\* What a step of node n leaves alone
LEMMA OneNode ==
    ASSUME PoolTypeOK, NEW n \in Nodes, NEW k \in Nodes, k # n,
           \/ Consumer(n) \/ RestartNode(n) \/ \E d \in Devices : NewConnection(n, d)
    PROVE  /\ step'[k] = step[k] /\ got'[k] = got[k] /\ last'[k] = last[k]
           /\ chain'[k] = chain[k] /\ pinned'[k] = pinned[k] /\ lives'[k] = lives[k]
           /\ k \in unflushed' <=> k \in unflushed
  <1>1. CASE GetPool(n)
    BY <1>1 DEF GetPool, PoolTypeOK
  <1>2. CASE apply_proxy_pool(n)
    BY <1>2 DEF apply_proxy_pool, Idle, PoolTypeOK
  <1>3. CASE conntrack_flush(n)
    BY <1>3 DEF conntrack_flush, Idle, PoolTypeOK
  <1>4. CASE RestartNode(n)
    BY <1>4 DEF RestartNode, Remains, Idle, PoolTypeOK
  <1>5. ASSUME NEW d \in Devices, NewConnection(n, d)
        PROVE  /\ pinned'[k] = pinned[k]
               /\ UNCHANGED <<step, got, last, chain, lives, unflushed>>
    BY <1>5 DEF NewConnection, PoolTypeOK
  <1>. QED  BY <1>1, <1>2, <1>3, <1>4, <1>5 DEF Consumer

\* Every step keeps every node's invariant: one node acts at a time.
LEMMA PoolInvStep == PoolTypeOK /\ PoolInv /\ [Next]_vars => PoolInv'
  <1> SUFFICES ASSUME PoolTypeOK, PoolInv, [Next]_vars, NEW k \in Nodes
               PROVE  ChainOf(k)' /\ BindingsOf(k)'
    BY DEF PoolInv
  <1>0. ChainOf(k) /\ BindingsOf(k)
    BY DEF PoolInv
  <1>1. CASE UNCHANGED <<step, got, last, chain, pinned, unflushed>>
    BY <1>0, <1>1, OtherNode
  <1>2. ASSUME NEW n \in Nodes,
               \/ Consumer(n) \/ RestartNode(n) \/ \E d \in Devices : NewConnection(n, d)
        PROVE  ChainOf(k)' /\ BindingsOf(k)'
    <2>1. CASE k = n
      BY <1>0, <1>2, <2>1, GetPoolInv, ApplyInv, FlushInv, RestartInv, NewConnectionInv
      DEF Consumer
    <2>2. CASE k # n
      BY <1>0, <1>2, <2>2, OneNode, OtherNode
    <2>. QED  BY <2>1, <2>2
  <1>3. \/ UNCHANGED <<step, got, last, chain, pinned, unflushed>>
        \/ \E n \in Nodes :
              \/ Consumer(n) \/ RestartNode(n) \/ \E d \in Devices : NewConnection(n, d)
    BY DEF Next, Publisher, Look, Publish, RestartPublisher, Promote, Demote, ChangeRole,
           ProxyChanges, vars, nodeVars
  <1>. QED  BY <1>1, <1>2, <1>3

\* An empty chain, no last set, no binding.
LEMMA InitPoolInv == Init => PoolInv
  BY DEF Init, PoolInv, ChainOf, BindingsOf, Unpinned

\* The invariant contains the property.
LEMMA PoolInvImplies == PoolInv => NoBindingToDeparted
  BY DEF PoolInv, BindingsOf, NoBindingToDeparted

\* Whatever the pool does and whoever publishes it, however often commands fail
\* and processes restart: unless a node's last flush or start has failed, no device
\* stays pinned to a proxy that left its chain.
THEOREM BindingsFollowChain == Spec => []NoBindingToDeparted
  <1>. QED
    BY InitPoolType, NextPoolType, InitPoolInv, PoolInvStep, PoolInvImplies, PTL DEF Spec

\* Only the flush of a pool that lost a member takes a binding away from a
\* running node.
LEMMA KeepStep ==
    ASSUME PoolTypeOK, PoolInv, [Next]_vars, NEW n \in Nodes, NEW d \in Devices,
           lives'[n] = lives[n], pinned[n][d] # NoBinding, pinned'[n][d] # pinned[n][d]
    PROVE  last[n] # NoSet /\ ~(last[n] \subseteq chain[n])
  <1>1. PICK m \in Nodes :
           \/ conntrack_flush(m) \/ RestartNode(m) \/ \E e \in Devices : NewConnection(m, e)
    BY DEF Next, Publisher, Look, Publish, RestartPublisher, Promote, Demote, ChangeRole,
           Consumer, GetPool, apply_proxy_pool, ProxyChanges, vars, nodeVars
  <1>2. CASE conntrack_flush(m)
    <2>1. m = n
      BY <1>2, OneNode DEF Consumer
    <2>. QED  BY <1>2, <2>1 DEF conntrack_flush, PoolInv, ChainOf, HadRemoval
  <1>3. CASE RestartNode(m)
    <2>1. m = n
      BY <1>3, OneNode
    <2>2. lives'[n] = lives[n] + 1
      BY <1>3, <2>1 DEF RestartNode, PoolTypeOK
    <2>. QED  BY <2>2 DEF PoolTypeOK
  <1>4. ASSUME NEW e \in Devices, NewConnection(m, e) PROVE FALSE
    BY <1>4 DEF NewConnection, PoolTypeOK
  <1>. QED  BY <1>1, <1>2, <1>3, <1>4

\* A node that runs on drops a binding only when its pool lost a member: scaling
\* out keeps every session, whatever fails.
THEOREM ScalingOutKeepsSessions == Spec => ScaleOutKeepsSessions
  <1>1. PoolTypeOK /\ PoolInv /\ [Next]_vars =>
          [\A n \in Nodes, d \in Devices :
              /\ lives'[n] = lives[n]
              /\ pinned[n][d] # NoBinding /\ pinned'[n][d] # pinned[n][d]
              => last[n] # NoSet /\ ~(last[n] \subseteq chain[n])]_vars
    BY KeepStep
  <1>. QED
    BY <1>1, InitPoolType, NextPoolType, InitPoolInv, PoolInvStep, PTL
    DEF Spec, ScaleOutKeepsSessions

=============================================================================
