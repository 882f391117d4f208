------------------------------ MODULE RingProofs ------------------------------
(***************************************************************************)
(* Theorems about the ring of concentrators and its two users, for any     *)
(* nodes, customers, hash and faults: the owner that ipsecnode computes is *)
(* the node the kernel's map chooses; ipsecscale's watcher (VpnRing) keeps *)
(* its types, publishes rings for which the two agree and leaves no flow   *)
(* on a node that left; and no concentrator runs two initiates of one peer *)
(* at once, nor, while the rings agree, one that its owner should run      *)
(* (OnDemand).                                                             *)
(***************************************************************************)
EXTENDS VpnRing, OnDemand, FiniteSetTheorems, TLAPS

-----------------------------------------------------------------------------
\* Ranks: every slot has its node

Below(n, nodes) == {m \in nodes : m < n}

\* A greater node has a greater rank.
LEMMA RankGrows ==
    ASSUME NEW nodes \in SUBSET Nat, IsFiniteSet(nodes),
           NEW m \in nodes, NEW n \in nodes, m < n
    PROVE  Cardinality(Below(m, nodes)) < Cardinality(Below(n, nodes))
  <1>1. (\A k \in nodes : k < m => k < n) /\ m < n /\ ~(m < m)
    OBVIOUS
  <1>2. /\ Below(m, nodes) \in SUBSET Below(n, nodes)
        /\ m \in Below(n, nodes) \ Below(m, nodes)
    BY <1>1 DEF Below
  <1>3. Below(n, nodes) \in SUBSET nodes /\ Below(m, nodes) \in SUBSET nodes
    BY DEF Below
  <1>4. IsFiniteSet(Below(n, nodes)) /\ IsFiniteSet(Below(m, nodes))
    BY <1>3, FS_Subset
  <1>5. /\ Cardinality(Below(m, nodes)) <= Cardinality(Below(n, nodes))
        /\ Cardinality(Below(n, nodes)) = Cardinality(Below(m, nodes))
              => Below(n, nodes) = Below(m, nodes)
    BY <1>2, <1>4, FS_Subset
  <1>6. Below(n, nodes) # Below(m, nodes)
    BY <1>2
  <1>7. /\ Cardinality(Below(m, nodes)) \in Nat
        /\ Cardinality(Below(n, nodes)) \in Nat
    BY <1>4, FS_CardinalityType
  <1>. QED  BY <1>5, <1>6, <1>7

\* A rank is below the number of nodes.
LEMMA RankBound ==
    ASSUME NEW nodes \in SUBSET Nat, IsFiniteSet(nodes), NEW n \in nodes
    PROVE  Cardinality(Below(n, nodes)) \in 0 .. Cardinality(nodes) - 1
  <1>1. Below(n, nodes) \in SUBSET nodes /\ n \in nodes \ Below(n, nodes)
    BY DEF Below
  <1>2. /\ IsFiniteSet(Below(n, nodes))
        /\ Cardinality(Below(n, nodes)) <= Cardinality(nodes)
        /\ Cardinality(Below(n, nodes)) # Cardinality(nodes)
    BY <1>1, FS_Subset
  <1>. QED  BY <1>2, FS_CardinalityType

\* The ranks of n nodes are n different numbers below n, so they are all of them.
LEMMA EverySlotTaken ==
    ASSUME NEW nodes \in SUBSET Nat, IsFiniteSet(nodes),
           NEW i \in 0 .. Cardinality(nodes) - 1
    PROVE  \E n \in nodes : Cardinality(Below(n, nodes)) = i
  <1>. DEFINE Slots == 0 .. Cardinality(nodes) - 1
              rank == [n \in nodes |-> Cardinality(Below(n, nodes))]
  <1>1. Cardinality(nodes) \in Nat
    BY FS_CardinalityType
  <1>2. IsFiniteSet(Slots) /\ Cardinality(Slots) = Cardinality(nodes)
    BY <1>1, FS_Interval
  <1>3. rank \in [nodes -> Slots]
    BY RankBound
  <1>4. \A m, n \in nodes : m # n => rank[m] # rank[n]
    <2>. SUFFICES ASSUME NEW m \in nodes, NEW n \in nodes, m < n
                  PROVE  rank[m] # rank[n]
      OBVIOUS
    <2>1. rank[m] < rank[n] /\ rank[m] \in Int /\ rank[n] \in Int
      BY <1>3, RankGrows
    <2>. QED  BY <2>1
  <1>. HIDE DEF rank, Slots
  <1>5. rank \in Injection(nodes, Slots)
    BY <1>3, <1>4 DEF Injection, IsInjective
  <1>6. rank \in Surjection(nodes, Slots)
    BY <1>2, <1>5, FS_Injection
  <1>7. PICK n \in nodes : rank[n] = i
    BY <1>6 DEF Surjection, Slots
  <1>. QED  BY <1>7 DEF rank

-----------------------------------------------------------------------------
\* Arithmetic of the hash

\* Integer division finds the slot that its bounds describe.
LEMMA DivBounds ==
    ASSUME NEW x \in Nat, NEW d \in Nat \ {0}, NEW i \in Nat
    PROVE  x \div d = i <=> i * d <= x /\ x < (i + 1) * d
  <1>1. /\ x \div d \in Nat
        /\ (x \div d) * d <= x
        /\ x < (x \div d + 1) * d
    OBVIOUS
  <1>2. ASSUME i * d <= x, x < (i + 1) * d, i # x \div d
        PROVE  FALSE
    <2>. DEFINE q == x \div d
    <2>1. q \in Nat /\ q * d <= x /\ x < (q + 1) * d
      BY <1>1
    <2>. HIDE DEF q
    <2>2. CASE i < q
      <3>1. (i + 1) * d <= q * d
        BY <2>1, <2>2
      <3>. QED  BY <1>2, <2>1, <3>1
    <2>3. CASE q < i
      <3>1. (q + 1) * d <= i * d
        BY <2>1, <2>3
      <3>. QED  BY <1>2, <2>1, <3>1
    <2>. QED  BY <1>2, <2>1, <2>2, <2>3 DEF q
  <1>. QED  BY <1>1, <1>2

\* A node's slot is the index of the owner exactly when the hash lies in its
\* part of the hash space.
LEMMA SlotIsIndex ==
    ASSUME NEW h \in 0 .. HashSpace - 1, NEW size \in Nat, NEW i \in Nat
    PROVE  i = owner_index(h, size)
               <=> i * HashSpace <= h * size /\ h * size < (i + 1) * HashSpace
  <1>1. h * size \in Nat /\ HashSpace \in Nat \ {0}
    BY HashAssumption
  <1>. QED
    BY <1>1, DivBounds DEF owner_index

\* The index is that of a slot: the product stays below size times the space.
LEMMA IndexInRange ==
    ASSUME NEW h \in 0 .. HashSpace - 1, NEW size \in Nat \ {0}
    PROVE  owner_index(h, size) \in 0 .. size - 1
  <1>. DEFINE i == owner_index(h, size)
  <1>1. HashSpace \in Nat \ {0} /\ h \in Nat /\ h < HashSpace
    BY HashAssumption
  <1>2. i \in Nat
    BY <1>1 DEF owner_index
  <1>3. i * HashSpace <= h * size
    BY <1>1, <1>2, SlotIsIndex
  <1>. HIDE DEF i
  <1>4. h * size < size * HashSpace
    BY <1>1
  <1>5. ASSUME size <= i PROVE FALSE
    <2>1. size * HashSpace <= i * HashSpace
      BY <1>1, <1>2, <1>5
    <2>. QED  BY <2>1, <1>1, <1>2, <1>3, <1>4
  <1>. QED  BY <1>2, <1>5 DEF i

\* A ring with a node has an owner for every customer, and the map's choice is
\* that node (ipseccore owner_index, render_ipsec_nat).
THEOREM OwnerIsMapTarget ==
    ASSUME NEW source \in DOMAIN Hash, NEW nodes \in SUBSET Nat,
           IsFiniteSet(nodes), nodes # {}
    PROVE  /\ owner_of(source, nodes) \in nodes
           /\ owner_of(source, nodes) = MapTarget(source, nodes)
  <1>. DEFINE size == Cardinality(nodes)
              rank(n) == Cardinality(Below(n, nodes))
              index == owner_index(Hash[source], size)
              InSlot(n) == /\ rank(n) * HashSpace <= Hash[source] * size
                           /\ Hash[source] * size < (rank(n) + 1) * HashSpace
  <1>1. size \in Nat \ {0} /\ Hash[source] \in 0 .. HashSpace - 1
    BY FS_CardinalityType, FS_EmptySet, HashAssumption
  <1>2. \A n \in nodes : rank(n) \in Nat
    BY RankBound
  <1>3. \A n \in nodes : rank(n) = index <=> InSlot(n)
    BY <1>1, <1>2, SlotIsIndex
  <1>4. owner_of(source, nodes) = CHOOSE n \in nodes : rank(n) = index
    BY DEF owner_of, Below
  <1>5. MapTarget(source, nodes) = CHOOSE n \in nodes : InSlot(n)
    BY DEF MapTarget, Below
  <1>6. \E n \in nodes : rank(n) = index
    BY <1>1, IndexInRange, EverySlotTaken
  <1>. HIDE DEF size, rank, index, InSlot
  <1>7. (CHOOSE n \in nodes : rank(n) = index) = (CHOOSE n \in nodes : InSlot(n))
    BY <1>3
  <1>. QED  BY <1>4, <1>5, <1>6, <1>7

-----------------------------------------------------------------------------
\* Types: the map's choice is a node of the table, by OwnerIsMapTarget

\* The initial values have their types.
LEMMA TypeInit == WatcherInit => RingTypeOK
  BY DEF WatcherInit, RingTypeOK

\* A failure is counted and is one of the faults.
LEMMA FailTyped ==
    ASSUME RingTypeOK, NEW f \in AllFaults, Fail(f) \/ NoFail
    PROVE  failures' \in Nat /\ happened' \subseteq Faults
  BY DEF RingTypeOK, Fail, NoFail

\* Every step keeps the types.
LEMMA TypeNext ==
    ASSUME IsFiniteSet(Nodes), RingTypeOK, [WatcherNext]_watcherVars
    PROVE  RingTypeOK'
  <1>. USE DEF RingTypeOK
  <1>1. ASSUME NEW l \in Lvms, Describe(l)
        PROVE  RingTypeOK'
    BY <1>1 DEF Describe, countVars
  <1>2. ASSUME NEW l \in Lvms, Reload(l)
        PROVE  RingTypeOK'
    <2>1. Fail("reload") \/ NoFail
      BY <1>2 DEF Reload
    <2>2. failures' \in Nat /\ happened' \subseteq Faults
      BY <2>1, FailTyped DEF AllFaults
    <2>. QED  BY <1>2, <2>2 DEF Reload, EndCycle
  <1>3. ASSUME NEW l \in Lvms, flush_conntrack(l)
        PROVE  RingTypeOK'
    <2>1. Fail("flush") \/ NoFail
      BY <1>3 DEF flush_conntrack
    <2>2. failures' \in Nat /\ happened' \subseteq Faults
      BY <2>1, FailTyped DEF AllFaults
    <2>. QED  BY <1>3, <2>2 DEF flush_conntrack
  <1>4. ASSUME NEW l \in Lvms, publish_lvsring(l)
        PROVE  RingTypeOK'
    <2>1. Fail("publish") \/ NoFail
      BY <1>4 DEF publish_lvsring
    <2>2. failures' \in Nat /\ happened' \subseteq Faults
      BY <2>1, FailTyped DEF AllFaults
    <2>. QED  BY <1>4, <2>2 DEF publish_lvsring, EndCycle
  <1>5. ASSUME NEW l \in Lvms, Restart(l)
        PROVE  RingTypeOK'
    BY <1>5 DEF Restart, EndCycle, Blind
  <1>6. ASSUME NEW l \in Lvms, NEW f \in Flows, NewFlow(l, f)
        PROVE  RingTypeOK'
    <2>1. MapTarget(f, table[l]) \in Nodes
      BY <1>6, FS_Subset, OwnerIsMapTarget, RingAssumption, HashAssumption DEF NewFlow
    <2>. QED  BY <1>6, <2>1 DEF NewFlow, hostVars, countVars
  <1>7. CASE ScaleOut \/ ScaleIn
    BY <1>7 DEF ScaleOut, ScaleIn, hostVars, Blind
  <1>8. CASE UNCHANGED watcherVars
    BY <1>8 DEF watcherVars, hostVars, countVars
  <1>. QED
    BY <1>1, <1>2, <1>3, <1>4, <1>5, <1>6, <1>7, <1>8 DEF WatcherNext, Cycle

\* Every variable of VpnRing keeps its type; in particular, the map sends each
\* flow to a node (ipseccore render_ipsec_nat).
THEOREM RingTypeCorrect ==
    ASSUME IsFiniteSet(Nodes)
    PROVE  WatcherSpec => []RingTypeOK
  BY TypeInit, TypeNext, PTL DEF WatcherSpec

\* Whatever is published, and whatever fails, the owner ipsecnode computes from
\* the ring is the node the LVS map routes the customer to (ipseccore owner_of,
\* render_ipsec_nat).
THEOREM OwnerAlwaysMatchesMap ==
    ASSUME IsFiniteSet(Nodes)
    PROVE  WatcherSpec => []OwnerMatchesMap
  <1>1. RingTypeOK => OwnerMatchesMap
    <2>. SUFFICES ASSUME RingTypeOK, ring # NoSet, ring # {}, NEW f \in Flows
                  PROVE  owner_of(f, ring) = MapTarget(f, ring)
      BY DEF OwnerMatchesMap
    <2>1. ring \in SUBSET Nodes /\ f \in DOMAIN Hash /\ Nodes \subseteq Nat
      BY RingAssumption, HashAssumption DEF RingTypeOK
    <2>2. IsFiniteSet(ring)
      BY <2>1, FS_Subset
    <2>. QED  BY <2>1, <2>2, OwnerIsMapTarget
  <1>. QED
    BY <1>1, TypeInit, TypeNext, PTL DEF WatcherSpec

-----------------------------------------------------------------------------
\* No flow stays on a departed node

\* No flush failed, and no departure went unseen.
Clean == happened \cap {"flush", "blind"} = {}

\* Until it reloads, l has the table of last_vpn, or, when it has no last_vpn, one
\* without a node that has left; its bindings are within the table.
Settled(l) ==
    /\ pc[l] \in {"idle", "reload"} =>
          IF last[l] = NoSet THEN table[l] \subseteq asg ELSE table[l] = last[l]
    /\ pc[l] = "reload" /\ last[l] = NoSet => table[l] \subseteq seen[l]
    /\ pc[l] \in {"flush", "publish"} => table[l] = seen[l]
    /\ pc[l] # "flush" => \A f \in Flows : pinned[l][f] \in table[l] \cup {NoNode}

FlowInv == RingTypeOK /\ (Clean => \A l \in Lvms : Settled(l))

\* At boot the table is the group and no flow is pinned.
LEMMA FlowInit == WatcherInit => FlowInv
  <1>1. WatcherInit => \A l \in Lvms : Settled(l)
    BY DEF WatcherInit, Settled
  <1>. QED  BY <1>1, TypeInit DEF FlowInv

\* A step of l leaves the other nodes as they are.
LEMMA OthersSettled ==
    ASSUME NEW l \in Lvms, Settled(l), asg \subseteq asg',
           UNCHANGED <<pc[l], last[l], table[l], seen[l], pinned[l]>>
    PROVE  Settled(l)'
  BY DEF Settled

\* Every step keeps every node's account of table and bindings, in a clean behaviour.
LEMMA FlowNext ==
    ASSUME IsFiniteSet(Nodes), FlowInv, [WatcherNext]_watcherVars
    PROVE  FlowInv'
  <1>1. RingTypeOK /\ RingTypeOK'
    BY TypeNext DEF FlowInv
  <1>. SUFFICES ASSUME Clean', NEW l \in Lvms
                PROVE  Settled(l)'
    BY <1>1 DEF FlowInv
  <1>. USE DEF RingTypeOK
  <1>2. happened \subseteq happened'
    BY DEF WatcherNext, Cycle, Describe, Reload, flush_conntrack, publish_lvsring, Restart,
           ScaleIn, ScaleOut, NewFlow, Fail, NoFail, Blind, watcherVars, countVars
  <1>3. Clean /\ \A k \in Lvms : Settled(k)
    BY <1>2 DEF Clean, FlowInv
  <1>4. \A S \in SUBSET Nodes : S # NoSet
    BY RingAssumption
  <1>5. ASSUME NEW k \in Lvms, Describe(k)
        PROVE  Settled(l)'
    <2>1. CASE k # l
      BY <1>1, <1>3, <1>5, <2>1, OthersSettled DEF Describe
    <2>2. CASE k = l
      BY <1>1, <1>3, <1>5, <2>2 DEF Describe, Settled
    <2>. QED  BY <2>1, <2>2
  <1>6. ASSUME NEW k \in Lvms, Reload(k)
        PROVE  Settled(l)'
    <2>1. CASE k # l
      BY <1>1, <1>3, <1>6, <2>1, OthersSettled DEF Reload, EndCycle
    <2>2. CASE /\ k = l
               /\ table' = [table EXCEPT ![l] = seen[l]]
               /\ pc' = [pc EXCEPT ![l] = IF Removed(l) # {} THEN "flush" ELSE "publish"]
               /\ seen' = seen
      <3>1. /\ pc[l] = "reload"
            /\ pc'[l] = IF Removed(l) # {} THEN "flush" ELSE "publish"
            /\ table'[l] = seen[l] /\ seen'[l] = seen[l] /\ pinned' = pinned
        BY <1>1, <1>6, <2>2 DEF Reload, EndCycle
      <3>2. CASE Removed(l) = {}
        <4>1. table[l] \subseteq seen[l]
          BY <1>3, <3>1, <3>2 DEF Settled, Removed
        <4>2. \A f \in Flows : pinned[l][f] \in table[l] \cup {NoNode}
          BY <1>3, <3>1 DEF Settled
        <4>. QED  BY <3>1, <3>2, <4>1, <4>2 DEF Settled
      <3>3. CASE Removed(l) # {}
        BY <3>1, <3>3 DEF Settled
      <3>. QED  BY <3>2, <3>3
    <2>3. CASE k = l /\ EndCycle(l) /\ UNCHANGED <<asg, last, table, pinned>>
      BY <1>1, <1>3, <1>6, <2>3 DEF Reload, EndCycle, Settled
    <2>. QED  BY <1>6, <2>1, <2>2, <2>3 DEF Reload
  <1>7. ASSUME NEW k \in Lvms, flush_conntrack(k)
        PROVE  Settled(l)'
    <2>1. CASE k # l
      BY <1>1, <1>3, <1>7, <2>1, OthersSettled DEF flush_conntrack
    <2>2. CASE k = l
      <3>1. pinned' = [pinned EXCEPT ![l] = [f \in Flows |-> NoNode]]
        BY <1>7, <2>2 DEF flush_conntrack, Fail, Clean
      <3>2. \A f \in Flows : pinned'[l][f] = NoNode
        BY <1>1, <3>1
      <3>. QED  BY <1>1, <1>3, <1>7, <2>2, <3>2 DEF flush_conntrack, Settled
    <2>. QED  BY <2>1, <2>2
  <1>8. ASSUME NEW k \in Lvms, publish_lvsring(k)
        PROVE  Settled(l)'
    <2>1. CASE k # l
      BY <1>1, <1>3, <1>8, <2>1, OthersSettled DEF publish_lvsring, EndCycle
    <2>2. CASE k = l
      BY <1>1, <1>3, <1>4, <1>8, <2>2 DEF publish_lvsring, EndCycle, Settled
    <2>. QED  BY <2>1, <2>2
  <1>9. ASSUME NEW k \in Lvms, Restart(k)
        PROVE  Settled(l)'
    <2>1. CASE k # l
      BY <1>1, <1>3, <1>9, <2>1, OthersSettled DEF Restart, EndCycle
    <2>2. CASE k = l
      <3>1. pc[l] = "idle" /\ last[l] = asg
        BY <1>9, <2>2 DEF Restart, Blind, Clean
      <3>2. table[l] = asg
        BY <1>1, <1>3, <1>4, <3>1 DEF Settled
      <3>3. /\ pc'[l] = "idle" /\ last'[l] = NoSet
            /\ table' = table /\ asg' = asg /\ pinned' = pinned
        BY <1>1, <1>9, <2>2 DEF Restart, EndCycle
      <3>. QED  BY <1>3, <3>1, <3>2, <3>3 DEF Settled
    <2>. QED  BY <2>1, <2>2
  <1>10. ASSUME NEW k \in Lvms, NEW f \in Flows, NewFlow(k, f)
         PROVE  Settled(l)'
    <2>1. MapTarget(f, table[k]) \in table[k]
      <3>1. table[k] # {} /\ table[k] \in SUBSET Nodes /\ f \in DOMAIN Hash
        BY <1>1, <1>10, RingAssumption DEF NewFlow
      <3>2. table[k] \in SUBSET Nat /\ IsFiniteSet(table[k])
        BY <1>1, <3>1, FS_Subset, HashAssumption
      <3>. QED  BY <3>1, <3>2, OwnerIsMapTarget
    <2>2. CASE k # l
      BY <1>1, <1>3, <1>10, <2>2, OthersSettled DEF NewFlow, hostVars
    <2>3. CASE k = l
      <3>1. \A g \in Flows : pinned'[l][g] \in {pinned[l][g], MapTarget(f, table[l])}
        BY <1>1, <1>10, <2>3 DEF NewFlow
      <3>. QED  BY <1>3, <1>10, <2>1, <2>3, <3>1 DEF NewFlow, hostVars, Settled
    <2>. QED  BY <2>2, <2>3
  <1>11. CASE ScaleOut
    BY <1>3, <1>11, OthersSettled DEF ScaleOut, hostVars
  <1>12. CASE ScaleIn
    <2>1. \A k \in Lvms : last[k] # NoSet
      BY <1>12 DEF ScaleIn, Blind, Clean
    <2>. QED  BY <1>3, <1>12, <2>1 DEF ScaleIn, hostVars, Settled
  <1>13. CASE UNCHANGED watcherVars
    BY <1>3, <1>13, OthersSettled DEF watcherVars, hostVars
  <1>. QED
    BY <1>5, <1>6, <1>7, <1>8, <1>9, <1>10, <1>11, <1>12, <1>13 DEF WatcherNext, Cycle

\* As long as no flush fails and no departure goes unseen, no flow is pinned to a
\* node outside the table between cycles, whichever reloads and publications fail
\* and however the cycles of the LVS nodes interleave (main.rs reconcile_vpn_nat).
THEOREM FlowsStayOnMembers ==
    ASSUME IsFiniteSet(Nodes)
    PROVE  WatcherSpec => []FlowsOnMembers
  <1>1. FlowInv => FlowsOnMembers
    BY DEF FlowInv, FlowsOnMembers, Clean, Settled
  <1>. QED  BY <1>1, FlowInit, FlowNext, PTL DEF WatcherSpec

-----------------------------------------------------------------------------
\* A flush follows a departure

\* At the flush, a node of the previous set is missing from the table.
FlushInv ==
    \A l \in Lvms : pc[l] = "flush" =>
        last[l] # NoSet /\ table[l] = seen[l] /\ ~(last[l] \subseteq seen[l])

\* Every step leaves that so.
LEMMA FlushNext ==
    ASSUME RingTypeOK, FlushInv, [WatcherNext]_watcherVars
    PROVE  FlushInv'
  <1>. SUFFICES ASSUME NEW l \in Lvms, pc'[l] = "flush"
                PROVE  last'[l] # NoSet /\ table'[l] = seen'[l] /\ ~(last'[l] \subseteq seen'[l])
    BY DEF FlushInv
  <1>. USE DEF RingTypeOK
  <1>1. ASSUME NEW k \in Lvms, Reload(k)
        PROVE  last'[l] # NoSet /\ table'[l] = seen'[l] /\ ~(last'[l] \subseteq seen'[l])
    <2>1. CASE pc[l] = "flush"
      <3>1. k # l
        BY <1>1, <2>1 DEF Reload
      <3>2. UNCHANGED <<last[l], table[l], seen[l]>>
        BY <1>1, <3>1 DEF Reload, EndCycle
      <3>. QED  BY <2>1, <3>2 DEF FlushInv
    <2>2. CASE pc[l] # "flush"
      <3>1. /\ k = l
            /\ table' = [table EXCEPT ![k] = seen[k]]
            /\ pc' = [pc EXCEPT ![k] = IF Removed(k) # {} THEN "flush" ELSE "publish"]
            /\ UNCHANGED <<seen, last>>
        BY <1>1, <2>2 DEF Reload, EndCycle
      <3>2. Removed(l) # {}
        BY <3>1
      <3>. QED  BY <3>1, <3>2 DEF Removed
    <2>. QED  BY <2>1, <2>2
  <1>2. ASSUME NEW k \in Lvms, Describe(k) \/ flush_conntrack(k) \/ publish_lvsring(k) \/ Restart(k)
        PROVE  last'[l] # NoSet /\ table'[l] = seen'[l] /\ ~(last'[l] \subseteq seen'[l])
    <2>1. pc'[k] # "flush"
      BY <1>2 DEF Describe, flush_conntrack, publish_lvsring, Restart, EndCycle
    <2>2. k # l
      BY <2>1
    <2>3. UNCHANGED <<pc[l], last[l], table[l], seen[l]>>
      BY <1>2, <2>2 DEF Describe, flush_conntrack, publish_lvsring, Restart, EndCycle
    <2>. QED  BY <2>3 DEF FlushInv
  <1>3. CASE UNCHANGED <<pc, last, table, seen>>
    BY <1>3 DEF FlushInv
  <1>. QED
    BY <1>1, <1>2, <1>3 DEF WatcherNext, Cycle, NewFlow, ScaleOut, ScaleIn, watcherVars, hostVars

\* No binding is lost on a node unless a member of the set that its previous cycle
\* installed has left, whichever commands failed and whatever the other LVS node
\* does (main.rs reconcile_vpn_nat, "On pure scale-OUT we deliberately do NOT
\* flush").
THEOREM ScalingOutKeepsFlows ==
    ASSUME IsFiniteSet(Nodes)
    PROVE  WatcherSpec => ScaleOutKeepsFlows
  <1>1. WatcherInit => RingTypeOK /\ FlushInv
    BY TypeInit DEF WatcherInit, FlushInv
  <1>2. RingTypeOK /\ FlushInv /\ [WatcherNext]_watcherVars => (RingTypeOK /\ FlushInv)'
    BY TypeNext, FlushNext
  <1>3. ASSUME RingTypeOK, FlushInv, [WatcherNext]_watcherVars, NEW l \in Lvms, NEW f \in Flows,
               pinned[l][f] # NoNode, pinned'[l][f] # pinned[l][f]
        PROVE  last[l] # NoSet /\ ~(last[l] \subseteq table[l])
    <2>1. pinned' # pinned
      BY <1>3
    <2>2. \/ \E k \in Lvms : flush_conntrack(k)
          \/ \E k \in Lvms, g \in Flows : NewFlow(k, g)
      BY <1>3, <2>1 DEF WatcherNext, Cycle, Describe, Reload, publish_lvsring, Restart, ScaleOut,
                        ScaleIn, watcherVars
    <2>3. ASSUME NEW k \in Lvms, flush_conntrack(k)
          PROVE  last[l] # NoSet /\ ~(last[l] \subseteq table[l])
      <3>1. k = l
        BY <1>3, <2>3 DEF flush_conntrack, RingTypeOK
      <3>. QED  BY <1>3, <2>3, <3>1 DEF flush_conntrack, FlushInv
    <2>4. ASSUME NEW k \in Lvms, NEW g \in Flows, NewFlow(k, g)
          PROVE  FALSE
      BY <1>3, <2>4 DEF NewFlow, RingTypeOK
    <2>. QED  BY <2>2, <2>3, <2>4
  <1>4. RingTypeOK /\ FlushInv /\ [WatcherNext]_watcherVars =>
            [\A l \in Lvms, f \in Flows :
                pinned[l][f] # NoNode /\ pinned'[l][f] # pinned[l][f]
                    => last[l] # NoSet /\ ~(last[l] \subseteq table[l])]_watcherVars
    BY <1>3
  <1>. QED  BY <1>1, <1>2, <1>4, PTL DEF WatcherSpec, ScaleOutKeepsFlows

-----------------------------------------------------------------------------
\* On-demand bring-up: one initiate of a peer per node

\* The types that the argument reads
Typed ==
    /\ queue \in [Nodes -> Seq(Trigger)]
    /\ task \in [Nodes -> {Idle} \cup
                          [step : {"lookup"}, peer : Peers, age : Nat, known : BOOLEAN]]
    /\ inflight \in [Nodes -> [Peers -> Nat]]
    /\ calls \in [Nodes -> SUBSET [peer : Peers, age : Nat]]
    /\ \A h \in handoffs : h.peer \in Peers

\* The entry of a running initiate is older than it by a lookup at most.
Covered ==
    \A n \in Nodes : \A c \in calls[n] :
        /\ c.age <= InitiateBound
        /\ inflight[n][c.peer] <= c.age + LookupBound

Single == \A n \in Nodes : \A c, d \in calls[n] : c.peer = d.peer => c = d

\* What the lookup under way found in the table still holds of the initiates.
Sound ==
    \A n \in Nodes :
        task[n] # Idle =>
            /\ task[n].age <= LookupBound
            /\ ~task[n].known => \A c \in calls[n] : c.peer # task[n].peer

DedupInv == Typed /\ Covered /\ Single /\ Sound

\* A node without an entry of a peer has no initiate of it.
LEMMA AbsentMeansNone ==
    ASSUME LookupBound + InitiateBound < Ttl, Typed, Covered,
           NEW n \in Nodes, NEW p \in Peers, ~Known(n, p)
    PROVE  \A c \in calls[n] : c.peer # p
  <1>. SUFFICES ASSUME NEW c \in calls[n], c.peer = p
                PROVE  FALSE
    OBVIOUS
  <1>1. c.age \in Nat /\ inflight[n][p] \in Nat
    BY DEF Typed
  <1>2. c.age <= InitiateBound /\ inflight[n][p] <= c.age + LookupBound
    BY DEF Covered
  <1>. QED  BY <1>1, <1>2, OnDemandAssumption DEF Known

\* Beginning an initiate keeps the invariant's account of node n and of the
\* others, as long as an unknown peer has no initiate.
LEMMA BeginKeeps ==
    ASSUME Typed, Covered, Single,
           NEW n \in Nodes, NEW p \in Peers, NEW age \in Nat, NEW known \in BOOLEAN,
           age <= LookupBound,
           ~known => \A c \in calls[n] : c.peer # p,
           Begin(n, p, age, known)
    PROVE  /\ inflight' \in [Nodes -> [Peers -> Nat]]
           /\ calls' \in [Nodes -> SUBSET [peer : Peers, age : Nat]]
           /\ Covered' /\ Single'
           /\ \A m \in Nodes \ {n} : calls'[m] = calls[m]
  <1>1. CASE known
    BY <1>1 DEF Begin, Typed, Covered, Single
  <1>2. CASE ~known
    <2>. DEFINE new == [peer |-> p, age |-> 0]
    <2>1. /\ inflight' = [inflight EXCEPT ![n][p] = age]
          /\ calls' = [calls EXCEPT ![n] = @ \cup {new}]
      BY <1>2 DEF Begin
    <2>2. new \in [peer : Peers, age : Nat] /\ new.peer = p /\ new.age = 0
      OBVIOUS
    <2>. HIDE DEF new
    <2>3. inflight' \in [Nodes -> [Peers -> Nat]]
      BY <2>1 DEF Typed
    <2>4. calls' \in [Nodes -> SUBSET [peer : Peers, age : Nat]]
      BY <2>1, <2>2 DEF Typed
    <2>5. \A m \in Nodes \ {n} : calls'[m] = calls[m] /\ inflight'[m] = inflight[m]
      BY <2>1 DEF Typed
    <2>6. /\ calls'[n] = calls[n] \cup {new}
          /\ inflight'[n][p] = age
          /\ \A q \in Peers \ {p} : inflight'[n][q] = inflight[n][q]
      BY <2>1 DEF Typed
    <2>7. Covered'
      <3>. SUFFICES ASSUME NEW m \in Nodes, NEW c \in calls'[m]
                    PROVE  /\ c.age <= InitiateBound
                           /\ inflight'[m][c.peer] <= c.age + LookupBound
        BY DEF Covered
      <3>1. CASE m # n
        BY <3>1, <2>5 DEF Covered
      <3>2. CASE m = n /\ c = new
        BY <3>2, <2>2, <2>6, OnDemandAssumption
      <3>3. CASE m = n /\ c \in calls[n]
        <4>1. c.peer \in Peers \ {p}
          BY <3>3, <1>2 DEF Typed
        <4>. QED  BY <4>1, <3>3, <2>6 DEF Covered
      <3>. QED  BY <3>1, <3>2, <3>3, <2>6
    <2>8. Single'
      <3>. SUFFICES ASSUME NEW m \in Nodes, NEW c \in calls'[m], NEW d \in calls'[m],
                           c.peer = d.peer
                    PROVE  c = d
        BY DEF Single
      <3>1. CASE m # n
        BY <3>1, <2>5 DEF Single
      <3>2. CASE m = n
        BY <3>2, <2>2, <2>6, <1>2 DEF Single
      <3>. QED  BY <3>1, <3>2
    <2>. QED  BY <2>3, <2>4, <2>5, <2>7, <2>8
  <1>. QED  BY <1>1, <1>2

-----------------------------------------------------------------------------

\* At first there is no initiate, no lookup and no entry.
LEMMA DedupInit == Init => DedupInv
  <1>. SUFFICES ASSUME Init PROVE DedupInv
    OBVIOUS
  <1>1. /\ queue = [n \in Nodes |-> <<>>] /\ task = [n \in Nodes |-> Idle]
        /\ inflight = [n \in Nodes |-> Fresh] /\ calls = [n \in Nodes |-> {}]
        /\ handoffs = {}
    BY DEF Init
  <1>2. Fresh \in [Peers -> Nat]
    BY OnDemandAssumption DEF Fresh
  <1>3. Typed
    BY <1>1, <1>2 DEF Typed
  <1>. QED  BY <1>1, <1>3 DEF DedupInv, Covered, Single, Sound

\* Receiving a trigger: a packet's peer is looked up, a handed-off one begun.
LEMMA ReceiveKeeps ==
    ASSUME LookupBound + InitiateBound < Ttl, DedupInv, NEW n \in Nodes, Receive(n)
    PROVE  DedupInv'
  <1>. USE DEF DedupInv
  <1>. DEFINE t == Head(queue[n])
              known == Known(n, t.peer)
  <1>1. /\ task[n] = Idle /\ queue[n] # <<>>
        /\ queue' = [queue EXCEPT ![n] = Tail(@)]
        /\ handoffs' = handoffs
    BY DEF Receive
  <1>2. t \in Trigger /\ Tail(queue[n]) \in Seq(Trigger)
    BY <1>1 DEF Typed
  <1>3. t.peer \in Peers
    BY <1>2 DEF Trigger
  <1>4. queue' \in [Nodes -> Seq(Trigger)]
    BY <1>1, <1>2 DEF Typed
  <1>5. known \in BOOLEAN /\ (~known => \A c \in calls[n] : c.peer # t.peer)
    BY <1>3, AbsentMeansNone DEF Known
  <1>6. CASE t.kind = "HandedOff"
    <2>1. Begin(n, t.peer, 0, known) /\ task' = task
      BY <1>6 DEF Receive
    <2>. HIDE DEF known, t
    <2>2. /\ inflight' \in [Nodes -> [Peers -> Nat]]
          /\ calls' \in [Nodes -> SUBSET [peer : Peers, age : Nat]]
          /\ Covered' /\ Single'
          /\ \A m \in Nodes \ {n} : calls'[m] = calls[m]
      BY <2>1, <1>3, <1>5, BeginKeeps, OnDemandAssumption
    <2>3. Typed'
      BY <2>1, <2>2, <1>1, <1>4 DEF Typed
    <2>4. Sound'
      BY <2>1, <2>2, <1>1 DEF Sound
    <2>. QED  BY <2>2, <2>3, <2>4
  <1>7. CASE t.kind # "HandedOff"
    <2>1. /\ task' = [task EXCEPT ![n] = Lookup(t.peer, known)]
          /\ inflight' = inflight /\ calls' = calls
      BY <1>7 DEF Receive
    <2>. HIDE DEF known, t
    <2>2. /\ Lookup(t.peer, known) \in
               [step : {"lookup"}, peer : Peers, age : Nat, known : BOOLEAN]
          /\ Lookup(t.peer, known).age = 0
          /\ Lookup(t.peer, known).peer = t.peer
          /\ Lookup(t.peer, known).known = known
      BY <1>3, <1>5 DEF Lookup
    <2>3. Typed'
      BY <2>1, <2>2, <1>1, <1>4 DEF Typed
    <2>4. Covered' /\ Single'
      BY <2>1 DEF Covered, Single
    <2>5. Sound'
      <3>. SUFFICES ASSUME NEW m \in Nodes, task'[m] # Idle
                    PROVE  /\ task'[m].age <= LookupBound
                           /\ ~task'[m].known =>
                                  \A c \in calls'[m] : c.peer # task'[m].peer
        BY DEF Sound
      <3>1. CASE m = n
        <4>1. task'[m] = Lookup(t.peer, known)
          BY <3>1, <2>1 DEF Typed
        <4>. QED  BY <4>1, <3>1, <2>1, <2>2, <1>5, OnDemandAssumption
      <3>2. CASE m # n
        <4>1. task'[m] = task[m]
          BY <3>2, <2>1 DEF Typed
        <4>. QED  BY <4>1, <2>1 DEF Sound
      <3>. QED  BY <3>1, <3>2
    <2>. QED  BY <2>3, <2>4, <2>5
  <1>. QED  BY <1>6, <1>7

\* The lookup's answer: initiate, hand off, or nothing.
LEMMA ResolveKeeps ==
    ASSUME DedupInv, NEW n \in Nodes, Resolve(n)
    PROVE  DedupInv'
  <1>. USE DEF DedupInv
  <1>. DEFINE t == task[n]
  <1>1. /\ t # Idle
        /\ task' = [task EXCEPT ![n] = Idle]
        /\ queue' = queue
    BY DEF Resolve
  <1>2. /\ t.peer \in Peers /\ t.age \in Nat /\ t.known \in BOOLEAN
        /\ t.age <= LookupBound
        /\ ~t.known => \A c \in calls[n] : c.peer # t.peer
    BY <1>1 DEF Typed, Sound
  <1>3. /\ task'[n] = Idle
        /\ \A m \in Nodes \ {n} : task'[m] = task[m]
        /\ task' \in [Nodes -> {Idle} \cup
                        [step : {"lookup"}, peer : Peers, age : Nat, known : BOOLEAN]]
    BY <1>1 DEF Typed
  <1>4. \/ Begin(n, t.peer, t.age, t.known) /\ handoffs' = handoffs
        \/ /\ \A h \in handoffs' : h \in handoffs \/ h.peer = t.peer
           /\ inflight' = inflight /\ calls' = calls
    BY DEF Resolve
  <1>. HIDE DEF t
  <1>5. CASE Begin(n, t.peer, t.age, t.known) /\ handoffs' = handoffs
    <2>1. /\ inflight' \in [Nodes -> [Peers -> Nat]]
          /\ calls' \in [Nodes -> SUBSET [peer : Peers, age : Nat]]
          /\ Covered' /\ Single'
          /\ \A m \in Nodes \ {n} : calls'[m] = calls[m]
      BY <1>2, <1>5, BeginKeeps
    <2>2. Typed'
      BY <2>1, <1>1, <1>3, <1>5 DEF Typed
    <2>3. Sound'
      BY <2>1, <1>3 DEF Sound
    <2>. QED  BY <2>1, <2>2, <2>3
  <1>6. CASE /\ \A h \in handoffs' : h \in handoffs \/ h.peer = t.peer
             /\ inflight' = inflight /\ calls' = calls
    <2>1. Typed'
      BY <1>1, <1>2, <1>3, <1>6 DEF Typed
    <2>2. Covered' /\ Single'
      BY <1>6 DEF Covered, Single
    <2>3. Sound'
      BY <1>3, <1>6 DEF Sound
    <2>. QED  BY <2>1, <2>2, <2>3
  <1>. QED  BY <1>4, <1>5, <1>6

\* Time: entry, initiate and lookup age together.
LEMMA TickKeeps ==
    ASSUME DedupInv, Tick
    PROVE  DedupInv'
  <1>. USE DEF DedupInv
  <1>1. /\ \A n \in Nodes : \A c \in calls[n] : c.age < InitiateBound
        /\ \A n \in Nodes : task[n] # Idle => task[n].age < LookupBound
        /\ queue' = queue /\ handoffs' = handoffs
    BY DEF Tick
  <1>2. inflight' = [n \in Nodes |-> [p \in Peers |-> Older(inflight[n][p])]]
    BY DEF Tick
  <1>3. \A n \in Nodes : calls'[n] = {[c EXCEPT !.age = @ + 1] : c \in calls[n]}
    BY DEF Tick
  <1>4. DOMAIN calls' = Nodes /\ calls' = [n \in Nodes |-> calls'[n]]
    BY DEF Tick
  <1>5. task' = [n \in Nodes |->
                    IF task[n] = Idle THEN Idle ELSE [task[n] EXCEPT !.age = @ + 1]]
    BY DEF Tick
  <1>6. \A n \in Nodes, p \in Peers :
            /\ Older(inflight[n][p]) \in Nat
            /\ Older(inflight[n][p]) <= inflight[n][p] + 1
    BY OnDemandAssumption DEF Older, Typed
  <1>7. \A n \in Nodes : \A c \in calls'[n] : \E b \in calls[n] :
            /\ b.peer \in Peers /\ b.age \in Nat
            /\ c = [peer |-> b.peer, age |-> b.age + 1]
    <2>. SUFFICES ASSUME NEW n \in Nodes, NEW c \in calls'[n]
                  PROVE  \E b \in calls[n] :
                            /\ b.peer \in Peers /\ b.age \in Nat
                            /\ c = [peer |-> b.peer, age |-> b.age + 1]
      OBVIOUS
    <2>1. PICK b \in calls[n] : c = [b EXCEPT !.age = @ + 1]
      BY <1>3
    <2>2. b \in [peer : Peers, age : Nat]
      BY DEF Typed
    <2>3. [b EXCEPT !.age = @ + 1] = [peer |-> b.peer, age |-> b.age + 1]
      BY <2>2
    <2>. QED  BY <2>1, <2>2, <2>3
  <1>8. \A n \in Nodes :
            \/ task[n] = Idle /\ task'[n] = Idle
            \/ /\ task[n] # Idle
               /\ task'[n] = [step |-> "lookup", peer |-> task[n].peer,
                              age |-> task[n].age + 1, known |-> task[n].known]
               /\ task[n].age \in Nat /\ task[n].peer \in Peers
               /\ task[n].known \in BOOLEAN
    BY <1>5 DEF Typed
  <1>9. Typed'
    <2>1. inflight' \in [Nodes -> [Peers -> Nat]]
      BY <1>2, <1>6
    <2>2. calls' \in [Nodes -> SUBSET [peer : Peers, age : Nat]]
      <3>1. \A n \in Nodes : calls'[n] \subseteq [peer : Peers, age : Nat]
        BY <1>7
      <3>. QED  BY <3>1, <1>4
    <2>3. task' \in [Nodes -> {Idle} \cup
                       [step : {"lookup"}, peer : Peers, age : Nat, known : BOOLEAN]]
      <3>1. \A n \in Nodes :
                task'[n] \in {Idle} \cup
                    [step : {"lookup"}, peer : Peers, age : Nat, known : BOOLEAN]
        <4>. SUFFICES ASSUME NEW n \in Nodes, task'[n] # Idle
                      PROVE  task'[n] \in
                               [step : {"lookup"}, peer : Peers, age : Nat, known : BOOLEAN]
          OBVIOUS
        <4>1. /\ task'[n] = [step |-> "lookup", peer |-> task[n].peer,
                             age |-> task[n].age + 1, known |-> task[n].known]
              /\ task[n].age + 1 \in Nat /\ task[n].peer \in Peers
              /\ task[n].known \in BOOLEAN
          BY <1>8
        <4>2. \A p \in Peers, a \in Nat, k \in BOOLEAN :
                 [step |-> "lookup", peer |-> p, age |-> a, known |-> k] \in
                   [step : {"lookup"}, peer : Peers, age : Nat, known : BOOLEAN]
          OBVIOUS
        <4>. QED  BY <4>1, <4>2
      <3>. QED  BY <3>1, <1>5
    <2>. QED  BY <2>1, <2>2, <2>3, <1>1 DEF Typed
  <1>10. Covered'
    <2>. SUFFICES ASSUME NEW n \in Nodes, NEW c \in calls'[n]
                  PROVE  /\ c.age <= InitiateBound
                         /\ inflight'[n][c.peer] <= c.age + LookupBound
      BY DEF Covered
    <2>1. PICK b \in calls[n] :
              /\ b.peer \in Peers /\ b.age \in Nat
              /\ c = [peer |-> b.peer, age |-> b.age + 1]
      BY <1>7
    <2>2. b.age < InitiateBound /\ inflight[n][b.peer] <= b.age + LookupBound
      BY <1>1 DEF Covered
    <2>3. /\ inflight'[n][c.peer] = Older(inflight[n][b.peer])
          /\ c.age = b.age + 1
      BY <2>1, <1>2
    <2>4. inflight[n][b.peer] \in Nat
      BY <2>1 DEF Typed
    <2>. QED  BY <2>1, <2>2, <2>3, <2>4, <1>6, OnDemandAssumption
  <1>11. Single'
    <2>. SUFFICES ASSUME NEW n \in Nodes, NEW c \in calls'[n], NEW d \in calls'[n],
                         c.peer = d.peer
                  PROVE  c = d
      BY DEF Single
    <2>1. PICK b \in calls[n] : c = [peer |-> b.peer, age |-> b.age + 1]
      BY <1>7
    <2>2. PICK a \in calls[n] : d = [peer |-> a.peer, age |-> a.age + 1]
      BY <1>7
    <2>3. a = b
      BY <2>1, <2>2 DEF Single
    <2>. QED  BY <2>1, <2>2, <2>3
  <1>12. Sound'
    <2>. SUFFICES ASSUME NEW n \in Nodes, task'[n] # Idle
                  PROVE  /\ task'[n].age <= LookupBound
                         /\ ~task'[n].known =>
                                \A c \in calls'[n] : c.peer # task'[n].peer
      BY DEF Sound
    <2>1. /\ task[n] # Idle
          /\ task'[n].age = task[n].age + 1 /\ task[n].age \in Nat
          /\ task'[n].peer = task[n].peer /\ task'[n].known = task[n].known
      <3>1. /\ task[n] # Idle /\ task[n].age \in Nat
            /\ task'[n] = [step |-> "lookup", peer |-> task[n].peer,
                           age |-> task[n].age + 1, known |-> task[n].known]
        BY <1>8
      <3>. QED  BY <3>1
    <2>2. task'[n].age <= LookupBound
      BY <2>1, <1>1, OnDemandAssumption
    <2>3. ASSUME ~task'[n].known, NEW c \in calls'[n]
          PROVE  c.peer # task'[n].peer
      BY <2>1, <2>3, <1>7 DEF Sound
    <2>. QED  BY <2>2, <2>3
  <1>. QED  BY <1>9, <1>10, <1>11, <1>12

\* A process that starts, or goes, takes its table and its initiates along.
LEMMA RestartedKeeps ==
    ASSUME DedupInv, NEW n \in Nodes, Restarted(n), handoffs' = handoffs
    PROVE  DedupInv'
  <1>. USE DEF DedupInv
  <1>1. /\ queue' = [queue EXCEPT ![n] = <<>>]
        /\ task' = [task EXCEPT ![n] = Idle]
        /\ inflight' = [inflight EXCEPT ![n] = Fresh]
        /\ calls' = [calls EXCEPT ![n] = {}]
    BY DEF Restarted
  <1>2. Fresh \in [Peers -> Nat]
    BY OnDemandAssumption DEF Fresh
  <1>3. /\ task'[n] = Idle /\ calls'[n] = {}
        /\ \A m \in Nodes \ {n} : /\ task'[m] = task[m]
                                  /\ calls'[m] = calls[m]
                                  /\ inflight'[m] = inflight[m]
    BY <1>1 DEF Typed
  <1>4. Typed'
    BY <1>1, <1>2 DEF Typed
  <1>5. Covered'
    BY <1>3 DEF Covered
  <1>6. Single'
    BY <1>3 DEF Single
  <1>7. Sound'
    BY <1>3 DEF Sound
  <1>. QED  BY <1>4, <1>5, <1>6, <1>7

\* Steps that touch neither the table, the lookup nor the set of initiates
LEMMA QueueKeeps ==
    ASSUME DedupInv, UNCHANGED <<task, inflight, calls>>,
           queue' \in [Nodes -> Seq(Trigger)],
           \A h \in handoffs' : h.peer \in Peers
    PROVE  DedupInv'
  BY DEF DedupInv, Typed, Covered, Single, Sound

\* Every step keeps the invariant, in the window that the theorem assumes.
LEMMA DedupNext ==
    ASSUME LookupBound + InitiateBound < Ttl, DedupInv, [Next]_vars
    PROVE  DedupInv'
  <1>. DEFINE Same == UNCHANGED <<task, inflight, calls, queue, handoffs>>
  <1>1. ASSUME NEW n \in Nodes, TaskStep(n)
        PROVE  DedupInv'
    BY <1>1, ReceiveKeeps, ResolveKeeps DEF TaskStep
  <1>2. ASSUME Same PROVE DedupInv'
    BY <1>2, QueueKeeps DEF DedupInv, Typed
  <1>3. ASSUME NEW n \in Nodes,
               Refresh(n) \/ SubscriptionEnds(n) \/ ConnectionEnds(n) \/ Join(n)
        PROVE  DedupInv'
    BY <1>3, <1>2 DEF Refresh, SubscriptionEnds, ConnectionEnds, Join
  <1>4. ASSUME NEW n \in Nodes, RestartNode(n) \/ Leave(n)
        PROVE  DedupInv'
    BY <1>4, RestartedKeeps DEF RestartNode, Leave
  <1>5. ASSUME NEW n \in Nodes, NEW c \in calls[n], InitiateReturns(n, c)
        PROVE  DedupInv'
    <2>1. /\ calls' = [calls EXCEPT ![n] = @ \ {c}]
          /\ UNCHANGED <<task, inflight, queue, handoffs>>
      BY <1>5 DEF InitiateReturns
    <2>2. \A m \in Nodes : calls'[m] \subseteq calls[m]
      BY <2>1 DEF DedupInv, Typed
    <2>3. calls' \in [Nodes -> SUBSET [peer : Peers, age : Nat]]
      BY <2>1 DEF DedupInv, Typed
    <2>. QED  BY <2>1, <2>2, <2>3 DEF DedupInv, Typed, Covered, Single, Sound
  <1>6. ASSUME NEW n \in Nodes, NEW p \in Peers, Packet(n, p)
        PROVE  DedupInv'
    <2>1. [kind |-> "Local", peer |-> p] \in Trigger
      BY DEF Trigger
    <2>2. queue[n] \in Seq(Trigger)
      BY DEF DedupInv, Typed
    <2>3. Append(queue[n], [kind |-> "Local", peer |-> p]) \in Seq(Trigger)
      BY <2>1, <2>2
    <2>4. queue' \in [Nodes -> Seq(Trigger)]
      BY <1>6, <2>3 DEF Packet, DedupInv, Typed
    <2>. QED  BY <1>6, <2>4, QueueKeeps DEF Packet, DedupInv, Typed
  <1>7. ASSUME NEW h \in handoffs, Deliver(h)
        PROVE  DedupInv'
    <2>. DEFINE takers == {n \in live \ deaf : ForMe(n, h)}
                new == [kind |-> "HandedOff", peer |-> h.peer]
    <2>1. new \in Trigger
      BY DEF Trigger, DedupInv, Typed
    <2>2. queue' = [n \in Nodes |->
                       IF n \in takers THEN Append(queue[n], new) ELSE queue[n]]
      BY <1>7 DEF Deliver
    <2>. HIDE DEF new, takers
    <2>3. \A n \in Nodes : queue[n] \in Seq(Trigger)
      BY DEF DedupInv, Typed
    <2>4. \A n \in Nodes : Append(queue[n], new) \in Seq(Trigger)
      BY <2>1, <2>3
    <2>5. queue' \in [Nodes -> Seq(Trigger)]
      BY <2>2, <2>3, <2>4
    <2>. QED  BY <1>7, <2>5, QueueKeeps DEF Deliver, DedupInv, Typed
  <1>8. ASSUME NEW h \in handoffs, Lose(h)
        PROVE  DedupInv'
    BY <1>8, QueueKeeps DEF Lose, nodeVars, DedupInv, Typed
  <1>9. ASSUME NEW p \in Peers, SiteDown(p)
        PROVE  DedupInv'
    BY <1>9, <1>2 DEF SiteDown, nodeVars
  <1>10. CASE Tick
    BY <1>10, TickKeeps
  <1>11. CASE PublishRing
    BY <1>11, <1>2 DEF PublishRing, nodeVars
  <1>12. CASE UNCHANGED vars
    BY <1>12, <1>2 DEF vars, nodeVars
  <1>. QED
    BY <1>1, <1>3, <1>4, <1>5, <1>6, <1>7, <1>8, <1>9, <1>10, <1>11, <1>12 DEF Next

-----------------------------------------------------------------------------
\* Types: the owner of a handoff is a node, by OwnerIsMapTarget

\* A peer's owner is a node, whatever ring the node has read.
LEMMA DecideTyped ==
    ASSUME IsFiniteSet(Nodes), OnDemandTypeOK, NEW n \in Nodes, NEW p \in Peers
    PROVE  Decide(n, p) \in Nodes
  <1>. DEFINE here == \/ mode[n] = "any"
                      \/ myRing[n] \in {NoRing, {}} \/ n \notin knows
                      \/ p \notin DOMAIN Hash
  <1>1. CASE here
    BY <1>1 DEF Decide
  <1>2. CASE ~here
    <2>1. myRing[n] \in SUBSET Nodes /\ myRing[n] # {}
      BY <1>2 DEF OnDemandTypeOK
    <2>2. IsFiniteSet(myRing[n]) /\ myRing[n] \in SUBSET Nat
      BY <2>1, FS_Subset, OnDemandAssumption, HashAssumption
    <2>3. owner_of(p, myRing[n]) \in myRing[n]
      BY <1>2, <2>1, <2>2, OwnerIsMapTarget
    <2>. QED  BY <1>2, <2>1, <2>3 DEF Decide
  <1>. QED  BY <1>1, <1>2

\* The initial values have their types.
LEMMA TypesInit == Init => OnDemandTypeOK
  BY OnDemandAssumption DEF Init, OnDemandTypeOK, Fresh, ConnState

\* An initiate and its entry have their types.
LEMMA BeginTyped ==
    ASSUME OnDemandTypeOK, LookupBound <= Ttl,
           NEW n \in Nodes, NEW p \in Peers, NEW age \in 0 .. LookupBound,
           NEW known \in BOOLEAN, Begin(n, p, age, known)
    PROVE  /\ inflight' \in [Nodes -> [Peers -> 0 .. Ttl]]
           /\ calls' \in [Nodes -> SUBSET [peer : Peers, age : 0 .. InitiateBound]]
  <1>1. age \in 0 .. Ttl
    BY OnDemandAssumption
  <1>2. [peer |-> p, age |-> 0] \in [peer : Peers, age : 0 .. InitiateBound]
    BY OnDemandAssumption
  <1>3. CASE known
    BY <1>3 DEF Begin, OnDemandTypeOK
  <1>4. CASE ~known
    <2>1. /\ inflight' = [inflight EXCEPT ![n][p] = age]
          /\ calls' = [calls EXCEPT ![n] = @ \cup {[peer |-> p, age |-> 0]}]
      BY <1>4 DEF Begin
    <2>. QED  BY <1>1, <1>2, <2>1 DEF OnDemandTypeOK
  <1>. QED  BY <1>3, <1>4

\* A queue that gets a trigger stays one.
LEMMA QueueTyped ==
    ASSUME OnDemandTypeOK, NEW n \in Nodes, NEW t \in Trigger
    PROVE  Append(queue[n], t) \in Seq(Trigger)
  <1>1. queue[n] \in Seq(Trigger)
    BY DEF OnDemandTypeOK
  <1>. QED  BY <1>1

\* A trigger taken from the queue
LEMMA ReceiveTyped ==
    ASSUME LookupBound <= Ttl, OnDemandTypeOK, NEW n \in Nodes, Receive(n)
    PROVE  OnDemandTypeOK'
  <1>. DEFINE t == Head(queue[n])
              known == Known(n, t.peer)
  <1>1. /\ queue[n] \in Seq(Trigger) /\ queue[n] # <<>>
        /\ queue' = [queue EXCEPT ![n] = Tail(@)]
        /\ UNCHANGED <<live, published, up, ownVars, myRing, handoffs, deaf, breaks>>
    BY DEF Receive, OnDemandTypeOK
  <1>2. t \in Trigger /\ Tail(queue[n]) \in Seq(Trigger)
    BY <1>1
  <1>3. t.peer \in Peers /\ known \in BOOLEAN
    BY <1>2 DEF Trigger, Known
  <1>4. queue' \in [Nodes -> Seq(Trigger)]
    BY <1>1, <1>2 DEF OnDemandTypeOK
  <1>5. CASE t.kind = "HandedOff"
    <2>1. Begin(n, t.peer, 0, known) /\ task' = task
      BY <1>5 DEF Receive
    <2>. HIDE DEF t, known
    <2>2. 0 \in 0 .. LookupBound
      BY OnDemandAssumption
    <2>. QED  BY <1>1, <1>3, <1>4, <2>1, <2>2, BeginTyped DEF OnDemandTypeOK, ownVars
  <1>6. CASE t.kind # "HandedOff"
    <2>1. /\ task' = [task EXCEPT ![n] = Lookup(t.peer, known)]
          /\ inflight' = inflight /\ calls' = calls
      BY <1>6 DEF Receive
    <2>. HIDE DEF t, known
    <2>2. Lookup(t.peer, known) \in
              [step : {"lookup"}, peer : Peers, age : 0 .. LookupBound, known : BOOLEAN]
      BY <1>3, OnDemandAssumption DEF Lookup
    <2>. QED  BY <1>1, <1>4, <2>1, <2>2 DEF OnDemandTypeOK, ownVars
  <1>. QED  BY <1>5, <1>6

\* The lookup's answer
LEMMA ResolveTyped ==
    ASSUME IsFiniteSet(Nodes), LookupBound <= Ttl, OnDemandTypeOK,
           NEW n \in Nodes, Resolve(n)
    PROVE  OnDemandTypeOK'
  <1>. DEFINE t == task[n]
              owner == Decide(n, t.peer)
  <1>1. /\ t # Idle
        /\ task' = [task EXCEPT ![n] = Idle]
        /\ UNCHANGED <<live, published, up, ownVars, myRing, queue, deaf>>
    BY DEF Resolve
  <1>2. t.peer \in Peers /\ t.age \in 0 .. LookupBound /\ t.known \in BOOLEAN
    BY <1>1 DEF OnDemandTypeOK
  <1>3. owner \in Nodes
    BY <1>2, DecideTyped
  <1>4. task' \in [Nodes -> {Idle} \cup
                      [step : {"lookup"}, peer : Peers, age : 0 .. LookupBound,
                       known : BOOLEAN]]
    BY <1>1 DEF OnDemandTypeOK
  <1>5. \/ Begin(n, t.peer, t.age, t.known) /\ UNCHANGED <<handoffs, breaks>>
        \/ /\ handoffs' = handoffs \cup {[owner |-> owner, peer |-> t.peer]}
           /\ UNCHANGED <<inflight, calls, breaks>>
        \/ breaks' \in Nat /\ UNCHANGED <<inflight, calls, handoffs>>
    BY DEF Resolve, Break, OnDemandTypeOK
  <1>. HIDE DEF t, owner
  <1>6. CASE Begin(n, t.peer, t.age, t.known) /\ UNCHANGED <<handoffs, breaks>>
    BY <1>1, <1>2, <1>4, <1>6, BeginTyped DEF OnDemandTypeOK, ownVars
  <1>7. CASE /\ handoffs' = handoffs \cup {[owner |-> owner, peer |-> t.peer]}
             /\ UNCHANGED <<inflight, calls, breaks>>
    <2>1. [owner |-> owner, peer |-> t.peer] \in Handoff
      BY <1>2, <1>3 DEF Handoff
    <2>. QED  BY <1>1, <1>4, <1>7, <2>1 DEF OnDemandTypeOK, ownVars
  <1>8. CASE breaks' \in Nat /\ UNCHANGED <<inflight, calls, handoffs>>
    BY <1>1, <1>4, <1>8 DEF OnDemandTypeOK, ownVars
  <1>. QED  BY <1>5, <1>6, <1>7, <1>8

\* Nothing gets older than its bound.
LEMMA TickTyped ==
    ASSUME OnDemandTypeOK, Tick
    PROVE  OnDemandTypeOK'
  <1>1. /\ \A n \in Nodes : \A c \in calls[n] : c.age < InitiateBound
        /\ \A n \in Nodes : task[n] # Idle => task[n].age < LookupBound
        /\ UNCHANGED <<live, published, up, ownVars, myRing, queue, handoffs, deaf, breaks>>
        /\ inflight' = [n \in Nodes |-> [p \in Peers |-> Older(inflight[n][p])]]
        /\ calls' = [n \in Nodes |-> {[c EXCEPT !.age = @ + 1] : c \in calls[n]}]
        /\ task' = [n \in Nodes |->
                       IF task[n] = Idle THEN Idle ELSE [task[n] EXCEPT !.age = @ + 1]]
    BY DEF Tick
  <1>2. inflight' \in [Nodes -> [Peers -> 0 .. Ttl]]
    <2>1. \A n \in Nodes, p \in Peers : Older(inflight[n][p]) \in 0 .. Ttl
      BY OnDemandAssumption DEF Older, OnDemandTypeOK
    <2>. QED  BY <1>1, <2>1
  <1>3. calls' \in [Nodes -> SUBSET [peer : Peers, age : 0 .. InitiateBound]]
    <2>1. ASSUME NEW n \in Nodes, NEW c \in calls[n]
          PROVE  [c EXCEPT !.age = @ + 1] \in [peer : Peers, age : 0 .. InitiateBound]
      <3>1. c \in [peer : Peers, age : 0 .. InitiateBound] /\ c.age < InitiateBound
        BY <1>1 DEF OnDemandTypeOK
      <3>. QED  BY <3>1, OnDemandAssumption
    <2>. QED  BY <1>1, <2>1
  <1>4. task' \in [Nodes -> {Idle} \cup
                      [step : {"lookup"}, peer : Peers, age : 0 .. LookupBound,
                       known : BOOLEAN]]
    <2>1. ASSUME NEW n \in Nodes, task[n] # Idle
          PROVE  [task[n] EXCEPT !.age = @ + 1] \in
                    [step : {"lookup"}, peer : Peers, age : 0 .. LookupBound,
                     known : BOOLEAN]
      <3>1. /\ task[n] \in [step : {"lookup"}, peer : Peers, age : 0 .. LookupBound,
                             known : BOOLEAN]
            /\ task[n].age < LookupBound
        BY <1>1, <2>1 DEF OnDemandTypeOK
      <3>. QED  BY <3>1, OnDemandAssumption
    <2>. QED  BY <1>1, <2>1
  <1>. QED  BY <1>1, <1>2, <1>3, <1>4 DEF OnDemandTypeOK, ownVars

\* A process that starts, or goes, has a fresh table.
LEMMA RestartedTyped ==
    ASSUME OnDemandTypeOK, NEW n \in Nodes, Restarted(n)
    PROVE  /\ queue' \in [Nodes -> Seq(Trigger)]
           /\ task' \in [Nodes -> {Idle} \cup
                             [step : {"lookup"}, peer : Peers, age : 0 .. LookupBound,
                              known : BOOLEAN]]
           /\ inflight' \in [Nodes -> [Peers -> 0 .. Ttl]]
           /\ calls' \in [Nodes -> SUBSET [peer : Peers, age : 0 .. InitiateBound]]
           /\ myRing' \in [Nodes -> (SUBSET Nodes) \cup {NoRing}]
  <1>1. Fresh \in [Peers -> 0 .. Ttl]
    BY OnDemandAssumption DEF Fresh
  <1>. QED  BY <1>1 DEF Restarted, OnDemandTypeOK

\* Whatever a process finds when it starts
LEMMA BootTyped ==
    ASSUME OnDemandTypeOK, NEW n \in Nodes, Boot(n)
    PROVE  knows' \subseteq Nodes /\ deaf' \subseteq Nodes /\ conn' \in [Nodes -> ConnState]
  <1>1. PICK c \in {"open", "none"} : conn' = [conn EXCEPT ![n] = c]
    BY DEF Boot
  <1>2. conn' \in [Nodes -> ConnState]
    BY <1>1 DEF OnDemandTypeOK, ConnState
  <1>3. knows' \subseteq Nodes /\ deaf' \subseteq Nodes
    BY DEF Boot, OnDemandTypeOK
  <1>. QED  BY <1>2, <1>3

\* An initiate that succeeds brings one of the peers up on its node.
LEMMA CallTyped ==
    ASSUME OnDemandTypeOK, NEW n \in Nodes, NEW c \in calls[n]
    PROVE  [up EXCEPT ![c.peer] = @ \cup {n}] \in [Peers -> SUBSET Nodes]
  <1>1. c \in [peer : Peers, age : 0 .. InitiateBound]
    BY DEF OnDemandTypeOK
  <1>2. c.peer \in Peers /\ up \in [Peers -> SUBSET Nodes]
    BY <1>1 DEF OnDemandTypeOK
  <1>. QED  BY <1>2

\* Every step keeps the types.
LEMMA TypesNext ==
    ASSUME IsFiniteSet(Nodes), LookupBound <= Ttl, OnDemandTypeOK, [Next]_vars
    PROVE  OnDemandTypeOK'
  <1>1. ASSUME NEW n \in Nodes, TaskStep(n)
        PROVE  OnDemandTypeOK'
    BY <1>1, ReceiveTyped, ResolveTyped DEF TaskStep
  <1>2. ASSUME NEW n \in Nodes, Refresh(n)
        PROVE  OnDemandTypeOK'
    BY <1>2 DEF Refresh, OnDemandTypeOK, ownVars
  <1>3. ASSUME NEW n \in Nodes, SubscriptionEnds(n)
        PROVE  OnDemandTypeOK'
    BY <1>3 DEF SubscriptionEnds, Break, OnDemandTypeOK, ownVars
  <1>4. ASSUME NEW n \in Nodes, Join(n)
        PROVE  OnDemandTypeOK'
    BY <1>4, BootTyped DEF Join, Break, OnDemandTypeOK
  <1>5. ASSUME NEW n \in Nodes, RestartNode(n)
        PROVE  OnDemandTypeOK'
    <2>1. /\ Restarted(n) /\ Boot(n) /\ Break
          /\ UNCHANGED <<live, published, mode, handoffs>>
      BY <1>5 DEF RestartNode
    <2>2. up' \in [Peers -> SUBSET Nodes]
      <3>1. up \in [Peers -> SUBSET Nodes]
        BY DEF OnDemandTypeOK
      <3>. QED  BY <1>5, <3>1, CallTyped DEF RestartNode
    <2>. QED  BY <2>1, <2>2, RestartedTyped, BootTyped DEF OnDemandTypeOK, Break
  <1>6. ASSUME NEW n \in Nodes, Leave(n)
        PROVE  OnDemandTypeOK'
    <2>1. /\ Restarted(n) /\ Break
          /\ live' = live \ {n}
          /\ up' = [p \in Peers |-> up[p] \ {n}]
          /\ deaf' = deaf \ {n} /\ knows' = knows \cup {n}
          /\ UNCHANGED <<published, mode, handoffs>>
      BY <1>6 DEF Leave
    <2>2. up' \in [Peers -> SUBSET Nodes]
      BY <2>1 DEF OnDemandTypeOK
    <2>3. conn' \in [Nodes -> ConnState]
      BY <1>6 DEF Leave, OnDemandTypeOK, ConnState
    <2>. QED  BY <2>1, <2>2, <2>3, RestartedTyped DEF OnDemandTypeOK, Break
  <1>7. ASSUME NEW n \in Nodes, NEW c \in calls[n], InitiateReturns(n, c)
        PROVE  OnDemandTypeOK'
    <2>1. up' \in [Peers -> SUBSET Nodes] /\ breaks' \in Nat
      <3>1. up \in [Peers -> SUBSET Nodes] /\ breaks \in Nat
        BY DEF OnDemandTypeOK
      <3>. QED  BY <1>7, <3>1, CallTyped DEF InitiateReturns, Break
    <2>2. calls' \in [Nodes -> SUBSET [peer : Peers, age : 0 .. InitiateBound]]
      BY <1>7 DEF InitiateReturns, OnDemandTypeOK
    <2>. QED  BY <1>7, <2>1, <2>2 DEF InitiateReturns, OnDemandTypeOK, ownVars
  <1>8. ASSUME NEW n \in Nodes, NEW p \in Peers, Packet(n, p)
        PROVE  OnDemandTypeOK'
    <2>1. [kind |-> "Local", peer |-> p] \in Trigger
      BY DEF Trigger
    <2>2. queue' \in [Nodes -> Seq(Trigger)]
      BY <1>8, <2>1, QueueTyped DEF Packet, OnDemandTypeOK
    <2>. QED  BY <1>8, <2>2 DEF Packet, OnDemandTypeOK, ownVars
  <1>9. ASSUME NEW h \in handoffs, Deliver(h)
        PROVE  OnDemandTypeOK'
    <2>. DEFINE takers == {n \in live \ deaf : ForMe(n, h)}
                new == [kind |-> "HandedOff", peer |-> h.peer]
    <2>1. new \in Trigger
      BY DEF Trigger, Handoff, OnDemandTypeOK
    <2>2. queue' = [n \in Nodes |->
                       IF n \in takers THEN Append(queue[n], new) ELSE queue[n]]
      BY <1>9 DEF Deliver
    <2>. HIDE DEF new, takers
    <2>3. queue' \in [Nodes -> Seq(Trigger)]
      <3>1. \A n \in Nodes : Append(queue[n], new) \in Seq(Trigger)
        BY <2>1, QueueTyped
      <3>2. \A n \in Nodes : queue[n] \in Seq(Trigger)
        BY DEF OnDemandTypeOK
      <3>. QED  BY <2>2, <3>1, <3>2
    <2>. QED  BY <1>9, <2>3 DEF Deliver, OnDemandTypeOK, ownVars
  <1>10. ASSUME NEW h \in handoffs, Lose(h)
         PROVE  OnDemandTypeOK'
    BY <1>10 DEF Lose, Break, nodeVars, ownVars, OnDemandTypeOK
  <1>11. ASSUME NEW p \in Peers, SiteDown(p)
         PROVE  OnDemandTypeOK'
    BY <1>11 DEF SiteDown, nodeVars, ownVars, OnDemandTypeOK
  <1>12. CASE Tick
    BY <1>12, TickTyped
  <1>13. CASE PublishRing
    BY <1>13 DEF PublishRing, nodeVars, ownVars, OnDemandTypeOK
  <1>14. CASE UNCHANGED vars
    BY <1>14 DEF vars, nodeVars, ownVars, OnDemandTypeOK
  <1>15. ASSUME NEW n \in Nodes, ConnectionEnds(n)
         PROVE  OnDemandTypeOK'
    <2>1. conn' \in [Nodes -> ConnState]
      BY <1>15 DEF ConnectionEnds, OnDemandTypeOK, ConnState
    <2>. QED  BY <1>15, <2>1 DEF ConnectionEnds, Break, OnDemandTypeOK
  <1>. QED
    BY <1>1, <1>2, <1>3, <1>4, <1>5, <1>6, <1>7, <1>8, <1>9, <1>10, <1>11, <1>12, <1>13,
       <1>14, <1>15 DEF Next

\* Every variable keeps its type, as long as a lookup fits in the window: in
\* particular a handoff is for a node of the group, whatever ring its sender has
\* read (ondemand.rs decide).
THEOREM OnDemandTypes ==
    ASSUME IsFiniteSet(Nodes), LookupBound <= Ttl
    PROVE  Spec => []OnDemandTypeOK
  <1>1. OnDemandTypeOK /\ [Next]_vars => OnDemandTypeOK'
    BY TypesNext
  <1>. QED  BY <1>1, TypesInit, PTL DEF Spec

-----------------------------------------------------------------------------

\* However often a node is triggered, by packets and by handoffs, it never runs
\* two initiates of one peer at once, provided that a lookup and an initiate fit
\* in the window of INFLIGHT_TTL together (ondemand.rs ondemand_task).
THEOREM OneInitiateAtATime == Spec => []OneInitiatePerNode
  <1>1. CASE LookupBound + InitiateBound < Ttl
    <2>1. DedupInv => OneInitiatePerNode
      BY DEF DedupInv, Single, OneInitiatePerNode
    <2>2. DedupInv /\ [Next]_vars => DedupInv'
      BY <1>1, DedupNext
    <2>. QED  BY <2>1, <2>2, DedupInit, PTL DEF Spec
  <1>2. CASE ~(LookupBound + InitiateBound < Ttl)
    <2>1. OneInitiatePerNode
      BY <1>2 DEF OneInitiatePerNode
    <2>. QED  BY <2>1, PTL
  <1>. QED  BY <1>1, <1>2

-----------------------------------------------------------------------------
\* On-demand bring-up: the owner, and nobody else

\* Every on-demand task works with the ring of the nodes in service.
RingsAgree ==
    /\ Modes = {"jhash"}
    /\ \A n \in live : conn[n] = "none" \/ myRing[n] = live

\* Whatever has been handed over is with its owner, and so is what a node has begun
\* that could tell: it knows its own address, and the peer's is one.
WithOwners ==
    /\ \A n \in knows : \A c \in calls[n] :
          c.peer \in DOMAIN Hash => n = owner_of(c.peer, live)
    /\ \A n \in Nodes : \A i \in DOMAIN queue[n] :
          queue[n][i].kind = "HandedOff" => n = owner_of(queue[n][i].peer, live)
    /\ \A h \in handoffs : h.owner = owner_of(h.peer, live)

\* A node that has left has nothing to do; there is always one that has not.
ServeInv ==
    /\ live # {} /\ mode \in [Nodes -> Modes]
    /\ \A n \in Nodes \ live : task[n] = Idle /\ queue[n] = <<>>

\* It holds at first.
LEMMA ServeInit == Init => ServeInv
  <1>. SUFFICES ASSUME Init
                PROVE  ServeInv
    OBVIOUS
  <1>1. live # {} /\ mode \in [Nodes -> Modes]
    BY DEF Init
  <1>2. \A n \in Nodes : task[n] = Idle /\ queue[n] = <<>>
    BY DEF Init
  <1>. QED  BY <1>1, <1>2 DEF ServeInv

\* Only nodes in service get packets and handoffs.
LEMMA ServeNext ==
    ASSUME OnDemandTypeOK, ServeInv, [Next]_vars
    PROVE  ServeInv'
  <1>. USE DEF ServeInv, OnDemandTypeOK, ownVars
  <1>1. ASSUME NEW n \in Nodes, Receive(n)
        PROVE  ServeInv'
    <2>1. n \in live
      BY <1>1 DEF Receive
    <2>2. \A m \in Nodes \ {n} : task'[m] = task[m] /\ queue'[m] = queue[m]
      BY <1>1 DEF Receive
    <2>. QED  BY <1>1, <2>1, <2>2 DEF Receive
  <1>2. ASSUME NEW n \in Nodes, Resolve(n)
        PROVE  ServeInv'
    BY <1>2 DEF Resolve
  <1>3. ASSUME NEW n \in Nodes, Refresh(n) \/ SubscriptionEnds(n) \/ ConnectionEnds(n)
        PROVE  ServeInv'
    BY <1>3 DEF Refresh, SubscriptionEnds, ConnectionEnds
  <1>4. ASSUME NEW n \in Nodes, RestartNode(n) \/ Leave(n) \/ Join(n)
        PROVE  ServeInv'
    BY <1>4 DEF RestartNode, Leave, Join, Restarted, nodeVars
  <1>5. ASSUME NEW n \in Nodes, NEW c \in calls[n], InitiateReturns(n, c)
        PROVE  ServeInv'
    BY <1>5 DEF InitiateReturns
  <1>6. ASSUME NEW n \in Nodes, NEW p \in Peers, Packet(n, p)
        PROVE  ServeInv'
    BY <1>6 DEF Packet
  <1>7. ASSUME NEW h \in handoffs, Deliver(h)
        PROVE  ServeInv'
    BY <1>7 DEF Deliver
  <1>8. ASSUME NEW h \in handoffs, Lose(h)
        PROVE  ServeInv'
    BY <1>8 DEF Lose, nodeVars
  <1>9. ASSUME NEW p \in Peers, SiteDown(p)
        PROVE  ServeInv'
    BY <1>9 DEF SiteDown, nodeVars
  <1>10. CASE Tick
    BY <1>10 DEF Tick
  <1>11. CASE PublishRing
    BY <1>11 DEF PublishRing, nodeVars
  <1>12. CASE UNCHANGED vars
    BY <1>12 DEF vars, nodeVars
  <1>. QED
    BY <1>1, <1>2, <1>3, <1>4, <1>5, <1>6, <1>7, <1>8, <1>9, <1>10, <1>11, <1>12
       DEF Next, TaskStep

\* An initiate is begun on its peer's owner, where that can be told.
LEMMA BeginWithOwner ==
    ASSUME OnDemandTypeOK, WithOwners, NEW n \in Nodes, NEW p \in Peers,
           NEW age, NEW known, Begin(n, p, age, known),
           n \in knows /\ p \in DOMAIN Hash => n = owner_of(p, live)
    PROVE  \A m \in knows : \A c \in calls'[m] :
               c.peer \in DOMAIN Hash => m = owner_of(c.peer, live)
  <1>1. CASE known
    BY <1>1 DEF Begin, WithOwners
  <1>2. CASE ~known
    <2>1. calls' = [calls EXCEPT ![n] = @ \cup {[peer |-> p, age |-> 0]}]
      BY <1>2 DEF Begin
    <2>2. \A m \in Nodes : m # n => calls'[m] = calls[m]
      BY <2>1 DEF OnDemandTypeOK
    <2>3. calls'[n] = calls[n] \cup {[peer |-> p, age |-> 0]}
      BY <2>1 DEF OnDemandTypeOK
    <2>4. ASSUME NEW m \in knows, NEW c \in calls'[m], c.peer \in DOMAIN Hash
          PROVE  m = owner_of(c.peer, live)
      <3>1. CASE c \in calls[m]
        BY <2>4, <3>1 DEF WithOwners
      <3>2. CASE c \notin calls[m]
        <4>1. m = n /\ c = [peer |-> p, age |-> 0]
          BY <2>2, <2>3, <2>4, <3>2 DEF OnDemandTypeOK
        <4>2. c.peer = p
          BY <4>1
        <4>. QED  BY <2>4, <4>1, <4>2
      <3>. QED  BY <3>1, <3>2
    <2>. QED  BY <2>4
  <1>. QED  BY <1>1, <1>2

\* A trigger taken from the queue of the owner is the owner's.
LEMMA ReceiveWithOwner ==
    ASSUME OnDemandTypeOK, WithOwners, NEW n \in Nodes, Receive(n)
    PROVE  WithOwners'
  <1>. DEFINE t == Head(queue[n])
  <1>1. /\ queue[n] \in Seq(Trigger) /\ queue[n] # <<>>
        /\ queue' = [queue EXCEPT ![n] = Tail(@)]
        /\ live' = live /\ handoffs' = handoffs /\ knows' = knows
    BY DEF Receive, OnDemandTypeOK, ownVars
  <1>2. /\ t \in Trigger /\ t = queue[n][1] /\ 1 \in DOMAIN queue[n]
        /\ \A i \in DOMAIN Tail(queue[n]) :
              i + 1 \in DOMAIN queue[n] /\ Tail(queue[n])[i] = queue[n][i + 1]
    BY <1>1
  <1>3. t.peer \in Peers
    BY <1>2 DEF Trigger
  <1>4. \A m \in knows : \A c \in calls'[m] :
            c.peer \in DOMAIN Hash => m = owner_of(c.peer, live)
    <2>1. CASE t.kind = "HandedOff"
      <3>1. n = owner_of(t.peer, live)
        BY <1>2, <2>1 DEF WithOwners
      <3>2. Begin(n, t.peer, 0, Known(n, t.peer))
        BY <2>1 DEF Receive
      <3>. QED  BY <1>3, <3>1, <3>2, BeginWithOwner
    <2>2. CASE t.kind # "HandedOff"
      BY <2>2 DEF Receive, WithOwners
    <2>. QED  BY <2>1, <2>2
  <1>5. ASSUME NEW m \in Nodes, NEW i \in DOMAIN queue'[m], queue'[m][i].kind = "HandedOff"
        PROVE  m = owner_of(queue'[m][i].peer, live)
    <2>1. CASE m = n
      <3>1. queue'[m] = Tail(queue[n])
        BY <1>1, <2>1 DEF OnDemandTypeOK
      <3>. QED  BY <1>2, <1>5, <2>1, <3>1 DEF WithOwners
    <2>2. CASE m # n
      <3>1. queue'[m] = queue[m]
        BY <1>1, <2>2 DEF OnDemandTypeOK
      <3>. QED  BY <1>5, <3>1 DEF WithOwners
    <2>. QED  BY <2>1, <2>2
  <1>. QED  BY <1>1, <1>4, <1>5 DEF WithOwners

\* A trigger appended to a queue leaves those before it where they are.
LEMMA AppendWithOwner ==
    ASSUME OnDemandTypeOK, WithOwners, NEW n \in Nodes, NEW t \in Trigger,
           t.kind = "HandedOff" => n = owner_of(t.peer, live),
           NEW i \in DOMAIN Append(queue[n], t),
           Append(queue[n], t)[i].kind = "HandedOff"
    PROVE  n = owner_of(Append(queue[n], t)[i].peer, live)
  <1>1. queue[n] \in Seq(Trigger)
    BY DEF OnDemandTypeOK
  <1>2. \/ i \in DOMAIN queue[n] /\ Append(queue[n], t)[i] = queue[n][i]
        \/ Append(queue[n], t)[i] = t
    BY <1>1
  <1>. QED  BY <1>2 DEF WithOwners

\* While the rings agree, what is with its owner stays there, and what is new is.
LEMMA OwnersStep ==
    ASSUME OnDemandTypeOK, ServeInv, [Next]_vars,
           RingsAgree, live' = live, WithOwners
    PROVE  WithOwners'
  <1>1. ASSUME NEW n \in Nodes, Receive(n)
        PROVE  WithOwners'
    BY <1>1, ReceiveWithOwner
  <1>2. ASSUME NEW n \in Nodes, Resolve(n)
        PROVE  WithOwners'
    <2>. DEFINE p == task[n].peer
    <2>1. p \in Peers /\ queue' = queue /\ knows' = knows
      BY <1>2 DEF Resolve, OnDemandTypeOK, ownVars
    <2>2. ASSUME conn[n] = "open"
          PROVE  Decide(n, p) \in {n, owner_of(p, live)}
      <3>1. mode[n] = "jhash" /\ myRing[n] = live /\ live \notin {NoRing, {}}
        BY <1>2, <2>2, OnDemandAssumption
           DEF Resolve, ServeInv, RingsAgree, OnDemandTypeOK
      <3>. QED  BY <3>1 DEF Decide
    <2>3. ASSUME conn[n] = "open", n \in knows, p \in DOMAIN Hash
          PROVE  Decide(n, p) = owner_of(p, live)
      <3>1. mode[n] = "jhash" /\ myRing[n] = live /\ live \notin {NoRing, {}}
        BY <1>2, <2>3, OnDemandAssumption
           DEF Resolve, ServeInv, RingsAgree, OnDemandTypeOK
      <3>. QED  BY <2>3, <3>1 DEF Decide
    <2>4. CASE /\ conn[n] = "open" /\ Decide(n, p) = n
               /\ Begin(n, p, task[n].age, task[n].known) /\ UNCHANGED handoffs
      <3>1. \A m \in knows : \A c \in calls'[m] :
                c.peer \in DOMAIN Hash => m = owner_of(c.peer, live)
        BY <2>1, <2>3, <2>4, BeginWithOwner
      <3>. QED  BY <2>1, <2>4, <3>1 DEF WithOwners
    <2>5. CASE /\ conn[n] = "open" /\ Decide(n, p) # n
               /\ handoffs' = handoffs \cup {[owner |-> Decide(n, p), peer |-> p]}
               /\ UNCHANGED calls
      BY <2>1, <2>2, <2>5 DEF WithOwners
    <2>6. CASE UNCHANGED <<calls, handoffs>>
      BY <2>1, <2>6 DEF WithOwners
    <2>. QED  BY <1>2, <2>4, <2>5, <2>6 DEF Resolve
  <1>3. ASSUME NEW n \in Nodes, Refresh(n) \/ SubscriptionEnds(n) \/ ConnectionEnds(n)
        PROVE  WithOwners'
    BY <1>3 DEF Refresh, SubscriptionEnds, ConnectionEnds, WithOwners, ownVars
  <1>4. ASSUME NEW n \in Nodes, RestartNode(n) \/ Leave(n) \/ Join(n)
        PROVE  WithOwners'
    <2>1. RestartNode(n)
      BY <1>4 DEF Leave, Join, OnDemandTypeOK
    <2>2. /\ queue' = [queue EXCEPT ![n] = <<>>] /\ calls' = [calls EXCEPT ![n] = {}]
          /\ handoffs' = handoffs /\ Boot(n)
      BY <2>1 DEF RestartNode, Restarted
    <2>3. \A m \in Nodes : calls'[m] \subseteq calls[m] /\ queue'[m] \in {queue[m], <<>>}
      BY <2>2 DEF OnDemandTypeOK
    <2>4. calls'[n] = {} /\ knows' \ {n} \subseteq knows /\ knows' \subseteq Nodes
      BY <2>2 DEF Boot, OnDemandTypeOK
    <2>. QED  BY <2>2, <2>3, <2>4 DEF WithOwners
  <1>5. ASSUME NEW n \in Nodes, NEW c \in calls[n], InitiateReturns(n, c)
        PROVE  WithOwners'
    <2>1. /\ \A m \in Nodes : calls'[m] \subseteq calls[m]
          /\ queue' = queue /\ handoffs' = handoffs /\ knows' = knows
      BY <1>5 DEF InitiateReturns, OnDemandTypeOK, ownVars
    <2>. QED  BY <2>1 DEF WithOwners, OnDemandTypeOK
  <1>6. ASSUME NEW n \in Nodes, NEW p \in Peers, Packet(n, p)
        PROVE  WithOwners'
    <2>. DEFINE t == [kind |-> "Local", peer |-> p]
    <2>1. t \in Trigger /\ t.kind # "HandedOff"
      BY DEF Trigger
    <2>2. queue' = [queue EXCEPT ![n] = Append(@, t)]
      BY <1>6 DEF Packet
    <2>. HIDE DEF t
    <2>3. \A m \in Nodes : queue'[m] = IF m = n THEN Append(queue[n], t) ELSE queue[m]
      BY <2>2 DEF OnDemandTypeOK
    <2>4. ASSUME NEW m \in Nodes, NEW i \in DOMAIN queue'[m],
                 queue'[m][i].kind = "HandedOff"
          PROVE  m = owner_of(queue'[m][i].peer, live)
      <3>1. CASE m = n
        <4>1. queue'[m] = Append(queue[n], t)
          BY <2>3, <3>1
        <4>. QED  BY <2>1, <2>4, <3>1, <4>1, AppendWithOwner
      <3>2. CASE m # n
        BY <2>3, <2>4, <3>2 DEF WithOwners
      <3>. QED  BY <3>1, <3>2
    <2>5. calls' = calls /\ handoffs' = handoffs /\ knows' = knows
      BY <1>6 DEF Packet, ownVars
    <2>. QED  BY <2>4, <2>5 DEF WithOwners
  <1>7. ASSUME NEW h \in handoffs, Deliver(h)
        PROVE  WithOwners'
    <2>. DEFINE t == [kind |-> "HandedOff", peer |-> h.peer]
    <2>1. t \in Trigger
      BY DEF Trigger, OnDemandTypeOK, Handoff
    <2>2. \A m \in Nodes : \/ queue'[m] = queue[m]
                           \/ m = h.owner /\ queue'[m] = Append(queue[m], t)
      BY <1>7 DEF Deliver, ForMe
    <2>3. h.owner = owner_of(t.peer, live)
      BY DEF WithOwners
    <2>. HIDE DEF t
    <2>4. ASSUME NEW m \in Nodes, NEW i \in DOMAIN queue'[m],
                 queue'[m][i].kind = "HandedOff"
          PROVE  m = owner_of(queue'[m][i].peer, live)
      <3>1. CASE m = h.owner /\ queue'[m] = Append(queue[m], t)
        BY <2>1, <2>3, <2>4, <3>1, AppendWithOwner
      <3>2. CASE queue'[m] = queue[m]
        BY <2>4, <3>2 DEF WithOwners
      <3>. QED  BY <2>2, <3>1, <3>2
    <2>5. calls' = calls /\ handoffs' \subseteq handoffs /\ knows' = knows
      BY <1>7 DEF Deliver, ownVars
    <2>. QED  BY <2>4, <2>5 DEF WithOwners
  <1>8. ASSUME NEW h \in handoffs, Lose(h)
        PROVE  WithOwners'
    BY <1>8 DEF Lose, nodeVars, ownVars, WithOwners
  <1>9. ASSUME NEW p \in Peers, SiteDown(p)
        PROVE  WithOwners'
    BY <1>9 DEF SiteDown, nodeVars, ownVars, WithOwners
  <1>10. CASE Tick
    <2>1. \A m \in Nodes : \A c \in calls'[m] : \E d \in calls[m] : c.peer = d.peer
      BY <1>10 DEF Tick, OnDemandTypeOK
    <2>2. queue' = queue /\ handoffs' = handoffs /\ knows' = knows
      BY <1>10 DEF Tick, ownVars
    <2>. QED  BY <2>1, <2>2 DEF WithOwners, OnDemandTypeOK
  <1>11. CASE PublishRing
    BY <1>11 DEF PublishRing, nodeVars, ownVars, WithOwners
  <1>12. CASE UNCHANGED vars
    BY <1>12 DEF vars, nodeVars, ownVars, WithOwners
  <1>. QED
    BY <1>1, <1>2, <1>3, <1>4, <1>5, <1>6, <1>7, <1>8, <1>9, <1>10, <1>11, <1>12
       DEF Next, TaskStep

\* The safety half of OnlyOwnersInitiate: while every on-demand task works with the
\* ring of the nodes in service, no packet, handoff, restart or failure makes a node
\* that knows its own address run an initiate of a readable peer that is not its
\* own, once none is left from older rings; that those go away is the half that
\* needs fairness (ondemand.rs decide and initiate_sub_task).
THEOREM OwnersStayOwners ==
    ASSUME IsFiniteSet(Nodes), LookupBound <= Ttl
    PROVE  Spec => [][RingsAgree /\ live' = live /\ WithOwners => WithOwners']_vars
  <1>1. OnDemandTypeOK /\ [Next]_vars => OnDemandTypeOK'
    BY TypesNext
  <1>2. OnDemandTypeOK /\ ServeInv /\ [Next]_vars => ServeInv'
    BY ServeNext
  <1>3. OnDemandTypeOK /\ ServeInv /\ [Next]_vars
            => [RingsAgree /\ live' = live /\ WithOwners => WithOwners']_vars
    BY OwnersStep
  <1>. QED  BY <1>1, <1>2, <1>3, TypesInit, ServeInit, PTL DEF Spec

===============================================================================
