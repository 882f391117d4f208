------------------------------ MODULE JhashRing ------------------------------
(***************************************************************************)
(* The ring of VPN concentrators (ipseccore lib.rs): the node that a       *)
(* customer's address hashes to, as the kernel's `jhash ... mod n map`     *)
(* chooses it on the LVS nodes, and as ipsecnode computes it.              *)
(***************************************************************************)
EXTENDS Integers, FiniteSets

CONSTANTS
    Nodes,      \* VPN concentrators, by private address, as numbers
    HashSpace,  \* range of the jhash (2^32 in the code)
    Hash        \* jhash of each customer's address

ASSUME HashAssumption ==
    /\ Nodes \subseteq Nat
    /\ HashSpace \in Nat \ {0}
    /\ \A source \in DOMAIN Hash : Hash[source] \in 0 .. HashSpace - 1

NoNode == -1

\* (fault: % n instead of the kernel's reciprocal scaling)
owner_indexModulo(h, n) == h % n

owner_index(h, n) == (h * n) \div HashSpace

\* The owner in the ring sorted numerically, NoNode when it is empty
owner_of(source, nodes) ==
    IF nodes = {} THEN NoNode
    ELSE CHOOSE n \in nodes :
            Cardinality({m \in nodes : m < n}) =
                owner_index(Hash[source], Cardinality(nodes))

\* (fault: the slot is taken for the node in it)
MapTargetSlot(source, nodes) == owner_index(Hash[source], Cardinality(nodes))

\* The node the kernel's jhash map sends an unpinned flow to: slot i of n takes
\* the i-th n-th of the hash space.
MapTarget(source, nodes) ==
    CHOOSE n \in nodes :
        LET i == Cardinality({m \in nodes : m < n})
            size == Cardinality(nodes)
        IN  i * HashSpace <= Hash[source] * size /\ Hash[source] * size < (i + 1) * HashSpace

=============================================================================
