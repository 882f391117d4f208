---------------------------- MODULE SiteSetupProofs ----------------------------
(***************************************************************************)
(* Theorems about SiteSetup, and BackendNat inside it, for every set of    *)
(* sites, devices, modes and roles, every combination of faults and any    *)
(* number of failed commands: type correctness with the bound on the       *)
(* allocator, that what is reported as installed forwards, what a site     *)
(* that is down may have left, and that port splits come first.            *)
(***************************************************************************)
EXTENDS SiteSetup, SequenceTheorems, FiniteSetTheorems, TLAPS

-----------------------------------------------------------------------------
\* The stages of a handler

\* setup_site_bnat is under way.
BnatSetup == {"create_map", "elements", "drop_map", "split_chain", "split_jump", "drop_chain",
              "dnat_rule", "snat_map", "snat_rule", "drop_snat", "access_rule", "ftp_helper"}

\* The VRF stands, or there is none to set up, and the site is not in the cache yet.
Standing == {"device", "lookup", "commit"} \cup BnatSetup

Busy == {"setup", "partial", "bnat_down", "devices_down", "vrf_down"} \cup Standing

Steps == {"idle", "down"} \cup Busy

Keyed == Rules \cup Routes
VrfKinds == {"fib", "tap", "link", "lookup"} \cup Marks \cup Keyed
NatKinds(bypass) == IF bypass THEN {"global"} ELSE {"map", "path", "global"}

\* The object of that kind which p has with table id.
Thing(kind, p, id) == Obj(kind, p, IF kind \in Keyed THEN id ELSE 0)

Commands == {"plumb"} \cup VrfKinds

\* todo is what is left of order, and not nothing.
Suffix(todo, order) == \E i \in 1 .. Len(order) : todo = SubSeq(order, i, Len(order))

\* The last k commands of order.
Last(order, k) == {order[i] : i \in Len(order) - k + 1 .. Len(order)}

\* What stands when k commands of SetupOrder are left.
Done(k) ==
    (IF k <= 7 THEN {"fib", "tap", "link"} ELSE {})
    \cup (IF k <= 5 THEN {"mark_set"} ELSE {}) \cup (IF k <= 4 THEN {"mark_map"} ELSE {})
    \cup (IF k <= 3 THEN {"fwd_rule"} ELSE {}) \cup (IF k <= 2 THEN {"fwd_route"} ELSE {})
    \cup (IF k <= 1 THEN {"ret_rule"} ELSE {}) \cup (IF k <= 0 THEN {"ret_route"} ELSE {})

WorkType == [bypass : BOOLEAN, id : Ids, devices : SUBSET Devices,
             pending : SUBSET Devices, todo : Seq(Commands)]

\* The types of the handler's state, with those of its locals.
TypeInv ==
    /\ site \in Sites /\ pc \in Steps
    /\ objects \subseteq Object
    /\ cache \in [Sites -> State \cup {NoSite}]
    /\ work \in WorkType

\* The allocator: the free ids are among those that were handed out.
AllocType == \E next \in Ids : \E free \in Seq(0 .. next - 1) : alloc = [next |-> next, free |-> free]

\* The locals fit the stage.
WorkInv ==
    /\ pc \in {"idle", "down"} => work = NoWork
    /\ pc = "down" => "crash" \in happened /\ \A p \in Sites : cache[p] = NoSite
    /\ pc \in Busy => cache[site] = NoSite
    /\ pc = "setup" => Suffix(work.todo, SetupOrder)
    /\ pc = "partial" => Suffix(work.todo, PartialOrder)
    /\ pc = "vrf_down" => Suffix(work.todo, VrfOrder)
    /\ pc \in {"bnat_down", "devices_down"} => work.bypass \/ work.todo = VrfOrder
    /\ pc \in {"setup", "partial", "vrf_down", "lookup"} => ~work.bypass
    /\ pc \in {"setup", "partial", "bnat_down", "devices_down", "vrf_down"} => work.devices = {}
    /\ pc \in {"lookup", "commit", "vrf_down"} \cup BnatSetup => work.pending = {}
    /\ work.devices \cap work.pending = {}

-----------------------------------------------------------------------------
\* Commands in order

\* The commands of the three orders.
LEMMA OrderTypes ==
    /\ SetupOrder \in Seq(Commands) /\ Len(SetupOrder) = 8
    /\ PartialOrder \in Seq(Commands) /\ Len(PartialOrder) = 5
    /\ VrfOrder \in Seq(Commands) /\ Len(VrfOrder) = 10
  BY DEF SetupOrder, PartialOrder, VrfOrder, Commands, VrfKinds, Marks, Keyed, Rules, Routes

\* One command of an order is done after the other.
LEMMA SuffixStep ==
    ASSUME NEW order \in Seq(Commands), NEW todo, Suffix(todo, order)
    PROVE  /\ todo \in Seq(Commands) /\ Len(todo) \in 1 .. Len(order)
           /\ Head(todo) = order[Len(order) - Len(todo) + 1]
           /\ Len(todo) > 1 => /\ Suffix(Tail(todo), order)
                               /\ Len(Tail(todo)) = Len(todo) - 1
  <1>1. PICK i \in 1 .. Len(order) : todo = SubSeq(order, i, Len(order))
    BY DEF Suffix
  <1>2. Len(order) \in Nat /\ \A j \in 1 .. Len(order) : order[j] \in Commands
    BY LenProperties, ElementOfSeq
  <1>3. todo \in Seq(Commands) /\ Len(todo) = Len(order) - i + 1
    BY <1>1, <1>2, SubSeqProperties
  <1>4. Head(todo) = order[i] /\ Tail(todo) = SubSeq(order, i + 1, Len(order))
    BY <1>1, <1>2, HeadTailOfSubSeq
  <1>5. ASSUME Len(todo) > 1
        PROVE  Suffix(Tail(todo), order) /\ Len(Tail(todo)) = Len(todo) - 1
    <2>1. i + 1 \in 1 .. Len(order)
      BY <1>2, <1>3, <1>5
    <2>2. Len(Tail(todo)) = Len(order) - (i + 1) + 1
      BY <1>2, <1>4, <2>1, SubSeqProperties
    <2>3. Suffix(Tail(todo), order)
      BY <1>4, <2>1 DEF Suffix
    <2>. QED  BY <1>2, <1>3, <2>2, <2>3
  <1>. QED  BY <1>2, <1>3, <1>4, <1>5

\* An order is its own suffix.
LEMMA SuffixWhole ==
    /\ Suffix(SetupOrder, SetupOrder) /\ Suffix(PartialOrder, PartialOrder)
    /\ Suffix(VrfOrder, VrfOrder)
  BY OrderTypes, SubSeqFull DEF Suffix

\* What the next command of each order is.
LEMMA SetupHead ==
    ASSUME NEW todo, Suffix(todo, SetupOrder)
    PROVE  /\ Len(todo) \in 1 .. 8
           /\ Len(todo) = 8 <=> Head(todo) = "tap"
           /\ Len(todo) = 7 <=> Head(todo) = "plumb"
           /\ Len(todo) = 6 <=> Head(todo) = "mark_set"
           /\ Len(todo) = 5 <=> Head(todo) = "mark_map"
           /\ Len(todo) = 4 <=> Head(todo) = "fwd_rule"
           /\ Len(todo) = 3 <=> Head(todo) = "fwd_route"
           /\ Len(todo) = 2 <=> Head(todo) = "ret_rule"
           /\ Len(todo) = 1 <=> Head(todo) = "ret_route"
  <1>1. SetupOrder \in Seq(Commands) /\ Len(SetupOrder) = 8
    BY OrderTypes
  <1>2. Len(todo) \in 1 .. 8 /\ Head(todo) = SetupOrder[Len(SetupOrder) - Len(todo) + 1]
    BY <1>1, SuffixStep
  <1>3. Head(todo) = SetupOrder[9 - Len(todo)]
    BY <1>1, <1>2
  <1>4. /\ SetupOrder[1] = "tap" /\ SetupOrder[2] = "plumb" /\ SetupOrder[3] = "mark_set"
        /\ SetupOrder[4] = "mark_map" /\ SetupOrder[5] = "fwd_rule" /\ SetupOrder[6] = "fwd_route"
        /\ SetupOrder[7] = "ret_rule" /\ SetupOrder[8] = "ret_route"
    BY DEF SetupOrder
  <1>. DEFINE k == Len(todo)
              next == Head(todo)
  <1>. HIDE DEF k, next
  <1>5. k \in 1 .. 8 /\ next = SetupOrder[9 - k]
    BY <1>2, <1>3 DEF k, next
  <1>6. /\ k = 8 => next = "tap"
        /\ k = 7 => next = "plumb"
        /\ k = 6 => next = "mark_set"
        /\ k = 5 => next = "mark_map"
        /\ k = 4 => next = "fwd_rule"
        /\ k = 3 => next = "fwd_route"
        /\ k = 2 => next = "ret_rule"
        /\ k = 1 => next = "ret_route"
    BY <1>4, <1>5
  <1>. QED  BY <1>5, <1>6 DEF k, next

\* Another command of an order is among the last ones.
LEMMA LastStep ==
    ASSUME NEW order \in Seq(Commands), NEW k \in 1 .. Len(order)
    PROVE  Last(order, k) = {order[Len(order) - k + 1]} \cup Last(order, k - 1)
  BY LenProperties DEF Last

\* What is still to be removed besides the link, the tap and so on.
LEMMA LastOnes ==
    /\ \A k \in 1 .. 5 : PartialOrder[6 - k] = "link" => k = 1
    /\ \A k \in 1 .. 10 : /\ VrfOrder[11 - k] = "link" => k = 4
                          /\ VrfOrder[11 - k] = "tap" => k = 3
                          /\ VrfOrder[11 - k] = "fib" => k = 1
    /\ \A i \in 1 .. 5 : PartialOrder[i] # "tap" /\ PartialOrder[i] # "fib"
    /\ Last(PartialOrder, 0) = {}
    /\ Last(VrfOrder, 3) = {"tap", "lookup", "fib"}
    /\ Last(VrfOrder, 2) = {"lookup", "fib"} /\ Last(VrfOrder, 0) = {}
  BY OrderTypes DEF Last, PartialOrder, VrfOrder

-----------------------------------------------------------------------------
\* Steps keep the failures and their kinds

\* No step forgets what has gone wrong, and each adds failures within the bound.
LEMMA FailsTyped ==
    ASSUME failures \in 0 .. MaxFailures, happened \subseteq Faults,
           NoFail \/ (\E f : Fail(f)) \/ \E f, g : FailBoth(f, g)
    PROVE  /\ failures' \in 0 .. MaxFailures /\ happened' \subseteq Faults
           /\ happened \subseteq happened'
  BY BackendAssumption DEF NoFail, Fail, FailBoth

\* The names of what teardown removes.
LEMMA ItemsAre ==
    /\ Items = {"sdem", "access", "bsnat", "dnat", "helper", "jump", "chain", "bnat"}
    /\ DOMAIN TeardownOrder = 1 .. 8
    /\ DOMAIN ChainOf = {"sdem", "access", "helper", "dnat", "jump"}
  <1>1. DOMAIN TeardownOrder = 1 .. 8
    BY DEF TeardownOrder
  <1>2. Items = {TeardownOrder[1], TeardownOrder[2], TeardownOrder[3], TeardownOrder[4],
                 TeardownOrder[5], TeardownOrder[6], TeardownOrder[7], TeardownOrder[8]}
    <2>1. 1 .. 8 = {1, 2, 3, 4, 5, 6, 7, 8}
      OBVIOUS
    <2>. QED  BY <1>1, <2>1 DEF Items
  <1>3. Items = {"sdem", "access", "bsnat", "dnat", "helper", "jump", "chain", "bnat"}
    BY <1>2 DEF TeardownOrder
  <1>. QED  BY <1>1, <1>3 DEF ChainOf

\* A sequence without its i-th element.
LEMMA WithoutOne ==
    ASSUME NEW S, NEW s \in Seq(S), NEW i \in 1 .. Len(s)
    PROVE  LET t == SubSeq(s, 1, i - 1) \o SubSeq(s, i + 1, Len(s))
           IN  /\ t \in Seq(S) /\ Len(t) = Len(s) - 1
               /\ \A j \in 1 .. Len(t) : t[j] = IF j < i THEN s[j] ELSE s[j + 1]
  <1>. DEFINE a == SubSeq(s, 1, i - 1)
              b == SubSeq(s, i + 1, Len(s))
              t == a \o b
  <1>1. Len(s) \in Nat /\ \A j \in 1 .. Len(s) : s[j] \in S
    BY LenProperties, ElementOfSeq
  <1>2. a \in Seq(S) /\ Len(a) = i - 1 /\ \A j \in 1 .. i - 1 : a[j] = s[j]
    <2>1. /\ a \in Seq(S) /\ Len(a) = IF 1 <= i - 1 THEN i - 1 - 1 + 1 ELSE 0
          /\ \A j \in 1 .. i - 1 - 1 + 1 : a[j] = s[1 + j - 1]
      BY <1>1, SubSeqProperties
    <2>. QED  BY <1>1, <2>1
  <1>3. b \in Seq(S) /\ Len(b) = Len(s) - i /\ \A j \in 1 .. Len(s) - i : b[j] = s[i + j]
    <2>1. /\ b \in Seq(S)
          /\ Len(b) = IF i + 1 <= Len(s) THEN Len(s) - (i + 1) + 1 ELSE 0
          /\ \A j \in 1 .. Len(s) - (i + 1) + 1 : b[j] = s[i + 1 + j - 1]
      BY <1>1, SubSeqProperties
    <2>. QED  BY <1>1, <2>1
  <1>4. /\ t \in Seq(S) /\ Len(t) = Len(a) + Len(b)
        /\ \A j \in 1 .. Len(a) + Len(b) : t[j] = IF j <= Len(a) THEN a[j] ELSE b[j - Len(a)]
    BY <1>2, <1>3, ConcatProperties
  <1>. HIDE DEF a, b, t
  <1>. DEFINE n == Len(s)
              m == Len(t)
              k == Len(a)
  <1>. HIDE DEF n, m, k
  <1>5. n \in Nat /\ i \in 1 .. n /\ k = i - 1 /\ m = n - 1
    <2>1. n \in Nat /\ i \in 1 .. n /\ k = i - 1
      BY <1>1, <1>2 DEF n, k
    <2>2. m = k + (n - i)
      BY <1>3, <1>4 DEF n, m, k
    <2>. QED  BY <2>1, <2>2
  <1>6. ASSUME NEW j \in 1 .. m
        PROVE  t[j] = IF j < i THEN s[j] ELSE s[j + 1]
    <2>1. t[j] = IF j <= k THEN a[j] ELSE b[j - k]
      <3>1. j \in 1 .. Len(a) + Len(b)
        BY <1>4 DEF m
      <3>. QED  BY <1>4, <3>1 DEF k
    <2>2. j < i => j <= k /\ j \in 1 .. i - 1
      BY <1>5
    <2>3. ~(j < i) => ~(j <= k) /\ j - k \in 1 .. n - i /\ i + (j - k) = j + 1
      BY <1>5
    <2>4. ~(j < i) => b[j - k] = s[i + (j - k)]
      BY <1>3, <2>3 DEF n
    <2>. QED  BY <1>2, <2>1, <2>2, <2>3, <2>4
  <1>. QED  BY <1>4, <1>5, <1>6 DEF m, n, t, a, b

-----------------------------------------------------------------------------
\* The rules of the base chains and the handles the process holds

\* Where p's rule of that kind is whose handle is known.
Known(p, kind) ==
    LET chain == rules[ChainOf[kind]]
    IN  {i \in DOMAIN chain : chain[i].kind = kind /\ chain[i].site = p /\ chain[i].known}

\* What of a site that is down may be there, by what has gone wrong.
RemainOf(faults) == UNION {MayRemain(f) : f \in faults}
Allowed == RemainOf(happened)

\* A rule is in its chain; without a known handle there was a fault; and there is
\* one rule with a known handle for each that teardown will remove, and no other.
RuleInv ==
    pc # "down" =>
    /\ \A c \in BaseChains : \A i \in DOMAIN rules[c] :
          /\ ChainOf[rules[c][i].kind] = c
          /\ rules[c][i].known \/ rules[c][i].kind \in Allowed
    /\ \A p \in Sites : \A kind \in DOMAIN ChainOf :
          IF kind \in bnat[p] THEN \E i \in Nat : Known(p, kind) = {i} ELSE Known(p, kind) = {}

\* The rules of a chain, as functions of their positions.
LEMMA ChainType ==
    ASSUME BnatTypeOK, NEW c \in BaseChains
    PROVE  /\ rules[c] \in Seq(Rule) /\ Len(rules[c]) \in Nat
           /\ DOMAIN rules[c] = 1 .. Len(rules[c])
           /\ \A i \in DOMAIN rules[c] : rules[c][i] \in Rule
  <1>1. rules[c] \in Seq(Rule)
    BY DEF BnatTypeOK
  <1>. QED  BY <1>1, LenProperties, ElementOfSeq

\* What adding a rule does.
LEMMA Appended ==
    ASSUME BnatTypeOK, NEW r \in Rule,
           rules' = [rules EXCEPT ![ChainOf[r.kind]] = Append(@, r)]
    PROVE  /\ rules' \in [BaseChains -> Seq(Rule)]
           /\ \A c \in BaseChains : \A i \in DOMAIN rules'[c] :
                 \/ i \in DOMAIN rules[c] /\ rules'[c][i] = rules[c][i]
                 \/ c = ChainOf[r.kind] /\ i = Len(rules[c]) + 1 /\ rules'[c][i] = r
           /\ \A p \in Sites : \A k \in DOMAIN ChainOf :
                 Known(p, k)' = IF p = r.site /\ k = r.kind /\ r.known
                                THEN Known(p, k) \cup {Len(rules[ChainOf[k]]) + 1}
                                ELSE Known(p, k)
  <1>. DEFINE c == ChainOf[r.kind]
              old == rules[c]
              new == Append(old, r)
              n == Len(old)
  <1>1. c \in BaseChains
    BY DEF ChainOf, BaseChains, Rule
  <1>2. old \in Seq(Rule) /\ n \in Nat /\ DOMAIN old = 1 .. n
    BY <1>1, ChainType
  <1>3. /\ new \in Seq(Rule) /\ Len(new) = n + 1 /\ new[n + 1] = r
        /\ \A i \in 1 .. n : new[i] = old[i]
    BY <1>1, <1>2, AppendProperties
  <1>4. DOMAIN new = 1 .. n + 1
    BY <1>3, LenProperties
  <1>5. rules' = [rules EXCEPT ![c] = new] /\ rules \in [BaseChains -> Seq(Rule)]
    BY DEF BnatTypeOK
  <1>6. rules' \in [BaseChains -> Seq(Rule)] /\ rules'[c] = new
        /\ \A d \in BaseChains : d # c => rules'[d] = rules[d]
    BY <1>1, <1>3, <1>5
  <1>. HIDE DEF c, n, new
  <1>7. ASSUME NEW d \in BaseChains, NEW i \in DOMAIN rules'[d]
        PROVE  \/ i \in DOMAIN rules[d] /\ rules'[d][i] = rules[d][i]
               \/ d = c /\ i = Len(rules[d]) + 1 /\ rules'[d][i] = r
    <2>1. CASE d = c
      <3>1. i \in 1 .. n \/ i = n + 1
        BY <1>2, <1>4, <1>6, <1>7, <2>1
      <3>. QED  BY <1>2, <1>3, <1>6, <2>1, <3>1 DEF n
    <2>2. CASE d # c
      BY <1>6, <1>7, <2>2
    <2>. QED  BY <2>1, <2>2
  <1>8. ASSUME NEW p \in Sites, NEW k \in DOMAIN ChainOf
        PROVE  Known(p, k)' = IF p = r.site /\ k = r.kind /\ r.known
                              THEN Known(p, k) \cup {Len(rules[ChainOf[k]]) + 1}
                              ELSE Known(p, k)
    <2>1. ChainOf[k] \in BaseChains
      BY DEF ChainOf, BaseChains
    <2>2. CASE ChainOf[k] # c
      <3>1. rules'[ChainOf[k]] = rules[ChainOf[k]] /\ k # r.kind
        BY <1>6, <2>1, <2>2 DEF c
      <3>. QED  BY <3>1 DEF Known
    <2>3. CASE ChainOf[k] = c
      <3>1. /\ Known(p, k)' = {i \in 1 .. n + 1 : new[i].kind = k /\ new[i].site = p /\ new[i].known}
            /\ Known(p, k) = {i \in 1 .. n : old[i].kind = k /\ old[i].site = p /\ old[i].known}
        BY <1>2, <1>4, <1>6, <2>3 DEF Known
      <3>2. 1 .. n + 1 = 1 .. n \cup {n + 1} /\ n + 1 \notin 1 .. n
        BY <1>2
      <3>3. n = Len(rules[ChainOf[k]])
        BY <2>3 DEF n
      <3>. HIDE DEF old
      <3>. QED  BY <1>3, <3>1, <3>2, <3>3
    <2>. QED  BY <2>2, <2>3
  <1>. QED  BY <1>6, <1>7, <1>8 DEF c

\* What deleting the rule of a known handle does: the rules behind it move up.
LEMMA Deleted ==
    ASSUME BnatTypeOK, site \in Sites, NEW kind \in DOMAIN ChainOf,
           NEW at \in Nat, Known(site, kind) = {at},
           LET old == rules[ChainOf[kind]]
           IN  rules' = [rules EXCEPT ![ChainOf[kind]] =
                            SubSeq(old, 1, at - 1) \o SubSeq(old, at + 1, Len(old))]
    PROVE  /\ rules' \in [BaseChains -> Seq(Rule)]
           /\ \A c \in BaseChains : \A i \in DOMAIN rules'[c] :
                 LET j == IF c = ChainOf[kind] /\ ~(i < at) THEN i + 1 ELSE i
                 IN  i \in Nat /\ j \in DOMAIN rules[c] /\ rules'[c][i] = rules[c][j]
           /\ \A p \in Sites : p = site => Known(p, kind)' = {}
           /\ \A p \in Sites : \A k \in DOMAIN ChainOf : p # site \/ k # kind =>
                 /\ Known(p, k) = {} => Known(p, k)' = {}
                 /\ \A j : Known(p, k) = {j} => \E i \in Nat : Known(p, k)' = {i}
  <1>. DEFINE c == ChainOf[kind]
              old == rules[c]
              new == SubSeq(old, 1, at - 1) \o SubSeq(old, at + 1, Len(old))
              n == Len(old)
              shift(i) == IF i < at THEN i ELSE i + 1
  <1>1. c \in BaseChains
    BY DEF ChainOf, BaseChains
  <1>2. old \in Seq(Rule) /\ n \in Nat /\ DOMAIN old = 1 .. n
    BY <1>1, ChainType
  <1>3. at \in 1 .. n /\ old[at].kind = kind /\ old[at].site = site
    BY <1>2 DEF Known
  <1>4. /\ new \in Seq(Rule) /\ Len(new) = n - 1
        /\ \A i \in 1 .. Len(new) : new[i] = IF i < at THEN old[i] ELSE old[i + 1]
    <2>. HIDE DEF old
    <2>1. at \in 1 .. Len(old) /\ old \in Seq(Rule)
      BY <1>2, <1>3
    <2>2. new = SubSeq(old, 1, at - 1) \o SubSeq(old, at + 1, Len(old))
      OBVIOUS
    <2>. HIDE DEF new
    <2>3. /\ new \in Seq(Rule) /\ Len(new) = Len(old) - 1
          /\ \A i \in 1 .. Len(new) : new[i] = IF i < at THEN old[i] ELSE old[i + 1]
      BY <2>1, <2>2, WithoutOne
    <2>. QED  BY <2>3
  <1>5. DOMAIN new = 1 .. n - 1
    BY <1>4, LenProperties
  <1>6. rules' = [rules EXCEPT ![c] = new] /\ rules \in [BaseChains -> Seq(Rule)]
    BY DEF BnatTypeOK
  <1>7. rules' \in [BaseChains -> Seq(Rule)] /\ rules'[c] = new
        /\ \A d \in BaseChains : d # c => rules'[d] = rules[d]
    BY <1>1, <1>4, <1>6
  <1>. HIDE DEF c, n, new
  <1>8. \A i \in 1 .. n - 1 : shift(i) \in 1 .. n /\ shift(i) # at /\ new[i] = old[shift(i)]
    BY <1>2, <1>3, <1>4
  <1>9. ASSUME NEW d \in BaseChains, NEW i \in DOMAIN rules'[d]
        PROVE  LET j == IF d = c /\ ~(i < at) THEN i + 1 ELSE i
               IN  i \in Nat /\ j \in DOMAIN rules[d] /\ rules'[d][i] = rules[d][j]
    <2>1. CASE d = c
      <3>1. i \in 1 .. n - 1
        BY <1>5, <1>7, <1>9, <2>1
      <3>2. shift(i) = (IF d = c /\ ~(i < at) THEN i + 1 ELSE i)
        BY <2>1
      <3>3. i \in Nat
        BY <3>1
      <3>. HIDE DEF shift
      <3>4. shift(i) \in 1 .. n /\ new[i] = old[shift(i)]
        BY <1>8, <3>1
      <3>5. shift(i) \in DOMAIN rules[d] /\ rules'[d][i] = rules[d][shift(i)]
        BY <1>2, <1>7, <2>1, <3>4
      <3>. QED  BY <3>2, <3>3, <3>5
    <2>2. CASE d # c
      <3>1. rules'[d] = rules[d]
        BY <1>7, <2>2
      <3>2. DOMAIN rules[d] = 1 .. Len(rules[d]) /\ Len(rules[d]) \in Nat
        BY ChainType
      <3>3. i \in DOMAIN rules[d]
        BY <3>1
      <3>4. i \in Nat
        BY <3>2, <3>3
      <3>. QED  BY <2>2, <3>1, <3>3, <3>4
    <2>. QED  BY <2>1, <2>2
  <1>10. ASSUME NEW p \in Sites, NEW k \in DOMAIN ChainOf, ChainOf[k] = c
         PROVE  /\ Known(p, k) = {i \in 1 .. n : old[i].kind = k /\ old[i].site = p /\ old[i].known}
                /\ Known(p, k)' = {i \in 1 .. n - 1 : shift(i) \in Known(p, k)}
    <2>1. Known(p, k) = {i \in 1 .. n : old[i].kind = k /\ old[i].site = p /\ old[i].known}
      BY <1>2, <1>10 DEF Known
    <2>2. Known(p, k)' = {i \in 1 .. n - 1 : new[i].kind = k /\ new[i].site = p /\ new[i].known}
      BY <1>5, <1>7, <1>10 DEF Known
    <2>. QED  BY <1>8, <2>1, <2>2
  <1>11. ASSUME NEW p \in Sites, p = site
         PROVE  Known(p, kind)' = {}
    <2>1. Known(p, kind)' = {i \in 1 .. n - 1 : shift(i) \in Known(p, kind)}
      BY <1>10 DEF c
    <2>2. \A i \in 1 .. n - 1 : shift(i) \notin Known(p, kind)
      BY <1>8, <1>11
    <2>. HIDE DEF shift
    <2>. QED  BY <2>1, <2>2
  <1>12. ASSUME NEW p \in Sites, NEW k \in DOMAIN ChainOf, p # site \/ k # kind
         PROVE  /\ Known(p, k) = {} => Known(p, k)' = {}
                /\ \A j : Known(p, k) = {j} => \E i \in Nat : Known(p, k)' = {i}
    <2>1. CASE ChainOf[k] # c
      <3>1. ChainOf[k] \in BaseChains
        BY DEF ChainOf, BaseChains
      <3>2. Known(p, k)' = Known(p, k)
        BY <1>7, <2>1, <3>1 DEF Known
      <3>3. Known(p, k) \subseteq Nat
        BY <3>1, ChainType DEF Known
      <3>. QED  BY <3>2, <3>3
    <2>2. CASE ChainOf[k] = c
      <3>1. Known(p, k) \subseteq 1 .. n /\ at \notin Known(p, k)
        BY <1>2, <1>3, <1>10, <1>12, <2>2
      <3>2. Known(p, k)' = {i \in 1 .. n - 1 : shift(i) \in Known(p, k)}
        BY <1>10, <2>2
      <3>3. ASSUME NEW j, Known(p, k) = {j}
            PROVE  \E i \in Nat : Known(p, k)' = {i}
        <4>. DEFINE i == IF j < at THEN j ELSE j - 1
        <4>1. j \in 1 .. n /\ j # at
          BY <3>1, <3>3
        <4>2. i \in 1 .. n - 1 /\ shift(i) = j /\ \A h \in 1 .. n - 1 : shift(h) = j => h = i
          BY <1>2, <1>3, <4>1
        <4>. QED  BY <3>2, <3>3, <4>2
      <3>. QED  BY <3>2, <3>3
    <2>. QED  BY <2>1, <2>2
  <1>. QED  BY <1>7, <1>9, <1>11, <1>12 DEF c

\* What forgetting a handle does.
LEMMA Forgotten ==
    ASSUME BnatTypeOK, site \in Sites, NEW kind \in DOMAIN ChainOf,
           NEW at \in Nat, Known(site, kind) = {at},
           LET old == rules[ChainOf[kind]]
           IN  rules' = [rules EXCEPT ![ChainOf[kind]] = [old EXCEPT ![at].known = FALSE]]
    PROVE  /\ rules' \in [BaseChains -> Seq(Rule)]
           /\ \A c \in BaseChains : \A i \in DOMAIN rules'[c] :
                 /\ i \in DOMAIN rules[c] /\ rules'[c][i].kind = rules[c][i].kind
                 /\ rules'[c][i].site = rules[c][i].site
           /\ \A p \in Sites : p = site => Known(p, kind)' = {}
           /\ \A p \in Sites : \A k \in DOMAIN ChainOf : p # site \/ k # kind =>
                 Known(p, k)' = Known(p, k)
  <1>. DEFINE c == ChainOf[kind]
              old == rules[c]
              r == [old[at] EXCEPT !.known = FALSE]
              new == [old EXCEPT ![at] = r]
              n == Len(old)
  <1>1. c \in BaseChains
    BY DEF ChainOf, BaseChains
  <1>2. old \in Seq(Rule) /\ n \in Nat /\ DOMAIN old = 1 .. n
    BY <1>1, ChainType
  <1>3. at \in 1 .. n /\ old[at].kind = kind /\ old[at].site = site /\ old[at] \in Rule
    BY <1>1, <1>2, ChainType DEF Known
  <1>4. r \in Rule /\ r.kind = kind /\ r.site = site /\ ~r.known
    BY <1>3 DEF Rule
  <1>5. /\ new \in Seq(Rule) /\ Len(new) = n
        /\ \A i \in 1 .. n : new[i] = IF i = at THEN r ELSE old[i]
    BY <1>2, <1>3, <1>4, ExceptSeq
  <1>6. DOMAIN new = 1 .. n
    BY <1>5, LenProperties
  <1>7. rules' = [rules EXCEPT ![c] = new] /\ rules \in [BaseChains -> Seq(Rule)]
    BY DEF BnatTypeOK
  <1>8. rules' \in [BaseChains -> Seq(Rule)] /\ rules'[c] = new
        /\ \A d \in BaseChains : d # c => rules'[d] = rules[d]
    BY <1>1, <1>5, <1>7
  <1>. HIDE DEF c, n, new, r
  <1>9. ASSUME NEW d \in BaseChains, NEW i \in DOMAIN rules'[d]
        PROVE  /\ i \in DOMAIN rules[d] /\ rules'[d][i].kind = rules[d][i].kind
               /\ rules'[d][i].site = rules[d][i].site
    <2>1. CASE d = c
      BY <1>2, <1>3, <1>4, <1>5, <1>6, <1>8, <1>9, <2>1
    <2>2. CASE d # c
      BY <1>8, <1>9, <2>2
    <2>. QED  BY <2>1, <2>2
  <1>10. ASSUME NEW p \in Sites, NEW k \in DOMAIN ChainOf
         PROVE  Known(p, k)' = IF p = site /\ k = kind THEN {} ELSE Known(p, k)
    <2>1. CASE ChainOf[k] # c
      <3>1. ChainOf[k] \in BaseChains /\ k # kind
        BY <2>1 DEF ChainOf, BaseChains, c
      <3>. QED  BY <1>8, <2>1, <3>1 DEF Known
    <2>2. CASE ChainOf[k] = c
      <3>1. /\ Known(p, k) = {i \in 1 .. n : old[i].kind = k /\ old[i].site = p /\ old[i].known}
            /\ Known(p, k)' = {i \in 1 .. n : new[i].kind = k /\ new[i].site = p /\ new[i].known}
        BY <1>2, <1>6, <1>8, <2>2 DEF Known
      <3>2. CASE p = site /\ k = kind
        <4>1. Known(p, k)' \subseteq Known(p, k) \ {at}
          BY <1>4, <1>5, <3>1
        <4>. QED  BY <3>2, <4>1
      <3>3. CASE ~(p = site /\ k = kind)
        <4>1. at \notin Known(p, k) /\ at \notin Known(p, k)'
          BY <1>3, <1>4, <1>5, <3>1, <3>3
        <4>. QED  BY <1>5, <3>1, <3>3, <4>1
      <3>. QED  BY <3>2, <3>3
    <2>. QED  BY <2>1, <2>2
  <1>. QED  BY <1>8, <1>9, <1>10

-----------------------------------------------------------------------------
\* What may remain

\* What has gone wrong stays wrong.
LEMMA AllowedGrows ==
    ASSUME happened \subseteq happened'
    PROVE  Allowed \subseteq Allowed'
  BY DEF Allowed, RemainOf

\* A failed teardown may leave anything, an unparsed handle anything of the table.
LEMMA Remains ==
    /\ MayRemain("teardown") = Kinds \cup Items /\ MayRemain("handle") = Items
    /\ MayRemain("setup") = {"fib", "tap"} \cup Marks
    /\ MayRemain("device") = {"fib", "map", "path"}
    /\ MayRemain("cleanup") = {"bnat", "bsnat", "chain"}
    /\ MayRemain("crash") = {"fib", "lookup", "path", "ret_route"}
  BY DEF MayRemain

\* What each of the faults may leave.
LEMMA RemainByFault ==
    ASSUME NEW faults
    PROVE  /\ "teardown" \in faults => Kinds \cup Items \subseteq RemainOf(faults)
           /\ "handle" \in faults => Items \subseteq RemainOf(faults)
           /\ "setup" \in faults => {"fib", "tap"} \cup Marks \subseteq RemainOf(faults)
           /\ "device" \in faults => {"fib", "map", "path"} \subseteq RemainOf(faults)
           /\ "cleanup" \in faults => {"bnat", "bsnat", "chain"} \subseteq RemainOf(faults)
           /\ "crash" \in faults => {"fib", "lookup", "path", "ret_route"} \subseteq RemainOf(faults)
  BY Remains DEF RemainOf

\* Rules of the table remain by an unparsed handle or a failed teardown only; policy
\* rules, links, forward routes and NAT global entries by a failed teardown only.
LEMMA AllowedOnlyBy ==
    /\ DOMAIN ChainOf \cap Allowed # {} => \/ "handle" \in happened \/ "teardown" \in happened
    /\ (Rules \cup {"link", "fwd_route", "global"}) \cap Allowed # {} => "teardown" \in happened
  <1>1. ASSUME NEW f, f \notin {"handle", "teardown"}
        PROVE  MayRemain(f) \cap DOMAIN ChainOf = {}
    BY <1>1, ItemsAre DEF MayRemain, Marks
  <1>2. ASSUME NEW f, f # "teardown"
        PROVE  MayRemain(f) \cap (Rules \cup {"link", "fwd_route", "global"}) = {}
    BY <1>2, ItemsAre DEF MayRemain, Marks, Rules
  <1>. QED  BY <1>1, <1>2 DEF Allowed, RemainOf

\* If one of the table's rules may remain, so may all of the table's items.
LEMMA AllItems ==
    ASSUME DOMAIN ChainOf \cap Allowed # {}
    PROVE  Items \subseteq Allowed
  BY AllowedOnlyBy, RemainByFault DEF Allowed

-----------------------------------------------------------------------------
\* The rest of the table's invariant

\* A map or a chain is removed by teardown, or is what the next command needs,
\* or remains after a fault.
MapInv ==
    pc # "down" =>
    /\ \A p \in Sites : <<"bnat", p>> \in maps =>
          "bnat" \in Allowed \cup bnat[p] \/ (p = site /\ pc \in {"elements", "drop_map"})
    /\ \A p \in Sites : <<"bsnat", p>> \in maps =>
          "bsnat" \in Allowed \cup bnat[p] \/ (p = site /\ pc \in {"snat_rule", "drop_snat"})
    /\ \A p \in chains :
          "chain" \in Allowed \cup bnat[p] \/ (p = site /\ pc \in {"split_jump", "drop_chain"})

\* What setup_site_bnat may have learnt before it comes to a command.
LearntBefore ==
    CASE pc \in {"create_map", "elements", "drop_map"} -> {}
      [] pc \in {"split_chain", "split_jump", "drop_chain"} -> {"bnat"}
      [] pc = "dnat_rule" -> {"bnat", "chain", "jump"}
      [] pc \in {"snat_map", "snat_rule", "drop_snat"} -> {"bnat", "chain", "jump", "dnat"}
      [] pc = "access_rule" -> {"bnat", "chain", "jump", "dnat", "sdem", "bsnat"}
      [] pc = "ftp_helper" -> {"bnat", "chain", "jump", "dnat", "sdem", "bsnat", "access"}
      [] OTHER -> Items

\* Who has something to be removed: sites that are up and the one in hand.
LearntInv ==
    /\ \A p \in Sites : bnat[p] # {} =>
          /\ "bnat" \in bnat[p]
          /\ cache[p] # NoSite \/ (p = site /\ pc \in BnatSetup \cup {"commit", "bnat_down"})
    /\ pc \in BnatSetup => bnat[site] \subseteq LearntBefore
    /\ pc \in BnatSetup \ {"create_map", "elements", "drop_map"} => "bnat" \in bnat[site]

BnatInv == BnatTypeOK /\ RuleInv /\ MapInv /\ LearntInv /\ SplitsFirst

\* A rule of a kind that teardown would not remove is left by a fault.
LEMMA UsesAllowed ==
    ASSUME BnatTypeOK, RuleInv, pc # "down", NEW p \in Sites, NEW kind \in DOMAIN ChainOf,
           Uses(kind, p), kind \notin bnat[p]
    PROVE  Items \subseteq Allowed
  <1>0. PICK c \in BaseChains : \E i \in DOMAIN rules[c] :
            rules[c][i].kind = kind /\ rules[c][i].site = p
    <2>1. PICK r \in RulesOf(p) : r.kind = kind
      BY DEF Uses
    <2>2. PICK c \in BaseChains : r \in {rules[c][i] : i \in DOMAIN rules[c]}
      BY DEF RulesOf
    <2>3. r.site = p
      BY DEF RulesOf
    <2>. QED  BY <2>1, <2>2, <2>3
  <1>1. PICK i \in DOMAIN rules[c] : rules[c][i].kind = kind /\ rules[c][i].site = p
    BY <1>0
  <1>2. ChainOf[kind] = c /\ (rules[c][i].known \/ kind \in Allowed)
    BY <1>1 DEF RuleInv
  <1>3. Known(p, kind) = {}
    BY DEF RuleInv
  <1>4. kind \in Allowed
    BY <1>1, <1>2, <1>3 DEF Known
  <1>. QED  BY <1>4, ItemsAre, AllItems

\* A rule that is appended, with its handle known or a fault, keeps the rules in
\* order.
LEMMA RuleAdded ==
    ASSUME BnatTypeOK, RuleInv, SplitsFirst, site \in Sites, pc # "down", UNCHANGED site,
           happened \subseteq happened',
           NEW r \in Rule, r.site = site, r.kind \notin bnat[site],
           r.kind = "jump" => "dnat" \notin bnat[site],
           NEW learnt \in SUBSET Items, learnt \cap DOMAIN ChainOf = {r.kind},
           r.known \/ "handle" \in happened',
           rules' = [rules EXCEPT ![ChainOf[r.kind]] = Append(@, r)],
           bnat' = IF r.known THEN [bnat EXCEPT ![site] = @ \cup learnt] ELSE bnat
    PROVE  RuleInv' /\ SplitsFirst'
  <1>1. /\ \A c \in BaseChains : \A i \in DOMAIN rules'[c] :
              \/ i \in DOMAIN rules[c] /\ rules'[c][i] = rules[c][i]
              \/ c = ChainOf[r.kind] /\ i = Len(rules[c]) + 1 /\ rules'[c][i] = r
        /\ \A p \in Sites : \A k \in DOMAIN ChainOf :
              Known(p, k)' = IF p = r.site /\ k = r.kind /\ r.known
                             THEN Known(p, k) \cup {Len(rules[ChainOf[k]]) + 1}
                             ELSE Known(p, k)
    BY Appended
  <1>2. r.kind \in DOMAIN ChainOf
    BY DEF Rule
  <1>3. \A p \in Sites : bnat'[p] = IF p = site /\ r.known THEN bnat[p] \cup learnt ELSE bnat[p]
    BY DEF BnatTypeOK
  <1>4. ASSUME NEW c \in BaseChains, NEW i \in DOMAIN rules'[c]
        PROVE  /\ ChainOf[rules'[c][i].kind] = c
               /\ rules'[c][i].known \/ rules'[c][i].kind \in Allowed'
    <2>1. CASE i \in DOMAIN rules[c] /\ rules'[c][i] = rules[c][i]
      BY <2>1, AllowedGrows DEF RuleInv
    <2>2. CASE c = ChainOf[r.kind] /\ rules'[c][i] = r
      <3>1. r.known \/ Items \subseteq Allowed'
        BY RemainByFault DEF Allowed
      <3>. QED  BY <1>2, <2>2, <3>1, ItemsAre
    <2>. QED  BY <1>1, <1>4, <2>1, <2>2
  <1>5. ASSUME NEW p \in Sites, NEW k \in DOMAIN ChainOf
        PROVE  IF k \in bnat'[p] THEN \E i \in Nat : Known(p, k)' = {i} ELSE Known(p, k)' = {}
    <2>1. IF k \in bnat[p] THEN \E i \in Nat : Known(p, k) = {i} ELSE Known(p, k) = {}
      BY DEF RuleInv
    <2>2. CASE p = site /\ k = r.kind /\ r.known
      <3>1. Len(rules[ChainOf[k]]) + 1 \in Nat
        BY ChainType DEF ChainOf, BaseChains
      <3>2. r.kind \in learnt /\ k \notin bnat[p]
        BY <2>2
      <3>3. Known(p, k)' = {Len(rules[ChainOf[k]]) + 1}
        BY <1>1, <2>1, <2>2, <3>2
      <3>4. bnat'[p] = bnat[p] \cup learnt
        BY <1>3, <2>2
      <3>. QED  BY <2>2, <3>1, <3>2, <3>3, <3>4
    <2>3. CASE ~(p = site /\ k = r.kind /\ r.known)
      <3>1. Known(p, k)' = Known(p, k) /\ (k \in bnat'[p] <=> k \in bnat[p])
        BY <1>1, <1>3, <2>3
      <3>. QED  BY <2>1, <3>1
    <2>. QED  BY <2>2, <2>3
  <1>6. SplitsFirst'
    <2>. DEFINE chain == rules["prerouting"]
    <2>1. SUFFICES ASSUME happened' \cap {"handle", "teardown"} = {},
                          NEW i \in DOMAIN chain', NEW j \in DOMAIN chain',
                          chain'[i].site = chain'[j].site,
                          chain'[i].kind = "jump", chain'[j].kind = "dnat"
                   PROVE  i < j
      BY DEF SplitsFirst
    <2>2. happened \cap {"handle", "teardown"} = {} /\ DOMAIN ChainOf \cap Allowed = {}
      BY <2>1, AllowedOnlyBy
    <2>3. /\ \/ i \in DOMAIN chain /\ chain'[i] = chain[i]
             \/ i = Len(chain) + 1 /\ chain'[i] = r
          /\ \/ j \in DOMAIN chain /\ chain'[j] = chain[j]
             \/ j = Len(chain) + 1 /\ chain'[j] = r
      BY <1>1 DEF BaseChains
    <2>4. /\ Len(chain) \in Nat /\ DOMAIN chain = 1 .. Len(chain)
          /\ \A h \in DOMAIN chain : chain[h] \in Rule
      BY ChainType DEF BaseChains
    <2>5. CASE i \in DOMAIN chain /\ chain'[i] = chain[i] /\ j \in DOMAIN chain /\ chain'[j] = chain[j]
      BY <2>1, <2>2, <2>5 DEF SplitsFirst
    <2>6. CASE i \in DOMAIN chain /\ j = Len(chain) + 1
      BY <2>4, <2>6
    <2>7. CASE i = Len(chain) + 1 /\ chain'[i] = r /\ j \in DOMAIN chain /\ chain'[j] = chain[j]
      <3>1. r.kind = "jump" /\ chain[j].site = site /\ chain[j].kind = "dnat"
        BY <1>2, <2>1, <2>7
      <3>2. chain[j].known
        BY <2>2, <2>7, <3>1, ItemsAre DEF RuleInv, BaseChains
      <3>3. Known(site, "dnat") = {}
        BY <3>1, ItemsAre DEF RuleInv
      <3>. QED  BY <2>7, <3>1, <3>2, <3>3 DEF Known, ChainOf
    <2>8. CASE i = Len(chain) + 1 /\ chain'[i] = r /\ j = Len(chain) + 1 /\ chain'[j] = r
      BY <2>1, <2>8
    <2>. QED  BY <2>3, <2>5, <2>6, <2>7, <2>8
  <1>. QED  BY <1>4, <1>5, <1>6 DEF RuleInv

\* Rules that nobody touches keep what is known of them.
LEMMA RulesKept ==
    ASSUME BnatTypeOK, RuleInv, SplitsFirst, pc # "down", happened \subseteq happened',
           UNCHANGED rules,
           \A p \in Sites : \A kind \in DOMAIN ChainOf : kind \in bnat'[p] <=> kind \in bnat[p]
    PROVE  RuleInv' /\ SplitsFirst'
  <1>1. \A p, kind : Known(p, kind)' = Known(p, kind)
    BY DEF Known
  <1>2. Allowed \subseteq Allowed'
    BY AllowedGrows
  <1>3. RuleInv'
    BY <1>1, <1>2 DEF RuleInv
  <1>4. SplitsFirst'
    BY DEF SplitsFirst
  <1>. QED  BY <1>3, <1>4

\* An nft command that adds a rule.
LEMMA AddRuleStep ==
    ASSUME BnatTypeOK, RuleInv, SplitsFirst, site \in Sites, pc # "down", UNCHANGED site,
           NEW kind \in DOMAIN ChainOf, kind \notin bnat[site],
           kind = "jump" => "dnat" \notin bnat[site],
           NEW learnt \in SUBSET Items, learnt \cap DOMAIN ChainOf = {kind},
           NEW ok, NEW bad, AddRule(kind, learnt, ok, bad)
    PROVE  /\ BnatTypeOK' /\ RuleInv' /\ SplitsFirst'
           /\ happened \subseteq happened' /\ UNCHANGED <<maps, chains>>
           /\ \/ pc' = ok /\ bnat' = [bnat EXCEPT ![site] = @ \cup learnt]
              \/ pc' = bad /\ bnat' = bnat
  <1>1. /\ failures' \in 0 .. MaxFailures /\ happened' \subseteq Faults
        /\ happened \subseteq happened'
    BY FailsTyped DEF AddRule, BnatTypeOK
  <1>2. UNCHANGED <<maps, chains>>
    BY DEF AddRule
  <1>. DEFINE r(known) == [kind |-> kind, site |-> site, known |-> known]
  <1>3. \A known \in BOOLEAN : /\ r(known) \in Rule /\ r(known).kind = kind
                              /\ r(known).site = site /\ r(known).known = known
    BY DEF Rule
  <1>4. ASSUME NEW known \in BOOLEAN, known \/ "handle" \in happened',
               rules' = [rules EXCEPT ![ChainOf[kind]] = Append(@, r(known))],
               bnat' = IF known THEN [bnat EXCEPT ![site] = @ \cup learnt] ELSE bnat
        PROVE  BnatTypeOK' /\ RuleInv' /\ SplitsFirst'
    <2>. DEFINE new == r(known)
    <2>1. /\ new \in Rule /\ new.kind = kind /\ new.site = site /\ new.known = known
          /\ rules' = [rules EXCEPT ![ChainOf[kind]] = Append(@, new)]
      BY <1>3, <1>4
    <2>. HIDE DEF new
    <2>2. /\ rules' = [rules EXCEPT ![ChainOf[new.kind]] = Append(@, new)]
          /\ bnat' = IF new.known THEN [bnat EXCEPT ![site] = @ \cup learnt] ELSE bnat
          /\ new.kind \notin bnat[site] /\ (new.kind = "jump" => "dnat" \notin bnat[site])
          /\ learnt \cap DOMAIN ChainOf = {new.kind} /\ (new.known \/ "handle" \in happened')
      BY <1>4, <2>1
    <2>3. rules' \in [BaseChains -> Seq(Rule)]
      BY <2>1, <2>2, Appended
    <2>4. bnat' \in [Sites -> SUBSET Items]
      BY <1>4 DEF BnatTypeOK
    <2>5. BnatTypeOK'
      BY <1>1, <1>2, <2>3, <2>4 DEF BnatTypeOK
    <2>6. RuleInv' /\ SplitsFirst'
      BY <1>1, <2>1, <2>2, RuleAdded
    <2>. QED  BY <2>5, <2>6
  <1>5. CASE NoFail /\ rules' = [rules EXCEPT ![ChainOf[kind]] = Append(@, r(TRUE))]
             /\ Learn(learnt) /\ pc' = ok
    <2>1. bnat' = [bnat EXCEPT ![site] = @ \cup learnt]
      BY <1>5 DEF Learn
    <2>. QED  BY <1>1, <1>2, <1>4, <1>5, <2>1
  <1>6. CASE Fail("handle") /\ rules' = [rules EXCEPT ![ChainOf[kind]] = Append(@, r(FALSE))]
             /\ pc' = bad /\ UNCHANGED bnat
    <2>1. "handle" \in happened'
      BY <1>6 DEF Fail
    <2>. QED  BY <1>1, <1>2, <1>4, <1>6, <2>1
  <1>7. CASE Fail("bnat") /\ pc' = bad /\ UNCHANGED <<rules, bnat>>
    <2>1. RuleInv' /\ SplitsFirst'
      BY <1>1, <1>7, RulesKept
    <2>. QED  BY <1>1, <1>2, <1>7, <2>1 DEF BnatTypeOK
  <1>. QED  BY <1>5, <1>6, <1>7 DEF AddRule

\* What each command finds learnt, and that the commands end in the commit.
LEMMA StageLearnt ==
    ASSUME LearntInv
    PROVE  /\ pc \in {"create_map", "elements", "drop_map"} => bnat[site] = {}
           /\ pc \in {"split_chain", "split_jump", "drop_chain"} => bnat[site] = {"bnat"}
           /\ pc = "dnat_rule" => bnat[site] \subseteq {"bnat", "chain", "jump"}
           /\ pc \in {"snat_map", "snat_rule", "drop_snat"} =>
                 bnat[site] \subseteq {"bnat", "chain", "jump", "dnat"}
           /\ pc = "access_rule" =>
                 bnat[site] \subseteq {"bnat", "chain", "jump", "dnat", "sdem", "bsnat"}
           /\ pc = "ftp_helper" =>
                 bnat[site] \subseteq {"bnat", "chain", "jump", "dnat", "sdem", "bsnat", "access"}
  <1>1. pc \in BnatSetup => bnat[site] \subseteq LearntBefore
    BY DEF LearntInv
  <1>2. pc \in {"create_map", "elements", "drop_map"} => bnat[site] = {}
    BY <1>1 DEF LearntBefore, BnatSetup
  <1>3. pc \in {"split_chain", "split_jump", "drop_chain"} =>
            bnat[site] \subseteq {"bnat"} /\ "bnat" \in bnat[site]
    BY <1>1 DEF LearntBefore, BnatSetup, LearntInv
  <1>. QED  BY <1>1, <1>2, <1>3 DEF LearntBefore, BnatSetup

\* The maps and chains are accounted for, and what is learnt is in order, when a
\* command of setup_site_bnat adds a rule or fails to.
LEMMA RuleCommand ==
    ASSUME BnatInv, site \in Sites, pc \in BnatSetup, UNCHANGED <<site, cache>>,
           pc \notin {"create_map", "elements", "drop_map"}, "bnat" \in bnat[site],
           NEW learnt \in SUBSET Items,
           happened \subseteq happened', UNCHANGED <<maps, chains>>,
           pc = "split_jump" => "chain" \in learnt \/ pc' = "drop_chain",
           pc = "snat_rule" => "bsnat" \in learnt \/ pc' = "drop_snat",
           pc # "drop_chain", pc # "drop_snat",
           \/ bnat' = [bnat EXCEPT ![site] = @ \cup learnt]
           \/ /\ bnat' = bnat
              /\ pc = "split_jump" => pc' = "drop_chain"
              /\ pc = "snat_rule" => pc' = "drop_snat",
           pc' \in (BnatSetup \cup {"commit"}) \ {"create_map", "elements", "drop_map"},
           pc' \in BnatSetup => (bnat[site] \cup learnt) \subseteq LearntBefore'
    PROVE  MapInv' /\ LearntInv'
  <1>1. /\ \A p \in Sites : bnat[p] \subseteq bnat'[p] /\ bnat'[p] \subseteq bnat[p] \cup learnt
        /\ \A p \in Sites : p # site => bnat'[p] = bnat[p]
    BY DEF BnatInv, BnatTypeOK
  <1>2. Allowed \subseteq Allowed'
    BY AllowedGrows
  <1>3. /\ pc # "down" /\ pc' # "down" /\ pc \notin {"elements", "drop_map"}
        /\ pc = "split_jump" => "chain" \in bnat'[site] \/ pc' = "drop_chain"
        /\ pc = "snat_rule" => "bsnat" \in bnat'[site] \/ pc' = "drop_snat"
    BY DEF BnatSetup, BnatInv, BnatTypeOK
  <1>4. MapInv'
    BY <1>1, <1>2, <1>3 DEF BnatInv, BnatTypeOK, MapInv
  <1>5. LearntInv'
    BY <1>1 DEF BnatInv, LearntInv
  <1>. QED  BY <1>4, <1>5

\* setup_site_bnat keeps the table's invariant, command by command.
LEMMA SetupBnat ==
    ASSUME BnatInv, site \in Sites, UNCHANGED <<site, cache>>, setup_site_bnat
    PROVE  /\ BnatInv' /\ happened \subseteq happened'
           /\ pc \in BnatSetup /\ pc' \in BnatSetup \cup {"commit"}
  <1>. USE DEF BnatInv
  <1>0. pc \in BnatSetup /\ pc # "down"
    BY DEF setup_site_bnat, BnatSetup, create_map, elements, drop_map, split_chain, split_jump,
           drop_chain, dnat_rule, snat_map, snat_rule, drop_snat, access_rule, ftp_helper
  <1>1. ASSUME NoFail \/ (\E f : Fail(f)) \/ \E f, g : FailBoth(f, g)
        PROVE  /\ failures' \in 0 .. MaxFailures /\ happened' \subseteq Faults
               /\ happened \subseteq happened' /\ Allowed \subseteq Allowed'
    BY <1>1, FailsTyped, AllowedGrows DEF BnatTypeOK
  <1>2. ASSUME UNCHANGED <<rules, bnat>>, NoFail \/ (\E f : Fail(f)) \/ \E f, g : FailBoth(f, g),
               maps' \subseteq {"bnat", "bsnat"} \X Sites, chains' \subseteq Sites
        PROVE  BnatTypeOK' /\ RuleInv' /\ SplitsFirst'
    <2>1. BnatTypeOK'
      BY <1>1, <1>2 DEF BnatTypeOK
    <2>. QED  BY <1>0, <1>1, <1>2, <2>1, RulesKept
  <1>3. CASE create_map
    <2>1. /\ UNCHANGED <<rules, bnat, chains>> /\ (NoFail \/ Fail("bnat"))
          /\ pc' \in {"elements", "commit"}
          /\ maps' = maps \/ (maps' = maps \cup {<<"bnat", site>>} /\ pc' = "elements")
      BY <1>3 DEF create_map, Skip, Create, bnatVars
    <2>2. pc = "create_map" /\ bnat[site] = {}
      BY <1>3, StageLearnt DEF create_map
    <2>3. BnatTypeOK' /\ RuleInv' /\ SplitsFirst'
      BY <1>2, <2>1 DEF BnatTypeOK
    <2>4. MapInv'
      BY <1>1, <2>1, <2>2 DEF MapInv
    <2>5. LearntInv'
      BY <2>1, <2>2 DEF LearntInv, LearntBefore, BnatSetup
    <2>. QED  BY <1>0, <1>1, <2>1, <2>3, <2>4, <2>5 DEF BnatSetup
  <1>4. CASE elements
    <2>1. pc = "elements" /\ bnat[site] = {}
      BY <1>4, StageLearnt DEF elements
    <2>2. CASE NoFail /\ Learn({"bnat"}) /\ pc' = "split_chain" /\ UNCHANGED <<maps, chains, rules>>
      <3>1. /\ bnat' \in [Sites -> SUBSET Items] /\ bnat'[site] = {"bnat"}
            /\ \A p \in Sites : p # site => bnat'[p] = bnat[p]
        BY <2>1, <2>2, ItemsAre DEF Learn, BnatTypeOK
      <3>2. BnatTypeOK'
        BY <1>1, <2>2, <3>1 DEF BnatTypeOK
      <3>3. \A p \in Sites : \A kind \in DOMAIN ChainOf : kind \in bnat'[p] <=> kind \in bnat[p]
        BY <2>1, <3>1, ItemsAre
      <3>4. RuleInv' /\ SplitsFirst'
        BY <1>0, <1>1, <2>2, <3>3, RulesKept
      <3>5. MapInv'
        BY <1>1, <2>1, <2>2, <3>1 DEF MapInv, BnatTypeOK
      <3>6. LearntInv'
        BY <2>1, <2>2, <3>1 DEF LearntInv, LearntBefore, BnatSetup
      <3>. QED  BY <1>0, <1>1, <2>2, <3>2, <3>4, <3>5, <3>6 DEF BnatSetup
    <2>3. CASE Fail("bnat") /\ pc' = "drop_map" /\ UNCHANGED <<bnat, maps, chains, rules>>
      <3>1. BnatTypeOK' /\ RuleInv' /\ SplitsFirst'
        BY <1>2, <2>3 DEF BnatTypeOK
      <3>2. MapInv'
        BY <1>1, <2>1, <2>3 DEF MapInv
      <3>3. LearntInv'
        BY <2>1, <2>3 DEF LearntInv, LearntBefore, BnatSetup
      <3>. QED  BY <1>0, <1>1, <2>3, <3>1, <3>2, <3>3 DEF BnatSetup
    <2>. QED  BY <1>4, <2>2, <2>3 DEF elements
  <1>14. ASSUME Fail("cleanup")
         PROVE  {"bnat", "bsnat", "chain"} \subseteq Allowed'
    BY <1>14, RemainByFault DEF Fail, Allowed
  <1>15. CASE drop_map
    <2>1. pc = "drop_map" /\ bnat[site] = {}
      BY <1>15, StageLearnt DEF drop_map
    <2>2. /\ UNCHANGED <<rules, bnat, chains>> /\ pc' = "commit"
          /\ \/ NoFail /\ maps' = IF Uses("dnat", site) THEN maps ELSE maps \ {<<"bnat", site>>}
             \/ Fail("cleanup") /\ UNCHANGED maps
      BY <1>15 DEF drop_map, DropMap
    <2>3. BnatTypeOK' /\ RuleInv' /\ SplitsFirst'
      BY <1>2, <2>2 DEF BnatTypeOK
    <2>4. Uses("dnat", site) => Items \subseteq Allowed
      BY <1>0, <2>1, UsesAllowed, ItemsAre
    <2>5. MapInv'
      <3>1. CASE {"bnat", "bsnat", "chain"} \subseteq Allowed'
        BY <3>1, <2>2, <2>3 DEF MapInv, BnatTypeOK
      <3>2. CASE maps' = maps \ {<<"bnat", site>>}
        <4>1. \A p \in Sites : <<"bnat", p>> \in maps' => p # site /\ <<"bnat", p>> \in maps
          BY <3>2
        <4>2. \A p \in Sites : <<"bsnat", p>> \in maps' => <<"bsnat", p>> \in maps
          BY <3>2
        <4>. QED  BY <1>1, <2>1, <2>2, <4>1, <4>2 DEF MapInv
      <3>. QED  BY <1>1, <1>14, <2>2, <2>4, <3>1, <3>2, ItemsAre
    <2>6. LearntInv'
      BY <2>1, <2>2 DEF LearntInv, LearntBefore, BnatSetup
    <2>. QED  BY <1>0, <1>1, <2>2, <2>3, <2>5, <2>6
  <1>5. CASE split_chain
    <2>1. pc = "split_chain" /\ bnat[site] = {"bnat"}
      BY <1>5, StageLearnt DEF split_chain
    <2>2. /\ UNCHANGED <<rules, bnat, maps>> /\ (NoFail \/ Fail("bnat"))
          /\ pc' \in {"split_jump", "dnat_rule"}
          /\ chains' = chains \/ (chains' = chains \cup {site} /\ pc' = "split_jump")
      BY <1>5 DEF split_chain, Skip, Create, bnatVars
    <2>3. BnatTypeOK' /\ RuleInv' /\ SplitsFirst'
      BY <1>2, <2>2 DEF BnatTypeOK
    <2>4. MapInv'
      BY <1>1, <2>1, <2>2 DEF MapInv
    <2>5. LearntInv'
      BY <2>1, <2>2 DEF LearntInv, LearntBefore, BnatSetup
    <2>. QED  BY <1>0, <1>1, <2>2, <2>3, <2>4, <2>5 DEF BnatSetup
  <1>6. CASE split_jump
    <2>1. pc = "split_jump" /\ bnat[site] = {"bnat"}
      BY <1>6, StageLearnt DEF split_jump
    <2>2. AddRule("jump", {"chain", "jump"}, "dnat_rule", "drop_chain")
      BY <1>6 DEF split_jump
    <2>3. /\ BnatTypeOK' /\ RuleInv' /\ SplitsFirst' /\ happened \subseteq happened'
          /\ UNCHANGED <<maps, chains>>
          /\ \/ pc' = "dnat_rule" /\ bnat' = [bnat EXCEPT ![site] = @ \cup {"chain", "jump"}]
             \/ pc' = "drop_chain" /\ bnat' = bnat
      BY <1>0, <2>1, <2>2, AddRuleStep, ItemsAre
    <2>4. MapInv' /\ LearntInv'
      <3>1. \/ pc' = "dnat_rule" /\ LearntBefore' = {"bnat", "chain", "jump"}
               /\ bnat' = [bnat EXCEPT ![site] = @ \cup {"chain", "jump"}]
            \/ pc' = "drop_chain" /\ bnat' = [bnat EXCEPT ![site] = @ \cup {}]
               /\ LearntBefore' = {"bnat"}
        BY <2>3 DEF LearntBefore, BnatTypeOK
      <3>. QED  BY <1>0, <2>1, <2>3, <3>1, RuleCommand, ItemsAre DEF BnatSetup
    <2>. QED  BY <1>0, <2>3, <2>4 DEF BnatSetup
  <1>7. CASE drop_chain
    <2>1. pc = "drop_chain" /\ bnat[site] = {"bnat"}
      BY <1>7, StageLearnt DEF drop_chain
    <2>2. /\ UNCHANGED <<rules, bnat, maps>> /\ pc' = "dnat_rule"
          /\ \/ NoFail /\ chains' = IF Uses("jump", site) THEN chains ELSE chains \ {site}
             \/ Fail("cleanup") /\ UNCHANGED chains
      BY <1>7 DEF drop_chain
    <2>3. BnatTypeOK' /\ RuleInv' /\ SplitsFirst'
      BY <1>2, <2>2 DEF BnatTypeOK
    <2>4. Uses("jump", site) => Items \subseteq Allowed
      BY <1>0, <2>1, UsesAllowed, ItemsAre
    <2>5. MapInv'
      <3>1. CASE {"bnat", "bsnat", "chain"} \subseteq Allowed'
        BY <3>1, <2>2, <2>3 DEF MapInv, BnatTypeOK
      <3>2. CASE chains' = chains \ {site}
        BY <1>1, <2>1, <2>2, <3>2 DEF MapInv
      <3>. QED  BY <1>1, <1>14, <2>2, <2>4, <3>1, <3>2, ItemsAre
    <2>6. LearntInv'
      BY <2>1, <2>2 DEF LearntInv, LearntBefore, BnatSetup
    <2>. QED  BY <1>0, <1>1, <2>2, <2>3, <2>5, <2>6 DEF BnatSetup
  <1>8. CASE dnat_rule
    <2>1. pc = "dnat_rule" /\ bnat[site] \subseteq {"bnat", "chain", "jump"} /\ "bnat" \in bnat[site]
      BY <1>8, StageLearnt DEF dnat_rule, LearntInv, BnatSetup
    <2>2. AddRule("dnat", {"dnat"}, "snat_map", "snat_map")
      BY <1>8 DEF dnat_rule
    <2>3. /\ BnatTypeOK' /\ RuleInv' /\ SplitsFirst' /\ happened \subseteq happened'
          /\ UNCHANGED <<maps, chains>> /\ pc' = "snat_map"
          /\ bnat' = [bnat EXCEPT ![site] = @ \cup {"dnat"}] \/ bnat' = bnat
      BY <1>0, <2>1, <2>2, AddRuleStep, ItemsAre
    <2>4. MapInv' /\ LearntInv'
      <3>1. LearntBefore' = {"bnat", "chain", "jump", "dnat"}
        BY <2>3 DEF LearntBefore
      <3>. QED  BY <1>0, <2>1, <2>3, <3>1, RuleCommand, ItemsAre DEF BnatSetup
    <2>. QED  BY <1>0, <2>3, <2>4 DEF BnatSetup
  <1>9. CASE snat_map
    <2>1. /\ pc = "snat_map" /\ bnat[site] \subseteq {"bnat", "chain", "jump", "dnat"}
          /\ "bnat" \in bnat[site]
      BY <1>9, StageLearnt DEF snat_map, LearntInv, BnatSetup
    <2>2. /\ UNCHANGED <<rules, bnat, chains>> /\ (NoFail \/ Fail("bnat"))
          /\ pc' \in {"snat_rule", "access_rule"}
          /\ maps' = maps \/ (maps' = maps \cup {<<"bsnat", site>>} /\ pc' = "snat_rule")
      BY <1>9 DEF snat_map, Skip, Create, bnatVars
    <2>3. BnatTypeOK' /\ RuleInv' /\ SplitsFirst'
      BY <1>2, <2>2 DEF BnatTypeOK
    <2>4. MapInv'
      BY <1>1, <2>1, <2>2 DEF MapInv
    <2>5. LearntInv'
      BY <2>1, <2>2 DEF LearntInv, LearntBefore, BnatSetup
    <2>. QED  BY <1>0, <1>1, <2>2, <2>3, <2>4, <2>5 DEF BnatSetup
  <1>10. CASE snat_rule
    <2>1. /\ pc = "snat_rule" /\ bnat[site] \subseteq {"bnat", "chain", "jump", "dnat"}
          /\ "bnat" \in bnat[site]
      BY <1>10, StageLearnt DEF snat_rule, LearntInv, BnatSetup
    <2>2. AddRule("sdem", {"sdem", "bsnat"}, "access_rule", "drop_snat")
      BY <1>10 DEF snat_rule
    <2>3. /\ BnatTypeOK' /\ RuleInv' /\ SplitsFirst' /\ happened \subseteq happened'
          /\ UNCHANGED <<maps, chains>>
          /\ \/ pc' = "access_rule" /\ bnat' = [bnat EXCEPT ![site] = @ \cup {"sdem", "bsnat"}]
             \/ pc' = "drop_snat" /\ bnat' = bnat
      BY <1>0, <2>1, <2>2, AddRuleStep, ItemsAre
    <2>4. MapInv' /\ LearntInv'
      <3>1. CASE pc' = "access_rule" /\ bnat' = [bnat EXCEPT ![site] = @ \cup {"sdem", "bsnat"}]
        <4>1. LearntBefore' = {"bnat", "chain", "jump", "dnat", "sdem", "bsnat"}
          BY <3>1 DEF LearntBefore
        <4>2. /\ bnat[site] \cup {"sdem", "bsnat"} \subseteq LearntBefore'
              /\ {"sdem", "bsnat"} \in SUBSET Items
          BY <2>1, <4>1, ItemsAre
        <4>3. /\ pc' \in (BnatSetup \cup {"commit"}) \ {"create_map", "elements", "drop_map"}
              /\ pc \notin {"create_map", "elements", "drop_map", "split_jump", "drop_chain", "drop_snat"}
          BY <2>1, <3>1 DEF BnatSetup
        <4>. QED  BY <1>0, <2>1, <2>3, <3>1, <4>2, <4>3, RuleCommand
      <3>2. CASE pc' = "drop_snat" /\ bnat' = bnat
        <4>1. LearntBefore' = {"bnat", "chain", "jump", "dnat"}
          BY <3>2 DEF LearntBefore
        <4>2. /\ bnat[site] \cup {} \subseteq LearntBefore'
              /\ bnat' = [bnat EXCEPT ![site] = @ \cup {}]
          BY <2>1, <3>2, <4>1 DEF BnatTypeOK
        <4>. QED  BY <1>0, <2>1, <2>3, <3>2, <4>2, RuleCommand, ItemsAre DEF BnatSetup
      <3>. QED  BY <2>3, <3>1, <3>2
    <2>. QED  BY <1>0, <2>3, <2>4 DEF BnatSetup
  <1>11. CASE drop_snat
    <2>1. /\ pc = "drop_snat" /\ bnat[site] \subseteq {"bnat", "chain", "jump", "dnat"}
          /\ "bnat" \in bnat[site]
      BY <1>11, StageLearnt DEF drop_snat, LearntInv, BnatSetup
    <2>2. /\ UNCHANGED <<rules, bnat, chains>> /\ pc' = "access_rule"
          /\ \/ NoFail /\ maps' = IF Uses("sdem", site) THEN maps ELSE maps \ {<<"bsnat", site>>}
             \/ Fail("cleanup") /\ UNCHANGED maps
      BY <1>11 DEF drop_snat, DropMap
    <2>3. BnatTypeOK' /\ RuleInv' /\ SplitsFirst'
      BY <1>2, <2>2 DEF BnatTypeOK
    <2>4. Uses("sdem", site) => Items \subseteq Allowed
      BY <1>0, <2>1, UsesAllowed, ItemsAre
    <2>5. MapInv'
      <3>1. CASE {"bnat", "bsnat", "chain"} \subseteq Allowed'
        BY <3>1, <2>2, <2>3 DEF MapInv, BnatTypeOK
      <3>2. CASE maps' = maps \ {<<"bsnat", site>>}
        BY <1>1, <2>1, <2>2, <3>2 DEF MapInv
      <3>. QED  BY <1>1, <1>14, <2>2, <2>4, <3>1, <3>2, ItemsAre
    <2>6. LearntInv'
      BY <2>1, <2>2 DEF LearntInv, LearntBefore, BnatSetup
    <2>. QED  BY <1>0, <1>1, <2>2, <2>3, <2>5, <2>6 DEF BnatSetup
  <1>12. CASE access_rule
    <2>1. /\ pc = "access_rule" /\ "bnat" \in bnat[site]
          /\ bnat[site] \subseteq {"bnat", "chain", "jump", "dnat", "sdem", "bsnat"}
      BY <1>12, StageLearnt DEF access_rule, LearntInv, BnatSetup
    <2>2. CASE AddRule("access", {"access"}, "ftp_helper", "ftp_helper")
      <3>1. /\ BnatTypeOK' /\ RuleInv' /\ SplitsFirst' /\ happened \subseteq happened'
            /\ UNCHANGED <<maps, chains>> /\ pc' = "ftp_helper"
            /\ bnat' = [bnat EXCEPT ![site] = @ \cup {"access"}] \/ bnat' = bnat
        BY <1>0, <2>1, <2>2, AddRuleStep, ItemsAre
      <3>2. MapInv' /\ LearntInv'
        <4>1. LearntBefore' = {"bnat", "chain", "jump", "dnat", "sdem", "bsnat", "access"}
          BY <3>1 DEF LearntBefore
        <4>. QED  BY <1>0, <2>1, <3>1, <4>1, RuleCommand, ItemsAre DEF BnatSetup
      <3>. QED  BY <1>0, <3>1, <3>2 DEF BnatSetup
    <2>3. CASE Skip("commit")
      <3>1. UNCHANGED <<rules, bnat, maps, chains>> /\ NoFail /\ pc' = "commit"
        BY <2>3 DEF Skip, bnatVars
      <3>2. BnatTypeOK' /\ RuleInv' /\ SplitsFirst'
        BY <1>2, <3>1 DEF BnatTypeOK
      <3>3. MapInv'
        BY <1>1, <2>1, <3>1 DEF MapInv
      <3>4. LearntInv'
        BY <2>1, <3>1 DEF LearntInv, LearntBefore, BnatSetup
      <3>. QED  BY <1>0, <1>1, <3>1, <3>2, <3>3, <3>4 DEF BnatSetup
    <2>. QED  BY <1>12, <2>2, <2>3 DEF access_rule
  <1>13. CASE ftp_helper
    <2>1. /\ pc = "ftp_helper" /\ "bnat" \in bnat[site]
          /\ bnat[site] \subseteq {"bnat", "chain", "jump", "dnat", "sdem", "bsnat", "access"}
      BY <1>13, StageLearnt DEF ftp_helper, LearntInv, BnatSetup
    <2>2. AddRule("helper", {"helper"}, "commit", "commit")
      BY <1>13 DEF ftp_helper
    <2>3. /\ BnatTypeOK' /\ RuleInv' /\ SplitsFirst' /\ happened \subseteq happened'
          /\ UNCHANGED <<maps, chains>> /\ pc' = "commit"
          /\ bnat' = [bnat EXCEPT ![site] = @ \cup {"helper"}] \/ bnat' = bnat
      BY <1>0, <2>1, <2>2, AddRuleStep, ItemsAre
    <2>4. MapInv' /\ LearntInv'
      BY <1>0, <2>1, <2>3, RuleCommand, ItemsAre DEF BnatSetup
    <2>. QED  BY <1>0, <2>3, <2>4
  <1>. QED  BY <1>3, <1>4, <1>5, <1>6, <1>7, <1>8, <1>9, <1>10, <1>11, <1>12, <1>13, <1>15
            DEF setup_site_bnat

\* What teardown_site_bnat removes next: nothing that it removes later needs it.
LEMMA FirstItem ==
    ASSUME BnatTypeOK, site \in Sites, Remaining # {}
    PROVE  LET item == TeardownOrder[CHOOSE i \in Remaining : \A j \in Remaining : i <= j]
           IN  /\ item \in bnat[site] /\ "bnat" \in bnat[site]
               /\ item = "bnat" => bnat[site] = {"bnat"}
               /\ item = "bsnat" => "sdem" \notin bnat[site]
               /\ item = "chain" => "jump" \notin bnat[site]
  <1>. DEFINE least == CHOOSE i \in Remaining : \A j \in Remaining : i <= j
  <1>1. /\ Remaining = {i \in 1 .. 8 : TeardownOrder[i] \in bnat[site]}
        /\ "bnat" \in bnat[site]
    BY ItemsAre DEF Remaining
  <1>2. \E i \in Remaining : \A j \in Remaining : i <= j
    <2>. DEFINE R == Remaining
    <2>1. R \subseteq {1, 2, 3, 4, 5, 6, 7, 8} /\ R # {}
      BY <1>1
    <2>. HIDE DEF R
    <2>2. \E i \in R : \A j \in R : i <= j
      <3>1. CASE 1 \in R
        <4>. \A j \in R : 1 <= j
          BY <2>1, <3>1
        <4>. QED  BY <3>1
      <3>2. CASE 2 \in R /\ 1 \notin R
        <4>. \A j \in R : 2 <= j
          BY <2>1, <3>2
        <4>. QED  BY <3>2
      <3>3. CASE 3 \in R /\ 1 \notin R /\ 2 \notin R
        <4>. \A j \in R : 3 <= j
          BY <2>1, <3>3
        <4>. QED  BY <3>3
      <3>4. CASE 4 \in R /\ 1 \notin R /\ 2 \notin R /\ 3 \notin R
        <4>. \A j \in R : 4 <= j
          BY <2>1, <3>4
        <4>. QED  BY <3>4
      <3>5. CASE 5 \in R /\ 1 \notin R /\ 2 \notin R /\ 3 \notin R /\ 4 \notin R
        <4>. \A j \in R : 5 <= j
          BY <2>1, <3>5
        <4>. QED  BY <3>5
      <3>6. CASE 6 \in R /\ 1 \notin R /\ 2 \notin R /\ 3 \notin R /\ 4 \notin R /\ 5 \notin R
        <4>. \A j \in R : 6 <= j
          BY <2>1, <3>6
        <4>. QED  BY <3>6
      <3>7. CASE 7 \in R /\ 1 \notin R /\ 2 \notin R /\ 3 \notin R /\ 4 \notin R /\ 5 \notin R /\ 6 \notin R
        <4>. \A j \in R : 7 <= j
          BY <2>1, <3>7
        <4>. QED  BY <3>7
      <3>8. CASE /\ 8 \in R /\ 1 \notin R /\ 2 \notin R /\ 3 \notin R /\ 4 \notin R
                 /\ 5 \notin R /\ 6 \notin R /\ 7 \notin R
        <4>. \A j \in R : 8 <= j
          BY <2>1, <3>8
        <4>. QED  BY <3>8
      <3>9. 1 \in R \/ 2 \in R \/ 3 \in R \/ 4 \in R \/ 5 \in R \/ 6 \in R \/ 7 \in R \/ 8 \in R
        BY <2>1
      <3>. QED  BY <3>1, <3>2, <3>3, <3>4, <3>5, <3>6, <3>7, <3>8, <3>9
    <2>. QED  BY <2>2 DEF R
  <1>3. least \in Remaining /\ \A j \in Remaining : least <= j
    BY <1>2
  <1>. HIDE DEF least
  <1>4. least \in 1 .. 8 /\ TeardownOrder[least] \in bnat[site]
    BY <1>1, <1>3
  <1>5. \A j \in 1 .. 8 : j < least => TeardownOrder[j] \notin bnat[site]
    BY <1>1, <1>3, <1>4
  <1>6. /\ TeardownOrder[1] = "sdem" /\ TeardownOrder[2] = "access" /\ TeardownOrder[3] = "bsnat"
        /\ TeardownOrder[4] = "dnat" /\ TeardownOrder[5] = "helper" /\ TeardownOrder[6] = "jump"
        /\ TeardownOrder[7] = "chain" /\ TeardownOrder[8] = "bnat"
    BY DEF TeardownOrder
  <1>7. least \in {1, 2, 3, 4, 5, 6, 7, 8}
    BY <1>4
  <1>8. TeardownOrder[least] = "bsnat" => least = 3
    BY <1>6, <1>7
  <1>9. TeardownOrder[least] = "chain" => least = 7
    BY <1>6, <1>7
  <1>10. TeardownOrder[least] = "bnat" => least = 8
    BY <1>6, <1>7
  <1>11. TeardownOrder[least] = "bsnat" => "sdem" \notin bnat[site]
    BY <1>5, <1>6, <1>8
  <1>12. TeardownOrder[least] = "chain" => "jump" \notin bnat[site]
    BY <1>5, <1>6, <1>9
  <1>13. TeardownOrder[least] = "bnat" => bnat[site] = {"bnat"}
    <2>1. SUFFICES ASSUME least = 8  PROVE bnat[site] = {"bnat"}
      BY <1>10
    <2>2. \A item \in Items \ {"bnat"} : item \notin bnat[site]
      BY <1>5, <1>6, <2>1, ItemsAre
    <2>. QED  BY <1>1, <2>2 DEF BnatTypeOK
  <1>. QED  BY <1>1, <1>4, <1>11, <1>12, <1>13 DEF least

\* The rule of a handle that is deleted or given up.
LEMMA RuleForgotten ==
    ASSUME BnatTypeOK, RuleInv, SplitsFirst, site \in Sites, pc # "down",
           happened \subseteq happened', UNCHANGED site,
           NEW kind \in DOMAIN ChainOf, kind \in bnat[site],
           NEW gone \in BOOLEAN, gone \/ "teardown" \in happened', ForgetRule(kind, gone),
           bnat' = [bnat EXCEPT ![site] = @ \ {kind}]
    PROVE  rules' \in [BaseChains -> Seq(Rule)] /\ RuleInv' /\ SplitsFirst'
  <1>1. PICK at \in Nat : Known(site, kind) = {at}
    BY DEF RuleInv
  <1>. DEFINE old == rules[ChainOf[kind]]
              chosen == CHOOSE i \in DOMAIN old :
                           old[i].kind = kind /\ old[i].site = site /\ old[i].known
  <1>2. chosen = at
    <2>1. /\ \A i \in DOMAIN old : old[i].kind = kind /\ old[i].site = site /\ old[i].known => i = at
          /\ at \in DOMAIN old /\ old[at].kind = kind /\ old[at].site = site /\ old[at].known
      BY <1>1 DEF Known
    <2>. HIDE DEF old
    <2>. QED  BY <2>1
  <1>3. rules' = [rules EXCEPT ![ChainOf[kind]] =
            IF gone THEN SubSeq(old, 1, at - 1) \o SubSeq(old, at + 1, Len(old))
            ELSE [old EXCEPT ![at].known = FALSE]]
    <2>1. rules' = [rules EXCEPT ![ChainOf[kind]] =
              IF gone THEN SubSeq(old, 1, chosen - 1) \o SubSeq(old, chosen + 1, Len(old))
              ELSE [old EXCEPT ![chosen].known = FALSE]]
      BY Zenon DEF ForgetRule
    <2>. HIDE DEF chosen
    <2>. QED  BY <1>2, <2>1
  <1>. HIDE DEF chosen
  <1>4. /\ \A p \in Sites : \A k \in DOMAIN ChainOf : p # site \/ k # kind =>
              (k \in bnat'[p] <=> k \in bnat[p])
        /\ \A p \in Sites : p = site => kind \notin bnat'[p]
    BY DEF BnatTypeOK
  <1>5. Allowed \subseteq Allowed'
    BY AllowedGrows
  <1>6. CASE gone
    <2>1. /\ rules' \in [BaseChains -> Seq(Rule)]
          /\ \A c \in BaseChains : \A i \in DOMAIN rules'[c] :
                LET j == IF c = ChainOf[kind] /\ ~(i < at) THEN i + 1 ELSE i
                IN  i \in Nat /\ j \in DOMAIN rules[c] /\ rules'[c][i] = rules[c][j]
          /\ \A p \in Sites : p = site => Known(p, kind)' = {}
          /\ \A p \in Sites : \A k \in DOMAIN ChainOf : p # site \/ k # kind =>
                /\ Known(p, k) = {} => Known(p, k)' = {}
                /\ \A j : Known(p, k) = {j} => \E i \in Nat : Known(p, k)' = {i}
      <3>1. rules' = [rules EXCEPT ![ChainOf[kind]] =
                        SubSeq(old, 1, at - 1) \o SubSeq(old, at + 1, Len(old))]
        BY <1>3, <1>6
      <3>. QED  BY <1>1, <3>1, Deleted
    <2>2. ASSUME NEW c \in BaseChains, NEW i \in DOMAIN rules'[c]
          PROVE  /\ ChainOf[rules'[c][i].kind] = c
                 /\ rules'[c][i].known \/ rules'[c][i].kind \in Allowed'
      BY <1>5, <2>1 DEF RuleInv
    <2>3. ASSUME NEW p \in Sites, NEW k \in DOMAIN ChainOf
          PROVE  IF k \in bnat'[p] THEN \E i \in Nat : Known(p, k)' = {i} ELSE Known(p, k)' = {}
      <3>1. IF k \in bnat[p] THEN \E i \in Nat : Known(p, k) = {i} ELSE Known(p, k) = {}
        BY DEF RuleInv
      <3>2. CASE p = site /\ k = kind
        BY <1>4, <2>1, <3>2
      <3>3. CASE p # site \/ k # kind
        <4>1. k \in bnat'[p] <=> k \in bnat[p]
          BY <1>4, <3>3
        <4>2. /\ Known(p, k) = {} => Known(p, k)' = {}
              /\ \A j : Known(p, k) = {j} => \E i \in Nat : Known(p, k)' = {i}
          BY <2>1, <3>3
        <4>. QED  BY <3>1, <4>1, <4>2
      <3>. QED  BY <3>2, <3>3
    <2>4. SplitsFirst'
      <3>. DEFINE chain == rules["prerouting"]
                  J(i) == IF "prerouting" = ChainOf[kind] /\ ~(i < at) THEN i + 1 ELSE i
      <3>1. SUFFICES ASSUME happened' \cap {"handle", "teardown"} = {},
                            NEW i \in DOMAIN chain', NEW j \in DOMAIN chain',
                            chain'[i].site = chain'[j].site,
                            chain'[i].kind = "jump", chain'[j].kind = "dnat"
                     PROVE  i < j
        BY DEF SplitsFirst
      <3>2. /\ i \in Nat /\ J(i) \in DOMAIN chain /\ chain'[i] = chain[J(i)]
            /\ j \in Nat /\ J(j) \in DOMAIN chain /\ chain'[j] = chain[J(j)]
        BY <2>1 DEF BaseChains
      <3>3. J(i) < J(j)
        <4>. HIDE DEF J
        <4>. QED  BY <3>1, <3>2 DEF SplitsFirst
      <3>. HIDE DEF chain
      <3>. QED  BY <3>2, <3>3
    <2>. QED  BY <2>1, <2>2, <2>3, <2>4 DEF RuleInv
  <1>7. CASE ~gone
    <2>1. /\ rules' \in [BaseChains -> Seq(Rule)]
          /\ \A c \in BaseChains : \A i \in DOMAIN rules'[c] :
                /\ i \in DOMAIN rules[c] /\ rules'[c][i].kind = rules[c][i].kind
                /\ rules'[c][i].site = rules[c][i].site
          /\ \A p \in Sites : p = site => Known(p, kind)' = {}
          /\ \A p \in Sites : \A k \in DOMAIN ChainOf : p # site \/ k # kind =>
                Known(p, k)' = Known(p, k)
      <3>1. rules' = [rules EXCEPT ![ChainOf[kind]] = [old EXCEPT ![at].known = FALSE]]
        BY <1>3, <1>7
      <3>. QED  BY <1>1, <3>1, Forgotten
    <2>2. "teardown" \in happened' /\ Items \subseteq Allowed'
      BY <1>7, RemainByFault DEF Allowed
    <2>3. ASSUME NEW c \in BaseChains, NEW i \in DOMAIN rules'[c]
          PROVE  ChainOf[rules'[c][i].kind] = c /\ rules'[c][i].kind \in Allowed'
      <3>1. i \in DOMAIN rules[c] /\ rules[c][i] \in Rule /\ rules'[c][i].kind = rules[c][i].kind
        BY <2>1, ChainType
      <3>2. rules[c][i].kind \in Items
        BY <3>1, ItemsAre DEF Rule
      <3>. QED  BY <2>2, <3>1, <3>2 DEF RuleInv
    <2>4. ASSUME NEW p \in Sites, NEW k \in DOMAIN ChainOf
          PROVE  IF k \in bnat'[p] THEN \E i \in Nat : Known(p, k)' = {i} ELSE Known(p, k)' = {}
      <3>1. IF k \in bnat[p] THEN \E i \in Nat : Known(p, k) = {i} ELSE Known(p, k) = {}
        BY DEF RuleInv
      <3>2. CASE p = site /\ k = kind
        BY <1>4, <2>1, <3>2
      <3>3. CASE p # site \/ k # kind
        BY <1>4, <2>1, <3>1, <3>3
      <3>. QED  BY <3>2, <3>3
    <2>5. SplitsFirst'
      BY <2>2 DEF SplitsFirst
    <2>. QED  BY <2>1, <2>3, <2>4, <2>5 DEF RuleInv
  <1>. QED  BY <1>6, <1>7

\* One command of teardown_site_bnat keeps the table's invariant.
LEMMA ItemRemoved ==
    ASSUME BnatInv, site \in Sites, UNCHANGED <<pc, site, cache>>, pc = "bnat_down",
           NEW item, item \in bnat[site], "bnat" \in bnat[site],
           item = "bnat" => bnat[site] = {"bnat"},
           item = "bsnat" => "sdem" \notin bnat[site],
           item = "chain" => "jump" \notin bnat[site],
           NEW gone \in BOOLEAN, RemoveItem(item, gone),
           IF gone THEN NoFail ELSE Fail("teardown")
    PROVE  BnatInv' /\ happened \subseteq happened'
  <1>. USE DEF BnatInv
  <1>1. /\ failures' \in 0 .. MaxFailures /\ happened' \subseteq Faults
        /\ happened \subseteq happened' /\ Allowed \subseteq Allowed'
    BY FailsTyped, AllowedGrows DEF BnatTypeOK
  <1>2. gone \/ ("teardown" \in happened' /\ Items \subseteq Allowed')
    <2>1. gone \/ "teardown" \in happened'
      BY DEF Fail
    <2>. QED  BY <2>1, RemainByFault DEF Allowed
  <1>3. bnat' = [bnat EXCEPT ![site] = @ \ {item}]
    BY DEF RemoveItem
  <1>4. /\ bnat' \in [Sites -> SUBSET Items] /\ item \notin bnat'[site]
        /\ \A k : k # item => (k \in bnat'[site] <=> k \in bnat[site])
        /\ \A p \in Sites : p # site => bnat'[p] = bnat[p]
    BY <1>3 DEF BnatTypeOK
  <1>5. rules' \in [BaseChains -> Seq(Rule)] /\ RuleInv' /\ SplitsFirst'
    <2>1. CASE item \in DOMAIN ChainOf
      BY <1>1, <1>2, <1>3, <2>1, RuleForgotten DEF RemoveItem
    <2>2. CASE item \notin DOMAIN ChainOf
      <3>1. UNCHANGED rules
        BY <2>2 DEF RemoveItem
      <3>2. \A p \in Sites : \A kind \in DOMAIN ChainOf : kind \in bnat'[p] <=> kind \in bnat[p]
        BY <1>4, <2>2
      <3>. QED  BY <1>1, <3>1, <3>2, RulesKept DEF BnatTypeOK
    <2>. QED  BY <2>1, <2>2
  <1>6. /\ maps' \subseteq maps /\ chains' \subseteq chains
        /\ maps' = IF gone /\ (\/ item = "bnat" /\ ~Uses("dnat", site)
                               \/ item = "bsnat" /\ ~Uses("sdem", site))
                   THEN maps \ {<<item, site>>} ELSE maps
        /\ chains' = IF gone /\ item = "chain" /\ ~Uses("jump", site)
                     THEN chains \ {site} ELSE chains
    BY DEF RemoveItem
  <1>7. BnatTypeOK'
    BY <1>1, <1>4, <1>5, <1>6 DEF BnatTypeOK
  <1>8. /\ item = "bnat" /\ Uses("dnat", site) => Items \subseteq Allowed
        /\ item = "bsnat" /\ Uses("sdem", site) => Items \subseteq Allowed
        /\ item = "chain" /\ Uses("jump", site) => Items \subseteq Allowed
    <2>1. item = "bnat" => "dnat" \notin bnat[site]
      OBVIOUS
    <2>. QED  BY <2>1, UsesAllowed, ItemsAre
  <1>9. MapInv'
    <2>1. CASE Items \subseteq Allowed'
      BY <2>1, <1>7, ItemsAre DEF MapInv, BnatTypeOK
    <2>2. CASE ~(Items \subseteq Allowed')
      <3>1. /\ item \in {"bnat", "bsnat"} => maps' = maps \ {<<item, site>>}
            /\ item = "chain" => chains' = chains \ {site}
        BY <1>1, <1>2, <1>6, <1>8, <2>2
      <3>2. \A p \in Sites : <<"bnat", p>> \in maps' => "bnat" \in Allowed' \cup bnat'[p]
        BY <1>1, <1>4, <1>6, <3>1 DEF MapInv
      <3>3. \A p \in Sites : <<"bsnat", p>> \in maps' => "bsnat" \in Allowed' \cup bnat'[p]
        BY <1>1, <1>4, <1>6, <3>1 DEF MapInv
      <3>4. \A p \in chains' : "chain" \in Allowed' \cup bnat'[p]
        BY <1>1, <1>4, <1>6, <3>1 DEF MapInv, BnatTypeOK
      <3>. QED  BY <3>2, <3>3, <3>4 DEF MapInv
    <2>. QED  BY <2>1, <2>2
  <1>10. LearntInv'
    <2>1. bnat'[site] # {} => "bnat" \in bnat'[site]
      BY <1>4
    <2>. QED  BY <1>4, <2>1 DEF LearntInv, BnatSetup
  <1>. QED  BY <1>1, <1>5, <1>7, <1>9, <1>10

\* teardown_site_bnat keeps the table's invariant, and ends when it knows of
\* nothing that is left.
LEMMA TeardownBnat ==
    ASSUME BnatInv, site \in Sites, UNCHANGED <<site, cache>>, teardown_site_bnat
    PROVE  /\ BnatInv' /\ happened \subseteq happened'
           /\ pc = "bnat_down" /\ pc' \in {"bnat_down", "devices_down"}
  <1>. USE DEF BnatInv
  <1>1. pc = "bnat_down"
    BY DEF teardown_site_bnat
  <1>2. CASE Remaining = {}
    <2>1. /\ bnat' = [bnat EXCEPT ![site] = {}] /\ pc' = "devices_down"
          /\ NoFail /\ UNCHANGED <<maps, chains, rules>>
      BY <1>2 DEF teardown_site_bnat
    <2>2. bnat[site] = {}
      <3>1. ASSUME NEW item \in bnat[site]  PROVE FALSE
        <4>1. "bnat" \in bnat[site] /\ item \in Items
          BY <3>1 DEF LearntInv, BnatTypeOK
        <4>. QED  BY <1>2, <4>1 DEF Remaining, Items
      <3>. QED  BY <3>1
    <2>3. UNCHANGED bnat
      BY <2>1, <2>2 DEF BnatTypeOK
    <2>4. UNCHANGED <<failures, happened>> /\ Allowed \subseteq Allowed'
      BY <2>1, AllowedGrows DEF NoFail
    <2>5. BnatTypeOK'
      BY <2>1, <2>3, <2>4 DEF BnatTypeOK
    <2>6. RuleInv' /\ SplitsFirst'
      BY <1>1, <2>1, <2>3, <2>4, RulesKept
    <2>7. MapInv'
      BY <1>1, <2>1, <2>3, <2>4 DEF MapInv
    <2>8. LearntInv'
      BY <1>1, <2>1, <2>2, <2>3 DEF LearntInv, BnatSetup
    <2>. QED  BY <1>1, <2>1, <2>4, <2>5, <2>6, <2>7, <2>8
  <1>3. CASE Remaining # {}
    <2>. DEFINE item == TeardownOrder[CHOOSE i \in Remaining : \A j \in Remaining : i <= j]
    <2>1. /\ item \in bnat[site] /\ "bnat" \in bnat[site]
          /\ item = "bnat" => bnat[site] = {"bnat"}
          /\ item = "bsnat" => "sdem" \notin bnat[site]
          /\ item = "chain" => "jump" \notin bnat[site]
      BY <1>3, FirstItem
    <2>2. /\ \/ NoFail /\ RemoveItem(item, TRUE)
             \/ Fail("teardown") /\ RemoveItem(item, FALSE)
          /\ UNCHANGED pc
      BY <1>3 DEF teardown_site_bnat
    <2>. HIDE DEF item
    <2>3. CASE NoFail /\ RemoveItem(item, TRUE)
      BY <1>1, <2>1, <2>2, <2>3, ItemRemoved
    <2>4. CASE Fail("teardown") /\ RemoveItem(item, FALSE)
      BY <1>1, <2>1, <2>2, <2>4, ItemRemoved
    <2>. QED  BY <2>2, <2>3, <2>4
  <1>. QED  BY <1>2, <1>3

\* A handler that leaves the table alone keeps its invariant, if it comes from
\* none of setup_site_bnat's commands, hands on what is to be removed and begins
\* the setup with nothing learnt.
LEMMA BnatFrame ==
    ASSUME BnatInv, UNCHANGED bnatVars, NoFail \/ (\E f : Fail(f)) \/ \E f, g : FailBoth(f, g),
           pc \notin BnatSetup \cup {"down"}, pc' \notin BnatSetup \ {"create_map"},
           pc' = "create_map" => bnat[site'] = {},
           \A p \in Sites : bnat[p] # {} =>
              cache'[p] # NoSite \/ (p = site' /\ pc' \in {"commit", "bnat_down"})
    PROVE  BnatInv' /\ happened \subseteq happened'
  <1>. USE DEF BnatInv, bnatVars
  <1>1. /\ failures' \in 0 .. MaxFailures /\ happened' \subseteq Faults
        /\ happened \subseteq happened' /\ Allowed \subseteq Allowed'
    BY FailsTyped, AllowedGrows DEF BnatTypeOK
  <1>2. BnatTypeOK'
    BY <1>1 DEF BnatTypeOK
  <1>3. RuleInv' /\ SplitsFirst'
    BY <1>1, RulesKept
  <1>4. MapInv'
    BY <1>1 DEF MapInv, BnatSetup
  <1>5. LearntInv'
    BY DEF LearntInv, BnatSetup
  <1>. QED  BY <1>1, <1>2, <1>3, <1>4, <1>5

\* A crash leaves the table as it is and loses every handle.
LEMMA CrashBnat ==
    ASSUME BnatInv, Crash
    PROVE  BnatInv' /\ happened \subseteq happened'
  <1>. USE DEF BnatInv, Crash
  <1>1. /\ failures' \in 0 .. MaxFailures /\ happened' \subseteq Faults
        /\ happened \subseteq happened'
    BY FailsTyped DEF BnatTypeOK
  <1>2. BnatTypeOK'
    BY <1>1 DEF BnatTypeOK
  <1>3. RuleInv' /\ MapInv' /\ LearntInv'
    BY DEF RuleInv, MapInv, LearntInv, BnatSetup
  <1>4. SplitsFirst'
    BY <1>1 DEF SplitsFirst
  <1>. QED  BY <1>1, <1>2, <1>3, <1>4

\* init empties the table.
LEMMA InitBnat ==
    ASSUME BnatInv, WorkInv, init
    PROVE  BnatInv' /\ happened \subseteq happened'
  <1>. USE DEF BnatInv, init
  <1>1. UNCHANGED <<failures, happened>>
    BY DEF NoFail
  <1>2. \A p \in Sites : bnat[p] = {}
    BY DEF WorkInv, LearntInv, BnatSetup
  <1>3. /\ rules' \in [BaseChains -> Seq(Rule)]
        /\ \A c \in BaseChains : rules'[c] = <<>> /\ DOMAIN rules'[c] = {}
    <2>1. <<>> \in Seq(Rule) /\ DOMAIN <<>> = {}
      OBVIOUS
    <2>. QED  BY <2>1
  <1>4. BnatTypeOK'
    BY <1>1, <1>3 DEF BnatTypeOK
  <1>5. RuleInv'
    <2>1. ASSUME NEW p \in Sites, NEW kind \in DOMAIN ChainOf
          PROVE  Known(p, kind)' = {} /\ bnat'[p] = {}
      <3>1. ChainOf[kind] \in BaseChains
        BY DEF ChainOf, BaseChains
      <3>. QED  BY <1>2, <1>3, <3>1 DEF Known
    <2>. QED  BY <1>3, <2>1 DEF RuleInv
  <1>6. MapInv' /\ LearntInv'
    BY <1>2 DEF MapInv, LearntInv, BnatSetup
  <1>7. SplitsFirst'
    BY <1>3 DEF SplitsFirst, BaseChains
  <1>. QED  BY <1>1, <1>4, <1>5, <1>6, <1>7

-----------------------------------------------------------------------------
\* Types and stages, action by action

\* NoSite is no SiteVrfState.
LEMMA CacheTypes ==
    ASSUME TypeInv, NEW p \in Sites, cache[p] # NoSite
    PROVE  /\ cache[p] \in State /\ cache[p].bypass \in BOOLEAN /\ cache[p].id \in Ids
           /\ cache[p].devices \in SUBSET Devices
  BY DEF TypeInv, State

\* The ids that are handed out next are in range.
LEMMA AllocIdType ==
    ASSUME AllocType
    PROVE  AllocId \in Ids /\ 0 \in Ids
  <1>1. Cardinality(Sites) \in Nat
    BY SetupAssumption, FS_CardinalityType
  <1>2. PICK next \in Ids : \E free \in Seq(0 .. next - 1) : alloc = [next |-> next, free |-> free]
    BY DEF AllocType
  <1>3. PICK free \in Seq(0 .. next - 1) : alloc = [next |-> next, free |-> free]
    BY <1>2
  <1>4. CASE free = <<>>
    BY <1>1, <1>3, <1>4 DEF AllocId, Ids
  <1>5. CASE free # <<>>
    <2>1. Len(free) \in 1 .. Len(free)
      BY <1>5, EmptySeq, LenProperties
    <2>2. free[Len(free)] \in 0 .. next - 1
      BY <2>1, ElementOfSeq
    <2>3. AllocId = free[Len(free)]
      BY <1>3, <1>5 DEF AllocId
    <2>. QED  BY <1>1, <2>2, <2>3 DEF Ids
  <1>. QED  BY <1>4, <1>5

\* The records of the types.
LEMMA WorkFields ==
    ASSUME NEW w \in WorkType
    PROVE  /\ w.bypass \in BOOLEAN /\ w.id \in Ids /\ w.devices \in SUBSET Devices
           /\ w.pending \in SUBSET Devices /\ w.todo \in Seq(Commands)
  BY DEF WorkType

\* A handler that does nothing has locals of their types.
LEMMA NoWorkType ==
    ASSUME AllocType
    PROVE  NoWork \in WorkType
  <1>1. <<>> \in Seq(Commands)
    OBVIOUS
  <1>. QED  BY <1>1, AllocIdType DEF NoWork, WorkType

\* What the objects of a handler are.
LEMMA ObjectTypes ==
    ASSUME NEW p \in Sites, AllocType
    PROVE  /\ \A kind \in Kinds : \A key \in Ids \cup Devices : Obj(kind, p, key) \in Object
           /\ \A kind \in Kinds : Obj(kind, p, 0) \in Object
  BY AllocIdType DEF Obj, Object

\* What the site in hand has of a kind is an object.
LEMMA OwnType ==
    ASSUME TypeInv, AllocType, NEW kind \in Kinds
    PROVE  Own(kind) \in Object
  <1>1. work.id \in Ids
    BY WorkFields DEF TypeInv
  <1>. QED  BY <1>1, AllocIdType DEF Own, Obj, Object, TypeInv

\* Objects whose command is forgotten stay objects.
LEMMA LoseType ==
    ASSUME NEW S, S \subseteq Object, NEW kinds, NEW p
    PROVE  Lose(S, kinds, p) \subseteq Object
  BY DEF Lose, Object

\* on_child_up starts a handler.
LEMMA ChildUpType ==
    ASSUME TypeInv, WorkInv, AllocType, NEW p \in Sites, on_child_up(p)
    PROVE  TypeInv' /\ WorkInv'
  <1>1. PICK mode \in ModesOf[p] :
            LET bypass == mode = "customer"
            IN  /\ work' = [bypass |-> bypass, id |-> IF bypass THEN 0 ELSE AllocId,
                            devices |-> {}, pending |-> DevicesOf[p],
                            todo |-> IF bypass THEN <<>> ELSE SetupOrder]
                /\ pc' = IF bypass THEN "device" ELSE "setup"
    BY DEF on_child_up
  <1>. DEFINE bypass == mode = "customer"
  <1>2. /\ work' = [bypass |-> bypass, id |-> IF bypass THEN 0 ELSE AllocId,
                    devices |-> {}, pending |-> DevicesOf[p],
                    todo |-> IF bypass THEN <<>> ELSE SetupOrder]
        /\ pc' = IF bypass THEN "device" ELSE "setup"
        /\ bypass \in BOOLEAN
    BY <1>1
  <1>. HIDE DEF bypass
  <1>3. /\ site' = p /\ UNCHANGED <<objects, cache>> /\ cache[p] = NoSite
    BY DEF on_child_up
  <1>4. (IF bypass THEN <<>> ELSE SetupOrder) \in Seq(Commands)
    <2>1. <<>> \in Seq(Commands)
      OBVIOUS
    <2>. QED  BY <2>1, OrderTypes
  <1>5. work' \in WorkType
    <2>1. DevicesOf[p] \in SUBSET Devices
      BY SetupAssumption
    <2>. QED  BY <1>2, <1>4, <2>1, AllocIdType DEF WorkType
  <1>6. TypeInv'
    BY <1>2, <1>3, <1>5 DEF TypeInv, Steps, Busy, Standing
  <1>7. WorkInv'
    BY <1>2, <1>3, SuffixWhole DEF WorkInv, BnatSetup
  <1>. QED  BY <1>6, <1>7

\* on_child_down takes the site out of the cache.
LEMMA ChildDownType ==
    ASSUME TypeInv, WorkInv, AllocType, NEW p \in Sites, on_child_down(p)
    PROVE  TypeInv' /\ WorkInv'
  <1>1. /\ cache[p] # NoSite /\ site' = p /\ pc' = "bnat_down" /\ UNCHANGED objects
        /\ cache' = [cache EXCEPT ![p] = NoSite]
        /\ work' = [bypass |-> cache[p].bypass, id |-> cache[p].id, devices |-> {},
                    pending |-> cache[p].devices,
                    todo |-> IF cache[p].bypass THEN <<>> ELSE VrfOrder]
    BY DEF on_child_down
  <1>2. /\ cache[p].bypass \in BOOLEAN /\ cache[p].id \in Ids
        /\ cache[p].devices \in SUBSET Devices
    BY <1>1, CacheTypes
  <1>3. (IF cache[p].bypass THEN <<>> ELSE VrfOrder) \in Seq(Commands)
    <2>1. <<>> \in Seq(Commands)
      OBVIOUS
    <2>. QED  BY <2>1, OrderTypes
  <1>4. work' \in WorkType
    BY <1>1, <1>2, <1>3 DEF WorkType
  <1>5. cache' \in [Sites -> State \cup {NoSite}] /\ cache'[p] = NoSite
    BY <1>1 DEF TypeInv
  <1>6. TypeInv'
    BY <1>1, <1>4, <1>5 DEF TypeInv, Steps, Busy
  <1>7. WorkInv'
    BY <1>1, <1>2, <1>5 DEF WorkInv, BnatSetup
  <1>. QED  BY <1>6, <1>7

\* A command of setup_site_vrf, done or given up.
LEMMA SetupCommandType ==
    ASSUME TypeInv, WorkInv, AllocType, setup_command
    PROVE  TypeInv' /\ WorkInv'
  <1>. DEFINE item == Head(work.todo)
              k == Len(work.todo)
  <1>1. /\ pc = "setup" /\ UNCHANGED <<site, cache>> /\ cache[site] = NoSite
        /\ Suffix(work.todo, SetupOrder) /\ work.devices = {} /\ ~work.bypass
    BY DEF setup_command, WorkInv, Busy
  <1>2. /\ work.bypass \in BOOLEAN /\ work.id \in Ids /\ work.pending \in SUBSET Devices
        /\ work.todo \in Seq(Commands) /\ work \in WorkType /\ work.devices \in SUBSET Devices
    BY WorkFields DEF TypeInv
  <1>3. /\ k \in 1 .. 8 /\ item \in Commands \cap (Kinds \cup {"plumb"})
        /\ k > 1 => Suffix(Tail(work.todo), SetupOrder)
        /\ Tail(work.todo) \in Seq(Commands)
    <2>1. /\ k \in 1 .. 8 /\ item = SetupOrder[Len(SetupOrder) - k + 1]
          /\ k > 1 => Suffix(Tail(work.todo), SetupOrder)
      BY <1>1, OrderTypes, SuffixStep
    <2>2. item \in Commands \cap (Kinds \cup {"plumb"})
      BY <1>1, SetupHead DEF Kinds, Commands, VrfKinds, Marks, Keyed, Rules, Routes
    <2>3. work.todo # <<>>
      BY <2>1
    <2>4. Tail(work.todo) \in Seq(Commands)
      BY <1>2, <2>3, HeadTailProperties
    <2>. QED  BY <2>1, <2>2, <2>4
  <1>4. CASE /\ ~Refused(item) /\ objects' = Installed(item)
             /\ work' = [work EXCEPT !.todo = Tail(@)]
             /\ pc' = IF k = 1 THEN "device" ELSE pc
    <2>1. work' \in WorkType
      BY <1>2, <1>3, <1>4 DEF WorkType
    <2>2. objects' \subseteq Object
      <3>1. Own("fib") \in Object /\ Own("tap") \in Object /\ Own("link") \in Object
        BY OwnType DEF Kinds
      <3>2. item # "plumb" => Own(item) \in Object
        BY <1>3, OwnType
      <3>3. Installed(item) \subseteq objects \cup {Own("fib"), Own("tap"), Own("link")}
                                             \cup (IF item = "plumb" THEN {} ELSE {Own(item)})
        <4>. HIDE DEF item
        <4>. QED  BY DEF Installed, Routes
      <3>. QED  BY <1>4, <3>1, <3>2, <3>3 DEF TypeInv
    <2>3. /\ work'.todo = Tail(work.todo) /\ work'.devices = {} /\ work'.bypass = work.bypass
      BY <1>1, <1>2, <1>4 DEF WorkType
    <2>4. TypeInv'
      BY <1>1, <1>4, <2>1, <2>2 DEF TypeInv, Steps, Busy, Standing
    <2>5. CASE k = 1
      BY <1>1, <1>4, <2>3, <2>4, <2>5 DEF WorkInv, BnatSetup
    <2>6. CASE k > 1
      BY <1>1, <1>3, <1>4, <2>3, <2>4, <2>6 DEF WorkInv, BnatSetup
    <2>. HIDE DEF k
    <2>. QED  BY <1>3, <2>4, <2>5, <2>6
  <1>5. CASE /\ objects' = IF item = "tap" THEN objects \cup {Own("fib")}
                           ELSE Lose(objects, {"tap"}, site)
             /\ work' = [work EXCEPT !.todo = PartialOrder] /\ pc' = "partial"
    <2>1. work' \in WorkType
      BY <1>2, <1>5, OrderTypes DEF WorkType
    <2>2. objects' \subseteq Object
      BY <1>5, OwnType, LoseType DEF TypeInv, Kinds
    <2>3. /\ work'.todo = PartialOrder /\ work'.devices = {} /\ work'.bypass = work.bypass
      BY <1>1, <1>2, <1>5 DEF WorkType
    <2>4. TypeInv'
      BY <1>1, <1>5, <2>1, <2>2 DEF TypeInv, Steps, Busy
    <2>5. WorkInv'
      BY <1>1, <1>5, <2>3, SuffixWhole DEF WorkInv, BnatSetup
    <2>. QED  BY <2>4, <2>5
  <1>. QED  BY <1>4, <1>5 DEF setup_command

\* What a device's NAT is.
LEMMA NatType ==
    ASSUME TypeInv, AllocType, NEW d \in Devices
    PROVE  /\ NatOf(d) \subseteq Object
           /\ NatOf(d) = {Obj(kind, site, d) : kind \in NatKinds(work.bypass)}
           /\ \A o \in NatOf(d) : o.kind \in NatKinds(work.bypass) /\ o.site = site /\ o.key = d
  <1>1. NatOf(d) = {Obj(kind, site, d) : kind \in NatKinds(work.bypass)}
    BY DEF NatOf, NatKinds
  <1>2. NatKinds(work.bypass) \subseteq Kinds
    BY DEF NatKinds, Kinds
  <1>3. NatOf(d) \subseteq Object
    BY <1>1, <1>2, ObjectTypes DEF TypeInv
  <1>. QED  BY <1>1, <1>3 DEF Obj

\* A device's paths of an earlier life stay, dead, or go.
LEMMA PathsOf ==
    ASSUME objects \subseteq Object, NEW d, NEW o \in WithoutPaths(d) \cup StalePaths(d)
    PROVE  /\ o \in Object
           /\ o \in objects \/ (o.kind = "path" /\ o.site = site /\ o.key = d)
           /\ o.kind = "path" /\ o.site # site => o \in objects
  BY DEF WithoutPaths, StalePaths, Object

\* A command of a device's NAT, or the end of the devices.
LEMMA DeviceCommandType ==
    ASSUME TypeInv, WorkInv, AllocType, device_command
    PROVE  TypeInv' /\ WorkInv'
  <1>1. /\ pc = "device" /\ UNCHANGED <<site, cache>> /\ cache[site] = NoSite
        /\ work.devices \cap work.pending = {}
    BY DEF device_command, WorkInv, Busy, Standing
  <1>2. /\ work.bypass \in BOOLEAN /\ work.id \in Ids /\ work.pending \in SUBSET Devices
        /\ work.todo \in Seq(Commands) /\ work \in WorkType /\ work.devices \in SUBSET Devices
    BY WorkFields DEF TypeInv
  <1>3. CASE work.pending = {}
    <2>1. /\ pc' = IF work.bypass THEN "create_map" ELSE "lookup"
          /\ UNCHANGED <<objects, work>>
      BY <1>3 DEF device_command
    <2>2. TypeInv'
      BY <1>1, <2>1 DEF TypeInv, Steps, Busy, Standing, BnatSetup
    <2>3. WorkInv'
      BY <1>1, <1>3, <2>1 DEF WorkInv, BnatSetup
    <2>. QED  BY <2>2, <2>3
  <1>4. CASE work.pending # {}
    <2>1. PICK d \in work.pending :
              \/ /\ \E S \in {objects, WithoutPaths(d), StalePaths(d)} : objects' = S \cup NatOf(d)
                 /\ work' = [work EXCEPT !.pending = @ \ {d}, !.devices = @ \cup {d}]
              \/ /\ \/ objects' = objects
                    \/ \E S \in {WithoutPaths(d), StalePaths(d)} : HalfInstalled(S, d)
                 /\ work' = [work EXCEPT !.pending = @ \ {d}]
      BY <1>4 DEF device_command
    <2>2. pc' = pc /\ d \in Devices
      BY <1>2, <1>4 DEF device_command
    <2>3. objects' \subseteq Object
      <3>1. /\ WithoutPaths(d) \subseteq Object /\ StalePaths(d) \subseteq Object
            /\ objects \subseteq Object
        BY PathsOf DEF TypeInv
      <3>2. \A left \in {{"map"}, {"map", "path"}} : {Obj(k, site, d) : k \in left} \subseteq Object
        BY <2>2, ObjectTypes DEF TypeInv, Kinds
      <3>. QED  BY <2>1, <2>2, <3>1, <3>2, NatType DEF HalfInstalled
    <2>4. /\ work' \in WorkType /\ work'.devices \cap work'.pending = {}
          /\ work'.todo = work.todo /\ work'.bypass = work.bypass
      <3>1. CASE work' = [work EXCEPT !.pending = @ \ {d}, !.devices = @ \cup {d}]
        <4>1. /\ work'.bypass = work.bypass /\ work'.id = work.id /\ work'.todo = work.todo
              /\ work'.devices = work.devices \cup {d} /\ work'.pending = work.pending \ {d}
          BY <1>1, <1>2, <3>1 DEF WorkType
        <4>2. work' \in WorkType
          BY <1>1, <1>2, <2>2, <3>1 DEF WorkType
        <4>. QED  BY <1>1, <1>2, <4>1, <4>2
      <3>2. CASE work' = [work EXCEPT !.pending = @ \ {d}]
        <4>1. /\ work'.bypass = work.bypass /\ work'.id = work.id /\ work'.todo = work.todo
              /\ work'.devices = work.devices /\ work'.pending = work.pending \ {d}
          BY <1>1, <1>2, <3>2 DEF WorkType
        <4>2. work' \in WorkType
          BY <1>1, <1>2, <3>2 DEF WorkType
        <4>. QED  BY <1>1, <1>2, <4>1, <4>2
      <3>. QED  BY <2>1, <3>1, <3>2
    <2>5. TypeInv'
      BY <1>1, <2>2, <2>3, <2>4 DEF TypeInv
    <2>6. WorkInv'
      BY <1>1, <2>2, <2>4 DEF WorkInv, BnatSetup
    <2>. QED  BY <2>5, <2>6
  <1>. QED  BY <1>3, <1>4

\* The default route.
LEMMA LookupType ==
    ASSUME TypeInv, WorkInv, AllocType, lookup_route
    PROVE  TypeInv' /\ WorkInv'
  <1>1. /\ pc = "lookup" /\ pc' = "create_map" /\ UNCHANGED <<site, cache, work>>
        /\ objects' \subseteq objects \cup {Own("lookup")}
    BY DEF lookup_route
  <1>2. Own("lookup") \in Object
    BY OwnType DEF Kinds
  <1>3. TypeInv'
    BY <1>1, <1>2 DEF TypeInv, Steps, Busy, Standing, BnatSetup
  <1>4. WorkInv'
    BY <1>1 DEF WorkInv, BnatSetup, Busy, Standing
  <1>. QED  BY <1>3, <1>4

\* The table's commands leave the locals alone.
LEMMA BackendType ==
    ASSUME TypeInv, WorkInv, BnatInv, setup_backend \/ teardown_backend
    PROVE  TypeInv' /\ WorkInv'
  <1>1. UNCHANGED <<site, objects, cache, work>>
    BY DEF setup_backend, teardown_backend, setupVars
  <1>2. \/ pc \in BnatSetup /\ pc' \in BnatSetup \cup {"commit"}
        \/ pc = "bnat_down" /\ pc' \in {"bnat_down", "devices_down"}
    BY <1>1, SetupBnat, TeardownBnat DEF setup_backend, teardown_backend, TypeInv
  <1>3. TypeInv'
    BY <1>1, <1>2 DEF TypeInv, Steps, Busy, Standing
  <1>4. CASE pc \in BnatSetup /\ pc' \in BnatSetup \cup {"commit"}
    BY <1>1, <1>3, <1>4 DEF WorkInv, BnatSetup, Busy, Standing
  <1>5. CASE pc = "bnat_down" /\ pc' \in {"bnat_down", "devices_down"}
    BY <1>1, <1>3, <1>5 DEF WorkInv, BnatSetup, Busy, Standing
  <1>. QED  BY <1>2, <1>3, <1>4, <1>5

\* The site goes into the cache.
LEMMA CommitType ==
    ASSUME TypeInv, WorkInv, AllocType, commit
    PROVE  /\ TypeInv' /\ WorkInv' /\ cache'[site] # NoSite
           /\ cache'[site] = [bypass |-> work.bypass, id |-> work.id, devices |-> work.devices]
  <1>1. /\ pc = "commit" /\ pc' = "idle" /\ work' = NoWork /\ UNCHANGED <<site, objects>>
        /\ cache' = [cache EXCEPT ![site] =
                        [bypass |-> work.bypass, id |-> work.id, devices |-> work.devices]]
    BY DEF commit
  <1>2. [bypass |-> work.bypass, id |-> work.id, devices |-> work.devices] \in State
    BY WorkFields DEF TypeInv, State
  <1>3. /\ cache' \in [Sites -> State \cup {NoSite}] /\ cache'[site] # NoSite
        /\ cache'[site] = [bypass |-> work.bypass, id |-> work.id, devices |-> work.devices]
    BY <1>1, <1>2, NoSiteAssumption DEF TypeInv
  <1>4. TypeInv'
    BY <1>1, <1>3, NoWorkType DEF TypeInv, Steps
  <1>5. WorkInv'
    BY <1>1 DEF WorkInv, BnatSetup, Busy, Standing, NoWork
  <1>. QED  BY <1>3, <1>4, <1>5

\* A device's NAT goes, or the devices are done.
LEMMA DeviceDownType ==
    ASSUME TypeInv, WorkInv, AllocType, device_down
    PROVE  TypeInv' /\ WorkInv'
  <1>1. /\ pc = "devices_down" /\ UNCHANGED <<site, cache>> /\ cache[site] = NoSite
        /\ work.devices = {} /\ (work.bypass \/ work.todo = VrfOrder)
    BY DEF device_down, WorkInv, Busy
  <1>2. /\ work.bypass \in BOOLEAN /\ work.id \in Ids /\ work.pending \in SUBSET Devices
        /\ work.todo \in Seq(Commands) /\ work \in WorkType /\ work.devices \in SUBSET Devices
    BY WorkFields DEF TypeInv
  <1>3. CASE work.pending = {}
    <2>1. /\ objects' = objects
          /\ IF work.bypass THEN pc' = "idle" /\ work' = NoWork
             ELSE pc' = "vrf_down" /\ UNCHANGED work
      BY <1>3 DEF device_down
    <2>2. TypeInv'
      BY <1>1, <2>1, NoWorkType DEF TypeInv, Steps, Busy
    <2>3. WorkInv'
      BY <1>1, <1>3, <2>1, SuffixWhole DEF WorkInv, BnatSetup, Busy, Standing, NoWork
    <2>. QED  BY <2>2, <2>3
  <1>4. CASE work.pending # {}
    <2>1. PICK d \in work.pending :
              /\ objects' \subseteq objects
              /\ work' = [work EXCEPT !.pending = @ \ {d}]
      BY <1>4 DEF device_down
    <2>2. pc' = pc
      BY <1>4 DEF device_down
    <2>3. /\ work' \in WorkType /\ work'.devices = {}
          /\ work'.todo = work.todo /\ work'.bypass = work.bypass
      BY <1>1, <1>2, <2>1 DEF WorkType
    <2>4. TypeInv'
      BY <1>1, <2>1, <2>2, <2>3 DEF TypeInv
    <2>5. WorkInv'
      BY <1>1, <2>2, <2>3 DEF WorkInv, BnatSetup
    <2>. QED  BY <2>4, <2>5
  <1>. QED  BY <1>3, <1>4

\* What of the objects a clean-up command may touch.
LEMMA RemovedType ==
    ASSUME TypeInv, NEW item
    PROVE  Removed(item) \subseteq Object
  <1>1. WithoutLink(objects, site) \subseteq Object
    BY LoseType DEF WithoutLink, TypeInv
  <1>2. WithoutTap(objects, site) \subseteq Object
    <2>1. WithoutLink(objects \ {Obj("tap", site, 0)}, site) \subseteq Object
      BY LoseType DEF WithoutLink, TypeInv
    <2>. QED  BY <2>1, LoseType DEF WithoutTap
  <1>. QED  BY <1>1, <1>2 DEF Removed, TypeInv

\* The next command of a clean-up.
LEMMA RemoveHead ==
    ASSUME WorkInv, pc \in {"partial", "vrf_down"}
    PROVE  LET order == IF pc = "partial" THEN PartialOrder ELSE VrfOrder
               k == Len(work.todo)
           IN  /\ Suffix(work.todo, order) /\ order \in Seq(Commands)
               /\ k \in 1 .. Len(order) /\ Head(work.todo) = order[Len(order) - k + 1]
               /\ k > 1 => Suffix(Tail(work.todo), order) /\ Len(Tail(work.todo)) = k - 1
               /\ Head(work.todo) \in VrfKinds
  <1>. DEFINE order == IF pc = "partial" THEN PartialOrder ELSE VrfOrder
              k == Len(work.todo)
              head == Head(work.todo)
  <1>1. Suffix(work.todo, order) /\ order \in Seq(Commands)
    BY OrderTypes DEF WorkInv
  <1>. HIDE DEF order
  <1>2. /\ k \in 1 .. Len(order) /\ head = order[Len(order) - k + 1]
        /\ k > 1 => Suffix(Tail(work.todo), order) /\ Len(Tail(work.todo)) = k - 1
    BY <1>1, SuffixStep
  <1>. HIDE DEF k, head
  <1>3. Len(order) \in Nat /\ \A i \in 1 .. Len(order) : order[i] \in VrfKinds
    <2>1. \A i \in 1 .. 5 : PartialOrder[i] \in VrfKinds
      BY DEF PartialOrder, VrfKinds, Keyed, Rules, Routes
    <2>2. \A i \in 1 .. 10 : VrfOrder[i] \in VrfKinds
      BY DEF VrfOrder, VrfKinds, Keyed, Rules, Routes, Marks
    <2>3. order = PartialOrder \/ order = VrfOrder
      BY DEF order
    <2>4. CASE order = PartialOrder
      BY <2>1, <2>4, OrderTypes
    <2>5. CASE order = VrfOrder
      BY <2>2, <2>5, OrderTypes
    <2>. QED  BY <2>3, <2>4, <2>5
  <1>4. head \in VrfKinds
    <2>1. Len(order) - k + 1 \in 1 .. Len(order)
      BY <1>2, <1>3
    <2>. QED  BY <1>2, <1>3, <2>1
  <1>. QED  BY <1>1, <1>2, <1>4 DEF order, k, head

\* A command of teardown_partial or of the end of teardown_site_vrf.
LEMMA RemoveCommandType ==
    ASSUME TypeInv, WorkInv, AllocType, remove_command
    PROVE  TypeInv' /\ WorkInv'
  <1>1. /\ pc \in {"partial", "vrf_down"} /\ UNCHANGED <<site, cache>> /\ cache[site] = NoSite
        /\ work.devices = {} /\ ~work.bypass /\ (pc = "vrf_down" => work.pending = {})
    BY DEF remove_command, WorkInv, Busy
  <1>2. /\ work \in WorkType /\ work.todo \in Seq(Commands)
    BY WorkFields DEF TypeInv
  <1>3. objects' \subseteq Object
    BY RemovedType, LoseType DEF remove_command, TypeInv
  <1>4. CASE Len(work.todo) > 1
    <2>1. work' = [work EXCEPT !.todo = Tail(@)] /\ UNCHANGED pc
      BY <1>4 DEF remove_command
    <2>2. /\ pc = "partial" => Suffix(Tail(work.todo), PartialOrder)
          /\ pc = "vrf_down" => Suffix(Tail(work.todo), VrfOrder)
      BY <1>1, <1>4, RemoveHead
    <2>3. Tail(work.todo) \in Seq(Commands)
      BY <1>2, <1>4, HeadTailProperties, EmptySeq
    <2>4. /\ work' \in WorkType /\ work'.devices = work.devices /\ work'.bypass = work.bypass
          /\ work'.todo = Tail(work.todo) /\ work'.pending = work.pending
      BY <1>2, <2>1, <2>3 DEF WorkType
    <2>5. TypeInv'
      BY <1>1, <1>3, <2>1, <2>4 DEF TypeInv
    <2>6. WorkInv'
      BY <1>1, <2>1, <2>2, <2>4 DEF WorkInv, BnatSetup
    <2>. QED  BY <2>5, <2>6
  <1>5. CASE ~(Len(work.todo) > 1)
    <2>1. pc' = "idle" /\ work' = NoWork
      BY <1>5 DEF remove_command
    <2>2. TypeInv'
      BY <1>1, <1>3, <2>1, NoWorkType DEF TypeInv, Steps
    <2>3. WorkInv'
      BY <2>1 DEF WorkInv, BnatSetup, Busy, Standing, NoWork
    <2>. QED  BY <2>2, <2>3
  <1>. QED  BY <1>4, <1>5

\* A crash, and the clean-up when ipsecnode starts again.
LEMMA RestartType ==
    ASSUME TypeInv, WorkInv, AllocType, Crash \/ init
    PROVE  TypeInv' /\ WorkInv'
  <1>1. CASE Crash
    <2>1. /\ pc' = "down" /\ work' = NoWork /\ cache' = [p \in Sites |-> NoSite]
          /\ UNCHANGED <<site, objects>> /\ "crash" \in happened'
      BY <1>1 DEF Crash, Fail
    <2>2. TypeInv'
      BY <2>1, NoWorkType DEF TypeInv, Steps
    <2>3. WorkInv'
      BY <2>1 DEF WorkInv, BnatSetup, Busy, Standing, NoWork
    <2>. QED  BY <2>2, <2>3
  <1>2. CASE init
    <2>1. /\ pc' = "idle" /\ UNCHANGED <<site, cache, work>> /\ work = NoWork
          /\ objects' = CleanedUp
      BY <1>2 DEF init, WorkInv
    <2>2. CleanedUp \subseteq Object
      <3>1. \A o \in Object : [o EXCEPT !.live = o.kind # "path"] \in Object
        BY DEF Object
      <3>. QED  BY <3>1 DEF CleanedUp, TypeInv
    <2>3. TypeInv'
      BY <2>1, <2>2 DEF TypeInv, Steps
    <2>4. WorkInv'
      BY <2>1 DEF WorkInv, BnatSetup, Busy, Standing, NoWork
    <2>. QED  BY <2>3, <2>4
  <1>. QED  BY <1>1, <1>2

\* Every step keeps the types and the stages.
LEMMA TypeStep ==
    ASSUME TypeInv, WorkInv, AllocType, BnatInv, [Next]_vars
    PROVE  TypeInv' /\ WorkInv'
  <1>1. CASE UNCHANGED vars
    BY <1>1 DEF vars, setupVars, bnatVars, TypeInv, WorkInv
  <1>2. ASSUME NEW p \in Sites, on_child_up(p) \/ on_child_down(p)
        PROVE  TypeInv' /\ WorkInv'
    BY <1>2, ChildUpType, ChildDownType
  <1>3. CASE setup_command
    BY <1>3, SetupCommandType
  <1>4. CASE device_command
    BY <1>4, DeviceCommandType
  <1>5. CASE lookup_route
    BY <1>5, LookupType
  <1>6. CASE setup_backend \/ teardown_backend
    BY <1>6, BackendType
  <1>7. CASE commit
    BY <1>7, CommitType
  <1>8. CASE device_down
    BY <1>8, DeviceDownType
  <1>9. CASE remove_command
    BY <1>9, RemoveCommandType
  <1>10. CASE Crash \/ init
    BY <1>10, RestartType
  <1>. QED  BY <1>1, <1>2, <1>3, <1>4, <1>5, <1>6, <1>7, <1>8, <1>9, <1>10 DEF Next

\* Every step keeps the table's invariant.
LEMMA BnatStep ==
    ASSUME TypeInv, WorkInv, AllocType, BnatInv, [Next]_vars
    PROVE  BnatInv' /\ happened \subseteq happened'
  <1>1. CASE UNCHANGED vars
    <2>1. \A p, kind : Known(p, kind)' = Known(p, kind)
      BY <1>1 DEF vars, bnatVars, Known
    <2>. QED  BY <1>1, <2>1 DEF vars, setupVars, bnatVars, BnatInv, BnatTypeOK, RuleInv, MapInv,
                               LearntInv, LearntBefore, SplitsFirst, Allowed
  <1>2. \A p \in Sites : pc \notin BnatSetup /\ bnat[p] # {} =>
            cache[p] # NoSite \/ (p = site /\ pc \in {"commit", "bnat_down"})
    BY DEF BnatInv, LearntInv
  <1>3. pc \in Busy => cache[site] = NoSite
    BY DEF WorkInv
  <1>4. ASSUME NEW p \in Sites, on_child_up(p)
        PROVE  BnatInv' /\ happened \subseteq happened'
    <2>1. /\ pc = "idle" /\ UNCHANGED <<cache, bnatVars>> /\ NoFail /\ pc' \in {"device", "setup"}
      BY <1>4 DEF on_child_up
    <2>. QED  BY <1>2, <2>1, BnatFrame DEF BnatSetup
  <1>5. ASSUME NEW p \in Sites, on_child_down(p)
        PROVE  BnatInv' /\ happened \subseteq happened'
    <2>1. /\ pc = "idle" /\ site' = p /\ pc' = "bnat_down" /\ UNCHANGED bnatVars /\ NoFail
          /\ cache' = [cache EXCEPT ![p] = NoSite]
      BY <1>5 DEF on_child_down
    <2>2. \A q \in Sites : q # p => cache'[q] = cache[q]
      BY <2>1 DEF TypeInv
    <2>. QED  BY <1>2, <2>1, <2>2, BnatFrame DEF BnatSetup
  <1>6. CASE setup_command
    <2>1. /\ pc = "setup" /\ UNCHANGED <<cache, bnatVars>> /\ (NoFail \/ Fail("setup"))
          /\ pc' \in {"setup", "device", "partial"}
      BY <1>6 DEF setup_command
    <2>. QED  BY <1>2, <2>1, BnatFrame DEF BnatSetup
  <1>7. CASE device_command
    <2>1. /\ pc = "device" /\ UNCHANGED <<site, cache, bnatVars>>
          /\ NoFail \/ (\E f : Fail(f)) \/ \E f, g : FailBoth(f, g)
          /\ pc' \in {"device", "create_map", "lookup"}
      BY <1>7 DEF device_command
    <2>2. bnat[site] = {}
      BY <1>2, <1>3, <2>1 DEF TypeInv, BnatSetup, Busy, Standing
    <2>. QED  BY <1>2, <2>1, <2>2, BnatFrame DEF BnatSetup
  <1>8. CASE lookup_route
    <2>1. /\ pc = "lookup" /\ UNCHANGED <<site, cache, bnatVars>> /\ (NoFail \/ Fail("device"))
          /\ pc' = "create_map"
      BY <1>8 DEF lookup_route
    <2>2. bnat[site] = {}
      BY <1>2, <1>3, <2>1 DEF TypeInv, BnatSetup, Busy, Standing
    <2>. QED  BY <1>2, <2>1, <2>2, BnatFrame DEF BnatSetup
  <1>9. CASE setup_backend \/ teardown_backend
    BY <1>9, SetupBnat, TeardownBnat DEF setup_backend, teardown_backend, setupVars, TypeInv
  <1>10. CASE commit
    <2>1. /\ pc = "commit" /\ pc' = "idle" /\ UNCHANGED <<site, bnatVars>> /\ NoFail
          /\ cache' = [cache EXCEPT ![site] =
                          [bypass |-> work.bypass, id |-> work.id, devices |-> work.devices]]
      BY <1>10 DEF commit
    <2>2. cache'[site] # NoSite /\ \A q \in Sites : q # site => cache'[q] = cache[q]
      BY <1>10, <2>1, CommitType DEF TypeInv
    <2>. QED  BY <1>2, <2>1, <2>2, BnatFrame DEF BnatSetup
  <1>11. CASE device_down
    <2>1. /\ pc = "devices_down" /\ UNCHANGED <<site, cache, bnatVars>>
          /\ (NoFail \/ Fail("teardown")) /\ pc' \in {"idle", "vrf_down", "devices_down"}
      BY <1>11 DEF device_down
    <2>. QED  BY <1>2, <2>1, BnatFrame DEF BnatSetup
  <1>12. CASE remove_command
    <2>1. /\ pc \in {"partial", "vrf_down"} /\ UNCHANGED <<site, cache, bnatVars>>
          /\ (NoFail \/ Fail("teardown")) /\ pc' \in {"idle", "vrf_down", "partial"}
      BY <1>12 DEF remove_command
    <2>. QED  BY <1>2, <2>1, BnatFrame DEF BnatSetup
  <1>13. CASE Crash
    BY <1>13, CrashBnat
  <1>14. CASE init
    BY <1>14, InitBnat
  <1>. QED  BY <1>1, <1>4, <1>5, <1>6, <1>7, <1>8, <1>9, <1>10, <1>11, <1>12, <1>13, <1>14 DEF Next

-----------------------------------------------------------------------------
\* The allocator

\* Sites with tables of their own: those that are up, and the one in hand until
\* its ids are given back.
Holding(p) ==
    \/ cache[p] # NoSite /\ ~cache[p].bypass
    \/ p = site /\ pc \in Busy \ {"partial"} /\ ~work.bypass
Holders == {p \in Sites : Holding(p)}

IdOf(p) == IF cache[p] # NoSite THEN cache[p].id ELSE work.id

\* An id that was handed out is held by one site or is free, once; the ids of a
\* failed setup are free while its partial teardown still uses them.
IdInv ==
    /\ \A p \in Holders : IdOf(p) \in 0 .. alloc.next - 1
    /\ \A p, q \in Holders : IdOf(p) = IdOf(q) => p = q
    /\ \A p \in Holders : \A i \in DOMAIN alloc.free : alloc.free[i] # IdOf(p)
    /\ \A i, j \in DOMAIN alloc.free : alloc.free[i] = alloc.free[j] => i = j
    /\ Len(alloc.free) + Cardinality(Holders) = alloc.next
    /\ pc = "partial" => \E i \in DOMAIN alloc.free : alloc.free[i] = work.id

\* The numbers of sites.
LEMMA HolderCount ==
    /\ IsFiniteSet(Sites) /\ Cardinality(Sites) \in Nat
    /\ \A S \in SUBSET Sites : /\ IsFiniteSet(S) /\ Cardinality(S) \in Nat
                               /\ Cardinality(S) <= Cardinality(Sites)
  BY SetupAssumption, FS_CardinalityType, FS_Subset

\* The parts of the allocator.
LEMMA AllocParts ==
    ASSUME AllocType
    PROVE  /\ alloc.next \in Ids /\ alloc.next \in Nat /\ alloc.free \in Seq(0 .. alloc.next - 1)
           /\ Len(alloc.free) \in Nat /\ DOMAIN alloc.free = 1 .. Len(alloc.free)
           /\ \A i \in 1 .. Len(alloc.free) : alloc.free[i] \in 0 .. alloc.next - 1
           /\ alloc = [next |-> alloc.next, free |-> alloc.free]
  <1>1. PICK next \in Ids : \E free \in Seq(0 .. next - 1) : alloc = [next |-> next, free |-> free]
    BY DEF AllocType
  <1>2. PICK free \in Seq(0 .. next - 1) : alloc = [next |-> next, free |-> free]
    BY <1>1
  <1>3. alloc.next = next /\ alloc.free = free
    BY <1>2
  <1>4. next \in Nat
    BY HolderCount DEF Ids
  <1>5. Len(free) \in Nat /\ DOMAIN free = 1 .. Len(free)
    BY LenProperties
  <1>6. \A i \in 1 .. Len(free) : free[i] \in 0 .. next - 1
    BY ElementOfSeq
  <1>. QED  BY <1>2, <1>3, <1>4, <1>5, <1>6

\* A step that neither takes nor gives back ids.
LEMMA IdFrame ==
    ASSUME AllocType, IdInv, UNCHANGED alloc,
           \A p \in Sites : Holding(p)' <=> Holding(p),
           \A p \in Sites : Holding(p) => IdOf(p)' = IdOf(p),
           pc' = "partial" => pc = "partial" /\ work'.id = work.id
    PROVE  AllocType' /\ IdInv'
  <1>1. Holders' = Holders
    BY DEF Holders
  <1>2. \A p \in Holders : IdOf(p)' = IdOf(p)
    BY DEF Holders
  <1>3. AllocType'
    BY DEF AllocType
  <1>4. IdInv'
    BY <1>1, <1>2 DEF IdInv
  <1>. QED  BY <1>3, <1>4

\* alloc: the new holder's id is nobody's.
LEMMA IdAlloc ==
    ASSUME AllocType, IdInv, NEW p \in Sites, ~Holding(p), alloc' = AfterAlloc,
           \A q \in Sites : Holding(q)' <=> Holding(q) \/ q = p,
           \A q \in Sites : Holding(q) => IdOf(q)' = IdOf(q),
           \A q \in Sites : q = p => IdOf(q)' = AllocId,
           pc' # "partial"
    PROVE  AllocType' /\ IdInv'
  <1>. DEFINE next == alloc.next
              free == alloc.free
              m == Len(free)
              n == Cardinality(Holders)
              N == Cardinality(Sites)
  <1>1. /\ next \in Ids /\ next \in Nat /\ free \in Seq(0 .. next - 1) /\ m \in Nat
        /\ DOMAIN free = 1 .. m /\ (\A i \in 1 .. m : free[i] \in 0 .. next - 1)
        /\ alloc = [next |-> next, free |-> free]
    BY AllocParts
  <1>2. /\ Holders' = Holders \cup {p} /\ p \notin Holders
        /\ \A q \in Holders : IdOf(q)' = IdOf(q)
    BY DEF Holders
  <1>3. n \in Nat /\ Cardinality(Holders)' = n + 1 /\ n + 1 <= N /\ N \in Nat
    <2>1. Holders \in SUBSET Sites /\ Holders \cup {p} \in SUBSET Sites
      BY DEF Holders
    <2>2. Cardinality(Holders \cup {p}) = Cardinality(Holders) + 1
      BY <1>2, <2>1, HolderCount, FS_AddElement
    <2>3. /\ Cardinality(Holders) \in Nat /\ Cardinality(Sites) \in Nat
          /\ Cardinality(Holders \cup {p}) <= Cardinality(Sites)
      BY <2>1, HolderCount
    <2>. QED  BY <1>2, <2>2, <2>3
  <1>4. /\ m + n = next
        /\ \A q \in Holders : IdOf(q) \in 0 .. next - 1 /\ \A i \in 1 .. m : free[i] # IdOf(q)
        /\ \A i, j \in 1 .. m : free[i] = free[j] => i = j
        /\ \A q, r \in Holders : IdOf(q) = IdOf(r) => q = r
    BY <1>1 DEF IdInv
  <1>5. IdOf(p)' = AllocId
    OBVIOUS
  <1>6. CASE free = <<>>
    <2>1. m = 0 /\ alloc' = [next |-> next + 1, free |-> <<>>] /\ AllocId = next
      BY <1>1, <1>6 DEF AfterAlloc, AllocId
    <2>2. alloc'.next = next + 1 /\ alloc'.free = <<>>
      BY <2>1
    <2>3. next = n /\ next + 1 \in Ids
      BY <1>3, <1>4, <2>1 DEF Ids
    <2>4. <<>> \in Seq(0 .. next + 1 - 1) /\ Len(<<>>) = 0 /\ DOMAIN <<>> = {}
      OBVIOUS
    <2>. HIDE DEF next, free, m, n, N
    <2>5. AllocType'
      <3>. DEFINE more == next + 1
      <3>1. more \in Ids /\ <<>> \in Seq(0 .. more - 1) /\ alloc' = [next |-> more, free |-> <<>>]
        BY <2>1, <2>3, <2>4
      <3>. HIDE DEF more
      <3>. QED  BY <3>1 DEF AllocType
    <2>6. \A q \in Holders : IdOf(q) \in 0 .. next + 1 - 1 /\ IdOf(q) # next
      BY <1>1, <1>4
    <2>7. IdInv'
      <3>1. \A q \in Holders' : IdOf(q)' \in 0 .. alloc'.next - 1
        BY <1>1, <1>2, <1>5, <2>1, <2>2, <2>6
      <3>2. \A q, r \in Holders' : IdOf(q)' = IdOf(r)' => q = r
        BY <1>2, <1>4, <1>5, <2>1, <2>6
      <3>3. Len(alloc'.free) + Cardinality(Holders') = alloc'.next
        BY <1>3, <2>2, <2>3, <2>4
      <3>. QED  BY <2>2, <2>4, <3>1, <3>2, <3>3 DEF IdInv
    <2>. QED  BY <2>5, <2>7
  <1>7. CASE free # <<>>
    <2>. DEFINE shorter == SubSeq(free, 1, m - 1)
                id == free[m]
    <2>1. m \in 1 .. m
      BY <1>1, <1>7, EmptySeq
    <2>2. /\ alloc' = [next |-> next, free |-> shorter] /\ AllocId = id
          /\ id \in 0 .. next - 1
      BY <1>1, <1>7, <2>1 DEF AfterAlloc, AllocId
    <2>3. /\ shorter \in Seq(0 .. next - 1) /\ Len(shorter) = m - 1
          /\ \A i \in 1 .. m - 1 : shorter[i] = free[i]
      <3>1. /\ shorter \in Seq(0 .. next - 1)
            /\ Len(shorter) = IF 1 <= m - 1 THEN m - 1 - 1 + 1 ELSE 0
            /\ \A i \in 1 .. m - 1 - 1 + 1 : shorter[i] = free[1 + i - 1]
        BY <1>1, <2>1, SubSeqProperties
      <3>. HIDE DEF shorter, m, next, free
      <3>. QED  BY <1>1, <2>1, <3>1
    <2>4. DOMAIN shorter = 1 .. m - 1
      BY <2>3, LenProperties
    <2>5. alloc'.next = next /\ alloc'.free = shorter
      BY <2>2
    <2>. HIDE DEF shorter, id, next, n, N
    <2>6. AllocType'
      BY <1>1, <2>2, <2>3 DEF AllocType
    <2>7. /\ \A q \in Holders : IdOf(q) # id
          /\ \A i \in 1 .. m - 1 : shorter[i] # id
          /\ \A i, j \in 1 .. m - 1 : shorter[i] = shorter[j] => i = j
          /\ \A i \in 1 .. m - 1 : \A q \in Holders : shorter[i] # IdOf(q)
      <3>1. \A q \in Holders : IdOf(q) # id
        BY <1>4, <2>1 DEF id
      <3>2. \A i \in 1 .. m - 1 : free[i] # id /\ i \in 1 .. m
        <4>1. \A i, j \in 1 .. m : free[i] = free[j] => i = j
          BY <1>4
        <4>2. m \in Nat /\ id = free[m]
          BY <1>1 DEF id
        <4>. HIDE DEF m, free
        <4>. QED  BY <2>1, <4>1, <4>2
      <3>. QED  BY <1>4, <2>3, <3>1, <3>2
    <2>8. IdInv'
      <3>1. \A q \in Holders' : IdOf(q)' \in 0 .. next - 1
        BY <1>2, <1>4, <1>5, <2>2
      <3>2. \A q, r \in Holders' : IdOf(q)' = IdOf(r)' => q = r
        BY <1>2, <1>4, <1>5, <2>2, <2>7
      <3>3. \A q \in Holders' : \A i \in 1 .. m - 1 : shorter[i] # IdOf(q)'
        BY <1>2, <1>5, <2>2, <2>7
      <3>4. Len(shorter) + Cardinality(Holders') = next
        BY <1>1, <1>3, <1>4, <2>3
      <3>. QED  BY <2>4, <2>5, <2>7, <3>1, <3>2, <3>3, <3>4 DEF IdInv
    <2>. QED  BY <2>6, <2>8
  <1>. QED  BY <1>6, <1>7

\* free: the holder's id becomes free.
LEMMA IdFree ==
    ASSUME AllocType, IdInv, NEW p \in Sites, Holding(p), alloc' = AfterFree(IdOf(p)),
           \A q \in Sites : Holding(q)' <=> Holding(q) /\ q # p,
           \A q \in Sites : Holding(q) => IdOf(q)' = IdOf(q) \/ q = p,
           pc' = "partial" => work'.id = IdOf(p)
    PROVE  AllocType' /\ IdInv'
  <1>. DEFINE next == alloc.next
              free == alloc.free
              m == Len(free)
              id == IdOf(p)
              longer == Append(free, id)
  <1>1. /\ next \in Ids /\ next \in Nat /\ free \in Seq(0 .. next - 1) /\ m \in Nat
        /\ DOMAIN free = 1 .. m /\ (\A i \in 1 .. m : free[i] \in 0 .. next - 1)
        /\ alloc = [next |-> next, free |-> free]
    BY AllocParts
  <1>2. /\ Holders' = Holders \ {p} /\ p \in Holders
        /\ \A q \in Holders' : IdOf(q)' = IdOf(q)
    BY DEF Holders
  <1>3. Cardinality(Holders) \in Nat /\ Cardinality(Holders') = Cardinality(Holders) - 1
    <2>1. Holders \in SUBSET Sites
      BY DEF Holders
    <2>. QED  BY <1>2, <2>1, HolderCount, FS_RemoveElement
  <1>4. /\ m + Cardinality(Holders) = next
        /\ \A q \in Holders : IdOf(q) \in 0 .. next - 1 /\ \A i \in 1 .. m : free[i] # IdOf(q)
        /\ \A i, j \in 1 .. m : free[i] = free[j] => i = j
        /\ \A q, r \in Holders : IdOf(q) = IdOf(r) => q = r
    BY <1>1 DEF IdInv
  <1>5. id \in 0 .. next - 1
    BY <1>2, <1>4
  <1>6. /\ longer \in Seq(0 .. next - 1) /\ Len(longer) = m + 1 /\ longer[m + 1] = id
        /\ \A i \in 1 .. m : longer[i] = free[i]
    <2>. HIDE DEF id, next, free
    <2>. QED  BY <1>1, <1>5, AppendProperties
  <1>7. DOMAIN longer = 1 .. m + 1
    BY <1>6, LenProperties
  <1>8. alloc' = [next |-> next, free |-> longer] /\ alloc'.next = next /\ alloc'.free = longer
    BY <1>1 DEF AfterFree
  <1>9. pc' = "partial" => work'.id = id
    OBVIOUS
  <1>10. \A q \in Holders' : q \in Holders /\ IdOf(q)' = IdOf(q) /\ IdOf(q) # id
    BY <1>2, <1>4
  <1>. HIDE DEF id, longer, next
  <1>11. AllocType'
    BY <1>1, <1>6, <1>8 DEF AllocType
  <1>12. \A i \in 1 .. m + 1 : i \in 1 .. m \/ (i = m + 1 /\ longer[i] = id)
    BY <1>1, <1>6
  <1>. HIDE DEF m
  <1>13. \A i \in 1 .. m : free[i] # id
    BY <1>2, <1>4 DEF id
  <1>14. \A i, j \in 1 .. m + 1 : longer[i] = longer[j] => i = j
    BY <1>4, <1>6, <1>12, <1>13
  <1>15. \A q \in Holders' : \A i \in 1 .. m + 1 : longer[i] # IdOf(q)'
    BY <1>4, <1>6, <1>10, <1>12
  <1>16. /\ \A q \in Holders' : IdOf(q)' \in 0 .. next - 1
         /\ \A q, r \in Holders' : IdOf(q)' = IdOf(r)' => q = r
    BY <1>4, <1>10
  <1>17. Len(longer) + Cardinality(Holders') = next
    BY <1>1, <1>3, <1>4, <1>6
  <1>18. pc' = "partial" => \E i \in 1 .. m + 1 : longer[i] = work'.id
    BY <1>1, <1>6, <1>9
  <1>19. IdInv'
    BY <1>7, <1>8, <1>14, <1>15, <1>16, <1>17, <1>18 DEF IdInv
  <1>. QED  BY <1>11, <1>19

\* A new process has handed out nothing.
LEMMA IdFresh ==
    ASSUME alloc' = Fresh, \A p \in Sites : ~Holding(p)', pc' # "partial"
    PROVE  AllocType' /\ IdInv'
  <1>1. /\ <<>> \in Seq(0 .. 0 - 1) /\ Len(<<>>) = 0 /\ DOMAIN <<>> = {}
        /\ alloc' = [next |-> 0, free |-> <<>>] /\ alloc'.next = 0 /\ alloc'.free = <<>>
    BY DEF Fresh
  <1>2. 0 \in Ids
    BY HolderCount DEF Ids
  <1>3. Holders' = {} /\ Cardinality(Holders') = 0
    BY FS_EmptySet DEF Holders
  <1>4. AllocType'
    BY <1>1, <1>2 DEF AllocType
  <1>5. IdInv'
    BY <1>1, <1>3 DEF IdInv
  <1>. QED  BY <1>4, <1>5

\* Every step keeps the allocator's invariant.
LEMMA IdStep ==
    ASSUME TypeInv, WorkInv, AllocType, IdInv, BnatInv, [Next]_vars
    PROVE  AllocType' /\ IdInv'
  <1>. USE DEF Holding, IdOf
  <1>0. /\ pc \in Busy => cache[site] = NoSite
        /\ site \in Sites /\ pc \in Steps /\ work \in WorkType
    BY DEF WorkInv, TypeInv
  <1>1. CASE UNCHANGED vars
    BY <1>1, IdFrame DEF vars, setupVars, bnatVars
  <1>2. ASSUME UNCHANGED <<site, cache, alloc>>, work'.id = work.id, work'.bypass = work.bypass,
               pc \in Busy \ {"partial"}, pc' \in Busy \ {"partial"}
        PROVE  AllocType' /\ IdInv'
    BY <1>2, IdFrame
  <1>3. ASSUME NEW p \in Sites, on_child_up(p)
        PROVE  AllocType' /\ IdInv'
    <2>1. PICK mode \in ModesOf[p] :
              /\ work'.bypass = (mode = "customer")
              /\ work'.id = (IF mode = "customer" THEN 0 ELSE AllocId)
              /\ alloc' = IF mode = "customer" THEN alloc ELSE AfterAlloc
              /\ pc' = IF mode = "customer" THEN "device" ELSE "setup"
      BY <1>3 DEF on_child_up
    <2>2. /\ pc = "idle" /\ cache[p] = NoSite /\ site' = p /\ UNCHANGED cache
          /\ pc \notin Busy /\ pc' \in Busy \ {"partial"}
      BY <1>3, <2>1 DEF on_child_up, Busy, Standing, BnatSetup
    <2>3. CASE mode = "customer"
      BY <2>1, <2>2, <2>3, IdFrame DEF Busy
    <2>4. CASE mode # "customer"
      <3>1. /\ ~Holding(p)
            /\ \A q \in Sites : Holding(q)' <=> Holding(q) \/ q = p
            /\ \A q \in Sites : Holding(q) => IdOf(q)' = IdOf(q)
            /\ \A q \in Sites : q = p => IdOf(q)' = AllocId
        BY <2>1, <2>2, <2>4
      <3>. QED  BY <2>1, <2>2, <2>4, <3>1, IdAlloc DEF Busy
    <2>. QED  BY <2>3, <2>4
  <1>4. ASSUME NEW p \in Sites, on_child_down(p)
        PROVE  AllocType' /\ IdInv'
    <2>1. /\ pc = "idle" /\ cache[p] # NoSite /\ site' = p /\ pc' = "bnat_down" /\ UNCHANGED alloc
          /\ cache' = [cache EXCEPT ![p] = NoSite]
          /\ work'.bypass = cache[p].bypass /\ work'.id = cache[p].id
      BY <1>4 DEF on_child_down
    <2>2. pc \notin Busy /\ pc' \in Busy \ {"partial"}
      BY <2>1 DEF Busy, Standing, BnatSetup
    <2>3. \A q \in Sites : cache'[q] = IF q = p THEN NoSite ELSE cache[q]
      BY <2>1 DEF TypeInv
    <2>. QED  BY <2>1, <2>2, <2>3, IdFrame
  <1>5. CASE setup_command
    <2>1. /\ pc = "setup" /\ UNCHANGED <<site, cache>> /\ ~work.bypass /\ pc \in Busy \ {"partial"}
          /\ cache[site] = NoSite
      BY <1>0, <1>5 DEF setup_command, WorkInv, Busy
    <2>2. CASE UNCHANGED alloc /\ work' = [work EXCEPT !.todo = Tail(@)] /\ pc' \in {"setup", "device"}
      <3>1. work'.id = work.id /\ work'.bypass = work.bypass /\ pc' \in Busy \ {"partial"}
        BY <1>0, <2>2 DEF WorkType, Busy, Standing
      <3>. QED  BY <1>2, <2>1, <2>2, <3>1
    <2>3. CASE alloc' = AfterFree(work.id) /\ work' = [work EXCEPT !.todo = PartialOrder] /\ pc' = "partial"
      <3>1. work'.id = work.id /\ work'.bypass = work.bypass
        BY <1>0, <2>3 DEF WorkType
      <3>2. Holding(site) /\ IdOf(site) = work.id
        BY <2>1
      <3>3. \A q \in Sites : Holding(q)' <=> Holding(q) /\ q # site
        BY <2>1, <2>3
      <3>4. \A q \in Sites : Holding(q) => IdOf(q)' = IdOf(q) \/ q = site
        BY <2>1, <3>1
      <3>. HIDE DEF Holding, IdOf
      <3>. QED  BY <1>0, <2>3, <3>1, <3>2, <3>3, <3>4, IdFree
    <2>. QED  BY <1>5, <2>1, <2>2, <2>3 DEF setup_command
  <1>6. CASE device_command
    <2>1. /\ pc = "device" /\ pc' \in {"device", "create_map", "lookup"}
          /\ UNCHANGED <<site, cache, alloc>>
          /\ \/ UNCHANGED work
             \/ \E d : \/ work' = [work EXCEPT !.pending = @ \ {d}, !.devices = @ \cup {d}]
                       \/ work' = [work EXCEPT !.pending = @ \ {d}]
      BY <1>6 DEF device_command
    <2>2. work'.id = work.id /\ work'.bypass = work.bypass
      BY <1>0, <2>1 DEF WorkType
    <2>. QED  BY <1>2, <2>1, <2>2 DEF Busy, Standing, BnatSetup
  <1>7. CASE lookup_route
    BY <1>2, <1>7 DEF lookup_route, Busy, Standing, BnatSetup
  <1>8. CASE setup_backend \/ teardown_backend
    <2>1. /\ UNCHANGED <<site, cache, alloc, work>>
          /\ pc \in Busy \ {"partial"} /\ pc' \in Busy \ {"partial"}
      BY <1>0, <1>8, SetupBnat, TeardownBnat
         DEF setup_backend, teardown_backend, setupVars, Busy, Standing, BnatSetup
    <2>. QED  BY <1>2, <2>1
  <1>9. CASE commit
    <2>1. /\ pc = "commit" /\ pc' = "idle" /\ UNCHANGED <<site, alloc>> /\ cache[site] = NoSite
          /\ cache' = [cache EXCEPT ![site] =
                          [bypass |-> work.bypass, id |-> work.id, devices |-> work.devices]]
      BY <1>0, <1>9 DEF commit, Busy, Standing
    <2>2. /\ cache'[site] # NoSite /\ cache'[site].bypass = work.bypass /\ cache'[site].id = work.id
          /\ \A q \in Sites : q # site => cache'[q] = cache[q]
      BY <1>9, <2>1, CommitType DEF TypeInv
    <2>3. pc \in Busy \ {"partial"} /\ pc' \notin Busy
      BY <2>1 DEF Busy, Standing, BnatSetup
    <2>. QED  BY <2>1, <2>2, <2>3, IdFrame
  <1>10. CASE device_down
    <2>1. /\ pc = "devices_down" /\ UNCHANGED <<site, cache, alloc>>
          /\ \/ pc' = "idle" /\ work.bypass
             \/ pc' = "vrf_down" /\ UNCHANGED work
             \/ pc' = pc /\ \E d : work' = [work EXCEPT !.pending = @ \ {d}]
      BY <1>10 DEF device_down
    <2>2. CASE pc' = "idle" /\ work.bypass
      BY <2>1, <2>2, IdFrame DEF Busy, Standing, BnatSetup
    <2>3. CASE pc' \in Busy \ {"partial"}
      <3>1. work'.id = work.id /\ work'.bypass = work.bypass
        BY <1>0, <2>1, <2>3 DEF WorkType, Busy, Standing, BnatSetup
      <3>. QED  BY <1>2, <2>1, <2>3, <3>1 DEF Busy
    <2>. QED  BY <2>1, <2>2, <2>3 DEF Busy
  <1>11. CASE remove_command
    <2>1. /\ pc \in {"partial", "vrf_down"} /\ UNCHANGED <<site, cache>> /\ ~work.bypass
          /\ cache[site] = NoSite
          /\ \/ /\ pc' = pc /\ UNCHANGED alloc /\ work' = [work EXCEPT !.todo = Tail(@)]
             \/ /\ pc' = "idle"
                /\ alloc' = IF pc = "vrf_down" THEN AfterFree(work.id) ELSE alloc
      BY <1>0, <1>11 DEF remove_command, WorkInv, Busy
    <2>2. CASE pc' = pc /\ UNCHANGED alloc /\ work' = [work EXCEPT !.todo = Tail(@)]
      <3>1. work'.id = work.id /\ work'.bypass = work.bypass
        BY <1>0, <2>2 DEF WorkType
      <3>. QED  BY <2>1, <2>2, <3>1, IdFrame
    <2>3. CASE pc' = "idle" /\ pc = "partial" /\ UNCHANGED alloc
      BY <2>1, <2>3, IdFrame DEF Busy, Standing, BnatSetup
    <2>4. CASE pc' = "idle" /\ pc = "vrf_down" /\ alloc' = AfterFree(work.id)
      <3>1. Holding(site) /\ IdOf(site) = work.id
        BY <2>1, <2>4 DEF Busy
      <3>2. \A q \in Sites : Holding(q)' <=> Holding(q) /\ q # site
        BY <2>1, <2>4 DEF Busy, Standing, BnatSetup
      <3>3. \A q \in Sites : Holding(q) => IdOf(q)' = IdOf(q) \/ q = site
        BY <2>1
      <3>. HIDE DEF Holding, IdOf
      <3>. QED  BY <1>0, <2>4, <3>1, <3>2, <3>3, IdFree
    <2>. QED  BY <2>1, <2>2, <2>3, <2>4
  <1>12. CASE Crash
    <2>1. alloc' = Fresh /\ pc' = "down" /\ \A p \in Sites : cache'[p] = NoSite
      BY <1>12 DEF Crash
    <2>. QED  BY <2>1, IdFresh DEF Busy, Standing, BnatSetup
  <1>13. CASE init
    <2>1. /\ pc = "down" /\ pc' = "idle" /\ UNCHANGED <<site, cache, alloc, work>>
      BY <1>13 DEF init
    <2>. QED  BY <2>1, IdFrame DEF Busy, Standing, BnatSetup
  <1>. QED  BY <1>1, <1>3, <1>4, <1>5, <1>6, <1>7, <1>8, <1>9, <1>10, <1>11, <1>12, <1>13 DEF Next

-----------------------------------------------------------------------------
\* What is there, and why

\* An object of p in S may remain, or is what p has of a planned kind, or is the
\* NAT of one of the devices.
Tidy(S, may, p, kinds, id, bypass, devices) ==
    \A o \in S : o.site = p =>
        \/ o.kind \in may
        \/ o.kind \in kinds /\ o = Thing(o.kind, p, id)
        \/ o.kind \in NatKinds(bypass) /\ o.key \in devices

UpKinds(bypass) == IF bypass THEN {} ELSE VrfKinds

\* What is set up or not yet removed at the stages of a handler.
StageKinds ==
    IF work.bypass THEN {}
    ELSE CASE pc = "setup"    -> Done(Len(work.todo))
           [] pc = "partial"  -> Last(PartialOrder, Len(work.todo))
           [] pc = "vrf_down" -> Last(VrfOrder, Len(work.todo))
           [] OTHER           -> VrfKinds

StageDevices ==
    CASE pc \in {"bnat_down", "devices_down"}    -> work.pending
      [] pc \in {"setup", "partial", "vrf_down"} -> {}
      [] OTHER                                   -> work.devices

\* Nothing is there without a reason: the state of a site that is up, the stage of
\* the one in hand, a fault.
TidyInv ==
    /\ \A p \in Sites : cache[p] # NoSite =>
          Tidy(objects, Allowed, p, UpKinds(cache[p].bypass),
               cache[p].id, cache[p].bypass, cache[p].devices)
    /\ pc # "down" => \A p \in Sites : cache[p] = NoSite /\ ~(p = site /\ pc \in Busy) =>
          \A o \in objects : o.site = p => o.kind \in Allowed
    /\ pc \in Busy =>
          Tidy(objects, Allowed, site, StageKinds, work.id, work.bypass, StageDevices)

\* A step of site' that brings other sites nothing new need only keep its own site
\* tidy.
LEMMA TidyFrame ==
    ASSUME TidyInv, pc # "down", Allowed \subseteq Allowed',
           \A o \in objects' : o \in objects \/ o.site = site',
           site' \in Sites, site' # site => pc \notin Busy,
           \A q \in Sites : q # site' => cache'[q] = cache[q],
           cache'[site'] # NoSite =>
               Tidy(objects', Allowed', site', UpKinds(cache'[site'].bypass),
                    cache'[site'].id, cache'[site'].bypass, cache'[site'].devices),
           cache'[site'] = NoSite /\ pc' \notin Busy =>
               \A o \in objects' : o.site = site' => o.kind \in Allowed',
           pc' \in Busy =>
               Tidy(objects', Allowed', site', StageKinds', work'.id, work'.bypass, StageDevices')
    PROVE  TidyInv'
  <1>1. ASSUME NEW p \in Sites, cache'[p] # NoSite
        PROVE  Tidy(objects', Allowed', p, UpKinds(cache'[p].bypass),
                    cache'[p].id, cache'[p].bypass, cache'[p].devices)
    <2>1. CASE p = site'
      BY <1>1, <2>1
    <2>2. CASE p # site'
      <3>1. Tidy(objects, Allowed, p, UpKinds(cache[p].bypass),
                 cache[p].id, cache[p].bypass, cache[p].devices)
        BY <1>1, <2>2 DEF TidyInv
      <3>2. cache'[p] = cache[p]
        BY <2>2
      <3>. QED  BY <2>2, <3>1, <3>2 DEF Tidy
    <2>. QED  BY <2>1, <2>2
  <1>2. ASSUME NEW p \in Sites, cache'[p] = NoSite, ~(p = site' /\ pc' \in Busy),
               NEW o \in objects', o.site = p
        PROVE  o.kind \in Allowed'
    <2>1. CASE p = site'
      BY <1>2, <2>1
    <2>2. CASE p # site'
      BY <1>2, <2>2 DEF TidyInv
    <2>. QED  BY <2>1, <2>2
  <1>. HIDE DEF Tidy
  <1>. QED  BY <1>1, <1>2 DEF TidyInv

\* After a failed teardown anything may be there.
LEMMA AnyRemains ==
    ASSUME NEW S, S \subseteq Object, NEW faults, "teardown" \in faults
    PROVE  \A o \in S : o.kind \in RemainOf(faults)
  BY RemainByFault DEF Object

\* What cannot be removed keeps the table it is in.
LEMMA TableRemains ==
    ASSUME {"tap", "lookup", "path"} \cap Allowed # {}
    PROVE  "fib" \in Allowed
  <1>1. ASSUME NEW f \in happened, MayRemain(f) \cap {"tap", "lookup", "path"} # {}
        PROVE  "fib" \in MayRemain(f)
    <2>1. \A item \in {"tap", "lookup", "path", "fib"} : item \notin Items
      BY ItemsAre
    <2>. QED  BY <1>1, <2>1 DEF MayRemain, Kinds
  <1>. QED  BY <1>1 DEF Allowed, RemainOf

\* What VPP and the kernel drop with a link and with a tap.
LEMMA WithoutLinkIs ==
    ASSUME NEW S, S \subseteq Object, NEW p, NEW o \in WithoutLink(S, p)
    PROVE  /\ o \in S \/ (o.site = p /\ o.kind \in Marks /\ \E m \in S : m.kind = o.kind /\ m.site = p)
           /\ ~(o.kind \in {"link", "fwd_route"} /\ o.site = p)
  <1>. DEFINE T == {x \in S : ~(x.kind \in {"link", "fwd_route"} /\ x.site = p)}
              lost == {x \in T : x.kind \in Marks /\ x.site = p}
  <1>1. o \in T \/ \E m \in lost : o = [m EXCEPT !.live = FALSE]
    BY DEF WithoutLink, Lose
  <1>2. CASE o \in T
    BY <1>2
  <1>3. CASE \E m \in lost : o = [m EXCEPT !.live = FALSE]
    <2>1. PICK m \in lost : o = [m EXCEPT !.live = FALSE]
      BY <1>3
    <2>2. m \in S /\ m \in Object /\ m.kind \in Marks /\ m.site = p
      OBVIOUS
    <2>3. o.kind = m.kind /\ o.site = p
      BY <2>1, <2>2 DEF Object
    <2>4. o.kind \notin {"link", "fwd_route"}
      BY <2>2, <2>3 DEF Marks
    <2>. QED  BY <2>2, <2>3, <2>4
  <1>. QED  BY <1>1, <1>2, <1>3

\* What is left without a tap: neither the tap, nor the link and its route, and the paths
\* over it no longer resolve.
LEMMA WithoutTapIs ==
    ASSUME NEW S, S \subseteq Object, NEW p, NEW o \in WithoutTap(S, p)
    PROVE  /\ \/ o \in S
              \/ /\ o.site = p /\ o.kind \in Marks \cup {"path"}
                 /\ \E m \in S : m.kind = o.kind /\ m.site = p
           /\ ~(o.kind \in {"link", "fwd_route"} /\ o.site = p)
           /\ o # Obj("tap", p, 0)
  <1>. DEFINE T == S \ {Obj("tap", p, 0)}
              U == WithoutLink(T, p)
              lost == {x \in U : x.kind \in {"path"} /\ x.site = p}
  <1>1. T \subseteq Object /\ U \subseteq Object
    BY LoseType DEF WithoutLink
  <1>2. \A u \in U : /\ u \in T \/ (u.site = p /\ u.kind \in Marks
                                    /\ \E m \in T : m.kind = u.kind /\ m.site = p)
                     /\ ~(u.kind \in {"link", "fwd_route"} /\ u.site = p)
    BY <1>1, WithoutLinkIs
  <1>3. o \in U \/ \E m \in lost : o = [m EXCEPT !.live = FALSE]
    BY DEF WithoutTap, Lose
  <1>. HIDE DEF U
  <1>4. CASE o \in U
    BY <1>2, <1>4 DEF Marks, Obj
  <1>5. CASE \E m \in lost : o = [m EXCEPT !.live = FALSE]
    <2>1. PICK m \in lost : o = [m EXCEPT !.live = FALSE]
      BY <1>5
    <2>2. m \in U /\ m \in Object /\ m.kind = "path" /\ m.site = p
      BY <1>1
    <2>3. o.kind = "path" /\ o.site = p
      BY <2>1, <2>2 DEF Object
    <2>4. m \in S
      BY <1>2, <2>2 DEF Marks
    <2>. QED  BY <2>2, <2>3, <2>4 DEF Obj
  <1>. QED  BY <1>3, <1>4, <1>5

\* What there is of a kind, and its fields.
LEMMA ThingFields ==
    ASSUME NEW kind, NEW p, NEW id
    PROVE  /\ Thing(kind, p, id).kind = kind /\ Thing(kind, p, id).site = p
           /\ kind \in Keyed => Thing(kind, p, id).key = id
           /\ kind \notin Keyed => Thing(kind, p, id) = Obj(kind, p, 0)
  BY DEF Thing, Obj

\* What a handler names is what its site has of the kind.
LEMMA OwnThing ==
    ASSUME NEW kind
    PROVE  Own(kind) = Thing(kind, site, work.id)
  BY DEF Own, Thing, Keyed

\* The command that removes an object of a site removes what the site has of it;
\* the link takes the marks' ifindex along, and the tap the link.
LEMMA RemovedTidy ==
    ASSUME TypeInv, NEW may, {"tap", "lookup", "path"} \cap may # {} => "fib" \in may,
           NEW item \in VrfKinds, NEW rest \in SUBSET VrfKinds,
           item \in {"link", "tap"} => rest \cap Marks = {},
           item = "fib" => rest = {},
           Tidy(objects, may, site, {item} \cup rest, work.id, FALSE, {})
    PROVE  /\ Tidy(Removed(item), may, site, rest, work.id, FALSE, {})
           /\ \A o \in Removed(item) : o \in objects \/ o.site = site
  <1>. DEFINE id == work.id
  <1>0. objects \subseteq Object
    BY DEF TypeInv
  <1>1. \A o \in objects : o.site = site =>
            o.kind \in may \/ (o.kind \in {item} \cup rest /\ o = Thing(o.kind, site, id))
    BY DEF Tidy
  <1>2. ASSUME NEW o \in Removed(item), o \notin objects
        PROVE  o.site = site /\ o.kind \in may
    <2>1. \/ item = "link" /\ o \in WithoutLink(objects, site)
          \/ item = "tap" /\ o \in WithoutTap(objects, site)
      BY <1>2 DEF Removed, Routes
    <2>2. o.site = site /\ o.kind \in Marks \cup {"path"}
          /\ \E m \in objects : m.kind = o.kind /\ m.site = site
      BY <1>0, <1>2, <2>1, WithoutLinkIs, WithoutTapIs
    <2>3. "path" \notin VrfKinds
      BY DEF VrfKinds, Marks, Keyed, Rules, Routes
    <2>4. ({item} \cup rest) \cap (Marks \cup {"path"}) = {}
      BY <2>1, <2>3 DEF Marks
    <2>. QED  BY <1>1, <2>2, <2>4
  <1>3. ASSUME NEW o \in Removed(item), o \in objects, o.site = site
        PROVE  o.kind \in may \/ (o.kind \in rest /\ o = Thing(o.kind, site, id))
    <2>1. CASE item \in Routes
      <3>1. ~(o.kind = item /\ o.key = id)
        BY <1>3, <2>1 DEF Removed, Routes
      <3>2. Thing(item, site, id).key = id
        BY <2>1, ThingFields DEF Keyed
      <3>. QED  BY <1>1, <1>3, <3>1, <3>2
    <2>2. CASE item = "link"
      <3>1. o.kind # "link"
        BY <1>0, <1>3, <2>2, WithoutLinkIs DEF Removed, Routes
      <3>. QED  BY <1>1, <1>3, <2>2, <3>1
    <2>3. CASE item = "tap"
      <3>1. o # Obj("tap", site, 0)
        BY <1>0, <1>3, <2>3, WithoutTapIs DEF Removed, Routes
      <3>2. Thing("tap", site, id) = Obj("tap", site, 0)
        BY ThingFields DEF Keyed, Rules, Routes
      <3>. QED  BY <1>1, <1>3, <2>3, <3>1, <3>2
    <2>4. CASE item = "fib"
      <3>1. CASE \E m \in objects : m.site = site /\ m.kind \in {"tap", "lookup", "path"}
        <4>1. PICK m \in objects : m.site = site /\ m.kind \in {"tap", "lookup", "path"}
          BY <3>1
        <4>2. m.kind \in may
          BY <1>1, <2>4, <4>1
        <4>3. "fib" \in may
          BY <4>1, <4>2
        <4>. QED  BY <1>1, <1>3, <2>4, <4>3
      <3>2. CASE ~ \E m \in objects : m.site = site /\ m.kind \in {"tap", "lookup", "path"}
        <4>1. Removed(item) = objects \ {Own("fib")}
          BY <2>4, <3>2 DEF Removed, Routes
        <4>2. o # Thing("fib", site, id)
          BY <1>3, <4>1, OwnThing
        <4>. QED  BY <1>1, <1>3, <2>4, <4>2
      <3>. QED  BY <3>1, <3>2
    <2>5. CASE item \notin Routes \cup {"link", "tap", "fib"}
      <3>1. Removed(item) = objects \ {Own(item)}
        BY <2>5 DEF Removed
      <3>2. o # Thing(item, site, id)
        BY <1>3, <3>1, OwnThing
      <3>. QED  BY <1>1, <1>3, <3>2
    <2>. QED  BY <2>1, <2>2, <2>3, <2>4, <2>5
  <1>. QED  BY <1>2, <1>3 DEF Tidy

\* A site in hand has its stage in hand, one that is not may have left what remains.
LEMMA TidyHere ==
    ASSUME TypeInv, WorkInv, TidyInv
    PROVE  /\ pc \in Busy =>
                 Tidy(objects, Allowed, site, StageKinds, work.id, work.bypass, StageDevices)
           /\ \A p \in Sites : pc \in {"idle"} /\ cache[p] = NoSite =>
                 \A o \in objects : o.site = p => o.kind \in Allowed
           /\ \A p \in Sites : cache[p] # NoSite =>
                 Tidy(objects, Allowed, p, UpKinds(cache[p].bypass), cache[p].id,
                      cache[p].bypass, cache[p].devices)
  BY DEF TidyInv, Busy, Standing, BnatSetup

\* The kinds that setup_site_vrf sets up, command by command.
LEMMA DoneKinds ==
    /\ Done(8) = {} /\ Done(0) \subseteq VrfKinds
    /\ \A k \in 0 .. 8 : /\ Done(k) \subseteq VrfKinds
                         /\ Done(k) \subseteq Done(0)
  BY DEF Done, VrfKinds, Marks, Keyed, Rules, Routes

\* A command of setup_site_vrf sets up the next kind.
LEMMA DoneStep ==
    ASSUME NEW todo, Suffix(todo, SetupOrder)
    PROVE  LET k == Len(todo)
               item == Head(todo)
           IN  /\ k \in 1 .. 8 /\ Done(k) \subseteq Done(k - 1)
               /\ item = "tap" => Done(k - 1) = Done(k) \cup {"fib", "tap", "link"}
               /\ item = "plumb" => Done(k - 1) = Done(k)
               /\ item \notin {"tap", "plumb"} => Done(k - 1) = Done(k) \cup {item}
               /\ item # "plumb" => item \notin Done(k)
               /\ item = "tap" => "link" \notin Done(k)
               /\ item \in Kinds \cup {"plumb"}
  <1>. DEFINE k == Len(todo)
              item == Head(todo)
  <1>1. /\ k \in 1 .. 8
        /\ k = 8 <=> item = "tap"
        /\ k = 7 <=> item = "plumb"
        /\ k = 6 <=> item = "mark_set"
        /\ k = 5 <=> item = "mark_map"
        /\ k = 4 <=> item = "fwd_rule"
        /\ k = 3 <=> item = "fwd_route"
        /\ k = 2 <=> item = "ret_rule"
        /\ k = 1 <=> item = "ret_route"
    BY SetupHead
  <1>. HIDE DEF k, item
  <1>2. k \in {1, 2, 3, 4, 5, 6, 7, 8}
    BY <1>1
  <1>3. CASE k = 8
    BY <1>1, <1>3 DEF Done, Kinds, k, item
  <1>4. CASE k = 7
    BY <1>1, <1>4 DEF Done, Kinds, k, item
  <1>5. CASE k = 6
    BY <1>1, <1>5 DEF Done, Kinds, k, item
  <1>6. CASE k = 5
    BY <1>1, <1>6 DEF Done, Kinds, k, item
  <1>7. CASE k = 4
    BY <1>1, <1>7 DEF Done, Kinds, k, item
  <1>8. CASE k = 3
    BY <1>1, <1>8 DEF Done, Kinds, k, item
  <1>9. CASE k = 2
    BY <1>1, <1>9 DEF Done, Kinds, k, item
  <1>10. CASE k = 1
    BY <1>1, <1>10 DEF Done, Kinds, k, item
  <1>. QED  BY <1>2, <1>3, <1>4, <1>5, <1>6, <1>7, <1>8, <1>9, <1>10

\* on_child_up starts from what remains.
LEMMA ChildUpTidy ==
    ASSUME TypeInv, WorkInv, TidyInv, Allowed \subseteq Allowed', NEW p \in Sites, on_child_up(p)
    PROVE  TidyInv'
  <1>1. PICK mode \in ModesOf[p] :
            /\ work'.bypass = (mode = "customer") /\ work'.devices = {}
            /\ work'.todo = (IF mode = "customer" THEN <<>> ELSE SetupOrder)
            /\ pc' = IF mode = "customer" THEN "device" ELSE "setup"
    BY DEF on_child_up
  <1>2. /\ pc = "idle" /\ cache[p] = NoSite /\ site' = p /\ UNCHANGED <<cache, objects>>
        /\ pc \notin Busy /\ pc' \in Busy
    BY <1>1 DEF on_child_up, Busy, Standing, BnatSetup
  <1>3. \A o \in objects : o.site = p => o.kind \in Allowed
    BY <1>2, TidyHere
  <1>4. Tidy(objects', Allowed', site', StageKinds', work'.id, work'.bypass, StageDevices')
    BY <1>2, <1>3 DEF Tidy
  <1>. QED  BY <1>2, <1>4, TidyFrame

\* on_child_down finds what belongs to the site that was up.
LEMMA ChildDownTidy ==
    ASSUME TypeInv, WorkInv, TidyInv, Allowed \subseteq Allowed', NEW p \in Sites, on_child_down(p)
    PROVE  TidyInv'
  <1>1. /\ pc = "idle" /\ cache[p] # NoSite /\ site' = p /\ pc' = "bnat_down" /\ UNCHANGED objects
        /\ cache' = [cache EXCEPT ![p] = NoSite]
        /\ work'.bypass = cache[p].bypass /\ work'.id = cache[p].id
        /\ work'.pending = cache[p].devices
    BY DEF on_child_down
  <1>2. /\ pc \notin Busy /\ pc' \in Busy
        /\ \A q \in Sites : cache'[q] = IF q = p THEN NoSite ELSE cache[q]
    BY <1>1 DEF Busy, Standing, BnatSetup, TypeInv
  <1>3. StageKinds' = UpKinds(cache[p].bypass) /\ StageDevices' = cache[p].devices
    BY <1>1 DEF StageKinds, StageDevices, UpKinds
  <1>4. Tidy(objects, Allowed, p, UpKinds(cache[p].bypass), cache[p].id,
             cache[p].bypass, cache[p].devices)
    BY <1>1, TidyHere
  <1>5. Tidy(objects', Allowed', site', StageKinds', work'.id, work'.bypass, StageDevices')
    BY <1>1, <1>3, <1>4 DEF Tidy
  <1>. QED  BY <1>1, <1>2, <1>5, TidyFrame

\* setup_site_vrf sets up what is planned, or leaves it to the partial teardown
\* save what may remain after a failure.
LEMMA SetupCommandTidy ==
    ASSUME TypeInv, WorkInv, AllocType, TidyInv, Allowed \subseteq Allowed', setup_command
    PROVE  TidyInv'
  <1>. DEFINE item == Head(work.todo)
              k == Len(work.todo)
              id == work.id
  <1>1. /\ pc = "setup" /\ UNCHANGED <<site, cache>> /\ cache[site] = NoSite /\ pc \in Busy
        /\ Suffix(work.todo, SetupOrder) /\ ~work.bypass /\ site \in Sites
        /\ work \in WorkType /\ work.devices = {}
    BY DEF setup_command, WorkInv, Busy, TypeInv
  <1>2. Tidy(objects, Allowed, site, Done(k), id, FALSE, {})
    <2>1. StageKinds = Done(k) /\ StageDevices = {} /\ work.bypass = FALSE
      BY <1>1, WorkFields DEF StageKinds, StageDevices
    <2>. QED  BY <1>1, <2>1, TidyHere
  <1>3. /\ k \in 1 .. 8 /\ Done(k) \subseteq Done(k - 1) /\ Done(k) \subseteq VrfKinds
        /\ item = "tap" => Done(k - 1) = Done(k) \cup {"fib", "tap", "link"}
        /\ item = "plumb" => Done(k - 1) = Done(k)
        /\ item \notin {"tap", "plumb"} => Done(k - 1) = Done(k) \cup {item}
        /\ item # "plumb" => item \notin Done(k)
        /\ item = "tap" => "link" \notin Done(k)
        /\ item \in Kinds \cup {"plumb"}
    <2>1. LET n == Len(work.todo)
              first == Head(work.todo)
          IN  /\ n \in 1 .. 8 /\ Done(n) \subseteq Done(n - 1)
              /\ first = "tap" => Done(n - 1) = Done(n) \cup {"fib", "tap", "link"}
              /\ first = "plumb" => Done(n - 1) = Done(n)
              /\ first \notin {"tap", "plumb"} => Done(n - 1) = Done(n) \cup {first}
              /\ first # "plumb" => first \notin Done(n)
              /\ first = "tap" => "link" \notin Done(n)
              /\ first \in Kinds \cup {"plumb"}
      <3>1. Suffix(work.todo, SetupOrder)
        BY <1>1
      <3>. HIDE DEF item, k
      <3>. QED  BY <3>1, DoneStep
    <2>2. Done(k) \subseteq VrfKinds
      <3>1. k \in 0 .. 8
        BY <2>1
      <3>. HIDE DEF k
      <3>. QED  BY <3>1, DoneKinds
    <2>. QED  BY <2>1, <2>2
  <1>4. \A kind : /\ Own(kind).kind = kind /\ Own(kind).site = site
                  /\ Own(kind) = Thing(kind, site, id)
    BY OwnThing, ThingFields
  <1>5. CASE /\ objects' = Installed(item) /\ work' = [work EXCEPT !.todo = Tail(@)]
             /\ pc' = IF k = 1 THEN "device" ELSE pc
    <2>1. \A o \in Installed(item) :
              \/ o \in objects
              \/ \E kind \in Done(k - 1) : o = Own(kind)
      <3>. HIDE DEF item
      <3>. QED  BY <1>3 DEF Installed, Routes
    <2>2. Tidy(objects', Allowed', site, Done(k - 1), id, FALSE, {})
      <3>. HIDE DEF item, id, k
      <3>. QED  BY <1>2, <1>3, <1>4, <1>5, <2>1 DEF Tidy
    <2>3. /\ work'.id = id /\ work'.bypass = FALSE /\ work'.devices = {}
          /\ work'.todo = Tail(work.todo)
      BY <1>1, <1>5, WorkFields DEF WorkType
    <2>4. Done(k - 1) \subseteq StageKinds' /\ StageDevices' = {} /\ pc' \in Busy
      <3>1. CASE k = 1
        <4>1. pc' = "device"
          BY <1>5, <3>1
        <4>2. StageKinds' = VrfKinds /\ StageDevices' = {} /\ pc' \in Busy
          BY <2>3, <4>1 DEF StageKinds, StageDevices, Busy, Standing
        <4>3. Done(k - 1) = Done(0)
          <5>1. k - 1 = 0
            BY <3>1
          <5>. QED  BY <5>1
        <4>. QED  BY <4>2, <4>3, DoneKinds
      <3>2. CASE k # 1
        <4>0. k > 1
          <5>. HIDE DEF k
          <5>. QED  BY <1>3, <3>2
        <4>1. Len(Tail(work.todo)) = k - 1
          BY <1>1, <4>0, OrderTypes, SuffixStep
        <4>2. pc' = "setup"
          BY <1>1, <1>5, <3>2
        <4>3. StageKinds' = Done(Len(work'.todo)) /\ StageDevices' = {} /\ pc' \in Busy
          BY <2>3, <4>2 DEF StageKinds, StageDevices, Busy
        <4>4. Len(work'.todo) = k - 1
          BY <2>3, <4>1
        <4>. QED  BY <4>3, <4>4
      <3>. QED  BY <3>1, <3>2
    <2>5. Tidy(objects', Allowed', site', StageKinds', work'.id, work'.bypass, StageDevices')
      BY <1>1, <2>2, <2>3, <2>4 DEF Tidy
    <2>6. \A o \in objects' : o \in objects \/ o.site = site'
      BY <1>1, <1>4, <1>5, <2>1
    <2>. QED  BY <1>1, <2>4, <2>5, <2>6, TidyFrame
  <1>6. CASE /\ IF Refused(item) THEN NoFail ELSE Fail("setup")
             /\ objects' = IF item = "tap" THEN objects \cup {Own("fib")}
                           ELSE Lose(objects, {"tap"}, site)
             /\ work' = [work EXCEPT !.todo = PartialOrder] /\ pc' = "partial"
    <2>1. /\ work'.id = id /\ work'.bypass = FALSE /\ work'.todo = PartialOrder
      BY <1>1, <1>6, WorkFields DEF WorkType
    <2>2. \A o \in objects' :
              \/ o \in objects
              \/ o.site = site /\ o.kind \in {"fib", "tap"}
      <3>1. ASSUME NEW o \in Lose(objects, {"tap"}, site), o \notin objects
            PROVE  o.site = site /\ o.kind = "tap"
        <4>1. PICK m \in objects : /\ m.kind = "tap" /\ m.site = site
                                   /\ o = [m EXCEPT !.live = FALSE]
          BY <3>1 DEF Lose
        <4>. QED  BY <4>1 DEF TypeInv, Object
      <3>. QED  BY <1>4, <1>6, <3>1
    <2>3. \/ "teardown" \in happened'
          \/ {"fib", "tap"} \cup Marks \subseteq Allowed'
      <3>1. CASE Refused(item)
        <4>1. \E kind \in {"link"} \cup Rules : Own(kind) \in objects /\ kind \notin Done(k)
          BY <1>3, <3>1 DEF Refused, Rules
        <4>2. "teardown" \in happened
          <5>1. PICK kind \in {"link"} \cup Rules : Own(kind) \in objects /\ kind \notin Done(k)
            BY <4>1
          <5>2. kind \in Allowed
            BY <1>2, <1>4, <5>1 DEF Tidy
          <5>. QED  BY <5>1, <5>2, AllowedOnlyBy
        <4>. QED  BY <1>6, <3>1, <4>2 DEF NoFail
      <3>2. CASE ~Refused(item)
        <4>1. "setup" \in happened'
          BY <1>6, <3>2 DEF Fail
        <4>. QED  BY <4>1, RemainByFault DEF Allowed
      <3>. QED  BY <3>1, <3>2
    <2>4. \A o \in objects' : o.site = site =>
              o.kind \in Allowed' \/ (o.kind \in Last(PartialOrder, 5) /\ o = Thing(o.kind, site, id))
      <3>1. CASE "teardown" \in happened'
        <4>1. objects' \subseteq Object
          BY SetupCommandType DEF TypeInv
        <4>. QED  BY <3>1, <4>1, AnyRemains DEF Allowed
      <3>2. CASE {"fib", "tap"} \cup Marks \subseteq Allowed'
        <4>1. Last(PartialOrder, 5) = {"fwd_rule", "ret_rule", "fwd_route", "ret_route", "link"}
          <5>1. /\ PartialOrder[1] = "fwd_rule" /\ PartialOrder[2] = "ret_rule"
                /\ PartialOrder[3] = "fwd_route" /\ PartialOrder[4] = "ret_route"
                /\ PartialOrder[5] = "link"
            BY DEF PartialOrder
          <5>2. Last(PartialOrder, 5) = {PartialOrder[i] : i \in 1 .. 5}
            BY OrderTypes DEF Last
          <5>3. 1 .. 5 = {1, 2, 3, 4, 5}
            OBVIOUS
          <5>. QED  BY <5>1, <5>2, <5>3
        <4>2. Done(k) \subseteq {"fib", "tap"} \cup Marks \cup Last(PartialOrder, 5)
          BY <1>3, <4>1 DEF Done, Marks
        <4>. HIDE DEF id
        <4>. QED  BY <1>2, <2>2, <3>2, <4>2 DEF Tidy
      <3>. QED  BY <2>3, <3>1, <3>2
    <2>5. StageKinds' = Last(PartialOrder, 5) /\ StageDevices' = {}
      BY <1>6, <2>1, OrderTypes DEF StageKinds, StageDevices
    <2>6. Tidy(objects', Allowed', site', StageKinds', work'.id, work'.bypass, StageDevices')
      BY <1>1, <2>1, <2>4, <2>5 DEF Tidy
    <2>7. pc' \in Busy
      BY <1>6 DEF Busy
    <2>. QED  BY <1>1, <2>2, <2>6, <2>7, TidyFrame
  <1>. QED  BY <1>1, <1>5, <1>6 DEF setup_command

\* install_device_nat adds the NAT of another device, all of it or, after a failure,
\* some of it.
LEMMA DeviceCommandTidy ==
    ASSUME TypeInv, WorkInv, TidyInv, Allowed \subseteq Allowed', device_command
    PROVE  TidyInv'
  <1>1. /\ pc = "device" /\ UNCHANGED <<site, cache>> /\ cache[site] = NoSite /\ pc \in Busy
        /\ pc' \in {"device", "create_map", "lookup"} /\ pc' \in Busy
        /\ site \in Sites /\ work \in WorkType
    BY DEF device_command, WorkInv, Busy, Standing, BnatSetup, TypeInv
  <1>2. Tidy(objects, Allowed, site, UpKinds(work.bypass), work.id, work.bypass, work.devices)
    <2>1. StageKinds = UpKinds(work.bypass) /\ StageDevices = work.devices
      BY <1>1 DEF StageKinds, StageDevices, UpKinds
    <2>. QED  BY <1>1, <2>1, TidyHere
  <1>3. \A d, k : /\ Obj(k, site, d).kind = k /\ Obj(k, site, d).site = site
                  /\ Obj(k, site, d).key = d
    BY DEF Obj
  <1>4. StageKinds' = UpKinds(work'.bypass) /\ StageDevices' = work'.devices
    BY <1>1 DEF StageKinds, StageDevices, UpKinds
  <1>5. CASE UNCHANGED <<objects, work>>
    <2>1. Tidy(objects', Allowed', site', StageKinds', work'.id, work'.bypass, StageDevices')
      BY <1>1, <1>2, <1>4, <1>5 DEF Tidy
    <2>. QED  BY <1>1, <1>5, <2>1, TidyFrame
  <1>6. ASSUME NEW d \in work.pending, NEW S, objects' = S \cup NatOf(d),
               S = objects \/ (~work.bypass /\ S \in {WithoutPaths(d), StalePaths(d)}),
               work' = [work EXCEPT !.pending = @ \ {d}, !.devices = @ \cup {d}]
        PROVE  TidyInv'
    <2>1. /\ work'.id = work.id /\ work'.bypass = work.bypass
          /\ work'.devices = work.devices \cup {d}
      BY <1>1, <1>6 DEF WorkType
    <2>2. \A o \in objects' : \/ o \in objects
                              \/ o.site = site /\ o.key = d /\ o.kind \in NatKinds(work.bypass)
      BY <1>3, <1>6, PathsOf DEF NatOf, NatKinds, TypeInv
    <2>3. Tidy(objects', Allowed', site', StageKinds', work'.id, work'.bypass, StageDevices')
      BY <1>1, <1>2, <1>4, <2>1, <2>2 DEF Tidy
    <2>. QED  BY <1>1, <2>2, <2>3, TidyFrame
  <1>7. ASSUME NEW d \in work.pending, "device" \in happened',
               \/ objects' = objects
               \/ \E S \in {WithoutPaths(d), StalePaths(d)} : HalfInstalled(S, d),
               work' = [work EXCEPT !.pending = @ \ {d}]
        PROVE  TidyInv'
    <2>1. work'.id = work.id /\ work'.bypass = work.bypass /\ work'.devices = work.devices
      BY <1>1, <1>7 DEF WorkType
    <2>2. \A o \in objects' : o \in objects \/ (o.site = site /\ o.kind \in {"map", "path"})
      BY <1>3, <1>7, PathsOf DEF HalfInstalled, TypeInv
    <2>3. {"map", "path"} \subseteq Allowed'
      BY <1>7, RemainByFault DEF Allowed
    <2>4. Tidy(objects', Allowed', site', StageKinds', work'.id, work'.bypass, StageDevices')
      BY <1>1, <1>2, <1>4, <2>1, <2>2, <2>3 DEF Tidy
    <2>. QED  BY <1>1, <2>2, <2>4, TidyFrame
  <1>. QED  BY <1>5, <1>6, <1>7 DEF device_command, Fail, FailBoth

\* The lookup route, the commands of the bnat table, and the commit.
LEMMA StageTidy ==
    ASSUME TypeInv, WorkInv, TidyInv, Allowed \subseteq Allowed',
           lookup_route \/ setup_backend \/ teardown_backend \/ commit, AllocType, BnatInv
    PROVE  TidyInv'
  <1>0. site \in Sites /\ (pc \in Busy => cache[site] = NoSite) /\ work \in WorkType
    BY DEF TypeInv, WorkInv
  <1>1. CASE lookup_route
    <2>1. /\ pc = "lookup" /\ pc' = "create_map" /\ UNCHANGED <<site, cache, work>> /\ ~work.bypass
          /\ objects' \subseteq objects \cup {Own("lookup")}
          /\ pc \in Busy /\ pc' \in Busy
      BY <1>1 DEF lookup_route, WorkInv, Busy, Standing, BnatSetup
    <2>2. StageKinds = VrfKinds /\ StageDevices = work.devices
      BY <2>1 DEF StageKinds, StageDevices
    <2>3. StageKinds' = VrfKinds /\ StageDevices' = work.devices
      BY <2>1 DEF StageKinds, StageDevices
    <2>4. Tidy(objects, Allowed, site, VrfKinds, work.id, work.bypass, work.devices)
      BY <2>1, <2>2, TidyHere
    <2>5. /\ Own("lookup").kind = "lookup" /\ Own("lookup").site = site
          /\ Own("lookup") = Thing("lookup", site, work.id) /\ "lookup" \in VrfKinds
      BY OwnThing, ThingFields DEF VrfKinds
    <2>6. Tidy(objects', Allowed', site', StageKinds', work'.id, work'.bypass, StageDevices')
      BY <2>1, <2>3, <2>4, <2>5 DEF Tidy
    <2>. QED  BY <1>0, <2>1, <2>5, <2>6, TidyFrame
  <1>2. CASE setup_backend \/ teardown_backend
    <2>1. /\ UNCHANGED <<site, cache, objects, work>>
          /\ \/ pc \in BnatSetup /\ pc' \in BnatSetup \cup {"commit"}
             \/ pc = "bnat_down" /\ pc' \in {"bnat_down", "devices_down"}
      BY <1>0, <1>2, SetupBnat, TeardownBnat DEF setup_backend, teardown_backend, setupVars
    <2>2. pc \in Busy /\ pc' \in Busy /\ pc # "down"
      BY <2>1 DEF Busy, Standing, BnatSetup
    <2>3. StageKinds' = StageKinds /\ StageDevices' = StageDevices
      BY <2>1 DEF StageKinds, StageDevices, BnatSetup
    <2>4. Tidy(objects, Allowed, site, StageKinds, work.id, work.bypass, StageDevices)
      BY <2>2, TidyHere
    <2>5. Tidy(objects', Allowed', site', StageKinds', work'.id, work'.bypass, StageDevices')
      BY <2>1, <2>3, <2>4 DEF Tidy
    <2>. QED  BY <1>0, <2>1, <2>2, <2>5, TidyFrame
  <1>3. CASE commit
    <2>1. /\ pc = "commit" /\ pc' = "idle" /\ UNCHANGED <<site, objects>> /\ cache[site] = NoSite
          /\ cache' = [cache EXCEPT ![site] =
                          [bypass |-> work.bypass, id |-> work.id, devices |-> work.devices]]
          /\ pc \in Busy /\ pc' \notin Busy
      BY <1>0, <1>3 DEF commit, Busy, Standing, BnatSetup
    <2>2. /\ cache'[site] # NoSite /\ cache'[site].bypass = work.bypass /\ cache'[site].id = work.id
          /\ cache'[site].devices = work.devices
          /\ \A q \in Sites : q # site => cache'[q] = cache[q]
      BY <1>0, <1>3, <2>1, CommitType DEF TypeInv
    <2>3. StageKinds = UpKinds(work.bypass) /\ StageDevices = work.devices
      BY <2>1 DEF StageKinds, StageDevices, UpKinds
    <2>4. Tidy(objects, Allowed, site, UpKinds(work.bypass), work.id, work.bypass, work.devices)
      BY <2>1, <2>3, TidyHere
    <2>5. Tidy(objects', Allowed', site', UpKinds(cache'[site'].bypass), cache'[site'].id,
               cache'[site'].bypass, cache'[site'].devices)
      BY <2>1, <2>2, <2>4 DEF Tidy
    <2>. QED  BY <1>0, <2>1, <2>2, <2>5, TidyFrame
  <1>. QED  BY <1>1, <1>2, <1>3

\* teardown_site_vrf removes every kind of the VRF.
LEMMA VrfLast ==
    VrfKinds \subseteq Last(VrfOrder, 10)
  <1>1. /\ VrfOrder[1] = "fwd_rule" /\ VrfOrder[2] = "ret_rule" /\ VrfOrder[3] = "fwd_route"
        /\ VrfOrder[4] = "ret_route" /\ VrfOrder[5] = "mark_set" /\ VrfOrder[6] = "mark_map"
        /\ VrfOrder[7] = "link" /\ VrfOrder[8] = "tap" /\ VrfOrder[9] = "lookup"
        /\ VrfOrder[10] = "fib"
    BY DEF VrfOrder
  <1>2. Last(VrfOrder, 10) = {VrfOrder[i] : i \in 1 .. 10}
    BY OrderTypes DEF Last
  <1>3. \A i \in 1 .. 10 : VrfOrder[i] \in Last(VrfOrder, 10)
    BY <1>2
  <1>4. 1 \in 1 .. 10 /\ 2 \in 1 .. 10 /\ 3 \in 1 .. 10 /\ 4 \in 1 .. 10 /\ 5 \in 1 .. 10
        /\ 6 \in 1 .. 10 /\ 7 \in 1 .. 10 /\ 8 \in 1 .. 10 /\ 9 \in 1 .. 10 /\ 10 \in 1 .. 10
    OBVIOUS
  <1>. QED  BY <1>1, <1>3, <1>4 DEF VrfKinds, Marks, Keyed, Rules, Routes

\* remove_device_nat takes a device's NAT away, or a command of it has failed.
LEMMA DeviceDownTidy ==
    ASSUME TypeInv, WorkInv, TidyInv, Allowed \subseteq Allowed', TypeInv', device_down
    PROVE  TidyInv'
  <1>1. /\ pc = "devices_down" /\ UNCHANGED <<site, cache>> /\ cache[site] = NoSite /\ pc \in Busy
        /\ site \in Sites /\ work \in WorkType /\ (work.bypass \/ work.todo = VrfOrder)
    BY DEF device_down, WorkInv, Busy, TypeInv
  <1>2. Tidy(objects, Allowed, site, UpKinds(work.bypass), work.id, work.bypass, work.pending)
    <2>1. StageKinds = UpKinds(work.bypass) /\ StageDevices = work.pending
      BY <1>1 DEF StageKinds, StageDevices, UpKinds
    <2>. QED  BY <1>1, <2>1, TidyHere
  <1>3. CASE work.pending = {}
    <2>1. UNCHANGED objects
      BY <1>3 DEF device_down
    <2>2. CASE work.bypass
      <3>1. pc' = "idle" /\ pc' \notin Busy
        BY <1>3, <2>2 DEF device_down, Busy, Standing, BnatSetup
      <3>2. \A o \in objects' : o.site = site' => o.kind \in Allowed'
        BY <1>1, <1>2, <1>3, <2>1, <2>2 DEF Tidy, UpKinds
      <3>. QED  BY <1>1, <2>1, <3>1, <3>2, TidyFrame
    <2>3. CASE ~work.bypass
      <3>1. pc' = "vrf_down" /\ UNCHANGED work /\ pc' \in Busy
        BY <1>3, <2>3 DEF device_down, Busy
      <3>2. VrfKinds \subseteq Last(VrfOrder, 10)
        BY VrfLast
      <3>3. VrfKinds \subseteq StageKinds' /\ StageDevices' = {}
        BY <1>1, <2>3, <3>1, <3>2, OrderTypes DEF StageKinds, StageDevices
      <3>4. Tidy(objects', Allowed', site', StageKinds', work'.id, work'.bypass, StageDevices')
        BY <1>1, <1>2, <1>3, <2>1, <2>3, <3>1, <3>3 DEF Tidy, UpKinds
      <3>. QED  BY <1>1, <2>1, <3>1, <3>4, TidyFrame
    <2>. QED  BY <2>2, <2>3
  <1>4. ASSUME NEW d \in work.pending, NEW kept \in SUBSET {o.kind : o \in NatOf(d)},
               IF kept = {} THEN NoFail ELSE Fail("teardown"),
               objects' = {o \in objects : ~(/\ o.site = site /\ o.key = d
                                             /\ o.kind \in {n.kind : n \in NatOf(d)} \ kept)},
               work' = [work EXCEPT !.pending = @ \ {d}], UNCHANGED pc
        PROVE  TidyInv'
    <2>1. /\ work'.id = work.id /\ work'.bypass = work.bypass /\ work'.pending = work.pending \ {d}
      BY <1>1, <1>4 DEF WorkType
    <2>2. StageKinds' = UpKinds(work.bypass) /\ StageDevices' = work.pending \ {d}
      BY <1>1, <1>4, <2>1 DEF StageKinds, StageDevices, UpKinds
    <2>3. {n.kind : n \in NatOf(d)} = NatKinds(work.bypass)
      <3>1. NatOf(d) = {Obj(kind, site, d) : kind \in NatKinds(work.bypass)}
        BY DEF NatOf, NatKinds
      <3>2. \A kind : Obj(kind, site, d).kind = kind
        BY DEF Obj
      <3>. QED  BY <3>1, <3>2
    <2>4. Tidy(objects', Allowed', site, UpKinds(work.bypass), work.id, work.bypass,
               work.pending \ {d})
      <3>1. CASE kept = {}
        <4>1. \A o \in objects' : /\ o \in objects
                                  /\ o.site = site /\ o.kind \in NatKinds(work.bypass) => o.key # d
          BY <1>4, <2>3, <3>1
        <4>. QED  BY <1>2, <4>1 DEF Tidy
      <3>2. CASE kept # {}
        <4>1. "teardown" \in happened'
          BY <1>4, <3>2 DEF Fail
        <4>2. objects' \subseteq Object
          BY DEF TypeInv
        <4>. QED  BY <4>1, <4>2, AnyRemains DEF Tidy, Allowed
      <3>. QED  BY <3>1, <3>2
    <2>5. Tidy(objects', Allowed', site', StageKinds', work'.id, work'.bypass, StageDevices')
      BY <1>1, <2>1, <2>2, <2>4
    <2>. QED  BY <1>1, <1>4, <2>5, TidyFrame
  <1>. QED  BY <1>3, <1>4 DEF device_down

\* The clean-up's commands remove what is planned, in the order that lets them.
LEMMA RemoveCommandTidy ==
    ASSUME TypeInv, WorkInv, TidyInv, Allowed \subseteq Allowed', TypeInv', remove_command
    PROVE  TidyInv'
  <1>. DEFINE order == IF pc = "partial" THEN PartialOrder ELSE VrfOrder
              item == Head(work.todo)
              k == Len(work.todo)
              rest == Last(order, k - 1)
              id == work.id
  <1>1. /\ pc \in {"partial", "vrf_down"} /\ UNCHANGED <<site, cache>> /\ cache[site] = NoSite
        /\ pc \in Busy /\ ~work.bypass /\ work.bypass = FALSE /\ site \in Sites /\ work \in WorkType
    BY WorkFields DEF remove_command, WorkInv, Busy, TypeInv
  <1>2. /\ order \in Seq(Commands) /\ k \in 1 .. Len(order)
        /\ item = order[Len(order) - k + 1] /\ item \in VrfKinds
        /\ k > 1 => Len(Tail(work.todo)) = k - 1
    BY <1>1, RemoveHead
  <1>3. Last(order, k) = {item} \cup rest
    <2>. HIDE DEF order, item, k
    <2>. QED  BY <1>2, LastStep
  <1>4. Tidy(objects, Allowed, site, {item} \cup rest, id, FALSE, {})
    <2>1. StageKinds = Last(order, k) /\ StageDevices = {}
      BY <1>1 DEF StageKinds, StageDevices
    <2>. HIDE DEF order, item, k
    <2>. QED  BY <1>1, <1>3, <2>1, TidyHere
  <1>5. /\ item \in {"link", "tap"} => rest \cap Marks = {}
        /\ item = "fib" => rest = {}
        /\ rest \in SUBSET VrfKinds
    <2>1. CASE pc = "partial"
      <3>1. /\ order = PartialOrder /\ k \in 1 .. 5 /\ item = PartialOrder[6 - k]
        <4>1. order = PartialOrder /\ Len(order) = 5
          BY <2>1, OrderTypes
        <4>. HIDE DEF order, item, k
        <4>2. k \in 1 .. 5 /\ 5 - k + 1 = 6 - k
          BY <1>2, <4>1
        <4>. QED  BY <1>2, <4>1, <4>2
      <3>. HIDE DEF order, item, k
      <3>2. item \notin {"tap", "fib"} /\ (item = "link" => k = 1)
        BY <3>1, LastOnes
      <3>3. item = "link" => rest = {}
        <4>1. k = 1 => k - 1 = 0
          OBVIOUS
        <4>. QED  BY <3>1, <3>2, <4>1, LastOnes
      <3>4. rest \in SUBSET VrfKinds
        <4>1. \A i \in 1 .. 5 : PartialOrder[i] \in VrfKinds
          BY DEF PartialOrder, VrfKinds, Keyed, Rules, Routes
        <4>. QED  BY <3>1, <4>1, OrderTypes DEF Last
      <3>. QED  BY <3>2, <3>3, <3>4
    <2>2. CASE pc = "vrf_down"
      <3>1. /\ order = VrfOrder /\ k \in 1 .. 10 /\ item = VrfOrder[11 - k]
        <4>1. order = VrfOrder /\ Len(order) = 10
          BY <2>2, OrderTypes
        <4>. HIDE DEF order, item, k
        <4>2. k \in 1 .. 10 /\ 10 - k + 1 = 11 - k
          BY <1>2, <4>1
        <4>. QED  BY <1>2, <4>1, <4>2
      <3>. HIDE DEF order, item, k
      <3>2. /\ item = "link" => k = 4
            /\ item = "tap" => k = 3
            /\ item = "fib" => k = 1
        BY <3>1, LastOnes
      <3>3. /\ item = "link" => rest = {"tap", "lookup", "fib"}
            /\ item = "tap" => rest = {"lookup", "fib"}
            /\ item = "fib" => rest = {}
        <4>1. (k = 1 => k - 1 = 0) /\ (k = 3 => k - 1 = 2) /\ (k = 4 => k - 1 = 3)
          OBVIOUS
        <4>. QED  BY <3>1, <3>2, <4>1, LastOnes
      <3>4. rest \in SUBSET VrfKinds
        <4>1. \A i \in 1 .. 10 : VrfOrder[i] \in VrfKinds
          BY DEF VrfOrder, VrfKinds, Keyed, Rules, Routes, Marks
        <4>. QED  BY <3>1, <4>1, OrderTypes DEF Last
      <3>. QED  BY <3>2, <3>3, <3>4 DEF Marks
    <2>. QED  BY <1>1, <2>1, <2>2
  <1>6. /\ Tidy(objects', Allowed', site, rest, id, FALSE, {})
        /\ \A o \in objects' : o \in objects \/ o.site = site
    <2>. HIDE DEF order, item, k, rest
    <2>1. CASE objects' = Removed(item)
      <3>1. /\ Tidy(Removed(item), Allowed, site, rest, id, FALSE, {})
            /\ \A o \in Removed(item) : o \in objects \/ o.site = site
        BY <1>2, <1>4, <1>5, RemovedTidy, TableRemains
      <3>. QED  BY <2>1, <3>1 DEF Tidy
    <2>2. CASE /\ Fail("teardown")
               /\ objects' = IF item = "tap" THEN Lose(objects, {"tap"}, site) ELSE objects
      <3>1. "teardown" \in happened' /\ objects' \subseteq Object
        BY <2>2 DEF Fail, TypeInv
      <3>2. Tidy(objects', Allowed', site, rest, id, FALSE, {})
        BY <3>1, AnyRemains DEF Tidy, Allowed
      <3>3. \A o \in objects' : o \in objects \/ o.site = site
        BY <2>2 DEF Lose, TypeInv, Object
      <3>. QED  BY <3>2, <3>3
    <2>. QED  BY <2>1, <2>2 DEF remove_command, item
  <1>7. CASE k > 1
    <2>1. work' = [work EXCEPT !.todo = Tail(@)] /\ UNCHANGED pc
      BY <1>7 DEF remove_command
    <2>2. /\ work'.id = id /\ work'.bypass = FALSE /\ Len(work'.todo) = k - 1
      BY <1>1, <1>2, <1>7, <2>1 DEF WorkType
    <2>3. StageKinds' = rest /\ StageDevices' = {}
      BY <1>1, <2>1, <2>2 DEF StageKinds, StageDevices
    <2>. HIDE DEF rest, order, item, k
    <2>4. Tidy(objects', Allowed', site', StageKinds', work'.id, work'.bypass, StageDevices')
      BY <1>1, <1>6, <2>2, <2>3
    <2>. QED  BY <1>1, <1>6, <2>1, <2>4, TidyFrame
  <1>8. CASE ~(k > 1)
    <2>1. pc' = "idle" /\ pc' \notin Busy
      BY <1>8 DEF remove_command, Busy, Standing, BnatSetup
    <2>2. rest = {}
      <3>1. order \in {PartialOrder, VrfOrder}
        OBVIOUS
      <3>. HIDE DEF order, k
      <3>2. Len(order) \in Nat
        BY <1>2, LenProperties
      <3>3. k = 1 /\ k - 1 = 0
        BY <1>2, <1>8, <3>2
      <3>. QED  BY <3>1, <3>3, LastOnes
    <2>3. \A o \in objects' : o.site = site' => o.kind \in Allowed'
      <3>. HIDE DEF rest
      <3>. QED  BY <1>1, <1>6, <2>2 DEF Tidy
    <2>. QED  BY <1>1, <1>6, <2>1, <2>3, TidyFrame
  <1>. QED  BY <1>7, <1>8

\* What the clean-up of a new process leaves is what survives a restart.
LEMMA RestartTidy ==
    ASSUME TypeInv, WorkInv, Crash \/ init
    PROVE  TidyInv'
  <1>1. CASE Crash
    <2>1. pc' = "down" /\ pc' \notin Busy /\ \A p \in Sites : cache'[p] = NoSite
      BY <1>1 DEF Crash, Busy, Standing, BnatSetup
    <2>. QED  BY <2>1 DEF TidyInv
  <1>2. CASE init
    <2>1. /\ pc = "down" /\ pc' = "idle" /\ objects' = CleanedUp
          /\ UNCHANGED <<cache, happened>> /\ pc' \notin Busy
      BY <1>2 DEF init, NoFail, Busy, Standing, BnatSetup
    <2>2. "crash" \in happened' /\ \A p \in Sites : cache'[p] = NoSite
      BY <2>1 DEF WorkInv
    <2>3. \A o \in objects' : o.kind \in {"fib", "lookup", "path", "ret_route"}
      <3>1. \A o \in objects : [o EXCEPT !.live = o.kind # "path"].kind = o.kind
        BY DEF TypeInv, Object
      <3>. QED  BY <2>1, <3>1 DEF CleanedUp
    <2>4. \A o \in objects' : o.kind \in Allowed'
      BY <2>2, <2>3, RemainByFault DEF Allowed
    <2>. QED  BY <2>1, <2>2, <2>4 DEF TidyInv
  <1>. QED  BY <1>1, <1>2

\* Every step keeps what is there justified.
LEMMA TidyStep ==
    ASSUME TypeInv, WorkInv, AllocType, BnatInv, TidyInv, [Next]_vars
    PROVE  TidyInv'
  <1>1. Allowed \subseteq Allowed' /\ TypeInv'
    BY TypeStep, BnatStep, AllowedGrows
  <1>2. CASE UNCHANGED vars
    BY <1>2 DEF vars, setupVars, bnatVars, TidyInv, Allowed, StageKinds, StageDevices
  <1>. QED
    BY <1>1, <1>2, ChildUpTidy, ChildDownTidy, SetupCommandTidy, DeviceCommandTidy, StageTidy,
       DeviceDownTidy, RemoveCommandTidy, RestartTidy DEF Next

-----------------------------------------------------------------------------
\* What is reported as installed is there

\* p has in S its objects of the kinds, and each of the devices its mapping, its
\* global entry and a route over the tap in use.
Present(S, p, kinds, id, bypass, devices) ==
    /\ \A d \in devices : Obj("global", p, d) \in S
    /\ ~bypass =>
          /\ \A kind \in kinds : Thing(kind, p, id) \in S
          /\ \A d \in devices : Obj("map", p, d) \in S /\ Obj("path", p, d) \in S

\* The site in hand has what its commands have set up so far.
StageInv ==
    /\ pc = "setup" => Present(objects, site, Done(Len(work.todo)), work.id, FALSE, {})
    /\ pc \in Standing => Present(objects, site, Done(0), work.id, work.bypass, work.devices)
    /\ pc \in {"commit"} \cup BnatSetup =>
          "device" \in happened \/ work.bypass \/ Obj("lookup", site, 0) \in objects

\* A site that is up has all of it.
PresentInv ==
    \A p \in Sites : cache[p] # NoSite =>
        /\ Present(objects, p, Done(0), cache[p].id, cache[p].bypass, cache[p].devices)
        /\ "device" \in happened \/ cache[p].bypass \/ Obj("lookup", p, 0) \in objects

\* Nobody else uses the ids that are in hand.
LEMMA OthersIds ==
    ASSUME WorkInv, IdInv, site \in Sites, pc \in Busy, ~work.bypass,
           NEW p \in Sites, p # site, cache[p] # NoSite, ~cache[p].bypass
    PROVE  cache[p].id # work.id
  <1>1. p \in Holders /\ IdOf(p) = cache[p].id
    BY DEF Holders, Holding, IdOf
  <1>2. CASE pc = "partial"
    <2>1. PICK i \in DOMAIN alloc.free : alloc.free[i] = work.id
      BY <1>2 DEF IdInv
    <2>. QED  BY <1>1, <2>1 DEF IdInv
  <1>3. CASE pc # "partial"
    <2>1. site \in Holders /\ IdOf(site) = work.id
      BY <1>3 DEF Holders, Holding, IdOf, WorkInv
    <2>. QED  BY <1>1, <2>1 DEF IdInv
  <1>. QED  BY <1>2, <1>3

\* A site keeps what it has if its objects are kept, save the routes in other
\* tables.
LEMMA PresentKept ==
    ASSUME NEW S, NEW T, NEW p, NEW kinds, NEW id, NEW bypass, NEW devices,
           Present(S, p, kinds, id, bypass, devices),
           \A o \in S : o.site = p => o \in T \/ (~bypass => o.kind \in Routes /\ o.key # id),
           bypass => \A d \in devices : Obj("global", p, d) \in T
    PROVE  Present(T, p, kinds, id, bypass, devices)
  <1>1. \A kind, key : /\ Obj(kind, p, key).kind = kind /\ Obj(kind, p, key).site = p
                       /\ Obj(kind, p, key).key = key
    BY DEF Obj
  <1>2. CASE bypass
    BY <1>2 DEF Present
  <1>3. CASE ~bypass
    <2>1. \A kind \in kinds : Thing(kind, p, id) \in T
      <3>1. ASSUME NEW kind \in kinds
            PROVE  Thing(kind, p, id) \in T
        <4>1. Thing(kind, p, id) \in S
          BY <1>3 DEF Present
        <4>2. /\ Thing(kind, p, id).site = p
              /\ Thing(kind, p, id).kind \in Routes => Thing(kind, p, id).key = id
          BY ThingFields DEF Keyed
        <4>. QED  BY <1>3, <4>1, <4>2
      <3>. QED  BY <3>1
    <2>2. \A kind \in {"global", "map", "path"} : kind \notin Routes
      BY DEF Routes
    <2>3. \A d \in devices : /\ Obj("global", p, d) \in T /\ Obj("map", p, d) \in T
                             /\ Obj("path", p, d) \in T
      BY <1>1, <1>3, <2>2 DEF Present
    <2>. QED  BY <1>3, <2>1, <2>3 DEF Present
  <1>. QED  BY <1>2, <1>3

\* A command for the site in hand leaves the others what they have.
LEMMA PresentFrame ==
    ASSUME WorkInv, IdInv, PresentInv, site \in Sites, pc \in Busy, happened \subseteq happened',
           \A q \in Sites : q # site => cache'[q] = cache[q],
           \A o \in objects : o.site # site =>
               o \in objects' \/ (~work.bypass /\ o.kind \in Routes /\ o.key = work.id),
           \A o \in objects' : o \in objects \/ o.site = site,
           cache'[site] # NoSite =>
               /\ Present(objects', site, Done(0), cache'[site].id, cache'[site].bypass,
                          cache'[site].devices)
               /\ \/ "device" \in happened' \/ cache'[site].bypass
                  \/ Obj("lookup", site, 0) \in objects'
    PROVE  PresentInv'
  <1>1. ASSUME NEW p \in Sites, p # site, cache[p] # NoSite
        PROVE  /\ Present(objects', p, Done(0), cache[p].id, cache[p].bypass, cache[p].devices)
               /\ "device" \in happened' \/ cache[p].bypass \/ Obj("lookup", p, 0) \in objects'
    <2>1. Present(objects, p, Done(0), cache[p].id, cache[p].bypass, cache[p].devices)
      BY <1>1 DEF PresentInv
    <2>2. \A kind, key : /\ Obj(kind, p, key).kind = kind /\ Obj(kind, p, key).site = p
                         /\ Obj(kind, p, key).key = key
      BY DEF Obj
    <2>3. \A o \in objects : o.site = p /\ o.kind \notin Routes => o \in objects'
      BY <1>1
    <2>4. \A o \in objects : o.site = p =>
              o \in objects' \/ (~cache[p].bypass => o.kind \in Routes /\ o.key # cache[p].id)
      BY <1>1, OthersIds
    <2>5. \A d \in cache[p].devices : Obj("global", p, d) \in objects'
      BY <2>1, <2>2, <2>3 DEF Present, Routes
    <2>6. Present(objects', p, Done(0), cache[p].id, cache[p].bypass, cache[p].devices)
      BY <2>1, <2>4, <2>5, PresentKept
    <2>7. "device" \in happened' \/ cache[p].bypass \/ Obj("lookup", p, 0) \in objects'
      BY <1>1, <2>2, <2>3 DEF PresentInv, Routes
    <2>. QED  BY <2>6, <2>7
  <1>2. ASSUME NEW p \in Sites, cache'[p] # NoSite
        PROVE  /\ Present(objects', p, Done(0), cache'[p].id, cache'[p].bypass, cache'[p].devices)
               /\ "device" \in happened' \/ cache'[p].bypass \/ Obj("lookup", p, 0) \in objects'
    <2>1. CASE p = site
      BY <1>2, <2>1
    <2>2. CASE p # site
      <3>1. cache'[p] = cache[p]
        BY <2>2
      <3>. QED  BY <1>1, <1>2, <2>2, <3>1
    <2>. QED  BY <2>1, <2>2
  <1>. HIDE DEF Present
  <1>. QED  BY <1>2 DEF PresentInv

\* What stands is not a path, a mapping, a global entry or the lookup route.
LEMMA StandingKinds ==
    /\ {"path", "map", "global", "lookup", "plumb"} \cap Done(0) = {}
    /\ \A k \in 0 .. 8 : Done(k) \subseteq Done(0)
  BY DEF Done

\* A command of setup_site_vrf that succeeds adds its object and keeps the others.
LEMMA SetupCommandPresent ==
    ASSUME TypeInv, WorkInv, IdInv, StageInv, PresentInv, happened \subseteq happened', setup_command
    PROVE  StageInv' /\ PresentInv'
  <1>. DEFINE item == Head(work.todo)
              k == Len(work.todo)
              id == work.id
  <1>1. /\ pc = "setup" /\ UNCHANGED <<site, cache>> /\ cache[site] = NoSite /\ pc \in Busy
        /\ Suffix(work.todo, SetupOrder) /\ ~work.bypass /\ site \in Sites
        /\ work \in WorkType /\ work.devices = {}
    BY DEF setup_command, WorkInv, Busy, TypeInv
  <1>2. \A kind \in Done(k) : Thing(kind, site, id) \in objects
    BY <1>1 DEF StageInv, Present
  <1>3. LET n == Len(work.todo)
            first == Head(work.todo)
        IN  /\ n \in 1 .. 8 /\ Done(n) \subseteq Done(n - 1)
            /\ first = "tap" => Done(n - 1) = Done(n) \cup {"fib", "tap", "link"}
            /\ first = "plumb" => Done(n - 1) = Done(n)
            /\ first \notin {"tap", "plumb"} => Done(n - 1) = Done(n) \cup {first}
            /\ first # "plumb" => first \notin Done(n)
            /\ first = "tap" => "link" \notin Done(n)
            /\ first \in Kinds \cup {"plumb"}
    <2>1. Suffix(work.todo, SetupOrder)
      BY <1>1
    <2>. HIDE DEF item, k
    <2>. QED  BY <2>1, DoneStep
  <1>4. \A kind : /\ Own(kind).kind = kind /\ Own(kind).site = site
                  /\ Own(kind) = Thing(kind, site, id)
                  /\ kind \in Routes => Own(kind).key = id
    BY OwnThing, ThingFields DEF Keyed
  <1>5. CASE /\ objects' = Installed(item) /\ work' = [work EXCEPT !.todo = Tail(@)]
             /\ pc' = IF k = 1 THEN "device" ELSE pc
    <2>1. /\ \A o \in objects : o \in objects' \/ (o.kind = item /\ item \in Routes /\ o.key = id)
          /\ \A o \in objects' : o \in objects \/ o.site = site
          /\ item = "tap" =>
                 Own("fib") \in objects' /\ Own("tap") \in objects' /\ Own("link") \in objects'
          /\ item \notin {"tap", "plumb"} => Own(item) \in objects'
      <3>. HIDE DEF item
      <3>. QED  BY <1>4, <1>5 DEF Installed, Routes
    <2>2. \A kind \in Done(k - 1) : Thing(kind, site, id) \in objects'
      <3>1. ASSUME NEW kind \in Done(k)
            PROVE  Thing(kind, site, id) \in objects'
        <4>1. Thing(kind, site, id) \in objects /\ Thing(kind, site, id).kind = kind
          BY <1>2, <3>1, ThingFields
        <4>2. item \in Routes => kind # item
          BY <1>3, <3>1 DEF Routes
        <4>. HIDE DEF item
        <4>. QED  BY <2>1, <4>1, <4>2
      <3>2. ASSUME NEW kind \in Done(k - 1) \ Done(k)
            PROVE  Thing(kind, site, id) \in objects'
        <4>1. \/ item = "tap" /\ kind \in {"fib", "tap", "link"}
              \/ item \notin {"tap", "plumb"} /\ kind = item
          BY <1>3, <3>2
        <4>. HIDE DEF item
        <4>. QED  BY <1>4, <2>1, <4>1
      <3>. QED  BY <3>1, <3>2
    <2>3. /\ work'.id = id /\ work'.bypass = FALSE /\ work'.devices = {}
          /\ work'.todo = Tail(work.todo)
      BY <1>1, <1>5, WorkFields DEF WorkType
    <2>4. PresentInv'
      BY <1>1, <2>1, PresentFrame
    <2>5. StageInv'
      <3>1. CASE k = 1
        <4>1. pc' = "device" /\ k - 1 = 0
          BY <1>5, <3>1
        <4>2. \A kind \in Done(0) : Thing(kind, site', work'.id) \in objects'
          BY <1>1, <2>2, <2>3, <4>1
        <4>. QED  BY <2>3, <4>1, <4>2 DEF StageInv, Present, BnatSetup
      <3>2. CASE k # 1
        <4>0. k > 1
          <5>1. k \in 1 .. 8
            BY <1>3
          <5>. HIDE DEF k
          <5>. QED  BY <3>2, <5>1
        <4>1. Len(Tail(work.todo)) = k - 1
          BY <1>1, <4>0, OrderTypes, SuffixStep
        <4>2. pc' = "setup"
          BY <1>1, <1>5, <3>2
        <4>3. \A kind \in Done(Len(work'.todo)) : Thing(kind, site', work'.id) \in objects'
          BY <1>1, <2>2, <2>3, <4>1
        <4>. QED  BY <4>2, <4>3 DEF StageInv, Present, Standing, BnatSetup
      <3>. QED  BY <3>1, <3>2
    <2>. QED  BY <2>4, <2>5
  <1>6. CASE /\ objects' = IF item = "tap" THEN objects \cup {Own("fib")}
                           ELSE Lose(objects, {"tap"}, site)
             /\ pc' = "partial"
    <2>1. /\ \A o \in objects : o.site # site => o \in objects'
          /\ \A o \in objects' : o \in objects \/ o.site = site
      BY <1>4, <1>6 DEF Lose, TypeInv, Object
    <2>2. PresentInv'
      BY <1>1, <2>1, PresentFrame
    <2>3. StageInv'
      BY <1>6 DEF StageInv, Standing, BnatSetup
    <2>. QED  BY <2>2, <2>3
  <1>. QED  BY <1>5, <1>6 DEF setup_command

\* install_device_nat gives a device all of its NAT, and the others keep theirs.
LEMMA DeviceCommandPresent ==
    ASSUME TypeInv, WorkInv, IdInv, StageInv, PresentInv, happened \subseteq happened', device_command
    PROVE  StageInv' /\ PresentInv'
  <1>1. /\ pc = "device" /\ UNCHANGED <<site, cache>> /\ cache[site] = NoSite /\ pc \in Busy
        /\ site \in Sites /\ work \in WorkType /\ work.devices \cap work.pending = {}
    BY DEF device_command, WorkInv, Busy, Standing, TypeInv
  <1>2. Present(objects, site, Done(0), work.id, work.bypass, work.devices)
    BY <1>1 DEF StageInv, Standing
  <1>3. \A d, kind : /\ Obj(kind, site, d).kind = kind /\ Obj(kind, site, d).site = site
                     /\ Obj(kind, site, d).key = d
    BY DEF Obj
  <1>4. CASE UNCHANGED <<objects, work>> /\ pc' = IF work.bypass THEN "create_map" ELSE "lookup"
    <2>1. PresentInv'
      BY <1>1, <1>4, PresentFrame
    <2>2. Present(objects', site', Done(0), work'.id, work'.bypass, work'.devices)
      BY <1>1, <1>2, <1>4
    <2>3. StageInv'
      BY <1>4, <2>2 DEF StageInv, BnatSetup
    <2>. QED  BY <2>1, <2>3
  <1>5. ASSUME NEW d \in work.pending, UNCHANGED pc,
               \A o \in objects' : o \in objects \/ o.site = site,
               \A o \in objects : o.site # site => o \in objects',
               work'.id = work.id, work'.bypass = work.bypass,
               Present(objects', site, Done(0), work.id, work.bypass, work'.devices)
        PROVE  StageInv' /\ PresentInv'
    <2>1. PresentInv'
      BY <1>1, <1>5, PresentFrame
    <2>2. Present(objects', site', Done(0), work'.id, work'.bypass, work'.devices)
      BY <1>1, <1>5
    <2>3. StageInv'
      BY <1>1, <1>5, <2>2 DEF StageInv, BnatSetup
    <2>. QED  BY <2>1, <2>3
  <1>6. ASSUME NEW d \in work.pending, NEW kinds \in SUBSET {"map", "path", "global"}, ~work.bypass,
               NEW S \in {WithoutPaths(d), StalePaths(d)},
               objects' = S \cup {Obj(kind, site, d) : kind \in kinds}
        PROVE  /\ Present(objects', site, Done(0), work.id, work.bypass, work.devices)
               /\ kinds = {"map", "path", "global"} =>
                      Present(objects', site, Done(0), work.id, work.bypass, work.devices \cup {d})
               /\ \A o \in objects' : o \in objects \/ o.site = site
               /\ \A o \in objects : o.site # site => o \in objects'
    <2>1. /\ \A o \in objects' : o \in objects \/ o.site = site
          /\ \A o \in objects : o \in objects' \/ (o.kind = "path" /\ o.site = site /\ o.key = d)
          /\ \A kind \in kinds : Obj(kind, site, d) \in objects'
      BY <1>3, <1>6, PathsOf DEF WithoutPaths, StalePaths, TypeInv
    <2>2. \A kind \in Done(0) : Thing(kind, site, work.id) \in objects'
      <3>1. \A kind \in Done(0) : /\ Thing(kind, site, work.id) \in objects
                                  /\ Thing(kind, site, work.id).kind # "path"
        BY <1>2, <1>6, ThingFields, StandingKinds DEF Present
      <3>. QED  BY <2>1, <3>1
    <2>3. \A c \in work.devices : /\ c # d /\ Obj("global", site, c) \in objects'
                                  /\ Obj("map", site, c) \in objects' /\ Obj("path", site, c) \in objects'
      BY <1>1, <1>2, <1>3, <1>6, <2>1 DEF Present
    <2>4. Present(objects', site, Done(0), work.id, work.bypass, work.devices)
      BY <2>2, <2>3 DEF Present
    <2>5. ASSUME kinds = {"map", "path", "global"}
          PROVE  Present(objects', site, Done(0), work.id, work.bypass, work.devices \cup {d})
      BY <2>1, <2>2, <2>3, <2>5 DEF Present
    <2>. QED  BY <2>1, <2>4, <2>5
  <1>7. ASSUME NEW d \in work.pending, NEW S, objects' = S \cup NatOf(d),
               IF work.bypass THEN S = objects ELSE S \in {WithoutPaths(d), StalePaths(d)},
               work' = [work EXCEPT !.pending = @ \ {d}, !.devices = @ \cup {d}], UNCHANGED pc
        PROVE  StageInv' /\ PresentInv'
    <2>1. /\ work'.id = work.id /\ work'.bypass = work.bypass
          /\ work'.devices = work.devices \cup {d}
      BY <1>1, <1>7 DEF WorkType
    <2>2. /\ Present(objects', site, Done(0), work.id, work.bypass, work.devices \cup {d})
          /\ \A o \in objects' : o \in objects \/ o.site = site
          /\ \A o \in objects : o.site # site => o \in objects'
      <3>1. CASE work.bypass
        <4>1. objects' = objects \cup {Obj("global", site, d)}
          BY <1>7, <3>1 DEF NatOf
        <4>. QED  BY <1>2, <1>3, <3>1, <4>1 DEF Present
      <3>2. CASE ~work.bypass
        <4>. DEFINE kinds == {"map", "path", "global"}
        <4>1. objects' = S \cup {Obj(kind, site, d) : kind \in kinds}
          BY <1>7, <3>2 DEF NatOf
        <4>. QED  BY <1>6, <1>7, <3>2, <4>1
      <3>. QED  BY <3>1, <3>2
    <2>. QED  BY <1>5, <1>7, <2>1, <2>2
  <1>8. ASSUME NEW d \in work.pending,
               \/ objects' = objects
               \/ ~work.bypass /\ \E S \in {WithoutPaths(d), StalePaths(d)} : HalfInstalled(S, d),
               work' = [work EXCEPT !.pending = @ \ {d}], UNCHANGED pc
        PROVE  StageInv' /\ PresentInv'
    <2>1. work'.id = work.id /\ work'.bypass = work.bypass /\ work'.devices = work.devices
      BY <1>1, <1>8 DEF WorkType
    <2>2. /\ Present(objects', site, Done(0), work.id, work.bypass, work.devices)
          /\ \A o \in objects' : o \in objects \/ o.site = site
          /\ \A o \in objects : o.site # site => o \in objects'
      <3>1. CASE objects' = objects
        BY <1>2, <3>1
      <3>2. ASSUME ~work.bypass, NEW S \in {WithoutPaths(d), StalePaths(d)},
                   NEW left \in {{"map"}, {"map", "path"}},
                   objects' = S \cup {Obj(k, site, d) : k \in left}
            PROVE  /\ Present(objects', site, Done(0), work.id, work.bypass, work.devices)
                   /\ \A o \in objects' : o \in objects \/ o.site = site
                   /\ \A o \in objects : o.site # site => o \in objects'
        <4>1. left \in SUBSET {"map", "path", "global"}
          OBVIOUS
        <4>. QED  BY <1>6, <3>2, <4>1
      <3>. QED  BY <1>8, <3>1, <3>2 DEF HalfInstalled
    <2>. QED  BY <1>5, <1>8, <2>1, <2>2
  <1>. QED  BY <1>4, <1>7, <1>8 DEF device_command

\* The lookup route, the commands of the bnat table, and the commit.
LEMMA StagePresent ==
    ASSUME TypeInv, WorkInv, AllocType, IdInv, BnatInv, StageInv, PresentInv,
           happened \subseteq happened',
           lookup_route \/ setup_backend \/ teardown_backend \/ commit
    PROVE  StageInv' /\ PresentInv'
  <1>0. site \in Sites /\ (pc \in Busy => cache[site] = NoSite) /\ work \in WorkType
    BY DEF TypeInv, WorkInv
  <1>1. CASE lookup_route
    <2>1. /\ pc = "lookup" /\ pc' = "create_map" /\ UNCHANGED <<site, cache, work>>
          /\ \/ objects' = objects \cup {Own("lookup")}
             \/ "device" \in happened' /\ objects' = objects \ {Own("lookup")}
          /\ pc \in Busy /\ pc \in Standing
      BY <1>1 DEF lookup_route, Fail, Busy, Standing, BnatSetup
    <2>2. /\ Own("lookup").kind = "lookup" /\ Own("lookup").site = site
          /\ Own("lookup") = Obj("lookup", site, 0)
      BY DEF Own, Obj, Rules, Routes
    <2>3. /\ \A o \in objects : o.kind # "lookup" \/ o.site # site => o \in objects'
          /\ \A o \in objects' : o \in objects \/ (o.site = site /\ o.kind = "lookup")
          /\ "device" \in happened' \/ Obj("lookup", site, 0) \in objects'
      BY <2>1, <2>2
    <2>4. PresentInv'
      BY <1>0, <2>1, <2>3, PresentFrame
    <2>5. Present(objects, site, Done(0), work.id, work.bypass, work.devices)
      BY <2>1 DEF StageInv
    <2>6. Present(objects', site, Done(0), work.id, work.bypass, work.devices)
      <3>1. \A kind, key : Obj(kind, site, key).kind = kind
        BY DEF Obj
      <3>2. \A kind \in Done(0) : Thing(kind, site, work.id).kind # "lookup"
        BY ThingFields, StandingKinds
      <3>. QED  BY <2>3, <2>5, <3>1, <3>2 DEF Present
    <2>7. Present(objects', site', Done(0), work'.id, work'.bypass, work'.devices)
      BY <2>1, <2>6
    <2>8. StageInv'
      BY <2>1, <2>3, <2>7 DEF StageInv
    <2>. QED  BY <2>4, <2>8
  <1>2. CASE setup_backend \/ teardown_backend
    <2>1. /\ UNCHANGED <<site, cache, objects, work>>
          /\ \/ pc \in BnatSetup /\ pc' \in BnatSetup \cup {"commit"}
             \/ pc = "bnat_down" /\ pc' \in {"bnat_down", "devices_down"}
      BY <1>0, <1>2, SetupBnat, TeardownBnat DEF setup_backend, teardown_backend, setupVars
    <2>2. pc \in Busy
      BY <2>1 DEF Busy, Standing
    <2>3. PresentInv'
      BY <1>0, <2>1, <2>2, PresentFrame
    <2>4. CASE pc \in BnatSetup /\ pc' \in BnatSetup \cup {"commit"}
      <3>1. Present(objects, site, Done(0), work.id, work.bypass, work.devices)
        BY <2>4 DEF StageInv, Standing
      <3>2. Present(objects', site', Done(0), work'.id, work'.bypass, work'.devices)
        BY <2>1, <3>1
      <3>3. "device" \in happened' \/ work'.bypass \/ Obj("lookup", site', 0) \in objects'
        BY <2>1, <2>4 DEF StageInv
      <3>4. pc' # "setup"
        BY <2>4 DEF BnatSetup
      <3>. QED  BY <2>3, <3>2, <3>3, <3>4 DEF StageInv
    <2>5. CASE pc' \in {"bnat_down", "devices_down"}
      BY <2>3, <2>5 DEF StageInv, Standing, BnatSetup
    <2>. QED  BY <2>1, <2>4, <2>5
  <1>3. CASE commit
    <2>1. /\ pc = "commit" /\ pc' = "idle" /\ UNCHANGED <<site, objects>> /\ cache[site] = NoSite
          /\ cache' = [cache EXCEPT ![site] =
                          [bypass |-> work.bypass, id |-> work.id, devices |-> work.devices]]
          /\ pc \in Busy /\ pc \in Standing /\ pc' \notin Standing
      BY <1>0, <1>3 DEF commit, Busy, Standing, BnatSetup
    <2>2. /\ cache'[site] # NoSite /\ cache'[site].bypass = work.bypass /\ cache'[site].id = work.id
          /\ cache'[site].devices = work.devices
          /\ \A q \in Sites : q # site => cache'[q] = cache[q]
      BY <1>0, <1>3, <2>1, CommitType DEF TypeInv
    <2>3. /\ Present(objects, site, Done(0), work.id, work.bypass, work.devices)
          /\ "device" \in happened \/ work.bypass \/ Obj("lookup", site, 0) \in objects
      BY <2>1 DEF StageInv
    <2>4. Present(objects', site, Done(0), cache'[site].id, cache'[site].bypass, cache'[site].devices)
      BY <2>1, <2>2, <2>3
    <2>5. \/ "device" \in happened' \/ cache'[site].bypass
          \/ Obj("lookup", site, 0) \in objects'
      BY <2>1, <2>2, <2>3
    <2>6. PresentInv'
      BY <1>0, <2>1, <2>2, <2>4, <2>5, PresentFrame
    <2>7. StageInv'
      BY <2>1 DEF StageInv, BnatSetup
    <2>. QED  BY <2>6, <2>7
  <1>. QED  BY <1>1, <1>2, <1>3

\* A teardown touches the routes of its own table only.
LEMMA TeardownPresent ==
    ASSUME TypeInv, WorkInv, IdInv, PresentInv, happened \subseteq happened',
           device_down \/ remove_command
    PROVE  StageInv' /\ PresentInv'
  <1>1. /\ site \in Sites /\ pc \in Busy /\ UNCHANGED <<site, cache>> /\ cache[site] = NoSite
        /\ pc' \notin {"setup"} \cup Standing /\ objects \subseteq Object
    BY DEF device_down, remove_command, WorkInv, TypeInv, Busy, Standing, BnatSetup
  <1>2. CASE device_down
    <2>1. objects' \subseteq objects /\ \A o \in objects : o.site # site => o \in objects'
      BY <1>2 DEF device_down
    <2>2. PresentInv'
      BY <1>1, <2>1, PresentFrame
    <2>. QED  BY <1>1, <2>2 DEF StageInv, Standing
  <1>3. CASE remove_command
    <2>. DEFINE item == Head(work.todo)
    <2>1. ~work.bypass
      BY <1>3 DEF remove_command, WorkInv
    <2>2. objects' = Removed(item) \/ objects' = objects \/ objects' = Lose(objects, {"tap"}, site)
      BY <1>3 DEF remove_command
    <2>. HIDE DEF item
    <2>3. \A kind : Own(kind).site = site
      BY OwnThing, ThingFields
    <2>4. \A o \in Lose(objects, {"tap"}, site) : o \in objects \/ o.site = site
      BY <1>1 DEF Lose, Object
    <2>5. \A o \in objects : o.site # site =>
              /\ o \in WithoutLink(objects, site) /\ o \in WithoutTap(objects, site)
              /\ o \in Lose(objects, {"tap"}, site)
      BY DEF WithoutLink, WithoutTap, Lose, Obj
    <2>6. \A o \in objects' : o \in objects \/ o.site = site
      <3>1. \A o \in Removed(item) : o \in objects \/ o.site = site
        <4>1. \A o \in WithoutLink(objects, site) : o \in objects \/ o.site = site
          BY <1>1, WithoutLinkIs
        <4>2. \A o \in WithoutTap(objects, site) : o \in objects \/ o.site = site
          BY <1>1, WithoutTapIs
        <4>. QED  BY <4>1, <4>2 DEF Removed, Routes
      <3>. QED  BY <2>2, <2>4, <3>1
    <2>7. \A o \in objects : o.site # site =>
              o \in objects' \/ (~work.bypass /\ o.kind \in Routes /\ o.key = work.id)
      <3>1. \A o \in objects : o.site # site =>
                o \in Removed(item) \/ (o.kind \in Routes /\ o.key = work.id)
        BY <2>3, <2>5 DEF Removed, Routes
      <3>. QED  BY <2>1, <2>2, <2>5, <3>1
    <2>8. PresentInv'
      BY <1>1, <2>6, <2>7, PresentFrame
    <2>. QED  BY <1>1, <2>8 DEF StageInv, Standing
  <1>. QED  BY <1>2, <1>3

\* Every step leaves the sites that are up, and the one in hand, what they have.
LEMMA PresentStep ==
    ASSUME TypeInv, WorkInv, AllocType, IdInv, BnatInv, StageInv, PresentInv, [Next]_vars
    PROVE  StageInv' /\ PresentInv'
  <1>1. happened \subseteq happened'
    BY BnatStep
  <1>2. CASE UNCHANGED vars
    BY <1>2 DEF vars, setupVars, bnatVars, StageInv, PresentInv
  <1>3. ASSUME NEW p \in Sites, on_child_up(p)
        PROVE  StageInv' /\ PresentInv'
    <2>1. PICK mode \in ModesOf[p] :
              /\ work'.bypass = (mode = "customer") /\ work'.devices = {}
              /\ work'.todo = (IF mode = "customer" THEN <<>> ELSE SetupOrder)
              /\ pc' = IF mode = "customer" THEN "device" ELSE "setup"
      BY <1>3 DEF on_child_up
    <2>2. UNCHANGED <<cache, objects>>
      BY <1>3 DEF on_child_up
    <2>3. PresentInv'
      BY <1>1, <2>2 DEF PresentInv
    <2>4. StageInv'
      <3>1. CASE mode = "customer"
        <4>1. pc' = "device" /\ work'.bypass = TRUE /\ work'.devices = {}
          BY <2>1, <3>1
        <4>. QED  BY <4>1 DEF StageInv, Present, BnatSetup
      <3>2. CASE mode # "customer"
        <4>1. pc' = "setup" /\ work'.todo = SetupOrder
          BY <2>1, <3>2
        <4>2. Done(Len(work'.todo)) = {}
          BY <4>1, OrderTypes, DoneKinds
        <4>. QED  BY <4>1, <4>2 DEF StageInv, Present, Standing, BnatSetup
      <3>. QED  BY <3>1, <3>2
    <2>. QED  BY <2>3, <2>4
  <1>4. ASSUME NEW p \in Sites, on_child_down(p)
        PROVE  StageInv' /\ PresentInv'
    <2>1. /\ UNCHANGED objects /\ pc' = "bnat_down" /\ cache' = [cache EXCEPT ![p] = NoSite]
      BY <1>4 DEF on_child_down
    <2>2. \A q \in Sites : cache'[q] # NoSite => cache'[q] = cache[q]
      BY <2>1 DEF TypeInv
    <2>3. PresentInv'
      BY <1>1, <2>1, <2>2 DEF PresentInv
    <2>. QED  BY <2>1, <2>3 DEF StageInv, Standing, BnatSetup
  <1>5. CASE Crash \/ init
    <2>1. pc' \in {"down", "idle"} /\ \A q \in Sites : cache'[q] = NoSite
      BY <1>5 DEF Crash, init, WorkInv
    <2>. QED  BY <2>1 DEF StageInv, PresentInv, Standing, BnatSetup
  <1>. QED
    BY <1>1, <1>2, <1>3, <1>4, <1>5, SetupCommandPresent, DeviceCommandPresent, StagePresent,
       TeardownPresent DEF Next

-----------------------------------------------------------------------------
\* No second path to an installed device

\* The devices' paths in S are over the tap in use.
PathsLive(S, p, devices) ==
    \A o \in S : o.kind = "path" /\ o.site = p /\ o.key \in devices => o.live

\* Unless a route del has failed, so are those of the sites that are up and of the
\* devices already done of the one in hand.
PathInv ==
    "route_del" \notin happened =>
    /\ \A p \in Sites : cache[p] # NoSite /\ ~cache[p].bypass =>
          PathsLive(objects, p, cache[p].devices)
    /\ pc \in Standing /\ ~work.bypass => PathsLive(objects, site, work.devices)

\* A handler brings other sites no path.
LEMMA OthersObjects ==
    ASSUME TypeInv, WorkInv,
           setup_command \/ device_command \/ lookup_route \/ device_down \/ remove_command
    PROVE  \A o \in objects' : o \in objects \/ o.site = site
  <1>0. objects \subseteq Object
    BY DEF TypeInv
  <1>1. /\ \A kind : Own(kind).site = site
        /\ \A kind, key : Obj(kind, site, key).site = site
    BY OwnThing, ThingFields DEF Obj
  <1>2. \A o \in Lose(objects, {"tap"}, site) : o \in objects \/ o.site = site
    BY <1>0 DEF Lose, Object
  <1>3. CASE setup_command
    <2>1. PICK item : \/ objects' = Installed(item)
                      \/ objects' = objects \cup {Own("fib")}
                      \/ objects' = Lose(objects, {"tap"}, site)
      BY <1>3 DEF setup_command
    <2>. QED  BY <1>1, <1>2, <2>1 DEF Installed
  <1>4. CASE device_command
    <2>1. \/ UNCHANGED objects
          \/ \E d \in work.pending : \E S \in {objects, WithoutPaths(d), StalePaths(d)} :
                \/ objects' = S \cup NatOf(d)
                \/ HalfInstalled(S, d)
      BY <1>4 DEF device_command
    <2>. QED  BY <1>0, <1>1, <2>1, PathsOf DEF NatOf, HalfInstalled
  <1>5. CASE lookup_route \/ device_down
    BY <1>1, <1>5 DEF lookup_route, device_down
  <1>6. CASE remove_command
    <2>1. PICK item : \/ objects' = Removed(item) \/ objects' = objects
                      \/ objects' = Lose(objects, {"tap"}, site)
      BY <1>6 DEF remove_command
    <2>2. \A o \in WithoutLink(objects, site) \cup WithoutTap(objects, site) :
              o \in objects \/ o.site = site
      BY <1>0, WithoutLinkIs, WithoutTapIs
    <2>. QED  BY <1>2, <2>1, <2>2 DEF Removed
  <1>. QED  BY <1>3, <1>4, <1>5, <1>6

\* A step need only see to the paths of the site in hand.
LEMMA PathFrame ==
    ASSUME PathInv, happened \subseteq happened',
           \A q \in Sites : q # site' => cache'[q] = cache[q],
           \A o \in objects' : o \in objects \/ o.site = site',
           cache'[site'] # NoSite =>
               \/ "route_del" \in happened' \/ cache'[site'].bypass
               \/ PathsLive(objects', site', cache'[site'].devices),
           pc' \in Standing =>
               \/ "route_del" \in happened' \/ work'.bypass
               \/ PathsLive(objects', site', work'.devices)
    PROVE  PathInv'
  <1>1. ASSUME "route_del" \notin happened',
               NEW p \in Sites, cache'[p] # NoSite, ~cache'[p].bypass
        PROVE  PathsLive(objects', p, cache'[p].devices)
    <2>1. CASE p = site'
      BY <1>1, <2>1
    <2>2. CASE p # site'
      <3>1. PathsLive(objects, p, cache[p].devices) /\ cache'[p] = cache[p]
        BY <1>1, <2>2 DEF PathInv
      <3>. QED  BY <2>2, <3>1 DEF PathsLive
    <2>. QED  BY <2>1, <2>2
  <1>. QED  BY <1>1 DEF PathInv

\* Every step leaves an installed device one path, or its route del has failed.
LEMMA PathStep ==
    ASSUME TypeInv, WorkInv, AllocType, BnatInv, PathInv, [Next]_vars
    PROVE  PathInv'
  <1>0. happened \subseteq happened'
    BY BnatStep
  <1>1. site \in Sites /\ (pc \in Busy => cache[site] = NoSite) /\ work \in WorkType
    BY DEF TypeInv, WorkInv
  <1>2. CASE UNCHANGED vars
    BY <1>2 DEF vars, setupVars, bnatVars, PathInv, PathsLive
  <1>3. ASSUME NEW p \in Sites, on_child_up(p)
        PROVE  PathInv'
    <2>1. /\ site' = p /\ cache[p] = NoSite /\ UNCHANGED <<cache, objects>>
          /\ work'.devices = {}
      BY <1>3 DEF on_child_up
    <2>. QED  BY <1>0, <2>1, PathFrame DEF PathsLive
  <1>4. ASSUME NEW p \in Sites, on_child_down(p)
        PROVE  PathInv'
    <2>1. /\ site' = p /\ UNCHANGED objects /\ pc' = "bnat_down"
          /\ cache' = [cache EXCEPT ![p] = NoSite]
      BY <1>4 DEF on_child_down
    <2>2. cache'[p] = NoSite /\ \A q \in Sites : q # p => cache'[q] = cache[q]
      BY <2>1 DEF TypeInv
    <2>. QED  BY <1>0, <2>1, <2>2, PathFrame DEF Standing, BnatSetup
  <1>5. CASE setup_command
    <2>1. /\ UNCHANGED <<site, cache>> /\ cache[site] = NoSite /\ work'.devices = {}
      <3>1. /\ pc = "setup" /\ UNCHANGED <<site, cache>>
            /\ \E todo : work' = [work EXCEPT !.todo = todo]
        BY <1>5 DEF setup_command
      <3>. QED  BY <1>1, <3>1 DEF WorkInv, WorkType, Busy
    <2>. QED  BY <1>0, <1>5, <2>1, OthersObjects, PathFrame DEF PathsLive
  <1>6. CASE device_command
    <2>0. /\ pc = "device" /\ UNCHANGED <<site, cache>> /\ cache[site] = NoSite
      BY <1>1, <1>6 DEF device_command, Busy, Standing
    <2>1. ASSUME ~work'.bypass, "route_del" \notin happened'
          PROVE  PathsLive(objects', site, work'.devices)
      <3>1. PathsLive(objects, site, work.devices) \/ work.bypass
        BY <1>0, <2>0, <2>1 DEF PathInv, Standing
      <3>2. CASE UNCHANGED <<objects, work>>
        BY <2>1, <3>1, <3>2
      <3>3. ASSUME NEW d \in work.pending,
                   \/ \A o \in objects' : o \in WithoutPaths(d) \/ o.live
                   \/ objects' = objects /\ work'.devices = work.devices,
                   work'.bypass = work.bypass, work'.devices \subseteq work.devices \cup {d}
            PROVE  PathsLive(objects', site, work'.devices)
        BY <2>1, <3>1, <3>3 DEF PathsLive, WithoutPaths
      <3>4. CASE work.pending # {}
        <4>1. PICK d \in work.pending :
                  \/ /\ objects' = (IF work.bypass THEN objects ELSE WithoutPaths(d)) \cup NatOf(d)
                     /\ work' = [work EXCEPT !.pending = @ \ {d}, !.devices = @ \cup {d}]
                  \/ /\ objects' = objects \/ HalfInstalled(WithoutPaths(d), d)
                     /\ work' = [work EXCEPT !.pending = @ \ {d}]
          BY <1>6, <2>1, <3>4 DEF device_command, Fail, FailBoth
        <4>2. /\ work'.bypass = work.bypass /\ work'.devices \subseteq work.devices \cup {d}
              /\ \/ objects' = objects /\ work'.devices = work.devices
                 \/ HalfInstalled(WithoutPaths(d), d)
                 \/ objects' = (IF work.bypass THEN objects ELSE WithoutPaths(d)) \cup NatOf(d)
          <5>1. CASE /\ objects' = (IF work.bypass THEN objects ELSE WithoutPaths(d)) \cup NatOf(d)
                     /\ work' = [work EXCEPT !.pending = @ \ {d}, !.devices = @ \cup {d}]
            <6>1. work'.bypass = work.bypass /\ work'.devices = work.devices \cup {d}
              BY <1>1, <5>1 DEF WorkType
            <6>. QED  BY <5>1, <6>1
          <5>2. CASE /\ objects' = objects \/ HalfInstalled(WithoutPaths(d), d)
                     /\ work' = [work EXCEPT !.pending = @ \ {d}]
            <6>1. work'.bypass = work.bypass /\ work'.devices = work.devices
              BY <1>1, <5>2 DEF WorkType
            <6>. QED  BY <5>2, <6>1
          <5>. QED  BY <4>1, <5>1, <5>2
        <4>3. \/ objects' = objects /\ work'.devices = work.devices
              \/ \A o \in objects' : o \in WithoutPaths(d) \/ o.live
          <5>1. ~work.bypass /\ \A kind : Obj(kind, site, d).live
            BY <2>1, <4>2 DEF Obj
          <5>. QED  BY <4>2, <5>1 DEF NatOf, HalfInstalled
        <4>. QED  BY <3>3, <4>2, <4>3
      <3>. QED  BY <1>6, <3>2, <3>4 DEF device_command
    <2>. QED  BY <1>0, <1>6, <2>0, <2>1, OthersObjects, PathFrame
  <1>7. CASE lookup_route
    <2>1. /\ pc = "lookup" /\ UNCHANGED <<site, cache, work>> /\ cache[site] = NoSite
          /\ objects' \subseteq objects \cup {Own("lookup")} /\ Own("lookup").kind # "path"
      BY <1>1, <1>7 DEF lookup_route, Busy, Standing, Own, Obj
    <2>2. ASSUME ~work'.bypass, "route_del" \notin happened'
          PROVE  PathsLive(objects', site, work'.devices)
      BY <1>0, <2>1, <2>2 DEF PathInv, PathsLive, Standing
    <2>. QED  BY <1>0, <1>7, <2>1, <2>2, OthersObjects, PathFrame
  <1>8. CASE setup_backend \/ teardown_backend
    <2>1. /\ UNCHANGED <<site, cache, objects, work>>
          /\ \/ pc \in BnatSetup
             \/ pc = "bnat_down" /\ pc' \in {"bnat_down", "devices_down"}
      BY <1>1, <1>8, SetupBnat, TeardownBnat DEF setup_backend, teardown_backend, setupVars
    <2>2. pc' \in Standing => pc \in Standing
      BY <2>1 DEF Standing, BnatSetup
    <2>. QED  BY <1>0, <2>1, <2>2 DEF PathInv, PathsLive
  <1>9. CASE commit
    <2>1. /\ pc = "commit" /\ pc' = "idle" /\ UNCHANGED <<site, objects>>
          /\ cache' = [cache EXCEPT ![site] =
                          [bypass |-> work.bypass, id |-> work.id, devices |-> work.devices]]
      BY <1>9 DEF commit
    <2>2. /\ cache'[site].bypass = work.bypass /\ cache'[site].devices = work.devices
          /\ \A q \in Sites : q # site => cache'[q] = cache[q]
      BY <1>1, <2>1 DEF TypeInv
    <2>3. \/ "route_del" \in happened \/ work.bypass \/ PathsLive(objects, site, work.devices)
      BY <2>1 DEF PathInv, Standing
    <2>4. pc' \notin Standing
      BY <2>1 DEF Standing, BnatSetup
    <2>. QED  BY <1>0, <2>1, <2>2, <2>3, <2>4, PathFrame
  <1>10. CASE device_down \/ remove_command
    <2>1. /\ UNCHANGED <<site, cache>> /\ pc \in Busy /\ pc' \notin Standing
      BY <1>10 DEF device_down, remove_command, Busy, Standing, BnatSetup
    <2>. QED  BY <1>0, <1>1, <1>10, <2>1, OthersObjects, PathFrame
  <1>11. CASE Crash \/ init
    <2>1. pc' \in {"down", "idle"} /\ \A q \in Sites : cache'[q] = NoSite
      BY <1>11 DEF Crash, init, WorkInv
    <2>. QED  BY <2>1 DEF PathInv, Standing, BnatSetup
  <1>. QED
    BY <1>2, <1>3, <1>4, <1>5, <1>6, <1>7, <1>8, <1>9, <1>10, <1>11 DEF Next

-----------------------------------------------------------------------------
\* The invariant

IInv ==
    /\ TypeInv /\ WorkInv /\ AllocType /\ IdInv /\ BnatInv
    /\ TidyInv /\ StageInv /\ PresentInv /\ PathInv

\* A process that has just started has nothing.
LEMMA InitIInv ==
    ASSUME Init
    PROVE  IInv
  <1>1. /\ maps = {} /\ chains = {} /\ rules = [c \in BaseChains |-> <<>>]
        /\ bnat = [p \in Sites |-> {}] /\ failures = 0 /\ happened = {}
        /\ pc = "idle" /\ site \in Sites /\ objects = {} /\ alloc = Fresh /\ work = NoWork
        /\ cache = [p \in Sites |-> NoSite]
        /\ pc \notin Busy /\ pc \notin Standing /\ pc \notin BnatSetup
    BY DEF Init, BnatInit, Busy, Standing, BnatSetup
  <1>2. /\ <<>> \in Seq(0 .. 0 - 1) /\ Len(<<>>) = 0 /\ DOMAIN <<>> = {} /\ <<>> \in Seq(Rule)
        /\ alloc = [next |-> 0, free |-> <<>>] /\ alloc.next = 0 /\ alloc.free = <<>>
        /\ 0 \in Ids
    BY <1>1, HolderCount DEF Fresh, Ids
  <1>3. AllocType
    BY <1>2 DEF AllocType
  <1>4. TypeInv
    BY <1>1, <1>3, NoWorkType DEF TypeInv, Steps
  <1>5. WorkInv
    BY <1>1 DEF WorkInv, NoWork
  <1>6. IdInv
    <2>1. Holders = {} /\ Cardinality(Holders) = 0
      BY <1>1, FS_EmptySet DEF Holders, Holding
    <2>. QED  BY <1>1, <1>2, <2>1 DEF IdInv
  <1>7. BnatInv
    <2>1. BnatTypeOK
      <3>1. rules \in [BaseChains -> Seq(Rule)]
        BY <1>1, <1>2
      <3>. QED  BY <1>1, <3>1, BackendAssumption DEF BnatTypeOK
    <2>2. \A c \in BaseChains : DOMAIN rules[c] = {}
      BY <1>1, <1>2
    <2>3. RuleInv
      <3>1. \A kind \in DOMAIN ChainOf : ChainOf[kind] \in BaseChains
        BY DEF ChainOf, BaseChains
      <3>2. \A p \in Sites : \A kind \in DOMAIN ChainOf : Known(p, kind) = {} /\ kind \notin bnat[p]
        BY <1>1, <2>2, <3>1 DEF Known
      <3>. QED  BY <2>2, <3>2 DEF RuleInv
    <2>4. MapInv /\ LearntInv
      BY <1>1 DEF MapInv, LearntInv
    <2>5. SplitsFirst
      BY <2>2 DEF SplitsFirst, BaseChains
    <2>. QED  BY <2>1, <2>3, <2>4, <2>5 DEF BnatInv
  <1>8. TidyInv /\ StageInv /\ PresentInv /\ PathInv
    BY <1>1 DEF TidyInv, StageInv, PresentInv, PathInv
  <1>. QED  BY <1>3, <1>4, <1>5, <1>6, <1>7, <1>8 DEF IInv

\* Every step of a handler, and every failure, keeps the invariant.
LEMMA StepIInv ==
    ASSUME IInv, [Next]_vars
    PROVE  IInv'
  BY TypeStep, BnatStep, IdStep, TidyStep, PresentStep, PathStep DEF IInv

\* The invariant of the whole plumbing.
THEOREM SetupInvariant == Spec => []IInv
  BY InitIInv, StepIInv, PTL DEF Spec

\* setup_site_vrf and the teardowns keep the types, and VrfAllocator, which grows
\* when it has no free id, never grows beyond the number of sites: every id of a site
\* that failed or went is given back once.
THEOREM SetupTypeCorrect == Spec => []SetupTypeOK
  <1>1. ASSUME IInv
        PROVE  SetupTypeOK
    <2>. USE <1>1 DEF IInv
    <2>1. /\ alloc.next \in Ids /\ alloc.next \in Nat /\ alloc.free \in Seq(0 .. alloc.next - 1)
          /\ Len(alloc.free) \in Nat
      BY AllocParts
    <2>2. Cardinality(Holders) \in Nat
      BY HolderCount DEF Holders
    <2>3. Len(alloc.free) <= alloc.next
      BY <2>1, <2>2 DEF IdInv
    <2>4. /\ work.bypass \in BOOLEAN /\ work.id \in Ids
          /\ work.devices \subseteq Devices /\ work.pending \subseteq Devices
      BY WorkFields DEF TypeInv
    <2>. QED  BY <2>1, <2>3, <2>4 DEF SetupTypeOK, TypeInv, BnatInv, Ids
  <1>. QED  BY <1>1, SetupInvariant, PTL

\* Unless a teardown's command has failed, the rules that send packets into a site's
\* tables or out of them are its own.
LEMMA RulesOwned ==
    ASSUME IInv, NEW p \in Sites, cache[p] # NoSite, "teardown" \notin happened,
           NEW o \in objects, o.kind \in Rules
    PROVE  /\ o.site = p => ~cache[p].bypass /\ o = Thing(o.kind, p, cache[p].id)
           /\ ~cache[p].bypass /\ o.key = cache[p].id => o.site = p
  <1>. USE DEF IInv
  <1>1. /\ o.kind \notin Allowed /\ o.kind \in Keyed
        /\ \A bypass : o.kind \notin NatKinds(bypass)
    BY AllowedOnlyBy DEF NatKinds, Rules, Keyed
  <1>2. o.site \in Sites /\ pc \in Steps /\ pc # "down"
    BY DEF TypeInv, WorkInv, Object
  <1>3. ASSUME NEW q \in Sites, cache[q] # NoSite, o.site = q
        PROVE  ~cache[q].bypass /\ o = Thing(o.kind, q, cache[q].id) /\ o.key = cache[q].id
    <2>1. Tidy(objects, Allowed, q, UpKinds(cache[q].bypass), cache[q].id,
               cache[q].bypass, cache[q].devices)
      BY <1>3, TidyHere
    <2>2. o.kind \in UpKinds(cache[q].bypass) /\ o = Thing(o.kind, q, cache[q].id)
      BY <1>1, <1>3, <2>1 DEF Tidy
    <2>. QED  BY <1>1, <2>2, ThingFields DEF UpKinds
  <1>4. ASSUME o.site # p, ~cache[p].bypass, o.key = cache[p].id
        PROVE  FALSE
    <2>1. p \in Holders /\ IdOf(p) = cache[p].id
      BY <1>4 DEF Holders, Holding, IdOf
    <2>2. CASE cache[o.site] # NoSite
      <3>1. ~cache[o.site].bypass /\ o.key = cache[o.site].id
        BY <1>2, <1>3, <2>2
      <3>2. o.site \in Holders /\ IdOf(o.site) = cache[o.site].id
        BY <1>2, <2>2, <3>1 DEF Holders, Holding, IdOf
      <3>. QED  BY <1>4, <2>1, <3>1, <3>2 DEF IdInv
    <2>3. CASE cache[o.site] = NoSite /\ ~(o.site = site /\ pc \in Busy)
      BY <1>1, <1>2, <2>3 DEF TidyInv
    <2>4. CASE o.site = site /\ pc \in Busy
      <3>1. Tidy(objects, Allowed, site, StageKinds, work.id, work.bypass, StageDevices)
        BY <2>4, TidyHere
      <3>2. o.kind \in StageKinds /\ o = Thing(o.kind, site, work.id)
        BY <1>1, <2>4, <3>1 DEF Tidy
      <3>3. ~work.bypass /\ o.key = work.id
        BY <1>1, <3>2, ThingFields DEF StageKinds
      <3>. QED  BY <1>2, <1>4, <2>4, <3>3, OthersIds
    <2>. QED  BY <2>2, <2>3, <2>4
  <1>. QED  BY <1>3, <1>4

\* A device whose NAT install_device_nat has reported forwards as long as its site is
\* up: its mapping, a route over the tap in use, and the site's tables, rules and
\* marks are there, whatever other sites do and an earlier process has left.  Until
\* a route del fails no second path takes part of its traffic, and until a command
\* of a teardown fails no other rule diverts packets from or into its tables.
THEOREM InstalledAlwaysForward == Spec => []InstalledDevicesForward
  <1>1. ASSUME IInv
        PROVE  InstalledDevicesForward
    <2>. USE <1>1 DEF IInv
    <2>1. SUFFICES ASSUME NEW p \in Sites, cache[p] # NoSite
                   PROVE  LET id == cache[p].id
                              vrf == {Obj(k, p, 0) : k \in {"fib", "tap", "link"} \cup Marks}
                                     \cup {Obj(k, p, id) : k \in Rules \cup Routes}
                              own == {o \in vrf : o.kind \in Rules}
                              used == {o \in objects : o.kind \in Rules /\ (o.site = p \/ o.key = id)}
                          IN  /\ \A d \in cache[p].devices : Obj("global", p, d) \in objects
                              /\ ~cache[p].bypass =>
                                    /\ vrf \subseteq objects
                                    /\ \A d \in cache[p].devices :
                                          /\ {Obj("map", p, d), Obj("path", p, d)} \subseteq objects
                                          /\ \/ "route_del" \in happened
                                             \/ \A o \in Of(p, {"path"}) : o.key = d => o.live
                                    /\ "device" \in happened \/ Obj("lookup", p, 0) \in objects
                                    /\ "teardown" \in happened \/ used = own
                              /\ cache[p].bypass => "teardown" \in happened \/ Of(p, Rules) = {}
      BY <2>1 DEF InstalledDevicesForward
    <2>. DEFINE id == cache[p].id
                vrf == {Obj(k, p, 0) : k \in {"fib", "tap", "link"} \cup Marks}
                       \cup {Obj(k, p, id) : k \in Rules \cup Routes}
                own == {o \in vrf : o.kind \in Rules}
                used == {o \in objects : o.kind \in Rules /\ (o.site = p \/ o.key = id)}
    <2>2. /\ Present(objects, p, Done(0), cache[p].id, cache[p].bypass, cache[p].devices)
          /\ "device" \in happened \/ cache[p].bypass \/ Obj("lookup", p, 0) \in objects
      BY <2>1 DEF PresentInv
    <2>3. \A kind, key : /\ Obj(kind, p, key).kind = kind /\ Obj(kind, p, key).site = p
                         /\ Obj(kind, p, key).key = key
      BY DEF Obj
    <2>4. Done(0) = {"fib", "tap", "link"} \cup Marks \cup Keyed
      BY DEF Done, Marks, Keyed, Rules, Routes
    <2>5. \A d \in cache[p].devices : Obj("global", p, d) \in objects
      BY <2>2 DEF Present
    <2>6. ASSUME ~cache[p].bypass
          PROVE  /\ vrf \subseteq objects
                 /\ \A d \in cache[p].devices :
                       /\ {Obj("map", p, d), Obj("path", p, d)} \subseteq objects
                       /\ \/ "route_del" \in happened
                          \/ \A o \in Of(p, {"path"}) : o.key = d => o.live
                 /\ "device" \in happened \/ Obj("lookup", p, 0) \in objects
                 /\ "teardown" \in happened \/ used = own
      <3>1. \A kind \in {"fib", "tap", "link"} \cup Marks :
                kind \in Done(0) /\ Thing(kind, p, id) = Obj(kind, p, 0)
        BY <2>4, ThingFields DEF Marks, Keyed, Rules, Routes
      <3>2. \A kind \in Rules \cup Routes :
                kind \in Done(0) /\ Thing(kind, p, id) = Obj(kind, p, id)
        BY <2>4 DEF Thing, Keyed
      <3>3. vrf \subseteq objects
        BY <2>2, <2>6, <3>1, <3>2 DEF Present
      <3>4. ASSUME NEW d \in cache[p].devices
            PROVE  /\ {Obj("map", p, d), Obj("path", p, d)} \subseteq objects
                   /\ \/ "route_del" \in happened
                      \/ \A o \in Of(p, {"path"}) : o.key = d => o.live
        <4>1. Obj("map", p, d) \in objects /\ Obj("path", p, d) \in objects
          BY <2>2, <2>6 DEF Present
        <4>2. "route_del" \in happened \/ PathsLive(objects, p, cache[p].devices)
          BY <2>1, <2>6 DEF PathInv
        <4>. QED  BY <4>1, <4>2 DEF Of, PathsLive
      <3>5. ASSUME "teardown" \notin happened
            PROVE  used = own
        <4>1. own = {Thing(kind, p, id) : kind \in Rules}
          <5>1. \A kind \in {"fib", "tap", "link"} \cup Marks : kind \notin Rules
            BY DEF Marks, Rules
          <5>. QED  BY <2>3, <3>2, <5>1
        <4>2. \A kind \in Rules : Thing(kind, p, id) \in used
          BY <2>2, <2>6, <2>3, <3>2 DEF Present
        <4>3. \A o \in used : o = Thing(o.kind, p, id) /\ o.kind \in Rules
          BY <2>1, <2>6, <3>5, RulesOwned
        <4>. HIDE DEF used, own
        <4>. QED  BY <4>1, <4>2, <4>3
      <3>6. "device" \in happened \/ Obj("lookup", p, 0) \in objects
        BY <2>2, <2>6
      <3>. QED  BY <3>3, <3>4, <3>5, <3>6
    <2>7. cache[p].bypass => "teardown" \in happened \/ Of(p, Rules) = {}
      BY <2>1, RulesOwned DEF Of
    <2>. QED  BY <2>5, <2>6, <2>7
  <1>. QED  BY <1>1, SetupInvariant, PTL

\* A site that is down has left nothing behind in VPP, in the kernel or in the bnat
\* table that the failures so far do not explain.
THEOREM NothingLeftBehind == Spec => []NothingLeft
  <1>1. ASSUME IInv
        PROVE  NothingLeft
    <2>. USE <1>1 DEF IInv
    <2>1. SUFFICES ASSUME pc = "idle", NEW p \in Sites, cache[p] = NoSite
                   PROVE  {o.kind : o \in Of(p, Kinds)} \cup BnatLeft(p) \subseteq Allowed
      BY <2>1 DEF NothingLeft, Allowed, RemainOf
    <2>2. {o.kind : o \in Of(p, Kinds)} \subseteq Allowed
      BY <2>1, TidyHere DEF Of
    <2>3. bnat[p] = {} /\ pc # "down"
      BY <2>1 DEF BnatInv, LearntInv, BnatSetup
    <2>4. {m \in {"bnat", "bsnat"} : <<m, p>> \in maps} \subseteq Allowed
      BY <2>1, <2>3 DEF BnatInv, MapInv
    <2>5. {k \in {"chain"} : p \in chains} \subseteq Allowed
      BY <2>1, <2>3 DEF BnatInv, MapInv
    <2>6. {r.kind : r \in RulesOf(p)} \subseteq Allowed
      <3>1. ASSUME NEW r \in RulesOf(p)
            PROVE  r.kind \in Allowed
        <4>1. PICK c \in BaseChains : \E i \in DOMAIN rules[c] : r = rules[c][i]
          BY DEF RulesOf
        <4>2. r \in Rule
          BY <4>1, ChainType DEF BnatInv
        <4>3. r.kind \in DOMAIN ChainOf /\ Uses(r.kind, p)
          BY <4>2 DEF Rule, Uses
        <4>4. Items \subseteq Allowed
          BY <2>3, <4>3, UsesAllowed DEF BnatInv
        <4>. QED  BY <4>3, <4>4, ItemsAre
      <3>. QED  BY <3>1
    <2>. QED  BY <2>2, <2>4, <2>5, <2>6 DEF BnatLeft
  <1>. QED  BY <1>1, SetupInvariant, PTL

\* setup_site_bnat installs the jump to a site's port splits before its default rule,
\* and no rule of an earlier life of the site stands in front of them.
THEOREM SplitsAlwaysFirst == Spec => []SplitsFirst
  <1>1. ASSUME IInv
        PROVE  SplitsFirst
    BY <1>1 DEF IInv, BnatInv
  <1>. QED  BY <1>1, SetupInvariant, PTL

=============================================================================
