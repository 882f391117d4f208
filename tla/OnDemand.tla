------------------------------ MODULE OnDemand ------------------------------
(***************************************************************************)
(* On-demand bring-up (ondemand.rs): a backend's packet to a device whose  *)
(* tunnel is down reaches some concentrator, which looks up the site's     *)
(* gateway and initiates the CHILD_SA itself, or hands the gateway over    *)
(* to the node that owns it in the LVS ring (JhashRing).                   *)
(*                                                                         *)
(* Time is measured by the ages of what the code times: a peer's entry in  *)
(* the de-duplication table and a running initiate.  A Tick ages both.     *)
(***************************************************************************)
EXTENDS JhashRing, Sequences

CONSTANTS
    Peers,          \* customer gateways; the devices of one are not told apart, and
                    \* one whose gw field is no IPv4 address has no Hash
    NoRing,         \* None of Option<LvsRing>
    Ttl,            \* ticks of INFLIGHT_TTL
    InitiateBound,  \* ticks an initiate takes at most, connecting included
    Modes,          \* owner modes in use, a subset of OwnerMode
    LookupBound,    \* ticks a lookup in Valkey takes at most
    MaxQueue,       \* bound: capacity of the trigger channel
    MaxBreaks       \* bound: failures, and nodes that restart, join or leave

OwnerMode == {"any", "jhash"}

ASSUME OnDemandAssumption ==
    /\ \A S \in SUBSET Nodes : S # NoRing
    /\ InitiateBound \in Nat /\ LookupBound \in Nat /\ Ttl \in Nat
    /\ Modes \subseteq OwnerMode
    /\ MaxQueue \in Nat /\ MaxBreaks \in Nat

VARIABLES
    live,      \* nodes in service
    published, \* Valkey: the published ring
    up,        \* up[p]: nodes that hold a CHILD_SA of p
    mode,      \* mode[n]: IPSECNODE_ONDEMAND_OWNER of n
    knows,     \* nodes whose process has learnt its own address (my_ip)
    conn,      \* conn[n]: the task's Valkey connection, see ConnState
    myRing,    \* myRing[n]: the ring n read last
    queue,     \* queue[n]: the trigger channel of n
    task,      \* task[n]: the trigger whose lookup is under way, or Idle
    inflight,  \* inflight[n][p]: age of p's entry, Ttl when there is none
    calls,     \* calls[n]: the initiates under way on n
    handoffs,  \* published handoffs that are on their way
    deaf,      \* nodes whose subscription to handoffs has ended
    breaks

ownVars == <<mode, knows, conn>>
nodeVars == <<ownVars, myRing, queue, task, inflight, calls, deaf>>
vars == <<live, published, up, nodeVars, handoffs, breaks>>

Trigger == [kind : {"Local", "HandedOff"}, peer : Peers]
Handoff == [owner : Nodes, peer : Peers]

\* A connection that has ended is not opened again; without a first one the task
\* has returned, and main does not watch it.
ConnState == {"open", "broken", "none"}

\* A lookup under way: its trigger was received age ticks ago, when an entry of
\* the peer was (known) or was not in the table.
Idle == [step |-> "idle"]
Lookup(p, known) == [step |-> "lookup", peer |-> p, age |-> 0, known |-> known]

Break == breaks < MaxBreaks /\ breaks' = breaks + 1

-----------------------------------------------------------------------------
\* The task of node n. A definition marked "fault" is the one after it with a
\* plausible bug.

\* decide: without a ring, the own address or the peer's, initiating here is
\* correct if not optimal.
Decide(n, p) ==
    IF \/ mode[n] = "any"
       \/ myRing[n] \in {NoRing, {}} \/ n \notin knows
       \/ p \notin DOMAIN Hash
    THEN n
    ELSE owner_of(p, myRing[n])

\* Entries are dropped when a trigger is received, not again after its lookup.
Known(n, p) == inflight[n][p] < Ttl

\* (fault: the peer is not remembered)
BeginUnremembered(n, p, age, known) ==
    IF known THEN UNCHANGED <<inflight, calls>>
    ELSE /\ calls' = [calls EXCEPT ![n] = @ \cup {[peer |-> p, age |-> 0]}]
         /\ UNCHANGED inflight

\* The de-duplication and spawn_initiate: the entry is as old as the trigger's
\* receipt.
Begin(n, p, age, known) ==
    IF known THEN UNCHANGED <<inflight, calls>>
    ELSE /\ inflight' = [inflight EXCEPT ![n][p] = age]
         /\ calls' = [calls EXCEPT ![n] = @ \cup {[peer |-> p, age |-> 0]}]

\* A handed-off peer is ours by construction; a packet's is looked up first.
Receive(n) ==
    /\ task[n] = Idle
    /\ queue[n] # <<>>
    /\ queue' = [queue EXCEPT ![n] = Tail(@)]
    /\ LET t == Head(queue[n])
       IN  IF t.kind = "HandedOff"
           THEN Begin(n, t.peer, 0, Known(n, t.peer)) /\ UNCHANGED task
           ELSE /\ task' = [task EXCEPT ![n] = Lookup(t.peer, Known(n, t.peer))]
                /\ UNCHANGED <<inflight, calls>>
    /\ UNCHANGED <<live, published, up, ownVars, myRing, handoffs, deaf, breaks>>

\* resolve_peer, then decide; a failed lookup or publish is only logged, and both
\* fail for good on a connection that has ended.
Resolve(n) ==
    /\ task[n] # Idle
    /\ task' = [task EXCEPT ![n] = Idle]
    /\ LET p == task[n].peer
           owner == Decide(n, p)
       IN  \/ /\ conn[n] = "open" /\ owner = n
              /\ Begin(n, p, task[n].age, task[n].known)
              /\ UNCHANGED <<handoffs, breaks>>
           \/ /\ conn[n] = "open" /\ owner # n
              /\ handoffs' = handoffs \cup {[owner |-> owner, peer |-> p]}
              /\ UNCHANGED <<inflight, calls, breaks>>
           \/ /\ IF conn[n] = "open" THEN Break ELSE UNCHANGED breaks
              /\ UNCHANGED <<inflight, calls, handoffs>>
    /\ UNCHANGED <<live, published, up, ownVars, myRing, queue, deaf>>

\* (fault: the ring is read once)
RefreshOnce(n) ==
    /\ n \in live /\ conn[n] = "open"
    /\ myRing[n] = NoRing /\ published # NoRing
    /\ myRing' = [myRing EXCEPT ![n] = published]
    /\ UNCHANGED <<live, published, up, ownVars, queue, task, inflight, calls, handoffs,
                   deaf, breaks>>

\* The refresh timer; without an answer the old ring stays.
Refresh(n) ==
    /\ n \in live /\ conn[n] = "open"
    /\ task[n] = Idle
    /\ myRing[n] # published
    /\ myRing' = [myRing EXCEPT ![n] = published]
    /\ UNCHANGED <<live, published, up, ownVars, queue, task, inflight, calls, handoffs,
                   deaf, breaks>>

-----------------------------------------------------------------------------
\* Handoffs: pub/sub, so only a subscriber gets one

\* (fault: every subscriber takes the message for its own)
ForMeAny(n, h) == TRUE

ForMe(n, h) == h.owner = n

\* initiate_sub_task of every node; a message that is for nobody is gone.
Deliver(h) ==
    /\ handoffs' = handoffs \ {h}
    /\ LET takers == {n \in live \ deaf : ForMe(n, h)}
       IN  /\ \A n \in takers : Len(queue[n]) < MaxQueue
           /\ queue' = [n \in Nodes |->
                           IF n \in takers
                           THEN Append(queue[n], [kind |-> "HandedOff", peer |-> h.peer])
                           ELSE queue[n]]
    /\ UNCHANGED <<live, published, up, ownVars, myRing, task, inflight, calls, deaf, breaks>>

Lose(h) ==
    /\ Break
    /\ handoffs' = handoffs \ {h}
    /\ UNCHANGED <<live, published, up, nodeVars>>

\* The subscription's connection ends; it is not opened again.
SubscriptionEnds(n) ==
    /\ n \in live \ deaf
    /\ Break
    /\ deaf' = deaf \cup {n}
    /\ UNCHANGED <<live, published, up, ownVars, myRing, queue, task, inflight, calls,
                   handoffs>>

\* The task's connection ends: no lookup, publish or refresh succeeds any more.
ConnectionEnds(n) ==
    /\ n \in live /\ conn[n] = "open"
    /\ Break
    /\ conn' = [conn EXCEPT ![n] = "broken"]
    /\ UNCHANGED <<live, published, up, mode, knows, myRing, queue, task,
                   inflight, calls, handoffs, deaf>>

-----------------------------------------------------------------------------
\* Charon, the backend and the customer

\* initiate_child returns: the CHILD_SA is up, or the peer did not answer.
InitiateReturns(n, c) ==
    /\ calls' = [calls EXCEPT ![n] = @ \ {c}]
    /\ \/ up' = [up EXCEPT ![c.peer] = @ \cup {n}] /\ UNCHANGED breaks
       \/ Break /\ UNCHANGED up
    /\ UNCHANGED <<live, published, ownVars, myRing, queue, task, inflight, handoffs, deaf>>

\* The aggregate attracts a backend's packet to any node; the reader drops it.
\* An active_globals entry or a /32 route would keep it from the queue; a queue
\* without a reader lets it pass (bypass).
Packet(n, p) ==
    /\ n \in live /\ conn[n] # "none"
    /\ up[p] = {}
    /\ Len(queue[n]) < MaxQueue
    /\ queue' = [queue EXCEPT ![n] = Append(@, [kind |-> "Local", peer |-> p])]
    /\ UNCHANGED <<live, published, up, ownVars, myRing, task, inflight, calls, handoffs,
                   deaf, breaks>>

SiteDown(p) ==
    /\ up[p] # {}
    /\ \E n \in up[p] : up' = [up EXCEPT ![p] = @ \ {n}]
    /\ UNCHANGED <<live, published, nodeVars, handoffs, breaks>>

-----------------------------------------------------------------------------
\* Time and membership

\* (fault: an entry is not dropped at its Ttl)
OlderUndropped(age) == age + 1

Older(age) == IF age < Ttl THEN age + 1 ELSE Ttl

Fresh == [p \in Peers |-> Ttl]

Tick ==
    /\ \A n \in Nodes : 
          /\ \A c \in calls[n] : c.age < InitiateBound
          /\ task[n] # Idle => task[n].age < LookupBound
    /\ \E n \in Nodes :
          task[n] # Idle \/ calls[n] # {} \/ inflight[n] # Fresh
    /\ inflight' = [n \in Nodes |-> [p \in Peers |-> Older(inflight[n][p])]]
    /\ calls' = [n \in Nodes |-> {[c EXCEPT !.age = @ + 1] : c \in calls[n]}]
    /\ task' = [n \in Nodes |->
                   IF task[n] = Idle THEN Idle ELSE [task[n] EXCEPT !.age = @ + 1]]
    /\ UNCHANGED <<live, published, up, ownVars, myRing, queue, handoffs, deaf, breaks>>

\* The state of a process of n that has just started, or has gone
Restarted(n) ==
    /\ queue' = [queue EXCEPT ![n] = <<>>]
    /\ task' = [task EXCEPT ![n] = Idle]
    /\ inflight' = [inflight EXCEPT ![n] = Fresh]
    /\ calls' = [calls EXCEPT ![n] = {}]
    /\ myRing' = [myRing EXCEPT ![n] = NoRing]

\* What a process finds when it starts: IMDS may not tell it its address, and then
\* it does not subscribe; Valkey may refuse the task's connection, and the task
\* returns, or the subscriber's. A process without a task knows nothing of use.
Boot(n) ==
    \E learnt, heard \in BOOLEAN, c \in {"open", "none"} :
        /\ heard => learnt /\ c = "open"
        /\ c = "none" => learnt
        /\ knows' = IF learnt THEN knows \cup {n} ELSE knows \ {n}
        /\ deaf' = IF heard THEN deaf \ {n} ELSE deaf \cup {n}
        /\ conn' = [conn EXCEPT ![n] = c]

\* An initiate that was under way may still succeed in charon.
RestartNode(n) ==
    /\ n \in live
    /\ Break
    /\ Restarted(n) /\ Boot(n)
    /\ \/ UNCHANGED up
       \/ \E c \in calls[n] : up' = [up EXCEPT ![c.peer] = @ \cup {n}]
    /\ UNCHANGED <<live, published, mode, handoffs>>

Leave(n) ==
    /\ n \in live /\ live # {n}
    /\ Break
    /\ live' = live \ {n}
    /\ up' = [p \in Peers |-> up[p] \ {n}]
    /\ Restarted(n)
    /\ deaf' = deaf \ {n} /\ knows' = knows \cup {n}
    /\ conn' = [conn EXCEPT ![n] = "open"]
    /\ UNCHANGED <<published, mode, handoffs>>

Join(n) ==
    /\ n \in Nodes \ live
    /\ Break
    /\ live' = live \cup {n}
    /\ Boot(n)
    /\ UNCHANGED <<published, up, mode, myRing, queue, task, inflight, calls,
                   handoffs>>

\* ipsecscale publishes the group (VpnRing).
PublishRing ==
    /\ published # live
    /\ published' = live
    /\ UNCHANGED <<live, up, nodeVars, handoffs, breaks>>

-----------------------------------------------------------------------------

\* A process that has started in an outage is one that has restarted in it.
Init ==
    /\ live \in (SUBSET Nodes) \ {{}}
    /\ published = live
    /\ up = [p \in Peers |-> {}]
    /\ mode \in [Nodes -> Modes]
    /\ knows = Nodes /\ conn = [n \in Nodes |-> "open"]
    /\ myRing = [n \in Nodes |-> IF n \in live THEN published ELSE NoRing]
    /\ queue = [n \in Nodes |-> <<>>]
    /\ task = [n \in Nodes |-> Idle]
    /\ inflight = [n \in Nodes |-> Fresh]
    /\ calls = [n \in Nodes |-> {}]
    /\ handoffs = {} /\ deaf = {}
    /\ breaks = 0

TaskStep(n) == Receive(n) \/ Resolve(n)

Next ==
    \/ \E n \in Nodes :
          \/ TaskStep(n) \/ Refresh(n)
          \/ SubscriptionEnds(n) \/ ConnectionEnds(n)
          \/ RestartNode(n) \/ Leave(n) \/ Join(n)
          \/ \E c \in calls[n] : InitiateReturns(n, c)
          \/ \E p \in Peers : Packet(n, p)
    \/ \E h \in handoffs : Deliver(h) \/ Lose(h)
    \/ \E p \in Peers : SiteDown(p)
    \/ Tick \/ PublishRing

Spec == Init /\ [][Next]_vars

\* The task's loop runs forever, and its select picks at random, so that neither
\* the refresh timer nor a waiting sender is passed over forever; an initiate
\* returns within its bound, ipsecscale republishes, time passes, and a backend
\* that wants a device sends again.
FairSpec ==
    /\ Spec
    /\ \A n \in Nodes :
          /\ WF_vars(TaskStep(n)) /\ SF_vars(Refresh(n))
          /\ WF_vars(\E c \in calls[n] : InitiateReturns(n, c))
    /\ SF_vars(\E h \in handoffs : Deliver(h))
    /\ WF_vars(Tick) /\ WF_vars(PublishRing)
    /\ \A p \in Peers : WF_vars(\E n \in Nodes : Packet(n, p))

-----------------------------------------------------------------------------
\* Properties

OnDemandTypeOK ==
    /\ live \subseteq Nodes
    /\ published \in (SUBSET Nodes) \cup {NoRing}
    /\ up \in [Peers -> SUBSET Nodes]
    /\ mode \in [Nodes -> OwnerMode]
    /\ knows \subseteq Nodes
    /\ conn \in [Nodes -> ConnState]
    /\ myRing \in [Nodes -> (SUBSET Nodes) \cup {NoRing}]
    /\ queue \in [Nodes -> Seq(Trigger)]
    /\ task \in [Nodes -> {Idle} \cup
                          [step : {"lookup"}, peer : Peers, age : 0 .. LookupBound,
                           known : BOOLEAN]]
    /\ inflight \in [Nodes -> [Peers -> 0 .. Ttl]]
    /\ calls \in [Nodes -> SUBSET [peer : Peers, age : 0 .. InitiateBound]]
    /\ handoffs \subseteq Handoff
    /\ deaf \subseteq Nodes
    /\ breaks \in Nat

\* A node never runs two initiates of one peer at once, however often it is
\* triggered: an entry outlives the initiate it stands for, provided that the
\* lookup before it, which ages the entry too, and the initiate fit in the window
\* together (ondemand.rs INFLIGHT_TTL against INITIATE_TIMEOUT_MS and
\* connect_with_retry; spawn_initiate, "dedup is handled by the caller").
OneInitiatePerNode ==
    LookupBound + InitiateBound < Ttl =>
    \A n \in Nodes : \A c, d \in calls[n] : c.peer = d.peer => c = d

\* Once every on-demand task that runs works with the published ring, a node that
\* knows its own address initiates a peer whose address can be read only if it is
\* the peer's owner, wherever the backend's packets arrive and whatever was handed
\* off while the rings differed (ondemand.rs decide and initiate_sub_task; without
\* either address decide degrades to initiating on any node).
OnlyOwnersInitiate ==
    <>[](/\ Modes = {"jhash"}
         /\ \A n \in live : conn[n] = "none" \/ myRing[n] = live)
        => <>[](\A n \in knows : \A c \in calls[n] :
                    c.peer \in DOMAIN Hash => n = owner_of(c.peer, live))

\* A site that a backend keeps sending to comes up, again and again, whatever was
\* lost on the way, whichever node left and whatever ring the nodes know, as long
\* as every node ends up with both Valkey connections of its on-demand task: none
\* is opened again, so that only a restart repairs their loss (ondemand.rs
\* ondemand_task: "the sender retransmits once the tunnel is up").
BackendBringsUp ==
    <>[](deaf = {} /\ \A n \in Nodes : conn[n] = "open")
        => \A p \in Peers : []<>(up[p] # {})

=============================================================================
