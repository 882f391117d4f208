------------------------------ MODULE Failover ------------------------------
(***************************************************************************)
(* A VRRP failover of a pair of nodes.  On the LVS nodes keepalived runs   *)
(* ipsecpulse's notify commands, and notify-master moves the customers'    *)
(* elastic IP and the route of the VPN subnets to its node, one AWS call   *)
(* after the other, before it tells ipsecscale by the role file            *)
(* (ipsecpulse main.rs).  On the Return GW nodes fleetpulse does the same  *)
(* with the route of the backend servers, and has no elastic IP to move    *)
(* (fleetpulse main.rs).                                                   *)
(***************************************************************************)
EXTENDS Naturals, FiniteSets

CONSTANTS
    Lvms,       \* the nodes of a pair
    Preferred,  \* the node tagged "master": the higher priority
    Nobody,     \* no node
    Faults,     \* what may go wrong: a subset of AllFaults
    MaxMoves    \* bound: crashes, interface failures and partitions

\* What the code meets but does not prevent:
\*   aws    an AWS call fails, or takes effect and is reported failed
\*   slow   a node changes its VRRP state while a notify command still runs
\*   split  the heartbeat between the nodes is interrupted
AllFaults == {"aws", "slow", "split"}

ASSUME FailoverAssumption ==
    /\ Preferred \in Lvms /\ Nobody \notin Lvms
    /\ Faults \subseteq AllFaults
    /\ MaxMoves \in Nat

VARIABLES
    pair,      \* "lvs" or "gateway": what the nodes were baked as
    vrrp,      \* vrrp[n]: keepalived's state on n
    script,    \* script[n]: the next steps of the notify commands running on n
    role,      \* role[n]: the role file of n
    eip,       \* AWS: the node the elastic IP is associated with
    route,     \* AWS: the target of 0.0.0.0/0 in rtb-vpn or rtb-backend
    link,      \* heartbeats arrive
    happened,  \* the kinds of faults so far
    moves

awsVars == <<eip, route>>
vars == <<pair, vrrp, script, role, awsVars, link, happened, moves>>

VrrpState == {"DOWN", "FAULT", "BACKUP", "MASTER"}
Step == {"eip", "replace", "create", "role", "backup"}

Happens(f) == f \in Faults /\ happened' = happened \cup {f}

Continue(n, from, next) ==
    /\ from \in script[n]
    /\ script' = [script EXCEPT ![n] = (@ \ {from}) \cup next]

-----------------------------------------------------------------------------
\* notify-master: an error ends the command, and nothing runs it again

\* (fault: an error is logged and the command goes on)
associate_eipOnward(n) ==
    /\ Continue(n, "eip", {"replace"})
    /\ \/ eip' = n /\ UNCHANGED happened
       \/ Happens("aws") /\ UNCHANGED eip
    /\ UNCHANGED <<pair, vrrp, role, route, link, moves>>

associate_eip(n) ==
    /\ \/ Continue(n, "eip", {"replace"}) /\ eip' = n /\ UNCHANGED happened
       \/ Continue(n, "eip", {}) /\ eip' \in {eip, n} /\ Happens("aws")
    /\ UNCHANGED <<pair, vrrp, role, route, link, moves>>

\* (fault: a route that does not exist yet counts as an error)
upsert_routeNoCreate(n) ==
    /\ \/ Continue(n, "replace", {"role"}) /\ route # Nobody /\ route' = n
          /\ UNCHANGED happened
       \/ Continue(n, "replace", {}) /\ route = Nobody /\ UNCHANGED <<route, happened>>
    /\ UNCHANGED <<pair, vrrp, role, eip, link, moves>>

\* ReplaceRoute, then CreateRoute if there was none, which fails if there is one
\* by then.
upsert_route(n) ==
    /\ \/ Continue(n, "replace", {"role"}) /\ route # Nobody /\ route' = n
          /\ UNCHANGED happened
       \/ Continue(n, "replace", {"create"}) /\ route = Nobody
          /\ UNCHANGED <<route, happened>>
       \/ Continue(n, "create", {"role"}) /\ route = Nobody /\ route' = n
          /\ UNCHANGED happened
       \/ Continue(n, "create", {}) /\ route # Nobody /\ UNCHANGED <<route, happened>>
       \/ \E s \in {"replace", "create"} : Continue(n, s, {})
          /\ route' \in {route, n} /\ Happens("aws")
    /\ UNCHANGED <<pair, vrrp, role, eip, link, moves>>

WriteMaster(n) ==
    /\ Continue(n, "role", {})
    /\ role' = [role EXCEPT ![n] = "master"]
    /\ UNCHANGED <<pair, vrrp, awsVars, link, happened, moves>>

\* (fault: the role file is left alone)
run_notify_backupSilent(n) ==
    /\ Continue(n, "backup", {})
    /\ UNCHANGED <<pair, vrrp, role, awsVars, link, happened, moves>>

run_notify_backup(n) ==
    /\ Continue(n, "backup", {})
    /\ role' = [role EXCEPT ![n] = "backup"]
    /\ UNCHANGED <<pair, vrrp, awsVars, link, happened, moves>>

-----------------------------------------------------------------------------
\* keepalived, as the rendered vrrp.conf configures it

\* The notify commands of vrrp.conf, by their first step
Notifies(s) ==
    IF s = "MASTER" THEN {IF pair = "lvs" THEN "eip" ELSE "replace"}
    ELSE IF s = "BACKUP" THEN {"backup"} ELSE {}

Calm(N) == IF \A m \in N : script[m] = {} THEN UNCHANGED happened ELSE Happens("slow")

\* (fault: FAULT is notified of, too, by a command that there is not)
TransitNotifyingFault(n, s) ==
    /\ Calm(Lvms)
    /\ vrrp' = [vrrp EXCEPT ![n] = s]
    /\ script' = [script EXCEPT ![n] = @ \cup IF s = "FAULT" THEN {"fault"} ELSE Notifies(s)]

\* n's VRRP state becomes s; keepalived starts the command and does not wait for
\* one that runs.
Transit(n, s) ==
    /\ Calm(Lvms)
    /\ vrrp' = [vrrp EXCEPT ![n] = s]
    /\ script' = [script EXCEPT ![n] = @ \cup Notifies(s)]

Hears(n, m) == m # n /\ vrrp[m] = "MASTER" /\ link

\* The preferred node does not preempt (nopreempt), the other never could.
Elect(n) ==
    /\ vrrp[n] = "BACKUP"
    /\ \A m \in Lvms : ~Hears(n, m)
    /\ Transit(n, "MASTER")
    /\ UNCHANGED <<pair, role, awsVars, link, moves>>

Yield(n) ==
    /\ vrrp[n] = "MASTER" /\ n # Preferred
    /\ Hears(n, Preferred)
    /\ Transit(n, "BACKUP")
    /\ UNCHANGED <<pair, role, awsVars, link, moves>>

\* track_interface: no notify command belongs to FAULT.
InterfaceDown(n) ==
    /\ vrrp[n] \in {"BACKUP", "MASTER"}
    /\ moves < MaxMoves /\ moves' = moves + 1
    /\ Transit(n, "FAULT")
    /\ UNCHANGED <<pair, role, awsVars, link>>

Up(n) ==
    /\ vrrp[n] = "FAULT"
    /\ Transit(n, "BACKUP")
    /\ UNCHANGED <<pair, role, awsVars, link, moves>>

\* keepalived's start_pre runs the boot command, which reads the instance's tags,
\* interfaces and the EC2 API and writes the state file, vrrp.conf and the notify
\* scripts.  If a call fails keepalived does not start.  /run is empty after a
\* boot, and keepalived starts as BACKUP.
run_boot(n) ==
    /\ vrrp[n] = "DOWN"
    /\ \/ Transit(n, "BACKUP")
       \/ Happens("aws") /\ UNCHANGED <<vrrp, script>>
    /\ UNCHANGED <<pair, role, awsVars, link, moves>>

Crash(n) ==
    /\ vrrp[n] # "DOWN"
    /\ moves < MaxMoves /\ moves' = moves + 1
    /\ Calm(Lvms \ {n})
    /\ vrrp' = [vrrp EXCEPT ![n] = "DOWN"]
    /\ script' = [script EXCEPT ![n] = {}]
    /\ role' = [role EXCEPT ![n] = "none"]
    /\ UNCHANGED <<pair, awsVars, link>>

LinkDown ==
    /\ link /\ link' = FALSE
    /\ moves < MaxMoves /\ moves' = moves + 1
    /\ Happens("split")
    /\ UNCHANGED <<pair, vrrp, script, role, awsVars>>

LinkUp ==
    /\ ~link /\ link' = TRUE
    /\ UNCHANGED <<pair, vrrp, script, role, awsVars, happened, moves>>

-----------------------------------------------------------------------------

Init ==
    /\ pair \in {"lvs", "gateway"}
    /\ vrrp = [n \in Lvms |-> "DOWN"]
    /\ script = [n \in Lvms |-> {}]
    /\ role = [n \in Lvms |-> "none"]
    /\ eip = Nobody /\ route = Nobody
    /\ link = TRUE
    /\ happened = {} /\ moves = 0

Notify(n) ==
    associate_eip(n) \/ upsert_route(n) \/ WriteMaster(n) \/ run_notify_backup(n)

Next ==
    \/ \E n \in Lvms :
          \/ Notify(n)
          \/ Elect(n) \/ Yield(n) \/ InterfaceDown(n) \/ Up(n) \/ run_boot(n) \/ Crash(n)
    \/ LinkDown \/ LinkUp

Spec == Init /\ [][Next]_vars

\* A started command runs on, and keepalived's timers fire.
FairSpec == Spec /\ \A n \in Lvms : WF_vars(Notify(n)) /\ WF_vars(Elect(n) \/ Up(n) \/ run_boot(n))

-----------------------------------------------------------------------------
\* Properties

FailoverTypeOK ==
    /\ pair \in {"lvs", "gateway"}
    /\ vrrp \in [Lvms -> VrrpState]
    /\ script \in [Lvms -> SUBSET Step]
    /\ role \in [Lvms -> {"none", "backup", "master"}]
    /\ eip \in Lvms \cup {Nobody} /\ route \in Lvms \cup {Nobody}
    /\ link \in BOOLEAN
    /\ happened \subseteq Faults
    /\ moves \in Nat

\* A master that tells the node's daemons to act has the route and, of the LVS
\* nodes, the elastic IP, whichever AWS call failed in this failover or an earlier
\* one: the role file is written last (run_notify_master of both programs).
MasterCarriesTraffic ==
    happened \subseteq {"aws"} =>
        \A n \in Lvms :
            vrrp[n] = "MASTER" /\ script[n] = {} /\ role[n] = "master"
                => (pair = "lvs" => eip = n) /\ route = n

\* At most one node that its peer can take for alive writes the shared keys
\* (main.rs run_notify_backup, "ipsecscale sees backup and idles").
OneWriter ==
    happened \subseteq {"aws"} =>
        \A m, n \in Lvms :
            /\ vrrp[m] # "FAULT" /\ script[m] = {} /\ role[m] = "master"
            /\ vrrp[n] # "FAULT" /\ script[n] = {} /\ role[n] = "master"
            => m = n

\* The failover ends: the node that stays master gets the elastic IP, the route
\* and the role, and keeps them (main.rs State, "the customer-facing EIP always
\* points to on the current VRRP master").
FailoverCompletes ==
    [](happened = {}) =>
        \A n \in Lvms :
            <>[](vrrp[n] = "MASTER")
                => <>[]((pair = "lvs" => eip = n) /\ route = n /\ role[n] = "master")

=============================================================================
