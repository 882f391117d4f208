--------------------------- MODULE FailoverProofs ---------------------------
(***************************************************************************)
(* A master that acts carries the traffic, and only one node acts, for any *)
(* number of LVS nodes and failovers and whichever AWS calls fail.         *)
(***************************************************************************)
EXTENDS Failover, TLAPS

\* Neither a slow notify command nor a partition so far
Quiet == happened \subseteq {"aws"}

MasterStep == {"eip", "replace", "create", "role"}

\* Of the LVS nodes the elastic IP is at n.
Carries(n) == pair = "lvs" => eip = n

Types ==
    /\ vrrp \in [Lvms -> VrrpState]
    /\ script \in [Lvms -> SUBSET Step]
    /\ role \in [Lvms -> {"none", "backup", "master"}]

\* The command that runs belongs to the state, and its step tells what is done.
NodeOK(n) ==
    /\ \A s, t \in script[n] : s = t
    /\ script[n] \subseteq (IF vrrp[n] = "MASTER" THEN MasterStep
                            ELSE IF vrrp[n] = "BACKUP" THEN {"backup"} ELSE {})
    /\ script[n] \cap {"replace", "create", "role"} # {} => Carries(n)
    /\ "role" \in script[n] => route = n
    /\ vrrp[n] = "MASTER" /\ role[n] = "master"
          => script[n] = {} /\ Carries(n) /\ route = n
    /\ vrrp[n] = "BACKUP" /\ script[n] = {} => role[n] # "master"
    /\ vrrp[n] = "DOWN" => role[n] # "master"

Solo ==
    /\ link
    /\ \A m, n \in Lvms : vrrp[m] = "MASTER" /\ vrrp[n] = "MASTER" => m = n

RoleInv == Types /\ (Quiet => Solo /\ \A n \in Lvms : NodeOK(n))

\* A step keeps the types that the argument reads.
LEMMA TypesNext == Types /\ [Next]_vars => Types'
  <1>. SUFFICES ASSUME Types, [Next]_vars
                PROVE  Types'
    OBVIOUS
  <1>. USE DEF Types, Step, VrrpState
  <1>1. ASSUME NEW n \in Lvms, NEW from \in Step, NEW next \in SUBSET Step,
               Continue(n, from, next)
        PROVE  script' \in [Lvms -> SUBSET Step]
    BY <1>1 DEF Continue
  <1>2. ASSUME NEW n \in Lvms, Notify(n)
        PROVE  Types'
    BY <1>1, <1>2 DEF Notify, associate_eip, upsert_route, WriteMaster, run_notify_backup
  <1>3. ASSUME NEW n \in Lvms, NEW s \in VrrpState, Transit(n, s), UNCHANGED role
        PROVE  Types'
    BY <1>3 DEF Transit, Notifies
  <1>4. ASSUME NEW n \in Lvms,
               Elect(n) \/ Yield(n) \/ InterfaceDown(n) \/ Up(n) \/ run_boot(n)
        PROVE  Types'
    BY <1>3, <1>4 DEF Elect, Yield, InterfaceDown, Up, run_boot
  <1>5. ASSUME NEW n \in Lvms, Crash(n)
        PROVE  Types'
    BY <1>5 DEF Crash
  <1>6. CASE LinkDown \/ LinkUp
    BY <1>6 DEF LinkDown, LinkUp
  <1>7. CASE UNCHANGED vars
    BY <1>7 DEF vars
  <1>. QED  BY <1>2, <1>4, <1>5, <1>6, <1>7 DEF Next

\* A step of n leaves m's command alone; the elastic IP and the route move only
\* while n is the master, and then m's command is not one that moved them.
LEMMA OthersOK ==
    ASSUME NEW m \in Lvms, NodeOK(m),
           UNCHANGED <<pair, vrrp[m], script[m], role[m]>>,
           UNCHANGED <<eip, route>> \/ vrrp[m] # "MASTER"
    PROVE  NodeOK(m)'
  BY DEF NodeOK, MasterStep, Carries

\* A step of n's command keeps every node's account, and the one master.
LEMMA NotifyOK ==
    ASSUME Types, Solo, \A m \in Lvms : NodeOK(m), NEW n \in Lvms, Notify(n)
    PROVE  Solo' /\ \A m \in Lvms : NodeOK(m)'
  <1>. USE DEF Types, Step
  <1>1. UNCHANGED <<pair, vrrp, link>>
    BY DEF Notify, associate_eip, upsert_route, WriteMaster, run_notify_backup
  <1>2. /\ \A s, t \in script[n] : s = t
        /\ script[n] \cap MasterStep # {} => vrrp[n] = "MASTER"
        /\ "backup" \in script[n] => vrrp[n] = "BACKUP"
    BY DEF NodeOK, MasterStep
  <1>3. ASSUME NEW from, NEW next, Continue(n, from, next)
        PROVE  /\ from \in script[n] /\ script[n] = {from} /\ script'[n] = next
               /\ \A m \in Lvms \ {n} : script'[m] = script[m]
    <2>1. from \in script[n] /\ script[n] = {from}
      BY <1>2, <1>3 DEF Continue
    <2>. QED  BY <1>3, <2>1 DEF Continue
  <1>4. \A m \in Lvms \ {n} : vrrp[n] = "MASTER" => vrrp[m] # "MASTER"
    BY DEF Solo
  <1>5. ASSUME NEW m \in Lvms \ {n},
               UNCHANGED <<script[m], role[m]>>,
               UNCHANGED <<eip, route>> \/ vrrp[n] = "MASTER"
        PROVE  NodeOK(m)'
    BY <1>1, <1>4, <1>5, OthersOK
  <1>6. Solo'
    BY <1>1 DEF Solo
  <1>7. CASE associate_eip(n)
    <2>1. /\ script[n] = {"eip"} /\ vrrp[n] = "MASTER"
          /\ role' = role /\ route' = route
          /\ \A m \in Lvms \ {n} : script'[m] = script[m]
          /\ (script'[n] = {"replace"} /\ eip' = n) \/ script'[n] = {}
      BY <1>2, <1>3, <1>7 DEF associate_eip, MasterStep
    <2>2. role[n] # "master"
      BY <2>1 DEF NodeOK
    <2>3. NodeOK(n)'
      BY <1>1, <2>1, <2>2 DEF NodeOK, MasterStep, Carries
    <2>. QED  BY <1>5, <1>6, <2>1, <2>3
  <1>8. CASE upsert_route(n)
    <2>1. /\ script[n] \in {{"replace"}, {"create"}} /\ vrrp[n] = "MASTER"
          /\ role' = role /\ eip' = eip
          /\ \A m \in Lvms \ {n} : script'[m] = script[m]
          /\ \/ script'[n] = {"role"} /\ route' = n
             \/ script'[n] \in {{"create"}, {}}
      BY <1>2, <1>3, <1>8 DEF upsert_route, MasterStep
    <2>2. role[n] # "master" /\ Carries(n)
      BY <2>1 DEF NodeOK
    <2>3. NodeOK(n)'
      BY <1>1, <2>1, <2>2 DEF NodeOK, MasterStep, Carries
    <2>. QED  BY <1>5, <1>6, <2>1, <2>3
  <1>9. CASE WriteMaster(n)
    <2>1. /\ script[n] = {"role"} /\ script'[n] = {} /\ vrrp[n] = "MASTER"
          /\ \A m \in Lvms \ {n} : script'[m] = script[m] /\ role'[m] = role[m]
          /\ UNCHANGED <<eip, route>>
      BY <1>2, <1>3, <1>9 DEF WriteMaster, MasterStep, awsVars
    <2>2. Carries(n) /\ route = n
      BY <2>1 DEF NodeOK
    <2>3. NodeOK(n)'
      BY <1>1, <2>1, <2>2 DEF NodeOK, MasterStep, Carries
    <2>. QED  BY <1>5, <1>6, <2>1, <2>3
  <1>10. CASE run_notify_backup(n)
    <2>1. /\ script[n] = {"backup"} /\ script'[n] = {} /\ vrrp[n] = "BACKUP"
          /\ role'[n] = "backup"
          /\ \A m \in Lvms \ {n} : script'[m] = script[m] /\ role'[m] = role[m]
          /\ UNCHANGED <<eip, route>>
      BY <1>2, <1>3, <1>10 DEF run_notify_backup, awsVars
    <2>2. NodeOK(n)'
      BY <1>1, <2>1 DEF NodeOK, MasterStep, Carries
    <2>. QED  BY <1>5, <1>6, <2>1, <2>2
  <1>. QED  BY <1>7, <1>8, <1>9, <1>10 DEF Notify

\* A step of a command, of keepalived or of the host keeps the invariant.
LEMMA RoleNext == RoleInv /\ [Next]_vars => RoleInv'
  <1>. SUFFICES ASSUME RoleInv, [Next]_vars, Quiet'
                PROVE  Solo' /\ \A m \in Lvms : NodeOK(m)'
    BY TypesNext DEF RoleInv
  <1>. USE DEF Types, VrrpState, Step
  <1>1. happened \subseteq happened'
    BY DEF Next, Notify, associate_eip, upsert_route, WriteMaster, run_notify_backup,
           Elect, Yield, InterfaceDown, Up, run_boot, Crash, LinkDown, LinkUp, Transit, Calm,
           Happens, vars
  <1>2. Types /\ Solo /\ \A m \in Lvms : NodeOK(m)
    BY <1>1 DEF RoleInv, Quiet
  <1>3. ASSUME NEW n \in Lvms, Notify(n)
        PROVE  Solo' /\ \A m \in Lvms : NodeOK(m)'
    BY <1>2, <1>3, NotifyOK
  <1>4. ASSUME NEW n \in Lvms, NEW s \in {"MASTER", "BACKUP", "FAULT"}, Transit(n, s)
        PROVE  /\ script[n] = {} /\ vrrp'[n] = s /\ script'[n] = Notifies(s)
               /\ \A m \in Lvms \ {n} : vrrp'[m] = vrrp[m] /\ script'[m] = script[m]
    <2>1. \A m \in Lvms : script[m] = {}
      BY <1>4 DEF Transit, Calm, Happens, Quiet
    <2>. QED  BY <1>2, <1>4, <2>1 DEF Transit
  <1>5. ASSUME NEW n \in Lvms, NEW s \in {"MASTER", "BACKUP", "FAULT"}, Transit(n, s),
               UNCHANGED <<pair, role, eip, route, link>>,
               s = "MASTER" =>
                   vrrp[n] = "BACKUP" /\ \A m \in Lvms \ {n} : vrrp[m] # "MASTER"
        PROVE  Solo' /\ \A m \in Lvms : NodeOK(m)'
    <2>1. Solo'
      BY <1>2, <1>4, <1>5 DEF Solo
    <2>2. ASSUME NEW m \in Lvms \ {n}
          PROVE  NodeOK(m)'
      BY <1>2, <1>4, <1>5, <2>2, OthersOK
    <2>3. NodeOK(n)'
      <3>1. s = "MASTER" => role[n] # "master"
        BY <1>2, <1>4, <1>5 DEF NodeOK
      <3>. QED  BY <1>4, <1>5, <3>1 DEF NodeOK, Notifies, MasterStep, Carries
    <2>. QED  BY <2>1, <2>2, <2>3
  <1>6. ASSUME NEW n \in Lvms, Elect(n)
        PROVE  Solo' /\ \A m \in Lvms : NodeOK(m)'
    BY <1>2, <1>5, <1>6 DEF Elect, Hears, Solo, awsVars
  <1>7. ASSUME NEW n \in Lvms, Yield(n) \/ InterfaceDown(n) \/ Up(n) \/ run_boot(n)
        PROVE  Solo' /\ \A m \in Lvms : NodeOK(m)'
    <2>1. CASE Transit(n, "BACKUP") \/ Transit(n, "FAULT")
      BY <1>5, <1>7, <2>1 DEF Yield, InterfaceDown, Up, run_boot, awsVars
    <2>2. CASE UNCHANGED <<pair, vrrp, script, role, eip, route, link>>
      BY <1>2, <2>2, OthersOK DEF Solo
    <2>. QED
      BY <1>7, <2>1, <2>2 DEF Yield, InterfaceDown, Up, run_boot, awsVars
  <1>8. ASSUME NEW n \in Lvms, Crash(n)
        PROVE  Solo' /\ \A m \in Lvms : NodeOK(m)'
    <2>1. /\ vrrp'[n] = "DOWN" /\ script'[n] = {} /\ role'[n] = "none"
          /\ \A m \in Lvms \ {n} :
                vrrp'[m] = vrrp[m] /\ script'[m] = script[m] /\ role'[m] = role[m]
          /\ UNCHANGED <<pair, eip, route, link>>
      BY <1>2, <1>8 DEF Crash, awsVars
    <2>2. Solo'
      BY <1>2, <2>1 DEF Solo
    <2>3. \A m \in Lvms \ {n} : NodeOK(m)'
      BY <1>2, <2>1, OthersOK
    <2>4. NodeOK(n)'
      BY <2>1 DEF NodeOK
    <2>. QED  BY <2>2, <2>3, <2>4
  <1>9. CASE LinkDown
    BY <1>9 DEF LinkDown, Happens, Quiet
  <1>10. CASE LinkUp
    BY <1>2, <1>10 DEF LinkUp, Solo
  <1>11. CASE UNCHANGED vars
    BY <1>2, <1>11, OthersOK DEF vars, awsVars, Solo
  <1>. QED
    BY <1>3, <1>6, <1>7, <1>8, <1>9, <1>10, <1>11 DEF Next

\* Two hosts that are down: no role, no command.
LEMMA RoleInit == Init => RoleInv
  BY DEF Init, RoleInv, Types, Solo, NodeOK, VrrpState, Step

-----------------------------------------------------------------------------

\* The role file follows the elastic IP and the route, whichever AWS call fails in
\* whichever failover, as long as notify commands are done before the next
\* transition and the nodes hear each other (main.rs run_notify_master).
THEOREM ActingMasterCarriesTraffic == Spec => []MasterCarriesTraffic
  <1>1. RoleInv => MasterCarriesTraffic
    BY DEF RoleInv, Quiet, NodeOK, MasterCarriesTraffic, Carries
  <1>. QED  BY <1>1, RoleInit, RoleNext, PTL DEF Spec

\* Under the same conditions no two nodes act (main.rs run_notify_backup).
THEOREM OneNodeActs == Spec => []OneWriter
  <1>1. RoleInv => OneWriter
    BY DEF RoleInv, Types, VrrpState, Quiet, Solo, NodeOK, OneWriter
  <1>. QED  BY <1>1, RoleInit, RoleNext, PTL DEF Spec

\* The types of the pair's state in every reachable state.
THEOREM FailoverTypes == Spec => []FailoverTypeOK
  <1>. USE FailoverAssumption DEF FailoverTypeOK, VrrpState, Step
  <1>1. Init => FailoverTypeOK
    BY DEF Init
  <1>2. FailoverTypeOK /\ [Next]_vars => FailoverTypeOK'
    <2>. SUFFICES ASSUME FailoverTypeOK, [Next]_vars
                  PROVE  FailoverTypeOK'
      OBVIOUS
    <2>1. /\ vrrp' \in [Lvms -> VrrpState] /\ script' \in [Lvms -> SUBSET Step]
          /\ role' \in [Lvms -> {"none", "backup", "master"}]
      BY TypesNext DEF Types
    <2>2. happened' \subseteq Faults
      BY DEF Next, Notify, associate_eip, upsert_route, WriteMaster, run_notify_backup,
             Elect, Yield, InterfaceDown, Up, run_boot, Crash, LinkDown, LinkUp, Transit,
             Calm, Happens, vars
    <2>3. /\ eip' \in Lvms \cup {Nobody} /\ route' \in Lvms \cup {Nobody}
          /\ pair' = pair /\ link' \in BOOLEAN /\ moves' \in {moves, moves + 1}
      <3>1. ASSUME NEW n \in Lvms, Notify(n)
            PROVE  /\ eip' \in {eip, n} /\ route' \in {route, n}
                   /\ pair' = pair /\ link' = link /\ moves' = moves
        BY <3>1 DEF Notify, associate_eip, upsert_route, WriteMaster, run_notify_backup,
                    awsVars
      <3>2. ASSUME NEW n \in Lvms,
                   Elect(n) \/ Yield(n) \/ InterfaceDown(n) \/ Up(n) \/ run_boot(n) \/ Crash(n)
            PROVE  UNCHANGED <<eip, route, pair, link>> /\ moves' \in {moves, moves + 1}
        BY <3>2 DEF Elect, Yield, InterfaceDown, Up, run_boot, Crash, awsVars
      <3>3. CASE LinkDown \/ LinkUp
        BY <3>3 DEF LinkDown, LinkUp, awsVars
      <3>4. CASE UNCHANGED vars
        BY <3>4 DEF vars, awsVars
      <3>. QED  BY <3>1, <3>2, <3>3, <3>4 DEF Next
    <2>4. moves' \in Nat
      BY <2>3
    <2>. QED  BY <2>1, <2>2, <2>3, <2>4
  <1>. QED  BY <1>1, <1>2, PTL DEF Spec

=============================================================================
