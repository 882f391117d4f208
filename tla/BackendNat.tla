------------------------------ MODULE BackendNat ------------------------------
(***************************************************************************)
(* The per-site part of nftables' ipsecnode bnat table (ipsecnode vpp.rs): *)
(* the map from customer views to backends and its PREROUTING rule, the    *)
(* port splits of the access server, the SNAT rules and the FTP helper,    *)
(* installed command by command at the end of a site's setup and removed   *)
(* at the start of its teardown.  Only rules whose handle nft has printed  *)
(* can be deleted; a map or chain in use cannot.                           *)
(***************************************************************************)
EXTENDS Naturals, Sequences, FiniteSets

CONSTANTS
    Sites,        \* peers, by their XFRM if_id
    Roles,        \* Roles[p]: of p's backend_nat record, those with a real_ip
    Splits,       \* the access server has port splits in ipsecnode.toml
    Faults,       \* what may go wrong: a subset of AllFaults
    MaxFailures   \* bound: steps with a failed command

\* The failures the code meets:
\*   setup     a command that ends setup_site_vrf fails
\*   device    a command of one device's NAT fails
\*   route_del the route del before a device's route add fails, unnoticed
\*   bnat      an nft command of setup_site_bnat fails
\*   cleanup   a delete of setup_site_bnat's own clean-up fails, and is logged
\*   handle    nft adds a rule but prints no handle that can be parsed
\*   teardown  a command of a teardown fails
\*   crash     ipsecnode stops while a site is up or being handled
AllFaults ==
    {"setup", "device", "route_del", "bnat", "cleanup", "handle", "teardown", "crash"}

ASSUME BackendAssumption ==
    /\ Roles \in [Sites -> SUBSET {"access_server", "sd_server"}]
    /\ Splits \in BOOLEAN
    /\ Faults \subseteq AllFaults
    /\ MaxFailures \in Nat

VARIABLES
    pc,        \* the command that runs next, "idle" between handlers
    site,      \* the site of the handler under way
    maps,      \* nft maps <<"bnat", p>> and <<"bsnat", p>>
    chains,    \* sites whose split chain exists
    rules,     \* rules[c]: the rules of base chain c, in order
    bnat,      \* bnat[p]: SiteBnatState, as the set of what teardown will remove
    failures, happened

bnatVars == <<maps, chains, rules, bnat>>

BaseChains == {"prerouting", "postrouting", "helperpre"}

\* What SiteBnatState can name; teardown_site_bnat removes them in this order
TeardownOrder == <<"sdem", "access", "bsnat", "dnat", "helper", "jump", "chain", "bnat">>
Items == {TeardownOrder[i] : i \in DOMAIN TeardownOrder}

ChainOf == [sdem |-> "postrouting", access |-> "postrouting", helper |-> "helperpre",
            dnat |-> "prerouting", jump |-> "prerouting"]

\* known: the process holds the rule's handle
Rule == [kind : DOMAIN ChainOf, site : Sites, known : BOOLEAN]

Fail(f) ==
    /\ f \in Faults /\ failures < MaxFailures
    /\ failures' = failures + 1 /\ happened' = happened \cup {f}
FailBoth(f, g) ==
    /\ {f, g} \subseteq Faults /\ failures < MaxFailures
    /\ failures' = failures + 1 /\ happened' = happened \cup {f, g}
NoFail == UNCHANGED <<failures, happened>>

BnatTypeOK ==
    /\ maps \subseteq {"bnat", "bsnat"} \X Sites
    /\ chains \subseteq Sites
    /\ rules \in [BaseChains -> Seq(Rule)]
    /\ bnat \in [Sites -> SUBSET Items]
    /\ failures \in 0 .. MaxFailures /\ happened \subseteq Faults

BnatInit ==
    /\ maps = {} /\ chains = {}
    /\ rules = [c \in BaseChains |-> <<>>]
    /\ bnat = [p \in Sites |-> {}]
    /\ failures = 0 /\ happened = {}

RulesOf(p) ==
    {r \in UNION {{rules[c][i] : i \in DOMAIN rules[c]} : c \in BaseChains} : r.site = p}

Uses(kind, p) == \E r \in RulesOf(p) : r.kind = kind

-----------------------------------------------------------------------------
\* setup_site_bnat

Learn(items) == bnat' = [bnat EXCEPT ![site] = @ \cup items]

\* `nft --echo --handle add rule`, then parse_nft_handle
AddRule(kind, learnt, ok, bad) ==
    LET Added(known) == rules' = [rules EXCEPT ![ChainOf[kind]] =
            Append(@, [kind |-> kind, site |-> site, known |-> known])]
    IN  /\ \/ NoFail /\ Added(TRUE) /\ Learn(learnt) /\ pc' = ok
           \/ Fail("handle") /\ Added(FALSE) /\ pc' = bad /\ UNCHANGED bnat
           \/ Fail("bnat") /\ pc' = bad /\ UNCHANGED <<rules, bnat>>
        /\ UNCHANGED <<maps, chains>>

\* `add map` (idempotent), `add chain` with its rules
Create(created, ok, bad) ==
    \/ NoFail /\ created /\ pc' = ok
    \/ Fail("bnat") /\ UNCHANGED <<maps, chains>> /\ pc' = bad

Skip(next) == pc' = next /\ NoFail /\ UNCHANGED bnatVars

create_map ==
    /\ pc = "create_map"
    /\ IF Roles[site] = {} THEN Skip("commit")
       ELSE /\ Create(maps' = maps \cup {<<"bnat", site>>} /\ UNCHANGED chains,
                      "elements", "commit")
            /\ UNCHANGED <<rules, bnat>>

\* The failure is that of every element: nothing is kept
elements ==
    /\ pc = "elements"
    /\ \/ NoFail /\ Learn({"bnat"}) /\ pc' = "split_chain"
       \/ Fail("bnat") /\ pc' = "drop_map" /\ UNCHANGED bnat
    /\ UNCHANGED <<maps, chains, rules>>

\* A delete (nft_warn) that fails is logged; a map or chain that a rule uses
\* cannot be deleted
DropMap(kind, user, next) ==
    /\ \/ NoFail /\ maps' = IF Uses(user, site) THEN maps ELSE maps \ {<<kind, site>>}
       \/ Fail("cleanup") /\ UNCHANGED maps
    /\ pc' = next /\ UNCHANGED <<chains, rules, bnat>>

drop_map == pc = "drop_map" /\ DropMap("bnat", "dnat", "commit")

\* add_bnat_splits
split_chain ==
    /\ pc = "split_chain"
    /\ IF "access_server" \in Roles[site] /\ Splits
       THEN /\ Create(chains' = chains \cup {site} /\ UNCHANGED maps,
                      "split_jump", "dnat_rule")
            /\ UNCHANGED <<rules, bnat>>
       ELSE Skip("dnat_rule")

split_jump == pc = "split_jump" /\ AddRule("jump", {"chain", "jump"}, "dnat_rule", "drop_chain")

drop_chain ==
    /\ pc = "drop_chain"
    /\ \/ NoFail /\ chains' = IF Uses("jump", site) THEN chains ELSE chains \ {site}
       \/ Fail("cleanup") /\ UNCHANGED chains
    /\ pc' = "dnat_rule" /\ UNCHANGED <<maps, rules, bnat>>

dnat_rule == pc = "dnat_rule" /\ AddRule("dnat", {"dnat"}, "snat_map", "snat_map")

\* add_bnat_snat
snat_map ==
    /\ pc = "snat_map"
    /\ IF "sd_server" \in Roles[site]
       THEN /\ Create(maps' = maps \cup {<<"bsnat", site>>} /\ UNCHANGED chains,
                      "snat_rule", "access_rule")
            /\ UNCHANGED <<rules, bnat>>
       ELSE Skip("access_rule")

snat_rule == pc = "snat_rule" /\ AddRule("sdem", {"sdem", "bsnat"}, "access_rule", "drop_snat")

drop_snat == pc = "drop_snat" /\ DropMap("bsnat", "sdem", "access_rule")

access_rule ==
    /\ pc = "access_rule"
    /\ IF "access_server" \in Roles[site]
       THEN AddRule("access", {"access"}, "ftp_helper", "ftp_helper")
       ELSE Skip("commit")

\* add_bnat_ftp_helper
ftp_helper == pc = "ftp_helper" /\ AddRule("helper", {"helper"}, "commit", "commit")

setup_site_bnat ==
    \/ create_map \/ elements \/ drop_map \/ split_chain \/ split_jump \/ drop_chain \/ dnat_rule
    \/ snat_map \/ snat_rule \/ drop_snat \/ access_rule \/ ftp_helper

-----------------------------------------------------------------------------
\* teardown_site_bnat

\* (fault: the default rule is not deleted)
RemainingNoDnat ==
    IF "bnat" \notin bnat[site] THEN {}
    ELSE {i \in DOMAIN TeardownOrder : TeardownOrder[i] \in bnat[site] \ {"dnat"}}

\* It returns at once if setup gave the map up; otherwise what is left to remove
Remaining ==
    IF "bnat" \notin bnat[site] THEN {}
    ELSE {i \in DOMAIN TeardownOrder : TeardownOrder[i] \in bnat[site]}

\* `delete rule ... handle N`: the rule whose handle is kept goes, or its handle
\* is forgotten
ForgetRule(kind, gone) ==
    LET old == rules[ChainOf[kind]]
        at  == CHOOSE i \in DOMAIN old : old[i].kind = kind /\ old[i].site = site /\ old[i].known
    IN  rules' = [rules EXCEPT ![ChainOf[kind]] =
            IF gone THEN SubSeq(old, 1, at - 1) \o SubSeq(old, at + 1, Len(old))
            ELSE [old EXCEPT ![at].known = FALSE]]

\* The command removes item unless it fails or something still uses it
RemoveItem(item, gone) ==
    /\ IF item \in DOMAIN ChainOf THEN ForgetRule(item, gone) ELSE UNCHANGED rules
    /\ maps' = IF gone /\ (\/ item = "bnat" /\ ~Uses("dnat", site)
                           \/ item = "bsnat" /\ ~Uses("sdem", site))
               THEN maps \ {<<item, site>>} ELSE maps
    /\ chains' = IF gone /\ item = "chain" /\ ~Uses("jump", site)
                 THEN chains \ {site} ELSE chains
    /\ bnat' = [bnat EXCEPT ![site] = @ \ {item}]

teardown_site_bnat ==
    /\ pc = "bnat_down"
    /\ IF Remaining = {}
       THEN /\ bnat' = [bnat EXCEPT ![site] = {}]
            /\ pc' = "devices_down" /\ NoFail /\ UNCHANGED <<maps, chains, rules>>
       ELSE /\ LET first == TeardownOrder[CHOOSE i \in Remaining : \A j \in Remaining : i <= j]
               IN  \/ NoFail /\ RemoveItem(first, TRUE)
                   \/ Fail("teardown") /\ RemoveItem(first, FALSE)
            /\ UNCHANGED pc

-----------------------------------------------------------------------------
\* Nothing of p is left in the table.
BnatLeft(p) ==
    {m \in {"bnat", "bsnat"} : <<m, p>> \in maps}
    \cup {k \in {"chain"} : p \in chains} \cup {r.kind : r \in RulesOf(p)}

\* The port splits of a site are matched before its default mapping, also when
\* the site comes and goes: conntrack applies the first translation, so a
\* default rule left from an earlier life would divert the split ports.  Only a
\* rule that could not be deleted spoils the order.
SplitsFirst ==
    happened \cap {"handle", "teardown"} = {} =>
    \A i, j \in DOMAIN rules["prerouting"] :
        LET r == rules["prerouting"][i]
            s == rules["prerouting"][j]
        IN  r.site = s.site /\ r.kind = "jump" /\ s.kind = "dnat" => i < j

=============================================================================
